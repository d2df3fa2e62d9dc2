------------------------- MODULE ChannelSync_proofs -------------------------
(***************************************************************************)
(* Proofs about ChannelSync, for every number of calls, messages and       *)
(* faults.                                                                 *)
(***************************************************************************)
EXTENDS ChannelSync, FiniteSetTheorems, TLAPS

-----------------------------------------------------------------------------
(***************************************************************************)
(* Pages.                                                                  *)
(***************************************************************************)
LEMMA IdsFacts ==
  /\ Ids \subseteq Nat \ {0}
  /\ IsFiniteSet(Ids)
  /\ Cardinality(Ids) = MaxId
<1>1. MaxId \in Nat \ {0}
  BY StoreAssumption
<1>2. IsFiniteSet(1 .. MaxId) /\ Cardinality(1 .. MaxId) = MaxId
  BY <1>1, FS_Interval
<1> QED BY <1>1, <1>2 DEF Ids

\* A non-empty set of ids has a largest member.
LEMMA LargestId ==
  ASSUME NEW S \in SUBSET Ids, S # {}
  PROVE  \E m \in S : \A k \in S : k <= m
<1> DEFINE Up(m) == {k \in S : k >= m}
           Ups == {Up(m) : m \in S}
<1>1. S \subseteq Nat
  BY IdsFacts
<1>2. IsFiniteSet(S)
  BY IdsFacts, FS_Subset
<1>3. IsWellFoundedOn(StrictSubsetOrdering(S), FiniteSubsetsOf(S))
  BY FS_StrictSubsetOrderingWellFounded
<1>4. Ups \subseteq FiniteSubsetsOf(S) /\ Ups # {}
  <2>1. FiniteSubsetsOf(S) = SUBSET S
    BY <1>2, FS_FiniteSubsetsOfFinite
  <2>2. \A m \in S : Up(m) \in SUBSET S
    OBVIOUS
  <2>3. Ups \subseteq SUBSET S
    BY <2>2
  <2>4. Ups # {}
    OBVIOUS
  <2> QED BY <2>1, <2>3, <2>4
<1>5. PICK U \in Ups : \A V \in Ups : ~(<<V, U>> \in StrictSubsetOrdering(S))
  <2> HIDE DEF Ups
  <2> QED BY <1>3, <1>4, WFMin
<1>6. PICK m \in S : U = Up(m)
  BY <1>5
<1>7. ASSUME NEW k \in S, ~(k <= m) PROVE FALSE
  <2>1. k \in Nat /\ m \in Nat /\ k > m
    BY <1>1, <1>7
  <2>2. \A j \in S : j >= k => j >= m
    BY <2>1, <1>1
  <2>3. Up(k) \subseteq Up(m)
    BY <2>2
  <2>4. m \in Up(m) /\ m \notin Up(k)
    BY <2>1
  <2>5. <<Up(k), Up(m)>> \in StrictSubsetOrdering(S)
    BY <2>3, <2>4 DEF StrictSubsetOrdering
  <2> QED BY <2>5, <1>5, <1>6
<1> QED BY <1>7

\* A page holds every eligible message above its members.
LEMMA PageUpward ==
  ASSUME NEW S \in SUBSET Ids, NEW n \in Nat,
         NEW p \in Newest(S, n), NEW m \in S, p <= m
  PROVE  m \in Newest(S, n)
<1> DEFINE Above(k) == {j \in S : j > k}
<1>0. S \subseteq Nat /\ p \in S
  BY IdsFacts DEF Newest
<1>1. IsFiniteSet(Above(p))
  <2>1. Above(p) \in SUBSET Ids
    OBVIOUS
  <2> QED BY <2>1, IdsFacts, FS_Subset
<1>2. Above(m) \subseteq Above(p)
  <2>1. \A j \in S : j > m => j > p
    BY <1>0
  <2> QED BY <2>1
<1>3. /\ Cardinality(Above(m)) \in Nat
      /\ Cardinality(Above(p)) \in Nat
      /\ Cardinality(Above(m)) <= Cardinality(Above(p))
  BY <1>1, <1>2, FS_Subset, FS_CardinalityType
<1>4. Cardinality(Above(p)) < n
  BY DEF Newest
<1>5. Cardinality(Above(m)) < n
  BY <1>3, <1>4
<1> QED BY <1>5 DEF Newest

\* A page that is not full holds every eligible message.
LEMMA PageComplete ==
  ASSUME NEW S \in SUBSET Ids, NEW n \in Nat,
         ~(Cardinality(Newest(S, n)) >= n)
  PROVE  Newest(S, n) = S
<1> DEFINE P == Newest(S, n)
           Left == S \ P
<1> SUFFICES ASSUME Left # {} PROVE FALSE
  BY DEF Newest
<1>1. PICK m \in Left : \A k \in Left : k <= m
  BY LargestId
<1> DEFINE Above == {k \in S : k > m}
<1>2. Above \subseteq P
  <2> SUFFICES ASSUME NEW j \in S, j > m, j \notin P PROVE FALSE
    OBVIOUS
  <2>1. j \in Left /\ j \in Nat /\ m \in Nat
    BY IdsFacts
  <2> QED BY <2>1, <1>1
<1>3. IsFiniteSet(P)
  <2>1. P \in SUBSET Ids
    BY DEF Newest
  <2> QED BY <2>1, IdsFacts, FS_Subset
<1>4. /\ Cardinality(Above) \in Nat /\ Cardinality(P) \in Nat
      /\ Cardinality(Above) <= Cardinality(P)
  BY <1>2, <1>3, FS_Subset, FS_CardinalityType
<1>5. ~(Cardinality(Above) < n)
  BY <1>1 DEF Newest
<1> QED BY <1>4, <1>5

\* The number of documents bounds the creation rank of a new one.
LEMMA BornBound ==
  ASSUME NEW m \in Ids, ~HasDoc(m)
  PROVE  Cardinality({k \in Ids : HasDoc(k)}) + 1 \in 0 .. MaxId
<1> DEFINE D == {k \in Ids : HasDoc(k)}
<1>1. IsFiniteSet(Ids) /\ Cardinality(Ids) = MaxId
  BY IdsFacts
<1>2. D \subseteq Ids /\ D # Ids
  OBVIOUS
<1>3. Cardinality(D) \in Nat /\ Cardinality(D) <= MaxId /\ Cardinality(D) # MaxId
  BY <1>1, <1>2, FS_Subset, FS_CardinalityType
<1> QED BY <1>3, StoreAssumption
-----------------------------------------------------------------------------
(***************************************************************************)
(* The locals of a call.                                                   *)
(***************************************************************************)
Pcs == Working \cup Ended
Quiet == Pcs \ (Processing \cup {"upsert"})

LEMMA BlankFacts ==
  ASSUME NEW pc \in Quiet
  PROVE  /\ Blank(pc) \in CallRow
         /\ InPage(Blank(pc)) = {}
         /\ Blank(pc).pc = pc /\ Blank(pc).min = 0 /\ Blank(pc).seen = 0
         /\ Blank(pc).next = 0 /\ Blank(pc).cursor = 0 /\ Blank(pc).index = 1
<1>1. EmptyPage \in [Ids -> Bodies \cup {NoText}]
  BY DEF EmptyPage
<1>2. MaxId \in Nat /\ 1 \in 1 .. MaxChunks
  BY StoreAssumption
<1> QED BY <1>1, <1>2 DEF Blank, CallRow, Pcs, Quiet, InPage, EmptyPage

\* A blank call satisfies the shape in any state; the statement is primed
\* because calls become blank by a step.
LEMMA BlankShape ==
  ASSUME NEW pc \in Quiet \ {"fetch"}
  PROVE  CallShape(Blank(pc))'
BY BlankFacts DEF CallShape, Quiet

\* What MessageDone makes of the locals.
LEMMA MessageDoneFacts ==
  ASSUME NEW c \in CallRow, NEW m \in InPage(c)
  PROVE  LET n == MessageDone(c, m) IN
         /\ n \in CallRow
         /\ n.pc \in {"upsert", "progress"}
         /\ n.pc = "progress" => InPage(n) = {}
         /\ n.pc = "upsert" => InPage(n) = InPage(c) \ {m}
         /\ n.next = c.next /\ n.cursor = c.cursor /\ n.min = c.min
         /\ n.limit = c.limit /\ n.index = 1
         /\ n.seen = IF m > c.seen THEN m ELSE c.seen
         /\ c.limit = 0 => InPage(n) = InPage(c) \ {m}
<1> DEFINE more == InPage(c) \ {m} # {} /\ ~LimitReached(c.limit, c.fetched + 1)
<1>1. EmptyPage \in [Ids -> Bodies \cup {NoText}] /\ NoText \notin Bodies
  BY StoreAssumption DEF EmptyPage, Bodies
<1>2. MaxId \in Nat /\ 1 \in 1 .. MaxChunks /\ m \in Ids /\ Ids \subseteq 0 .. MaxId
  BY StoreAssumption DEF InPage, Ids
<1>3. c.page \in [Ids -> Bodies \cup {NoText}] /\ c.fetched \in Nat
  BY DEF CallRow
<1>4. [c.page EXCEPT ![m] = NoText] \in [Ids -> Bodies \cup {NoText}]
  BY <1>3
<1>5. InPage(c) \ {m} = {k \in Ids : [c.page EXCEPT ![m] = NoText][k] # NoText}
  BY <1>2, <1>3 DEF InPage
<1>6. c.limit = 0 => (more <=> InPage(c) \ {m} # {})
  BY DEF LimitReached
<1>7. {k \in Ids : EmptyPage[k] # NoText} = {}
  BY DEF EmptyPage
<1>8. MessageDone(c, m) =
        [c EXCEPT !.pc = IF more THEN "upsert" ELSE "progress",
                  !.page = IF more THEN [c.page EXCEPT ![m] = NoText]
                           ELSE EmptyPage,
                  !.msg = 0, !.canon = 0, !.index = 1,
                  !.fetched = c.fetched + 1,
                  !.seen = IF m > c.seen THEN m ELSE c.seen]
  BY DEF MessageDone
<1> HIDE DEF more
<1>9. MessageDone(c, m) \in CallRow
  <2> DEFINE pc == IF more THEN "upsert" ELSE "progress"
             page == IF more THEN [c.page EXCEPT ![m] = NoText] ELSE EmptyPage
             seen == IF m > c.seen THEN m ELSE c.seen
             fetched == c.fetched + 1
  <2>1. pc \in Working \cup Ended
    BY DEF Working
  <2>2. page \in [Ids -> Bodies \cup {NoText}]
    BY <1>1, <1>4
  <2>3. seen \in 0 .. MaxId
    BY <1>2 DEF CallRow
  <2>4. fetched \in Nat
    BY <1>3
  <2>5. 0 \in 0 .. MaxId /\ 1 \in 1 .. MaxChunks
    BY <1>2
  <2>6. MessageDone(c, m) =
          [c EXCEPT !.pc = pc, !.page = page, !.msg = 0, !.canon = 0,
                    !.index = 1, !.fetched = fetched, !.seen = seen]
    BY <1>8
  <2> HIDE DEF pc, page, seen, fetched
  <2> QED BY <2>1, <2>2, <2>3, <2>4, <2>5, <2>6 DEF CallRow
<1>10. MessageDone(c, m).page = IF more THEN [c.page EXCEPT ![m] = NoText]
                                ELSE EmptyPage
  BY <1>8 DEF CallRow
<1>11. InPage(MessageDone(c, m)) = IF more THEN InPage(c) \ {m} ELSE {}
  BY <1>5, <1>7, <1>10 DEF InPage
<1> QED BY <1>6, <1>8, <1>9, <1>11 DEF CallRow

\* A message that was stored and dealt with leaves the shape intact.
LEMMA MessageDoneShape ==
  ASSUME NEW c \in CallRow, NEW m \in InPage(c), CallShape(c)', Stored(m)'
  PROVE  CallShape(MessageDone(c, m))'
<1> DEFINE n == MessageDone(c, m)
<1>1. /\ n.pc \in {"upsert", "progress"}
      /\ n.pc = "progress" => InPage(n) = {}
      /\ n.next = c.next /\ n.cursor = c.cursor /\ n.index = 1
      /\ n.seen = IF m > c.seen THEN m ELSE c.seen
  BY MessageDoneFacts
<1> HIDE DEF n
<1>2. n.seen # 0 => Stored(n.seen)'
  BY <1>1 DEF CallShape
<1>3. CallShape(n)'
  BY <1>1, <1>2 DEF CallShape, Processing
<1> QED BY <1>3 DEF n
-----------------------------------------------------------------------------
(***************************************************************************)
(* Type correctness, together with the shape of the locals.                *)
(***************************************************************************)
TypeInv == TypeOK /\ \A w \in Syncs : CallShape(call[w])

TablesTyped ==
  /\ StoreTypeOK
  /\ channel \in [Ids -> Bodies \cup {NoText}]
  /\ head \in 0 .. MaxId
  /\ src \in [status: {"active", "error"}, watermark: 0 .. MaxId]
  /\ job \in [Syncs -> JobRow]
  /\ cancelled \subseteq Syncs
  /\ spent \in SpentRow

\* No step forgets a stored message.
StoredGrows == \A m \in Ids : Stored(m) => Stored(m)'

\* A step that moves call w, to locals of the right shape.
CallMoves(w) ==
  \E n \in CallRow : call' = [call EXCEPT ![w] = n] /\ CallShape(n)'

\* What a step of call w does, as far as types are concerned.
GoodStep(w) == TablesTyped' /\ StoredGrows /\ CallMoves(w)

LEMMA ShapeStable ==
  ASSUME NEW c \in CallRow, CallShape(c), StoredGrows
  PROVE  CallShape(c)'
<1>1. c.seen # 0 => c.seen \in Ids
  BY StoreAssumption DEF CallRow, Ids
<1> QED BY <1>1 DEF CallShape, StoredGrows, Body, InPage

LEMMA GoodStepKeeps ==
  ASSUME TypeInv, NEW w \in Syncs, GoodStep(w)
  PROVE  TypeInv'
<1>1. PICK n \in CallRow : call' = [call EXCEPT ![w] = n] /\ CallShape(n)'
  BY DEF GoodStep, CallMoves
<1>2. call \in [Syncs -> CallRow]
  BY DEF TypeInv, TypeOK
<1>3. call' \in [Syncs -> CallRow]
  BY <1>1, <1>2
<1>4. TypeOK'
  BY <1>3 DEF GoodStep, TablesTyped, TypeOK
<1>5. ASSUME NEW v \in Syncs PROVE CallShape(call[v])'
  <2>1. CASE v = w
    <3>1. call'[v] = n
      BY <1>1, <1>2, <2>1
    <3> QED BY <3>1, <1>1 DEF CallShape, Body, InPage
  <2>2. CASE v # w
    <3>1. call'[v] = call[v] /\ call[v] \in CallRow /\ CallShape(call[v])
      BY <1>1, <1>2, <2>2 DEF TypeInv
    <3>2. StoredGrows
      BY DEF GoodStep
    <3> QED BY <3>1, <3>2, ShapeStable DEF CallShape, Body, InPage
  <2> QED BY <2>1, <2>2
<1> QED BY <1>4, <1>5 DEF TypeInv

LEMMA FaultTyped ==
  ASSUME spent \in SpentRow, Fault
  PROVE  spent' \in SpentRow
BY DEF SpentRow, Fault

\* The two ways a settled statement can go.
LEMMA SettleMoves ==
  ASSUME TypeInv, NEW w \in Syncs, NEW n \in CallRow,
         NEW onError \in {"failed", "failJob"},
         Settle(w, n, onError), CallShape(n)'
  PROVE  CallMoves(w) /\ spent' \in SpentRow
<1>1. onError \in Quiet \ {"fetch"}
  BY DEF Quiet, Pcs, Working, Ended, Processing
<1>2. Blank(onError) \in CallRow /\ CallShape(Blank(onError))'
  BY <1>1, BlankFacts, BlankShape
<1>3. spent \in SpentRow
  BY DEF TypeInv, TypeOK
<1>4. CASE call' = [call EXCEPT ![w] = n] /\ UNCHANGED spent
  BY <1>3, <1>4 DEF CallMoves
<1>5. CASE call' = [call EXCEPT ![w] = Blank(onError)] /\ Fault
  BY <1>2, <1>3, <1>5, FaultTyped DEF CallMoves
<1> QED BY <1>4, <1>5 DEF Settle

\* Going blank, with the tables as they were.
LEMMA BlankMoves ==
  ASSUME NEW w \in Syncs, NEW pc \in Quiet \ {"fetch"},
         call' = [call EXCEPT ![w] = Blank(pc)]
  PROVE  CallMoves(w)
BY BlankFacts, BlankShape DEF CallMoves

\* What may be assumed of the call that moves; c is its locals before the step.
LEMMA CallFacts ==
  ASSUME TypeInv, NEW w \in Syncs
  PROVE  /\ TablesTyped
         /\ \E c \in CallRow : /\ c = call[w]
                               /\ CallShape(c)
                               /\ StoredGrows => CallShape(c)'
<1>1. call[w] \in CallRow /\ CallShape(call[w])
  BY DEF TypeInv, TypeOK
<1>2. PICK c \in CallRow : c = call[w]
  BY <1>1
<1>3. StoredGrows => CallShape(c)'
  BY <1>1, <1>2, ShapeStable
<1> QED BY <1>1, <1>2, <1>3 DEF TypeInv, TypeOK, TablesTyped

-----------------------------------------------------------------------------
(* One lemma per action of a call. *)

LEMMA GoodSettle ==
  ASSUME TypeInv, NEW w \in Syncs, NEW n \in CallRow,
         NEW onError \in {"failed", "failJob"}, Settle(w, n, onError),
         CallShape(n)', StoredGrows, spent' \in SpentRow => TablesTyped'
  PROVE  GoodStep(w)
BY SettleMoves DEF GoodStep

\* A step that writes no table but jobs.
LEMMA JobStepTyped ==
  ASSUME TypeInv, job' \in [Syncs -> JobRow], spent' \in SpentRow,
         UNCHANGED <<storeVars, channelVars, src, cancelled>>
  PROVE  TablesTyped'
BY DEF TypeInv, TypeOK, TablesTyped, StoreTypeOK, storeVars, channelVars

LEMMA GetSourceGood ==
  ASSUME TypeInv, NEW w \in Syncs, NEW full \in Resyncs, NEW limit \in Limits,
         GetSource(w, full, limit)
  PROVE  GoodStep(w)
<1>1. Blank("createJob") \in CallRow /\ CallShape(Blank("createJob"))'
  BY BlankFacts, BlankShape DEF Quiet, Pcs, Working, Ended, Processing
<1>2. src.watermark \in 0 .. MaxId /\ 0 \in 0 .. MaxId
  BY StoreAssumption DEF TypeInv, TypeOK
<1>3. PICK k \in 0 .. MaxId : k = IF full THEN 0 ELSE src.watermark
  BY <1>2
<1> DEFINE n == [Blank("createJob") EXCEPT !.min = k, !.limit = limit]
<1>4. n \in CallRow
  BY <1>1 DEF CallRow
<1>5. CallShape(n)'
  BY <1>1, <1>4 DEF CallShape, CallRow, Body, InPage
<1>6. call' = [call EXCEPT ![w] = n]
  BY <1>3 DEF GetSource
<1>7. TablesTyped' /\ StoredGrows
  BY CallFacts DEF GetSource, TablesTyped, StoreTypeOK, storeVars, channelVars,
     StoredGrows, Stored
<1> HIDE DEF n
<1> QED BY <1>4, <1>5, <1>6, <1>7 DEF GoodStep, CallMoves

LEMMA CreateJobGood ==
  ASSUME TypeInv, NEW w \in Syncs, CreateJob(w)
  PROVE  GoodStep(w)
<1>1. StoredGrows
  BY DEF CreateJob, storeVars, StoredGrows, Stored
<1>2. PICK c \in CallRow : c = call[w] /\ CallShape(c) /\ CallShape(c)'
  BY <1>1, CallFacts
<1> DEFINE n == [c EXCEPT !.pc = "runJob"]
<1>3. n \in CallRow
  BY DEF CallRow, Working
<1>4. CallShape(n)'
  BY <1>2 DEF CallShape, CallRow, Body, InPage, CreateJob, At, Processing
<1>5. Settle(w, n, "failed")
  BY <1>2 DEF CreateJob
<1>6. job' \in [Syncs -> JobRow]
  BY <1>2 DEF CreateJob, TypeInv, TypeOK, JobRow, CallRow
<1>7. spent' \in SpentRow => TablesTyped'
  BY <1>6, JobStepTyped DEF CreateJob
<1> HIDE DEF n
<1> QED BY <1>1, <1>3, <1>4, <1>5, <1>7, GoodSettle

LEMMA UpdateJobRunningGood ==
  ASSUME TypeInv, NEW w \in Syncs, UpdateJobRunning(w)
  PROVE  GoodStep(w)
<1>1. StoredGrows
  BY DEF UpdateJobRunning, storeVars, StoredGrows, Stored
<1>2. PICK c \in CallRow : c = call[w] /\ CallShape(c) /\ CallShape(c)'
  BY <1>1, CallFacts
<1> DEFINE n == [c EXCEPT !.pc = "resolve"]
<1>3. n \in CallRow
  BY DEF CallRow, Working
<1>4. CallShape(n)'
  BY <1>2 DEF CallShape, CallRow, Body, InPage, UpdateJobRunning, At, Processing
<1>5. Settle(w, n, "failed")
  BY <1>2 DEF UpdateJobRunning
<1>6. job' \in [Syncs -> JobRow]
  BY <1>2 DEF UpdateJobRunning, TypeInv, TypeOK, JobRow, CallRow
<1>7. spent' \in SpentRow => TablesTyped'
  BY <1>6, JobStepTyped DEF UpdateJobRunning
<1> HIDE DEF n
<1> QED BY <1>1, <1>3, <1>4, <1>5, <1>7, GoodSettle

LEMMA ResolveGood ==
  ASSUME TypeInv, NEW w \in Syncs, Resolve(w)
  PROVE  GoodStep(w)
<1>1. StoredGrows
  BY DEF Resolve, storeVars, StoredGrows, Stored
<1>2. PICK c \in CallRow : c = call[w] /\ CallShape(c) /\ CallShape(c)'
  BY <1>1, CallFacts
<1> DEFINE n == [c EXCEPT !.pc = "fetch"]
<1>3. n \in CallRow
  BY DEF CallRow, Working
<1>4. CallShape(n)'
  BY <1>2 DEF CallShape, CallRow, Body, InPage, Resolve, At, Processing
<1>5. call' = [call EXCEPT ![w] = n]
  BY <1>2 DEF Resolve
<1>6. TablesTyped'
  BY CallFacts DEF Resolve, TablesTyped, StoreTypeOK, storeVars, channelVars
<1> HIDE DEF n
<1> QED BY <1>1, <1>3, <1>4, <1>5, <1>6 DEF GoodStep, CallMoves

LEMMA StopFetchingGood ==
  ASSUME TypeInv, NEW w \in Syncs, StopFetching(w)
  PROVE  GoodStep(w)
<1>1. StoredGrows
  BY DEF StopFetching, storeVars, StoredGrows, Stored
<1>2. PICK c \in CallRow : c = call[w] /\ CallShape(c) /\ CallShape(c)'
  BY <1>1, CallFacts
<1> DEFINE n == [c EXCEPT !.pc = "total"]
<1>3. n \in CallRow
  BY DEF CallRow, Working
<1>4. CallShape(n)'
  BY <1>2 DEF CallShape, CallRow, Body, InPage, StopFetching, At, Processing
<1>5. call' = [call EXCEPT ![w] = n]
  BY <1>2 DEF StopFetching
<1>6. TablesTyped'
  BY CallFacts DEF StopFetching, TablesTyped, StoreTypeOK, storeVars, channelVars
<1> HIDE DEF n
<1> QED BY <1>1, <1>3, <1>4, <1>5, <1>6 DEF GoodStep, CallMoves

LEMMA UpdateJobTotalGood ==
  ASSUME TypeInv, NEW w \in Syncs, UpdateJobTotal(w)
  PROVE  GoodStep(w)
<1>1. StoredGrows
  BY DEF UpdateJobTotal, storeVars, StoredGrows, Stored
<1>2. PICK c \in CallRow : c = call[w] /\ CallShape(c) /\ CallShape(c)'
  BY <1>1, CallFacts
<1> DEFINE n == [c EXCEPT !.pc = "complete"]
<1>3. n \in CallRow
  BY DEF CallRow, Working
<1>4. CallShape(n)'
  BY <1>2 DEF CallShape, CallRow, Body, InPage, UpdateJobTotal, At, Processing
<1>5. Settle(w, n, "failJob")
  BY <1>2 DEF UpdateJobTotal
<1>6. job' \in [Syncs -> JobRow]
  <2>1. job \in [Syncs -> JobRow] /\ job[w] \in JobRow
    BY DEF TypeInv, TypeOK
  <2>2. c.fetched \in Nat
    BY DEF CallRow
  <2>3. [job[w] EXCEPT !.done = c.fetched, !.total = c.fetched] \in JobRow
    BY <2>1, <2>2 DEF JobRow
  <2> QED BY <1>2, <2>1, <2>3 DEF UpdateJobTotal, SetProgress
<1>7. spent' \in SpentRow => TablesTyped'
  BY <1>6, JobStepTyped DEF UpdateJobTotal
<1> HIDE DEF n
<1> QED BY <1>1, <1>3, <1>4, <1>5, <1>7, GoodSettle

LEMMA CompleteJobGood ==
  ASSUME TypeInv, NEW w \in Syncs, CompleteJob(w)
  PROVE  GoodStep(w)
<1>1. StoredGrows
  BY DEF CompleteJob, storeVars, StoredGrows, Stored
<1>2. PICK c \in CallRow : c = call[w] /\ CallShape(c) /\ CallShape(c)'
  BY <1>1, CallFacts
<1> DEFINE n == [c EXCEPT !.pc = "mark"]
<1>3. n \in CallRow
  BY DEF CallRow, Working
<1>4. CallShape(n)'
  BY <1>2 DEF CallShape, CallRow, Body, InPage, CompleteJob, At, Processing
<1>5. Settle(w, n, "failJob")
  BY <1>2 DEF CompleteJob
<1>6. job' \in [Syncs -> JobRow]
  BY <1>2 DEF CompleteJob, TypeInv, TypeOK, JobRow, CallRow
<1>7. spent' \in SpentRow => TablesTyped'
  BY <1>6, JobStepTyped DEF CompleteJob
<1> HIDE DEF n
<1> QED BY <1>1, <1>3, <1>4, <1>5, <1>7, GoodSettle

LEMMA UpdateJobProgressGood ==
  ASSUME TypeInv, NEW w \in Syncs, UpdateJobProgress(w)
  PROVE  GoodStep(w)
<1>1. StoredGrows
  BY DEF UpdateJobProgress, storeVars, StoredGrows, Stored
<1>2. PICK c \in CallRow : c = call[w] /\ CallShape(c) /\ CallShape(c)'
  BY <1>1, CallFacts
<1> DEFINE n == NextPage(c)
<1>3. n \in CallRow
  <2>1. 0 \in 0 .. MaxId
    BY StoreAssumption
  <2>2. [c EXCEPT !.pc = "total", !.next = 0] \in CallRow
    BY <2>1 DEF CallRow, Working
  <2>3. [c EXCEPT !.pc = "fetch", !.cursor = c.next, !.next = 0] \in CallRow
    BY <2>1 DEF CallRow, Working
  <2> QED BY <2>2, <2>3 DEF NextPage
<1>4. CallShape(n)'
  BY <1>2 DEF CallShape, CallRow, Body, InPage, UpdateJobProgress, At,
     Processing, NextPage
<1>5. Settle(w, n, "failJob")
  BY <1>2 DEF UpdateJobProgress
<1>6. job' \in [Syncs -> JobRow]
  <2>1. c.fetched \in Nat /\ c.limit \in Nat
    <3>1. c.fetched \in Nat /\ c.limit \in Limits \cup {0}
      BY DEF CallRow
    <3>2. Limits \subseteq Nat
      BY SyncAssumption
    <3>3. 0 \in Nat
      OBVIOUS
    <3> QED BY <3>1, <3>2, <3>3, Zenon
  <2>2. PICK total \in Nat : total = IF c.limit > 0 THEN c.limit ELSE c.fetched
    BY <2>1
  <2>3. job' = [job EXCEPT ![w] = [job[w] EXCEPT !.done = c.fetched,
                                                 !.total = total]]
    BY <1>2, <2>2 DEF UpdateJobProgress, SetProgress
  <2> QED BY <2>1, <2>3 DEF TypeInv, TypeOK, JobRow
<1>7. spent' \in SpentRow => TablesTyped'
  BY <1>6, JobStepTyped DEF UpdateJobProgress
<1> HIDE DEF n
<1> QED BY <1>1, <1>3, <1>4, <1>5, <1>7, GoodSettle

LEMMA FetchPageGood ==
  ASSUME TypeInv, NEW w \in Syncs, FetchPage(w)
  PROVE  GoodStep(w)
<1>1. StoredGrows
  BY DEF FetchPage, storeVars, StoredGrows, Stored
<1>2. PICK c \in CallRow : c = call[w] /\ CallShape(c) /\ CallShape(c)'
  BY <1>1, CallFacts
<1>3. PICK k \in 0 .. MaxId, page \in [Ids -> Bodies \cup {NoText}] :
        /\ NextCursor(Page(c), PageLimit(c), k)
        /\ page = [m \in Ids |-> IF m \in Page(c) THEN channel[m] ELSE NoText]
        /\ call' = [call EXCEPT ![w] = [c EXCEPT !.pc = "upsert",
                                                 !.page = page, !.next = k]]
  <2>1. [m \in Ids |-> IF m \in Page(c) THEN channel[m] ELSE NoText]
          \in [Ids -> Bodies \cup {NoText}]
    BY DEF TypeInv, TypeOK
  <2> QED BY <1>2, <2>1 DEF FetchPage
<1> DEFINE n == [c EXCEPT !.pc = "upsert", !.page = page, !.next = k]
<1>4. n \in CallRow
  BY DEF CallRow, Working
<1>5. k # 0 /\ c.cursor # 0 => k < c.cursor
  BY <1>3 DEF NextCursor, Page, Newest, Eligible
<1>6. CallShape(n)'
  BY <1>2, <1>5 DEF CallShape, CallRow, Body, InPage, FetchPage, At, Processing
<1>7. TablesTyped'
  BY CallFacts DEF FetchPage, TablesTyped, StoreTypeOK, storeVars, channelVars
<1> HIDE DEF n
<1> QED BY <1>1, <1>3, <1>4, <1>6, <1>7 DEF GoodStep, CallMoves, n

LEMMA UpsertGood ==
  ASSUME TypeInv, NEW w \in Syncs, Upsert(w)
  PROVE  GoodStep(w)
<1>1. PICK c \in CallRow : c = call[w] /\ CallShape(c)
                           /\ (StoredGrows => CallShape(c)')
  BY CallFacts
<1>2. PICK m \in InPage(c) :
        /\ raw' = [raw EXCEPT ![m] = c.page[m]]
        /\ Settle(w, IF IsTrash(c.page[m]) THEN MessageDone(c, m)
                     ELSE [c EXCEPT !.pc = "find", !.msg = m], "failJob")
  BY <1>1 DEF Upsert, UpsertRawMessage
<1>3. m \in Ids /\ c.page[m] \in Bodies /\ c.page[m] # NoText
  BY DEF InPage, CallRow
<1>4. raw \in [Ids -> Bodies \cup {NoText}]
  BY DEF TypeInv, TypeOK, StoreTypeOK
<1>5. StoredGrows /\ Stored(m)' /\ raw' \in [Ids -> Bodies \cup {NoText}]
  BY <1>2, <1>3, <1>4 DEF StoredGrows, Stored
<1>6. spent' \in SpentRow => TablesTyped'
  BY <1>5, CallFacts DEF Upsert, TablesTyped, StoreTypeOK, channelVars
<1>7. CASE IsTrash(c.page[m])
  <2>1. MessageDone(c, m) \in CallRow /\ CallShape(MessageDone(c, m))'
    BY <1>1, <1>5, MessageDoneFacts, MessageDoneShape
  <2> QED BY <1>2, <1>5, <1>6, <1>7, <2>1, GoodSettle
<1>8. CASE ~IsTrash(c.page[m])
  <2> DEFINE n == [c EXCEPT !.pc = "find", !.msg = m]
  <2>1. c.page[m] \in Texts
    BY <1>3, <1>8 DEF IsTrash, Bodies
  <2>2. n \in CallRow
    <3>1. m \in 0 .. MaxId
      BY <1>3, StoreAssumption DEF Ids
    <3> QED BY <3>1 DEF CallRow, Working
  <2>3. c.pc = "upsert" /\ c.index = 1
    BY <1>1 DEF Upsert, At, CallShape, Processing
  <2>4. ChunkCount[c.page[m]] \in 1 .. MaxChunks /\ MaxChunks \in Nat
    BY <2>1, StoreAssumption
  <2>5. CallShape(n)'
    BY <1>1, <1>3, <1>5, <2>1, <2>3, <2>4
    DEF CallShape, CallRow, Body, InPage, Processing
  <2>6. Settle(w, n, "failJob")
    BY <1>2, <1>8
  <2> HIDE DEF n
  <2> QED BY <1>5, <1>6, <2>2, <2>5, <2>6, GoodSettle
<1> QED BY <1>7, <1>8

LEMMA FindCanonicalGood ==
  ASSUME TypeInv, NEW w \in Syncs, FindCanonical(w)
  PROVE  GoodStep(w)
<1>1. StoredGrows
  BY DEF FindCanonical, storeVars, StoredGrows, Stored
<1>2. PICK c \in CallRow : c = call[w] /\ CallShape(c) /\ CallShape(c)'
  BY <1>1, CallFacts
<1>3. PICK k \in 0 .. MaxId :
        call' = [call EXCEPT ![w] = [c EXCEPT !.pc = "save", !.canon = k]]
  BY <1>2 DEF FindCanonical
<1> DEFINE n == [c EXCEPT !.pc = "save", !.canon = k]
<1>4. n \in CallRow
  BY DEF CallRow, Working
<1>5. CallShape(n)'
  BY <1>2 DEF CallShape, CallRow, Body, InPage, FindCanonical, At, Processing
<1>6. TablesTyped'
  BY CallFacts DEF FindCanonical, TablesTyped, StoreTypeOK, storeVars,
     channelVars
<1> QED BY <1>1, <1>3, <1>4, <1>5, <1>6 DEF GoodStep, CallMoves

LEMMA SaveGood ==
  ASSUME TypeInv, NEW w \in Syncs, Save(w)
  PROVE  GoodStep(w)
<1>1. StoredGrows
  BY DEF Save, StoredGrows, Stored
<1>2. PICK c \in CallRow : c = call[w] /\ CallShape(c) /\ CallShape(c)'
  BY <1>1, CallFacts
<1> DEFINE n == [c EXCEPT !.pc = "unchunk"]
<1>3. n \in CallRow
  BY DEF CallRow, Working
<1>4. CallShape(n)'
  BY <1>2 DEF CallShape, CallRow, Body, InPage, Save, At, Processing
<1>5. Settle(w, n, "failJob")
  BY <1>2 DEF Save
<1>6. c.msg \in Ids /\ Body(c) \in Texts /\ c.canon \in 0 .. MaxId
  BY <1>2 DEF Save, At, CallShape, Processing, CallRow
<1>7. docs \in [Ids -> DocRow]
  BY DEF TypeInv, TypeOK, StoreTypeOK
<1> DEFINE born == IF HasDoc(c.msg) THEN docs[c.msg].born
                   ELSE Cardinality({k \in Ids : HasDoc(k)}) + 1
<1>8. born \in 0 .. MaxId
  BY <1>6, <1>7, BornBound DEF DocRow
<1> HIDE DEF born
<1>9. docs' = [docs EXCEPT ![c.msg] = [text |-> Body(c), dupOf |-> c.canon,
                                       born |-> born]]
  BY <1>2 DEF Save, SaveDocument, born
<1>10. docs' \in [Ids -> DocRow]
  BY <1>6, <1>7, <1>8, <1>9 DEF DocRow
<1>11. spent' \in SpentRow => TablesTyped'
  BY <1>10, CallFacts DEF Save, TablesTyped, StoreTypeOK, channelVars
<1> HIDE DEF n
<1> QED BY <1>1, <1>3, <1>4, <1>5, <1>11, GoodSettle

\* The message a call is processing is in its page, and stored.
LEMMA ProcessedMessage ==
  ASSUME NEW c \in CallRow, CallShape(c), c.pc \in Processing
  PROVE  /\ c.msg \in Ids /\ Body(c) \in Texts /\ Stored(c.msg)
         /\ c.msg \in InPage(c)
         /\ ChunkCount[Body(c)] \in 1 .. MaxChunks
BY StoreAssumption DEF CallShape, Body, InPage

LEMMA DeleteChunksGood ==
  ASSUME TypeInv, NEW w \in Syncs, DeleteChunks(w)
  PROVE  GoodStep(w)
<1>1. StoredGrows
  BY DEF DeleteChunks, StoredGrows, Stored
<1>2. PICK c \in CallRow : c = call[w] /\ CallShape(c) /\ CallShape(c)'
  BY <1>1, CallFacts
<1>3. c.pc = "unchunk" /\ c.pc \in Processing
  BY <1>2 DEF DeleteChunks, At, Processing
<1>4. c.msg \in Ids /\ c.msg \in InPage(c) /\ Stored(c.msg)
  BY <1>2, <1>3, ProcessedMessage
<1>5. Stored(c.msg)'
  BY <1>1, <1>4 DEF StoredGrows
<1>6. chunks' \in [Ids -> [1 .. MaxChunks -> Texts \cup {NoText}]]
  BY <1>2, <1>4 DEF DeleteChunks, DeleteChunksByDocumentID, NoChunks, TypeInv,
     TypeOK, StoreTypeOK
<1>7. spent' \in SpentRow => TablesTyped'
  BY <1>6, CallFacts DEF DeleteChunks, TablesTyped, StoreTypeOK, channelVars
<1>8. CASE c.canon # 0
  <2>1. MessageDone(c, c.msg) \in CallRow /\ CallShape(MessageDone(c, c.msg))'
    BY <1>2, <1>4, <1>5, MessageDoneFacts, MessageDoneShape
  <2>2. Settle(w, MessageDone(c, c.msg), "failJob")
    BY <1>2, <1>8 DEF DeleteChunks
  <2> QED BY <1>1, <1>7, <2>1, <2>2, GoodSettle
<1>9. CASE c.canon = 0
  <2> DEFINE n == [c EXCEPT !.pc = "chunk"]
  <2>1. n \in CallRow
    BY DEF CallRow, Working
  <2>2. CallShape(n)'
    BY <1>2, <1>3 DEF CallShape, CallRow, Body, InPage, Processing
  <2>3. Settle(w, n, "failJob")
    BY <1>2, <1>9 DEF DeleteChunks
  <2> HIDE DEF n
  <2> QED BY <1>1, <1>7, <2>1, <2>2, <2>3, GoodSettle
<1> QED BY <1>8, <1>9

LEMMA InsertChunksGood ==
  ASSUME TypeInv, NEW w \in Syncs, InsertChunks(w)
  PROVE  GoodStep(w)
<1>1. StoredGrows
  BY DEF InsertChunks, StoredGrows, Stored
<1>2. PICK c \in CallRow : c = call[w] /\ CallShape(c) /\ CallShape(c)'
  BY <1>1, CallFacts
<1>3. c.pc = "chunk" /\ c.pc \in Processing
  BY <1>2 DEF InsertChunks, At, Processing
<1>4. /\ c.msg \in Ids /\ c.msg \in InPage(c) /\ Stored(c.msg)
      /\ Body(c) \in Texts /\ ChunkCount[Body(c)] \in 1 .. MaxChunks
  BY <1>2, <1>3, ProcessedMessage
<1>5. Stored(c.msg)'
  BY <1>1, <1>4 DEF StoredGrows
<1>6. chunks' \in [Ids -> [1 .. MaxChunks -> Texts \cup {NoText}]]
  <2>1. c.index \in 1 .. MaxChunks
    BY DEF CallRow
  <2>2. chunks \in [Ids -> [1 .. MaxChunks -> Texts \cup {NoText}]]
    BY DEF TypeInv, TypeOK, StoreTypeOK
  <2>3. chunks' = [chunks EXCEPT ![c.msg] =
                     [chunks[c.msg] EXCEPT ![c.index] = Body(c)]]
    BY <1>2, <1>4, <2>2 DEF InsertChunks, InsertChunk
  <2> QED BY <1>4, <2>1, <2>2, <2>3
<1>7. spent' \in SpentRow => TablesTyped'
  BY <1>6, CallFacts DEF InsertChunks, TablesTyped, StoreTypeOK, channelVars
<1>8. CASE c.index = ChunkCount[Body(c)]
  <2>1. MessageDone(c, c.msg) \in CallRow /\ CallShape(MessageDone(c, c.msg))'
    BY <1>2, <1>4, <1>5, MessageDoneFacts, MessageDoneShape
  <2>2. Settle(w, MessageDone(c, c.msg), "failJob")
    BY <1>2, <1>8 DEF InsertChunks
  <2> QED BY <1>1, <1>7, <2>1, <2>2, GoodSettle
<1>9. CASE c.index # ChunkCount[Body(c)]
  <2> DEFINE n == [c EXCEPT !.index = c.index + 1]
  <2>1. c.index + 1 <= ChunkCount[Body(c)] /\ c.index + 1 \in 1 .. MaxChunks
    BY <1>2, <1>3, <1>4, <1>9, StoreAssumption DEF CallShape, CallRow
  <2>2. n \in CallRow
    BY <2>1 DEF CallRow
  <2>3. CallShape(n)'
    BY <1>2, <1>3, <2>1 DEF CallShape, CallRow, Body, InPage, Processing
  <2>4. Settle(w, n, "failJob")
    BY <1>2, <1>9 DEF InsertChunks
  <2> HIDE DEF n
  <2> QED BY <1>1, <1>7, <2>2, <2>3, <2>4, GoodSettle
<1> QED BY <1>8, <1>9

LEMMA MarkSourceSyncSuccessGood ==
  ASSUME TypeInv, NEW w \in Syncs, MarkSourceSyncSuccess(w)
  PROVE  GoodStep(w)
<1>1. StoredGrows
  BY DEF MarkSourceSyncSuccess, storeVars, StoredGrows, Stored
<1>2. Blank("returned") \in CallRow /\ CallShape(Blank("returned"))'
  BY BlankFacts, BlankShape DEF Quiet, Pcs, Working, Ended, Processing
<1>3. src' \in [status: {"active", "error"}, watermark: 0 .. MaxId]
  BY DEF MarkSourceSyncSuccess, TypeInv, TypeOK, CallRow
<1>4. spent' \in SpentRow => TablesTyped'
  BY <1>3, CallFacts DEF MarkSourceSyncSuccess, TablesTyped, StoreTypeOK,
     storeVars, channelVars
<1>5. Settle(w, Blank("returned"), "failJob")
  BY DEF MarkSourceSyncSuccess
<1> QED BY <1>1, <1>2, <1>4, <1>5, GoodSettle

LEMMA CallFailsGood ==
  ASSUME TypeInv, NEW w \in Syncs, CallFails(w)
  PROVE  GoodStep(w)
<1>1. StoredGrows
  BY DEF CallFails, storeVars, StoredGrows, Stored
<1>2. OnError(call[w].pc) \in {"failed", "failJob"}
  BY DEF OnError
<1>3. PICK pc \in {"failed", "failJob"} : pc = OnError(call[w].pc)
  BY <1>2
<1>4. pc \in Quiet \ {"fetch"}
  BY DEF Quiet, Pcs, Working, Ended, Processing
<1>5. CallMoves(w)
  BY <1>3, <1>4, BlankMoves DEF CallFails
<1>6. spent' \in SpentRow
  BY FaultTyped DEF CallFails, TypeInv, TypeOK
<1>7. TablesTyped'
  BY <1>6, JobStepTyped DEF CallFails, TypeInv, TypeOK
<1> QED BY <1>1, <1>5, <1>7 DEF GoodStep

LEMMA FailJobGood ==
  ASSUME TypeInv, NEW w \in Syncs, FailJob(w)
  PROVE  GoodStep(w)
<1>1. StoredGrows
  BY DEF FailJob, storeVars, StoredGrows, Stored
<1>2. "markError" \in Quiet \ {"fetch"}
  BY DEF Quiet, Pcs, Working, Processing
<1>3. CallMoves(w)
  BY <1>2, BlankMoves DEF FailJob, ErrorStep
<1>4. spent' \in SpentRow
  BY FaultTyped DEF FailJob, ErrorStep, TypeInv, TypeOK
<1>5. job' \in [Syncs -> JobRow]
  BY DEF FailJob, FailedJob, TypeInv, TypeOK, JobRow
<1>6. TablesTyped'
  BY <1>4, <1>5, JobStepTyped DEF FailJob
<1> QED BY <1>1, <1>3, <1>6 DEF GoodStep

LEMMA MarkSourceSyncErrorGood ==
  ASSUME TypeInv, NEW w \in Syncs, MarkSourceSyncError(w)
  PROVE  GoodStep(w)
<1>1. StoredGrows
  BY DEF MarkSourceSyncError, storeVars, StoredGrows, Stored
<1>2. "failed" \in Quiet \ {"fetch"}
  BY DEF Quiet, Pcs, Ended, Working, Processing
<1>3. CallMoves(w)
  BY <1>2, BlankMoves DEF MarkSourceSyncError, ErrorStep
<1>4. spent' \in SpentRow
  BY FaultTyped DEF MarkSourceSyncError, ErrorStep, TypeInv, TypeOK
<1>5. src' \in [status: {"active", "error"}, watermark: 0 .. MaxId]
  BY DEF MarkSourceSyncError, TypeInv, TypeOK
<1>6. TablesTyped'
  BY <1>4, <1>5, CallFacts DEF MarkSourceSyncError, TablesTyped, StoreTypeOK,
     storeVars, channelVars
<1> QED BY <1>1, <1>3, <1>6 DEF GoodStep

LEMMA CrashGood ==
  ASSUME TypeInv, NEW w \in Syncs, Crash(w)
  PROVE  GoodStep(w)
<1>1. StoredGrows
  BY DEF Crash, storeVars, StoredGrows, Stored
<1>2. "dead" \in Quiet \ {"fetch"}
  BY DEF Quiet, Pcs, Ended, Working, Processing
<1>3. CallMoves(w)
  BY <1>2, BlankMoves DEF Crash
<1>4. spent' \in SpentRow
  BY DEF Crash, Abort, SpentRow, TypeInv, TypeOK
<1>5. TablesTyped'
  BY <1>4, JobStepTyped DEF Crash, TypeInv, TypeOK
<1> QED BY <1>1, <1>3, <1>5 DEF GoodStep

LEMMA CallStepGood ==
  ASSUME TypeInv, NEW w \in Syncs, CallStep(w)
  PROVE  GoodStep(w)
BY CreateJobGood, UpdateJobRunningGood, ResolveGood, FetchPageGood,
   StopFetchingGood, UpsertGood, FindCanonicalGood, SaveGood, DeleteChunksGood,
   InsertChunksGood, UpdateJobProgressGood, UpdateJobTotalGood,
   CompleteJobGood, MarkSourceSyncSuccessGood, CallFailsGood, FailJobGood,
   MarkSourceSyncErrorGood
   DEF CallStep

\* A step that moves no call.
LEMMA NoCallKeeps ==
  ASSUME TypeInv, TablesTyped', UNCHANGED <<raw, call>>
  PROVE  TypeInv'
<1>1. TypeOK'
  BY DEF TablesTyped, TypeInv, TypeOK
<1>2. ASSUME NEW w \in Syncs PROVE CallShape(call[w])'
  BY DEF TypeInv, CallShape, Stored, Body, InPage
<1> QED BY <1>1, <1>2 DEF TypeInv

LEMMA ChannelStepKeeps ==
  ASSUME TypeInv, ChannelStep
  PROVE  TypeInv'
<1> USE DEF TypeInv, TypeOK, TablesTyped, StoreTypeOK, storeVars
<1>1. ASSUME NEW b \in Bodies, Post(b) PROVE TablesTyped'
  BY <1>1, StoreAssumption DEF Post, Ids
<1>2. ASSUME NEW m \in Ids, NEW b \in Bodies, Edit(m, b) PROVE TablesTyped'
  BY <1>2 DEF Edit, SpentRow
<1>3. ASSUME NEW m \in Ids, Remove(m) PROVE TablesTyped'
  BY <1>3 DEF Remove, SpentRow
<1>4. UNCHANGED <<raw, call>>
  BY DEF ChannelStep, Post, Edit, Remove
<1>5. TablesTyped'
  BY <1>1, <1>2, <1>3 DEF ChannelStep
<1> QED BY <1>4, <1>5, NoCallKeeps

LEMMA CancelKeeps ==
  ASSUME TypeInv, NEW w \in Syncs, Cancel(w)
  PROVE  TypeInv'
<1>1. spent' \in SpentRow
  BY DEF Cancel, Abort, SpentRow, TypeInv, TypeOK
<1>2. TablesTyped' /\ UNCHANGED <<raw, call>>
  BY <1>1 DEF Cancel, TypeInv, TypeOK, TablesTyped, StoreTypeOK, storeVars,
     channelVars
<1> QED BY <1>2, NoCallKeeps

LEMMA TypeInvInit == Init => TypeInv
<1> SUFFICES ASSUME Init PROVE TypeInv
  OBVIOUS
<1>1. Blank("idle") \in CallRow
  BY BlankFacts DEF Quiet, Pcs, Ended, Working, Processing
<1>2. TypeOK
  <2>1. StoreTypeOK
    BY StoreAssumption DEF Init, StoreInit, StoreTypeOK, DocRow, NoDoc, NoChunks
  <2>2. head \in 0 .. MaxId
    BY StoreAssumption DEF Init
  <2>3. src \in [status: {"active", "error"}, watermark: 0 .. MaxId]
    BY StoreAssumption DEF Init
  <2>4. job \in [Syncs -> JobRow] /\ spent \in SpentRow
    BY DEF Init, JobRow, SpentRow
  <2> QED BY <1>1, <2>1, <2>2, <2>3, <2>4 DEF Init, TypeOK
<1>3. ASSUME NEW w \in Syncs PROVE CallShape(call[w])
  <2>1. call[w] = Blank("idle")
    BY DEF Init
  <2> QED BY <2>1 DEF Blank, CallShape, InPage, EmptyPage, Processing
<1> QED BY <1>2, <1>3 DEF TypeInv

LEMMA TypeInvNext == TypeInv /\ [Next]_vars => TypeInv'
<1> SUFFICES ASSUME TypeInv, [Next]_vars PROVE TypeInv'
  OBVIOUS
<1>1. CASE ChannelStep
  BY <1>1, ChannelStepKeeps
<1>2. ASSUME NEW w \in Syncs, NEW f \in Resyncs, NEW n \in Limits,
             GetSource(w, f, n)
      PROVE  TypeInv'
  BY <1>2, GetSourceGood, GoodStepKeeps
<1>3. ASSUME NEW w \in Syncs, CallStep(w) PROVE TypeInv'
  BY <1>3, CallStepGood, GoodStepKeeps
<1>4. ASSUME NEW w \in Syncs, Cancel(w) PROVE TypeInv'
  BY <1>4, CancelKeeps
<1>5. ASSUME NEW w \in Syncs, Crash(w) PROVE TypeInv'
  BY <1>5, CrashGood, GoodStepKeeps
<1>6. CASE UNCHANGED vars
  <2>1. TablesTyped' /\ UNCHANGED <<raw, call>>
    BY <1>6 DEF vars, TypeInv, TypeOK, TablesTyped, StoreTypeOK
  <2> QED BY <2>1, NoCallKeeps
<1> QED BY <1>1, <1>2, <1>3, <1>4, <1>5, <1>6 DEF Next

\* Rows and locals always have the types the model declares, for any number of
\* calls, messages, limits and faults: in particular a call that processes a
\* message holds one, and never inserts a chunk its text does not have.
THEOREM TypeCorrect == Spec => []TypeOK
<1>1. TypeInv => TypeOK
  BY DEF TypeInv
<1> QED BY <1>1, TypeInvInit, TypeInvNext, PTL DEF Spec

-----------------------------------------------------------------------------
(***************************************************************************)
(* Deduplication, for calls one at a time and messages nobody edits: every *)
(* copy of a message has the body it was posted with, and a lookup still   *)
(* holds when the document is saved.                                       *)
(***************************************************************************)
OneAtATime == MaxActive = 1
NoEdits == MaxEdits = 0

AtMostOne == \A v, w \in Active : v = w

\* Where a message is, it has the body b.
Copied(m, b) ==
  /\ {channel[m], raw[m], docs[m].text} \subseteq {b, NoText}
  /\ \A w \in Syncs : call[w].page[m] \in {b, NoText}

Unedited ==
  \A m \in Ids : /\ \E b \in Bodies : Copied(m, b)
                 /\ m > head => Copied(m, NoText)

LookedUp(c) == c.pc = "save" => FoundCanonical(c.msg, Body(c), c.canon)

DedupInv ==
  /\ TypeInv /\ AtMostOne /\ Unedited
  /\ DuplicatesResolve /\ OneCanonicalPerText
  /\ \A w \in Syncs : LookedUp(call[w])

\* The channel gives no message another body; all else copies from it.
CopyStep ==
  \A m \in Ids :
    /\ channel'[m] \in {channel[m], NoText}
    /\ raw'[m] \in {raw[m]} \cup {call[w].page[m] : w \in Syncs}
    /\ docs'[m].text \in {docs[m].text} \cup {call[w].page[m] : w \in Syncs}
    /\ \A w \in Syncs : call'[w].page[m] \in {call[w].page[m], channel[m], NoText}

LEMMA CopiesStay ==
  ASSUME NEW m \in Ids, NEW b, Copied(m, b), CopyStep
  PROVE  Copied(m, b)'
<1>1. \A w \in Syncs : call[w].page[m] \in {b, NoText}
  BY DEF Copied
<1>2. {channel[m], raw[m], docs[m].text} \subseteq {b, NoText}
  BY DEF Copied
<1>3. channel'[m] \in {b, NoText}
  BY <1>2 DEF CopyStep
<1>4. raw'[m] \in {b, NoText} /\ docs'[m].text \in {b, NoText}
  BY <1>1, <1>2 DEF CopyStep
<1>5. \A w \in Syncs : call'[w].page[m] \in {b, NoText}
  BY <1>1, <1>2 DEF CopyStep
<1> QED BY <1>3, <1>4, <1>5 DEF Copied

LEMMA CopyStepKeeps ==
  ASSUME TypeOK, TypeOK', Unedited, CopyStep, head <= head'
  PROVE  Unedited'
<1>1. head \in Nat /\ head' \in Nat /\ Ids \subseteq Nat
  BY StoreAssumption, IdsFacts DEF TypeOK
<1>2. ASSUME NEW m \in Ids
      PROVE  (\E b \in Bodies : Copied(m, b))' /\ (m > head' => Copied(m, NoText)')
  <2>1. PICK b \in Bodies : Copied(m, b)
    BY DEF Unedited
  <2>2. Copied(m, b)'
    BY <2>1, CopiesStay
  <2>3. m > head' => Copied(m, NoText)
    BY <1>1 DEF Unedited
  <2>4. m > head' => Copied(m, NoText)'
    BY <2>3, CopiesStay
  <2> QED BY <2>2, <2>4
<1> QED BY <1>2 DEF Unedited

\* A call gets its messages from the channel, or drops them.
LEMMA PageCopies ==
  ASSUME TypeInv, NEW w \in Syncs, NEW m \in Ids,
         CallStep(w) \/ Crash(w) \/ \E f \in Resyncs, n \in Limits : GetSource(w, f, n)
  PROVE  call'[w].page[m] \in {call[w].page[m], channel[m], NoText}
<1>1. call \in [Syncs -> CallRow] /\ call[w] \in CallRow
  BY DEF TypeInv, TypeOK
<1>2. \A pc : Blank(pc).page[m] = NoText
  BY DEF Blank, EmptyPage
<1>3. ASSUME NEW n, NEW onError, Settle(w, n, onError),
             n.page[m] \in {call[w].page[m], NoText}
      PROVE  call'[w].page[m] \in {call[w].page[m], NoText}
  BY <1>1, <1>2, <1>3 DEF Settle
<1>4. ASSUME NEW k \in InPage(call[w])
      PROVE  MessageDone(call[w], k).page[m] \in {call[w].page[m], NoText}
  BY <1>1 DEF MessageDone, CallRow, EmptyPage
<1>5. CASE CreateJob(w) \/ UpdateJobRunning(w) \/ UpdateJobTotal(w) \/ CompleteJob(w)
  BY <1>1, <1>2, <1>5 DEF CreateJob, UpdateJobRunning, UpdateJobTotal, CompleteJob,
     Settle, CallRow
<1>6. CASE Resolve(w) \/ StopFetching(w)
  BY <1>1, <1>6 DEF Resolve, StopFetching, CallRow
<1>7. CASE FetchPage(w)
  BY <1>1, <1>7 DEF FetchPage, CallRow
<1>8. CASE Upsert(w)
  <2>1. PICK k \in InPage(call[w]) :
          Settle(w, IF IsTrash(call[w].page[k]) THEN MessageDone(call[w], k)
                    ELSE [call[w] EXCEPT !.pc = "find", !.msg = k], "failJob")
    BY <1>8 DEF Upsert
  <2>2. [call[w] EXCEPT !.pc = "find", !.msg = k].page[m] = call[w].page[m]
    BY <1>1 DEF CallRow
  <2>3. CASE IsTrash(call[w].page[k])
    BY <1>3, <1>4, <2>1, <2>3
  <2>4. CASE ~IsTrash(call[w].page[k])
    BY <1>3, <2>1, <2>2, <2>4
  <2> QED BY <2>3, <2>4
<1>9. CASE FindCanonical(w)
  BY <1>1, <1>9 DEF FindCanonical, CallRow
<1>10. CASE Save(w)
  <2>1. [call[w] EXCEPT !.pc = "unchunk"].page[m] = call[w].page[m]
    BY <1>1 DEF CallRow
  <2> QED BY <1>3, <1>10, <2>1 DEF Save
<1>11. CASE DeleteChunks(w) \/ InsertChunks(w)
  <2>1. call[w].pc \in Processing /\ CallShape(call[w])
    BY <1>11 DEF DeleteChunks, InsertChunks, At, Processing, TypeInv
  <2>2. call[w].msg \in InPage(call[w])
    BY <1>1, <2>1, ProcessedMessage
  <2>3. [call[w] EXCEPT !.pc = "chunk"].page[m] = call[w].page[m]
    BY <1>1 DEF CallRow
  <2>4. [call[w] EXCEPT !.index = call[w].index + 1].page[m] = call[w].page[m]
    BY <1>1 DEF CallRow
  <2>5. MessageDone(call[w], call[w].msg).page[m] \in {call[w].page[m], NoText}
    BY <1>4, <2>2
  <2>6. CASE DeleteChunks(w)
    <3>1. CASE call[w].canon # 0
      BY <1>3, <2>5, <2>6, <3>1 DEF DeleteChunks
    <3>2. CASE call[w].canon = 0
      BY <1>3, <2>3, <2>6, <3>2 DEF DeleteChunks
    <3> QED BY <3>1, <3>2
  <2>7. CASE InsertChunks(w)
    <3>1. CASE call[w].index = ChunkCount[Body(call[w])]
      BY <1>3, <2>5, <2>7, <3>1 DEF InsertChunks
    <3>2. CASE call[w].index # ChunkCount[Body(call[w])]
      BY <1>3, <2>4, <2>7, <3>2 DEF InsertChunks
    <3> QED BY <3>1, <3>2
  <2> QED BY <1>11, <2>6, <2>7
<1>12. CASE UpdateJobProgress(w)
  <2>1. NextPage(call[w]).page[m] = call[w].page[m]
    BY <1>1 DEF NextPage, CallRow
  <2> QED BY <1>3, <1>12, <2>1 DEF UpdateJobProgress
<1>13. CASE MarkSourceSyncSuccess(w)
  BY <1>2, <1>3, <1>13 DEF MarkSourceSyncSuccess
<1>14. CASE CallFails(w) \/ FailJob(w) \/ MarkSourceSyncError(w) \/ Crash(w)
  BY <1>1, <1>2, <1>14 DEF CallFails, FailJob, MarkSourceSyncError, Crash, ErrorStep
<1>15. CASE \E f \in Resyncs, n \in Limits : GetSource(w, f, n)
  <2>1. PICK f \in Resyncs, n \in Limits : GetSource(w, f, n)
    BY <1>15
  <2>2. call'[w] = [Blank("createJob") EXCEPT !.min = IF f THEN 0 ELSE src.watermark,
                                              !.limit = n]
    BY <1>1, <2>1 DEF GetSource
  <2>3. call'[w].page = Blank("createJob").page
    BY <2>2 DEF Blank
  <2> QED BY <1>2, <2>3
<1> QED BY <1>5, <1>6, <1>7, <1>8, <1>9, <1>10, <1>11, <1>12, <1>13, <1>14, <1>15
        DEF CallStep

\* Which tables a step of a call writes.
LEMMA CallWrites ==
  ASSUME NEW w \in Syncs, CallStep(w)
  PROVE  /\ UNCHANGED channelVars
         /\ ~Upsert(w) => UNCHANGED raw
         /\ ~Save(w) => UNCHANGED docs
<1> USE DEF storeVars
<1>1. CASE \/ CreateJob(w) \/ UpdateJobRunning(w) \/ Resolve(w) \/ FetchPage(w)
           \/ StopFetching(w) \/ FindCanonical(w) \/ DeleteChunks(w) \/ InsertChunks(w)
  BY <1>1 DEF CreateJob, UpdateJobRunning, Resolve, FetchPage, StopFetching,
     FindCanonical, DeleteChunks, InsertChunks
<1>2. CASE Upsert(w) \/ Save(w)
  BY <1>2 DEF Upsert, Save
<1>3. CASE \/ UpdateJobProgress(w) \/ UpdateJobTotal(w) \/ CompleteJob(w)
           \/ MarkSourceSyncSuccess(w) \/ CallFails(w) \/ FailJob(w)
           \/ MarkSourceSyncError(w)
  BY <1>3 DEF UpdateJobProgress, UpdateJobTotal, CompleteJob, MarkSourceSyncSuccess,
     CallFails, FailJob, MarkSourceSyncError
<1> QED BY <1>1, <1>2, <1>3 DEF CallStep

LEMMA CallStepCopies ==
  ASSUME TypeInv, NEW w \in Syncs, CallStep(w)
  PROVE  CopyStep
<1>1. UNCHANGED channel
  BY CallWrites DEF channelVars
<1>2. ASSUME NEW m \in Ids
      PROVE  raw'[m] \in {raw[m]} \cup {call[v].page[m] : v \in Syncs}
  <2>1. CASE Upsert(w)
    <3>1. PICK k \in InPage(call[w]) : raw' = [raw EXCEPT ![k] = call[w].page[k]]
      BY <2>1 DEF Upsert, UpsertRawMessage
    <3>2. raw'[m] \in {raw[m], call[w].page[m]}
      BY <3>1 DEF TypeInv, TypeOK, StoreTypeOK
    <3> QED BY <3>2
  <2> QED BY <2>1, CallWrites
<1>3. ASSUME NEW m \in Ids
      PROVE  docs'[m].text \in {docs[m].text} \cup {call[v].page[m] : v \in Syncs}
  <2>1. CASE Save(w)
    <3>1. docs'[m].text \in {docs[m].text, call[w].page[m]}
      BY <2>1 DEF Save, SaveDocument, Body, TypeInv, TypeOK, StoreTypeOK
    <3> QED BY <3>1
  <2> QED BY <2>1, CallWrites
<1>4. ASSUME NEW m \in Ids, NEW v \in Syncs
      PROVE  call'[v].page[m] \in {call[v].page[m], channel[m], NoText}
  <2>1. CASE v = w
    BY <2>1, PageCopies
  <2>2. CASE v # w
    <3>1. PICK n \in CallRow : call' = [call EXCEPT ![w] = n]
      BY CallStepGood DEF GoodStep, CallMoves
    <3>2. call'[v] = call[v]
      BY <2>2, <3>1 DEF TypeInv, TypeOK
    <3> QED BY <3>2
  <2> QED BY <2>1, <2>2
<1> QED BY <1>1, <1>2, <1>3, <1>4 DEF CopyStep

\* Every other step but a new message and an edit.
LEMMA QuietCopies ==
  ASSUME \A m \in Ids : channel'[m] \in {channel[m], NoText}, UNCHANGED <<raw, docs>>,
         \A m \in Ids, v \in Syncs :
           call'[v].page[m] \in {call[v].page[m], channel[m], NoText}
  PROVE  CopyStep
BY DEF CopyStep

\* A new message is under a number nothing was stored under.
LEMMA PostKeepsBodies ==
  ASSUME TypeOK, TypeOK', Unedited, NEW b \in Bodies, Post(b)
  PROVE  Unedited'
<1>1. /\ head' = head + 1 /\ head \in Nat /\ Ids \subseteq Nat
      /\ channel' = [channel EXCEPT ![head + 1] = b]
      /\ UNCHANGED <<raw, docs, call>>
  BY StoreAssumption, IdsFacts DEF TypeOK, Post, storeVars
<1>2. ASSUME NEW m \in Ids, m # head + 1, NEW x, Copied(m, x)
      PROVE  Copied(m, x)'
  BY <1>1, <1>2 DEF Copied, TypeOK
<1>3. ASSUME NEW m \in Ids, m = head + 1 PROVE Copied(m, b)'
  <2>1. Copied(m, NoText)
    BY <1>1, <1>3 DEF Unedited
  <2> QED BY <1>1, <1>3, <2>1 DEF Copied, TypeOK
<1>4. ASSUME NEW m \in Ids PROVE (\E x \in Bodies : Copied(m, x))'
  BY <1>2, <1>3 DEF Unedited
<1>5. ASSUME NEW m \in Ids, m > head' PROVE Copied(m, NoText)'
  <2>1. m > head /\ m # head + 1
    BY <1>1, <1>5
  <2> QED BY <1>2, <2>1 DEF Unedited
<1> QED BY <1>4, <1>5 DEF Unedited

LEMMA NextKeepsBodies ==
  ASSUME NoEdits, TypeInv, TypeInv', Unedited, [Next]_vars
  PROVE  Unedited'
<1>1. TypeOK /\ TypeOK' /\ head \in Nat /\ spent.edits \in Nat
  BY StoreAssumption DEF TypeInv, TypeOK, SpentRow
<1>2. ASSUME CopyStep, head' = head PROVE Unedited'
  BY <1>1, <1>2, CopyStepKeeps
<1>3. ASSUME NEW b \in Bodies, Post(b) PROVE Unedited'
  BY <1>1, <1>3, PostKeepsBodies
<1>4. ASSUME NEW m \in Ids, NEW b \in Bodies, Edit(m, b) PROVE FALSE
  BY <1>1, <1>4 DEF Edit, NoEdits
<1>5. ASSUME NEW m \in Ids, Remove(m) PROVE Unedited'
  <2>1. /\ head' = head /\ UNCHANGED <<raw, docs, call>>
        /\ \A k \in Ids : channel'[k] \in {channel[k], NoText}
    BY <1>1, <1>5 DEF Remove, storeVars, TypeOK
  <2> QED BY <1>2, <2>1, QuietCopies
<1>6. ASSUME NEW w \in Syncs,
             Crash(w) \/ \E f \in Resyncs, n \in Limits : GetSource(w, f, n)
      PROVE  Unedited'
  <2>1. UNCHANGED <<raw, docs, channel, head>>
    BY <1>6 DEF Crash, GetSource, storeVars, channelVars
  <2>2. GoodStep(w)
    BY <1>6, CrashGood, GetSourceGood
  <2>3. PICK n \in CallRow : call' = [call EXCEPT ![w] = n]
    BY <2>2 DEF GoodStep, CallMoves
  <2>4. ASSUME NEW m \in Ids, NEW v \in Syncs
        PROVE  call'[v].page[m] \in {call[v].page[m], channel[m], NoText}
    <3>1. v # w => call'[v] = call[v]
      BY <1>1, <2>3 DEF TypeOK
    <3> QED BY <1>6, <3>1, PageCopies
  <2> QED BY <1>2, <2>1, <2>4, QuietCopies
<1>7. ASSUME NEW w \in Syncs, CallStep(w) PROVE Unedited'
  BY <1>2, <1>7, CallStepCopies, CallWrites DEF channelVars
<1>8. ASSUME UNCHANGED <<raw, docs, channel, head, call>> PROVE Unedited'
  BY <1>2, <1>8, QuietCopies
<1>9. ASSUME NEW w \in Syncs, Cancel(w) PROVE Unedited'
  BY <1>8, <1>9 DEF Cancel, storeVars, channelVars
<1>10. CASE UNCHANGED vars
  BY <1>8, <1>10 DEF vars
<1> QED BY <1>3, <1>4, <1>5, <1>6, <1>7, <1>9, <1>10 DEF Next, ChannelStep

\* A call begins only where none is at work.
LEMMA NextKeepsOne ==
  ASSUME OneAtATime, TypeInv, AtMostOne, [Next]_vars
  PROVE  AtMostOne'
<1>1. call \in [Syncs -> CallRow]
  BY DEF TypeInv, TypeOK
<1>2. ASSUME Active' \subseteq Active PROVE AtMostOne'
  BY <1>2 DEF AtMostOne
<1>3. ASSUME UNCHANGED call PROVE AtMostOne'
  BY <1>2, <1>3 DEF Active
<1>4. ASSUME NEW w \in Syncs, GoodStep(w), call[w].pc \in Working PROVE AtMostOne'
  <2>1. PICK n \in CallRow : call' = [call EXCEPT ![w] = n]
    BY <1>4 DEF GoodStep, CallMoves
  <2>2. Active' \subseteq Active
    BY <1>1, <1>4, <2>1 DEF Active
  <2> QED BY <1>2, <2>2
<1>5. ASSUME NEW w \in Syncs, NEW f \in Resyncs, NEW n \in Limits, GetSource(w, f, n)
      PROVE  AtMostOne'
  <2>1. Active = {}
    <3> SUFFICES ASSUME NEW v \in Active PROVE FALSE
      OBVIOUS
    <3>1. Active = {v}
      BY DEF AtMostOne
    <3>2. Cardinality(Active) = 1
      BY <3>1, FS_Singleton
    <3> QED BY <1>5, <3>2 DEF GetSource, OneAtATime
  <2>2. PICK k \in CallRow : call' = [call EXCEPT ![w] = k]
    BY <1>5, GetSourceGood DEF GoodStep, CallMoves
  <2>3. Active' \subseteq {w}
    BY <1>1, <2>1, <2>2 DEF Active
  <2> QED BY <2>3 DEF AtMostOne
<1>6. ASSUME NEW w \in Syncs, CallStep(w) PROVE AtMostOne'
  <2>1. call[w].pc \in Working
    BY <1>6 DEF CallStep, CreateJob, UpdateJobRunning, Resolve, FetchPage,
       StopFetching, Upsert, FindCanonical, Save, DeleteChunks, InsertChunks,
       UpdateJobProgress, UpdateJobTotal, CompleteJob, MarkSourceSyncSuccess,
       CallFails, FailJob, MarkSourceSyncError, At, Working
  <2> QED BY <1>4, <1>6, <2>1, CallStepGood
<1>7. ASSUME NEW w \in Syncs, Crash(w) PROVE AtMostOne'
  <2>1. call[w].pc \in Working
    BY <1>7 DEF Crash, Active
  <2> QED BY <1>4, <1>7, <2>1, CrashGood
<1>8. CASE ChannelStep
  BY <1>3, <1>8 DEF ChannelStep, Post, Edit, Remove
<1>9. ASSUME NEW w \in Syncs, Cancel(w) PROVE AtMostOne'
  BY <1>3, <1>9 DEF Cancel
<1>10. CASE UNCHANGED vars
  BY <1>3, <1>10 DEF vars
<1> QED BY <1>5, <1>6, <1>7, <1>8, <1>9, <1>10 DEF Next

-----------------------------------------------------------------------------
(***************************************************************************)
(* A save.  The canonical documents other than that of m, by text, decide  *)
(* what it becomes.                                                        *)
(***************************************************************************)
LEMMA SaveChanges ==
  ASSUME TypeInv, NEW w \in Syncs, Save(w)
  PROVE  \E m \in Ids, t \in Texts, k \in 0 .. MaxId :
           /\ m = call[w].msg /\ t = Body(call[w]) /\ k = call[w].canon
           /\ docs'[m].text = t /\ docs'[m].dupOf = k
           /\ \A j \in Ids \ {m} : docs'[j] = docs[j]
           /\ call[w].pc = "save" /\ call[w].page[m] = t
<1>1. docs \in [Ids -> DocRow] /\ call[w] \in CallRow /\ CallShape(call[w])
  BY DEF TypeInv, TypeOK, StoreTypeOK
<1>2. call[w].pc = "save" /\ call[w].pc \in Processing
  BY DEF Save, At, Processing
<1>3. PICK m \in Ids, t \in Texts, k \in 0 .. MaxId :
        m = call[w].msg /\ t = Body(call[w]) /\ k = call[w].canon
  BY <1>1, <1>2, ProcessedMessage DEF CallRow
<1> DEFINE r == [text |-> t, dupOf |-> k,
                 born |-> IF HasDoc(m) THEN docs[m].born
                          ELSE Cardinality({i \in Ids : HasDoc(i)}) + 1]
<1>4. docs' = [docs EXCEPT ![m] = r] /\ r.text = t /\ r.dupOf = k
  BY <1>3 DEF Save, SaveDocument
<1> HIDE DEF r
<1>5. call[w].page[m] = t
  BY <1>3 DEF Body
<1> QED BY <1>1, <1>2, <1>3, <1>4, <1>5

\* Nobody edits: the row of a message is only ever saved with its own text.
LEMMA SavedText ==
  ASSUME Unedited, TypeOK, NEW w \in Syncs, NEW m \in Ids, NEW t \in Texts,
         call[w].page[m] = t, HasDoc(m)
  PROVE  docs[m].text = t
<1>1. PICK b \in Bodies : Copied(m, b)
  BY DEF Unedited
<1>2. t # NoText
  BY StoreAssumption
<1>3. t = b /\ docs[m].text \in {b, NoText}
  BY <1>1, <1>2 DEF Copied
<1> QED BY <1>3 DEF HasDoc

LEMMA SaveResolves ==
  ASSUME DedupInv, NEW w \in Syncs, Save(w)
  PROVE  DuplicatesResolve' /\ OneCanonicalPerText'
<1>1. PICK m \in Ids, t \in Texts, k \in 0 .. MaxId :
        /\ m = call[w].msg /\ t = Body(call[w]) /\ k = call[w].canon
        /\ docs'[m].text = t /\ docs'[m].dupOf = k
        /\ \A j \in Ids \ {m} : docs'[j] = docs[j]
        /\ call[w].pc = "save" /\ call[w].page[m] = t
  BY SaveChanges DEF DedupInv
<1>2. TypeOK /\ docs \in [Ids -> DocRow] /\ t # NoText /\ Ids \subseteq Nat \ {0}
  BY StoreAssumption, IdsFacts DEF DedupInv, TypeInv, TypeOK, StoreTypeOK
<1>3. FoundCanonical(m, t, k)
  BY <1>1 DEF DedupInv, LookedUp
<1>4. k # 0 => /\ k \in Ids \ {m}
               /\ IsCanonical(k) /\ docs[k].text = t
  BY <1>3 DEF FoundCanonical, CanonicalDocs
<1>5. k = 0 => \A j \in Ids \ {m} : ~(IsCanonical(j) /\ docs[j].text = t)
  BY <1>2, <1>3 DEF FoundCanonical, CanonicalDocs
<1>6. HasDoc(m) => docs[m].text = t
  BY <1>1, <1>2, SavedText DEF DedupInv
<1>7. IsCanonical(m) => k = 0
  BY <1>4, <1>6 DEF DedupInv, OneCanonicalPerText, IsCanonical
<1>8. \A j \in Ids \ {m} : /\ IsCanonical(j)' <=> IsCanonical(j)
                           /\ IsDuplicate(j)' <=> IsDuplicate(j)
  BY <1>1 DEF IsCanonical, IsDuplicate, HasDoc
<1>9. (IsCanonical(m)' <=> k = 0) /\ (IsDuplicate(m)' <=> k # 0)
  BY <1>1, <1>2 DEF IsCanonical, IsDuplicate, HasDoc
<1>10. ASSUME NEW j \in Ids, IsDuplicate(j)'
       PROVE  \E i \in Ids : i = docs'[j].dupOf /\ IsCanonical(i)'
                               /\ docs'[i].text = docs'[j].text
  <2>1. CASE j = m
    <3>1. k # 0 /\ docs'[j].dupOf = k /\ docs'[j].text = t
      BY <1>1, <1>9, <1>10, <2>1
    <3>2. IsCanonical(k)' /\ docs'[k].text = t
      BY <1>1, <1>4, <1>8, <3>1
    <3> QED BY <1>4, <3>1, <3>2
  <2>2. CASE j # m
    <3>1. PICK i \in 0 .. MaxId : i = docs[j].dupOf
      BY <1>2 DEF DocRow
    <3>2. docs'[j] = docs[j] /\ IsDuplicate(j)
      BY <1>1, <1>8, <1>10, <2>2
    <3>3. IsCanonical(i) /\ docs[i].text = docs[j].text /\ i # 0
      BY <3>1, <3>2 DEF DedupInv, DuplicatesResolve, IsDuplicate
    <3>4. i \in Ids
      BY <3>1, <3>3, StoreAssumption DEF Ids
    <3>5. IsCanonical(i)' /\ docs'[i].text = docs[j].text
      <4>1. CASE i = m
        BY <1>1, <1>6, <1>7, <1>9, <3>3, <4>1 DEF IsCanonical
      <4>2. CASE i # m
        BY <1>1, <1>8, <3>3, <3>4, <4>2
      <4> QED BY <4>1, <4>2
    <3> QED BY <3>1, <3>2, <3>4, <3>5
  <2> QED BY <2>1, <2>2
<1>11. DuplicatesResolve'
  BY <1>10 DEF DuplicatesResolve, IsCanonical, IsDuplicate, HasDoc
<1>12. ASSUME NEW i \in Ids, NEW j \in Ids, IsCanonical(i)', IsCanonical(j)',
              docs'[i].text = docs'[j].text
       PROVE  i = j
  <2>1. CASE i # m /\ j # m
    BY <1>1, <1>8, <1>12, <2>1 DEF DedupInv, OneCanonicalPerText
  <2>2. CASE i = m /\ j # m
    BY <1>1, <1>5, <1>8, <1>9, <1>12, <2>2
  <2>3. CASE i # m /\ j = m
    BY <1>1, <1>5, <1>8, <1>9, <1>12, <2>3
  <2> QED BY <2>1, <2>2, <2>3
<1> QED BY <1>11, <1>12 DEF OneCanonicalPerText, IsCanonical, HasDoc

\* The lookup is of the call that saves, and of none but it.
LEMMA CallLooksUp ==
  ASSUME DedupInv, NEW w \in Syncs, CallStep(w)
  PROVE  \A v \in Syncs : LookedUp(call[v])'
<1>1. call \in [Syncs -> CallRow] /\ call[w] \in CallRow /\ TypeInv /\ CallShape(call[w])
  BY DEF DedupInv, TypeInv, TypeOK
<1>2. PICK n \in CallRow : call' = [call EXCEPT ![w] = n]
  BY <1>1, CallStepGood DEF GoodStep, CallMoves
<1>3. call[w].pc \in Working
  BY DEF CallStep, CreateJob, UpdateJobRunning, Resolve, FetchPage,
     StopFetching, Upsert, FindCanonical, Save, DeleteChunks, InsertChunks,
     UpdateJobProgress, UpdateJobTotal, CompleteJob, MarkSourceSyncSuccess,
     CallFails, FailJob, MarkSourceSyncError, At, Working
<1>4. ASSUME NEW v \in Syncs, v # w PROVE LookedUp(call[v])'
  <2>1. call'[v] = call[v]
    BY <1>1, <1>2, <1>4
  <2>2. call[v].pc \notin Working
    BY <1>3, <1>4 DEF DedupInv, AtMostOne, Active
  <2> QED BY <2>1, <2>2 DEF LookedUp, Working
<1>5. ASSUME call'[w].pc = "save" PROVE LookedUp(call[w])'
  <2>1. FindCanonical(w)
    <3>1. ASSUME NEW x, NEW e \in {"failed", "failJob"}, Settle(w, x, e)
          PROVE  x.pc = "save"
      BY <1>1, <1>5, <3>1 DEF Settle, Blank
    <3>2. \A k \in InPage(call[w]) : MessageDone(call[w], k).pc # "save"
      BY <1>1, MessageDoneFacts
    <3>3. ~CreateJob(w) /\ ~UpdateJobRunning(w) /\ ~UpdateJobTotal(w) /\ ~CompleteJob(w)
      BY <1>1, <3>1 DEF CreateJob, UpdateJobRunning, UpdateJobTotal, CompleteJob, CallRow
    <3>4. ~Resolve(w) /\ ~StopFetching(w)
      BY <1>1, <1>5 DEF Resolve, StopFetching, CallRow
    <3>5. ~FetchPage(w)
      <4> SUFFICES ASSUME FetchPage(w) PROVE FALSE
        OBVIOUS
      <4>1. PICK p, k : call' = [call EXCEPT ![w] = [call[w] EXCEPT !.pc = "upsert",
                                                                  !.page = p, !.next = k]]
        BY DEF FetchPage
      <4>2. [call[w] EXCEPT !.pc = "upsert", !.page = p, !.next = k].pc = "upsert"
        BY <1>1 DEF CallRow
      <4>3. call'[w].pc = "upsert"
        BY <1>1, <4>1, <4>2
      <4> QED BY <1>5, <4>3
    <3>6. ~Upsert(w)
      <4> SUFFICES ASSUME Upsert(w) PROVE FALSE
        OBVIOUS
      <4>1. PICK k \in InPage(call[w]) :
              Settle(w, IF IsTrash(call[w].page[k]) THEN MessageDone(call[w], k)
                        ELSE [call[w] EXCEPT !.pc = "find", !.msg = k], "failJob")
        BY DEF Upsert
      <4>2. [call[w] EXCEPT !.pc = "find", !.msg = k].pc = "find"
        BY <1>1 DEF CallRow
      <4>3. CASE IsTrash(call[w].page[k])
        BY <3>1, <3>2, <4>1, <4>3
      <4>4. CASE ~IsTrash(call[w].page[k])
        BY <3>1, <4>1, <4>2, <4>4
      <4> QED BY <4>3, <4>4
    <3>7. ~Save(w)
      <4>1. [call[w] EXCEPT !.pc = "unchunk"].pc = "unchunk"
        BY <1>1 DEF CallRow
      <4> QED BY <3>1, <4>1 DEF Save
    <3>8. ~DeleteChunks(w)
      <4> SUFFICES ASSUME DeleteChunks(w) PROVE FALSE
        OBVIOUS
      <4>1. call[w].msg \in InPage(call[w])
        BY <1>1, ProcessedMessage DEF DeleteChunks, At, Processing
      <4>2. [call[w] EXCEPT !.pc = "chunk"].pc = "chunk"
        BY <1>1 DEF CallRow
      <4>3. CASE call[w].canon # 0
        BY <3>1, <3>2, <4>1, <4>3 DEF DeleteChunks
      <4>4. CASE call[w].canon = 0
        BY <3>1, <4>2, <4>4 DEF DeleteChunks
      <4> QED BY <4>3, <4>4
    <3>9. ~InsertChunks(w)
      <4> SUFFICES ASSUME InsertChunks(w) PROVE FALSE
        OBVIOUS
      <4>1. call[w].msg \in InPage(call[w]) /\ call[w].pc = "chunk"
        BY <1>1, ProcessedMessage DEF InsertChunks, At, Processing
      <4>2. [call[w] EXCEPT !.index = call[w].index + 1].pc = "chunk"
        BY <1>1, <4>1 DEF CallRow
      <4>3. CASE call[w].index = ChunkCount[Body(call[w])]
        BY <3>1, <3>2, <4>1, <4>3 DEF InsertChunks
      <4>4. CASE call[w].index # ChunkCount[Body(call[w])]
        BY <3>1, <4>2, <4>4 DEF InsertChunks
      <4> QED BY <4>3, <4>4
    <3>10. ~UpdateJobProgress(w)
      <4>1. NextPage(call[w]).pc \in {"total", "fetch"}
        BY <1>1 DEF NextPage, CallRow
      <4> QED BY <3>1, <4>1 DEF UpdateJobProgress
    <3>11. ~MarkSourceSyncSuccess(w)
      BY <3>1 DEF MarkSourceSyncSuccess, Blank
    <3>12. ~CallFails(w) /\ ~FailJob(w) /\ ~MarkSourceSyncError(w)
      BY <1>1, <1>5 DEF CallFails, FailJob, MarkSourceSyncError, ErrorStep, Blank, OnError
    <3> QED BY <3>3, <3>4, <3>5, <3>6, <3>7, <3>8, <3>9, <3>10, <3>11, <3>12
            DEF CallStep
  <2>2. PICK c \in CallRow : c = call[w]
    BY <1>1
  <2>3. PICK k \in 0 .. MaxId : /\ FoundCanonical(c.msg, Body(c), k)
                                /\ call'[w] = [c EXCEPT !.pc = "save", !.canon = k]
    BY <1>1, <2>1, <2>2 DEF FindCanonical
  <2>4. call'[w].msg = c.msg /\ Body(call'[w]) = Body(c) /\ call'[w].canon = k
    BY <2>3 DEF CallRow, Body
  <2>5. UNCHANGED docs
    BY <2>1 DEF FindCanonical, storeVars
  <2>6. FoundCanonical(c.msg, Body(c), k)'
    BY <2>3, <2>5 DEF FoundCanonical, CanonicalDocs, IsCanonical, HasDoc, Body
  <2> QED BY <2>4, <2>6 DEF LookedUp, FoundCanonical, CanonicalDocs, IsCanonical, HasDoc, Body
<1>6. ASSUME call'[w].pc # "save" PROVE LookedUp(call[w])'
  BY <1>6 DEF LookedUp
<1> QED BY <1>4, <1>5, <1>6

LEMMA DedupInvInit == Init => DedupInv
<1> SUFFICES ASSUME Init PROVE DedupInv
  OBVIOUS
<1>1. TypeInv
  BY TypeInvInit
<1>2. \A w \in Syncs : call[w] = Blank("idle")
  BY DEF Init
<1>3. AtMostOne
  BY <1>2 DEF AtMostOne, Active, Blank, Working
<1>4. \A m \in Ids : ~HasDoc(m)
  BY DEF Init, StoreInit, NoDoc, HasDoc
<1>5. Unedited
  <2>1. \A m \in Ids : \A b : Copied(m, b)
    BY <1>2 DEF Copied, Init, StoreInit, NoDoc, Blank, EmptyPage
  <2> QED BY <2>1 DEF Unedited, Bodies
<1>6. \A w \in Syncs : LookedUp(call[w])
  BY <1>2 DEF LookedUp, Blank
<1> QED BY <1>1, <1>3, <1>4, <1>5, <1>6
        DEF DedupInv, DuplicatesResolve, OneCanonicalPerText, IsDuplicate, IsCanonical

\* Where no document changes, the lookups of the calls that go on stay good.
LEMMA SameDocuments ==
  ASSUME DedupInv, UNCHANGED docs
  PROVE  /\ DuplicatesResolve' /\ OneCanonicalPerText'
         /\ \A w \in Syncs : call'[w] = call[w] => LookedUp(call[w])'
<1>1. DuplicatesResolve' /\ OneCanonicalPerText'
  BY DEF DedupInv, DuplicatesResolve, OneCanonicalPerText, IsDuplicate, IsCanonical, HasDoc
<1>2. ASSUME NEW w \in Syncs, call'[w] = call[w] PROVE LookedUp(call[w])'
  <2>1. PICK c \in CallRow : c = call[w] /\ c = call'[w]
    BY <1>2 DEF DedupInv, TypeInv, TypeOK
  <2>2. LookedUp(c)
    BY <2>1 DEF DedupInv
  <2>3. LookedUp(c)'
    BY <2>2 DEF LookedUp, FoundCanonical, CanonicalDocs, IsCanonical, HasDoc, Body
  <2> QED BY <2>1, <2>3
          DEF LookedUp, FoundCanonical, CanonicalDocs, IsCanonical, HasDoc, Body
<1> QED BY <1>1, <1>2

LEMMA DedupInvNext ==
  ASSUME OneAtATime, NoEdits
  PROVE  DedupInv /\ [Next]_vars => DedupInv'
<1> SUFFICES ASSUME DedupInv, [Next]_vars PROVE DedupInv'
  OBVIOUS
<1>1. TypeInv'
  BY TypeInvNext DEF DedupInv
<1>2. AtMostOne'
  BY NextKeepsOne DEF DedupInv
<1>3. Unedited'
  BY <1>1, NextKeepsBodies DEF DedupInv
<1>4. ASSUME UNCHANGED <<docs, call>>
      PROVE  DuplicatesResolve' /\ OneCanonicalPerText' /\ \A w \in Syncs : LookedUp(call[w])'
  BY <1>4, SameDocuments
<1>5. ASSUME NEW w \in Syncs,
             Crash(w) \/ \E f \in Resyncs, n \in Limits : GetSource(w, f, n)
      PROVE  DuplicatesResolve' /\ OneCanonicalPerText' /\ \A v \in Syncs : LookedUp(call[v])'
  <2>1. UNCHANGED docs
    BY <1>5 DEF Crash, GetSource, storeVars
  <2>2. call \in [Syncs -> CallRow]
    BY DEF DedupInv, TypeInv, TypeOK
  <2>3. \A v \in Syncs \ {w} : call'[v] = call[v]
    BY <1>5, <2>2 DEF Crash, GetSource
  <2>4. call'[w].pc \in {"dead", "createJob"}
    <3>1. CASE Crash(w)
      BY <2>2, <3>1 DEF Crash, Blank
    <3>2. CASE \E f \in Resyncs, n \in Limits : GetSource(w, f, n)
      <4>1. PICK f \in Resyncs, n \in Limits : GetSource(w, f, n)
        BY <3>2
      <4>2. call'[w] = [Blank("createJob") EXCEPT !.min = IF f THEN 0 ELSE src.watermark,
                                                  !.limit = n]
        BY <2>2, <4>1 DEF GetSource
      <4> QED BY <4>2 DEF Blank
    <3> QED BY <1>5, <3>1, <3>2
  <2>5. LookedUp(call[w])'
    BY <2>4 DEF LookedUp
  <2>6. /\ DuplicatesResolve' /\ OneCanonicalPerText'
        /\ \A v \in Syncs : call'[v] = call[v] => LookedUp(call[v])'
    BY <2>1, SameDocuments
  <2>7. \A v \in Syncs : LookedUp(call[v])'
    BY <2>3, <2>5, <2>6
  <2> QED BY <2>6, <2>7
<1>6. ASSUME NEW w \in Syncs, CallStep(w)
      PROVE  DuplicatesResolve' /\ OneCanonicalPerText' /\ \A v \in Syncs : LookedUp(call[v])'
  <2>1. DuplicatesResolve' /\ OneCanonicalPerText'
    <3>1. CASE Save(w)
      BY <3>1, SaveResolves
    <3>2. CASE ~Save(w)
      BY <1>6, <3>2, CallWrites, SameDocuments
    <3> QED BY <3>1, <3>2
  <2> QED BY <1>6, <2>1, CallLooksUp
<1>7. CASE ChannelStep
  BY <1>1, <1>2, <1>3, <1>4, <1>7 DEF ChannelStep, Post, Edit, Remove, storeVars, DedupInv
<1>8. ASSUME NEW w \in Syncs, Cancel(w) PROVE DedupInv'
  BY <1>1, <1>2, <1>3, <1>4, <1>8 DEF Cancel, storeVars, DedupInv
<1>9. CASE UNCHANGED vars
  BY <1>1, <1>2, <1>3, <1>4, <1>9 DEF vars, DedupInv
<1> QED BY <1>1, <1>2, <1>3, <1>5, <1>6, <1>7, <1>8, <1>9 DEF Next, DedupInv

\* With syncs one at a time and no edits, whatever fails or dies between the
\* statements of a sync, and however often a channel is synchronised again:
\* what is stored of a message is what was posted, and the canonical document
\* a lookup found is still canonical when the document that names it is saved.
THEOREM DedupInvariant ==
  ASSUME OneAtATime, NoEdits
  PROVE  Spec => []DedupInv
BY DedupInvInit, DedupInvNext, PTL DEF Spec

\* FindCanonicalDocumentByHash and SaveDocument never leave a duplicate whose
\* canonical document is itself a duplicate or carries another text.
THEOREM DuplicatesAlwaysResolve ==
  ASSUME OneAtATime, NoEdits
  PROVE  Spec => []DuplicatesResolve
<1>1. DedupInv => DuplicatesResolve
  BY DEF DedupInv
<1> QED BY <1>1, DedupInvariant, PTL

\* They never leave two canonical documents with one text either, although a
\* message is saved again by every full resync.
THEOREM TextsHaveOneCanonical ==
  ASSUME OneAtATime, NoEdits
  PROVE  Spec => []OneCanonicalPerText
<1>1. DedupInv => OneCanonicalPerText
  BY DEF DedupInv
<1> QED BY <1>1, DedupInvariant, PTL

-----------------------------------------------------------------------------
(***************************************************************************)
(* The watermark, for every number of calls, messages, edits and faults:   *)
(* nothing at or below it is missing from raw_messages, and ChannelSync    *)
(* implements SyncLog; and for calls one at a time, it only rises and what *)
(* is below it is fully processed.                                         *)
(*                                                                         *)
(* A call with max_messages takes the newest messages and moves the        *)
(* watermark past the older ones: only that it rises holds of such calls.  *)
(***************************************************************************)
Unbounded == Limits = {0}

Tracked(c) == KnownIds(c) /\ Covered(c)

\* The channel changes only by edits, removals and new messages above head.
ChannelGrows ==
  /\ head' \in Nat /\ head <= head'
  /\ \A m \in Ids : Live(m)' => Live(m) \/ m > head

CallTracks(w) ==
  \E n \in CallRow : call' = [call EXCEPT ![w] = n] /\ Tracked(n)'

LEMMA TrackedStable ==
  ASSUME TypeOK, NEW c \in CallRow, Tracked(c), StoredGrows, ChannelGrows
  PROVE  Tracked(c)'
<1>1. head \in Nat /\ head' \in Nat /\ head <= head' /\ Ids \subseteq Nat
  BY StoreAssumption, IdsFacts DEF TypeOK, ChannelGrows
<1>2. c.min \in Nat /\ c.seen \in Nat /\ InPage(c) \subseteq Ids
  BY StoreAssumption DEF CallRow, InPage
<1>3. KnownIds(c)'
  BY <1>1, <1>2 DEF Tracked, KnownIds, InPage
<1>4. ASSUME NEW m \in Ids, Live(m)'
      PROVE  /\ m <= c.min => Stored(m)'
             /\ \A k \in InPage(c) \cup {c.seen} :
                  m <= k => Stored(m)' \/ Pending(c, m)
  <2>1. CASE Live(m)
    <3>1. m <= c.min => Stored(m)
      BY <2>1 DEF Tracked, Covered
    <3>2. \A k \in InPage(c) \cup {c.seen} : m <= k => Stored(m) \/ Pending(c, m)
      BY <2>1 DEF Tracked, Covered
    <3>3. Stored(m) => Stored(m)'
      BY DEF StoredGrows
    <3> QED BY <3>1, <3>2, <3>3
  <2>2. CASE m > head
    <3>1. c.min <= head /\ c.seen <= head /\ \A k \in InPage(c) : k <= head
      BY DEF Tracked, KnownIds
    <3>2. \A k \in InPage(c) \cup {c.seen} : k \in Nat /\ k <= head
      BY <1>1, <1>2, <3>1
    <3>3. \A k \in InPage(c) \cup {c.seen} : ~(m <= k)
      BY <1>1, <2>2, <3>2
    <3>4. ~(m <= c.min)
      BY <1>1, <1>2, <2>2, <3>1
    <3> QED BY <3>3, <3>4
  <2> QED BY <1>4, <2>1, <2>2 DEF ChannelGrows
<1>5. Covered(c)'
  BY <1>4 DEF Covered, Pending, InPage
<1> QED BY <1>3, <1>5 DEF Tracked

LEMMA BlankTracked ==
  ASSUME NEW pc \in Quiet, head' \in Nat
  PROVE  Tracked(Blank(pc))'
<1>1. /\ InPage(Blank(pc)) = {} /\ Blank(pc).min = 0 /\ Blank(pc).seen = 0
  BY BlankFacts
<1>2. \A m \in Ids : ~(m <= 0)
  BY IdsFacts
<1> QED BY <1>1, <1>2 DEF Tracked, KnownIds, Covered, InPage

\* Moving on within a page, or between statements that visit nothing.
LEMMA SamePlace ==
  ASSUME NEW c \in CallRow, NEW n \in CallRow, Tracked(c)',
         n.min = c.min, n.page = c.page, n.next = c.next, n.seen = c.seen,
         c.pc # "fetch" \/ c.cursor = 0
  PROVE  Tracked(n)'
BY DEF Tracked, KnownIds, Covered, Pending, InPage

\* A stored message can leave the page.
LEMMA MessageDoneTracked ==
  ASSUME NEW c \in CallRow, NEW m \in InPage(c), Tracked(c)', Stored(m)',
         c.limit = 0, c.pc # "fetch"
  PROVE  Tracked(MessageDone(c, m))'
<1> DEFINE n == MessageDone(c, m)
<1>1. /\ n.min = c.min /\ n.next = c.next
      /\ n.seen = IF m > c.seen THEN m ELSE c.seen
      /\ InPage(n) = InPage(c) \ {m}
  BY MessageDoneFacts
<1> HIDE DEF n
<1>2. n.seen \in InPage(c) \cup {c.seen}
  BY <1>1
<1>3. InPage(n) \cup {n.seen} \subseteq InPage(c) \cup {c.seen}
  BY <1>1, <1>2
<1>4. KnownIds(n)'
  BY <1>1, <1>3 DEF Tracked, KnownIds, InPage
<1>5. ASSUME NEW j \in Ids, Live(j)'
      PROVE  /\ j <= n.min => Stored(j)'
             /\ \A k \in InPage(n) \cup {n.seen} :
                  j <= k => Stored(j)' \/ Pending(n, j)
  <2>1. j <= n.min => Stored(j)'
    BY <1>1, <1>5 DEF Tracked, Covered
  <2>2. ASSUME NEW k \in InPage(n) \cup {n.seen}, j <= k
        PROVE  Stored(j)' \/ Pending(n, j)
    <3>1. Stored(j)' \/ Pending(c, j)
      BY <1>3, <1>5, <2>2 DEF Tracked, Covered, Pending, InPage
    <3>2. Pending(c, j) => j = m \/ Pending(n, j)
      BY <1>1 DEF Pending
    <3> QED BY <3>1, <3>2
  <2> QED BY <2>1, <2>2
<1>6. Covered(n)'
  BY <1>5 DEF Covered, Pending, InPage
<1>7. Tracked(n)'
  BY <1>4, <1>6 DEF Tracked
<1> QED BY <1>7 DEF n

-----------------------------------------------------------------------------
(* One lemma per action of a call. *)

\* What may be assumed of the call that moves; c is its locals before the step.
LEMMA CallTrackFacts ==
  ASSUME SyncInv, NEW w \in Syncs, StoredGrows, UNCHANGED channelVars
  PROVE  /\ head' \in Nat
         /\ \E c \in CallRow : /\ c = call[w]
                               /\ CallShape(c) /\ CallShape(c)'
                               /\ Tracked(c) /\ Tracked(c)'
<1>1. call[w] \in CallRow /\ TypeOK /\ CallShape(call[w]) /\ Tracked(call[w])
  BY DEF SyncInv, CallInv, Tracked, TypeOK
<1>2. PICK c \in CallRow : c = call[w]
  BY <1>1
<1>3. head \in Nat
  BY <1>1, StoreAssumption DEF TypeOK
<1>4. ChannelGrows
  BY <1>3 DEF ChannelGrows, channelVars, Live
<1>5. CallShape(c)' /\ Tracked(c)'
  BY <1>1, <1>2, <1>4, ShapeStable, TrackedStable
<1> QED BY <1>1, <1>2, <1>3, <1>5 DEF channelVars

LEMMA SettleTracks ==
  ASSUME NEW w \in Syncs, NEW n \in CallRow,
         NEW onError \in {"failed", "failJob"},
         Settle(w, n, onError), Tracked(n)', head' \in Nat
  PROVE  CallTracks(w)
<1>1. onError \in Quiet
  BY DEF Quiet, Pcs, Working, Ended, Processing
<1>2. Blank(onError) \in CallRow /\ Tracked(Blank(onError))'
  BY <1>1, BlankFacts, BlankTracked
<1> QED BY <1>2 DEF Settle, CallTracks

LEMMA BlankTracks ==
  ASSUME NEW w \in Syncs, NEW pc \in Quiet, head' \in Nat,
         call' = [call EXCEPT ![w] = Blank(pc)]
  PROVE  CallTracks(w)
BY BlankFacts, BlankTracked DEF CallTracks

LEMMA CreateJobTracks ==
  ASSUME SyncInv, NEW w \in Syncs, CreateJob(w)
  PROVE  CallTracks(w)
<1>1. StoredGrows /\ UNCHANGED channelVars
  BY DEF CreateJob, storeVars, StoredGrows, Stored
<1>2. PICK c \in CallRow : c = call[w] /\ Tracked(c)'
  BY <1>1, CallTrackFacts
<1> DEFINE n == [c EXCEPT !.pc = "runJob"]
<1>3. n \in CallRow
  BY DEF CallRow, Working
<1>4. Tracked(n)'
  <2>1. c.pc = "createJob"
    BY <1>2 DEF CreateJob, At
  <2>2. /\ n.min = c.min /\ n.page = c.page /\ n.next = c.next
        /\ n.seen = c.seen
    BY DEF CallRow
  <2> HIDE DEF n
  <2> QED BY <1>2, <1>3, <2>1, <2>2, SamePlace
<1>5. Settle(w, n, "failed")
  BY <1>2 DEF CreateJob
<1> HIDE DEF n
<1> QED BY <1>1, <1>3, <1>4, <1>5, SettleTracks, CallTrackFacts

LEMMA UpdateJobRunningTracks ==
  ASSUME SyncInv, NEW w \in Syncs, UpdateJobRunning(w)
  PROVE  CallTracks(w)
<1>1. StoredGrows /\ UNCHANGED channelVars
  BY DEF UpdateJobRunning, storeVars, StoredGrows, Stored
<1>2. PICK c \in CallRow : c = call[w] /\ Tracked(c)'
  BY <1>1, CallTrackFacts
<1> DEFINE n == [c EXCEPT !.pc = "resolve"]
<1>3. n \in CallRow
  BY DEF CallRow, Working
<1>4. Tracked(n)'
  <2>1. c.pc = "runJob"
    BY <1>2 DEF UpdateJobRunning, At
  <2>2. /\ n.min = c.min /\ n.page = c.page /\ n.next = c.next
        /\ n.seen = c.seen
    BY DEF CallRow
  <2> HIDE DEF n
  <2> QED BY <1>2, <1>3, <2>1, <2>2, SamePlace
<1>5. Settle(w, n, "failed")
  BY <1>2 DEF UpdateJobRunning
<1> HIDE DEF n
<1> QED BY <1>1, <1>3, <1>4, <1>5, SettleTracks, CallTrackFacts

LEMMA ResolveTracks ==
  ASSUME SyncInv, NEW w \in Syncs, Resolve(w)
  PROVE  CallTracks(w)
<1>1. StoredGrows /\ UNCHANGED channelVars
  BY DEF Resolve, storeVars, StoredGrows, Stored
<1>2. PICK c \in CallRow : c = call[w] /\ Tracked(c)'
  BY <1>1, CallTrackFacts
<1> DEFINE n == [c EXCEPT !.pc = "fetch"]
<1>3. n \in CallRow
  BY DEF CallRow, Working
<1>4. Tracked(n)'
  <2>1. c.pc = "resolve"
    BY <1>2 DEF Resolve, At
  <2>2. /\ n.min = c.min /\ n.page = c.page /\ n.next = c.next
        /\ n.seen = c.seen
    BY DEF CallRow
  <2> HIDE DEF n
  <2> QED BY <1>2, <1>3, <2>1, <2>2, SamePlace
<1>5. call' = [call EXCEPT ![w] = n]
  BY <1>2 DEF Resolve
<1> HIDE DEF n
<1> QED BY <1>3, <1>4, <1>5 DEF CallTracks

LEMMA UpdateJobTotalTracks ==
  ASSUME SyncInv, NEW w \in Syncs, UpdateJobTotal(w)
  PROVE  CallTracks(w)
<1>1. StoredGrows /\ UNCHANGED channelVars
  BY DEF UpdateJobTotal, storeVars, StoredGrows, Stored
<1>2. PICK c \in CallRow : c = call[w] /\ Tracked(c)'
  BY <1>1, CallTrackFacts
<1> DEFINE n == [c EXCEPT !.pc = "complete"]
<1>3. n \in CallRow
  BY DEF CallRow, Working
<1>4. Tracked(n)'
  <2>1. c.pc = "total"
    BY <1>2 DEF UpdateJobTotal, At
  <2>2. /\ n.min = c.min /\ n.page = c.page /\ n.next = c.next
        /\ n.seen = c.seen
    BY DEF CallRow
  <2> HIDE DEF n
  <2> QED BY <1>2, <1>3, <2>1, <2>2, SamePlace
<1>5. Settle(w, n, "failJob")
  BY <1>2 DEF UpdateJobTotal
<1> HIDE DEF n
<1> QED BY <1>1, <1>3, <1>4, <1>5, SettleTracks, CallTrackFacts

LEMMA CompleteJobTracks ==
  ASSUME SyncInv, NEW w \in Syncs, CompleteJob(w)
  PROVE  CallTracks(w)
<1>1. StoredGrows /\ UNCHANGED channelVars
  BY DEF CompleteJob, storeVars, StoredGrows, Stored
<1>2. PICK c \in CallRow : c = call[w] /\ Tracked(c)'
  BY <1>1, CallTrackFacts
<1> DEFINE n == [c EXCEPT !.pc = "mark"]
<1>3. n \in CallRow
  BY DEF CallRow, Working
<1>4. Tracked(n)'
  <2>1. c.pc = "complete"
    BY <1>2 DEF CompleteJob, At
  <2>2. /\ n.min = c.min /\ n.page = c.page /\ n.next = c.next
        /\ n.seen = c.seen
    BY DEF CallRow
  <2> HIDE DEF n
  <2> QED BY <1>2, <1>3, <2>1, <2>2, SamePlace
<1>5. Settle(w, n, "failJob")
  BY <1>2 DEF CompleteJob
<1> HIDE DEF n
<1> QED BY <1>1, <1>3, <1>4, <1>5, SettleTracks, CallTrackFacts

LEMMA SaveTracks ==
  ASSUME SyncInv, NEW w \in Syncs, Save(w)
  PROVE  CallTracks(w)
<1>1. StoredGrows /\ UNCHANGED channelVars
  BY DEF Save, StoredGrows, Stored
<1>2. PICK c \in CallRow : c = call[w] /\ Tracked(c)'
  BY <1>1, CallTrackFacts
<1> DEFINE n == [c EXCEPT !.pc = "unchunk"]
<1>3. n \in CallRow
  BY DEF CallRow, Working
<1>4. Tracked(n)'
  <2>1. c.pc = "save"
    BY <1>2 DEF Save, At
  <2>2. /\ n.min = c.min /\ n.page = c.page /\ n.next = c.next
        /\ n.seen = c.seen
    BY DEF CallRow
  <2> HIDE DEF n
  <2> QED BY <1>2, <1>3, <2>1, <2>2, SamePlace
<1>5. Settle(w, n, "failJob")
  BY <1>2 DEF Save
<1> HIDE DEF n
<1> QED BY <1>1, <1>3, <1>4, <1>5, SettleTracks, CallTrackFacts

LEMMA FindCanonicalTracks ==
  ASSUME SyncInv, NEW w \in Syncs, FindCanonical(w)
  PROVE  CallTracks(w)
<1>1. StoredGrows /\ UNCHANGED channelVars
  BY DEF FindCanonical, storeVars, StoredGrows, Stored
<1>2. PICK c \in CallRow : c = call[w] /\ Tracked(c)'
  BY <1>1, CallTrackFacts
<1>3. PICK k \in 0 .. MaxId :
        call' = [call EXCEPT ![w] = [c EXCEPT !.pc = "save", !.canon = k]]
  BY <1>2 DEF FindCanonical
<1> DEFINE n == [c EXCEPT !.pc = "save", !.canon = k]
<1>4. n \in CallRow
  BY DEF CallRow, Working
<1>5. Tracked(n)'
  <2>1. c.pc = "find"
    BY <1>2 DEF FindCanonical, At
  <2>2. /\ n.min = c.min /\ n.page = c.page /\ n.next = c.next
        /\ n.seen = c.seen
    BY DEF CallRow
  <2> HIDE DEF n
  <2> QED BY <1>2, <1>4, <2>1, <2>2, SamePlace
<1> QED BY <1>3, <1>4, <1>5 DEF CallTracks

LEMMA UnboundedCall ==
  ASSUME Unbounded, NEW c \in CallRow
  PROVE  /\ c.limit = 0
         /\ \A n : ~LimitReached(c.limit, n)
         /\ PageLimit(c) \in Nat \ {0}
<1>1. c.limit = 0
  <2>1. c.limit \in Limits \cup {0} /\ Limits = {0}
    BY DEF CallRow, Unbounded
  <2> QED BY <2>1, Zenon
<1>2. PageLimit(c) = Clamp(BatchSize)
  BY <1>1 DEF PageLimit
<1>3. Clamp(BatchSize) \in Nat \ {0}
  BY SyncAssumption DEF Clamp
<1> QED BY <1>1, <1>2, <1>3 DEF LimitReached

LEMMA UpsertTracks ==
  ASSUME SyncInv, Unbounded, NEW w \in Syncs, Upsert(w)
  PROVE  CallTracks(w)
<1>1. call[w] \in CallRow
  BY DEF SyncInv, TypeOK
<1>2. PICK m \in InPage(call[w]) :
        /\ raw' = [raw EXCEPT ![m] = call[w].page[m]]
        /\ Settle(w, IF IsTrash(call[w].page[m]) THEN MessageDone(call[w], m)
                     ELSE [call[w] EXCEPT !.pc = "find", !.msg = m], "failJob")
  BY DEF Upsert, UpsertRawMessage
<1>3. /\ raw \in [Ids -> Bodies \cup {NoText}]
      /\ m \in Ids /\ call[w].page[m] # NoText
  BY DEF SyncInv, TypeOK, StoreTypeOK, InPage
<1>4. StoredGrows /\ Stored(m)' /\ UNCHANGED channelVars
  BY <1>2, <1>3 DEF StoredGrows, Stored, Upsert
<1>5. PICK c \in CallRow : c = call[w] /\ Tracked(c)'
  BY <1>4, CallTrackFacts
<1>6. c.limit = 0 /\ c.pc = "upsert" /\ m \in InPage(c)
  BY <1>2, <1>5, UnboundedCall DEF Upsert, At
<1>7. CASE IsTrash(c.page[m])
  <2>1. MessageDone(c, m) \in CallRow /\ Tracked(MessageDone(c, m))'
    BY <1>4, <1>5, <1>6, MessageDoneFacts, MessageDoneTracked
  <2>2. Settle(w, MessageDone(c, m), "failJob")
    BY <1>2, <1>5, <1>7
  <2> QED BY <1>4, <2>1, <2>2, SettleTracks, CallTrackFacts
<1>8. CASE ~IsTrash(c.page[m])
  <2> DEFINE n == [c EXCEPT !.pc = "find", !.msg = m]
  <2>1. n \in CallRow
    <3>1. m \in 0 .. MaxId
      BY <1>3, StoreAssumption DEF Ids
    <3> QED BY <3>1 DEF CallRow, Working
  <2>2. /\ n.min = c.min /\ n.page = c.page /\ n.next = c.next
        /\ n.seen = c.seen
    BY DEF CallRow
  <2>3. Settle(w, n, "failJob")
    BY <1>2, <1>5, <1>8
  <2> HIDE DEF n
  <2>4. Tracked(n)'
    BY <1>5, <1>6, <2>1, <2>2, SamePlace
  <2> QED BY <1>4, <2>1, <2>3, <2>4, SettleTracks, CallTrackFacts
<1> QED BY <1>7, <1>8

LEMMA DeleteChunksTracks ==
  ASSUME SyncInv, Unbounded, NEW w \in Syncs, DeleteChunks(w)
  PROVE  CallTracks(w)
<1>1. StoredGrows /\ UNCHANGED channelVars
  BY DEF DeleteChunks, StoredGrows, Stored
<1>2. PICK c \in CallRow : c = call[w] /\ CallShape(c) /\ Tracked(c)'
  BY <1>1, CallTrackFacts
<1>3. c.pc = "unchunk" /\ c.pc \in Processing /\ c.limit = 0
  BY <1>2, UnboundedCall DEF DeleteChunks, At, Processing
<1>4. c.msg \in InPage(c) /\ Stored(c.msg)'
  BY <1>1, <1>2, <1>3, ProcessedMessage DEF StoredGrows
<1>5. CASE c.canon # 0
  <2>1. MessageDone(c, c.msg) \in CallRow /\ Tracked(MessageDone(c, c.msg))'
    BY <1>2, <1>3, <1>4, MessageDoneFacts, MessageDoneTracked
  <2>2. Settle(w, MessageDone(c, c.msg), "failJob")
    BY <1>2, <1>5 DEF DeleteChunks
  <2> QED BY <1>1, <2>1, <2>2, SettleTracks, CallTrackFacts
<1>6. CASE c.canon = 0
  <2> DEFINE n == [c EXCEPT !.pc = "chunk"]
  <2>1. n \in CallRow
    BY DEF CallRow, Working
  <2>2. /\ n.min = c.min /\ n.page = c.page /\ n.next = c.next
        /\ n.seen = c.seen
    BY DEF CallRow
  <2>3. Settle(w, n, "failJob")
    BY <1>2, <1>6 DEF DeleteChunks
  <2> HIDE DEF n
  <2>4. Tracked(n)'
    BY <1>2, <1>3, <2>1, <2>2, SamePlace
  <2> QED BY <1>1, <2>1, <2>3, <2>4, SettleTracks, CallTrackFacts
<1> QED BY <1>5, <1>6

LEMMA InsertChunksTracks ==
  ASSUME SyncInv, Unbounded, NEW w \in Syncs, InsertChunks(w)
  PROVE  CallTracks(w)
<1>1. StoredGrows /\ UNCHANGED channelVars
  BY DEF InsertChunks, StoredGrows, Stored
<1>2. PICK c \in CallRow : c = call[w] /\ CallShape(c) /\ Tracked(c)'
  BY <1>1, CallTrackFacts
<1>3. c.pc = "chunk" /\ c.pc \in Processing /\ c.limit = 0
  BY <1>2, UnboundedCall DEF InsertChunks, At, Processing
<1>4. c.msg \in InPage(c) /\ Stored(c.msg)'
  BY <1>1, <1>2, <1>3, ProcessedMessage DEF StoredGrows
<1>5. CASE c.index = ChunkCount[Body(c)]
  <2>1. MessageDone(c, c.msg) \in CallRow /\ Tracked(MessageDone(c, c.msg))'
    BY <1>2, <1>3, <1>4, MessageDoneFacts, MessageDoneTracked
  <2>2. Settle(w, MessageDone(c, c.msg), "failJob")
    BY <1>2, <1>5 DEF InsertChunks
  <2> QED BY <1>1, <2>1, <2>2, SettleTracks, CallTrackFacts
<1>6. CASE c.index # ChunkCount[Body(c)]
  <2> DEFINE n == [c EXCEPT !.index = c.index + 1]
  <2>1. n \in CallRow
    <3>1. ChunkCount[Body(c)] \in 1 .. MaxChunks
      BY <1>2, <1>3, ProcessedMessage
    <3>2. c.index <= ChunkCount[Body(c)]
      BY <1>2, <1>3 DEF CallShape
    <3>3. c.index + 1 \in 1 .. MaxChunks
      BY <1>6, <3>1, <3>2, StoreAssumption DEF CallRow
    <3> QED BY <3>3 DEF CallRow
  <2>2. /\ n.min = c.min /\ n.page = c.page /\ n.next = c.next
        /\ n.seen = c.seen
    BY DEF CallRow
  <2>3. Settle(w, n, "failJob")
    BY <1>2, <1>6 DEF InsertChunks
  <2> HIDE DEF n
  <2>4. Tracked(n)'
    BY <1>2, <1>3, <2>1, <2>2, SamePlace
  <2> QED BY <1>1, <2>1, <2>3, <2>4, SettleTracks, CallTrackFacts
<1> QED BY <1>5, <1>6

LEMMA UpdateJobProgressTracks ==
  ASSUME SyncInv, NEW w \in Syncs, UpdateJobProgress(w)
  PROVE  CallTracks(w)
<1>1. StoredGrows /\ UNCHANGED channelVars
  BY DEF UpdateJobProgress, storeVars, StoredGrows, Stored
<1>2. PICK c \in CallRow : c = call[w] /\ CallShape(c) /\ Tracked(c)'
  BY <1>1, CallTrackFacts
<1> DEFINE n == NextPage(c)
<1>3. c.pc = "progress" /\ InPage(c) = {}
  BY <1>2 DEF UpdateJobProgress, At, CallShape, Processing
<1>4. n \in CallRow
  <2>1. 0 \in 0 .. MaxId
    BY StoreAssumption
  <2>2. [c EXCEPT !.pc = "total", !.next = 0] \in CallRow
    BY <2>1 DEF CallRow, Working
  <2>3. [c EXCEPT !.pc = "fetch", !.cursor = c.next, !.next = 0] \in CallRow
    BY <2>1 DEF CallRow, Working
  <2> QED BY <2>2, <2>3 DEF NextPage
<1>5. n.min = c.min /\ n.page = c.page /\ n.seen = c.seen
  BY DEF NextPage, CallRow
<1>6. \A m : Pending(c, m) => Pending(n, m)
  <2>1. c.next = 0 \/ (n.pc = "fetch" /\ n.cursor = c.next /\ n.cursor # 0)
    <3>1. ~(c.next # 0 /\ c.next = c.cursor)
      BY <1>2 DEF CallShape, CallRow
    <3> QED BY <3>1 DEF NextPage, CallRow
  <2> HIDE DEF n
  <2> QED BY <1>3, <2>1 DEF Pending
<1>7. Settle(w, n, "failJob")
  BY <1>2 DEF UpdateJobProgress
<1> HIDE DEF n
<1>8. Tracked(n)'
  <2>1. KnownIds(n)'
    BY <1>2, <1>5 DEF Tracked, KnownIds, InPage
  <2>2. Covered(n)'
    BY <1>2, <1>5, <1>6 DEF Tracked, Covered, InPage, Pending
  <2> QED BY <2>1, <2>2 DEF Tracked
<1> QED BY <1>1, <1>4, <1>7, <1>8, SettleTracks, CallTrackFacts

\* A message the call still knows of as missing can only be on a later page.
LEMMA StillEligible ==
  ASSUME SyncInv, NEW c \in CallRow, CallShape(c), Tracked(c), c.pc = "fetch",
         NEW m \in Ids, Live(m), ~Stored(m),
         NEW k \in Eligible(c) \cup {c.seen}, m <= k
  PROVE  m \in Eligible(c)
<1>1. InPage(c) = {} /\ c.next = 0
  BY DEF CallShape, Processing
<1>2. ~(m <= c.min)
  BY DEF Tracked, Covered
<1>3. m \in Nat /\ c.min \in Nat /\ c.cursor \in Nat /\ Ids \subseteq Nat
  BY IdsFacts, StoreAssumption DEF CallRow
<1>4. CASE k \in Eligible(c)
  <2>1. k \in Nat /\ (c.cursor # 0 => k < c.cursor)
    BY <1>3, <1>4 DEF Eligible
  <2> QED BY <1>2, <1>3, <2>1 DEF Eligible, Live
<1>5. CASE k = c.seen
  <2>1. Pending(c, m)
    BY <1>5 DEF Tracked, Covered
  <2> QED BY <1>1, <1>2, <1>3, <2>1 DEF Pending, Eligible, Live
<1> QED BY <1>4, <1>5

LEMMA StopFetchingTracks ==
  ASSUME SyncInv, Unbounded, NEW w \in Syncs, StopFetching(w)
  PROVE  CallTracks(w)
<1>1. StoredGrows /\ UNCHANGED channelVars
  BY DEF StopFetching, storeVars, StoredGrows, Stored
<1>2. PICK c \in CallRow : /\ c = call[w] /\ CallShape(c)
                           /\ Tracked(c) /\ Tracked(c)'
  BY <1>1, CallTrackFacts
<1>3. c.pc = "fetch" /\ Page(c) = {}
  BY <1>2, UnboundedCall DEF StopFetching, At
<1>4. Eligible(c) = {}
  <2>1. PICK n \in Nat \ {0} : n = PageLimit(c)
    BY UnboundedCall
  <2>2. Newest(Eligible(c), n) = {}
    BY <1>3, <2>1 DEF Page
  <2>3. ~(Cardinality(Newest(Eligible(c), n)) >= n)
    BY <2>1, <2>2, FS_EmptySet
  <2>4. Eligible(c) \in SUBSET Ids /\ n \in Nat
    BY <2>1 DEF Eligible
  <2> QED BY <2>2, <2>3, <2>4, PageComplete
<1> DEFINE n == [c EXCEPT !.pc = "total"]
<1>5. n \in CallRow
  BY DEF CallRow, Working
<1>6. n.min = c.min /\ n.page = c.page /\ n.next = c.next /\ n.seen = c.seen
  BY DEF CallRow
<1>7. call' = [call EXCEPT ![w] = n]
  BY <1>2 DEF StopFetching
<1> HIDE DEF n
<1>8. KnownIds(n)'
  BY <1>2, <1>6 DEF Tracked, KnownIds, InPage
<1>9. InPage(n) = {} /\ InPage(c) = {}
  BY <1>2, <1>3, <1>6 DEF CallShape, Processing, InPage
<1>10. ASSUME NEW m \in Ids, Live(m)
       PROVE  (m <= c.min => Stored(m)) /\ (m <= c.seen => Stored(m))
  <2>1. m <= c.min => Stored(m)
    BY <1>2, <1>10 DEF Tracked, Covered
  <2>2. m <= c.seen => Stored(m)
    BY <1>2, <1>3, <1>4, <1>10, StillEligible
  <2> QED BY <2>1, <2>2
<1>11. Covered(n)
  BY <1>6, <1>9, <1>10 DEF Covered
<1>12. Tracked(n)
  BY <1>2, <1>6, <1>9, <1>11 DEF Tracked, KnownIds
<1>13. TypeOK /\ ChannelGrows
  BY <1>1, StoreAssumption DEF SyncInv, TypeOK, ChannelGrows, channelVars, Live
<1> QED BY <1>1, <1>5, <1>7, <1>12, <1>13, TrackedStable DEF CallTracks

LEMMA FetchPageTracks ==
  ASSUME SyncInv, Unbounded, NEW w \in Syncs, FetchPage(w)
  PROVE  CallTracks(w)
<1>1. StoredGrows /\ UNCHANGED channelVars
  BY DEF FetchPage, storeVars, StoredGrows, Stored
<1>2. PICK c \in CallRow : c = call[w] /\ CallShape(c) /\ Tracked(c)
  BY <1>1, CallTrackFacts
<1> DEFINE page == [m \in Ids |-> IF m \in Page(c) THEN channel[m] ELSE NoText]
<1>3. PICK k \in 0 .. MaxId :
        /\ NextCursor(Page(c), PageLimit(c), k)
        /\ call' = [call EXCEPT ![w] = [c EXCEPT !.pc = "upsert",
                                                 !.page = page, !.next = k]]
  BY <1>2 DEF FetchPage
<1> DEFINE n == [c EXCEPT !.pc = "upsert", !.page = page, !.next = k]
<1>4. page \in [Ids -> Bodies \cup {NoText}]
  BY DEF SyncInv, TypeOK
<1>5. Page(c) \subseteq Eligible(c) /\ Eligible(c) \in SUBSET Ids
  BY DEF Page, Newest, Eligible
<1>6. \A m \in Page(c) : m \in Ids /\ Live(m)
  BY <1>5 DEF Eligible, Live
<1>7. {m \in Ids : page[m] # NoText} = Page(c)
  BY <1>6 DEF Live
<1> HIDE DEF page
<1>8. n \in CallRow
  BY <1>4 DEF CallRow, Working
<1>9. /\ n.min = c.min /\ n.seen = c.seen /\ n.next = k /\ n.page = page
      /\ n.pc = "upsert"
  BY DEF CallRow
<1> HIDE DEF n
<1>10. InPage(n) = Page(c)
  BY <1>7, <1>9 DEF InPage
<1>11. c.pc = "fetch"
  BY <1>2 DEF FetchPage, At
<1>12. KnownIds(n)
  <2>1. \A m \in Page(c) : m <= head
    BY <1>6 DEF SyncInv
  <2> QED BY <1>2, <1>9, <1>10, <2>1 DEF Tracked, KnownIds
<1>13. ASSUME NEW m \in Eligible(c) PROVE m \in Page(c) \/ (k # 0 /\ m < k)
  <2>1. PICK p \in Nat \ {0} : p = PageLimit(c)
    BY UnboundedCall
  <2>2. Page(c) = Newest(Eligible(c), p) /\ p \in Nat
    BY <2>1 DEF Page
  <2>3. CASE Cardinality(Page(c)) >= p
    <3>1. k \in Page(c)
      BY <1>3, <2>1, <2>3 DEF NextCursor
    <3>2. k \in Nat \ {0} /\ m \in Nat
      BY <1>5, <3>1, IdsFacts
    <3>3. CASE k <= m
      BY <1>5, <2>2, <3>1, <3>3, PageUpward
    <3> QED BY <3>2, <3>3
  <2>4. CASE ~(Cardinality(Page(c)) >= p)
    BY <1>5, <2>2, <2>4, PageComplete
  <2> QED BY <2>3, <2>4
<1>14. ASSUME NEW m \in Ids, Live(m)
       PROVE  /\ m <= n.min => Stored(m)
              /\ \A j \in InPage(n) \cup {n.seen} :
                   m <= j => Stored(m) \/ Pending(n, m)
  <2>1. m <= n.min => Stored(m)
    BY <1>2, <1>9, <1>14 DEF Tracked, Covered
  <2>2. ASSUME NEW j \in InPage(n) \cup {n.seen}, m <= j, ~Stored(m)
        PROVE  Pending(n, m)
    <3>1. j \in Eligible(c) \cup {c.seen}
      BY <1>5, <1>9, <1>10
    <3>2. m \in Eligible(c)
      BY <1>2, <1>11, <1>14, <2>2, <3>1, StillEligible
    <3> QED BY <1>9, <1>10, <1>13, <3>2 DEF Pending
  <2> QED BY <2>1, <2>2
<1>15. Tracked(n)
  BY <1>12, <1>14 DEF Tracked, Covered
<1>16. TypeOK /\ ChannelGrows
  BY <1>1, StoreAssumption DEF SyncInv, TypeOK, ChannelGrows, channelVars, Live
<1>17. call' = [call EXCEPT ![w] = n]
  BY <1>3 DEF n
<1> QED BY <1>1, <1>8, <1>15, <1>16, <1>17, TrackedStable DEF CallTracks

LEMMA GetSourceTracks ==
  ASSUME SyncInv, NEW w \in Syncs, NEW full \in Resyncs, NEW limit \in Limits,
         GetSource(w, full, limit)
  PROVE  CallTracks(w)
<1>1. Blank("createJob") \in CallRow /\ InPage(Blank("createJob")) = {}
      /\ Blank("createJob").seen = 0
  BY BlankFacts DEF Quiet, Pcs, Working, Ended, Processing
<1>2. src.watermark \in 0 .. MaxId /\ 0 \in 0 .. MaxId
  BY StoreAssumption DEF SyncInv, TypeOK
<1>3. PICK k \in 0 .. MaxId : k = IF full THEN 0 ELSE src.watermark
  BY <1>2
<1> DEFINE n == [Blank("createJob") EXCEPT !.min = k, !.limit = limit]
<1>4. n \in CallRow
  BY <1>1 DEF CallRow
<1>5. call' = [call EXCEPT ![w] = n]
  BY <1>3 DEF GetSource
<1>6. InPage(n) = {} /\ n.min = k /\ n.seen = 0
  BY <1>1 DEF CallRow, InPage
<1> HIDE DEF n
<1>7. head \in Nat /\ \A m \in Ids : m \in Nat \ {0}
  BY StoreAssumption, IdsFacts DEF SyncInv, TypeOK
<1>8. KnownIds(n)
  BY <1>2, <1>3, <1>6, <1>7 DEF KnownIds, SyncInv
<1>9. \A m \in Ids : Live(m) /\ m <= k => Stored(m)
  BY <1>3, <1>7 DEF SyncInv, WatermarkSound, Live, Stored
<1>10. \A m \in Ids : ~(m <= 0)
  BY <1>7
<1>11. Covered(n)
  BY <1>6, <1>9, <1>10 DEF Covered
<1>12. TypeOK /\ StoredGrows /\ ChannelGrows
  BY <1>7 DEF SyncInv, ChannelGrows, StoredGrows, GetSource, storeVars,
     channelVars, Live, Stored
<1> QED BY <1>4, <1>5, <1>8, <1>11, <1>12, TrackedStable DEF CallTracks, Tracked

LEMMA MarkSourceSyncSuccessTracks ==
  ASSUME SyncInv, NEW w \in Syncs, MarkSourceSyncSuccess(w)
  PROVE  CallTracks(w)
<1>1. head' \in Nat
  BY StoreAssumption DEF SyncInv, TypeOK, MarkSourceSyncSuccess, channelVars
<1>2. PICK pc \in {"returned", "failJob"} : call' = [call EXCEPT ![w] = Blank(pc)]
  BY DEF MarkSourceSyncSuccess, Settle
<1>3. pc \in Quiet
  BY <1>2 DEF Quiet, Pcs, Working, Ended, Processing
<1> QED BY <1>1, <1>2, <1>3, BlankTracks

LEMMA CallFailsTracks ==
  ASSUME SyncInv, NEW w \in Syncs, CallFails(w)
  PROVE  CallTracks(w)
<1>1. head' \in Nat
  BY StoreAssumption DEF SyncInv, TypeOK, CallFails, channelVars
<1>2. PICK pc \in {"failed", "failJob"} : call' = [call EXCEPT ![w] = Blank(pc)]
  BY DEF CallFails, OnError
<1>3. pc \in Quiet
  BY <1>2 DEF Quiet, Pcs, Working, Ended, Processing
<1> QED BY <1>1, <1>2, <1>3, BlankTracks

LEMMA FailJobTracks ==
  ASSUME SyncInv, NEW w \in Syncs, FailJob(w)
  PROVE  CallTracks(w)
<1>1. head' \in Nat
  BY StoreAssumption DEF SyncInv, TypeOK, FailJob, channelVars
<1>2. PICK pc \in {"markError"} : call' = [call EXCEPT ![w] = Blank(pc)]
  BY DEF FailJob, ErrorStep
<1>3. pc \in Quiet
  BY <1>2 DEF Quiet, Pcs, Working, Ended, Processing
<1> QED BY <1>1, <1>2, <1>3, BlankTracks

LEMMA MarkSourceSyncErrorTracks ==
  ASSUME SyncInv, NEW w \in Syncs, MarkSourceSyncError(w)
  PROVE  CallTracks(w)
<1>1. head' \in Nat
  BY StoreAssumption DEF SyncInv, TypeOK, MarkSourceSyncError, channelVars
<1>2. PICK pc \in {"failed"} : call' = [call EXCEPT ![w] = Blank(pc)]
  BY DEF MarkSourceSyncError, ErrorStep
<1>3. pc \in Quiet
  BY <1>2 DEF Quiet, Pcs, Working, Ended, Processing
<1> QED BY <1>1, <1>2, <1>3, BlankTracks

LEMMA CrashTracks ==
  ASSUME SyncInv, NEW w \in Syncs, Crash(w)
  PROVE  CallTracks(w)
<1>1. head' \in Nat
  BY StoreAssumption DEF SyncInv, TypeOK, Crash, channelVars
<1>2. PICK pc \in {"dead"} : call' = [call EXCEPT ![w] = Blank(pc)]
  BY DEF Crash
<1>3. pc \in Quiet
  BY <1>2 DEF Quiet, Pcs, Working, Ended, Processing
<1> QED BY <1>1, <1>2, <1>3, BlankTracks

LEMMA CallStepTracks ==
  ASSUME SyncInv, Unbounded, NEW w \in Syncs, CallStep(w)
  PROVE  CallTracks(w)
BY CreateJobTracks, UpdateJobRunningTracks, ResolveTracks, FetchPageTracks,
   StopFetchingTracks, UpsertTracks, FindCanonicalTracks, SaveTracks,
   DeleteChunksTracks, InsertChunksTracks, UpdateJobProgressTracks,
   UpdateJobTotalTracks, CompleteJobTracks, MarkSourceSyncSuccessTracks,
   CallFailsTracks, FailJobTracks, MarkSourceSyncErrorTracks
   DEF CallStep

-----------------------------------------------------------------------------
(***************************************************************************)
(* The sources row, and the invariant as a whole.                          *)
(***************************************************************************)
SourceGood ==
  /\ \A m \in Ids : Live(m) => m <= head
  /\ src.watermark <= head
  /\ src.watermark # 0 => Stored(src.watermark)
  /\ WatermarkSound

\* What a call has seen by the time it marks its source is stored.
LEMMA MarkedIsStored ==
  ASSUME SyncInv, NEW w \in Syncs, MarkSourceSyncSuccess(w)
  PROVE  /\ src'.watermark <= head
         /\ src'.watermark # 0 => Stored(src'.watermark)
         /\ \A m \in Ids : Live(m) /\ m <= src'.watermark => Stored(m)
<1>1. PICK c \in CallRow : c = call[w] /\ CallShape(c) /\ Tracked(c)
  BY DEF SyncInv, CallInv, Tracked, TypeOK
<1>2. c.pc = "mark"
  BY <1>1 DEF MarkSourceSyncSuccess, At
<1>3. InPage(c) = {} /\ c.next = 0
  BY <1>1, <1>2 DEF CallShape, Processing
<1>4. \A m \in Ids : Live(m) /\ m <= c.seen => Stored(m)
  BY <1>1, <1>2, <1>3 DEF Tracked, Covered, Pending
<1>5. c.seen <= head /\ (c.seen # 0 => Stored(c.seen))
  BY <1>1 DEF CallShape, Tracked, KnownIds
<1>6. src'.watermark = IF c.seen = 0 THEN src.watermark ELSE c.seen
  BY <1>1 DEF MarkSourceSyncSuccess
<1>7. CASE c.seen = 0
  <2>1. src'.watermark = src.watermark
    BY <1>6, <1>7
  <2> QED BY <2>1 DEF SyncInv, WatermarkSound, Live, Stored
<1>8. CASE c.seen # 0
  <2>1. src'.watermark = c.seen
    BY <1>6, <1>8
  <2> QED BY <1>4, <1>5, <1>8, <2>1
<1> QED BY <1>7, <1>8

\* Every other step leaves the watermark where it is.
LEMMA WatermarkStays ==
  ASSUME SyncInv, StoredGrows, ChannelGrows,
         \A m \in Ids : Live(m)' => m <= head',
         src'.watermark = src.watermark
  PROVE  SourceGood'
<1>1. PICK mark \in 0 .. MaxId : mark = src.watermark
  BY DEF SyncInv, TypeOK
<1>2. head \in Nat /\ head' \in Nat /\ head <= head' /\ mark \in Nat
  BY <1>1, StoreAssumption DEF SyncInv, TypeOK, ChannelGrows
<1>3. mark <= head /\ mark <= head'
  BY <1>1, <1>2 DEF SyncInv
<1>4. mark # 0 => mark \in Ids /\ Stored(mark)
  BY <1>1, StoreAssumption DEF SyncInv, Ids
<1>5. ASSUME NEW m \in Ids, Live(m)', m <= mark PROVE Stored(m)'
  <2>1. m \in Nat
    BY IdsFacts
  <2>2. Live(m)
    BY <1>2, <1>3, <1>5, <2>1 DEF ChannelGrows
  <2>3. Stored(m)
    BY <1>1, <1>5, <2>2 DEF SyncInv, WatermarkSound, Live, Stored
  <2> QED BY <2>3 DEF StoredGrows
<1>6. WatermarkSound'
  BY <1>1, <1>5 DEF WatermarkSound, Live, Stored
<1>7. src'.watermark # 0 => Stored(src.watermark)'
  BY <1>1, <1>4 DEF StoredGrows, Stored
<1> QED BY <1>1, <1>3, <1>6, <1>7 DEF SourceGood

LEMMA CallStepSource ==
  ASSUME SyncInv, NEW w \in Syncs, CallStep(w), StoredGrows
  PROVE  SourceGood'
<1>1. UNCHANGED channelVars
  BY DEF CallStep, CreateJob, UpdateJobRunning, Resolve, FetchPage, StopFetching,
     Upsert, FindCanonical, Save, DeleteChunks, InsertChunks, UpdateJobProgress,
     UpdateJobTotal, CompleteJob, MarkSourceSyncSuccess, CallFails, FailJob,
     MarkSourceSyncError
<1>2. ChannelGrows /\ \A m \in Ids : Live(m)' => m <= head'
  BY <1>1, StoreAssumption DEF SyncInv, TypeOK, ChannelGrows, channelVars, Live
<1>3. CASE MarkSourceSyncSuccess(w)
  <2>1. UNCHANGED <<raw, channel, head>>
    BY <1>3 DEF MarkSourceSyncSuccess, storeVars, channelVars
  <2> QED BY <1>2, <1>3, <2>1, MarkedIsStored
          DEF SourceGood, WatermarkSound, Live, Stored
<1>4. CASE ~MarkSourceSyncSuccess(w)
  <2>1. src'.watermark = src.watermark
    BY <1>4 DEF CallStep, CreateJob, UpdateJobRunning, Resolve, FetchPage,
       StopFetching, Upsert, FindCanonical, Save, DeleteChunks, InsertChunks,
       UpdateJobProgress, UpdateJobTotal, CompleteJob, CallFails, FailJob,
       MarkSourceSyncError, SyncInv, TypeOK
  <2> QED BY <1>2, <2>1, WatermarkStays
<1> QED BY <1>3, <1>4

\* A step of call w keeps the invariant when it keeps its parts.
LEMMA CallKeepsInv ==
  ASSUME SyncInv, NEW w \in Syncs, GoodStep(w), CallTracks(w), ChannelGrows,
         SourceGood'
  PROVE  SyncInv'
<1>1. TypeInv'
  BY GoodStepKeeps DEF SyncInv, CallInv, TypeInv
<1>2. PICK n \in CallRow : call' = [call EXCEPT ![w] = n] /\ Tracked(n)'
  BY DEF CallTracks
<1>3. TypeOK /\ StoredGrows /\ call \in [Syncs -> CallRow]
  BY DEF SyncInv, TypeOK, GoodStep
<1>4. ASSUME NEW v \in Syncs PROVE Tracked(call[v])'
  <2>1. CASE v = w
    <3>1. call'[v] = n
      BY <1>2, <1>3, <2>1
    <3> QED BY <3>1, <1>2 DEF Tracked, KnownIds, Covered, Pending, InPage
  <2>2. CASE v # w
    <3>1. PICK c \in CallRow : c = call[v] /\ c = call'[v]
      BY <1>2, <1>3, <2>2
    <3>2. Tracked(c)
      BY <3>1 DEF SyncInv, CallInv, Tracked
    <3>3. Tracked(c)'
      BY <1>3, <3>2, TrackedStable
    <3> QED BY <3>1, <3>3 DEF Tracked, KnownIds, Covered, Pending, InPage
  <2> QED BY <2>1, <2>2
<1> QED BY <1>1, <1>4 DEF SyncInv, CallInv, Tracked, TypeInv, SourceGood

\* A step that moves no call, in the channel or in a context.
LEMMA OtherKeepsInv ==
  ASSUME SyncInv, TypeInv', UNCHANGED <<raw, call, src>>, ChannelGrows,
         \A m \in Ids : Live(m)' => m <= head'
  PROVE  SyncInv'
<1>1. StoredGrows
  BY DEF StoredGrows, Stored
<1>2. SourceGood'
  BY <1>1, WatermarkStays
<1>3. ASSUME NEW v \in Syncs PROVE Tracked(call[v])'
  <2>1. PICK c \in CallRow : c = call[v] /\ c = call'[v]
    BY DEF SyncInv, TypeOK
  <2>2. Tracked(c) /\ TypeOK
    BY <2>1 DEF SyncInv, CallInv, Tracked
  <2>3. Tracked(c)'
    BY <1>1, <2>2, TrackedStable
  <2> QED BY <2>1, <2>3 DEF Tracked, KnownIds, Covered, Pending, InPage
<1> QED BY <1>2, <1>3 DEF SyncInv, CallInv, Tracked, TypeInv, SourceGood

LEMMA ChannelStepGrows ==
  ASSUME SyncInv, ChannelStep
  PROVE  ChannelGrows /\ \A m \in Ids : Live(m)' => m <= head'
<1> USE StoreAssumption DEF SyncInv, TypeOK, ChannelGrows, Live
<1>1. Ids \subseteq Nat
  BY IdsFacts
<1>2. ASSUME NEW b \in Bodies, Post(b)
      PROVE  ChannelGrows /\ \A m \in Ids : Live(m)' => m <= head'
  <2>1. /\ head' = head + 1 /\ head \in Nat
        /\ channel' = [channel EXCEPT ![head + 1] = b]
    BY <1>2 DEF Post
  <2>2. \A m \in Ids : Live(m)' => Live(m) \/ m = head + 1
    BY <2>1
  <2> QED BY <1>1, <2>1, <2>2
<1>3. ASSUME NEW j \in Ids, NEW b \in Bodies, Edit(j, b)
      PROVE  ChannelGrows /\ \A m \in Ids : Live(m)' => m <= head'
  <2>1. head' = head /\ head \in Nat /\ \A m \in Ids : Live(m)' => Live(m)
    BY <1>3 DEF Edit
  <2> QED BY <1>1, <2>1
<1>4. ASSUME NEW j \in Ids, Remove(j)
      PROVE  ChannelGrows /\ \A m \in Ids : Live(m)' => m <= head'
  <2>1. head' = head /\ head \in Nat /\ \A m \in Ids : Live(m)' => Live(m)
    BY <1>4 DEF Remove
  <2> QED BY <1>1, <2>1
<1> QED BY <1>2, <1>3, <1>4 DEF ChannelStep

LEMMA SyncInvInit == Init => SyncInv
<1> SUFFICES ASSUME Init PROVE SyncInv
  OBVIOUS
<1>1. TypeInv
  BY TypeInvInit
<1>2. /\ \A m \in Ids : ~Live(m)
      /\ src.watermark = 0 /\ head = 0
  BY DEF Init, Live
<1>3. ASSUME NEW w \in Syncs PROVE Tracked(call[w])
  <2>1. call[w] = Blank("idle")
    BY DEF Init
  <2>2. /\ InPage(call[w]) = {} /\ call[w].min = 0 /\ call[w].seen = 0
    BY <2>1, BlankFacts DEF Quiet, Pcs, Ended, Working, Processing
  <2> QED BY <1>2, <2>2 DEF Tracked, KnownIds, Covered
<1> QED BY <1>1, <1>2, <1>3
        DEF TypeInv, SyncInv, CallInv, Tracked, WatermarkSound, Live

LEMMA SyncInvNext ==
  ASSUME Unbounded
  PROVE  SyncInv /\ [Next]_vars => SyncInv'
<1> SUFFICES ASSUME SyncInv, [Next]_vars PROVE SyncInv'
  OBVIOUS
<1>1. TypeInv /\ TypeInv'
  BY TypeInvNext DEF SyncInv, CallInv, TypeInv
<1>2. head \in Nat
  BY StoreAssumption DEF SyncInv, TypeOK
<1>3. CASE ChannelStep
  <2>1. UNCHANGED <<raw, call, src>>
    BY <1>3 DEF ChannelStep, Post, Edit, Remove, storeVars
  <2> QED BY <1>1, <1>3, <2>1, ChannelStepGrows, OtherKeepsInv
<1>4. ASSUME NEW w \in Syncs, NEW f \in Resyncs, NEW n \in Limits,
             GetSource(w, f, n)
      PROVE  SyncInv'
  <2>1. GoodStep(w) /\ CallTracks(w)
    BY <1>1, <1>4, GetSourceGood, GetSourceTracks
  <2>2. ChannelGrows /\ (\A m \in Ids : Live(m)' => m <= head')
        /\ src'.watermark = src.watermark
    BY <1>2, <1>4 DEF GetSource, channelVars, ChannelGrows, Live, SyncInv
  <2>3. SourceGood'
    BY <2>1, <2>2, WatermarkStays DEF GoodStep
  <2> QED BY <2>1, <2>2, <2>3, CallKeepsInv
<1>5. ASSUME NEW w \in Syncs, CallStep(w) PROVE SyncInv'
  <2>1. GoodStep(w) /\ CallTracks(w)
    BY <1>1, <1>5, CallStepGood, CallStepTracks
  <2>2. SourceGood'
    BY <1>5, <2>1, CallStepSource DEF GoodStep
  <2>3. UNCHANGED channelVars
    BY <1>5 DEF CallStep, CreateJob, UpdateJobRunning, Resolve, FetchPage,
       StopFetching, Upsert, FindCanonical, Save, DeleteChunks, InsertChunks,
       UpdateJobProgress, UpdateJobTotal, CompleteJob, MarkSourceSyncSuccess,
       CallFails, FailJob, MarkSourceSyncError
  <2>4. ChannelGrows
    BY <1>2, <2>3 DEF channelVars, ChannelGrows, Live
  <2> QED BY <2>1, <2>2, <2>4, CallKeepsInv
<1>6. ASSUME NEW w \in Syncs, Cancel(w) PROVE SyncInv'
  <2>1. UNCHANGED <<raw, call, src, channel, head>>
    BY <1>6 DEF Cancel, storeVars, channelVars
  <2>2. ChannelGrows /\ \A m \in Ids : Live(m)' => m <= head'
    BY <1>2, <2>1 DEF ChannelGrows, Live, SyncInv
  <2> QED BY <1>1, <2>1, <2>2, OtherKeepsInv
<1>7. ASSUME NEW w \in Syncs, Crash(w) PROVE SyncInv'
  <2>1. GoodStep(w) /\ CallTracks(w)
    BY <1>1, <1>7, CrashGood, CrashTracks
  <2>2. ChannelGrows /\ (\A m \in Ids : Live(m)' => m <= head')
        /\ src'.watermark = src.watermark
    BY <1>2, <1>7 DEF Crash, channelVars, ChannelGrows, Live, SyncInv
  <2>3. SourceGood'
    BY <2>1, <2>2, WatermarkStays DEF GoodStep
  <2> QED BY <2>1, <2>2, <2>3, CallKeepsInv
<1>8. CASE UNCHANGED vars
  <2>1. UNCHANGED <<raw, call, src, channel, head>>
    BY <1>8 DEF vars
  <2>2. ChannelGrows /\ \A m \in Ids : Live(m)' => m <= head'
    BY <1>2, <2>1 DEF ChannelGrows, Live, SyncInv
  <2> QED BY <1>1, <2>1, <2>2, OtherKeepsInv
<1> QED BY <1>3, <1>4, <1>5, <1>6, <1>7, <1>8 DEF Next

\* However many calls sync the source at once, fail or die, what each of them
\* remembers stays consistent with the tables: SyncInv is an invariant.
THEOREM SyncInvariant ==
  ASSUME Unbounded
  PROVE  Spec => []SyncInv
<1>1. Unbounded
  OBVIOUS
<1> QED BY <1>1, SyncInvInit, SyncInvNext, PTL DEF Spec

\* No message that is still in the channel is ever left behind: whatever lies
\* at or below last_message_id, where incremental syncs never look again, has
\* its raw_messages row.
THEOREM WatermarkSafe ==
  ASSUME Unbounded
  PROVE  Spec => []WatermarkSound
<1>1. SyncInv => WatermarkSound
  BY DEF SyncInv
<1> QED BY <1>1, SyncInvariant, PTL

-----------------------------------------------------------------------------
(***************************************************************************)
(* ChannelSync implements SyncLog.                                         *)
(***************************************************************************)
live == {m \in Ids : channel[m] # NoText}
stored == {m \in Ids : raw[m] # NoText}
mark == src.watermark

LogUnchanged == live' = live /\ stored' = stored /\ mark' = mark

LEMMA LogInitial == Init => Log!LogInit
<1> SUFFICES ASSUME Init PROVE Log!LogInit
  OBVIOUS
<1>1. live = {} /\ stored = {} /\ mark = 0
  BY DEF Init, StoreInit, live, stored, mark
<1> QED BY <1>1 DEF Log!LogInit, live, stored, mark

LEMMA ChannelIsLog ==
  ASSUME SyncInv, ChannelStep
  PROVE  Log!Publish \/ Log!Withdraw \/ LogUnchanged
<1>0. /\ UNCHANGED <<raw, src>> /\ stored' = stored /\ mark' = mark
      /\ channel \in [Ids -> Bodies \cup {NoText}] /\ NoText \notin Bodies
  BY StoreAssumption DEF ChannelStep, Post, Edit, Remove, storeVars, stored,
     mark, SyncInv, TypeOK, Bodies
<1>1. ASSUME NEW b \in Bodies, Post(b) PROVE Log!Publish
  <2>1. PICK m \in Ids : m = head + 1 /\ channel' = [channel EXCEPT ![m] = b]
    <3>1. head \in 0 .. MaxId /\ head < MaxId /\ MaxId \in Nat
      BY <1>1, StoreAssumption DEF Post, SyncInv, TypeOK
    <3>2. head + 1 \in Ids
      BY <3>1 DEF Ids
    <3>3. channel' = [channel EXCEPT ![head + 1] = b]
      BY <1>1 DEF Post
    <3> QED BY <3>2, <3>3
  <2>2. m \notin live /\ m > src.watermark
    BY <2>1, StoreAssumption DEF SyncInv, TypeOK, live, Live, Ids
  <2>3. live' = live \cup {m}
    BY <1>0, <2>1 DEF live
  <2>4. m \in 1 .. MaxId
    BY DEF Ids
  <2> QED BY <1>0, <2>2, <2>3, <2>4 DEF Log!Publish, live, stored, mark
<1>2. ASSUME NEW m \in Ids, NEW b \in Bodies, Edit(m, b) PROVE LogUnchanged
  <2>1. live' = live
    BY <1>0, <1>2 DEF Edit, live
  <2> QED BY <1>0, <2>1 DEF LogUnchanged
<1>3. ASSUME NEW m \in Ids, Remove(m) PROVE Log!Withdraw
  <2>1. m \in live /\ live' = live \ {m}
    BY <1>0, <1>3 DEF Remove, live
  <2> QED BY <1>0, <2>1 DEF Log!Withdraw, live, stored, mark
<1> QED BY <1>1, <1>2, <1>3 DEF ChannelStep

LEMMA UpsertIsLog ==
  ASSUME SyncInv, NEW w \in Syncs, Upsert(w)
  PROVE  Log!Store
<1>1. PICK m \in InPage(call[w]) : raw' = [raw EXCEPT ![m] = call[w].page[m]]
  BY DEF Upsert, UpsertRawMessage
<1>2. m \in Ids /\ call[w].page[m] # NoText
  BY DEF InPage
<1>3. raw \in [Ids -> Bodies \cup {NoText}]
  BY DEF SyncInv, TypeOK, StoreTypeOK
<1>4. stored' = stored \cup {m}
  BY <1>1, <1>2, <1>3 DEF stored
<1>5. live' = live /\ mark' = mark
  BY DEF Upsert, channelVars, live, mark
<1> QED BY <1>2, <1>4, <1>5 DEF Log!Store, live, stored, mark, Ids

LEMMA MarkIsLog ==
  ASSUME SyncInv, NEW w \in Syncs, MarkSourceSyncSuccess(w)
  PROVE  Log!Advance \/ LogUnchanged
<1>1. live' = live /\ stored' = stored
  BY DEF MarkSourceSyncSuccess, storeVars, channelVars, live, stored
<1>2. CASE call[w].seen = 0
  <2>1. mark' = mark
    BY <1>2 DEF MarkSourceSyncSuccess, mark
  <2> QED BY <1>1, <2>1 DEF LogUnchanged
<1>3. CASE call[w].seen # 0
  <2>1. PICK k \in Ids : k = call[w].seen
    BY <1>3, StoreAssumption DEF SyncInv, TypeOK, CallRow, Ids
  <2>2. mark' = k
    BY <1>3, <2>1 DEF MarkSourceSyncSuccess, mark
  <2>3. /\ k # 0 /\ Stored(k)
        /\ \A m \in Ids : Live(m) /\ m <= k => Stored(m)
    BY <1>3, <2>1, <2>2, MarkedIsStored DEF mark
  <2>4. k \in stored
    BY <2>3 DEF stored, Stored
  <2>5. \A m \in live : m <= k => m \in stored
    BY <2>3 DEF live, stored, Live, Stored
  <2> QED BY <1>1, <2>2, <2>4, <2>5 DEF Log!Advance, live, stored, mark
<1> QED BY <1>2, <1>3

LEMMA LogStep ==
  ASSUME SyncInv, [Next]_vars
  PROVE  [Log!LogNext]_(Log!logVars)
<1>1. LogUnchanged => UNCHANGED Log!logVars
  BY DEF LogUnchanged, live, stored, mark, Log!logVars
<1>2. CASE ChannelStep
  BY <1>1, <1>2, ChannelIsLog DEF Log!LogNext
<1>3. ASSUME NEW w \in Syncs, CallStep(w) PROVE [Log!LogNext]_(Log!logVars)
  <2>1. CASE Upsert(w)
    BY <2>1, UpsertIsLog DEF Log!LogNext
  <2>2. CASE MarkSourceSyncSuccess(w)
    BY <1>1, <2>2, MarkIsLog DEF Log!LogNext
  <2>3. CASE ~Upsert(w) /\ ~MarkSourceSyncSuccess(w)
    <3>1. UNCHANGED <<raw, channel>>
      BY <1>3, <2>3 DEF CallStep, CreateJob, UpdateJobRunning, Resolve, FetchPage,
         StopFetching, FindCanonical, Save, DeleteChunks, InsertChunks,
         UpdateJobProgress, UpdateJobTotal, CompleteJob, CallFails, FailJob,
         MarkSourceSyncError, storeVars, channelVars
    <3>2. src'.watermark = src.watermark
      BY <1>3, <2>3 DEF CallStep, CreateJob, UpdateJobRunning, Resolve,
         FetchPage, StopFetching, FindCanonical, Save, DeleteChunks,
         InsertChunks, UpdateJobProgress, UpdateJobTotal, CompleteJob,
         CallFails, FailJob, MarkSourceSyncError, SyncInv, TypeOK
    <3> QED BY <1>1, <3>1, <3>2 DEF LogUnchanged, live, stored, mark
  <2> QED BY <2>1, <2>2, <2>3
<1>4. ASSUME NEW w \in Syncs, \/ Cancel(w) \/ Crash(w)
                             \/ \E f \in Resyncs, n \in Limits : GetSource(w, f, n)
      PROVE  LogUnchanged
  BY <1>4 DEF Cancel, Crash, GetSource, storeVars, channelVars, LogUnchanged,
     live, stored, mark
<1>5. CASE UNCHANGED vars
  BY <1>1, <1>5 DEF vars, LogUnchanged, live, stored, mark
<1> QED BY <1>1, <1>2, <1>3, <1>4, <1>5 DEF Next

\* Pages, retries, crashes and concurrent calls are invisible from outside: the
\* channel, the raw_messages table and the watermark behave as SyncLog says.
THEOREM SyncImplementsLog ==
  ASSUME Unbounded
  PROVE  Spec => ImplementsSyncLog
<1>1. Spec => []SyncInv
  BY SyncInvariant
<1> QED BY <1>1, LogInitial, LogStep, PTL DEF Spec, ImplementsSyncLog, Log!LogSpec

-----------------------------------------------------------------------------
(***************************************************************************)
(* The watermark only rises, for calls one at a time on a channel that     *)
(* loses no message: the first page holds the newest one, and its newest   *)
(* message is dealt with first.                                            *)
(***************************************************************************)
NoRemovals == MaxRemovals = 0

\* What one step makes of the locals c of a call.
Onward(c, n) ==
  /\ n.min = c.min /\ n.page = c.page /\ n.seen = c.seen /\ n.cursor = c.cursor
  /\ n.next = c.next /\ n.pc # "progress"
  /\ n.pc \in Processing =>
       \/ c.pc \in Processing /\ n.msg = c.msg
       \/ c.pc = "upsert" /\ n.msg \in InPage(c) /\ \A k \in InPage(c) : k <= n.msg

Dealt(c, n) ==
  \E m \in InPage(c) : /\ n = MessageDone(c, m)
                       /\ c.pc = "upsert" => \A k \in InPage(c) : k <= m
                       /\ c.pc # "upsert" => c.pc \in Processing /\ m = c.msg

Blanked(n) == \E pc \in Quiet \ {"fetch", "progress"} : n = Blank(pc)

LEMMA CallTurns ==
  ASSUME TypeInv, NEW w \in Syncs, CallStep(w)
  PROVE  \/ Blanked(call'[w]) \/ Onward(call[w], call'[w]) \/ Dealt(call[w], call'[w])
         \/ FetchPage(w)
         \/ call[w].pc = "progress" /\ call'[w] = NextPage(call[w])
<1>1. PICK c \in CallRow : c = call[w] /\ CallShape(c)
  BY DEF TypeInv, TypeOK
<1>2. call \in [Syncs -> CallRow]
  BY DEF TypeInv, TypeOK
<1>3. ASSUME NEW n, NEW e \in {"failed", "failJob"}, Settle(w, n, e)
      PROVE  Blanked(call'[w]) \/ call'[w] = n
  <2>1. e \in Quiet \ {"fetch", "progress"}
    BY DEF Quiet, Pcs, Working, Ended, Processing
  <2> QED BY <1>2, <1>3, <2>1 DEF Settle, Blanked
<1>4. ASSUME NEW pc \in Working, pc \notin Processing \cup {"progress"}
      PROVE  Onward(c, [c EXCEPT !.pc = pc])
  BY <1>4 DEF CallRow, Onward
<1>5. CASE CreateJob(w) \/ UpdateJobRunning(w) \/ UpdateJobTotal(w) \/ CompleteJob(w)
  <2>1. \A pc \in {"runJob", "resolve", "complete", "mark"} : Onward(c, [c EXCEPT !.pc = pc])
    BY <1>4 DEF Working, Processing
  <2>2. CASE CreateJob(w)
    BY <1>1, <1>3, <2>1, <2>2 DEF CreateJob
  <2>3. CASE UpdateJobRunning(w)
    BY <1>1, <1>3, <2>1, <2>3 DEF UpdateJobRunning
  <2>4. CASE UpdateJobTotal(w)
    BY <1>1, <1>3, <2>1, <2>4 DEF UpdateJobTotal
  <2>5. CASE CompleteJob(w)
    BY <1>1, <1>3, <2>1, <2>5 DEF CompleteJob
  <2> QED BY <1>5, <2>2, <2>3, <2>4, <2>5
<1>6. CASE Resolve(w) \/ StopFetching(w)
  <2>1. \A pc \in {"fetch", "total"} : Onward(c, [c EXCEPT !.pc = pc])
    BY <1>4 DEF Working, Processing
  <2> QED BY <1>1, <1>2, <1>6, <2>1 DEF Resolve, StopFetching
<1>7. CASE Upsert(w)
  <2>1. PICK m \in InPage(c) :
          /\ \A k \in InPage(c) : k <= m
          /\ Settle(w, IF IsTrash(c.page[m]) THEN MessageDone(c, m)
                       ELSE [c EXCEPT !.pc = "find", !.msg = m], "failJob")
    BY <1>1, <1>7 DEF Upsert
  <2>2. c.pc = "upsert"
    BY <1>1, <1>7 DEF Upsert, At
  <2>3. Dealt(c, MessageDone(c, m))
    BY <2>1, <2>2 DEF Dealt
  <2>4. Onward(c, [c EXCEPT !.pc = "find", !.msg = m])
    BY <2>1, <2>2 DEF CallRow, Onward
  <2>5. CASE IsTrash(c.page[m])
    BY <1>1, <1>3, <2>1, <2>3, <2>5
  <2>6. CASE ~IsTrash(c.page[m])
    BY <1>1, <1>3, <2>1, <2>4, <2>6
  <2> QED BY <2>5, <2>6
<1>8. CASE FindCanonical(w) \/ Save(w) \/ DeleteChunks(w) \/ InsertChunks(w)
  <2>1. c.pc \in Processing /\ c.pc # "upsert" /\ c.msg \in InPage(c)
    BY <1>1, <1>8, ProcessedMessage DEF FindCanonical, Save, DeleteChunks, InsertChunks,
       At, Processing
  <2>2. Dealt(c, MessageDone(c, c.msg))
    BY <2>1 DEF Dealt
  <2>3. \A k \in 0 .. MaxId : Onward(c, [c EXCEPT !.pc = "save", !.canon = k])
    BY <2>1 DEF CallRow, Onward
  <2>4. Onward(c, [c EXCEPT !.pc = "unchunk"]) /\ Onward(c, [c EXCEPT !.pc = "chunk"])
    BY <2>1 DEF CallRow, Onward
  <2>5. c.pc = "chunk" => Onward(c, [c EXCEPT !.index = c.index + 1])
    BY <2>1 DEF CallRow, Onward
  <2>6. CASE FindCanonical(w)
    BY <1>1, <1>2, <2>3, <2>6 DEF FindCanonical
  <2>7. CASE Save(w)
    BY <1>1, <1>3, <2>4, <2>7 DEF Save
  <2>8. CASE DeleteChunks(w)
    <3>1. CASE c.canon # 0
      BY <1>1, <1>3, <2>2, <2>8, <3>1 DEF DeleteChunks
    <3>2. CASE c.canon = 0
      BY <1>1, <1>3, <2>4, <2>8, <3>2 DEF DeleteChunks
    <3> QED BY <3>1, <3>2
  <2>9. CASE InsertChunks(w)
    <3>1. c.pc = "chunk"
      BY <1>1, <2>9 DEF InsertChunks, At
    <3>2. CASE c.index = ChunkCount[Body(c)]
      BY <1>1, <1>3, <2>2, <2>9, <3>2 DEF InsertChunks
    <3>3. CASE c.index # ChunkCount[Body(c)]
      BY <1>1, <1>3, <2>5, <2>9, <3>1, <3>3 DEF InsertChunks
    <3> QED BY <3>2, <3>3
  <2> QED BY <1>8, <2>6, <2>7, <2>8, <2>9
<1>9. CASE UpdateJobProgress(w)
  BY <1>1, <1>3, <1>9 DEF UpdateJobProgress, At
<1>10. CASE MarkSourceSyncSuccess(w)
  <2>1. "returned" \in Quiet \ {"fetch", "progress"}
    BY DEF Quiet, Pcs, Working, Ended, Processing
  <2>2. Blanked(Blank("returned"))
    BY <2>1 DEF Blanked
  <2> QED BY <1>3, <1>10, <2>2 DEF MarkSourceSyncSuccess
<1>11. CASE CallFails(w) \/ FailJob(w) \/ MarkSourceSyncError(w)
  <2>1. \A pc \in {"failed", "failJob", "markError"} : pc \in Quiet \ {"fetch", "progress"}
    BY DEF Quiet, Pcs, Working, Ended, Processing
  <2>2. \E pc \in {"failed", "failJob", "markError"} : call' = [call EXCEPT ![w] = Blank(pc)]
    BY <1>11 DEF CallFails, FailJob, MarkSourceSyncError, ErrorStep, OnError
  <2> QED BY <1>2, <2>1, <2>2 DEF Blanked
<1> QED BY <1>1, <1>5, <1>6, <1>7, <1>8, <1>9, <1>10, <1>11 DEF CallStep

\* What a call has to come reaches up to the watermark, or it has nothing.
Reaching(c) ==
  /\ c.min \in {0, src.watermark}
  /\ \A m \in InPage(c) : Live(m)
  /\ c.seen # 0 => Live(c.seen) /\ c.seen >= src.watermark
  /\ c.seen = 0 /\ InPage(c) # {} => \E k \in InPage(c) : k >= src.watermark
  /\ c.pc \in Processing => c.msg \in InPage(c) /\ \A k \in InPage(c) : k <= c.msg
  /\ c.cursor # 0 \/ c.pc = "progress" => c.seen # 0

RisingInv ==
  /\ TypeInv /\ AtMostOne
  /\ src.watermark # 0 => Live(src.watermark)
  /\ \A w \in Active : Reaching(call[w])

\* The newest page of all reaches the watermark.
LEMMA FirstPageReaches ==
  ASSUME RisingInv, NEW c \in CallRow, c.min \in {0, src.watermark}, c.cursor = 0,
         Page(c) # {}
  PROVE  \E k \in Page(c) : k >= src.watermark
<1>1. PICK low \in 0 .. MaxId : low = src.watermark
  BY DEF RisingInv, TypeInv, TypeOK
<1>2. PICK p \in Page(c) : TRUE
  OBVIOUS
<1>3. PICK n : n = PageLimit(c)
  OBVIOUS
<1>4. /\ Page(c) = Newest(Eligible(c), n) /\ Eligible(c) \in SUBSET Ids
      /\ Page(c) \subseteq Eligible(c) /\ p \in Ids
  BY <1>3 DEF Page, Eligible, Newest
<1>5. n \in Nat
  <2>1. ASSUME NEW i \in Int PROVE Clamp(i) \in Nat
    <3>1. MaxPage \in Nat
      BY SyncAssumption
    <3>2. CASE i \in 1 .. MaxPage
      BY <3>1, <3>2 DEF Clamp
    <3>3. CASE i \notin 1 .. MaxPage
      BY <3>1, <3>3 DEF Clamp
    <3> QED BY <3>2, <3>3
  <2>2. c.limit \in Nat /\ c.fetched \in Nat /\ BatchSize \in Int
    <3>1. Limits \cup {0} \subseteq Nat /\ BatchSize \in Nat
      BY SyncAssumption
    <3>2. c.limit \in Limits \cup {0} /\ c.fetched \in Nat
      BY DEF CallRow
    <3> QED BY <3>1, <3>2
  <2>3. c.limit - c.fetched \in Int
    BY <2>2
  <2>4. n = Clamp(c.limit - c.fetched) \/ n = Clamp(BatchSize)
    BY <1>3 DEF PageLimit
  <2> QED BY <2>1, <2>2, <2>3, <2>4
<1>6. p \in Nat /\ low \in Nat /\ p > c.min /\ c.min \in Nat
  BY <1>1, <1>2, <1>4, IdsFacts, StoreAssumption DEF Eligible, CallRow
<1>7. CASE p >= low
  BY <1>1, <1>7
<1>8. CASE p < low
  <2>1. c.min = 0 /\ low # 0 /\ low \in Ids /\ Live(low)
    BY <1>1, <1>6, <1>8, StoreAssumption DEF RisingInv, Ids
  <2>2. low \in Eligible(c)
    BY <1>6, <2>1 DEF Eligible, Live
  <2>3. low \in Page(c)
    BY <1>4, <1>5, <1>6, <1>8, <2>2, PageUpward
  <2> QED BY <1>1, <1>6, <2>3
<1> QED BY <1>6, <1>7, <1>8

\* The facts about the locals a step makes of c, when the tables stay.
LEMMA OnwardReaches ==
  ASSUME NEW c \in CallRow, NEW n \in CallRow, Reaching(c),
         Onward(c, n)
  PROVE  Reaching(n)
<1>1. InPage(n) = InPage(c)
  BY DEF Onward, InPage
<1> QED BY <1>1 DEF Onward, Reaching

LEMMA DealtReaches ==
  ASSUME RisingInv, NEW c \in CallRow, Reaching(c), NEW n, Dealt(c, n)
  PROVE  Reaching(n)
<1>1. PICK m \in InPage(c) : /\ n = MessageDone(c, m)
                             /\ \A k \in InPage(c) : k <= m
  BY DEF Dealt, Reaching
<1>2. /\ n \in CallRow /\ n.pc \in {"upsert", "progress"}
      /\ n.min = c.min /\ n.seen = (IF m > c.seen THEN m ELSE c.seen)
      /\ InPage(n) \subseteq InPage(c)
  <2>1. n.pc \in {"upsert", "progress"}
    BY <1>1, MessageDoneFacts
  <2>2. InPage(n) \subseteq InPage(c)
    BY <1>1, <2>1, MessageDoneFacts
  <2> QED BY <1>1, <2>1, <2>2, MessageDoneFacts
<1> HIDE DEF Dealt
<1>3. /\ m \in Nat \ {0} /\ c.seen \in Nat /\ src.watermark \in Nat
      /\ \A k \in InPage(c) : k \in Nat
  BY IdsFacts, StoreAssumption DEF InPage, CallRow, RisingInv, TypeInv, TypeOK
<1>4. m >= src.watermark \/ c.seen # 0
  <2>1. CASE c.seen = 0
    <3>1. PICK k \in InPage(c) : k >= src.watermark
      BY <2>1 DEF Reaching
    <3> QED BY <1>1, <1>3, <3>1
  <2> QED BY <2>1
<1>5. Live(m) /\ (c.seen # 0 => Live(c.seen) /\ c.seen >= src.watermark)
  BY DEF Reaching
<1>6. n.seen # 0 /\ Live(n.seen) /\ n.seen >= src.watermark
  <2>1. CASE m > c.seen
    <3>1. n.seen = m
      BY <1>2, <2>1
    <3>2. m >= src.watermark
      BY <1>3, <1>4, <1>5, <2>1
    <3> QED BY <1>3, <1>5, <3>1, <3>2
  <2>2. CASE ~(m > c.seen)
    <3>1. n.seen = c.seen /\ c.seen # 0
      BY <1>2, <1>3, <2>2
    <3> QED BY <1>5, <3>1
  <2> QED BY <2>1, <2>2
<1>7. n.pc \notin Processing
  BY <1>2 DEF Processing
<1> QED BY <1>2, <1>6, <1>7 DEF Reaching

LEMMA FetchReaches ==
  ASSUME RisingInv, NEW w \in Syncs, FetchPage(w), Reaching(call[w])
  PROVE  Reaching(call'[w])
<1>1. PICK c \in CallRow : c = call[w] /\ CallShape(c) /\ Reaching(c)
  BY DEF RisingInv, TypeInv, TypeOK
<1>2. c.pc = "fetch" /\ InPage(c) = {} /\ Page(c) # {}
  BY <1>1 DEF FetchPage, At, CallShape, Processing
<1> DEFINE page == [m \in Ids |-> IF m \in Page(c) THEN channel[m] ELSE NoText]
<1>3. \E k \in 0 .. MaxId :
        call'[w] = [c EXCEPT !.pc = "upsert", !.page = page, !.next = k]
  <2>1. PICK k \in 0 .. MaxId :
          call' = [call EXCEPT ![w] = [c EXCEPT !.pc = "upsert",
                                                !.page = page, !.next = k]]
    BY <1>1 DEF FetchPage
  <2>2. call \in [Syncs -> CallRow]
    BY DEF RisingInv, TypeInv, TypeOK
  <2> QED BY <2>1, <2>2
<1>4. PICK n : n = call'[w]
  OBVIOUS
<1>5. /\ n.pc = "upsert" /\ n.min = c.min /\ n.seen = c.seen /\ n.cursor = c.cursor
      /\ n.page = [m \in Ids |-> IF m \in Page(c) THEN channel[m] ELSE NoText]
  <2> HIDE DEF page
  <2>1. PICK k \in 0 .. MaxId :
          n = [c EXCEPT !.pc = "upsert", !.page = page, !.next = k]
    BY <1>3, <1>4
  <2>2. /\ n.pc = "upsert" /\ n.min = c.min /\ n.seen = c.seen /\ n.cursor = c.cursor
        /\ n.page = page
    BY <2>1 DEF CallRow
  <2> QED BY <2>2 DEF page
<1>6. \A m \in Page(c) : m \in Ids /\ Live(m)
  BY DEF Page, Newest, Eligible, Live
<1>7. InPage(n) = Page(c)
  BY <1>5, <1>6 DEF InPage, Live
<1>8. c.seen = 0 => \E j \in Page(c) : j >= src.watermark
  BY <1>1, <1>2, FirstPageReaches DEF Reaching
<1>9. n.pc \notin Processing /\ n.pc # "progress"
  BY <1>5 DEF Processing
<1> QED BY <1>1, <1>4, <1>5, <1>6, <1>7, <1>8, <1>9 DEF Reaching

LEMMA CallReaches ==
  ASSUME RisingInv, NEW w \in Syncs, CallStep(w), call'[w].pc \in Working
  PROVE  Reaching(call'[w])
<1>1. PICK c \in CallRow : c = call[w] /\ CallShape(c)
  BY DEF RisingInv, TypeInv, TypeOK
<1>2. Reaching(c) /\ TypeInv
  <2>1. w \in Active
    BY DEF Active, CallStep, CreateJob, UpdateJobRunning, Resolve, FetchPage,
       StopFetching, Upsert, FindCanonical, Save, DeleteChunks, InsertChunks,
       UpdateJobProgress, UpdateJobTotal, CompleteJob, MarkSourceSyncSuccess,
       CallFails, FailJob, MarkSourceSyncError, At, Working
  <2> QED BY <1>1, <2>1 DEF RisingInv
<1>3. PICK n \in CallRow : n = call'[w]
  <2>1. PICK k \in CallRow : call' = [call EXCEPT ![w] = k]
    BY <1>2, CallStepGood DEF GoodStep, CallMoves
  <2> QED BY <2>1 DEF RisingInv, TypeInv, TypeOK
<1>4. CASE Blanked(n)
  <2>1. PICK pc \in Quiet \ {"fetch", "progress"} : n = Blank(pc)
    BY <1>4 DEF Blanked
  <2>2. /\ n.pc = pc /\ n.min = 0 /\ n.seen = 0 /\ n.cursor = 0 /\ InPage(n) = {}
    BY <2>1, BlankFacts
  <2>3. n.pc \notin Processing /\ n.pc # "progress"
    BY <2>1, <2>2 DEF Quiet
  <2>4. Reaching(n)
    BY <2>2, <2>3 DEF Reaching
  <2> QED BY <1>3, <2>4
<1>5. CASE Onward(c, n)
  BY <1>2, <1>3, <1>5, OnwardReaches
<1>6. CASE Dealt(c, n)
  BY <1>2, <1>3, <1>6, DealtReaches
<1>7. CASE FetchPage(w)
  BY <1>1, <1>2, <1>7, FetchReaches
<1>8. CASE c.pc = "progress" /\ n = NextPage(c)
  <2>1. /\ n.min = c.min /\ n.seen = c.seen /\ n.page = c.page
        /\ n.pc \in {"total", "fetch"}
    BY <1>8 DEF NextPage, CallRow
  <2>2. InPage(n) = InPage(c) /\ n.pc \notin Processing /\ n.pc # "progress"
    BY <2>1 DEF InPage, Processing
  <2>3. Reaching(n)
    BY <1>2, <1>8, <2>1, <2>2 DEF Reaching
  <2> QED BY <1>3, <2>3
<1> QED BY <1>1, <1>2, <1>3, <1>4, <1>5, <1>6, <1>7, <1>8, CallTurns

\* A call begins at the watermark, or from nothing.
LEMMA BeginReaches ==
  ASSUME RisingInv, NEW w \in Syncs, NEW f \in Resyncs, NEW l \in Limits, GetSource(w, f, l)
  PROVE  Reaching(call'[w])
<1>1. PICK k \in 0 .. MaxId : k = IF f THEN 0 ELSE src.watermark
  BY StoreAssumption DEF RisingInv, TypeInv, TypeOK
<1>2. "createJob" \in Quiet
  BY DEF Quiet, Pcs, Working, Ended, Processing
<1>3. call'[w] = [Blank("createJob") EXCEPT !.min = k, !.limit = l]
  BY <1>1 DEF GetSource, RisingInv, TypeInv, TypeOK
<1>4. PICK n : n = call'[w]
  OBVIOUS
<1>5. /\ n.pc = "createJob" /\ n.min = k /\ n.seen = 0 /\ n.cursor = 0
      /\ n.page = EmptyPage
  BY <1>3, <1>4 DEF Blank
<1>6. InPage(n) = {} /\ n.pc \notin Processing
  BY <1>5 DEF InPage, EmptyPage, Processing
<1> QED BY <1>1, <1>4, <1>5, <1>6 DEF Reaching

\* What a call has stays within reach while the watermark stays.
LEMMA ReachingStays ==
  ASSUME NEW c \in CallRow, Reaching(c), src'.watermark = src.watermark,
         \A m \in Ids : Live(m) => Live(m)'
  PROVE  Reaching(c)'
<1>1. c.seen # 0 => c.seen \in Ids
  BY StoreAssumption DEF CallRow, Ids
<1> QED BY <1>1 DEF Reaching, InPage

LEMMA BlankReaches ==
  ASSUME NEW n, Blanked(n)
  PROVE  Reaching(n)'
<1>1. PICK pc \in Quiet \ {"fetch", "progress"} : n = Blank(pc)
  BY DEF Blanked
<1>2. /\ n.pc = pc /\ n.min = 0 /\ n.seen = 0 /\ n.cursor = 0 /\ n.page = EmptyPage
  BY <1>1 DEF Blank
<1>3. \A m \in Ids : n.page[m] = NoText
  BY <1>2 DEF EmptyPage
<1>4. n.pc \notin Processing /\ n.pc # "progress"
  BY <1>1, <1>2 DEF Quiet
<1> QED BY <1>2, <1>3, <1>4 DEF Reaching, InPage

\* Only the last statement of a sync writes the watermark.
LEMMA WatermarkWrites ==
  ASSUME RisingInv, NEW w \in Syncs, CallStep(w)
  PROVE  \/ src'.watermark = src.watermark
         \/ /\ MarkSourceSyncSuccess(w) /\ src'.watermark = call[w].seen
            /\ call[w].seen # 0
<1>1. CASE \/ CreateJob(w) \/ UpdateJobRunning(w) \/ Resolve(w) \/ FetchPage(w)
           \/ StopFetching(w) \/ Upsert(w) \/ FindCanonical(w) \/ Save(w)
           \/ DeleteChunks(w) \/ InsertChunks(w)
  BY <1>1 DEF CreateJob, UpdateJobRunning, Resolve, FetchPage, StopFetching, Upsert,
     FindCanonical, Save, DeleteChunks, InsertChunks
<1>2. CASE \/ UpdateJobProgress(w) \/ UpdateJobTotal(w) \/ CompleteJob(w)
           \/ CallFails(w) \/ FailJob(w)
  BY <1>2 DEF UpdateJobProgress, UpdateJobTotal, CompleteJob, CallFails, FailJob
<1>3. CASE MarkSourceSyncError(w)
  BY <1>3 DEF MarkSourceSyncError, RisingInv, TypeInv, TypeOK
<1>4. CASE MarkSourceSyncSuccess(w)
  BY <1>4 DEF MarkSourceSyncSuccess
<1> QED BY <1>1, <1>2, <1>3, <1>4 DEF CallStep

\* A channel that loses no message.
LEMMA LiveStays ==
  ASSUME NoRemovals, TypeInv, [Next]_vars, NEW m \in Ids, Live(m)
  PROVE  Live(m)'
<1>1. channel \in [Ids -> Bodies \cup {NoText}] /\ head \in Nat /\ spent \in SpentRow
  BY StoreAssumption DEF TypeInv, TypeOK
<1>2. ASSUME NEW b \in Bodies, Post(b) PROVE Live(m)'
  BY <1>1, <1>2, StoreAssumption DEF Post, Live, Bodies
<1>3. ASSUME NEW k \in Ids, NEW b \in Bodies, Edit(k, b) PROVE Live(m)'
  BY <1>1, <1>3, StoreAssumption DEF Edit, Live, Bodies
<1>4. ASSUME NEW k \in Ids, Remove(k) PROVE FALSE
  BY <1>1, <1>4 DEF Remove, NoRemovals, SpentRow
<1>5. CASE ChannelStep
  BY <1>2, <1>3, <1>4, <1>5 DEF ChannelStep
<1>6. ASSUME NEW w \in Syncs, CallStep(w) PROVE Live(m)'
  BY <1>6, CallWrites DEF channelVars, Live
<1>7. ASSUME NEW w \in Syncs,
             \/ \E f \in Resyncs, n \in Limits : GetSource(w, f, n)
             \/ Cancel(w) \/ Crash(w)
      PROVE  Live(m)'
  BY <1>7 DEF GetSource, Cancel, Crash, channelVars, Live
<1>8. CASE UNCHANGED vars
  BY <1>8 DEF vars, Live
<1> QED BY <1>5, <1>6, <1>7, <1>8 DEF Next

\* The call that steps is the only one at work.
LEMMA OnlyOneAtWork ==
  ASSUME RisingInv, NEW w \in Syncs, GoodStep(w), AtMostOne', w \in Active,
         call'[w].pc \in Working => Reaching(call[w])'
  PROVE  \A v \in Active' : Reaching(call[v])'
<1>1. PICK n \in CallRow : call' = [call EXCEPT ![w] = n]
  BY DEF GoodStep, CallMoves
<1>2. call \in [Syncs -> CallRow]
  BY DEF RisingInv, TypeInv, TypeOK
<1> SUFFICES ASSUME NEW v \in Active' PROVE Reaching(call[v])'
  OBVIOUS
<1>3. v = w
  BY <1>1, <1>2 DEF Active, RisingInv, AtMostOne
<1> QED BY <1>3 DEF Active

LEMMA RisingInvInit == Init => RisingInv
<1> SUFFICES ASSUME Init PROVE RisingInv
  OBVIOUS
<1>1. Active = {}
  BY DEF Init, Active, Blank, Working
<1>2. src.watermark = 0
  BY DEF Init
<1> QED BY <1>1, <1>2, TypeInvInit DEF RisingInv, AtMostOne

LEMMA RisingInvNext ==
  ASSUME OneAtATime, NoRemovals, RisingInv, [Next]_vars
  PROVE  RisingInv' /\ src'.watermark >= src.watermark
<1>1. TypeInv /\ TypeInv' /\ AtMostOne'
  BY TypeInvNext, NextKeepsOne DEF RisingInv
<1>2. \A m \in Ids : Live(m) => Live(m)'
  BY <1>1, LiveStays
<1>3. src.watermark \in 0 .. MaxId /\ src.watermark >= src.watermark
  BY <1>1, StoreAssumption DEF TypeInv, TypeOK
<1>4. ASSUME src'.watermark = src.watermark, \A v \in Active' : Reaching(call[v])'
      PROVE  RisingInv' /\ src'.watermark >= src.watermark
  <2>1. src.watermark # 0 => src.watermark \in Ids
    BY <1>3, StoreAssumption DEF Ids
  <2> QED BY <1>1, <1>2, <1>3, <1>4, <2>1 DEF RisingInv
<1>5. call \in [Syncs -> CallRow] /\ call' \in [Syncs -> CallRow]
  BY <1>1 DEF TypeInv, TypeOK
<1>6. ASSUME UNCHANGED <<src, call>>
      PROVE  RisingInv' /\ src'.watermark >= src.watermark
  <2>1. ASSUME NEW v \in Active' PROVE Reaching(call[v])'
    <3>1. PICK c \in CallRow : c = call[v] /\ Reaching(c)
      BY <1>5, <1>6 DEF Active, RisingInv
    <3>2. Reaching(c)'
      BY <1>2, <1>6, <3>1, ReachingStays
    <3> QED BY <1>6, <3>1, <3>2
  <2> QED BY <1>4, <1>6, <2>1
<1>7. ASSUME NEW w \in Syncs, NEW f \in Resyncs, NEW l \in Limits, GetSource(w, f, l)
      PROVE  RisingInv' /\ src'.watermark >= src.watermark
  <2>1. UNCHANGED src
    BY <1>7 DEF GetSource
  <2>2. PICK n \in CallRow : call' = [call EXCEPT ![w] = n]
    BY <1>1, <1>7, GetSourceGood DEF GoodStep, CallMoves
  <2>3. call'[w] = n /\ Reaching(n)
    BY <1>5, <1>7, <2>2, BeginReaches
  <2>4. Reaching(n)'
    BY <1>2, <2>1, <2>3, ReachingStays
  <2>5. ASSUME NEW v \in Active' PROVE Reaching(call[v])'
    <3>1. CASE v = w
      BY <2>3, <2>4, <3>1
    <3>2. CASE v # w
      <4>1. v \in Active /\ call'[v] = call[v]
        BY <1>5, <2>2, <3>2 DEF Active
      <4>2. PICK c \in CallRow : c = call[v] /\ Reaching(c)
        BY <1>5, <4>1 DEF Active, RisingInv
      <4>3. Reaching(c)'
        BY <1>2, <2>1, <4>2, ReachingStays
      <4> QED BY <4>1, <4>2, <4>3
    <3> QED BY <3>1, <3>2
  <2> QED BY <1>4, <2>1, <2>5
<1>8. ASSUME NEW w \in Syncs, CallStep(w)
      PROVE  RisingInv' /\ src'.watermark >= src.watermark
  <2>1. GoodStep(w) /\ w \in Active
    <3>1. w \in Active
      BY <1>8 DEF Active, CallStep, CreateJob, UpdateJobRunning, Resolve, FetchPage,
         StopFetching, Upsert, FindCanonical, Save, DeleteChunks, InsertChunks,
         UpdateJobProgress, UpdateJobTotal, CompleteJob, MarkSourceSyncSuccess,
         CallFails, FailJob, MarkSourceSyncError, At, Working
    <3> QED BY <1>1, <1>8, <3>1, CallStepGood
  <2>2. PICK n \in CallRow : n = call'[w]
    BY <1>5
  <2>3. CASE src'.watermark = src.watermark
    <3>1. ASSUME n.pc \in Working PROVE Reaching(n)'
      <4>1. Reaching(n)
        BY <1>8, <2>2, <3>1, CallReaches
      <4> QED BY <1>2, <2>3, <4>1, ReachingStays
    <3>2. call'[w].pc \in Working => Reaching(call[w])'
      BY <2>2, <3>1
    <3>3. \A v \in Active' : Reaching(call[v])'
      BY <1>1, <2>1, <3>2, OnlyOneAtWork
    <3> QED BY <1>4, <2>3, <3>3
  <2>4. CASE MarkSourceSyncSuccess(w) /\ src'.watermark = call[w].seen /\ call[w].seen # 0
    <3>1. PICK c \in CallRow : c = call[w] /\ Reaching(c)
      BY <1>5, <2>1 DEF RisingInv
    <3>2. Live(c.seen) /\ c.seen >= src.watermark /\ c.seen \in Ids
      <4>1. c.seen # 0 /\ c.seen \in 0 .. MaxId
        BY <2>4, <3>1 DEF CallRow
      <4>2. c.seen \in Ids
        BY <4>1, StoreAssumption DEF Ids
      <4> QED BY <3>1, <4>1, <4>2 DEF Reaching
    <3>3. Blanked(n)
      <4>1. PICK pc \in Quiet \ {"fetch", "progress"} : call' = [call EXCEPT ![w] = Blank(pc)]
        <5>1. {"returned", "failJob"} \subseteq Quiet \ {"fetch", "progress"}
          BY DEF Quiet, Pcs, Working, Ended, Processing
        <5> QED BY <2>4, <5>1 DEF MarkSourceSyncSuccess, Settle
      <4> QED BY <1>5, <2>2, <4>1 DEF Blanked
    <3>4. Reaching(n)'
      BY <3>3, BlankReaches
    <3>5. Reaching(call[w])'
      BY <2>2, <3>4
    <3>6. \A v \in Active' : Reaching(call[v])'
      BY <1>1, <2>1, <3>5, OnlyOneAtWork
    <3>7. src'.watermark = c.seen /\ Live(c.seen)'
      BY <1>2, <2>4, <3>1, <3>2
    <3>8. Live(src.watermark)'
      BY <3>7
    <3> QED BY <1>1, <3>2, <3>6, <3>7, <3>8 DEF RisingInv
  <2> QED BY <1>8, <2>3, <2>4, WatermarkWrites
<1>9. ASSUME NEW w \in Syncs, Crash(w)
      PROVE  RisingInv' /\ src'.watermark >= src.watermark
  <2>1. UNCHANGED src /\ w \in Active
    BY <1>9 DEF Crash
  <2>2. call'[w].pc \notin Working
    BY <1>5, <1>9 DEF Crash, Blank, Working
  <2>3. \A v \in Active' : Reaching(call[v])'
    BY <1>1, <1>9, <2>1, <2>2, CrashGood, OnlyOneAtWork
  <2> QED BY <1>4, <2>1, <2>3
<1>10. CASE ChannelStep
  BY <1>6, <1>10 DEF ChannelStep, Post, Edit, Remove
<1>11. ASSUME NEW w \in Syncs, Cancel(w)
       PROVE  RisingInv' /\ src'.watermark >= src.watermark
  BY <1>6, <1>11 DEF Cancel
<1>12. CASE UNCHANGED vars
  BY <1>6, <1>12 DEF vars
<1> QED BY <1>7, <1>8, <1>9, <1>10, <1>11, <1>12 DEF Next

\* MarkSourceSyncSuccess overwrites the watermark without comparing, and still
\* never moves it back, with full resyncs and max_messages allowed: with one
\* sync at a time on a channel that loses no message, what a sync has seen
\* includes the newest message, which is no older than the watermark.
THEOREM WatermarkOnlyRises ==
  ASSUME OneAtATime, NoRemovals
  PROVE  Spec => WatermarkNeverRegresses
<1>1. RisingInv /\ [Next]_vars => RisingInv' /\ [src'.watermark >= src.watermark]_src
  BY RisingInvNext
<1> QED BY <1>1, RisingInvInit, PTL DEF Spec, WatermarkNeverRegresses

-----------------------------------------------------------------------------
(***************************************************************************)
(* What lies below the watermark is searchable, for incremental calls one  *)
(* at a time on a channel that loses no message.                           *)
(***************************************************************************)
Incremental == Resyncs = {FALSE}

Done(m) == Processed(m, raw[m])

\* The statements that process c.msg are halfway.
Halfway(c) ==
  /\ c.pc \in Processing => raw[c.msg] = Body(c)
  /\ c.pc \in Processing \ {"chunk"} => c.index = 1
  /\ c.pc \in {"unchunk", "chunk"} =>
       docs[c.msg].text = Body(c) /\ docs[c.msg].dupOf = c.canon
  /\ c.pc = "chunk" =>
       /\ c.canon = 0
       /\ \A i \in 1 .. MaxChunks :
            chunks[c.msg][i] = IF i < c.index THEN Body(c) ELSE NoText

\* A call leaves no message half-processed behind, up to the newest it knows of.
Leaves(c) ==
  /\ c.pc \in Working \ {"failJob", "markError"} => c.min = src.watermark
  /\ \A m \in InPage(c) : m > src.watermark
  /\ \A m \in Ids, k \in InPage(c) \cup {c.seen} : m <= k => Done(m) \/ Pending(c, m)
  /\ Halfway(c)

SearchInv ==
  /\ SyncInv /\ RisingInv
  /\ \A m \in Ids : Stored(m) => Live(m)
  /\ SearchableBelowWatermark
  /\ \A w \in Active : Leaves(call[w])

\* A step that rewrites messages of its page, and no others.
Rewrites(c) ==
  \A m \in Ids \ InPage(c) :
    raw'[m] = raw[m] /\ docs'[m] = docs[m] /\ chunks'[m] = chunks[m]

LEMMA OthersDone ==
  ASSUME NEW c, Rewrites(c), NEW m \in Ids \ InPage(c), Done(m)
  PROVE  Done(m)'
BY DEF Rewrites, Done, Processed, FullyChunked, IsCanonical, IsDuplicate, HasDoc

\* From one statement to the next on the same messages.
LEMMA OnwardLeaves ==
  ASSUME NEW c \in CallRow, NEW n \in CallRow, Leaves(c), Rewrites(c),
         src'.watermark = src.watermark,
         n.min = c.min, n.page = c.page, n.next = c.next, n.seen = c.seen,
         c.pc \in Working \ {"failJob", "markError"},
         c.pc # "fetch" \/ c.cursor = 0, Halfway(n)'
  PROVE  Leaves(n)'
<1>1. InPage(n) = InPage(c)
  BY DEF InPage
<1>2. n.min = src'.watermark /\ \A m \in InPage(n) : m > src'.watermark
  BY <1>1 DEF Leaves
<1>3. ASSUME NEW m \in Ids, NEW k \in InPage(n) \cup {n.seen}, m <= k
      PROVE  Done(m)' \/ Pending(n, m)
  <2>1. Done(m) \/ Pending(c, m)
    BY <1>1, <1>3 DEF Leaves
  <2>2. Pending(c, m) => Pending(n, m)
    BY <1>1 DEF Pending
  <2>3. m \in InPage(c) => Pending(n, m)
    BY <1>1 DEF Pending
  <2>4. m \notin InPage(c) /\ Done(m) => Done(m)'
    BY OthersDone
  <2> QED BY <2>1, <2>2, <2>3, <2>4
<1> QED BY <1>2, <1>3 DEF Leaves, InPage, Pending

\* A message that is searchable can leave the page.
LEMMA DealtLeaves ==
  ASSUME NEW c \in CallRow, NEW m \in InPage(c), Leaves(c), Rewrites(c),
         src'.watermark = src.watermark, c.limit = 0, c.pc # "fetch",
         c.pc \in Working \ {"failJob", "markError"}, Done(m)'
  PROVE  Leaves(MessageDone(c, m))'
<1> DEFINE n == MessageDone(c, m)
<1>1. /\ n.min = c.min /\ n.next = c.next
      /\ n.seen = IF m > c.seen THEN m ELSE c.seen
      /\ InPage(n) = InPage(c) \ {m} /\ n.pc \in {"upsert", "progress"}
  BY MessageDoneFacts
<1> HIDE DEF n
<1>2. n.min = src'.watermark /\ \A k \in InPage(n) : k > src'.watermark
  BY <1>1 DEF Leaves
<1>3. ASSUME NEW j \in Ids, NEW k \in InPage(n) \cup {n.seen}, j <= k
      PROVE  Done(j)' \/ Pending(n, j)
  <2>1. k \in InPage(c) \cup {c.seen}
    BY <1>1
  <2>2. Done(j) \/ Pending(c, j)
    BY <1>3, <2>1 DEF Leaves
  <2>3. j # m /\ Pending(c, j) => Pending(n, j)
    BY <1>1 DEF Pending
  <2>4. j # m /\ j \in InPage(c) => Pending(n, j)
    BY <1>1 DEF Pending
  <2>5. j \notin InPage(c) /\ Done(j) => Done(j)'
    BY OthersDone
  <2> QED BY <2>2, <2>3, <2>4, <2>5
<1>4. Halfway(n)'
  BY <1>1 DEF Halfway, Processing
<1>5. Leaves(n)'
  BY <1>2, <1>3, <1>4 DEF Leaves, InPage, Pending
<1> QED BY <1>5 DEF n

LEMMA BlankLeaves ==
  ASSUME NEW pc \in {"failJob", "markError", "failed", "returned", "dead"}
  PROVE  Leaves(Blank(pc))'
<1>1. pc \in Quiet /\ pc \notin Working \ {"failJob", "markError"}
      /\ pc \notin Processing
  BY DEF Quiet, Pcs, Working, Ended, Processing
<1>2. /\ Blank(pc).pc = pc /\ Blank(pc).seen = 0 /\ InPage(Blank(pc)) = {}
  BY <1>1, BlankFacts
<1>3. \A m \in Ids : ~(m <= 0)
  BY IdsFacts
<1>4. Halfway(Blank(pc))'
  BY <1>1, <1>2 DEF Halfway, Processing
<1> QED BY <1>1, <1>2, <1>3, <1>4 DEF Leaves, InPage

LEMMA SettleLeaves ==
  ASSUME TypeInv, NEW w \in Syncs, NEW n, NEW e \in {"failed", "failJob"},
         Settle(w, n, e), Leaves(n)'
  PROVE  Leaves(call[w])'
<1>1. call \in [Syncs -> CallRow]
  BY DEF TypeInv, TypeOK
<1>2. Leaves(Blank(e))'
  BY BlankLeaves
<1>3. PICK b : b = Blank(e)
  OBVIOUS
<1>4. call'[w] = n \/ call'[w] = b
  BY <1>1, <1>3 DEF Settle
<1> QED BY <1>2, <1>3, <1>4

\* What is known of the call that steps.
LEMMA LeavesFacts ==
  ASSUME SearchInv, Unbounded, NEW w \in Syncs, call[w].pc \in Working
  PROVE  \E c \in CallRow :
           /\ c = call[w] /\ CallShape(c) /\ Leaves(c) /\ Reaching(c) /\ c.limit = 0
<1>1. w \in Active
  BY DEF Active
<1>2. PICK c \in CallRow : c = call[w] /\ CallShape(c)
  BY DEF SearchInv, RisingInv, TypeInv, TypeOK
<1> QED BY <1>1, <1>2, UnboundedCall DEF SearchInv, RisingInv

LEMMA SameTablesLeave ==
  ASSUME NEW n, Leaves(n), UNCHANGED <<raw, docs, chunks>>,
         src'.watermark = src.watermark
  PROVE  Leaves(n)'
<1>1. \A m \in Ids : Done(m)' <=> Done(m)
  BY DEF Done, Processed, FullyChunked, IsCanonical, IsDuplicate, HasDoc
<1>2. Halfway(n)'
  BY DEF Leaves, Halfway, Body
<1> QED BY <1>1, <1>2 DEF Leaves, InPage, Pending

\* What a full page leaves out lies below its cursor.
LEMMA PageReach ==
  ASSUME Unbounded, NEW c \in CallRow, NEW k \in 0 .. MaxId,
         NextCursor(Page(c), PageLimit(c), k), NEW m \in Eligible(c)
  PROVE  m \in Page(c) \/ (k # 0 /\ m < k)
<1>1. PICK p \in Nat \ {0} : p = PageLimit(c)
  BY UnboundedCall
<1>2. Page(c) = Newest(Eligible(c), p) /\ p \in Nat
  BY <1>1 DEF Page
<1>3. Page(c) \subseteq Eligible(c) /\ Eligible(c) \in SUBSET Ids
  BY DEF Page, Newest, Eligible
<1>4. CASE Cardinality(Page(c)) >= p
  <2>1. k \in Page(c)
    BY <1>1, <1>4 DEF NextCursor
  <2>2. k \in Nat \ {0} /\ m \in Nat
    BY <1>3, <2>1, IdsFacts
  <2>3. CASE k <= m
    BY <1>2, <1>3, <2>1, <2>3, PageUpward
  <2> QED BY <2>2, <2>3
<1>5. CASE ~(Cardinality(Page(c)) >= p)
  BY <1>2, <1>3, <1>5, PageComplete
<1> QED BY <1>4, <1>5

\* A message that still has to be processed can only be on a later page.
LEMMA NotDoneEligible ==
  ASSUME SearchInv, NEW c \in CallRow, CallShape(c), Leaves(c), c.pc = "fetch",
         NEW m \in Ids, ~Done(m), NEW k \in Eligible(c) \cup {c.seen}, m <= k
  PROVE  m \in Eligible(c)
<1>1. InPage(c) = {} /\ c.next = 0
  BY DEF CallShape, Processing
<1>2. m \in Nat /\ c.min \in Nat /\ c.cursor \in Nat /\ Ids \subseteq Nat
  BY IdsFacts, StoreAssumption DEF CallRow
<1>3. Live(m)
  BY StoreAssumption DEF SearchInv, Done, Processed, Stored
<1>4. ~(m <= c.min)
  BY DEF Leaves, Working, SearchInv, SearchableBelowWatermark, Done
<1>5. CASE k \in Eligible(c)
  <2>1. k \in Nat /\ (c.cursor # 0 => k < c.cursor)
    BY <1>2, <1>5 DEF Eligible
  <2> QED BY <1>2, <1>3, <1>4, <2>1 DEF Eligible, Live
<1>6. CASE k = c.seen
  <2>1. Pending(c, m)
    BY <1>6 DEF Leaves
  <2> QED BY <1>1, <1>2, <1>3, <1>4, <2>1 DEF Pending, Eligible, Live
<1> QED BY <1>5, <1>6

-----------------------------------------------------------------------------
(* One lemma per action, or group of actions, of a call. *)

LEMMA PlainStepLeaves ==
  ASSUME SearchInv, Unbounded, NEW w \in Syncs,
         \/ CreateJob(w) \/ UpdateJobRunning(w) \/ Resolve(w) \/ UpdateJobTotal(w)
         \/ CompleteJob(w)
  PROVE  Leaves(call[w])'
<1>1. call[w].pc \in {"createJob", "runJob", "resolve", "total", "complete"}
  BY DEF CreateJob, UpdateJobRunning, Resolve, UpdateJobTotal, CompleteJob, At
<1>2. PICK c \in CallRow : c = call[w] /\ Leaves(c)
  BY <1>1, LeavesFacts DEF Working
<1>3. Rewrites(c) /\ src'.watermark = src.watermark
  BY DEF CreateJob, UpdateJobRunning, Resolve, UpdateJobTotal, CompleteJob, storeVars,
     Rewrites
<1>4. ASSUME NEW pc \in {"runJob", "resolve", "fetch", "complete", "mark"}
      PROVE  Leaves([c EXCEPT !.pc = pc])'
  <2> DEFINE n == [c EXCEPT !.pc = pc]
  <2>1. n \in CallRow
    BY <1>4 DEF CallRow, Working
  <2>2. /\ n.min = c.min /\ n.page = c.page /\ n.next = c.next /\ n.seen = c.seen
        /\ n.pc = pc
    BY DEF CallRow
  <2> HIDE DEF n
  <2>3. Halfway(n)'
    BY <1>4, <2>2 DEF Halfway, Processing
  <2>4. c.pc \in Working \ {"failJob", "markError"} /\ c.pc # "fetch"
    BY <1>1, <1>2 DEF Working
  <2>5. Leaves(n)'
    BY <1>2, <1>3, <2>1, <2>2, <2>3, <2>4, OnwardLeaves
  <2> QED BY <2>5 DEF n
<1>5. TypeInv /\ call \in [Syncs -> CallRow]
  BY DEF SearchInv, RisingInv, TypeInv, TypeOK
<1>6. PICK pc \in {"runJob", "resolve", "fetch", "complete", "mark"} :
        \/ \E e \in {"failed", "failJob"} : Settle(w, [c EXCEPT !.pc = pc], e)
        \/ call' = [call EXCEPT ![w] = [c EXCEPT !.pc = pc]]
  BY <1>2 DEF CreateJob, UpdateJobRunning, Resolve, UpdateJobTotal, CompleteJob
<1>7. PICK n : n = [c EXCEPT !.pc = pc]
  OBVIOUS
<1>8. Leaves(n)'
  BY <1>4, <1>7
<1>9. CASE \E e \in {"failed", "failJob"} : Settle(w, [c EXCEPT !.pc = pc], e)
  BY <1>5, <1>7, <1>8, <1>9, SettleLeaves
<1>10. CASE call' = [call EXCEPT ![w] = [c EXCEPT !.pc = pc]]
  <2>1. call'[w] = n
    BY <1>5, <1>7, <1>10
  <2> QED BY <1>8, <2>1
<1> QED BY <1>6, <1>9, <1>10

\* Nothing eligible is left below the page, so what was pending is done.
LEMMA StopFetchingLeaves ==
  ASSUME SearchInv, Unbounded, NEW w \in Syncs, StopFetching(w)
  PROVE  Leaves(call[w])'
<1>1. call[w].pc = "fetch"
  BY DEF StopFetching, At
<1>2. PICK c \in CallRow : c = call[w] /\ CallShape(c) /\ Leaves(c)
  BY <1>1, LeavesFacts DEF Working
<1>3. c.pc = "fetch" /\ InPage(c) = {} /\ c.next = 0 /\ Page(c) = {}
  BY <1>1, <1>2, UnboundedCall DEF CallShape, Processing, StopFetching
<1>4. Eligible(c) = {}
  <2>1. PICK n \in Nat \ {0} : n = PageLimit(c)
    BY UnboundedCall
  <2>2. Newest(Eligible(c), n) = {}
    BY <1>3, <2>1 DEF Page
  <2>3. ~(Cardinality(Newest(Eligible(c), n)) >= n)
    BY <2>1, <2>2, FS_EmptySet
  <2>4. Eligible(c) \in SUBSET Ids /\ n \in Nat
    BY <2>1 DEF Eligible
  <2> QED BY <2>2, <2>3, <2>4, PageComplete
<1>5. ASSUME NEW m \in Ids, m <= c.seen PROVE Done(m)
  BY <1>2, <1>3, <1>4, <1>5, NotDoneEligible
<1>6. PICK n : n = [c EXCEPT !.pc = "total"]
  OBVIOUS
<1>7. /\ n.pc = "total" /\ n.min = c.min /\ n.page = c.page /\ n.seen = c.seen
  BY <1>6 DEF CallRow
<1>8. InPage(n) = {}
  BY <1>3, <1>7 DEF InPage
<1>9. UNCHANGED <<raw, docs, chunks, src>>
  BY DEF StopFetching, storeVars
<1>10. Leaves(n)
  BY <1>2, <1>3, <1>5, <1>7, <1>8 DEF Leaves, Halfway, Processing, Working
<1>11. Leaves(n)'
  BY <1>9, <1>10, SameTablesLeave
<1>12. call'[w] = n
  BY <1>2, <1>6 DEF StopFetching, SearchInv, RisingInv, TypeInv, TypeOK
<1> QED BY <1>11, <1>12

LEMMA FetchPageLeaves ==
  ASSUME SearchInv, Unbounded, NEW w \in Syncs, FetchPage(w)
  PROVE  Leaves(call[w])'
<1>1. call[w].pc = "fetch"
  BY DEF FetchPage, At
<1>2. PICK c \in CallRow : c = call[w] /\ CallShape(c) /\ Leaves(c)
  BY <1>1, LeavesFacts DEF Working
<1> DEFINE page == [m \in Ids |-> IF m \in Page(c) THEN channel[m] ELSE NoText]
<1>3. PICK k \in 0 .. MaxId :
        /\ NextCursor(Page(c), PageLimit(c), k)
        /\ call' = [call EXCEPT ![w] = [c EXCEPT !.pc = "upsert",
                                                 !.page = page, !.next = k]]
  BY <1>2 DEF FetchPage
<1>4. \A m \in Page(c) : m \in Ids /\ Live(m) /\ m > c.min /\ m \in Eligible(c)
  BY DEF Page, Newest, Eligible, Live
<1>5. {m \in Ids : page[m] # NoText} = Page(c)
  BY <1>4 DEF Live
<1> HIDE DEF page
<1>6. PICK n : n = [c EXCEPT !.pc = "upsert", !.page = page, !.next = k]
  OBVIOUS
<1>7. /\ n.pc = "upsert" /\ n.min = c.min /\ n.seen = c.seen /\ n.next = k
      /\ n.page = page
  BY <1>6 DEF CallRow
<1>8. InPage(n) = Page(c)
  BY <1>5, <1>7 DEF InPage
<1>9. c.min = src.watermark /\ c.pc = "fetch"
  BY <1>1, <1>2 DEF Leaves, Working
<1>10. ASSUME NEW m \in Ids, NEW j \in InPage(n) \cup {n.seen}, m <= j
       PROVE  Done(m) \/ Pending(n, m)
  <2>1. SUFFICES ASSUME ~Done(m) PROVE Pending(n, m)
    OBVIOUS
  <2>2. j \in Eligible(c) \cup {c.seen}
    BY <1>4, <1>7, <1>8
  <2>3. m \in Eligible(c)
    BY <1>2, <1>9, <1>10, <2>1, <2>2, NotDoneEligible
  <2>4. m \in Page(c) \/ (k # 0 /\ m < k)
    BY <1>3, <2>3, PageReach
  <2> QED BY <1>7, <1>8, <2>4 DEF Pending
<1>11. Leaves(n)
  BY <1>4, <1>7, <1>8, <1>9, <1>10 DEF Leaves, Halfway, Processing
<1>12. UNCHANGED <<raw, docs, chunks, src>>
  BY DEF FetchPage, storeVars
<1>13. Leaves(n)'
  BY <1>11, <1>12, SameTablesLeave
<1>14. call'[w] = n
  BY <1>3, <1>6 DEF SearchInv, RisingInv, TypeInv, TypeOK
<1> QED BY <1>13, <1>14

LEMMA UpdateJobProgressLeaves ==
  ASSUME SearchInv, Unbounded, NEW w \in Syncs, UpdateJobProgress(w)
  PROVE  Leaves(call[w])'
<1>1. call[w].pc = "progress"
  BY DEF UpdateJobProgress, At
<1>2. PICK c \in CallRow : c = call[w] /\ CallShape(c) /\ Leaves(c)
  BY <1>1, LeavesFacts DEF Working
<1>3. c.pc = "progress" /\ InPage(c) = {}
  BY <1>1, <1>2 DEF CallShape, Processing
<1>4. PICK n : n = NextPage(c)
  OBVIOUS
<1>5. /\ n.min = c.min /\ n.page = c.page /\ n.seen = c.seen
      /\ n.pc \in {"total", "fetch"}
  BY <1>4 DEF NextPage, CallRow
<1>6. InPage(n) = {}
  BY <1>3, <1>5 DEF InPage
<1>7. \A m : Pending(c, m) => Pending(n, m)
  <2>1. c.next = 0 \/ (n.pc = "fetch" /\ n.cursor = c.next /\ n.cursor # 0)
    <3>1. ~(c.next # 0 /\ c.next = c.cursor)
      BY <1>2 DEF CallShape, CallRow
    <3> QED BY <1>4, <3>1 DEF NextPage, CallRow
  <2> QED BY <1>3, <2>1 DEF Pending
<1>8. Leaves(n)
  <2>1. c.min = src.watermark
    BY <1>2, <1>3 DEF Leaves, Working
  <2>2. \A m \in Ids : m <= c.seen => Done(m) \/ Pending(n, m)
    BY <1>2, <1>7 DEF Leaves
  <2> QED BY <1>5, <1>6, <2>1, <2>2 DEF Leaves, Halfway, Processing
<1>9. UNCHANGED <<raw, docs, chunks, src>> /\ Settle(w, n, "failJob")
  BY <1>2, <1>4 DEF UpdateJobProgress, storeVars
<1>10. Leaves(n)'
  BY <1>8, <1>9, SameTablesLeave
<1> QED BY <1>9, <1>10, SettleLeaves DEF SearchInv, RisingInv

\* A call that processes a message.
LEMMA ProcessingFacts ==
  ASSUME SearchInv, Unbounded, NEW w \in Syncs, call[w].pc \in Processing
  PROVE  \E c \in CallRow :
           /\ c = call[w] /\ CallShape(c) /\ Leaves(c) /\ c.limit = 0
           /\ c.pc \in Working \ {"failJob", "markError"} /\ c.pc # "fetch"
           /\ c.msg \in InPage(c) /\ c.msg \in Ids /\ Body(c) \in Texts
           /\ raw[c.msg] = Body(c)
<1>1. call[w].pc \in Working
  BY DEF Processing, Working
<1>2. PICK c \in CallRow : c = call[w] /\ CallShape(c) /\ Leaves(c) /\ c.limit = 0
  BY <1>1, LeavesFacts
<1>3. c.msg \in InPage(c) /\ c.msg \in Ids /\ Body(c) \in Texts
  BY <1>2, ProcessedMessage
<1>4. raw[c.msg] = Body(c)
  BY <1>2 DEF Leaves, Halfway
<1>5. c.pc \in Working \ {"failJob", "markError"} /\ c.pc # "fetch"
  BY <1>2 DEF Processing, Working
<1> QED BY <1>2, <1>3, <1>4, <1>5

LEMMA UpsertLeaves ==
  ASSUME SearchInv, Unbounded, NEW w \in Syncs, Upsert(w)
  PROVE  Leaves(call[w])'
<1>1. call[w].pc = "upsert"
  BY DEF Upsert, At
<1>2. PICK c \in CallRow : c = call[w] /\ CallShape(c) /\ Leaves(c) /\ c.limit = 0
  BY <1>1, LeavesFacts DEF Working
<1>3. PICK m \in InPage(c) :
        /\ raw' = [raw EXCEPT ![m] = c.page[m]]
        /\ Settle(w, IF IsTrash(c.page[m]) THEN MessageDone(c, m)
                     ELSE [c EXCEPT !.pc = "find", !.msg = m], "failJob")
  BY <1>2 DEF Upsert, UpsertRawMessage
<1>4. UNCHANGED <<docs, chunks, src>> /\ TypeInv /\ raw \in [Ids -> Bodies \cup {NoText}]
  BY DEF Upsert, SearchInv, RisingInv, TypeInv, TypeOK, StoreTypeOK
<1>5. m \in Ids /\ raw'[m] = c.page[m]
  BY <1>3, <1>4 DEF InPage
<1>6. Rewrites(c)
  BY <1>3, <1>4 DEF Rewrites
<1>7. c.pc \in Working \ {"failJob", "markError"} /\ c.pc # "fetch"
  BY <1>1, <1>2 DEF Working
<1>8. CASE IsTrash(c.page[m])
  <2>1. Done(m)'
    BY <1>5, <1>8, StoreAssumption DEF Done, Processed, IsTrash
  <2>2. Leaves(MessageDone(c, m))'
    BY <1>2, <1>4, <1>6, <1>7, <2>1, DealtLeaves
  <2> QED BY <1>3, <1>4, <1>8, <2>2, SettleLeaves
<1>9. CASE ~IsTrash(c.page[m])
  <2>1. PICK n : n = [c EXCEPT !.pc = "find", !.msg = m]
    OBVIOUS
  <2>2. n \in CallRow
    <3>1. m \in 0 .. MaxId
      BY <1>5, StoreAssumption DEF Ids
    <3> QED BY <2>1, <3>1 DEF CallRow, Working
  <2>3. /\ n.min = c.min /\ n.page = c.page /\ n.next = c.next /\ n.seen = c.seen
        /\ n.pc = "find" /\ n.msg = m /\ n.index = 1
    BY <1>1, <1>2, <2>1 DEF CallRow, CallShape, Processing
  <2>4. Halfway(n)'
    BY <1>5, <2>3 DEF Halfway, Body, Processing
  <2>5. Leaves(n)'
    BY <1>2, <1>4, <1>6, <1>7, <2>2, <2>3, <2>4, OnwardLeaves
  <2> QED BY <1>3, <1>4, <1>9, <2>1, <2>5, SettleLeaves
<1> QED BY <1>8, <1>9

LEMMA FindCanonicalLeaves ==
  ASSUME SearchInv, Unbounded, NEW w \in Syncs, FindCanonical(w)
  PROVE  Leaves(call[w])'
<1>1. call[w].pc \in Processing
  BY DEF FindCanonical, At, Processing
<1>2. PICK c \in CallRow : /\ c = call[w] /\ Leaves(c) /\ c.index = 1 /\ raw[c.msg] = Body(c)
                           /\ c.pc \in Working \ {"failJob", "markError"}
                           /\ c.pc # "fetch"
  BY <1>1, ProcessingFacts DEF FindCanonical, Save, At, Leaves, Halfway, Processing
<1>3. PICK k \in 0 .. MaxId : call' = [call EXCEPT ![w] = [c EXCEPT !.pc = "save", !.canon = k]]
  BY <1>2 DEF FindCanonical
<1>4. PICK n : n = [c EXCEPT !.pc = "save", !.canon = k]
  OBVIOUS
<1>5. n \in CallRow
  BY <1>4 DEF CallRow, Working
<1>6. /\ n.min = c.min /\ n.page = c.page /\ n.next = c.next /\ n.seen = c.seen
      /\ n.pc = "save" /\ n.msg = c.msg /\ n.index = c.index
  BY <1>4 DEF CallRow
<1>7. UNCHANGED <<raw, docs, chunks, src>>
  BY DEF FindCanonical, storeVars
<1>8. Halfway(n)' /\ Rewrites(c)
  BY <1>2, <1>6, <1>7 DEF Halfway, Body, Rewrites
<1>9. Leaves(n)'
  BY <1>2, <1>5, <1>6, <1>7, <1>8, OnwardLeaves
<1>10. call'[w] = n
  BY <1>3, <1>4 DEF SearchInv, RisingInv, TypeInv, TypeOK
<1> QED BY <1>9, <1>10

LEMMA SaveLeaves ==
  ASSUME SearchInv, Unbounded, NEW w \in Syncs, Save(w)
  PROVE  Leaves(call[w])'
<1>1. call[w].pc \in Processing
  BY DEF Save, At, Processing
<1>2. PICK c \in CallRow : /\ c = call[w] /\ Leaves(c) /\ c.index = 1 /\ raw[c.msg] = Body(c)
                           /\ c.pc \in Working \ {"failJob", "markError"}
                           /\ c.pc # "fetch" /\ c.msg \in InPage(c) /\ c.msg \in Ids
  BY <1>1, ProcessingFacts DEF FindCanonical, Save, At, Leaves, Halfway, Processing
<1>3. SaveDocument(c.msg, Body(c), c.canon)
  BY <1>2 DEF Save
<1>4. PICK n : n = [c EXCEPT !.pc = "unchunk"]
  OBVIOUS
<1>5. n \in CallRow
  BY <1>4 DEF CallRow, Working
<1>6. /\ n.min = c.min /\ n.page = c.page /\ n.next = c.next /\ n.seen = c.seen
      /\ n.pc = "unchunk" /\ n.msg = c.msg /\ n.canon = c.canon
      /\ n.index = c.index
  BY <1>4 DEF CallRow
<1>7. /\ UNCHANGED <<raw, chunks, src>> /\ Settle(w, n, "failJob") /\ TypeInv
      /\ docs \in [Ids -> DocRow]
  BY <1>2, <1>4 DEF Save, SearchInv, RisingInv, TypeInv, TypeOK, StoreTypeOK
<1>8. docs'[c.msg].text = Body(c) /\ docs'[c.msg].dupOf = c.canon
  BY <1>2, <1>3, <1>7 DEF SaveDocument
<1>9. \A m \in Ids \ {c.msg} : docs'[m] = docs[m]
  BY <1>3, <1>7 DEF SaveDocument
<1>10. Rewrites(c)
  BY <1>2, <1>7, <1>9 DEF Rewrites
<1>11. Halfway(n)'
  BY <1>2, <1>6, <1>7, <1>8 DEF Halfway, Body
<1>12. Leaves(n)'
  BY <1>2, <1>5, <1>6, <1>7, <1>10, <1>11, OnwardLeaves
<1> QED BY <1>7, <1>12, SettleLeaves

LEMMA DeleteChunksLeaves ==
  ASSUME SearchInv, Unbounded, NEW w \in Syncs, DeleteChunks(w)
  PROVE  Leaves(call[w])'
<1>1. call[w].pc = "unchunk"
  BY DEF DeleteChunks, At
<1>2. PICK c \in CallRow : /\ c = call[w] /\ CallShape(c) /\ Leaves(c) /\ c.limit = 0
                           /\ raw[c.msg] = Body(c)
                           /\ c.pc \in Working \ {"failJob", "markError"}
                           /\ c.pc # "fetch" /\ c.msg \in InPage(c) /\ c.msg \in Ids
                           /\ Body(c) \in Texts
  BY <1>1, ProcessingFacts DEF Processing
<1>3. docs[c.msg].text = Body(c) /\ docs[c.msg].dupOf = c.canon
  BY <1>1, <1>2 DEF Leaves, Halfway
<1>4. /\ UNCHANGED <<raw, docs, src>> /\ TypeInv
      /\ chunks \in [Ids -> [1 .. MaxChunks -> Texts \cup {NoText}]]
      /\ chunks' = [chunks EXCEPT ![c.msg] = NoChunks]
  BY <1>2 DEF DeleteChunks, DeleteChunksByDocumentID, SearchInv, RisingInv, TypeInv,
     TypeOK, StoreTypeOK
<1>5. chunks'[c.msg] = NoChunks
  BY <1>2, <1>4
<1>6. Rewrites(c)
  BY <1>2, <1>4 DEF Rewrites
<1>7. CASE c.canon # 0
  <2>1. Done(c.msg)'
    BY <1>2, <1>3, <1>4, <1>5, <1>7, StoreAssumption
       DEF Done, Processed, IsDuplicate, HasDoc
  <2>2. Leaves(MessageDone(c, c.msg))'
    BY <1>2, <1>4, <1>6, <2>1, DealtLeaves
  <2>3. Settle(w, MessageDone(c, c.msg), "failJob")
    BY <1>2, <1>7 DEF DeleteChunks
  <2> QED BY <1>4, <2>2, <2>3, SettleLeaves
<1>8. CASE c.canon = 0
  <2>1. PICK n : n = [c EXCEPT !.pc = "chunk"]
    OBVIOUS
  <2>2. n \in CallRow
    BY <2>1 DEF CallRow, Working
  <2>3. /\ n.min = c.min /\ n.page = c.page /\ n.next = c.next /\ n.seen = c.seen
        /\ n.pc = "chunk" /\ n.msg = c.msg /\ n.canon = 0 /\ n.index = c.index
    BY <1>8, <2>1 DEF CallRow
  <2>4. \A i \in 1 .. MaxChunks : chunks'[n.msg][i] = NoText
    BY <1>5, <2>3 DEF NoChunks
  <2>5. n.index = 1
    BY <1>1, <1>2, <2>3 DEF Leaves, Halfway, Processing
  <2>6. Halfway(n)'
    BY <1>2, <1>3, <1>4, <1>8, <2>3, <2>4, <2>5 DEF Halfway, Body
  <2>7. Leaves(n)'
    BY <1>2, <1>4, <1>6, <2>2, <2>3, <2>6, OnwardLeaves
  <2>8. Settle(w, n, "failJob")
    BY <1>2, <1>8, <2>1 DEF DeleteChunks
  <2> QED BY <1>4, <2>7, <2>8, SettleLeaves
<1> QED BY <1>7, <1>8

LEMMA InsertChunksLeaves ==
  ASSUME SearchInv, Unbounded, NEW w \in Syncs, InsertChunks(w)
  PROVE  Leaves(call[w])'
<1>1. call[w].pc = "chunk"
  BY DEF InsertChunks, At
<1>2. PICK c \in CallRow : /\ c = call[w] /\ CallShape(c) /\ Leaves(c) /\ c.limit = 0
                           /\ raw[c.msg] = Body(c)
                           /\ c.pc \in Working \ {"failJob", "markError"}
                           /\ c.pc # "fetch" /\ c.msg \in InPage(c) /\ c.msg \in Ids
                           /\ Body(c) \in Texts
  BY <1>1, ProcessingFacts DEF Processing
<1>3. /\ docs[c.msg].text = Body(c) /\ docs[c.msg].dupOf = 0 /\ c.canon = 0
      /\ \A i \in 1 .. MaxChunks :
           chunks[c.msg][i] = IF i < c.index THEN Body(c) ELSE NoText
  BY <1>1, <1>2 DEF Leaves, Halfway
<1>4. /\ UNCHANGED <<raw, docs, src>> /\ TypeInv
      /\ chunks \in [Ids -> [1 .. MaxChunks -> Texts \cup {NoText}]]
      /\ chunks' = [chunks EXCEPT ![c.msg][c.index] = Body(c)]
  BY <1>2 DEF InsertChunks, InsertChunk, SearchInv, RisingInv, TypeInv, TypeOK,
     StoreTypeOK
<1>5. /\ c.index \in 1 .. MaxChunks /\ c.index <= ChunkCount[Body(c)] /\ MaxChunks \in Nat
      /\ ChunkCount[Body(c)] \in 1 .. MaxChunks
  BY <1>1, <1>2, StoreAssumption DEF CallShape, CallRow, Processing
<1>6. \A i \in 1 .. MaxChunks :
        chunks'[c.msg][i] = IF i <= c.index THEN Body(c) ELSE NoText
  <2>1. chunks'[c.msg] = [chunks[c.msg] EXCEPT ![c.index] = Body(c)]
    BY <1>2, <1>4
  <2>2. chunks[c.msg] \in [1 .. MaxChunks -> Texts \cup {NoText}]
    BY <1>2, <1>4
  <2>3. ASSUME NEW i \in 1 .. MaxChunks
        PROVE  chunks'[c.msg][i] = IF i <= c.index THEN Body(c) ELSE NoText
    <3>1. CASE i = c.index
      BY <1>5, <2>1, <2>2, <3>1
    <3>2. CASE i # c.index
      <4>1. chunks'[c.msg][i] = chunks[c.msg][i] /\ (i <= c.index <=> i < c.index)
        BY <1>5, <2>1, <2>2, <3>2
      <4> QED BY <1>3, <4>1
    <3> QED BY <3>1, <3>2
  <2> QED BY <2>3
<1>7. Rewrites(c)
  BY <1>2, <1>4 DEF Rewrites
<1>8. CASE c.index = ChunkCount[Body(c)]
  <2>1. Done(c.msg)'
    <3>1. FullyChunked(c.msg, Body(c))'
      BY <1>2, <1>3, <1>4, <1>6, <1>8 DEF FullyChunked, Body
    <3>2. IsCanonical(c.msg)'
      BY <1>2, <1>3, <1>4, StoreAssumption DEF IsCanonical, HasDoc
    <3>3. raw'[c.msg] = Body(c)
      BY <1>2, <1>4
    <3>4. PICK b : b = Body(c)
      OBVIOUS
    <3> QED BY <3>1, <3>2, <3>3, <3>4 DEF Done, Processed, Body
  <2>2. Leaves(MessageDone(c, c.msg))'
    BY <1>2, <1>4, <1>7, <2>1, DealtLeaves
  <2>3. Settle(w, MessageDone(c, c.msg), "failJob")
    BY <1>2, <1>8 DEF InsertChunks
  <2> QED BY <1>4, <2>2, <2>3, SettleLeaves
<1>9. CASE c.index # ChunkCount[Body(c)]
  <2>1. PICK n : n = [c EXCEPT !.index = c.index + 1]
    OBVIOUS
  <2>2. c.index + 1 \in 1 .. MaxChunks
    BY <1>5, <1>9
  <2>3. n \in CallRow
    BY <2>1, <2>2 DEF CallRow
  <2>4. /\ n.min = c.min /\ n.page = c.page /\ n.next = c.next /\ n.seen = c.seen
        /\ n.pc = c.pc /\ n.msg = c.msg /\ n.canon = 0 /\ n.index = c.index + 1
    BY <1>3, <2>1 DEF CallRow
  <2>5. \A i \in 1 .. MaxChunks :
          chunks'[n.msg][i] = IF i < n.index THEN Body(c) ELSE NoText
    <3>1. \A i \in 1 .. MaxChunks : i < n.index <=> i <= c.index
      BY <1>5, <2>4
    <3> QED BY <1>6, <2>4, <3>1
  <2>6. Halfway(n)'
    BY <1>1, <1>2, <1>3, <1>4, <2>4, <2>5 DEF Halfway, Body
  <2>7. Leaves(n)'
    BY <1>2, <1>4, <1>7, <2>3, <2>4, <2>6, OnwardLeaves
  <2>8. Settle(w, n, "failJob")
    BY <1>2, <1>9, <2>1 DEF InsertChunks
  <2> QED BY <1>4, <2>7, <2>8, SettleLeaves
<1> QED BY <1>8, <1>9

LEMMA BlankStepLeaves ==
  ASSUME SearchInv, NEW w \in Syncs,
         \/ MarkSourceSyncSuccess(w) \/ CallFails(w) \/ FailJob(w) \/ MarkSourceSyncError(w)
  PROVE  Leaves(call[w])'
<1>1. call \in [Syncs -> CallRow]
  BY DEF SearchInv, RisingInv, TypeInv, TypeOK
<1>2. PICK pc \in {"failJob", "markError", "failed", "returned"} :
        call' = [call EXCEPT ![w] = Blank(pc)]
  BY DEF MarkSourceSyncSuccess, CallFails, FailJob, MarkSourceSyncError, Settle,
     ErrorStep, OnError
<1>3. PICK b : b = Blank(pc)
  OBVIOUS
<1>4. Leaves(b)'
  BY <1>3, BlankLeaves
<1>5. call'[w] = b
  BY <1>1, <1>2, <1>3
<1> QED BY <1>4, <1>5

LEMMA CallLeaves ==
  ASSUME SearchInv, Unbounded, NEW w \in Syncs, CallStep(w)
  PROVE  Leaves(call[w])'
BY PlainStepLeaves, FetchPageLeaves, StopFetchingLeaves, UpsertLeaves,
   FindCanonicalLeaves, SaveLeaves, DeleteChunksLeaves, InsertChunksLeaves,
   UpdateJobProgressLeaves, BlankStepLeaves DEF CallStep

\* The tables change only where the page is.
LEMMA CallRewrites ==
  ASSUME SearchInv, Unbounded, NEW w \in Syncs, CallStep(w)
  PROVE  Rewrites(call[w])
<1>1. CASE Upsert(w)
  <2>1. PICK m \in InPage(call[w]) : raw' = [raw EXCEPT ![m] = call[w].page[m]]
    BY <1>1 DEF Upsert, UpsertRawMessage
  <2>2. UNCHANGED <<docs, chunks>> /\ raw \in [Ids -> Bodies \cup {NoText}]
    BY <1>1 DEF Upsert, SearchInv, RisingInv, TypeInv, TypeOK, StoreTypeOK
  <2> QED BY <2>1, <2>2 DEF Rewrites
<1>2. CASE Save(w) \/ DeleteChunks(w) \/ InsertChunks(w)
  <2>1. call[w].pc \in Processing
    BY <1>2 DEF Save, DeleteChunks, InsertChunks, At, Processing
  <2>2. PICK c \in CallRow : c = call[w] /\ c.msg \in InPage(c) /\ c.msg \in Ids
    BY <2>1, ProcessingFacts
  <2>3. \A m \in Ids \ {c.msg} :
          raw'[m] = raw[m] /\ docs'[m] = docs[m] /\ chunks'[m] = chunks[m]
    <3>1. /\ docs \in [Ids -> DocRow]
          /\ chunks \in [Ids -> [1 .. MaxChunks -> Texts \cup {NoText}]]
      BY DEF SearchInv, RisingInv, TypeInv, TypeOK, StoreTypeOK
    <3>2. CASE Save(w)
      BY <2>2, <3>1, <3>2 DEF Save, SaveDocument
    <3>3. CASE DeleteChunks(w)
      BY <2>2, <3>1, <3>3 DEF DeleteChunks, DeleteChunksByDocumentID
    <3>4. CASE InsertChunks(w)
      BY <2>2, <3>1, <3>4 DEF InsertChunks, InsertChunk
    <3> QED BY <1>2, <3>2, <3>3, <3>4
  <2> QED BY <2>2, <2>3 DEF Rewrites
<1>3. CASE \/ CreateJob(w) \/ UpdateJobRunning(w) \/ Resolve(w) \/ FetchPage(w)
           \/ StopFetching(w) \/ FindCanonical(w)
  BY <1>3 DEF CreateJob, UpdateJobRunning, Resolve, FetchPage, StopFetching,
     FindCanonical, storeVars, Rewrites
<1>4. CASE \/ UpdateJobProgress(w) \/ UpdateJobTotal(w) \/ CompleteJob(w)
           \/ MarkSourceSyncSuccess(w) \/ CallFails(w) \/ FailJob(w)
           \/ MarkSourceSyncError(w)
  BY <1>4 DEF UpdateJobProgress, UpdateJobTotal, CompleteJob, MarkSourceSyncSuccess,
     CallFails, FailJob, MarkSourceSyncError, storeVars, Rewrites
<1> QED BY <1>1, <1>2, <1>3, <1>4 DEF CallStep

\* What a call has seen by the time it marks its source is searchable.
LEMMA MarkedIsSearchable ==
  ASSUME SearchInv, Unbounded, NEW w \in Syncs, MarkSourceSyncSuccess(w)
  PROVE  SearchableBelowWatermark'
<1>1. call[w].pc = "mark"
  BY DEF MarkSourceSyncSuccess, At
<1>2. PICK c \in CallRow : c = call[w] /\ CallShape(c) /\ Leaves(c)
  BY <1>1, LeavesFacts DEF Working
<1>3. InPage(c) = {} /\ c.next = 0
  BY <1>1, <1>2 DEF CallShape, Processing
<1>4. \A m \in Ids : m <= c.seen => Done(m)
  BY <1>1, <1>2, <1>3 DEF Leaves, Pending
<1>5. \A m \in Ids : m <= src.watermark => Done(m)
  BY DEF SearchInv, SearchableBelowWatermark, Done
<1>6. src'.watermark \in {src.watermark, c.seen} /\ UNCHANGED <<raw, docs, chunks>>
  BY <1>2 DEF MarkSourceSyncSuccess, storeVars
<1>7. \A m \in Ids : Done(m) => Done(m)'
  BY <1>6 DEF Done, Processed, FullyChunked, IsCanonical, IsDuplicate, HasDoc
<1>8. \A m \in Ids : m <= src'.watermark => Done(m)'
  BY <1>4, <1>5, <1>6, <1>7
<1> QED BY <1>8 DEF SearchableBelowWatermark, Done

LEMMA CallStaysSearchable ==
  ASSUME SearchInv, Unbounded, NEW w \in Syncs, CallStep(w)
  PROVE  SearchableBelowWatermark'
<1>1. CASE MarkSourceSyncSuccess(w)
  BY <1>1, MarkedIsSearchable
<1>2. CASE src'.watermark = src.watermark
  <2>1. call[w].pc \in Working
    BY DEF CallStep, CreateJob, UpdateJobRunning, Resolve, FetchPage,
       StopFetching, Upsert, FindCanonical, Save, DeleteChunks, InsertChunks,
       UpdateJobProgress, UpdateJobTotal, CompleteJob, MarkSourceSyncSuccess,
       CallFails, FailJob, MarkSourceSyncError, At, Working
  <2>2. PICK c \in CallRow : c = call[w] /\ Leaves(c)
    BY <2>1, LeavesFacts
  <2>3. Rewrites(c)
    BY <2>2, CallRewrites
  <2>4. ASSUME NEW m \in Ids, m <= src.watermark PROVE Done(m)'
    <3>1. PICK low \in 0 .. MaxId : low = src.watermark
      BY DEF SearchInv, RisingInv, TypeInv, TypeOK
    <3>2. m \notin InPage(c)
      BY <2>2, <2>4, <3>1, IdsFacts, StoreAssumption DEF Leaves
    <3>3. Done(m)
      BY <2>4 DEF SearchInv, SearchableBelowWatermark, Done
    <3> QED BY <2>3, <3>2, <3>3, OthersDone
  <2> QED BY <1>2, <2>4 DEF SearchableBelowWatermark, Done
<1> QED BY <1>1, <1>2, WatermarkWrites DEF SearchInv

\* What gets stored was on the page, and is still in the channel.
LEMMA CallStoresLive ==
  ASSUME SearchInv, NEW w \in Syncs, CallStep(w), NEW m \in Ids, Stored(m)'
  PROVE  Live(m)
<1>1. raw \in [Ids -> Bodies \cup {NoText}]
  BY DEF SearchInv, RisingInv, TypeInv, TypeOK, StoreTypeOK
<1>2. CASE Stored(m)
  BY <1>2 DEF SearchInv
<1>3. CASE ~Stored(m)
  <2>1. Upsert(w)
    BY <1>3, CallWrites DEF Stored
  <2>2. w \in Active
    BY <2>1 DEF Upsert, At, Active, Working
  <2>3. m \in InPage(call[w])
    BY <1>1, <1>3, <2>1 DEF Upsert, UpsertRawMessage, Stored
  <2> QED BY <2>2, <2>3 DEF SearchInv, RisingInv, Reaching
<1> QED BY <1>2, <1>3

LEMMA BeginLeaves ==
  ASSUME SearchInv, Incremental, NEW w \in Syncs, NEW f \in Resyncs, NEW l \in Limits,
         GetSource(w, f, l)
  PROVE  Leaves(call[w])'
<1>1. PICK low \in 0 .. MaxId : low = src.watermark
  BY DEF SearchInv, RisingInv, TypeInv, TypeOK
<1>2. f = FALSE
  BY DEF Incremental
<1>3. call'[w] = [Blank("createJob") EXCEPT !.min = low, !.limit = l]
  BY <1>1, <1>2 DEF GetSource, SearchInv, RisingInv, TypeInv, TypeOK
<1>4. PICK n : n = call'[w]
  OBVIOUS
<1>5. /\ n.pc = "createJob" /\ n.min = low /\ n.seen = 0 /\ n.page = EmptyPage
  BY <1>3, <1>4 DEF Blank
<1>6. InPage(n) = {} /\ n.pc \notin Processing
  BY <1>5 DEF InPage, EmptyPage, Processing
<1>7. \A m \in Ids : ~(m <= 0)
  BY IdsFacts
<1>8. Leaves(n)
  BY <1>1, <1>5, <1>6, <1>7 DEF Leaves, Halfway, Processing
<1>9. UNCHANGED <<raw, docs, chunks, src>>
  BY DEF GetSource, storeVars
<1>10. Leaves(n)'
  BY <1>8, <1>9, SameTablesLeave
<1> QED BY <1>4, <1>10

LEMMA SearchInvInit == Init => SearchInv
<1> SUFFICES ASSUME Init PROVE SearchInv
  OBVIOUS
<1>1. Active = {}
  BY DEF Init, Active, Blank, Working
<1>2. \A m \in Ids : raw[m] = NoText
  BY DEF Init, StoreInit
<1>3. \A m \in Ids : ~Stored(m) /\ Processed(m, raw[m])
  BY <1>2, StoreAssumption DEF Stored, Processed
<1> QED BY <1>1, <1>3, SyncInvInit, RisingInvInit DEF SearchInv, SearchableBelowWatermark

LEMMA SearchInvNext ==
  ASSUME Unbounded, OneAtATime, NoRemovals, Incremental, SearchInv, [Next]_vars
  PROVE  SearchInv'
<1>1. SyncInv' /\ RisingInv' /\ TypeInv /\ TypeInv' /\ AtMostOne'
  BY SyncInvNext, RisingInvNext DEF SearchInv, RisingInv
<1>2. \A m \in Ids : Live(m) => Live(m)'
  BY <1>1, LiveStays
<1>3. call \in [Syncs -> CallRow]
  BY <1>1 DEF TypeInv, TypeOK
<1>4. ASSUME UNCHANGED <<raw, docs, chunks, src>>, \A v \in Active' : Leaves(call[v])'
      PROVE  SearchInv'
  <2>1. \A m \in Ids : Stored(m)' => Live(m)'
    BY <1>2, <1>4 DEF SearchInv, Stored
  <2>2. \A m \in Ids : m <= src.watermark => Done(m)
    BY DEF SearchInv, SearchableBelowWatermark, Done
  <2>3. \A m \in Ids : Done(m) => Done(m)'
    BY <1>4 DEF Done, Processed, FullyChunked, IsCanonical, IsDuplicate, HasDoc
  <2>4. SearchableBelowWatermark'
    BY <1>4, <2>2, <2>3 DEF SearchableBelowWatermark, Done
  <2> QED BY <1>1, <1>4, <2>1, <2>4 DEF SearchInv
<1>5. ASSUME NEW v \in Active, UNCHANGED <<raw, docs, chunks, src>>, call'[v] = call[v]
      PROVE  Leaves(call[v])'
  <2>1. PICK c : c = call[v] /\ Leaves(c)
    BY DEF SearchInv
  <2>2. Leaves(c)'
    BY <1>5, <2>1, SameTablesLeave
  <2> QED BY <1>5, <2>1, <2>2
<1>6. ASSUME UNCHANGED <<raw, docs, chunks, src, call>> PROVE SearchInv'
  <2>1. Active' = Active
    BY <1>6 DEF Active
  <2> QED BY <1>4, <1>5, <1>6, <2>1
<1>7. ASSUME NEW w \in Syncs, NEW f \in Resyncs, NEW l \in Limits, GetSource(w, f, l)
      PROVE  SearchInv'
  <2>1. UNCHANGED <<raw, docs, chunks, src>>
    BY <1>7 DEF GetSource, storeVars
  <2>2. PICK n \in CallRow : call' = [call EXCEPT ![w] = n]
    BY <1>1, <1>7, GetSourceGood DEF GoodStep, CallMoves
  <2>3. ASSUME NEW v \in Active' PROVE Leaves(call[v])'
    <3>1. CASE v = w
      BY <1>7, <3>1, BeginLeaves
    <3>2. CASE v # w
      <4>1. v \in Active /\ call'[v] = call[v]
        BY <1>3, <2>2, <3>2 DEF Active
      <4> QED BY <1>5, <2>1, <4>1
    <3> QED BY <3>1, <3>2
  <2> QED BY <1>4, <2>1, <2>3
<1>8. ASSUME NEW w \in Syncs, CallStep(w) PROVE SearchInv'
  <2>1. GoodStep(w)
    BY <1>1, <1>8, CallStepGood
  <2>2. call[w].pc \in Working
    BY <1>8 DEF CallStep, CreateJob, UpdateJobRunning, Resolve, FetchPage,
       StopFetching, Upsert, FindCanonical, Save, DeleteChunks, InsertChunks,
       UpdateJobProgress, UpdateJobTotal, CompleteJob, MarkSourceSyncSuccess,
       CallFails, FailJob, MarkSourceSyncError, At, Working
  <2>3. PICK n \in CallRow : call' = [call EXCEPT ![w] = n]
    BY <2>1 DEF GoodStep, CallMoves
  <2>4. Leaves(call[w])'
    BY <1>8, CallLeaves
  <2>5. ASSUME NEW v \in Active' PROVE Leaves(call[v])'
    <3>1. v = w
      BY <1>3, <2>2, <2>3 DEF Active, SearchInv, RisingInv, AtMostOne
    <3> QED BY <2>4, <3>1
  <2>6. \A m \in Ids : Stored(m)' => Live(m)'
    BY <1>2, <1>8, CallStoresLive
  <2>7. SearchableBelowWatermark'
    BY <1>8, CallStaysSearchable
  <2> QED BY <1>1, <2>5, <2>6, <2>7 DEF SearchInv
<1>9. ASSUME NEW w \in Syncs, Crash(w) PROVE SearchInv'
  <2>1. UNCHANGED <<raw, docs, chunks, src>> /\ call' = [call EXCEPT ![w] = Blank("dead")]
    BY <1>9 DEF Crash, storeVars
  <2>2. call'[w].pc \notin Working
    BY <1>3, <2>1 DEF Blank, Working
  <2>3. ASSUME NEW v \in Active' PROVE Leaves(call[v])'
    <3>1. v \in Active /\ call'[v] = call[v]
      BY <1>3, <2>1, <2>2 DEF Active
    <3> QED BY <1>5, <2>1, <3>1
  <2> QED BY <1>4, <2>1, <2>3
<1>10. CASE ChannelStep
  BY <1>6, <1>10 DEF ChannelStep, Post, Edit, Remove, storeVars
<1>11. ASSUME NEW w \in Syncs, Cancel(w) PROVE SearchInv'
  BY <1>6, <1>11 DEF Cancel, storeVars
<1>12. CASE UNCHANGED vars
  BY <1>6, <1>12 DEF vars
<1> QED BY <1>7, <1>8, <1>9, <1>10, <1>11, <1>12 DEF Next

\* Whatever fails, is cancelled or dies between two statements of a sync, and
\* whatever is edited meanwhile: no message at or below last_message_id, where
\* incremental syncs never look again, is left stored without its document, or
\* with the chunks of a text it does not carry (trash has no document).
THEOREM BelowWatermarkIsSearchable ==
  ASSUME Unbounded, OneAtATime, NoRemovals, Incremental
  PROVE  Spec => []SearchableBelowWatermark
<1>1. SearchInv /\ [Next]_vars => SearchInv'
  BY SearchInvNext
<1>2. SearchInv => SearchableBelowWatermark
  BY DEF SearchInv
<1> QED BY <1>1, <1>2, SearchInvInit, PTL DEF Spec
=============================================================================
