--------------------------- MODULE HHTokens_proofs ---------------------------
(***************************************************************************)
(* Proofs about HHTokens, for any processes, calls, workers and faults: a  *)
(* pair of tokens is replaced once, and .env always lets the next process  *)
(* in.                                                                     *)
(***************************************************************************)
EXTENDS HHTokens, TLAPS

Holding == {"post", "answered", "save", "cut", "write", "conf"}
Fetched == Holding \ {"post"}
Unwritten == Fetched \ {"conf"}
Saving == {"cut", "write"}

\* Tokens HH has issued: an access token comes with the refresh token of its pair.
Known(t) == t.refresh <= hh.issued /\ t.access \in {Blank, t.refresh}

Numbered ==
  /\ \A c \in Calls : Known(manager[c])
  /\ \A p \in Processes : Known(conf[p])
  /\ Known(file.tokens)
  /\ \A w \in Workers : worker[w].got <= hh.issued /\ worker[w].sent <= hh.issued
  /\ hh.fresh \subseteq 1 .. hh.issued /\ hh.usable \subseteq 1 .. hh.issued
  /\ \A g \in unanswered \cup unsaved : g <= hh.issued
  /\ \A g \in Pairs : /\ hh.replacing[g] <= hh.issued
                      /\ g > hh.issued => /\ hh.replacing[g] = Blank
                                          /\ hh.by[g] = NoOne

\* HH takes exactly the refresh tokens of the pairs it has not replaced.
Replaced ==
  \A p \in 1 .. hh.issued :
    p \in hh.usable <=> \A g \in Pairs : hh.replacing[g] # p

\* A refresh runs under the lock of its manager, until it returns.
Locked ==
  \A w \in Workers :
    worker[w].pc \in Holding /\ CallOf[w] \notin Exchanges => lock[CallOf[w]] = w

\* A pair was answered to one worker.
Distinct ==
  \A w \in Workers : worker[w].pc \in Fetched =>
    /\ worker[w].got \in Pairs \ {1}
    /\ \A v \in Workers \ {w} :
         worker[v].pc \in Fetched => worker[v].got # worker[w].got

\* Until it is in .env, nobody but its manager has a pair, and HH takes it.
Private ==
  \A w \in Workers : worker[w].pc \in Unwritten =>
    /\ worker[w].got \in hh.usable
    /\ \A c \in Calls : manager[c].refresh = worker[w].got => c = CallOf[w]
    /\ \A p \in Processes : conf[p].refresh # worker[w].got
    /\ file.tokens.refresh # worker[w].got

\* What a worker read of .env before it writes it was whole.
ReadWhole ==
  torn \/ \A w \in Workers : worker[w].pc \in Saving => worker[w].read.settings

\* A refresh is for the token that failed, or for a manager that has none.
Failed ==
  \A w \in Workers :
    /\ worker[w].pc \in {"wait", "slot"} => worker[w].sent = Blank
    /\ worker[w].pc \in {"lock", "post"} => worker[w].sent \notin hh.fresh
    /\ worker[w].pc = "post" /\ CallOf[w] \notin Exchanges =>
         /\ manager[CallOf[w]].refresh # Blank
         /\ ~ AlreadyRefreshed(w)

\* A manager that still holds the pair it replaced has not seen the answer.
Own ==
  \A g \in Pairs :
    /\ hh.by[g] \in Calls =>
         \E w \in WorkersOf(hh.by[g]) : worker[w].pc # "wait"
    /\ /\ hh.by[g] \in Calls
       /\ hh.replacing[g] # Blank
       /\ manager[hh.by[g]].refresh = hh.replacing[g]
       => \/ g \in unanswered
          \/ \E w \in WorkersOf(hh.by[g]) : At(w, "answered") /\ worker[w].got = g

TokensInv ==
  /\ TypeOK /\ Numbered /\ Replaced /\ Locked /\ Distinct /\ Private /\ ReadWhole
  /\ Failed /\ Own /\ EnvFileLetsIn

-----------------------------------------------------------------------------
(***************************************************************************)
(* Types and steps of one worker.                                          *)
(***************************************************************************)
WorkRow == [pc: Steps, attempt: 1 .. MaxAttempts, sent: Pairs \cup {Blank},
            got: Pairs \cup {Blank}, read: EnvFile]

LEMMA ConstantFacts ==
  /\ MaxAttempts \in Nat \ {0} /\ MaxPairs \in Nat \ {0} /\ MaxFaults \in Nat
  /\ Pairs \subseteq Nat \ {0} /\ 1 \in Pairs
  /\ NoOne \notin Calls /\ NoOne \notin Workers
<1>1. MaxAttempts \in Nat \ {0} /\ MaxPairs \in Nat \ {0} /\ MaxFaults \in Nat
  BY TokensAssumption
<1>2. NoOne \notin Calls /\ NoOne \notin Workers
  BY TokensAssumption
<1>3. 1 .. MaxPairs \subseteq Nat \ {0} /\ 1 \in 1 .. MaxPairs
  BY <1>1
<1> QED  BY <1>1, <1>2, <1>3 DEF Pairs

LEMMA CallFacts ==
  ASSUME NEW w \in Workers
  PROVE  /\ CallOf[w] \in Calls /\ ProcessOf[CallOf[w]] \in Processes
         /\ w \in WorkersOf(CallOf[w])
  BY TokensAssumption DEF WorkersOf

LEMMA HHFacts ==
  ASSUME TypeOK
  PROVE  /\ hh.issued \in Pairs /\ hh.issued \in Nat
         /\ hh.fresh \subseteq Pairs /\ hh.usable \subseteq Pairs
         /\ hh.by \in [Pairs -> Calls \cup {NoOne}]
         /\ hh.replacing \in [Pairs -> Pairs \cup {Blank}]
         /\ \A c \in Calls : manager[c] \in Tokens
         /\ \A p \in Processes : conf[p] \in Tokens
         /\ file \in EnvFile /\ file.tokens \in Tokens
  BY ConstantFacts DEF TypeOK, EnvFile

LEMMA RowFacts ==
  ASSUME TypeOK, NEW w \in Workers
  PROVE  /\ worker[w] \in WorkRow
         /\ worker[w].got \in Pairs \cup {Blank} /\ worker[w].sent \in Pairs \cup {Blank}
         /\ worker[w].read \in EnvFile /\ worker[w].attempt \in 1 .. MaxAttempts
         /\ worker[w].got \in Nat /\ worker[w].sent \in Nat
<1>1. worker[w] \in WorkRow
  BY DEF TypeOK, WorkRow
<1>2. /\ worker[w].got \in Pairs \cup {Blank} /\ worker[w].sent \in Pairs \cup {Blank}
      /\ worker[w].read \in EnvFile /\ worker[w].attempt \in 1 .. MaxAttempts
  BY <1>1 DEF WorkRow
<1>3. Pairs \cup {Blank} \subseteq Nat
  BY ConstantFacts DEF Blank
<1> QED  BY <1>1, <1>2, <1>3

\* Worker w goes to pc; nobody else moves.
Moves(w, pc) ==
  /\ worker' \in [Workers -> WorkRow]
  /\ worker'[w].pc = pc
  /\ \A v \in Workers \ {w} : worker'[v] = worker[v]

LEMMA GoMoves ==
  ASSUME TypeOK, NEW w \in Workers, NEW pc \in Steps, Go(w, pc)
  PROVE  /\ Moves(w, pc)
         /\ worker'[w].got = worker[w].got /\ worker'[w].sent = worker[w].sent
         /\ worker'[w].read = worker[w].read
<1> DEFINE r == [worker[w] EXCEPT !.pc = pc]
<1>1. worker' = [worker EXCEPT ![w] = r] /\ worker \in [Workers -> WorkRow]
  BY DEF Go, TypeOK, WorkRow
<1>2. r \in WorkRow /\ r.pc = pc /\ r.got = worker[w].got /\ r.sent = worker[w].sent
      /\ r.read = worker[w].read
  BY RowFacts DEF WorkRow
<1> HIDE DEF r
<1> QED  BY <1>1, <1>2 DEF Moves

LEMMA TruncatedTyped ==
  NoTokens \in Tokens /\ Truncated \in EnvFile /\ NoWork \in WorkRow
  BY ConstantFacts DEF NoTokens, Tokens, Truncated, EnvFile, NoWork, WorkRow, Steps

LEMMA StopMoves ==
  ASSUME TypeOK, NEW w \in Workers, NEW pc \in Steps, Stop(w, pc)
  PROVE  Moves(w, pc) /\ worker'[w].got = Blank /\ worker'[w].sent = Blank
<1> DEFINE r == [NoWork EXCEPT !.pc = pc]
<1>1. worker' = [worker EXCEPT ![w] = r] /\ worker \in [Workers -> WorkRow]
  BY DEF Stop, TypeOK, WorkRow
<1>2. r \in WorkRow
  BY TruncatedTyped DEF WorkRow
<1>3. r.pc = pc /\ r.got = Blank /\ r.sent = Blank
  BY DEF NoWork
<1> HIDE DEF r
<1> QED  BY <1>1, <1>2, <1>3 DEF Moves

\* Where a worker goes when it leaves the manager or never had it.
Outside == Steps \ (Holding \cup {"wait"})

\* Worker w goes to pc outside of a refresh.
LeavesTo(w, pc) ==
  /\ Moves(w, pc)
  /\ worker'[w].got \in {Blank, worker[w].got}
  /\ worker'[w].sent \in {Blank, worker[w].sent, manager[CallOf[w]].access}
  /\ pc = "slot" => worker'[w].sent = Blank
  /\ pc = "lock" => worker'[w].sent \notin hh.fresh

Leaves(w) == \E pc \in Outside : LeavesTo(w, pc)

LEMMA StopLeaves ==
  ASSUME TypeOK, NEW w \in Workers, NEW pc \in Finished, Stop(w, pc)
  PROVE  Leaves(w)
<1>1. pc \in Outside /\ pc # "lock"
  BY DEF Outside, Finished, Steps, Holding
<1>2. Moves(w, pc) /\ worker'[w].got = Blank /\ worker'[w].sent = Blank
  BY <1>1, StopMoves DEF Outside
<1> QED  BY <1>1, <1>2 DEF Leaves, LeavesTo

LEMMA RetryLeaves ==
  ASSUME TypeOK, NEW w \in Workers, Retry(w)
  PROVE  Leaves(w)
<1>1. CASE Stop(w, "failed")
  BY <1>1, StopLeaves DEF Finished
<1>2. CASE /\ worker[w].attempt < MaxAttempts
           /\ worker' = [worker EXCEPT ![w].pc = "slot", ![w].attempt = @ + 1,
                                       ![w].sent = Blank]
  <2> DEFINE r == [worker[w] EXCEPT !.pc = "slot", !.attempt = worker[w].attempt + 1,
                                    !.sent = Blank]
  <2>1. worker' = [worker EXCEPT ![w] = r] /\ worker \in [Workers -> WorkRow]
    BY <1>2 DEF TypeOK, WorkRow
  <2>2. worker[w].attempt + 1 \in 1 .. MaxAttempts
    BY <1>2, RowFacts, ConstantFacts
  <2>3. r \in WorkRow /\ r.pc = "slot" /\ r.got = worker[w].got /\ r.sent = Blank
    BY <2>2, RowFacts DEF WorkRow, Steps
  <2> HIDE DEF r
  <2>4. Moves(w, "slot") /\ worker'[w].got = worker[w].got /\ worker'[w].sent = Blank
    BY <2>1, <2>3 DEF Moves
  <2> QED  BY <2>4 DEF Leaves, LeavesTo, Outside, Steps, Holding
<1> QED  BY <1>1, <1>2 DEF Retry

LEMMA CarryLeaves ==
  ASSUME TypeOK, NEW w \in Workers, Carry(w)
  PROVE  Leaves(w)
<1>1. CASE worker[w].sent = Blank /\ Go(w, "slot")
  <2>1. Moves(w, "slot") /\ worker'[w].got = worker[w].got
        /\ worker'[w].sent = worker[w].sent
    BY <1>1, GoMoves DEF Steps
  <2> QED  BY <1>1, <2>1 DEF Leaves, LeavesTo, Outside, Steps, Holding
<1> QED  BY <1>1, RetryLeaves DEF Carry

\* What the rest of the state looks like when w leaves: what it had got and not
\* written is counted as lost.
Lost(w) ==
  /\ lock' = lock \/ lock' = Released(w)
  /\ unanswered \subseteq unanswered' /\ unsaved \subseteq unsaved'
  /\ (unanswered' \cup unsaved') \ (unanswered \cup unsaved)
       \subseteq {g \in {worker[w].got} : worker[w].pc \in Unwritten}
  /\ worker[w].pc \in Unwritten => worker[w].got \in unanswered' \cup unsaved'
  /\ At(w, "answered") => worker[w].got \in unanswered'
  /\ torn => torn'
  /\ At(w, "write") => torn'
  /\ torn' \in BOOLEAN /\ faults' \in 0 .. MaxFaults
  /\ refused' \subseteq Calls \X (Pairs \cup {Blank})

\* An index of lock is given back.
LEMMA LockFacts ==
  ASSUME TypeOK, NEW w \in Workers, lock' = lock \/ lock' = Released(w)
  PROVE  /\ lock' \in [Calls -> Workers \cup {NoOne}]
         /\ \A v \in Workers \ {w} : lock[CallOf[v]] = v => lock'[CallOf[v]] = v
<1>1. lock \in [Calls -> Workers \cup {NoOne}]
  BY DEF TypeOK
<1>2. \A v \in Workers : CallOf[v] \in Calls
  BY CallFacts
<1> QED  BY <1>1, <1>2 DEF Released

-----------------------------------------------------------------------------
(***************************************************************************)
(* Leaving a refresh, with or without new tokens.                          *)
(***************************************************************************)
LEMMA UnwrittenFacts ==
  Unwritten \subseteq Fetched /\ Fetched \subseteq Holding /\ Saving \subseteq Unwritten
  /\ Outside \cap Holding = {} /\ "wait" \notin Outside
  BY DEF Unwritten, Fetched, Holding, Saving, Outside

LEMMA OnTheWayIs ==
  OnTheWay = {worker[w].got : w \in {v \in Workers : worker[v].pc \in Unwritten}}
<1>1. Unwritten = {"answered", "save", "cut", "write"}
  BY DEF Unwritten, Fetched, Holding
<1> QED  BY <1>1 DEF OnTheWay

\* The configuration of a process gets the pair that is in .env now.
ConfSet(w) ==
  /\ At(w, "conf")
  /\ conf' = [conf EXCEPT ![ProcessOf[CallOf[w]]] = Both(worker[w].got)]

LEMMA ConfFacts ==
  ASSUME TokensInv, NEW w \in Workers, UNCHANGED conf \/ ConfSet(w)
  PROVE  /\ conf' \in [Processes -> Tokens]
         /\ \A p \in Processes : \/ conf'[p] = conf[p]
                                 \/ /\ conf'[p] = Both(worker[w].got)
                                    /\ worker[w].pc = "conf"
<1>1. conf \in [Processes -> Tokens]
  BY DEF TokensInv, TypeOK
<1>2. CASE ConfSet(w)
  <2>1. worker[w].got \in Pairs
    BY <1>2 DEF TokensInv, Distinct, ConfSet, At, Fetched, Holding
  <2>2. Both(worker[w].got) \in Tokens
    BY <2>1 DEF Both, Tokens
  <2> QED  BY <1>1, <1>2, <2>2 DEF ConfSet, At
<1> QED  BY <1>1, <1>2

LEMMA LeaveTyped ==
  ASSUME TokensInv, NEW w \in Workers, Leaves(w), Lost(w),
         UNCHANGED conf \/ ConfSet(w),
         UNCHANGED <<coming, hh, file, manager, up, cancelled>>
  PROVE  TypeOK'
<1>1. worker' \in [Workers -> WorkRow]
  BY DEF Leaves, LeavesTo, Moves
<1>2. unanswered' \subseteq Pairs /\ unsaved' \subseteq Pairs
  <2>1. worker[w].pc \in Unwritten => worker[w].got \in Pairs
    BY UnwrittenFacts DEF TokensInv, Distinct
  <2> QED  BY <2>1 DEF TokensInv, TypeOK, Lost
<1>3. lock' \in [Calls -> Workers \cup {NoOne}]
  BY LockFacts DEF TokensInv, Lost
<1> QED  BY <1>1, <1>2, <1>3, ConfFacts DEF TokensInv, TypeOK, Lost, WorkRow

LEMMA LeaveNumbered ==
  ASSUME TokensInv, NEW w \in Workers, Leaves(w), Lost(w),
         UNCHANGED conf \/ ConfSet(w), UNCHANGED <<hh, file, manager>>
  PROVE  Numbered'
<1>1. PICK pc \in Outside : LeavesTo(w, pc)
  BY DEF Leaves
<1>2. hh.issued \in Nat /\ hh.issued >= 1
  BY HHFacts, ConstantFacts DEF TokensInv
<1>3. manager[CallOf[w]].access <= hh.issued
  <2>1. Known(manager[CallOf[w]])
    BY CallFacts DEF TokensInv, Numbered
  <2> QED  BY <2>1, <1>2 DEF Known, Blank
<1>4. \A v \in Workers : worker'[v].got <= hh.issued /\ worker'[v].sent <= hh.issued
  <2>1. Blank <= hh.issued
    BY <1>2 DEF Blank
  <2>2. \A v \in Workers : worker[v].got <= hh.issued /\ worker[v].sent <= hh.issued
    BY DEF TokensInv, Numbered
  <2> QED  BY <1>1, <1>3, <2>1, <2>2 DEF LeavesTo, Moves
<1>5. \A g \in unanswered' \cup unsaved' : g <= hh.issued
  BY DEF TokensInv, Numbered, Lost
<1>6. \A p \in Processes : Known(conf[p])'
  <2>1. Both(worker[w].got).refresh <= hh.issued
        /\ Both(worker[w].got).access = Both(worker[w].got).refresh
    BY DEF TokensInv, Numbered, Both
  <2> QED  BY <2>1, ConfFacts DEF TokensInv, Numbered, Known
<1> QED  BY <1>4, <1>5, <1>6 DEF TokensInv, Numbered, Known

LEMMA LeaveHolders ==
  ASSUME TokensInv, NEW w \in Workers, Leaves(w), Lost(w),
         UNCHANGED conf \/ ConfSet(w), UNCHANGED <<hh, file, manager>>
  PROVE  Locked' /\ Distinct' /\ Private' /\ ReadWhole' /\ Failed'
<1>1. PICK pc \in Outside : LeavesTo(w, pc)
  BY DEF Leaves
<1>2. /\ worker'[w].pc = pc /\ pc \notin Holding
      /\ \A v \in Workers \ {w} : worker'[v] = worker[v]
      /\ pc \notin Fetched /\ pc \notin Unwritten /\ pc \notin Saving
  BY <1>1, UnwrittenFacts DEF LeavesTo, Moves
<1>3. Locked'
  BY <1>2, LockFacts DEF TokensInv, Locked, Lost
<1>4. Distinct'
  BY <1>2 DEF TokensInv, Distinct
<1>5. Private'
  <2>1. ASSUME NEW v \in Workers, worker'[v].pc \in Unwritten
        PROVE  /\ v # w /\ worker'[v] = worker[v] /\ worker[v].pc \in Unwritten
               /\ \A p \in Processes : conf'[p].refresh # worker[v].got
    <3>1. v # w /\ worker'[v] = worker[v] /\ worker[v].pc \in Unwritten
      BY <1>2, <2>1
    <3>2. worker[w].pc = "conf" => Both(worker[w].got).refresh # worker[v].got
      BY <3>1, UnwrittenFacts DEF TokensInv, Distinct, Fetched, Holding, Both
    <3> QED  BY <3>1, <3>2, ConfFacts DEF TokensInv, Private
  <2> QED  BY <2>1 DEF TokensInv, Private
<1>6. ReadWhole'
  BY <1>2 DEF TokensInv, ReadWhole, Lost
<1>7. Failed'
  <2>1. pc # "post" /\ pc # "wait"
    BY <1>2 DEF Holding, Outside
  <2>2. /\ pc = "slot" => worker'[w].sent = Blank
        /\ pc = "lock" => worker'[w].sent \notin hh.fresh
    BY <1>1 DEF LeavesTo
  <2> QED  BY <1>2, <2>1, <2>2 DEF TokensInv, Failed, AlreadyRefreshed
<1> QED  BY <1>3, <1>4, <1>5, <1>6, <1>7

LEMMA LeaveOwn ==
  ASSUME TokensInv, NEW w \in Workers, Leaves(w), Lost(w), UNCHANGED <<hh, manager>>
  PROVE  Own'
<1>1. PICK pc \in Outside : LeavesTo(w, pc)
  BY DEF Leaves
<1>2. /\ worker'[w].pc = pc /\ pc # "wait" /\ pc # "answered"
      /\ \A v \in Workers \ {w} : worker'[v] = worker[v]
  BY <1>1, UnwrittenFacts DEF LeavesTo, Moves, Outside, Holding
<1>3. At(w, "answered") => worker[w].got \in unanswered'
  BY DEF Lost
<1>4. \A c \in Calls : WorkersOf(c) \subseteq Workers
  BY DEF WorkersOf
<1>5. ASSUME NEW g \in Pairs, hh.by[g] \in Calls
      PROVE  \E v \in WorkersOf(hh.by[g]) : worker'[v].pc # "wait"
  BY <1>2, <1>4, <1>5 DEF TokensInv, Own
<1>6. ASSUME NEW g \in Pairs, hh.by[g] \in Calls, hh.replacing[g] # Blank,
             manager[hh.by[g]].refresh = hh.replacing[g], g \notin unanswered'
      PROVE  \E v \in WorkersOf(hh.by[g]) :
               worker'[v].pc = "answered" /\ worker'[v].got = g
  <2>1. PICK v \in WorkersOf(hh.by[g]) : At(v, "answered") /\ worker[v].got = g
    BY <1>6 DEF TokensInv, Own, Lost
  <2>2. v # w
    BY <2>1, <1>3, <1>6
  <2> QED  BY <1>2, <1>4, <1>6, <2>1, <2>2 DEF At
<1> QED  BY <1>5, <1>6 DEF Own, WorkersOf, At

\* The pair that replaced the one in .env was on its way, and is lost now.
LEMMA LeaveFile ==
  ASSUME TokensInv, NEW w \in Workers, Leaves(w), Lost(w), UNCHANGED <<hh, file>>
  PROVE  EnvFileLetsIn'
<1>1. PICK pc \in Outside : LeavesTo(w, pc)
  BY DEF Leaves
<1>2. /\ worker'[w].pc = pc /\ pc \notin Holding
      /\ \A v \in Workers \ {w} : worker'[v] = worker[v]
  BY <1>1, UnwrittenFacts DEF LeavesTo, Moves
<1>3. CASE torn
  BY <1>3 DEF Lost, EnvFileLetsIn
<1>4. CASE \E v \in Workers : At(v, "write")
  BY <1>2, <1>4 DEF Lost, EnvFileLetsIn, At
<1>5. CASE file.settings /\ file.tokens.refresh \in hh.usable
  BY <1>5 DEF EnvFileLetsIn
<1>6. CASE /\ file.settings
           /\ \E g \in OnTheWay \cup unanswered \cup unsaved :
                hh.replacing[g] = file.tokens.refresh
  <2>1. PICK g \in OnTheWay \cup unanswered \cup unsaved :
               hh.replacing[g] = file.tokens.refresh
    BY <1>6
  <2>2. g \in OnTheWay' \cup unanswered' \cup unsaved'
    <3>1. CASE g \in unanswered \cup unsaved
      BY <3>1 DEF Lost
    <3>2. CASE g \in OnTheWay
      <4>1. PICK v \in Workers : worker[v].pc \in Unwritten /\ g = worker[v].got
        BY <3>2, OnTheWayIs
      <4>2. CASE v = w
        BY <4>1, <4>2 DEF Lost
      <4>3. CASE v # w
        <5>1. worker'[v].pc \in Unwritten /\ g = worker'[v].got
          BY <1>2, <4>1, <4>3
        <5>2. g \in OnTheWay'
          BY <5>1 DEF OnTheWay, Unwritten, Fetched, Holding
        <5> QED  BY <5>2
      <4> QED  BY <4>2, <4>3
    <3> QED  BY <2>1, <3>1, <3>2
  <2> QED  BY <1>6, <2>1, <2>2 DEF EnvFileLetsIn
<1> QED  BY <1>3, <1>4, <1>5, <1>6 DEF TokensInv, EnvFileLetsIn

LEMMA LeaveKeeps ==
  ASSUME TokensInv, NEW w \in Workers, Leaves(w), Lost(w),
         UNCHANGED conf \/ ConfSet(w),
         UNCHANGED <<coming, hh, file, manager, up, cancelled>>
  PROVE  TokensInv'
<1>1. Replaced'
  BY DEF TokensInv, Replaced
<1> QED
  BY <1>1, LeaveTyped, LeaveNumbered, LeaveHolders, LeaveOwn, LeaveFile DEF TokensInv

\* A worker that holds nothing and changes nothing but its place.
LEMMA NothingLost ==
  ASSUME TokensInv, NEW w \in Workers, worker[w].pc \notin Unwritten,
         UNCHANGED <<lock, lossVars, torn, refused>>, faults' \in 0 .. MaxFaults
  PROVE  Lost(w)
<1>1. worker[w].pc # "answered" /\ worker[w].pc # "write"
  BY DEF Unwritten, Fetched, Holding
<1> QED  BY <1>1 DEF Lost, lossVars, TokensInv, TypeOK, At

LEMMA FaultTyped ==
  ASSUME TypeOK, Fault \/ UNCHANGED faults
  PROVE  faults' \in 0 .. MaxFaults
  BY ConstantFacts DEF TypeOK, Fault

LEMMA SendKeeps ==
  ASSUME TokensInv, NEW w \in Workers, Send(w)
  PROVE  TokensInv'
<1>1. TypeOK /\ At(w, "slot") /\ worker[w].sent = Blank
  BY DEF TokensInv, Send, Failed, At
<1>2. Leaves(w)
  <2>1. CASE Stop(w, "failed")
    BY <1>1, <2>1, StopLeaves DEF Finished
  <2>2. CASE Go(w, "lock")
    <3>1. /\ Moves(w, "lock") /\ worker'[w].got = worker[w].got
          /\ worker'[w].sent = Blank
      BY <1>1, <2>2, GoMoves DEF Steps
    <3>2. Blank \notin hh.fresh
      BY <1>1, HHFacts, ConstantFacts DEF Blank
    <3> QED  BY <3>1, <3>2 DEF Leaves, LeavesTo, Outside, Steps, Holding
  <2>3. CASE worker' = [worker EXCEPT ![w].pc = "asked",
                                      ![w].sent = manager[CallOf[w]].access]
    <3> DEFINE a == manager[CallOf[w]].access
               r == [worker[w] EXCEPT !.pc = "asked", !.sent = a]
    <3>1. worker' = [worker EXCEPT ![w] = r] /\ worker \in [Workers -> WorkRow]
      BY <1>1, <2>3 DEF TypeOK, WorkRow
    <3>2. a \in Pairs \cup {Blank}
      BY <1>1, HHFacts, CallFacts DEF Tokens
    <3> HIDE DEF a
    <3>3. r \in WorkRow /\ r.pc = "asked" /\ r.got = worker[w].got /\ r.sent = a
      BY <1>1, <3>2, RowFacts DEF WorkRow, Steps
    <3> HIDE DEF r
    <3>4. Moves(w, "asked") /\ worker'[w].got = worker[w].got /\ worker'[w].sent = a
      BY <3>1, <3>3 DEF Moves
    <3> QED  BY <3>4 DEF Leaves, LeavesTo, Outside, Steps, Holding, a
  <2> QED  BY <2>1, <2>2, <2>3 DEF Send
<1>3. Lost(w)
  BY <1>1, NothingLost, FaultTyped DEF Send, At, Unwritten, Fetched, Holding, hhVars,
     fileVars
<1> QED  BY <1>2, <1>3, LeaveKeeps DEF Send, hhVars, fileVars

\* The answer of the API, and the wait for another attempt.
LEMMA AskedKeeps ==
  ASSUME TokensInv, NEW w \in Workers,
         Answered(w) \/ Unauthorised(w) \/ RequestFails(w)
  PROVE  TokensInv'
<1>1. TypeOK /\ At(w, "asked")
  BY DEF TokensInv, Answered, Unauthorised, RequestFails
<1>2. Leaves(w)
  <2>1. CASE Stop(w, "ok") \/ Stop(w, "failed")
    BY <1>1, <2>1, StopLeaves DEF Finished
  <2>2. CASE Retry(w)
    BY <1>1, <2>2, RetryLeaves
  <2>3. CASE worker[w].sent \notin hh.fresh /\ Go(w, "lock")
    <3>1. /\ Moves(w, "lock") /\ worker'[w].got = worker[w].got
          /\ worker'[w].sent = worker[w].sent
      BY <1>1, <2>3, GoMoves DEF Steps
    <3> QED  BY <2>3, <3>1 DEF Leaves, LeavesTo, Outside, Steps, Holding
  <2> QED  BY <2>1, <2>2, <2>3 DEF Answered, Unauthorised, RequestFails
<1>3. UNCHANGED <<coming, hhVars, fileVars, lossVars, conf, manager, lock, up, cancelled>>
      /\ (Fault \/ UNCHANGED faults)
  BY DEF Answered, Unauthorised, RequestFails
<1>4. Lost(w)
  BY <1>1, <1>3, NothingLost, FaultTyped DEF At, Unwritten, Fetched, Holding, hhVars,
     fileVars
<1> QED  BY <1>2, <1>3, <1>4, LeaveKeeps DEF hhVars, fileVars

\* refresh returns, with an error or after SetConf.
LEMMA RefuseKeeps ==
  ASSUME TokensInv, NEW w \in Workers, Refuse(w)
  PROVE  TokensInv'
<1>1. TypeOK /\ At(w, "post") /\ worker[w].pc \notin Unwritten
  BY DEF TokensInv, Refuse, At, Unwritten, Fetched
<1>2. Leaves(w)
  BY <1>1, StopLeaves DEF Refuse, ReturnError, Finished
<1>3. refused' \subseteq Calls \X (Pairs \cup {Blank})
  <2>1. CallOf[w] \in Calls /\ Used(w) \in Pairs \cup {Blank}
    BY <1>1, HHFacts, CallFacts DEF Used, Tokens
  <2> QED  BY <1>1, <2>1 DEF Refuse, TypeOK
<1>4. Lost(w)
  BY <1>1, <1>3 DEF Refuse, ReturnError, Lost, lossVars, fileVars, TypeOK, At
<1> QED  BY <1>2, <1>4, LeaveKeeps DEF Refuse, fileVars

LEMMA TokenRequestFailsKeeps ==
  ASSUME TokensInv, NEW w \in Workers, TokenRequestFails(w)
  PROVE  TokensInv'
<1>1. TypeOK /\ worker[w].pc \in {"post", "answered"}
  BY DEF TokensInv, TokenRequestFails
<1>2. Leaves(w)
  BY <1>1, StopLeaves DEF TokenRequestFails, ReturnError, Finished
<1>3. faults' \in 0 .. MaxFaults
  BY <1>1, FaultTyped DEF TokenRequestFails
<1>4. worker[w].pc \in Unwritten <=> At(w, "answered")
  BY <1>1 DEF At, Unwritten, Fetched, Holding
<1>5. Lost(w)
  BY <1>1, <1>3, <1>4 DEF TokenRequestFails, ReturnError, Lost, hhVars, fileVars,
     TypeOK, At
<1> QED  BY <1>2, <1>5, LeaveKeeps DEF TokenRequestFails, hhVars, fileVars

LEMMA SavingFailsKeeps ==
  ASSUME TokensInv, NEW w \in Workers, SaveCancelled(w) \/ EnvFails(w)
  PROVE  TokensInv'
<1>1. TypeOK /\ worker[w].pc \in {"save", "cut", "write"}
  BY DEF TokensInv, SaveCancelled, EnvFails, At
<1>2. Leaves(w)
  BY <1>1, StopLeaves DEF SaveCancelled, EnvFails, SavingFails, ReturnError, Finished
<1>3. faults' \in 0 .. MaxFaults
  BY <1>1, FaultTyped DEF SaveCancelled, EnvFails
<1>4. worker[w].pc \in Unwritten /\ ~ At(w, "answered")
  BY <1>1 DEF At, Unwritten, Fetched, Holding
<1>5. torn' \in BOOLEAN /\ (torn => torn') /\ (At(w, "write") => torn')
  BY <1>1 DEF SaveCancelled, EnvFails, fileVars, TypeOK, At
<1>6. Lost(w)
  BY <1>1, <1>3, <1>4, <1>5 DEF SaveCancelled, EnvFails, SavingFails, ReturnError,
     Lost, hhVars, TypeOK
<1> QED  BY <1>2, <1>6, LeaveKeeps DEF SaveCancelled, EnvFails, hhVars, fileVars

-----------------------------------------------------------------------------
(***************************************************************************)
(* Taking the lock, and the way of a pair from HH to .env.                 *)
(***************************************************************************)
LEMMA LockKeeps ==
  ASSUME TokensInv, NEW w \in Workers, Lock(w)
  PROVE  TokensInv'
<1> DEFINE c == CallOf[w]
<1>1. /\ TypeOK /\ worker[w].pc = "lock" /\ lock[c] = NoOne /\ c \in Calls
      /\ UNCHANGED <<coming, hhVars, fileVars, lossVars, conf, manager, up, cancelled,
                     faults>>
  BY CallFacts DEF TokensInv, Lock, At
<1>2. worker[w].pc \notin Holding /\ faults' \in 0 .. MaxFaults
  BY <1>1, FaultTyped DEF Holding
<1>3. CASE UNCHANGED lock /\ (Carry(w) \/ Stop(w, "failed"))
  <2>1. Leaves(w)
    BY <1>1, <1>3, CarryLeaves, StopLeaves DEF Finished
  <2>2. Lost(w)
    BY <1>1, <1>2, <1>3, NothingLost, UnwrittenFacts DEF hhVars, fileVars
  <2> QED  BY <1>1, <2>1, <2>2, LeaveKeeps DEF hhVars, fileVars
<1>4. CASE /\ ~ AlreadyRefreshed(w) /\ manager[c].refresh # Blank
           /\ Go(w, "post") /\ lock' = [lock EXCEPT ![c] = w]
  <2>1. /\ Moves(w, "post")
        /\ worker'[w].got = worker[w].got /\ worker'[w].sent = worker[w].sent
    BY <1>1, <1>4, GoMoves DEF Steps
  <2>2. /\ worker'[w].pc = "post" /\ worker' \in [Workers -> WorkRow]
        /\ \A v \in Workers \ {w} : worker'[v] = worker[v]
    BY <2>1 DEF Moves
  <2>3. "post" \notin Fetched /\ "post" \notin Unwritten /\ "post" \notin Saving
    BY DEF Unwritten, Fetched, Saving
  <2>4. TypeOK'
    BY <1>1, <1>2, <1>4, <2>2 DEF TypeOK, WorkRow, hhVars, fileVars, lossVars
  <2>5. Numbered'
    BY <1>1, <2>1, <2>2 DEF TokensInv, Numbered, Known, hhVars, fileVars, lossVars
  <2>6. Replaced'
    BY <1>1 DEF TokensInv, Replaced, hhVars
  <2>7. Locked'
    <3> SUFFICES ASSUME NEW v \in Workers, worker'[v].pc \in Holding,
                        CallOf[v] \notin Exchanges
                 PROVE  lock'[CallOf[v]] = v
      BY DEF Locked
    <3>1. lock \in [Calls -> Workers \cup {NoOne}] /\ CallOf[v] \in Calls
      BY <1>1, CallFacts DEF TypeOK
    <3>2. CASE v = w
      BY <1>1, <1>4, <3>1, <3>2
    <3>3. CASE v # w
      <4>1. lock[CallOf[v]] = v
        BY <2>2, <3>3 DEF TokensInv, Locked
      <4>2. CallOf[v] # c
        BY <1>1, <4>1, ConstantFacts
      <4> QED  BY <1>4, <3>1, <4>1, <4>2
    <3> QED  BY <3>2, <3>3
  <2>8. Distinct'
    BY <2>2, <2>3 DEF TokensInv, Distinct
  <2>9. Private'
    BY <1>1, <2>2, <2>3 DEF TokensInv, Private, hhVars, fileVars
  <2>10. ReadWhole'
    BY <1>1, <2>2, <2>3 DEF TokensInv, ReadWhole, fileVars
  <2>11. Failed'
    <3>1. ~ AlreadyRefreshed(w)'
      BY <1>1, <1>4, <2>1 DEF AlreadyRefreshed
    <3>2. \A v \in Workers \ {w} : AlreadyRefreshed(v)' <=> AlreadyRefreshed(v)
      BY <1>1, <2>2 DEF AlreadyRefreshed
    <3>3. worker'[w].sent \notin hh'.fresh
      BY <1>1, <2>1 DEF TokensInv, Failed, hhVars
    <3> QED  BY <1>1, <1>4, <2>2, <3>1, <3>2, <3>3 DEF TokensInv, Failed, hhVars
  <2>12. Own'
    <3>1. \A v \in Workers : /\ worker[v].pc # "wait" => worker'[v].pc # "wait"
                             /\ worker[v].pc = "answered" => worker'[v] = worker[v]
      BY <1>1, <2>2
    <3> QED
      BY <1>1, <3>1 DEF TokensInv, Own, WorkersOf, At, hhVars, lossVars
  <2>13. EnvFileLetsIn'
    <3>1. OnTheWay' = OnTheWay
      BY <1>1, <2>2 DEF OnTheWay
    <3>2. (\E v \in Workers : At(v, "write")) => (\E v \in Workers : At(v, "write"))'
      BY <1>1, <2>2 DEF At
    <3> QED
      BY <1>1, <3>1, <3>2 DEF TokensInv, EnvFileLetsIn, hhVars, fileVars, lossVars
  <2> QED
    BY <2>4, <2>5, <2>6, <2>7, <2>8, <2>9, <2>10, <2>11, <2>12, <2>13 DEF TokensInv
<1> QED  BY <1>1, <1>3, <1>4 DEF Lock

\* Worker w goes on with the pair it got.
GoesOn(w, pc) ==
  /\ worker[w].pc \in Unwritten /\ pc \in Unwritten \ {"answered"}
  /\ Moves(w, pc)
  /\ worker'[w].got = worker[w].got /\ worker'[w].sent = worker[w].sent

LEMMA GoesOnHolders ==
  ASSUME TokensInv, NEW w \in Workers, NEW pc \in Steps, GoesOn(w, pc), UNCHANGED hh
  PROVE  /\ UNCHANGED lock => Locked'
         /\ Distinct'
         /\ OnTheWay' = OnTheWay
         /\ Replaced'
         /\ \A v \in Workers : worker'[v].got = worker[v].got
                               /\ worker'[v].sent = worker[v].sent
         /\ \A v \in Workers : worker'[v].pc \in Unwritten <=> worker[v].pc \in Unwritten
         /\ \A v \in Workers : worker'[v].pc \in {"wait", "slot", "lock", "post"}
                               <=> worker[v].pc \in {"wait", "slot", "lock", "post"}
<1>1. /\ worker'[w].pc = pc /\ pc \in Unwritten /\ worker[w].pc \in Unwritten
      /\ worker'[w].got = worker[w].got /\ worker'[w].sent = worker[w].sent
      /\ \A v \in Workers \ {w} : worker'[v] = worker[v]
  BY DEF GoesOn, Moves
<1>2. \A v \in Workers : /\ worker'[v].got = worker[v].got
                         /\ worker'[v].sent = worker[v].sent
                         /\ worker'[v].pc \in Unwritten <=> worker[v].pc \in Unwritten
                         /\ worker'[v].pc \in Fetched <=> worker[v].pc \in Fetched
                         /\ worker'[v].pc \in Holding <=> worker[v].pc \in Holding
  BY <1>1, UnwrittenFacts
<1>3. UNCHANGED lock => Locked'
  BY <1>2 DEF TokensInv, Locked
<1>4. Distinct'
  BY <1>2 DEF TokensInv, Distinct
<1>5. OnTheWay' = OnTheWay
  <2>1. OnTheWay' = {worker'[v].got : v \in {x \in Workers : worker'[x].pc \in Unwritten}}
    <3>1. Unwritten = {"answered", "save", "cut", "write"}
      BY DEF Unwritten, Fetched, Holding
    <3> QED  BY <3>1 DEF OnTheWay
  <2>2. {x \in Workers : worker'[x].pc \in Unwritten}
          = {x \in Workers : worker[x].pc \in Unwritten}
    BY <1>2
  <2> QED  BY <1>2, <2>1, <2>2, OnTheWayIs
<1>6. Replaced'
  BY DEF TokensInv, Replaced
<1>7. \A v \in Workers : worker'[v].pc \in {"wait", "slot", "lock", "post"}
                         <=> worker[v].pc \in {"wait", "slot", "lock", "post"}
  <2>1. {"wait", "slot", "lock", "post"} \cap Unwritten = {}
    BY DEF Unwritten, Fetched, Holding
  <2> QED  BY <1>1, <2>1
<1> QED  BY <1>2, <1>3, <1>4, <1>5, <1>6, <1>7

\* The manager gets the pair: nobody else had it.
LEMMA ReceiveKeeps ==
  ASSUME TokensInv, NEW w \in Workers, Receive(w)
  PROVE  TokensInv'
<1> DEFINE c == CallOf[w]
           g == worker[w].got
<1>1. /\ TypeOK /\ worker[w].pc = "answered" /\ c \in Calls
      /\ UNCHANGED <<coming, hhVars, fileVars, lossVars, conf, lock, up, cancelled, faults>>
  BY CallFacts DEF TokensInv, Receive, At
<1>2. worker[w].pc \in Unwritten /\ worker[w].pc \in Fetched
      /\ "save" \in Unwritten \ {"answered"} /\ "save" \in Steps /\ "save" \notin Saving
  BY <1>1 DEF Unwritten, Fetched, Holding, Steps, Saving
<1>3. GoesOn(w, "save")
  BY <1>1, <1>2, GoMoves DEF Receive, GoesOn
<1>4. g \in Pairs \ {1} /\ g \in hh.usable /\ g <= hh.issued
  BY <1>2 DEF TokensInv, Distinct, Private, Numbered
<1>5. manager' = [manager EXCEPT ![c] = Both(g)] /\ manager \in [Calls -> Tokens]
      /\ Both(g) \in Tokens /\ Both(g).refresh = g /\ Both(g).access = g
  BY <1>1, <1>4 DEF Receive, TypeOK, Both, Tokens
<1>6. /\ \A d \in Calls : manager'[d] = IF d = c THEN Both(g) ELSE manager[d]
      /\ manager' \in [Calls -> Tokens]
  BY <1>5
<1>7. /\ worker' \in [Workers -> WorkRow] /\ worker'[w].pc = "save"
      /\ \A v \in Workers \ {w} : worker'[v] = worker[v]
  BY <1>3 DEF GoesOn, Moves
<1>8. /\ Locked' /\ Distinct' /\ OnTheWay' = OnTheWay /\ Replaced'
      /\ \A v \in Workers : /\ worker'[v].got = worker[v].got
                            /\ worker'[v].sent = worker[v].sent
                            /\ worker'[v].pc \in Unwritten <=> worker[v].pc \in Unwritten
                            /\ worker'[v].pc \in {"wait", "slot", "lock", "post"}
                               <=> worker[v].pc \in {"wait", "slot", "lock", "post"}
  BY <1>1, <1>2, <1>3, GoesOnHolders DEF hhVars
<1>9. TypeOK'
  BY <1>1, <1>6, <1>7 DEF TypeOK, WorkRow, hhVars, fileVars, lossVars
<1>10. Numbered'
  BY <1>1, <1>4, <1>5, <1>6, <1>8 DEF TokensInv, Numbered, Known, hhVars, fileVars, lossVars
<1>11. Private'
  <2> SUFFICES ASSUME NEW v \in Workers, worker'[v].pc \in Unwritten,
                      NEW d \in Calls, manager'[d].refresh = worker'[v].got
               PROVE  d = CallOf[v]
    BY <1>1, <1>8 DEF TokensInv, Private, hhVars, fileVars
  <2>1. worker[v].pc \in Unwritten /\ manager'[d].refresh = worker[v].got
    BY <1>8
  <2>2. CASE d = c
    <3>1. v = w
      BY <1>2, <1>5, <1>6, <2>1, <2>2, UnwrittenFacts DEF TokensInv, Distinct
    <3> QED  BY <2>2, <3>1
  <2>3. CASE d # c
    BY <1>6, <2>1, <2>3 DEF TokensInv, Private
  <2> QED  BY <2>2, <2>3
<1>12. ReadWhole'
  BY <1>1, <1>2, <1>7 DEF TokensInv, ReadWhole, fileVars
<1>13. Failed'
  <2>1. ASSUME NEW v \in Workers, worker'[v].pc = "post", CallOf[v] \notin Exchanges
        PROVE  manager'[CallOf[v]] = manager[CallOf[v]] /\ worker'[v] = worker[v]
    <3>1. v # w /\ worker[v].pc = "post" /\ worker'[v] = worker[v]
      BY <1>7, <2>1
    <3>2. lock[CallOf[v]] = v
      BY <2>1, <3>1 DEF TokensInv, Locked, Holding
    <3>3. CallOf[v] # c
      BY <1>2, <2>1, <3>1, <3>2, UnwrittenFacts DEF TokensInv, Locked
    <3> QED  BY <1>6, <3>1, <3>3, CallFacts
  <2>2. ASSUME NEW v \in Workers, worker'[v].pc \in {"wait", "slot", "lock", "post"}
        PROVE  worker'[v] = worker[v]
    BY <1>7, <2>2
  <2> QED
    BY <1>1, <2>1, <2>2 DEF TokensInv, Failed, AlreadyRefreshed, hhVars
<1>14. Own'
  <2>1. \A d \in Calls : \A v \in WorkersOf(d) : v \in Workers /\ CallOf[v] = d
    BY DEF WorkersOf
  <2>2. ASSUME NEW h \in Pairs, hh.by[h] \in Calls
        PROVE  \E v \in WorkersOf(hh.by[h]) : worker'[v].pc # "wait"
    BY <1>7, <2>1, <2>2 DEF TokensInv, Own
  <2>3. ASSUME NEW h \in Pairs, hh.by[h] \in Calls, hh.replacing[h] # Blank,
               manager'[hh.by[h]].refresh = hh.replacing[h], h \notin unanswered
        PROVE  \E v \in WorkersOf(hh.by[h]) :
                 worker'[v].pc = "answered" /\ worker'[v].got = h
    <3>1. hh.by[h] # c
      <4>1. hh.replacing[h] # g
        BY <1>4, HHFacts, ConstantFacts, <1>1 DEF TokensInv, Replaced
      <4> QED  BY <1>5, <1>6, <2>3, <4>1
    <3>2. PICK v \in WorkersOf(hh.by[h]) : At(v, "answered") /\ worker[v].got = h
      BY <1>6, <2>3, <3>1 DEF TokensInv, Own
    <3>3. v # w
      BY <2>1, <2>3, <3>1, <3>2
    <3> QED  BY <1>7, <2>1, <2>3, <3>2, <3>3 DEF At
  <2> QED  BY <1>1, <2>2, <2>3 DEF Own, WorkersOf, At, hhVars, lossVars
<1>15. EnvFileLetsIn'
  <2>1. (\E v \in Workers : At(v, "write")) => (\E v \in Workers : At(v, "write"))'
    BY <1>1, <1>7 DEF At
  <2> QED
    BY <1>1, <1>8, <2>1 DEF TokensInv, EnvFileLetsIn, hhVars, fileVars, lossVars
<1> QED
  BY <1>8, <1>9, <1>10, <1>11, <1>12, <1>13, <1>14, <1>15 DEF TokensInv

\* A step of the saving that leaves the managers alone.
LEMMA SavingHolders ==
  ASSUME TokensInv, NEW w \in Workers, NEW pc \in Steps, GoesOn(w, pc),
         worker[w].pc # "answered",
         UNCHANGED <<hhVars, lossVars, conf, manager, lock>>,
         file' = file \/ file' = Truncated
  PROVE  /\ worker' \in [Workers -> WorkRow] /\ worker'[w].pc = pc
         /\ \A v \in Workers \ {w} : worker'[v] = worker[v]
         /\ Numbered' /\ Replaced' /\ Locked' /\ Distinct' /\ Private' /\ Failed' /\ Own'
         /\ OnTheWay' = OnTheWay
<1>1. /\ worker' \in [Workers -> WorkRow] /\ worker'[w].pc = pc
      /\ \A v \in Workers \ {w} : worker'[v] = worker[v]
      /\ pc # "wait" /\ pc # "post"
  BY DEF GoesOn, Moves, Unwritten, Fetched, Holding
<1>2. /\ Locked' /\ Distinct' /\ OnTheWay' = OnTheWay /\ Replaced'
      /\ \A v \in Workers : /\ worker'[v].got = worker[v].got
                            /\ worker'[v].sent = worker[v].sent
                            /\ worker'[v].pc \in Unwritten <=> worker[v].pc \in Unwritten
                            /\ worker'[v].pc \in {"wait", "slot", "lock", "post"}
                               <=> worker[v].pc \in {"wait", "slot", "lock", "post"}
  BY GoesOnHolders DEF hhVars
<1>3. Truncated.tokens.refresh = Blank /\ Truncated.tokens.access = Blank
  BY DEF Truncated, NoTokens
<1>4. Numbered'
  <2>1. Blank <= hh.issued
    BY HHFacts, ConstantFacts DEF TokensInv, Blank
  <2>2. Known(file.tokens)'
    BY <1>3, <2>1 DEF TokensInv, Numbered, Known, hhVars
  <2> QED
    BY <1>2, <2>2 DEF TokensInv, Numbered, Known, hhVars, lossVars
<1>5. Private'
  <2>1. \A v \in Workers : worker[v].pc \in Unwritten => worker[v].got # Blank
    BY UnwrittenFacts, ConstantFacts DEF TokensInv, Distinct, Blank
  <2>2. \A v \in Workers : worker[v].pc \in Unwritten =>
          file'.tokens.refresh # worker[v].got
    BY <1>3, <2>1 DEF TokensInv, Private
  <2> QED  BY <1>2, <2>2 DEF TokensInv, Private, hhVars
<1>6. Failed'
  <2>1. \A v \in Workers : worker'[v].pc \in {"wait", "slot", "lock", "post"} =>
          worker'[v] = worker[v]
    <3>1. pc \notin {"wait", "slot", "lock", "post"}
      BY DEF GoesOn, Unwritten, Fetched, Holding
    <3> QED  BY <1>1, <3>1
  <2> QED  BY <2>1 DEF TokensInv, Failed, AlreadyRefreshed, hhVars
<1>7. Own'
  <2>1. \A v \in Workers : /\ worker[v].pc # "wait" => worker'[v].pc # "wait"
                           /\ worker[v].pc = "answered" => worker'[v] = worker[v]
    BY <1>1
  <2> QED  BY <2>1 DEF TokensInv, Own, WorkersOf, At, hhVars, lossVars
<1> QED  BY <1>1, <1>2, <1>4, <1>5, <1>6, <1>7

LEMMA ReadEnvKeeps ==
  ASSUME TokensInv, NEW w \in Workers, ReadEnv(w)
  PROVE  TokensInv'
<1> DEFINE r == [worker[w] EXCEPT !.pc = "cut", !.read = file]
<1>1. /\ TypeOK /\ worker[w].pc = "save"
      /\ UNCHANGED <<coming, hhVars, file, lossVars, conf, manager, lock, up, cancelled,
                     faults>>
  BY DEF TokensInv, ReadEnv, At
<1>2. worker' = [worker EXCEPT ![w] = r] /\ worker \in [Workers -> WorkRow]
  BY <1>1 DEF ReadEnv, TypeOK, WorkRow
<1>3. r \in WorkRow /\ r.pc = "cut" /\ r.got = worker[w].got /\ r.sent = worker[w].sent
      /\ r.read = file
  BY <1>1, RowFacts, HHFacts DEF WorkRow, Steps
<1> HIDE DEF r
<1>4. GoesOn(w, "cut") /\ worker'[w].read = file /\ "cut" \in Steps
  BY <1>1, <1>2, <1>3 DEF GoesOn, Moves, Unwritten, Fetched, Holding, Steps
<1>5. /\ worker' \in [Workers -> WorkRow] /\ worker'[w].pc = "cut"
      /\ \A v \in Workers \ {w} : worker'[v] = worker[v]
      /\ Numbered' /\ Replaced' /\ Locked' /\ Distinct' /\ Private' /\ Failed' /\ Own'
      /\ OnTheWay' = OnTheWay
  BY <1>1, <1>4, SavingHolders
<1>6. torn' = (torn \/ \E v \in Workers : At(v, "write"))
  BY DEF ReadEnv
<1>7. TypeOK'
  <2>1. torn' \in BOOLEAN
    BY <1>6
  <2> QED  BY <1>1, <1>5, <2>1 DEF TypeOK, WorkRow, hhVars, lossVars
<1>8. ReadWhole'
  <2>1. ~ torn' => file.settings
    BY <1>6 DEF TokensInv, EnvFileLetsIn
  <2> QED  BY <1>4, <1>5, <1>6, <2>1 DEF TokensInv, ReadWhole
<1>9. EnvFileLetsIn'
  BY <1>1, <1>5, <1>6 DEF TokensInv, EnvFileLetsIn, hhVars, lossVars
<1> QED  BY <1>5, <1>7, <1>8, <1>9 DEF TokensInv

LEMMA TruncateEnvKeeps ==
  ASSUME TokensInv, NEW w \in Workers, TruncateEnv(w)
  PROVE  TokensInv'
<1>1. /\ TypeOK /\ worker[w].pc = "cut" /\ file' = Truncated
      /\ UNCHANGED <<coming, hhVars, torn, lossVars, conf, manager, lock, up, cancelled,
                     faults>>
  BY DEF TokensInv, TruncateEnv, At
<1>2. GoesOn(w, "write") /\ worker'[w].read = worker[w].read /\ "write" \in Steps
  BY <1>1, GoMoves DEF TruncateEnv, GoesOn, Unwritten, Fetched, Holding, Steps
<1>3. /\ worker' \in [Workers -> WorkRow] /\ worker'[w].pc = "write"
      /\ \A v \in Workers \ {w} : worker'[v] = worker[v]
      /\ Numbered' /\ Replaced' /\ Locked' /\ Distinct' /\ Private' /\ Failed' /\ Own'
  BY <1>1, <1>2, SavingHolders
<1>4. TypeOK'
  BY <1>1, <1>3, TruncatedTyped DEF TypeOK, WorkRow, hhVars, lossVars
<1>5. ReadWhole'
  BY <1>1, <1>2, <1>3 DEF TokensInv, ReadWhole, Saving
<1>6. EnvFileLetsIn'
  BY <1>3 DEF EnvFileLetsIn, At
<1> QED  BY <1>3, <1>4, <1>5, <1>6 DEF TokensInv

\* The newer pair replaces the one in .env, or an unrelated one of a manager
\* that HH still lets in.
LEMMA WriteEnvKeeps ==
  ASSUME TokensInv, NEW w \in Workers, WriteEnv(w)
  PROVE  TokensInv'
<1> DEFINE g == worker[w].got
           r == [worker[w] EXCEPT !.pc = "conf", !.read = Truncated]
<1>1. /\ TypeOK /\ worker[w].pc = "write"
      /\ UNCHANGED <<coming, hhVars, torn, lossVars, conf, manager, lock, up, cancelled,
                     faults>>
  BY DEF TokensInv, WriteEnv, At
<1>2. worker[w].pc \in Unwritten /\ worker[w].pc \in Fetched /\ worker[w].pc \in Holding
      /\ worker[w].pc \in Saving
  BY <1>1 DEF Unwritten, Fetched, Holding, Saving
<1>3. g \in Pairs \ {1} /\ g \in hh.usable /\ g <= hh.issued
  BY <1>2 DEF TokensInv, Distinct, Private, Numbered
<1>4. /\ file' \in EnvFile /\ file'.settings = worker[w].read.settings
      /\ file'.tokens.refresh = g /\ file'.tokens.access = g
  <2>1. file' = [worker[w].read EXCEPT !.tokens = Both(g)]
    BY DEF WriteEnv
  <2>2. Both(g) \in Tokens /\ Both(g).refresh = g /\ Both(g).access = g
    BY <1>3 DEF Both, Tokens
  <2>3. worker[w].read \in EnvFile
    BY <1>1, RowFacts
  <2> HIDE DEF g
  <2> QED  BY <2>1, <2>2, <2>3 DEF EnvFile
<1>5. worker' = [worker EXCEPT ![w] = r] /\ worker \in [Workers -> WorkRow]
  BY <1>1 DEF WriteEnv, TypeOK, WorkRow
<1>6. r \in WorkRow /\ r.pc = "conf" /\ r.got = g /\ r.sent = worker[w].sent
  BY <1>1, RowFacts, TruncatedTyped DEF WorkRow, Steps
<1> HIDE DEF r
<1>7. /\ worker' \in [Workers -> WorkRow]
      /\ worker'[w].pc = "conf" /\ worker'[w].got = g /\ worker'[w].sent = worker[w].sent
      /\ \A v \in Workers \ {w} : worker'[v] = worker[v]
  BY <1>5, <1>6
<1>8. "conf" \in Fetched /\ "conf" \in Holding /\ "conf" \notin Unwritten
      /\ "conf" \notin Saving
  BY DEF Unwritten, Fetched, Holding, Saving
<1>9. TypeOK'
  BY <1>1, <1>4, <1>7 DEF TypeOK, WorkRow, hhVars, lossVars
<1>10. Numbered'
  <2>1. Known(file.tokens)'
    BY <1>1, <1>3, <1>4 DEF Known, hhVars
  <2> QED  BY <1>1, <1>7, <2>1 DEF TokensInv, Numbered, Known, hhVars, lossVars
<1>11. Replaced'
  BY <1>1 DEF TokensInv, Replaced, hhVars
<1>12. Locked'
  BY <1>1, <1>2, <1>7 DEF TokensInv, Locked
<1>13. Distinct'
  BY <1>2, <1>7, <1>8 DEF TokensInv, Distinct
<1>14. Private'
  <2>1. ASSUME NEW v \in Workers, worker'[v].pc \in Unwritten
        PROVE  v # w /\ worker'[v] = worker[v] /\ worker[v].got # g
    <3>1. v # w /\ worker'[v] = worker[v] /\ worker[v].pc \in Fetched
      BY <1>7, <1>8, <2>1, UnwrittenFacts
    <3> QED  BY <1>2, <3>1 DEF TokensInv, Distinct
  <2> QED  BY <1>1, <1>4, <2>1 DEF TokensInv, Private, hhVars
<1>15. ReadWhole'
  BY <1>1, <1>7, <1>8 DEF TokensInv, ReadWhole
<1>16. Failed'
  BY <1>1, <1>7 DEF TokensInv, Failed, AlreadyRefreshed, hhVars
<1>17. Own'
  <2>1. \A v \in Workers : /\ worker[v].pc # "wait" => worker'[v].pc # "wait"
                           /\ worker[v].pc = "answered" => worker'[v] = worker[v]
    BY <1>1, <1>7
  <2> QED  BY <1>1, <2>1 DEF TokensInv, Own, WorkersOf, At, hhVars, lossVars
<1>18. EnvFileLetsIn'
  <2>1. torn \/ worker[w].read.settings
    BY <1>2 DEF TokensInv, ReadWhole
  <2> QED  BY <1>1, <1>3, <1>4, <2>1 DEF EnvFileLetsIn, hhVars
<1> QED
  BY <1>9, <1>10, <1>11, <1>12, <1>13, <1>14, <1>15, <1>16, <1>17, <1>18 DEF TokensInv

LEMMA SetConfKeeps ==
  ASSUME TokensInv, NEW w \in Workers, SetConf(w)
  PROVE  TokensInv'
<1>1. /\ TypeOK /\ worker[w].pc = "conf" /\ ConfSet(w)
      /\ UNCHANGED <<coming, hhVars, fileVars, lossVars, manager, up, cancelled, faults>>
  BY DEF TokensInv, SetConf, At, ConfSet
<1>2. Leaves(w)
  BY <1>1, StopLeaves, CarryLeaves DEF SetConf, Finished
<1>3. worker[w].pc \notin Unwritten
  BY <1>1 DEF Unwritten
<1>4. Lost(w)
  BY <1>1, <1>3 DEF SetConf, Lost, hhVars, fileVars, lossVars, TypeOK, At
<1> QED  BY <1>1, <1>2, <1>4, LeaveKeeps DEF hhVars, fileVars

-----------------------------------------------------------------------------
(***************************************************************************)
(* A new pair, a call that starts, and the world.                          *)
(***************************************************************************)
\* The refresh token that is used is nobody's latest: its call holds the lock.
LEMMA UsedFacts ==
  ASSUME TokensInv, NEW w \in Workers, worker[w].pc = "post"
  PROVE  /\ Used(w) \in Pairs \cup {Blank} /\ Used(w) <= hh.issued
         /\ \A v \in Workers : worker[v].pc \in Unwritten => worker[v].got # Used(w)
<1>1. CallOf[w] \in Calls /\ TypeOK
  BY CallFacts DEF TokensInv
<1>2. manager[CallOf[w]].refresh \in Pairs \cup {Blank}
      /\ manager[CallOf[w]].refresh <= hh.issued
  BY <1>1, HHFacts DEF TokensInv, Numbered, Known, Tokens
<1>3. Blank <= hh.issued
  BY <1>1, HHFacts, ConstantFacts DEF Blank
<1>4. ASSUME NEW v \in Workers, worker[v].pc \in Unwritten, worker[v].got = Used(w)
      PROVE  FALSE
  <2>1. worker[v].got \in Pairs /\ worker[v].got # Blank
    BY <1>4, UnwrittenFacts, ConstantFacts DEF TokensInv, Distinct, Blank
  <2>2. CallOf[w] \notin Exchanges /\ manager[CallOf[w]].refresh = worker[v].got
    BY <1>4, <2>1 DEF Used
  <2>3. CallOf[w] = CallOf[v]
    BY <1>1, <1>4, <2>2 DEF TokensInv, Private
  <2>4. lock[CallOf[w]] = w /\ lock[CallOf[w]] = v
    BY <1>4, <2>2, <2>3, UnwrittenFacts DEF TokensInv, Locked, Holding
  <2>5. "post" \notin Unwritten
    BY DEF Unwritten, Fetched
  <2> QED  BY <1>4, <2>4, <2>5
<1> QED  BY <1>2, <1>3, <1>4 DEF Used

LEMMA GrantFacts ==
  ASSUME TokensInv, NEW w \in Workers, Grant(w)
  PROVE  LET n == hh.issued + 1 IN
         /\ n \in Pairs \ {1} /\ n \notin 1 .. hh.issued
         /\ hh'.issued = n
         /\ hh'.fresh = (hh.fresh \ {Used(w)}) \cup {n}
         /\ hh'.usable = (hh.usable \ {Used(w)}) \cup {n}
         /\ \A h \in Pairs :
              /\ hh'.by[h] = IF h = n THEN CallOf[w] ELSE hh.by[h]
              /\ hh'.replacing[h] = IF h = n THEN Used(w) ELSE hh.replacing[h]
         /\ hh' \in [issued: Pairs, fresh: SUBSET Pairs, usable: SUBSET Pairs,
                     by: [Pairs -> Calls \cup {NoOne}],
                     replacing: [Pairs -> Pairs \cup {Blank}]]
         /\ worker' \in [Workers -> WorkRow]
         /\ worker'[w].pc = "answered" /\ worker'[w].got = n
         /\ worker'[w].sent = worker[w].sent
         /\ \A v \in Workers \ {w} : worker'[v] = worker[v]
         /\ UNCHANGED <<coming, refused, fileVars, lossVars, conf, manager, lock, up,
                        cancelled, faults>>
<1> DEFINE n == hh.issued + 1
           r == [worker[w] EXCEPT !.pc = "answered", !.got = n]
<1>1. TypeOK /\ worker[w].pc = "post" /\ hh.issued < MaxPairs
  BY DEF TokensInv, Grant, At
<1>2. n \in Pairs \ {1} /\ n \notin 1 .. hh.issued
  <2>1. hh.issued \in 1 .. MaxPairs /\ MaxPairs \in Nat
    BY <1>1, HHFacts, ConstantFacts DEF Pairs
  <2> QED  BY <1>1, <2>1 DEF Pairs
<1>3. hh' = [hh EXCEPT !.issued = n,
                       !.fresh = (hh.fresh \ {Used(w)}) \cup {n},
                       !.usable = (hh.usable \ {Used(w)}) \cup {n},
                       !.by = [hh.by EXCEPT ![n] = CallOf[w]],
                       !.replacing = [hh.replacing EXCEPT ![n] = Used(w)]]
  BY DEF Grant
<1>4. worker' = [worker EXCEPT ![w] = r] /\ worker \in [Workers -> WorkRow]
  BY <1>1 DEF Grant, TypeOK, WorkRow
<1> HIDE DEF n
<1>5. hh \in [issued: Pairs, fresh: SUBSET Pairs, usable: SUBSET Pairs,
              by: [Pairs -> Calls \cup {NoOne}],
              replacing: [Pairs -> Pairs \cup {Blank}]]
      /\ CallOf[w] \in Calls /\ Used(w) \in Pairs \cup {Blank}
  BY <1>1, UsedFacts, CallFacts DEF TypeOK
<1>6. /\ hh'.issued = n
      /\ hh'.fresh = (hh.fresh \ {Used(w)}) \cup {n}
      /\ hh'.usable = (hh.usable \ {Used(w)}) \cup {n}
      /\ hh'.by = [hh.by EXCEPT ![n] = CallOf[w]]
      /\ hh'.replacing = [hh.replacing EXCEPT ![n] = Used(w)]
  BY <1>3, <1>5
<1>7. hh' \in [issued: Pairs, fresh: SUBSET Pairs, usable: SUBSET Pairs,
               by: [Pairs -> Calls \cup {NoOne}],
               replacing: [Pairs -> Pairs \cup {Blank}]]
  <2>1. /\ (hh.fresh \ {Used(w)}) \cup {n} \in SUBSET Pairs
        /\ (hh.usable \ {Used(w)}) \cup {n} \in SUBSET Pairs
        /\ [hh.by EXCEPT ![n] = CallOf[w]] \in [Pairs -> Calls \cup {NoOne}]
        /\ [hh.replacing EXCEPT ![n] = Used(w)] \in [Pairs -> Pairs \cup {Blank}]
    BY <1>2, <1>5
  <2> QED  BY <1>2, <1>3, <1>5, <2>1
<1>8. \A h \in Pairs :
        /\ hh'.by[h] = IF h = n THEN CallOf[w] ELSE hh.by[h]
        /\ hh'.replacing[h] = IF h = n THEN Used(w) ELSE hh.replacing[h]
  BY <1>5, <1>6
<1>9. r \in WorkRow /\ r.pc = "answered" /\ r.got = n /\ r.sent = worker[w].sent
  BY <1>1, <1>2, RowFacts DEF WorkRow, Steps
<1> HIDE DEF r
<1>10. UNCHANGED <<coming, refused, fileVars, lossVars, conf, manager, lock, up,
                   cancelled, faults>>
  BY DEF Grant
<1> QED  BY <1>2, <1>4, <1>6, <1>7, <1>8, <1>9, <1>10 DEF n

LEMMA GrantKeeps ==
  ASSUME TokensInv, NEW w \in Workers, Grant(w)
  PROVE  TokensInv'
<1> DEFINE n == hh.issued + 1
           u == Used(w)
<1>1. TypeOK /\ worker[w].pc = "post"
  BY DEF TokensInv, Grant, At
<1>2. /\ n \in Pairs \ {1} /\ n \notin 1 .. hh.issued /\ hh'.issued = n
      /\ hh'.fresh = (hh.fresh \ {u}) \cup {n} /\ hh'.usable = (hh.usable \ {u}) \cup {n}
      /\ \A h \in Pairs :
           /\ hh'.by[h] = IF h = n THEN CallOf[w] ELSE hh.by[h]
           /\ hh'.replacing[h] = IF h = n THEN u ELSE hh.replacing[h]
      /\ hh' \in [issued: Pairs, fresh: SUBSET Pairs, usable: SUBSET Pairs,
                  by: [Pairs -> Calls \cup {NoOne}],
                  replacing: [Pairs -> Pairs \cup {Blank}]]
      /\ worker' \in [Workers -> WorkRow]
      /\ worker'[w].pc = "answered" /\ worker'[w].got = n
      /\ worker'[w].sent = worker[w].sent
      /\ \A v \in Workers \ {w} : worker'[v] = worker[v]
      /\ UNCHANGED <<coming, refused, fileVars, lossVars, conf, manager, lock, up,
                     cancelled, faults>>
  BY GrantFacts
<1>3. /\ u \in Pairs \cup {Blank} /\ u <= hh.issued
      /\ \A v \in Workers : worker[v].pc \in Unwritten => worker[v].got # u
  BY <1>1, UsedFacts
<1>4. hh.issued \in Nat /\ n \in Nat /\ n > hh.issued /\ n # Blank /\ CallOf[w] \in Calls
      /\ n = hh.issued + 1
  BY <1>1, HHFacts, ConstantFacts, CallFacts DEF Blank
<1> HIDE DEF n, u
<1>5. "answered" \in Holding /\ "answered" \in Fetched /\ "answered" \in Unwritten
      /\ "answered" \notin Saving /\ "post" \in Holding /\ "post" \notin Fetched
      /\ "post" \notin Unwritten
  BY DEF Holding, Fetched, Unwritten, Saving
<1>6. TypeOK'
  BY <1>1, <1>2 DEF TypeOK, WorkRow, fileVars, lossVars
<1>7. Numbered'
  <2>1. \A t \in Tokens : Known(t) => t.refresh <= n /\ t.access \in {Blank, t.refresh}
    <3>1. \A t \in Tokens : t.refresh \in Nat
      <4>1. Pairs \cup {Blank} \subseteq Nat
        BY ConstantFacts DEF Blank
      <4> QED  BY <4>1 DEF Tokens
    <3> QED  BY <1>4, <3>1 DEF Known
  <2>2. /\ \A c \in Calls : Known(manager[c])'
        /\ \A p \in Processes : Known(conf[p])'
        /\ Known(file.tokens)'
    <3>1. /\ \A c \in Calls : manager[c] \in Tokens /\ Known(manager[c])
          /\ \A p \in Processes : conf[p] \in Tokens /\ Known(conf[p])
          /\ file.tokens \in Tokens /\ Known(file.tokens)
      BY <1>1, HHFacts DEF TokensInv, Numbered
    <3>2. /\ \A c \in Calls : /\ manager[c].refresh <= n
                              /\ manager[c].access \in {Blank, manager[c].refresh}
          /\ \A p \in Processes : /\ conf[p].refresh <= n
                                  /\ conf[p].access \in {Blank, conf[p].refresh}
          /\ file.tokens.refresh <= n /\ file.tokens.access \in {Blank, file.tokens.refresh}
      BY <2>1, <3>1
    <3> QED  BY <1>2, <3>2 DEF Known, fileVars
  <2>3. \A v \in Workers : worker'[v].got <= n /\ worker'[v].sent <= n
    BY <1>1, <1>2, <1>4, RowFacts DEF TokensInv, Numbered
  <2>4. hh'.fresh \subseteq 1 .. n /\ hh'.usable \subseteq 1 .. n
    BY <1>2, <1>4 DEF TokensInv, Numbered
  <2>5. \A h \in unanswered' \cup unsaved' : h <= n
    <3>1. \A h \in unanswered \cup unsaved : h \in Nat /\ h <= hh.issued
      BY <1>1, ConstantFacts DEF TokensInv, Numbered, TypeOK
    <3> QED  BY <1>2, <1>4, <3>1 DEF lossVars
  <2>6. \A h \in Pairs : /\ hh'.replacing[h] <= n
                         /\ h > n => /\ hh'.replacing[h] = Blank
                                     /\ hh'.by[h] = NoOne
    <3>1. ASSUME NEW h \in Pairs
          PROVE  /\ hh'.replacing[h] <= n
                 /\ h > n => hh'.replacing[h] = Blank /\ hh'.by[h] = NoOne
      <4>1. h \in Nat /\ hh.replacing[h] \in Nat /\ u \in Nat
        BY <1>1, <1>3, HHFacts, ConstantFacts DEF Blank
      <4>2. /\ hh.replacing[h] <= hh.issued
            /\ h > hh.issued => hh.replacing[h] = Blank /\ hh.by[h] = NoOne
        BY DEF TokensInv, Numbered
      <4> QED  BY <1>2, <1>3, <1>4, <4>1, <4>2
    <3> QED  BY <3>1
  <2> QED  BY <1>2, <2>2, <2>3, <2>4, <2>5, <2>6 DEF Numbered
<1>8. Replaced'
  <2> SUFFICES ASSUME NEW q \in 1 .. n
               PROVE  q \in hh'.usable <=> \A h \in Pairs : hh'.replacing[h] # q
    BY <1>2 DEF Replaced
  <2>1. hh.replacing[n] = Blank /\ \A h \in Pairs : hh.replacing[h] # n
    <3>1. \A h \in Pairs : hh.replacing[h] \in Nat /\ hh.replacing[h] <= hh.issued
      <4>1. Pairs \cup {Blank} \subseteq Nat
        BY ConstantFacts DEF Blank
      <4>2. \A h \in Pairs : hh.replacing[h] \in Pairs \cup {Blank}
        BY <1>1, HHFacts
      <4> QED  BY <4>1, <4>2 DEF TokensInv, Numbered
    <3> QED  BY <1>2, <1>4, <3>1 DEF TokensInv, Numbered
  <2>2. u # n
    BY <1>3, <1>4, ConstantFacts
  <2>3. CASE q = n
    BY <1>2, <2>1, <2>2, <2>3
  <2>4. CASE q # n /\ q = u
    BY <1>2, <2>4
  <2>5. CASE q # n /\ q # u
    <3>1. q \in 1 .. hh.issued /\ q # Blank
      BY <1>4, <2>5 DEF Blank
    <3>2. q \in hh.usable <=> \A h \in Pairs : hh.replacing[h] # q
      BY <3>1 DEF TokensInv, Replaced
    <3> QED  BY <1>2, <2>1, <2>5, <3>1, <3>2
  <2> QED  BY <2>3, <2>4, <2>5
<1>9. Locked'
  BY <1>1, <1>2, <1>5 DEF TokensInv, Locked
<1>10. \A v \in Workers \ {w} : worker[v].got # n
  <2>1. \A v \in Workers : worker[v].got \in Nat /\ worker[v].got <= hh.issued
    BY <1>1, RowFacts DEF TokensInv, Numbered
  <2> QED  BY <1>4, <2>1
<1>11. Distinct'
  BY <1>2, <1>10 DEF TokensInv, Distinct
<1>12. Private'
  <2>1. ASSUME NEW v \in Workers \ {w}, worker'[v].pc \in Unwritten
        PROVE  /\ worker'[v].got \in hh'.usable
               /\ \A c \in Calls : manager[c].refresh = worker'[v].got => c = CallOf[v]
               /\ \A p \in Processes : conf[p].refresh # worker'[v].got
               /\ file.tokens.refresh # worker'[v].got
    BY <1>2, <1>3, <2>1 DEF TokensInv, Private
  <2>2. /\ \A c \in Calls : manager[c].refresh # n
        /\ \A p \in Processes : conf[p].refresh # n
        /\ file.tokens.refresh # n
    <3>1. \A t \in Tokens : Known(t) => t.refresh # n
      BY <1>4, ConstantFacts DEF Known, Tokens, Blank
    <3>2. /\ \A c \in Calls : manager[c] \in Tokens /\ Known(manager[c])
          /\ \A p \in Processes : conf[p] \in Tokens /\ Known(conf[p])
          /\ file.tokens \in Tokens /\ Known(file.tokens)
      BY <1>1, HHFacts DEF TokensInv, Numbered
    <3> QED  BY <3>1, <3>2
  <2> QED  BY <1>2, <2>1, <2>2 DEF Private, fileVars
<1>13. ReadWhole'
  BY <1>2, <1>5 DEF TokensInv, ReadWhole, fileVars
<1>14. Failed'
  <2>1. \A v \in Workers : worker[v].sent # n
    <3>1. \A v \in Workers : worker[v].sent \in Nat /\ worker[v].sent <= hh.issued
      BY <1>1, RowFacts DEF TokensInv, Numbered
    <3> QED  BY <1>4, <3>1
  <2>2. ASSUME NEW v \in Workers
        PROVE  /\ worker'[v].pc \in {"wait", "slot"} => worker'[v].sent = Blank
               /\ worker'[v].pc \in {"lock", "post"} => worker'[v].sent \notin hh'.fresh
               /\ worker'[v].pc = "post" => worker'[v] = worker[v] /\ v # w
    BY <1>2, <2>1 DEF TokensInv, Failed
  <2> QED  BY <1>2, <2>2 DEF TokensInv, Failed, AlreadyRefreshed
<1>15. Own'
  <2>1. \A d \in Calls : \A v \in WorkersOf(d) : v \in Workers
    BY DEF WorkersOf
  <2>2. ASSUME NEW h \in Pairs, hh'.by[h] \in Calls
        PROVE  /\ \E v \in WorkersOf(hh'.by[h]) : worker'[v].pc # "wait"
               /\ /\ hh'.replacing[h] # Blank
                  /\ manager[hh'.by[h]].refresh = hh'.replacing[h]
                  => \/ h \in unanswered
                     \/ \E v \in WorkersOf(hh'.by[h]) :
                          worker'[v].pc = "answered" /\ worker'[v].got = h
    <3>1. CASE h = n
      BY <1>2, <3>1, CallFacts
    <3>2. CASE h # n
      <4>1. hh'.by[h] = hh.by[h] /\ hh'.replacing[h] = hh.replacing[h]
        BY <1>2, <3>2
      <4>2. \A v \in Workers : /\ worker[v].pc # "wait" => worker'[v].pc # "wait"
                               /\ worker[v].pc = "answered" => worker'[v] = worker[v]
        BY <1>1, <1>2
      <4> QED  BY <2>1, <2>2, <4>1, <4>2 DEF TokensInv, Own, At
    <3> QED  BY <3>1, <3>2
  <2> QED  BY <1>2, <2>2 DEF Own, WorkersOf, At, lossVars
<1>16. EnvFileLetsIn'
  <2>1. OnTheWay' = OnTheWay \cup {n}
    <3>1. Unwritten = {"answered", "save", "cut", "write"}
      BY DEF Unwritten, Fetched, Holding
    <3> HIDE DEF Unwritten
    <3>2. OnTheWay' = {worker'[v].got : v \in {x \in Workers : worker'[x].pc \in Unwritten}}
      BY <3>1 DEF OnTheWay
    <3>3. {x \in Workers : worker'[x].pc \in Unwritten}
            = {x \in Workers : worker[x].pc \in Unwritten} \cup {w}
      BY <1>1, <1>2, <1>5
    <3>4. \A x \in Workers : worker[x].pc \in Unwritten =>
            x # w /\ worker'[x].got = worker[x].got
      BY <1>1, <1>2, <1>5
    <3> QED  BY <1>2, <3>2, <3>3, <3>4, OnTheWayIs
  <2>2. (\E v \in Workers : At(v, "write")) => (\E v \in Workers : At(v, "write"))'
    BY <1>1, <1>2 DEF At
  <2>3. ASSUME file.settings, file.tokens.refresh \in hh.usable
        PROVE  EnvFileLetsIn'
    <3>1. CASE file.tokens.refresh = u
      BY <1>2, <2>1, <2>3, <3>1 DEF EnvFileLetsIn, fileVars
    <3>2. CASE file.tokens.refresh # u
      BY <1>2, <2>3, <3>2 DEF EnvFileLetsIn, fileVars
    <3> QED  BY <3>1, <3>2
  <2>4. ASSUME file.settings, NEW h \in OnTheWay \cup unanswered \cup unsaved,
               hh.replacing[h] = file.tokens.refresh
        PROVE  EnvFileLetsIn'
    <3>1. h \in Pairs /\ h # n
      <4>1. \A v \in Workers : worker[v].pc \in Unwritten =>
              worker[v].got \in Pairs /\ worker[v].got <= hh.issued
        BY UnwrittenFacts DEF TokensInv, Distinct, Numbered
      <4>2. h \in Pairs /\ h <= hh.issued
        BY <1>1, <2>4, <4>1, OnTheWayIs DEF TokensInv, Numbered, TypeOK
      <4> QED  BY <1>4, <4>2, ConstantFacts
    <3>2. hh'.replacing[h] = file.tokens.refresh
      BY <1>2, <2>4, <3>1
    <3> QED  BY <1>2, <2>1, <2>4, <3>2 DEF EnvFileLetsIn, fileVars, lossVars
  <2> QED
    BY <1>2, <2>2, <2>3, <2>4 DEF TokensInv, EnvFileLetsIn, fileVars
<1> QED
  BY <1>6, <1>7, <1>8, <1>9, <1>11, <1>12, <1>13, <1>14, <1>15, <1>16 DEF TokensInv

\* A call that starts has done nothing yet.
LEMMA StartKeeps ==
  ASSUME TokensInv, NEW c \in Calls, Start(c)
  PROVE  TokensInv'
<1> DEFINE t == conf[ProcessOf[c]]
<1>1. /\ TypeOK /\ ProcessOf[c] \in Processes /\ t \in Tokens
      /\ \A w \in WorkersOf(c) : worker[w].pc = "wait"
      /\ UNCHANGED <<coming, hhVars, fileVars, lossVars, conf, lock, up, cancelled, faults>>
  BY TokensAssumption, HHFacts DEF TokensInv, Start
<1>2. \A d \in Calls : manager'[d] = IF d = c THEN t ELSE manager[d]
  BY <1>1 DEF Start, TypeOK
<1>3. FirstStep(c) \in {"post", "failed", "slot"} /\ FirstStep(c) \in Steps
      /\ (FirstStep(c) = "post" => c \in Exchanges)
  BY DEF FirstStep, Steps
<1>4. \A w \in Workers : CallOf[w] # c => worker'[w] = worker[w]
  BY DEF Start
<1>5. ASSUME NEW w \in Workers, CallOf[w] = c
      PROVE  /\ worker[w].pc = "wait" /\ worker[w].sent = Blank
             /\ worker'[w].pc = FirstStep(c) /\ worker'[w].got = worker[w].got
             /\ worker'[w].sent = Blank /\ worker'[w] \in WorkRow
  <2>1. worker[w].pc = "wait"
    BY <1>1, <1>5 DEF WorkersOf
  <2>2. worker[w].sent = Blank
    BY <2>1 DEF TokensInv, Failed
  <2>3. worker'[w] = [worker[w] EXCEPT !.pc = FirstStep(c)]
    BY <1>5 DEF Start
  <2> QED  BY <1>1, <1>3, <2>1, <2>2, <2>3, RowFacts DEF WorkRow
<1>6. worker' \in [Workers -> WorkRow]
  <2>1. \A w \in Workers : worker'[w] \in WorkRow
    BY <1>1, <1>4, <1>5, RowFacts
  <2>2. worker' = [w \in Workers |-> worker'[w]]
    BY DEF Start
  <2> QED  BY <2>1, <2>2
<1>7. \A w \in Workers : /\ worker'[w].got = worker[w].got
                         /\ worker'[w].sent = worker[w].sent
  BY <1>4, <1>5
<1>8. \A w \in Workers : worker'[w].pc \in Fetched \/ worker[w].pc \in Fetched =>
        worker'[w] = worker[w] /\ CallOf[w] # c
  BY <1>3, <1>4, <1>5 DEF Fetched, Holding
<1>9. TypeOK'
  <2>1. manager' \in [Calls -> Tokens]
    BY <1>1 DEF Start, TypeOK
  <2> QED  BY <1>1, <1>6, <2>1 DEF TypeOK, WorkRow, hhVars, fileVars, lossVars
<1>10. Numbered'
  BY <1>1, <1>2, <1>7 DEF TokensInv, Numbered, Known, hhVars, fileVars, lossVars
<1>11. Replaced'
  BY <1>1 DEF TokensInv, Replaced, hhVars
<1>12. Locked'
  <2>1. \A w \in Workers : worker'[w].pc \in Holding /\ CallOf[w] \notin Exchanges =>
          worker[w].pc \in Holding
    BY <1>3, <1>4, <1>5 DEF Holding
  <2> QED  BY <1>1, <2>1 DEF TokensInv, Locked
<1>13. Distinct'
  BY <1>7, <1>8 DEF TokensInv, Distinct
<1>14. Private'
  <2>1. \A w \in Workers : worker'[w].pc \in Unwritten =>
          worker[w].pc \in Unwritten /\ worker'[w] = worker[w]
    BY <1>8, UnwrittenFacts
  <2> QED  BY <1>1, <1>2, <2>1 DEF TokensInv, Private, hhVars, fileVars
<1>15. ReadWhole'
  BY <1>1, <1>8, UnwrittenFacts DEF TokensInv, ReadWhole, fileVars
<1>16. Failed'
  <2>1. ASSUME NEW w \in Workers, CallOf[w] = c
        PROVE  /\ worker'[w].sent = Blank /\ Blank \notin hh.fresh
               /\ ~ (worker'[w].pc = "post" /\ CallOf[w] \notin Exchanges)
    BY <1>1, <1>3, <1>5, <2>1, HHFacts, ConstantFacts DEF Blank
  <2>2. ASSUME NEW w \in Workers, CallOf[w] # c
        PROVE  worker'[w] = worker[w] /\ manager'[CallOf[w]] = manager[CallOf[w]]
    BY <1>2, <1>4, <2>2, CallFacts
  <2> QED
    BY <1>1, <2>1, <2>2 DEF TokensInv, Failed, AlreadyRefreshed, hhVars
<1>17. Own'
  <2>1. ASSUME NEW h \in Pairs, hh.by[h] \in Calls
        PROVE  hh.by[h] # c
    BY <1>1, <2>1 DEF TokensInv, Own
  <2>2. ASSUME NEW d \in Calls, d # c, NEW w \in WorkersOf(d)
        PROVE  worker'[w] = worker[w]
    BY <1>4, <2>2 DEF WorkersOf
  <2> QED
    BY <1>1, <1>2, <2>1, <2>2 DEF TokensInv, Own, WorkersOf, At, hhVars, lossVars
<1>18. EnvFileLetsIn'
  <2>1. OnTheWay' = OnTheWay
    BY <1>8 DEF OnTheWay, Fetched, Holding
  <2>2. (\E w \in Workers : At(w, "write")) => (\E w \in Workers : At(w, "write"))'
    BY <1>8 DEF At, Fetched, Holding
  <2> QED
    BY <1>1, <2>1, <2>2 DEF TokensInv, EnvFileLetsIn, hhVars, fileVars, lossVars
<1> QED
  BY <1>9, <1>10, <1>11, <1>12, <1>13, <1>14, <1>15, <1>16, <1>17, <1>18 DEF TokensInv

LEMMA ExpireKeeps ==
  ASSUME TokensInv, NEW g \in Pairs, Expire(g)
  PROVE  TokensInv'
<1>1. /\ TypeOK /\ hh' = [hh EXCEPT !.fresh = hh.fresh \ {g}]
      /\ UNCHANGED <<coming, refused, fileVars, lossVars, conf, manager, lock, worker, up,
                     cancelled, faults>>
  BY DEF TokensInv, Expire
<1>2. hh \in [issued: Pairs, fresh: SUBSET Pairs, usable: SUBSET Pairs,
              by: [Pairs -> Calls \cup {NoOne}],
              replacing: [Pairs -> Pairs \cup {Blank}]]
  BY <1>1 DEF TypeOK
<1>3. /\ hh'.issued = hh.issued /\ hh'.usable = hh.usable /\ hh'.by = hh.by
      /\ hh'.replacing = hh.replacing /\ hh'.fresh = hh.fresh \ {g}
      /\ hh' \in [issued: Pairs, fresh: SUBSET Pairs, usable: SUBSET Pairs,
                  by: [Pairs -> Calls \cup {NoOne}],
                  replacing: [Pairs -> Pairs \cup {Blank}]]
  BY <1>1, <1>2
<1>4. TypeOK'
  BY <1>1, <1>3 DEF TypeOK, fileVars, lossVars
<1>5. Numbered' /\ Replaced' /\ Locked' /\ Distinct'
  BY <1>1, <1>3 DEF TokensInv, Numbered, Known, Replaced, Locked, Distinct, fileVars,
     lossVars
<1>6. Private' /\ ReadWhole' /\ Failed'
  BY <1>1, <1>3 DEF TokensInv, Private, ReadWhole, Failed, AlreadyRefreshed, fileVars
<1>7. Own' /\ EnvFileLetsIn'
  BY <1>1, <1>3 DEF TokensInv, Own, WorkersOf, At, EnvFileLetsIn, OnTheWay, fileVars,
     lossVars
<1> QED  BY <1>4, <1>5, <1>6, <1>7 DEF TokensInv

\* Nothing but who is cancelled, or nothing at all.
LEMMA StillKeeps ==
  ASSUME TokensInv, cancelled' \subseteq Cancellable,
         UNCHANGED <<coming, hhVars, fileVars, lossVars, conf, manager, lock, worker, up,
                     faults>>
  PROVE  TokensInv'
<1>1. TypeOK'
  BY DEF TokensInv, TypeOK, hhVars, fileVars, lossVars
<1>2. Numbered' /\ Replaced' /\ Locked' /\ Distinct' /\ Private' /\ ReadWhole'
  BY DEF TokensInv, Numbered, Known, Replaced, Locked, Distinct, Private, ReadWhole,
     hhVars, fileVars, lossVars
<1>3. Failed' /\ Own' /\ EnvFileLetsIn'
  BY DEF TokensInv, Failed, AlreadyRefreshed, Own, WorkersOf, At, EnvFileLetsIn, OnTheWay,
     hhVars, fileVars, lossVars
<1> QED  BY <1>1, <1>2, <1>3 DEF TokensInv

\* What a process that dies had got and not written is lost.
LEMMA CrashKeeps ==
  ASSUME TokensInv, NEW p \in Processes, Crash(p)
  PROVE  TokensInv'
<1> DEFINE here(w) == ProcessOf[CallOf[w]] = p
           dies(w) == here(w) /\ worker[w].pc \notin Finished \cup {"wait"}
           dying == {w \in Workers : dies(w)}
<1>1. /\ TypeOK /\ torn' = (torn \/ \E w \in dying : At(w, "write"))
      /\ UNCHANGED <<coming, hhVars, file, cancelled>>
      /\ unanswered' = unanswered \cup
           {worker[w].got : w \in {v \in dying : At(v, "answered")}}
      /\ unsaved' = unsaved \cup
           {worker[w].got : w \in {v \in dying : worker[v].pc \in {"save", "cut", "write"}}}
      /\ up' = up \ {p}
      /\ conf' = [conf EXCEPT ![p] = NoTokens]
      /\ manager' = [c \in Calls |-> IF ProcessOf[c] = p THEN NoTokens ELSE manager[c]]
      /\ lock' = [c \in Calls |-> IF ProcessOf[c] = p THEN NoOne ELSE lock[c]]
  BY DEF TokensInv, Crash
<1>2. worker' = [w \in Workers |-> IF dies(w) THEN [NoWork EXCEPT !.pc = "dead"]
                                              ELSE worker[w]]
  BY DEF Crash
<1> DEFINE dead == [NoWork EXCEPT !.pc = "dead"]
<1>3. dead \in WorkRow /\ dead.pc = "dead" /\ dead.got = Blank /\ dead.sent = Blank
  BY TruncatedTyped DEF WorkRow, NoWork, Steps
<1>4. \A w \in Workers : worker'[w] = IF dies(w) THEN dead ELSE worker[w]
  BY <1>2
<1>5. worker' \in [Workers -> WorkRow]
  BY <1>1, <1>2, <1>3, RowFacts
<1> HIDE DEF dead
<1>6. NoTokens \in Tokens /\ NoTokens.refresh = Blank /\ NoTokens.access = Blank
  BY TruncatedTyped DEF NoTokens
<1>7. /\ \A c \in Calls : /\ manager'[c] = IF ProcessOf[c] = p THEN NoTokens ELSE manager[c]
                          /\ lock'[c] = IF ProcessOf[c] = p THEN NoOne ELSE lock[c]
      /\ \A q \in Processes : conf'[q] = IF q = p THEN NoTokens ELSE conf[q]
  BY <1>1 DEF TypeOK
\* Who is in a refresh afterwards was in it before, elsewhere.
<1>8. \A w \in Workers : worker'[w].pc \in Holding \cup {"wait", "slot", "lock"} =>
        worker'[w] = worker[w] /\ ~ dies(w)
  BY <1>3, <1>4 DEF Holding
<1>9. \A w \in Workers : worker'[w].pc \in Holding => ~ here(w)
  <2>1. Holding \cap (Finished \cup {"wait"}) = {}
    BY DEF Holding, Finished
  <2> QED  BY <1>8, <2>1
<1>10. \A w \in Workers : worker[w].pc \in Unwritten =>
         worker[w].got \in Pairs /\ worker[w].got <= hh.issued
  BY UnwrittenFacts DEF TokensInv, Distinct, Numbered
<1>11. (unanswered' \cup unsaved') \subseteq
         unanswered \cup unsaved
           \cup {worker[w].got : w \in {v \in Workers : worker[v].pc \in Unwritten}}
  <2>1. Unwritten = {"answered", "save", "cut", "write"}
    BY DEF Unwritten, Fetched, Holding
  <2> QED  BY <1>1, <2>1 DEF At
<1> HIDE DEF dying
<1>12. TypeOK'
  <2>1. /\ manager' \in [Calls -> Tokens] /\ lock' \in [Calls -> Workers \cup {NoOne}]
        /\ conf' \in [Processes -> Tokens]
    BY <1>1, <1>6 DEF TypeOK
  <2>2. unanswered' \subseteq Pairs /\ unsaved' \subseteq Pairs
    BY <1>1, <1>10, <1>11 DEF TypeOK
  <2>3. faults' \in 0 .. MaxFaults
    BY <1>1, FaultTyped DEF Crash
  <2>4. torn' \in BOOLEAN
    BY <1>1
  <2> QED  BY <1>1, <1>5, <2>1, <2>2, <2>3, <2>4 DEF TypeOK, WorkRow, hhVars
<1>13. Numbered'
  <2>1. Blank <= hh.issued
    BY <1>1, HHFacts, ConstantFacts DEF Blank
  <2>2. \A w \in Workers : worker'[w].got <= hh.issued /\ worker'[w].sent <= hh.issued
    BY <1>3, <1>4, <2>1 DEF TokensInv, Numbered
  <2>3. \A g \in unanswered' \cup unsaved' : g <= hh.issued
    BY <1>10, <1>11 DEF TokensInv, Numbered
  <2>4. /\ \A c \in Calls : Known(manager[c])'
        /\ \A q \in Processes : Known(conf[q])'
    BY <1>1, <1>6, <1>7, <2>1 DEF TokensInv, Numbered, Known, hhVars
  <2> QED  BY <1>1, <2>2, <2>3, <2>4 DEF TokensInv, Numbered, Known, hhVars
<1>14. Replaced'
  BY <1>1 DEF TokensInv, Replaced, hhVars
<1>15. Locked'
  BY <1>7, <1>8, <1>9, CallFacts DEF TokensInv, Locked
<1>16. Distinct'
  BY <1>8, UnwrittenFacts DEF TokensInv, Distinct
<1>17. Private'
  <2>1. ASSUME NEW w \in Workers, worker'[w].pc \in Unwritten
        PROVE  /\ worker'[w] = worker[w] /\ worker[w].got # Blank
               /\ worker[w].pc \in Unwritten
    <3>1. worker'[w] = worker[w]
      BY <1>8, <2>1, UnwrittenFacts
    <3> QED  BY <2>1, <3>1, <1>10, ConstantFacts DEF Blank
  <2> QED  BY <1>1, <1>6, <1>7, <2>1 DEF TokensInv, Private, hhVars
<1>18. ReadWhole'
  BY <1>1, <1>8, UnwrittenFacts DEF TokensInv, ReadWhole
<1>19. Failed'
  <2>1. ASSUME NEW w \in Workers, worker'[w].pc = "post"
        PROVE  worker'[w] = worker[w] /\ manager'[CallOf[w]] = manager[CallOf[w]]
    BY <1>7, <1>8, <1>9, <2>1, CallFacts DEF Holding
  <2> QED
    BY <1>1, <1>8, <2>1 DEF TokensInv, Failed, AlreadyRefreshed, hhVars, Holding
<1>20. Own'
  <2>1. \A w \in Workers : worker[w].pc # "wait" => worker'[w].pc # "wait"
    BY <1>3, <1>4
  <2>2. \A d \in Calls : \A w \in WorkersOf(d) : w \in Workers /\ CallOf[w] = d
    BY DEF WorkersOf
  <2>3. ASSUME NEW h \in Pairs, hh.by[h] \in Calls, hh.replacing[h] # Blank,
               manager'[hh.by[h]].refresh = hh.replacing[h], h \notin unanswered'
        PROVE  \E w \in WorkersOf(hh.by[h]) :
                 worker'[w].pc = "answered" /\ worker'[w].got = h
    <3>1. ProcessOf[hh.by[h]] # p
      BY <1>6, <1>7, <2>3
    <3>2. PICK w \in WorkersOf(hh.by[h]) : At(w, "answered") /\ worker[w].got = h
      BY <1>1, <1>7, <2>3, <3>1 DEF TokensInv, Own
    <3>3. ~ dies(w)
      BY <2>2, <2>3, <3>1, <3>2
    <3> QED  BY <1>4, <2>2, <2>3, <3>2, <3>3 DEF At
  <2>4. ASSUME NEW h \in Pairs, hh.by[h] \in Calls
        PROVE  \E w \in WorkersOf(hh.by[h]) : worker'[w].pc # "wait"
    BY <2>1, <2>2, <2>4 DEF TokensInv, Own
  <2> QED  BY <1>1, <2>3, <2>4 DEF Own, WorkersOf, At, hhVars
<1>21. EnvFileLetsIn'
  <2>1. CASE torn'
    BY <2>1 DEF EnvFileLetsIn
  <2>2. CASE ~ torn'
    <3>1. ASSUME NEW w \in Workers, At(w, "write")
          PROVE  At(w, "write")'
      <4>1. ~ dies(w)
        BY <1>1, <2>2, <3>1 DEF dying
      <4> QED  BY <1>4, <3>1, <4>1 DEF At
    <3>2. OnTheWay \subseteq OnTheWay' \cup unanswered' \cup unsaved'
      <4>1. ASSUME NEW w \in Workers, worker[w].pc \in {"answered", "save", "cut", "write"}
            PROVE  worker[w].got \in OnTheWay' \cup unanswered' \cup unsaved'
        <5>1. CASE dies(w)
          BY <1>1, <4>1, <5>1 DEF dying, At
        <5>2. CASE ~ dies(w)
          <6>1. worker'[w] = worker[w]
            BY <1>4, <5>2
          <6> QED  BY <4>1, <6>1 DEF OnTheWay
        <5> QED  BY <5>1, <5>2
      <4> QED  BY <4>1 DEF OnTheWay
    <3>3. unanswered \subseteq unanswered' /\ unsaved \subseteq unsaved' /\ ~ torn
      BY <1>1, <2>2
    <3> QED
      BY <1>1, <3>1, <3>2, <3>3 DEF TokensInv, EnvFileLetsIn, hhVars
  <2> QED  BY <2>1, <2>2
<1> QED
  BY <1>12, <1>13, <1>14, <1>15, <1>16, <1>17, <1>18, <1>19, <1>20, <1>21 DEF TokensInv

\* A process that is started again takes what .env says, or what its container
\* was created with.
LEMMA RestartKeeps ==
  ASSUME TokensInv, NEW p \in Processes, Restart(p)
  PROVE  TokensInv'
<1>1. /\ TypeOK /\ up' = up \cup {p}
      /\ UNCHANGED <<coming, hhVars, fileVars, lossVars, manager, lock, worker, cancelled,
                     faults>>
  BY DEF TokensInv, Restart
<1>2. PICK t \in {file.tokens, Both(1)} : conf' = [conf EXCEPT ![p] = t]
  BY DEF Restart
<1>3. t \in Tokens /\ Known(t)
  <2>1. Both(1) \in Tokens /\ Both(1).refresh = 1 /\ Both(1).access = 1
    BY ConstantFacts DEF Both, Tokens
  <2>2. 1 <= hh.issued
    BY <1>1, HHFacts, ConstantFacts
  <2> QED  BY <1>1, <1>2, <2>1, <2>2, HHFacts DEF TokensInv, Numbered, Known
<1>4. conf' \in [Processes -> Tokens]
      /\ \A q \in Processes : conf'[q] = IF q = p THEN t ELSE conf[q]
  BY <1>1, <1>2, <1>3 DEF TypeOK
<1>5. TypeOK'
  BY <1>1, <1>4 DEF TypeOK, hhVars, fileVars, lossVars
<1>6. Numbered'
  BY <1>1, <1>3, <1>4 DEF TokensInv, Numbered, Known, hhVars, fileVars, lossVars
<1>7. Private'
  <2>1. \A w \in Workers : worker[w].pc \in Unwritten => t.refresh # worker[w].got
    <3>1. Both(1).refresh = 1
      BY DEF Both
    <3> QED  BY <1>2, <3>1, UnwrittenFacts DEF TokensInv, Private, Distinct
  <2> QED  BY <1>1, <1>4, <2>1 DEF TokensInv, Private, hhVars, fileVars
<1>8. Replaced' /\ Locked' /\ Distinct' /\ ReadWhole'
  BY <1>1 DEF TokensInv, Replaced, Locked, Distinct, ReadWhole, hhVars, fileVars
<1>9. Failed' /\ Own' /\ EnvFileLetsIn'
  BY <1>1 DEF TokensInv, Failed, AlreadyRefreshed, Own, WorkersOf, At, EnvFileLetsIn,
     OnTheWay, hhVars, fileVars, lossVars
<1> QED  BY <1>5, <1>6, <1>7, <1>8, <1>9 DEF TokensInv

LEMMA TokensInit == Init => TokensInv
<1> SUFFICES ASSUME Init PROVE TokensInv
  OBVIOUS
<1>1. /\ hh = [issued |-> 1, fresh |-> {1}, usable |-> {1},
               by |-> [g \in Pairs |-> NoOne], replacing |-> [g \in Pairs |-> Blank]]
      /\ manager = [c \in Calls |-> NoTokens] /\ lock = [c \in Calls |-> NoOne]
      /\ worker = [w \in Workers |-> NoWork] /\ up = Processes
      /\ cancelled = {} /\ unanswered = {} /\ unsaved = {} /\ refused = {}
      /\ torn = FALSE /\ faults = 0 /\ coming \in Batches
  BY DEF Init
<1>2. PICK t \in {Both(1), [Both(1) EXCEPT !.access = Blank]} :
        file = [tokens |-> t, settings |-> TRUE] /\ conf = [p \in Processes |-> t]
  BY DEF Init
<1>3. t \in Tokens /\ t.refresh = 1 /\ t.access \in {Blank, 1}
  BY ConstantFacts DEF Both, Tokens
<1>4. hh.issued = 1 /\ hh.fresh = {1} /\ hh.usable = {1}
      /\ \A g \in Pairs : hh.by[g] = NoOne /\ hh.replacing[g] = Blank
  BY <1>1
<1>5. \A w \in Workers : worker[w].pc = "wait" /\ worker[w].got = Blank
                         /\ worker[w].sent = Blank
  BY <1>1 DEF NoWork
<1>6. NoTokens.refresh = Blank /\ NoTokens.access = Blank /\ Blank <= 1 /\ 1 # Blank
  BY DEF NoTokens, Blank
<1>7. TypeOK
  <2>1. /\ file \in EnvFile /\ conf \in [Processes -> Tokens]
        /\ manager \in [Calls -> Tokens]
    BY <1>1, <1>2, <1>3, TruncatedTyped DEF EnvFile
  <2>2. worker \in [Workers -> WorkRow] /\ lock \in [Calls -> Workers \cup {NoOne}]
    BY <1>1, TruncatedTyped
  <2>3. hh \in [issued: Pairs, fresh: SUBSET Pairs, usable: SUBSET Pairs,
                by: [Pairs -> Calls \cup {NoOne}],
                replacing: [Pairs -> Pairs \cup {Blank}]]
    BY <1>1, ConstantFacts
  <2>4. faults \in 0 .. MaxFaults
    BY <1>1, ConstantFacts
  <2> QED  BY <1>1, <2>1, <2>2, <2>3, <2>4 DEF TypeOK, WorkRow
<1>8. Numbered
  BY <1>1, <1>2, <1>3, <1>4, <1>5, <1>6 DEF Numbered, Known
<1>9. Replaced
  BY <1>4, <1>6 DEF Replaced
<1>10. Locked /\ Distinct /\ Private /\ ReadWhole
  BY <1>5 DEF Locked, Distinct, Private, ReadWhole, Fetched, Holding, Unwritten, Saving
<1>11. Failed /\ Own
  BY <1>4, <1>5, ConstantFacts DEF Failed, Own
<1>12. EnvFileLetsIn
  BY <1>2, <1>3, <1>4 DEF EnvFileLetsIn
<1> QED  BY <1>7, <1>8, <1>9, <1>10, <1>11, <1>12 DEF TokensInv

LEMMA TokensNext == TokensInv /\ [Next]_vars => TokensInv'
<1> SUFFICES ASSUME TokensInv, [Next]_vars PROVE TokensInv'
  OBVIOUS
<1>1. ASSUME NEW w \in Workers, WorkerStep(w) PROVE TokensInv'
  BY <1>1, SendKeeps, AskedKeeps, LockKeeps, GrantKeeps, RefuseKeeps,
     TokenRequestFailsKeeps, ReceiveKeeps, SavingFailsKeeps, ReadEnvKeeps,
     TruncateEnvKeeps, WriteEnvKeeps, SetConfKeeps DEF WorkerStep
<1>2. ASSUME NEW c \in Calls, Cancel(c) PROVE TokensInv'
  BY <1>2, StillKeeps DEF Cancel, TokensInv, TypeOK
<1>3. CASE UNCHANGED vars
  BY <1>3, StillKeeps DEF vars, TokensInv, TypeOK
<1> QED  BY <1>1, <1>2, <1>3, StartKeeps, ExpireKeeps, CrashKeeps, RestartKeeps DEF Next

-----------------------------------------------------------------------------
(***************************************************************************)
(* The theorems.                                                           *)
(***************************************************************************)
\* The inductive invariant of the tokens, for any processes, calls and workers,
\* and any number of refused requests, file errors and processes that die.
THEOREM TokensInvariant == Spec => []TokensInv
  BY TokensInit, TokensNext, PTL DEF Spec

\* Every token, file and worker keeps its type, and no request is sent more
\* often than the client allows.
THEOREM TokensTypeCorrect == Spec => []TypeOK
<1>1. TokensInv => TypeOK
  BY DEF TokensInv
<1> QED  BY <1>1, TokensInvariant, PTL

\* Whoever writes .env last, the next process can log in with it, unless a pair
\* was lost or a write broke off.
THEOREM EnvFileStaysUsable == Spec => []EnvFileLetsIn
<1>1. TokensInv => EnvFileLetsIn
  BY DEF TokensInv
<1> QED  BY <1>1, TokensInvariant, PTL

LEMMA OnlyGrantReplaces ==
  ASSUME TokensInv, Next, NEW g \in Pairs, hh'.replacing[g] # hh.replacing[g]
  PROVE  \E w \in Workers : Grant(w)
<1>1. ASSUME NEW x \in Pairs, Expire(x) PROVE hh'.replacing = hh.replacing
  BY <1>1 DEF Expire, TokensInv, TypeOK
<1> QED
  BY <1>1 DEF Next, WorkerStep, hhVars, Start, Send, Answered, Unauthorised,
     RequestFails, Lock, Refuse, TokenRequestFails, Receive, SaveCancelled, ReadEnv,
     TruncateEnv, WriteEnv, EnvFails, SetConf, Cancel, Crash, Restart

LEMMA OnlyRefuseRefuses ==
  ASSUME Next, NEW r \in refused' \ refused
  PROVE  \E w \in Workers : Refuse(w) /\ r = <<CallOf[w], Used(w)>>
  BY DEF Next, WorkerStep, hhVars, Start, Send, Answered, Unauthorised,
     RequestFails, Lock, Grant, Refuse, TokenRequestFails, Receive, SaveCancelled,
     ReadEnv, TruncateEnv, WriteEnv, EnvFails, SetConf, Cancel, Expire, Crash, Restart

RefreshedOnceStep ==
  /\ \A g \in Pairs : hh'.replacing[g] # hh.replacing[g] =>
       \/ hh'.replacing[g] \notin hh.fresh
       \/ manager[hh'.by[g]].access = Blank
  /\ \A r \in refused' \ refused : \E g \in Pairs :
       /\ hh.replacing[g] = r[2]
       /\ hh.by[g] # r[1] \/ g \in unanswered

LEMMA ReplacedOnce ==
  ASSUME TokensInv, Next
  PROVE  RefreshedOnceStep
<1>1. ASSUME NEW g \in Pairs, hh'.replacing[g] # hh.replacing[g]
      PROVE  \/ hh'.replacing[g] \notin hh.fresh
             \/ manager[hh'.by[g]].access = Blank
  <2>1. PICK w \in Workers : Grant(w)
    BY <1>1, OnlyGrantReplaces
  <2>2. g = hh.issued + 1 /\ hh'.replacing[g] = Used(w) /\ hh'.by[g] = CallOf[w]
    BY <1>1, <2>1, GrantFacts
  <2>3. TypeOK /\ worker[w].pc = "post" /\ CallOf[w] \in Calls
    BY <2>1, CallFacts DEF TokensInv, Grant, At
  <2>4. CASE CallOf[w] \in Exchanges
    BY <2>2, <2>3, <2>4, HHFacts, ConstantFacts DEF Used, Blank
  <2>5. CASE CallOf[w] \notin Exchanges
    <3>1. /\ worker[w].sent \notin hh.fresh
          /\ ~ AlreadyRefreshed(w)
          /\ Known(manager[CallOf[w]])
      BY <2>3, <2>5 DEF TokensInv, Failed, Numbered
    <3> QED  BY <2>2, <2>5, <3>1 DEF Used, AlreadyRefreshed, Known
  <2> QED  BY <2>4, <2>5
<1>2. ASSUME NEW r \in refused' \ refused
      PROVE  \E g \in Pairs : /\ hh.replacing[g] = r[2]
                              /\ hh.by[g] # r[1] \/ g \in unanswered
  <2>1. PICK w \in Workers : Refuse(w) /\ r = <<CallOf[w], Used(w)>>
    BY <1>2, OnlyRefuseRefuses
  <2>2. /\ TypeOK /\ worker[w].pc = "post" /\ CallOf[w] \in Calls
        /\ CallOf[w] \notin Exchanges /\ Used(w) \notin hh.usable
        /\ Used(w) = manager[CallOf[w]].refresh /\ r[1] = CallOf[w] /\ r[2] = Used(w)
    BY <2>1, CallFacts DEF TokensInv, Refuse, At, Used
  <2>3. Used(w) # Blank
    BY <2>2 DEF TokensInv, Failed
  <2>4. Used(w) \in 1 .. hh.issued
    <3>1. Used(w) \in Pairs \cup {Blank} /\ Used(w) <= hh.issued
      BY <2>2, UsedFacts
    <3>2. Pairs \subseteq Nat \ {0} /\ hh.issued \in Nat
      BY <2>2, HHFacts, ConstantFacts
    <3>3. Used(w) \in Nat \ {0}
      BY <2>3, <3>1, <3>2
    <3> QED  BY <3>1, <3>2, <3>3
  <2>5. PICK g \in Pairs : hh.replacing[g] = Used(w)
    BY <2>2, <2>4 DEF TokensInv, Replaced
  <2>6. ASSUME hh.by[g] = CallOf[w], g \notin unanswered PROVE FALSE
    <3>1. PICK v \in WorkersOf(CallOf[w]) : At(v, "answered") /\ worker[v].got = g
      BY <2>2, <2>3, <2>5, <2>6 DEF TokensInv, Own
    <3>2. v \in Workers /\ CallOf[v] = CallOf[w] /\ worker[v].pc = "answered"
      BY <2>2, <3>1 DEF WorkersOf, At
    <3>3. lock[CallOf[w]] = v /\ lock[CallOf[w]] = w
      BY <2>2, <3>2 DEF TokensInv, Locked, Holding
    <3> QED  BY <2>2, <3>2, <3>3
  <2> QED  BY <2>2, <2>5, <2>6
<1> QED  BY <1>1, <1>2 DEF RefreshedOnceStep

\* However many workers meet the same expired token, one of them replaces the
\* pair, and none is refused for what another of its call did.
THEOREM PairsAreRefreshedOnce == Spec => RefreshedOnce
<1>1. TokensInv /\ [Next]_vars => [RefreshedOnceStep]_vars
  BY ReplacedOnce
<1>2. Spec => [][RefreshedOnceStep]_vars
  BY <1>1, TokensInvariant, PTL DEF Spec
<1> QED  BY <1>2 DEF RefreshedOnce, RefreshedOnceStep
=============================================================================
