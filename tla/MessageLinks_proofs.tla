------------------------ MODULE MessageLinks_proofs -------------------------
(***************************************************************************)
(* Proofs about MessageLinks: its types, that the creators of a source     *)
(* agree, and that a sync nobody disturbs leaves a whole document, by the  *)
(* inductive invariant LinksInv.                                           *)
(***************************************************************************)
EXTENDS MessageLinks, Selections_proofs

Asked == {"resolve", "fetch", "raw", "replace", "document", "unchunk", "chunk",
          "complete", "mark"}
Fetched == Asked \ {"resolve", "fetch"}
Stored == Fetched \ {"raw"}
Linked == Stored \ {"replace"}
Saved == {"unchunk", "chunk", "complete", "mark"}

\* A call that is at one of these places, or went by all of them.
Past(w, places) == call[w].pc \in places \/ job[w] = "succeeded"

\* What a creator saw of the channel's own source, and what it returns.
Looked ==
  \A c \in Creators :
    /\ creator[c].pc = "failed" => creator[c].fault
    /\ creator[c].pc = "done" => creator[c].got \in {"plain", "made"}
    /\ creator[c].pc = "done" /\ creator[c].got = "plain" =>
         rows["plain"] = "channel_document"
    /\ creator[c].pc \in {"made", "insert", "again"}
         \/ (creator[c].pc = "done" /\ creator[c].got = "made") =>
         rows["plain"] # "channel_document"

\* The links are there before a call begins, and none twice.
LinksOnce == \A j, k \in DOMAIN links : links[j] = links[k] => j = k

LinksListed ==
  /\ LinksOnce
  /\ kind = "links" => \A w \in Syncs : call[w].pc # "off" => links # <<>>

\* The way a call takes depends on the kind of the source.
Way(w) ==
  /\ call[w].pc # "off" => kind \in {"links", "channel"}
  /\ call[w].pc = "load" => kind = "links"
  /\ call[w].pc = "replace" => kind = "channel"
  /\ job[w] = "succeeded" => call[w].pc \in {"mark", "fail", "error", "over"}
  /\ call[w].next # 0
  /\ call[w].pc \notin {"raw", "chunk", "complete", "mark", "fail", "error", "over"} =>
       call[w].next = 1

Ways == \A w \in Syncs : Way(w)

\* What a call has fetched: of a channel, what lies from the cursor on; of a
\* list of links, their messages.
Has(w) ==
  /\ kind = "channel" =>
       /\ \A k \in DOMAIN call[w].got : /\ call[w].got[k].body # NoText
                                        /\ call[w].cursor <= call[w].got[k].id
       /\ \A j, k \in DOMAIN call[w].got :
            j < k => call[w].got[j].id < call[w].got[k].id
       /\ call[w].cursor = 0 => call[w].got = <<>>
  /\ kind = "links" /\ Past(w, Asked) =>
       call[w].got = [k \in DOMAIN links |->
                        [id |-> links[k], body |-> call[w].got[k].body]]
  /\ kind = "links" /\ Past(w, Fetched) =>
       \A k \in DOMAIN call[w].got : call[w].got[k].body # NoText
  /\ Past(w, Stored) =>
       call[w].text = [k \in DOMAIN Kept(call[w].got) |-> Kept(call[w].got)[k].body]
  /\ call[w].pc \in {"unchunk", "chunk"} => call[w].text # <<>>

Holds == \A w \in Syncs : Has(w)

\* Calls begin in the order of their numbers; the last one to begin that no
\* other overlapped is the only one at work.
Begun(w) == call[w].pc # "off"
Alone(w) == Begun(w) /\ Latest(w) /\ w \notin crossed

Queue ==
  \A v, w \in Syncs :
    /\ v < w /\ Begun(w) => Begun(v)
    /\ Alone(w) /\ v # w => call[v].pc \notin Working

\* How much of what a call that is alone has fetched is in the store.
ChunksUpTo(w, n) ==
  \A m \in Ids : chunks[m] = IF m < n /\ m <= Len(call[w].text)
                             THEN call[w].text[m] ELSE NoText

AllChunks(w) ==
  \A m \in Ids : chunks[m] = IF m <= Len(call[w].text) THEN call[w].text[m] ELSE NoText

Wrote(w) ==
  /\ call[w].pc = "raw" =>
       \A k \in DOMAIN call[w].got :
         k < call[w].next => raw[call[w].got[k].id] = call[w].got[k].body
  /\ Past(w, Stored) =>
       \A k \in DOMAIN call[w].got : raw[call[w].got[k].id] = call[w].got[k].body
  /\ kind = "channel" /\ Past(w, Linked) =>
       links = [k \in DOMAIN call[w].got |-> call[w].got[k].id]
  /\ Past(w, Saved) => doc.text = call[w].text
  /\ call[w].pc \in {"unchunk", "chunk"} => doc.id = call[w].doc
  /\ call[w].pc = "chunk" => ChunksUpTo(w, call[w].next)
  /\ Past(w, {"complete", "mark"}) => AllChunks(w)

Written == \A w \in Syncs : Alone(w) => Wrote(w)

LinksInv ==
  TypeOK /\ Looked /\ LinksListed /\ Ways /\ Holds /\ Queue /\ Written

-----------------------------------------------------------------------------
(***************************************************************************)
(* Constants and types.                                                    *)
(***************************************************************************)
Bodies == Texts \cup {Trash, NoText}
Message == [id: Ids, body: Bodies]

CallRow ==
  [pc: Working \cup {"off", "over"}, limit: Limits \cup {0},
   cursor: 0 .. MaxId, more: BOOLEAN, got: Seq(Message),
   next: Nat, doc: Nat, text: Seq(Texts)]

CreateTyped ==
  /\ rows \in [{"plain", "made"} -> {"none", "public_channel", "channel_document"}]
  /\ creator \in [Creators -> [pc: {"off", "plain", "made", "insert", "again",
                                    "done", "failed"},
                               got: {"none", "plain", "made"}, fault: BOOLEAN]]

StoreTyped ==
  /\ links \in Seq(Ids)
  /\ raw \in [Ids -> Bodies]
  /\ doc \in [id: Nat, text: Seq(Texts)]
  /\ chunks \in [Ids -> Texts \cup {NoText}]
  /\ src \in [status: {"active", "error"}, last: 0 .. MaxId]
  /\ job \in [Syncs -> {"none", "queued", "running", "succeeded", "failed"}]

SpentTyped == spent \in [changes: 0 .. MaxChanges, faults: 0 .. MaxFaults]

LEMMA TypeParts ==
  TypeOK <=> /\ kind \in Kinds /\ CreateTyped /\ channel \in [Ids -> Bodies]
             /\ StoreTyped /\ call \in [Syncs -> CallRow]
             /\ crossed \subseteq Syncs /\ SpentTyped
  BY DEF TypeOK, CreateTyped, StoreTyped, SpentTyped, CallRow, Message, Bodies

LEMMA TypePartsNext ==
  TypeOK' <=> /\ kind' \in Kinds /\ CreateTyped' /\ channel' \in [Ids -> Bodies]
              /\ StoreTyped' /\ call' \in [Syncs -> CallRow]
              /\ crossed' \subseteq Syncs /\ SpentTyped'
  BY DEF TypeOK, CreateTyped, StoreTyped, SpentTyped, CallRow, Message, Bodies

LEMMA ConstantFacts ==
  /\ MaxId \in Nat /\ MaxChanges \in Nat /\ MaxFaults \in Nat
  /\ PageSize \in Nat \ {0} /\ Limits \subseteq Nat /\ Syncs \subseteq Nat
  /\ Ids \subseteq Nat \ {0} /\ 0 \in 0 .. MaxId
  /\ Trash \notin Texts /\ NoText \notin Texts /\ NoText # Trash
<1>1. MaxId \in Nat /\ MaxChanges \in Nat /\ MaxFaults \in Nat
  BY LinksAssumption
<1>2. PageSize \in Nat \ {0} /\ Limits \subseteq Nat /\ Syncs \subseteq Nat
  BY LinksAssumption
<1>3. Trash \notin Texts /\ NoText \notin Texts /\ NoText # Trash
  BY LinksAssumption
<1>4. 1 .. MaxId \subseteq Nat \ {0} /\ 0 \in 0 .. MaxId
  BY <1>1
<1> QED  BY <1>1, <1>2, <1>3, <1>4 DEF Ids

LEMMA RowFacts ==
  ASSUME TypeOK, NEW w \in Syncs
  PROVE  /\ call[w] \in CallRow
         /\ call[w].pc \in Working \cup {"off", "over"}
         /\ call[w].got \in Seq(Message) /\ call[w].text \in Seq(Texts)
         /\ call[w].next \in Nat /\ call[w].doc \in Nat
         /\ call[w].cursor \in 0 .. MaxId /\ call[w].limit \in Limits \cup {0}
<1>1. call[w] \in CallRow
  BY TypeParts
<1> QED  BY <1>1 DEF CallRow

-----------------------------------------------------------------------------
(***************************************************************************)
(* Steps of one call.                                                      *)
(***************************************************************************)
Steps(w) ==
  /\ call' \in [Syncs -> CallRow]
  /\ \A v \in Syncs \ {w} : call'[v] = call[v]

Moves(w, pc) ==
  /\ Steps(w)
  /\ call'[w].pc = pc
  /\ call'[w].got = call[w].got /\ call'[w].text = call[w].text
  /\ call'[w].next = call[w].next /\ call'[w].doc = call[w].doc
  /\ call'[w].cursor = call[w].cursor /\ call'[w].limit = call[w].limit

LEMMA RowSteps ==
  ASSUME TypeOK, NEW w \in Syncs, NEW row \in CallRow,
         call' = [call EXCEPT ![w] = row]
  PROVE  Steps(w) /\ call'[w] = row
<1>1. call \in [Syncs -> CallRow]
  BY TypeParts
<1> QED  BY <1>1 DEF Steps

LEMMA MovesTo ==
  ASSUME TypeOK, NEW w \in Syncs, NEW pc \in Working \cup {"over"},
         call' = [call EXCEPT ![w].pc = pc] \/ call' = [call EXCEPT ![w] = To(w, pc)]
  PROVE  Moves(w, pc)
<1> DEFINE row == [call[w] EXCEPT !.pc = pc]
<1>1. call[w] \in CallRow
  BY RowFacts
<1>2. /\ row \in CallRow /\ row.pc = pc
      /\ row.got = call[w].got /\ row.text = call[w].text
      /\ row.next = call[w].next /\ row.doc = call[w].doc
      /\ row.cursor = call[w].cursor /\ row.limit = call[w].limit
  BY <1>1 DEF CallRow
<1>3. call' = [call EXCEPT ![w] = row]
  BY DEF To
<1> HIDE DEF row
<1>4. Steps(w) /\ call'[w] = row
  BY <1>2, <1>3, RowSteps
<1> QED  BY <1>2, <1>4 DEF Moves

LEMMA FaultTyped ==
  ASSUME TypeOK, Fault \/ UNCHANGED spent
  PROVE  SpentTyped'
<1>1. SpentTyped
  BY TypeParts
<1>2. CASE UNCHANGED spent
  BY <1>1, <1>2 DEF SpentTyped
<1>3. CASE Fault
  <2>1. spent.faults + 1 \in 0 .. MaxFaults
    BY <1>1, <1>3, ConstantFacts DEF Fault, SpentTyped
  <2> QED  BY <1>1, <1>3, <2>1 DEF Fault, SpentTyped
<1> QED  BY <1>2, <1>3

LEMMA ErrorPlace ==
  ASSUME NEW w
  PROVE  OnError(w) \in {"over", "fail"} /\ OnError(w) \in Working \cup {"over"}
  BY DEF OnError, Working

LEMMA Settles ==
  ASSUME TypeOK, NEW w \in Syncs, NEW row \in CallRow, Settle(w, row)
  PROVE  /\ SpentTyped'
         /\ (Steps(w) /\ call'[w] = row) \/ Moves(w, OnError(w))
<1>1. SpentTyped'
  BY FaultTyped DEF Settle
<1>2. CASE call' = [call EXCEPT ![w] = row]
  BY <1>1, <1>2, RowSteps
<1>3. CASE call' = [call EXCEPT ![w].pc = OnError(w)]
  BY <1>1, <1>3, ErrorPlace, MovesTo
<1> QED  BY <1>2, <1>3 DEF Settle

LEMMA SettlesTo ==
  ASSUME TypeOK, NEW w \in Syncs, NEW pc \in Working \cup {"over"},
         Settle(w, To(w, pc))
  PROVE  SpentTyped' /\ (Moves(w, pc) \/ Moves(w, OnError(w)))
<1>1. SpentTyped'
  BY FaultTyped DEF Settle
<1>2. CASE call' = [call EXCEPT ![w] = To(w, pc)]
  BY <1>1, <1>2, MovesTo
<1>3. CASE call' = [call EXCEPT ![w].pc = OnError(w)]
  BY <1>1, <1>3, ErrorPlace, MovesTo
<1> QED  BY <1>2, <1>3 DEF Settle

-----------------------------------------------------------------------------
(***************************************************************************)
(* What a step of one call leaves of the invariant.                        *)
(***************************************************************************)
LEMMA HasSame ==
  ASSUME LinksInv, NEW w \in Syncs, NEW pc,
         call'[w].pc = pc, call'[w].got = call[w].got, call'[w].text = call[w].text,
         call'[w].cursor = call[w].cursor,
         kind' = kind, links' = links \/ kind = "channel",
         kind = "links" /\ Past(w, Asked)' => Past(w, Asked),
         kind = "links" /\ Past(w, Fetched)' => Past(w, Fetched),
         Past(w, Stored)' => Past(w, Stored),
         pc \in {"unchunk", "chunk"} => call[w].text # <<>>
  PROVE  Has(w)'
<1>1. Has(w)
  BY DEF LinksInv, Holds
<1>2. call'[w].pc = pc /\ call'[w].got = call[w].got /\ call'[w].text = call[w].text
      /\ call'[w].cursor = call[w].cursor
  OBVIOUS
<1>3. /\ kind' = "channel" =>
           /\ \A k \in DOMAIN call'[w].got : /\ call'[w].got[k].body # NoText
                                             /\ call'[w].cursor <= call'[w].got[k].id
           /\ \A j, k \in DOMAIN call'[w].got :
                j < k => call'[w].got[j].id < call'[w].got[k].id
           /\ call'[w].cursor = 0 => call'[w].got = <<>>
  BY <1>1, <1>2 DEF Has
<1>4. kind' = "links" /\ Past(w, Asked)' =>
        call'[w].got = [k \in DOMAIN links' |->
                          [id |-> links'[k], body |-> call'[w].got[k].body]]
  BY <1>1, <1>2 DEF Has
<1>5. kind' = "links" /\ Past(w, Fetched)' =>
        \A k \in DOMAIN call'[w].got : call'[w].got[k].body # NoText
  BY <1>1, <1>2 DEF Has
<1>6. Past(w, Stored)' =>
        call'[w].text = [k \in DOMAIN Kept(call'[w].got) |-> Kept(call'[w].got)[k].body]
  BY <1>1, <1>2 DEF Has
<1>7. call'[w].pc \in {"unchunk", "chunk"} => call'[w].text # <<>>
  BY <1>2
<1> QED  BY <1>3, <1>4, <1>5, <1>6, <1>7 DEF Has

LEMMA HasMoves ==
  ASSUME LinksInv, NEW w \in Syncs, NEW pc, Moves(w, pc),
         kind' = kind, links' = links \/ kind = "channel",
         kind = "links" /\ Past(w, Asked)' => Past(w, Asked),
         kind = "links" /\ Past(w, Fetched)' => Past(w, Fetched),
         Past(w, Stored)' => Past(w, Stored),
         pc \in {"unchunk", "chunk"} => call[w].text # <<>>
  PROVE  Has(w)'
  BY HasSame DEF Moves

\* A call that has not succeeded and stops is at no place that counts.
LEMMA StopsAt ==
  ASSUME LinksInv, NEW w \in Syncs, NEW pc \in {"fail", "error", "over"},
         Moves(w, pc), kind' = kind, links' = links \/ kind = "channel",
         job'[w] # "succeeded", kind \in {"links", "channel"}
  PROVE  Way(w)' /\ Has(w)' /\ Wrote(w)'
<1>1. call'[w].pc = pc /\ call'[w].next = call[w].next
  BY DEF Moves
<1>2. \A places \in {Asked, Fetched, Stored, Linked, Saved, {"complete", "mark"}} :
        ~ Past(w, places)'
  BY <1>1 DEF Past, Asked, Fetched, Stored, Linked, Saved
<1>3. Has(w)'
  BY <1>2, HasMoves
<1>4. Way(w)'
  BY <1>1 DEF LinksInv, Ways, Way
<1>5. Wrote(w)'
  BY <1>1, <1>2 DEF Wrote
<1> QED  BY <1>3, <1>4, <1>5

\* One that has leaves everything as it is.
LEMMA StopsAfter ==
  ASSUME LinksInv, NEW w \in Syncs, NEW pc \in {"fail", "error", "over"},
         Moves(w, pc), UNCHANGED <<kind, links, raw, doc, chunks>>,
         job'[w] = "succeeded" => job[w] = "succeeded",
         kind \in {"links", "channel"}
  PROVE  Way(w)' /\ Has(w)' /\ (Alone(w) => Wrote(w)')
<1>1. CASE job'[w] # "succeeded"
  BY <1>1, StopsAt
<1>2. CASE job'[w] = "succeeded"
  <2>1. /\ call'[w].pc = pc /\ call'[w].next = call[w].next
        /\ call'[w].got = call[w].got /\ call'[w].text = call[w].text
    BY DEF Moves
  <2>2. \A places : Past(w, places)
    BY <1>2 DEF Past
  <2>3. Has(w)'
    BY <2>2, HasMoves
  <2>4. Way(w)'
    BY <2>1 DEF LinksInv, Ways, Way
  <2>5. Alone(w) => Wrote(w)'
    <3> SUFFICES ASSUME Wrote(w) PROVE Wrote(w)'
      BY DEF LinksInv, Written
    <3>1. /\ \A k \in DOMAIN call[w].got : raw[call[w].got[k].id] = call[w].got[k].body
          /\ kind = "channel" => links = [k \in DOMAIN call[w].got |-> call[w].got[k].id]
          /\ doc.text = call[w].text
          /\ AllChunks(w)
      BY <2>2 DEF Wrote
    <3>2. AllChunks(w)'
      BY <2>1, <3>1 DEF AllChunks
    <3> QED  BY <2>1, <3>1, <3>2 DEF Wrote
  <2> QED  BY <2>3, <2>4, <2>5
<1> QED  BY <1>1, <1>2

LEMMA StepKeeps ==
  ASSUME LinksInv, NEW w \in Syncs, call[w].pc \in Working,
         Steps(w), call'[w].pc \in Working \cup {"over"},
         UNCHANGED <<kind, createVars, channel, crossed>>,
         \A v \in Syncs \ {w} : job'[v] = job[v],
         links' = links \/ kind = "channel",
         StoreTyped', SpentTyped', LinksOnce',
         Way(w)', Has(w)', Alone(w) => Wrote(w)'
  PROVE  LinksInv'
<1>1. TypeOK'
  BY TypeParts, TypePartsNext DEF LinksInv, Steps, CreateTyped, createVars
<1>2. Looked'
  BY DEF LinksInv, Looked, createVars
<1>3. \A v \in Syncs : call'[v].pc # "off" <=> call[v].pc # "off"
  BY DEF Steps, Working
<1>4. LinksListed'
  BY <1>3 DEF LinksInv, LinksListed
<1>5. ASSUME NEW v \in Syncs \ {w} PROVE Way(v)' /\ Has(v)'
  <2>1. Way(v) /\ Has(v) /\ call'[v] = call[v] /\ job'[v] = job[v]
    BY <1>5 DEF LinksInv, Ways, Holds, Steps
  <2>2. Way(v)'
    BY <2>1 DEF Way
  <2>3. \A places : Past(v, places)' <=> Past(v, places)
    BY <2>1 DEF Past
  <2>4. Has(v)'
    BY <2>1, <2>3 DEF Has
  <2> QED  BY <2>2, <2>4
<1>6. Ways' /\ Holds'
  BY <1>5 DEF Ways, Holds
<1>7. \A v \in Syncs : Alone(v)' <=> Alone(v)
  BY <1>3 DEF Alone, Begun, Latest
<1>8. Queue'
  <2>1. \A v \in Syncs : call'[v].pc \in Working => call[v].pc \in Working
    BY DEF Steps
  <2> QED  BY <1>3, <1>7, <2>1 DEF LinksInv, Queue, Begun
<1>9. Written'
  <2>1. ASSUME NEW v \in Syncs \ {w}, Alone(v) PROVE FALSE
    BY <2>1 DEF LinksInv, Queue
  <2> QED  BY <1>7, <2>1 DEF Written
<1> QED  BY <1>1, <1>2, <1>4, <1>6, <1>8, <1>9 DEF LinksInv

-----------------------------------------------------------------------------
(***************************************************************************)
(* The actions that move a call on, or stop it.                            *)
(***************************************************************************)
LEMMA StoreKept ==
  ASSUME LinksInv, UNCHANGED storeVars
  PROVE  StoreTyped' /\ LinksOnce' /\ links' = links /\ job' = job
  BY TypeParts DEF LinksInv, LinksListed, LinksOnce, StoreTyped, storeVars

LEMMA JobTyped ==
  ASSUME LinksInv, NEW w \in Syncs,
         NEW status \in {"none", "queued", "running", "succeeded", "failed"},
         job' = [job EXCEPT ![w] = status],
         UNCHANGED <<links, raw, doc, chunks, src>>
  PROVE  /\ StoreTyped' /\ LinksOnce'
         /\ job'[w] = status /\ \A v \in Syncs \ {w} : job'[v] = job[v]
  BY TypeParts DEF LinksInv, LinksListed, LinksOnce, StoreTyped

\* A call on its way to the first message: nothing is fetched or stored.
LEMMA Early ==
  ASSUME LinksInv, NEW w \in Syncs, NEW pc \in {"runJob", "load", "resolve", "fetch"},
         Moves(w, pc), kind' = kind, links' = links,
         job'[w] # "succeeded", kind \in {"links", "channel"}, call[w].next = 1,
         pc = "load" => kind = "links",
         kind = "links" /\ pc \in {"resolve", "fetch"} => Past(w, Asked)
  PROVE  Way(w)' /\ Has(w)' /\ Wrote(w)'
<1>1. call'[w].pc = pc /\ call'[w].next = 1
  BY DEF Moves
<1>2. \A places \in {Fetched, Stored, Linked, Saved, {"complete", "mark"}} :
        ~ Past(w, places)'
  BY <1>1 DEF Past, Asked, Fetched, Stored, Linked, Saved
<1>3. kind = "links" /\ Past(w, Asked)' => Past(w, Asked)
  BY <1>1 DEF Past, Asked
<1>4. Has(w)'
  BY <1>2, <1>3, HasMoves
<1>5. Way(w)'
  BY <1>1 DEF Way
<1>6. Wrote(w)'
  BY <1>1, <1>2 DEF Wrote
<1> QED  BY <1>4, <1>5, <1>6

LEMMA FailsKeep ==
  ASSUME LinksInv, NEW w \in Syncs, kind \in {"links", "channel"},
         UNCHANGED <<kind, createVars>>, SyncFails(w)
  PROVE  LinksInv'
<1>1. Moves(w, OnError(w)) /\ SpentTyped'
  BY ErrorPlace, MovesTo, FaultTyped DEF SyncFails, LinksInv
<1>2. StoreTyped' /\ LinksOnce' /\ links' = links /\ job' = job
  BY StoreKept DEF SyncFails
<1>3. Way(w)' /\ Has(w)' /\ (Alone(w) => Wrote(w)')
  BY <1>1, <1>2, ErrorPlace, StopsAfter DEF SyncFails, storeVars
<1> QED  BY <1>1, <1>2, <1>3, ErrorPlace, StepKeeps DEF SyncFails, Moves

LEMMA CreateJobKeeps ==
  ASSUME LinksInv, NEW w \in Syncs, kind \in {"links", "channel"},
         UNCHANGED <<kind, createVars>>, CreateJob(w)
  PROVE  LinksInv'
<1>1. /\ call[w].pc = "createJob" /\ call[w].pc \in Working /\ "runJob" \in Working
      /\ OnError(w) = "over"
  BY DEF CreateJob, Working, OnError
<1>2. SpentTyped' /\ (Moves(w, "runJob") \/ Moves(w, "over"))
  BY <1>1, SettlesTo DEF CreateJob, LinksInv
<1>3. /\ StoreTyped' /\ LinksOnce' /\ links' = links
      /\ job'[w] = "queued" /\ \A v \in Syncs \ {w} : job'[v] = job[v]
  BY JobTyped DEF CreateJob
<1>4. call[w].next = 1
  BY <1>1 DEF LinksInv, Ways, Way
<1>5. Way(w)' /\ Has(w)' /\ Wrote(w)'
  BY <1>2, <1>3, <1>4, Early, StopsAt
<1> QED  BY <1>1, <1>2, <1>3, <1>5, StepKeeps DEF CreateJob, Moves

LEMMA UpdateJobRunningKeeps ==
  ASSUME LinksInv, NEW w \in Syncs, kind \in {"links", "channel"},
         UNCHANGED <<kind, createVars>>, UpdateJobRunning(w)
  PROVE  LinksInv'
<1> DEFINE next == IF kind = "links" THEN "load" ELSE "resolve"
<1>1. /\ call[w].pc = "runJob" /\ call[w].pc \in Working /\ next \in Working
      /\ OnError(w) = "over"
  BY DEF UpdateJobRunning, Working, OnError
<1>2. SpentTyped' /\ (Moves(w, next) \/ Moves(w, "over"))
  BY <1>1, SettlesTo DEF UpdateJobRunning, LinksInv
<1>3. /\ StoreTyped' /\ LinksOnce' /\ links' = links
      /\ job'[w] = "running" /\ \A v \in Syncs \ {w} : job'[v] = job[v]
  BY JobTyped DEF UpdateJobRunning
<1>4. call[w].next = 1
  BY <1>1 DEF LinksInv, Ways, Way
<1>5. Way(w)' /\ Has(w)' /\ Wrote(w)'
  BY <1>2, <1>3, <1>4, Early, StopsAt
<1>6. call'[w].pc \in Working \cup {"over"} /\ Steps(w)
  BY <1>1, <1>2 DEF Moves
<1> QED  BY <1>1, <1>2, <1>3, <1>5, <1>6, StepKeeps DEF UpdateJobRunning

LEMMA ResolveKeeps ==
  ASSUME LinksInv, NEW w \in Syncs, kind \in {"links", "channel"},
         UNCHANGED <<kind, createVars>>, Resolve(w)
  PROVE  LinksInv'
<1>1. call[w].pc = "resolve" /\ call[w].pc \in Working /\ "fetch" \in Working
  BY DEF Resolve, Working
<1>2. SpentTyped' /\ Moves(w, "fetch")
  BY <1>1, MovesTo, FaultTyped DEF Resolve, LinksInv
<1>3. StoreTyped' /\ LinksOnce' /\ links' = links /\ job' = job
  BY StoreKept DEF Resolve
<1>4. call[w].next = 1 /\ job[w] # "succeeded" /\ Past(w, Asked)
  BY <1>1 DEF LinksInv, Ways, Way, Past, Asked
<1>5. Way(w)' /\ Has(w)' /\ Wrote(w)'
  BY <1>2, <1>3, <1>4, Early
<1> QED  BY <1>1, <1>2, <1>3, <1>5, StepKeeps DEF Resolve, Moves

LEMMA FailJobKeeps ==
  ASSUME LinksInv, NEW w \in Syncs, kind \in {"links", "channel"},
         UNCHANGED <<kind, createVars>>, FailJob(w)
  PROVE  LinksInv'
<1>1. call[w].pc = "fail" /\ call[w].pc \in Working /\ "error" \in Working
  BY DEF FailJob, Working
<1>2. SpentTyped' /\ Moves(w, "error")
  BY <1>1, MovesTo, FaultTyped DEF FailJob, LinksInv
<1>3. /\ StoreTyped' /\ LinksOnce' /\ links' = links
      /\ job'[w] \in {job[w], "failed"} /\ \A v \in Syncs \ {w} : job'[v] = job[v]
  <2>1. CASE job' = [job EXCEPT ![w] = "failed"]
    BY <2>1, JobTyped DEF FailJob
  <2>2. CASE job' = job
    BY <2>2, StoreKept DEF FailJob, storeVars
  <2> QED  BY <2>1, <2>2 DEF FailJob
<1>4. Way(w)' /\ Has(w)' /\ (Alone(w) => Wrote(w)')
  BY <1>2, <1>3, StopsAfter DEF FailJob
<1> QED  BY <1>1, <1>2, <1>3, <1>4, StepKeeps DEF FailJob, Moves

LEMMA MarkSourceSyncErrorKeeps ==
  ASSUME LinksInv, NEW w \in Syncs, kind \in {"links", "channel"},
         UNCHANGED <<kind, createVars>>, MarkSourceSyncError(w)
  PROVE  LinksInv'
<1>1. call[w].pc = "error" /\ call[w].pc \in Working
  BY DEF MarkSourceSyncError, Working
<1>2. SpentTyped' /\ Moves(w, "over")
  BY <1>1, MovesTo, FaultTyped DEF MarkSourceSyncError, LinksInv
<1>3. StoreTyped' /\ LinksOnce' /\ links' = links /\ job' = job
  BY TypeParts DEF MarkSourceSyncError, LinksInv, LinksListed, LinksOnce, StoreTyped
<1>4. Way(w)' /\ Has(w)' /\ (Alone(w) => Wrote(w)')
  BY <1>2, <1>3, StopsAfter DEF MarkSourceSyncError
<1> QED  BY <1>1, <1>2, <1>3, <1>4, StepKeeps DEF MarkSourceSyncError, Moves

-----------------------------------------------------------------------------
(***************************************************************************)
(* Fetching.                                                               *)
(***************************************************************************)
LEMMA ConstantSeq ==
  ASSUME NEW S, NEW s \in Seq(S), NEW T, NEW t,
         DOMAIN t = DOMAIN s, t = [k \in DOMAIN t |-> t[k]],
         \A k \in DOMAIN s : t[k] \in T
  PROVE  t \in Seq(T) /\ Len(t) = Len(s) /\ DOMAIN t = 1 .. Len(s)
<1>1. Len(s) \in Nat /\ DOMAIN s = 1 .. Len(s)
  BY LenProperties
<1>2. t \in [1 .. Len(s) -> T]
  BY <1>1
<1>3. t \in Seq(T)
  BY <1>1, <1>2, SeqDef
<1> QED  BY <1>1, <1>2, <1>3, LenProperties

LEMMA LoadLinksKeeps ==
  ASSUME LinksInv, NEW w \in Syncs, kind \in {"links", "channel"},
         UNCHANGED <<kind, createVars>>, LoadLinks(w)
  PROVE  LinksInv'
<1> DEFINE got == [k \in DOMAIN links |-> [id |-> links[k], body |-> NoText]]
           row == [call[w] EXCEPT !.pc = "resolve", !.got = got]
<1>1. call[w].pc = "load" /\ call[w].pc \in Working /\ kind = "links"
      /\ call[w].next = 1 /\ job[w] # "succeeded"
  BY DEF LoadLinks, Working, LinksInv, Ways, Way
<1>2. got \in Seq(Message)
  <2>1. links \in Seq(Ids)
    BY TypeParts DEF LinksInv, StoreTyped
  <2>2. \A k \in DOMAIN links : links[k] \in Ids
    BY <2>1, LenProperties, ElementOfSeq
  <2>3. \A k \in DOMAIN links : got[k] \in Message
    BY <2>2 DEF Message, Bodies
  <2> QED  BY <2>1, <2>3, ConstantSeq
<1>3. /\ row \in CallRow /\ row.pc = "resolve" /\ row.got = got /\ row.next = 1
  <2>1. call[w] \in CallRow
    BY RowFacts DEF LinksInv
  <2> QED  BY <1>1, <1>2, <2>1 DEF CallRow, Working
<1>4. \A k \in DOMAIN links : got[k].body = NoText /\ got[k].id = links[k]
  OBVIOUS
<1>5. got = [k \in DOMAIN links |-> [id |-> links[k], body |-> got[k].body]]
  BY <1>4
<1>6. call' = [call EXCEPT ![w] = row]
  BY DEF LoadLinks
<1> HIDE DEF got, row
<1>7. Steps(w) /\ call'[w] = row
  BY <1>3, <1>6, RowSteps DEF LinksInv
<1>8. StoreTyped' /\ LinksOnce' /\ links' = links /\ job' = job
  BY StoreKept DEF LoadLinks
<1>9. \A places \in {Fetched, Stored, Linked, Saved, {"complete", "mark"}} :
        ~ Past(w, places)'
  BY <1>1, <1>3, <1>7, <1>8 DEF Past, Asked, Fetched, Stored, Linked, Saved
<1>10. Way(w)' /\ Has(w)' /\ Wrote(w)'
  <2>1. Way(w)'
    BY <1>1, <1>3, <1>7, <1>8 DEF Way
  <2>2. Has(w)'
    BY <1>1, <1>3, <1>5, <1>7, <1>8, <1>9 DEF Has
  <2>3. Wrote(w)'
    BY <1>3, <1>7, <1>9 DEF Wrote
  <2> QED  BY <2>1, <2>2, <2>3
<1>11. SpentTyped' /\ call'[w].pc \in Working
  BY <1>3, <1>7, TypeParts DEF LoadLinks, LinksInv, SpentTyped, Working
<1> QED  BY <1>1, <1>7, <1>8, <1>10, <1>11, StepKeeps DEF LoadLinks

LEMMA FetchMessagesKeeps ==
  ASSUME LinksInv, NEW w \in Syncs, kind \in {"links", "channel"},
         UNCHANGED <<kind, createVars>>, FetchMessages(w)
  PROVE  LinksInv'
<1> DEFINE got == [k \in DOMAIN call[w].got |->
                     [id |-> call[w].got[k].id, body |-> channel[call[w].got[k].id]]]
           row == [call[w] EXCEPT !.pc = "raw", !.got = got]
<1>1. call[w].pc = "fetch" /\ call[w].pc \in Working /\ kind = "links"
      /\ call[w].next = 1 /\ job[w] # "succeeded" /\ Past(w, Asked)
  BY DEF FetchMessages, Working, LinksInv, Ways, Way, Past, Asked
<1>2. StoreTyped' /\ LinksOnce' /\ links' = links /\ job' = job
  BY StoreKept DEF FetchMessages
<1>3. SpentTyped'
  BY TypeParts DEF FetchMessages, LinksInv, SpentTyped
<1>4. CASE call' = [call EXCEPT ![w].pc = "fail"]
  <2>1. Moves(w, "fail")
    BY <1>4, MovesTo DEF LinksInv, Working
  <2>2. Way(w)' /\ Has(w)' /\ Wrote(w)'
    BY <1>1, <1>2, <2>1, StopsAt
  <2>3. call'[w].pc \in Working /\ Steps(w)
    BY <2>1 DEF Moves, Working
  <2> QED  BY <1>1, <1>2, <1>3, <2>2, <2>3, StepKeeps DEF FetchMessages
<1>5. CASE /\ ~ \E k \in DOMAIN got : got[k].body = NoText
           /\ call' = [call EXCEPT ![w].pc = "raw", ![w].got = got]
  <2>1. call[w].got \in Seq(Message) /\ call[w] \in CallRow
    BY RowFacts DEF LinksInv
  <2>2. \A k \in DOMAIN call[w].got : call[w].got[k] \in Message
    BY <2>1, LenProperties, ElementOfSeq
  <2>3. channel \in [Ids -> Bodies]
    BY TypeParts DEF LinksInv
  <2>4. \A k \in DOMAIN call[w].got : got[k] \in Message
    BY <2>2, <2>3 DEF Message
  <2>5. got \in Seq(Message)
    <3>1. DOMAIN got = DOMAIN call[w].got /\ got = [k \in DOMAIN got |-> got[k]]
      OBVIOUS
    <3> HIDE DEF got
    <3> QED  BY <2>1, <2>4, <3>1, ConstantSeq
  <2>6. row \in CallRow /\ row.pc = "raw" /\ row.got = got /\ row.next = 1
    BY <1>1, <2>1, <2>5 DEF CallRow, Working
  <2>7. call[w].got = [k \in DOMAIN links |->
                         [id |-> links[k], body |-> call[w].got[k].body]]
    BY <1>1 DEF LinksInv, Holds, Has
  <2>8. DOMAIN call[w].got = DOMAIN links
        /\ \A k \in DOMAIN links : call[w].got[k].id = links[k]
    BY <2>7
  <2>9. got = [k \in DOMAIN links |-> [id |-> links[k], body |-> got[k].body]]
    BY <2>8
  <2>10. \A k \in DOMAIN got : got[k].body # NoText
    BY <1>5
  <2>11. call' = [call EXCEPT ![w] = row]
    BY <1>5
  <2> HIDE DEF got, row
  <2>12. Steps(w) /\ call'[w] = row
    BY <2>6, <2>11, RowSteps DEF LinksInv
  <2>13. \A places \in {Stored, Linked, Saved, {"complete", "mark"}} : ~ Past(w, places)'
    BY <1>1, <1>2, <2>6, <2>12 DEF Past, Asked, Fetched, Stored, Linked, Saved
  <2>14. Way(w)'
    BY <1>1, <1>2, <2>6, <2>12 DEF Way
  <2>15. Has(w)'
    BY <1>1, <1>2, <2>6, <2>9, <2>10, <2>12, <2>13 DEF Has
  <2>16. Wrote(w)'
    <3>1. \A k \in DOMAIN got : ~ (k < 1)
      BY <2>5, LenProperties
    <3> QED  BY <2>6, <2>12, <2>13, <3>1 DEF Wrote
  <2>17. call'[w].pc \in Working
    BY <2>6, <2>12 DEF Working
  <2> QED  BY <1>1, <1>2, <1>3, <2>12, <2>14, <2>15, <2>16, <2>17, StepKeeps
           DEF FetchMessages
<1> QED  BY <1>4, <1>5 DEF FetchMessages

LEMMA HistoryFetchedKeeps ==
  ASSUME LinksInv, NEW w \in Syncs, kind \in {"links", "channel"},
         UNCHANGED <<kind, createVars>>, HistoryFetched(w)
  PROVE  LinksInv'
<1>1. call[w].pc = "fetch" /\ call[w].pc \in Working /\ kind = "channel"
      /\ call[w].next = 1 /\ job[w] # "succeeded"
  BY DEF HistoryFetched, Working, LinksInv, Ways, Way
<1>2. StoreTyped' /\ LinksOnce' /\ links' = links /\ job' = job
  BY StoreKept DEF HistoryFetched
<1>3. SpentTyped' /\ Moves(w, "raw")
  BY MovesTo, FaultTyped DEF HistoryFetched, LinksInv, Working
<1>4. call'[w].pc = "raw" /\ call'[w].next = 1 /\ call'[w].got = call[w].got
  BY <1>1, <1>3 DEF Moves
<1>5. \A places \in {Stored, Linked, Saved, {"complete", "mark"}} : ~ Past(w, places)'
  BY <1>1, <1>2, <1>4 DEF Past, Asked, Fetched, Stored, Linked, Saved
<1>6. Has(w)'
  BY <1>1, <1>2, <1>3, <1>5, HasMoves
<1>7. Way(w)'
  BY <1>1, <1>2, <1>4 DEF Way
<1>8. Wrote(w)'
  <2>1. call[w].got \in Seq(Message)
    BY RowFacts DEF LinksInv
  <2>2. \A k \in DOMAIN call'[w].got : ~ (k < 1)
    BY <1>4, <2>1, LenProperties
  <2> QED  BY <1>4, <1>5, <2>2 DEF Wrote
<1>9. call'[w].pc \in Working /\ Steps(w)
  BY <1>3 DEF Moves, Working
<1> QED  BY <1>1, <1>2, <1>3, <1>6, <1>7, <1>8, <1>9, StepKeeps DEF HistoryFetched

LEMMA BelowFacts ==
  ASSUME NEW cursor \in Nat
  PROVE  /\ Below(cursor) \in Seq(Ids)
         /\ \A k \in 1 .. Len(Below(cursor)) :
              /\ channel[Below(cursor)[k]] # NoText
              /\ cursor = 0 \/ Below(cursor)[k] < cursor
         /\ \A j, k \in 1 .. Len(Below(cursor)) :
              j < k => Below(cursor)[j] < Below(cursor)[k]
<1> DEFINE all == [m \in Ids |-> m]
           at == {m \in Ids : channel[m] # NoText /\ (cursor = 0 \/ m < cursor)}
           below == Below(cursor)
<1>1. all \in Seq(Ids) /\ Len(all) = MaxId
  BY ConstantFacts, SeqDef DEF Ids
<1>2. PICK p : Picks(below, Ids, all, at, Len(all), p)
  BY <1>1, SelectedPicks DEF Below
<1>3. /\ below \in Seq(Ids)
      /\ \A k \in 1 .. Len(below) : p[k] \in at /\ below[k] = all[p[k]]
      /\ \A j, k \in 1 .. Len(below) : j < k => p[j] < p[k]
  BY <1>2 DEF Picks
<1>4. \A k \in 1 .. Len(below) : below[k] = p[k] /\ p[k] \in at
  BY <1>3
<1> HIDE DEF below
<1>5. \A j, k \in 1 .. Len(below) : j < k => below[j] < below[k]
  BY <1>3, <1>4
<1> QED  BY <1>3, <1>4, <1>5 DEF below

LEMMA LeastOfTwo ==
  ASSUME NEW a \in Nat, NEW b \in Nat
  PROVE  Min({a, b}) \in Nat /\ Min({a, b}) <= a /\ Min({a, b}) <= b
<1>1. \E x \in {a, b} : \A y \in {a, b} : x <= y
  OBVIOUS
<1>2. Min({a, b}) \in {a, b} /\ \A y \in {a, b} : Min({a, b}) <= y
  BY <1>1 DEF Min
<1> QED  BY <1>2

\* Two lists of messages in the order of their ids, the first below the second.
Between(list, low, high) ==
  /\ \A k \in 1 .. Len(list) : /\ list[k].body # NoText
                               /\ low <= list[k].id
                               /\ high = 0 \/ list[k].id < high
  /\ \A j, k \in 1 .. Len(list) : j < k => list[j].id < list[k].id

LEMMA Joined ==
  ASSUME NEW page \in Seq(Message), NEW old \in Seq(Message),
         NEW low \in Nat, NEW cursor \in Nat, cursor # 0 => low <= cursor,
         Between(page, low, cursor), Between(old, cursor, 0),
         cursor = 0 => Len(old) = 0
  PROVE  page \o old \in Seq(Message) /\ Between(page \o old, low, 0)
<1> DEFINE got == page \o old
<1>1. Len(page) \in Nat /\ Len(old) \in Nat
  BY LenProperties
<1>2. got \in Seq(Message) /\ Len(got) = Len(page) + Len(old)
  BY ConcatProperties
<1>3. \A i \in 1 .. Len(page) + Len(old) :
        got[i] = IF i <= Len(page) THEN page[i] ELSE old[i - Len(page)]
  BY ConcatProperties
<1> HIDE DEF got
<1>4. \A k \in 1 .. Len(page) : got[k] = page[k]
  BY <1>1, <1>3
<1>5. \A k \in 1 .. Len(got) :
        \/ k \in 1 .. Len(page)
        \/ k - Len(page) \in 1 .. Len(old) /\ got[k] = old[k - Len(page)]
  BY <1>1, <1>2, <1>3
<1>6. \A k \in 1 .. Len(page) : page[k].id \in Nat
  <2>1. \A k \in 1 .. Len(page) : page[k] \in Message
    BY ElementOfSeq
  <2> QED  BY <2>1, ConstantFacts DEF Message
<1>7. \A k \in 1 .. Len(old) : old[k].id \in Nat
  <2>1. \A k \in 1 .. Len(old) : old[k] \in Message
    BY ElementOfSeq
  <2> QED  BY <2>1, ConstantFacts DEF Message
<1>8. \A k \in 1 .. Len(old) : cursor # 0 /\ cursor <= old[k].id
  BY <1>1 DEF Between
<1>9. ASSUME NEW k \in 1 .. Len(got)
      PROVE  got[k].body # NoText /\ low <= got[k].id
  <2>1. CASE k \in 1 .. Len(page)
    BY <1>4, <2>1 DEF Between
  <2>2. CASE k - Len(page) \in 1 .. Len(old) /\ got[k] = old[k - Len(page)]
    BY <1>7, <1>8, <2>2 DEF Between
  <2> QED  BY <1>5, <2>1, <2>2
<1>10. ASSUME NEW j \in 1 .. Len(got), NEW k \in 1 .. Len(got), j < k
       PROVE  got[j].id < got[k].id
  <2>1. j \in Nat /\ k \in Nat
    BY <1>1, <1>2
  <2>2. CASE k \in 1 .. Len(page)
    <3>1. j \in 1 .. Len(page)
      BY <1>1, <1>10, <2>1, <2>2
    <3> QED  BY <1>4, <1>10, <2>2, <3>1 DEF Between
  <2>3. CASE /\ k - Len(page) \in 1 .. Len(old) /\ got[k] = old[k - Len(page)]
             /\ j \in 1 .. Len(page)
    <3>1. got[j] = page[j] /\ page[j].id \in Nat /\ old[k - Len(page)].id \in Nat
      BY <1>4, <1>6, <1>7, <2>3
    <3>2. page[j].id < cursor /\ cursor <= old[k - Len(page)].id
      BY <1>8, <2>3 DEF Between
    <3> QED  BY <2>3, <3>1, <3>2
  <2>4. CASE /\ k - Len(page) \in 1 .. Len(old) /\ got[k] = old[k - Len(page)]
             /\ j - Len(page) \in 1 .. Len(old) /\ got[j] = old[j - Len(page)]
    <3>1. j - Len(page) < k - Len(page)
      BY <1>1, <1>10, <2>1
    <3> QED  BY <2>4, <3>1 DEF Between
  <2> QED  BY <1>5, <2>2, <2>3, <2>4
<1> QED  BY <1>2, <1>9, <1>10 DEF Between, got

\* A page goes before what was fetched: it is older.
Newest(cursor, n) ==
  SubSeq(Below(cursor), Len(Below(cursor)) - n + 1, Len(Below(cursor)))

Page(cursor, n) ==
  [k \in 1 .. n |-> [id |-> Newest(cursor, n)[k],
                     body |-> channel[Newest(cursor, n)[k]]]]

Oldest(cursor, n) == IF n > 0 THEN Newest(cursor, n)[1] ELSE cursor

LEMMA PageIsOlder ==
  ASSUME channel \in [Ids -> Bodies], NEW cursor \in Nat, cursor \in 0 .. MaxId,
         NEW n \in Nat, n <= Len(Below(cursor))
  PROVE  /\ Page(cursor, n) \in Seq(Message) /\ Len(Page(cursor, n)) = n
         /\ Oldest(cursor, n) \in 0 .. MaxId /\ Oldest(cursor, n) \in Nat
         /\ n > 0 => Oldest(cursor, n) # 0
         /\ n = 0 => Oldest(cursor, n) = cursor
         /\ cursor # 0 => Oldest(cursor, n) <= cursor
         /\ Between(Page(cursor, n), Oldest(cursor, n), cursor)
<1> DEFINE below == Below(cursor)
           newest == Newest(cursor, n)
           page == Page(cursor, n)
           low == Oldest(cursor, n)
<1>0. /\ newest = SubSeq(Below(cursor), Len(Below(cursor)) - n + 1, Len(Below(cursor)))
      /\ page = [k \in 1 .. n |-> [id |-> newest[k], body |-> channel[newest[k]]]]
      /\ low = IF n > 0 THEN newest[1] ELSE cursor
  BY DEF Newest, Page, Oldest
<1>1. /\ below \in Seq(Ids) /\ Len(below) \in Nat
      /\ \A k \in 1 .. Len(below) : /\ below[k] \in Ids /\ channel[below[k]] # NoText
                                    /\ cursor = 0 \/ below[k] < cursor
      /\ \A j, k \in 1 .. Len(below) : j < k => below[j] < below[k]
  BY BelowFacts, LenProperties, ElementOfSeq
<1>2. n <= Len(below) /\ newest = SubSeq(below, Len(below) - n + 1, Len(below))
  BY <1>0
<1> HIDE DEF below, newest, page, low
<1>3. \A k \in 1 .. n : newest[k] = below[Len(below) - n + k]
  <2>1. \A k \in Len(below) - n + 1 .. Len(below) : below[k] \in Ids
    BY <1>1, <1>2
  <2> DEFINE first == Len(below) - n + 1
  <2>2. first \in Int /\ Len(below) \in Int /\ Len(below) - first + 1 = n
    BY <1>1
  <2>3. \A k \in first .. Len(below) : below[k] \in Ids
    BY <2>1
  <2>4. newest = SubSeq(below, first, Len(below))
    BY <1>2
  <2> HIDE DEF first
  <2>5. \A k \in 1 .. Len(below) - first + 1 : newest[k] = below[first + k - 1]
    <3> DEFINE last == Len(below)
    <3>1. last \in Int /\ \A k \in first .. last : below[k] \in Ids
      BY <2>2, <2>3
    <3>2. newest = SubSeq(below, first, last)
      BY <2>4
    <3> HIDE DEF last
    <3>3. \A i \in 1 .. last - first + 1 : SubSeq(below, first, last)[i] = below[first + i - 1]
      BY <2>2, <3>1, SubSeqProperties
    <3> QED  BY <3>2, <3>3 DEF last
  <2>6. \A k \in 1 .. n : newest[k] = below[first + k - 1]
    BY <2>2, <2>5
  <2>7. \A k \in 1 .. n : first + k - 1 = Len(below) - n + k
    BY <1>1 DEF first
  <2> QED  BY <2>6, <2>7
<1>4. \A k \in 1 .. n : Len(below) - n + k \in 1 .. Len(below)
  BY <1>1, <1>2
<1>5. \A k \in 1 .. n : /\ newest[k] \in Ids /\ channel[newest[k]] # NoText
                        /\ cursor = 0 \/ newest[k] < cursor
  BY <1>1, <1>3, <1>4
<1>6. \A k \in 1 .. n : newest[k] \in Nat /\ newest[k] # 0
  BY <1>5, ConstantFacts
<1>7. ASSUME NEW j \in 1 .. n, NEW k \in 1 .. n, j < k PROVE newest[j] < newest[k]
  <2>1. Len(below) - n + j < Len(below) - n + k
    BY <1>1, <1>7
  <2> QED  BY <1>1, <1>3, <1>4, <1>7, <2>1
<1>8. /\ page \in Seq(Message) /\ Len(page) = n
      /\ \A k \in 1 .. n : page[k].id = newest[k] /\ page[k].body = channel[newest[k]]
  <2>1. channel \in [Ids -> Bodies]
    OBVIOUS
  <2>2. \A k \in 1 .. n : [id |-> newest[k], body |-> channel[newest[k]]] \in Message
    BY <1>5, <2>1 DEF Message
  <2>3. page \in [1 .. n -> Message]
    BY <1>0, <2>2
  <2>4. page \in Seq(Message)
    BY <2>3, SeqDef
  <2>5. Len(page) = n
    BY <2>3, <2>4, LenProperties
  <2> QED  BY <1>0, <2>4, <2>5
<1>9. \A k \in 1 .. n : newest[1] <= newest[k]
  <2> SUFFICES ASSUME NEW k \in 1 .. n PROVE newest[1] <= newest[k]
    OBVIOUS
  <2>0. 1 \in 1 .. n
    OBVIOUS
  <2>1. 1 \in 1 .. n /\ newest[1] \in Nat /\ newest[k] \in Nat
    BY <1>6, <2>0
  <2>2. CASE k = 1
    BY <2>1, <2>2
  <2>3. CASE k # 1
    <3>1. 1 < k
      BY <2>3
    <3>2. newest[1] < newest[k]
      BY <1>7, <2>1, <3>1
    <3> QED  BY <2>1, <3>2
  <2> QED  BY <2>2, <2>3
<1>10. n > 0 => newest[1] \in Ids /\ newest[1] \in Nat /\ newest[1] # 0
                /\ (cursor = 0 \/ newest[1] < cursor)
  BY <1>5, <1>6
<1>11. low \in 0 .. MaxId /\ low \in Nat /\ (n > 0 => low # 0)
       /\ (cursor # 0 => low <= cursor)
  BY <1>0, <1>10 DEF Ids
<1>12. (\A k \in 1 .. n : low = newest[1]) /\ (n = 0 => low = cursor)
  BY <1>0
<1>13. Between(page, low, cursor)
  BY <1>5, <1>7, <1>8, <1>9, <1>12 DEF Between
<1> QED  BY <1>8, <1>11, <1>12, <1>13 DEF page, low

LEMMA FetchHistoryKeeps ==
  ASSUME LinksInv, NEW w \in Syncs, kind \in {"links", "channel"},
         UNCHANGED <<kind, createVars>>, FetchHistory(w)
  PROVE  LinksInv'
<1> DEFINE below == Below(call[w].cursor)
           n == Min({PageLimit(call[w]), Len(below)})
           page == Page(call[w].cursor, n)
           low == Oldest(call[w].cursor, n)
           row == [call[w] EXCEPT !.got = page \o @, !.cursor = low,
                                  !.more = n = PageLimit(call[w])]
<1>1. /\ call[w].pc = "fetch" /\ call[w].pc \in Working /\ kind = "channel"
      /\ call[w].next = 1 /\ job[w] # "succeeded" /\ TypeOK /\ Has(w)
  BY DEF FetchHistory, Working, LinksInv, Ways, Way, Holds
<1>2. /\ call[w] \in CallRow /\ call[w].got \in Seq(Message)
      /\ Len(call[w].got) \in Nat /\ DOMAIN call[w].got = 1 .. Len(call[w].got)
      /\ call[w].cursor \in Nat /\ call[w].cursor \in 0 .. MaxId
      /\ call[w].limit \in Nat
  <2>1. /\ call[w] \in CallRow /\ call[w].got \in Seq(Message)
        /\ call[w].cursor \in 0 .. MaxId /\ call[w].limit \in Limits \cup {0}
    BY <1>1, RowFacts
  <2>2. call[w].cursor \in Nat
    <3>1. 0 .. MaxId \subseteq Nat
      OBVIOUS
    <3> QED  BY <2>1, <3>1
  <2>3. call[w].limit \in Nat
    <3>1. Limits \cup {0} \subseteq Nat
      BY ConstantFacts
    <3> QED  BY <2>1, <3>1
  <2>4. Len(call[w].got) \in Nat /\ DOMAIN call[w].got = 1 .. Len(call[w].got)
    BY <2>1, LenProperties
  <2> QED  BY <2>1, <2>2, <2>3, <2>4
<1>3. PageLimit(call[w]) \in Nat
  <2>1. call[w].limit = 0 \/ Len(call[w].got) < call[w].limit
    BY DEF FetchHistory
  <2>2. PICK limit \in Nat : limit = call[w].limit
    BY <1>2
  <2>3. PICK have \in Nat : have = Len(call[w].got)
    BY <1>2
  <2>4. limit > 0 => limit - have \in Nat
    BY <2>1, <2>2, <2>3
  <2>5. PageSize \in Nat
    BY ConstantFacts
  <2> QED  BY <2>2, <2>3, <2>4, <2>5 DEF PageLimit
<1>4. n \in Nat /\ n <= Len(below)
  <2>1. Len(below) \in Nat
    BY <1>2, BelowFacts, LenProperties
  <2> QED  BY <1>3, <2>1, LeastOfTwo
<1>5. Settle(w, row)
  BY DEF FetchHistory, Page, Newest, Oldest
<1>6. /\ page \in Seq(Message) /\ Len(page) = n
      /\ low \in 0 .. MaxId /\ low \in Nat
      /\ n > 0 => low # 0
      /\ n = 0 => low = call[w].cursor
      /\ call[w].cursor # 0 => low <= call[w].cursor
      /\ Between(page, low, call[w].cursor)
  <2>1. channel \in [Ids -> Bodies]
    BY <1>1, TypeParts
  <2> HIDE DEF n
  <2> QED  BY <1>2, <1>4, <2>1, PageIsOlder
<1> HIDE DEF n, page, low
<1>8. Between(call[w].got, call[w].cursor, 0)
      /\ (call[w].cursor = 0 => Len(call[w].got) = 0)
  <2>1. /\ \A k \in 1 .. Len(call[w].got) : /\ call[w].got[k].body # NoText
                                            /\ call[w].cursor <= call[w].got[k].id
        /\ \A j, k \in 1 .. Len(call[w].got) :
             j < k => call[w].got[j].id < call[w].got[k].id
        /\ call[w].cursor = 0 => call[w].got = <<>>
    BY <1>1, <1>2 DEF Has
  <2> QED  BY <2>1, EmptySeq DEF Between
<1>9. page \o call[w].got \in Seq(Message) /\ Between(page \o call[w].got, low, 0)
  BY <1>2, <1>6, <1>8, Joined
<1>10. low = 0 => page \o call[w].got = <<>>
  <2> SUFFICES ASSUME low = 0 PROVE page \o call[w].got = <<>>
    OBVIOUS
  <2>1. n = 0 /\ call[w].cursor = 0
    BY <1>4, <1>6
  <2>2. Len(page \o call[w].got) = 0
    BY <1>2, <1>6, <1>8, <2>1, ConcatProperties
  <2> QED  BY <1>9, <2>2, EmptySeq
<1>11. /\ row \in CallRow /\ row.pc = "fetch" /\ row.got = page \o call[w].got
       /\ row.cursor = low /\ row.next = 1
  BY <1>1, <1>2, <1>6, <1>9 DEF CallRow
<1> HIDE DEF row
<1>12. SpentTyped' /\ ((Steps(w) /\ call'[w] = row) \/ Moves(w, OnError(w)))
  BY <1>1, <1>5, <1>11, Settles
<1>13. StoreTyped' /\ LinksOnce' /\ links' = links /\ job' = job
  BY StoreKept DEF FetchHistory
<1>14. CASE Moves(w, OnError(w))
  <2>1. OnError(w) = "fail"
    BY <1>1 DEF OnError
  <2>2. Way(w)' /\ Has(w)' /\ Wrote(w)'
    BY <1>1, <1>13, <1>14, <2>1, StopsAt
  <2>3. call'[w].pc \in Working /\ Steps(w)
    BY <1>14, <2>1 DEF Moves, Working
  <2> QED  BY <1>1, <1>12, <1>13, <2>2, <2>3, StepKeeps DEF FetchHistory
<1>15. CASE Steps(w) /\ call'[w] = row
  <2>1. \A places \in {Fetched, Stored, Linked, Saved, {"complete", "mark"}} :
          ~ Past(w, places)'
    BY <1>1, <1>11, <1>13, <1>15 DEF Past, Asked, Fetched, Stored, Linked, Saved
  <2>2. DOMAIN (page \o call[w].got) = 1 .. Len(page \o call[w].got)
    BY <1>9, LenProperties
  <2> DEFINE got == page \o call[w].got
  <2>a. call'[w].got = got /\ call'[w].cursor = low /\ call'[w].pc = "fetch"
    BY <1>11, <1>15
  <2>b. /\ \A k \in DOMAIN got : got[k].body # NoText /\ low <= got[k].id
        /\ \A j, k \in DOMAIN got : j < k => got[j].id < got[k].id
        /\ low = 0 => got = <<>>
    BY <1>9, <1>10, <2>2 DEF Between
  <2> HIDE DEF got
  <2>3. Has(w)'
    BY <1>1, <2>1, <2>a, <2>b DEF Has
  <2>4. Way(w)'
    BY <1>1, <1>11, <1>13, <1>15 DEF Way
  <2>5. Wrote(w)'
    BY <1>11, <1>15, <2>1 DEF Wrote
  <2>6. call'[w].pc \in Working
    BY <1>11, <1>15 DEF Working
  <2> QED  BY <1>1, <1>12, <1>13, <1>15, <2>3, <2>4, <2>5, <2>6, StepKeeps
           DEF FetchHistory
<1> QED  BY <1>12, <1>14, <1>15

-----------------------------------------------------------------------------
(***************************************************************************)
(* Storing the messages.                                                   *)
(***************************************************************************)
LEMMA DistinctMessages ==
  ASSUME LinksInv, NEW w \in Syncs, kind \in {"links", "channel"},
         Past(w, Fetched)
  PROVE  /\ \A k \in DOMAIN call[w].got : call[w].got[k].body # NoText
         /\ \A j, k \in DOMAIN call[w].got :
              call[w].got[j].id = call[w].got[k].id => j = k
<1>1. Has(w) /\ Past(w, Asked)
  BY DEF LinksInv, Holds, Past, Asked, Fetched
<1>2. CASE kind = "links"
  <2>1. call[w].got = [k \in DOMAIN links |->
                         [id |-> links[k], body |-> call[w].got[k].body]]
    BY <1>1, <1>2 DEF Has
  <2>2. DOMAIN call[w].got = DOMAIN links
        /\ \A k \in DOMAIN links : call[w].got[k].id = links[k]
    BY <2>1
  <2>3. \A j, k \in DOMAIN links : links[j] = links[k] => j = k
    BY DEF LinksInv, LinksListed, LinksOnce
  <2> QED  BY <1>1, <1>2, <2>2, <2>3 DEF Has
<1>3. CASE kind = "channel"
  <2>1. /\ \A k \in DOMAIN call[w].got : call[w].got[k].body # NoText
        /\ \A j, k \in DOMAIN call[w].got :
             j < k => call[w].got[j].id < call[w].got[k].id
    BY <1>1, <1>3 DEF Has
  <2>2. DOMAIN call[w].got \subseteq Nat
        /\ \A k \in DOMAIN call[w].got : call[w].got[k].id \in Nat
    <3>1. call[w].got \in Seq(Message)
      BY RowFacts DEF LinksInv
    <3>2. \A k \in DOMAIN call[w].got : call[w].got[k] \in Message
      BY <3>1, LenProperties, ElementOfSeq
    <3>3. \A k \in DOMAIN call[w].got : call[w].got[k].id \in Nat
      BY <3>2, ConstantFacts DEF Message
    <3> QED  BY <3>1, <3>3, LenProperties
  <2>3. ASSUME NEW j \in DOMAIN call[w].got, NEW k \in DOMAIN call[w].got,
               call[w].got[j].id = call[w].got[k].id, j # k
        PROVE  FALSE
    <3>1. j < k \/ k < j
      BY <2>2, <2>3
    <3> QED  BY <2>1, <2>2, <2>3, <3>1
  <2> QED  BY <2>1, <2>3
<1> QED  BY <1>2, <1>3

LEMMA UpsertRawMessageKeeps ==
  ASSUME LinksInv, NEW w \in Syncs, kind \in {"links", "channel"},
         UNCHANGED <<kind, createVars>>, UpsertRawMessage(w)
  PROVE  LinksInv'
<1> DEFINE message == call[w].got[call[w].next]
           row == [call[w] EXCEPT !.next = @ + 1]
<1>1. /\ call[w].pc = "raw" /\ call[w].pc \in Working /\ TypeOK
      /\ job[w] # "succeeded" /\ Past(w, Fetched) /\ Past(w, Asked)
      /\ call[w].next \in Nat \ {0} /\ call[w].next <= Len(call[w].got)
      /\ call[w].got \in Seq(Message) /\ call[w] \in CallRow
  BY RowFacts DEF UpsertRawMessage, Working, LinksInv, Ways, Way, Past, Fetched, Asked
<1>2. /\ DOMAIN call[w].got = 1 .. Len(call[w].got) /\ Len(call[w].got) \in Nat
      /\ call[w].next \in DOMAIN call[w].got /\ message \in Message
  BY <1>1, LenProperties, ElementOfSeq
<1>3. StoreTyped' /\ links' = links /\ job' = job /\ LinksOnce'
  <2>1. raw \in [Ids -> Bodies]
    BY TypeParts DEF LinksInv, StoreTyped
  <2>2. raw' \in [Ids -> Bodies]
    BY <1>2, <2>1 DEF UpsertRawMessage, Message
  <2> QED  BY <2>2, TypeParts
           DEF UpsertRawMessage, LinksInv, LinksListed, LinksOnce, StoreTyped
<1>4. row \in CallRow /\ row.pc = "raw" /\ row.next = call[w].next + 1
      /\ row.got = call[w].got /\ row.text = call[w].text /\ row.cursor = call[w].cursor
  BY <1>1 DEF CallRow
<1>5. Settle(w, row)
  BY DEF UpsertRawMessage
<1> HIDE DEF row
<1>6. SpentTyped' /\ ((Steps(w) /\ call'[w] = row) \/ Moves(w, OnError(w)))
  BY <1>1, <1>4, <1>5, Settles
<1>7. CASE Moves(w, OnError(w))
  <2>1. OnError(w) = "fail"
    BY <1>1 DEF OnError
  <2>2. Way(w)' /\ Has(w)' /\ Wrote(w)'
    BY <1>1, <1>3, <1>7, <2>1, StopsAt
  <2>3. call'[w].pc \in Working /\ Steps(w)
    BY <1>7, <2>1 DEF Moves, Working
  <2> QED  BY <1>1, <1>3, <1>6, <2>2, <2>3, StepKeeps DEF UpsertRawMessage
<1>8. CASE Steps(w) /\ call'[w] = row
  <2>1. \A places \in {Stored, Linked, Saved, {"complete", "mark"}} : ~ Past(w, places)'
    BY <1>1, <1>3, <1>4, <1>8 DEF Past, Asked, Fetched, Stored, Linked, Saved
  <2>2. Has(w)'
    BY <1>1, <1>3, <1>4, <1>8, <2>1, HasSame
  <2>3. Way(w)'
    BY <1>1, <1>3, <1>4, <1>8 DEF Way
  <2>4. Alone(w) => Wrote(w)'
    <3> SUFFICES ASSUME Alone(w) PROVE Wrote(w)'
      OBVIOUS
    <3>1. \A k \in DOMAIN call[w].got :
            k < call[w].next => raw[call[w].got[k].id] = call[w].got[k].body
      BY <1>1 DEF LinksInv, Written, Wrote
    <3>2. raw' = [raw EXCEPT ![message.id] = message.body]
      BY DEF UpsertRawMessage
    <3>3. ASSUME NEW k \in DOMAIN call[w].got, k < call[w].next + 1
          PROVE  raw'[call[w].got[k].id] = call[w].got[k].body
      <4>1. raw \in [Ids -> Bodies] /\ call[w].got[k] \in Message
        BY <1>1, <1>2, TypeParts, ElementOfSeq DEF StoreTyped
      <4>2. CASE k = call[w].next
        BY <3>2, <4>1, <4>2 DEF Message
      <4>3. CASE k # call[w].next
        <5>1. k < call[w].next
          BY <1>1, <1>2, <3>3, <4>3
        <5>2. call[w].got[k].id # message.id
          BY <1>1, <1>2, <4>3, DistinctMessages
        <5> QED  BY <3>1, <3>2, <4>1, <5>1, <5>2 DEF Message
      <4> QED  BY <4>2, <4>3
    <3> QED  BY <1>4, <1>8, <2>1, <3>3 DEF Wrote
  <2>5. call'[w].pc \in Working
    BY <1>4, <1>8 DEF Working
  <2> QED  BY <1>1, <1>3, <1>6, <1>8, <2>2, <2>3, <2>4, <2>5, StepKeeps
           DEF UpsertRawMessage
<1> QED  BY <1>6, <1>7, <1>8

LEMMA KeptFacts ==
  ASSUME NEW got \in Seq(Message), \A k \in DOMAIN got : got[k].body # NoText
  PROVE  /\ Kept(got) \in Seq(Message) /\ Len(Kept(got)) \in Nat
         /\ DOMAIN Kept(got) = 1 .. Len(Kept(got))
         /\ [k \in DOMAIN Kept(got) |-> Kept(got)[k].body] \in Seq(Texts)
         /\ Len([k \in DOMAIN Kept(got) |-> Kept(got)[k].body]) = Len(Kept(got))
<1> DEFINE at == {k \in DOMAIN got : got[k].body # Trash}
           kept == Kept(got)
           text == [k \in DOMAIN kept |-> kept[k].body]
<1>1. PICK p : Picks(kept, Message, got, at, Len(got), p)
  BY SelectedPicks DEF Kept
<1>2. /\ kept \in Seq(Message)
      /\ \A k \in 1 .. Len(kept) : p[k] \in at /\ kept[k] = got[p[k]]
  BY <1>1 DEF Picks
<1>3. \A k \in DOMAIN got : got[k] \in Message
  BY LenProperties, ElementOfSeq
<1> HIDE DEF kept
<1>4. \A k \in 1 .. Len(kept) : kept[k].body \in Texts
  BY <1>2, <1>3 DEF Message, Bodies
<1>5. Len(kept) \in Nat /\ DOMAIN kept = 1 .. Len(kept)
  BY <1>2, LenProperties
<1>6. text \in [1 .. Len(kept) -> Texts]
  BY <1>4, <1>5
<1>7. text \in Seq(Texts) /\ Len(text) = Len(kept)
  <2>1. text \in Seq(Texts)
    BY <1>5, <1>6, SeqDef
  <2> QED  BY <1>5, <1>6, <2>1, LenProperties
<1> QED  BY <1>2, <1>5, <1>7 DEF kept

LEMMA RawStoredKeeps ==
  ASSUME LinksInv, NEW w \in Syncs, kind \in {"links", "channel"},
         UNCHANGED <<kind, createVars>>, RawStored(w)
  PROVE  LinksInv'
<1> DEFINE kept == Kept(call[w].got)
           text == [k \in DOMAIN kept |-> kept[k].body]
           pc == IF kind = "channel" THEN "replace" ELSE "document"
           row == [call[w] EXCEPT !.text = text, !.next = 1, !.pc = pc]
<1>1. /\ call[w].pc = "raw" /\ call[w].pc \in Working /\ TypeOK
      /\ job[w] # "succeeded" /\ Past(w, Fetched) /\ Past(w, Asked)
      /\ call[w].next > Len(call[w].got) /\ call[w].next \in Nat
      /\ call[w].got \in Seq(Message) /\ call[w] \in CallRow
  BY RowFacts DEF RawStored, Working, LinksInv, Ways, Way, Past, Fetched, Asked
<1>2. text \in Seq(Texts)
  BY <1>1, DistinctMessages, KeptFacts
<1>3. pc \in {"replace", "document"} /\ (pc = "replace" => kind = "channel")
  OBVIOUS
<1> HIDE DEF pc
<1>4. /\ row \in CallRow /\ row.pc = pc /\ row.next = 1 /\ row.text = text
      /\ row.got = call[w].got /\ row.cursor = call[w].cursor
  BY <1>1, <1>2, <1>3 DEF CallRow, Working
<1>5. call' = [call EXCEPT ![w] = row]
  BY DEF RawStored, pc
<1>6. text = [k \in DOMAIN Kept(call[w].got) |-> Kept(call[w].got)[k].body]
  OBVIOUS
<1> HIDE DEF row, text
<1>7. Steps(w) /\ call'[w] = row
  BY <1>1, <1>4, <1>5, RowSteps
<1>8. StoreTyped' /\ LinksOnce' /\ links' = links /\ job' = job /\ raw' = raw
  BY StoreKept DEF RawStored, storeVars
<1>9. \A places \in {Linked, Saved, {"complete", "mark"}} :
        Past(w, places)' => places = Linked /\ pc = "document"
  BY <1>1, <1>3, <1>4, <1>7, <1>8 DEF Past, Asked, Fetched, Stored, Linked, Saved
<1>10. Way(w)'
  BY <1>1, <1>3, <1>4, <1>7, <1>8 DEF Way
<1>11. Has(w)'
  <2>1. Has(w)
    BY DEF LinksInv, Holds
  <2>2. call'[w].got = call[w].got /\ call'[w].cursor = call[w].cursor
        /\ call'[w].text = text /\ call'[w].pc = pc
    BY <1>4, <1>7
  <2>3. \A k \in DOMAIN call[w].got : call[w].got[k].body # NoText
    BY <1>1, DistinctMessages
  <2> QED  BY <1>1, <1>3, <1>6, <1>8, <2>1, <2>2, <2>3 DEF Has
<1>12. Alone(w) => Wrote(w)'
  <2> SUFFICES ASSUME Alone(w) PROVE Wrote(w)'
    OBVIOUS
  <2>1. \A k \in DOMAIN call[w].got :
          k < call[w].next => raw[call[w].got[k].id] = call[w].got[k].body
    BY <1>1 DEF LinksInv, Written, Wrote
  <2>2. \A k \in DOMAIN call[w].got : k < call[w].next
    <3>1. Len(call[w].got) \in Nat /\ DOMAIN call[w].got = 1 .. Len(call[w].got)
      BY <1>1, LenProperties
    <3> QED  BY <1>1, <3>1
  <2>3. call'[w].got = call[w].got /\ call'[w].pc = pc
    BY <1>4, <1>7
  <2>4. ~ Past(w, Saved)' /\ ~ Past(w, {"complete", "mark"})'
        /\ ~ (kind = "channel" /\ Past(w, Linked)')
    BY <1>1, <1>3, <1>4, <1>7, <1>8
    DEF Past, Asked, Fetched, Stored, Linked, Saved, pc
  <2> QED  BY <1>3, <1>8, <2>1, <2>2, <2>3, <2>4 DEF Wrote
<1>13. SpentTyped' /\ call'[w].pc \in Working
  BY <1>3, <1>4, <1>7, TypeParts DEF RawStored, LinksInv, SpentTyped, Working
<1> QED  BY <1>1, <1>7, <1>8, <1>10, <1>11, <1>12, <1>13, StepKeeps DEF RawStored

LEMMA ReplaceLinksKeeps ==
  ASSUME LinksInv, NEW w \in Syncs, kind \in {"links", "channel"},
         UNCHANGED <<kind, createVars>>, ReplaceLinks(w)
  PROVE  LinksInv'
<1>1. /\ call[w].pc = "replace" /\ call[w].pc \in Working /\ TypeOK /\ kind = "channel"
      /\ job[w] # "succeeded" /\ Past(w, Fetched) /\ Past(w, Stored)
      /\ call[w].next = 1 /\ call[w].got \in Seq(Message)
      /\ OnError(w) = "fail" /\ "document" \in Working
  BY RowFacts
  DEF ReplaceLinks, Working, LinksInv, Ways, Way, Past, Stored, Fetched, Asked, OnError
<1>2. links' = [k \in DOMAIN call[w].got |-> call[w].got[k].id] /\ job' = job
  BY DEF ReplaceLinks
<1>3. links' \in Seq(Ids)
  <2>2. Len(call[w].got) \in Nat /\ DOMAIN call[w].got = 1 .. Len(call[w].got)
    BY <1>1, LenProperties
  <2>0. \A k \in DOMAIN call[w].got : call[w].got[k] \in Message
    BY <1>1, <2>2, ElementOfSeq
  <2>1. \A k \in DOMAIN call[w].got : call[w].got[k].id \in Ids
    BY <2>0 DEF Message
  <2>3. links' \in [1 .. Len(call[w].got) -> Ids]
    BY <1>2, <2>1, <2>2
  <2> QED  BY <2>2, <2>3, SeqDef
<1>4. StoreTyped'
  BY <1>3, TypeParts DEF ReplaceLinks, LinksInv, StoreTyped
<1>5. LinksOnce'
  BY <1>1, <1>2, DistinctMessages DEF LinksOnce
<1>6. SpentTyped' /\ (Moves(w, "document") \/ Moves(w, "fail"))
  BY <1>1, SettlesTo DEF ReplaceLinks, LinksInv
<1>7. CASE Moves(w, "fail")
  <2>1. Way(w)' /\ Has(w)' /\ Wrote(w)'
    BY <1>1, <1>2, <1>7, StopsAt
  <2>2. call'[w].pc \in Working /\ Steps(w)
    BY <1>7 DEF Moves, Working
  <2> QED  BY <1>1, <1>2, <1>4, <1>5, <1>6, <2>1, <2>2, StepKeeps DEF ReplaceLinks
<1>8. CASE Moves(w, "document")
  <2>1. call'[w].pc = "document" /\ call'[w].next = 1 /\ call'[w].got = call[w].got
    BY <1>1, <1>8 DEF Moves
  <2>2. Has(w)'
    BY <1>1, <1>8, HasMoves
  <2>3. Way(w)'
    BY <1>1, <1>2, <2>1 DEF Way
  <2>4. Alone(w) => Wrote(w)'
    <3>1. ~ Past(w, Saved)' /\ ~ Past(w, {"complete", "mark"})'
      BY <1>1, <1>2, <2>1 DEF Past, Asked, Fetched, Stored, Linked, Saved
    <3> QED  BY <1>1, <1>2, <2>1, <3>1 DEF LinksInv, Written, Wrote, ReplaceLinks
  <2>5. call'[w].pc \in Working /\ Steps(w)
    BY <1>8, <2>1 DEF Moves, Working
  <2> QED  BY <1>1, <1>2, <1>4, <1>5, <1>6, <2>2, <2>3, <2>4, <2>5, StepKeeps
           DEF ReplaceLinks
<1> QED  BY <1>6, <1>7, <1>8

-----------------------------------------------------------------------------
(***************************************************************************)
(* The document and its chunks.                                            *)
(***************************************************************************)
LEMMA DeleteDocumentKeeps ==
  ASSUME LinksInv, NEW w \in Syncs, kind \in {"links", "channel"},
         UNCHANGED <<kind, createVars>>, DeleteDocument(w)
  PROVE  LinksInv'
<1>1. /\ call[w].pc = "document" /\ call[w].pc \in Working /\ TypeOK
      /\ job[w] # "succeeded" /\ call[w].text = <<>>
      /\ Past(w, Asked) /\ Past(w, Fetched) /\ Past(w, Stored) /\ Past(w, Linked)
      /\ OnError(w) = "fail" /\ "complete" \in Working
  BY DEF DeleteDocument, Working, LinksInv, Ways, Way, Past, Linked, Stored, Fetched,
         Asked, OnError
<1>2. /\ doc' = [doc EXCEPT !.text = <<>>] /\ chunks' = [m \in Ids |-> NoText]
      /\ UNCHANGED <<links, raw, src, job>>
  BY DEF DeleteDocument
<1>3. StoreTyped' /\ LinksOnce' /\ doc'.text = <<>>
  <2>1. <<>> \in Seq(Texts)
    BY EmptySeq
  <2> QED  BY <1>1, <1>2, <2>1, TypeParts
           DEF LinksInv, LinksListed, LinksOnce, StoreTyped
<1>4. SpentTyped' /\ (Moves(w, "complete") \/ Moves(w, "fail"))
  BY <1>1, SettlesTo DEF DeleteDocument
<1>5. CASE Moves(w, "fail")
  <2>1. Way(w)' /\ Has(w)' /\ Wrote(w)'
    BY <1>1, <1>2, <1>5, StopsAt
  <2>2. call'[w].pc \in Working /\ Steps(w)
    BY <1>5 DEF Moves, Working
  <2> QED  BY <1>1, <1>2, <1>3, <1>4, <2>1, <2>2, StepKeeps DEF DeleteDocument
<1>6. CASE Moves(w, "complete")
  <2>1. call'[w].pc = "complete" /\ call'[w].next = call[w].next
        /\ call'[w].got = call[w].got /\ call'[w].text = <<>>
    BY <1>1, <1>6 DEF Moves
  <2>2. Has(w)'
    BY <1>1, <1>2, <1>6, HasMoves
  <2>3. Way(w)'
    BY <1>1, <1>2, <2>1 DEF Way, LinksInv, Ways
  <2>4. Alone(w) => Wrote(w)'
    <3>1. AllChunks(w)'
      <4>1. Len(<<>>) = 0 /\ \A m \in Ids : m # 0 /\ m \in Nat
        BY ConstantFacts, EmptySeq
      <4> QED  BY <1>2, <2>1, <4>1 DEF AllChunks
    <3> QED  BY <1>1, <1>2, <1>3, <2>1, <3>1 DEF LinksInv, Written, Wrote
  <2>5. call'[w].pc \in Working /\ Steps(w)
    BY <1>6, <2>1 DEF Moves, Working
  <2> QED  BY <1>1, <1>2, <1>3, <1>4, <2>2, <2>3, <2>4, <2>5, StepKeeps
           DEF DeleteDocument
<1> QED  BY <1>4, <1>5, <1>6

LEMMA SaveDocumentKeeps ==
  ASSUME LinksInv, NEW w \in Syncs, kind \in {"links", "channel"},
         UNCHANGED <<kind, createVars>>, SaveDocument(w)
  PROVE  LinksInv'
<1> DEFINE id == IF doc.text = <<>> THEN doc.id + 1 ELSE doc.id
           row == [call[w] EXCEPT !.pc = "unchunk", !.doc = id]
<1>1. /\ call[w].pc = "document" /\ call[w].pc \in Working /\ TypeOK
      /\ job[w] # "succeeded" /\ call[w].text # <<>> /\ call[w].next = 1
      /\ Past(w, Asked) /\ Past(w, Fetched) /\ Past(w, Stored) /\ Past(w, Linked)
      /\ OnError(w) = "fail"
  BY DEF SaveDocument, Working, LinksInv, Ways, Way, Past, Linked, Stored, Fetched,
         Asked, OnError
<1>2. call[w] \in CallRow /\ call[w].text \in Seq(Texts)
  BY <1>1, RowFacts
<1>3. id \in Nat
  BY <1>1, TypeParts DEF StoreTyped
<1>4. Settle(w, row) /\ doc' = [id |-> id, text |-> call[w].text]
  BY DEF SaveDocument
<1> HIDE DEF id
<1>5. /\ row \in CallRow /\ row.pc = "unchunk" /\ row.doc = id /\ row.next = 1
      /\ row.got = call[w].got /\ row.text = call[w].text
      /\ row.cursor = call[w].cursor
  BY <1>1, <1>2, <1>3 DEF CallRow, Working
<1> HIDE DEF row
<1>6. UNCHANGED <<links, raw, chunks, src, job>>
  BY DEF SaveDocument
<1>7. StoreTyped' /\ LinksOnce'
  BY <1>1, <1>2, <1>3, <1>4, <1>6, TypeParts
  DEF LinksInv, LinksListed, LinksOnce, StoreTyped
<1>8. SpentTyped' /\ ((Steps(w) /\ call'[w] = row) \/ Moves(w, "fail"))
  BY <1>1, <1>4, <1>5, Settles
<1>9. CASE Moves(w, "fail")
  <2>1. Way(w)' /\ Has(w)' /\ Wrote(w)'
    BY <1>1, <1>6, <1>9, StopsAt
  <2>2. call'[w].pc \in Working /\ Steps(w)
    BY <1>9 DEF Moves, Working
  <2> QED  BY <1>1, <1>6, <1>7, <1>8, <2>1, <2>2, StepKeeps DEF SaveDocument
<1>10. CASE Steps(w) /\ call'[w] = row
  <2>1. Has(w)'
    BY <1>1, <1>5, <1>6, <1>10, HasSame
  <2>2. Way(w)'
    BY <1>1, <1>5, <1>6, <1>10 DEF Way
  <2>3. Alone(w) => Wrote(w)'
    <3>1. ~ Past(w, {"complete", "mark"})'
      BY <1>1, <1>5, <1>6, <1>10 DEF Past
    <3>2. doc'.text = call[w].text /\ doc'.id = id
      BY <1>4
    <3> QED  BY <1>1, <1>5, <1>6, <1>10, <3>1, <3>2 DEF LinksInv, Written, Wrote
  <2>4. call'[w].pc \in Working
    BY <1>5, <1>10 DEF Working
  <2> QED  BY <1>1, <1>6, <1>7, <1>8, <1>10, <2>1, <2>2, <2>3, <2>4, StepKeeps
           DEF SaveDocument
<1> QED  BY <1>8, <1>9, <1>10

\* While a call is alone, the document it saved is there.
LEMMA DocumentThere ==
  ASSUME LinksInv, NEW w \in Syncs, Alone(w), call[w].pc \in {"unchunk", "chunk"}
  PROVE  HasDocument(w) /\ doc.text = call[w].text
<1>1. Wrote(w) /\ Has(w) /\ Past(w, Saved)
  BY DEF LinksInv, Written, Holds, Past, Saved
<1> QED  BY <1>1 DEF Wrote, Has, HasDocument

LEMMA DeleteChunksKeeps ==
  ASSUME LinksInv, NEW w \in Syncs, kind \in {"links", "channel"},
         UNCHANGED <<kind, createVars>>, DeleteChunks(w)
  PROVE  LinksInv'
<1>1. /\ call[w].pc = "unchunk" /\ call[w].pc \in Working /\ TypeOK
      /\ job[w] # "succeeded" /\ call[w].next = 1 /\ call[w].text # <<>>
      /\ Past(w, Asked) /\ Past(w, Fetched) /\ Past(w, Stored) /\ Past(w, Linked)
      /\ Past(w, Saved) /\ OnError(w) = "fail" /\ "chunk" \in Working
  BY DEF DeleteChunks, Working, LinksInv, Ways, Way, Holds, Has, Past, Saved, Linked,
         Stored, Fetched, Asked, OnError
<1>2. /\ chunks' = IF HasDocument(w) THEN [m \in Ids |-> NoText] ELSE chunks
      /\ UNCHANGED <<links, raw, doc, src, job>>
  BY DEF DeleteChunks
<1>3. StoreTyped' /\ LinksOnce'
  BY <1>1, <1>2, TypeParts DEF LinksInv, LinksListed, LinksOnce, StoreTyped
<1>4. SpentTyped' /\ (Moves(w, "chunk") \/ Moves(w, "fail"))
  BY <1>1, SettlesTo DEF DeleteChunks
<1>5. CASE Moves(w, "fail")
  <2>1. Way(w)' /\ Has(w)' /\ Wrote(w)'
    BY <1>1, <1>2, <1>5, StopsAt
  <2>2. call'[w].pc \in Working /\ Steps(w)
    BY <1>5 DEF Moves, Working
  <2> QED  BY <1>1, <1>2, <1>3, <1>4, <2>1, <2>2, StepKeeps DEF DeleteChunks
<1>6. CASE Moves(w, "chunk")
  <2>1. call'[w].pc = "chunk" /\ call'[w].next = 1 /\ call'[w].doc = call[w].doc
        /\ call'[w].got = call[w].got /\ call'[w].text = call[w].text
    BY <1>1, <1>6 DEF Moves
  <2>2. Has(w)'
    BY <1>1, <1>2, <1>6, HasMoves
  <2>3. Way(w)'
    BY <1>1, <1>2, <2>1 DEF Way
  <2>4. Alone(w) => Wrote(w)'
    <3> SUFFICES ASSUME Alone(w) PROVE Wrote(w)'
      OBVIOUS
    <3>1. chunks' = [m \in Ids |-> NoText]
      BY <1>1, <1>2, DocumentThere
    <3>2. ChunksUpTo(w, call[w].next)'
      <4>1. \A m \in Ids : ~ (m < 1)
        BY ConstantFacts
      <4> QED  BY <2>1, <3>1, <4>1 DEF ChunksUpTo
    <3>3. ~ Past(w, {"complete", "mark"})'
      BY <1>1, <1>2, <2>1 DEF Past
    <3> QED  BY <1>1, <1>2, <2>1, <3>2, <3>3 DEF LinksInv, Written, Wrote
  <2>5. call'[w].pc \in Working /\ Steps(w)
    BY <1>6, <2>1 DEF Moves, Working
  <2> QED  BY <1>1, <1>2, <1>3, <1>4, <2>2, <2>3, <2>4, <2>5, StepKeeps
           DEF DeleteChunks
<1> QED  BY <1>4, <1>5, <1>6

LEMMA InsertChunkKeeps ==
  ASSUME LinksInv, NEW w \in Syncs, kind \in {"links", "channel"},
         UNCHANGED <<kind, createVars>>, InsertChunk(w)
  PROVE  LinksInv'
<1> DEFINE row == [call[w] EXCEPT !.next = @ + 1]
<1>1. /\ call[w].pc = "chunk" /\ call[w].pc \in Working /\ TypeOK
      /\ job[w] # "succeeded" /\ call[w].text # <<>>
      /\ call[w].next \in Nat \ {0} /\ call[w].next <= Len(call[w].text)
      /\ Past(w, Asked) /\ Past(w, Fetched) /\ Past(w, Stored) /\ Past(w, Linked)
      /\ Past(w, Saved) /\ OnError(w) = "fail"
  BY RowFacts DEF InsertChunk, Working, LinksInv, Ways, Way, Holds, Has, Past, Saved,
                  Linked, Stored, Fetched, Asked, OnError
<1>2. call[w] \in CallRow /\ call[w].text \in Seq(Texts)
      /\ call[w].text[call[w].next] \in Texts
  <2>1. call[w] \in CallRow /\ call[w].text \in Seq(Texts)
    BY <1>1, RowFacts
  <2>2. call[w].next \in 1 .. Len(call[w].text)
    BY <1>1, <2>1, LenProperties
  <2> QED  BY <2>1, <2>2, ElementOfSeq
<1>3. UNCHANGED <<links, raw, doc, src, job>>
  BY DEF InsertChunk
<1>4. CASE ~ HasDocument(w)
  <2>1. UNCHANGED <<chunks, spent>> /\ call' = [call EXCEPT ![w].pc = "fail"]
    BY <1>4 DEF InsertChunk
  <2>2. Moves(w, "fail")
    BY <1>1, <2>1, MovesTo DEF Working
  <2>3. Way(w)' /\ Has(w)' /\ Wrote(w)'
    BY <1>1, <1>3, <2>2, StopsAt
  <2>4. call'[w].pc \in Working /\ Steps(w)
    BY <2>2 DEF Moves, Working
  <2>5. StoreTyped' /\ LinksOnce' /\ SpentTyped'
    BY <1>1, <1>3, <2>1, TypeParts
    DEF LinksInv, LinksListed, LinksOnce, StoreTyped, SpentTyped
  <2> QED  BY <1>1, <1>3, <2>3, <2>4, <2>5, StepKeeps DEF InsertChunk
<1>5. CASE HasDocument(w)
  <2>1. /\ chunks' = [chunks EXCEPT ![call[w].next] = call[w].text[call[w].next]]
        /\ Settle(w, row)
    BY <1>5 DEF InsertChunk
  <2>2. /\ row \in CallRow /\ row.pc = "chunk" /\ row.next = call[w].next + 1
        /\ row.got = call[w].got /\ row.text = call[w].text
        /\ row.cursor = call[w].cursor /\ row.doc = call[w].doc
    BY <1>1, <1>2 DEF CallRow
  <2> HIDE DEF row
  <2>3. StoreTyped' /\ LinksOnce'
    <3>1. chunks \in [Ids -> Texts \cup {NoText}]
      BY <1>1, TypeParts DEF StoreTyped
    <3>2. chunks' \in [Ids -> Texts \cup {NoText}]
      BY <1>2, <2>1, <3>1
    <3> QED  BY <1>1, <1>3, <3>2, TypeParts
             DEF LinksInv, LinksListed, LinksOnce, StoreTyped
  <2>4. SpentTyped' /\ ((Steps(w) /\ call'[w] = row) \/ Moves(w, "fail"))
    BY <1>1, <2>1, <2>2, Settles
  <2>5. CASE Moves(w, "fail")
    <3>1. Way(w)' /\ Has(w)' /\ Wrote(w)'
      BY <1>1, <1>3, <2>5, StopsAt
    <3>2. call'[w].pc \in Working /\ Steps(w)
      BY <2>5 DEF Moves, Working
    <3> QED  BY <1>1, <1>3, <2>3, <2>4, <3>1, <3>2, StepKeeps DEF InsertChunk
  <2>6. CASE Steps(w) /\ call'[w] = row
    <3>1. Has(w)'
      BY <1>1, <1>3, <2>2, <2>6, HasSame
    <3>2. Way(w)'
      BY <1>1, <1>3, <2>2, <2>6 DEF Way, LinksInv, Ways
    <3>3. Alone(w) => Wrote(w)'
      <4> SUFFICES ASSUME Alone(w) PROVE Wrote(w)'
        OBVIOUS
      <4>1. Wrote(w)
        BY DEF LinksInv, Written
      <4>2. ASSUME NEW m \in Ids
            PROVE  chunks'[m] = IF m < call[w].next + 1 /\ m <= Len(call[w].text)
                                THEN call[w].text[m] ELSE NoText
        <5>1. chunks \in [Ids -> Texts \cup {NoText}] /\ m \in Nat
          BY <1>1, TypeParts, ConstantFacts DEF StoreTyped
        <5>2. chunks[m] = IF m < call[w].next /\ m <= Len(call[w].text)
                          THEN call[w].text[m] ELSE NoText
          BY <1>1, <4>1 DEF Wrote, ChunksUpTo
        <5>3. CASE m = call[w].next
          BY <1>1, <2>1, <5>1, <5>3
        <5>4. CASE m # call[w].next
          <6>1. m < call[w].next + 1 <=> m < call[w].next
            BY <1>1, <5>1, <5>4
          <6> QED  BY <2>1, <5>1, <5>2, <5>4, <6>1
        <5> QED  BY <5>3, <5>4
      <4>3. ChunksUpTo(w, call[w].next)'
        BY <2>2, <2>6, <4>2 DEF ChunksUpTo
      <4>4. ~ Past(w, {"complete", "mark"})'
        BY <1>1, <1>3, <2>2, <2>6 DEF Past
      <4> QED  BY <1>1, <1>3, <2>2, <2>6, <4>1, <4>3, <4>4 DEF Wrote
    <3>4. call'[w].pc \in Working
      BY <2>2, <2>6 DEF Working
    <3> QED  BY <1>1, <1>3, <2>3, <2>4, <2>6, <3>1, <3>2, <3>3, <3>4, StepKeeps
             DEF InsertChunk
  <2> QED  BY <2>4, <2>5, <2>6
<1> QED  BY <1>4, <1>5

LEMMA ChunkedKeeps ==
  ASSUME LinksInv, NEW w \in Syncs, kind \in {"links", "channel"},
         UNCHANGED <<kind, createVars>>, Chunked(w)
  PROVE  LinksInv'
<1>1. /\ call[w].pc = "chunk" /\ call[w].pc \in Working /\ TypeOK
      /\ job[w] # "succeeded" /\ call[w].next \in Nat
      /\ call[w].next > Len(call[w].text) /\ call[w].text \in Seq(Texts)
      /\ Past(w, Asked) /\ Past(w, Fetched) /\ Past(w, Stored) /\ Past(w, Linked)
      /\ Past(w, Saved) /\ "complete" \in Working
  BY RowFacts DEF Chunked, Working, LinksInv, Ways, Way, Past, Saved, Linked, Stored,
                  Fetched, Asked
<1>2. StoreTyped' /\ LinksOnce' /\ UNCHANGED <<links, raw, doc, chunks, job>>
  BY StoreKept DEF Chunked, storeVars
<1>3. SpentTyped' /\ Moves(w, "complete")
  BY <1>1, MovesTo, FaultTyped DEF Chunked
<1>4. call'[w].pc = "complete" /\ call'[w].next = call[w].next
      /\ call'[w].got = call[w].got /\ call'[w].text = call[w].text
  BY <1>3 DEF Moves
<1>5. Has(w)'
  BY <1>1, <1>2, <1>3, HasMoves
<1>6. Way(w)'
  BY <1>1, <1>2, <1>4 DEF Way, LinksInv, Ways
<1>7. Alone(w) => Wrote(w)'
  <2> SUFFICES ASSUME Alone(w) PROVE Wrote(w)'
    OBVIOUS
  <2>1. Wrote(w)
    BY DEF LinksInv, Written
  <2>2. \A m \in Ids : m <= Len(call[w].text) => m < call[w].next
    <3>1. Len(call[w].text) \in Nat
      BY <1>1, LenProperties
    <3>2. Ids \subseteq Nat
      BY ConstantFacts
    <3>3. \A m \in Nat : m <= Len(call[w].text) => m < call[w].next
      BY <1>1, <3>1
    <3> QED  BY <3>2, <3>3
  <2>3. AllChunks(w)'
    BY <1>1, <1>2, <1>4, <2>1, <2>2 DEF Wrote, ChunksUpTo, AllChunks
  <2> QED  BY <1>1, <1>2, <1>4, <2>1, <2>3 DEF Wrote
<1>8. call'[w].pc \in Working /\ Steps(w)
  BY <1>3, <1>4 DEF Moves, Working
<1> QED  BY <1>1, <1>2, <1>3, <1>5, <1>6, <1>7, <1>8, StepKeeps DEF Chunked

LEMMA CompleteJobKeeps ==
  ASSUME LinksInv, NEW w \in Syncs, kind \in {"links", "channel"},
         UNCHANGED <<kind, createVars>>, CompleteJob(w)
  PROVE  LinksInv'
<1>1. /\ call[w].pc = "complete" /\ call[w].pc \in Working /\ TypeOK
      /\ Past(w, Asked) /\ Past(w, Fetched) /\ Past(w, Stored) /\ Past(w, Linked)
      /\ Past(w, Saved) /\ Past(w, {"complete", "mark"})
      /\ OnError(w) = "fail" /\ "mark" \in Working
  BY DEF CompleteJob, Working, LinksInv, Past, Saved, Linked, Stored, Fetched, Asked,
         OnError
<1>2. /\ StoreTyped' /\ LinksOnce' /\ UNCHANGED <<links, raw, doc, chunks>>
      /\ job'[w] = "succeeded" /\ \A v \in Syncs \ {w} : job'[v] = job[v]
  BY JobTyped DEF CompleteJob
<1>3. SpentTyped' /\ (Moves(w, "mark") \/ Moves(w, "fail"))
  BY <1>1, SettlesTo DEF CompleteJob
<1>4. call'[w].pc \in {"mark", "fail"} /\ call'[w].next = call[w].next
      /\ call'[w].got = call[w].got /\ call'[w].text = call[w].text
  BY <1>3 DEF Moves
<1>5. Has(w)'
  BY <1>1, <1>2, <1>3, HasMoves
<1>6. Way(w)'
  BY <1>1, <1>2, <1>4 DEF Way, LinksInv, Ways
<1>7. Alone(w) => Wrote(w)'
  <2> SUFFICES ASSUME Wrote(w) PROVE Wrote(w)'
    BY DEF LinksInv, Written
  <2>1. AllChunks(w)'
    BY <1>1, <1>2, <1>4 DEF Wrote, AllChunks
  <2> QED  BY <1>1, <1>2, <1>4, <2>1 DEF Wrote
<1>8. call'[w].pc \in Working /\ Steps(w)
  BY <1>3, <1>4 DEF Moves, Working
<1> QED  BY <1>1, <1>2, <1>3, <1>5, <1>6, <1>7, <1>8, StepKeeps DEF CompleteJob

LEMMA GreatestId ==
  ASSUME NEW T, T \subseteq Ids, T # {}
  PROVE  Max(T) \in T
<1> DEFINE gaps == {n \in Nat : \E m \in T : n = MaxId - m}
<1>1. \A m \in T : m \in Nat /\ MaxId - m \in Nat
  BY ConstantFacts DEF Ids
<1>2. gaps \subseteq Nat /\ gaps # {}
  BY <1>1
<1>3. PICK n \in gaps : \A k \in gaps : n <= k
  BY <1>2, LeastNumber
<1>4. PICK x \in T : n = MaxId - x
  BY <1>3
<1>5. \A y \in T : x >= y
  <2> SUFFICES ASSUME NEW y \in T PROVE x >= y
    OBVIOUS
  <2>1. MaxId - y \in gaps
    BY <1>1
  <2>2. MaxId - x <= MaxId - y
    BY <1>3, <1>4, <2>1
  <2> QED  BY <1>1, <2>2, ConstantFacts
<1> QED  BY <1>5 DEF Max

LEMMA MarkSourceSyncSuccessKeeps ==
  ASSUME LinksInv, NEW w \in Syncs, kind \in {"links", "channel"},
         UNCHANGED <<kind, createVars>>, MarkSourceSyncSuccess(w)
  PROVE  LinksInv'
<1> DEFINE ids == {call[w].got[k].id : k \in DOMAIN call[w].got}
<1>1. /\ call[w].pc = "mark" /\ call[w].pc \in Working /\ TypeOK
      /\ OnError(w) = "fail" /\ call[w].got \in Seq(Message)
  BY RowFacts DEF MarkSourceSyncSuccess, Working, LinksInv, OnError
<1>2. UNCHANGED <<links, raw, doc, chunks, job>>
  BY DEF MarkSourceSyncSuccess
<1>3. src' \in [status: {"active", "error"}, last: 0 .. MaxId]
  <2>1. \A k \in DOMAIN call[w].got : call[w].got[k] \in Message
    BY <1>1, LenProperties, ElementOfSeq
  <2>2. ids \subseteq Ids
    BY <2>1 DEF Message
  <2>3. ids # {} => Max(ids) \in Ids
    BY <2>2, GreatestId
  <2>4. src \in [status: {"active", "error"}, last: 0 .. MaxId]
    BY <1>1, TypeParts DEF StoreTyped
  <2>5. src' = [status |-> "active", last |-> IF ids = {} THEN src.last ELSE Max(ids)]
    BY DEF MarkSourceSyncSuccess
  <2> HIDE DEF ids
  <2>6. Ids \subseteq 0 .. MaxId
    BY DEF Ids
  <2> QED  BY <2>3, <2>4, <2>5, <2>6
<1>4. StoreTyped' /\ LinksOnce'
  BY <1>1, <1>2, <1>3, TypeParts DEF LinksInv, LinksListed, LinksOnce, StoreTyped
<1>5. SpentTyped' /\ (Moves(w, "over") \/ Moves(w, "fail"))
  BY <1>1, SettlesTo DEF MarkSourceSyncSuccess
<1>6. Way(w)' /\ Has(w)' /\ (Alone(w) => Wrote(w)')
  BY <1>1, <1>2, <1>5, StopsAfter
<1>7. call'[w].pc \in Working \cup {"over"} /\ Steps(w)
  BY <1>5 DEF Moves, Working
<1> QED  BY <1>1, <1>2, <1>4, <1>5, <1>6, <1>7, StepKeeps DEF MarkSourceSyncSuccess

-----------------------------------------------------------------------------
(***************************************************************************)
(* A call begins; the other actors; the initial states.                    *)
(***************************************************************************)
LEMMA GetSourceKeeps ==
  ASSUME LinksInv, NEW w \in Syncs, kind \in {"links", "channel"},
         UNCHANGED <<kind, createVars>>, NEW limit \in Limits, GetSource(w, limit)
  PROVE  LinksInv'
<1> DEFINE row == [call[w] EXCEPT !.pc = "createJob", !.limit = limit]
<1>1. /\ call[w].pc = "off" /\ TypeOK /\ job[w] # "succeeded" /\ call[w].next = 1
      /\ call[w] \in CallRow /\ Syncs \subseteq Nat
  BY RowFacts, ConstantFacts DEF GetSource, LinksInv, Ways, Way
<1>2. /\ row \in CallRow /\ row.pc = "createJob" /\ row.next = 1
      /\ row.got = call[w].got /\ row.text = call[w].text /\ row.cursor = call[w].cursor
  BY <1>1 DEF CallRow, Working
<1>3. call' = [call EXCEPT ![w] = row]
  BY DEF GetSource
<1> HIDE DEF row
<1>4. Steps(w) /\ call'[w] = row
  BY <1>1, <1>2, <1>3, RowSteps
<1>5. /\ StoreTyped' /\ LinksOnce'
      /\ UNCHANGED <<channel, links, raw, doc, chunks, src, job, spent>>
  BY StoreKept DEF GetSource, storeVars
<1>6. TypeOK'
  <2>1. crossed' \subseteq Syncs
    BY <1>1, TypeParts DEF GetSource, Active
  <2> QED  BY <1>1, <1>4, <1>5, <2>1, TypeParts, TypePartsNext
           DEF Steps, CreateTyped, createVars, SpentTyped
<1>7. Looked'
  BY DEF LinksInv, Looked, createVars
<1>8. \A places \in {Asked, Fetched, Stored, Linked, Saved, {"complete", "mark"}} :
        ~ Past(w, places)'
  BY <1>1, <1>2, <1>4, <1>5 DEF Past, Asked, Fetched, Stored, Linked, Saved
<1>9. Way(w)' /\ Has(w)' /\ Wrote(w)'
  <2>1. Way(w)'
    BY <1>1, <1>2, <1>4, <1>5 DEF Way
  <2>2. Has(w)'
    BY <1>2, <1>4, <1>5, <1>8, HasSame
  <2>3. Wrote(w)'
    BY <1>2, <1>4, <1>8 DEF Wrote
  <2> QED  BY <2>1, <2>2, <2>3
<1>10. ASSUME NEW v \in Syncs \ {w} PROVE Way(v)' /\ Has(v)'
  <2>1. Way(v) /\ Has(v) /\ call'[v] = call[v] /\ job'[v] = job[v]
    BY <1>4, <1>5, <1>10 DEF LinksInv, Ways, Holds, Steps
  <2>2. Way(v)'
    BY <2>1 DEF Way
  <2>3. \A places : Past(v, places)' <=> Past(v, places)
    BY <2>1 DEF Past
  <2>4. Has(v)'
    BY <1>5, <2>1, <2>3 DEF Has
  <2> QED  BY <2>2, <2>4
<1>11. Ways' /\ Holds'
  BY <1>9, <1>10 DEF Ways, Holds
<1>12. LinksListed'
  BY <1>5 DEF LinksListed, GetSource, LinksInv
<1>13. ASSUME NEW u \in Syncs, Alone(u)'
       PROVE  u = w /\ Active = {}
  <2>1. CASE u # w
    <3>1. Begun(u) /\ Begun(w)'
      BY <1>2, <1>4, <1>13, <2>1 DEF Alone, Begun, Steps
    <3>2. ~ (w > u)
      BY <1>13, <3>1 DEF Alone, Latest, Begun
    <3>3. w < u
      BY <1>1, <2>1, <3>2
    <3> QED  BY <1>1, <3>1, <3>3 DEF LinksInv, Queue, Begun
  <2>2. CASE u = w
    BY <1>13, <2>2 DEF Alone, GetSource
  <2> QED  BY <2>1, <2>2
<1>14. Queue'
  <2>1. ASSUME NEW u \in Syncs, NEW v \in Syncs, v < u, Begun(u)'
        PROVE  Begun(v)'
    <3>1. CASE u = w
      <4>1. Begun(v) /\ v # w
        BY <1>1, <2>1, <3>1 DEF GetSource, Begun
      <4> QED  BY <1>4, <4>1 DEF Begun, Steps
    <3>2. CASE u # w
      <4>1. Begun(u)
        BY <1>4, <2>1, <3>2 DEF Begun, Steps
      <4>2. Begun(v) /\ v # w
        BY <1>1, <2>1, <4>1 DEF LinksInv, Queue, Begun
      <4> QED  BY <1>4, <4>2 DEF Begun, Steps
    <3> QED  BY <3>1, <3>2
  <2>2. ASSUME NEW u \in Syncs, NEW v \in Syncs, Alone(u)', v # u
        PROVE  call'[v].pc \notin Working
    <3>1. u = w /\ Active = {}
      BY <1>13, <2>2
    <3> QED  BY <1>4, <2>2, <3>1 DEF Steps, Active
  <2> QED  BY <2>1, <2>2 DEF Queue
<1>15. Written'
  BY <1>9, <1>13 DEF Written
<1> QED  BY <1>6, <1>7, <1>11, <1>12, <1>14, <1>15 DEF LinksInv

LEMMA SyncKeeps ==
  ASSUME LinksInv, NEW w \in Syncs, Sync(w)
  PROVE  LinksInv'
<1>1. kind \in {"links", "channel"} /\ UNCHANGED <<kind, createVars>>
  BY DEF Sync
<1> QED
  BY <1>1, GetSourceKeeps, CreateJobKeeps, UpdateJobRunningKeeps, LoadLinksKeeps,
     ResolveKeeps, FetchMessagesKeeps, FetchHistoryKeeps, HistoryFetchedKeeps,
     UpsertRawMessageKeeps, RawStoredKeeps, ReplaceLinksKeeps, DeleteDocumentKeeps,
     SaveDocumentKeeps, DeleteChunksKeeps, InsertChunkKeeps, ChunkedKeeps,
     CompleteJobKeeps, MarkSourceSyncSuccessKeeps, FailJobKeeps,
     MarkSourceSyncErrorKeeps, FailsKeep DEF Sync

\* Steps that leave the calls, the links and the store alone.
LEMMA CallsKept ==
  ASSUME LinksInv, UNCHANGED <<kind, storeVars, call, crossed>>
  PROVE  LinksListed' /\ Ways' /\ Holds' /\ Queue' /\ Written'
<1> USE DEF LinksInv, storeVars
<1>1. LinksListed'
  BY DEF LinksListed, LinksOnce
<1>2. Ways'
  BY DEF Ways, Way
<1>3. Holds'
  BY DEF Holds, Has, Past
<1>4. Queue'
  BY DEF Queue, Alone, Begun, Latest
<1>5. Written'
  BY DEF Written, Wrote, Past, Alone, Begun, Latest, ChunksUpTo, AllChunks
<1> QED  BY <1>1, <1>2, <1>3, <1>4, <1>5

LEMMA CreateKeeps ==
  ASSUME LinksInv, NEW c \in Creators, Create(c)
  PROVE  LinksInv'
<1> DEFINE CreatorRow == [pc: {"off", "plain", "made", "insert", "again", "done", "failed"},
                          got: {"none", "plain", "made"}, fault: BOOLEAN]
<1>1. UNCHANGED <<kind, channel, storeVars, call, crossed>>
  BY DEF Create
<1>2. creator \in [Creators -> CreatorRow]
      /\ rows \in [{"plain", "made"} -> {"none", "public_channel", "channel_document"}]
  BY TypeParts DEF LinksInv, CreateTyped
<1>3. creator' \in [Creators -> CreatorRow]
      /\ \A d \in Creators \ {c} : creator'[d] = creator[d]
  BY <1>2 DEF Create, Begins, Looks, LooksForPlain, LooksForMade, CreateSource,
              ConflictLooked, LooksAgain, LookFails
<1>4. rows' \in [{"plain", "made"} -> {"none", "public_channel", "channel_document"}]
      /\ rows'["plain"] = rows["plain"]
  BY <1>2 DEF Create, Begins, Looks, LooksForPlain, LooksForMade, CreateSource,
              ConflictLooked, LooksAgain, LookFails
<1>5. SpentTyped'
  BY FaultTyped DEF Create, Begins, Looks, LooksForPlain, LooksForMade, CreateSource,
                    ConflictLooked, LooksAgain, LookFails, LinksInv
<1>6. TypeOK'
  BY <1>1, <1>3, <1>4, <1>5, TypeParts, TypePartsNext
  DEF LinksInv, CreateTyped, StoreTyped, storeVars
<1>7. Looked'
  <2>1. ASSUME NEW d \in Creators \ {c}
        PROVE  creator'[d] = creator[d]
    BY <1>3
  <2>2. /\ creator'[c].pc = "failed" => creator'[c].fault
        /\ creator'[c].pc = "done" => creator'[c].got \in {"plain", "made"}
        /\ creator'[c].pc = "done" /\ creator'[c].got = "plain" =>
             rows'["plain"] = "channel_document"
        /\ creator'[c].pc \in {"made", "insert", "again"}
             \/ (creator'[c].pc = "done" /\ creator'[c].got = "made") =>
             rows'["plain"] # "channel_document"
    <3> USE <1>2, <1>4 DEF LinksInv, Looked
    <3>1. CASE Begins(c)
      BY <3>1 DEF Begins, Looks
    <3>2. CASE LooksForPlain(c)
      BY <3>2 DEF LooksForPlain, Looks
    <3>3. CASE LooksForMade(c)
      BY <3>3 DEF LooksForMade, Looks
    <3>4. CASE CreateSource(c)
      BY <3>4 DEF CreateSource
    <3>5. CASE ConflictLooked(c) \/ LooksAgain(c)
      BY <3>5 DEF ConflictLooked, LooksAgain, Looks
    <3>6. CASE LookFails(c)
      BY <3>6 DEF LookFails
    <3> QED  BY <3>1, <3>2, <3>3, <3>4, <3>5, <3>6 DEF Create
  <2> QED  BY <1>4, <2>1, <2>2 DEF LinksInv, Looked
<1> QED  BY <1>1, <1>6, <1>7, CallsKept DEF LinksInv

LEMMA UniqueFacts ==
  ASSUME NEW list \in LinkLists
  PROVE  /\ Unique(list) \in Seq(Ids) /\ Unique(list) # <<>>
         /\ \A j, k \in DOMAIN Unique(list) :
              Unique(list)[j] = Unique(list)[k] => j = k
<1> DEFINE at == {k \in DOMAIN list : \A j \in 1 .. k - 1 : list[j] # list[k]}
           unique == Unique(list)
<1>1. list \in Seq(Ids) /\ list # <<>>
  BY LinksAssumption DEF Ids
<1>2. Len(list) \in Nat \ {0} /\ DOMAIN list = 1 .. Len(list)
  BY <1>1, EmptySeq, LenProperties
<1>3. PICK p : Picks(unique, Ids, list, at, Len(list), p)
  BY <1>1, SelectedPicks DEF Unique
<1>4. /\ unique \in Seq(Ids)
      /\ p \in [1 .. Len(unique) -> 1 .. Len(list)]
      /\ \A k \in 1 .. Len(unique) : p[k] \in at /\ unique[k] = list[p[k]]
      /\ \A j, k \in 1 .. Len(unique) : j < k => p[j] < p[k]
      /\ \A n \in at \cap (1 .. Len(list)) : \E k \in 1 .. Len(unique) : p[k] = n
  BY <1>3 DEF Picks
<1> HIDE DEF unique
<1>5. Len(unique) \in Nat /\ DOMAIN unique = 1 .. Len(unique)
  BY <1>4, LenProperties
<1>6. unique # <<>>
  <2>1. 1 \in at \cap (1 .. Len(list))
    BY <1>2
  <2>2. \E k \in 1 .. Len(unique) : p[k] = 1
    BY <1>4, <2>1
  <2> QED  BY <1>5, <2>2, EmptySeq
<1>7. ASSUME NEW j \in 1 .. Len(unique), NEW k \in 1 .. Len(unique), j < k
      PROVE  unique[j] # unique[k]
  <2>1. p[j] < p[k] /\ p[j] \in 1 .. Len(list) /\ p[k] \in 1 .. Len(list)
    BY <1>4, <1>7
  <2>2. p[j] \in 1 .. p[k] - 1
    BY <1>2, <2>1
  <2> QED  BY <1>4, <2>2
<1>8. \A j, k \in 1 .. Len(unique) : unique[j] = unique[k] => j = k
  BY <1>5, <1>7
<1> QED  BY <1>4, <1>5, <1>6, <1>8 DEF unique

LEMMA CreateLinkSourceKeeps ==
  ASSUME LinksInv, NEW list \in LinkLists, CreateLinkSource(list)
  PROVE  LinksInv'
<1>1. /\ kind = "links" /\ links = <<>> /\ links' = Unique(list)
      /\ UNCHANGED <<kind, createVars, channel, raw, doc, chunks, src, job, call,
                     crossed, spent>>
  BY DEF CreateLinkSource
<1>2. \A w \in Syncs : call[w].pc = "off" /\ job[w] # "succeeded"
  BY <1>1 DEF LinksInv, LinksListed, Ways, Way
<1>3. TypeOK'
  BY <1>1, UniqueFacts, TypeParts, TypePartsNext
  DEF LinksInv, StoreTyped, SpentTyped, CreateTyped, createVars
<1>4. Looked'
  BY <1>1 DEF LinksInv, Looked, createVars
<1>5. LinksListed'
  BY <1>1, <1>2, UniqueFacts DEF LinksListed, LinksOnce
<1>6. Ways'
  BY <1>1 DEF LinksInv, Ways, Way
<1>7. \A w \in Syncs : \A places \in {Asked, Fetched, Stored} : ~ Past(w, places)'
  BY <1>1, <1>2 DEF Past, Asked, Fetched, Stored
<1>8. Holds'
  BY <1>1, <1>2, <1>7 DEF Holds, Has
<1>9. Queue' /\ Written'
  BY <1>1, <1>2 DEF LinksInv, Queue, Written, Alone, Begun, Latest
<1> QED  BY <1>3, <1>4, <1>5, <1>6, <1>8, <1>9 DEF LinksInv

LEMMA ChannelChangesKeeps ==
  ASSUME LinksInv, NEW m \in Ids, NEW body \in Bodies, ChannelChanges(m, body)
  PROVE  LinksInv'
<1>1. /\ UNCHANGED <<kind, createVars, storeVars, call, crossed>>
      /\ channel' = [channel EXCEPT ![m] = body]
      /\ spent.changes < MaxChanges /\ spent' = [spent EXCEPT !.changes = @ + 1]
  BY DEF ChannelChanges
<1>2. SpentTyped'
  <2>1. spent \in [changes: 0 .. MaxChanges, faults: 0 .. MaxFaults]
    BY TypeParts DEF LinksInv, SpentTyped
  <2>2. spent.changes + 1 \in 0 .. MaxChanges
    BY <1>1, <2>1, ConstantFacts
  <2> QED  BY <1>1, <2>1, <2>2 DEF SpentTyped
<1>3. TypeOK'
  BY <1>1, <1>2, TypeParts, TypePartsNext
  DEF LinksInv, StoreTyped, CreateTyped, createVars, storeVars
<1>4. Looked'
  BY <1>1 DEF LinksInv, Looked, createVars
<1> QED  BY <1>1, <1>3, <1>4, CallsKept DEF LinksInv

LEMMA LinksInit == Init => LinksInv
<1> SUFFICES ASSUME Init PROVE LinksInv
  OBVIOUS
<1>1. PICK old \in {"none", "public_channel", "channel_document"} :
        rows = [u \in {"plain", "made"} |-> IF u = "plain" THEN old ELSE "none"]
  BY DEF Init
<1>2. <<>> \in Seq(Ids) /\ <<>> \in Seq(Texts) /\ <<>> \in Seq(Message)
      /\ DOMAIN <<>> = {}
  BY EmptySeq
<1>3. NoCall \in CallRow
  BY <1>2, ConstantFacts DEF NoCall, CallRow, Working
<1>4. \A w \in Syncs : call[w] = NoCall /\ call[w].pc = "off" /\ job[w] = "none"
  BY DEF Init, NoCall
<1>5. TypeOK
  <2>1. CreateTyped
    BY <1>1 DEF Init, CreateTyped
  <2>2. StoreTyped
    BY <1>2, ConstantFacts DEF Init, StoreTyped, NoDoc, Bodies
  <2>3. channel \in [Ids -> Bodies]
    BY LinksAssumption DEF Init, Ids, Bodies
  <2>4. SpentTyped
    BY ConstantFacts DEF Init, SpentTyped
  <2>5. call \in [Syncs -> CallRow] /\ kind \in Kinds /\ crossed \subseteq Syncs
    BY <1>3 DEF Init
  <2> QED  BY <2>1, <2>2, <2>3, <2>4, <2>5, TypeParts
<1>6. Looked
  BY DEF Init, Looked
<1>7. LinksListed
  BY <1>2, <1>4 DEF Init, LinksListed, LinksOnce
<1>8. Ways
  BY <1>4 DEF Ways, Way, NoCall
<1>9. Holds
  BY <1>2, <1>4 DEF Holds, Has, Past, Asked, Fetched, Stored, NoCall
<1>10. Queue /\ Written
  BY <1>4 DEF Queue, Written, Alone, Begun
<1> QED  BY <1>5, <1>6, <1>7, <1>8, <1>9, <1>10 DEF LinksInv

LEMMA LinksNext == LinksInv /\ [Next]_vars => LinksInv'
<1> SUFFICES ASSUME LinksInv, [Next]_vars PROVE LinksInv'
  OBVIOUS
<1>1. CASE UNCHANGED vars
  <2>1. UNCHANGED <<kind, createVars, channel, storeVars, call, crossed, spent>>
    BY <1>1 DEF vars
  <2>2. TypeOK' /\ Looked'
    BY <2>1, TypeParts, TypePartsNext
    DEF LinksInv, Looked, StoreTyped, SpentTyped, CreateTyped, createVars, storeVars
  <2> QED  BY <2>1, <2>2, CallsKept DEF LinksInv
<1>2. CASE \E m \in Ids, body \in Texts \cup {Trash, NoText} : ChannelChanges(m, body)
  BY <1>2, ChannelChangesKeeps DEF Bodies
<1> QED  BY <1>1, <1>2, CreateKeeps, CreateLinkSourceKeeps, SyncKeeps DEF Next

-----------------------------------------------------------------------------
(***************************************************************************)
(* The theorems.                                                           *)
(***************************************************************************)
\* The invariant: what every call has fetched and, as long as no other
\* overlaps it, how much of that is in the store.
THEOREM LinksInvariant == Spec => []LinksInv
BY LinksInit, LinksNext, PTL DEF Spec

\* Every variable keeps its type: what is trash never gets into a document, and
\* what is gone never into the stored messages of a call that goes on.
THEOREM LinksTypeCorrect == Spec => []TypeOK
<1>1. LinksInv => TypeOK
  BY DEF LinksInv
<1> QED  BY <1>1, LinksInvariant, PTL

\* Clients that add one channel at once get one source, and no error but a
\* fault.
THEOREM OneSourceForOneChannel == Spec => []CreatorsAgree
<1>1. LinksInv => CreatorsAgree
  BY DEF LinksInv, Looked, CreatorsAgree
<1> QED  BY <1>1, LinksInvariant, PTL

LEMMA AloneIsWhole == LinksInv => BundleIsWhole
<1> SUFFICES ASSUME LinksInv, NEW w \in Syncs, Latest(w), w \notin crossed,
                    call[w].pc = "over", job[w] = "succeeded"
             PROVE  LET got == call[w].got
                        kept == Kept(got)
                    IN /\ doc.text = [k \in DOMAIN kept |-> kept[k].body]
                       /\ \A m \in Ids : chunks[m] = IF m <= Len(kept) THEN kept[m].body
                                                     ELSE NoText
                       /\ links = [k \in DOMAIN got |-> got[k].id]
                       /\ \A k \in DOMAIN got : raw[got[k].id] = got[k].body
                       /\ kind = "channel" =>
                            \A k \in 2 .. Len(got) : got[k - 1].id < got[k].id
  BY DEF BundleIsWhole
<1> DEFINE got == call[w].got
           kept == Kept(got)
<1>1. /\ Alone(w) /\ kind \in {"links", "channel"}
      /\ \A places : Past(w, places)
  BY DEF LinksInv, Ways, Way, Alone, Begun, Past
<1>2. Has(w) /\ Wrote(w)
  BY <1>1 DEF LinksInv, Holds, Written
<1>3. /\ doc.text = call[w].text /\ AllChunks(w)
      /\ \A k \in DOMAIN got : raw[got[k].id] = got[k].body
      /\ kind = "channel" => links = [k \in DOMAIN got |-> got[k].id]
  BY <1>1, <1>2 DEF Wrote
<1>4. call[w].text = [k \in DOMAIN kept |-> kept[k].body]
  BY <1>1, <1>2 DEF Has
<1>5. /\ got \in Seq(Message) /\ \A k \in DOMAIN got : got[k].body # NoText
  BY <1>1, RowFacts, DistinctMessages DEF LinksInv
<1>6. Len(call[w].text) = Len(kept) /\ DOMAIN kept = 1 .. Len(kept) /\ Len(kept) \in Nat
  BY <1>4, <1>5, KeptFacts
<1>7. ASSUME NEW m \in Ids
      PROVE  chunks[m] = IF m <= Len(kept) THEN kept[m].body ELSE NoText
  <2>1. chunks[m] = IF m <= Len(kept) THEN call[w].text[m] ELSE NoText
    BY <1>3, <1>6 DEF AllChunks
  <2>2. m \in Nat \ {0}
    BY ConstantFacts
  <2>3. m <= Len(kept) => m \in DOMAIN kept
    BY <1>6, <2>2
  <2>4. m \in DOMAIN kept => call[w].text[m] = kept[m].body
    BY <1>4
  <2> QED  BY <2>1, <2>3, <2>4
<1>8. links = [k \in DOMAIN got |-> got[k].id]
  <2>1. CASE kind = "links"
    <3>1. got = [k \in DOMAIN links |-> [id |-> links[k], body |-> got[k].body]]
      BY <1>1, <1>2, <2>1 DEF Has
    <3>2. DOMAIN got = DOMAIN links /\ \A k \in DOMAIN links : got[k].id = links[k]
      BY <3>1
    <3>3. links \in Seq(Ids)
      BY TypeParts DEF LinksInv, StoreTyped
    <3>4. links = [k \in DOMAIN links |-> links[k]]
      BY <3>3, LenProperties
    <3> HIDE DEF got
    <3> QED  BY <3>2, <3>4
  <2> QED  BY <1>1, <1>3, <2>1
<1>9. kind = "channel" => \A k \in 2 .. Len(got) : got[k - 1].id < got[k].id
  <2> SUFFICES ASSUME kind = "channel", NEW k \in 2 .. Len(got)
               PROVE  got[k - 1].id < got[k].id
    OBVIOUS
  <2>1. Len(got) \in Nat /\ DOMAIN got = 1 .. Len(got)
    BY <1>5, LenProperties
  <2>2. k - 1 \in DOMAIN got /\ k \in DOMAIN got /\ k - 1 < k
    BY <2>1
  <2> QED  BY <1>2, <2>2 DEF Has
<1> QED  BY <1>3, <1>4, <1>7, <1>8, <1>9

\* A sync that nobody overlapped and that reports success leaves one whole
\* document of exactly what it fetched, whatever earlier ones left half done.
THEOREM SyncLeavesAWholeBundle == Spec => []BundleIsWhole
BY AloneIsWhole, LinksInvariant, PTL
=============================================================================
