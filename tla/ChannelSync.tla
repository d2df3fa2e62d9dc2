---------------------------- MODULE ChannelSync ----------------------------
(***************************************************************************)
(* Synchronisation of one public Telegram channel (SyncSource and          *)
(* syncSourceWithJob of backend/internal/ingestion/service.go) with the    *)
(* per-message processing it drives (ProcessRawMessage).                   *)
(*                                                                         *)
(* Each element of Syncs is one call of SyncSource, with the job it        *)
(* creates.  Calls come from HTTP handlers and from the bot, and nothing   *)
(* in the program stops two of them from syncing the same source at once;  *)
(* MaxActive bounds how many an instance runs together.  Every external    *)
(* call (Telegram or one SQL statement) is one action, because the other   *)
(* calls may run between any two of them.                                  *)
(***************************************************************************)
EXTENDS DocStore

CONSTANTS
  Syncs,        \* calls of SyncSource
  MaxActive,    \* bound: calls in progress together
  Limits,       \* values of max_messages a call may carry; 0 is "no limit"
  Resyncs,      \* values of full_resync a call may carry
  BatchSize,    \* messages asked per page
  MaxPage,      \* most messages Telegram returns per page (100)
  MaxEdits,     \* bound: edits made in the channel
  MaxRemovals,  \* bound: messages deleted from the channel
  MaxFaults,    \* bound: Telegram or database calls that fail
  Aborts,       \* how calls may be cut off: the client disconnects (and
                \* r.Context() is cancelled), or the process dies
  MaxAborts     \* bound: how often

ASSUME SyncAssumption ==
  /\ Limits \subseteq Nat
  /\ Resyncs \subseteq BOOLEAN
  /\ {BatchSize, MaxPage} \subseteq Nat \ {0}
  /\ Aborts \subseteq {"disconnect", "crash"}
  /\ {MaxActive, MaxEdits, MaxRemovals, MaxFaults, MaxAborts} \subseteq Nat

VARIABLES
  channel,    \* channel[m]: the message as Telegram shows it now, or NoText
  head,       \* last message id Telegram has given out
  src,        \* the sources row: status and last_message_id (0 for null)
  job,        \* job[w]: the jobs row of call w
  call,       \* call[w]: the locals of call w
  cancelled,  \* calls whose context is cancelled
  spent       \* how much of each bound is used

channelVars == <<channel, head>>
vars == <<raw, docs, chunks, channel, head, src, job, call, cancelled, spent>>

JobRow == [status: {"none", "queued", "running", "succeeded", "failed"},
           done: Nat, total: Nat]

\* Where a call stands: the statement it will run next.
Working == {"createJob", "runJob", "resolve", "fetch", "upsert", "find",
            "save", "unchunk", "chunk", "progress", "total", "complete",
            "mark", "failJob", "markError"}
Ended == {"idle", "returned", "failed", "dead"}

CallRow ==
  [pc: Working \cup Ended,
   min: 0 .. MaxId,        \* minMessageID, 0 for nil
   limit: Limits \cup {0},
   cursor: 0 .. MaxId,     \* cursor of the next page, 0 for nil
   next: 0 .. MaxId,       \* page.NextCursor, 0 for nil
   page: [Ids -> Bodies \cup {NoText}],  \* fetched, not yet dealt with
   msg: 0 .. MaxId,        \* message being processed
   canon: 0 .. MaxId,      \* what FindCanonicalDocumentByHash returned
   index: 1 .. MaxChunks,  \* chunk to insert
   fetched: Nat,           \* counters.MessagesFetched
   seen: 0 .. MaxId]       \* maxMessageID, 0 for nil

EmptyPage == [m \in Ids |-> NoText]
Blank(pc) == [pc |-> pc, min |-> 0, limit |-> 0, cursor |-> 0, next |-> 0,
              page |-> EmptyPage, msg |-> 0, canon |-> 0, index |-> 1,
              fetched |-> 0, seen |-> 0]

SpentRow == [edits: Nat, removals: Nat, faults: Nat, aborts: Nat]

TypeOK ==
  /\ StoreTypeOK
  /\ channel \in [Ids -> Bodies \cup {NoText}]
  /\ head \in 0 .. MaxId
  /\ src \in [status: {"active", "error"}, watermark: 0 .. MaxId]
  /\ job \in [Syncs -> JobRow]
  /\ call \in [Syncs -> CallRow]
  /\ cancelled \subseteq Syncs
  /\ spent \in SpentRow

Init ==
  /\ StoreInit
  /\ channel = [m \in Ids |-> NoText]
  /\ head = 0
  /\ src = [status |-> "active", watermark |-> 0]
  /\ job = [w \in Syncs |-> [status |-> "none", done |-> 0, total |-> 0]]
  /\ call = [w \in Syncs |-> Blank("idle")]
  /\ cancelled = {}
  /\ spent = [edits |-> 0, removals |-> 0, faults |-> 0, aborts |-> 0]

Active == {w \in Syncs : call[w].pc \in Working}
InPage(c) == {m \in Ids : c.page[m] # NoText}

-----------------------------------------------------------------------------
(***************************************************************************)
(* The channel.  Telegram numbers messages upwards and never reuses a      *)
(* number.                                                                 *)
(***************************************************************************)
Post(body) ==
  /\ head < MaxId
  /\ head' = head + 1
  /\ channel' = [channel EXCEPT ![head + 1] = body]
  /\ UNCHANGED <<storeVars, src, job, call, cancelled, spent>>

Edit(m, body) ==
  /\ channel[m] \notin {NoText, body}
  /\ spent.edits < MaxEdits
  /\ channel' = [channel EXCEPT ![m] = body]
  /\ spent' = [spent EXCEPT !.edits = @ + 1]
  /\ UNCHANGED <<storeVars, head, src, job, call, cancelled>>

Remove(m) ==
  /\ channel[m] # NoText
  /\ spent.removals < MaxRemovals
  /\ channel' = [channel EXCEPT ![m] = NoText]
  /\ spent' = [spent EXCEPT !.removals = @ + 1]
  /\ UNCHANGED <<storeVars, head, src, job, call, cancelled>>

-----------------------------------------------------------------------------
(***************************************************************************)
(* How an external call ends.  A call whose context is cancelled can no    *)
(* longer do anything that needs it.  A statement may take effect although *)
(* its caller sees an error (a reply lost after the commit): Settle lets   *)
(* the caller go on, or go to the error path with the effect in place.     *)
(***************************************************************************)
At(w, pc) == call[w].pc = pc /\ w \notin cancelled

Fault == /\ spent.faults < MaxFaults
         /\ spent' = [spent EXCEPT !.faults = @ + 1]

Settle(w, next, onError) ==
  \/ call' = [call EXCEPT ![w] = next] /\ UNCHANGED spent
  \/ call' = [call EXCEPT ![w] = Blank(onError)] /\ Fault

\* An error is returned at once, whatever the call has done so far.
ReturnError(pc) == "failed"

\* Errors before the job runs are returned as they are; later ones go through
\* FailJob and MarkSourceSyncError.
OnError(pc) == IF pc \in {"createJob", "runJob"} THEN "failed" ELSE "failJob"

CallFails(w) ==
  /\ call[w].pc \in Working \ {"failJob", "markError"}
  /\ IF w \in cancelled THEN UNCHANGED spent ELSE Fault
  /\ call' = [call EXCEPT ![w] = Blank(OnError(call[w].pc))]
  /\ UNCHANGED <<storeVars, channelVars, src, job, cancelled>>

Abort(kind) == /\ kind \in Aborts
               /\ spent.aborts < MaxAborts
               /\ spent' = [spent EXCEPT !.aborts = @ + 1]

Cancel(w) ==
  /\ w \in Active \ cancelled
  /\ Abort("disconnect")
  /\ cancelled' = cancelled \cup {w}
  /\ UNCHANGED <<storeVars, channelVars, src, job, call>>

\* The process dies; nothing looks for its jobs when it starts again.
Crash(w) ==
  /\ w \in Active
  /\ Abort("crash")
  /\ call' = [call EXCEPT ![w] = Blank("dead")]
  /\ UNCHANGED <<storeVars, channelVars, src, job, cancelled>>

-----------------------------------------------------------------------------
(***************************************************************************)
(* SyncSource up to the dispatch on the source type.                       *)
(***************************************************************************)
\* GetSource: the call keeps the watermark it reads here until it ends.
GetSource(w, full, limit) ==
  /\ call[w].pc = "idle"
  /\ Cardinality(Active) < MaxActive
  /\ call' = [call EXCEPT ![w] =
                [Blank("createJob") EXCEPT
                   !.min = IF full THEN 0 ELSE src.watermark,
                   !.limit = limit]]
  /\ UNCHANGED <<storeVars, channelVars, src, job, cancelled, spent>>

CreateJob(w) ==
  /\ At(w, "createJob")
  /\ job' = [job EXCEPT ![w].status = "queued"]
  /\ Settle(w, [call[w] EXCEPT !.pc = "runJob"], "failed")
  /\ UNCHANGED <<storeVars, channelVars, src, cancelled>>

UpdateJobRunning(w) ==
  /\ At(w, "runJob")
  /\ job' = [job EXCEPT ![w].status = "running"]
  /\ Settle(w, [call[w] EXCEPT !.pc = "resolve"], "failed")
  /\ UNCHANGED <<storeVars, channelVars, src, cancelled>>

\* ResolveChannel and UpdateSourceResolvedChannel: the columns they write
\* (username, title, url) are not part of the model.
Resolve(w) ==
  /\ At(w, "resolve")
  /\ call' = [call EXCEPT ![w] = [@ EXCEPT !.pc = "fetch"]]
  /\ UNCHANGED <<storeVars, channelVars, src, job, cancelled, spent>>

-----------------------------------------------------------------------------
(***************************************************************************)
(* Pages.  Telegram answers newest first: the pageLimit newest messages    *)
(* above min and below the cursor.                                         *)
(***************************************************************************)
\* The cursor is taken for an id that was already skipped.
EligibleBelow(c) ==
  {m \in Ids : /\ channel[m] # NoText
               /\ m > c.min
               /\ c.cursor # 0 => m + 1 < c.cursor}

Eligible(c) ==
  {m \in Ids : /\ channel[m] # NoText
               /\ m > c.min
               /\ c.cursor # 0 => m < c.cursor}

Newest(S, n) == {m \in S : Cardinality({k \in S : k > m}) < n}

LimitReached(limit, fetched) == limit > 0 /\ fetched >= limit

\* The collector takes a limit outside 1 .. MaxPage for MaxPage.
Clamp(n) == IF n \in 1 .. MaxPage THEN n ELSE MaxPage

PageLimit(c) ==
  Clamp(IF c.limit > 0 /\ c.limit - c.fetched < BatchSize
        THEN c.limit - c.fetched ELSE BatchSize)

Page(c) == Newest(Eligible(c), PageLimit(c))

\* A page counts as the last one although it is full.
NextCursorMissed(S, n, k) ==
  IF Cardinality(S) > n THEN k \in S /\ \A j \in S : k <= j ELSE k = 0

\* A full page names its smallest id as the cursor of the next one.
NextCursor(S, n, k) ==
  IF Cardinality(S) >= n THEN k \in S /\ \A j \in S : k <= j ELSE k = 0

FetchPage(w) ==
  LET c == call[w] IN
  /\ At(w, "fetch")
  /\ ~LimitReached(c.limit, c.fetched)
  /\ Page(c) # {}
  /\ \E k \in 0 .. MaxId :
       /\ NextCursor(Page(c), PageLimit(c), k)
       /\ call' = [call EXCEPT ![w] =
                     [c EXCEPT
                        !.pc = "upsert",
                        !.page = [m \in Ids |-> IF m \in Page(c)
                                                THEN channel[m] ELSE NoText],
                        !.next = k]]
  /\ UNCHANGED <<storeVars, channelVars, src, job, cancelled, spent>>

\* An empty page does not end the loop.
StopFetchingOnLimit(w) ==
  /\ At(w, "fetch")
  /\ LimitReached(call[w].limit, call[w].fetched)
  /\ call' = [call EXCEPT ![w] = [@ EXCEPT !.pc = "total"]]
  /\ UNCHANGED <<storeVars, channelVars, src, job, cancelled, spent>>

\* The loop ends on the limit, or on an empty page.
StopFetching(w) ==
  /\ At(w, "fetch")
  /\ \/ LimitReached(call[w].limit, call[w].fetched)
     \/ Page(call[w]) = {}
  /\ call' = [call EXCEPT ![w] = [@ EXCEPT !.pc = "total"]]
  /\ UNCHANGED <<storeVars, channelVars, src, job, cancelled, spent>>

-----------------------------------------------------------------------------
(***************************************************************************)
(* One message: UpsertRawMessage, then ProcessRawMessage.                  *)
(***************************************************************************)
\* maxMessageID is overwritten by every message instead of raised.
MessageDoneLast(c, m) ==
  LET rest == InPage(c) \ {m}
      more == rest # {} /\ ~LimitReached(c.limit, c.fetched + 1)
  IN [c EXCEPT !.pc = IF more THEN "upsert" ELSE "progress",
               !.page = IF more THEN [@ EXCEPT ![m] = NoText] ELSE EmptyPage,
               !.msg = 0, !.canon = 0, !.index = 1,
               !.fetched = @ + 1,
               !.seen = m]

\* The locals after message m is dealt with: counters, maxMessageID, and on to
\* the next message, or out of the page when it is empty or the limit is met.
MessageDone(c, m) ==
  LET rest == InPage(c) \ {m}
      more == rest # {} /\ ~LimitReached(c.limit, c.fetched + 1)
  IN [c EXCEPT !.pc = IF more THEN "upsert" ELSE "progress",
               !.page = IF more THEN [@ EXCEPT ![m] = NoText] ELSE EmptyPage,
               !.msg = 0, !.canon = 0, !.index = 1,
               !.fetched = @ + 1,
               !.seen = IF m > @ THEN m ELSE @]

\* Every body is worth a document.
NeverTrash(body) == FALSE

IsTrash(body) == body = Trash

\* Messages of a page are taken newest first.  A body that IsTrash rejects is
\* stored and left at that.
Upsert(w) ==
  LET c == call[w] IN
  /\ At(w, "upsert")
  /\ \E m \in InPage(c) :
       /\ \A k \in InPage(c) : k <= m
       /\ UpsertRawMessage(m, c.page[m])
       /\ Settle(w, IF IsTrash(c.page[m])
                    THEN MessageDone(c, m)
                    ELSE [c EXCEPT !.pc = "find", !.msg = m], "failJob")
  /\ UNCHANGED <<docs, chunks, channelVars, src, job, cancelled>>

Body(c) == c.page[c.msg]

FindCanonical(w) ==
  LET c == call[w] IN
  /\ At(w, "find")
  /\ \E k \in 0 .. MaxId :
       /\ FoundCanonical(c.msg, Body(c), k)
       /\ call' = [call EXCEPT ![w] = [c EXCEPT !.pc = "save", !.canon = k]]
  /\ UNCHANGED <<storeVars, channelVars, src, job, cancelled, spent>>

Save(w) ==
  LET c == call[w] IN
  /\ At(w, "save")
  /\ SaveDocument(c.msg, Body(c), c.canon)
  /\ Settle(w, [c EXCEPT !.pc = "unchunk"], "failJob")
  /\ UNCHANGED <<raw, chunks, channelVars, src, job, cancelled>>

\* A duplicate is done without chunks.
DeleteChunks(w) ==
  LET c == call[w] IN
  /\ At(w, "unchunk")
  /\ DeleteChunksByDocumentID(c.msg)
  /\ Settle(w, IF c.canon # 0 THEN MessageDone(c, c.msg)
               ELSE [c EXCEPT !.pc = "chunk"], "failJob")
  /\ UNCHANGED <<raw, docs, channelVars, src, job, cancelled>>

InsertChunks(w) ==
  LET c == call[w] IN
  /\ At(w, "chunk")
  /\ InsertChunk(c.msg, c.index, Body(c))
  /\ Settle(w, IF c.index = ChunkCount[Body(c)] THEN MessageDone(c, c.msg)
               ELSE [c EXCEPT !.index = @ + 1], "failJob")
  /\ UNCHANGED <<raw, docs, channelVars, src, job, cancelled>>

-----------------------------------------------------------------------------
(***************************************************************************)
(* The end of a page, and of the call.                                     *)
(***************************************************************************)
SetProgress(w, done, total) ==
  job' = [job EXCEPT ![w] = [@ EXCEPT !.done = done, !.total = total]]

\* The loop goes on below the page, unless it was the last one.
NextPage(c) ==
  IF c.next = 0 \/ c.next = c.cursor
  THEN [c EXCEPT !.pc = "total", !.next = 0]
  ELSE [c EXCEPT !.pc = "fetch", !.cursor = c.next, !.next = 0]

UpdateJobProgress(w) ==
  LET c == call[w] IN
  /\ At(w, "progress")
  /\ SetProgress(w, c.fetched, IF c.limit > 0 THEN c.limit ELSE c.fetched)
  /\ Settle(w, NextPage(c), "failJob")
  /\ UNCHANGED <<storeVars, channelVars, src, cancelled>>

UpdateJobTotal(w) ==
  /\ At(w, "total")
  /\ SetProgress(w, call[w].fetched, call[w].fetched)
  /\ Settle(w, [call[w] EXCEPT !.pc = "complete"], "failJob")
  /\ UNCHANGED <<storeVars, channelVars, src, cancelled>>

CompleteJob(w) ==
  /\ At(w, "complete")
  /\ job' = [job EXCEPT ![w].status = "succeeded"]
  /\ Settle(w, [call[w] EXCEPT !.pc = "mark"], "failJob")
  /\ UNCHANGED <<storeVars, channelVars, src, cancelled>>

\* coalesce($2, last_message_id): the watermark is overwritten, not raised.
MarkSourceSyncSuccess(w) ==
  /\ At(w, "mark")
  /\ src' = [status |-> "active",
             watermark |-> IF call[w].seen = 0 THEN src.watermark
                           ELSE call[w].seen]
  /\ Settle(w, Blank("returned"), "failJob")
  /\ UNCHANGED <<storeVars, channelVars, job, cancelled>>

FailedJob(row) == [row EXCEPT !.status = "failed"]

\* The error path uses the same context and ignores its own errors.
ErrorStep(w, next) ==
  /\ call' = [call EXCEPT ![w] = Blank(next)]
  /\ IF w \in cancelled THEN UNCHANGED spent ELSE Fault

FailJob(w) ==
  /\ call[w].pc = "failJob"
  /\ \/ ErrorStep(w, "markError") /\ UNCHANGED job
     \/ /\ w \notin cancelled
        /\ job' = [job EXCEPT ![w] = FailedJob(@)]
        /\ call' = [call EXCEPT ![w] = Blank("markError")]
        /\ UNCHANGED spent
  /\ UNCHANGED <<storeVars, channelVars, src, cancelled>>

MarkSourceSyncError(w) ==
  /\ call[w].pc = "markError"
  /\ \/ ErrorStep(w, "failed") /\ UNCHANGED src
     \/ /\ w \notin cancelled
        /\ src' = [src EXCEPT !.status = "error"]
        /\ call' = [call EXCEPT ![w] = Blank("failed")]
        /\ UNCHANGED spent
  /\ UNCHANGED <<storeVars, channelVars, job, cancelled>>

-----------------------------------------------------------------------------
\* What call w does by itself once it has started.
CallStep(w) ==
  \/ CreateJob(w) \/ UpdateJobRunning(w) \/ Resolve(w)
  \/ FetchPage(w) \/ StopFetching(w)
  \/ Upsert(w) \/ FindCanonical(w) \/ Save(w) \/ DeleteChunks(w)
  \/ InsertChunks(w)
  \/ UpdateJobProgress(w) \/ UpdateJobTotal(w) \/ CompleteJob(w)
  \/ MarkSourceSyncSuccess(w)
  \/ CallFails(w) \/ FailJob(w) \/ MarkSourceSyncError(w)

ChannelStep ==
  \/ \E b \in Bodies : Post(b)
  \/ \E m \in Ids, b \in Bodies : Edit(m, b)
  \/ \E m \in Ids : Remove(m)

Next ==
  \/ ChannelStep
  \/ \E w \in Syncs : \/ \E f \in Resyncs, n \in Limits : GetSource(w, f, n)
                      \/ CallStep(w)
                      \/ Cancel(w)
                      \/ Crash(w)

Spec == Init /\ [][Next]_vars

\* A goroutine that can run is run, and every external call returns.
FairSpec == Spec /\ \A w \in Syncs : WF_vars(CallStep(w))

-----------------------------------------------------------------------------
(***************************************************************************)
(* Properties.                                                             *)
(***************************************************************************)
\* Incremental syncs never look at or below last_message_id again, so every
\* message of the channel that lies there must have its raw_messages row,
\* whatever other calls did in the meantime (for calls without max_messages).
WatermarkSound ==
  \A m \in Ids : channel[m] # NoText /\ m <= src.watermark => raw[m] # NoText

\* Every stored message at or below the watermark is fully processed: a failed,
\* cancelled or crashed sync leaves nothing half-chunked where no later
\* incremental sync will look (syncs one at a time, without full_resync).
SearchableBelowWatermark ==
  \A m \in Ids : m <= src.watermark => Processed(m, raw[m])

\* Deduplication never hides a text: the document a duplicate names is itself
\* no duplicate and carries the same text, across failed and repeated syncs
\* (syncs one at a time, no edits).
DuplicatesResolve ==
  \A m \in Ids : IsDuplicate(m) =>
    LET k == docs[m].dupOf IN IsCanonical(k) /\ docs[k].text = docs[m].text

\* No two documents of the source carry the same text as canonical ones, so
\* the export has each text once (syncs one at a time, no edits).
OneCanonicalPerText ==
  \A m, k \in Ids :
    IsCanonical(m) /\ IsCanonical(k) /\ docs[m].text = docs[k].text => m = k

\* When every call that was started has succeeded, every stored text can be
\* found: some canonical document carries it with all of its chunks, however
\* two calls interleaved on the same messages.
StoredTextsSearchable ==
  (\A w \in Syncs : call[w].pc \in {"idle", "returned"}) =>
    \A m \in Ids : raw[m] \in Texts =>
      \E k \in Ids : IsCanonical(k) /\ FullyChunked(k, raw[m])

\* MarkSourceSyncSuccess overwrites the watermark without comparing: syncs one
\* at a time on a channel that loses no message still never move it back, full
\* resyncs and bounded ones included.
WatermarkNeverRegresses == [][src'.watermark >= src.watermark]_src

\* Every call ends: the paging loop makes progress whatever is posted, edited
\* or removed meanwhile, and errors lead out of it.
SyncTerminates ==
  \A w \in Syncs : call[w].pc \in Working ~> call[w].pc \in Ended

\* A call that started its job ends with the job settled, as succeeded or as
\* failed, unless its client has disconnected or its process has died: FailJob
\* is reached on every error path (one failing call).
StartedJobSettles ==
  \A w \in Syncs :
    call[w].pc = "resolve" ~>
      \/ job[w].status \in {"succeeded", "failed"}
      \/ w \in cancelled \/ call[w].pc = "dead"

-----------------------------------------------------------------------------
(***************************************************************************)
(* Why the watermark is sound: the strengthening that every step keeps.    *)
(***************************************************************************)
Processing == {"find", "save", "unchunk", "chunk"}
Stored(m) == raw[m] # NoText
Live(m) == channel[m] # NoText

\* The locals of a call fit the statement it is about to run.
CallShape(c) ==
  /\ c.pc \in Processing =>
       /\ c.msg \in Ids /\ Body(c) \in Texts /\ Stored(c.msg)
       /\ c.index <= ChunkCount[Body(c)]
  /\ c.pc \notin Processing => c.index = 1
  /\ c.pc \notin Processing \cup {"upsert"} => InPage(c) = {}
  /\ c.pc \notin Processing \cup {"upsert", "progress"} => c.next = 0
  /\ c.pc \in {"createJob", "runJob", "resolve", "fetch"} /\ c.cursor = 0
       => c.seen = 0
  /\ c.next # 0 /\ c.cursor # 0 => c.next < c.cursor
  /\ c.seen # 0 => Stored(c.seen)

\* Ids the call still has to visit: the rest of its page, and what lies below
\* the page or below the cursor.
Pending(c, m) ==
  \/ m \in InPage(c)
  \/ c.next # 0 /\ m < c.next
  \/ c.pc = "fetch" /\ c.cursor # 0 /\ m < c.cursor

\* A call has stored every message up to the newest it knows of, except those
\* it still has to visit; and everything up to its starting point was stored.
Covered(c) ==
  \A m \in Ids : Live(m) =>
    /\ m <= c.min => Stored(m)
    /\ \A k \in InPage(c) \cup {c.seen} : m <= k => Stored(m) \/ Pending(c, m)

\* Whatever a call remembers was given out by Telegram.
KnownIds(c) ==
  c.min <= head /\ c.seen <= head /\ \A m \in InPage(c) : m <= head

\* What holds of one call at any time.
CallInv(c) == CallShape(c) /\ KnownIds(c) /\ Covered(c)

\* The inductive invariant behind WatermarkSound and ImplementsSyncLog.
SyncInv ==
  /\ TypeOK
  /\ \A m \in Ids : Live(m) => m <= head
  /\ src.watermark <= head
  /\ src.watermark # 0 => Stored(src.watermark)
  /\ WatermarkSound
  /\ \A w \in Syncs : CallInv(call[w])

\* The synchronisation is a SyncLog (for calls without max_messages).
Log == INSTANCE SyncLog WITH live <- {m \in Ids : channel[m] # NoText},
                             stored <- {m \in Ids : raw[m] # NoText},
                             mark <- src.watermark
ImplementsSyncLog == Log!LogSpec
=============================================================================
