---------------------------- MODULE MessageLinks ----------------------------
(***************************************************************************)
(* The sources whose messages become one document: lists of message links  *)
(* and whole channels (backend/internal/ingestion/telegram_message_links   *)
(* .go and backend/internal/processing/telegram_message_links.go), as      *)
(* SyncSource calls them, and how such a source is created.                *)
(*                                                                         *)
(* Every access to Telegram or the database is an action.  A document's    *)
(* text is the sequence of the messages that are not trash, and each of    *)
(* them is a chunk.                                                        *)
(***************************************************************************)
EXTENDS Selections, FiniteSetsExt

CONSTANTS
  Kinds,       \* what an instance looks at: "create", "links", "channel"
  Creators,    \* calls of CreateTelegramChannelDocumentSource for one channel
  Syncs,       \* calls of SyncSource, by number
  MaxId,       \* bound: message ids
  Texts, Trash, NoText,
  Channels,    \* what the channel may hold at the start
  LinkLists,   \* message ids of the links a request may have
  PageSize, Limits,   \* batch_size; max_messages, 0 for none
  MaxChanges,  \* bound: changes of the channel
  MaxFaults    \* bound: calls and statements that fail

ASSUME LinksAssumption ==
  /\ MaxId \in Nat /\ Trash \notin Texts /\ NoText \notin Texts \cup {Trash}
  /\ Channels \subseteq [1 .. MaxId -> Texts \cup {Trash, NoText}]
  /\ LinkLists \subseteq Seq(1 .. MaxId) \ {<<>>}
  /\ Syncs \subseteq Nat /\ PageSize \in Nat \ {0} /\ Limits \subseteq Nat
  /\ {MaxChanges, MaxFaults} \subseteq Nat

VARIABLES
  kind,
  rows,      \* sources, by url: the channel's own and the one made from it
  creator,   \* where each creator is
  channel,   \* the messages as Telegram shows them
  links,     \* telegram_message_links, in their order
  raw, doc, chunks,   \* of the source
  src,       \* its status and last_message_id
  job,       \* status of each call's job
  call,      \* where each call is
  crossed,   \* calls another one overlapped
  spent

createVars == <<rows, creator>>
storeVars == <<links, raw, doc, chunks, src, job>>
vars == <<kind, createVars, channel, storeVars, call, crossed, spent>>

Ids == 1 .. MaxId
NoDoc == [id |-> 0, text |-> <<>>]

NoCall == [pc |-> "off", limit |-> 0, cursor |-> 0, more |-> TRUE, got |-> <<>>,
           next |-> 1, doc |-> 0, text |-> <<>>]

Working == {"createJob", "runJob", "load", "resolve", "fetch", "raw", "replace",
            "document", "unchunk", "chunk", "complete", "mark", "fail", "error"}

TypeOK ==
  /\ kind \in Kinds
  /\ rows \in [{"plain", "made"} -> {"none", "public_channel", "channel_document"}]
  /\ creator \in [Creators -> [pc: {"off", "plain", "made", "insert", "again",
                                    "done", "failed"},
                               got: {"none", "plain", "made"}, fault: BOOLEAN]]
  /\ channel \in [Ids -> Texts \cup {Trash, NoText}]
  /\ links \in Seq(Ids)
  /\ raw \in [Ids -> Texts \cup {Trash, NoText}]
  /\ doc \in [id: Nat, text: Seq(Texts)]
  /\ chunks \in [Ids -> Texts \cup {NoText}]
  /\ src \in [status: {"active", "error"}, last: 0 .. MaxId]
  /\ job \in [Syncs -> {"none", "queued", "running", "succeeded", "failed"}]
  /\ call \in [Syncs ->
       [pc: Working \cup {"off", "over"}, limit: Limits \cup {0},
        cursor: 0 .. MaxId, more: BOOLEAN,
        got: Seq([id: Ids, body: Texts \cup {Trash, NoText}]),
        next: Nat, doc: Nat, text: Seq(Texts)]]
  /\ crossed \subseteq Syncs
  /\ spent \in [changes: 0 .. MaxChanges, faults: 0 .. MaxFaults]

\* Before its URL was made from the channel's, a channel document had that one;
\* the channel may also be a source of its own.
Init ==
  /\ kind \in Kinds
  /\ \E old \in {"none", "public_channel", "channel_document"} :
       rows = [u \in {"plain", "made"} |-> IF u = "plain" THEN old ELSE "none"]
  /\ kind # "create" => rows["plain"] = "none"
  /\ creator = [c \in Creators |-> [pc |-> "off", got |-> "none", fault |-> FALSE]]
  /\ channel \in Channels
  /\ links = <<>>
  /\ raw = [m \in Ids |-> NoText]
  /\ doc = NoDoc
  /\ chunks = [m \in Ids |-> NoText]
  /\ src = [status |-> "active", last |-> 0]
  /\ job = [w \in Syncs |-> "none"]
  /\ call = [w \in Syncs |-> NoCall]
  /\ crossed = {}
  /\ spent = [changes |-> 0, faults |-> 0]

Fault == /\ spent.faults < MaxFaults
         /\ spent' = [spent EXCEPT !.faults = @ + 1]

-----------------------------------------------------------------------------
(***************************************************************************)
(* CreateTelegramChannelDocumentSource.                                    *)
(***************************************************************************)
Looks(c, pc, got) ==
  /\ creator' = [creator EXCEPT ![c].pc = pc, ![c].got = got]
  /\ UNCHANGED <<rows, spent>>

Begins(c) == creator[c].pc = "off" /\ Looks(c, "plain", "none")

LooksForPlain(c) ==
  /\ creator[c].pc = "plain"
  /\ IF rows["plain"] = "channel_document" THEN Looks(c, "done", "plain")
     ELSE Looks(c, "made", "none")

\* Only CreateSource writes the made URL, so a row found under it is never of
\* another type, which the code would refuse here and after a conflict.
LooksForMade(c) ==
  /\ creator[c].pc = "made"
  /\ IF rows["made"] = "none" THEN Looks(c, "insert", "none")
     ELSE Looks(c, "done", "made")

CreateSource(c) ==
  /\ creator[c].pc = "insert"
  /\ rows["made"] = "none"
  /\ rows' = [rows EXCEPT !["made"] = "channel_document"]
  /\ \/ /\ creator' = [creator EXCEPT ![c].pc = "done", ![c].got = "made"]
        /\ UNCHANGED spent
     \/ creator' = [creator EXCEPT ![c].pc = "failed", ![c].fault = TRUE] /\ Fault

\* What a conflict would be without the second look.
ConflictReturned(c) ==
  /\ creator[c].pc = "insert"
  /\ rows["made"] # "none"
  /\ Looks(c, "failed", "none")

\* Another call was faster: its row is looked up.
ConflictLooked(c) ==
  /\ creator[c].pc = "insert"
  /\ rows["made"] # "none"
  /\ Looks(c, "again", "none")

LooksAgain(c) == creator[c].pc = "again" /\ Looks(c, "done", "made")

LookFails(c) ==
  /\ creator[c].pc \in {"plain", "made", "insert", "again"}
  /\ creator' = [creator EXCEPT ![c].pc = "failed", ![c].fault = TRUE]
  /\ Fault
  /\ UNCHANGED rows

Create(c) ==
  /\ kind = "create"
  /\ \/ Begins(c) \/ LooksForPlain(c) \/ LooksForMade(c) \/ CreateSource(c)
     \/ ConflictLooked(c) \/ LooksAgain(c) \/ LookFails(c)
  /\ UNCHANGED <<kind, channel, storeVars, call, crossed>>

\* normalizeTelegramMessageLinks: each link once, where it first stands.
Unique(list) ==
  Selected(list, {k \in DOMAIN list : \A j \in 1 .. k - 1 : list[j] # list[k]})

\* CreateTelegramMessageLinkSource: the source and its links are one transaction.
CreateLinkSource(list) ==
  /\ kind = "links"
  /\ links = <<>>
  /\ links' = Unique(list)
  /\ UNCHANGED <<kind, createVars, channel, raw, doc, chunks, src, job, call,
                 crossed, spent>>

-----------------------------------------------------------------------------
(***************************************************************************)
(* The channel: a message comes, changes or goes.                          *)
(***************************************************************************)
ChannelChanges(m, body) ==
  /\ kind # "create"
  /\ spent.changes < MaxChanges
  /\ body # channel[m]
  /\ channel[m] = NoText => \A k \in m .. MaxId : channel[k] = NoText
  /\ channel' = [channel EXCEPT ![m] = body]
  /\ spent' = [spent EXCEPT !.changes = @ + 1]
  /\ UNCHANGED <<kind, createVars, storeVars, call, crossed>>

-----------------------------------------------------------------------------
(***************************************************************************)
(* A call of SyncSource.                                                   *)
(***************************************************************************)
Active == {w \in Syncs : call[w].pc \in Working}

\* How a statement ends: the call goes on, or sees an error although the
\* statement took effect.
OnError(w) == IF call[w].pc \in {"createJob", "runJob"} THEN "over" ELSE "fail"

Settle(w, next) ==
  \/ call' = [call EXCEPT ![w] = next] /\ UNCHANGED spent
  \/ call' = [call EXCEPT ![w].pc = OnError(w)] /\ Fault

To(w, pc) == [call[w] EXCEPT !.pc = pc]

SyncFails(w) ==
  /\ call[w].pc \in Working \ {"fail", "error"}
  /\ call' = [call EXCEPT ![w].pc = OnError(w)]
  /\ Fault
  /\ UNCHANGED <<channel, storeVars, crossed>>

\* Calls are numbered as they begin; a list of links has no limit.
GetSource(w, limit) ==
  /\ call[w].pc = "off"
  /\ \A v \in Syncs : v < w => call[v].pc # "off"
  /\ kind = "links" => links # <<>> /\ limit = 0
  /\ call' = [call EXCEPT ![w].pc = "createJob", ![w].limit = limit]
  /\ crossed' = crossed \cup (IF Active = {} THEN {} ELSE Active \cup {w})
  /\ UNCHANGED <<channel, storeVars, spent>>

CreateJob(w) ==
  /\ call[w].pc = "createJob"
  /\ job' = [job EXCEPT ![w] = "queued"]
  /\ Settle(w, To(w, "runJob"))
  /\ UNCHANGED <<channel, links, raw, doc, chunks, src, crossed>>

UpdateJobRunning(w) ==
  /\ call[w].pc = "runJob"
  /\ job' = [job EXCEPT ![w] = "running"]
  /\ Settle(w, To(w, IF kind = "links" THEN "load" ELSE "resolve"))
  /\ UNCHANGED <<channel, links, raw, doc, chunks, src, crossed>>

\* ListTelegramMessageLinksBySource: the messages to ask for.
LoadLinks(w) ==
  /\ call[w].pc = "load"
  /\ call' = [call EXCEPT ![w].pc = "resolve",
                ![w].got = [k \in DOMAIN links |-> [id |-> links[k], body |-> NoText]]]
  /\ UNCHANGED <<channel, storeVars, crossed, spent>>

\* ResolveChannel and UpdateSourceResolvedChannel.
Resolve(w) ==
  /\ call[w].pc = "resolve"
  /\ call' = [call EXCEPT ![w].pc = "fetch"]
  /\ UNCHANGED <<channel, storeVars, crossed, spent>>

\* FetchMessages: one that is gone fails the call.
FetchMessages(w) ==
  /\ call[w].pc = "fetch"
  /\ kind = "links"
  /\ LET got == [k \in DOMAIN call[w].got |->
                   [id |-> call[w].got[k].id, body |-> channel[call[w].got[k].id]]]
     IN call' = IF \E k \in DOMAIN got : got[k].body = NoText
                THEN [call EXCEPT ![w].pc = "fail"]
                ELSE [call EXCEPT ![w].pc = "raw", ![w].got = got]
  /\ UNCHANGED <<channel, storeVars, crossed, spent>>

\* A page of the history, the newest below the cursor, and the progress of the
\* job.  What is fetched is put in the order of the ids at the end.
Below(cursor) ==
  Selected([m \in Ids |-> m],
           {m \in Ids : channel[m] # NoText /\ (cursor = 0 \/ m < cursor)})

PageLimit(c) ==
  IF c.limit > 0 /\ c.limit - Len(c.got) < PageSize THEN c.limit - Len(c.got)
  ELSE PageSize

\* A short or empty page is taken for one more.
FetchOnAndOn(w) ==
  /\ call[w].pc = "fetch"
  /\ kind = "channel"
  /\ call[w].limit = 0 \/ Len(call[w].got) < call[w].limit
  /\ LET below == Below(call[w].cursor)
         n == Min({PageLimit(call[w]), Len(below)})
         newest == SubSeq(below, Len(below) - n + 1, Len(below))
         page == [k \in 1 .. n |-> [id |-> newest[k], body |-> channel[newest[k]]]]
     IN Settle(w, [call[w] EXCEPT !.got = page \o @,
                                  !.cursor = IF n > 0 THEN newest[1] ELSE @])
  /\ UNCHANGED <<channel, storeVars, crossed>>

FetchHistory(w) ==
  /\ call[w].pc = "fetch"
  /\ kind = "channel"
  /\ call[w].more
  /\ call[w].limit = 0 \/ Len(call[w].got) < call[w].limit
  /\ LET below == Below(call[w].cursor)
         n == Min({PageLimit(call[w]), Len(below)})
         newest == SubSeq(below, Len(below) - n + 1, Len(below))
         page == [k \in 1 .. n |-> [id |-> newest[k], body |-> channel[newest[k]]]]
     IN Settle(w, [call[w] EXCEPT
                     !.got = page \o @,
                     !.cursor = IF n > 0 THEN newest[1] ELSE @,
                     !.more = n = PageLimit(call[w])])
  /\ UNCHANGED <<channel, storeVars, crossed>>

HistoryFetched(w) ==
  /\ call[w].pc = "fetch"
  /\ kind = "channel"
  /\ ~call[w].more \/ (call[w].limit > 0 /\ Len(call[w].got) >= call[w].limit)
  /\ call' = [call EXCEPT ![w].pc = "raw"]
  /\ UNCHANGED <<channel, storeVars, crossed, spent>>

UpsertRawMessage(w) ==
  /\ call[w].pc = "raw"
  /\ call[w].next <= Len(call[w].got)
  /\ LET message == call[w].got[call[w].next]
     IN raw' = [raw EXCEPT ![message.id] = message.body]
  /\ Settle(w, [call[w] EXCEPT !.next = @ + 1])
  /\ UNCHANGED <<channel, links, doc, chunks, src, job, crossed>>

Kept(got) == Selected(got, {k \in DOMAIN got : got[k].body # Trash})

\* What is trash goes into the document too.
TrashKept(w) ==
  /\ call[w].pc = "raw"
  /\ call[w].next > Len(call[w].got)
  /\ call' = [call EXCEPT ![w].text = [k \in DOMAIN call[w].got |-> call[w].got[k].body],
                         ![w].next = 1, ![w].pc = "document"]
  /\ UNCHANGED <<channel, storeVars, crossed, spent>>

RawStored(w) ==
  /\ call[w].pc = "raw"
  /\ call[w].next > Len(call[w].got)
  /\ LET kept == Kept(call[w].got)
     IN call' = [call EXCEPT
          ![w].text = [k \in DOMAIN kept |-> kept[k].body], ![w].next = 1,
          ![w].pc = IF kind = "channel" THEN "replace" ELSE "document"]
  /\ UNCHANGED <<channel, storeVars, crossed, spent>>

\* ReplaceTelegramMessageLinksBySource: a transaction.
ReplaceLinks(w) ==
  /\ call[w].pc = "replace"
  /\ links' = [k \in DOMAIN call[w].got |-> call[w].got[k].id]
  /\ Settle(w, To(w, "document"))
  /\ UNCHANGED <<channel, raw, doc, chunks, src, job, crossed>>

\* Without a message that is kept the document goes, and its chunks with it.
DeleteDocument(w) ==
  /\ call[w].pc = "document"
  /\ call[w].text = <<>>
  /\ doc' = [doc EXCEPT !.text = <<>>]
  /\ chunks' = [m \in Ids |-> NoText]
  /\ Settle(w, To(w, "complete"))
  /\ UNCHANGED <<channel, links, raw, src, job, crossed>>

\* A row that is there keeps its id.
SaveDocument(w) ==
  /\ call[w].pc = "document"
  /\ call[w].text # <<>>
  /\ LET id == IF doc.text = <<>> THEN doc.id + 1 ELSE doc.id
     IN /\ doc' = [id |-> id, text |-> call[w].text]
        /\ Settle(w, [call[w] EXCEPT !.pc = "unchunk", !.doc = id])
  /\ UNCHANGED <<channel, links, raw, chunks, src, job, crossed>>

\* A saved document keeps the chunks of its old text.
ChunksKept(w) ==
  /\ call[w].pc = "unchunk"
  /\ Settle(w, To(w, "chunk"))
  /\ UNCHANGED <<channel, storeVars, crossed>>

HasDocument(w) == doc.text # <<>> /\ doc.id = call[w].doc

DeleteChunks(w) ==
  /\ call[w].pc = "unchunk"
  /\ chunks' = IF HasDocument(w) THEN [m \in Ids |-> NoText] ELSE chunks
  /\ Settle(w, To(w, "chunk"))
  /\ UNCHANGED <<channel, links, raw, doc, src, job, crossed>>

\* A chunk of a document that is gone is refused.
InsertChunk(w) ==
  /\ call[w].pc = "chunk"
  /\ call[w].next <= Len(call[w].text)
  /\ IF HasDocument(w)
     THEN /\ chunks' = [chunks EXCEPT ![call[w].next] = call[w].text[call[w].next]]
          /\ Settle(w, [call[w] EXCEPT !.next = @ + 1])
     ELSE /\ call' = [call EXCEPT ![w].pc = "fail"]
          /\ UNCHANGED <<chunks, spent>>
  /\ UNCHANGED <<channel, links, raw, doc, src, job, crossed>>

Chunked(w) ==
  /\ call[w].pc = "chunk"
  /\ call[w].next > Len(call[w].text)
  /\ call' = [call EXCEPT ![w].pc = "complete"]
  /\ UNCHANGED <<channel, storeVars, crossed, spent>>

CompleteJob(w) ==
  /\ call[w].pc = "complete"
  /\ job' = [job EXCEPT ![w] = "succeeded"]
  /\ Settle(w, To(w, "mark"))
  /\ UNCHANGED <<channel, links, raw, doc, chunks, src, crossed>>

MarkSourceSyncSuccess(w) ==
  /\ call[w].pc = "mark"
  /\ LET ids == {call[w].got[k].id : k \in DOMAIN call[w].got}
     IN src' = [status |-> "active", last |-> IF ids = {} THEN src.last ELSE Max(ids)]
  /\ Settle(w, To(w, "over"))
  /\ UNCHANGED <<channel, links, raw, doc, chunks, job, crossed>>

\* Both errors are dropped.
FailJob(w) ==
  /\ call[w].pc = "fail"
  /\ call' = [call EXCEPT ![w].pc = "error"]
  /\ \/ job' = [job EXCEPT ![w] = "failed"] /\ UNCHANGED spent
     \/ UNCHANGED job /\ Fault
  /\ UNCHANGED <<channel, links, raw, doc, chunks, src, crossed>>

MarkSourceSyncError(w) ==
  /\ call[w].pc = "error"
  /\ call' = [call EXCEPT ![w].pc = "over"]
  /\ \/ src' = [src EXCEPT !.status = "error"] /\ UNCHANGED spent
     \/ UNCHANGED src /\ Fault
  /\ UNCHANGED <<channel, links, raw, doc, chunks, job, crossed>>

Sync(w) ==
  /\ kind \in {"links", "channel"}
  /\ \/ \E limit \in Limits : GetSource(w, limit)
     \/ CreateJob(w) \/ UpdateJobRunning(w) \/ LoadLinks(w) \/ Resolve(w)
     \/ FetchMessages(w) \/ FetchHistory(w) \/ HistoryFetched(w)
     \/ UpsertRawMessage(w) \/ RawStored(w) \/ ReplaceLinks(w)
     \/ DeleteDocument(w) \/ SaveDocument(w) \/ DeleteChunks(w)
     \/ InsertChunk(w) \/ Chunked(w) \/ CompleteJob(w)
     \/ MarkSourceSyncSuccess(w) \/ FailJob(w) \/ MarkSourceSyncError(w)
     \/ SyncFails(w)
  /\ UNCHANGED <<kind, createVars>>

Next ==
  \/ \E c \in Creators : Create(c)
  \/ \E list \in LinkLists : CreateLinkSource(list)
  \/ \E m \in Ids, body \in Texts \cup {Trash, NoText} : ChannelChanges(m, body)
  \/ \E w \in Syncs : Sync(w)

Spec == Init /\ [][Next]_vars

\* A call that has begun is run on, and Telegram and the database answer, be it
\* with an error; nobody has to call, and no message has to come or go.
FairSpec ==
  Spec /\ \A w \in Syncs : WF_vars(call[w].pc # "off" /\ Sync(w))

-----------------------------------------------------------------------------
(***************************************************************************)
(* Properties.                                                             *)
(***************************************************************************)
\* While nobody works on the source, a call that is over and whose job says
\* "succeeded", the last one to begin and overlapped by none, has left one
\* document made of exactly the messages it fetched that are not trash, in
\* their order and with exactly their chunks, or none; the stored messages and
\* the links are those it fetched: whatever earlier calls left half done.
Latest(w) == \A v \in Syncs : v > w => call[v].pc = "off"

BundleIsWhole ==
  \A w \in Syncs : Latest(w) /\ w \notin crossed
                     /\ call[w].pc = "over" /\ job[w] = "succeeded" =>
    LET got == call[w].got
        kept == Kept(got)
    IN /\ doc.text = [k \in DOMAIN kept |-> kept[k].body]
       /\ \A m \in Ids : chunks[m] = IF m <= Len(kept) THEN kept[m].body ELSE NoText
       /\ links = [k \in DOMAIN got |-> got[k].id]
       /\ \A k \in DOMAIN got : raw[got[k].id] = got[k].body
       /\ kind = "channel" => \A k \in 2 .. Len(got) : got[k - 1].id < got[k].id

\* A call that has begun ends, whatever pages the channel gives it while messages
\* are posted and removed under it, and whatever its links and chunks meet: the
\* loop over the history has no bound of its own when max_messages is 0.
SyncsEnd == \A w \in Syncs : call[w].pc \in Working ~> call[w].pc = "over"

\* However many clients add one channel at once, they get one source: a second
\* one is not refused and makes no second row.
CreatorsAgree ==
  /\ \A c \in Creators : creator[c].pc = "failed" => creator[c].fault
  /\ \A c, d \in Creators :
       creator[c].pc = "done" /\ creator[d].pc = "done" => creator[c].got = creator[d].got
=============================================================================
