# tg-rag-ingestor: specifications and proofs

TLA+ modules, TLC configurations and TLAPS proofs for the backend of
tg-rag-ingestor. Paths below are relative to the repository; `internal/` stands
for `backend/internal/`.

## 1. The system

The Go backend collects texts (public Telegram channels, single Telegram posts,
JSON uploads, YouTube audio, uploaded audio, HeadHunter vacancies and resumes,
local folders), stores them in PostgreSQL, cleans, deduplicates and chunks them,
and exports them for retrieval. An HTTP API and a Telegram bot drive it, each a
process of its own on the same database. There is no queue and no worker
(`cmd/worker` is a placeholder): work runs in the goroutine of the HTTP request,
or in a goroutine the handler or the bot starts. No database transaction spans
several statements of a workflow, except the replacement of message-link
snapshots. These three facts make the hard behaviours: two requests for the same
source interleave statement by statement, a failure leaves whatever the earlier
statements wrote, and a dead process leaves rows that say "running".

| Component | State it keeps | Operations | Interacts with | Hard behaviour | What makes it correct |
|---|---|---|---|---|---|
| Channel synchronisation (`internal/ingestion/service.go`) | `sources.last_message_id`, `sources.status`, a `jobs` row per call | SyncSource, ImportJSON | Telegram collector, processing, repository | overlapping calls, failure between statements, cancelled request context, crash | no message is left behind the watermark; calls end and settle their job |
| Telegram collector (`internal/telegram`) | none (MTProto session on disk) | ResolveChannel, FetchChannelHistory, FetchMessages | Telegram | page boundaries, limits, channel changing between pages | a chain of pages covers every message between start and end |
| Processing (`internal/processing`) | `documents`, `chunks` | ProcessRawMessage, message-link and channel-document variants | repository, cleaning, chunking | find-then-save without a transaction | each stored text is searchable exactly once |
| Repository (`internal/storage`) | all tables | one SQL statement per method, mostly | PostgreSQL | upserts, overwrite versus merge | idempotence under retry |
| Message-link and channel-document sources (`internal/ingestion/telegram_message_links.go`) | `telegram_message_links` snapshot, documents | create (get-or-create), two sync loops | collector, repository | unique-key races, snapshot replaced in one transaction | the snapshot matches the documents |
| YouTube audio (`internal/youtube`) | `sources.status`, `youtube_audio_artifacts`, jobs, one document | create, download, transcribe, upload | sidecar service, repository | check-then-start in the handler, goroutine outliving the request, ignored errors, crash | status "running" means someone works on it; "transcribed" means searchable |
| Audio sidecar (`services/youtube_audio_service`) | files | download, transcribe | yt-dlp, Deepgram | key rotation, time-outs | outside this project so far: an external call |
| HeadHunter tokens (`internal/auth`, `internal/hhtokens`, `internal/api/hh_handlers.go`) | access and refresh token in memory, configuration and `.env` | exchange, refresh, persist | HeadHunter, the client, other requests | a single-use refresh token held by several managers, an unlocked file rewrite | the newest token pair survives |
| HeadHunter client (`internal/hhclient`) | rate-limiter slot | do with retries | HeadHunter, token manager | retry on 429/5xx, refresh on 401 | bounded attempts, spacing of requests |
| HeadHunter extraction (`internal/service`, `internal/negotiations`, `internal/resumes`, `internal/export/hh_resumes.go`) | manifest and files of a directory | Run: paging, fallbacks, deduplication by resume id, parallel fetches and downloads | client, export | partial failure of items, one directory for two runs | the manifest says of every resume what became of it |
| HeadHunter imports (`internal/hhpublic`, `internal/hhresumesearch`) | a search | Import: windows that are split, pages, parallel fetches | client, ImportJSON | what is read changes while it is | the newest vacancies within the limit are imported |
| Exports (`internal/export`) | `exports` row, files, files uploaded for OCR | create, write, complete or fail | repository, file system, Mistral | a failure between row and file, a cancelled request, one name for two exports | a completed row has its rows in its file; nothing stays at Mistral |
| Folder scan (`internal/filescan`) | what is still to walk | walk, unpack, filter | file system | archives in archives, broken ones, limits | every eligible file once |
| Chunker (`internal/chunking`) | none | SplitWithConfig | - | boundaries | no text lost, size bounds |
| Bot (`internal/tgbot`) | long-poll offset and per-chat state, in memory | update loop, per-chat flows | all services | goroutines per upload, restart | each update handled, state per chat consistent |
| Migrations (`internal/db`) | `schema_migrations` | Up | PostgreSQL | two processes starting at once | each migration applied once |
| Configuration, naming, models, mains, frontend | - | - | - | - | no behaviour of their own |

## 2. Modules

| Module | Role |
|---|---|
| `DocStore` | The tables `raw_messages`, `documents`, `chunks` of one source, and the SQL statements run on them. |
| `ChannelSync` | SyncSource, syncSourceWithJob and ProcessRawMessage for any number of calls; the channel; faults, cancellation, crashes. Extends `DocStore`. |
| `SyncLog` | What synchronisation promises: a growing store and a watermark nothing is missing below. |
| `YouTubePipeline` | DownloadSourceAudio and TranscribeSourceAudio, the two HTTP handlers and the bot command that start them; faults, the bot's deadline, crashes. Extends `DocStore`. |
| `MessageLinks` | The sources whose messages become one document: their creation, and SyncSource for a list of links and for a whole channel. |
| `TgBot` | The bot's update loop, sessions and goroutines; lost polls, restarts. |
| `FolderScan`, `MistralOCR`, `Requests`, `Exports` | ScanDirectory; the OCR of a file by Mistral; requests whose clients may leave; the exports that use them. `Exports` extends the others. |
| `HHTokens` | The token managers, HeadHunter's token endpoint, `.env`, and the attempts of the client. |
| `JSONImport`, `VacancySearch`, `ResumeSearch`, `HHExtraction`, `HeadHunter` | ImportJSON; the two searches; Run of the extraction; their composition, where a search hands what it found to ImportJSON. |
| `Selections` | What a loop builds that goes over a list and appends what it keeps; for `FolderScan`, `Exports`, `MessageLinks`, `JSONImport`, `VacancySearch`, `ResumeSearch` and `HHExtraction`. |
| `MC...` | Values for TLC, one module per run or family of runs. |
| `ChannelSync_proofs` | Type correctness, and deduplication for calls one at a time; the inductive invariant, the safety of the watermark and the refinement of `SyncLog`; that the watermark rises, and what is below it is searchable. |
| `YouTubePipeline_proofs` | Type correctness, who works behind the status "running", what the jobs tell, and what "transcribed" promises. |
| `TgBot_proofs`, `HHTokens_proofs`, `MessageLinks_proofs`, `Exports_proofs` | Every safety property of their module but `ScanAccountsForTheTree`, from one inductive invariant each. |
| `HeadHunter_proofs` | Every safety property of `HeadHunter`: an invariant for the types, and one for each of the imports, the search of vacancies and the extractions. |
| `Selections_proofs` | What `Selected` returns. |

## 3. Channel synchronisation

### State and actions

`call[w]` holds the locals of one call of SyncSource: the program counter `pc`
names the statement it runs next, `min` is `minMessageID` as read by GetSource,
`cursor`, `page` and `next` are the paging variables, `seen` is `maxMessageID`,
`fetched` is `counters.MessagesFetched`, `msg`, `canon` and `index` belong to
ProcessRawMessage. `job[w]`, `src`, `raw`, `docs` and `chunks` are table rows.

One action is one external call, because other calls may run between any two of
them, and everything up to the next external call belongs to the same action
(`MessageDone` contains the counters, `maxMessageID` and both loop exits). Each
statement can succeed, fail without effect (`CallFails`), or take effect although
its caller sees an error (`Settle`). `OnError` sends errors before the job runs
straight to the caller, and later ones to FailJob and MarkSourceSyncError, which
use the same context and whose errors are dropped (`ErrorStep`). `Cancel` is the
client that disconnects: from then on nothing that needs the context succeeds.
`Crash` ends a call wherever it is.

A text is one value per distinct cleaned body, so equality of texts is equality
of `content_hash`; `Trash` is any body IsTrash rejects. A message id stands for
its document (`external_doc_id` contains it), and `born` for `created_at`.
Telegram numbers messages upwards, returns the newest eligible messages first
and never reuses a number; posts, edits and removals happen at any time.

### What the runs check

| Run | Question | Result |
|---|---|---|
| `sync_concurrent` | Two overlapping unbounded syncs, a failing statement, a removed message. Is the watermark ever above a message that is missing (`WatermarkSound`)? Does `SyncInv` hold? Is the whole a `SyncLog` (`ImplementsSyncLog`)? Is each stored text in a canonical, fully chunked document when both syncs succeed (`StoredTextsSearchable`)? | holds |
| `sync_sequential` | Three syncs one after the other, full or incremental, with and without max_messages, one failing statement and one crash. Do duplicates name a canonical document of the same text (`DuplicatesResolve`), is there one canonical document per text (`OneCanonicalPerText`), does the watermark only rise (`WatermarkNeverRegresses`)? | holds |
| `sync_incremental` | Two incremental syncs with an edit, a failing statement, and a disconnect or a crash. Is everything below the watermark fully processed (`SearchableBelowWatermark`)? Does every call end (`SyncTerminates`), with its job settled unless it was cut off (`StartedJobSettles`)? | holds |
| `sync_three_calls` | `StoredTextsSearchable` for three syncs, two at a time | violated |

The violated run is a finding. In `sync_three_calls` an overlap
first leaves two canonical documents with one text (both lookups came before both
saves). Two later visits then cross: each finds the other's document, is saved as
a duplicate of it and loses its chunks, and all jobs are succeeded. Two
calls do not get that far (`sync_concurrent`). `StartedJobSettles` leaves out calls
whose client has disconnected, because FailJob then runs on the cancelled context
and the job stays "running".

### Bounds

Two or three messages, one or two texts (one of two chunks), two or three calls.
Pages of one to three messages and `MaxPage = 2` make full, partial and empty
pages happen, and a batch size above the maximum as well. One removal, edit,
failing statement, and disconnect or crash: they can strike at any statement, and the
properties relate at most two documents and two calls, so a second one adds no
new relation; the proofs below have no bound. Symmetry is used over calls, which
differ in nothing, and not for liveness. Deadlock is not checked: calls end, and
the bounded channel comes to rest.

Where a property needs a restriction its comment says so: `DuplicatesResolve`
and `OneCanonicalPerText` fail for overlapping calls for the reason of
`sync_three_calls`, and after an edit the duplicates of the edited document keep
pointing to it; a sync with max_messages takes the newest messages and moves the
watermark past the older ones, so `WatermarkSound` is about calls without it.

### Fairness

`WF_vars(CallStep(w))`: a goroutine that can run is run, and a call to Telegram
or PostgreSQL returns, with a result or with an error. The client library and
the driver bound every call by time-outs or by the context. Nothing is assumed
of the channel, of new calls, of disconnects or crashes.


## 4. The YouTube audio pipeline

### State and actions

One source of type youtube_video: `status` is `sources.status`, `artifact` its
row of `youtube_audio_artifacts` (whether there is an audio path is all that
matters of it), document 1 of `DocStore` its transcript. `call[w]` is one request
with the goroutine it starts, `job[w]` the two jobs it creates. A request is
*download* or *transcribe* over HTTP, where the handler first looks at the
status, or comes from the *bot*, which does not look and has a deadline of two
hours. Between the handler's look and the goroutine's `SetRunning` others may run.

The code has two sorts of statement, and the model two operators. An error of a
`Hard` statement ends the work, along the path `OnError` gives for that
statement: some return at once, others go through `FailJob`, `SetError` and
`SaveNote`. An error of a `Soft` one is dropped (`_ = s.repo...`). A statement may
take effect and still report an error. Once the deadline of a bot request has
passed (`Expire`) nothing it does succeeds, the clean-up included. `Crash` kills
all requests of one process. The sidecar is an external call that answers,
answers without a path, or fails; two transcriptions of one audio need not give
the same text. The early returns on a cancelled context are left out: neither
caller's context is ever cancelled. Titles and job payloads are left out too.

### What the runs check

| Run | Question | Result |
|---|---|---|
| `yt_overlap` | Three requests of any kind, two of them overlapping, one failing in the sidecar. Is somebody at work on every source that is "running" (`RunningMeansWorking`)? Does the status stop being "running" (`RunningEnds`)? Do the jobs of a request that ended tell how it ended (`JobsTellTheOutcome`)? | holds |
| `yt_sequential` | Three requests one after the other, a sidecar fault, and one lost statement, passed deadline or crash. Does "transcribed" mean a complete document (`TranscribedIsSearchable`)? | holds |

What the restrictions of these runs leave out are weaknesses of the code, and
each can be seen by lifting one of them. With `MaxActive = 2` two downloads that
both passed the check run saveTranscriptDocument together, and one deletes and
inserts chunks under the document the other has just saved. With
`Mishaps = {"database"}` and `MaxMishaps = 1` a failing CreateJob returns without restoring the status,
and from then on the handlers refuse. A failed re-download saves an artifact
without a path over the one that had it (`SaveNote`).

`TranscribedIsSearchable` needs both of its restrictions. Overlap breaks it, as
said; and so do two mishaps, for instance when the `transcribing` mark is lost (its
error is dropped) and the process dies after the document was overwritten.

### Bounds and fairness

A transcript of two chunks and one of one, so that a retry can leave a chunk too
many or too few; three requests of which two overlap, so that one can check, work
or clean up at any statement of the other, and a third comes after both; one
mishap at any statement. Fairness is
`WF_vars(CallStep(w))`: goroutines are scheduled, the database answers or fails,
and the sidecar client has a time-out of ninety minutes per call. Deadlock is not
checked because requests end.

## 5. Message links and channel documents

### State and actions

`MessageLinks` looks at one of three things in each instance (`kind`). *create*:
several calls of CreateTelegramChannelDocumentSource for one channel; `rows` says
what the `sources` table has under the channel's own URL and under the one made from
it. *links* and *channel*: one source, created with its links in one transaction
(`CreateLinkSource`) or filled by its first sync, and calls of SyncSource on it
while the channel changes (`ChannelChanges`). `call[w]` is a call with its program
counter and what it fetched; `links`, `raw`, `doc`, `chunks`, `src` and `job` are
rows. The document is the sequence of the messages that are not trash; a message
is a chunk of it. `doc.id` is new whenever the row is inserted again, so that a
call notices that its document is gone. Statements fail or lose their answer as in
`ChannelSync` (`SyncFails`, `Settle`). The checks that all links belong to one
channel, and titles, are left out.

### The run

`links` checks `BundleIsWhole`: a call that succeeded, and that no other one
overlapped, leaves one document of exactly the messages it fetched, their chunks,
their links and their stored texts, whatever earlier calls left half done (three
tables without a common transaction, a document that shrinks, that vanishes when
all is trash and comes back). It also checks `CreatorsAgree`: however many
clients add one channel, they get one source, through the unique key and the
second look. Overlapping calls are exempt for a reason: the code lets the links of
one stay beside the document of the other. And a sync that has begun ends
(`SyncsEnd`), although the loop over a channel's history has no bound of its own
and messages come and go under it.

Bounds: three messages, two calls, pages of two (a full and a short one), with and
without max_messages, three creators, one change, one fault. Fairness
(`FairSpec`): a sync that has begun is run on, and Telegram and PostgreSQL answer it,
be it with an error; nothing is assumed of clients and channels.

`LooksForMade` has no branch for a row of another type under the made URL, which
the code would refuse: no other type of source has a URL of that form.

## 6. The Telegram bot

### State and actions

`inbox`, `confirmed` and `offset` are Telegram's queue and what Run knows of it;
`loop` is where the update loop is, between two accesses to the session if
need be; `session[c]` is `b.sessions`; `task[u]` is the goroutine that
update `u` has started. Each access to a session under the mutex is one action,
because goroutines and the loop replace sessions as a whole. A message is
its kind (a button, a command, an import, a text) and, where it chooses a
vacancy, its query; which candidates a query fits, and how well, is left open. What
imports do is in the modules of their components: here they end or fail.
`GetUpdatesFails` is a poll whose answer is lost, and may have confirmed; `Restart`
forgets everything but Telegram's queue.

### The run

`bot_sessions`: Telegram drops only what has been handled although the offset
moves first (`NothingSkipped`), only restarts repeat an update (`OncePerStart`), the
period is asked for only with a vacancy selected (`DateStateHasVacancy`), the bot
catches up (`CatchesUp`). One chat, three
updates, one lost poll and one restart: the third update is what a goroutine of the
first or second can cross; chats share nothing. Fairness: the
loop goes on, and every poll of it carries a time-out.

What no property says: that a goroutine's write loses none of the changes the loop
made meanwhile, because it does; and what happens when the period is dispatched on
a state read before the session is (`bot.go:1077`) and the selection has gone in between.
The replies a chat gets are not modelled.

## 7. Exports

### State and actions

`exports` is the table, `disk` the directory with names that carry the second of
their creation, `call[c]` a request for a text export or a folder export.
Messages are numbered up to `MaxMessage`. `FolderScan` walks a tree of files and
archives, given by constants (`TreeAssumption`: whatever is in the folder or in an
archive lies in one place of it), and sorts the list by a bijection on its places; `scan[c]` is
its worklist, list and counters. `MistralOCR` uploads, reads and deletes each file;
`remote` is what Mistral keeps, `temp` the temporary copies. `Requests` has the
contexts that may be done (`CancelCall`). Writers are buffered: rows reach the file
when the buffer is full and at the end, at the writer's own place, so that two
exports of one name overwrite each other. `Synchronise` is what processing does to
the source of a text export meanwhile; `Crash` ends everything but the tables,
files and uploads. Formats, sizes and the content of a row are left out.

### The run

`exports`: a finished scan lists what it owes, once, within its limit, and its
counters add up (`ScanAccountsForTheTree`); a succeeded export's file holds its own
rows, as many as its row says, none twice (`FileHoldsItsRows`); a row left
"running" had its request cut off, a statement lost or its process killed
(`RunningMeansInterrupted`); extraction cleans up at Mistral and in the temporary
directory on every path (`MistralIsLeftClean`); exports end (`ExportsEnd`).

The tree has a document, an archive in an archive with one too deep
to open, an unsupported file, and an archive of nothing but a system file. A scan may
list three files, which is what the tree holds when everything is unpacked; when
the last archive is broken it makes a fourth, and the scan fails at its limit
unless another one is broken too. Two attempts, one remote fault, one crash, two
messages of which one is processed, two seconds. Calls of the two kinds share
only the table, where each has its row, so they come in separate batches. Two
exports of one name are exempt from `FileHoldsItsRows`: they do collide. Fairness: a
request is worked on, and database and Mistral answer or fail within the time-outs
of their clients; nothing is assumed of synchronisation, clocks or clients.

## 8. HeadHunter tokens

### State and actions

Every call copies its process's configuration into a manager of its own
(`manager[c]`, with its `lock[c]`), which the workers of the call share. `hh` is
HeadHunter: pairs numbered as issued, whose access token is `fresh`, whose refresh
token is `usable`, who asked for them and which one they replaced. `file` is
`.env`, `conf` the configuration of each process. A worker's steps are those of
Client.do (attempt, 401 and refresh, retry on 429, 5xx or no answer, an end
without a retry when an answer breaks off), of refresh
(wait for the lock, compare with the token that failed, ask, save) and of
PersistEnvValues (read, empty, write, without a lock). An answer may be lost after
HeadHunter has replaced the pair, a file write may break off, a process may die and
be started again from `.env` or, in a container, from the environment it was
created with.

### The run

`hh_tokens`: a pair is replaced once, however many workers meet the expired token,
and a refresh token is refused only when another call used it or an answer was lost
(`RefreshedOnce`, an action property); `.env` lets the next process in, or the pair
that would is on its way or was lost with an answer or a save (`EnvFileLetsIn`); every
worker ends, whoever holds the lock (`CallsEnd`). Three calls, two at a time, one of
them with two workers; two attempts, three pairs, one fault: two workers of one
manager, two managers of one pair, and a code exchanged over both are the cases.
Fairness is weak fairness of each worker: requests have time-outs.

What `EnvFileLetsIn` excuses is a weakness: persistRefreshedHHTokens returns
before it writes when the request's context is done, although HeadHunter has
replaced the pair. README.md:458 says the tokens "are saved to `.env` after code
exchange and after refresh"; in the model `unsaved` is not empty then.

Left out: the spacing of requests and the length of back-offs, which are times; and
the callback's state parameter.

## 9. HeadHunter imports and extractions

### State and actions

`HeadHunter` composes four modules and looks at one kind of work in an instance.

- `JSONImport`: ImportJSON for several imports at a time. `imp[c]` has the records
  the payload was parsed to, the ids used and the place in the loop (an item counts
  when one of its `keys` is one a text is taken from); `raw[c]` is the
  source the import makes; `docs` is keyed by source *name* and message id, as
  `external_doc_id` is, so imports of one name share rows (`over` notes who was
  overwritten). Each statement is an action and may fail.
- `VacancySearch`: collectWindow, splitWindow and fetchWindowItems; `search.left`
  are the calls still to come. collectWindow's branch for a window splitWindow
  refuses is left out: a window of whole seconds that is no leaf always has halves.
  HeadHunter shows only the newest `PerWindow` of a window,
  and vacancies come and go meanwhile (`HeadHunterChanges`).
- `ResumeSearch`: pages of hits, then the resumes in full, several at a time, all or
  none. What is found goes to ImportJSON as the keys it is marshalled with.
- `HHExtraction`: Run, with first page, collections or further pages, duplicates,
  filters, letters, parallel fetches and downloads, the combined files and the
  manifest, in a directory named by the second. `run[c].rows` is
  `manifest.Candidates`, and a download changes the row at its `manifestIndex`.

`MaxId` bounds the numbers an import may give, which are 64-bit integers in the code:
`HeadHunterAssumption` says that there is room above every id of a payload for as
many numbers as the payload has items, so that the loop which looks for a free number
never runs out.

Times are whole seconds; a text is one chunk; a request that fails, a cancelled one
and a dead process look alike to the database and are one outcome (`Fails`,
`SearchFails`, `RunFails`).

### The runs

`hh_imports`: an import that is done has stored each record under an id of its own
and each text once with its chunk (`ImportIsWhole`); a collected search has the
newest vacancies that were online all the time (`TheLatestAreCollected`); the manifest
of a finished extraction says of every resume what became of it
(`ManifestTellsTheTruth`); and whatever was begun ends (`WorkEnds`), under weak fairness
of the goroutines at work. Each property names what it exempts, and each exemption
is needed: an import of the same name writing at the same time, a window that
changes while its pages are read or a second with more vacancies than a window
shows, and two extractions in one directory.

Bounds: two uploads of up to three items with repeated and missing ids, repeated
texts, trash and items without a text; six seconds of seven vacancies, two of them
to a window and one to a page, limits below and above what there is, two changes;
three resumes on two pages; two extractions of three applicants, with two requests
in parallel.

`hh_resumes` is a finding: `FoundResumesAreImported` is violated. The search marshals
`[]model.Resume`, which has none of the keys parseImportedItem takes a text from,
so ImportJSON rejects every payload, while `hh_handlers.go:359` announces the import.

## 10. What is proved

TLAPS proves the theorems below for every value of the constants that the named
assumptions of the modules allow (`StoreAssumption`, `SyncAssumption`,
`PipelineAssumption`, `LinksAssumption`, `BotAssumption`, `ScanAssumption`,
`TreeAssumption`, `OCRAssumption`, `ExportAssumption`, `TokensAssumption`,
`ImportAssumption`, `VacancyAssumption`, `ResumeAssumption`, `ExtractionAssumption`,
`HeadHunterAssumption`), so for any
number of calls, messages, texts, chunks and faults. They say that sets are
finite, bounds are natural numbers and special values are not ordinary ones, that a
full window is full pages, and that numbers fit (section 9); TLC
evaluates them in every run. The only further assumptions are those in the third
column.

| Theorem | Statement | Assumes |
|---|---|---|
| `TypeCorrect` | `Spec => []TypeOK` of `ChannelSync` | - |
| `SyncInvariant` | `Spec => []SyncInv` | `Unbounded`: no call carries max_messages |
| `WatermarkSafe` | `Spec => []WatermarkSound` | `Unbounded` |
| `SyncImplementsLog` | `Spec => Log!LogSpec` | `Unbounded` |
| `DuplicatesAlwaysResolve` | `Spec => []DuplicatesResolve` | `OneAtATime`: `MaxActive = 1`; `NoEdits`: no message changes |
| `TextsHaveOneCanonical` | `Spec => []OneCanonicalPerText` | `OneAtATime`, `NoEdits` |
| `WatermarkOnlyRises` | `Spec => WatermarkNeverRegresses`, an action property | `OneAtATime`, `NoRemovals`: no message is deleted |
| `BelowWatermarkIsSearchable` | `Spec => []SearchableBelowWatermark` | `Unbounded`, `OneAtATime`, `NoRemovals`, `Incremental`: no full resync |
| `PipelineTypes` | `Spec => []TypeOK` of `YouTubePipeline` | - |
| `RunningIsWorkedOn` | `Spec => []RunningMeansWorking` | `NoMishaps`: no statement is lost, no deadline passes, no process dies |
| `JobsTell` | `Spec => []JobsTellTheOutcome` | `NoMishaps` |
| `TranscribedHasItsChunks` | `Spec => []TranscribedIsSearchable` | `OneRequest`: `MaxActive = 1`; `OneMishap`: at most one |
| `LinksInvariant`, `LinksTypeCorrect` | `Spec => []LinksInv`, `[]TypeOK` of `MessageLinks` | - |
| `OneSourceForOneChannel` | `Spec => []CreatorsAgree` | - |
| `SyncLeavesAWholeBundle` | `Spec => []BundleIsWhole` | - |
| `BotInvariant`, `BotTypeCorrect` | `Spec => []BotInv`, `[]TypeOK` of `TgBot` | - |
| `BotSkipsNothing` | `Spec => []NothingSkipped` | - |
| `BotHandlesOncePerStart` | `Spec => []OncePerStart` | - |
| `PeriodIsForAVacancy` | `Spec => []DateStateHasVacancy` | - |
| `ExportInvariant`, `ExportsTypeCorrect` | `Spec => []ExportInv`, `[]TypeOK` of `Exports` | - |
| `OnlyInterruptedRowsRun` | `Spec => []RunningMeansInterrupted` | - |
| `ExtractionsCleanUp` | `Spec => []MistralIsLeftClean` | - |
| `FilesHoldTheirRows` | `Spec => []FileHoldsItsRows` | - |
| `TokensInvariant`, `TokensTypeCorrect` | `Spec => []TokensInv`, `[]TypeOK` of `HHTokens` | - |
| `EnvFileStaysUsable` | `Spec => []EnvFileLetsIn` | - |
| `PairsAreRefreshedOnce` | `Spec => RefreshedOnce`, an action property | - |
| `TypeCorrect` of `HeadHunter_proofs` | `Spec => []TypeOK` of `HeadHunter` | - |
| `DoneImportsAreWhole` | `Spec => []ImportIsWhole` | - |
| `SearchesCollectTheLatest` | `Spec => []TheLatestAreCollected` | - |
| `ManifestsTellTheTruth` | `Spec => []ManifestTellsTheTruth` | - |

**The watermark.** `WatermarkSound` says that whatever is in the channel at or
below `last_message_id` has been stored. It is not inductive: whether
MarkSourceSyncSuccess keeps it depends on what the call's `seen` stands for, and
that is known only from the pages the call has been through. `SyncInv` adds, for
every call, `Covered`: everything up to the call's starting point was stored, and
everything up to the newest message it knows of is stored, or is still `Pending`,
that is in its page, below its page, or below its cursor. `Covered` survives a page
because the collector returns the *newest* eligible messages and names a cursor
exactly if the page is full (`Newest`, `NextCursor`: the lemmas about them are
the only place where cardinalities are needed). It survives messages
posted meanwhile because they get numbers above `head`, and everything a call
remembers is at or below `head` (`KnownIds`); and it survives the other calls
because they only add to `raw`. When the loop ends nothing is pending, and
`Covered` is what MarkSourceSyncSuccess needs. max_messages breaks this: the call
stops with messages pending, hence `Unbounded`. The other columns are the subject
of `CallShape`. That two calls may finish in either order, so that the watermark
moves back, does no harm to `WatermarkSound`.

**The refinement.** `SyncLog` has a set of messages in the channel, a set of
stored ones and a mark; `SyncImplementsLog` maps them to the messages of
`channel`, the rows of `raw` and `src.watermark`. Every statement of
synchronisation but UpsertRawMessage and MarkSourceSyncSuccess is a stutter, the
first is a `Store` and the second an `Advance`, whose condition is `Covered`.

**Deduplication.** With calls one at a time (`AtMostOne`) nobody saves a document
between the lookup of a call and its save, so what FindCanonicalDocumentByHash
returned is still right when it is used (`LookedUp`). That is all the lookup gives;
the other half is that a document, once saved, is saved again with the same text:
without edits, wherever a message has a body (in the channel, in a page, in
`raw_messages`, in its document) it is the same one (`Unedited`). A message processed
again finds the same document as before, because its own is left out of the lookup
and no second canonical one exists, so the three parts of `DedupInv` hold each
other up. Limits, full resyncs, failures and crashes leave it alone: each is only a
shorter sequence of the same steps. Overlap and edits break it, as section 3 says, hence
`OneAtATime` and `NoEdits`.

**The watermark rises.** MarkSourceSyncSuccess writes what the call has `seen` without
looking at what is there. The reason it is no less is the order of work: pages come
newest first, and in a page the newest message is dealt with first, so from the first
message on `seen` has reached the watermark. `RisingInv` says so of the call at work
(`Reaching`): before it has seen anything, its page holds a message at or above the
watermark, or it stands before the first page, which will (`FirstPageReaches`). That
needs the message at the watermark to be in the channel still (`NoRemovals`), and the
watermark to be the one the call started from (`OneAtATime`). A call stopped by
max_messages has dealt with the newest first as well, so here limits are allowed.

**Below the watermark.** `SearchableBelowWatermark` says that nothing at or below
`last_message_id` is half processed. A call leaves such messages behind when a
statement fails or the process dies, but only above the watermark, where the next
incremental call will find them. `SearchInv` says of the call at work that every message
up to the newest it knows of is `Done` or is one it has still to come to (`Leaves`, with
the `Pending` of `SyncInv`), and of the message in hand which statements have been
executed (`Halfway`). The proof shows of every statement that it changes the rows of no other
message than the one in hand, and that a message which has left the page is done.
When the loop ends nothing is left, and the watermark may move. A message
deleted half processed would never be met again, and a full resync takes apart
documents below the watermark: hence `NoRemovals` and `Incremental`.

**Who is behind "running".** A request owns the status from `SetRunning` to its
last UpdateSourceStatus (`Owning`). Each step of a request keeps it among the
owners, overwrites the status, or is taken by a non-owner that leaves the status
alone (`Hands`). The proof goes through every statement and every error path;
without `NoMishaps` it fails at `CreateFetchJob` and `SetActive`, as section 4 says.

**What the jobs tell.** `JobsFit` says for each statement of a request which of its
two jobs are settled there, so that the error path which may start at it finds
exactly the job of its own stage open: a second stage begins only when the first one's
job is done, and a path that has reached the status has failed its job. A step
touches the jobs of its own request only (`Fits`), which is why overlap does no harm
to them. With lost statements it fails at once, since FailJob's error is dropped.

**What "transcribed" promises.** The artifact says "transcribing" while the document is
replaced, except if that statement was lost, whose error the code drops. `Warned` follows
this case: a request with a transcript in hand and an artifact still called
"transcribed" has had the one mishap behind it, so it reaches the end and makes the
status true again (`InHand`: the text and the chunks written so far). In the other
direction, whatever goes wrong finds the status either true or not said
(`MishapMeansSearchable`). A second mishap refutes it, and so does a second request.

**A bundle left whole.** `BundleIsWhole` speaks of a call that has ended, when its
rows are written. `LinksInv` says of every call what it holds at each place (`Has`: a
channel's messages from the cursor on, in order; a list's messages, link by link)
and of a call that is `Alone`, begun last and overlapped by none, how much of that is
in the tables (`Wrote`): the raw messages before `next`, the links after the
replacement, the document after the save, the chunks before `next` and, because
the old ones are deleted first, no others. `Queue` is why nobody else writes
meanwhile: calls begin in the order of their numbers, and a call alone is the only
one at work. `Looked` says which source each creator found and is all that
`CreatorsAgree` needs.

**The offset of the bot.** `NothingSkipped` and `OncePerStart` need the order of three
numbers: `confirmed` is before the batch, whose elements are consecutive from
`First`, and the update in hand is the one before the offset (`OrderInv`). Then
what was handled is known on both sides of the next update to take
(`HandledInv`), and a restart, which falls back to `confirmed`, adds one to every
bound. `DateStateHasVacancy` needs `TaskInv`: the goroutine that moves a session to
the period stores a vacancy in the same step, and only when it found exactly one.

**Pairs of tokens.** `RefreshedOnce` is about a step; what it needs of the state is
that a pair is replaced by the holder of its manager's lock (`Locked`), that the
token it asks to have replaced is the one that failed (`Failed`), and that a manager
still holding a replaced pair has not seen the answer (`Own`). For `EnvFileLetsIn` a
new pair is followed from the answer to the file: until it is written, one worker
has it, HeadHunter takes it, and nobody else knows it (`Distinct`, `Private`), so what
overwrites `.env` in between is an older pair that the property accounts for.

**Exports.** `ListedOnce` is about the scan: what is listed and what lies ahead of the
walk are different files, because each lies in one place (`TreeAssumption`) and no
archive is opened twice. `MistralIsLeftClean` counts uploads and temporary copies
against lost answers and deaths; it is inductive once every call is known to have
one file in hand and each attempt its number (`Attempts`). `FileHoldsItsRows` is the
end of `Fills`: while a call writes, its rows are those in the file, in the buffer
and still to come, in this order, its own and about different items (`OwnRows`), if
no other export has its name; a flush moves rows from the second to the first place,
and the counters follow (`Counted`). That a document does not turn into trash again
(`ListsDiffer`) keeps the two lists of a text export apart. The sums over calls and
the lists use the library's facts about cardinalities and sequences; `Selected` is
the one definition by recursion on a list, and what it returns is proved by the
least counterexample instead of an induction theorem.

**Numbers and imports.** That an import's ids are ids at all needs a count: it uses one
number for each record so far (`RowFits`), so the next one, which only moves past numbers
in use, has room below `MaxId`. `ImportIsWhole` counts texts; its invariant
`ImportKnows` has a numbering instead, an injective function from the records done to
the ids used which gives each id the text of its record (`Numbering`). A step extends
it by one, and equal cardinalities follow from the bijection at the end. Of the
documents `Documented` says that every text used has one that is no duplicate, and only
one: because the rows are keyed by the name of the source, this is kept only as long as
no other import of the name writes, which is what `over` records.

**The newest vacancies.** The windows that are left go backwards in time
(`InOrder`), and whatever was online all the time is collected, lies in one of them, or
has been overtaken: the search is full of vacancies that are no older (`Between`).
Splitting keeps this because the halves cover the window and meet nowhere. Inside a
window the pages show the newest first, so what is collected of it is an initial part
of its order (`Leading`, by the `Rank` of a vacancy), and the number of pages computed
from HeadHunter's count holds all of the window or as many as are still wanted
(`Enough`). Since a leaf holds no more than `PerWindow`, or is too short to be halved
and then marked as truncated, nothing of it is hidden. If the window changed meanwhile nothing is claimed.

**The manifest.** `ExtPart` follows one extraction by itself: before the rows are built
nobody has one (`Begun`, `Others`), then every candidate has, and a row says "ok" or
"partial" exactly if the resume was fetched (`Listed`). During the downloads a row that
is still "ok" has its file exactly if its task was started and has ended
(`Downloads`), so when all have ended the flags are right (`Finished`). `DirsKnow` ties
this to the directory: if no other extraction has it, its files are those this one
wrote (`Holds`), and a directory nobody has used is empty (`Unused`). A step reaches only
the directory of its own extraction (`StepKeepsDirs`), and one that begins in a used
second makes both of them share it.

Only model-checked so far: `StoredTextsSearchable` of `ChannelSync`, which holds for two
calls and not for three (section 3), so that no theorem about any number of calls
can state it; and `ScanAccountsForTheTree`, which compares the scan with a recursive reading of the tree
(`ExportInv` has its "once"). Out of reach of the prover
and left to TLC: liveness and fairness
(`SyncTerminates`, `StartedJobSettles`, `RunningEnds`, `SyncsEnd`, `CatchesUp`,
`ExportsEnd`, `CallsEnd`, `WorkEnds`), ENABLED, and induction over data.

## 11. What is not modelled, and why

- Cleaning, hashing and chunking compute on characters; here a text is a value,
  with the number of chunks it is cut into. A recursive function for the chunker
  is in the plan.
- Usernames, titles, metadata, timestamps: no property depends on them, with one
  exception listed as a hazard (a document key built from a username that
  changes).
- UploadAndTranscribeAudio is in the plan. CreateYouTubeSource has the same
  get-or-create as `CreatorsAgree` is about.
- The MTProto session, the parsing of links, the HTTP client of the sidecar and the
  sidecar itself: external calls that succeed or fail.
- `internal/hh` is an earlier extraction that no program imports. `internal/hhaccess`
  and the vacancy catalog only ask and report.
- Listings, DeleteAllSources, decoding and middleware of the HTTP API; the
  frontend, the mains and the placeholder workers, which keep no state of their own.
- Migrations (every process runs them at its start) are in the plan.

## 12. Plan

1. `AudioUpload`: UploadAndTranscribeAudio, whose artifact is "transcribed" before
   there is a document.
2. `Migrations`: two processes that start at once on one `schema_migrations`; and
   `Chunker` as a function against a reference definition.
