-------------------------- MODULE YouTubePipeline --------------------------
(***************************************************************************)
(* Audio of one YouTube video: DownloadSourceAudio and                     *)
(* TranscribeSourceAudio of backend/internal/youtube/service.go, and the   *)
(* two HTTP handlers and the bot command that start them.                  *)
(*                                                                         *)
(* The handlers look at sources.status, answer, and leave the work to a    *)
(* goroutine, which writes "running" only later; the bot does not look.    *)
(* Each element of Calls is one request with the work it starts.  Every    *)
(* SQL statement and every call of the sidecar is one action.              *)
(***************************************************************************)
EXTENDS DocStore

CONSTANTS
  Calls,             \* requests
  Kinds,             \* what a request may ask for
  MaxActive,         \* bound: requests in progress together
  MaxSidecarFaults,  \* bound: downloads or transcriptions that fail
  Mishaps,           \* what else may go wrong
  MaxMishaps         \* bound: how often

ASSUME PipelineAssumption ==
  /\ Kinds \subseteq {"download", "transcribe", "bot"}
  /\ Mishaps \subseteq {"database", "deadline", "crash"}
  /\ {MaxActive, MaxSidecarFaults, MaxMishaps} \subseteq Nat

VARIABLES
  status,    \* sources.status
  artifact,  \* the youtube_audio_artifacts row
  job,       \* job[w]: the two jobs rows of request w
  call,      \* call[w]: the locals of request w
  expired,   \* bot requests whose two hours are over
  spent      \* how much of each bound is used

vars == <<raw, docs, chunks, status, artifact, job, call, expired, spent>>

Video == 1   \* the source's only document, yt:<source>:<video>

Stages == {"fetch", "transcribe"}
JobStatus == {"none", "queued", "running", "done", "failed"}
Notes == {"none", "download_failed", "transcription_failed"}
ArtifactStatus ==
  Notes \cup {"audio_downloaded", "transcribing", "transcribed"}

\* Before the status is "running"; while the request will still write it; after.
Asked == {"checkAudio", "readArtifact", "setRunning"}
Owning == {"createFetch", "fetchRunning", "download", "saveDownloaded",
           "doneFetch", "createTranscribe", "transcribeRunning",
           "saveTranscribing", "transcribe", "saveDoc", "unchunk", "chunk",
           "saveTranscribed", "doneTranscribe", "setActive",
           "failJob", "statusError"}
Ended == {"idle", "refused", "returned", "failed", "dead"}

CallRow == [pc: Asked \cup Owning \cup {"saveNote"} \cup Ended,
            kind: {"none", "download", "transcribe", "bot"},
            stage: Stages,                \* job that FailJob is for
            note: Notes,                  \* audio_status to save on an error
            text: Texts \cup {NoText},    \* the transcript
            index: 1 .. MaxChunks]        \* chunk to insert

TypeOK ==
  /\ StoreTypeOK
  /\ status \in {"active", "running", "error"}
  /\ artifact \in [status: ArtifactStatus, audio: BOOLEAN]
  /\ job \in [Calls -> [Stages -> JobStatus]]
  /\ call \in [Calls -> CallRow]
  /\ expired \subseteq Calls
  /\ spent \in [sidecar: Nat, mishaps: Nat]

Init ==
  /\ StoreInit
  /\ status = "active"
  /\ artifact = [status |-> "none", audio |-> FALSE]
  /\ job = [w \in Calls |-> [s \in Stages |-> "none"]]
  /\ call = [w \in Calls |-> [pc |-> "idle", kind |-> "none",
                              stage |-> "fetch", note |-> "none",
                              text |-> NoText, index |-> 1]]
  /\ expired = {}
  /\ spent = [sidecar |-> 0, mishaps |-> 0]

Active == {w \in Calls : call[w].pc \notin Ended}

-----------------------------------------------------------------------------
(***************************************************************************)
(* Statements of the repository.                                           *)
(***************************************************************************)
UpdateSourceStatus(s) == status' = s

\* created "queued", then "running", then 'done' (CompleteJobDone) or failed
SetJob(w, stage, s) == job' = [job EXCEPT ![w][stage] = s]

\* insert ... on conflict (source_id) do update: every column is overwritten.
\* The caller passes audio_file_path in every case but a failed download.
SaveYouTubeAudioArtifact(s) ==
  artifact' = [status |-> s, audio |-> s # "download_failed"]

-----------------------------------------------------------------------------
(***************************************************************************)
(* How a statement ends.  Nothing that needs a context past its deadline   *)
(* succeeds.  A statement may take effect although its caller sees an      *)
(* error.                                                                  *)
(***************************************************************************)
Mishap(kind) == /\ kind \in Mishaps
                /\ spent.mishaps < MaxMishaps
                /\ spent' = [spent EXCEPT !.mishaps = @ + 1]

StatementErrs(w) ==
  IF w \in expired THEN UNCHANGED spent ELSE Mishap("database")

SidecarErrs(w) ==
  IF w \in expired THEN UNCHANGED spent
  ELSE /\ spent.sidecar < MaxSidecarFaults
       /\ spent' = [spent EXCEPT !.sidecar = @ + 1]

Goto(w, pc) == call' = [call EXCEPT ![w].pc = pc]

\* The job of the first stage is failed whatever failed.
CleanUpFetch(w, pc, stage, note) ==
  call' = [call EXCEPT ![w].pc = pc, ![w].stage = "fetch", ![w].note = note]

\* The error path that starts at pc, for the job of a stage, leaving a note.
CleanUp(w, pc, stage, note) ==
  call' = [call EXCEPT ![w].pc = pc, ![w].stage = stage, ![w].note = note]

\* What the code does with an error at each statement.
OnError(w) ==
  \/ /\ call[w].pc \in {"readArtifact", "setRunning", "createFetch", "setActive"}
     /\ Goto(w, "failed")
  \/ call[w].pc = "checkAudio" /\ Goto(w, "refused")
  \/ /\ call[w].pc = "download"
     /\ CleanUp(w, "failJob", "fetch", "download_failed")
  \/ /\ call[w].pc = "saveDownloaded"
     /\ CleanUp(w, "failJob", "fetch", "none")
  \/ /\ call[w].pc = "createTranscribe"
     /\ CleanUp(w, "statusError", "transcribe", "none")
  \/ /\ call[w].pc \in {"transcribe", "saveDoc", "unchunk", "chunk"}
     /\ CleanUp(w, "failJob", "transcribe", "transcription_failed")
  \/ /\ call[w].pc = "saveTranscribed"
     /\ CleanUp(w, "failJob", "transcribe", "none")

\* The caller sees an error; the table may have changed all the same.
HardFails(w, effect, table) ==
  /\ \/ w \notin expired /\ effect
     \/ UNCHANGED table
  /\ OnError(w) /\ StatementErrs(w)

\* An error of this statement ends the work.
Hard(w, effect, table, next) ==
  \/ w \notin expired /\ effect /\ Goto(w, next) /\ UNCHANGED spent
  \/ HardFails(w, effect, table)

\* An error of this statement is dropped: _ = s.repo.Statement(...)
Soft(w, effect, table, next) ==
  /\ Goto(w, next)
  /\ \/ w \notin expired /\ effect /\ UNCHANGED spent
     \/ UNCHANGED table /\ StatementErrs(w)

-----------------------------------------------------------------------------
(***************************************************************************)
(* Requests.                                                               *)
(***************************************************************************)
\* The handlers refuse while the status is "running"; the bot does not ask.
MayStart(kind) == kind = "bot" \/ status # "running"

Request(w, kind) ==
  /\ call[w].pc = "idle"
  /\ Cardinality(Active) < MaxActive
  /\ call' = [call EXCEPT ![w].kind = kind,
                          ![w].pc = IF ~MayStart(kind) THEN "refused"
                                    ELSE IF kind = "transcribe" THEN "checkAudio"
                                    ELSE "setRunning"]
  /\ UNCHANGED <<storeVars, status, artifact, job, expired, spent>>

\* The handler, and later the goroutine, look for the audio path.
CheckAudio(w) ==
  /\ call[w].pc = "checkAudio"
  /\ Goto(w, IF artifact.audio THEN "readArtifact" ELSE "refused")
  /\ UNCHANGED <<storeVars, status, artifact, job, expired, spent>>

ReadArtifact(w) ==
  /\ call[w].pc = "readArtifact"
  /\ Goto(w, IF artifact.audio THEN "setRunning" ELSE "failed")
  /\ UNCHANGED <<storeVars, status, artifact, job, expired, spent>>

ReadFails(w) ==
  /\ call[w].pc \in {"checkAudio", "readArtifact"}
  /\ OnError(w) /\ StatementErrs(w)
  /\ UNCHANGED <<storeVars, status, artifact, job, expired>>

\* The deadline of a bot request passes.
Expire(w) ==
  /\ w \in Active \ expired /\ call[w].kind = "bot"
  /\ Mishap("deadline")
  /\ expired' = expired \cup {w}
  /\ UNCHANGED <<storeVars, status, artifact, job, call>>

\* The API server or the bot dies with all its requests; nothing looks for
\* them when it starts again.
ServedBy(kind) == IF kind = "bot" THEN "bot" ELSE "api"

Crash(process) ==
  /\ \E w \in Active : ServedBy(call[w].kind) = process
  /\ Mishap("crash")
  /\ call' = [w \in Calls |->
                IF w \in Active /\ ServedBy(call[w].kind) = process
                THEN [call[w] EXCEPT !.pc = "dead"] ELSE call[w]]
  /\ UNCHANGED <<storeVars, status, artifact, job, expired>>

-----------------------------------------------------------------------------
(***************************************************************************)
(* DownloadSourceAudio.                                                    *)
(***************************************************************************)
SetRunning(w) ==
  /\ call[w].pc = "setRunning"
  /\ Hard(w, UpdateSourceStatus("running"), status,
          IF call[w].kind = "transcribe" THEN "createTranscribe" ELSE "createFetch")
  /\ UNCHANGED <<storeVars, artifact, job, expired>>

CreateFetchJob(w) ==
  /\ call[w].pc = "createFetch"
  /\ Hard(w, SetJob(w, "fetch", "queued"), job, "fetchRunning")
  /\ UNCHANGED <<storeVars, status, artifact, expired>>

FetchJobRunning(w) ==
  /\ call[w].pc = "fetchRunning"
  /\ Soft(w, SetJob(w, "fetch", "running"), job, "download")
  /\ UNCHANGED <<storeVars, status, artifact, expired>>

Download(w) ==
  /\ call[w].pc = "download"
  /\ \/ w \notin expired /\ Goto(w, "saveDownloaded") /\ UNCHANGED spent
     \/ OnError(w) /\ SidecarErrs(w)
  /\ UNCHANGED <<storeVars, status, artifact, job, expired>>

\* An answer without a path is forgotten without a word.
DownloadDropped(w) ==
  /\ call[w].pc = "download"
  /\ SidecarErrs(w)
  /\ Goto(w, "failed")
  /\ UNCHANGED <<storeVars, status, artifact, job, expired>>

\* The sidecar answers without an audio path.
DownloadWithoutPath(w) ==
  /\ call[w].pc = "download"
  /\ SidecarErrs(w)
  /\ CleanUp(w, "failJob", "fetch", "none")
  /\ UNCHANGED <<storeVars, status, artifact, job, expired>>

SaveDownloaded(w) ==
  /\ call[w].pc = "saveDownloaded"
  /\ Hard(w, SaveYouTubeAudioArtifact("audio_downloaded"), artifact, "doneFetch")
  /\ UNCHANGED <<storeVars, status, job, expired>>

FetchJobDone(w) ==
  /\ call[w].pc = "doneFetch"
  /\ Soft(w, SetJob(w, "fetch", "done"), job, "createTranscribe")
  /\ UNCHANGED <<storeVars, status, artifact, expired>>

-----------------------------------------------------------------------------
(***************************************************************************)
(* runTranscriptionForStoredAudio, with saveTranscriptDocument.            *)
(***************************************************************************)
CreateTranscribeJob(w) ==
  /\ call[w].pc = "createTranscribe"
  /\ Hard(w, SetJob(w, "transcribe", "queued"), job, "transcribeRunning")
  /\ UNCHANGED <<storeVars, status, artifact, expired>>

TranscribeJobRunning(w) ==
  /\ call[w].pc = "transcribeRunning"
  /\ Soft(w, SetJob(w, "transcribe", "running"), job, "saveTranscribing")
  /\ UNCHANGED <<storeVars, status, artifact, expired>>

\* The artifact keeps its old status while the text is replaced.
SkipTranscribing(w) ==
  /\ call[w].pc = "saveTranscribing"
  /\ Goto(w, "transcribe")
  /\ UNCHANGED <<storeVars, status, artifact, job, expired, spent>>

SaveTranscribing(w) ==
  /\ call[w].pc = "saveTranscribing"
  /\ Soft(w, SaveYouTubeAudioArtifact("transcribing"), artifact, "transcribe")
  /\ UNCHANGED <<storeVars, status, job, expired>>

\* The sidecar fails, or answers with an empty text, or transcribes: two runs
\* over the same audio need not give the same text.
Transcribe(w) ==
  /\ call[w].pc = "transcribe"
  /\ \/ /\ w \notin expired /\ UNCHANGED spent
        /\ \E t \in Texts : call' = [call EXCEPT ![w].pc = "saveDoc",
                                                 ![w].text = t, ![w].index = 1]
     \/ OnError(w) /\ SidecarErrs(w)
  /\ UNCHANGED <<storeVars, status, artifact, job, expired>>

SaveTranscriptDocument(w) ==
  /\ call[w].pc = "saveDoc"
  /\ Hard(w, SaveDocument(Video, call[w].text, 0), docs, "unchunk")
  /\ UNCHANGED <<raw, chunks, status, artifact, job, expired>>

DeleteChunks(w) ==
  /\ call[w].pc = "unchunk"
  /\ Hard(w, DeleteChunksByDocumentID(Video), chunks, "chunk")
  /\ UNCHANGED <<raw, docs, status, artifact, job, expired>>

\* The loop runs once more than there are chunks.
PastLastChunk(c) == c.index > ChunkCount[c.text]

LastChunk(c) == c.index = ChunkCount[c.text]

InsertNextChunk(w) ==
  LET c == call[w] IN
  /\ c.pc = "chunk"
  /\ \/ /\ w \notin expired /\ UNCHANGED spent
        /\ InsertChunk(Video, c.index, c.text)
        /\ IF LastChunk(c) THEN Goto(w, "saveTranscribed")
           ELSE call' = [call EXCEPT ![w].index = @ + 1]
     \/ HardFails(w, InsertChunk(Video, c.index, c.text), chunks)
  /\ UNCHANGED <<raw, docs, status, artifact, job, expired>>

SaveTranscribed(w) ==
  /\ call[w].pc = "saveTranscribed"
  /\ Hard(w, SaveYouTubeAudioArtifact("transcribed"), artifact, "doneTranscribe")
  /\ UNCHANGED <<storeVars, status, job, expired>>

TranscribeJobDone(w) ==
  /\ call[w].pc = "doneTranscribe"
  /\ Soft(w, SetJob(w, "transcribe", "done"), job, "setActive")
  /\ UNCHANGED <<storeVars, status, artifact, expired>>

SetActive(w) ==
  /\ call[w].pc = "setActive"
  /\ Hard(w, UpdateSourceStatus("active"), status, "returned")
  /\ UNCHANGED <<storeVars, artifact, job, expired>>

-----------------------------------------------------------------------------
(***************************************************************************)
(* The error path, on the same context, dropping its own errors.           *)
(***************************************************************************)
FailJob(w) ==
  /\ call[w].pc = "failJob"
  /\ Soft(w, SetJob(w, call[w].stage, "failed"), job, "statusError")
  /\ UNCHANGED <<storeVars, status, artifact, expired>>

SetError(w) ==
  /\ call[w].pc = "statusError"
  /\ Soft(w, UpdateSourceStatus("error"), status,
          IF call[w].note = "none" THEN "failed" ELSE "saveNote")
  /\ UNCHANGED <<storeVars, artifact, job, expired>>

SaveNote(w) ==
  /\ call[w].pc = "saveNote"
  /\ Soft(w, SaveYouTubeAudioArtifact(call[w].note), artifact, "failed")
  /\ UNCHANGED <<storeVars, status, job, expired>>

-----------------------------------------------------------------------------
\* What request w does by itself once it has been received.
CallStep(w) ==
  \/ CheckAudio(w) \/ ReadArtifact(w) \/ ReadFails(w) \/ SetRunning(w)
  \/ CreateFetchJob(w) \/ FetchJobRunning(w) \/ Download(w)
  \/ DownloadWithoutPath(w) \/ SaveDownloaded(w) \/ FetchJobDone(w)
  \/ CreateTranscribeJob(w) \/ TranscribeJobRunning(w) \/ SaveTranscribing(w)
  \/ Transcribe(w) \/ SaveTranscriptDocument(w) \/ DeleteChunks(w)
  \/ InsertNextChunk(w) \/ SaveTranscribed(w) \/ TranscribeJobDone(w)
  \/ SetActive(w) \/ FailJob(w) \/ SetError(w) \/ SaveNote(w)

Next ==
  \/ \E w \in Calls : \/ \E kind \in Kinds : Request(w, kind)
                      \/ CallStep(w)
                      \/ Expire(w)
  \/ \E process \in {"api", "bot"} : Crash(process)

Spec == Init /\ [][Next]_vars

\* A goroutine that can run is run, and the sidecar and the database answer.
FairSpec == Spec /\ \A w \in Calls : WF_vars(CallStep(w))

-----------------------------------------------------------------------------
(***************************************************************************)
(* Properties.                                                             *)
(***************************************************************************)
\* The handlers refuse every request while the status is "running", so there
\* must be somebody who is still going to overwrite it: the last status written
\* is "running" only while its writer works, however requests overlap and
\* whatever the sidecar does (the database answers and no process dies).
RunningMeansWorking ==
  status = "running" => \E w \in Calls : call[w].pc \in Owning

\* When nothing is in progress, an artifact called "transcribed" has its
\* document, cut into exactly its chunks, after any failed, expired or crashed
\* retry (requests one at a time, one mishap).
TranscribedIsSearchable ==
  Active = {} /\ artifact.status = "transcribed" =>
    FullyChunked(Video, docs[Video].text)

\* The jobs of a request tell how it ended, whoever overlapped it: none is left
\* queued or running; one that returned has done them all, and any other either
\* never had one or has failed one, which is that of the stage that was reached
\* (the database answers and no process dies).
JobsTellTheOutcome ==
  \A w \in Calls : call[w].pc \in Ended =>
    LET jobs == {job[w][s] : s \in Stages}
    IN /\ jobs \cap {"queued", "running"} = {}
       /\ IF call[w].pc = "returned" THEN "done" \in jobs /\ "failed" \notin jobs
          ELSE "failed" \in jobs \/ jobs = {"none"}

\* The status does not stay "running": the source can be asked again.
RunningEnds == status = "running" ~> status # "running"
=============================================================================
