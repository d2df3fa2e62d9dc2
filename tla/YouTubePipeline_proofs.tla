----------------------- MODULE YouTubePipeline_proofs -----------------------
(***************************************************************************)
(* Proofs about YouTubePipeline, for any number of requests, texts and     *)
(* sidecar faults: its types; that a source whose status is "running" is   *)
(* being worked on while no statement is lost and no process dies; and for *)
(* requests one at a time that "transcribed" means a complete document.    *)
(***************************************************************************)
EXTENDS YouTubePipeline, FiniteSetTheorems, TLAPS

-----------------------------------------------------------------------------
(***************************************************************************)
(* Types.                                                                  *)
(***************************************************************************)
\* A request that writes the document holds a transcript, and the chunk it
\* inserts next is one of it.
HoldsTranscript(c) ==
  c.pc \in {"saveDoc", "unchunk", "chunk"} =>
    c.text \in Texts /\ c.index <= ChunkCount[c.text]

TypeInv == TypeOK /\ \A w \in Calls : HoldsTranscript(call[w])

\* The next locals of a request are well formed.
WellFormed(c) == c \in CallRow /\ HoldsTranscript(c)

\* A step of w, as far as the locals are concerned.
LocalStep(w) == \E c \in CallRow : WellFormed(c) /\ call' = [call EXCEPT ![w] = c]

\* The tables and bounds keep their types.
TablesTyped ==
  /\ StoreTypeOK
  /\ status \in {"active", "running", "error"}
  /\ artifact \in [status: ArtifactStatus, audio: BOOLEAN]
  /\ job \in [Calls -> [Stages -> JobStatus]]
  /\ expired \subseteq Calls
  /\ spent \in [sidecar: Nat, mishaps: Nat]

LEMMA TablesUnchanged ==
  ASSUME TypeInv,
         UNCHANGED <<storeVars, status, artifact, job, expired, spent>>
  PROVE  TablesTyped'
  BY DEF TypeInv, TypeOK, TablesTyped, StoreTypeOK, storeVars

LEMMA LocalStepTyped ==
  ASSUME TypeInv, NEW w \in Calls, LocalStep(w), TablesTyped'
  PROVE  TypeInv'
<1>1. PICK c \in CallRow : WellFormed(c) /\ call' = [call EXCEPT ![w] = c]
  BY DEF LocalStep
<1>2. call' \in [Calls -> CallRow]
  BY <1>1 DEF TypeInv, TypeOK
<1>3. \A x \in Calls : HoldsTranscript(call'[x])
  BY <1>1 DEF TypeInv, TypeOK, WellFormed
<1> QED  BY <1>2, <1>3 DEF TypeInv, TypeOK, TablesTyped

LEMMA SpentTyped ==
  ASSUME TypeInv, NEW w \in Calls,
         \/ UNCHANGED spent \/ StatementErrs(w) \/ SidecarErrs(w)
         \/ \E kind \in {"deadline", "crash"} : Mishap(kind)
  PROVE  spent' \in [sidecar: Nat, mishaps: Nat]
  BY DEF TypeInv, TypeOK, StatementErrs, SidecarErrs, Mishap

Writing == {"saveDoc", "unchunk", "chunk"}
Plain == (Asked \cup Owning \cup {"saveNote"} \cup Ended) \ Writing

\* Going to a statement that needs no transcript, or from one that has it.
LEMMA GotoLocal ==
  ASSUME TypeInv, NEW w \in Calls, NEW pc \in Plain \cup Writing, Goto(w, pc),
         pc \in Writing => call[w].pc \in Writing
  PROVE  LocalStep(w)
<1> DEFINE c == [call[w] EXCEPT !.pc = pc]
<1>1. call' = [call EXCEPT ![w] = c]
  BY DEF Goto, TypeInv, TypeOK
<1>2. call[w] \in CallRow /\ HoldsTranscript(call[w])
  BY DEF TypeInv, TypeOK
<1>3. pc \in Asked \cup Owning \cup {"saveNote"} \cup Ended
  BY DEF Plain, Writing, Owning
<1>4. c \in CallRow
  BY <1>2, <1>3 DEF CallRow
<1>5. c.pc = pc /\ c.text = call[w].text /\ c.index = call[w].index
  BY <1>2 DEF CallRow
<1>6. HoldsTranscript(c)
  BY <1>2, <1>5 DEF HoldsTranscript, Plain, Writing
<1> QED  BY <1>1, <1>4, <1>6 DEF LocalStep, WellFormed

LEMMA CleanUpLocal ==
  ASSUME TypeInv, NEW w \in Calls, NEW pc \in {"failJob", "statusError"},
         NEW stage \in Stages, NEW note \in Notes, CleanUp(w, pc, stage, note)
  PROVE  LocalStep(w)
<1> DEFINE c == [call[w] EXCEPT !.pc = pc, !.stage = stage, !.note = note]
<1>1. call' = [call EXCEPT ![w] = c]
  BY DEF CleanUp, TypeInv, TypeOK
<1>2. call[w] \in CallRow
  BY DEF TypeInv, TypeOK
<1>3. c \in CallRow /\ c.pc = pc
  BY <1>2 DEF CallRow, Owning
<1>4. HoldsTranscript(c)
  BY <1>3 DEF HoldsTranscript
<1> QED  BY <1>1, <1>3, <1>4 DEF LocalStep, WellFormed

LEMMA OnErrorLocal ==
  ASSUME TypeInv, NEW w \in Calls, OnError(w)
  PROVE  LocalStep(w)
<1>1. CASE Goto(w, "failed") \/ Goto(w, "refused")
  <2>1. {"failed", "refused"} \subseteq Plain \ Writing
    BY DEF Plain, Ended, Writing
  <2> QED  BY <1>1, <2>1, GotoLocal
<1>2. CASE CleanUp(w, "failJob", "fetch", "download_failed")
  BY <1>2, CleanUpLocal DEF Stages, Notes
<1>3. CASE CleanUp(w, "failJob", "fetch", "none")
  BY <1>3, CleanUpLocal DEF Stages, Notes
<1>4. CASE CleanUp(w, "statusError", "transcribe", "none")
  BY <1>4, CleanUpLocal DEF Stages, Notes
<1>5. CASE CleanUp(w, "failJob", "transcribe", "transcription_failed")
  BY <1>5, CleanUpLocal DEF Stages, Notes
<1>6. CASE CleanUp(w, "failJob", "transcribe", "none")
  BY <1>6, CleanUpLocal DEF Stages, Notes
<1> QED  BY <1>1, <1>2, <1>3, <1>4, <1>5, <1>6 DEF OnError

\* A statement that goes on to one that needs no transcript, or fails.
LEMMA StatementLocal ==
  ASSUME TypeInv, NEW w \in Calls, NEW next \in Plain,
         Goto(w, next) \/ OnError(w)
  PROVE  LocalStep(w)
<1>1. next \in Plain \cup Writing /\ next \notin Writing
  BY DEF Plain
<1> QED  BY <1>1, OnErrorLocal, GotoLocal

-----------------------------------------------------------------------------
\* The statements, one per table.
LEMMA JobTyped ==
  ASSUME TypeInv, NEW w \in Calls, NEW stage \in Stages, NEW s \in JobStatus,
         SetJob(w, stage, s) \/ UNCHANGED job
  PROVE  job' \in [Calls -> [Stages -> JobStatus]]
  BY DEF TypeInv, TypeOK, SetJob

LEMMA ArtifactTyped ==
  ASSUME TypeInv, NEW s \in ArtifactStatus,
         SaveYouTubeAudioArtifact(s) \/ UNCHANGED artifact
  PROVE  artifact' \in [status: ArtifactStatus, audio: BOOLEAN]
<1>1. (s # "download_failed") \in BOOLEAN
  OBVIOUS
<1>2. CASE SaveYouTubeAudioArtifact(s)
  <2> DEFINE kept == s # "download_failed"
  <2>1. artifact' = [status |-> s, audio |-> kept]
    BY <1>2 DEF SaveYouTubeAudioArtifact
  <2> HIDE DEF kept
  <2>2. kept \in BOOLEAN
    BY <1>1 DEF kept
  <2> QED  BY <2>1, <2>2
<1> QED  BY <1>2 DEF TypeInv, TypeOK

StatusSteps(w) == SetRunning(w) \/ SetActive(w) \/ SetError(w)

LEMMA StatusStepTyped ==
  ASSUME TypeInv, NEW w \in Calls, StatusSteps(w)
  PROVE  TypeInv'
<1> USE DEF Hard, HardFails, Soft
<1>1. LocalStep(w)
  <2>1. CASE SetRunning(w)
    <3> DEFINE next == IF call[w].kind = "transcribe" THEN "createTranscribe"
                       ELSE "createFetch"
    <3>1. Goto(w, next) \/ OnError(w)
      BY <2>1 DEF SetRunning
    <3>2. next \in Plain
      BY DEF Plain, Writing, Owning
    <3> QED  BY <3>1, <3>2, StatementLocal
  <2>2. CASE SetActive(w)
    <3>1. Goto(w, "returned") \/ OnError(w)
      BY <2>2 DEF SetActive
    <3> QED  BY <3>1, StatementLocal DEF Plain, Writing, Ended
  <2>3. CASE SetError(w)
    <3> DEFINE next == IF call[w].note = "none" THEN "failed" ELSE "saveNote"
    <3>1. Goto(w, next)
      BY <2>3 DEF SetError
    <3>2. next \in Plain
      BY DEF Plain, Writing, Ended
    <3> QED  BY <3>1, <3>2, StatementLocal
  <2> QED  BY <2>1, <2>2, <2>3 DEF StatusSteps
<1>2. UNCHANGED <<storeVars, artifact, job, expired>>
  BY DEF StatusSteps, SetRunning, SetActive, SetError
<1>3. spent' \in [sidecar: Nat, mishaps: Nat]
  BY SpentTyped DEF StatusSteps, SetRunning, SetActive, SetError
<1>4. status' \in {"active", "running", "error"}
  BY DEF StatusSteps, SetRunning, SetActive, SetError, UpdateSourceStatus,
         TypeInv, TypeOK
<1>5. TablesTyped'
  BY <1>2, <1>3, <1>4 DEF TypeInv, TypeOK, TablesTyped, StoreTypeOK, storeVars
<1> QED  BY <1>1, <1>5, LocalStepTyped

JobSteps(w) ==
  \/ CreateFetchJob(w) \/ FetchJobRunning(w) \/ FetchJobDone(w)
  \/ CreateTranscribeJob(w) \/ TranscribeJobRunning(w) \/ TranscribeJobDone(w)
  \/ FailJob(w)

LEMMA JobStepTyped ==
  ASSUME TypeInv, NEW w \in Calls, JobSteps(w)
  PROVE  TypeInv'
<1> USE DEF Hard, HardFails, Soft
<1>1. LocalStep(w)
  <2>1. CASE CreateFetchJob(w)
    <3>1. Goto(w, "fetchRunning") \/ OnError(w)
      BY <2>1 DEF CreateFetchJob
    <3> QED  BY <3>1, StatementLocal DEF Plain, Writing, Owning, Ended
  <2>2. CASE FetchJobRunning(w)
    <3>1. Goto(w, "download") \/ OnError(w)
      BY <2>2 DEF FetchJobRunning
    <3> QED  BY <3>1, StatementLocal DEF Plain, Writing, Owning, Ended
  <2>3. CASE FetchJobDone(w)
    <3>1. Goto(w, "createTranscribe") \/ OnError(w)
      BY <2>3 DEF FetchJobDone
    <3> QED  BY <3>1, StatementLocal DEF Plain, Writing, Owning, Ended
  <2>4. CASE CreateTranscribeJob(w)
    <3>1. Goto(w, "transcribeRunning") \/ OnError(w)
      BY <2>4 DEF CreateTranscribeJob
    <3> QED  BY <3>1, StatementLocal DEF Plain, Writing, Owning, Ended
  <2>5. CASE TranscribeJobRunning(w)
    <3>1. Goto(w, "saveTranscribing") \/ OnError(w)
      BY <2>5 DEF TranscribeJobRunning
    <3> QED  BY <3>1, StatementLocal DEF Plain, Writing, Owning, Ended
  <2>6. CASE TranscribeJobDone(w)
    <3>1. Goto(w, "setActive") \/ OnError(w)
      BY <2>6 DEF TranscribeJobDone
    <3> QED  BY <3>1, StatementLocal DEF Plain, Writing, Owning, Ended
  <2>7. CASE FailJob(w)
    <3>1. Goto(w, "statusError") \/ OnError(w)
      BY <2>7 DEF FailJob
    <3> QED  BY <3>1, StatementLocal DEF Plain, Writing, Owning, Ended
  <2> QED  BY <2>1, <2>2, <2>3, <2>4, <2>5, <2>6, <2>7 DEF JobSteps
<1>2. spent' \in [sidecar: Nat, mishaps: Nat]
  BY SpentTyped DEF JobSteps, CreateFetchJob, FetchJobRunning, FetchJobDone,
         CreateTranscribeJob, TranscribeJobRunning, TranscribeJobDone, FailJob
<1>3. \/ UNCHANGED job
      \/ \E stage \in Stages, s \in JobStatus : SetJob(w, stage, s)
  <2>1. call[w].stage \in Stages
    BY DEF TypeInv, TypeOK, CallRow
  <2> QED  BY <2>1 DEF Stages, JobStatus, JobSteps, CreateFetchJob, FetchJobRunning, FetchJobDone,
         CreateTranscribeJob, TranscribeJobRunning, TranscribeJobDone, FailJob
<1>4. job' \in [Calls -> [Stages -> JobStatus]]
  BY <1>3, JobTyped DEF TypeInv, TypeOK
<1>5. UNCHANGED <<storeVars, status, artifact, expired>>
  BY DEF JobSteps, CreateFetchJob, FetchJobRunning, FetchJobDone,
         CreateTranscribeJob, TranscribeJobRunning, TranscribeJobDone, FailJob
<1>6. TablesTyped'
  BY <1>2, <1>4, <1>5 DEF TypeInv, TypeOK, TablesTyped, StoreTypeOK, storeVars
<1> QED  BY <1>1, <1>6, LocalStepTyped

ArtifactSteps(w) ==
  SaveDownloaded(w) \/ SaveTranscribing(w) \/ SaveTranscribed(w) \/ SaveNote(w)

LEMMA ArtifactStepTyped ==
  ASSUME TypeInv, NEW w \in Calls, ArtifactSteps(w)
  PROVE  TypeInv'
<1> USE DEF Hard, HardFails, Soft
<1>1. LocalStep(w)
  <2>1. CASE SaveDownloaded(w)
    <3>1. Goto(w, "doneFetch") \/ OnError(w)
      BY <2>1 DEF SaveDownloaded
    <3> QED  BY <3>1, StatementLocal DEF Plain, Writing, Owning, Ended
  <2>2. CASE SaveTranscribing(w)
    <3>1. Goto(w, "transcribe") \/ OnError(w)
      BY <2>2 DEF SaveTranscribing
    <3> QED  BY <3>1, StatementLocal DEF Plain, Writing, Owning, Ended
  <2>3. CASE SaveTranscribed(w)
    <3>1. Goto(w, "doneTranscribe") \/ OnError(w)
      BY <2>3 DEF SaveTranscribed
    <3> QED  BY <3>1, StatementLocal DEF Plain, Writing, Owning, Ended
  <2>4. CASE SaveNote(w)
    <3>1. Goto(w, "failed") \/ OnError(w)
      BY <2>4 DEF SaveNote
    <3> QED  BY <3>1, StatementLocal DEF Plain, Writing, Owning, Ended
  <2> QED  BY <2>1, <2>2, <2>3, <2>4 DEF ArtifactSteps
<1>2. spent' \in [sidecar: Nat, mishaps: Nat]
  BY SpentTyped DEF ArtifactSteps, SaveDownloaded, SaveTranscribing,
         SaveTranscribed, SaveNote
<1>3. \/ UNCHANGED artifact
      \/ \E s \in ArtifactStatus : SaveYouTubeAudioArtifact(s)
  <2>1. call[w].note \in ArtifactStatus
    BY DEF TypeInv, TypeOK, CallRow, ArtifactStatus
  <2> QED  BY <2>1 DEF ArtifactStatus, Notes, ArtifactSteps, SaveDownloaded, SaveTranscribing,
         SaveTranscribed, SaveNote
<1>4. artifact' \in [status: ArtifactStatus, audio: BOOLEAN]
  BY <1>3, ArtifactTyped DEF TypeInv, TypeOK
<1>5. UNCHANGED <<storeVars, status, job, expired>>
  BY DEF ArtifactSteps, SaveDownloaded, SaveTranscribing,
         SaveTranscribed, SaveNote
<1>6. TablesTyped'
  BY <1>2, <1>4, <1>5 DEF TypeInv, TypeOK, TablesTyped, StoreTypeOK, storeVars
<1> QED  BY <1>1, <1>6, LocalStepTyped

\* Steps that write no table.
ReadSteps(w) ==
  \/ \E kind \in Kinds : Request(w, kind)
  \/ CheckAudio(w) \/ ReadArtifact(w) \/ ReadFails(w)
  \/ Download(w) \/ DownloadWithoutPath(w) \/ Transcribe(w)

LEMMA RequestLocal ==
  ASSUME TypeInv, NEW w \in Calls, NEW kind \in Kinds, Request(w, kind)
  PROVE  LocalStep(w)
<1> DEFINE pc == IF ~MayStart(kind) THEN "refused"
                 ELSE IF kind = "transcribe" THEN "checkAudio"
                 ELSE "setRunning"
           c == [call[w] EXCEPT !.kind = kind, !.pc = pc]
<1>1. pc \in {"refused", "checkAudio", "setRunning"}
  OBVIOUS
<1>2. call' = [call EXCEPT ![w] = c]
  BY DEF Request, TypeInv, TypeOK
<1> HIDE DEF pc
<1>3. c \in CallRow
  <2>1. call[w] \in CallRow
    BY DEF TypeInv, TypeOK
  <2>2. pc \in Asked \cup Owning \cup {"saveNote"} \cup Ended
    BY <1>1 DEF Asked, Ended
  <2>3. kind \in {"none", "download", "transcribe", "bot"}
    BY PipelineAssumption
  <2> QED  BY <2>1, <2>2, <2>3 DEF CallRow
<1>4. HoldsTranscript(c)
  BY <1>1, <1>3 DEF HoldsTranscript, CallRow, TypeInv, TypeOK
<1> QED  BY <1>2, <1>3, <1>4 DEF LocalStep, WellFormed

LEMMA TranscribeLocal ==
  ASSUME TypeInv, NEW w \in Calls, Transcribe(w)
  PROVE  LocalStep(w)
<1>1. CASE OnError(w)
  BY <1>1, OnErrorLocal
<1>2. ASSUME NEW t \in Texts,
             call' = [call EXCEPT ![w].pc = "saveDoc", ![w].text = t, ![w].index = 1]
      PROVE  LocalStep(w)
  <2> DEFINE c == [call[w] EXCEPT !.pc = "saveDoc", !.text = t, !.index = 1]
  <2>1. call' = [call EXCEPT ![w] = c]
    BY <1>2 DEF TypeInv, TypeOK
  <2>2. c \in CallRow
    <3>1. call[w] \in CallRow
      BY DEF TypeInv, TypeOK
    <3>2. "saveDoc" \in Owning /\ 1 \in 1 .. MaxChunks
      BY StoreAssumption DEF Owning
    <3> QED  BY <3>1, <3>2 DEF CallRow
  <2>3. HoldsTranscript(c)
    <3>1. c.text = t /\ c.index = 1
      BY DEF TypeInv, TypeOK, CallRow
    <3>2. ChunkCount[t] \in 1 .. MaxChunks
      BY StoreAssumption
    <3> QED  BY <3>1, <3>2, StoreAssumption DEF HoldsTranscript
  <2> QED  BY <2>1, <2>2, <2>3 DEF LocalStep, WellFormed
<1> QED  BY <1>1, <1>2 DEF Transcribe

LEMMA ReadStepTyped ==
  ASSUME TypeInv, NEW w \in Calls, ReadSteps(w)
  PROVE  TypeInv'
<1>1. LocalStep(w)
  <2>1. CASE \E kind \in Kinds : Request(w, kind)
    BY <2>1, RequestLocal
  <2>2. CASE CheckAudio(w)
    <3>1. Goto(w, "readArtifact") \/ Goto(w, "refused")
      BY <2>2 DEF CheckAudio
    <3> QED  BY <3>1, StatementLocal DEF Plain, Writing, Asked, Ended
  <2>3. CASE ReadArtifact(w)
    <3>1. Goto(w, "setRunning") \/ Goto(w, "failed")
      BY <2>3 DEF ReadArtifact
    <3> QED  BY <3>1, StatementLocal DEF Plain, Writing, Asked, Ended
  <2>4. CASE ReadFails(w)
    BY <2>4, OnErrorLocal DEF ReadFails
  <2>5. CASE Download(w)
    <3>1. Goto(w, "saveDownloaded") \/ OnError(w)
      BY <2>5 DEF Download
    <3> QED  BY <3>1, StatementLocal DEF Plain, Writing, Owning
  <2>6. CASE DownloadWithoutPath(w)
    BY <2>6, CleanUpLocal DEF DownloadWithoutPath, Stages, Notes
  <2>7. CASE Transcribe(w)
    BY <2>7, TranscribeLocal
  <2> QED  BY <2>1, <2>2, <2>3, <2>4, <2>5, <2>6, <2>7 DEF ReadSteps
<1>2. UNCHANGED <<storeVars, status, artifact, job, expired>>
  BY DEF ReadSteps, Request, CheckAudio, ReadArtifact, ReadFails, Download,
         DownloadWithoutPath, Transcribe
<1>3. spent' \in [sidecar: Nat, mishaps: Nat]
  BY SpentTyped DEF ReadSteps, Request, CheckAudio, ReadArtifact, ReadFails,
     Download, DownloadWithoutPath, Transcribe
<1>4. TablesTyped'
  BY <1>2, <1>3 DEF TypeInv, TypeOK, TablesTyped, StoreTypeOK, storeVars
<1> QED  BY <1>1, <1>4, LocalStepTyped

\* Steps that write the document and its chunks.
WriteSteps(w) ==
  SaveTranscriptDocument(w) \/ DeleteChunks(w) \/ InsertNextChunk(w)

LEMMA VideoId == Video \in Ids
  BY StoreAssumption DEF Video, Ids

LEMMA WriteStepTyped ==
  ASSUME TypeInv, NEW w \in Calls, WriteSteps(w)
  PROVE  TypeInv'
<1>1. call[w].pc \in Writing /\ call[w] \in CallRow
  BY DEF WriteSteps, SaveTranscriptDocument, DeleteChunks, InsertNextChunk,
         Writing, TypeInv, TypeOK
<1>2. call[w].text \in Texts /\ call[w].index <= ChunkCount[call[w].text]
  BY <1>1 DEF TypeInv, HoldsTranscript, Writing
<1>3. spent' \in [sidecar: Nat, mishaps: Nat]
  BY SpentTyped DEF WriteSteps, SaveTranscriptDocument, DeleteChunks,
     InsertNextChunk, Hard, HardFails
<1>4. UNCHANGED <<raw, status, artifact, job, expired>>
  BY DEF WriteSteps, SaveTranscriptDocument, DeleteChunks, InsertNextChunk
<1>5. CASE SaveTranscriptDocument(w)
  <2>1. Goto(w, "unchunk") \/ OnError(w)
    BY <1>5 DEF SaveTranscriptDocument, Hard, HardFails
  <2>2. LocalStep(w)
    BY <1>1, <2>1, GotoLocal, OnErrorLocal DEF Writing
  <2>3. docs' \in [Ids -> DocRow]
    <3>1. CASE SaveDocument(Video, call[w].text, 0)
      <4>1. Cardinality({k \in Ids : HasDoc(k)}) + 1 \in 0 .. MaxId \/ HasDoc(Video)
        <5>1. ASSUME ~HasDoc(Video)
              PROVE  Cardinality({k \in Ids : HasDoc(k)}) + 1 \in 0 .. MaxId
          <6> DEFINE Have == {k \in Ids : HasDoc(k)}
          <6>1. IsFiniteSet(Ids) /\ Cardinality(Ids) = MaxId
            BY StoreAssumption, FS_Interval DEF Ids
          <6>2. Have \subseteq Ids /\ Have # Ids
            BY <5>1, VideoId
          <6>3. IsFiniteSet(Have) /\ Cardinality(Have) < MaxId
            BY <6>1, <6>2, FS_Subset, FS_CardinalityType
          <6>4. Cardinality(Have) \in Nat
            BY <6>3, FS_CardinalityType
          <6> QED  BY <6>3, <6>4, StoreAssumption
        <5> QED  BY <5>1
      <4> DEFINE row == [text |-> call[w].text, dupOf |-> 0,
                           born |-> IF HasDoc(Video) THEN docs[Video].born
                                    ELSE Cardinality({k \in Ids : HasDoc(k)}) + 1]
      <4>2. docs' = [docs EXCEPT ![Video] = row]
        BY <3>1 DEF SaveDocument
      <4>3. row \in DocRow
        <5>1. docs[Video] \in DocRow
          BY VideoId DEF TypeInv, TypeOK, StoreTypeOK
        <5> QED  BY <5>1, <4>1, <1>2, StoreAssumption DEF DocRow
      <4> HIDE DEF row
      <4> QED  BY <4>2, <4>3 DEF TypeInv, TypeOK, StoreTypeOK
    <3>2. CASE UNCHANGED docs
      BY <3>2 DEF TypeInv, TypeOK, StoreTypeOK
    <3> QED  BY <3>1, <3>2, <1>5 DEF SaveTranscriptDocument, Hard, HardFails
  <2>4. TablesTyped'
    BY <1>3, <1>4, <1>5, <2>3 DEF SaveTranscriptDocument, TypeInv, TypeOK,
       TablesTyped, StoreTypeOK
  <2> QED  BY <2>2, <2>4, LocalStepTyped
<1>6. CASE DeleteChunks(w)
  <2>1. Goto(w, "chunk") \/ OnError(w)
    BY <1>6 DEF DeleteChunks, Hard, HardFails
  <2>2. LocalStep(w)
    BY <1>1, <2>1, GotoLocal, OnErrorLocal DEF Writing
  <2>3. chunks' \in [Ids -> [1 .. MaxChunks -> Texts \cup {NoText}]]
    BY <1>6 DEF DeleteChunks, Hard, HardFails, DeleteChunksByDocumentID,
       NoChunks, TypeInv, TypeOK, StoreTypeOK
  <2>4. TablesTyped'
    BY <1>3, <1>4, <1>6, <2>3 DEF DeleteChunks, TypeInv, TypeOK, TablesTyped,
       StoreTypeOK
  <2> QED  BY <2>2, <2>4, LocalStepTyped
<1>7. CASE InsertNextChunk(w)
  <2>1. LocalStep(w)
    <3>1. CASE Goto(w, "saveTranscribed") \/ OnError(w)
      BY <3>1, StatementLocal DEF Plain, Writing, Owning
    <3>2. CASE call' = [call EXCEPT ![w].index = @ + 1] /\ ~LastChunk(call[w])
      <4> DEFINE c == [call[w] EXCEPT !.index = @ + 1]
      <4>1. call' = [call EXCEPT ![w] = c]
        BY <3>2 DEF TypeInv, TypeOK
      <4>2. ChunkCount[call[w].text] \in 1 .. MaxChunks /\ call[w].index \in 1 .. MaxChunks
        BY <1>1, <1>2, StoreAssumption DEF CallRow
      <4>3. call[w].index + 1 <= ChunkCount[call[w].text]
        BY <1>2, <3>2, <4>2, StoreAssumption DEF LastChunk
      <4>4. c \in CallRow
        BY <1>1, <4>2, <4>3, StoreAssumption DEF CallRow
      <4>5. HoldsTranscript(c)
        <5>1. c.text = call[w].text /\ c.index = call[w].index + 1
          BY <1>1 DEF CallRow
        <5> QED  BY <5>1, <1>2, <4>3 DEF HoldsTranscript
      <4> QED  BY <4>1, <4>4, <4>5 DEF LocalStep, WellFormed
    <3> QED  BY <3>1, <3>2, <1>7 DEF InsertNextChunk, HardFails
  <2>2. chunks' \in [Ids -> [1 .. MaxChunks -> Texts \cup {NoText}]]
    <3>1. CASE InsertChunk(Video, call[w].index, call[w].text)
      BY <3>1, <1>1, <1>2, VideoId DEF InsertChunk, TypeInv, TypeOK, StoreTypeOK,
         CallRow
    <3>2. CASE UNCHANGED chunks
      BY <3>2 DEF TypeInv, TypeOK, StoreTypeOK
    <3> QED  BY <3>1, <3>2, <1>7 DEF InsertNextChunk, HardFails
  <2>3. TablesTyped'
    BY <1>3, <1>4, <1>7, <2>2 DEF InsertNextChunk, TypeInv, TypeOK, TablesTyped,
       StoreTypeOK
  <2> QED  BY <2>1, <2>3, LocalStepTyped
<1> QED  BY <1>5, <1>6, <1>7 DEF WriteSteps

LEMMA ExpireTyped ==
  ASSUME TypeInv, NEW w \in Calls, Expire(w)
  PROVE  TypeInv'
  BY SpentTyped DEF Expire, TypeInv, TypeOK, StoreTypeOK, storeVars

LEMMA CrashTyped ==
  ASSUME TypeInv, NEW process, Crash(process)
  PROVE  TypeInv'
<1>1. PICK v \in Calls : TRUE
  BY DEF Crash, Active
<1>2. spent' \in [sidecar: Nat, mishaps: Nat]
  BY <1>1, SpentTyped DEF Crash
<1>3. \A w \in Calls : \/ call'[w] = call[w]
                       \/ call'[w] = [call[w] EXCEPT !.pc = "dead"]
  BY DEF Crash
<1>4. \A w \in Calls : call'[w] \in CallRow /\ HoldsTranscript(call'[w])
  <2> TAKE w \in Calls
  <2>1. call[w] \in CallRow /\ HoldsTranscript(call[w])
    BY DEF TypeInv, TypeOK
  <2>2. CASE call'[w] = [call[w] EXCEPT !.pc = "dead"]
    <3>1. "dead" \in Ended
      BY DEF Ended
    <3>2. call'[w] \in CallRow
      BY <2>1, <2>2, <3>1 DEF CallRow
    <3>3. call'[w].pc = "dead"
      BY <2>1, <2>2 DEF CallRow
    <3> QED  BY <3>2, <3>3 DEF HoldsTranscript
  <2> QED  BY <1>3, <2>1, <2>2
<1>5. call' \in [Calls -> CallRow]
  <2>1. call' = [w \in Calls |-> call'[w]]
    BY DEF Crash
  <2> QED  BY <2>1, <1>4
<1> QED
  BY <1>2, <1>4, <1>5 DEF Crash, TypeInv, TypeOK, StoreTypeOK, storeVars

LEMMA StepTyped ==
  ASSUME TypeInv, [Next]_vars
  PROVE  TypeInv'
<1>1. ASSUME NEW w \in Calls,
             CallStep(w) \/ Expire(w) \/ \E kind \in Kinds : Request(w, kind)
      PROVE  TypeInv'
  BY <1>1, StatusStepTyped, JobStepTyped, ArtifactStepTyped, ReadStepTyped,
     WriteStepTyped, ExpireTyped
     DEF CallStep, StatusSteps, JobSteps, ArtifactSteps, ReadSteps, WriteSteps
<1>2. ASSUME NEW process, Crash(process) PROVE TypeInv'
  BY <1>2, CrashTyped
<1>3. CASE UNCHANGED vars
  BY <1>3 DEF vars, TypeInv, TypeOK, StoreTypeOK
<1> QED  BY <1>1, <1>2, <1>3 DEF Next

LEMMA InitTyped == Init => TypeInv
<1> SUFFICES ASSUME Init PROVE TypeInv
  OBVIOUS
<1>1. StoreTypeOK
  BY StoreAssumption DEF Init, StoreInit, StoreTypeOK, NoDoc, NoChunks, DocRow
<1>2. call \in [Calls -> CallRow]
  BY StoreAssumption DEF Init, CallRow, Ended, Stages, Notes
<1>3. \A w \in Calls : HoldsTranscript(call[w])
  BY DEF Init, HoldsTranscript
<1> QED
  BY <1>1, <1>2, <1>3 DEF Init, TypeInv, TypeOK, ArtifactStatus, Notes, JobStatus

\* Rows and locals keep their types, whatever fails: in particular a request
\* that inserts a chunk always holds a transcript and one of its chunks.
THEOREM PipelineTypes == Spec => []TypeOK
<1>1. TypeInv /\ [Next]_vars => TypeInv'
  BY StepTyped
<1>2. TypeInv => TypeOK
  BY DEF TypeInv
<1> QED  BY <1>1, <1>2, InitTyped, PTL DEF Spec

-----------------------------------------------------------------------------
(***************************************************************************)
(* Who is behind "running".                                                *)
(***************************************************************************)
\* No statement is lost, no deadline passes, no process dies.
NoMishaps == MaxMishaps = 0

\* Statement and sidecar errors under that assumption.
LEMMA NoMishap ==
  ASSUME TypeInv, NoMishaps
  PROVE  /\ \A kind : ~Mishap(kind)
         /\ expired = {} => \A w \in Calls : ~StatementErrs(w)
  BY DEF TypeInv, TypeOK, NoMishaps, Mishap, StatementErrs

\* w leaves nobody behind who does not work: it still owns the status, or has
\* overwritten it, or never owned it.
Hands(w) ==
  /\ \A x \in Calls \ {w} : call'[x] = call[x]
  /\ \/ call'[w].pc \in Owning
     \/ status' # "running"
     \/ status' = status /\ call[w].pc \notin Owning

LEMMA HandsKeep ==
  ASSUME RunningMeansWorking, NEW w \in Calls, Hands(w)
  PROVE  RunningMeansWorking'
  BY DEF RunningMeansWorking, Hands

LEMMA GotoMoves ==
  ASSUME TypeInv, NEW w \in Calls, NEW pc \in Plain \cup Writing, Goto(w, pc)
  PROVE  /\ \A x \in Calls \ {w} : call'[x] = call[x]
         /\ call'[w].pc = pc
  BY DEF TypeInv, TypeOK, CallRow, Goto

\* Going on to a statement at which the request still owns the status.
LEMMA GotoOwning ==
  ASSUME TypeInv, NEW w \in Calls, NEW pc \in Owning, Goto(w, pc)
  PROVE  Hands(w)
<1>1. pc \in Plain \cup Writing
  BY DEF Plain
<1> QED  BY <1>1, GotoMoves DEF Hands

LEMMA CleanUpOwning ==
  ASSUME TypeInv, NEW w \in Calls, NEW stage \in Stages, NEW note \in Notes,
         CleanUp(w, "failJob", stage, note)
  PROVE  Hands(w)
  BY DEF TypeInv, TypeOK, CallRow, CleanUp, Hands, Owning

\* A hard statement that cannot fail takes effect and goes on.
LEMMA StatusStepHands ==
  ASSUME TypeInv, expired = {}, NoMishaps, NEW w \in Calls, StatusSteps(w)
  PROVE  Hands(w)
<1> USE NoMishap DEF Hard, HardFails, Soft
<1>1. CASE SetRunning(w)
  <2> DEFINE next == IF call[w].kind = "transcribe" THEN "createTranscribe"
                     ELSE "createFetch"
  <2>1. Goto(w, next)
    BY <1>1 DEF SetRunning
  <2>2. next \in Owning
    BY DEF Owning
  <2> QED  BY <2>1, <2>2, GotoOwning
<1>2. CASE SetActive(w)
  <2>1. Goto(w, "returned") /\ status' = "active"
    BY <1>2 DEF SetActive, UpdateSourceStatus
  <2>2. "returned" \in Plain \cup Writing
    BY DEF Plain, Writing, Ended
  <2> QED  BY <2>1, <2>2, GotoMoves DEF Hands
<1>3. CASE SetError(w)
  <2> DEFINE next == IF call[w].note = "none" THEN "failed" ELSE "saveNote"
  <2>1. Goto(w, next) /\ status' = "error"
    BY <1>3 DEF SetError, UpdateSourceStatus
  <2>2. next \in Plain \cup Writing
    BY DEF Plain, Writing, Ended
  <2> QED  BY <2>1, <2>2, GotoMoves DEF Hands
<1> QED  BY <1>1, <1>2, <1>3 DEF StatusSteps

LEMMA JobStepHands ==
  ASSUME TypeInv, expired = {}, NoMishaps, NEW w \in Calls, JobSteps(w)
  PROVE  Hands(w)
<1>1. \E pc \in Owning : Goto(w, pc)
  BY NoMishap DEF JobSteps, CreateFetchJob, FetchJobRunning, FetchJobDone,
     CreateTranscribeJob, TranscribeJobRunning, TranscribeJobDone, FailJob,
     Hard, HardFails, Soft, Owning
<1> QED  BY <1>1, GotoOwning

LEMMA ArtifactStepHands ==
  ASSUME TypeInv, expired = {}, NoMishaps, NEW w \in Calls, ArtifactSteps(w)
  PROVE  Hands(w)
<1>1. CASE SaveNote(w)
  <2>1. Goto(w, "failed") /\ call[w].pc = "saveNote" /\ status' = status
    BY <1>1 DEF SaveNote, Soft
  <2>2. "failed" \in Plain \cup Writing /\ "saveNote" \notin Owning
    BY DEF Plain, Writing, Ended, Owning
  <2> QED  BY <2>1, <2>2, GotoMoves DEF Hands
<1>2. CASE SaveDownloaded(w) \/ SaveTranscribing(w) \/ SaveTranscribed(w)
  <2>1. \E pc \in Owning : Goto(w, pc)
    BY <1>2, NoMishap DEF SaveDownloaded, SaveTranscribing, SaveTranscribed,
       Hard, HardFails, Soft, Owning
  <2> QED  BY <2>1, GotoOwning
<1> QED  BY <1>1, <1>2 DEF ArtifactSteps

LEMMA ReadStepHands ==
  ASSUME TypeInv, expired = {}, NoMishaps, NEW w \in Calls, ReadSteps(w)
  PROVE  Hands(w)
<1>1. CASE \E kind \in Kinds : Request(w, kind)
  <2>1. call[w].pc = "idle" /\ status' = status
        /\ \A x \in Calls \ {w} : call'[x] = call[x]
    BY <1>1 DEF Request, TypeInv, TypeOK
  <2> QED  BY <2>1 DEF Hands, Owning
<1>2. CASE CheckAudio(w) \/ ReadArtifact(w)
  <2>1. /\ call[w].pc \in {"checkAudio", "readArtifact"}
        /\ status' = status
        /\ \E pc \in {"readArtifact", "refused", "setRunning", "failed"} : Goto(w, pc)
    BY <1>2 DEF CheckAudio, ReadArtifact
  <2>2. {"readArtifact", "refused", "setRunning", "failed"} \subseteq Plain \cup Writing
    BY DEF Plain, Writing, Asked, Ended
  <2> QED  BY <2>1, <2>2, GotoMoves DEF Hands, Owning
<1>3. CASE ReadFails(w)
  BY <1>3, NoMishap DEF ReadFails
<1>4. CASE Download(w) \/ Transcribe(w)
  <2>1. CASE OnError(w)
    <3>1. \/ CleanUp(w, "failJob", "fetch", "download_failed")
          \/ CleanUp(w, "failJob", "transcribe", "transcription_failed")
      BY <1>4, <2>1 DEF OnError, Download, Transcribe
    <3> QED  BY <3>1, CleanUpOwning DEF Stages, Notes
  <2>2. CASE Goto(w, "saveDownloaded")
    BY <2>2, GotoOwning DEF Owning
  <2>3. CASE \E t \in Texts : call' = [call EXCEPT ![w].pc = "saveDoc",
                                        ![w].text = t, ![w].index = 1]
    BY <2>3 DEF TypeInv, TypeOK, CallRow, Hands, Owning
  <2> QED  BY <1>4, <2>1, <2>2, <2>3 DEF Download, Transcribe
<1>5. CASE DownloadWithoutPath(w)
  BY <1>5, CleanUpOwning DEF DownloadWithoutPath, Stages, Notes
<1> QED  BY <1>1, <1>2, <1>3, <1>4, <1>5 DEF ReadSteps

LEMMA WriteStepHands ==
  ASSUME TypeInv, expired = {}, NoMishaps, NEW w \in Calls, WriteSteps(w)
  PROVE  Hands(w)
<1>1. CASE \E pc \in {"unchunk", "chunk", "saveTranscribed"} : Goto(w, pc)
  BY <1>1, GotoOwning DEF Owning
<1>2. CASE /\ call[w].pc = "chunk"
           /\ call' = [call EXCEPT ![w].index = @ + 1]
  BY <1>2 DEF TypeInv, TypeOK, CallRow, Hands, Owning
<1> QED
  BY <1>1, <1>2, NoMishap DEF WriteSteps, SaveTranscriptDocument, DeleteChunks,
     InsertNextChunk, Hard, HardFails

\* The types, and somebody behind "running".
PipelineInv ==
  /\ TypeOK
  /\ \A w \in Calls : HoldsTranscript(call[w])
  /\ expired = {}
  /\ RunningMeansWorking

LEMMA WorkStep ==
  ASSUME PipelineInv, NoMishaps, [Next]_vars
  PROVE  PipelineInv'
<1>1. TypeInv /\ expired = {}
  BY DEF PipelineInv, TypeInv
<1>2. TypeInv'
  BY <1>1, StepTyped
<1>3. ASSUME NEW w \in Calls, CallStep(w) \/ \E kind \in Kinds : Request(w, kind)
      PROVE  expired' = {} /\ RunningMeansWorking'
  <2>1. Hands(w)
    BY <1>1, <1>3, StatusStepHands, JobStepHands, ArtifactStepHands, ReadStepHands,
       WriteStepHands
       DEF CallStep, StatusSteps, JobSteps, ArtifactSteps, ReadSteps, WriteSteps
  <2>2. expired' = expired
    BY <1>3 DEF CallStep, Request, CheckAudio, ReadArtifact, ReadFails, SetRunning,
       CreateFetchJob, FetchJobRunning, Download, DownloadWithoutPath,
       SaveDownloaded, FetchJobDone, CreateTranscribeJob, TranscribeJobRunning,
       SaveTranscribing, Transcribe, SaveTranscriptDocument, DeleteChunks,
       InsertNextChunk, SaveTranscribed, TranscribeJobDone, SetActive, FailJob,
       SetError, SaveNote
  <2> QED  BY <1>1, <2>1, <2>2, HandsKeep DEF PipelineInv
<1>4. ASSUME NEW w \in Calls, Expire(w) PROVE FALSE
  BY <1>1, <1>4, NoMishap DEF Expire
<1>5. ASSUME NEW process, Crash(process) PROVE FALSE
  BY <1>1, <1>5, NoMishap DEF Crash
<1>6. ASSUME UNCHANGED vars PROVE expired' = {} /\ RunningMeansWorking'
  BY <1>6 DEF vars, PipelineInv, RunningMeansWorking
<1>7. expired' = {} /\ RunningMeansWorking'
  BY <1>3, <1>4, <1>5, <1>6 DEF Next, PipelineInv
<1> QED  BY <1>2, <1>7 DEF PipelineInv, TypeInv

LEMMA WorkInit == Init => PipelineInv
  BY InitTyped DEF PipelineInv, TypeInv, Init, RunningMeansWorking

\* While the database answers, no deadline passes and no process dies, the
\* inductive invariant of the next theorem holds for any number of overlapping requests of any kind.
THEOREM PipelineInvariant ==
  ASSUME NoMishaps
  PROVE  Spec => []PipelineInv
<1>1. PipelineInv /\ [Next]_vars => PipelineInv'
  BY WorkStep
<1> QED  BY <1>1, WorkInit, PTL DEF Spec

\* A source that refuses requests because its status is "running" has somebody
\* who is still going to overwrite that status, under the same assumption.
THEOREM RunningIsWorkedOn ==
  ASSUME NoMishaps
  PROVE  Spec => []RunningMeansWorking
<1>1. PipelineInv => RunningMeansWorking
  BY DEF PipelineInv
<1> QED  BY <1>1, PipelineInvariant, PTL

-----------------------------------------------------------------------------
(***************************************************************************)
(* What the jobs of a request say.                                         *)
(***************************************************************************)
Settled == {"none", "done"}
Fetching == {"fetchRunning", "download", "saveDownloaded", "doneFetch"}
Transcribing == {"createTranscribe", "transcribeRunning", "saveTranscribing",
                 "transcribe", "saveDoc", "unchunk", "chunk", "saveTranscribed",
                 "doneTranscribe"}
Failed(j) == /\ \E s \in Stages : j[s] = "failed"
             /\ \A s \in Stages : j[s] \notin {"queued", "running"}

\* How far its jobs are at each statement of a request: what the error path
\* that may follow does not settle is settled.
JobsFit(c, j) ==
  /\ c.pc \in Asked \cup {"idle", "refused", "createFetch"} =>
       \A s \in Stages : j[s] = "none"
  /\ c.pc \in Fetching => j["transcribe"] = "none"
  /\ c.pc \in Transcribing \cup {"setActive", "returned"} => j["fetch"] \in Settled
  /\ c.pc \in {"setActive", "returned"} => j["transcribe"] = "done"
  /\ c.pc = "failJob" => \A s \in Stages \ {c.stage} : j[s] \in Settled
  /\ c.pc \in {"statusError", "saveNote"} => Failed(j)
  /\ c.pc = "failed" => Failed(j) \/ \A s \in Stages : j[s] = "none"
  /\ c.pc # "dead"

\* A step of w leaves the jobs and the locals of the others alone.
Fits(w) ==
  /\ \A x \in Calls \ {w} : call'[x] = call[x] /\ job'[x] = job[x]
  /\ JobsFit(call'[w], job'[w])

LEMMA GotoKeepsJobs ==
  ASSUME TypeInv, NEW w \in Calls, NEW pc \in Plain \cup Writing, Goto(w, pc),
         UNCHANGED job
  PROVE  /\ \A x \in Calls \ {w} : call'[x] = call[x] /\ job'[x] = job[x]
         /\ call'[w].pc = pc
         /\ job'[w] = job[w]
  BY GotoMoves

LEMMA GotoSetsJob ==
  ASSUME TypeInv, NEW w \in Calls, NEW pc \in Plain \cup Writing, Goto(w, pc),
         NEW stage \in Stages, NEW s \in JobStatus, SetJob(w, stage, s)
  PROVE  /\ \A x \in Calls \ {w} : call'[x] = call[x] /\ job'[x] = job[x]
         /\ call'[w].pc = pc
         /\ job'[w][stage] = s
         /\ \A t \in Stages \ {stage} : job'[w][t] = job[w][t]
  BY GotoMoves DEF SetJob, TypeInv, TypeOK

LEMMA CleanUpMoves ==
  ASSUME TypeInv, NEW w \in Calls, NEW stage \in Stages, NEW note \in Notes,
         CleanUp(w, "failJob", stage, note), UNCHANGED job,
         \A s \in Stages \ {stage} : job[w][s] \in Settled
  PROVE  Fits(w)
<1>1. /\ \A x \in Calls \ {w} : call'[x] = call[x]
      /\ call'[w].pc = "failJob" /\ call'[w].stage = stage
  BY DEF CleanUp, TypeInv, TypeOK, CallRow
<1> QED  BY <1>1 DEF Fits, JobsFit, Asked, Fetching, Transcribing

LEMMA StatusStepFits ==
  ASSUME TypeInv, expired = {}, NoMishaps, NEW w \in Calls, StatusSteps(w),
         JobsFit(call[w], job[w])
  PROVE  Fits(w)
<1> USE NoMishap DEF Hard, HardFails, Soft
<1>1. CASE SetRunning(w)
  <2>1. /\ \A s \in Stages : job[w][s] = "none"
        /\ UNCHANGED job
        /\ \E pc \in {"createTranscribe", "createFetch"} : Goto(w, pc)
    BY <1>1 DEF SetRunning, JobsFit, Asked
  <2>2. {"createTranscribe", "createFetch"} \subseteq Plain \cup Writing
    BY DEF Plain, Writing, Owning
  <2> QED  BY <2>1, <2>2, GotoKeepsJobs
           DEF Fits, JobsFit, Fetching, Transcribing, Settled, Asked, Stages
<1>2. CASE SetActive(w)
  <2>1. Goto(w, "returned") /\ call[w].pc = "setActive" /\ UNCHANGED job
    BY <1>2 DEF SetActive
  <2>2. "returned" \in Plain \cup Writing
    BY DEF Plain, Writing, Ended
  <2> QED  BY <2>1, <2>2, GotoKeepsJobs
           DEF Fits, JobsFit, Fetching, Transcribing, Asked
<1>3. CASE SetError(w)
  <2>1. /\ call[w].pc = "statusError" /\ UNCHANGED job
        /\ \E pc \in {"failed", "saveNote"} : Goto(w, pc)
    BY <1>3 DEF SetError
  <2>2. {"failed", "saveNote"} \subseteq Plain \cup Writing
    BY DEF Plain, Writing, Ended
  <2> QED  BY <2>1, <2>2, GotoKeepsJobs
           DEF Fits, JobsFit, Fetching, Transcribing, Asked
<1> QED  BY <1>1, <1>2, <1>3 DEF StatusSteps

\* A job set on the way leaves the other one as it is.
LEMMA JobStepFits ==
  ASSUME TypeInv, expired = {}, NoMishaps, NEW w \in Calls, JobSteps(w),
         JobsFit(call[w], job[w])
  PROVE  Fits(w)
<1>1. Owning \subseteq Plain \cup Writing
  BY DEF Plain, Writing, Owning
<1>2. CASE CreateFetchJob(w)
  <2>1. Goto(w, "fetchRunning") /\ SetJob(w, "fetch", "queued")
        /\ job[w]["transcribe"] = "none"
    BY <1>2, NoMishap DEF Hard, HardFails, Soft, CreateFetchJob, JobsFit, Stages
  <2>2. "fetchRunning" \in Owning
    BY DEF Owning
  <2>3. /\ \A x \in Calls \ {w} : call'[x] = call[x] /\ job'[x] = job[x]
        /\ call'[w].pc = "fetchRunning"
        /\ job'[w]["fetch"] = "queued"
        /\ job'[w]["transcribe"] = job[w]["transcribe"]
    BY <1>1, <2>1, <2>2, GotoSetsJob DEF Stages, JobStatus
  <2> QED  BY <2>1, <2>3 DEF Fits, JobsFit, Fetching, Transcribing, Asked, Settled
<1>3. CASE FetchJobRunning(w)
  <2>1. Goto(w, "download") /\ SetJob(w, "fetch", "running")
        /\ job[w]["transcribe"] = "none"
    BY <1>3, NoMishap DEF Hard, HardFails, Soft, FetchJobRunning, JobsFit, Fetching
  <2>2. "download" \in Owning
    BY DEF Owning
  <2>3. /\ \A x \in Calls \ {w} : call'[x] = call[x] /\ job'[x] = job[x]
        /\ call'[w].pc = "download"
        /\ job'[w]["fetch"] = "running"
        /\ job'[w]["transcribe"] = job[w]["transcribe"]
    BY <1>1, <2>1, <2>2, GotoSetsJob DEF Stages, JobStatus
  <2> QED  BY <2>1, <2>3 DEF Fits, JobsFit, Fetching, Transcribing, Asked, Settled
<1>4. CASE FetchJobDone(w)
  <2>1. Goto(w, "createTranscribe") /\ SetJob(w, "fetch", "done")
    BY <1>4, NoMishap DEF Hard, HardFails, Soft, FetchJobDone
  <2>2. "createTranscribe" \in Owning
    BY DEF Owning
  <2>3. /\ \A x \in Calls \ {w} : call'[x] = call[x] /\ job'[x] = job[x]
        /\ call'[w].pc = "createTranscribe"
        /\ job'[w]["fetch"] = "done"
        /\ job'[w]["transcribe"] = job[w]["transcribe"]
    BY <1>1, <2>1, <2>2, GotoSetsJob DEF Stages, JobStatus
  <2> QED  BY <2>1, <2>3 DEF Fits, JobsFit, Fetching, Transcribing, Asked, Settled
<1>5. CASE CreateTranscribeJob(w)
  <2>1. Goto(w, "transcribeRunning") /\ SetJob(w, "transcribe", "queued")
        /\ job[w]["fetch"] \in Settled
    BY <1>5, NoMishap DEF Hard, HardFails, Soft, CreateTranscribeJob, JobsFit, Transcribing
  <2>2. "transcribeRunning" \in Owning
    BY DEF Owning
  <2>3. /\ \A x \in Calls \ {w} : call'[x] = call[x] /\ job'[x] = job[x]
        /\ call'[w].pc = "transcribeRunning"
        /\ job'[w]["transcribe"] = "queued"
        /\ job'[w]["fetch"] = job[w]["fetch"]
    BY <1>1, <2>1, <2>2, GotoSetsJob DEF Stages, JobStatus
  <2> QED  BY <2>1, <2>3 DEF Fits, JobsFit, Fetching, Transcribing, Asked, Settled
<1>6. CASE TranscribeJobRunning(w)
  <2>1. Goto(w, "saveTranscribing") /\ SetJob(w, "transcribe", "running")
        /\ job[w]["fetch"] \in Settled
    BY <1>6, NoMishap DEF Hard, HardFails, Soft, TranscribeJobRunning, JobsFit, Transcribing
  <2>2. "saveTranscribing" \in Owning
    BY DEF Owning
  <2>3. /\ \A x \in Calls \ {w} : call'[x] = call[x] /\ job'[x] = job[x]
        /\ call'[w].pc = "saveTranscribing"
        /\ job'[w]["transcribe"] = "running"
        /\ job'[w]["fetch"] = job[w]["fetch"]
    BY <1>1, <2>1, <2>2, GotoSetsJob DEF Stages, JobStatus
  <2> QED  BY <2>1, <2>3 DEF Fits, JobsFit, Fetching, Transcribing, Asked, Settled
<1>7. CASE TranscribeJobDone(w)
  <2>1. Goto(w, "setActive") /\ SetJob(w, "transcribe", "done")
        /\ job[w]["fetch"] \in Settled
    BY <1>7, NoMishap DEF Hard, HardFails, Soft, TranscribeJobDone, JobsFit, Transcribing
  <2>2. "setActive" \in Owning
    BY DEF Owning
  <2>3. /\ \A x \in Calls \ {w} : call'[x] = call[x] /\ job'[x] = job[x]
        /\ call'[w].pc = "setActive"
        /\ job'[w]["transcribe"] = "done"
        /\ job'[w]["fetch"] = job[w]["fetch"]
    BY <1>1, <2>1, <2>2, GotoSetsJob DEF Stages, JobStatus
  <2> QED  BY <2>1, <2>3 DEF Fits, JobsFit, Fetching, Transcribing, Asked, Settled
<1>8. CASE FailJob(w)
  <2>1. Goto(w, "statusError") /\ SetJob(w, call[w].stage, "failed")
        /\ \A s \in Stages \ {call[w].stage} : job[w][s] \in Settled
    BY <1>8, NoMishap DEF Hard, HardFails, Soft, FailJob, JobsFit
  <2>2. "statusError" \in Owning /\ call[w].stage \in Stages
    BY DEF Owning, TypeInv, TypeOK, CallRow
  <2>3. /\ \A x \in Calls \ {w} : call'[x] = call[x] /\ job'[x] = job[x]
        /\ call'[w].pc = "statusError"
        /\ job'[w][call[w].stage] = "failed"
        /\ \A s \in Stages \ {call[w].stage} : job'[w][s] = job[w][s]
    BY <1>1, <2>1, <2>2, GotoSetsJob DEF JobStatus
  <2>4. Failed(job'[w])
    BY <2>1, <2>2, <2>3 DEF Failed, Settled
  <2> QED  BY <2>3, <2>4 DEF Fits, JobsFit, Fetching, Transcribing, Asked
<1> QED  BY <1>2, <1>3, <1>4, <1>5, <1>6, <1>7, <1>8 DEF JobSteps

LEMMA ArtifactStepFits ==
  ASSUME TypeInv, expired = {}, NoMishaps, NEW w \in Calls, ArtifactSteps(w),
         JobsFit(call[w], job[w])
  PROVE  Fits(w)
<1> USE NoMishap DEF Hard, HardFails, Soft
<1>1. UNCHANGED job
  BY DEF ArtifactSteps, SaveDownloaded, SaveTranscribing, SaveTranscribed, SaveNote
<1>2. {"doneFetch", "transcribe", "doneTranscribe", "failed"} \subseteq Plain \cup Writing
  BY DEF Plain, Writing, Owning, Ended
<1> USE DEF Fits, JobsFit, Fetching, Transcribing, Asked
<1>3. CASE SaveDownloaded(w)
  <2>1. call[w].pc = "saveDownloaded" /\ Goto(w, "doneFetch")
    BY <1>3 DEF SaveDownloaded
  <2> QED  BY <1>1, <1>2, <2>1, GotoKeepsJobs
<1>4. CASE SaveTranscribing(w)
  <2>1. call[w].pc = "saveTranscribing" /\ Goto(w, "transcribe")
    BY <1>4 DEF SaveTranscribing
  <2> QED  BY <1>1, <1>2, <2>1, GotoKeepsJobs
<1>5. CASE SaveTranscribed(w)
  <2>1. call[w].pc = "saveTranscribed" /\ Goto(w, "doneTranscribe")
    BY <1>5 DEF SaveTranscribed
  <2> QED  BY <1>1, <1>2, <2>1, GotoKeepsJobs
<1>6. CASE SaveNote(w)
  <2>1. call[w].pc = "saveNote" /\ Goto(w, "failed")
    BY <1>6 DEF SaveNote
  <2> QED  BY <1>1, <1>2, <2>1, GotoKeepsJobs
<1> QED  BY <1>3, <1>4, <1>5, <1>6 DEF ArtifactSteps

LEMMA ReadStepFits ==
  ASSUME TypeInv, expired = {}, NoMishaps, NEW w \in Calls, ReadSteps(w),
         JobsFit(call[w], job[w])
  PROVE  Fits(w)
<1>1. UNCHANGED job
  BY DEF ReadSteps, Request, CheckAudio, ReadArtifact, ReadFails, Download,
     DownloadWithoutPath, Transcribe
<1>2. CASE \E kind \in Kinds : Request(w, kind)
  <2>1. /\ call[w].pc = "idle"
        /\ \A x \in Calls \ {w} : call'[x] = call[x]
        /\ call'[w].pc \in {"refused", "checkAudio", "setRunning"}
    BY <1>2 DEF Request, TypeInv, TypeOK, CallRow
  <2> QED  BY <1>1, <2>1 DEF Fits, JobsFit, Fetching, Transcribing, Asked
<1>3. CASE CheckAudio(w) \/ ReadArtifact(w)
  <2>1. /\ call[w].pc \in {"checkAudio", "readArtifact"}
        /\ \E pc \in {"readArtifact", "refused", "setRunning", "failed"} : Goto(w, pc)
    BY <1>3 DEF CheckAudio, ReadArtifact
  <2>2. {"readArtifact", "refused", "setRunning", "failed"} \subseteq Plain \cup Writing
    BY DEF Plain, Writing, Asked, Ended
  <2> QED  BY <1>1, <2>1, <2>2, GotoKeepsJobs
           DEF Fits, JobsFit, Fetching, Transcribing, Asked
<1>4. CASE ReadFails(w)
  BY <1>4, NoMishap DEF ReadFails
<1>5. CASE Download(w) \/ DownloadWithoutPath(w)
  <2>1. call[w].pc = "download" /\ job[w]["transcribe"] = "none"
    BY <1>5 DEF Download, DownloadWithoutPath, JobsFit, Fetching
  <2>2. CASE Goto(w, "saveDownloaded")
    <3>1. "saveDownloaded" \in Plain \cup Writing
      BY DEF Plain, Writing, Owning
    <3> QED  BY <1>1, <2>1, <2>2, <3>1, GotoKeepsJobs
             DEF Fits, JobsFit, Fetching, Transcribing, Asked
  <2>3. CASE \E note \in {"none", "download_failed"} : CleanUp(w, "failJob", "fetch", note)
    BY <1>1, <2>1, <2>3, CleanUpMoves DEF Stages, Notes, Settled
  <2> QED  BY <1>5, <2>1, <2>2, <2>3 DEF Download, DownloadWithoutPath, OnError
<1>6. CASE Transcribe(w)
  <2>1. call[w].pc = "transcribe" /\ job[w]["fetch"] \in Settled
    BY <1>6 DEF Transcribe, JobsFit, Transcribing
  <2>2. CASE OnError(w)
    <3>1. CleanUp(w, "failJob", "transcribe", "transcription_failed")
      BY <2>1, <2>2 DEF OnError
    <3> QED  BY <1>1, <2>1, <3>1, CleanUpMoves DEF Stages, Notes
  <2>3. CASE \E t \in Texts : call' = [call EXCEPT ![w].pc = "saveDoc",
                                        ![w].text = t, ![w].index = 1]
    <3>1. /\ \A x \in Calls \ {w} : call'[x] = call[x]
          /\ call'[w].pc = "saveDoc"
      BY <2>3 DEF TypeInv, TypeOK, CallRow
    <3> QED  BY <1>1, <2>1, <3>1 DEF Fits, JobsFit, Fetching, Transcribing, Asked
  <2> QED  BY <1>6, <2>2, <2>3 DEF Transcribe
<1> QED  BY <1>2, <1>3, <1>4, <1>5, <1>6 DEF ReadSteps

LEMMA WriteStepFits ==
  ASSUME TypeInv, expired = {}, NoMishaps, NEW w \in Calls, WriteSteps(w),
         JobsFit(call[w], job[w])
  PROVE  Fits(w)
<1>1. call[w].pc \in Writing /\ UNCHANGED job
  BY DEF WriteSteps, SaveTranscriptDocument, DeleteChunks, InsertNextChunk, Writing
<1>2. job[w]["fetch"] \in Settled
  BY <1>1 DEF JobsFit, Writing, Transcribing
<1>3. CASE \E pc \in {"unchunk", "chunk", "saveTranscribed"} : Goto(w, pc)
  <2>1. {"unchunk", "chunk", "saveTranscribed"} \subseteq Plain \cup Writing
    BY DEF Plain, Writing, Owning
  <2> QED  BY <1>1, <1>2, <1>3, <2>1, GotoKeepsJobs
           DEF Fits, JobsFit, Fetching, Transcribing, Asked
<1>4. CASE /\ call[w].pc = "chunk"
           /\ call' = [call EXCEPT ![w].index = @ + 1]
  <2>1. /\ \A x \in Calls \ {w} : call'[x] = call[x]
        /\ call'[w].pc = "chunk"
    BY <1>4 DEF TypeInv, TypeOK, CallRow
  <2> QED  BY <1>1, <1>2, <2>1 DEF Fits, JobsFit, Fetching, Transcribing, Asked
<1> QED
  BY <1>3, <1>4, NoMishap DEF WriteSteps, SaveTranscriptDocument, DeleteChunks,
     InsertNextChunk, Hard, HardFails

\* The jobs of every request fit where it is.
OutcomeInv == PipelineInv /\ \A w \in Calls : JobsFit(call[w], job[w])

LEMMA OutcomeStep ==
  ASSUME OutcomeInv, NoMishaps, [Next]_vars
  PROVE  OutcomeInv'
<1>1. TypeInv /\ expired = {} /\ PipelineInv
  BY DEF OutcomeInv, PipelineInv, TypeInv
<1>2. PipelineInv'
  BY <1>1, WorkStep
<1>3. ASSUME NEW w \in Calls, CallStep(w) \/ \E kind \in Kinds : Request(w, kind)
      PROVE  \A x \in Calls : JobsFit(call[x], job[x])'
  <2>1. Fits(w)
    BY <1>1, <1>3, StatusStepFits, JobStepFits, ArtifactStepFits, ReadStepFits,
       WriteStepFits
       DEF OutcomeInv, CallStep, StatusSteps, JobSteps, ArtifactSteps, ReadSteps,
           WriteSteps
  <2> SUFFICES ASSUME NEW x \in Calls PROVE JobsFit(call'[x], job'[x])
    OBVIOUS
  <2>2. CASE x = w
    BY <2>1, <2>2 DEF Fits
  <2>3. CASE x # w
    BY <2>1, <2>3 DEF Fits, OutcomeInv
  <2> QED  BY <2>2, <2>3
<1>4. ASSUME NEW w \in Calls, Expire(w) PROVE FALSE
  BY <1>1, <1>4, NoMishap DEF Expire
<1>5. ASSUME NEW process, Crash(process) PROVE FALSE
  BY <1>1, <1>5, NoMishap DEF Crash
<1>6. ASSUME UNCHANGED vars
      PROVE  \A x \in Calls : JobsFit(call[x], job[x])'
  BY <1>6 DEF vars, OutcomeInv
<1>7. \A x \in Calls : JobsFit(call[x], job[x])'
  BY <1>3, <1>4, <1>5, <1>6 DEF Next
<1> QED  BY <1>2, <1>7 DEF OutcomeInv

\* Whoever overlaps it, a request that has ended left no job queued or running,
\* and its jobs tell whether it returned, under the same assumption: every error
\* path of the service settles the job of the stage it is for.
THEOREM JobsTell ==
  ASSUME NoMishaps
  PROVE  Spec => []JobsTellTheOutcome
<1>1. OutcomeInv /\ [Next]_vars => OutcomeInv'
  BY OutcomeStep
<1>2. Init => OutcomeInv
  BY WorkInit DEF OutcomeInv, Init, JobsFit, Fetching, Transcribing
<1>3. OutcomeInv => JobsTellTheOutcome
  <2> SUFFICES ASSUME OutcomeInv, NEW w \in Calls, call[w].pc \in Ended
               PROVE  /\ \A s \in Stages : job[w][s] \notin {"queued", "running"}
                      /\ call[w].pc = "returned" =>
                           /\ \E s \in Stages : job[w][s] = "done"
                           /\ \A s \in Stages : job[w][s] # "failed"
                      /\ call[w].pc # "returned" =>
                           \/ \E s \in Stages : job[w][s] = "failed"
                           \/ {job[w][s] : s \in Stages} = {"none"}
    BY DEF JobsTellTheOutcome
  <2>1. JobsFit(call[w], job[w])
    BY DEF OutcomeInv
  <2>2. CASE call[w].pc = "returned"
    BY <2>1, <2>2 DEF JobsFit, Stages, Settled
  <2>3. CASE call[w].pc # "returned"
    <3>1. Failed(job[w]) \/ \A s \in Stages : job[w][s] = "none"
      BY <2>1, <2>3 DEF JobsFit, Ended
    <3>2. (\A s \in Stages : job[w][s] = "none") => {job[w][s] : s \in Stages} = {"none"}
      BY DEF Stages
    <3> QED  BY <2>3, <3>1, <3>2 DEF Failed
  <2> QED  BY <2>2, <2>3
<1> QED  BY <1>1, <1>2, <1>3, PTL DEF Spec

-----------------------------------------------------------------------------
(***************************************************************************)
(* What "transcribed" promises.                                            *)
(***************************************************************************)
OneRequest == MaxActive = 1
OneMishap == MaxMishaps <= 1

\* Where the document no longer has its old text and not yet its new chunks.
Midway == {"unchunk", "chunk"}
Delicate == Midway \cup {"transcribe", "saveDoc", "saveTranscribed"}

NoneLeft == MaxMishaps <= spent.mishaps
Searchable == FullyChunked(Video, docs[Video].text)

\* The chunks before the next one are of the new text, and there are no others.
ChunkedSoFar(c) ==
  \A i \in 1 .. MaxChunks :
    chunks[Video][i] = IF i < c.index THEN c.text ELSE NoText

\* What request w has written when it has a transcript in hand.
InHand(w) ==
  LET c == call[w] IN
  /\ c.pc \in {"saveDoc", "unchunk"} => c.index = 1
  /\ c.pc \in Midway => docs[Video].text = c.text
  /\ c.pc = "chunk" => ChunkedSoFar(c)
  /\ c.pc = "saveTranscribed" => Searchable

\* If the artifact still says "transcribed" then the statement that should have
\* said "transcribing" was the mishap, and nothing else can go wrong.
Warned(w) ==
  LET c == call[w] IN
  artifact.status = "transcribed" =>
    /\ c.pc = "transcribe" => w \in expired \/ NoneLeft
    /\ c.pc \in Writing => w \notin expired /\ NoneLeft

AudioInv ==
  /\ TypeInv
  /\ \A v, w \in Active : v = w
  /\ \A w \in Calls : InHand(w) /\ Warned(w)
  /\ artifact.status = "transcribed" =>
       Searchable \/ \E w \in Calls : call[w].pc \in Midway
\* Nobody but w is at work.
Alone(w) == \A v \in Calls \ {w} : call[v].pc \in Ended

OthersStay(w) == \A v \in Calls \ {w} : call'[v] = call[v]

LEMMA EndedIsCalm ==
  ASSUME NEW pc \in Ended
  PROVE  pc \notin Delicate \cup Writing
  BY DEF Ended, Delicate, Midway, Writing

\* A step of the only request at work.
LEMMA AloneStep ==
  ASSUME AudioInv, TypeInv', NEW w \in Calls, Alone(w), OthersStay(w),
         InHand(w)', Warned(w)',
         artifact'.status = "transcribed" => Searchable' \/ call'[w].pc \in Midway
  PROVE  AudioInv'
<1>1. \A v \in Calls \ {w} : call'[v].pc \in Ended
  BY DEF Alone, OthersStay
<1>2. \A v \in Calls : InHand(v)' /\ Warned(v)'
  <2> SUFFICES ASSUME NEW v \in Calls \ {w} PROVE InHand(v)' /\ Warned(v)'
    OBVIOUS
  <2>1. call'[v].pc \notin Delicate \cup Writing
    BY <1>1, EndedIsCalm
  <2> QED  BY <2>1 DEF InHand, Warned, Delicate, Midway, Writing
<1>3. (\A v, x \in Active : v = x)'
  BY <1>1 DEF Active
<1> QED  BY <1>2, <1>3 DEF AudioInv

\* A mishap finds "transcribed" to be true, or not said.
LEMMA MishapMeansSearchable ==
  ASSUME AudioInv, NEW kind, Mishap(kind), artifact.status = "transcribed"
  PROVE  Searchable /\ \A w \in Calls : call[w].pc \notin Writing
<1>1. ~NoneLeft
  BY PipelineAssumption DEF AudioInv, TypeInv, TypeOK, Mishap, NoneLeft
<1>2. \A w \in Calls : call[w].pc \notin Writing
  BY <1>1 DEF AudioInv, Warned
<1> QED  BY <1>2 DEF AudioInv, Midway, Writing

\* A statement that does not touch the document, after which w holds nothing.
LEMMA CalmStep ==
  ASSUME AudioInv, TypeInv', NEW w \in Calls, Alone(w), OthersStay(w),
         UNCHANGED <<docs, chunks>>,
         call'[w].pc \notin Delicate,
         artifact'.status = "transcribed" =>
           \/ Searchable
           \/ artifact.status = "transcribed" /\ call[w].pc \notin Midway
  PROVE  AudioInv'
<1>1. InHand(w)' /\ Warned(w)'
  BY DEF InHand, Warned, Delicate, Midway, Writing
<1>2. \A v \in Calls \ {w} : call[v].pc \notin Midway
  BY EndedIsCalm DEF Alone, Delicate
<1>3. artifact'.status = "transcribed" => Searchable
  BY <1>2 DEF AudioInv
<1>4. Searchable' = Searchable
  BY DEF Searchable, FullyChunked
<1> QED  BY <1>1, <1>3, <1>4, AloneStep

LEMMA GotoStays ==
  ASSUME TypeInv, NEW w \in Calls, NEW pc, Goto(w, pc)
  PROVE  OthersStay(w) /\ call'[w].pc = pc
  BY DEF TypeInv, TypeOK, CallRow, Goto, OthersStay

LEMMA OnErrorStays ==
  ASSUME TypeInv, NEW w \in Calls, OnError(w)
  PROVE  OthersStay(w) /\ call'[w].pc \in {"failed", "refused", "failJob", "statusError"}
<1>1. CASE Goto(w, "failed") \/ Goto(w, "refused")
  BY <1>1, GotoStays
<1>2. ASSUME NEW pc \in {"failJob", "statusError"}, NEW stage, NEW note,
             CleanUp(w, pc, stage, note)
      PROVE  OthersStay(w) /\ call'[w].pc = pc
  BY <1>2 DEF TypeInv, TypeOK, CallRow, CleanUp, OthersStay
<1> QED  BY <1>1, <1>2 DEF OnError

\* Steps that leave the document and the artifact alone.
Elsewhere(w) ==
  \/ \E kind \in Kinds : Request(w, kind)
  \/ StatusSteps(w) \/ JobSteps(w)
  \/ CheckAudio(w) \/ ReadArtifact(w) \/ ReadFails(w)
  \/ Download(w) \/ DownloadWithoutPath(w)

LEMMA ElsewhereAudio ==
  ASSUME AudioInv, TypeInv', NEW w \in Calls, Alone(w), Elsewhere(w)
  PROVE  AudioInv'
<1>1. TypeInv
  BY DEF AudioInv
<1>2. UNCHANGED <<docs, chunks, artifact>>
  BY DEF Elsewhere, StatusSteps, JobSteps, Request, SetRunning, SetActive, SetError,
     CreateFetchJob, FetchJobRunning, FetchJobDone, CreateTranscribeJob,
     TranscribeJobRunning, TranscribeJobDone, FailJob, CheckAudio, ReadArtifact,
     ReadFails, Download, DownloadWithoutPath, storeVars
<1>3. call[w].pc \notin Midway
  BY DEF Elsewhere, StatusSteps, JobSteps, Request, SetRunning, SetActive, SetError,
     CreateFetchJob, FetchJobRunning, FetchJobDone, CreateTranscribeJob,
     TranscribeJobRunning, TranscribeJobDone, FailJob, CheckAudio, ReadArtifact,
     ReadFails, Download, DownloadWithoutPath, Midway
<1>4. OthersStay(w) /\ call'[w].pc \notin Delicate
  <2>1. ASSUME NEW kind \in Kinds, Request(w, kind)
        PROVE  OthersStay(w) /\ call'[w].pc \in {"refused", "checkAudio", "setRunning"}
    BY <1>1, <2>1 DEF Request, OthersStay, TypeInv, TypeOK, CallRow
  <2>2. CASE OnError(w)
    BY <1>1, <2>2, OnErrorStays DEF Delicate, Midway
  <2>3. CASE DownloadWithoutPath(w)
    BY <1>1, <2>3 DEF DownloadWithoutPath, CleanUp, OthersStay, TypeInv, TypeOK,
       CallRow, Delicate, Midway
  <2>4. ASSUME NEW pc, Goto(w, pc), pc \notin Delicate
        PROVE  OthersStay(w) /\ call'[w].pc \notin Delicate
    BY <1>1, <2>4, GotoStays
  <2>5. CASE StatusSteps(w)
    BY <2>2, <2>4, <2>5 DEF StatusSteps, SetRunning, SetActive, SetError, Hard,
       HardFails, Soft, Delicate, Midway
  <2>6. CASE JobSteps(w)
    BY <2>2, <2>4, <2>6 DEF JobSteps, CreateFetchJob, FetchJobRunning, FetchJobDone,
       CreateTranscribeJob, TranscribeJobRunning, TranscribeJobDone, FailJob, Hard,
       HardFails, Soft, Delicate, Midway
  <2>7. CASE CheckAudio(w) \/ ReadArtifact(w) \/ ReadFails(w) \/ Download(w)
    BY <2>2, <2>4, <2>7 DEF CheckAudio, ReadArtifact, ReadFails, Download, Delicate,
       Midway
  <2> QED  BY <2>1, <2>3, <2>5, <2>6, <2>7 DEF Elsewhere, Delicate, Midway
<1> QED  BY <1>2, <1>3, <1>4, CalmStep

LEMMA ArtifactStepAudio ==
  ASSUME AudioInv, TypeInv', OneMishap, NEW w \in Calls, Alone(w), ArtifactSteps(w)
  PROVE  AudioInv'
<1>1. TypeInv /\ InHand(w)
  BY DEF AudioInv
<1>2. UNCHANGED <<docs, chunks, expired>>
  BY DEF ArtifactSteps, SaveDownloaded, SaveTranscribing, SaveTranscribed, SaveNote,
     storeVars
<1>3. CASE SaveTranscribing(w)
  <2>1. call[w].pc = "saveTranscribing" /\ OthersStay(w) /\ call'[w].pc = "transcribe"
    BY <1>1, <1>3, GotoStays DEF SaveTranscribing, Soft
  <2>2. CASE artifact' = [status |-> "transcribing", audio |-> TRUE]
    BY <1>2, <2>1, <2>2, AloneStep DEF InHand, Warned, Midway
  <2>3. CASE UNCHANGED artifact /\ StatementErrs(w)
    <3>1. w \in expired' \/ NoneLeft'
      <4>1. CASE Mishap("database")
        BY <4>1, <1>1, PipelineAssumption DEF Mishap, OneMishap, NoneLeft, TypeInv, TypeOK
      <4> QED  BY <4>1, <2>3, <1>2 DEF StatementErrs
    <3>2. InHand(w)' /\ Warned(w)'
      BY <2>1, <3>1 DEF InHand, Warned, Midway, Writing
    <3>3. artifact'.status = "transcribed" => Searchable
      BY <2>1, <2>3, EndedIsCalm DEF AudioInv, Alone, Delicate, Midway
    <3>4. Searchable' = Searchable
      BY <1>2 DEF Searchable, FullyChunked
    <3> QED  BY <2>1, <3>2, <3>3, <3>4, AloneStep
  <2> QED
    BY <1>3, <2>2, <2>3 DEF SaveTranscribing, Soft, SaveYouTubeAudioArtifact
<1>4. CASE SaveTranscribed(w)
  <2>1. Searchable
    BY <1>1, <1>4 DEF SaveTranscribed, InHand
  <2>2. OthersStay(w) /\ call'[w].pc \notin Delicate
    BY <1>1, <1>4, GotoStays, OnErrorStays DEF SaveTranscribed, Hard, HardFails,
       Delicate, Midway
  <2>3. UNCHANGED <<docs, chunks>>
    BY <1>2
  <2> QED  BY <2>1, <2>2, <2>3, CalmStep
<1>5. CASE SaveDownloaded(w) \/ SaveNote(w)
  <2>1. OthersStay(w) /\ call'[w].pc \notin Delicate /\ call[w].pc \notin Midway
    BY <1>1, <1>5, GotoStays, OnErrorStays DEF SaveDownloaded, SaveNote, Soft, Hard,
       HardFails, Delicate, Midway
  <2>2. call[w].note # "transcribed"
    BY <1>1 DEF TypeInv, TypeOK, CallRow, Notes
  <2>3. artifact'.status = "transcribed" => artifact.status = "transcribed"
    BY <1>5, <2>2 DEF SaveDownloaded, SaveNote, Soft, Hard, HardFails,
       SaveYouTubeAudioArtifact
  <2> QED  BY <1>2, <2>1, <2>3, CalmStep
<1> QED  BY <1>3, <1>4, <1>5 DEF ArtifactSteps

LEMMA TranscribeAudio ==
  ASSUME AudioInv, TypeInv', NEW w \in Calls, Alone(w), Transcribe(w)
  PROVE  AudioInv'
<1>1. TypeInv /\ Warned(w) /\ call[w].pc = "transcribe"
  BY DEF AudioInv, Transcribe
<1>2. UNCHANGED <<docs, chunks, artifact, expired>>
  BY DEF Transcribe, storeVars
<1>3. CASE OnError(w)
  BY <1>1, <1>2, <1>3, OnErrorStays, CalmStep DEF Delicate, Midway
<1>4. ASSUME w \notin expired, UNCHANGED spent, NEW t \in Texts,
             call' = [call EXCEPT ![w].pc = "saveDoc", ![w].text = t, ![w].index = 1]
      PROVE  AudioInv'
  <2>1. OthersStay(w) /\ call'[w].pc = "saveDoc" /\ call'[w].index = 1
    BY <1>1, <1>4 DEF OthersStay, TypeInv, TypeOK, CallRow
  <2>2. InHand(w)'
    BY <2>1 DEF InHand, Midway
  <2>3. Warned(w)'
    BY <1>1, <1>2, <1>4, <2>1 DEF Warned, NoneLeft
  <2>4. artifact'.status = "transcribed" => Searchable
    BY <1>1, <1>2, EndedIsCalm DEF AudioInv, Alone, Delicate, Midway
  <2>5. Searchable' = Searchable
    BY <1>2 DEF Searchable, FullyChunked
  <2> QED  BY <2>1, <2>2, <2>3, <2>4, <2>5, AloneStep
<1> QED  BY <1>3, <1>4 DEF Transcribe

\* A statement about the document that fails.
LEMMA WriteFails ==
  ASSUME AudioInv, TypeInv', NEW w \in Calls, Alone(w), call[w].pc \in Writing,
         OnError(w), StatementErrs(w), UNCHANGED artifact,
         w \in expired => UNCHANGED <<docs, chunks>>
  PROVE  AudioInv'
<1>1. TypeInv /\ Warned(w)
  BY DEF AudioInv
<1>2. artifact.status # "transcribed"
  <2> SUFFICES ASSUME artifact.status = "transcribed" PROVE FALSE
    OBVIOUS
  <2>1. w \notin expired
    BY <1>1 DEF Warned
  <2>2. Mishap("database")
    BY <2>1 DEF StatementErrs
  <2> QED  BY <2>2, MishapMeansSearchable
<1>3. OthersStay(w) /\ call'[w].pc \notin Delicate
  BY <1>1, OnErrorStays DEF Delicate, Midway
<1>4. InHand(w)' /\ Warned(w)'
  BY <1>3 DEF InHand, Warned, Delicate, Midway, Writing
<1> QED  BY <1>2, <1>3, <1>4, AloneStep

LEMMA WriteStepAudio ==
  ASSUME AudioInv, TypeInv', NEW w \in Calls, Alone(w), WriteSteps(w)
  PROVE  AudioInv'
<1>1. TypeInv /\ InHand(w) /\ Warned(w) /\ call[w].pc \in Writing
  BY DEF AudioInv, WriteSteps, SaveTranscriptDocument, DeleteChunks, InsertNextChunk,
     Writing
<1>2. UNCHANGED <<artifact, expired>>
  BY DEF WriteSteps, SaveTranscriptDocument, DeleteChunks, InsertNextChunk
<1>3. PICK c \in CallRow : c = call[w]
  BY <1>1 DEF TypeInv, TypeOK
<1>4. c.text \in Texts /\ c.index \in 1 .. MaxChunks /\ c.index <= ChunkCount[c.text]
  BY <1>1, <1>3 DEF TypeInv, HoldsTranscript, Writing, CallRow
<1>5. CASE OnError(w) /\ StatementErrs(w)
  <2>1. w \in expired => UNCHANGED <<docs, chunks>>
    <3>1. \A pc : Goto(w, pc) => pc \in {"failed", "refused", "failJob", "statusError"}
      BY <1>1, <1>5, OnErrorStays, GotoStays
    <3>2. CASE SaveTranscriptDocument(w)
      BY <3>1, <3>2 DEF SaveTranscriptDocument, Hard, HardFails
    <3>3. CASE DeleteChunks(w)
      BY <3>1, <3>3 DEF DeleteChunks, Hard, HardFails
    <3>4. CASE InsertNextChunk(w)
      BY <3>4 DEF InsertNextChunk, HardFails
    <3> QED  BY <3>2, <3>3, <3>4 DEF WriteSteps
  <2> QED  BY <1>1, <1>2, <1>5, <2>1, WriteFails
<1>6. ASSUME SaveTranscriptDocument(w), SaveDocument(Video, c.text, 0), UNCHANGED spent,
             Goto(w, "unchunk")
      PROVE  AudioInv'
  <2>1. call' = [call EXCEPT ![w] = [c EXCEPT !.pc = "unchunk"]]
    BY <1>3, <1>6 DEF Goto
  <2>2. OthersStay(w) /\ call'[w].pc = "unchunk" /\ call'[w].index = c.index
        /\ call'[w].text = c.text
    BY <1>1, <1>3, <2>1 DEF OthersStay, TypeInv, TypeOK, CallRow
  <2>3. docs'[Video].text = c.text
    BY <1>1, <1>6, VideoId DEF SaveDocument, TypeInv, TypeOK, StoreTypeOK
  <2>4. c.index = 1
    BY <1>1, <1>3, <1>6 DEF InHand, SaveTranscriptDocument
  <2>5. InHand(w)' /\ Warned(w)'
    BY <1>1, <1>2, <1>6, <2>2, <2>3, <2>4 DEF InHand, Warned, NoneLeft, Midway
  <2> QED  BY <2>2, <2>5, AloneStep DEF Midway
<1>7. ASSUME DeleteChunks(w), DeleteChunksByDocumentID(Video), UNCHANGED spent,
             Goto(w, "chunk")
      PROVE  AudioInv'
  <2>1. call' = [call EXCEPT ![w] = [c EXCEPT !.pc = "chunk"]]
    BY <1>3, <1>7 DEF Goto
  <2>2. OthersStay(w) /\ call'[w].pc = "chunk" /\ call'[w].index = c.index
        /\ call'[w].text = c.text
    BY <1>1, <1>3, <2>1 DEF OthersStay, TypeInv, TypeOK, CallRow
  <2>3. docs'[Video].text = c.text /\ c.index = 1
    BY <1>1, <1>3, <1>7 DEF InHand, DeleteChunks, Midway
  <2>4. chunks'[Video] = NoChunks
    BY <1>1, <1>7, VideoId DEF DeleteChunksByDocumentID, TypeInv, TypeOK, StoreTypeOK
  <2>5. InHand(w)'
    BY <2>2, <2>3, <2>4 DEF InHand, ChunkedSoFar, NoChunks, Midway
  <2>6. Warned(w)'
    BY <1>1, <1>2, <1>7, <2>2 DEF Warned, NoneLeft
  <2> QED  BY <2>2, <2>5, <2>6, AloneStep DEF Midway
<1>8. ASSUME InsertNextChunk(w), w \notin expired, UNCHANGED spent,
             InsertChunk(Video, c.index, c.text),
             IF LastChunk(c) THEN Goto(w, "saveTranscribed")
             ELSE call' = [call EXCEPT ![w].index = @ + 1]
      PROVE  AudioInv'
  <2>1. /\ c.pc = "chunk" /\ docs'[Video].text = c.text
        /\ ChunkedSoFar(c) /\ UNCHANGED docs
    BY <1>1, <1>3, <1>8 DEF InHand, InsertNextChunk, Midway
  <2>2. \A i \in 1 .. MaxChunks :
          chunks'[Video][i] = IF i < c.index + 1 THEN c.text ELSE NoText
    <3>1. \A i \in 1 .. MaxChunks :
            chunks'[Video][i] = IF i = c.index THEN c.text ELSE chunks[Video][i]
      BY <1>1, <1>4, <1>8, VideoId DEF InsertChunk, TypeInv, TypeOK, StoreTypeOK
    <3> QED  BY <1>4, <2>1, <3>1, StoreAssumption DEF ChunkedSoFar
  <2>3. CASE LastChunk(c)
    <3>1. OthersStay(w) /\ call'[w].pc = "saveTranscribed"
      BY <1>1, <1>8, <2>3, GotoStays
    <3>2. Searchable'
      BY <1>4, <2>1, <2>2, <2>3, StoreAssumption DEF Searchable, FullyChunked, LastChunk
    <3>3. InHand(w)' /\ Warned(w)'
      BY <3>1, <3>2 DEF InHand, Warned, Midway, Writing
    <3> QED  BY <3>1, <3>2, <3>3, AloneStep
  <2>4. CASE ~LastChunk(c)
    <3>1. call' = [call EXCEPT ![w] = [c EXCEPT !.index = c.index + 1]]
      BY <1>3, <1>8, <2>4
    <3>2. OthersStay(w) /\ call'[w].pc = "chunk" /\ call'[w].index = c.index + 1
          /\ call'[w].text = c.text
      BY <1>1, <1>3, <2>1, <3>1 DEF OthersStay, TypeInv, TypeOK, CallRow
    <3>3. InHand(w)'
      BY <2>1, <2>2, <3>2 DEF InHand, ChunkedSoFar, Midway
    <3>4. Warned(w)'
      BY <1>1, <1>2, <1>8, <3>2 DEF Warned, NoneLeft
    <3> QED  BY <3>2, <3>3, <3>4, AloneStep DEF Midway
  <2> QED  BY <2>3, <2>4
<1>9. CASE SaveTranscriptDocument(w)
  BY <1>3, <1>5, <1>6, <1>9 DEF SaveTranscriptDocument, Hard, HardFails
<1>10. CASE DeleteChunks(w)
  BY <1>5, <1>7, <1>10 DEF DeleteChunks, Hard, HardFails
<1>11. CASE InsertNextChunk(w)
  BY <1>3, <1>5, <1>8, <1>11 DEF InsertNextChunk, HardFails
<1> QED  BY <1>9, <1>10, <1>11 DEF WriteSteps

LEMMA ExpireAudio ==
  ASSUME AudioInv, TypeInv', NEW w \in Calls, Expire(w)
  PROVE  AudioInv'
<1>1. UNCHANGED <<docs, chunks, artifact, call>> /\ expired \subseteq expired'
  BY DEF Expire, storeVars
<1>2. Mishap("deadline")
  BY DEF Expire
<1>3. \A v \in Calls : InHand(v)'
  BY <1>1 DEF AudioInv, InHand, ChunkedSoFar, Searchable, FullyChunked
<1>4. (\A v, x \in Active : v = x)'
  BY <1>1 DEF AudioInv, Active
<1>5. CASE artifact.status # "transcribed"
  BY <1>1, <1>3, <1>4, <1>5 DEF AudioInv, Warned
<1>6. CASE artifact.status = "transcribed"
  <2>1. Searchable /\ \A v \in Calls : call[v].pc \notin Writing
    BY <1>2, <1>6, MishapMeansSearchable
  <2>2. ~NoneLeft /\ w \in Active
    BY <1>2, PipelineAssumption DEF AudioInv, TypeInv, TypeOK, Mishap, NoneLeft, Expire
  <2>3. \A v \in Calls : Warned(v)'
    BY <1>1, <1>6, <2>1, <2>2 DEF AudioInv, Warned
  <2>4. Searchable'
    BY <1>1, <2>1 DEF Searchable, FullyChunked
  <2> QED  BY <1>3, <1>4, <2>3, <2>4 DEF AudioInv
<1> QED  BY <1>5, <1>6

LEMMA CrashAudio ==
  ASSUME AudioInv, TypeInv', NEW process, Crash(process)
  PROVE  AudioInv'
<1>1. UNCHANGED <<docs, chunks, artifact, expired>> /\ Mishap("crash")
  BY DEF Crash, storeVars
<1>2. \A v \in Calls : call'[v] = call[v] \/ call'[v].pc = "dead"
  BY DEF AudioInv, TypeInv, TypeOK, CallRow, Crash
<1>3. (\A v, x \in Active : v = x)'
  <2>1. Active' \subseteq Active
    BY <1>2 DEF Active, Ended
  <2> QED  BY <2>1 DEF AudioInv
<1>4. \A v \in Calls : InHand(v)'
  BY <1>1, <1>2 DEF AudioInv, InHand, ChunkedSoFar, Searchable, FullyChunked, Midway
<1>5. CASE artifact.status # "transcribed"
  BY <1>1, <1>3, <1>4, <1>5 DEF AudioInv, Warned
<1>6. CASE artifact.status = "transcribed"
  <2>1. Searchable /\ \A v \in Calls : call[v].pc \notin Writing
    BY <1>1, <1>6, MishapMeansSearchable
  <2>2. ~NoneLeft
    BY <1>1, PipelineAssumption DEF AudioInv, TypeInv, TypeOK, Mishap, NoneLeft
  <2>3. \A v \in Calls : Warned(v)'
    BY <1>1, <1>2, <1>6, <2>1, <2>2 DEF AudioInv, Warned, Writing
  <2>4. Searchable'
    BY <1>1, <2>1 DEF Searchable, FullyChunked
  <2> QED  BY <1>3, <1>4, <2>3, <2>4 DEF AudioInv
<1> QED  BY <1>5, <1>6

LEMMA AudioNext ==
  ASSUME OneRequest, OneMishap, AudioInv, [Next]_vars
  PROVE  AudioInv'
<1>1. TypeInv /\ TypeInv'
  BY StepTyped DEF AudioInv
<1>2. ASSUME NEW w \in Calls, NEW kind \in Kinds, Request(w, kind) PROVE Alone(w)
  <2>1. Active = {}
    <3> SUFFICES ASSUME NEW v \in Active PROVE FALSE
      OBVIOUS
    <3>1. Active = {v}
      BY DEF AudioInv
    <3>2. Cardinality(Active) = 1
      BY <3>1, FS_Singleton
    <3> QED  BY <1>2, <3>2 DEF Request, OneRequest
  <2> QED  BY <2>1 DEF Active, Alone
<1>3. ASSUME NEW w \in Calls, CallStep(w) PROVE Alone(w)
  <2>1. call[w].pc \notin Ended
    BY <1>3 DEF CallStep, CheckAudio, ReadArtifact, ReadFails, SetRunning,
       CreateFetchJob, FetchJobRunning, Download, DownloadWithoutPath,
       SaveDownloaded, FetchJobDone, CreateTranscribeJob, TranscribeJobRunning,
       SaveTranscribing, Transcribe, SaveTranscriptDocument, DeleteChunks,
       InsertNextChunk, SaveTranscribed, TranscribeJobDone, SetActive, FailJob,
       SetError, SaveNote, Ended
  <2> QED  BY <2>1 DEF AudioInv, Active, Alone
<1>4. ASSUME NEW w \in Calls, CallStep(w) \/ \E kind \in Kinds : Request(w, kind)
      PROVE  AudioInv'
  BY <1>1, <1>2, <1>3, <1>4, ElsewhereAudio, ArtifactStepAudio, TranscribeAudio,
     WriteStepAudio
     DEF CallStep, Elsewhere, StatusSteps, JobSteps, ArtifactSteps, WriteSteps
<1>5. CASE UNCHANGED vars
  BY <1>1, <1>5 DEF AudioInv, vars, storeVars, InHand, Warned, ChunkedSoFar, NoneLeft,
     Searchable, FullyChunked, Active
<1> QED  BY <1>1, <1>4, <1>5, ExpireAudio, CrashAudio DEF Next

LEMMA AudioInit == Init => AudioInv
<1> SUFFICES ASSUME Init PROVE AudioInv
  OBVIOUS
<1>1. \A w \in Calls : call[w].pc = "idle"
  BY DEF Init
<1>2. Active = {}
  BY <1>1 DEF Active, Ended
<1>3. \A w \in Calls : InHand(w) /\ Warned(w)
  BY <1>1 DEF InHand, Warned, Midway, Writing
<1> QED  BY <1>2, <1>3, InitTyped DEF AudioInv, Init

\* Requests one at a time and one mishap in all, whatever the sidecar does: when
\* nobody is at work, an artifact called "transcribed" has its document with
\* exactly its chunks.  The status may keep saying so while the text is replaced
\* only if the statement that takes it back was lost, and then nothing else is.
THEOREM TranscribedHasItsChunks ==
  ASSUME OneRequest, OneMishap
  PROVE  Spec => []TranscribedIsSearchable
<1>1. AudioInv /\ [Next]_vars => AudioInv'
  BY AudioNext
<1>2. AudioInv => TranscribedIsSearchable
  <2> SUFFICES ASSUME AudioInv, Active = {}, artifact.status = "transcribed"
               PROVE  Searchable
    BY DEF TranscribedIsSearchable, Searchable
  <2>1. \A w \in Calls : call[w].pc \notin Midway
    BY EndedIsCalm DEF Active, Delicate
  <2> QED  BY <2>1 DEF AudioInv
<1> QED  BY <1>1, <1>2, AudioInit, PTL DEF Spec

=============================================================================
