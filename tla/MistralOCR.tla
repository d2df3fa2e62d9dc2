---------------------------- MODULE MistralOCR ----------------------------
(***************************************************************************)
(* Text of a file through Mistral: extractText of                          *)
(* backend/internal/export/mistral_ocr.go.                                 *)
(*                                                                         *)
(* A file is uploaded, read and deleted again at Mistral; the upload and   *)
(* the reading are tried a few times, the deletion once.                   *)
(***************************************************************************)
EXTENDS Requests, Integers, FiniteSets

CONSTANTS
  Files,
  RetryAttempts,
  MaxRemoteFaults   \* bound: answers lost and deletions failed

ASSUME OCRAssumption == /\ RetryAttempts \in Nat \ {0}
                        /\ MaxRemoteFaults \in Nat

VARIABLES
  ocr,           \* where extractText is
  remote,        \* files at Mistral
  temp,          \* temporary copies converted for Mistral
  configured,    \* the client the process made at its first use has a key
  remoteFaults   \* how much of the bound is used

ocrVars == <<ocr, remote, temp, configured, remoteFaults>>

NoOCR == [pc |-> "off", file |-> 0, id |-> 0, attempt |-> 0, outcome |-> "none"]

\* Uploads of one file differ by the attempt.
Remote == [by: FolderCalls, file: Files, id: 1 .. RetryAttempts]

OCRTypeOK ==
  /\ ocr \in [FolderCalls ->
       [pc: {"off", "prepare", "upload", "read", "delete", "done"},
        file: Files \cup {0}, id: 0 .. RetryAttempts, attempt: 0 .. RetryAttempts,
        outcome: {"none", "text", "error"}]]
  /\ remote \subseteq Remote
  /\ temp \subseteq FolderCalls \X Files
  /\ configured \in BOOLEAN
  /\ remoteFaults \in 0 .. MaxRemoteFaults

OCRInit ==
  /\ ocr = [c \in FolderCalls |-> NoOCR]
  /\ remote = {}
  /\ temp = {}
  /\ configured \in BOOLEAN
  /\ remoteFaults = 0

Extract(c, file) ==
  ocr' = [ocr EXCEPT ![c] = [NoOCR EXCEPT !.pc = "prepare", !.file = file]]

Current(c) == [by |-> c, file |-> ocr[c].file, id |-> ocr[c].id]
Attempted(c) == [Current(c) EXCEPT !.id = ocr[c].attempt]

\* extractText returns: the temporary copy goes with it.
Return(c, outcome) ==
  /\ ocr' = [ocr EXCEPT ![c].pc = "done", ![c].outcome = outcome]
  /\ temp' = temp \ {<<c, ocr[c].file>>}

Go(c, pc) == ocr' = [ocr EXCEPT ![c].pc = pc, ![c].attempt = 1]

\* Text in a format Mistral does not take is wrapped into a temporary document.
Prepare(c) ==
  /\ ocr[c].pc = "prepare"
  /\ \/ Return(c, "error")
     \/ configured /\ Go(c, "upload") /\ UNCHANGED temp
     \/ configured /\ Go(c, "upload") /\ temp' = temp \cup {<<c, ocr[c].file>>}
  /\ UNCHANGED <<remote, configured, remoteFaults>>

RetryUncounted(c) ==
  /\ c \notin cancelled
  /\ ocr' = [ocr EXCEPT ![c].attempt = (@ % RetryAttempts) + 1]
  /\ UNCHANGED temp

RetryUnbounded(c) ==
  /\ c \notin cancelled
  /\ ocr' = [ocr EXCEPT ![c].attempt = @ + 1]
  /\ UNCHANGED temp

\* Too many requests, a server error, a time-out, a broken connection: tried
\* again, unless the context is done or the attempts are used up.
Retry(c) ==
  /\ c \notin cancelled
  /\ ocr[c].attempt < RetryAttempts
  /\ ocr' = [ocr EXCEPT ![c].attempt = @ + 1]
  /\ UNCHANGED temp

Upload(c) ==
  /\ ocr[c].pc = "upload"
  /\ c \notin cancelled
  /\ ocr' = [ocr EXCEPT ![c].pc = "read", ![c].id = ocr[c].attempt, ![c].attempt = 1]
  /\ remote' = remote \cup {Attempted(c)}
  /\ UNCHANGED <<temp, configured, remoteFaults>>

\* Rejected for good, a file too large, an answer nobody can decode.
UploadRejected(c) ==
  /\ ocr[c].pc = "upload"
  /\ Return(c, "error") \/ Retry(c)
  /\ UNCHANGED <<remote, configured, remoteFaults>>

\* Mistral has the file, the client does not know its name.
UploadAnswerLost(c) ==
  /\ ocr[c].pc = "upload"
  /\ remoteFaults < MaxRemoteFaults
  /\ remoteFaults' = remoteFaults + 1
  /\ remote' = remote \cup {Attempted(c)}
  /\ Return(c, "error") \/ Retry(c)
  /\ UNCHANGED configured

\* The file is to be deleted whatever comes of it.
Read(c, outcome) == ocr' = [ocr EXCEPT ![c].pc = "delete", ![c].outcome = outcome]

ReadAnyway(c) ==
  /\ ocr[c].pc = "read"
  /\ \/ Read(c, "text") /\ UNCHANGED temp
     \/ Return(c, "error")
  /\ UNCHANGED <<remote, configured, remoteFaults>>

\* No text on any page is an error too.
ReadText(c) ==
  /\ ocr[c].pc = "read"
  /\ \/ c \notin cancelled /\ Read(c, "text") /\ UNCHANGED temp
     \/ Read(c, "error") /\ UNCHANGED temp
     \/ Retry(c)
  /\ UNCHANGED <<remote, configured, remoteFaults>>

\* deleteFile runs with a context of its own, and nobody looks at its result.
Delete(c) ==
  /\ ocr[c].pc = "delete"
  /\ Return(c, ocr[c].outcome)
  /\ \/ remote' = remote \ {Current(c)} /\ UNCHANGED remoteFaults
     \/ /\ remoteFaults < MaxRemoteFaults
        /\ remoteFaults' = remoteFaults + 1
        /\ UNCHANGED remote
  /\ UNCHANGED configured

OCRStep(c) == \/ Prepare(c) \/ Upload(c) \/ UploadRejected(c) \/ UploadAnswerLost(c)
              \/ ReadText(c) \/ Delete(c)

-----------------------------------------------------------------------------
InHand(c) == IF ocr[c].pc \in {"read", "delete"} THEN {Current(c)} ELSE {}

\* Extraction cleans up after itself on every path, errors, cancelled requests
\* and used-up attempts included: beyond the files in hand, Mistral keeps at
\* most one for each lost answer, failed deletion or process that died, and a
\* temporary copy lives no longer than the extraction that made it.
NothingLeftBehind(killed) ==
  /\ Cardinality(remote \ UNION {InHand(c) : c \in FolderCalls})
       <= remoteFaults + killed
  /\ \A t \in temp : killed = 0 =>
        /\ ocr[t[1]].pc \in {"upload", "read", "delete"}
        /\ ocr[t[1]].file = t[2]
=============================================================================
