------------------------------ MODULE Exports ------------------------------
(***************************************************************************)
(* Exports: backend/internal/export/service.go, filesystem_rag.go and the  *)
(* exports table of backend/internal/storage/repository.go.                *)
(*                                                                         *)
(* A call creates a row in "running", writes a file and settles the row.   *)
(* A folder export scans a folder and has Mistral read its files; a text   *)
(* export lists a source's documents, and on request the messages without  *)
(* one, while the source may be synchronised.  A file's name has the       *)
(* second of its creation: two exports may share it.                       *)
(***************************************************************************)
EXTENDS FolderScan, MistralOCR

CONSTANTS
  Batches,        \* what an instance looks at: calls that come together, and
                  \* messages that change meanwhile
  MaxMessage,     \* messages of the source, numbered as they were stored
  StoredBefore,   \* the ones that have a document and chunks at the start
  TextRequests,
  FolderStem,     \* base name of the folder
  MaxSeconds,     \* bound: seconds
  MaxCrashes      \* bound: crashes of the process

Messages == 1 .. MaxMessage

ASSUME ExportAssumption ==
  /\ Files = Nodes
  /\ FolderCalls \cap TextCalls = {} /\ IsFiniteSet(Calls)
  /\ Batches \subseteq [calls: SUBSET Calls, messages: SUBSET Messages]
  /\ StoredBefore \subseteq Messages
  /\ TextRequests # {}
  /\ \A r \in TextRequests : /\ DOMAIN r = {"stem", "mode", "duplicates", "trash"}
                             /\ r.mode \in {"documents", "chunks", "txt_rag"}
  /\ {MaxMessage, MaxSeconds, MaxCrashes} \subseteq Nat

VARIABLES
  coming,     \* the batch of this instance
  exports,    \* the exports table, one row for each call
  disk,       \* what is in the export directory
  call,       \* where each call is
  second,     \* the clock
  stored,     \* stored[m]: what the database has of message m
  killed,     \* extractions and exports that died with the process
  crashes

exportVars == <<exports, disk, call>>
worldVars == <<coming, second, stored, killed, crashes>>
vars == <<exportVars, worldVars, scan, ocrVars, cancelled>>

Stems == {r.stem : r \in TextRequests} \cup {FolderStem}

\* naming.ExportFilename, and the name of a folder's export; mode and format
\* are one here, since txt_rag has documents only.
Names == [stem: Stems, mode: {"documents", "chunks", "txt_rag", "filesystem_rag"},
          second: 0 .. MaxSeconds]

NoName == [stem |-> FolderStem, mode |-> "none", second |-> 0]

\* What a file of the export directory holds in one place.
Row == [by: Calls, item: Nodes \cup Messages,
        as: {"text", "skipped", "document", "trash"}]
Hole == [by |-> "nobody", item |-> 0, as |-> "hole"]

AnyRequest == CHOOSE r \in TextRequests : TRUE

NoCall == [pc |-> "off", name |-> NoName, request |-> AnyRequest,
           include |-> FALSE, left |-> <<>>, buffer |-> <<>>, written |-> 0,
           rows |-> 0, exported |-> 0, skipped |-> 0, lost |-> FALSE]

TypeOK ==
  /\ cancelled \subseteq Calls
  /\ ScanTypeOK
  /\ OCRTypeOK
  /\ coming \in Batches
  /\ exports \in [Calls -> [status: {"none", "running", "succeeded", "failed"},
                            name: Names \cup {NoName}, rows: Nat]]
  /\ disk \in [Names -> Seq(Row \cup {Hole})]
  /\ call \in [Calls ->
       [pc: {"off", "scan", "create", "open", "documents", "trash", "extract",
             "write", "complete", "failing", "over", "killed"},
        name: Names \cup {NoName}, request: TextRequests, include: BOOLEAN,
        left: Seq(Row), buffer: Seq(Row), written: Nat, rows: Nat,
        exported: Nat, skipped: Nat, lost: BOOLEAN]]
  /\ second \in 0 .. MaxSeconds
  /\ stored \in [Messages -> [as: {"absent", "raw", "document", "duplicate"},
                           chunks: BOOLEAN]]
  /\ killed \in Nat
  /\ crashes \in 0 .. MaxCrashes

Init ==
  /\ cancelled = {}
  /\ scan = [c \in FolderCalls |-> NoScan]
  /\ OCRInit
  /\ coming \in Batches
  /\ exports = [c \in Calls |-> [status |-> "none", name |-> NoName, rows |-> 0]]
  /\ disk = [n \in Names |-> <<>>]
  /\ call = [c \in Calls |-> NoCall]
  /\ second = 0
  /\ stored = [m \in Messages |->
                 [as |-> IF m \in StoredBefore THEN "document" ELSE "absent",
                  chunks |-> m \in StoredBefore]]
  /\ killed = 0
  /\ crashes = 0

-----------------------------------------------------------------------------
(***************************************************************************)
(* The row of an export.  A statement fails when the context is done; when *)
(* its answer is lost it may have been executed.                           *)
(***************************************************************************)
Goes(c, pc) == call' = [call EXCEPT ![c].pc = pc]

Ends(c) == call' = [call EXCEPT ![c].pc = "over", ![c].lost = TRUE]

CreateExport(c) ==
  /\ call[c].pc = "create"
  /\ LET row == [exports EXCEPT ![c].status = "running"]
     IN \/ c \notin cancelled /\ exports' = row /\ Goes(c, "open")
        \/ exports' \in {exports, row} /\ Ends(c)
  /\ UNCHANGED disk

\* After the file: its error is returned, and the row is not failed.
CompleteExport(c) ==
  /\ call[c].pc = "complete"
  /\ LET row == [exports EXCEPT ![c] = [status |-> "succeeded",
                                        name |-> call[c].name,
                                        rows |-> call[c].rows]]
     IN \/ c \notin cancelled /\ exports' = row /\ Goes(c, "over")
        \/ exports' \in {exports, row} /\ Ends(c)
  /\ UNCHANGED disk

\* The error of FailExport is dropped.
FailExport(c) ==
  /\ call[c].pc = "failing"
  /\ LET row == [exports EXCEPT ![c].status = "failed"]
     IN \/ c \notin cancelled /\ exports' = row /\ Goes(c, "over")
        \/ exports' \in {exports, row} /\ Ends(c)
  /\ UNCHANGED disk

-----------------------------------------------------------------------------
(***************************************************************************)
(* The file.                                                               *)
(***************************************************************************)
Overwrite(content, at, rows) ==
  [k \in 1 .. IF at + Len(rows) > Len(content) THEN at + Len(rows)
              ELSE Len(content) |->
     IF k > at /\ k <= at + Len(rows) THEN rows[k - at]
     ELSE IF k <= Len(content) THEN content[k] ELSE Hole]

\* os.Create empties a file that is there; each of its writers goes on at its
\* own place.
Open(c) ==
  /\ call[c].pc = "open"
  /\ LET folder == c \in FolderCalls
         name == [stem |-> IF folder THEN FolderStem ELSE call[c].request.stem,
                  mode |-> IF folder THEN "filesystem_rag"
                           ELSE call[c].request.mode,
                  second |-> second]
     IN /\ disk' = [disk EXCEPT ![name] = <<>>]
        /\ call' = [call EXCEPT ![c].name = name,
                                ![c].pc = IF folder THEN "extract"
                                          ELSE "documents"]
  /\ UNCHANGED exports

\* An unknown source, a directory or a file that cannot be made.
OpenReturns(c) ==
  /\ call[c].pc = "open"
  /\ Goes(c, "over")
  /\ UNCHANGED <<exports, disk>>

OpenFails(c) ==
  /\ call[c].pc = "open"
  /\ Goes(c, "failing")
  /\ UNCHANGED <<exports, disk>>

\* A row, or none, for the first item left.
WithRow(c, row, counted) ==
  [call[c] EXCEPT !.left = Tail(@),
                  !.buffer = IF counted THEN Append(@, row) ELSE @,
                  !.rows = IF counted THEN @ + 1 ELSE @]

\* bufio writes when it is full, and the rest at the end.
Spill(c) ==
  /\ call[c].pc \in {"write", "extract"}
  /\ call[c].buffer # <<>>
  /\ c \in FolderCalls => ocr[c].pc = "off"
  /\ \/ /\ disk' = [disk EXCEPT ![call[c].name] =
                      Overwrite(@, call[c].written, call[c].buffer)]
        /\ call' = [call EXCEPT ![c].written = @ + Len(call[c].buffer),
                                ![c].buffer = <<>>]
     \/ Goes(c, "failing") /\ UNCHANGED disk
  /\ UNCHANGED exports

Flush(c) ==
  /\ call[c].pc = "write"
  /\ call[c].left = <<>>
  /\ call[c].buffer = <<>>
  /\ Goes(c, "complete")
  /\ UNCHANGED <<exports, disk>>

-----------------------------------------------------------------------------
(***************************************************************************)
(* Text exports.                                                           *)
(***************************************************************************)
RequestText(c, r) ==
  /\ c \in coming.calls
  /\ call[c].pc = "off"
  /\ call' = [call EXCEPT ![c].pc = "create", ![c].request = r]
  /\ UNCHANGED <<exports, disk>>

Listed(c, found, as) ==
  LET items == Selected([m \in Messages |-> m], found)
  IN [k \in 1 .. Len(items) |-> [by |-> c, item |-> items[k], as |-> as]]

\* ListExportDocuments, ListExportChunks (a document with chunks has one here):
\* between its old chunks and its new ones a document has none.
Documents(r) ==
  {m \in Messages :
     /\ stored[m].as \in {"document"} \cup (IF r.duplicates THEN {"duplicate"} ELSE {})
     /\ r.mode = "chunks" => stored[m].chunks}

\* ListExportTrashRawMessages: messages with a text and without a document.
TrashOfAll == {m \in Messages : stored[m].as # "absent"}

Trash == {m \in Messages : stored[m].as = "raw"}

ListDocuments(c) ==
  /\ call[c].pc = "documents"
  /\ \/ /\ c \notin cancelled
        /\ call' = [call EXCEPT
             ![c].left = Listed(c, Documents(call[c].request), "document"),
             ![c].pc = IF call[c].request.trash THEN "trash" ELSE "write"]
     \/ Goes(c, "failing")
  /\ UNCHANGED <<exports, disk>>

\* A statement of its own: the source may have changed in between.
ListTrash(c) ==
  /\ call[c].pc = "trash"
  /\ \/ /\ c \notin cancelled
        /\ call' = [call EXCEPT ![c].left = @ \o Listed(c, Trash, "trash"),
                                ![c].pc = "write"]
     \/ Goes(c, "failing")
  /\ UNCHANGED <<exports, disk>>

WriteRow(c) ==
  /\ call[c].pc = "write"
  /\ call[c].left # <<>>
  /\ call' = [call EXCEPT ![c] = WithRow(c, Head(call[c].left), TRUE)]
  /\ UNCHANGED <<exports, disk>>

\* What processing does to a message of the source meanwhile: it is stored,
\* becomes a document or a duplicate, and its chunks are replaced.  (It goes on
\* for ever; the model follows it while a list is still to be made.)
Synchronise(m) ==
  /\ \E c \in coming.calls \cap TextCalls : call[c].pc \in {"off", "documents", "trash"}
  /\ \/ stored[m].as = "absent" /\ stored' = [stored EXCEPT ![m].as = "raw"]
     \/ /\ stored[m].as # "absent"
        /\ \E as \in {"document", "duplicate"} :
             stored' = [stored EXCEPT ![m].as = as]
     \/ stored[m].chunks /\ stored' = [stored EXCEPT ![m].chunks = FALSE]
     \/ stored[m].as = "document" /\ stored' = [stored EXCEPT ![m].chunks = TRUE]
  /\ UNCHANGED <<exportVars, scan, ocrVars, cancelled, coming, second, killed, crashes>>

-----------------------------------------------------------------------------
(***************************************************************************)
(* Folder exports.  The scan comes before the row.                         *)
(***************************************************************************)
RequestFolder(c) ==
  /\ c \in coming.calls
  /\ call[c].pc = "off"
  /\ \E include \in BOOLEAN :
       call' = [call EXCEPT ![c].pc = "scan", ![c].include = include]
  /\ Start(c)
  /\ UNCHANGED <<exports, disk, ocrVars>>

Scans(c) ==
  /\ call[c].pc = "scan"
  /\ ScanStep(c)
  /\ Goes(c, CASE scan'[c].pc = "walk" -> "scan"
               [] scan'[c].pc = "listed" -> "create"
               [] OTHER -> "over")
  /\ UNCHANGED <<exports, disk, ocrVars>>

\* The files left are those the scan listed and no row has been decided for.
FilesLeft(c) ==
  LET done == call[c].exported + call[c].skipped
  IN SubSeq(scan[c].files, done + 1, Len(scan[c].files))

NextFile(c) ==
  /\ call[c].pc = "extract"
  /\ ocr[c].pc = "off"
  /\ FilesLeft(c) # <<>>
  /\ Extract(c, Head(FilesLeft(c)))
  /\ UNCHANGED <<exportVars, remote, temp, configured, remoteFaults, scan>>

Extracts(c) ==
  /\ call[c].pc = "extract"
  /\ OCRStep(c)
  /\ UNCHANGED <<exportVars, scan>>

\* A file without text is skipped, whatever the error: a context that is done
\* included.  The row says so if the caller wants to know.
TakeText(c) ==
  /\ call[c].pc = "extract"
  /\ ocr[c].pc = "done"
  /\ LET text == ocr[c].outcome = "text"
         row == [by |-> c, item |-> ocr[c].file,
                 as |-> IF text THEN "text" ELSE "skipped"]
         counted == text \/ call[c].include
     IN call' = [call EXCEPT
          ![c].exported = IF text THEN @ + 1 ELSE @,
          ![c].skipped = IF text THEN @ ELSE @ + 1,
          ![c].buffer = IF counted THEN Append(@, row) ELSE @,
          ![c].rows = IF counted THEN @ + 1 ELSE @]
  /\ ocr' = [ocr EXCEPT ![c] = NoOCR]
  /\ UNCHANGED <<exports, disk, remote, temp, configured, remoteFaults, scan>>

NoFileLeft(c) ==
  /\ call[c].pc = "extract"
  /\ ocr[c].pc = "off"
  /\ FilesLeft(c) = <<>>
  /\ Goes(c, "write")
  /\ UNCHANGED <<exports, disk, ocrVars, scan>>

-----------------------------------------------------------------------------
RowStep(c) ==
  /\ \/ CreateExport(c) \/ CompleteExport(c) \/ FailExport(c)
     \/ Open(c) \/ OpenFails(c) \/ Spill(c) \/ Flush(c)
  /\ UNCHANGED <<scan, ocrVars>>

TextStep(c) ==
  /\ \/ \E r \in TextRequests : RequestText(c, r)
     \/ ListDocuments(c) \/ ListTrash(c) \/ WriteRow(c)
  /\ UNCHANGED <<scan, ocrVars>>

FolderStep(c) == \/ RequestFolder(c) \/ Scans(c) \/ NextFile(c) \/ Extracts(c)
                 \/ TakeText(c) \/ NoFileLeft(c)

\* Once a call has begun.
Works(c) ==
  /\ \/ RowStep(c)
     \/ c \in TextCalls /\ TextStep(c)
     \/ c \in FolderCalls /\ FolderStep(c)
  /\ UNCHANGED <<cancelled, worldVars>>

Live(c) == call[c].pc \notin {"off", "over", "killed"}

CancelCall(c) ==
  /\ Live(c)
  /\ Cancel(c)
  /\ UNCHANGED <<exportVars, worldVars, scan, ocrVars>>

Tick ==
  /\ second < MaxSeconds
  /\ \E c \in coming.calls : call[c].pc = "open"   \* names are made here only
  /\ second' = second + 1
  /\ UNCHANGED <<exportVars, scan, ocrVars, cancelled, coming, stored, killed, crashes>>

\* The process dies: nothing looks at running rows when it starts again.
Crash ==
  /\ crashes < MaxCrashes
  /\ crashes' = crashes + 1
  /\ killed' = killed + Cardinality({c \in Calls : Live(c)})
  /\ call' = [c \in Calls |-> IF Live(c) THEN [call[c] EXCEPT !.pc = "killed"]
                              ELSE call[c]]
  /\ ocr' = [c \in FolderCalls |-> NoOCR]
  /\ configured' \in BOOLEAN
  /\ UNCHANGED <<exports, disk, coming, second, stored, scan, remote, temp,
                 remoteFaults, cancelled>>

Next ==
  \/ \E c \in Calls : Works(c) \/ CancelCall(c)
  \/ \E m \in coming.messages : Synchronise(m)
  \/ Tick
  \/ Crash

Spec == Init /\ [][Next]_vars

\* A request that came is worked on: the database and Mistral answer or fail
\* within the time-outs of their clients.
FairSpec == Spec /\ \A c \in Calls : WF_vars(Works(c))

-----------------------------------------------------------------------------
(***************************************************************************)
(* Properties.                                                             *)
(***************************************************************************)
Alone(c) == \A d \in Calls \ {c} : call[d].name # call[c].name

\* A download serves what its row counts: the file of an export that succeeded
\* holds its own rows and no others, every item at most once, as long as no
\* export of the same name was made in the same second (ExportJSONL lists
\* documents and trash apart; both exports write through a buffer).
FileHoldsItsRows ==
  \A c \in Calls : exports[c].status = "succeeded" /\ Alone(c) =>
    LET file == disk[exports[c].name]
    IN /\ Len(file) = exports[c].rows
       /\ \A k \in 1 .. Len(file) : file[k].by = c
       /\ IsInjective([k \in 1 .. Len(file) |-> file[k].item])
       /\ c \in FolderCalls =>
            /\ call[c].exported + call[c].skipped = Len(scan[c].files)
            /\ Len(file) = call[c].exported
                             + IF call[c].include THEN call[c].skipped ELSE 0

\* A row says "running" after its call is over only when the context was done,
\* a statement lost or the process died: no error of listing, naming, reading
\* or writing leaves it so.
RunningMeansInterrupted ==
  \A c \in Calls : exports[c].status = "running" /\ ~Live(c) =>
    c \in cancelled \/ call[c].lost \/ call[c].pc = "killed"

\* See NothingLeftBehind: here with the extractions that died.
MistralIsLeftClean == NothingLeftBehind(killed)

\* Every export that began ends: scans, retries and rows are bounded, even
\* when the answers are errors.
ExportsEnd == \A c \in Calls : Live(c) ~> ~Live(c)
=============================================================================
