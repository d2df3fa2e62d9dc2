--------------------------- MODULE Exports_proofs ---------------------------
(***************************************************************************)
(* Proofs about Exports, for any number of calls, files, messages, faults  *)
(* and crashes: what the rows say of interrupted exports, and what is left *)
(* behind at Mistral.                                                      *)
(***************************************************************************)
EXTENDS Exports, Selections_proofs, FiniteSetTheorems

-----------------------------------------------------------------------------
(***************************************************************************)
(* The scan lists every file once.                                         *)
(***************************************************************************)
Once(list) == \A j, k \in DOMAIN list : list[j] = list[k] => j = k

\* What lies ahead of a walk, without the depths.
Ahead(todo) == [k \in 1 .. Len(todo) |-> todo[k].node]
Course(c) == scan[c].files \o Ahead(scan[c].todo)

Lies(n, d) == \E k \in DOMAIN Members[d] : Members[d][k] = n

\* The files listed or ahead of a walk lie in the folder or in archives that
\* were opened, and those are not among them any more.
Opens(c, opened) ==
  /\ \A n \in opened : n \in Nodes /\ Kind[n] = "archive"
  /\ opened \cap ToSet(Course(c)) = {}
  /\ \A n \in opened \cup ToSet(Course(c)) :
       \E d \in opened \cup {Root} : Lies(n, d)

ListedOnce ==
  \A c \in FolderCalls :
    /\ Once(scan[c].files)
    /\ scan[c].pc = "walk" =>
         Once(Course(c)) /\ \E opened \in SUBSET Nodes : Opens(c, opened)

-----------------------------------------------------------------------------
(***************************************************************************)
(* What extractText knows of its file and its attempts.                    *)
(***************************************************************************)
Attempts ==
  \A c \in FolderCalls :
    /\ ocr[c].pc # "off" => ocr[c].file \in Files
    /\ ocr[c].pc \in {"upload", "read"} => ocr[c].attempt # 0

OCRInv == OCRTypeOK /\ Attempts /\ IsFiniteSet(remote) /\ MistralIsLeftClean

-----------------------------------------------------------------------------
(***************************************************************************)
(* A call, its row and its file.                                           *)
(***************************************************************************)
KindOf(c) ==
  /\ call[c].pc \in {"scan", "extract"} => c \in FolderCalls
  /\ call[c].pc \in {"documents", "trash"} => c \in TextCalls

\* A row is created after the scan.
NotYet(c) == call[c].pc \in {"off", "scan", "create"} => exports[c].status = "none"

Interrupted(c) ==
  exports[c].status = "running" /\ ~Live(c) =>
    c \in cancelled \/ call[c].lost \/ call[c].pc = "killed"

\* Nothing is written before the file is there.
Fresh(c) ==
  call[c].pc \in {"off", "scan", "create", "open"} =>
    /\ call[c].name = NoName
    /\ call[c].left = <<>> /\ call[c].buffer = <<>>
    /\ call[c].written = 0 /\ call[c].rows = 0
    /\ call[c].exported = 0 /\ call[c].skipped = 0

\* How many of the scanned files a row has been decided for.
Done(c) == call[c].exported + call[c].skipped

\* Only a call that writes its rows extracts a text: the one of the next file.
Extracting(c) ==
  c \in FolderCalls =>
    /\ Done(c) <= Len(scan[c].files)
    /\ ocr[c].pc # "off" => /\ call[c].pc = "extract"
                            /\ Done(c) < Len(scan[c].files)
                            /\ ocr[c].file = scan[c].files[Done(c) + 1]

\* Documents do not become trash again.
ListsDiffer(c) ==
  call[c].pc = "trash" =>
    \A k \in DOMAIN call[c].left : /\ call[c].left[k].item \in Messages
                                   /\ stored[call[c].left[k].item].as
                                        \in {"document", "duplicate"}

Succeeded(c) == exports[c].status = "succeeded"
Writes(c) == call[c].pc \in {"documents", "trash", "extract", "write", "complete"}

Settled(c) ==
  Succeeded(c) => /\ call[c].pc = "over"
                  /\ exports[c].name = call[c].name /\ exports[c].rows = call[c].rows

\* The rows of a call: in its file, in its buffer and still to be written.
Rows(c) == disk[call[c].name] \o (call[c].buffer \o call[c].left)
Items(rows) == [k \in 1 .. Len(rows) |-> rows[k].item]

Counted(c) ==
  /\ call[c].name \in Names
  /\ call[c].rows = call[c].written + Len(call[c].buffer)
  /\ call[c].pc \in {"documents", "trash"} => call[c].rows = 0
  /\ call[c].pc \in {"documents", "extract"} => call[c].left = <<>>
  /\ call[c].pc = "complete" \/ Succeeded(c) =>
       call[c].left = <<>> /\ call[c].buffer = <<>>
  /\ c \in FolderCalls =>
       /\ call[c].left = <<>>
       /\ call[c].rows = call[c].exported
                           + IF call[c].include THEN call[c].skipped ELSE 0
       /\ call[c].pc # "extract" => Done(c) = Len(scan[c].files)

\* Its rows are its own, each for another item; those of a folder are for
\* the files behind it.
OwnRows(c) ==
  /\ Len(disk[call[c].name]) = call[c].written
  /\ \A k \in DOMAIN Rows(c) : Rows(c)[k].by = c
  /\ Once(Items(Rows(c)))
  /\ c \in FolderCalls =>
       \A k \in DOMAIN Rows(c) : \E i \in 1 .. Done(c) : Rows(c)[k].item = scan[c].files[i]

Fills(c) == Writes(c) \/ Succeeded(c) => Counted(c) /\ (Alone(c) => OwnRows(c))

CallInv(c) == /\ KindOf(c) /\ NotYet(c) /\ Interrupted(c) /\ Fresh(c) /\ Extracting(c)
              /\ ListsDiffer(c) /\ Settled(c) /\ Fills(c)

ExportInv == TypeOK /\ ListedOnce /\ OCRInv /\ \A c \in Calls : CallInv(c)

-----------------------------------------------------------------------------
(***************************************************************************)
(* The scan.                                                               *)
(***************************************************************************)
LEMMA PicksAreElements ==
  ASSUME NEW S, NEW list \in Seq(S), NEW at
  PROVE  Selected(list, at) \in Seq(S)
BY SelectedPicks DEF Picks

Todo == [node: Nodes, depth: Nat]

LEMMA WalkType ==
  ASSUME NEW d \in DOMAIN Members, NEW depth \in Nat
  PROVE  Walk(d, depth) \in Seq(Todo)
<1> DEFINE seen == Selected(Members[d],
                     {k \in DOMAIN Members[d] : Kind[Members[d][k]] # "ignorable"})
<1>1. Members[d] \in Seq(Nodes)
  BY ScanAssumption
<1>2. seen \in Seq(Nodes)
  BY <1>1, PicksAreElements
<1>3. Walk(d, depth) = [k \in 1 .. Len(seen) |-> [node |-> seen[k], depth |-> depth]]
  BY DEF Walk
<1> HIDE DEF seen
<1>4. Len(seen) \in Nat
  BY <1>2
<1>5. \A k \in 1 .. Len(seen) : seen[k] \in Nodes
  BY <1>2, ElementOfSeq
<1>6. \A k \in 1 .. Len(seen) : [node |-> seen[k], depth |-> depth] \in Todo
  BY <1>5 DEF Todo
<1>7. Walk(d, depth) \in [1 .. Len(seen) -> Todo]
  BY <1>3, <1>6
<1> QED  BY <1>4, <1>7, SeqDef

Scan == [pc: {"off", "walk", "listed", "failed"}, todo: Seq(Todo), files: Seq(Nodes),
         skipped: SUBSET Nodes, regular: Nat, extracted: Nat, archives: Nat]

LEMMA ScanTyped == ScanTypeOK <=> scan \in [FolderCalls -> Scan]
BY DEF ScanTypeOK, Scan, Todo

LEMMA StartTypes ==
  ASSUME ScanTypeOK, NEW c \in FolderCalls, Start(c)
  PROVE  ScanTypeOK'
<1>1. Root \in DOMAIN Members
  BY ScanAssumption
<1>2. Walk(Root, 0) \in Seq(Todo)
  BY <1>1, WalkType
<1> DEFINE s == [NoScan EXCEPT !.pc = "walk", !.todo = Walk(Root, 0)]
<1>3. <<>> \in Seq(Nodes) /\ <<>> \in Seq(Todo)
  BY EmptySeq
<1>4. NoScan \in Scan
  BY <1>3 DEF NoScan, Scan
<1>5. s \in Scan
  BY <1>2, <1>4 DEF Scan
<1>6. scan' = [scan EXCEPT ![c] = s]
  BY DEF Start
<1> HIDE DEF s
<1>7. scan \in [FolderCalls -> Scan]
  BY ScanTyped
<1>8. scan' \in [FolderCalls -> Scan]
  BY <1>5, <1>6, <1>7
<1> QED  BY <1>8 DEF ScanTypeOK, Scan, Todo

\* A step of the scan puts one scan in the place of another.
LEMMA ScanPut ==
  ASSUME ScanTypeOK, NEW c \in FolderCalls, NEW s \in Scan,
         scan' = [scan EXCEPT ![c] = s]
  PROVE  ScanTypeOK'
<1>1. scan \in [FolderCalls -> Scan]
  BY ScanTyped
<1>2. scan' \in [FolderCalls -> Scan]
  BY <1>1
<1> QED  BY <1>2 DEF ScanTypeOK, Scan, Todo

LEMMA ItemType ==
  ASSUME ScanTypeOK, NEW c \in FolderCalls, MayScan(c)
  PROVE  /\ scan[c] \in Scan
         /\ Item(c) \in Todo /\ Item(c).node \in Nodes /\ Item(c).depth \in Nat
         /\ Tail(scan[c].todo) \in Seq(Todo)
         /\ Append(scan[c].files, Item(c).node) \in Seq(Nodes)
<1>1. scan[c] \in Scan
  BY ScanTyped
<1>2. scan[c].todo \in Seq(Todo) /\ scan[c].todo # <<>> /\ scan[c].files \in Seq(Nodes)
  BY <1>1 DEF Scan, MayScan
<1>3. Head(scan[c].todo) \in Todo /\ Tail(scan[c].todo) \in Seq(Todo)
  BY <1>2, HeadTailProperties
<1>4. Item(c).node \in Nodes /\ Item(c).depth \in Nat
  BY <1>3 DEF Item, Todo
<1>5. Append(scan[c].files, Item(c).node) \in Seq(Nodes)
  BY <1>2, <1>4, AppendProperties
<1> QED  BY <1>1, <1>3, <1>4, <1>5 DEF Item

LEMMA ListCountedType ==
  ASSUME ScanTypeOK, NEW c \in FolderCalls, MayScan(c), NEW skip
  PROVE  ListCounted(scan[c], Item(c).node, Item(c).depth, skip) \in Scan
<1> DEFINE s == scan[c]
           n == Item(c).node
           files == Append(s.files, n)
           todo == Tail(s.todo)
<1>1. s \in Scan /\ n \in Nodes /\ files \in Seq(Nodes) /\ todo \in Seq(Todo)
  BY ItemType
<1> DEFINE skipped == IF skip THEN s.skipped \cup {n} ELSE s.skipped
           regular == IF Item(c).depth = 0 THEN s.regular + 1 ELSE s.regular
           extracted == IF Item(c).depth > 0 THEN s.extracted + 1 ELSE s.extracted
<1>2. skipped \in SUBSET Nodes /\ regular \in Nat /\ extracted \in Nat
  BY <1>1 DEF Scan
<1>3. ListCounted(s, n, Item(c).depth, skip) =
        [s EXCEPT !.files = files, !.todo = todo, !.skipped = skipped,
                  !.regular = regular, !.extracted = extracted]
  BY DEF ListCounted
<1> HIDE DEF files, todo, skipped, regular, extracted, n, s
<1>4. ListCounted(s, n, Item(c).depth, skip) \in Scan
  BY <1>1, <1>2, <1>3 DEF Scan
<1> QED  BY <1>4 DEF s, n

LEMMA ScanKeepsTypes ==
  ASSUME ScanTypeOK, NEW c \in FolderCalls, ScanStep(c)
  PROVE  ScanTypeOK'
<1> DEFINE s == scan[c]
           n == Item(c).node
<1>1. scan[c] \in Scan
  BY ScanTyped
<1>2. CASE ScanFails(c)
  <2>1. [s EXCEPT !.pc = "failed"] \in Scan
    BY <1>1 DEF Scan
  <2>2. scan' = [scan EXCEPT ![c] = [s EXCEPT !.pc = "failed"]]
    BY <1>2 DEF ScanFails
  <2> HIDE DEF s
  <2> QED  BY <2>1, <2>2, ScanPut
<1>3. CASE ListFile(c)
  <2> DEFINE row == ListCounted(s, n, Item(c).depth, Kind[n] = "unsupported")
  <2>1. MayScan(c) /\ scan' = [scan EXCEPT ![c] = row]
    BY <1>3 DEF ListFile
  <2>2. row \in Scan
    BY <2>1, ListCountedType
  <2> HIDE DEF row
  <2> QED  BY <2>1, <2>2, ScanPut
<1>4. CASE ListDeepArchive(c)
  <2> DEFINE row == [s EXCEPT !.files = Append(@, n), !.skipped = @ \cup {n},
                              !.todo = Tail(@)]
  <2>1. MayScan(c) /\ scan' = [scan EXCEPT ![c] = row]
    BY <1>4 DEF ListDeepArchive
  <2>2. row \in Scan
    BY <1>1, <2>1, ItemType DEF Scan
  <2> HIDE DEF row
  <2> QED  BY <2>1, <2>2, ScanPut
<1>5. CASE OpenArchive(c)
  <2> DEFINE todo == Walk(n, Item(c).depth + 1) \o Tail(s.todo)
             row == [s EXCEPT !.archives = @ + 1, !.todo = todo]
  <2>1. MayScan(c) /\ Kind[n] = "archive"
    BY <1>5 DEF OpenArchive, MayOpen
  <2>2. scan' = [scan EXCEPT ![c] = row]
    BY <1>5 DEF OpenArchive
  <2>3. n \in DOMAIN Members /\ Item(c).depth + 1 \in Nat
    BY <2>1, ItemType, ScanAssumption
  <2>4. Walk(n, Item(c).depth + 1) \in Seq(Todo) /\ Tail(s.todo) \in Seq(Todo)
    BY <2>1, <2>3, WalkType, ItemType
  <2>5. todo \in Seq(Todo)
    BY <2>4, ConcatProperties
  <2> HIDE DEF todo
  <2>6. scan[c].archives + 1 \in Nat
    BY <1>1 DEF Scan
  <2>7. row \in Scan
    BY <1>1, <2>5, <2>6 DEF Scan
  <2> HIDE DEF row
  <2> QED  BY <2>2, <2>7, ScanPut
<1>6. CASE ListBrokenArchive(c)
  <2> DEFINE listed == ListCounted(s, n, Item(c).depth, TRUE)
             row == [listed EXCEPT !.archives = listed.archives + 1]
  <2>1. MayScan(c) /\ scan' = [scan EXCEPT ![c] = row]
    BY <1>6 DEF ListBrokenArchive, MayOpen
  <2>2. listed \in Scan
    BY <2>1, ListCountedType
  <2> HIDE DEF listed
  <2>3. row \in Scan
    BY <2>2 DEF Scan
  <2> HIDE DEF row
  <2> QED  BY <2>1, <2>3, ScanPut
<1>7. CASE FinishScan(c)
  <2>1. s.files \in Seq(Nodes)
    BY <1>1 DEF Scan
  <2> DEFINE places == DOMAIN s.files
             Sorted(from) == [k \in places |-> s.files[from[k]]]
             Result(from) == [s EXCEPT !.pc = "listed", !.files = Sorted(from)]
  <2>2. PICK from \in Bijection(places, places) :
          scan' = [scan EXCEPT ![c] = Result(from)]
    BY <1>7 DEF FinishScan
  <2>3. from \in [places -> places]
    BY <2>2 DEF Bijection, Injection
  <2>4. places = 1 .. Len(s.files) /\ Len(s.files) \in Nat
    BY <2>1
  <2>5. \A k \in places : s.files[k] \in Nodes
    BY <2>1, <2>4, ElementOfSeq
  <2>6. Sorted(from) \in [1 .. Len(s.files) -> Nodes]
    BY <2>3, <2>4, <2>5
  <2>7. Sorted(from) \in Seq(Nodes)
    BY <2>4, <2>6, SeqDef
  <2> HIDE DEF Sorted
  <2>8. Result(from) \in Scan
    BY <1>1, <2>7 DEF Scan
  <2> HIDE DEF Result
  <2> QED  BY <2>2, <2>8, ScanPut
<1> QED  BY <1>2, <1>3, <1>4, <1>5, <1>6, <1>7 DEF ScanStep

-----------------------------------------------------------------------------
(***************************************************************************)
(* Extraction.                                                             *)
(***************************************************************************)
OCR == [pc: {"off", "prepare", "upload", "read", "delete", "done"},
        file: Files \cup {0}, id: 0 .. RetryAttempts, attempt: 0 .. RetryAttempts,
        outcome: {"none", "text", "error"}]

\* What is left at Mistral with no extraction in hand.
Left == remote \ UNION {InHand(d) : d \in FolderCalls}

\* The temporary copies are those of the extractions that are under way.
Copies == \A t \in temp : killed = 0 => /\ ocr[t[1]].pc \in {"upload", "read", "delete"}
                                        /\ ocr[t[1]].file = t[2]

LEMMA CleanIs ==
  MistralIsLeftClean <=> Cardinality(Left) <= remoteFaults + killed /\ Copies
BY DEF MistralIsLeftClean, NothingLeftBehind, Left, Copies

LEMMA CleanIsNext ==
  MistralIsLeftClean' <=> Cardinality(Left') <= remoteFaults' + killed' /\ Copies'
BY DEF MistralIsLeftClean, NothingLeftBehind, Left, Copies

LEMMA OCRTyped == OCRTypeOK => ocr \in [FolderCalls -> OCR]
BY DEF OCRTypeOK, OCR

LEMMA LeftIsFinite ==
  ASSUME IsFiniteSet(remote)
  PROVE  IsFiniteSet(Left) /\ Cardinality(Left) \in Nat
<1>1. Left \in SUBSET remote
  BY DEF Left
<1>2. IsFiniteSet(Left)
  BY <1>1, FS_Subset
<1> QED  BY <1>2, FS_CardinalityType

\* A step keeps what the faults account for when it leaves nothing more behind,
\* or one file for one more fault.
LEMMA NothingMoreLeft ==
  ASSUME OCRInv, Left' \subseteq Left
  PROVE  Cardinality(Left') <= Cardinality(Left) /\ Cardinality(Left') \in Nat
<1>1. IsFiniteSet(Left)
  BY LeftIsFinite DEF OCRInv
<1>2. Left' \in SUBSET Left
  OBVIOUS
<1>3. IsFiniteSet(Left') /\ Cardinality(Left') <= Cardinality(Left)
  BY <1>1, <1>2, FS_Subset
<1> QED  BY <1>3, FS_CardinalityType

LEMMA OneMoreLeft ==
  ASSUME OCRInv, NEW x, Left' \subseteq Left \cup {x}
  PROVE  Cardinality(Left') <= Cardinality(Left) + 1 /\ Cardinality(Left') \in Nat
<1>1. IsFiniteSet(Left) /\ Cardinality(Left) \in Nat
  BY LeftIsFinite DEF OCRInv
<1>2. /\ IsFiniteSet(Left \cup {x})
      /\ Cardinality(Left \cup {x}) = IF x \in Left THEN Cardinality(Left)
                                      ELSE Cardinality(Left) + 1
  BY <1>1, FS_AddElement
<1>3. Left' \in SUBSET (Left \cup {x})
  OBVIOUS
<1>4. IsFiniteSet(Left') /\ Cardinality(Left') <= Cardinality(Left \cup {x})
  BY <1>2, <1>3, FS_Subset
<1>5. Cardinality(Left') \in Nat
  BY <1>4, FS_CardinalityType
<1> QED  BY <1>1, <1>2, <1>4, <1>5

\* Only the extraction of c moves.
OCRGoes(c, o) == c \in FolderCalls /\ o \in OCR /\ ocr' = [ocr EXCEPT ![c] = o]

LEMMA OthersStay ==
  ASSUME OCRTypeOK, NEW c, NEW o, OCRGoes(c, o)
  PROVE  /\ ocr'[c] = o
         /\ \A d \in FolderCalls \ {c} : ocr'[d] = ocr[d] /\ InHand(d)' = InHand(d)
<1>1. ocr \in [FolderCalls -> OCR]
  BY OCRTyped
<1>2. ocr'[c] = o /\ \A d \in FolderCalls \ {c} : ocr'[d] = ocr[d]
  BY <1>1 DEF OCRGoes
<1> QED  BY <1>2 DEF InHand, Current

LEMMA LeftMoves ==
  ASSUME OCRTypeOK, NEW c, NEW o, OCRGoes(c, o), NEW x \in Left'
  PROVE  /\ x \in remote' /\ x \notin InHand(c)'
         /\ x \in remote /\ x \notin InHand(c) => x \in Left
<1>1. c \in FolderCalls
  BY DEF OCRGoes
<1>2. x \in remote' /\ \A d \in FolderCalls : x \notin InHand(d)'
  BY DEF Left
<1>3. \A d \in FolderCalls \ {c} : x \notin InHand(d)
  BY <1>2, OthersStay
<1> QED  BY <1>1, <1>2, <1>3 DEF Left

LEMMA OCRPut ==
  ASSUME OCRInv, NEW c, NEW o, OCRGoes(c, o),
         o.pc # "off" => o.file \in Files,
         o.pc \in {"upload", "read"} => o.attempt # 0,
         remote' \subseteq Remote, IsFiniteSet(remote'),
         \A t \in temp' : \/ t \in temp /\ t[1] # c
                          \/ /\ t = <<c, o.file>>
                             /\ o.pc \in {"upload", "read", "delete"}
                          \/ t \in temp /\ killed # 0,
         configured' \in BOOLEAN, remoteFaults' \in 0 .. MaxRemoteFaults,
         Cardinality(Left') <= remoteFaults' + killed', killed' = killed
  PROVE  OCRInv'
<1>1. ocr \in [FolderCalls -> OCR] /\ c \in FolderCalls /\ o \in OCR
  BY OCRTyped DEF OCRGoes, OCRInv
<1>2. ocr'[c] = o /\ \A d \in FolderCalls \ {c} : ocr'[d] = ocr[d]
  BY OthersStay DEF OCRInv
<1>3. ocr' \in [FolderCalls -> OCR]
  BY <1>1 DEF OCRGoes
<1>4. temp \subseteq FolderCalls \X Files /\ Copies
  BY CleanIs DEF OCRInv, OCRTypeOK
<1>5. temp' \subseteq FolderCalls \X Files
  <2> SUFFICES ASSUME NEW t \in temp', t \notin temp PROVE t \in FolderCalls \X Files
    BY <1>4
  <2> QED  BY <1>1
<1>6. OCRTypeOK'
  BY <1>3, <1>5 DEF OCRTypeOK, OCR
<1>7. Attempts'
  BY <1>2 DEF Attempts, OCRInv
<1>8. Copies'
  <2> SUFFICES ASSUME NEW t \in temp', killed = 0
               PROVE  ocr'[t[1]].pc \in {"upload", "read", "delete"} /\ ocr'[t[1]].file = t[2]
    BY DEF Copies
  <2>1. CASE t \in temp /\ t[1] # c
    <3>1. t[1] \in FolderCalls \ {c}
      BY <2>1, <1>4
    <3> QED  BY <2>1, <3>1, <1>2, <1>4 DEF Copies
  <2>2. CASE t = <<c, o.file>> /\ o.pc \in {"upload", "read", "delete"}
    BY <2>2, <1>2
  <2> QED  BY <2>1, <2>2
<1> QED  BY <1>6, <1>7, <1>8, CleanIsNext DEF OCRInv

LEMMA RowFacts ==
  ASSUME OCRInv, NEW c \in FolderCalls
  PROVE  /\ ocr[c] \in OCR
         /\ ocr[c].pc # "off" => ocr[c].file \in Files
         /\ ocr[c].pc \in {"upload", "read"} => ocr[c].attempt \in 1 .. RetryAttempts
         /\ RetryAttempts \in Nat /\ remoteFaults \in 0 .. MaxRemoteFaults
         /\ MaxRemoteFaults \in Nat
<1>1. ocr[c] \in OCR
  BY OCRTyped DEF OCRInv
<1>2. RetryAttempts \in Nat /\ MaxRemoteFaults \in Nat
  BY OCRAssumption
<1>3. ocr[c].attempt \in 0 .. RetryAttempts
  BY <1>1 DEF OCR
<1> QED  BY <1>1, <1>2, <1>3 DEF OCRInv, Attempts, OCRTypeOK

\* A return takes the temporary copy of its extraction with it.
LEMMA ReturnGoes ==
  ASSUME OCRInv, NEW c \in FolderCalls, NEW outcome \in {"none", "text", "error"},
         Return(c, outcome)
  PROVE  LET o == [ocr[c] EXCEPT !.pc = "done", !.outcome = outcome]
         IN /\ OCRGoes(c, o) /\ o.pc = "done" /\ o.file = ocr[c].file
            /\ \A t \in temp' : \/ t \in temp /\ t[1] # c
                                \/ t \in temp /\ killed # 0
<1> DEFINE o == [ocr[c] EXCEPT !.pc = "done", !.outcome = outcome]
<1>1. ocr[c] \in OCR
  BY RowFacts
<1>2. o \in OCR /\ o.pc = "done" /\ o.file = ocr[c].file
  BY <1>1 DEF OCR
<1>3. ocr' = [ocr EXCEPT ![c] = o] /\ temp' = temp \ {<<c, ocr[c].file>>}
  BY DEF Return
<1>4. ASSUME NEW t \in temp', t[1] = c, killed = 0 PROVE FALSE
  <2>1. t \in temp /\ t # <<c, ocr[c].file>>
    BY <1>3, <1>4
  <2>2. temp \subseteq FolderCalls \X Files /\ Copies
    BY CleanIs DEF OCRInv, OCRTypeOK
  <2>3. t = <<t[1], t[2]>> /\ ocr[t[1]].file = t[2]
    BY <2>1, <2>2, <1>4 DEF Copies
  <2> QED  BY <2>1, <2>3, <1>4
<1>5. \A t \in temp' : \/ t \in temp /\ t[1] # c
                       \/ t \in temp /\ killed # 0
  BY <1>3, <1>4
<1> QED  BY <1>2, <1>3, <1>5 DEF OCRGoes

\* Where the temporary copies stay, those of c were allowed before.
LEMMA CopiesStay ==
  ASSUME OCRInv, NEW c \in FolderCalls, temp' = temp, NEW o,
         \/ o.file = ocr[c].file /\ o.pc \in {"upload", "read", "delete"}
         \/ ocr[c].pc \in {"off", "prepare", "done"}
  PROVE  \A t \in temp' : \/ t \in temp /\ t[1] # c
                          \/ /\ t = <<c, o.file>>
                             /\ o.pc \in {"upload", "read", "delete"}
                          \/ t \in temp /\ killed # 0
<1> SUFFICES ASSUME NEW t \in temp, t[1] = c, killed = 0
             PROVE  t = <<c, o.file>> /\ o.pc \in {"upload", "read", "delete"}
  OBVIOUS
<1>1. temp \subseteq FolderCalls \X Files /\ Copies
  BY CleanIs DEF OCRInv, OCRTypeOK
<1>2. ocr[c].pc \in {"upload", "read", "delete"} /\ ocr[c].file = t[2]
  BY <1>1 DEF Copies
<1>3. t = <<t[1], t[2]>>
  BY <1>1
<1> QED  BY <1>2, <1>3

LEMMA RetryGoes ==
  ASSUME OCRInv, NEW c \in FolderCalls, ocr[c].pc \in {"upload", "read"}, Retry(c)
  PROVE  LET o == [ocr[c] EXCEPT !.attempt = ocr[c].attempt + 1]
         IN /\ OCRGoes(c, o) /\ o.pc = ocr[c].pc /\ o.file = ocr[c].file
            /\ o.id = ocr[c].id /\ o.attempt # 0 /\ temp' = temp
<1> DEFINE o == [ocr[c] EXCEPT !.attempt = ocr[c].attempt + 1]
<1>1. ocr[c] \in OCR /\ ocr[c].attempt \in 1 .. RetryAttempts /\ RetryAttempts \in Nat
  BY RowFacts
<1>2. ocr[c].attempt + 1 \in 1 .. RetryAttempts
  BY <1>1 DEF Retry
<1>3. ocr[c].attempt + 1 \in 0 .. RetryAttempts /\ ocr[c].attempt + 1 # 0
  BY <1>2, <1>1
<1>4. /\ o \in OCR /\ o.pc = ocr[c].pc /\ o.file = ocr[c].file /\ o.id = ocr[c].id
      /\ o.attempt # 0
  BY <1>1, <1>3 DEF OCR
<1>5. ocr' = [ocr EXCEPT ![c] = o] /\ temp' = temp
  BY DEF Retry
<1> QED  BY <1>4, <1>5 DEF OCRGoes

\* With nothing in hand before or after, and nothing sent to Mistral, what is
\* left there is the same.
LEMMA LeftStays ==
  ASSUME OCRInv, NEW c, NEW o, OCRGoes(c, o), remote' = remote,
         \/ ocr[c].pc \notin {"read", "delete"}
         \/ /\ o.pc \in {"read", "delete"}
            /\ o.file = ocr[c].file /\ o.id = ocr[c].id
  PROVE  Left' \subseteq Left
<1>1. c \in FolderCalls /\ ocr'[c] = o
  BY OthersStay DEF OCRGoes, OCRInv
<1>2. InHand(c) \subseteq InHand(c)'
  BY <1>1 DEF InHand, Current
<1> QED  BY <1>2, LeftMoves DEF OCRInv

\* The bound on what is left, where no fault is used up.
LEMMA NoFault ==
  ASSUME OCRInv, killed \in Nat, killed' = killed, remoteFaults' = remoteFaults,
         Left' \subseteq Left
  PROVE  /\ Cardinality(Left') <= remoteFaults' + killed'
         /\ remoteFaults' \in 0 .. MaxRemoteFaults
<1>1. remoteFaults \in 0 .. MaxRemoteFaults /\ MaxRemoteFaults \in Nat
  BY OCRAssumption DEF OCRInv, OCRTypeOK
<1>2. Cardinality(Left) <= remoteFaults + killed
  BY CleanIs DEF OCRInv
<1>3. Cardinality(Left) \in Nat
  BY LeftIsFinite DEF OCRInv
<1> QED  BY <1>1, <1>2, <1>3, NothingMoreLeft

LEMMA OneFault ==
  ASSUME OCRInv, killed \in Nat, killed' = killed,
         remoteFaults < MaxRemoteFaults, remoteFaults' = remoteFaults + 1,
         NEW x, Left' \subseteq Left \cup {x}
  PROVE  /\ Cardinality(Left') <= remoteFaults' + killed'
         /\ remoteFaults' \in 0 .. MaxRemoteFaults
<1>1. remoteFaults \in 0 .. MaxRemoteFaults /\ MaxRemoteFaults \in Nat
  BY OCRAssumption DEF OCRInv, OCRTypeOK
<1>2. Cardinality(Left) <= remoteFaults + killed
  BY CleanIs DEF OCRInv
<1>3. Cardinality(Left) \in Nat
  BY LeftIsFinite DEF OCRInv
<1>4. Cardinality(Left') <= Cardinality(Left) + 1 /\ Cardinality(Left') \in Nat
  BY OneMoreLeft
<1> QED  BY <1>1, <1>2, <1>3, <1>4

LEMMA SameRemote ==
  ASSUME OCRInv, remote' = remote, configured' = configured
  PROVE  remote' \subseteq Remote /\ IsFiniteSet(remote') /\ configured' \in BOOLEAN
BY DEF OCRInv, OCRTypeOK

LEMMA ReturnKeeps ==
  ASSUME OCRInv, NEW c \in FolderCalls, NEW outcome \in {"none", "text", "error"},
         ocr[c].pc # "off", Return(c, outcome),
         killed' = killed, configured' = configured, remote' \subseteq Remote, IsFiniteSet(remote'),
         remoteFaults' \in 0 .. MaxRemoteFaults,
         Cardinality(Left') <= remoteFaults' + killed'
  PROVE  OCRInv'
<1> DEFINE o == [ocr[c] EXCEPT !.pc = "done", !.outcome = outcome]
<1>1. /\ OCRGoes(c, o) /\ o.pc = "done" /\ o.file = ocr[c].file
      /\ \A t \in temp' : \/ t \in temp /\ t[1] # c
                          \/ t \in temp /\ killed # 0
  BY ReturnGoes
<1> HIDE DEF o
<1>2. configured' \in BOOLEAN
  BY DEF OCRInv, OCRTypeOK
<1>3. o.pc # "off" => o.file \in Files
  BY <1>1, RowFacts
<1> QED  BY <1>1, <1>2, <1>3, OCRPut

LEMMA RetryKeeps ==
  ASSUME OCRInv, NEW c \in FolderCalls, ocr[c].pc \in {"upload", "read"}, Retry(c),
         killed' = killed, configured' = configured,
         remote' \subseteq Remote, IsFiniteSet(remote'),
         remoteFaults' \in 0 .. MaxRemoteFaults,
         Cardinality(Left') <= remoteFaults' + killed'
  PROVE  OCRInv'
<1> DEFINE o == [ocr[c] EXCEPT !.attempt = ocr[c].attempt + 1]
<1>1. /\ OCRGoes(c, o) /\ o.pc = ocr[c].pc /\ o.file = ocr[c].file
      /\ o.id = ocr[c].id /\ o.attempt # 0 /\ temp' = temp
  BY RetryGoes
<1> HIDE DEF o
<1>2. configured' \in BOOLEAN
  BY DEF OCRInv, OCRTypeOK
<1>3. o.pc # "off" => o.file \in Files
  BY <1>1, RowFacts
<1>4. \A t \in temp' : \/ t \in temp /\ t[1] # c
                       \/ /\ t = <<c, o.file>>
                          /\ o.pc \in {"upload", "read", "delete"}
                       \/ t \in temp /\ killed # 0
  BY <1>1, CopiesStay
<1> QED  BY <1>1, <1>2, <1>3, <1>4, OCRPut

\* What a step does that touches nothing at Mistral.
LEMMA QuietReturn ==
  ASSUME OCRInv, killed \in Nat, killed' = killed, NEW c \in FolderCalls,
         NEW outcome \in {"none", "text", "error"}, ocr[c].pc \notin {"off", "read", "delete"},
         Return(c, outcome), UNCHANGED <<remote, configured, remoteFaults>>
  PROVE  OCRInv'
<1> DEFINE o == [ocr[c] EXCEPT !.pc = "done", !.outcome = outcome]
<1>1. OCRGoes(c, o)
  BY ReturnGoes
<1> HIDE DEF o
<1>2. Left' \subseteq Left
  BY <1>1, LeftStays
<1> QED  BY <1>2, NoFault, SameRemote, ReturnKeeps

LEMMA QuietRetry ==
  ASSUME OCRInv, killed \in Nat, killed' = killed, NEW c \in FolderCalls,
         ocr[c].pc \in {"upload", "read"}, Retry(c),
         UNCHANGED <<remote, configured, remoteFaults>>
  PROVE  OCRInv'
<1> DEFINE o == [ocr[c] EXCEPT !.attempt = ocr[c].attempt + 1]
<1>1. OCRGoes(c, o) /\ o.pc = ocr[c].pc /\ o.file = ocr[c].file /\ o.id = ocr[c].id
  BY RetryGoes
<1> HIDE DEF o
<1>2. Left' \subseteq Left
  BY <1>1, LeftStays
<1> QED  BY <1>2, NoFault, SameRemote, RetryKeeps

LEMMA PrepareKeeps ==
  ASSUME OCRInv, killed \in Nat, killed' = killed, NEW c \in FolderCalls, Prepare(c)
  PROVE  OCRInv'
<1>1. CASE Return(c, "error")
  BY <1>1, QuietReturn DEF Prepare
<1>2. CASE Go(c, "upload") /\ temp' \in {temp, temp \cup {<<c, ocr[c].file>>}}
  <2> DEFINE o == [ocr[c] EXCEPT !.pc = "upload", !.attempt = 1]
  <2>1. ocr[c] \in OCR /\ ocr[c].file \in Files /\ RetryAttempts \in Nat \ {0}
    BY RowFacts, OCRAssumption DEF Prepare
  <2>2. 1 \in 0 .. RetryAttempts
    BY <2>1
  <2>3. o \in OCR /\ o.pc = "upload" /\ o.attempt = 1 /\ o.file = ocr[c].file
    BY <2>1, <2>2 DEF OCR
  <2>4. OCRGoes(c, o)
    BY <1>2, <2>3 DEF OCRGoes, Go
  <2> HIDE DEF o
  <2>5. Left' \subseteq Left
    BY <2>4, LeftStays DEF Prepare
  <2>6. \A t \in temp : \/ t \in temp /\ t[1] # c
                        \/ /\ t = <<c, o.file>>
                           /\ o.pc \in {"upload", "read", "delete"}
                        \/ t \in temp /\ killed # 0
    <3> SUFFICES ASSUME NEW t \in temp, t[1] = c, killed = 0 PROVE FALSE
      OBVIOUS
    <3>1. Copies
      BY CleanIs DEF OCRInv
    <3> QED  BY <3>1 DEF Copies, Prepare
  <2>7. \A t \in temp' : \/ t \in temp /\ t[1] # c
                         \/ /\ t = <<c, o.file>>
                            /\ o.pc \in {"upload", "read", "delete"}
                         \/ t \in temp /\ killed # 0
    BY <1>2, <2>3, <2>6
  <2> QED  BY <2>1, <2>3, <2>4, <2>5, <2>7, NoFault, SameRemote, OCRPut DEF Prepare
<1> QED  BY <1>1, <1>2 DEF Prepare

LEMMA UploadKeeps ==
  ASSUME OCRInv, killed \in Nat, killed' = killed, NEW c \in FolderCalls, Upload(c)
  PROVE  OCRInv'
<1> DEFINE o == [ocr[c] EXCEPT !.pc = "read", !.id = ocr[c].attempt, !.attempt = 1]
<1>1. /\ ocr[c] \in OCR /\ ocr[c].file \in Files /\ RetryAttempts \in Nat \ {0}
      /\ ocr[c].attempt \in 1 .. RetryAttempts
  BY RowFacts, OCRAssumption DEF Upload
<1>2. 1 \in 0 .. RetryAttempts /\ ocr[c].attempt \in 0 .. RetryAttempts
  BY <1>1
<1>3. /\ o \in OCR /\ o.pc = "read" /\ o.attempt = 1 /\ o.file = ocr[c].file
      /\ o.id = ocr[c].attempt
  BY <1>1, <1>2 DEF OCR
<1>4. OCRGoes(c, o)
  BY <1>3 DEF OCRGoes, Upload
<1> HIDE DEF o
<1>5. Attempted(c) \in Remote /\ Attempted(c) = [by |-> c, file |-> ocr[c].file, id |-> ocr[c].attempt]
  BY <1>1 DEF Attempted, Current, Remote
<1>6. remote' \subseteq Remote /\ remote' = remote \cup {Attempted(c)}
  BY <1>5 DEF Upload, OCRInv, OCRTypeOK
<1>7. IsFiniteSet(remote')
  BY <1>6, FS_AddElement DEF OCRInv
<1>8. InHand(c)' = {Attempted(c)} /\ InHand(c) = {}
  <2>1. ocr'[c] = o
    BY <1>4, OthersStay DEF OCRInv
  <2> QED  BY <2>1, <1>3, <1>5 DEF InHand, Current, Upload
<1>9. Left' \subseteq Left
  BY <1>4, <1>6, <1>8, LeftMoves DEF OCRInv
<1>10. temp' = temp /\ configured' = configured /\ remoteFaults' = remoteFaults
  BY DEF Upload
<1>11. \A t \in temp' : \/ t \in temp /\ t[1] # c
                        \/ /\ t = <<c, o.file>>
                           /\ o.pc \in {"upload", "read", "delete"}
                        \/ t \in temp /\ killed # 0
  BY <1>3, <1>10, CopiesStay
<1>12. configured' \in BOOLEAN
  BY <1>10 DEF OCRInv, OCRTypeOK
<1>13. /\ Cardinality(Left') <= remoteFaults' + killed'
       /\ remoteFaults' \in 0 .. MaxRemoteFaults
  BY <1>9, <1>10, NoFault
<1>14. o.file \in Files /\ o.attempt # 0 /\ remote' \subseteq Remote
  BY <1>1, <1>3, <1>6
<1> QED  BY <1>4, <1>7, <1>11, <1>12, <1>13, <1>14, OCRPut

LEMMA UploadRejectedKeeps ==
  ASSUME OCRInv, killed \in Nat, killed' = killed, NEW c \in FolderCalls,
         UploadRejected(c)
  PROVE  OCRInv'
<1>1. CASE Return(c, "error")
  BY <1>1, QuietReturn DEF UploadRejected
<1>2. CASE Retry(c)
  BY <1>2, QuietRetry DEF UploadRejected
<1> QED  BY <1>1, <1>2 DEF UploadRejected

LEMMA UploadAnswerLostKeeps ==
  ASSUME OCRInv, killed \in Nat, killed' = killed, NEW c \in FolderCalls,
         UploadAnswerLost(c)
  PROVE  OCRInv'
<1> DEFINE x == Attempted(c)
<1>1. /\ ocr[c] \in OCR /\ ocr[c].pc = "upload" /\ ocr[c].file \in Files
      /\ ocr[c].attempt \in 1 .. RetryAttempts
  BY RowFacts DEF UploadAnswerLost
<1>2. x \in Remote
  BY <1>1 DEF Attempted, Current, Remote
<1> HIDE DEF x
<1>3. /\ remote' = remote \cup {x} /\ configured' = configured
      /\ remoteFaults < MaxRemoteFaults /\ remoteFaults' = remoteFaults + 1
  BY DEF UploadAnswerLost, x
<1>4. remote' \subseteq Remote
  BY <1>2, <1>3 DEF OCRInv, OCRTypeOK
<1>5. IsFiniteSet(remote')
  BY <1>3, FS_AddElement DEF OCRInv
<1>6. ASSUME NEW o, OCRGoes(c, o) PROVE Left' \subseteq Left \cup {x}
  <2>1. InHand(c) = {}
    BY <1>1 DEF InHand
  <2> QED  BY <1>3, <1>6, <2>1, LeftMoves DEF OCRInv
<1>7. CASE Return(c, "error")
  <2> DEFINE o == [ocr[c] EXCEPT !.pc = "done", !.outcome = "error"]
  <2>1. OCRGoes(c, o)
    BY <1>7, ReturnGoes
  <2> HIDE DEF o
  <2>2. /\ Cardinality(Left') <= remoteFaults' + killed'
        /\ remoteFaults' \in 0 .. MaxRemoteFaults
    BY <1>3, <1>6, <2>1, OneFault
  <2>3. ocr[c].pc # "off"
    BY <1>1
  <2> QED  BY <1>3, <1>4, <1>5, <1>7, <2>2, <2>3, ReturnKeeps
<1>8. CASE Retry(c)
  <2> DEFINE o == [ocr[c] EXCEPT !.attempt = ocr[c].attempt + 1]
  <2>1. OCRGoes(c, o)
    BY <1>1, <1>8, RetryGoes
  <2> HIDE DEF o
  <2>2. /\ Cardinality(Left') <= remoteFaults' + killed'
        /\ remoteFaults' \in 0 .. MaxRemoteFaults
    BY <1>3, <1>6, <2>1, OneFault
  <2>3. ocr[c].pc \in {"upload", "read"}
    BY <1>1
  <2> QED  BY <1>3, <1>4, <1>5, <1>8, <2>2, <2>3, RetryKeeps
<1> QED  BY <1>7, <1>8 DEF UploadAnswerLost

LEMMA ReadTextKeeps ==
  ASSUME OCRInv, killed \in Nat, killed' = killed, NEW c \in FolderCalls, ReadText(c)
  PROVE  OCRInv'
<1>1. CASE Retry(c)
  BY <1>1, QuietRetry DEF ReadText
<1>2. ASSUME NEW outcome \in {"text", "error"}, Read(c, outcome), temp' = temp
      PROVE  OCRInv'
  <2> DEFINE o == [ocr[c] EXCEPT !.pc = "delete", !.outcome = outcome]
  <2>1. ocr[c] \in OCR /\ ocr[c].pc = "read" /\ ocr[c].file \in Files
    BY RowFacts DEF ReadText
  <2>2. o \in OCR /\ o.pc = "delete" /\ o.file = ocr[c].file /\ o.id = ocr[c].id
    BY <2>1 DEF OCR
  <2>3. OCRGoes(c, o)
    BY <1>2, <2>2 DEF OCRGoes, Read
  <2> HIDE DEF o
  <2>4. remote' = remote /\ configured' = configured /\ remoteFaults' = remoteFaults
    BY DEF ReadText
  <2>5. Left' \subseteq Left
    BY <2>2, <2>3, <2>4, LeftStays
  <2>6. \A t \in temp' : \/ t \in temp /\ t[1] # c
                         \/ /\ t = <<c, o.file>>
                            /\ o.pc \in {"upload", "read", "delete"}
                         \/ t \in temp /\ killed # 0
    BY <1>2, <2>2, CopiesStay
  <2>7. /\ Cardinality(Left') <= remoteFaults' + killed'
        /\ remoteFaults' \in 0 .. MaxRemoteFaults
    BY <2>4, <2>5, NoFault
  <2>8. remote' \subseteq Remote /\ IsFiniteSet(remote') /\ configured' \in BOOLEAN
    BY <2>4, SameRemote
  <2> QED  BY <2>1, <2>2, <2>3, <2>6, <2>7, <2>8, OCRPut
<1> QED  BY <1>1, <1>2 DEF ReadText

LEMMA DeleteKeeps ==
  ASSUME OCRInv, killed \in Nat, killed' = killed, NEW c \in FolderCalls, Delete(c)
  PROVE  OCRInv'
<1> DEFINE outcome == ocr[c].outcome
           o == [ocr[c] EXCEPT !.pc = "done", !.outcome = outcome]
<1>1. /\ ocr[c].pc = "delete" /\ outcome \in {"none", "text", "error"}
      /\ Return(c, outcome) /\ configured' = configured
  BY RowFacts DEF Delete, OCR
<1>2. OCRGoes(c, o)
  BY <1>1, ReturnGoes
<1> HIDE DEF o, outcome
<1>3. InHand(c) = {Current(c)}
  BY <1>1 DEF InHand
<1>4. CASE remote' = remote \ {Current(c)} /\ UNCHANGED remoteFaults
  <2>1. Left' \subseteq Left
    BY <1>2, <1>3, <1>4, LeftMoves DEF OCRInv
  <2>2. /\ Cardinality(Left') <= remoteFaults' + killed'
        /\ remoteFaults' \in 0 .. MaxRemoteFaults
    BY <1>4, <2>1, NoFault
  <2>3. remote' \subseteq Remote /\ IsFiniteSet(remote')
    BY <1>4, FS_RemoveElement DEF OCRInv, OCRTypeOK
  <2> QED  BY <1>1, <2>2, <2>3, ReturnKeeps
<1>5. CASE /\ remoteFaults < MaxRemoteFaults
           /\ remoteFaults' = remoteFaults + 1
           /\ UNCHANGED remote
  <2>1. Left' \subseteq Left \cup {Current(c)}
    BY <1>2, <1>3, <1>5, LeftMoves DEF OCRInv
  <2>2. /\ Cardinality(Left') <= remoteFaults' + killed'
        /\ remoteFaults' \in 0 .. MaxRemoteFaults
    BY <1>5, <2>1, OneFault
  <2>3. remote' \subseteq Remote /\ IsFiniteSet(remote')
    BY <1>1, <1>5, SameRemote
  <2> QED  BY <1>1, <2>2, <2>3, ReturnKeeps
<1> QED  BY <1>4, <1>5 DEF Delete

\* An extraction begins, or its result was taken.
LEMMA ReplaceKeeps ==
  ASSUME OCRInv, killed \in Nat, killed' = killed, NEW c \in FolderCalls, NEW o \in OCR,
         ocr' = [ocr EXCEPT ![c] = o], ocr[c].pc \in {"off", "done"},
         \/ o.pc = "off"
         \/ o.pc = "prepare" /\ o.file \in Files,
         UNCHANGED <<remote, temp, configured, remoteFaults>>
  PROVE  /\ OCRInv'
         /\ \A d \in FolderCalls \ {c} : ocr'[d] = ocr[d]
<1>1. OCRGoes(c, o)
  BY DEF OCRGoes
<1>2. \A t \in temp' : \/ t \in temp /\ t[1] # c
                       \/ t = <<c, o.file>> /\ o.pc \in {"upload", "read", "delete"}
                       \/ t \in temp /\ killed # 0
  BY CopiesStay
<1>3. Left' \subseteq Left
  BY <1>1, LeftStays
<1>4. /\ Cardinality(Left') <= remoteFaults' + killed'
      /\ remoteFaults' \in 0 .. MaxRemoteFaults
  BY <1>3, NoFault
<1>5. remote' \subseteq Remote /\ IsFiniteSet(remote') /\ configured' \in BOOLEAN
  BY SameRemote
<1>6. OCRInv'
  BY <1>1, <1>2, <1>4, <1>5, OCRPut
<1>7. \A d \in FolderCalls \ {c} : ocr'[d] = ocr[d]
  BY <1>1, OthersStay DEF OCRInv
<1> QED  BY <1>6, <1>7

LEMMA OCRKeeps ==
  ASSUME OCRInv, killed \in Nat, killed' = killed, NEW c \in FolderCalls, OCRStep(c)
  PROVE  /\ OCRInv'
         /\ \A d \in FolderCalls \ {c} : ocr'[d] = ocr[d]
         /\ ocr[c].pc # "off" /\ ocr'[c].file = ocr[c].file
<1>1. OCRInv'
  BY PrepareKeeps, UploadKeeps, UploadRejectedKeeps, UploadAnswerLostKeeps,
     ReadTextKeeps, DeleteKeeps DEF OCRStep
<1>2. ocr \in [FolderCalls -> OCR]
  BY OCRTyped DEF OCRInv
<1>3. /\ \A d \in FolderCalls \ {c} : ocr'[d] = ocr[d]
      /\ ocr'[c].file = ocr[c].file
  <2> DEFINE Moved == /\ \A d \in FolderCalls \ {c} : ocr'[d] = ocr[d]
                      /\ ocr'[c].file = ocr[c].file
  <2>1. ocr[c] \in OCR
    BY <1>2
  <2>2. ASSUME NEW o, o.file = ocr[c].file, ocr' = [ocr EXCEPT ![c] = o] PROVE Moved
    BY <1>2, <2>2
  <2>3. ASSUME NEW outcome, Return(c, outcome) PROVE Moved
    <3> DEFINE o == [ocr[c] EXCEPT !.pc = "done", !.outcome = outcome]
    <3>1. o.file = ocr[c].file
      BY <2>1 DEF OCR
    <3>2. ocr' = [ocr EXCEPT ![c] = o]
      BY <2>3 DEF Return
    <3> QED  BY <2>2, <3>1, <3>2
  <2>4. CASE Retry(c)
    <3> DEFINE o == [ocr[c] EXCEPT !.attempt = ocr[c].attempt + 1]
    <3>1. o.file = ocr[c].file
      BY <2>1 DEF OCR
    <3>2. ocr' = [ocr EXCEPT ![c] = o]
      BY <2>4 DEF Retry
    <3> QED  BY <2>2, <3>1, <3>2
  <2>5. ASSUME NEW outcome, Read(c, outcome) PROVE Moved
    <3> DEFINE o == [ocr[c] EXCEPT !.pc = "delete", !.outcome = outcome]
    <3>1. o.file = ocr[c].file
      BY <2>1 DEF OCR
    <3>2. ocr' = [ocr EXCEPT ![c] = o]
      BY <2>5 DEF Read
    <3> QED  BY <2>2, <3>1, <3>2
  <2>6. CASE Go(c, "upload")
    <3> DEFINE o == [ocr[c] EXCEPT !.pc = "upload", !.attempt = 1]
    <3>1. o.file = ocr[c].file
      BY <2>1 DEF OCR
    <3>2. ocr' = [ocr EXCEPT ![c] = o]
      BY <2>6 DEF Go
    <3> QED  BY <2>2, <3>1, <3>2
  <2>7. CASE Upload(c)
    <3> DEFINE o == [ocr[c] EXCEPT !.pc = "read", !.id = ocr[c].attempt, !.attempt = 1]
    <3>1. o.file = ocr[c].file
      BY <2>1 DEF OCR
    <3>2. ocr' = [ocr EXCEPT ![c] = o]
      BY <2>7 DEF Upload
    <3> QED  BY <2>2, <3>1, <3>2
  <2>8. Moved
    BY <2>3, <2>4, <2>5, <2>6, <2>7 DEF OCRStep, Prepare, UploadRejected,
       UploadAnswerLost, ReadText, Delete
  <2> QED  BY <2>8
<1>4. ocr[c].pc # "off"
  BY DEF OCRStep, Prepare, Upload, UploadRejected, UploadAnswerLost, ReadText, Delete
<1> QED  BY <1>1, <1>2, <1>3, <1>4

\* A step that does not touch the extractions.
LEMMA OCRIdle ==
  ASSUME OCRInv, UNCHANGED <<ocrVars, killed>>
  PROVE  OCRInv'
<1>1. /\ ocr' = ocr /\ remote' = remote /\ temp' = temp /\ configured' = configured
      /\ remoteFaults' = remoteFaults
  BY DEF ocrVars
<1>2. OCRTypeOK' /\ Attempts' /\ IsFiniteSet(remote')
  BY <1>1 DEF OCRInv, OCRTypeOK, Attempts
<1>3. Left' = Left /\ Copies'
  BY <1>1, CleanIs DEF Left, Copies, InHand, Current, OCRInv
<1> QED  BY <1>1, <1>2, <1>3, CleanIs, CleanIsNext DEF OCRInv

-----------------------------------------------------------------------------
(***************************************************************************)
(* Lists without repetitions.                                              *)
(***************************************************************************)
LEMMA ConcatFacts ==
  ASSUME NEW S, NEW a \in Seq(S), NEW b \in Seq(S)
  PROVE  /\ a \o b \in Seq(S) /\ Len(a) \in Nat /\ Len(b) \in Nat
         /\ DOMAIN a = 1 .. Len(a) /\ DOMAIN b = 1 .. Len(b)
         /\ DOMAIN (a \o b) = 1 .. Len(a) + Len(b)
         /\ \A k \in DOMAIN a : (a \o b)[k] = a[k] /\ k \in DOMAIN (a \o b)
         /\ \A k \in DOMAIN b : /\ (a \o b)[Len(a) + k] = b[k]
                                /\ Len(a) + k \in DOMAIN (a \o b)
         /\ \A k \in DOMAIN (a \o b) :
              \/ k \in DOMAIN a
              \/ k - Len(a) \in DOMAIN b /\ (a \o b)[k] = b[k - Len(a)]
<1>1. Len(a) \in Nat /\ Len(b) \in Nat /\ DOMAIN a = 1 .. Len(a) /\ DOMAIN b = 1 .. Len(b)
  OBVIOUS
<1>2. /\ a \o b \in Seq(S)
      /\ Len(a \o b) = Len(a) + Len(b)
      /\ \A i \in 1 .. Len(a) + Len(b) :
           (a \o b)[i] = IF i <= Len(a) THEN a[i] ELSE b[i - Len(a)]
  BY ConcatProperties
<1>3. DOMAIN (a \o b) = 1 .. Len(a) + Len(b)
  BY <1>2
<1> QED  BY <1>1, <1>2, <1>3

LEMMA AsFunction ==
  ASSUME NEW S, NEW s \in Seq(S), NEW n, Len(s) = n
  PROVE  s = [k \in 1 .. n |-> s[k]]
OBVIOUS

LEMMA OnceConcat ==
  ASSUME NEW S, NEW a \in Seq(S), NEW b \in Seq(S), Once(a), Once(b),
         \A j \in DOMAIN a, k \in DOMAIN b : a[j] # b[k]
  PROVE  Once(a \o b)
<1> DEFINE ab == a \o b
<1> SUFFICES ASSUME NEW j \in DOMAIN ab, NEW k \in DOMAIN ab, ab[j] = ab[k]
             PROVE  j = k
  BY DEF Once
<1>1. /\ Len(a) \in Nat /\ Len(b) \in Nat
      /\ DOMAIN a = 1 .. Len(a) /\ DOMAIN b = 1 .. Len(b)
      /\ \A i \in DOMAIN a : ab[i] = a[i]
      /\ \A i \in DOMAIN ab : \/ i \in DOMAIN a
                              \/ i - Len(a) \in DOMAIN b /\ ab[i] = b[i - Len(a)]
  BY ConcatFacts
<1>2. j \in Nat /\ k \in Nat
  BY ConcatFacts
<1> HIDE DEF ab
<1>3. CASE j \in DOMAIN a /\ k \in DOMAIN a
  BY <1>1, <1>3 DEF Once
<1>4. CASE j \in DOMAIN a /\ k \notin DOMAIN a
  BY <1>1, <1>4
<1>5. CASE j \notin DOMAIN a /\ k \in DOMAIN a
  BY <1>1, <1>5
<1>6. CASE j \notin DOMAIN a /\ k \notin DOMAIN a
  <2>1. j - Len(a) = k - Len(a)
    BY <1>1, <1>6 DEF Once
  <2> QED  BY <1>1, <1>2, <2>1
<1> QED  BY <1>3, <1>4, <1>5, <1>6

LEMMA OnceParts ==
  ASSUME NEW S, NEW a \in Seq(S), NEW b \in Seq(S), Once(a \o b)
  PROVE  Once(a) /\ Once(b) /\ \A j \in DOMAIN a, k \in DOMAIN b : a[j] # b[k]
<1> DEFINE ab == a \o b
<1>1. /\ Len(a) \in Nat /\ Len(b) \in Nat
      /\ DOMAIN a = 1 .. Len(a) /\ DOMAIN b = 1 .. Len(b)
      /\ \A i \in DOMAIN a : ab[i] = a[i] /\ i \in DOMAIN ab
      /\ \A i \in DOMAIN b : ab[Len(a) + i] = b[i] /\ Len(a) + i \in DOMAIN ab
  BY ConcatFacts
<1>2. \A j, k \in DOMAIN ab : ab[j] = ab[k] => j = k
  BY DEF Once
<1> HIDE DEF ab
<1>3. Once(a)
  BY <1>1, <1>2 DEF Once
<1>4. Once(b)
  <2> SUFFICES ASSUME NEW j \in DOMAIN b, NEW k \in DOMAIN b, b[j] = b[k]
               PROVE  j = k
    BY DEF Once
  <2>1. Len(a) + j = Len(a) + k
    BY <1>1, <1>2
  <2> QED  BY <1>1, <2>1
<1>5. ASSUME NEW j \in DOMAIN a, NEW k \in DOMAIN b, a[j] = b[k] PROVE FALSE
  <2>1. j = Len(a) + k
    BY <1>1, <1>2, <1>5
  <2> QED  BY <1>1, <2>1
<1> QED  BY <1>3, <1>4, <1>5

LEMMA ConcatRange ==
  ASSUME NEW S, NEW a \in Seq(S), NEW b \in Seq(S)
  PROVE  ToSet(a \o b) = ToSet(a) \cup ToSet(b)
<1> DEFINE ab == a \o b
<1>1. /\ \A i \in DOMAIN a : ab[i] = a[i] /\ i \in DOMAIN ab
      /\ \A i \in DOMAIN b : ab[Len(a) + i] = b[i] /\ Len(a) + i \in DOMAIN ab
      /\ \A i \in DOMAIN ab : \/ i \in DOMAIN a
                              \/ i - Len(a) \in DOMAIN b /\ ab[i] = b[i - Len(a)]
  BY ConcatFacts
<1> HIDE DEF ab
<1>2. ToSet(ab) = ToSet(a) \cup ToSet(b)
  BY <1>1 DEF ToSet
<1> QED  BY <1>2 DEF ab

\* Nothing repeats among the places of a list that has no repetitions.
LEMMA OnceSelected ==
  ASSUME NEW S, NEW list \in Seq(S), NEW at, Once(list)
  PROVE  /\ Selected(list, at) \in Seq(S) /\ Once(Selected(list, at))
         /\ \A x \in ToSet(Selected(list, at)) : \E k \in DOMAIN list : k \in at /\ list[k] = x
<1> DEFINE out == Selected(list, at)
<1>1. PICK p : Picks(out, S, list, at, Len(list), p)
  BY SelectedPicks
<1> HIDE DEF out
<1>2. /\ out \in Seq(S) /\ Len(out) \in Nat /\ DOMAIN out = 1 .. Len(out)
      /\ Len(list) \in Nat /\ DOMAIN list = 1 .. Len(list)
  BY <1>1 DEF Picks
<1>3. \A k \in 1 .. Len(out) : /\ p[k] \in 1 .. Len(list) /\ p[k] \in at
                               /\ out[k] = list[p[k]]
  BY <1>1 DEF Picks
<1>4. ASSUME NEW j \in 1 .. Len(out), NEW k \in 1 .. Len(out), out[j] = out[k]
      PROVE  j = k
  <2>1. p[j] = p[k]
    BY <1>2, <1>3, <1>4 DEF Once
  <2>2. \A x, y \in 1 .. Len(out) : x < y => p[x] < p[y]
    BY <1>1 DEF Picks
  <2>3. p[j] \in Nat
    BY <1>2, <1>3
  <2>4. ~ (j < k) /\ ~ (k < j)
    BY <2>1, <2>2, <2>3
  <2> QED  BY <1>2, <2>4
<1>5. Once(out)
  BY <1>2, <1>4 DEF Once
<1>6. \A x \in ToSet(out) : \E k \in DOMAIN list : k \in at /\ list[k] = x
  BY <1>2, <1>3 DEF ToSet
<1> QED  BY <1>2, <1>5, <1>6 DEF out

-----------------------------------------------------------------------------
(***************************************************************************)
(* Every file once.                                                        *)
(***************************************************************************)
LEMMA AheadType ==
  ASSUME NEW todo \in Seq(Todo)
  PROVE  /\ Ahead(todo) \in Seq(Nodes) /\ Len(Ahead(todo)) = Len(todo)
         /\ Len(todo) \in Nat
         /\ \A k \in 1 .. Len(todo) : Ahead(todo)[k] = todo[k].node
<1>1. Len(todo) \in Nat
  OBVIOUS
<1>2. \A k \in 1 .. Len(todo) : todo[k].node \in Nodes
  <2> SUFFICES ASSUME NEW k \in 1 .. Len(todo) PROVE todo[k].node \in Nodes
    OBVIOUS
  <2>1. todo[k] \in Todo
    BY ElementOfSeq
  <2> QED  BY <2>1 DEF Todo
<1>3. Ahead(todo) \in [1 .. Len(todo) -> Nodes]
  BY <1>2 DEF Ahead
<1>4. Ahead(todo) \in Seq(Nodes)
  BY <1>1, <1>3, SeqDef
<1> QED  BY <1>1, <1>3, <1>4 DEF Ahead

LEMMA AheadTail ==
  ASSUME NEW todo \in Seq(Todo), todo # <<>>
  PROVE  /\ Ahead(Tail(todo)) = Tail(Ahead(todo))
         /\ Ahead(todo) # <<>> /\ Head(Ahead(todo)) = Head(todo).node
<1>1. /\ Tail(todo) \in Seq(Todo) /\ Len(Tail(todo)) = Len(todo) - 1
      /\ \A k \in 1 .. Len(Tail(todo)) : Tail(todo)[k] = todo[k + 1]
  BY HeadTailProperties
<1>2. Len(todo) \in Nat \ {0} /\ Head(todo) = todo[1]
  OBVIOUS
<1>3. /\ Ahead(todo) \in Seq(Nodes) /\ Len(Ahead(todo)) = Len(todo)
      /\ \A k \in 1 .. Len(todo) : Ahead(todo)[k] = todo[k].node
  BY AheadType
<1>4. Ahead(todo) # <<>>
  BY <1>2, <1>3
<1>5. /\ Tail(Ahead(todo)) \in Seq(Nodes) /\ Len(Tail(Ahead(todo))) = Len(todo) - 1
      /\ \A k \in 1 .. Len(todo) - 1 : Tail(Ahead(todo))[k] = Ahead(todo)[k + 1]
      /\ Head(Ahead(todo)) = Ahead(todo)[1]
  BY <1>3, <1>4, HeadTailProperties
<1>6. Ahead(Tail(todo)) = [k \in 1 .. Len(todo) - 1 |-> todo[k + 1].node]
  BY <1>1 DEF Ahead
<1>7. \A k \in 1 .. Len(todo) - 1 : Tail(Ahead(todo))[k] = todo[k + 1].node
  BY <1>2, <1>3, <1>5
<1>8. Tail(Ahead(todo)) = [k \in 1 .. Len(todo) - 1 |-> Tail(Ahead(todo))[k]]
  BY <1>5, AsFunction
<1> QED  BY <1>2, <1>3, <1>4, <1>5, <1>6, <1>7, <1>8

LEMMA AheadConcat ==
  ASSUME NEW a \in Seq(Todo), NEW b \in Seq(Todo)
  PROVE  Ahead(a \o b) = Ahead(a) \o Ahead(b)
<1>1. /\ Len(a) \in Nat /\ Len(b) \in Nat /\ Len(a \o b) = Len(a) + Len(b)
      /\ \A k \in 1 .. Len(a) + Len(b) :
           (a \o b)[k] = IF k <= Len(a) THEN a[k] ELSE b[k - Len(a)]
  BY ConcatProperties
<1> DEFINE x == Ahead(a)
           y == Ahead(b)
<1>2. /\ x \in Seq(Nodes) /\ Len(x) = Len(a) /\ \A k \in 1 .. Len(a) : x[k] = a[k].node
      /\ y \in Seq(Nodes) /\ Len(y) = Len(b) /\ \A k \in 1 .. Len(b) : y[k] = b[k].node
  BY AheadType
<1> HIDE DEF x, y
<1>3. /\ x \o y \in Seq(Nodes) /\ Len(x \o y) = Len(a) + Len(b)
      /\ \A k \in 1 .. Len(a) + Len(b) :
           (x \o y)[k] = IF k <= Len(a) THEN x[k] ELSE y[k - Len(a)]
  <2>1. /\ x \o y \in Seq(Nodes)
        /\ Len(x \o y) = Len(x) + Len(y)
        /\ \A k \in 1 .. Len(x) + Len(y) :
             (x \o y)[k] = IF k <= Len(x) THEN x[k] ELSE y[k - Len(x)]
    <3>1. x \in Seq(Nodes) /\ y \in Seq(Nodes)
      BY <1>2
    <3> QED  BY <3>1, ConcatProperties
  <2>2. Len(x) = Len(a) /\ Len(y) = Len(b)
    BY <1>2
  <2>3. Len(x) + Len(y) = Len(a) + Len(b)
    BY <2>2
  <2>4. \A k \in 1 .. Len(a) + Len(b) :
          (x \o y)[k] = IF k <= Len(a) THEN x[k] ELSE y[k - Len(a)]
    BY <2>1, <2>2
  <2> QED  BY <2>1, <2>3, <2>4
<1>4. ASSUME NEW k \in 1 .. Len(a) + Len(b) PROVE (a \o b)[k].node = (x \o y)[k]
  <2>1. CASE k <= Len(a)
    BY <1>1, <1>2, <1>3, <2>1
  <2>2. CASE ~ (k <= Len(a))
    <3>1. k - Len(a) \in 1 .. Len(b)
      BY <1>1, <2>2
    <3> QED  BY <1>1, <1>2, <1>3, <2>2, <3>1
  <2> QED  BY <2>1, <2>2
<1>5. Ahead(a \o b) = [k \in 1 .. Len(a) + Len(b) |-> (a \o b)[k].node]
  BY <1>1 DEF Ahead
<1>6. x \o y = [k \in 1 .. Len(a) + Len(b) |-> (x \o y)[k]]
  BY <1>3, AsFunction
<1>7. Ahead(a \o b) = x \o y
  BY <1>4, <1>5, <1>6
<1> QED  BY <1>7 DEF x, y

\* The members of a container that are no system files.
Seen(d) == Selected(Members[d],
             {k \in DOMAIN Members[d] : Kind[Members[d][k]] # "ignorable"})

LEMMA WalkAhead ==
  ASSUME NEW d \in DOMAIN Members, NEW depth \in Nat
  PROVE  /\ Ahead(Walk(d, depth)) = Seen(d)
         /\ Seen(d) \in Seq(Nodes) /\ Once(Seen(d))
         /\ \A n \in ToSet(Seen(d)) : Lies(n, d)
<1>1. Members[d] \in Seq(Nodes)
  BY ScanAssumption
<1>2. Once(Members[d])
  BY TreeAssumption DEF Once
<1>3. /\ Seen(d) \in Seq(Nodes) /\ Once(Seen(d))
      /\ \A n \in ToSet(Seen(d)) : Lies(n, d)
  BY <1>1, <1>2, OnceSelected DEF Seen, Lies
<1>4. Walk(d, depth) = [k \in 1 .. Len(Seen(d)) |-> [node |-> Seen(d)[k], depth |-> depth]]
  BY DEF Walk, Seen
<1> HIDE DEF Seen
<1>5. Len(Seen(d)) \in Nat
  BY <1>3
<1>6. Walk(d, depth) \in Seq(Todo)
  BY WalkType
<1>7. Len(Walk(d, depth)) = Len(Seen(d))
  BY <1>4, <1>5, <1>6
<1>8. Ahead(Walk(d, depth)) = [k \in 1 .. Len(Seen(d)) |-> Seen(d)[k]]
  BY <1>4, <1>7 DEF Ahead
<1>9. Seen(d) = [k \in 1 .. Len(Seen(d)) |-> Seen(d)[k]]
  BY <1>3, AsFunction
<1> QED  BY <1>3, <1>8, <1>9

LEMMA HeadThenTail ==
  ASSUME NEW S, NEW a \in Seq(S), a # <<>>
  PROVE  <<Head(a)>> \o Tail(a) = a /\ Head(a) \in S /\ Tail(a) \in Seq(S)
<1>1. Len(a) \in Nat \ {0} /\ Head(a) = a[1]
  OBVIOUS
<1>2. 1 \in 1 .. Len(a) /\ Len(a) \in 1 .. Len(a) /\ 1 + 1 = 2
  BY <1>1
<1>3. SubSeq(a, 1, Len(a)) = <<a[1]>> \o SubSeq(a, 1 + 1, Len(a))
  BY <1>2, SubSeqRecursiveFirst
<1>4. SubSeq(a, 1, Len(a)) = a
  BY SubSeqFull
<1>5. Tail(a) = SubSeq(a, 2, Len(a))
  BY TailIsSubSeq
<1>6. <<Head(a)>> \o Tail(a) = a
  BY <1>1, <1>2, <1>3, <1>4, <1>5
<1> QED  BY <1>6, HeadTailProperties

LEMMA AppendThen ==
  ASSUME NEW S, NEW f \in Seq(S), NEW x \in S, NEW b \in Seq(S)
  PROVE  Append(f, x) \o b = f \o (<<x>> \o b)
<1>1. <<x>> \in Seq(S)
  OBVIOUS
<1>2. Append(f, x) = f \o <<x>>
  OBVIOUS
<1>3. (f \o <<x>>) \o b = f \o (<<x>> \o b)
  BY <1>1, ConcatAssociative
<1> QED  BY <1>2, <1>3

\* What a loop takes from the head of one list it adds to the end of another.
LEMMA AppendShift ==
  ASSUME NEW S, NEW f \in Seq(S), NEW a \in Seq(S), a # <<>>
  PROVE  Append(f, Head(a)) \o Tail(a) = f \o a
<1>1. Head(a) \in S /\ Tail(a) \in Seq(S) /\ <<Head(a)>> \o Tail(a) = a
  BY HeadThenTail
<1> QED  BY <1>1, AppendThen

\* The invariant of the scan, of one call.
ListedAt(c) ==
  /\ Once(scan[c].files)
  /\ scan[c].pc = "walk" =>
       Once(Course(c)) /\ \E opened \in SUBSET Nodes : Opens(c, opened)

LEMMA ListedPut ==
  ASSUME ScanTypeOK, ListedOnce, NEW c \in FolderCalls, NEW s \in Scan,
         scan' = [scan EXCEPT ![c] = s], Once(s.files),
         s.pc = "walk" => ListedAt(c)'
  PROVE  ListedOnce'
<1>1. scan \in [FolderCalls -> Scan]
  BY ScanTyped
<1>2. scan'[c] = s /\ \A d \in FolderCalls \ {c} : scan'[d] = scan[d]
  BY <1>1
<1>3. ListedAt(c)'
  <2>1. CASE s.pc = "walk"
    BY <2>1
  <2>2. CASE s.pc # "walk"
    BY <2>2, <1>2 DEF ListedAt
  <2> QED  BY <2>1, <2>2
<1>4. \A d \in FolderCalls \ {c} : ListedAt(d)'
  BY <1>2 DEF ListedOnce, ListedAt, Course, Opens
<1> QED  BY <1>3, <1>4 DEF ListedOnce, ListedAt

\* A step that takes the first item of the walk and lists it.
LEMMA ListingKeeps ==
  ASSUME ScanTypeOK, ListedOnce, NEW c \in FolderCalls, MayScan(c), NEW s \in Scan,
         scan' = [scan EXCEPT ![c] = s], s.pc = scan[c].pc,
         s.files = Append(scan[c].files, Item(c).node), s.todo = Tail(scan[c].todo)
  PROVE  ListedOnce'
<1> DEFINE todo == scan[c].todo
           files == scan[c].files
<1>1. scan \in [FolderCalls -> Scan] /\ scan[c] \in Scan
  BY ScanTyped
<1>2. todo \in Seq(Todo) /\ todo # <<>> /\ files \in Seq(Nodes) /\ scan[c].pc = "walk"
  BY <1>1 DEF Scan, MayScan
<1>3. scan'[c] = s
  BY <1>1
<1>4. Course(c)' = Append(files, Item(c).node) \o Ahead(Tail(todo))
  BY <1>3 DEF Course
<1>5. /\ Ahead(todo) \in Seq(Nodes) /\ Ahead(todo) # <<>>
      /\ Head(Ahead(todo)) = Item(c).node /\ Ahead(Tail(todo)) = Tail(Ahead(todo))
  BY <1>2, AheadType, AheadTail DEF Item
<1>6. Course(c) = files \o Ahead(todo)
  BY DEF Course
<1> HIDE DEF todo, files
<1>7. Course(c)' = Course(c)
  BY <1>2, <1>4, <1>5, <1>6, AppendShift
<1>8. Once(Course(c)) /\ \E opened \in SUBSET Nodes : Opens(c, opened)
  BY <1>2 DEF ListedOnce
<1>9. \E opened \in SUBSET Nodes : Opens(c, opened)'
  BY <1>7, <1>8 DEF Opens
<1>10. Once(Course(c)')
  BY <1>7, <1>8
<1>11. Once(Append(files, Item(c).node))
  <2>1. Append(files, Item(c).node) \in Seq(Nodes) /\ Ahead(Tail(todo)) \in Seq(Nodes)
    BY <1>2, <1>5, ItemType, HeadTailProperties DEF files
  <2> QED  BY <1>4, <1>10, <2>1, OnceParts
<1>12. Once(s.files)
  BY <1>11 DEF files
<1>13. ListedAt(c)'
  BY <1>3, <1>9, <1>10, <1>12 DEF ListedAt
<1> QED  BY <1>12, <1>13, ListedPut

LEMMA RangeType ==
  ASSUME NEW S, NEW s \in Seq(S)
  PROVE  ToSet(s) \subseteq S /\ \A k \in DOMAIN s : s[k] \in ToSet(s)
<1>1. DOMAIN s = 1 .. Len(s)
  BY LenProperties
<1> QED  BY <1>1, ElementOfSeq DEF ToSet

LEMMA LiesOnce ==
  ASSUME NEW n, NEW d \in DOMAIN Members, NEW e \in DOMAIN Members, Lies(n, d), Lies(n, e)
  PROVE  d = e
BY TreeAssumption DEF Lies

LEMMA OnceIff ==
  ASSUME NEW S, NEW a \in Seq(S), NEW b \in Seq(S)
  PROVE  Once(a \o b) <=> Once(a) /\ Once(b) /\ ToSet(a) \cap ToSet(b) = {}
<1>1. ASSUME Once(a \o b) PROVE Once(a) /\ Once(b) /\ ToSet(a) \cap ToSet(b) = {}
  BY <1>1, OnceParts DEF ToSet
<1>2. ASSUME Once(a), Once(b), ToSet(a) \cap ToSet(b) = {} PROVE Once(a \o b)
  <2>1. \A j \in DOMAIN a, k \in DOMAIN b : a[j] # b[k]
    BY <1>2 DEF ToSet
  <2> QED  BY <1>2, <2>1, OnceConcat
<1> QED  BY <1>1, <1>2

LEMMA OpeningKeeps ==
  ASSUME ScanTypeOK, ListedOnce, NEW c \in FolderCalls, OpenArchive(c)
  PROVE  ListedOnce'
<1> DEFINE n == Item(c).node
           files == scan[c].files
           todo == scan[c].todo
           a == Ahead(todo)
           seen == Seen(n)
           rest == Tail(a)
           new == seen \o rest
           s == [scan[c] EXCEPT !.archives = @ + 1,
                                !.todo = Walk(n, Item(c).depth + 1) \o Tail(todo)]
<1>1. scan \in [FolderCalls -> Scan] /\ scan[c] \in Scan
  BY ScanTyped
<1>2. /\ MayScan(c) /\ Kind[n] = "archive" /\ scan[c].pc = "walk"
      /\ scan' = [scan EXCEPT ![c] = s]
  BY DEF OpenArchive, MayOpen, MayScan
<1>3. /\ todo \in Seq(Todo) /\ todo # <<>> /\ files \in Seq(Nodes)
      /\ n \in Nodes /\ Item(c).depth + 1 \in Nat /\ Tail(todo) \in Seq(Todo)
  <2>1. scan[c].todo \in Seq(Todo) /\ scan[c].files \in Seq(Nodes)
    BY <1>1 DEF Scan
  <2>2. scan[c].todo # <<>>
    BY <1>2 DEF MayScan
  <2>3. Item(c).node \in Nodes /\ Item(c).depth \in Nat /\ Tail(scan[c].todo) \in Seq(Todo)
    BY <1>2, ItemType
  <2> QED  BY <2>1, <2>2, <2>3
<1>4. n \in DOMAIN Members /\ n # Root
  BY <1>2, <1>3, ScanAssumption
<1>5. /\ a \in Seq(Nodes) /\ a # <<>> /\ Head(a) = n /\ rest \in Seq(Nodes)
      /\ Ahead(Tail(todo)) = rest /\ <<n>> \o rest = a
  BY <1>3, AheadType, AheadTail, HeadThenTail DEF Item
<1>6. /\ Walk(n, Item(c).depth + 1) \in Seq(Todo)
      /\ Ahead(Walk(n, Item(c).depth + 1)) = seen
      /\ seen \in Seq(Nodes) /\ Once(seen) /\ \A m \in ToSet(seen) : Lies(m, n)
  BY <1>3, <1>4, WalkType, WalkAhead
<1>7. s.files = files /\ s.todo = Walk(n, Item(c).depth + 1) \o Tail(todo)
  BY <1>1 DEF Scan
<1>8. s \in Scan
  <2>1. ScanTypeOK'
    BY ScanKeepsTypes DEF ScanStep
  <2>2. scan'[c] \in Scan
    BY <2>1 DEF ScanTypeOK, Scan, Todo
  <2> QED  BY <1>1, <1>2, <2>2
<1>9. Ahead(s.todo) = new
  BY <1>3, <1>5, <1>6, <1>7, AheadConcat
<1>10. Course(c)' = files \o new /\ scan'[c] = s
  BY <1>1, <1>2, <1>7, <1>9 DEF Course
<1>11. Course(c) = files \o a /\ Once(Course(c))
  BY <1>2 DEF Course, ListedOnce
<1>12. PICK opened \in SUBSET Nodes : Opens(c, opened)
  BY <1>2 DEF ListedOnce
<1> HIDE DEF n, files, todo, a, seen, s, rest
<1>13. files \in Seq(Nodes) /\ a \in Seq(Nodes) /\ seen \in Seq(Nodes) /\ rest \in Seq(Nodes)
  BY <1>3, <1>5, <1>6
<1>14. /\ Once(files) /\ Once(a) /\ ToSet(files) \cap ToSet(a) = {}
       /\ ToSet(Course(c)) = ToSet(files) \cup ToSet(a)
  BY <1>3, <1>5, <1>11, OnceIff, ConcatRange
<1>15. <<n>> \in Seq(Nodes) /\ ToSet(<<n>>) = {n}
  BY <1>3 DEF ToSet
<1>16. /\ Once(rest) /\ n \notin ToSet(rest) /\ ToSet(a) = {n} \cup ToSet(rest)
  <2>1. Once(<<n>> \o rest)
    BY <1>5, <1>14
  <2>2. Once(rest) /\ ToSet(<<n>>) \cap ToSet(rest) = {}
    BY <1>5, <1>15, <2>1, OnceIff
  <2>3. ToSet(<<n>> \o rest) = ToSet(<<n>>) \cup ToSet(rest)
    <3>1. <<n>> \in Seq(Nodes) /\ rest \in Seq(Nodes)
      BY <1>15, <1>13
    <3> QED  BY <3>1, ConcatRange
  <2> QED  BY <1>5, <1>15, <2>2, <2>3
<1>17. ASSUME NEW m \in ToSet(seen), m \in ToSet(Course(c)) \cup opened PROVE FALSE
  <2>1. Lies(m, n)
    BY <1>6
  <2>2. PICK d \in opened \cup {Root} : Lies(m, d)
    BY <1>12, <1>17 DEF Opens
  <2>3. d \in DOMAIN Members
    BY <1>12, <2>2, ScanAssumption DEF Opens
  <2>4. d = n
    BY <1>4, <2>1, <2>2, <2>3, LiesOnce
  <2>5. n \in ToSet(Course(c))
    BY <1>14, <1>16
  <2> QED  BY <1>4, <1>12, <2>2, <2>4, <2>5 DEF Opens
<1>18. ToSet(new) = ToSet(seen) \cup ToSet(rest) /\ new \in Seq(Nodes)
  <2>1. ToSet(seen \o rest) = ToSet(seen) \cup ToSet(rest)
    BY <1>13, ConcatRange
  <2>2. seen \o rest \in Seq(Nodes)
    BY <1>13, ConcatProperties
  <2> QED  BY <2>1, <2>2
<1>19. ToSet(seen) \cap (ToSet(Course(c)) \cup opened) = {}
  BY <1>17
<1>20. Once(new)
  <2>1. ToSet(seen) \cap ToSet(rest) = {} /\ Once(seen) /\ Once(rest)
    BY <1>6, <1>14, <1>16, <1>19
  <2>2. Once(seen \o rest)
    BY <1>13, <2>1, OnceIff
  <2> QED  BY <2>2
<1> HIDE DEF new
<1>21. Once(files \o new)
  <2>1. Once(files) /\ ToSet(files) \cap ToSet(new) = {}
    BY <1>14, <1>16, <1>18, <1>19
  <2>2. files \in Seq(Nodes) /\ new \in Seq(Nodes)
    BY <1>18, <1>13
  <2> QED  BY <1>20, <2>1, <2>2, OnceIff
<1>22. ToSet(files \o new) = ToSet(files) \cup (ToSet(seen) \cup ToSet(rest))
  <2>1. files \in Seq(Nodes) /\ new \in Seq(Nodes)
    BY <1>18, <1>13
  <2>2. ToSet(files \o new) = ToSet(files) \cup ToSet(new)
    BY <2>1, ConcatRange
  <2> QED  BY <1>18, <2>2
<1>23. PICK now : now = opened \cup {n}
  OBVIOUS
<1>24. Opens(c, now)'
  <2> DEFINE course == files \o new
  <2>1. \A m \in opened \cup {n} : m \in Nodes /\ Kind[m] = "archive"
    BY <1>2, <1>3, <1>12 DEF Opens, n
  <2>2. (opened \cup {n}) \cap ToSet(course) = {}
    BY <1>12, <1>14, <1>16, <1>17, <1>22 DEF Opens
  <2>3. ASSUME NEW m \in (opened \cup {n}) \cup ToSet(course)
        PROVE  \E d \in (opened \cup {n}) \cup {Root} : Lies(m, d)
    <3>1. CASE m \in ToSet(seen)
      BY <1>6, <3>1
    <3>2. CASE m \notin ToSet(seen)
      <4>1. m \in opened \cup ToSet(Course(c))
        BY <1>14, <1>16, <1>22, <3>2
      <4> QED  BY <1>12, <4>1 DEF Opens
    <3> QED  BY <3>1, <3>2
  <2> HIDE DEF course
  <2>4. Course(c)' = course
    BY <1>10 DEF course
  <2>5. now \cap ToSet(Course(c)') = {} /\ \A m \in now : m \in Nodes /\ Kind[m] = "archive"
    BY <1>23, <2>1, <2>2, <2>4
  <2>6. \A m \in now \cup ToSet(Course(c)') : \E d \in now \cup {Root} : Lies(m, d)
    BY <1>23, <2>3, <2>4
  <2> QED  BY <2>5, <2>6 DEF Opens
<1>25. now \in SUBSET Nodes
  BY <1>3, <1>23
<1>26. \E o \in SUBSET Nodes : Opens(c, o)'
  BY <1>24, <1>25
<1>27. Once(Course(c)')
  BY <1>10, <1>21
<1>28. Once(scan'[c].files)
  BY <1>7, <1>10, <1>14
<1>29. ListedAt(c)'
  BY <1>26, <1>27, <1>28 DEF ListedAt
<1> QED  BY <1>2, <1>7, <1>8, <1>14, <1>29, ListedPut

LEMMA StartKeeps ==
  ASSUME ScanTypeOK, ListedOnce, NEW c \in FolderCalls, Start(c)
  PROVE  ListedOnce'
<1> DEFINE s == [NoScan EXCEPT !.pc = "walk", !.todo = Walk(Root, 0)]
<1>1. Root \in DOMAIN Members
  BY ScanAssumption
<1>2. /\ Ahead(Walk(Root, 0)) = Seen(Root)
      /\ Seen(Root) \in Seq(Nodes) /\ Once(Seen(Root))
      /\ \A n \in ToSet(Seen(Root)) : Lies(n, Root)
  BY <1>1, WalkAhead
<1>3. scan \in [FolderCalls -> Scan] /\ scan' = [scan EXCEPT ![c] = s]
  BY ScanTyped DEF Start
<1>4. s.files = <<>> /\ s.todo = Walk(Root, 0) /\ s.pc = "walk"
  BY DEF NoScan
<1>5. scan'[c] = s
  BY <1>3
<1>6. s \in Scan
  <2>1. ScanTypeOK'
    BY StartTypes
  <2>2. scan'[c] \in Scan
    BY <2>1 DEF ScanTypeOK, Scan, Todo
  <2> QED  BY <1>5, <2>2
<1> HIDE DEF s
<1>7. <<>> \o Seen(Root) = Seen(Root)
  BY <1>2, ConcatEmptySeq
<1>8. Course(c)' = Seen(Root)
  BY <1>2, <1>4, <1>5, <1>7 DEF Course
<1>9. Once(<<>>)
  BY DEF Once
<1>10. PICK opened : opened = {}
  OBVIOUS
<1>11. Opens(c, opened)' /\ opened \in SUBSET Nodes
  BY <1>2, <1>8, <1>10 DEF Opens
<1>12. \E o \in SUBSET Nodes : Opens(c, o)'
  BY <1>11
<1>13. Once(Course(c)') /\ Once(scan'[c].files)
  BY <1>2, <1>4, <1>5, <1>8, <1>9
<1>14. ListedAt(c)'
  BY <1>12, <1>13 DEF ListedAt
<1> QED  BY <1>3, <1>4, <1>6, <1>9, <1>14, ListedPut

LEMMA FinishingKeeps ==
  ASSUME ScanTypeOK, ListedOnce, NEW c \in FolderCalls, FinishScan(c)
  PROVE  ListedOnce'
<1> DEFINE files == scan[c].files
           places == DOMAIN files
           Sorted(from) == [k \in places |-> files[from[k]]]
           Result(from) == [scan[c] EXCEPT !.pc = "listed", !.files = Sorted(from)]
<1>1. scan \in [FolderCalls -> Scan] /\ scan[c] \in Scan
  BY ScanTyped
<1>2. PICK from \in Bijection(places, places) : scan' = [scan EXCEPT ![c] = Result(from)]
  BY DEF FinishScan
<1>3. /\ from \in [places -> places]
      /\ \A j, k \in places : from[j] = from[k] => j = k
  BY <1>2 DEF Bijection, Injection, IsInjective
<1>4. Once(files)
  BY DEF ListedOnce
<1>5. DOMAIN Sorted(from) = places /\ \A k \in places : Sorted(from)[k] = files[from[k]]
  OBVIOUS
<1>6. Once(Sorted(from))
  BY <1>3, <1>4, <1>5 DEF Once
<1>7. Result(from).files = Sorted(from) /\ Result(from).pc = "listed"
  BY <1>1 DEF Scan
<1>8. scan'[c] = Result(from)
  BY <1>1, <1>2
<1>9. Result(from) \in Scan
  <2>1. ScanTypeOK'
    BY ScanKeepsTypes DEF ScanStep
  <2>2. scan'[c] \in Scan
    BY <2>1 DEF ScanTypeOK, Scan, Todo
  <2> QED  BY <1>8, <2>2
<1> HIDE DEF Result
<1>10. Once(Result(from).files) /\ Result(from).pc # "walk"
  BY <1>6, <1>7
<1> QED  BY <1>2, <1>9, <1>10, ListedPut

LEMMA ScanKeeps ==
  ASSUME ScanTypeOK, ListedOnce, NEW c \in FolderCalls, ScanStep(c)
  PROVE  /\ ScanTypeOK' /\ ListedOnce'
         /\ \A d \in FolderCalls \ {c} : scan'[d] = scan[d]
<1> DEFINE n == Item(c).node
<1>1. scan \in [FolderCalls -> Scan] /\ scan[c] \in Scan
  BY ScanTyped
<1>2. ScanTypeOK'
  BY ScanKeepsTypes
<1>3. scan'[c] \in Scan
  BY <1>2 DEF ScanTypeOK, Scan, Todo
<1>4. PICK s : scan' = [scan EXCEPT ![c] = s]
  <2>1. CASE ScanFails(c)
    BY <2>1 DEF ScanFails
  <2>2. CASE ListFile(c)
    BY <2>2 DEF ListFile
  <2>3. CASE ListDeepArchive(c)
    BY <2>3 DEF ListDeepArchive
  <2>4. CASE OpenArchive(c)
    BY <2>4 DEF OpenArchive
  <2>5. CASE ListBrokenArchive(c)
    BY <2>5 DEF ListBrokenArchive
  <2>6. CASE FinishScan(c)
    BY <2>6 DEF FinishScan
  <2> QED  BY <2>1, <2>2, <2>3, <2>4, <2>5, <2>6 DEF ScanStep
<1>5. scan'[c] = s /\ s \in Scan /\ \A d \in FolderCalls \ {c} : scan'[d] = scan[d]
  BY <1>1, <1>3, <1>4
<1>6. CASE ScanFails(c)
  <2>1. s = [scan[c] EXCEPT !.pc = "failed"]
    BY <1>1, <1>5, <1>6 DEF ScanFails
  <2>2. s.files = scan[c].files /\ s.pc = "failed"
    BY <1>1, <2>1 DEF Scan
  <2>3. Once(s.files) /\ s.pc # "walk"
    BY <2>2 DEF ListedOnce
  <2>4. ListedOnce'
    BY <1>4, <1>5, <2>3, ListedPut
  <2> QED  BY <1>2, <1>5, <2>4
<1>7. ASSUME MayScan(c), s.pc = scan[c].pc, s.files = Append(scan[c].files, n),
             s.todo = Tail(scan[c].todo)
      PROVE  ListedOnce'
  BY <1>4, <1>5, <1>7, ListingKeeps
<1>8. ASSUME NEW skip, s = ListCounted(scan[c], n, Item(c).depth, skip)
      PROVE  /\ s.pc = scan[c].pc /\ s.files = Append(scan[c].files, n)
             /\ s.todo = Tail(scan[c].todo)
  BY <1>1, <1>8 DEF ListCounted, Scan
<1>9. CASE ListFile(c)
  <2>1. MayScan(c) /\ s = ListCounted(scan[c], n, Item(c).depth, Kind[n] = "unsupported")
    BY <1>1, <1>5, <1>9 DEF ListFile
  <2> HIDE DEF n
  <2> QED  BY <1>2, <1>5, <1>7, <1>8, <2>1
<1>10. CASE ListDeepArchive(c)
  <2>1. MayScan(c)
    BY <1>10 DEF ListDeepArchive
  <2>2. s = [scan[c] EXCEPT !.files = Append(@, n), !.skipped = @ \cup {n}, !.todo = Tail(@)]
    BY <1>1, <1>5, <1>10 DEF ListDeepArchive
  <2>3. /\ s.pc = scan[c].pc /\ s.files = Append(scan[c].files, n)
        /\ s.todo = Tail(scan[c].todo)
    BY <1>1, <2>2 DEF Scan
  <2> QED  BY <1>2, <1>5, <1>7, <2>1, <2>3
<1>11. CASE ListBrokenArchive(c)
  <2> DEFINE listed == ListCounted(scan[c], n, Item(c).depth, TRUE)
  <2>1. MayScan(c) /\ s = [listed EXCEPT !.archives = listed.archives + 1]
    BY <1>1, <1>5, <1>11 DEF ListBrokenArchive, MayOpen
  <2>2. listed \in Scan
    BY <2>1, ListCountedType
  <2>3. /\ listed.pc = scan[c].pc /\ listed.files = Append(scan[c].files, n)
        /\ listed.todo = Tail(scan[c].todo)
    BY <1>1 DEF ListCounted, Scan
  <2> HIDE DEF listed
  <2>4. s.pc = listed.pc /\ s.files = listed.files /\ s.todo = listed.todo
    BY <2>1, <2>2 DEF Scan
  <2> QED  BY <1>2, <1>5, <1>7, <2>1, <2>3, <2>4
<1>12. CASE OpenArchive(c)
  BY <1>2, <1>5, <1>12, OpeningKeeps
<1>13. CASE FinishScan(c)
  BY <1>2, <1>5, <1>13, FinishingKeeps
<1> QED  BY <1>6, <1>9, <1>10, <1>11, <1>12, <1>13 DEF ScanStep

-----------------------------------------------------------------------------
(***************************************************************************)
(* Steps of a call.                                                        *)
(***************************************************************************)
CallRow ==
  [pc: {"off", "scan", "create", "open", "documents", "trash", "extract",
        "write", "complete", "failing", "over", "killed"},
   name: Names \cup {NoName}, request: TextRequests, include: BOOLEAN,
   left: Seq(Row), buffer: Seq(Row), written: Nat, rows: Nat,
   exported: Nat, skipped: Nat, lost: BOOLEAN]

ExportRow == [status: {"none", "running", "succeeded", "failed"},
              name: Names \cup {NoName}, rows: Nat]

Content == Seq(Row \cup {Hole})

LEMMA Typed ==
  ASSUME TypeOK
  PROVE  /\ call \in [Calls -> CallRow] /\ exports \in [Calls -> ExportRow]
         /\ disk \in [Names -> Content] /\ killed \in Nat
         /\ ScanTypeOK /\ OCRTypeOK
BY DEF TypeOK, CallRow, ExportRow, Content

LEMMA NoNameIsNone == NoName \notin Names
BY DEF NoName, Names

\* The invariant of a call the step is not of.
LEMMA OtherKeeps ==
  ASSUME ExportInv, NEW c \in Calls, NEW k \in CallRow, call' = [call EXCEPT ![c] = k],
         UNCHANGED <<cancelled, worldVars>>,
         \A d \in Calls \ {c} : exports'[d] = exports[d],
         \A n \in Names \ {k.name} : disk'[n] = disk[n],
         k.name = call[c].name \/ call[c].name = NoName,
         \A d \in FolderCalls \ {c} : scan'[d] = scan[d] /\ ocr'[d] = ocr[d],
         NEW d \in Calls \ {c}
  PROVE  CallInv(d)'
<1>1. call \in [Calls -> CallRow] /\ CallInv(d)
  BY Typed DEF ExportInv
<1>2. call'[d] = call[d] /\ call'[c] = k
  BY <1>1
<1>3. /\ exports'[d] = exports[d] /\ cancelled' = cancelled /\ stored' = stored
      /\ d \in FolderCalls => scan'[d] = scan[d] /\ ocr'[d] = ocr[d]
  BY DEF worldVars
<1>4. KindOf(d)' /\ NotYet(d)' /\ Interrupted(d)' /\ Fresh(d)' /\ Settled(d)'
  BY <1>1, <1>2, <1>3 DEF CallInv, KindOf, NotYet, Interrupted, Live, Fresh, Settled,
       Succeeded
<1>5. Extracting(d)' /\ ListsDiffer(d)'
  BY <1>1, <1>2, <1>3 DEF CallInv, Extracting, Done, ListsDiffer
<1>6. Fills(d)'
  <2> SUFFICES ASSUME Writes(d) \/ Succeeded(d)
               PROVE  Counted(d)' /\ (Alone(d)' => OwnRows(d)')
    BY <1>2, <1>3 DEF Fills, Writes, Succeeded
  <2>1. Counted(d) /\ (Alone(d) => OwnRows(d))
    BY <1>1 DEF CallInv, Fills
  <2>2. Counted(d)'
    BY <1>2, <1>3, <2>1 DEF Counted, Succeeded, Done
  <2>3. ASSUME Alone(d)' PROVE OwnRows(d)'
    <3>1. call[d].name \in Names
      BY <2>1 DEF Counted
    <3>2. \A e \in Calls \ {d} : call'[e].name # call[d].name
      BY <1>2, <2>3 DEF Alone
    <3>3. call[c].name # call[d].name /\ k.name # call[d].name
      BY <1>2, <3>1, <3>2, NoNameIsNone
    <3>4. \A e \in Calls \ {d} : call[e].name # call[d].name
      BY <1>1, <3>2, <3>3
    <3>5. OwnRows(d)
      BY <2>1, <3>4 DEF Alone
    <3>6. disk'[call[d].name] = disk[call[d].name]
      BY <3>1, <3>3
    <3>7. Rows(d)' = Rows(d)
      BY <1>2, <3>6 DEF Rows
    <3> QED  BY <1>2, <1>3, <3>5, <3>6, <3>7 DEF OwnRows, Done
  <2> QED  BY <2>2, <2>3
<1> QED  BY <1>4, <1>5, <1>6 DEF CallInv

LEMMA StepKeeps ==
  ASSUME ExportInv, NEW c \in Calls, NEW k \in CallRow, call' = [call EXCEPT ![c] = k],
         UNCHANGED <<cancelled, worldVars>>,
         exports' \in [Calls -> ExportRow],
         \A d \in Calls \ {c} : exports'[d] = exports[d],
         disk' \in [Names -> Content],
         \A n \in Names \ {k.name} : disk'[n] = disk[n],
         k.name = call[c].name \/ call[c].name = NoName,
         ScanTypeOK', OCRInv', ListedOnce',
         \A d \in FolderCalls \ {c} : scan'[d] = scan[d] /\ ocr'[d] = ocr[d],
         CallInv(c)'
  PROVE  ExportInv'
<1>1. \A d \in Calls \ {c} : CallInv(d)'
  BY OtherKeeps
<1>2. call' \in [Calls -> CallRow]
  BY Typed DEF ExportInv
<1>3. TypeOK'
  BY <1>2 DEF TypeOK, CallRow, ExportRow, Content, ExportInv, OCRInv, worldVars
<1> QED  BY <1>1, <1>3 DEF ExportInv

\* A step of c that concerns neither a scan nor an extraction.
LEMMA PlainStep ==
  ASSUME ExportInv, NEW c \in Calls, NEW k \in CallRow, call' = [call EXCEPT ![c] = k],
         UNCHANGED <<cancelled, worldVars>>, UNCHANGED <<scan, ocrVars>>,
         exports' \in [Calls -> ExportRow],
         \A d \in Calls \ {c} : exports'[d] = exports[d],
         disk' \in [Names -> Content],
         \A n \in Names \ {k.name} : disk'[n] = disk[n],
         k.name = call[c].name \/ call[c].name = NoName,
         CallInv(c)'
  PROVE  ExportInv'
<1>1. OCRInv'
  BY OCRIdle DEF ExportInv, worldVars
<1>2. ScanTypeOK' /\ ListedOnce'
  BY Typed DEF ExportInv, ScanTypeOK, ListedOnce, Opens, Course
<1>3. \A d \in FolderCalls \ {c} : scan'[d] = scan[d] /\ ocr'[d] = ocr[d]
  BY DEF ocrVars
<1> QED  BY <1>1, <1>2, <1>3, StepKeeps

LEMMA CallFacts ==
  ASSUME ExportInv, NEW c \in Calls
  PROVE  /\ call \in [Calls -> CallRow] /\ call[c] \in CallRow
         /\ exports \in [Calls -> ExportRow] /\ exports[c] \in ExportRow
         /\ disk \in [Names -> Content]
         /\ CallInv(c)
BY Typed DEF ExportInv

\* An extraction is under way only where the call writes the rows of a folder.
LEMMA NotExtracting ==
  ASSUME ExportInv, NEW c \in FolderCalls, call[c].pc # "extract"
  PROVE  ocr[c].pc = "off"
<1>1. c \in Calls
  BY DEF Calls
<1> QED  BY <1>1, CallFacts DEF CallInv, Extracting

LEMMA OpenFailsKeeps ==
  ASSUME ExportInv, NEW c \in Calls, OpenFails(c), UNCHANGED <<scan, ocrVars>>,
         UNCHANGED <<cancelled, worldVars>>
  PROVE  ExportInv'
<1> DEFINE k == [call[c] EXCEPT !.pc = "failing"]
<1>1. /\ call \in [Calls -> CallRow] /\ call[c] \in CallRow
      /\ exports \in [Calls -> ExportRow] /\ disk \in [Names -> Content] /\ CallInv(c)
  BY CallFacts
<1>2. /\ k \in CallRow /\ k.pc = "failing" /\ k.name = call[c].name
      /\ k.exported = call[c].exported /\ k.skipped = call[c].skipped
  BY <1>1 DEF CallRow
<1>3. call' = [call EXCEPT ![c] = k] /\ exports' = exports /\ disk' = disk
  BY DEF OpenFails, Goes
<1> HIDE DEF k
<1>4. call'[c] = k
  BY <1>1, <1>3
<1>5. call[c].pc = "open"
  BY DEF OpenFails
<1>6. KindOf(c)' /\ NotYet(c)' /\ Interrupted(c)' /\ Fresh(c)' /\ ListsDiffer(c)'
  BY <1>2, <1>4 DEF KindOf, NotYet, Interrupted, Live, Fresh, ListsDiffer
<1>7. Extracting(c)'
  BY <1>1, <1>2, <1>4, <1>5 DEF CallInv, Extracting, Done, ocrVars
<1>8. ~Succeeded(c)'
  BY <1>1, <1>3, <1>5 DEF CallInv, Settled, Succeeded
<1>9. Settled(c)' /\ Fills(c)'
  BY <1>2, <1>4, <1>8 DEF Settled, Fills, Writes
<1>10. CallInv(c)'
  BY <1>6, <1>7, <1>9 DEF CallInv
<1> QED  BY <1>1, <1>2, <1>3, <1>10, PlainStep

\* The counters stay, and no extraction is under way.
LEMMA CountersStay ==
  ASSUME ExportInv, NEW c \in Calls, UNCHANGED <<scan, ocrVars>>,
         call[c].pc # "extract",
         call'[c].exported = call[c].exported, call'[c].skipped = call[c].skipped
  PROVE  Extracting(c)'
BY CallFacts DEF CallInv, Extracting, Done, ocrVars

\* A call that is over when its row has not succeeded.
LEMMA EndsPlainly ==
  ASSUME ExportInv, NEW c \in Calls, UNCHANGED <<scan, ocrVars>>,
         call[c].pc # "extract",
         call'[c].exported = call[c].exported, call'[c].skipped = call[c].skipped,
         call'[c].pc \in {"over", "failing"}, exports'[c].status # "succeeded",
         call'[c].pc = "over" => call'[c].lost \/ exports'[c].status # "running"
  PROVE  CallInv(c)'
<1>1. Extracting(c)'
  BY CountersStay
<1>2. KindOf(c)' /\ NotYet(c)' /\ Interrupted(c)' /\ Fresh(c)' /\ ListsDiffer(c)'
  BY DEF KindOf, NotYet, Interrupted, Live, Fresh, ListsDiffer
<1>3. Settled(c)' /\ Fills(c)'
  BY DEF Settled, Fills, Writes, Succeeded
<1> QED  BY <1>1, <1>2, <1>3 DEF CallInv

LEMMA CreateExportKeeps ==
  ASSUME ExportInv, NEW c \in Calls, CreateExport(c), UNCHANGED <<scan, ocrVars>>,
         UNCHANGED <<cancelled, worldVars>>
  PROVE  ExportInv'
<1> DEFINE e == [exports[c] EXCEPT !.status = "running"]
<1>1. /\ call \in [Calls -> CallRow] /\ call[c] \in CallRow
      /\ exports \in [Calls -> ExportRow] /\ exports[c] \in ExportRow
      /\ disk \in [Names -> Content] /\ CallInv(c)
  BY CallFacts
<1>2. e \in ExportRow /\ e.status = "running"
  BY <1>1 DEF ExportRow
<1>3. disk' = disk /\ call[c].pc = "create" /\ exports[c].status = "none"
  BY <1>1 DEF CreateExport, CallInv, NotYet
<1>4. exports' \in {exports, [exports EXCEPT ![c] = e]}
  BY DEF CreateExport
<1> HIDE DEF e
<1>5. /\ exports' \in [Calls -> ExportRow] /\ \A d \in Calls \ {c} : exports'[d] = exports[d]
      /\ exports'[c].status # "succeeded"
  BY <1>1, <1>2, <1>3, <1>4
<1>6. CASE Goes(c, "open")
  <2> DEFINE k == [call[c] EXCEPT !.pc = "open"]
  <2>1. /\ k \in CallRow /\ k.pc = "open" /\ k.name = call[c].name
        /\ k.left = call[c].left /\ k.buffer = call[c].buffer /\ k.written = call[c].written
        /\ k.rows = call[c].rows /\ k.exported = call[c].exported
        /\ k.skipped = call[c].skipped
    BY <1>1 DEF CallRow
  <2>2. call' = [call EXCEPT ![c] = k]
    BY <1>6 DEF Goes
  <2> HIDE DEF k
  <2>3. call'[c] = k
    BY <1>1, <2>2
  <2>4. Extracting(c)'
    BY <1>3, <2>1, <2>3, CountersStay
  <2>5. Fresh(c)'
    BY <1>1, <1>3, <2>1, <2>3 DEF CallInv, Fresh
  <2>6. KindOf(c)' /\ NotYet(c)' /\ Interrupted(c)' /\ ListsDiffer(c)'
    BY <2>1, <2>3 DEF KindOf, NotYet, Interrupted, Live, ListsDiffer
  <2>7. Settled(c)' /\ Fills(c)'
    BY <1>5, <2>1, <2>3 DEF Settled, Fills, Writes, Succeeded
  <2>8. CallInv(c)'
    BY <2>4, <2>5, <2>6, <2>7 DEF CallInv
  <2> QED  BY <1>1, <1>3, <1>5, <2>1, <2>2, <2>8, PlainStep
<1>7. CASE Ends(c)
  <2> DEFINE k == [call[c] EXCEPT !.pc = "over", !.lost = TRUE]
  <2>1. /\ k \in CallRow /\ k.pc = "over" /\ k.lost /\ k.name = call[c].name
        /\ k.exported = call[c].exported /\ k.skipped = call[c].skipped
    BY <1>1 DEF CallRow
  <2>2. call' = [call EXCEPT ![c] = k]
    BY <1>7 DEF Ends
  <2> HIDE DEF k
  <2>3. call'[c] = k
    BY <1>1, <2>2
  <2>4. CallInv(c)'
    BY <1>3, <1>5, <2>1, <2>3, EndsPlainly
  <2> QED  BY <1>1, <1>3, <1>5, <2>1, <2>2, <2>4, PlainStep
<1> QED  BY <1>6, <1>7 DEF CreateExport

LEMMA FailExportKeeps ==
  ASSUME ExportInv, NEW c \in Calls, FailExport(c), UNCHANGED <<scan, ocrVars>>,
         UNCHANGED <<cancelled, worldVars>>
  PROVE  ExportInv'
<1> DEFINE e == [exports[c] EXCEPT !.status = "failed"]
           k == [call[c] EXCEPT !.pc = "over"]
           l == [call[c] EXCEPT !.pc = "over", !.lost = TRUE]
<1>1. /\ call \in [Calls -> CallRow] /\ call[c] \in CallRow
      /\ exports \in [Calls -> ExportRow] /\ exports[c] \in ExportRow
      /\ disk \in [Names -> Content] /\ CallInv(c)
  BY CallFacts
<1>2. e \in ExportRow /\ e.status = "failed"
  BY <1>1 DEF ExportRow
<1>3. disk' = disk /\ call[c].pc = "failing" /\ exports[c].status # "succeeded"
  BY <1>1 DEF FailExport, CallInv, Settled, Succeeded
<1>4. /\ k \in CallRow /\ k.pc = "over" /\ k.name = call[c].name
      /\ k.exported = call[c].exported /\ k.skipped = call[c].skipped
      /\ l \in CallRow /\ l.pc = "over" /\ l.lost /\ l.name = call[c].name
      /\ l.exported = call[c].exported /\ l.skipped = call[c].skipped
  BY <1>1 DEF CallRow
<1>5. \/ exports' = [exports EXCEPT ![c] = e] /\ call' = [call EXCEPT ![c] = k]
      \/ /\ exports' \in {exports, [exports EXCEPT ![c] = e]}
         /\ call' = [call EXCEPT ![c] = l]
  BY DEF FailExport, Goes, Ends
<1> HIDE DEF e, k, l
<1>6. /\ exports' \in [Calls -> ExportRow] /\ \A d \in Calls \ {c} : exports'[d] = exports[d]
      /\ exports'[c].status # "succeeded"
  BY <1>1, <1>2, <1>3, <1>5
<1>7. CASE exports' = [exports EXCEPT ![c] = e] /\ call' = [call EXCEPT ![c] = k]
  <2>1. call'[c] = k /\ exports'[c].status = "failed"
    BY <1>1, <1>2, <1>7
  <2>2. CallInv(c)'
    BY <1>3, <1>4, <2>1, EndsPlainly
  <2> QED  BY <1>1, <1>3, <1>4, <1>6, <1>7, <2>2, PlainStep
<1>8. CASE call' = [call EXCEPT ![c] = l]
  <2>1. call'[c] = l
    BY <1>1, <1>8
  <2>2. CallInv(c)'
    BY <1>3, <1>4, <1>6, <2>1, EndsPlainly
  <2> QED  BY <1>1, <1>3, <1>4, <1>6, <1>8, <2>2, PlainStep
<1> QED  BY <1>5, <1>7, <1>8

LEMMA CompleteExportKeeps ==
  ASSUME ExportInv, NEW c \in Calls, CompleteExport(c), UNCHANGED <<scan, ocrVars>>,
         UNCHANGED <<cancelled, worldVars>>
  PROVE  ExportInv'
<1> DEFINE e == [status |-> "succeeded", name |-> call[c].name, rows |-> call[c].rows]
<1>1. /\ call \in [Calls -> CallRow] /\ call[c] \in CallRow
      /\ exports \in [Calls -> ExportRow] /\ exports[c] \in ExportRow
      /\ disk \in [Names -> Content] /\ CallInv(c)
  BY CallFacts
<1>2. e \in ExportRow
  BY <1>1 DEF ExportRow, CallRow
<1>3. disk' = disk /\ call[c].pc = "complete" /\ exports[c].status # "succeeded"
  BY <1>1 DEF CompleteExport, CallInv, Settled, Succeeded
<1>4. PICK k \in CallRow :
        /\ call' = [call EXCEPT ![c] = k] /\ k.pc = "over"
        /\ k.name = call[c].name /\ k.left = call[c].left /\ k.buffer = call[c].buffer
        /\ k.written = call[c].written /\ k.rows = call[c].rows
        /\ k.exported = call[c].exported /\ k.skipped = call[c].skipped
        /\ k.include = call[c].include
        /\ k.lost \/ exports' = [exports EXCEPT ![c] = e]
  <2> DEFINE a == [call[c] EXCEPT !.pc = "over"]
             b == [call[c] EXCEPT !.pc = "over", !.lost = TRUE]
  <2>1. /\ a \in CallRow /\ a.pc = "over"
        /\ a.name = call[c].name /\ a.left = call[c].left /\ a.buffer = call[c].buffer
        /\ a.written = call[c].written /\ a.rows = call[c].rows
        /\ a.exported = call[c].exported /\ a.skipped = call[c].skipped
        /\ a.include = call[c].include
    BY <1>1 DEF CallRow
  <2>2. /\ b \in CallRow /\ b.pc = "over" /\ b.lost
        /\ b.name = call[c].name /\ b.left = call[c].left /\ b.buffer = call[c].buffer
        /\ b.written = call[c].written /\ b.rows = call[c].rows
        /\ b.exported = call[c].exported /\ b.skipped = call[c].skipped
        /\ b.include = call[c].include
    BY <1>1 DEF CallRow
  <2>3. \/ call' = [call EXCEPT ![c] = a] /\ exports' = [exports EXCEPT ![c] = e]
        \/ call' = [call EXCEPT ![c] = b]
    BY DEF CompleteExport, Goes, Ends
  <2> HIDE DEF a, b, e
  <2> QED  BY <2>1, <2>2, <2>3
<1>5. exports' \in {exports, [exports EXCEPT ![c] = e]}
  BY DEF CompleteExport
<1>6. e.status = "succeeded" /\ e.name = k.name /\ e.rows = k.rows
  BY <1>4
<1> HIDE DEF e
<1>7. /\ exports' \in [Calls -> ExportRow] /\ \A d \in Calls \ {c} : exports'[d] = exports[d]
      /\ call'[c] = k /\ exports'[c] \in {exports[c], e}
  BY <1>1, <1>2, <1>4, <1>5
<1>8. CallInv(c)'
  <2>1. Extracting(c)'
    BY <1>3, <1>4, <1>7, CountersStay
  <2>2. KindOf(c)' /\ NotYet(c)' /\ Fresh(c)' /\ ListsDiffer(c)'
    BY <1>4, <1>7 DEF KindOf, NotYet, Fresh, ListsDiffer
  <2>3. Interrupted(c)'
    BY <1>1, <1>4, <1>6, <1>7 DEF Interrupted, Live
  <2>4. Settled(c)'
    BY <1>3, <1>4, <1>6, <1>7 DEF Settled, Succeeded
  <2>5. Counted(c) /\ (Alone(c) => OwnRows(c))
    BY <1>1, <1>3 DEF CallInv, Fills, Writes
  <2>6. Counted(c)'
    BY <1>3, <1>4, <1>7, <2>5 DEF Counted, Done
  <2>7. Alone(c)' => Alone(c)
    BY <1>1, <1>4, <1>7 DEF Alone
  <2>8. Rows(c)' = Rows(c)
    BY <1>3, <1>4, <1>7 DEF Rows
  <2>9. OwnRows(c) => OwnRows(c)'
    BY <1>3, <1>4, <1>7, <2>8 DEF OwnRows, Done
  <2> QED  BY <2>1, <2>2, <2>3, <2>4, <2>5, <2>6, <2>7, <2>9 DEF CallInv, Fills
<1> QED  BY <1>1, <1>3, <1>4, <1>7, <1>8, PlainStep

\* A call that goes on to write, or fails, has not succeeded.
LEMMA GoesOn ==
  ASSUME ExportInv, NEW c \in Calls, exports' = exports,
         call[c].pc # "over",
         call'[c].pc \in {"documents", "trash", "extract", "write", "complete", "failing"}
  PROVE  /\ NotYet(c)' /\ Interrupted(c)' /\ Fresh(c)' /\ Settled(c)' /\ ~Succeeded(c)'
<1>1. exports[c].status # "succeeded"
  BY CallFacts DEF CallInv, Settled, Succeeded
<1> QED  BY <1>1 DEF NotYet, Interrupted, Live, Fresh, Settled, Succeeded

LEMMA AloneStays ==
  ASSUME NEW c \in Calls, call \in [Calls -> CallRow], NEW k,
         call' = [call EXCEPT ![c] = k], k.name = call[c].name
  PROVE  Alone(c)' <=> Alone(c)
<1>1. call'[c] = k /\ \A d \in Calls \ {c} : call'[d] = call[d]
  OBVIOUS
<1> QED  BY <1>1 DEF Alone

\* An error of listing or writing.
LEMMA FailingKeeps ==
  ASSUME ExportInv, NEW c \in Calls, Writes(c), c \in FolderCalls => ocr[c].pc = "off",
         Goes(c, "failing"), UNCHANGED <<exports, disk>>, UNCHANGED <<scan, ocrVars>>,
         UNCHANGED <<cancelled, worldVars>>
  PROVE  ExportInv'
<1> DEFINE k == [call[c] EXCEPT !.pc = "failing"]
<1>1. /\ call \in [Calls -> CallRow] /\ call[c] \in CallRow
      /\ exports \in [Calls -> ExportRow] /\ disk \in [Names -> Content] /\ CallInv(c)
  BY CallFacts
<1>2. /\ k \in CallRow /\ k.pc = "failing" /\ k.name = call[c].name
      /\ k.exported = call[c].exported /\ k.skipped = call[c].skipped
  BY <1>1 DEF CallRow
<1>3. call' = [call EXCEPT ![c] = k] /\ exports' = exports /\ disk' = disk
  BY DEF Goes
<1> HIDE DEF k
<1>4. call'[c] = k
  BY <1>1, <1>3
<1>5. call[c].pc # "over"
  BY DEF Writes
<1>6. KindOf(c)' /\ ListsDiffer(c)'
  BY <1>2, <1>4 DEF KindOf, ListsDiffer
<1>7. Extracting(c)'
  BY <1>1, <1>2, <1>4 DEF CallInv, Extracting, Done, ocrVars
<1>8. NotYet(c)' /\ Interrupted(c)' /\ Fresh(c)' /\ Settled(c)' /\ ~Succeeded(c)'
  BY <1>2, <1>3, <1>4, <1>5, GoesOn
<1>9. Fills(c)'
  BY <1>2, <1>4, <1>8 DEF Fills, Writes
<1>10. CallInv(c)'
  BY <1>6, <1>7, <1>8, <1>9 DEF CallInv
<1> QED  BY <1>1, <1>2, <1>3, <1>10, PlainStep

LEMMA OpenKeeps ==
  ASSUME ExportInv, NEW c \in Calls, Open(c), UNCHANGED <<scan, ocrVars>>,
         UNCHANGED <<cancelled, worldVars>>
  PROVE  ExportInv'
<1> DEFINE folder == c \in FolderCalls
           name == [stem |-> IF folder THEN FolderStem ELSE call[c].request.stem,
                    mode |-> IF folder THEN "filesystem_rag" ELSE call[c].request.mode,
                    second |-> second]
           k == [call[c] EXCEPT !.name = name,
                                !.pc = IF folder THEN "extract" ELSE "documents"]
<1>1. /\ call \in [Calls -> CallRow] /\ call[c] \in CallRow
      /\ exports \in [Calls -> ExportRow] /\ disk \in [Names -> Content] /\ CallInv(c)
  BY CallFacts
<1>2. name \in Names
  <2>1. call[c].request \in TextRequests /\ second \in 0 .. MaxSeconds
    BY <1>1 DEF ExportInv, TypeOK, CallRow
  <2>2. /\ name.stem \in Stems
        /\ name.mode \in {"documents", "chunks", "txt_rag", "filesystem_rag"}
    BY <2>1, ExportAssumption DEF Stems
  <2> QED  BY <2>1, <2>2 DEF Names
<1>3. /\ k \in CallRow /\ k.name = name
      /\ k.pc = (IF folder THEN "extract" ELSE "documents")
      /\ k.left = call[c].left /\ k.buffer = call[c].buffer /\ k.written = call[c].written
      /\ k.rows = call[c].rows /\ k.exported = call[c].exported
      /\ k.skipped = call[c].skipped /\ k.include = call[c].include
  BY <1>1, <1>2 DEF CallRow
<1>4. /\ call' = [call EXCEPT ![c] = k] /\ exports' = exports
      /\ disk' = [disk EXCEPT ![name] = <<>>] /\ call[c].pc = "open"
  BY DEF Open
<1> HIDE DEF k, name
<1>5. call'[c] = k /\ disk'[name] = <<>>
  BY <1>1, <1>2, <1>4
<1>6. /\ call[c].name = NoName /\ k.left = <<>> /\ k.buffer = <<>>
      /\ k.written = 0 /\ k.rows = 0 /\ k.exported = 0 /\ k.skipped = 0
  BY <1>1, <1>3, <1>4 DEF CallInv, Fresh
<1>7. disk' \in [Names -> Content] /\ \A n \in Names \ {name} : disk'[n] = disk[n]
  <2>1. <<>> \in Content
    BY DEF Content
  <2> QED  BY <1>1, <1>4, <2>1
<1>8. KindOf(c)' /\ ListsDiffer(c)'
  BY <1>3, <1>5 DEF KindOf, ListsDiffer, Calls
<1>9. Extracting(c)'
  BY <1>3, <1>4, <1>5, CountersStay
<1>10. NotYet(c)' /\ Interrupted(c)' /\ Fresh(c)' /\ Settled(c)' /\ ~Succeeded(c)'
  BY <1>3, <1>4, <1>5, GoesOn
<1>11. Counted(c)'
  BY <1>2, <1>3, <1>5, <1>6, <1>10 DEF Counted
<1>12. OwnRows(c)'
  <2>1. Rows(c)' = <<>> /\ disk'[call'[c].name] = <<>>
    BY <1>3, <1>5, <1>6 DEF Rows
  <2>2. Len(disk'[call'[c].name]) = call'[c].written
    BY <1>5, <1>6, <2>1
  <2>3. DOMAIN <<>> = {} /\ Items(<<>>)' = <<>>
    BY DEF Items
  <2> QED  BY <2>1, <2>2, <2>3 DEF OwnRows, Once
<1>13. CallInv(c)'
  BY <1>8, <1>9, <1>10, <1>11, <1>12 DEF CallInv, Fills
<1> QED  BY <1>1, <1>3, <1>4, <1>6, <1>7, <1>13, PlainStep

LEMMA FlushKeeps ==
  ASSUME ExportInv, NEW c \in Calls, Flush(c), UNCHANGED <<scan, ocrVars>>,
         UNCHANGED <<cancelled, worldVars>>
  PROVE  ExportInv'
<1> DEFINE k == [call[c] EXCEPT !.pc = "complete"]
<1>1. /\ call \in [Calls -> CallRow] /\ call[c] \in CallRow
      /\ exports \in [Calls -> ExportRow] /\ disk \in [Names -> Content] /\ CallInv(c)
  BY CallFacts
<1>2. /\ k \in CallRow /\ k.pc = "complete" /\ k.name = call[c].name
      /\ k.left = call[c].left /\ k.buffer = call[c].buffer /\ k.written = call[c].written
      /\ k.rows = call[c].rows /\ k.exported = call[c].exported
      /\ k.skipped = call[c].skipped /\ k.include = call[c].include
  BY <1>1 DEF CallRow
<1>3. /\ call' = [call EXCEPT ![c] = k] /\ exports' = exports /\ disk' = disk
      /\ call[c].pc = "write" /\ call[c].left = <<>> /\ call[c].buffer = <<>>
  BY DEF Flush, Goes
<1> HIDE DEF k
<1>4. call'[c] = k
  BY <1>1, <1>3
<1>5. KindOf(c)' /\ ListsDiffer(c)'
  BY <1>2, <1>4 DEF KindOf, ListsDiffer
<1>6. Extracting(c)'
  BY <1>2, <1>3, <1>4, CountersStay
<1>7. NotYet(c)' /\ Interrupted(c)' /\ Fresh(c)' /\ Settled(c)' /\ ~Succeeded(c)'
  BY <1>2, <1>3, <1>4, GoesOn
<1>8. Counted(c) /\ (Alone(c) => OwnRows(c))
  BY <1>1, <1>3 DEF CallInv, Fills, Writes
<1>9. Counted(c)'
  BY <1>2, <1>3, <1>4, <1>7, <1>8 DEF Counted, Done
<1>10. Alone(c)' => Alone(c)
  BY <1>1, <1>2, <1>3, AloneStays
<1>11. Rows(c)' = Rows(c)
  BY <1>2, <1>3, <1>4 DEF Rows
<1>12. OwnRows(c) => OwnRows(c)'
  BY <1>2, <1>3, <1>4, <1>11 DEF OwnRows, Done
<1>13. CallInv(c)'
  BY <1>5, <1>6, <1>7, <1>8, <1>9, <1>10, <1>12 DEF CallInv, Fills
<1> QED  BY <1>1, <1>2, <1>3, <1>13, PlainStep

-----------------------------------------------------------------------------
(***************************************************************************)
(* What is written.                                                        *)
(***************************************************************************)
LEMMA OverwriteType ==
  ASSUME NEW f \in Content, NEW w \in Nat, NEW b \in Seq(Row)
  PROVE  Overwrite(f, w, b) \in Content
<1> DEFINE n == IF w + Len(b) > Len(f) THEN w + Len(b) ELSE Len(f)
           at == [k \in 1 .. n |-> IF k > w /\ k <= w + Len(b) THEN b[k - w]
                                   ELSE IF k <= Len(f) THEN f[k] ELSE Hole]
<1>1. /\ Len(f) \in Nat /\ Len(b) \in Nat /\ n \in Nat
      /\ \A k \in 1 .. Len(f) : f[k] \in Row \cup {Hole}
      /\ \A k \in 1 .. Len(b) : b[k] \in Row
  BY DEF Content
<1>2. \A k \in 1 .. n : at[k] \in Row \cup {Hole}
  <2> SUFFICES ASSUME NEW k \in 1 .. n PROVE at[k] \in Row \cup {Hole}
    OBVIOUS
  <2>1. CASE k > w /\ k <= w + Len(b)
    <3>1. k - w \in 1 .. Len(b)
      BY <1>1, <2>1
    <3> QED  BY <1>1, <2>1, <3>1
  <2>2. CASE ~ (k > w /\ k <= w + Len(b))
    BY <1>1, <2>2
  <2> QED  BY <2>1, <2>2
<1>3. at \in [1 .. n -> Row \cup {Hole}]
  BY <1>2
<1>4. at \in Content
  BY <1>1, <1>3 DEF Content
<1> QED  BY <1>4 DEF Overwrite

\* A writer that is alone goes on at the end.
LEMMA OverwriteAppends ==
  ASSUME NEW f \in Content, NEW b \in Seq(Row)
  PROVE  Overwrite(f, Len(f), b) = f \o b
<1> DEFINE o == Overwrite(f, Len(f), b)
<1>1. f \in Seq(Row \cup {Hole}) /\ b \in Seq(Row \cup {Hole})
  BY DEF Content
<1>2. Len(f) \in Nat /\ Len(b) \in Nat
  BY <1>1
<1>3. o = [k \in 1 .. Len(f) + Len(b) |-> IF k <= Len(f) THEN f[k] ELSE b[k - Len(f)]]
  BY <1>2 DEF Overwrite
<1>4. /\ f \o b \in Seq(Row \cup {Hole}) /\ Len(f \o b) = Len(f) + Len(b)
      /\ \A i \in 1 .. Len(f) + Len(b) :
           (f \o b)[i] = IF i <= Len(f) THEN f[i] ELSE b[i - Len(f)]
  BY <1>1, ConcatProperties
<1>5. f \o b = [k \in 1 .. Len(f) + Len(b) |-> (f \o b)[k]]
  BY <1>4, AsFunction
<1> QED  BY <1>3, <1>4, <1>5

LEMMA ItemsType ==
  ASSUME NEW rows \in Seq(Row)
  PROVE  /\ Items(rows) \in Seq(Nodes \cup Messages) /\ Len(Items(rows)) = Len(rows)
         /\ DOMAIN Items(rows) = DOMAIN rows
         /\ \A k \in DOMAIN rows : Items(rows)[k] = rows[k].item
<1>1. Len(rows) \in Nat /\ DOMAIN rows = 1 .. Len(rows)
      /\ \A k \in 1 .. Len(rows) : rows[k] \in Row
  OBVIOUS
<1>2. \A k \in 1 .. Len(rows) : rows[k].item \in Nodes \cup Messages
  BY <1>1 DEF Row
<1> QED  BY <1>1, <1>2 DEF Items

LEMMA ItemsConcat ==
  ASSUME NEW a \in Seq(Row), NEW b \in Seq(Row)
  PROVE  Items(a \o b) = Items(a) \o Items(b)
<1>1. /\ a \o b \in Seq(Row) /\ Len(a) \in Nat /\ Len(b) \in Nat
      /\ Len(a \o b) = Len(a) + Len(b)
      /\ \A i \in 1 .. Len(a) + Len(b) :
           (a \o b)[i] = IF i <= Len(a) THEN a[i] ELSE b[i - Len(a)]
  BY ConcatProperties
<1>2. /\ Items(a) \in Seq(Nodes \cup Messages) /\ Len(Items(a)) = Len(a)
      /\ \A k \in 1 .. Len(a) : Items(a)[k] = a[k].item
  BY ItemsType
<1>3. /\ Items(b) \in Seq(Nodes \cup Messages) /\ Len(Items(b)) = Len(b)
      /\ \A k \in 1 .. Len(b) : Items(b)[k] = b[k].item
  BY ItemsType
<1> DEFINE x == Items(a)
           y == Items(b)
           both == x \o y
<1>4. x \in Seq(Nodes \cup Messages) /\ y \in Seq(Nodes \cup Messages)
  BY <1>2, <1>3
<1>5. /\ Len(x) = Len(a) /\ Len(y) = Len(b) /\ Len(a) \in Nat /\ Len(b) \in Nat
      /\ \A k \in 1 .. Len(a) : x[k] = a[k].item
      /\ \A k \in 1 .. Len(b) : y[k] = b[k].item
  BY <1>1, <1>2, <1>3
<1> HIDE DEF x, y
<1>6. /\ both \in Seq(Nodes \cup Messages) /\ Len(both) = Len(x) + Len(y)
      /\ \A i \in 1 .. Len(x) + Len(y) :
           both[i] = IF i <= Len(x) THEN x[i] ELSE y[i - Len(x)]
  BY <1>4, ConcatProperties
<1>7. /\ both \in Seq(Nodes \cup Messages) /\ Len(both) = Len(a) + Len(b)
      /\ \A i \in 1 .. Len(a) + Len(b) :
           both[i] = IF i <= Len(a) THEN x[i] ELSE y[i - Len(a)]
  BY <1>5, <1>6
<1>8. both = [k \in 1 .. Len(a) + Len(b) |-> both[k]]
  BY <1>7, AsFunction
<1>9. \A k \in 1 .. Len(a) + Len(b) : both[k] = (a \o b)[k].item
  <2> SUFFICES ASSUME NEW k \in 1 .. Len(a) + Len(b) PROVE both[k] = (a \o b)[k].item
    OBVIOUS
  <2> HIDE DEF both
  <2>1. CASE k <= Len(a)
    BY <1>1, <1>5, <1>7, <2>1
  <2>2. CASE ~ (k <= Len(a))
    <3>1. k - Len(a) \in 1 .. Len(b)
      BY <1>1, <2>2
    <3> QED  BY <1>1, <1>5, <1>7, <2>2, <3>1
  <2> QED  BY <2>1, <2>2
<1>10. Items(a \o b) = [k \in 1 .. Len(a) + Len(b) |-> (a \o b)[k].item]
  BY <1>1 DEF Items
<1> HIDE DEF both
<1>11. Items(a \o b) = both
  BY <1>8, <1>9, <1>10
<1> QED  BY <1>11 DEF both, x, y

\* A list of the database has every message once.
LEMMA ListedFacts ==
  ASSUME NEW c \in Calls, NEW found \in SUBSET Messages, NEW as \in {"document", "trash"}
  PROVE  /\ Listed(c, found, as) \in Seq(Row)
         /\ \A k \in DOMAIN Listed(c, found, as) :
              /\ Listed(c, found, as)[k].by = c
              /\ Listed(c, found, as)[k].item \in found
         /\ Once(Items(Listed(c, found, as)))
<1> DEFINE all == [m \in Messages |-> m]
           s == Selected(all, found)
           rows == [k \in 1 .. Len(s) |-> [by |-> c, item |-> s[k], as |-> as]]
<1>1. MaxMessage \in Nat
  BY ExportAssumption
<1>2. all \in Seq(Messages) /\ DOMAIN all = Messages /\ \A k \in Messages : all[k] = k
  BY <1>1 DEF Messages
<1>3. Once(all)
  BY <1>2 DEF Once
<1>4. all \in Seq(Messages)
  BY <1>2
<1> HIDE DEF all
<1>5. /\ s \in Seq(Messages) /\ Once(s)
      /\ \A x \in ToSet(s) : \E k \in DOMAIN all : k \in found /\ all[k] = x
  BY <1>3, <1>4, OnceSelected
<1>6. Listed(c, found, as) = rows
  BY DEF Listed, all
<1> HIDE DEF s
<1>7. Len(s) \in Nat /\ DOMAIN s = 1 .. Len(s) /\ \A k \in 1 .. Len(s) : s[k] \in Messages
  BY <1>5
<1>8. \A k \in 1 .. Len(s) : s[k] \in found
  <2> SUFFICES ASSUME NEW k \in 1 .. Len(s) PROVE s[k] \in found
    OBVIOUS
  <2>1. s[k] \in ToSet(s)
    BY <1>5, <1>7, RangeType
  <2> QED  BY <1>2, <1>5, <2>1
<1>9. \A k \in 1 .. Len(s) : [by |-> c, item |-> s[k], as |-> as] \in Row
  BY <1>7 DEF Row
<1>10. /\ rows \in Seq(Row) /\ Len(rows) = Len(s) /\ DOMAIN rows = 1 .. Len(s)
       /\ \A k \in 1 .. Len(s) : rows[k].by = c /\ rows[k].item = s[k]
  <2>1. rows \in [1 .. Len(s) -> Row]
    BY <1>9
  <2>2. \A k \in 1 .. Len(s) : rows[k].by = c /\ rows[k].item = s[k]
    OBVIOUS
  <2> HIDE DEF rows
  <2> QED  BY <1>7, <2>1, <2>2
<1> HIDE DEF rows
<1>11. Once(Items(rows))
  BY <1>5, <1>7, <1>10, ItemsType DEF Once
<1> QED  BY <1>6, <1>8, <1>10, <1>11

LEMMA EmptyByLength ==
  ASSUME NEW S, NEW s \in Seq(S), Len(s) = 0
  PROVE  s = <<>>
OBVIOUS

\* The rows of a call under way.
LEMMA RowsType ==
  ASSUME ExportInv, NEW c \in Calls, call[c].name \in Names
  PROVE  /\ disk[call[c].name] \in Content
         /\ call[c].buffer \in Seq(Row) /\ call[c].left \in Seq(Row)
         /\ call[c].buffer \o call[c].left \in Seq(Row)
         /\ call[c].buffer \in Seq(Row \cup {Hole}) /\ call[c].left \in Seq(Row \cup {Hole})
         /\ Rows(c) \in Content
<1>1. disk[call[c].name] \in Content
  BY CallFacts
<1>2. call[c].buffer \in Seq(Row) /\ call[c].left \in Seq(Row)
  BY CallFacts DEF CallRow
<1>3. call[c].buffer \o call[c].left \in Seq(Row)
  BY <1>2, ConcatProperties
<1>4. /\ call[c].buffer \in Seq(Row \cup {Hole}) /\ call[c].left \in Seq(Row \cup {Hole})
      /\ call[c].buffer \o call[c].left \in Seq(Row \cup {Hole})
  BY <1>2, <1>3
<1>5. Rows(c) \in Content
  BY <1>1, <1>4, ConcatProperties DEF Rows, Content
<1> QED  BY <1>1, <1>2, <1>3, <1>4, <1>5

\* What goes to the file leaves the buffer.
LEMMA WriteThrough ==
  ASSUME NEW f \in Content, NEW b \in Seq(Row), NEW l \in Seq(Row)
  PROVE  /\ Overwrite(f, Len(f), b) \o (<<>> \o l) = f \o (b \o l)
         /\ Len(Overwrite(f, Len(f), b)) = Len(f) + Len(b)
<1>1. /\ f \in Seq(Row \cup {Hole}) /\ b \in Seq(Row \cup {Hole})
      /\ l \in Seq(Row \cup {Hole})
  BY DEF Content
<1>2. <<>> \o l = l
  BY <1>1, ConcatEmptySeq
<1>3. (f \o b) \o l = f \o (b \o l)
  BY <1>1, ConcatAssociative
<1>4. Len(f \o b) = Len(f) + Len(b)
  BY <1>1, ConcatProperties
<1> QED  BY <1>2, <1>3, <1>4, OverwriteAppends

LEMMA SpillKeeps ==
  ASSUME ExportInv, NEW c \in Calls, Spill(c), UNCHANGED <<scan, ocrVars>>,
         UNCHANGED <<cancelled, worldVars>>
  PROVE  ExportInv'
<1> DEFINE name == call[c].name
           b == call[c].buffer
           l == call[c].left
           f == disk[name]
           w == call[c].written
           m == w + Len(b)
           k == [call[c] EXCEPT !.written = m, !.buffer = <<>>]
<1>1. /\ call \in [Calls -> CallRow] /\ call[c] \in CallRow
      /\ exports \in [Calls -> ExportRow] /\ disk \in [Names -> Content] /\ CallInv(c)
  BY CallFacts
<1>2. /\ call[c].pc \in {"write", "extract"} /\ exports' = exports
      /\ c \in FolderCalls => ocr[c].pc = "off"
  BY DEF Spill
<1>3. Counted(c) /\ (Alone(c) => OwnRows(c)) /\ Writes(c)
  BY <1>1, <1>2 DEF CallInv, Fills, Writes
<1>4. CASE Goes(c, "failing") /\ UNCHANGED disk
  BY <1>2, <1>3, <1>4, FailingKeeps
<1>5. CASE /\ disk' = [disk EXCEPT ![name] = Overwrite(f, w, b)]
           /\ call' = [call EXCEPT ![c] = k]
  <2>1. /\ name \in Names /\ f \in Content /\ b \in Seq(Row) /\ l \in Seq(Row)
        /\ b \in Seq(Row \cup {Hole}) /\ l \in Seq(Row \cup {Hole}) /\ w \in Nat
        /\ f \in Seq(Row \cup {Hole})
    BY <1>1, <1>3, RowsType DEF Counted, CallRow, Content
  <2>2. Len(b) \in Nat /\ m \in Nat /\ <<>> \in Seq(Row) /\ Len(<<>>) = 0
    BY <2>1
  <2> HIDE DEF m
  <2>3. /\ k \in CallRow /\ k.pc = call[c].pc /\ k.name = name
        /\ k.left = l /\ k.buffer = <<>> /\ k.written = m
        /\ k.rows = call[c].rows /\ k.exported = call[c].exported
        /\ k.skipped = call[c].skipped /\ k.include = call[c].include
    BY <1>1, <2>2 DEF CallRow
  <2>4. Overwrite(f, w, b) \in Content
    BY <2>1, OverwriteType
  <2> DEFINE o == Overwrite(f, w, b)
  <2>5. /\ disk' = [disk EXCEPT ![name] = o] /\ call' = [call EXCEPT ![c] = k] /\ o \in Content
    BY <1>5, <2>4
  <2>6. w = Len(f) => o \o (<<>> \o l) = f \o (b \o l) /\ Len(o) = m
    <3> SUFFICES ASSUME w = Len(f) PROVE o \o (<<>> \o l) = f \o (b \o l) /\ Len(o) = m
      OBVIOUS
    <3>1. o = Overwrite(f, Len(f), b) /\ m = Len(f) + Len(b)
      BY DEF m
    <3>2. f \in Content /\ b \in Seq(Row) /\ l \in Seq(Row)
      BY <2>1
    <3> HIDE DEF o, f, b, l, w
    <3>3. /\ Overwrite(f, Len(f), b) \o (<<>> \o l) = f \o (b \o l)
          /\ Len(Overwrite(f, Len(f), b)) = Len(f) + Len(b)
      BY <3>2, WriteThrough
    <3> QED  BY <3>1, <3>3
  <2> HIDE DEF k, o
  <2>7. call'[c] = k /\ disk'[name] = o
    BY <1>1, <2>1, <2>5
  <2>8. disk' \in [Names -> Content] /\ \A n \in Names \ {name} : disk'[n] = disk[n]
    BY <1>1, <2>5
  <2>9. KindOf(c)' /\ ListsDiffer(c)'
    BY <1>1, <1>2, <2>3, <2>7 DEF CallInv, KindOf, ListsDiffer
  <2>10. Extracting(c)'
    BY <1>1, <1>2, <2>3, <2>7 DEF CallInv, Extracting, Done, ocrVars
  <2>11. NotYet(c)' /\ Interrupted(c)' /\ Fresh(c)' /\ Settled(c)' /\ ~Succeeded(c)'
    BY <1>2, <2>3, <2>7, GoesOn
  <2>12. Counted(c)'
    <3>1. k.rows = k.written + Len(k.buffer)
      BY <1>3, <2>1, <2>2, <2>3 DEF Counted, m
    <3>2. /\ name \in Names
          /\ call[c].pc = "extract" => l = <<>>
          /\ c \in FolderCalls =>
               /\ l = <<>>
               /\ call[c].rows = call[c].exported
                                   + IF call[c].include THEN call[c].skipped ELSE 0
               /\ call[c].pc # "extract" => Done(c) = Len(scan[c].files)
      BY <1>3 DEF Counted
    <3>3. Done(c)' = Done(c) /\ scan' = scan
      BY <2>3, <2>7 DEF Done
    <3> QED  BY <1>2, <2>3, <2>7, <2>11, <3>1, <3>2, <3>3 DEF Counted
  <2>13. Alone(c)' => Alone(c)
    BY <1>1, <2>3, <2>5, AloneStays
  <2>14. ASSUME OwnRows(c) PROVE OwnRows(c)'
    <3>1. w = Len(f)
      BY <2>14 DEF OwnRows
    <3>2. Rows(c)' = Rows(c)
      BY <2>3, <2>6, <2>7, <3>1 DEF Rows
    <3> QED  BY <2>3, <2>6, <2>7, <2>14, <3>1, <3>2 DEF OwnRows, Done
  <2>15. CallInv(c)'
    BY <1>3, <2>9, <2>10, <2>11, <2>12, <2>13, <2>14 DEF CallInv, Fills
  <2> QED  BY <1>1, <1>2, <2>3, <2>5, <2>8, <2>15, PlainStep
<1> QED  BY <1>4, <1>5 DEF Spill

LEMMA RowStepKeeps ==
  ASSUME ExportInv, NEW c \in Calls, RowStep(c), UNCHANGED <<cancelled, worldVars>>
  PROVE  ExportInv'
<1>1. UNCHANGED <<scan, ocrVars>>
  BY DEF RowStep
<1>2. CASE CreateExport(c)
  BY <1>1, <1>2, CreateExportKeeps
<1>3. CASE CompleteExport(c)
  BY <1>1, <1>3, CompleteExportKeeps
<1>4. CASE FailExport(c)
  BY <1>1, <1>4, FailExportKeeps
<1>5. CASE Open(c)
  BY <1>1, <1>5, OpenKeeps
<1>6. CASE OpenFails(c)
  BY <1>1, <1>6, OpenFailsKeeps
<1>7. CASE Spill(c)
  BY <1>1, <1>7, SpillKeeps
<1>8. CASE Flush(c)
  BY <1>1, <1>8, FlushKeeps
<1> QED  BY <1>2, <1>3, <1>4, <1>5, <1>6, <1>7, <1>8 DEF RowStep

-----------------------------------------------------------------------------
(***************************************************************************)
(* Text exports.                                                           *)
(***************************************************************************)
LEMMA TextOnly ==
  ASSUME NEW c \in TextCalls
  PROVE  c \in Calls /\ c \notin FolderCalls
BY ExportAssumption DEF Calls

LEMMA RequestTextKeeps ==
  ASSUME ExportInv, NEW c \in TextCalls, NEW r \in TextRequests, RequestText(c, r),
         UNCHANGED <<scan, ocrVars>>, UNCHANGED <<cancelled, worldVars>>
  PROVE  ExportInv'
<1> DEFINE k == [call[c] EXCEPT !.pc = "create", !.request = r]
<1>1. c \in Calls /\ c \notin FolderCalls
  BY TextOnly
<1>2. /\ call \in [Calls -> CallRow] /\ call[c] \in CallRow
      /\ exports \in [Calls -> ExportRow] /\ disk \in [Names -> Content] /\ CallInv(c)
  BY <1>1, CallFacts
<1>3. /\ k \in CallRow /\ k.pc = "create" /\ k.name = call[c].name
      /\ k.left = call[c].left /\ k.buffer = call[c].buffer /\ k.written = call[c].written
      /\ k.rows = call[c].rows /\ k.exported = call[c].exported
      /\ k.skipped = call[c].skipped
  BY <1>2 DEF CallRow
<1>4. /\ call' = [call EXCEPT ![c] = k] /\ exports' = exports /\ disk' = disk
      /\ call[c].pc = "off"
  BY DEF RequestText
<1> HIDE DEF k
<1>5. call'[c] = k
  BY <1>1, <1>2, <1>4
<1>6. Fresh(c) /\ exports[c].status = "none"
  BY <1>2, <1>4 DEF CallInv, NotYet
<1>7. KindOf(c)' /\ NotYet(c)' /\ Interrupted(c)' /\ ListsDiffer(c)'
  BY <1>3, <1>4, <1>5, <1>6 DEF KindOf, NotYet, Interrupted, Live, ListsDiffer
<1>8. Fresh(c)'
  BY <1>3, <1>4, <1>5, <1>6 DEF Fresh
<1>9. Extracting(c)'
  BY <1>1 DEF Extracting
<1>10. Settled(c)' /\ Fills(c)'
  BY <1>3, <1>4, <1>5, <1>6 DEF Settled, Fills, Writes, Succeeded
<1>11. CallInv(c)'
  BY <1>7, <1>8, <1>9, <1>10 DEF CallInv
<1> QED  BY <1>1, <1>2, <1>3, <1>4, <1>11, PlainStep

\* Before its first row a file is empty, and so is the buffer.
LEMMA NothingWritten ==
  ASSUME ExportInv, NEW c \in Calls, call[c].pc \in {"documents", "trash"}
  PROVE  /\ call[c].name \in Names /\ call[c].written = 0 /\ call[c].rows = 0
         /\ call[c].buffer = <<>>
         /\ call[c].pc = "documents" => call[c].left = <<>>
         /\ OwnRows(c) => disk[call[c].name] = <<>> /\ Rows(c) = call[c].left
<1>1. CallInv(c) /\ call[c] \in CallRow
  BY CallFacts
<1>2. Counted(c)
  BY <1>1 DEF CallInv, Fills, Writes
<1>3. /\ call[c].name \in Names /\ call[c].rows = 0
      /\ call[c].rows = call[c].written + Len(call[c].buffer)
      /\ call[c].pc = "documents" => call[c].left = <<>>
  BY <1>2 DEF Counted
<1>4. /\ call[c].buffer \in Seq(Row) /\ call[c].left \in Seq(Row) /\ call[c].written \in Nat
      /\ disk[call[c].name] \in Seq(Row \cup {Hole})
  BY <1>1, <1>3, RowsType DEF CallRow, Content
<1>5. Len(call[c].buffer) \in Nat
  BY <1>4
<1>6. call[c].written = 0 /\ Len(call[c].buffer) = 0
  BY <1>3, <1>4, <1>5
<1>7. call[c].buffer = <<>>
  BY <1>4, <1>6, EmptyByLength
<1>8. ASSUME OwnRows(c) PROVE disk[call[c].name] = <<>> /\ Rows(c) = call[c].left
  <2>1. Len(disk[call[c].name]) = 0
    BY <1>6, <1>8 DEF OwnRows
  <2>2. disk[call[c].name] = <<>>
    BY <1>4, <2>1, EmptyByLength
  <2>3. <<>> \o call[c].left = call[c].left
    BY <1>4, ConcatEmptySeq
  <2> QED  BY <1>7, <2>2, <2>3 DEF Rows
<1> QED  BY <1>3, <1>6, <1>7, <1>8

\* A list that was made is written from its beginning.
LEMMA ListKeeps ==
  ASSUME ExportInv, NEW c \in TextCalls, call[c].pc \in {"documents", "trash"},
         NEW list \in Seq(Row), NEW pc \in {"trash", "write"},
         call' = [call EXCEPT ![c].left = list, ![c].pc = pc],
         OwnRows(c) => Once(Items(list)) /\ \A j \in DOMAIN list : list[j].by = c,
         pc = "trash" => \A j \in DOMAIN list :
            list[j].item \in Messages
            /\ stored[list[j].item].as \in {"document", "duplicate"},
         UNCHANGED <<exports, disk>>,
         UNCHANGED <<scan, ocrVars>>, UNCHANGED <<cancelled, worldVars>>
  PROVE  ExportInv'
<1> DEFINE k == [call[c] EXCEPT !.left = list, !.pc = pc]
<1>1. c \in Calls /\ c \notin FolderCalls
  BY TextOnly
<1>2. /\ call \in [Calls -> CallRow] /\ call[c] \in CallRow
      /\ exports \in [Calls -> ExportRow] /\ disk \in [Names -> Content] /\ CallInv(c)
  BY <1>1, CallFacts
<1>3. /\ k \in CallRow /\ k.pc = pc /\ k.name = call[c].name
      /\ k.left = list /\ k.buffer = call[c].buffer /\ k.written = call[c].written
      /\ k.rows = call[c].rows
  BY <1>2 DEF CallRow
<1>4. call' = [call EXCEPT ![c] = k] /\ exports' = exports /\ disk' = disk
  OBVIOUS
<1> HIDE DEF k
<1>5. call'[c] = k /\ stored' = stored
  BY <1>1, <1>2, <1>4 DEF worldVars
<1>6. /\ call[c].name \in Names /\ call[c].written = 0 /\ call[c].rows = 0
      /\ call[c].buffer = <<>>
      /\ OwnRows(c) => disk[call[c].name] = <<>>
  BY <1>1, NothingWritten
<1>7. KindOf(c)' /\ Extracting(c)' /\ ListsDiffer(c)'
  BY <1>1, <1>3, <1>5 DEF KindOf, Extracting, ListsDiffer
<1>8. NotYet(c)' /\ Interrupted(c)' /\ Fresh(c)' /\ Settled(c)' /\ ~Succeeded(c)'
  BY <1>1, <1>3, <1>4, <1>5, GoesOn
<1>9. Counted(c)'
  BY <1>1, <1>3, <1>5, <1>6, <1>8 DEF Counted
<1>10. Alone(c)' => Alone(c)
  BY <1>1, <1>2, <1>3, <1>4, AloneStays
<1>11. Alone(c) => OwnRows(c)
  BY <1>2 DEF CallInv, Fills, Writes
<1>12. ASSUME OwnRows(c) PROVE OwnRows(c)'
  <2>1. <<>> \o list = list
    BY ConcatEmptySeq
  <2>2. Rows(c)' = list
    <3>1. /\ disk'[call'[c].name] = <<>> /\ call'[c].buffer = <<>>
          /\ call'[c].left = list
      BY <1>3, <1>4, <1>5, <1>6, <1>12
    <3>2. Rows(c)' = <<>> \o (<<>> \o list)
      BY <3>1 DEF Rows
    <3> QED  BY <2>1, <3>2
  <2>3. Len(disk'[call'[c].name]) = call'[c].written
    BY <1>3, <1>4, <1>5, <1>12 DEF OwnRows
  <2>4. Items(Rows(c))' = Items(list)
    BY <2>2 DEF Items
  <2> QED  BY <1>1, <1>12, <2>2, <2>3, <2>4 DEF OwnRows, Once
<1>13. CallInv(c)'
  BY <1>7, <1>8, <1>9, <1>10, <1>11, <1>12 DEF CallInv, Fills
<1>14. /\ exports' \in [Calls -> ExportRow] /\ disk' \in [Names -> Content]
       /\ \A d \in Calls \ {c} : exports'[d] = exports[d]
       /\ \A n \in Names \ {k.name} : disk'[n] = disk[n]
       /\ k \in CallRow /\ k.name = call[c].name
  BY <1>2, <1>3, <1>4
<1> QED  BY <1>1, <1>4, <1>13, <1>14, PlainStep

LEMMA ListDocumentsKeeps ==
  ASSUME ExportInv, NEW c \in TextCalls, ListDocuments(c),
         UNCHANGED <<scan, ocrVars>>, UNCHANGED <<cancelled, worldVars>>
  PROVE  ExportInv'
<1> DEFINE found == Documents(call[c].request)
           list == Listed(c, found, "document")
           pc == IF call[c].request.trash THEN "trash" ELSE "write"
<1>1. /\ c \in Calls /\ c \notin FolderCalls /\ call[c].pc = "documents"
      /\ UNCHANGED <<exports, disk>>
  BY TextOnly DEF ListDocuments
<1>2. CASE Goes(c, "failing")
  BY <1>1, <1>2, FailingKeeps DEF Writes
<1>3. CASE call' = [call EXCEPT ![c].left = list, ![c].pc = pc]
  <2>1. found \in SUBSET Messages /\ pc \in {"trash", "write"}
    BY DEF Documents
  <2>2. \A m \in found : stored[m].as \in {"document", "duplicate"}
    BY DEF Documents
  <2> HIDE DEF found
  <2>3. /\ list \in Seq(Row) /\ Once(Items(list))
        /\ \A j \in DOMAIN list : list[j].by = c /\ list[j].item \in found
    BY <1>1, <2>1, ListedFacts
  <2> HIDE DEF list, pc
  <2>4. \A j \in DOMAIN list : list[j].item \in Messages
                               /\ stored[list[j].item].as \in {"document", "duplicate"}
    BY <2>1, <2>2, <2>3
  <2> QED  BY <1>1, <1>3, <2>1, <2>3, <2>4, ListKeeps
<1> QED  BY <1>2, <1>3 DEF ListDocuments

LEMMA ListTrashKeeps ==
  ASSUME ExportInv, NEW c \in TextCalls, ListTrash(c),
         UNCHANGED <<scan, ocrVars>>, UNCHANGED <<cancelled, worldVars>>
  PROVE  ExportInv'
<1> DEFINE l == call[c].left
           new == Listed(c, Trash, "trash")
           list == l \o new
<1>1. /\ c \in Calls /\ c \notin FolderCalls /\ call[c].pc = "trash"
      /\ UNCHANGED <<exports, disk>>
  BY TextOnly DEF ListTrash
<1>2. CASE Goes(c, "failing")
  BY <1>1, <1>2, FailingKeeps DEF Writes
<1>3. CASE call' = [call EXCEPT ![c].left = list, ![c].pc = "write"]
  <2>1. CallInv(c) /\ l \in Seq(Row)
    BY <1>1, CallFacts DEF CallRow
  <2>2. \A k \in DOMAIN l : /\ l[k].item \in Messages
                            /\ stored[l[k].item].as \in {"document", "duplicate"}
    BY <1>1, <2>1 DEF CallInv, ListsDiffer
  <2>3. OwnRows(c) => Rows(c) = l
    BY <1>1, NothingWritten
  <2>4. Trash \in SUBSET Messages /\ \A m \in Trash : stored[m].as = "raw"
    BY DEF Trash
  <2>5. /\ new \in Seq(Row) /\ Once(Items(new))
        /\ \A j \in DOMAIN new : new[j].by = c /\ new[j].item \in Trash
    BY <1>1, <2>4, ListedFacts
  <2> HIDE DEF l, new
  <2>6. /\ list \in Seq(Row)
        /\ \A k \in DOMAIN list : \/ k \in DOMAIN l /\ list[k] = l[k]
                                  \/ k - Len(l) \in DOMAIN new /\ list[k] = new[k - Len(l)]
    BY <2>1, <2>5, ConcatFacts
  <2>7. /\ Items(l) \in Seq(Nodes \cup Messages) /\ DOMAIN Items(l) = DOMAIN l
        /\ \A k \in DOMAIN l : Items(l)[k] = l[k].item
    BY <2>1, ItemsType
  <2>8. /\ Items(new) \in Seq(Nodes \cup Messages) /\ DOMAIN Items(new) = DOMAIN new
        /\ \A k \in DOMAIN new : Items(new)[k] = new[k].item
    BY <2>5, ItemsType
  <2>9. Items(list) = Items(l) \o Items(new)
    BY <2>1, <2>5, ItemsConcat
  <2> HIDE DEF list
  <2>10. ASSUME OwnRows(c) PROVE Once(Items(list))
    <3>1. Once(Items(l))
      BY <2>3, <2>10 DEF OwnRows
    <3>2. \A j \in DOMAIN Items(l), k \in DOMAIN Items(new) : Items(l)[j] # Items(new)[k]
      BY <2>2, <2>4, <2>5, <2>7, <2>8
    <3> QED  BY <2>5, <2>7, <2>8, <2>9, <3>1, <3>2, OnceConcat
  <2>11. ASSUME OwnRows(c) PROVE \A k \in DOMAIN list : list[k].by = c
    <3>1. \A k \in DOMAIN l : l[k].by = c
      BY <2>3, <2>11 DEF OwnRows
    <3> QED  BY <2>5, <2>6, <3>1
  <2> QED  BY <1>1, <1>3, <2>6, <2>10, <2>11, ListKeeps
<1> QED  BY <1>2, <1>3 DEF ListTrash

LEMMA WriteRowKeeps ==
  ASSUME ExportInv, NEW c \in TextCalls, WriteRow(c),
         UNCHANGED <<scan, ocrVars>>, UNCHANGED <<cancelled, worldVars>>
  PROVE  ExportInv'
<1> DEFINE l == call[c].left
           b == call[c].buffer
           row == Head(l)
           rest == Tail(l)
           more == Append(b, row)
           n == call[c].rows + 1
           k == [call[c] EXCEPT !.left = rest, !.buffer = more, !.rows = n]
<1>1. c \in Calls /\ c \notin FolderCalls
  BY TextOnly
<1>2. /\ call \in [Calls -> CallRow] /\ call[c] \in CallRow
      /\ exports \in [Calls -> ExportRow] /\ disk \in [Names -> Content] /\ CallInv(c)
  BY <1>1, CallFacts
<1>3. /\ call' = [call EXCEPT ![c] = k] /\ exports' = exports /\ disk' = disk
      /\ call[c].pc = "write" /\ l # <<>>
  BY DEF WriteRow, WithRow
<1>4. Counted(c) /\ (Alone(c) => OwnRows(c))
  BY <1>2, <1>3 DEF CallInv, Fills, Writes
<1>5. /\ b \in Seq(Row) /\ l \in Seq(Row) /\ call[c].written \in Nat /\ call[c].rows \in Nat
      /\ call[c].name \in Names
  BY <1>2, <1>4 DEF CallRow, Counted
<1>6. row \in Row /\ rest \in Seq(Row)
  BY <1>3, <1>5, HeadTailProperties
<1>7. /\ more \in Seq(Row) /\ Len(more) = Len(b) + 1 /\ Len(b) \in Nat /\ n \in Nat
      /\ n = call[c].rows + 1
  BY <1>5, <1>6, AppendProperties
<1>8. more \o rest = b \o l
  BY <1>3, <1>5, AppendShift
<1> HIDE DEF l, row, rest, more, n
<1>9. /\ k \in CallRow /\ k.pc = "write" /\ k.name = call[c].name
      /\ k.left = rest /\ k.buffer = more /\ k.written = call[c].written /\ k.rows = n
  BY <1>2, <1>3, <1>6, <1>7 DEF CallRow
<1> HIDE DEF k
<1>10. call'[c] = k
  BY <1>1, <1>2, <1>3
<1>11. KindOf(c)' /\ Extracting(c)' /\ ListsDiffer(c)'
  BY <1>1, <1>9, <1>10 DEF KindOf, Extracting, ListsDiffer
<1>12. NotYet(c)' /\ Interrupted(c)' /\ Fresh(c)' /\ Settled(c)' /\ ~Succeeded(c)'
  BY <1>1, <1>3, <1>9, <1>10, GoesOn
<1>13. n = call[c].written + Len(more)
  <2>1. call[c].rows = call[c].written + Len(b)
    BY <1>4 DEF Counted
  <2>2. \A x, y, z, u, v \in Nat : x = y + z /\ u = x + 1 /\ v = z + 1 => u = y + v
    OBVIOUS
  <2>3. /\ call[c].rows \in Nat /\ call[c].written \in Nat /\ Len(b) \in Nat
        /\ Len(more) \in Nat
    BY <1>5, <1>7
  <2> QED  BY <1>7, <2>1, <2>2, <2>3
<1>14. Counted(c)'
  BY <1>1, <1>5, <1>9, <1>10, <1>12, <1>13 DEF Counted
<1>15. Alone(c)' => Alone(c)
  BY <1>1, <1>2, <1>3, <1>9, AloneStays
<1>16. Rows(c)' = Rows(c)
  BY <1>3, <1>8, <1>9, <1>10 DEF Rows, l
<1>17. OwnRows(c) => OwnRows(c)'
  BY <1>1, <1>3, <1>9, <1>10, <1>16 DEF OwnRows
<1>18. CallInv(c)'
  BY <1>4, <1>11, <1>12, <1>14, <1>15, <1>17 DEF CallInv, Fills
<1> QED  BY <1>1, <1>2, <1>3, <1>9, <1>18, PlainStep

LEMMA TextStepKeeps ==
  ASSUME ExportInv, NEW c \in TextCalls, TextStep(c), UNCHANGED <<cancelled, worldVars>>
  PROVE  ExportInv'
<1>1. UNCHANGED <<scan, ocrVars>>
  BY DEF TextStep
<1>2. ASSUME NEW r \in TextRequests, RequestText(c, r) PROVE ExportInv'
  BY <1>1, <1>2, RequestTextKeeps
<1>3. CASE ListDocuments(c)
  BY <1>1, <1>3, ListDocumentsKeeps
<1>4. CASE ListTrash(c)
  BY <1>1, <1>4, ListTrashKeeps
<1>5. CASE WriteRow(c)
  BY <1>1, <1>5, WriteRowKeeps
<1> QED  BY <1>2, <1>3, <1>4, <1>5 DEF TextStep

-----------------------------------------------------------------------------
(***************************************************************************)
(* Folder exports.                                                         *)
(***************************************************************************)
LEMMA FolderOnly ==
  ASSUME NEW c \in FolderCalls
  PROVE  c \in Calls /\ c \notin TextCalls
BY ExportAssumption DEF Calls

LEMMA RequestFolderKeeps ==
  ASSUME ExportInv, NEW c \in FolderCalls, RequestFolder(c),
         UNCHANGED <<cancelled, worldVars>>
  PROVE  ExportInv'
<1>1. c \in Calls
  BY FolderOnly
<1>2. /\ call \in [Calls -> CallRow] /\ call[c] \in CallRow
      /\ exports \in [Calls -> ExportRow] /\ disk \in [Names -> Content] /\ CallInv(c)
  BY <1>1, CallFacts
<1>3. PICK include \in BOOLEAN :
        call' = [call EXCEPT ![c].pc = "scan", ![c].include = include]
  BY DEF RequestFolder
<1> DEFINE k == [call[c] EXCEPT !.pc = "scan", !.include = include]
<1>4. /\ k \in CallRow /\ k.pc = "scan" /\ k.name = call[c].name
      /\ k.left = call[c].left /\ k.buffer = call[c].buffer /\ k.written = call[c].written
      /\ k.rows = call[c].rows /\ k.exported = call[c].exported
      /\ k.skipped = call[c].skipped
  BY <1>2 DEF CallRow
<1>5. /\ call' = [call EXCEPT ![c] = k] /\ exports' = exports /\ disk' = disk
      /\ call[c].pc = "off" /\ Start(c) /\ UNCHANGED ocrVars
  BY <1>3 DEF RequestFolder
<1> HIDE DEF k
<1>6. call'[c] = k
  BY <1>1, <1>2, <1>5
<1>7. Fresh(c) /\ exports[c].status = "none" /\ ocr[c].pc = "off"
  BY <1>2, <1>5, NotExtracting DEF CallInv, NotYet
<1>8. KindOf(c)' /\ NotYet(c)' /\ Interrupted(c)' /\ ListsDiffer(c)'
  BY <1>4, <1>5, <1>6, <1>7 DEF KindOf, NotYet, Interrupted, Live, ListsDiffer
<1>9. Fresh(c)'
  BY <1>4, <1>5, <1>6, <1>7 DEF Fresh
<1>10. scan \in [FolderCalls -> Scan] /\ ScanTypeOK /\ ListedOnce
  BY ScanTyped, Typed DEF ExportInv
<1>11. ScanTypeOK' /\ ListedOnce'
  BY <1>5, <1>10, StartTypes, StartKeeps
<1>12. scan'[c].files \in Seq(Nodes)
  BY <1>11 DEF ScanTypeOK
<1>13. Extracting(c)'
  <2>1. Len(scan'[c].files) \in Nat /\ ocr' = ocr
    BY <1>5, <1>12 DEF ocrVars
  <2>2. Done(c)' = 0
    BY <1>6, <1>9, <1>4 DEF Done, Fresh
  <2> QED  BY <1>7, <2>1, <2>2 DEF Extracting
<1>14. Settled(c)' /\ Fills(c)'
  BY <1>4, <1>5, <1>6, <1>7 DEF Settled, Fills, Writes, Succeeded
<1>15. CallInv(c)'
  BY <1>8, <1>9, <1>13, <1>14 DEF CallInv
<1>16. OCRInv'
  BY <1>5, OCRIdle DEF ExportInv, worldVars
<1>17. \A d \in FolderCalls \ {c} : scan'[d] = scan[d] /\ ocr'[d] = ocr[d]
  BY <1>5, <1>10 DEF Start, ocrVars
<1> QED  BY <1>1, <1>2, <1>4, <1>5, <1>11, <1>15, <1>16, <1>17, StepKeeps

LEMMA ScansKeeps ==
  ASSUME ExportInv, NEW c \in FolderCalls, Scans(c), UNCHANGED <<cancelled, worldVars>>
  PROVE  ExportInv'
<1> DEFINE pc == CASE scan'[c].pc = "walk" -> "scan"
                   [] scan'[c].pc = "listed" -> "create"
                   [] OTHER -> "over"
<1>1. c \in Calls
  BY FolderOnly
<1>2. /\ call \in [Calls -> CallRow] /\ call[c] \in CallRow
      /\ exports \in [Calls -> ExportRow] /\ disk \in [Names -> Content] /\ CallInv(c)
  BY <1>1, CallFacts
<1>3. pc \in {"scan", "create", "over"}
  OBVIOUS
<1>4. /\ call' = [call EXCEPT ![c].pc = pc] /\ exports' = exports /\ disk' = disk
      /\ call[c].pc = "scan" /\ ScanStep(c) /\ UNCHANGED ocrVars
  BY DEF Scans, Goes
<1>5. PICK now : now = pc
  OBVIOUS
<1> DEFINE l == [call[c] EXCEPT !.pc = now]
<1>6. now \in {"scan", "create", "over"} /\ call' = [call EXCEPT ![c] = l]
  BY <1>3, <1>4, <1>5
<1> HIDE DEF pc
<1>7. /\ l \in CallRow /\ l.pc = now /\ l.name = call[c].name
      /\ l.left = call[c].left /\ l.buffer = call[c].buffer /\ l.written = call[c].written
      /\ l.rows = call[c].rows /\ l.exported = call[c].exported
      /\ l.skipped = call[c].skipped
  BY <1>2, <1>6 DEF CallRow
<1> HIDE DEF l
<1>8. call'[c] = l
  BY <1>1, <1>2, <1>6
<1>9. Fresh(c) /\ exports[c].status = "none" /\ ocr[c].pc = "off"
  BY <1>2, <1>4, NotExtracting DEF CallInv, NotYet
<1>10. KindOf(c)' /\ NotYet(c)' /\ Interrupted(c)' /\ ListsDiffer(c)'
  BY <1>4, <1>6, <1>7, <1>8, <1>9 DEF KindOf, NotYet, Interrupted, Live, ListsDiffer
<1>11. Fresh(c)'
  BY <1>4, <1>7, <1>8, <1>9 DEF Fresh
<1>12. /\ ScanTypeOK' /\ ListedOnce'
       /\ \A d \in FolderCalls \ {c} : scan'[d] = scan[d]
  BY <1>4, ScanKeeps, Typed DEF ExportInv
<1>13. Extracting(c)'
  <2>1. scan'[c].files \in Seq(Nodes)
    BY <1>12 DEF ScanTypeOK
  <2>2. Len(scan'[c].files) \in Nat /\ ocr' = ocr
    BY <1>4, <2>1 DEF ocrVars
  <2>3. Done(c)' = 0
    BY <1>4, <1>7, <1>8, <1>9 DEF Done, Fresh
  <2> QED  BY <1>9, <2>2, <2>3 DEF Extracting
<1>14. Settled(c)' /\ Fills(c)'
  BY <1>4, <1>6, <1>7, <1>8, <1>9 DEF Settled, Fills, Writes, Succeeded
<1>15. CallInv(c)'
  BY <1>10, <1>11, <1>13, <1>14 DEF CallInv
<1>16. OCRInv'
  BY <1>4, OCRIdle DEF ExportInv, worldVars
<1>17. \A d \in FolderCalls \ {c} : scan'[d] = scan[d] /\ ocr'[d] = ocr[d]
  BY <1>4, <1>12 DEF ocrVars
<1> QED  BY <1>1, <1>2, <1>4, <1>6, <1>7, <1>12, <1>15, <1>16, <1>17, StepKeeps

\* Where only the extraction of a call goes on.
LEMMA ExtractionKeeps ==
  ASSUME ExportInv, NEW c \in FolderCalls, UNCHANGED <<exportVars, scan>>,
         UNCHANGED <<cancelled, worldVars>>,
         OCRInv', \A d \in FolderCalls \ {c} : ocr'[d] = ocr[d], Extracting(c)'
  PROVE  ExportInv'
<1>1. c \in Calls
  BY FolderOnly
<1>2. /\ call \in [Calls -> CallRow] /\ call[c] \in CallRow
      /\ exports \in [Calls -> ExportRow] /\ disk \in [Names -> Content] /\ CallInv(c)
  BY <1>1, CallFacts
<1>3. /\ exports' = exports /\ disk' = disk /\ call' = call /\ scan' = scan
      /\ cancelled' = cancelled /\ stored' = stored
  BY DEF exportVars, worldVars
<1>4. CallInv(c)'
  <2>1. /\ KindOf(c)' /\ NotYet(c)' /\ Interrupted(c)' /\ Fresh(c)' /\ ListsDiffer(c)'
        /\ Settled(c)'
    BY <1>2, <1>3 DEF CallInv, KindOf, NotYet, Interrupted, Live, Fresh, ListsDiffer,
         Settled, Succeeded
  <2>2. Rows(c)' = Rows(c) /\ Done(c)' = Done(c) /\ (Alone(c)' <=> Alone(c))
    BY <1>3 DEF Rows, Done, Alone
  <2>3. OwnRows(c) => OwnRows(c)'
    BY <1>3, <2>2 DEF OwnRows
  <2>4. Counted(c) => Counted(c)'
    BY <1>3, <2>2 DEF Counted, Succeeded
  <2>5. Writes(c)' = Writes(c) /\ Succeeded(c)' = Succeeded(c)
    BY <1>3 DEF Writes, Succeeded
  <2>6. Fills(c)'
    BY <1>2, <2>2, <2>3, <2>4, <2>5 DEF CallInv, Fills
  <2> QED  BY <2>1, <2>6 DEF CallInv
<1> DEFINE k == call[c]
<1>5. call' = [call EXCEPT ![c] = k] /\ k \in CallRow /\ k.name = call[c].name
  BY <1>2, <1>3
<1> HIDE DEF k
<1>6. /\ exports' \in [Calls -> ExportRow] /\ disk' \in [Names -> Content]
      /\ \A d \in Calls \ {c} : exports'[d] = exports[d]
      /\ \A n \in Names \ {k.name} : disk'[n] = disk[n]
      /\ \A d \in FolderCalls \ {c} : scan'[d] = scan[d] /\ ocr'[d] = ocr[d]
  BY <1>2, <1>3
<1>7. ScanTypeOK' /\ ListedOnce'
  BY <1>3, Typed DEF ExportInv, ScanTypeOK, ListedOnce, Opens, Course
<1> QED  BY <1>1, <1>4, <1>5, <1>6, <1>7, StepKeeps

\* The files of a call and the ones left.
LEMMA FileFacts ==
  ASSUME ExportInv, NEW c \in FolderCalls
  PROVE  /\ scan[c].files \in Seq(Nodes) /\ Len(scan[c].files) \in Nat
         /\ Done(c) \in Nat /\ Done(c) <= Len(scan[c].files)
         /\ Len(FilesLeft(c)) = Len(scan[c].files) - Done(c)
         /\ FilesLeft(c) # <<>> =>
              /\ Done(c) < Len(scan[c].files)
              /\ Head(FilesLeft(c)) = scan[c].files[Done(c) + 1]
         /\ FilesLeft(c) = <<>> => Done(c) = Len(scan[c].files)
         /\ \A i \in 1 .. Len(scan[c].files) : scan[c].files[i] \in Nodes
         /\ Once(scan[c].files)
<1>1. c \in Calls
  BY FolderOnly
<1>2. CallInv(c) /\ call[c] \in CallRow /\ scan \in [FolderCalls -> Scan]
  BY <1>1, CallFacts, Typed, ScanTyped DEF ExportInv
<1>3. scan[c].files \in Seq(Nodes) /\ Done(c) \in Nat /\ Done(c) <= Len(scan[c].files)
  BY <1>2 DEF Scan, CallRow, CallInv, Extracting, Done
<1>4. Once(scan[c].files)
  BY DEF ExportInv, ListedOnce
<1> DEFINE files == scan[c].files
           done == Done(c)
<1>5. FilesLeft(c) = SubSeq(files, done + 1, Len(files))
  BY DEF FilesLeft, Done
<1>6. files \in Seq(Nodes) /\ done \in Nat /\ done <= Len(files)
  BY <1>3
<1> HIDE DEF files, done
<1>7. Len(files) \in Nat /\ \A i \in 1 .. Len(files) : files[i] \in Nodes
  BY <1>6
<1> DEFINE s == SubSeq(files, done + 1, Len(files))
<1>8. /\ Len(s) = Len(files) - done
      /\ \A i \in 1 .. Len(files) - done : s[i] = files[done + i]
  BY <1>6, <1>7
<1>9. s \in Seq(Nodes)
  BY <1>6, <1>7
<1> HIDE DEF s
<1>10. ASSUME s # <<>> PROVE done < Len(files) /\ Head(s) = files[done + 1]
  <2>1. Len(s) # 0 /\ Head(s) = s[1]
    BY <1>9, <1>10, EmptyByLength
  <2>2. done < Len(files)
    BY <1>6, <1>7, <1>8, <2>1
  <2>3. 1 \in 1 .. Len(files) - done
    BY <1>6, <1>7, <2>2
  <2> QED  BY <1>8, <2>1, <2>2, <2>3
<1>11. ASSUME s = <<>> PROVE done = Len(files)
  BY <1>6, <1>7, <1>8, <1>11
<1> QED  BY <1>3, <1>4, <1>5, <1>7, <1>8, <1>10, <1>11 DEF s, files, done

LEMMA NextFileKeeps ==
  ASSUME ExportInv, NEW c \in FolderCalls, NextFile(c), UNCHANGED <<cancelled, worldVars>>
  PROVE  ExportInv'
<1> DEFINE file == Head(FilesLeft(c))
           o == [NoOCR EXCEPT !.pc = "prepare", !.file = file]
<1>1. /\ Done(c) \in Nat /\ Len(scan[c].files) \in Nat
      /\ Done(c) < Len(scan[c].files) /\ file = scan[c].files[Done(c) + 1]
      /\ \A i \in 1 .. Len(scan[c].files) : scan[c].files[i] \in Nodes
  BY FileFacts DEF NextFile
<1>2. file \in Files
  <2>1. Done(c) + 1 \in 1 .. Len(scan[c].files)
    BY <1>1
  <2> QED  BY <1>1, <2>1, ExportAssumption
<1>3. /\ call[c].pc = "extract" /\ ocr[c].pc = "off" /\ ocr' = [ocr EXCEPT ![c] = o]
      /\ UNCHANGED <<exportVars, scan>>
      /\ UNCHANGED <<remote, temp, configured, remoteFaults>>
  BY DEF NextFile, Extract
<1> HIDE DEF file
<1>4. o \in OCR /\ o.pc = "prepare" /\ o.file = file
  <2>1. 0 \in 0 .. RetryAttempts
    BY OCRAssumption
  <2> QED  BY <1>2, <2>1 DEF NoOCR, OCR
<1> HIDE DEF o
<1>5. killed \in Nat /\ killed' = killed /\ OCRInv /\ ocr \in [FolderCalls -> OCR]
  BY Typed, OCRTyped DEF ExportInv, worldVars
<1>6. OCRInv' /\ \A d \in FolderCalls \ {c} : ocr'[d] = ocr[d]
  BY <1>2, <1>3, <1>4, <1>5, ReplaceKeeps
<1>7. call' = call /\ scan' = scan /\ ocr'[c] = o
  BY <1>3, <1>5 DEF exportVars
<1>8. Extracting(c)'
  BY <1>1, <1>3, <1>4, <1>7 DEF Extracting, Done
<1> QED  BY <1>3, <1>6, <1>8, ExtractionKeeps

LEMMA ExtractsKeeps ==
  ASSUME ExportInv, NEW c \in FolderCalls, Extracts(c), UNCHANGED <<cancelled, worldVars>>
  PROVE  ExportInv'
<1>1. call[c].pc = "extract" /\ OCRStep(c) /\ UNCHANGED <<exportVars, scan>>
  BY DEF Extracts
<1>2. killed \in Nat /\ killed' = killed /\ OCRInv
  BY Typed DEF ExportInv, worldVars
<1>3. /\ OCRInv' /\ \A d \in FolderCalls \ {c} : ocr'[d] = ocr[d]
      /\ ocr[c].pc # "off" /\ ocr'[c].file = ocr[c].file
  BY <1>1, <1>2, OCRKeeps
<1>4. Extracting(c)
  BY FolderOnly, CallFacts DEF CallInv
<1>5. Extracting(c)'
  BY <1>1, <1>3, <1>4 DEF Extracting, Done, exportVars
<1> QED  BY <1>1, <1>3, <1>5, ExtractionKeeps

LEMMA NoFileLeftKeeps ==
  ASSUME ExportInv, NEW c \in FolderCalls, NoFileLeft(c), UNCHANGED <<cancelled, worldVars>>
  PROVE  ExportInv'
<1> DEFINE k == [call[c] EXCEPT !.pc = "write"]
<1>1. c \in Calls
  BY FolderOnly
<1>2. /\ call \in [Calls -> CallRow] /\ call[c] \in CallRow
      /\ exports \in [Calls -> ExportRow] /\ disk \in [Names -> Content] /\ CallInv(c)
  BY <1>1, CallFacts
<1>3. /\ k \in CallRow /\ k.pc = "write" /\ k.name = call[c].name
      /\ k.left = call[c].left /\ k.buffer = call[c].buffer /\ k.written = call[c].written
      /\ k.rows = call[c].rows /\ k.exported = call[c].exported
      /\ k.skipped = call[c].skipped /\ k.include = call[c].include
  BY <1>2 DEF CallRow
<1>4. /\ call' = [call EXCEPT ![c] = k] /\ exports' = exports /\ disk' = disk
      /\ call[c].pc = "extract" /\ ocr[c].pc = "off" /\ UNCHANGED <<scan, ocrVars>>
      /\ Done(c) = Len(scan[c].files)
  BY FileFacts DEF NoFileLeft, Goes
<1> HIDE DEF k
<1>5. call'[c] = k /\ ocr' = ocr
  BY <1>1, <1>2, <1>4 DEF ocrVars
<1>6. KindOf(c)' /\ ListsDiffer(c)'
  BY <1>3, <1>5 DEF KindOf, ListsDiffer
<1>7. Extracting(c)'
  BY <1>2, <1>3, <1>4, <1>5 DEF CallInv, Extracting, Done
<1>8. NotYet(c)' /\ Interrupted(c)' /\ Fresh(c)' /\ Settled(c)' /\ ~Succeeded(c)'
  BY <1>1, <1>3, <1>4, <1>5, GoesOn
<1>9. Counted(c) /\ (Alone(c) => OwnRows(c))
  BY <1>2, <1>4 DEF CallInv, Fills, Writes
<1>10. Counted(c)'
  BY <1>3, <1>4, <1>5, <1>8, <1>9 DEF Counted, Done
<1>11. Alone(c)' => Alone(c)
  BY <1>1, <1>2, <1>3, <1>4, AloneStays
<1>12. Rows(c)' = Rows(c)
  BY <1>3, <1>4, <1>5 DEF Rows
<1>13. OwnRows(c) => OwnRows(c)'
  BY <1>3, <1>4, <1>5, <1>12 DEF OwnRows, Done
<1>14. CallInv(c)'
  BY <1>6, <1>7, <1>8, <1>9, <1>10, <1>11, <1>13 DEF CallInv, Fills
<1> QED  BY <1>1, <1>2, <1>3, <1>4, <1>14, PlainStep

LEMMA ConcatThenAppend ==
  ASSUME NEW S, NEW f \in Seq(S), NEW b \in Seq(S), NEW x \in S
  PROVE  f \o Append(b, x) = Append(f \o b, x)
<1>1. <<x>> \in Seq(S) /\ f \o b \in Seq(S)
  BY ConcatProperties
<1>2. Append(b, x) = b \o <<x>>
  BY AppendIsConcat
<1>3. Append(f \o b, x) = (f \o b) \o <<x>>
  BY <1>1, AppendIsConcat
<1>4. (f \o b) \o <<x>> = f \o (b \o <<x>>)
  BY <1>1, ConcatAssociative
<1> QED  BY <1>2, <1>3, <1>4

\* A row for a new item.
LEMMA OnceAppended ==
  ASSUME NEW r \in Content, NEW row \in Row, Once(Items(r)),
         \A k \in DOMAIN r : r[k].item # row.item
  PROVE  Once(Items(Append(r, row)))
<1> DEFINE s == Append(r, row)
           n == Len(r)
<1>1. /\ r \in Seq(Row \cup {Hole}) /\ row \in Row \cup {Hole}
      /\ n \in Nat /\ DOMAIN r = 1 .. n
  BY DEF Content
<1>2. /\ Len(s) = n + 1 /\ \A i \in 1 .. n : s[i] = r[i]
      /\ s[n + 1] = row
  BY <1>1, AppendProperties
<1>3. \A i, j \in 1 .. n : r[i].item = r[j].item => i = j
  BY <1>1 DEF Once, Items
<1> HIDE DEF s, n
<1>4. \A i \in 1 .. n : r[i].item # row.item
  BY <1>1
<1>5. ASSUME NEW i \in 1 .. n + 1, NEW j \in 1 .. n + 1, s[i].item = s[j].item
      PROVE  i = j
  <2>1. i \in 1 .. n \/ i = n + 1
    BY <1>1
  <2>2. j \in 1 .. n \/ j = n + 1
    BY <1>1
  <2> QED  BY <1>2, <1>3, <1>4, <1>5, <2>1, <2>2
<1>6. Items(s) = [k \in 1 .. n + 1 |-> s[k].item]
  BY <1>2 DEF Items
<1>7. Once(Items(s))
  BY <1>5, <1>6 DEF Once
<1> QED  BY <1>7 DEF s

\* One more file taken: what the counters of a folder call become.
LEMMA OneMoreCounted ==
  ASSUME NEW e \in Nat, NEW t \in Nat, NEW r \in Nat, NEW include, NEW e1, NEW t1, NEW r1,
         r = e + IF include THEN t ELSE 0,
         \/ e1 = e + 1 /\ t1 = t /\ r1 = r + 1
         \/ e1 = e /\ t1 = t + 1 /\ r1 = IF include THEN r + 1 ELSE r
  PROVE  /\ e1 \in Nat /\ t1 \in Nat /\ r1 \in Nat /\ e1 + t1 = e + t + 1
         /\ r1 = e1 + IF include THEN t1 ELSE 0
<1>1. CASE include
  BY <1>1
<1>2. CASE ~include
  BY <1>2
<1> QED  BY <1>1, <1>2

LEMMA TakeTextKeeps ==
  ASSUME ExportInv, NEW c \in FolderCalls, TakeText(c), UNCHANGED <<cancelled, worldVars>>
  PROVE  ExportInv'
<1> DEFINE text == ocr[c].outcome = "text"
           row == [by |-> c, item |-> ocr[c].file, as |-> IF text THEN "text" ELSE "skipped"]
           counted == text \/ call[c].include
           b == call[c].buffer
           exported == IF text THEN call[c].exported + 1 ELSE call[c].exported
           skipped == IF text THEN call[c].skipped ELSE call[c].skipped + 1
           buffer == IF counted THEN Append(b, row) ELSE b
           rows == IF counted THEN call[c].rows + 1 ELSE call[c].rows
           k == [call[c] EXCEPT !.exported = exported, !.skipped = skipped,
                                !.buffer = buffer, !.rows = rows]
           files == scan[c].files
           done == Done(c)
<1>1. c \in Calls
  BY FolderOnly
<1>2. /\ call \in [Calls -> CallRow] /\ call[c] \in CallRow
      /\ exports \in [Calls -> ExportRow] /\ disk \in [Names -> Content] /\ CallInv(c)
  BY <1>1, CallFacts
<1>3. /\ call' = [call EXCEPT ![c] = k] /\ exports' = exports /\ disk' = disk
      /\ call[c].pc = "extract" /\ ocr[c].pc = "done"
      /\ ocr' = [ocr EXCEPT ![c] = NoOCR] /\ scan' = scan
      /\ UNCHANGED <<remote, temp, configured, remoteFaults>>
  BY DEF TakeText
<1>4. Counted(c) /\ (Alone(c) => OwnRows(c))
  BY <1>2, <1>3 DEF CallInv, Fills, Writes
<1>5. /\ files \in Seq(Nodes) /\ Len(files) \in Nat /\ Once(files)
      /\ \A i \in 1 .. Len(files) : files[i] \in Nodes
  BY FileFacts
<1>6. /\ done \in Nat /\ done < Len(files) /\ ocr[c].file = files[done + 1]
  BY <1>2, <1>3, FileFacts DEF CallInv, Extracting
<1>7. done + 1 \in 1 .. Len(files) /\ row \in Row /\ row.by = c /\ row.item = files[done + 1]
  <2>1. done + 1 \in 1 .. Len(files)
    BY <1>5, <1>6
  <2> QED  BY <1>1, <1>5, <1>6, <2>1 DEF Row
<1>8. /\ b \in Seq(Row) /\ call[c].written \in Nat /\ call[c].rows \in Nat
      /\ call[c].exported \in Nat /\ call[c].skipped \in Nat
  BY <1>2 DEF CallRow
<1>9. /\ Append(b, row) \in Seq(Row) /\ Len(Append(b, row)) = Len(b) + 1 /\ Len(b) \in Nat
  BY <1>7, <1>8, AppendProperties
<1>10. /\ call[c].name \in Names /\ call[c].rows = call[c].written + Len(b)
       /\ call[c].left = <<>>
       /\ call[c].rows = call[c].exported + IF call[c].include THEN call[c].skipped ELSE 0
  BY <1>4 DEF Counted
<1>11. done = call[c].exported + call[c].skipped
  BY DEF Done
<1> HIDE DEF row, text, b, files, done
<1>12. /\ exported \in Nat /\ skipped \in Nat /\ rows \in Nat /\ buffer \in Seq(Row)
       /\ exported + skipped = done + 1
       /\ rows = exported + IF call[c].include THEN skipped ELSE 0
  <2>1. \/ /\ exported = call[c].exported + 1 /\ skipped = call[c].skipped
           /\ rows = call[c].rows + 1
        \/ /\ exported = call[c].exported /\ skipped = call[c].skipped + 1
           /\ rows = IF call[c].include THEN call[c].rows + 1 ELSE call[c].rows
    OBVIOUS
  <2>2. buffer \in Seq(Row)
    BY <1>8, <1>9
  <2> HIDE DEF exported, skipped, rows, buffer, counted
  <2>3. PICK e \in Nat, t \in Nat, r \in Nat :
          e = call[c].exported /\ t = call[c].skipped /\ r = call[c].rows
    BY <1>8
  <2>4. PICK include : include = call[c].include
    OBVIOUS
  <2>5. r = e + IF include THEN t ELSE 0
    BY <1>10, <2>3, <2>4
  <2>6. \/ exported = e + 1 /\ skipped = t /\ rows = r + 1
        \/ exported = e /\ skipped = t + 1 /\ rows = IF include THEN r + 1 ELSE r
    BY <2>1, <2>3, <2>4
  <2>7. /\ exported \in Nat /\ skipped \in Nat /\ rows \in Nat
        /\ exported + skipped = e + t + 1
        /\ rows = exported + IF include THEN skipped ELSE 0
    BY <2>5, <2>6, OneMoreCounted
  <2> QED  BY <1>11, <2>2, <2>3, <2>4, <2>7
<1>13. rows = call[c].written + Len(buffer)
  <2>1. PICK r \in Nat, v \in Nat, n \in Nat :
          r = call[c].rows /\ v = call[c].written /\ n = Len(b)
    BY <1>8, <1>9
  <2>2. r = v + n
    BY <1>10, <2>1
  <2>3. CASE counted
    <3>1. buffer = Append(b, row) /\ rows = r + 1
      BY <2>1, <2>3
    <3> HIDE DEF buffer, rows, counted
    <3>2. Len(buffer) = n + 1
      BY <1>9, <2>1, <3>1
    <3> QED  BY <2>1, <2>2, <3>1, <3>2
  <2>4. CASE ~counted
    <3>1. buffer = b /\ rows = r
      BY <2>1, <2>4
    <3> HIDE DEF buffer, rows, counted
    <3> QED  BY <2>1, <2>2, <3>1
  <2> HIDE DEF buffer, rows, counted
  <2> QED  BY <2>3, <2>4
<1>14. buffer \in {Append(b, row), b}
  OBVIOUS
<1> HIDE DEF exported, skipped, rows, buffer, counted
<1>15. /\ k \in CallRow /\ k.pc = "extract" /\ k.name = call[c].name
       /\ k.left = call[c].left /\ k.buffer = buffer /\ k.written = call[c].written
       /\ k.rows = rows /\ k.exported = exported
       /\ k.skipped = skipped /\ k.include = call[c].include
  BY <1>2, <1>3, <1>12 DEF CallRow
<1> HIDE DEF k
<1>16. call'[c] = k
  BY <1>1, <1>2, <1>3
<1>17. NoOCR \in OCR /\ NoOCR.pc = "off"
  <2>1. 0 \in 0 .. RetryAttempts
    BY OCRAssumption
  <2> QED  BY <2>1 DEF NoOCR, OCR
<1>18. killed \in Nat /\ killed' = killed /\ OCRInv /\ ocr \in [FolderCalls -> OCR]
  BY Typed, OCRTyped DEF ExportInv, worldVars
<1>19. OCRInv' /\ \A d \in FolderCalls \ {c} : ocr'[d] = ocr[d]
  <2> DEFINE o == NoOCR
  <2>1. /\ ocr' = [ocr EXCEPT ![c] = o] /\ ocr[c].pc = "done"
        /\ UNCHANGED <<remote, temp, configured, remoteFaults>>
        /\ o \in OCR /\ o.pc = "off"
    BY <1>3, <1>17
  <2> HIDE DEF o
  <2> QED  BY <1>18, <2>1, ReplaceKeeps
<1>20. ocr'[c].pc = "off" /\ Done(c)' = done + 1 /\ scan'[c].files = files
  BY <1>3, <1>12, <1>15, <1>16, <1>17, <1>18 DEF Done, files
<1>21. Extracting(c)'
  BY <1>7, <1>20 DEF Extracting
<1>22. KindOf(c)' /\ ListsDiffer(c)'
  BY <1>15, <1>16 DEF KindOf, ListsDiffer
<1>23. NotYet(c)' /\ Interrupted(c)' /\ Fresh(c)' /\ Settled(c)' /\ ~Succeeded(c)'
  BY <1>1, <1>3, <1>15, <1>16, GoesOn
<1>24. Counted(c)'
  BY <1>10, <1>12, <1>13, <1>15, <1>16, <1>23 DEF Counted
<1>25. Alone(c)' => Alone(c)
  BY <1>1, <1>2, <1>3, <1>15, AloneStays
<1>26. ASSUME OwnRows(c) PROVE OwnRows(c)'
  <2> DEFINE f == disk[call[c].name]
             r == f \o b
             i == done + 1
  <2>1. f \in Seq(Row \cup {Hole}) /\ b \in Seq(Row \cup {Hole}) /\ buffer \in Seq(Row \cup {Hole})
    BY <1>2, <1>8, <1>10, <1>12 DEF Content
  <2>2. b \o <<>> = b
    BY <2>1, ConcatEmptySeq
  <2>3. buffer \o <<>> = buffer
    BY <2>1, ConcatEmptySeq
  <2>4. Rows(c) = r
    BY <1>10, <2>2 DEF Rows, b
  <2>5. Rows(c)' = f \o buffer
    BY <1>3, <1>10, <1>15, <1>16, <2>3 DEF Rows
  <2>6. Len(disk'[call'[c].name]) = call'[c].written
    BY <1>3, <1>15, <1>16, <1>26 DEF OwnRows
  <2>7. r \in Content
    BY <2>1, ConcatProperties DEF Content
  <2>8. /\ \A j \in DOMAIN r : r[j].by = c
        /\ Once(Items(r))
        /\ \A j \in DOMAIN r : \E m \in 1 .. done : r[j].item = files[m]
    BY <1>26, <2>4 DEF OwnRows, files, done
  <2>9. \A j \in DOMAIN r : \E m \in 1 .. i : r[j].item = files[m]
    BY <1>6, <2>8
  <2>10. CASE buffer = b
    <3>1. Rows(c)' = r
      BY <2>5, <2>10
    <3> HIDE DEF r
    <3>2. Items(Rows(c))' = Items(r)
      BY <3>1 DEF Items
    <3> QED  BY <1>20, <2>6, <2>8, <2>9, <3>1, <3>2 DEF OwnRows, Once
  <2>11. CASE buffer = Append(b, row)
    <3> DEFINE s == Append(r, row)
    <3>1. row \in Row \cup {Hole}
      BY <1>7
    <3>2. f \o Append(b, row) = s
      <4>1. f \in Seq(Row \cup {Hole}) /\ b \in Seq(Row \cup {Hole})
        BY <2>1
      <4> HIDE DEF f
      <4> QED  BY <3>1, <4>1, ConcatThenAppend
    <3>3. r \in Seq(Row \cup {Hole})
      BY <2>7 DEF Content
    <3> HIDE DEF r
    <3>4. /\ \A j \in DOMAIN r : s[j] = r[j]
          /\ \A j \in DOMAIN s : j \in DOMAIN r \/ s[j] = row
      BY <3>1, <3>3, AppendProperties
    <3>5. \A j \in DOMAIN r : r[j].item # row.item
      <4> SUFFICES ASSUME NEW j \in DOMAIN r, r[j].item = row.item PROVE FALSE
        OBVIOUS
      <4>1. PICK m \in 1 .. done : r[j].item = files[m]
        BY <2>8
      <4>2. m \in DOMAIN files /\ i \in DOMAIN files /\ m # i
        BY <1>5, <1>6, <1>7, <4>1
      <4>3. files[m] = files[i]
        BY <1>7, <4>1
      <4> QED  BY <1>5, <4>2, <4>3 DEF Once
    <3>6. Once(Items(s))
      BY <1>7, <2>7, <2>8, <3>5, OnceAppended
    <3>7. \A j \in DOMAIN s : s[j].by = c /\ \E m \in 1 .. i : s[j].item = files[m]
      <4> SUFFICES ASSUME NEW j \in DOMAIN s
                   PROVE  s[j].by = c /\ \E m \in 1 .. i : s[j].item = files[m]
        OBVIOUS
      <4>1. i \in 1 .. i
        BY <1>6
      <4> QED  BY <1>7, <2>8, <2>9, <3>4, <4>1
    <3> HIDE DEF s
    <3>8. Rows(c)' = s
      BY <2>5, <2>11, <3>2
    <3>9. Items(Rows(c))' = Items(s)
      BY <3>8 DEF Items
    <3> QED  BY <1>20, <2>6, <3>6, <3>7, <3>8, <3>9 DEF OwnRows, Once
  <2> QED  BY <1>14, <2>10, <2>11
<1>27. CallInv(c)'
  BY <1>4, <1>21, <1>22, <1>23, <1>24, <1>25, <1>26 DEF CallInv, Fills
<1>28. ScanTypeOK' /\ ListedOnce'
  BY <1>3, Typed DEF ExportInv, ScanTypeOK, ListedOnce, Opens, Course
<1>29. /\ exports' \in [Calls -> ExportRow] /\ disk' \in [Names -> Content]
       /\ \A d \in Calls \ {c} : exports'[d] = exports[d]
       /\ \A n \in Names \ {k.name} : disk'[n] = disk[n]
       /\ \A d \in FolderCalls \ {c} : scan'[d] = scan[d] /\ ocr'[d] = ocr[d]
  BY <1>2, <1>3, <1>19
<1> QED  BY <1>1, <1>3, <1>15, <1>19, <1>27, <1>28, <1>29, StepKeeps

LEMMA FolderStepKeeps ==
  ASSUME ExportInv, NEW c \in FolderCalls, FolderStep(c), UNCHANGED <<cancelled, worldVars>>
  PROVE  ExportInv'
<1>1. CASE RequestFolder(c)
  BY <1>1, RequestFolderKeeps
<1>2. CASE Scans(c)
  BY <1>2, ScansKeeps
<1>3. CASE NextFile(c)
  BY <1>3, NextFileKeeps
<1>4. CASE Extracts(c)
  BY <1>4, ExtractsKeeps
<1>5. CASE TakeText(c)
  BY <1>5, TakeTextKeeps
<1>6. CASE NoFileLeft(c)
  BY <1>6, NoFileLeftKeeps
<1> QED  BY <1>1, <1>2, <1>3, <1>4, <1>5, <1>6 DEF FolderStep

LEMMA WorksKeeps ==
  ASSUME ExportInv, NEW c \in Calls, Works(c)
  PROVE  ExportInv'
<1>1. UNCHANGED <<cancelled, worldVars>>
  BY DEF Works
<1>2. CASE RowStep(c)
  BY <1>1, <1>2, RowStepKeeps
<1>3. CASE c \in TextCalls /\ TextStep(c)
  BY <1>1, <1>3, TextStepKeeps
<1>4. CASE c \in FolderCalls /\ FolderStep(c)
  BY <1>1, <1>4, FolderStepKeeps
<1> QED  BY <1>2, <1>3, <1>4 DEF Works

-----------------------------------------------------------------------------
(***************************************************************************)
(* What happens around the calls.                                          *)
(***************************************************************************)
LEMMA AroundKeeps ==
  ASSUME ExportInv, UNCHANGED <<exportVars, scan, ocrVars, killed>>,
         cancelled \subseteq cancelled', TypeOK', \A c \in Calls : ListsDiffer(c)'
  PROVE  ExportInv'
<1>1. /\ exports' = exports /\ disk' = disk /\ call' = call /\ scan' = scan /\ ocr' = ocr
      /\ killed' = killed
  BY DEF exportVars, ocrVars
<1>2. ASSUME NEW c \in Calls PROVE CallInv(c)'
  <2>1. CallInv(c)
    BY DEF ExportInv
  <2>2. KindOf(c)' /\ NotYet(c)' /\ Interrupted(c)' /\ Fresh(c)' /\ Extracting(c)' /\ Settled(c)'
    BY <1>1, <2>1 DEF CallInv, KindOf, NotYet, Interrupted, Live, Fresh, Extracting, Done,
         Settled, Succeeded
  <2>3. Rows(c)' = Rows(c) /\ Done(c)' = Done(c) /\ (Alone(c)' <=> Alone(c))
    BY <1>1 DEF Rows, Done, Alone
  <2>4. OwnRows(c) => OwnRows(c)'
    BY <1>1, <2>3 DEF OwnRows
  <2>5. Counted(c) => Counted(c)'
    BY <1>1, <2>3 DEF Counted, Succeeded
  <2>6. Writes(c)' = Writes(c) /\ Succeeded(c)' = Succeeded(c)
    BY <1>1 DEF Writes, Succeeded
  <2>7. Fills(c)'
    BY <2>1, <2>3, <2>4, <2>5, <2>6 DEF CallInv, Fills
  <2> QED  BY <2>2, <2>7 DEF CallInv
<1>3. OCRInv'
  BY OCRIdle DEF ExportInv
<1>4. ListedOnce'
  BY <1>1 DEF ExportInv, ListedOnce, Opens, Course
<1> QED  BY <1>2, <1>3, <1>4 DEF ExportInv

LEMMA CancelCallKeeps ==
  ASSUME ExportInv, NEW c \in Calls, CancelCall(c)
  PROVE  ExportInv'
<1>1. /\ UNCHANGED <<exportVars, worldVars, scan, ocrVars>>
      /\ cancelled' = cancelled \cup {c}
  BY DEF CancelCall, Cancel
<1>2. TypeOK'
  BY <1>1 DEF ExportInv, TypeOK, exportVars, worldVars, ocrVars, ScanTypeOK, OCRTypeOK
<1>3. \A d \in Calls : ListsDiffer(d)'
  BY <1>1 DEF ExportInv, CallInv, ListsDiffer, exportVars, worldVars
<1> QED  BY <1>1, <1>2, <1>3, AroundKeeps DEF worldVars

LEMMA TickKeeps ==
  ASSUME ExportInv, Tick
  PROVE  ExportInv'
<1>1. /\ UNCHANGED <<exportVars, scan, ocrVars, cancelled, coming, stored, killed, crashes>>
      /\ second < MaxSeconds /\ second' = second + 1
  BY DEF Tick
<1>2. second' \in 0 .. MaxSeconds
  BY <1>1, ExportAssumption DEF ExportInv, TypeOK
<1>3. TypeOK'
  BY <1>1, <1>2 DEF ExportInv, TypeOK, exportVars, ocrVars, ScanTypeOK, OCRTypeOK
<1>4. \A d \in Calls : ListsDiffer(d)'
  BY <1>1 DEF ExportInv, CallInv, ListsDiffer, exportVars
<1> QED  BY <1>1, <1>3, <1>4, AroundKeeps

\* A message that has become a document or a duplicate is never raw again.
LEMMA SynchroniseKeeps ==
  ASSUME ExportInv, NEW m \in coming.messages, Synchronise(m)
  PROVE  ExportInv'
<1> DEFINE Stored == [as: {"absent", "raw", "document", "duplicate"}, chunks: BOOLEAN]
           Settles == /\ stored' \in [Messages -> Stored]
                      /\ \A x \in Messages : stored[x].as \in {"document", "duplicate"}
                                            => stored'[x].as \in {"document", "duplicate"}
<1>1. /\ UNCHANGED <<exportVars, scan, ocrVars, cancelled, coming, second, killed, crashes>>
  BY DEF Synchronise
<1>2. m \in Messages
  <2>1. coming \in [calls: SUBSET Calls, messages: SUBSET Messages]
    BY ExportAssumption DEF ExportInv, TypeOK
  <2> QED  BY <2>1
<1>3. stored \in [Messages -> Stored]
  BY DEF ExportInv, TypeOK
<1>4. Settles
  <2>1. ASSUME NEW s \in Stored, stored' = [stored EXCEPT ![m] = s],
               stored[m].as \in {"document", "duplicate"} => s.as \in {"document", "duplicate"}
        PROVE  Settles
    BY <1>2, <1>3, <2>1
  <2>2. stored[m] \in Stored
    BY <1>2, <1>3
  <2>3. CASE stored[m].as = "absent" /\ stored' = [stored EXCEPT ![m].as = "raw"]
    <3> DEFINE s == [stored[m] EXCEPT !.as = "raw"]
    <3>1. s \in Stored
      BY <2>2
    <3> QED  BY <2>1, <2>3, <3>1
  <2>4. ASSUME NEW as \in {"document", "duplicate"}, stored' = [stored EXCEPT ![m].as = as]
        PROVE  Settles
    <3> DEFINE s == [stored[m] EXCEPT !.as = as]
    <3>1. s \in Stored /\ s.as = as
      BY <2>2
    <3> QED  BY <2>1, <2>4, <3>1
  <2>5. ASSUME NEW chunks \in BOOLEAN, stored' = [stored EXCEPT ![m].chunks = chunks]
        PROVE  Settles
    <3> DEFINE s == [stored[m] EXCEPT !.chunks = chunks]
    <3>1. s \in Stored /\ s.as = stored[m].as
      BY <2>2
    <3> QED  BY <2>1, <2>5, <3>1
  <2> QED  BY <2>3, <2>4, <2>5 DEF Synchronise
<1>5. TypeOK'
  BY <1>1, <1>4 DEF ExportInv, TypeOK, exportVars, ocrVars, ScanTypeOK, OCRTypeOK
<1>6. \A d \in Calls : ListsDiffer(d)'
  BY <1>1, <1>4 DEF ExportInv, CallInv, ListsDiffer, exportVars
<1> QED  BY <1>1, <1>5, <1>6, AroundKeeps

\* What an extraction had in hand when the process died is left behind: one
\* file of a call that was live, at the most.
LEMMA CrashLeaves ==
  ASSUME ExportInv
  PROVE  LET live == {c \in Calls : Live(c)}
         IN /\ Cardinality(remote) <= Cardinality(Left) + Cardinality(live)
            /\ Cardinality(live) \in Nat
            /\ Cardinality(live) = 0 => \A c \in FolderCalls : ocr[c].pc = "off"
<1> DEFINE live == {c \in Calls : Live(c)}
           hand == remote \ Left
           by == {c \in live : c \in FolderCalls /\ Current(c) \in hand}
           f == [c \in by |-> Current(c)]
<1>1. OCRInv /\ IsFiniteSet(remote)
  BY DEF ExportInv, OCRInv
<1>2. IsFiniteSet(live) /\ Cardinality(live) \in Nat
  <2>1. live \in SUBSET Calls /\ IsFiniteSet(Calls)
    BY ExportAssumption
  <2>2. IsFiniteSet(live)
    BY <2>1, FS_Subset
  <2> QED  BY <2>2, FS_CardinalityType
<1>3. ASSUME NEW c \in FolderCalls, ocr[c].pc # "off" PROVE c \in live
  <2>1. c \in Calls /\ CallInv(c)
    BY FolderOnly, CallFacts
  <2>2. call[c].pc = "extract"
    BY <1>3, <2>1 DEF CallInv, Extracting
  <2> QED  BY <2>1, <2>2 DEF Live
<1>4. by \in SUBSET live
  OBVIOUS
<1>5. IsFiniteSet(by) /\ Cardinality(by) <= Cardinality(live) /\ Cardinality(by) \in Nat
  <2>1. IsFiniteSet(by) /\ Cardinality(by) <= Cardinality(live)
    BY <1>2, <1>4, FS_Subset
  <2> QED  BY <2>1, FS_CardinalityType
<1>6. f \in Surjection(by, hand)
  <2>1. f \in [by -> hand]
    OBVIOUS
  <2>2. ASSUME NEW x \in hand PROVE \E c \in by : f[c] = x
    <3>1. PICK c \in FolderCalls : x \in InHand(c)
      BY <2>2 DEF Left
    <3>2. ocr[c].pc # "off" /\ x = Current(c)
      BY <3>1 DEF InHand
    <3>3. c \in by
      BY <1>3, <3>2
    <3> QED  BY <3>2, <3>3
  <2> QED  BY <2>1, <2>2 DEF Surjection
<1>7. IsFiniteSet(hand) /\ Cardinality(hand) <= Cardinality(by)
  BY <1>5, <1>6, FS_Surjection
<1>8. Cardinality(hand) \in Nat
  BY <1>7, FS_CardinalityType
<1>9. Left \in SUBSET remote /\ IsFiniteSet(Left) /\ Cardinality(Left) \in Nat
  BY <1>1, LeftIsFinite DEF Left
<1>10. Left \cap hand = {} /\ Left \cup hand = remote
  BY <1>9
<1> HIDE DEF live, hand, by, f
<1>11. Cardinality(remote) = Cardinality(Left) + Cardinality(hand)
  <2>1. Cardinality(Left \cup hand) = Cardinality(Left) + Cardinality(hand) - Cardinality(Left \cap hand)
    BY <1>7, <1>9, FS_Union
  <2>2. Cardinality(Left \cap hand) = 0
    BY <1>10, FS_EmptySet
  <2>3. Cardinality(Left \cup hand) = Cardinality(remote)
    BY <1>10, Zenon
  <2> QED  BY <1>8, <1>9, <2>1, <2>2, <2>3
<1>12. Cardinality(remote) <= Cardinality(Left) + Cardinality(live)
  BY <1>2, <1>5, <1>7, <1>8, <1>9, <1>11
<1>13. ASSUME Cardinality(live) = 0, NEW c \in FolderCalls PROVE ocr[c].pc = "off"
  <2>1. live = {}
    BY <1>2, <1>13, FS_EmptySet
  <2> QED  BY <1>3, <2>1
<1> QED  BY <1>2, <1>12, <1>13 DEF live

LEMMA CrashCleans ==
  ASSUME ExportInv, Crash
  PROVE  OCRInv' /\ \A c \in FolderCalls : ocr'[c].pc = "off"
<1> DEFINE n == Cardinality({c \in Calls : Live(c)})
<1>1. /\ remote' = remote /\ temp' = temp /\ remoteFaults' = remoteFaults
      /\ killed' = killed + n /\ configured' \in BOOLEAN
      /\ ocr' = [c \in FolderCalls |-> NoOCR]
  BY DEF Crash
<1>2. /\ n \in Nat /\ Cardinality(remote) <= Cardinality(Left) + n
      /\ n = 0 => \A c \in FolderCalls : ocr[c].pc = "off"
  BY CrashLeaves
<1> HIDE DEF n
<1>3. OCRInv /\ OCRTypeOK /\ IsFiniteSet(remote) /\ Copies
      /\ Cardinality(Left) <= remoteFaults + killed /\ killed \in Nat
  BY CleanIs, Typed DEF ExportInv, OCRInv
<1>4. NoOCR \in OCR /\ NoOCR.pc = "off"
  <2>1. 0 \in 0 .. RetryAttempts
    BY OCRAssumption
  <2> QED  BY <2>1 DEF NoOCR, OCR
<1>5. ocr' \in [FolderCalls -> OCR] /\ \A c \in FolderCalls : ocr'[c].pc = "off"
  BY <1>1, <1>4
<1>6. OCRTypeOK' /\ Attempts'
  BY <1>1, <1>3, <1>5 DEF OCRTypeOK, OCR, Attempts
<1>7. Left' = remote
  <2>1. \A c \in FolderCalls : InHand(c)' = {}
    BY <1>5 DEF InHand
  <2> QED  BY <1>1, <2>1 DEF Left
<1>8. Cardinality(Left') <= remoteFaults' + killed'
  <2>1. Cardinality(Left) \in Nat /\ Cardinality(remote) \in Nat
    BY <1>3, LeftIsFinite, FS_CardinalityType
  <2>2. remoteFaults \in Nat
    BY <1>3, OCRAssumption DEF OCRTypeOK
  <2>3. Cardinality(Left') = Cardinality(remote)
    BY <1>7
  <2> QED  BY <1>1, <1>2, <1>3, <2>1, <2>2, <2>3
<1>9. Copies'
  <2> SUFFICES ASSUME NEW t \in temp, killed' = 0 PROVE FALSE
    BY <1>1 DEF Copies
  <2>1. killed = 0 /\ n = 0
    BY <1>1, <1>2, <1>3
  <2>2. ocr[t[1]].pc \in {"upload", "read", "delete"} /\ t[1] \in FolderCalls
    BY <1>3, <2>1 DEF Copies, OCRTypeOK
  <2> QED  BY <1>2, <2>1, <2>2
<1> QED  BY <1>1, <1>3, <1>5, <1>6, <1>8, <1>9, CleanIsNext DEF OCRInv

LEMMA CrashKeeps ==
  ASSUME ExportInv, Crash
  PROVE  ExportInv'
<1> DEFINE Dead(c) == [call[c] EXCEPT !.pc = "killed"]
<1>1. /\ exports' = exports /\ disk' = disk /\ scan' = scan /\ stored' = stored
      /\ coming' = coming /\ second' = second /\ cancelled' = cancelled
      /\ call' = [c \in Calls |-> IF Live(c) THEN [call[c] EXCEPT !.pc = "killed"] ELSE call[c]]
      /\ crashes < MaxCrashes /\ crashes' = crashes + 1
      /\ killed' = killed + Cardinality({c \in Calls : Live(c)})
  BY DEF Crash
<1>2. OCRInv' /\ \A c \in FolderCalls : ocr'[c].pc = "off"
  BY CrashCleans
<1>3. /\ call \in [Calls -> CallRow] /\ TypeOK
      /\ \A c \in Calls : CallInv(c) /\ call[c] \in CallRow
  BY CallFacts, Typed DEF ExportInv
<1>4. ASSUME NEW c \in Calls
      PROVE  /\ call'[c] \in CallRow
             /\ call'[c].name = call[c].name /\ call'[c].left = call[c].left
             /\ call'[c].buffer = call[c].buffer /\ call'[c].written = call[c].written
             /\ call'[c].rows = call[c].rows /\ call'[c].exported = call[c].exported
             /\ call'[c].skipped = call[c].skipped /\ call'[c].include = call[c].include
             /\ call'[c].lost = call[c].lost
             /\ Live(c) => call'[c].pc = "killed"
             /\ ~Live(c) => call'[c].pc = call[c].pc
  <2>1. call[c] \in CallRow
    BY <1>3
  <2>2. CASE Live(c)
    <3>1. call'[c] = Dead(c)
      BY <1>1, <2>2
    <3> QED  BY <2>1, <2>2, <3>1 DEF CallRow
  <2>3. CASE ~Live(c)
    <3>1. call'[c] = call[c]
      BY <1>1, <2>3
    <3> QED  BY <2>1, <2>3, <3>1
  <2> QED  BY <2>2, <2>3
<1>5. call' \in [Calls -> CallRow]
  BY <1>1, <1>4
<1>6. crashes' \in 0 .. MaxCrashes /\ killed' \in Nat
  BY <1>1, <1>3, ExportAssumption, CrashLeaves DEF TypeOK
<1>7. TypeOK'
  <2>1. OCRTypeOK' /\ ScanTypeOK'
    BY <1>1, <1>2, <1>3 DEF TypeOK, OCRInv, ScanTypeOK
  <2>2. /\ coming' \in Batches /\ second' \in 0 .. MaxSeconds /\ cancelled' \subseteq Calls
        /\ exports' \in [Calls -> ExportRow] /\ disk' \in [Names -> Content]
    BY <1>1, <1>3, Typed DEF TypeOK
  <2>3. stored' \in [Messages -> [as: {"absent", "raw", "document", "duplicate"},
                                  chunks: BOOLEAN]]
    BY <1>1, <1>3 DEF TypeOK
  <2> QED  BY <1>5, <1>6, <2>1, <2>2, <2>3 DEF TypeOK, CallRow, ExportRow, Content
<1>8. ASSUME NEW c \in Calls PROVE CallInv(c)'
  <2>1. CallInv(c)
    BY <1>3
  <2>2. call'[c].pc \in {"off", "over", "killed"}
    BY <1>4 DEF Live
  <2>3. call'[c].pc \in {"off", "over"} => call'[c].pc = call[c].pc
    BY <1>4
  <2>4. KindOf(c)' /\ NotYet(c)' /\ ListsDiffer(c)'
    BY <1>1, <2>1, <2>2, <2>3 DEF CallInv, KindOf, NotYet, ListsDiffer
  <2>5. Interrupted(c)'
    <3>1. CASE Live(c)
      BY <1>4, <3>1 DEF Interrupted
    <3>2. CASE ~Live(c)
      BY <1>1, <1>4, <2>1, <3>2 DEF CallInv, Interrupted
    <3> QED  BY <3>1, <3>2
  <2>6. Fresh(c)'
    BY <1>4, <2>1, <2>2, <2>3 DEF CallInv, Fresh
  <2>7. Done(c)' = Done(c)
    BY <1>4 DEF Done
  <2>8. Extracting(c)'
    BY <1>1, <1>2, <2>1, <2>7 DEF CallInv, Extracting
  <2>9. Settled(c)'
    BY <1>1, <1>4, <2>1 DEF CallInv, Settled, Succeeded, Live
  <2>10. Alone(c)' => Alone(c)
    BY <1>4 DEF Alone
  <2>11. Rows(c)' = Rows(c)
    BY <1>1, <1>4 DEF Rows
  <2>12. ASSUME Succeeded(c) PROVE Counted(c)' /\ (Alone(c)' => OwnRows(c)')
    <3>1. Counted(c) /\ (Alone(c) => OwnRows(c)) /\ call[c].pc = "over"
      BY <2>1, <2>12 DEF CallInv, Fills, Settled
    <3>2. call'[c] = call[c]
      BY <1>1, <3>1 DEF Live
    <3>3. Counted(c)'
      BY <1>1, <2>7, <3>1, <3>2 DEF Counted, Succeeded
    <3>4. OwnRows(c) => OwnRows(c)'
      BY <1>1, <2>7, <2>11, <3>2 DEF OwnRows
    <3> QED  BY <2>10, <3>1, <3>3, <3>4
  <2>13. Fills(c)'
    BY <1>1, <2>2, <2>12 DEF Fills, Writes, Succeeded
  <2> QED  BY <2>4, <2>5, <2>6, <2>8, <2>9, <2>13 DEF CallInv
<1>9. ListedOnce'
  BY <1>1 DEF ExportInv, ListedOnce, Opens, Course
<1> QED  BY <1>2, <1>7, <1>8, <1>9 DEF ExportInv

-----------------------------------------------------------------------------
(***************************************************************************)
(* The invariant.                                                          *)
(***************************************************************************)
LEMMA InitHolds == Init => ExportInv
<1> SUFFICES ASSUME Init PROVE ExportInv
  OBVIOUS
<1>1. /\ scan = [c \in FolderCalls |-> NoScan] /\ OCRInit /\ coming \in Batches
      /\ exports = [c \in Calls |-> [status |-> "none", name |-> NoName, rows |-> 0]]
      /\ disk = [n \in Names |-> <<>>] /\ call = [c \in Calls |-> NoCall]
      /\ cancelled = {} /\ second = 0 /\ killed = 0 /\ crashes = 0
      /\ stored = [m \in Messages |->
                     [as |-> IF m \in StoredBefore THEN "document" ELSE "absent",
                      chunks |-> m \in StoredBefore]]
  BY DEF Init
<1>2. NoOCR \in OCR /\ NoOCR.pc = "off"
  <2>1. 0 \in 0 .. RetryAttempts
    BY OCRAssumption
  <2> QED  BY <2>1 DEF NoOCR, OCR
<1>3. OCRTypeOK /\ \A c \in FolderCalls : ocr[c].pc = "off"
  <2>1. 0 \in 0 .. MaxRemoteFaults
    BY OCRAssumption
  <2> QED  BY <1>1, <1>2, <2>1 DEF OCRInit, OCRTypeOK, OCR
<1>4. OCRInv
  <2>1. Left = {} /\ Copies /\ remoteFaults = 0
    BY <1>1 DEF OCRInit, Left, Copies
  <2>2. Cardinality(Left) = 0 /\ IsFiniteSet(remote)
    BY <1>1, <2>1, FS_EmptySet DEF OCRInit
  <2> QED  BY <1>1, <1>3, <2>1, <2>2, CleanIs DEF OCRInv, Attempts
<1>5. ScanTypeOK
  <2>1. NoScan \in Scan
    BY DEF NoScan, Scan
  <2> QED  BY <1>1, <2>1, ScanTyped
<1>6. ListedOnce
  <2>1. NoScan.files = <<>> /\ NoScan.pc = "off"
    BY DEF NoScan
  <2>2. Once(<<>>)
    BY DEF Once
  <2>3. \A c \in FolderCalls : scan[c].files = <<>> /\ scan[c].pc = "off"
    BY <1>1, <2>1
  <2> QED  BY <2>2, <2>3 DEF ListedOnce
<1>7. call \in [Calls -> CallRow]
  <2>1. AnyRequest \in TextRequests
    BY ExportAssumption DEF AnyRequest
  <2>2. NoCall \in CallRow
    BY <2>1 DEF NoCall, CallRow
  <2> QED  BY <1>1, <2>2
<1>8. TypeOK
  <2>1. 0 \in 0 .. MaxSeconds /\ 0 \in 0 .. MaxCrashes
    BY ExportAssumption
  <2>2. disk \in [Names -> Content]
    BY <1>1 DEF Content
  <2>3. exports \in [Calls -> ExportRow]
    BY <1>1 DEF ExportRow
  <2>4. stored \in [Messages -> [as: {"absent", "raw", "document", "duplicate"},
                                 chunks: BOOLEAN]]
    BY <1>1
  <2>5. coming \in Batches /\ second = 0 /\ killed = 0 /\ crashes = 0 /\ cancelled = {}
    BY <1>1
  <2> QED  BY <1>3, <1>5, <1>7, <2>1, <2>2, <2>3, <2>4, <2>5
           DEF TypeOK, CallRow, ExportRow, Content
<1>9. ASSUME NEW c \in Calls PROVE CallInv(c)
  <2>1. call[c] = NoCall /\ exports[c].status = "none"
    BY <1>1
  <2>2. /\ call[c].pc = "off" /\ call[c].name = NoName /\ call[c].left = <<>>
        /\ call[c].buffer = <<>> /\ call[c].written = 0 /\ call[c].rows = 0
        /\ call[c].exported = 0 /\ call[c].skipped = 0
    BY <2>1 DEF NoCall
  <2>3. KindOf(c) /\ NotYet(c) /\ Interrupted(c) /\ Fresh(c) /\ ListsDiffer(c)
    BY <2>1, <2>2 DEF KindOf, NotYet, Interrupted, Fresh, ListsDiffer
  <2>4. Extracting(c)
    <3>1. ASSUME c \in FolderCalls PROVE Len(scan[c].files) = 0
      BY <1>1, <3>1 DEF NoScan
    <3> QED  BY <1>3, <2>2, <3>1 DEF Extracting, Done
  <2>5. Settled(c) /\ Fills(c)
    BY <2>1, <2>2 DEF Settled, Fills, Writes, Succeeded
  <2> QED  BY <2>3, <2>4, <2>5 DEF CallInv
<1> QED  BY <1>4, <1>6, <1>8, <1>9 DEF ExportInv

LEMMA NextKeeps == ExportInv /\ [Next]_vars => ExportInv'
<1> SUFFICES ASSUME ExportInv, [Next]_vars PROVE ExportInv'
  OBVIOUS
<1>1. ASSUME NEW c \in Calls, Works(c) PROVE ExportInv'
  BY <1>1, WorksKeeps
<1>2. ASSUME NEW c \in Calls, CancelCall(c) PROVE ExportInv'
  BY <1>2, CancelCallKeeps
<1>3. ASSUME NEW m \in coming.messages, Synchronise(m) PROVE ExportInv'
  BY <1>3, SynchroniseKeeps
<1>4. CASE Tick
  BY <1>4, TickKeeps
<1>5. CASE Crash
  BY <1>5, CrashKeeps
<1>6. CASE UNCHANGED vars
  <2>1. /\ UNCHANGED <<exportVars, scan, ocrVars, killed, cancelled>>
        /\ UNCHANGED <<coming, second, stored, crashes>>
    BY <1>6 DEF vars, worldVars
  <2>2. TypeOK'
    BY <2>1 DEF ExportInv, TypeOK, exportVars, ocrVars, ScanTypeOK, OCRTypeOK
  <2>3. \A c \in Calls : ListsDiffer(c)'
    BY <2>1 DEF ExportInv, CallInv, ListsDiffer, exportVars
  <2> QED  BY <2>1, <2>2, <2>3, AroundKeeps
<1> QED  BY <1>1, <1>2, <1>3, <1>4, <1>5, <1>6 DEF Next

\* Whatever calls overlap, are cancelled or die with the process: scans list
\* every file once, extractions account for what is at Mistral, and a call, its
\* row and its file agree at every step.
THEOREM ExportInvariant == Spec => []ExportInv
BY InitHolds, NextKeeps, PTL DEF Spec

\* Every variable keeps its type (service.go, filesystem_rag.go, mistral_ocr.go).
THEOREM ExportsTypeCorrect == Spec => []TypeOK
<1>1. ExportInv => TypeOK
  BY DEF ExportInv
<1> QED  BY <1>1, ExportInvariant, PTL

\* A row of the exports table says "running" after its call is over only when
\* the context was done, a statement was lost or the process died: every error
\* of listing, naming, reading or writing settles it (failExport).
THEOREM OnlyInterruptedRowsRun == Spec => []RunningMeansInterrupted
<1>1. ExportInv => RunningMeansInterrupted
  BY DEF ExportInv, CallInv, Interrupted, RunningMeansInterrupted
<1> QED  BY <1>1, ExportInvariant, PTL

\* Beyond the files in hand, Mistral keeps at most one for each lost answer,
\* failed deletion or extraction that died, and no temporary copy outlives its
\* extraction (the deferred clean-up of extractText).
THEOREM ExtractionsCleanUp == Spec => []MistralIsLeftClean
<1>1. ExportInv => MistralIsLeftClean
  BY DEF ExportInv, OCRInv
<1> QED  BY <1>1, ExportInvariant, PTL

\* The file of an export that succeeded, and whose name no other call has, holds
\* as many rows as its row counts, its own and each for another item; a folder's
\* has one for every file of the scan that has a text or was to be reported
\* (ExportJSONL, writeFilesystemRAG).
THEOREM FilesHoldTheirRows == Spec => []FileHoldsItsRows
<1>1. ASSUME ExportInv PROVE FileHoldsItsRows
  <2> SUFFICES ASSUME NEW c \in Calls, exports[c].status = "succeeded", Alone(c)
               PROVE  LET file == disk[exports[c].name]
                      IN /\ Len(file) = exports[c].rows
                         /\ \A k \in 1 .. Len(file) : file[k].by = c
                         /\ IsInjective([k \in 1 .. Len(file) |-> file[k].item])
                         /\ c \in FolderCalls =>
                              /\ call[c].exported + call[c].skipped = Len(scan[c].files)
                              /\ Len(file) = call[c].exported
                                               + IF call[c].include THEN call[c].skipped ELSE 0
    BY DEF FileHoldsItsRows
  <2>1. CallInv(c) /\ Succeeded(c) /\ call[c] \in CallRow
    BY <1>1, CallFacts DEF Succeeded
  <2>2. /\ call[c].pc = "over"
        /\ exports[c].name = call[c].name /\ exports[c].rows = call[c].rows
        /\ Counted(c) /\ OwnRows(c)
    BY <2>1 DEF CallInv, Settled, Fills
  <2>3. call[c].name \in Names /\ call[c].left = <<>> /\ call[c].buffer = <<>>
    BY <2>1, <2>2 DEF Counted
  <2> DEFINE f == disk[call[c].name]
  <2>4. f \in Seq(Row \cup {Hole})
    BY <1>1, <2>3, RowsType DEF Content
  <2>5. Rows(c) = f
    <3>1. <<>> \o <<>> = <<>>
      OBVIOUS
    <3>2. f \o <<>> = f
      BY <2>4, ConcatEmptySeq
    <3> QED  BY <2>3, <3>1, <3>2 DEF Rows
  <2>6. call[c].written \in Nat
    BY <2>1 DEF CallRow
  <2>7. Len(f) = exports[c].rows
    <3>1. Len(<<>>) = 0
      OBVIOUS
    <3> QED  BY <2>2, <2>3, <2>6, <3>1 DEF Counted, OwnRows
  <2>8. DOMAIN f = 1 .. Len(f)
    BY <2>4
  <2> HIDE DEF f
  <2>9. \A k \in 1 .. Len(f) : f[k].by = c
    BY <2>2, <2>5, <2>8 DEF OwnRows
  <2>10. IsInjective([k \in 1 .. Len(f) |-> f[k].item])
    BY <2>2, <2>5 DEF OwnRows, Once, Items, IsInjective
  <2>11. c \in FolderCalls => /\ call[c].exported + call[c].skipped = Len(scan[c].files)
                              /\ call[c].rows = call[c].exported
                                   + IF call[c].include THEN call[c].skipped ELSE 0
    BY <2>2 DEF Counted, Done
  <2> QED  BY <2>2, <2>7, <2>9, <2>10, <2>11 DEF f
<1> QED  BY <1>1, ExportInvariant, PTL
=============================================================================
