---------------------------- MODULE FolderScan ----------------------------
(***************************************************************************)
(* The scan of a local folder: ScanDirectory of                            *)
(* backend/internal/filescan/service.go.                                   *)
(*                                                                         *)
(* A folder is walked in the order of the names in each directory; an      *)
(* archive is unpacked where it is met and walked in its turn.  A node is  *)
(* a file of the tree, named by the rank of its logical path, so that the  *)
(* final sort is the sort of numbers.                                      *)
(***************************************************************************)
EXTENDS Requests, Selections, Integers, SequencesExt, FiniteSets

CONSTANTS
  Nodes,            \* files, at every nesting
  Kind,             \* what the name of a node says it is
  Root,             \* the folder itself
  Members,          \* Members[d]: the files in folder or archive d, as walked
  MaxFiles,
  MaxArchiveDepth

ASSUME ScanAssumption ==
  /\ Nodes \subseteq Nat \ {Root}
  /\ Kind \in [Nodes -> {"document", "archive", "unsupported", "ignorable"}]
  /\ Members \in [{n \in Nodes : Kind[n] = "archive"} \cup {Root} -> Seq(Nodes)]
  /\ {MaxFiles, MaxArchiveDepth} \subseteq Nat

\* A file lies in one place.
ASSUME TreeAssumption ==
  \A d, e \in DOMAIN Members :
    \A j \in DOMAIN Members[d], k \in DOMAIN Members[e] :
      Members[d][j] = Members[e][k] => d = e /\ j = k

VARIABLE scan

NoScan == [pc |-> "off", todo |-> <<>>, files |-> <<>>, skipped |-> {},
           regular |-> 0, extracted |-> 0, archives |-> 0]

ScanTypeOK ==
  scan \in [FolderCalls ->
       [pc: {"off", "walk", "listed", "failed"},
        todo: Seq([node: Nodes, depth: Nat]),
        files: Seq(Nodes), skipped: SUBSET Nodes,
        regular: Nat, extracted: Nat, archives: Nat]]

\* The walk of a directory: system files are passed over.
Walk(d, depth) ==
  LET seen == Selected(Members[d],
                       {k \in DOMAIN Members[d] : Kind[Members[d][k]] # "ignorable"})
  IN [k \in 1 .. Len(seen) |-> [node |-> seen[k], depth |-> depth]]

Start(c) ==
  /\ scan[c].pc = "off"
  /\ scan' = [scan EXCEPT ![c] = [NoScan EXCEPT !.pc = "walk",
                                                !.todo = Walk(Root, 0)]]

Item(c) == Head(scan[c].todo)

\* What scanFile checks before it looks at the file.
MayScan(c) == /\ scan[c].pc = "walk"
              /\ scan[c].todo # <<>>
              /\ c \notin cancelled
              /\ Len(scan[c].files) < MaxFiles

\* The first error of a walk ends it: the folder or a file is gone, the
\* context is done, there are too many files.
ScanFails(c) ==
  /\ scan[c].pc = "walk"
  /\ scan' = [scan EXCEPT ![c].pc = "failed"]

ListCounted(s, n, depth, skip) ==
  [s EXCEPT !.files = Append(@, n), !.todo = Tail(@),
            !.skipped = IF skip THEN @ \cup {n} ELSE @,
            !.regular = IF depth = 0 THEN @ + 1 ELSE @,
            !.extracted = IF depth > 0 THEN @ + 1 ELSE @]

\* A file that is no archive the scan can open.
ListFile(c) ==
  /\ MayScan(c)
  /\ LET n == Item(c).node
     IN /\ Kind[n] # "archive"
        /\ scan' = [scan EXCEPT ![c] = ListCounted(scan[c], n, Item(c).depth,
                                                   Kind[n] = "unsupported")]

\* Too deep: listed as it is, and counted neither as regular nor extracted.
ListDeepArchive(c) ==
  /\ MayScan(c)
  /\ Kind[Item(c).node] = "archive"
  /\ Item(c).depth >= MaxArchiveDepth
  /\ scan' = [scan EXCEPT ![c].files = Append(@, Item(c).node),
                          ![c].skipped = @ \cup {Item(c).node},
                          ![c].todo = Tail(@)]

MayOpen(c) == /\ MayScan(c)
              /\ Kind[Item(c).node] = "archive"
              /\ Item(c).depth < MaxArchiveDepth

\* The archive itself is not listed, its members are walked next.
OpenLast(c) ==
  /\ MayOpen(c)
  /\ scan' = [scan EXCEPT
       ![c].archives = @ + 1,
       ![c].todo = Walk(Item(c).node, Item(c).depth + 1)]

OpenArchive(c) ==
  /\ MayOpen(c)
  /\ scan' = [scan EXCEPT
       ![c].archives = @ + 1,
       ![c].todo = Walk(Item(c).node, Item(c).depth + 1) \o Tail(@)]

\* Members unpacked before the error are not looked at.
ListBrokenArchive(c) ==
  /\ MayOpen(c)
  /\ LET listed == ListCounted(scan[c], Item(c).node, Item(c).depth, TRUE)
     IN scan' = [scan EXCEPT ![c] = [listed EXCEPT !.archives = listed.archives + 1]]

\* Sorted by the logical path.
FinishScan(c) ==
  /\ scan[c].pc = "walk"
  /\ scan[c].todo = <<>>
  /\ LET places == DOMAIN scan[c].files
     IN \E from \in Bijection(places, places) :
          LET sorted == [k \in places |-> scan[c].files[from[k]]]
          IN /\ \A j, k \in places : j < k => sorted[j] <= sorted[k]
             /\ scan' = [scan EXCEPT ![c].pc = "listed", ![c].files = sorted]

ScanStep(c) == \/ ScanFails(c) \/ ListFile(c) \/ ListDeepArchive(c)
               \/ OpenArchive(c) \/ ListBrokenArchive(c) \/ FinishScan(c)

-----------------------------------------------------------------------------
Container(n) == CHOOSE d \in DOMAIN Members : n \in ToSet(Members[d])

Enclosing[n \in Nodes] ==
  IF Container(n) = Root THEN {}
  ELSE {Container(n)} \cup Enclosing[Container(n)]

\* What a scan of the folder owes its caller, whatever could be unpacked: the
\* files that lie in no archive left closed, but for system files and for the
\* archives that were opened.
Owed(s) ==
  {n \in Nodes : /\ Kind[n] # "ignorable"
                 /\ Enclosing[n] \cap s.skipped = {}
                 /\ Kind[n] = "archive" => n \in s.skipped}

\* A finished scan lists every file it owes, once and in the order of the
\* paths, within the limit, although an archive shifts what is still to walk.
\* Its counters add up to the list, less the archives too deep to open: those
\* are listed and counted nowhere (scanFile, extractAndScanArchive).
ScanAccountsForTheTree ==
  \A c \in FolderCalls : scan[c].pc = "listed" =>
    LET s == scan[c]
        tooDeep == {n \in s.skipped : /\ Kind[n] = "archive"
                                      /\ Cardinality(Enclosing[n]) >= MaxArchiveDepth}
    IN /\ s.files = SetToSortSeq(Owed(s), <)
       /\ Len(s.files) <= MaxFiles
       /\ s.regular + s.extracted = Len(s.files) - Cardinality(tooDeep)
=============================================================================
