------------------------- MODULE HeadHunter_proofs --------------------------
(***************************************************************************)
(* Proofs about HeadHunter, for any number of imports, vacancies, resumes, *)
(* candidates, faults and changes of what HeadHunter has.                  *)
(***************************************************************************)
EXTENDS HeadHunter, Selections_proofs

-----------------------------------------------------------------------------
(***************************************************************************)
(* Imports: the numbers they give fit.                                     *)
(***************************************************************************)
ImportRow ==
  [pc: {"off", "create", "raw", "find", "save", "delete", "insert",
        "done", "rejected", "failed"},
   name: Names, records: Seq(Items), done: Nat, used: SUBSET Ids,
   next: 1 .. MaxId + 1, id: 0 .. MaxId, dup: BOOLEAN, last: 0 .. MaxId]

DocRow == [by: Imports \cup {"nobody"}, text: Nat, dup: BOOLEAN, chunk: Nat]

\* A record is in hand: its raw message is stored, its document is not done.
InHand(r) == r.pc \in {"find", "save", "delete", "insert"}
Going(r) == r.pc \in {"create", "raw"} \/ InHand(r)

Fits(records) ==
  \A k \in DOMAIN records : records[k].id + Len(records) <= MaxId

\* Every number given is below the next one, and there is room for the rest.
RowFits(r) ==
  /\ r.pc \in {"off", "create"} => r.done = 0 /\ r.used = {} /\ r.next = 1 /\ r.last = 0
  /\ Going(r) =>
       /\ Fits(r.records)
       /\ r.done <= Len(r.records)
       /\ InHand(r) => r.done < Len(r.records) /\ r.id \in r.used
       /\ Cardinality(r.used) = IF InHand(r) THEN r.done + 1 ELSE r.done
       /\ r.next + Len(r.records) <= MaxId + Cardinality(r.used) + 1
       /\ \A m \in r.used : m < r.next

ImportPart == ImportTypeOK /\ \A c \in Imports : RowFits(imp[c])

\* What a request does that begins an import.
Begins(c) ==
  \E name \in Names, records \in Seq(Items) :
    /\ Fits(records)
    /\ imp[c].pc = "off"
    /\ imp' = [imp EXCEPT ![c].pc = IF records = <<>> THEN "rejected" ELSE "create",
                          ![c].name = name, ![c].records = records]
    /\ UNCHANGED <<raw, docs, over>>

ImportActs ==
  \/ \E c \in Imports : ImportStep(c) \/ Begins(c)
  \/ UNCHANGED importVars

LEMMA IdsAreNumbers ==
  /\ Ids \subseteq Nat \ {0} /\ IsFiniteSet(Ids)
  /\ \A U \in SUBSET Ids : IsFiniteSet(U) /\ Cardinality(U) \in Nat
<1>1. MaxId \in Nat
  BY ImportAssumption
<1>2. IsFiniteSet(1 .. MaxId)
  BY <1>1, CountTo
<1>3. \A U \in SUBSET Ids : IsFiniteSet(U)
  BY <1>2, FS_Subset DEF Ids
<1> QED  BY <1>1, <1>2, <1>3, FS_CardinalityType DEF Ids

LEMMA LeastIsMin ==
  ASSUME NEW T, T \subseteq Nat, T # {}
  PROVE  Min(T) \in T /\ \A y \in T : Min(T) <= y
BY LeastNumber DEF Min

\* The number a record gets is free and not beyond the others but by one.
LEMMA FreeIdIsFree ==
  ASSUME NEW c, imp[c].used \subseteq Ids, WantedId(c) \in Nat \ {0}
  PROVE  /\ FreeId(c) \in Nat \ {0} /\ FreeId(c) \notin imp[c].used
         /\ FreeId(c) = WantedId(c) \/ FreeId(c) - 1 \in imp[c].used
<1> DEFINE U == imp[c].used
           W == WantedId(c)
           n == Cardinality(imp[c].used)
           T == {m \in W .. W + n : m \notin U}
<1>1. U \subseteq Nat /\ IsFiniteSet(U) /\ n \in Nat
  BY IdsAreNumbers
<1>2. T # {}
  <2> SUFFICES ASSUME W .. W + n \subseteq U PROVE FALSE
    OBVIOUS
  <2>1. IsFiniteSet(W .. W + n) /\ Cardinality(W .. W + n) = n + 1
    BY <1>1, CountBetween
  <2>2. Cardinality(W .. W + n) <= n
    BY <1>1, FS_Subset
  <2> QED  BY <1>1, <2>1, <2>2
<1>3. T \subseteq Nat
  BY <1>1
<1>4. FreeId(c) = Min(T)
  BY DEF FreeId
<1>5. FreeId(c) \in T /\ \A y \in T : FreeId(c) <= y
  BY <1>2, <1>3, <1>4, LeastIsMin
<1>6. FreeId(c) # W => FreeId(c) - 1 \in U
  <2> SUFFICES ASSUME FreeId(c) # W, FreeId(c) - 1 \notin U PROVE FALSE
    OBVIOUS
  <2>1. FreeId(c) - 1 \in T
    BY <1>1, <1>5
  <2> QED  BY <1>1, <1>5, <2>1
<1> QED  BY <1>1, <1>5, <1>6

\* What a step of an import does to the rows, and to the documents.
ImportMoves(c) ==
  /\ imp' \in [Imports -> ImportRow] /\ RowFits(imp'[c])
  /\ \A d \in Imports \ {c} : imp'[d] = imp[d]

StoresFine ==
  /\ raw' \in [Imports -> [Ids -> Nat]]
  /\ docs' \in [Names \X Ids -> DocRow]
  /\ over' \subseteq Imports

LEMMA MovesAreFine ==
  ASSUME ImportPart, NEW c \in Imports, ImportMoves(c), StoresFine
  PROVE  ImportPart'
<1>1. ImportTypeOK'
  BY DEF ImportTypeOK, ImportMoves, StoresFine, ImportRow, DocRow
<1>2. \A d \in Imports : RowFits(imp'[d])
  BY DEF ImportMoves, ImportPart
<1> QED  BY <1>1, <1>2 DEF ImportPart, RowFits, Going, InHand, Fits

LEMMA ImportTypes ==
  ASSUME ImportTypeOK
  PROVE  /\ imp \in [Imports -> ImportRow]
         /\ raw \in [Imports -> [Ids -> Nat]]
         /\ docs \in [Names \X Ids -> DocRow]
         /\ over \subseteq Imports
BY DEF ImportTypeOK, ImportRow, DocRow

LEMMA ImportPartInit ==
  ASSUME ImportInit
  PROVE  ImportPart
<1>1. MaxId \in Nat \ {0} /\ Names # {}
  BY ImportAssumption
<1>2. <<>> \in Seq(Items) /\ (CHOOSE n \in Names : TRUE) \in Names
  BY <1>1, EmptySeq
<1>3. Idle \in ImportRow /\ Idle.pc = "off" /\ Idle.done = 0
      /\ Idle.used = {} /\ Idle.next = 1 /\ Idle.last = 0
  BY <1>1, <1>2 DEF Idle, ImportRow
<1>4. NoDoc \in DocRow
  BY DEF NoDoc, DocRow, NoText
<1>5. ImportTypeOK
  BY <1>3, <1>4 DEF ImportInit, ImportTypeOK, ImportRow, DocRow, NoText
<1>6. \A c \in Imports : RowFits(imp[c])
  BY <1>3 DEF ImportInit, RowFits, Going, InHand
<1> QED  BY <1>5, <1>6 DEF ImportPart

LEMMA ImportPartBegins ==
  ASSUME ImportPart, NEW c \in Imports, Begins(c)
  PROVE  ImportPart'
<1>1. /\ imp \in [Imports -> ImportRow] /\ raw \in [Imports -> [Ids -> Nat]]
      /\ docs \in [Names \X Ids -> DocRow] /\ over \subseteq Imports
  BY ImportTypes DEF ImportPart
<1>2. PICK name \in Names, records \in Seq(Items) :
    /\ Fits(records)
    /\ imp[c].pc = "off"
    /\ imp' = [imp EXCEPT ![c].pc = IF records = <<>> THEN "rejected" ELSE "create",
                          ![c].name = name, ![c].records = records]
    /\ UNCHANGED <<raw, docs, over>>
  BY DEF Begins
<1>3. PICK r \in ImportRow : r = imp[c]
  BY <1>1
<1>4. imp'[c] = [r EXCEPT !.pc = IF records = <<>> THEN "rejected" ELSE "create",
                          !.name = name, !.records = records]
  BY <1>1, <1>2, <1>3
<1>5. imp'[c] \in ImportRow
  BY <1>3, <1>4 DEF ImportRow
<1>6. RowFits(imp'[c])
  <2> DEFINE s == imp'[c]
  <2>1. r.done = 0 /\ r.used = {} /\ r.next = 1 /\ r.last = 0
    BY <1>2, <1>3 DEF ImportPart, RowFits
  <2>2. /\ s.done = 0 /\ s.used = {} /\ s.next = 1 /\ s.records = records /\ s.last = 0
        /\ s.pc = IF records = <<>> THEN "rejected" ELSE "create"
    BY <1>3, <1>4, <2>1 DEF ImportRow
  <2>3. Len(records) \in Nat /\ MaxId \in Nat
    BY LenProperties, ImportAssumption
  <2>4. records # <<>> => Len(records) <= MaxId
    <3> SUFFICES ASSUME records # <<>> PROVE Len(records) <= MaxId
      OBVIOUS
    <3>1. 1 \in DOMAIN records /\ records[1] \in Items
      <4>1. 1 \in 1 .. Len(records) /\ DOMAIN records = 1 .. Len(records)
        BY EmptySeq, LenProperties
      <4> QED  BY <4>1, ElementOfSeq
    <3>2. records[1].id \in Nat /\ records[1].id + Len(records) <= MaxId
      BY <1>2, <3>1 DEF Fits, Items
    <3> QED  BY <2>3, <3>2
  <2>5. Cardinality({}) = 0
    BY FS_EmptySet
  <2> HIDE DEF s
  <2>6. RowFits(s)
    BY <1>2, <2>2, <2>3, <2>4, <2>5 DEF RowFits, Going, InHand
  <2> QED  BY <2>6 DEF s
<1>7. ImportMoves(c)
  BY <1>1, <1>2, <1>5, <1>6 DEF ImportMoves
<1>8. StoresFine
  BY <1>1, <1>2 DEF StoresFine
<1> QED  BY <1>7, <1>8, MovesAreFine

\* A step that moves only the place, or only gives up, keeps what fits.
LEMMA RowGoes ==
  ASSUME NEW r \in ImportRow, RowFits(r), Going(r),
         NEW pc \in {"raw", "done", "failed"},
         pc = "raw" => ~InHand(r)
  PROVE  /\ [r EXCEPT !.pc = pc] \in ImportRow
         /\ RowFits([r EXCEPT !.pc = pc])
<1> DEFINE s == [r EXCEPT !.pc = pc]
<1>1. s \in ImportRow
  BY DEF ImportRow
<1>2. /\ s.pc = pc /\ s.records = r.records /\ s.done = r.done /\ s.used = r.used
      /\ s.next = r.next /\ s.id = r.id
  BY DEF ImportRow
<1> HIDE DEF s
<1>3. RowFits(s)
  BY <1>2 DEF RowFits, Going, InHand
<1> QED  BY <1>1, <1>3 DEF s

LEMMA RecordInHand ==
  ASSUME ImportPart, NEW c \in Imports, imp[c].done < Len(imp[c].records)
  PROVE  /\ Record(c) \in Items
         /\ imp[c].done + 1 \in DOMAIN imp[c].records
<1>1. PICK r \in ImportRow : r = imp[c]
  BY ImportTypes DEF ImportPart
<1>2. r.records \in Seq(Items) /\ r.done \in Nat
  BY DEF ImportRow
<1>3. Len(r.records) \in Nat /\ DOMAIN r.records = 1 .. Len(r.records)
  BY <1>2, LenProperties
<1>4. r.done + 1 \in 1 .. Len(r.records)
  BY <1>1, <1>2, <1>3
<1> QED  BY <1>1, <1>2, <1>3, <1>4, ElementOfSeq DEF Record

\* The number of a record that is stored is one of Ids, and no other has it.
LEMMA NumberGiven ==
  ASSUME ImportPart, NEW c \in Imports, UpsertRawMessage(c)
  PROVE  /\ RowFits(imp[c]) /\ Going(imp[c]) /\ ~InHand(imp[c]) /\ imp[c].pc = "raw"
         /\ imp[c].done \in Nat /\ Len(imp[c].records) \in Nat
         /\ imp[c].done < Len(imp[c].records)
         /\ imp[c].used \subseteq Ids /\ imp[c].next \in Nat \ {0} /\ imp[c].last \in Nat
         /\ DOMAIN imp[c].records = 1 .. Len(imp[c].records)
         /\ IsFiniteSet(imp[c].used) /\ Cardinality(imp[c].used) = imp[c].done
         /\ imp[c].next + Len(imp[c].records) <= MaxId + imp[c].done + 1
         /\ \A m \in imp[c].used : m < imp[c].next
         /\ Record(c) \in Items /\ Record(c).id \in Nat /\ Record(c).text \in Nat
         /\ FreeId(c) \in Nat \ {0} /\ FreeId(c) \notin imp[c].used
         /\ FreeId(c) + Len(imp[c].records) <= MaxId + imp[c].done + 1
         /\ FreeId(c) \in Ids
<1>1. /\ imp \in [Imports -> ImportRow] /\ raw \in [Imports -> [Ids -> Nat]]
      /\ docs \in [Names \X Ids -> DocRow] /\ over \subseteq Imports
  BY ImportTypes DEF ImportPart
<1>2. PICK r \in ImportRow : r = imp[c]
  BY <1>1
<1>3. RowFits(r) /\ Going(r) /\ ~InHand(r) /\ r.pc = "raw"
  BY <1>2 DEF ImportPart, UpsertRawMessage, Going, InHand
<1>4. /\ r.done \in Nat /\ Len(r.records) \in Nat /\ r.done < Len(r.records)
      /\ r.used \subseteq Ids /\ r.next \in Nat \ {0} /\ r.last \in Nat
      /\ DOMAIN r.records = 1 .. Len(r.records)
      /\ IsFiniteSet(r.used) /\ Cardinality(r.used) = r.done
      /\ r.next + Len(r.records) <= MaxId + r.done + 1
      /\ \A m \in r.used : m < r.next
  <2>1. r.records \in Seq(Items)
    BY DEF ImportRow
  <2>2. r.done < Len(r.records)
    BY <1>2 DEF UpsertRawMessage
  <2>3. r.done \in Nat /\ r.used \subseteq Ids /\ r.next \in 1 .. MaxId + 1 /\ r.last \in 0 .. MaxId
    BY DEF ImportRow
  <2> QED  BY <1>3, <2>1, <2>2, <2>3, LenProperties, IdsAreNumbers DEF RowFits
<1>5. Record(c) \in Items /\ Record(c).id \in Nat /\ Record(c).text \in Nat
      /\ Record(c).id + Len(r.records) <= MaxId
  <2>1. Record(c) \in Items /\ r.done + 1 \in DOMAIN r.records
    BY <1>2, <1>4, RecordInHand
  <2>2. Record(c) = r.records[r.done + 1]
    BY <1>2 DEF Record
  <2> QED  BY <1>3, <2>1, <2>2 DEF RowFits, Fits, Items
<1>6. WantedId(c) \in Nat \ {0} /\ WantedId(c) + Len(r.records) <= MaxId + r.done + 1
  BY <1>2, <1>4, <1>5, ImportAssumption DEF WantedId
<1> DEFINE id == FreeId(c)
<1>7. id \in Nat \ {0} /\ id \notin r.used /\ (id = WantedId(c) \/ id - 1 \in r.used)
  BY <1>2, <1>4, <1>6, FreeIdIsFree
<1>8. id + Len(r.records) <= MaxId + r.done + 1
  <2>1. ASSUME id - 1 \in r.used PROVE id + Len(r.records) <= MaxId + r.done + 1
    <3>1. id - 1 < r.next
      BY <1>4, <2>1
    <3> QED  BY <1>4, <1>7, <3>1, ImportAssumption
  <2> QED  BY <1>6, <1>7, <2>1
<1>9. id \in Ids
  BY <1>4, <1>7, <1>8, ImportAssumption DEF Ids
<1> QED  BY <1>2, <1>3, <1>4, <1>5, <1>7, <1>8, <1>9

LEMMA ImportPartUpsert ==
  ASSUME ImportPart, NEW c \in Imports, UpsertRawMessage(c)
  PROVE  ImportPart'
<1>1. /\ imp \in [Imports -> ImportRow] /\ raw \in [Imports -> [Ids -> Nat]]
      /\ docs \in [Names \X Ids -> DocRow] /\ over \subseteq Imports
  BY ImportTypes DEF ImportPart
<1>2. PICK r \in ImportRow : r = imp[c]
  BY <1>1
<1> DEFINE id == FreeId(c)
<1>3. RowFits(r) /\ Going(r) /\ ~InHand(r) /\ r.pc = "raw"
  BY <1>2, NumberGiven
<1>4. /\ r.done \in Nat /\ Len(r.records) \in Nat /\ r.done < Len(r.records)
      /\ r.used \subseteq Ids /\ r.next \in Nat \ {0} /\ r.last \in Nat
      /\ DOMAIN r.records = 1 .. Len(r.records)
      /\ IsFiniteSet(r.used) /\ Cardinality(r.used) = r.done
      /\ r.next + Len(r.records) <= MaxId + r.done + 1
      /\ \A m \in r.used : m < r.next
  BY <1>2, NumberGiven
<1>5. Record(c) \in Items /\ Record(c).id \in Nat /\ Record(c).text \in Nat
  BY NumberGiven
<1>7. id \in Nat \ {0} /\ id \notin r.used
  BY <1>2, NumberGiven
<1>8. id + Len(r.records) <= MaxId + r.done + 1
  BY <1>2, NumberGiven
<1>9. id \in Ids
  BY NumberGiven
<1> HIDE DEF id
<1> DEFINE stored == [raw EXCEPT ![c][id] = Record(c).text]
           trash == Record(c).text = TrashText
<1>10. stored \in [Imports -> [Ids -> Nat]]
  BY <1>1, <1>5, <1>9
<1> HIDE DEF stored
<1>11. CASE /\ raw' = stored
            /\ imp' = [imp EXCEPT ![c].id = id,
                         ![c].used = @ \cup {id},
                         ![c].next = IF id >= @ THEN id + 1 ELSE @,
                         ![c].pc = IF trash THEN "raw" ELSE "find",
                         ![c].done = IF trash THEN @ + 1 ELSE @,
                         ![c].last = IF id > @ THEN id ELSE @]
  <2> DEFINE s == [r EXCEPT !.id = id,
                         !.used = @ \cup {id},
                         !.next = IF id >= @ THEN id + 1 ELSE @,
                         !.pc = IF trash THEN "raw" ELSE "find",
                         !.done = IF trash THEN @ + 1 ELSE @,
                         !.last = IF id > @ THEN id ELSE @]
  <2>1. imp' = [imp EXCEPT ![c] = s]
    BY <1>1, <1>2, <1>11
  <2>2. /\ s.id = id /\ s.used = r.used \cup {id} /\ s.records = r.records
        /\ s.next = (IF id >= r.next THEN id + 1 ELSE r.next)
        /\ s.pc = (IF trash THEN "raw" ELSE "find")
        /\ s.done = IF trash THEN r.done + 1 ELSE r.done
    BY DEF ImportRow
  <2>3. s \in ImportRow
    <3>1. r.used \cup {id} \subseteq Ids
      BY <1>4, <1>9
    <3>2. (IF id >= r.next THEN id + 1 ELSE r.next) \in 1 .. MaxId + 1
      BY <1>4, <1>9, ImportAssumption DEF Ids, ImportRow
    <3>3. (IF id > r.last THEN id ELSE r.last) \in 0 .. MaxId
      BY <1>4, <1>9, ImportAssumption DEF Ids, ImportRow
    <3>4. id \in 0 .. MaxId
      BY <1>9, ImportAssumption DEF Ids
    <3>5. (IF trash THEN r.done + 1 ELSE r.done) \in Nat
      BY <1>4
    <3> HIDE DEF trash
    <3> QED  BY <3>1, <3>2, <3>3, <3>4, <3>5 DEF ImportRow
  <2>4. Cardinality(s.used) = r.done + 1
    BY <1>4, <1>7, <2>2, FS_AddElement
  <2>5. \A m \in s.used : m < s.next
    <3>1. \A m \in r.used : m \in Nat
      BY <1>4, IdsAreNumbers
    <3> HIDE DEF s, trash
    <3> QED  BY <1>4, <1>7, <2>2, <3>1
  <2>6. s.next + Len(s.records) <= MaxId + (r.done + 1) + 1
    <3> HIDE DEF s, trash
    <3> QED  BY <1>4, <1>7, <1>8, <2>2, ImportAssumption
  <2>7. RowFits(s)
    <3> HIDE DEF s, trash
    <3>1. InHand(s) <=> ~trash
      BY <2>2 DEF InHand
    <3>2. s.done <= Len(s.records) /\ (InHand(s) => s.done < Len(s.records) /\ s.id \in s.used)
      BY <1>4, <2>2, <3>1
    <3>3. Cardinality(s.used) = IF InHand(s) THEN s.done + 1 ELSE s.done
      BY <2>2, <2>4, <3>1
    <3>4. Fits(s.records)
      BY <1>3, <2>2 DEF RowFits
    <3>5. s.pc \notin {"off", "create"}
      BY <2>2
    <3> QED  BY <2>4, <2>5, <2>6, <3>2, <3>3, <3>4, <3>5 DEF RowFits
  <2> HIDE DEF s
  <2>8. ImportMoves(c)
    BY <1>1, <2>1, <2>3, <2>7 DEF ImportMoves
  <2>9. StoresFine
    BY <1>1, <1>10, <1>11 DEF StoresFine, UpsertRawMessage
  <2> QED  BY <2>8, <2>9, MovesAreFine
<1>12. CASE raw' \in {raw, stored} /\ Fails(c)
  <2>1. imp' = [imp EXCEPT ![c] = [r EXCEPT !.pc = "failed"]]
    BY <1>1, <1>2, <1>12 DEF Fails, Goes
  <2>2. [r EXCEPT !.pc = "failed"] \in ImportRow /\ RowFits([r EXCEPT !.pc = "failed"])
    BY <1>3, RowGoes
  <2>3. ImportMoves(c)
    BY <1>1, <2>1, <2>2 DEF ImportMoves
  <2>4. StoresFine
    BY <1>1, <1>10, <1>12 DEF StoresFine, UpsertRawMessage
  <2> QED  BY <2>3, <2>4, MovesAreFine
<1> QED  BY <1>11, <1>12 DEF UpsertRawMessage, id, stored

\* The steps on the document of the record in hand.
DocStep(c) ==
  FindCanonicalDocumentByHash(c) \/ SaveDocument(c) \/ DeleteChunks(c) \/ InsertChunks(c)

LEMMA HandMoves ==
  ASSUME NEW r \in ImportRow, RowFits(r), InHand(r),
         NEW pc \in {"save", "delete", "insert"}, NEW dup \in BOOLEAN
  PROVE  LET s == [r EXCEPT !.pc = pc, !.dup = dup]
         IN s \in ImportRow /\ RowFits(s)
<1> DEFINE s == [r EXCEPT !.pc = pc, !.dup = dup]
<1>1. s \in ImportRow
  BY DEF ImportRow
<1>2. /\ s.pc = pc /\ s.records = r.records /\ s.done = r.done /\ s.used = r.used
      /\ s.next = r.next /\ s.id = r.id
  BY DEF ImportRow
<1> HIDE DEF s
<1>3. RowFits(s)
  BY <1>2 DEF RowFits, Going, InHand
<1> QED  BY <1>1, <1>3 DEF s

LEMMA HandLeaves ==
  ASSUME NEW r \in ImportRow, RowFits(r), InHand(r)
  PROVE  LET s == [r EXCEPT !.pc = "raw", !.done = @ + 1]
         IN s \in ImportRow /\ RowFits(s)
<1> DEFINE s == [r EXCEPT !.pc = "raw", !.done = @ + 1]
<1>0. r.done + 1 \in Nat
  BY DEF ImportRow
<1>1. s \in ImportRow
  <2> DEFINE n == r.done + 1
  <2>1. n \in Nat
    BY <1>0
  <2> HIDE DEF n
  <2>2. [r EXCEPT !.pc = "raw", !.done = n] \in ImportRow
    BY <2>1 DEF ImportRow
  <2> QED  BY <2>2 DEF n
<1>2. /\ s.pc = "raw" /\ s.records = r.records /\ s.done = r.done + 1 /\ s.used = r.used
      /\ s.next = r.next /\ s.id = r.id
  BY DEF ImportRow
<1>3. r.done \in Nat /\ r.records \in Seq(Items)
  BY DEF ImportRow
<1>4. Len(r.records) \in Nat
  BY <1>3, LenProperties
<1> HIDE DEF s
<1>5. RowFits(s)
  BY <1>2, <1>3, <1>4 DEF RowFits, Going, InHand
<1> QED  BY <1>1, <1>5 DEF s

LEMMA DocStepMoves ==
  ASSUME ImportPart, NEW c \in Imports, DocStep(c)
  PROVE  ImportMoves(c)
<1>1. imp \in [Imports -> ImportRow]
  BY ImportTypes DEF ImportPart
<1>2. PICK r \in ImportRow : r = imp[c]
  BY <1>1
<1>3. RowFits(r) /\ InHand(r)
  BY <1>2 DEF ImportPart, InHand, DocStep, FindCanonicalDocumentByHash,
              SaveDocument, DeleteChunks, InsertChunks
<1>4. CASE \E pc \in {"save", "delete", "insert"}, dup \in BOOLEAN :
             imp' = [imp EXCEPT ![c].pc = pc, ![c].dup = dup]
  <2>1. PICK pc \in {"save", "delete", "insert"}, dup \in BOOLEAN :
               imp' = [imp EXCEPT ![c].pc = pc, ![c].dup = dup]
    BY <1>4
  <2>2. imp' = [imp EXCEPT ![c] = [r EXCEPT !.pc = pc, !.dup = dup]]
    BY <1>1, <1>2, <2>1
  <2> QED  BY <1>1, <1>3, <2>2, HandMoves DEF ImportMoves
<1>5. CASE imp' = NextRecord(c)
  <2>1. imp' = [imp EXCEPT ![c] = [r EXCEPT !.pc = "raw", !.done = @ + 1]]
    BY <1>1, <1>2, <1>5 DEF NextRecord
  <2> QED  BY <1>1, <1>3, <2>1, HandLeaves DEF ImportMoves
<1>6. CASE Fails(c)
  <2>1. imp' = [imp EXCEPT ![c] = [r EXCEPT !.pc = "failed"]]
    BY <1>1, <1>2, <1>6 DEF Fails, Goes
  <2>2. [r EXCEPT !.pc = "failed"] \in ImportRow /\ RowFits([r EXCEPT !.pc = "failed"])
    BY <1>3, RowGoes DEF Going
  <2> QED  BY <1>1, <2>1, <2>2 DEF ImportMoves
<1>7. ASSUME NEW pc \in {"save", "delete", "insert"}, imp' = [imp EXCEPT ![c].pc = pc]
      PROVE  ImportMoves(c)
  <2>1. imp' = [imp EXCEPT ![c].pc = pc, ![c].dup = r.dup] /\ r.dup \in BOOLEAN
    BY <1>1, <1>2, <1>7 DEF ImportRow
  <2> QED  BY <1>4, <2>1
<1>8. CASE FindCanonicalDocumentByHash(c)
  <2>1. CASE imp' = [imp EXCEPT ![c].pc = "save", ![c].dup = Canonical(c) # {}]
    BY <1>4, <2>1
  <2> QED  BY <1>6, <1>8, <2>1 DEF FindCanonicalDocumentByHash
<1>9. CASE SaveDocument(c)
  BY <1>6, <1>7, <1>9 DEF SaveDocument, Write
<1>10. CASE DeleteChunks(c)
  BY <1>5, <1>6, <1>7, <1>10 DEF DeleteChunks, Write
<1>11. CASE InsertChunks(c)
  BY <1>5, <1>6, <1>11 DEF InsertChunks, Write
<1> QED  BY <1>8, <1>9, <1>10, <1>11 DEF DocStep

\* A document written keeps its type, whoever it belonged to.
LEMMA WrittenDocs ==
  ASSUME ImportPart, NEW c \in Imports, NEW doc \in DocRow, NEW next, Write(c, doc, next),
         InHand(imp[c])
  PROVE  docs' \in [Names \X Ids -> DocRow] /\ over' \subseteq Imports
<1>1. docs \in [Names \X Ids -> DocRow] /\ over \subseteq Imports
  BY ImportTypes DEF ImportPart
<1> QED  BY <1>1 DEF Write

LEMMA DocStepStores ==
  ASSUME ImportPart, NEW c \in Imports, DocStep(c)
  PROVE  StoresFine
<1>1. /\ imp \in [Imports -> ImportRow] /\ raw \in [Imports -> [Ids -> Nat]]
      /\ docs \in [Names \X Ids -> DocRow] /\ over \subseteq Imports
  BY ImportTypes DEF ImportPart
<1>2. PICK r \in ImportRow : r = imp[c]
  BY <1>1
<1>3. RowFits(r) /\ InHand(r)
  BY <1>2 DEF ImportPart, InHand, DocStep, FindCanonicalDocumentByHash,
              SaveDocument, DeleteChunks, InsertChunks
<1>4. r.done < Len(r.records) /\ r.id \in Ids /\ r.name \in Names /\ r.dup \in BOOLEAN
  BY <1>3 DEF RowFits, Going, ImportRow
<1>5. Record(c) \in Items /\ Record(c).text \in Nat
  BY <1>2, <1>4, RecordInHand DEF Items
<1>6. PICK d \in DocRow : d = docs[Key(c)]
  BY <1>1, <1>2, <1>4 DEF Key
<1>7. raw' \in [Imports -> [Ids -> Nat]]
  BY <1>1 DEF DocStep, FindCanonicalDocumentByHash, SaveDocument, DeleteChunks, InsertChunks
<1>8. CASE FindCanonicalDocumentByHash(c)
  BY <1>1, <1>7, <1>8 DEF FindCanonicalDocumentByHash, StoresFine
<1>9. CASE SaveDocument(c)
  <2>1. [docs[Key(c)] EXCEPT !.by = c, !.text = Record(c).text, !.dup = imp[c].dup] \in DocRow
    BY <1>2, <1>4, <1>5, <1>6 DEF DocRow
  <2> QED  BY <1>2, <1>3, <1>7, <1>9, <2>1, WrittenDocs DEF SaveDocument, StoresFine
<1>10. CASE DeleteChunks(c)
  <2>1. [docs[Key(c)] EXCEPT !.chunk = NoText] \in DocRow
    BY <1>6 DEF DocRow, NoText
  <2> QED  BY <1>2, <1>3, <1>7, <1>10, <2>1, WrittenDocs DEF DeleteChunks, StoresFine
<1>11. CASE InsertChunks(c)
  <2>1. [docs[Key(c)] EXCEPT !.chunk = Record(c).text] \in DocRow
    BY <1>5, <1>6 DEF DocRow
  <2> QED  BY <1>2, <1>3, <1>7, <1>11, <2>1, WrittenDocs DEF InsertChunks, StoresFine
<1> QED  BY <1>8, <1>9, <1>10, <1>11 DEF DocStep

LEMMA ImportPartStep ==
  ASSUME ImportPart, NEW c \in Imports, ImportStep(c)
  PROVE  ImportPart'
<1>1. /\ imp \in [Imports -> ImportRow] /\ raw \in [Imports -> [Ids -> Nat]]
      /\ docs \in [Names \X Ids -> DocRow] /\ over \subseteq Imports
  BY ImportTypes DEF ImportPart
<1>2. PICK r \in ImportRow : r = imp[c]
  BY <1>1
<1>3. CASE CreateSource(c) \/ MarkSourceSyncSuccess(c)
  <2>1. RowFits(r) /\ Going(r) /\ ~InHand(r)
    BY <1>2, <1>3 DEF ImportPart, CreateSource, MarkSourceSyncSuccess, Going, InHand
  <2>2. PICK pc \in {"raw", "done", "failed"} : imp' = [imp EXCEPT ![c] = [r EXCEPT !.pc = pc]]
    BY <1>1, <1>2, <1>3 DEF CreateSource, MarkSourceSyncSuccess, Goes, Fails
  <2>3. [r EXCEPT !.pc = pc] \in ImportRow /\ RowFits([r EXCEPT !.pc = pc])
    BY <2>1, RowGoes
  <2>4. ImportMoves(c)
    BY <1>1, <2>2, <2>3 DEF ImportMoves
  <2>5. StoresFine
    BY <1>1, <1>3 DEF StoresFine, CreateSource, MarkSourceSyncSuccess
  <2> QED  BY <2>4, <2>5, MovesAreFine
<1>4. CASE UpsertRawMessage(c)
  BY <1>4, ImportPartUpsert
<1>5. CASE DocStep(c)
  BY <1>5, DocStepMoves, DocStepStores, MovesAreFine
<1> QED  BY <1>3, <1>4, <1>5 DEF ImportStep, DocStep

LEMMA ImportPartNext ==
  ASSUME ImportPart, ImportActs
  PROVE  ImportPart'
<1>1. CASE UNCHANGED importVars
  BY <1>1 DEF importVars, ImportPart, ImportTypeOK
<1> QED  BY <1>1, ImportPartStep, ImportPartBegins DEF ImportActs

-----------------------------------------------------------------------------
(***************************************************************************)
(* Vacancies, newest first.                                                *)
(***************************************************************************)
LEMMA NewerIsAnOrder ==
  /\ \A u \in Vacancies : ~ Newer(u, u)
  /\ \A u, v \in Vacancies : u # v => Newer(u, v) \/ Newer(v, u)
  /\ \A u, v, x \in Vacancies : Newer(u, v) /\ Newer(v, x) => Newer(u, x)
  /\ \A u, v \in Vacancies : Newer(u, v) => ~ Newer(v, u) /\ PostedAt[u] >= PostedAt[v]
<1>1. Vacancies \subseteq Nat /\ \A v \in Vacancies : PostedAt[v] \in Nat
  BY VacancyAssumption
<1> QED  BY <1>1 DEF Newer

LEMMA RankIsBelow ==
  ASSUME NEW S \in SUBSET Vacancies, NEW v \in S
  PROVE  Rank(S, v) \in Nat /\ Rank(S, v) + 1 \in 1 .. Cardinality(S)
<1> DEFINE T == {u \in S : Newer(u, v)}
<1>1. IsFiniteSet(S)
  BY VacancyAssumption, FS_Subset
<1>2. T \subseteq S \ {v}
  BY NewerIsAnOrder
<1>3. IsFiniteSet(S \ {v}) /\ Cardinality(S \ {v}) = Cardinality(S) - 1
  BY <1>1, FS_RemoveElement
<1>4. IsFiniteSet(T) /\ Cardinality(T) <= Cardinality(S \ {v})
  BY <1>2, <1>3, FS_Subset
<1>5. Cardinality(T) \in Nat /\ Cardinality(S) \in Nat
  BY <1>1, <1>4, FS_CardinalityType
<1>6. Rank(S, v) = Cardinality(T)
  BY DEF Rank
<1> HIDE DEF T
<1> QED  BY <1>3, <1>4, <1>5, <1>6

LEMMA RankRises ==
  ASSUME NEW S \in SUBSET Vacancies, NEW u \in S, NEW v \in S, Newer(u, v)
  PROVE  Rank(S, u) < Rank(S, v)
<1> DEFINE T(x) == {y \in S : Newer(y, x)}
<1>1. IsFiniteSet(S)
  BY VacancyAssumption, FS_Subset
<1>2. T(u) \subseteq T(v) /\ u \in T(v) /\ u \notin T(u)
  BY NewerIsAnOrder
<1>3. IsFiniteSet(T(v)) /\ IsFiniteSet(T(u))
  BY <1>1, FS_Subset
<1>4. Cardinality(T(u)) \in Nat /\ Cardinality(T(v)) \in Nat
  BY <1>3, FS_CardinalityType
<1>5. Cardinality(T(u)) <= Cardinality(T(v)) /\ Cardinality(T(u)) # Cardinality(T(v))
  BY <1>2, <1>3, FS_Subset
<1>6. Rank(S, u) = Cardinality(T(u)) /\ Rank(S, v) = Cardinality(T(v))
  BY DEF Rank
<1> HIDE DEF T
<1> QED  BY <1>4, <1>5, <1>6

\* The list of a set has every member, each at the place of its rank.
LEMMA NewestFirstIsSorted ==
  ASSUME NEW S \in SUBSET Vacancies
  PROVE  /\ NewestFirst(S) \in Seq(S) /\ Len(NewestFirst(S)) = Cardinality(S)
         /\ Cardinality(S) \in Nat
         /\ \A k \in 1 .. Cardinality(S) : Rank(S, NewestFirst(S)[k]) = k - 1
         /\ \A v \in S : NewestFirst(S)[Rank(S, v) + 1] = v
<1> DEFINE n == Cardinality(S)
           f == [v \in S |-> Rank(S, v) + 1]
           list == NewestFirst(S)
<1>1. IsFiniteSet(S) /\ n \in Nat
  BY VacancyAssumption, FS_Subset, FS_CardinalityType
<1>2. f \in [S -> 1 .. n]
  BY RankIsBelow
<1>3. \A u, v \in S : Rank(S, u) = Rank(S, v) => u = v
  <2> SUFFICES ASSUME NEW u \in S, NEW v \in S, Rank(S, u) = Rank(S, v), u # v
               PROVE  FALSE
    OBVIOUS
  <2>1. Newer(u, v) \/ Newer(v, u)
    BY NewerIsAnOrder
  <2>2. Rank(S, u) < Rank(S, v) \/ Rank(S, v) < Rank(S, u)
    BY <2>1, RankRises
  <2>3. Rank(S, u) \in Nat /\ Rank(S, v) \in Nat
    BY RankIsBelow
  <2> QED  BY <2>2, <2>3
<1>4. \A u, v \in S : f[u] = f[v] => u = v
  <2> SUFFICES ASSUME NEW u \in S, NEW v \in S, f[u] = f[v] PROVE u = v
    OBVIOUS
  <2>1. Rank(S, u) \in Nat /\ Rank(S, v) \in Nat
    BY RankIsBelow
  <2>2. Rank(S, u) + 1 = Rank(S, v) + 1
    OBVIOUS
  <2>3. Rank(S, u) = Rank(S, v)
    BY <2>1, <2>2
  <2> QED  BY <1>3, <2>3
<1>5. f \in Injection(S, 1 .. n)
  BY <1>2, <1>4 DEF Injection, IsInjective
<1>6. IsFiniteSet(1 .. n) /\ Cardinality(1 .. n) = n
  BY <1>1, CountTo
<1>7. f \in Surjection(S, 1 .. n)
  BY <1>5, <1>6, FS_Injection
<1>8. ASSUME NEW k \in 1 .. n
      PROVE  \E v \in S : Rank(S, v) = k - 1
  <2>1. PICK v \in S : f[v] = k
    BY <1>7 DEF Surjection
  <2>2. Rank(S, v) \in Nat /\ f[v] = Rank(S, v) + 1
    BY RankIsBelow
  <2> QED  BY <1>1, <2>1, <2>2
<1>9. \A k \in 1 .. n : list[k] \in S /\ Rank(S, list[k]) = k - 1
  BY <1>8 DEF NewestFirst
<1>10. list \in [1 .. n -> S]
  BY <1>9 DEF NewestFirst
<1>11. list \in Seq(S) /\ Len(list) = n
  BY <1>1, <1>10
<1>12. ASSUME NEW v \in S
       PROVE  list[Rank(S, v) + 1] = v
  <2> DEFINE k == Rank(S, v) + 1
  <2>1. k \in 1 .. n /\ Rank(S, v) \in Nat
    BY RankIsBelow
  <2>2. list[k] \in S /\ Rank(S, list[k]) = k - 1
    BY <1>9, <2>1
  <2>3. k - 1 = Rank(S, v)
    BY <2>1
  <2> QED  BY <1>3, <2>2, <2>3
<1> QED  BY <1>1, <1>9, <1>11, <1>12

\* A page has the vacancies of PerPage ranks, or those that are left of them.
LEMMA PageOfRanks ==
  ASSUME NEW w, Found(w) \in SUBSET Vacancies, NEW page \in Nat
  PROVE  LET F == Found(w)
             before == page * PerPage
             answer == AnswerPage(w, page)
         IN /\ before \in Nat /\ (page + 1) * PerPage = before + PerPage
            /\ answer \in Seq(F) /\ Len(answer) \in Nat
            /\ \A k \in 1 .. Len(answer) :
                 Rank(F, answer[k]) = before + k - 1 /\ k <= PerPage
            /\ \A v \in F : Rank(F, v) >= before /\ Rank(F, v) < before + PerPage =>
                 /\ Rank(F, v) - before + 1 \in 1 .. Len(answer)
                 /\ answer[Rank(F, v) - before + 1] = v
            /\ Len(answer) < PerPage => \A v \in F : Rank(F, v) < before + PerPage
<1> DEFINE F == Found(w)
           before == page * PerPage
           all == NewestFirst(F)
           n == Cardinality(F)
           last == Least(before + PerPage, n)
           answer == SubSeq(all, before + 1, last)
<1>1. PerPage \in Nat \ {0}
  BY VacancyAssumption
<1>2. before \in Nat /\ (page + 1) * PerPage = before + PerPage
  BY <1>1
<1>3. /\ all \in Seq(F) /\ Len(all) = n /\ n \in Nat
      /\ \A k \in 1 .. n : Rank(F, all[k]) = k - 1
      /\ \A v \in F : all[Rank(F, v) + 1] = v
  BY NewestFirstIsSorted
<1>4. AnswerPage(w, page) = answer
  BY <1>2, <1>3 DEF AnswerPage
<1> HIDE DEF before, all, n
<1>5. last \in Nat /\ last <= n /\ last <= before + PerPage
      /\ (last = n \/ last = before + PerPage)
  BY <1>1, <1>2, <1>3 DEF Least
<1> HIDE DEF last
<1>6. \A i \in before + 1 .. last : i \in 1 .. n /\ all[i] \in F
  <2>1. \A i \in before + 1 .. last : i \in 1 .. n
    BY <1>2, <1>3, <1>5
  <2> QED  BY <1>3, <2>1, ElementOfSeq
<1>7. /\ answer \in Seq(F)
      /\ Len(answer) = (IF before + 1 <= last THEN last - (before + 1) + 1 ELSE 0)
      /\ \A i \in 1 .. last - (before + 1) + 1 : answer[i] = all[before + 1 + i - 1]
  <2>1. before + 1 \in Int /\ last \in Int
    BY <1>2, <1>5
  <2> QED  BY <1>6, <2>1, SubSeqProperties
<1>8. /\ Len(answer) = (IF before < last THEN last - before ELSE 0)
      /\ \A i \in 1 .. last - before : answer[i] = all[before + i]
  <2>1. last - (before + 1) + 1 = last - before /\ (before + 1 <= last <=> before < last)
    BY <1>2, <1>5
  <2>2. \A i \in 1 .. last - before : before + 1 + i - 1 = before + i
    BY <1>2, <1>5
  <2> QED  BY <1>7, <2>1, <2>2
<1> HIDE DEF answer
<1>9. ASSUME NEW k \in 1 .. Len(answer)
      PROVE  Rank(F, answer[k]) = before + k - 1 /\ k <= PerPage
  <2>1. k \in Nat /\ k \in 1 .. last - before /\ before + k \in 1 .. n /\ k <= PerPage
    BY <1>1, <1>2, <1>3, <1>5, <1>8
  <2>2. answer[k] = all[before + k]
    BY <1>8, <2>1
  <2>3. (before + k) - 1 = before + k - 1
    BY <1>2, <2>1
  <2> QED  BY <1>3, <2>1, <2>2, <2>3
<1>10. ASSUME NEW v \in F, Rank(F, v) >= before, Rank(F, v) < before + PerPage
       PROVE  /\ Rank(F, v) - before + 1 \in 1 .. Len(answer)
              /\ answer[Rank(F, v) - before + 1] = v
  <2> DEFINE k == Rank(F, v) - before + 1
  <2>1. Rank(F, v) \in Nat /\ Rank(F, v) + 1 \in 1 .. n
    BY RankIsBelow DEF n
  <2>2. k \in 1 .. last - before /\ before + k = Rank(F, v) + 1 /\ before < last
    BY <1>1, <1>2, <1>3, <1>5, <1>10, <2>1
  <2>3. k \in 1 .. Len(answer)
    BY <1>8, <2>2
  <2> HIDE DEF k
  <2>4. answer[k] = all[Rank(F, v) + 1]
    BY <1>8, <2>2
  <2> QED  BY <1>3, <2>3, <2>4 DEF k
<1>11. ASSUME Len(answer) < PerPage, NEW v \in F
       PROVE  Rank(F, v) < before + PerPage
  <2>1. Rank(F, v) \in Nat /\ Rank(F, v) + 1 \in 1 .. n
    BY RankIsBelow DEF n
  <2>2. CASE before < last
    BY SMTT(30), <1>1, <1>2, <1>3, <1>5, <1>8, <1>11, <2>1, <2>2
  <2>3. CASE ~ (before < last)
    BY <1>1, <1>2, <1>3, <1>5, <2>1, <2>3
  <2> QED  BY <2>2, <2>3
<1>12. Len(answer) \in Nat
  BY <1>7, LenProperties
<1> QED  BY <1>2, <1>4, <1>7, <1>9, <1>10, <1>11, <1>12 DEF before

-----------------------------------------------------------------------------
(***************************************************************************)
(* Lists without repetitions.                                              *)
(***************************************************************************)
LEMMA FirstOnes ==
  ASSUME NEW S, NEW s \in Seq(S), NEW n \in Nat, n <= Len(s)
  PROVE  /\ SubSeq(s, 1, n) \in Seq(S) /\ Len(SubSeq(s, 1, n)) = n
         /\ \A k \in 1 .. n : SubSeq(s, 1, n)[k] = s[k]
         /\ Range(SubSeq(s, 1, n)) \subseteq Range(s)
         /\ IsInjective(s) => IsInjective(SubSeq(s, 1, n))
<1> DEFINE t == SubSeq(s, 1, n)
<1>1. /\ Len(s) \in Nat /\ DOMAIN s = 1 .. Len(s)
      /\ \A i \in 1 .. n : i \in 1 .. Len(s) /\ s[i] \in S
  BY LenProperties, ElementOfSeq
<1>2. 1 \in Int /\ n \in Int
  OBVIOUS
<1>3. /\ t \in Seq(S) /\ Len(t) = (IF 1 <= n THEN n - 1 + 1 ELSE 0)
      /\ \A i \in 1 .. n - 1 + 1 : t[i] = s[1 + i - 1]
  BY <1>1, <1>2, SubSeqProperties
<1> HIDE DEF t
<1>4. Len(t) = n
  BY <1>3
<1>5. \A i \in 1 .. n : t[i] = s[i]
  BY <1>3
<1>6. DOMAIN t = 1 .. n
  BY <1>3, <1>4, LenProperties
<1>7. Range(t) \subseteq Range(s)
  BY <1>1, <1>5, <1>6 DEF Range
<1>8. IsInjective(s) => IsInjective(t)
  BY <1>1, <1>5, <1>6 DEF IsInjective
<1> QED  BY <1>3, <1>4, <1>5, <1>7, <1>8 DEF t

\* Where the elements of two lists are when one is appended to the other.
LEMMA JoinedPlaces ==
  ASSUME NEW S, NEW a \in Seq(S), NEW b \in Seq(S)
  PROVE  /\ a \o b \in Seq(S)
         /\ \A k \in DOMAIN (a \o b) :
              \/ k \in DOMAIN a /\ (a \o b)[k] = a[k]
              \/ \E j \in DOMAIN b : k = Len(a) + j /\ (a \o b)[k] = b[j]
         /\ \A k \in DOMAIN a : k \in DOMAIN (a \o b)
         /\ \A j \in DOMAIN b : Len(a) + j \in DOMAIN (a \o b) /\ (a \o b)[Len(a) + j] = b[j]
<1> DEFINE t == a \o b
           m == Len(a)
           n == Len(b)
<1>1. /\ m \in Nat /\ DOMAIN a = 1 .. m /\ n \in Nat /\ DOMAIN b = 1 .. n
  BY LenProperties
<1>2. /\ t \in Seq(S) /\ Len(t) = m + n
      /\ \A i \in 1 .. m + n : t[i] = IF i <= m THEN a[i] ELSE b[i - m]
  BY ConcatProperties
<1>3. DOMAIN t = 1 .. m + n
  BY <1>2, LenProperties
<1> HIDE DEF t, m, n
<1>4. ASSUME NEW k \in DOMAIN t
      PROVE  \/ k \in DOMAIN a /\ t[k] = a[k]
             \/ \E j \in DOMAIN b : k = m + j /\ t[k] = b[j]
  <2>1. CASE k <= m
    BY <1>1, <1>2, <1>3, <2>1
  <2>2. CASE ~ (k <= m)
    <3>1. k - m \in 1 .. n /\ k = m + (k - m) /\ k \in 1 .. m + n
      BY <1>1, <1>3, <2>2
    <3>2. t[k] = b[k - m]
      BY <1>2, <2>2, <3>1
    <3> QED  BY <1>1, <3>1, <3>2
  <2> QED  BY <2>1, <2>2
<1>5. ASSUME NEW j \in DOMAIN b
      PROVE  m + j \in DOMAIN t /\ t[m + j] = b[j]
  <2>1. m + j \in 1 .. m + n /\ ~ (m + j <= m) /\ (m + j) - m = j
    BY <1>1
  <2> QED  BY <1>2, <1>3, <2>1
<1>6. \A k \in DOMAIN a : k \in DOMAIN t
  BY <1>1, <1>3
<1>7. /\ t \in Seq(S)
      /\ \A k \in DOMAIN t :
           \/ k \in DOMAIN a /\ t[k] = a[k]
           \/ \E j \in DOMAIN b : k = m + j /\ t[k] = b[j]
      /\ \A k \in DOMAIN a : k \in DOMAIN t
      /\ \A j \in DOMAIN b : m + j \in DOMAIN t /\ t[m + j] = b[j]
  BY <1>2, <1>4, <1>5, <1>6
<1> QED  BY <1>7 DEF t, m

LEMMA JoinedOnce ==
  ASSUME NEW S, NEW a \in Seq(S), NEW b \in Seq(S), IsInjective(a), IsInjective(b),
         Range(a) \cap Range(b) = {}
  PROVE  IsInjective(a \o b)
<1> DEFINE t == a \o b
           m == Len(a)
           n == Len(b)
<1>1. /\ m \in Nat /\ DOMAIN a = 1 .. m /\ n \in Nat /\ DOMAIN b = 1 .. n
  BY LenProperties
<1>2. /\ t \in Seq(S) /\ Len(t) = m + n
      /\ \A i \in 1 .. m + n : t[i] = IF i <= m THEN a[i] ELSE b[i - m]
  BY ConcatProperties
<1>3. DOMAIN t = 1 .. m + n
  BY <1>2, LenProperties
<1> HIDE DEF t, m, n
<1>4. \A i \in 1 .. m, j \in 1 .. n : a[i] # b[j]
  BY <1>1 DEF Range
<1>5. ASSUME NEW i \in 1 .. m + n, NEW j \in 1 .. m + n, t[i] = t[j]
      PROVE  i = j
  <2>1. CASE i <= m /\ j <= m
    <3>1. i \in 1 .. m /\ j \in 1 .. m
      BY <1>1, <2>1
    <3> QED  BY <1>1, <1>2, <1>5, <2>1, <3>1 DEF IsInjective
  <2>2. CASE i > m /\ j > m
    <3>1. i - m \in 1 .. n /\ j - m \in 1 .. n
      BY <1>1, <2>2
    <3>2. ~ (i <= m) /\ ~ (j <= m)
      BY <1>1, <2>2
    <3>3. b[i - m] = b[j - m]
      BY <1>2, <1>5, <3>2
    <3>4. i - m = j - m
      BY <1>1, <3>1, <3>3 DEF IsInjective
    <3> QED  BY <1>1, <3>4
  <2>3. CASE i <= m /\ j > m
    <3>1. i \in 1 .. m /\ j - m \in 1 .. n /\ ~ (j <= m)
      BY <1>1, <2>3
    <3>2. a[i] = b[j - m]
      BY <1>2, <1>5, <2>3, <3>1
    <3> QED  BY <1>4, <3>1, <3>2
  <2>4. CASE i > m /\ j <= m
    <3>1. j \in 1 .. m /\ i - m \in 1 .. n /\ ~ (i <= m)
      BY <1>1, <2>4
    <3>2. a[j] = b[i - m]
      BY <1>2, <1>5, <2>4, <3>1
    <3> QED  BY <1>4, <3>1, <3>2
  <2> QED  BY <1>1, <2>1, <2>2, <2>3, <2>4
<1> QED  BY <1>3, <1>5 DEF IsInjective, t

-----------------------------------------------------------------------------
(***************************************************************************)
(* The search of vacancies: types, and nothing twice.                      *)
(***************************************************************************)
SearchRow ==
  [pc: {"off", "windows", "pages", "collected", "failed"},
   max: MaxItems, left: Seq(Windows), page: Nat, pages: Nat,
   items: Seq(Vacancies), truncated: BOOLEAN]

RowSearches(s) ==
  /\ s.pc = "off" => s.items = <<>> /\ ~s.truncated
  /\ Len(s.items) <= s.max
  /\ IsInjective(s.items)
  /\ s.pc = "pages" => s.left # <<>>
  /\ \A i \in DOMAIN s.left : s.left[i].from <= s.left[i].to

VacPart == VacancyTypeOK /\ RowSearches(search)

VacActs ==
  \/ \E max \in MaxItems : StartSearch(max)
  \/ SearchStep
  \/ HeadHunterChanges
  \/ UNCHANGED vacancyVars

LEMMA VacTypes ==
  ASSUME VacancyTypeOK
  PROVE  /\ search \in SearchRow
         /\ search.max \in Nat \ {0} /\ search.left \in Seq(Windows)
         /\ search.page \in Nat /\ search.pages \in Nat
         /\ search.items \in Seq(Vacancies) /\ Len(search.items) \in Nat
         /\ always \subseteq online /\ online \subseteq Vacancies
         /\ stale \in BOOLEAN /\ changes \in 0 .. MaxChanges
         /\ \A w : Found(w) \in SUBSET Vacancies
<1>1. search \in SearchRow /\ always \subseteq online /\ online \subseteq Vacancies
      /\ stale \in BOOLEAN /\ changes \in 0 .. MaxChanges
  BY DEF VacancyTypeOK, SearchRow
<1>2. /\ search.max \in MaxItems /\ search.left \in Seq(Windows)
      /\ search.page \in Nat /\ search.pages \in Nat
      /\ search.items \in Seq(Vacancies)
  BY <1>1 DEF SearchRow
<1>3. search.max \in Nat \ {0}
  BY <1>2, VacancyAssumption
<1>4. Len(search.items) \in Nat
  BY <1>2, LenProperties
<1>5. \A w : Found(w) \in SUBSET Vacancies
  BY <1>1 DEF Found
<1> QED  BY <1>1, <1>2, <1>3, <1>4, <1>5

LEMMA NothingIsOnce ==
  IsInjective(<<>>) /\ Len(<<>>) = 0 /\ DOMAIN <<>> = {} /\ Range(<<>>) = {}
<1>1. <<>> \in Seq({}) /\ Len(<<>>) = 0
  BY EmptySeq
<1>2. DOMAIN <<>> = {}
  BY <1>1, LenProperties
<1> QED  BY <1>1, <1>2 DEF IsInjective, Range

LEMMA VacPartInit ==
  ASSUME VacancyInit
  PROVE  VacPart
<1>1. PICK m \in MaxItems :
        search = [pc |-> "off", max |-> m, left |-> <<>>, page |-> 0, pages |-> 0,
                  items |-> <<>>, truncated |-> FALSE]
  BY VacancyAssumption DEF VacancyInit
<1>2. <<>> \in Seq(Windows) /\ <<>> \in Seq(Vacancies) /\ m \in Nat
  BY EmptySeq, VacancyAssumption
<1>3. search \in SearchRow
  BY <1>1, <1>2 DEF SearchRow
<1>4. online \subseteq Vacancies /\ 0 \in 0 .. MaxChanges
  BY VacancyAssumption DEF VacancyInit
<1>5. VacancyTypeOK
  BY <1>3, <1>4 DEF VacancyInit, VacancyTypeOK, SearchRow
<1>6. RowSearches(search)
  BY <1>1, <1>2, NothingIsOnce DEF RowSearches
<1> QED  BY <1>5, <1>6 DEF VacPart

\* A step of the search alone.
LEMMA SearchMoves ==
  ASSUME VacPart, UNCHANGED <<online, always, stale, changes>>,
         search' \in SearchRow, RowSearches(search')
  PROVE  VacPart'
<1>1. VacancyTypeOK'
  BY VacTypes DEF VacPart, VacancyTypeOK, SearchRow
<1> QED  BY <1>1 DEF VacPart, RowSearches

LEMMA HeadOfWindows ==
  ASSUME VacPart, search.left # <<>>
  PROVE  /\ Current \in Windows /\ Current.from \in Nat /\ Current.to \in Nat
         /\ Current.from <= Current.to
         /\ 1 \in DOMAIN search.left /\ Current = search.left[1]
         /\ Tail(search.left) \in Seq(Windows)
         /\ Len(search.left) \in Nat \ {0}
         /\ DOMAIN search.left = 1 .. Len(search.left)
         /\ DOMAIN Tail(search.left) = 1 .. Len(search.left) - 1
         /\ \A i \in 1 .. Len(search.left) - 1 :
              i + 1 \in DOMAIN search.left /\ Tail(search.left)[i] = search.left[i + 1]
<1>1. search.left \in Seq(Windows)
  BY VacTypes DEF VacPart
<1>2. /\ Len(search.left) \in Nat \ {0} /\ DOMAIN search.left = 1 .. Len(search.left)
      /\ search.left[1] \in Windows
  BY <1>1, EmptySeq, LenProperties, ElementOfSeq
<1>3. /\ Tail(search.left) \in Seq(Windows)
      /\ Len(Tail(search.left)) = Len(search.left) - 1
      /\ \A i \in 1 .. Len(Tail(search.left)) : Tail(search.left)[i] = search.left[i + 1]
  BY <1>1, HeadTailProperties
<1>4. Current = search.left[1]
  BY <1>1, <1>2 DEF Current
<1>5. DOMAIN Tail(search.left) = 1 .. Len(search.left) - 1
  BY <1>3, LenProperties
<1>6. search.left[1].from <= search.left[1].to
  BY <1>2 DEF VacPart, RowSearches
<1>7. search.left[1].from \in Nat /\ search.left[1].to \in Nat
  BY <1>2 DEF Windows
<1>8. \A i \in 1 .. Len(search.left) - 1 : i + 1 \in DOMAIN search.left
  BY <1>2
<1> QED  BY <1>2, <1>3, <1>4, <1>5, <1>6, <1>7, <1>8

\* The halves of a window that is wide enough are windows, one after the other.
LEMMA HalvesOfWindow ==
  ASSUME NEW w \in Windows, w.to - w.from > 1
  PROVE  LET h == Halves(w)
         IN /\ h \in Seq(Windows) /\ Len(h) = 2
            /\ h[1].from <= h[1].to /\ h[2].from <= h[2].to
            /\ h[1].to = w.to /\ h[2].from = w.from /\ h[1].from = h[2].to + 1
<1> DEFINE mid == w.from + (w.to - w.from) \div 2
<1>1. w.from \in Nat /\ w.to \in Nat
  BY DEF Windows
<1>2. mid \in Nat /\ w.from <= mid /\ mid + 1 <= w.to
  BY <1>1
<1> HIDE DEF mid
<1>3. Halves(w) = <<[from |-> mid + 1, to |-> w.to], [from |-> w.from, to |-> mid]>>
  BY DEF Halves, mid
<1>4. [from |-> mid + 1, to |-> w.to] \in Windows /\ [from |-> w.from, to |-> mid] \in Windows
  BY <1>1, <1>2 DEF Windows
<1> QED  BY <1>1, <1>2, <1>3, <1>4

LEMMA PagesCover ==
  ASSUME NEW limit \in Nat, NEW size \in Nat \ {0}
  PROVE  LET pages == (limit + size - 1) \div size
         IN pages \in Nat /\ pages * size >= limit
<1> DEFINE n == limit + size - 1
<1>1. n \in Nat
  OBVIOUS
<1> HIDE DEF n
<1>2. n \div size \in Nat /\ n < (n \div size) * size + size
  BY <1>1
<1>3. (n \div size) * size \in Nat
  BY <1>2
<1> DEFINE q == (n \div size) * size
<1> HIDE DEF q
<1>4. q \in Nat /\ n < q + size
  BY <1>2, <1>3 DEF q
<1>5. q >= limit
  BY <1>4 DEF n
<1> QED  BY <1>2, <1>5 DEF n, q

\* What a page gives that was not there, as far as there is room.
Unseen(answer) == {k \in DOMAIN answer : answer[k] \notin Range(search.items)}
Taken(answer) ==
  LET new == Selected(answer, Unseen(answer))
  IN SubSeq(new, 1, Least(search.max - Len(search.items), Len(new)))

LEMMA TakenOnce ==
  ASSUME VacPart, ~Full, NEW answer \in Seq(Vacancies), IsInjective(answer)
  PROVE  LET items == search.items \o Taken(answer)
         IN /\ items \in Seq(Vacancies) /\ IsInjective(items) /\ Len(items) <= search.max
            /\ Range(items) = Range(search.items) \cup Range(Taken(answer))
            /\ Range(Taken(answer)) \subseteq Range(answer)
            /\ Len(items) < search.max => Range(answer) \subseteq Range(items)
            /\ Len(items) = Len(search.items) + Len(Taken(answer))
<1> DEFINE new == Selected(answer, Unseen(answer))
           room == search.max - Len(search.items)
           n == Least(room, Len(new))
           taken == SubSeq(new, 1, n)
<1>1. /\ search.items \in Seq(Vacancies) /\ Len(search.items) \in Nat
      /\ IsInjective(search.items) /\ search.max \in Nat /\ room \in Nat
  BY VacTypes DEF VacPart, RowSearches, Full
<1>2. DOMAIN answer = 1 .. Len(answer) /\ Len(answer) \in Nat
  BY LenProperties
<1>3. /\ new \in Seq(Vacancies)
      /\ Range(new) = {answer[k] : k \in Unseen(answer) \cap DOMAIN answer}
  BY SelectedFacts
<1>4. IsInjective(new)
  BY <1>2, SelectedOnce DEF IsInjective
<1>5. Len(new) \in Nat
  BY <1>3, LenProperties
<1> HIDE DEF new
<1>6. n \in Nat /\ n <= Len(new) /\ n <= room /\ (n = room \/ n = Len(new))
  BY <1>1, <1>5 DEF Least
<1> HIDE DEF n
<1>7. /\ taken \in Seq(Vacancies) /\ Len(taken) = n
      /\ Range(taken) \subseteq Range(new) /\ IsInjective(taken)
  BY <1>3, <1>4, <1>6, FirstOnes
<1>8. taken = Taken(answer)
  BY DEF Taken, new, n
<1>9. Range(search.items) \cap Range(taken) = {}
  BY <1>3, <1>7 DEF Unseen
<1>10. Range(taken) \subseteq Range(answer)
  BY <1>3, <1>7 DEF Range
<1> DEFINE items == search.items \o taken
<1> HIDE DEF taken
<1>11. /\ items \in Seq(Vacancies) /\ Len(items) = Len(search.items) + n
       /\ Range(items) = Range(search.items) \cup Range(taken)
  BY <1>1, <1>7, ConcatProperties, RangeConcatenation
<1>12. IsInjective(items)
  BY <1>1, <1>7, <1>9, JoinedOnce
<1> HIDE DEF items
<1>13. Len(items) <= search.max
  BY <1>1, <1>6, <1>11
<1>14. ASSUME Len(items) < search.max
       PROVE  Range(answer) \subseteq Range(items)
  <2>1. n = Len(new)
    BY <1>1, <1>6, <1>11, <1>14
  <2>2. taken = new
    BY <1>3, <2>1, SubSeqFull DEF taken
  <2>3. \A k \in DOMAIN answer :
          answer[k] \in Range(search.items) \/ answer[k] \in Range(new)
    BY <1>3 DEF Unseen
  <2> QED  BY <1>11, <2>2, <2>3 DEF Range
<1> QED  BY <1>7, <1>8, <1>10, <1>11, <1>12, <1>13, <1>14 DEF items

LEMMA PageOnce ==
  ASSUME VacPart, NEW w, NEW page \in Nat
  PROVE  AnswerPage(w, page) \in Seq(Vacancies) /\ IsInjective(AnswerPage(w, page))
<1> DEFINE F == Found(w)
           answer == AnswerPage(w, page)
           before == page * PerPage
<1>1. F \in SUBSET Vacancies
  BY VacTypes DEF VacPart
<1>2. /\ before \in Nat /\ answer \in Seq(F) /\ Len(answer) \in Nat
      /\ \A k \in 1 .. Len(answer) : Rank(F, answer[k]) = before + k - 1
  BY <1>1, PageOfRanks
<1>3. answer \in Seq(Vacancies) /\ DOMAIN answer = 1 .. Len(answer)
  BY <1>1, <1>2, SeqMonotonic, LenProperties
<1> HIDE DEF answer, before
<1>4. ASSUME NEW j \in 1 .. Len(answer), NEW k \in 1 .. Len(answer), answer[j] = answer[k]
      PROVE  j = k
  <2>1. before + j - 1 = before + k - 1
    BY <1>2, <1>4
  <2> QED  BY <1>2, <2>1
<1> QED  BY <1>3, <1>4 DEF IsInjective, answer

LEMMA VacPartRead ==
  ASSUME VacPart, ReadPage
  PROVE  VacPart'
<1> DEFINE answer == AnswerPage(Current, search.page)
           page == IF Len(answer) < PerPage THEN search.pages ELSE search.page + 1
           items == search.items \o Taken(answer)
<1>1. /\ search \in SearchRow /\ search.page \in Nat /\ search.pages \in Nat
      /\ search.pc = "pages" /\ ~Full
  BY VacTypes DEF VacPart, ReadPage
<1>2. answer \in Seq(Vacancies) /\ IsInjective(answer)
  BY <1>1, PageOnce
<1>3. search' = [search EXCEPT !.items = items, !.page = page]
  BY DEF ReadPage, Taken, Unseen
<1> HIDE DEF answer
<1>4. items \in Seq(Vacancies) /\ IsInjective(items) /\ Len(items) <= search.max
  BY <1>1, <1>2, TakenOnce
<1>5. page \in Nat
  BY <1>1
<1> HIDE DEF items, page
<1>6. search' \in SearchRow
  BY <1>1, <1>3, <1>4, <1>5 DEF SearchRow
<1>7. /\ search'.items = items /\ search'.max = search.max /\ search'.pc = search.pc
      /\ search'.left = search.left
  BY <1>1, <1>3 DEF SearchRow
<1>8. RowSearches(search')
  BY <1>1, <1>4, <1>7 DEF RowSearches, VacPart
<1> QED  BY <1>6, <1>8, SearchMoves DEF ReadPage

LEMMA VacPartWindows ==
  ASSUME VacPart, ProbeEmpty \/ LeaveWindow
  PROVE  VacPart'
<1>1. search \in SearchRow
  BY VacTypes DEF VacPart
<1>2. search.left # <<>>
  BY DEF ProbeEmpty, Probes, LeaveWindow, VacPart, RowSearches
<1>3. search' = [search EXCEPT !.pc = "windows", !.left = Tail(@)]
  <2>1. CASE ProbeEmpty
    BY <1>1, <2>1 DEF ProbeEmpty, Probes, SearchRow
  <2>2. CASE LeaveWindow
    BY <2>2 DEF LeaveWindow
  <2> QED  BY <2>1, <2>2
<1>4. Tail(search.left) \in Seq(Windows)
  BY <1>2, HeadOfWindows
<1>5. search' \in SearchRow
  BY <1>1, <1>3, <1>4 DEF SearchRow
<1>6. /\ search'.items = search.items /\ search'.max = search.max /\ search'.pc = "windows"
      /\ search'.left = Tail(search.left)
  BY <1>1, <1>3 DEF SearchRow
<1>7. RowSearches(search')
  BY <1>2, <1>6, HeadOfWindows DEF RowSearches, VacPart
<1> QED  BY <1>5, <1>7, SearchMoves DEF ProbeEmpty, LeaveWindow

LEMMA VacPartLeaf ==
  ASSUME VacPart, ProbeLeaf
  PROVE  VacPart'
<1> DEFINE found == Cardinality(Found(Current))
           limit == Least(search.max - Len(search.items), Least(found, PerWindow))
           pages == (limit + PerPage - 1) \div PerPage
<1>1. search \in SearchRow /\ search.max \in Nat /\ Len(search.items) \in Nat /\ ~Full
  BY VacTypes DEF VacPart, ProbeLeaf, Probes
<1>2. found \in Nat
  BY VacTypes, NewestFirstIsSorted DEF VacPart
<1>3. PerWindow \in Nat /\ PerPage \in Nat \ {0}
  BY VacancyAssumption
<1> HIDE DEF found
<1>4. limit \in Nat
  BY <1>1, <1>2, <1>3 DEF Least, Full
<1> HIDE DEF limit
<1>5. pages \in Nat
  BY <1>3, <1>4, PagesCover
<1> DEFINE truncated == search.truncated \/ found > PerWindow
<1>6. search' = [search EXCEPT !.pc = "pages", !.page = 0, !.pages = pages,
                               !.truncated = truncated]
  BY DEF ProbeLeaf, limit, found
<1>7. truncated \in BOOLEAN
  BY <1>1 DEF SearchRow
<1> HIDE DEF pages, truncated
<1>8. search' \in SearchRow
  BY <1>1, <1>5, <1>6, <1>7 DEF SearchRow
<1>9. /\ search'.items = search.items /\ search'.max = search.max
      /\ search'.left = search.left /\ search'.pc = "pages"
  BY <1>1, <1>6 DEF SearchRow
<1>10. RowSearches(search')
  BY <1>9 DEF RowSearches, VacPart, ProbeLeaf, Probes
<1> QED  BY <1>8, <1>10, SearchMoves DEF ProbeLeaf

\* The windows that are left after a split.
LEMMA WindowsSplit ==
  ASSUME VacPart, search.left # <<>>, Current.to - Current.from > 1
  PROVE  LET h == Halves(Current)
             left == h \o Tail(search.left)
         IN /\ left \in Seq(Windows)
            /\ Len(left) = Len(search.left) + 1
            /\ DOMAIN left = 1 .. Len(search.left) + 1
            /\ left[1] = h[1] /\ left[2] = h[2]
            /\ \A i \in 3 .. Len(search.left) + 1 :
                 i - 1 \in 2 .. Len(search.left) /\ left[i] = search.left[i - 1]
<1> DEFINE h == Halves(Current)
           tail == Tail(search.left)
           left == h \o tail
           n == Len(search.left)
<1>1. /\ Current \in Windows /\ tail \in Seq(Windows) /\ n \in Nat \ {0}
      /\ DOMAIN tail = 1 .. n - 1 /\ \A i \in 1 .. n - 1 : tail[i] = search.left[i + 1]
  BY HeadOfWindows
<1>2. h \in Seq(Windows) /\ Len(h) = 2
  BY <1>1, HalvesOfWindow
<1>3. Len(tail) = n - 1
  <2>1. Len(tail) \in Nat /\ 1 .. Len(tail) = 1 .. n - 1
    BY <1>1, LenProperties
  <2> QED  BY <1>1, HeadTailProperties, VacTypes DEF VacPart
<1> HIDE DEF h, tail, n
<1>4. /\ left \in Seq(Windows) /\ Len(left) = 2 + (n - 1)
      /\ \A i \in 1 .. 2 + (n - 1) : left[i] = IF i <= 2 THEN h[i] ELSE tail[i - 2]
  <2>1. /\ left \in Seq(Windows) /\ Len(left) = Len(h) + Len(tail)
        /\ \A i \in 1 .. Len(h) + Len(tail) :
             left[i] = IF i <= Len(h) THEN h[i] ELSE tail[i - Len(h)]
    BY <1>1, <1>2, ConcatProperties
  <2> HIDE DEF left
  <2> QED  BY <1>2, <1>3, <2>1
<1>5. DOMAIN left = 1 .. Len(left) /\ 2 + (n - 1) = n + 1
  BY <1>1, <1>4, LenProperties
<1>6. ASSUME NEW i \in 3 .. n + 1
      PROVE  i - 1 \in 2 .. n /\ left[i] = search.left[i - 1]
  <2>1. i - 1 \in 2 .. n /\ i - 2 \in 1 .. n - 1 /\ i \in 1 .. n + 1 /\ ~ (i <= 2)
        /\ (i - 2) + 1 = i - 1
    BY <1>1
  <2>2. left[i] = tail[i - 2]
    BY <1>4, <1>5, <2>1
  <2> QED  BY <1>1, <2>1, <2>2
<1>7. left[1] = h[1] /\ left[2] = h[2]
  BY <1>1, <1>4, <1>5
<1> QED  BY <1>4, <1>5, <1>6, <1>7 DEF h, tail, n

LEMMA VacPartSplit ==
  ASSUME VacPart, ProbeSplit
  PROVE  VacPart'
<1> DEFINE h == Halves(Current)
           left == h \o Tail(search.left)
<1>1. search \in SearchRow /\ search.left # <<>>
  BY VacTypes DEF VacPart, ProbeSplit, Probes
<1>2. Current \in Windows /\ Current.to - Current.from > 1
  <2>1. Current \in Windows /\ Current.to \in Nat /\ Current.from \in Nat
    BY <1>1, HeadOfWindows
  <2>2. ~ (Current.to - Current.from <= 1)
    BY DEF ProbeSplit, IsLeaf
  <2> QED  BY <2>1, <2>2
<1>3. /\ left \in Seq(Windows) /\ DOMAIN left = 1 .. Len(search.left) + 1
      /\ left[1] = h[1] /\ left[2] = h[2]
      /\ \A i \in 3 .. Len(search.left) + 1 :
           i - 1 \in 2 .. Len(search.left) /\ left[i] = search.left[i - 1]
  BY <1>1, <1>2, WindowsSplit
<1>4. h[1].from <= h[1].to /\ h[2].from <= h[2].to
  BY <1>2, HalvesOfWindow
<1>5. search' = [search EXCEPT !.left = left]
  BY DEF ProbeSplit
<1> HIDE DEF left, h
<1>6. search' \in SearchRow
  BY <1>1, <1>3, <1>5 DEF SearchRow
<1>7. /\ search'.items = search.items /\ search'.max = search.max
      /\ search'.left = left /\ search'.pc = "windows"
  BY <1>1, <1>5 DEF SearchRow, ProbeSplit, Probes
<1>8. \A i \in DOMAIN left : left[i].from <= left[i].to
  <2>1. Len(search.left) \in Nat \ {0} /\ DOMAIN search.left = 1 .. Len(search.left)
    BY <1>1, HeadOfWindows
  <2> SUFFICES ASSUME NEW i \in 1 .. Len(search.left) + 1
               PROVE  left[i].from <= left[i].to
    BY <1>3
  <2>2. i = 1 \/ i = 2 \/ i \in 3 .. Len(search.left) + 1
    BY <2>1
  <2>3. ASSUME i \in 3 .. Len(search.left) + 1
        PROVE  left[i].from <= left[i].to
    <3>1. i - 1 \in DOMAIN search.left /\ left[i] = search.left[i - 1]
      BY <1>3, <2>1, <2>3
    <3> QED  BY <3>1 DEF VacPart, RowSearches
  <2> QED  BY <1>3, <1>4, <2>2, <2>3
<1>9. RowSearches(search')
  BY <1>7, <1>8 DEF RowSearches, VacPart
<1> QED  BY <1>6, <1>9, SearchMoves DEF ProbeSplit

LEMMA VacPartStep ==
  ASSUME VacPart, SearchStep
  PROVE  VacPart'
<1>1. search \in SearchRow
  BY VacTypes DEF VacPart
<1>2. CASE Collected \/ SearchFails
  <2>1. PICK pc \in {"failed", "collected"} : search' = [search EXCEPT !.pc = pc]
    BY <1>2 DEF Collected, SearchFails
  <2>2. search' \in SearchRow
    BY <1>1, <2>1 DEF SearchRow
  <2>3. /\ search'.items = search.items /\ search'.max = search.max
        /\ search'.left = search.left /\ search'.pc \notin {"pages", "off"}
    BY <1>1, <2>1 DEF SearchRow
  <2>4. RowSearches(search')
    BY <2>3 DEF RowSearches, VacPart
  <2> QED  BY <1>2, <2>2, <2>4, SearchMoves DEF Collected, SearchFails
<1> QED  BY <1>2, VacPartRead, VacPartWindows, VacPartLeaf, VacPartSplit DEF SearchStep

LEMMA VacPartStart ==
  ASSUME VacPart, NEW max \in MaxItems, StartSearch(max)
  PROVE  VacPart'
<1>1. search \in SearchRow
  BY VacTypes DEF VacPart
<1>2. Window \in Windows /\ Window.from <= Window.to /\ max \in Nat
  BY VacancyAssumption DEF Windows
<1>3. search' = [search EXCEPT !.pc = "windows", !.max = max, !.left = <<Window>>]
  BY DEF StartSearch
<1>4. <<Window>> \in Seq(Windows) /\ DOMAIN <<Window>> = 1 .. 1 /\ <<Window>>[1] = Window
  BY <1>2
<1>5. search' \in SearchRow
  BY <1>1, <1>3, <1>4 DEF SearchRow
<1>6. /\ search'.items = search.items /\ search'.max = max
      /\ search'.left = <<Window>> /\ search'.pc = "windows"
  BY <1>1, <1>3 DEF SearchRow
<1>7. search.items = <<>> /\ search.pc = "off"
  BY DEF VacPart, RowSearches, StartSearch
<1>8. RowSearches(search')
  BY <1>2, <1>4, <1>6, <1>7, NothingIsOnce DEF RowSearches
<1> QED  BY <1>5, <1>8, SearchMoves DEF StartSearch

LEMMA VacPartChanges ==
  ASSUME VacPart, HeadHunterChanges
  PROVE  VacPart'
<1>1. /\ search \in SearchRow /\ always \subseteq online /\ online \subseteq Vacancies
      /\ stale \in BOOLEAN /\ changes \in 0 .. MaxChanges
  BY VacTypes DEF VacPart
<1>2. online' \subseteq Vacancies /\ always' \subseteq online' /\ stale' \in BOOLEAN
  BY <1>1 DEF HeadHunterChanges
<1>3. changes' \in 0 .. MaxChanges
  BY <1>1, VacancyAssumption DEF HeadHunterChanges
<1>4. search' = search
  BY DEF HeadHunterChanges
<1> QED  BY <1>1, <1>2, <1>3, <1>4 DEF VacPart, VacancyTypeOK, RowSearches, SearchRow

LEMMA VacPartNext ==
  ASSUME VacPart, VacActs
  PROVE  VacPart'
<1>1. CASE UNCHANGED vacancyVars
  BY <1>1 DEF vacancyVars, VacPart, VacancyTypeOK
<1> QED  BY <1>1, VacPartStart, VacPartStep, VacPartChanges DEF VacActs

-----------------------------------------------------------------------------
(***************************************************************************)
(* The search of resumes: types.                                           *)
(***************************************************************************)
HitsRow ==
  [pc: {"off", "pages", "fetch", "fetched", "failed"}, page: Nat \ {0},
   found: Seq(Resumes), started: Nat, open: SUBSET Nat, error: BOOLEAN]

HitActs == StartHits \/ HitsStep \/ UNCHANGED hits

LEMMA HitsInitTypes ==
  ASSUME HitsInit
  PROVE  HitsTypeOK
BY EmptySeq DEF HitsInit, HitsTypeOK

LEMMA HitsReadTypes ==
  ASSUME HitsTypeOK, ReadHits
  PROVE  HitsTypeOK'
<1>1. hits \in HitsRow
  BY DEF HitsTypeOK, HitsRow
<1>2. hits.found \in Seq(Resumes) /\ hits.page \in Nat \ {0}
  BY <1>1 DEF HitsRow
<1>3. CASE hits' = [hits EXCEPT !.pc = "failed"]
  BY <1>1, <1>3 DEF HitsRow, HitsTypeOK
<1>4. ASSUME NEW answer \in Pages[hits.page],
             LET new == Selected(answer, {k \in DOMAIN answer :
                                            answer[k] \notin Range(hits.found)})
                 room == MaxResumes - Len(hits.found)
             IN hits' = [hits EXCEPT
                  !.found = @ \o SubSeq(new, 1, IF room < Len(new) THEN room ELSE Len(new)),
                  !.page = @ + 1]
      PROVE  HitsTypeOK'
  <2> DEFINE new == Selected(answer, {k \in DOMAIN answer :
                                        answer[k] \notin Range(hits.found)})
             room == MaxResumes - Len(hits.found)
             n == IF room < Len(new) THEN room ELSE Len(new)
             found == hits.found \o SubSeq(new, 1, n)
  <2>1. answer \in Seq(Resumes)
    <3>1. /\ Pages \in Seq(SUBSET Seq(Resumes)) /\ hits.page <= Len(Pages)
          /\ Len(Pages) \in Nat
      BY ResumeAssumption, LenProperties DEF ReadHits
    <3>2. hits.page \in 1 .. Len(Pages)
      BY <1>2, <3>1
    <3>3. Pages[hits.page] \in SUBSET Seq(Resumes)
      BY <3>1, <3>2, ElementOfSeq
    <3> QED  BY <3>3
  <2>2. new \in Seq(Resumes) /\ Len(new) \in Nat /\ Len(hits.found) \in Nat
    BY <1>2, <2>1, SelectedFacts, LenProperties
  <2> HIDE DEF new
  <2>3. n \in Nat /\ n <= Len(new)
    <3>1. MaxResumes \in Nat /\ Len(hits.found) < MaxResumes
      BY ResumeAssumption DEF ReadHits
    <3> QED  BY <2>2, <3>1
  <2> HIDE DEF n
  <2>4. SubSeq(new, 1, n) \in Seq(Resumes)
    BY <2>2, <2>3, FirstOnes
  <2>5. found \in Seq(Resumes)
    BY <1>2, <2>4, ConcatProperties
  <2>6. hits' = [hits EXCEPT !.found = found, !.page = hits.page + 1]
    BY <1>4 DEF new, n
  <2>7. hits.page + 1 \in Nat \ {0}
    BY <1>2
  <2> HIDE DEF found
  <2>8. hits' \in HitsRow
    BY <1>1, <2>5, <2>6, <2>7 DEF HitsRow
  <2> QED  BY <2>8 DEF HitsRow, HitsTypeOK
<1> QED  BY <1>3, <1>4 DEF ReadHits

LEMMA HitsTypesNext ==
  ASSUME HitsTypeOK, HitActs
  PROVE  HitsTypeOK'
<1>1. hits \in HitsRow
  BY DEF HitsTypeOK, HitsRow
<1>2. CASE UNCHANGED hits
  BY <1>2 DEF HitsTypeOK
<1>3. CASE StartHits \/ EndHits \/ WaitFetch
  <2>1. PICK pc \in {"pages", "fetch", "fetched", "failed"} : hits' = [hits EXCEPT !.pc = pc]
    BY <1>3 DEF StartHits, EndHits, WaitFetch
  <2>2. hits' \in HitsRow
    BY <1>1, <2>1 DEF HitsRow
  <2> QED  BY <2>2 DEF HitsTypeOK, HitsRow
<1>4. CASE StartFetch
  <2>1. hits.started + 1 \in Nat /\ hits.open \cup {hits.started + 1} \subseteq Nat
    BY <1>1 DEF HitsRow
  <2>2. hits' = [hits EXCEPT !.started = hits.started + 1,
                             !.open = hits.open \cup {hits.started + 1}]
    BY <1>1, <1>4 DEF StartFetch
  <2>3. hits' \in HitsRow
    BY <1>1, <2>1, <2>2 DEF HitsRow
  <2> QED  BY <2>3 DEF HitsTypeOK, HitsRow
<1>5. CASE EndFetch
  <2>1. PICK k \in hits.open, error \in BOOLEAN :
          hits' = [hits EXCEPT !.open = @ \ {k}, !.error = @ \/ error]
    BY <1>5 DEF EndFetch
  <2>2. (hits.error \/ error) \in BOOLEAN /\ hits.open \ {k} \subseteq Nat
    BY <1>1 DEF HitsRow
  <2>3. hits' \in HitsRow
    BY <1>1, <2>1, <2>2 DEF HitsRow
  <2> QED  BY <2>3 DEF HitsTypeOK, HitsRow
<1> QED  BY <1>2, <1>3, <1>4, <1>5, HitsReadTypes DEF HitActs, HitsStep

-----------------------------------------------------------------------------
(***************************************************************************)
(* Extractions: types, and what an extraction knows by itself.             *)
(***************************************************************************)
RunRow ==
  [pc: {"off", "first", "rest", "choose", "letters", "resumes", "originals",
        "markdown", "html", "pdf", "manifest", "done", "failed"},
   request: Request, dir: 0 .. LastSecond,
   rest: Seq(Seq(Seq(Applicants))), people: Seq(Applicants),
   letters: SUBSET Applicants, started: Nat, open: SUBSET Nat,
   fetched: SUBSET Applicants, rows: Seq(Row)]

Who(rows) == [k \in DOMAIN rows |-> rows[k].who]

\* Nothing is known but the candidates.
Begun(r) == /\ r.rows = <<>> /\ r.fetched = {} /\ r.open = {} /\ r.started = 0
            /\ r.pc # "letters" => r.letters = {}

\* The rows of those that are candidates no more.
Others(r) ==
  /\ IsInjective(Who(r.rows))
  /\ \A k \in DOMAIN r.rows :
       /\ r.rows[k].status = "skipped" /\ ~r.rows[k].original
       /\ r.rows[k].who \notin r.letters /\ r.rows[k].who \notin Range(r.people)

\* A row for every candidate, which says whether the resume was fetched.
Listed(r) ==
  /\ IsInjective(Who(r.rows))
  /\ Range(r.people) \subseteq {r.rows[k].who : k \in DOMAIN r.rows}
  /\ r.fetched \subseteq Range(r.people)
  /\ \A k \in DOMAIN r.rows :
       /\ r.rows[k].status \in {"ok", "partial"} <=> r.rows[k].who \in r.fetched
       /\ r.rows[k].status = "skipped" => r.request.dry \/ r.rows[k].who \notin r.letters
       /\ r.rows[k].original => r.rows[k].status = "ok"

\* Of the originals, those that are there are the ones whose task has ended.
Downloads(r) ==
  /\ r.request.originals
  /\ \A k \in r.open : r.rows[k].status = "ok" /\ k <= r.started
  /\ \A k \in DOMAIN r.rows :
       r.rows[k].status = "ok" => (r.rows[k].original <=> k <= r.started /\ k \notin r.open)

Finished(r) ==
  \A k \in DOMAIN r.rows :
    r.rows[k].status = "ok" => (r.rows[k].original <=> r.request.originals)

RunFine(r) ==
  /\ \A i \in DOMAIN r.rest : r.rest[i] # <<>>
  /\ IsInjective(r.people)
  /\ r.pc = "off" => r = NoRun
  /\ r.pc \in {"off", "first", "rest"} => Begun(r)
  /\ r.pc = "letters" => r.rows = <<>> /\ r.fetched = {} /\ r.open \subseteq DOMAIN r.people
  /\ r.pc = "resumes" =>
       Others(r) /\ r.fetched \subseteq Range(r.people) /\ r.open \subseteq DOMAIN r.people
  /\ r.pc = "originals" => Listed(r) /\ r.open \subseteq DOMAIN r.rows /\ Downloads(r)
  /\ r.pc \in {"markdown", "html", "pdf", "manifest", "done"} =>
       Listed(r) /\ Finished(r)
  /\ r.pc \in {"letters", "resumes", "originals", "markdown", "html", "pdf"} =>
       ~r.request.dry

ExtPart == ExtractionTypeOK /\ \A c \in Extractions : RunFine(run[c])

ExtActs ==
  \/ \E c \in Extractions :
       RunStep(c) \/ \E request \in Requests[c] : StartRun(c, request)
  \/ TickSecond
  \/ UNCHANGED extractionVars

LEMMA ExtTypes ==
  ASSUME ExtractionTypeOK
  PROVE  /\ run \in [Extractions -> RunRow] /\ dirs \in [0 .. LastSecond -> Dir]
         /\ now \in 0 .. LastSecond
BY DEF ExtractionTypeOK, RunRow

RunMoves(c) ==
  /\ run' \in [Extractions -> RunRow] /\ RunFine(run'[c])
  /\ \A d \in Extractions \ {c} : run'[d] = run[d]

LEMMA RunMovesAreFine ==
  ASSUME ExtPart, NEW c \in Extractions, RunMoves(c),
         dirs' \in [0 .. LastSecond -> Dir], now' \in 0 .. LastSecond
  PROVE  ExtPart'
<1>1. ExtractionTypeOK'
  BY DEF ExtractionTypeOK, RunMoves, RunRow
<1>2. \A d \in Extractions : RunFine(run'[d])
  BY DEF RunMoves, ExtPart
<1> QED  BY <1>1, <1>2 DEF ExtPart, RunFine, Begun, Others, Listed, Downloads, Finished, Who

LEMMA ExtPartInit ==
  ASSUME ExtractionInit
  PROVE  ExtPart
<1>1. /\ <<>> \in Seq(Seq(Seq(Applicants))) /\ <<>> \in Seq(Applicants) /\ <<>> \in Seq(Row)
      /\ LastSecond \in Nat
  BY EmptySeq, ExtractionAssumption
<1>2. NoRun \in RunRow
  BY <1>1 DEF NoRun, RunRow, Request
<1>3. NoDir \in Dir
  BY EmptySeq DEF NoDir, Dir, NoFile
<1>4. ExtractionTypeOK
  BY <1>1, <1>2, <1>3 DEF ExtractionInit, ExtractionTypeOK, RunRow
<1>5. /\ NoRun.pc = "off" /\ NoRun.rest = <<>> /\ NoRun.people = <<>> /\ NoRun.rows = <<>>
      /\ NoRun.fetched = {} /\ NoRun.open = {} /\ NoRun.started = 0 /\ NoRun.letters = {}
  BY DEF NoRun
<1>6. RunFine(NoRun)
  BY <1>5, NothingIsOnce DEF RunFine, Begun
<1>7. \A c \in Extractions : RunFine(run[c])
  BY <1>6 DEF ExtractionInit
<1> QED  BY <1>4, <1>7 DEF ExtPart

\* Those of a list in a set: each once, and just those.
LEMMA ThoseOnce ==
  ASSUME NEW people \in Seq(Applicants), IsInjective(people), NEW S
  PROVE  /\ Those(people, S) \in Seq(Applicants) /\ IsInjective(Those(people, S))
         /\ Range(Those(people, S)) = Range(people) \cap S
<1> DEFINE at == {k \in DOMAIN people : people[k] \in S}
<1>1. /\ Selected(people, at) \in Seq(Applicants)
      /\ Range(Selected(people, at)) = {people[k] : k \in at \cap DOMAIN people}
  BY SelectedFacts
<1>2. IsInjective(Selected(people, at))
  BY SelectedOnce DEF IsInjective
<1>3. {people[k] : k \in at \cap DOMAIN people} = Range(people) \cap S
  BY DEF Range
<1> QED  BY <1>1, <1>2, <1>3 DEF Those

\* A page adds candidates that are not there, and each of them once.
LEMMA CandidatesOnce ==
  ASSUME NEW people \in Seq(Applicants), IsInjective(people), NEW page \in Seq(Applicants)
  PROVE  /\ AppendCandidates(people, page) \in Seq(Applicants)
         /\ IsInjective(AppendCandidates(people, page))
<1> DEFINE at == FirstSeen(people, page)
           new == Selected(page, at)
<1>1. DOMAIN page = 1 .. Len(page) /\ Len(page) \in Nat
  BY LenProperties
<1>2. new \in Seq(Applicants) /\ Range(new) = {page[k] : k \in at \cap DOMAIN page}
  BY SelectedFacts
<1>3. \A j, k \in at \cap DOMAIN page : page[j] = page[k] => j = k
  <2> SUFFICES ASSUME NEW j \in at \cap DOMAIN page, NEW k \in at \cap DOMAIN page,
                      page[j] = page[k], j < k
               PROVE  FALSE
    BY <1>1
  <2> QED  BY DEF FirstSeen
<1>4. IsInjective(new)
  BY <1>3, SelectedOnce
<1>5. Range(people) \cap Range(new) = {}
  BY <1>2 DEF FirstSeen
<1> HIDE DEF new
<1>6. people \o new \in Seq(Applicants) /\ IsInjective(people \o new)
  BY <1>2, <1>4, <1>5, ConcatProperties, JoinedOnce
<1> QED  BY <1>6 DEF AppendCandidates, new

LEMMA RowsOf ==
  ASSUME NEW people \in Seq(Applicants), NEW status \in {"ok", "partial", "error", "skipped"}
  PROVE  /\ Rows(people, status) \in Seq(Row)
         /\ DOMAIN Rows(people, status) = DOMAIN people
         /\ \A k \in DOMAIN people : Rows(people, status)[k] = RowOf(people[k], status)
         /\ \A a : /\ RowOf(a, status).who = a /\ RowOf(a, status).status = status
                   /\ RowOf(a, status).original = FALSE
<1>1. /\ Len(people) \in Nat /\ DOMAIN people = 1 .. Len(people)
      /\ \A k \in 1 .. Len(people) : people[k] \in Applicants
  BY LenProperties, ElementOfSeq
<1>2. \A k \in 1 .. Len(people) : RowOf(people[k], status) \in Row
  BY <1>1 DEF RowOf, Row
<1>3. Rows(people, status) \in [1 .. Len(people) -> Row]
  BY <1>1, <1>2 DEF Rows
<1>4. Rows(people, status) \in Seq(Row)
  BY <1>1, <1>3
<1> QED  BY <1>1, <1>4 DEF Rows, RowOf

LEMMA ExtPartStart ==
  ASSUME ExtPart, NEW c \in Extractions, NEW request \in Requests[c], StartRun(c, request)
  PROVE  ExtPart'
<1>1. run \in [Extractions -> RunRow] /\ dirs \in [0 .. LastSecond -> Dir] /\ now \in 0 .. LastSecond
  BY ExtTypes DEF ExtPart
<1>2. request \in Request
  BY ExtractionAssumption
<1>3. run[c] = NoRun
  BY DEF ExtPart, RunFine, StartRun
<1>4. NoRun \in RunRow
  BY <1>1, <1>3
<1> DEFINE s == [NoRun EXCEPT !.pc = "first", !.request = request, !.dir = now]
<1>5. run' = [run EXCEPT ![c] = s]
  BY <1>1, <1>3 DEF StartRun
<1>6. s \in RunRow
  BY <1>1, <1>2, <1>4 DEF RunRow
<1>7. /\ s.pc = "first" /\ s.rest = <<>> /\ s.people = <<>> /\ s.rows = <<>>
      /\ s.fetched = {} /\ s.open = {} /\ s.started = 0 /\ s.letters = {}
  BY DEF NoRun
<1> HIDE DEF s
<1>8. RunFine(s)
  BY <1>7, NothingIsOnce DEF RunFine, Begun
<1>9. RunMoves(c)
  BY <1>1, <1>5, <1>6, <1>8 DEF RunMoves
<1> QED  BY <1>1, <1>9, RunMovesAreFine DEF StartRun

\* A step that changes one run, and no directory.
LEMMA RunAlone ==
  ASSUME ExtPart, NEW c \in Extractions, NEW s \in RunRow, RunFine(s),
         run' = [run EXCEPT ![c] = s], UNCHANGED <<dirs, now>>
  PROVE  ExtPart'
<1>1. run \in [Extractions -> RunRow] /\ dirs \in [0 .. LastSecond -> Dir] /\ now \in 0 .. LastSecond
  BY ExtTypes DEF ExtPart
<1>2. RunMoves(c)
  BY <1>1 DEF RunMoves
<1> QED  BY <1>1, <1>2, RunMovesAreFine

LEMMA ExtPartReads ==
  ASSUME ExtPart, NEW c \in Extractions, ReadFirst(c) \/ ReadRest(c) \/ RestFails(c) \/ RunFails(c)
  PROVE  ExtPart'
<1>1. run \in [Extractions -> RunRow]
  BY ExtTypes DEF ExtPart
<1>2. PICK r \in RunRow : r = run[c]
  BY <1>1
<1>3. RunFine(r)
  BY <1>2 DEF ExtPart
<1>4. /\ r.people \in Seq(Applicants) /\ r.rest \in Seq(Seq(Seq(Applicants)))
      /\ IsInjective(r.people) /\ \A i \in DOMAIN r.rest : r.rest[i] # <<>>
  BY <1>3 DEF RunRow, RunFine
<1>5. ASSUME NEW people \in Seq(Applicants), NEW rest \in Seq(Seq(Seq(Applicants))),
             IsInjective(people), \A i \in DOMAIN rest : rest[i] # <<>>,
             r.pc \in {"first", "rest"}, UNCHANGED <<dirs, now>>,
             run' = [run EXCEPT ![c].pc = "rest", ![c].people = people, ![c].rest = rest]
      PROVE  ExtPart'
  <2> DEFINE s == [r EXCEPT !.pc = "rest", !.people = people, !.rest = rest]
  <2>1. run' = [run EXCEPT ![c] = s]
    BY <1>1, <1>2, <1>5
  <2>2. s \in RunRow
    BY <1>5 DEF RunRow
  <2>3. /\ s.pc = "rest" /\ s.rest = rest /\ s.people = people /\ s.rows = r.rows
        /\ s.fetched = r.fetched /\ s.open = r.open /\ s.started = r.started
        /\ s.letters = r.letters
    BY DEF RunRow
  <2>4. Begun(r) /\ r.pc # "letters"
    BY <1>3, <1>5 DEF RunFine
  <2> HIDE DEF s
  <2>5. RunFine(s)
    BY <1>5, <2>3, <2>4 DEF RunFine, Begun
  <2> QED  BY <1>5, <2>1, <2>2, <2>5, RunAlone
<1>6. CASE RunFails(c)
  <2> DEFINE s == [r EXCEPT !.pc = "failed"]
  <2>1. run' = [run EXCEPT ![c] = s] /\ UNCHANGED <<dirs, now>>
    BY <1>1, <1>2, <1>6 DEF RunFails, Moves
  <2>2. s \in RunRow /\ s.pc = "failed" /\ s.rest = r.rest /\ s.people = r.people
    BY DEF RunRow
  <2> HIDE DEF s
  <2>3. RunFine(s)
    BY <1>4, <2>2 DEF RunFine
  <2> QED  BY <2>1, <2>2, <2>3, RunAlone
<1>7. CASE ReadFirst(c)
  <2>1. PICK l \in Listings :
          run' = [run EXCEPT ![c].pc = "rest", ![c].people = AppendCandidates(<<>>, l.first),
                             ![c].rest = l.rest]
    BY <1>7 DEF ReadFirst
  <2>2. l.first \in Seq(Applicants) /\ l.rest \in Seq(Seq(Seq(Applicants)) \ {<<>>})
    BY ExtractionAssumption DEF Listing
  <2>3. /\ l.rest \in Seq(Seq(Seq(Applicants)))
        /\ \A i \in DOMAIN l.rest : l.rest[i] # <<>>
    <3>1. \A i \in 1 .. Len(l.rest) : l.rest[i] \in Seq(Seq(Applicants)) \ {<<>>}
      BY <2>2, ElementOfSeq
    <3>2. DOMAIN l.rest = 1 .. Len(l.rest)
      BY <2>2, LenProperties
    <3>3. l.rest \in Seq(Seq(Seq(Applicants)))
      BY <2>2, SeqMonotonic
    <3> QED  BY <3>1, <3>2, <3>3
  <2>4. <<>> \in Seq(Applicants) /\ IsInjective(<<>>)
    BY EmptySeq, NothingIsOnce
  <2>5. AppendCandidates(<<>>, l.first) \in Seq(Applicants)
        /\ IsInjective(AppendCandidates(<<>>, l.first))
    BY <2>2, <2>4, CandidatesOnce
  <2> QED  BY <1>2, <1>5, <1>7, <2>1, <2>3, <2>5 DEF ReadFirst
<1>8. ASSUME ReadRest(c) \/ RestFails(c)
      PROVE  /\ r.pc = "rest" /\ r.rest # <<>> /\ UNCHANGED <<dirs, now>>
             /\ Head(r.rest) \in Seq(Seq(Applicants)) /\ Head(r.rest) # <<>>
             /\ Tail(r.rest) \in Seq(Seq(Seq(Applicants)))
             /\ \A i \in DOMAIN Tail(r.rest) : Tail(r.rest)[i] # <<>>
  <2>1. r.pc = "rest" /\ r.rest # <<>> /\ UNCHANGED <<dirs, now>>
    BY <1>2, <1>8 DEF ReadRest, RestFails
  <2>2. /\ Head(r.rest) \in Seq(Seq(Applicants)) /\ Tail(r.rest) \in Seq(Seq(Seq(Applicants)))
        /\ Len(Tail(r.rest)) = Len(r.rest) - 1
        /\ \A i \in 1 .. Len(Tail(r.rest)) : Tail(r.rest)[i] = r.rest[i + 1]
    BY <1>4, <2>1, HeadTailProperties
  <2>3. /\ Len(r.rest) \in Nat \ {0} /\ DOMAIN r.rest = 1 .. Len(r.rest)
        /\ DOMAIN Tail(r.rest) = 1 .. Len(Tail(r.rest))
    BY <1>4, <2>1, <2>2, EmptySeq, LenProperties
  <2>4. Head(r.rest) = r.rest[1]
    BY <1>4, <2>1
  <2>5. \A i \in DOMAIN Tail(r.rest) : i + 1 \in DOMAIN r.rest
    BY <2>2, <2>3
  <2>6. Head(r.rest) # <<>>
    <3>1. 1 \in DOMAIN r.rest
      BY <2>3
    <3> QED  BY <1>4, <2>4, <3>1
  <2>7. ASSUME NEW i \in DOMAIN Tail(r.rest)
        PROVE  Tail(r.rest)[i] # <<>>
    <3>1. i + 1 \in DOMAIN r.rest /\ Tail(r.rest)[i] = r.rest[i + 1]
      BY <2>2, <2>3, <2>5
    <3> QED  BY <1>4, <3>1
  <2> QED  BY <2>1, <2>2, <2>6, <2>7
<1>9. CASE RestFails(c)
  <2>1. run' = [run EXCEPT ![c].pc = "rest", ![c].people = r.people, ![c].rest = Tail(r.rest)]
    BY <1>1, <1>2, <1>8, <1>9 DEF RestFails, RunRow
  <2> QED  BY <1>4, <1>5, <1>8, <1>9, <2>1
<1>10. CASE ReadRest(c)
  <2> DEFINE pages == Head(r.rest)
             answer == Head(pages)
             more == IF answer = <<>> THEN <<>> ELSE Tail(pages)
             rest == IF more = <<>> THEN Tail(r.rest) ELSE <<more>> \o Tail(r.rest)
             people == AppendCandidates(r.people, answer)
  <2>1. answer \in Seq(Applicants) /\ Tail(pages) \in Seq(Seq(Applicants))
    BY <1>8, <1>10, HeadTailProperties
  <2>2. more \in Seq(Seq(Applicants))
    BY <2>1, EmptySeq
  <2>3. people \in Seq(Applicants) /\ IsInjective(people)
    BY <1>4, <2>1, CandidatesOnce
  <2>4. run' = [run EXCEPT ![c].pc = "rest", ![c].people = people, ![c].rest = rest]
    BY <1>1, <1>2, <1>8, <1>10 DEF ReadRest, RunRow
  <2> HIDE DEF more, people
  <2>5. rest \in Seq(Seq(Seq(Applicants))) /\ \A i \in DOMAIN rest : rest[i] # <<>>
    <3>1. CASE more = <<>>
      BY <1>8, <1>10, <3>1
    <3>2. CASE more # <<>>
      <4> DEFINE tail == Tail(r.rest)
                 one == <<more>>
                 both == one \o tail
      <4>1. /\ tail \in Seq(Seq(Seq(Applicants))) /\ DOMAIN tail = 1 .. Len(tail)
            /\ Len(tail) \in Nat /\ \A i \in DOMAIN tail : tail[i] # <<>>
        BY <1>8, <1>10, LenProperties
      <4>2. one \in Seq(Seq(Seq(Applicants))) /\ Len(one) = 1 /\ one[1] = more
        BY <2>2
      <4> HIDE DEF one, tail
      <4>3. /\ both \in Seq(Seq(Seq(Applicants))) /\ Len(both) = Len(one) + Len(tail)
            /\ \A i \in 1 .. Len(one) + Len(tail) :
                 both[i] = IF i <= Len(one) THEN one[i] ELSE tail[i - Len(one)]
        BY <4>1, <4>2, ConcatProperties
      <4> HIDE DEF both
      <4>4. DOMAIN both = 1 .. 1 + Len(tail)
        BY <4>2, <4>3, LenProperties
      <4>5. ASSUME NEW i \in 1 .. 1 + Len(tail)
            PROVE  both[i] # <<>>
        <5>1. CASE i = 1
          BY <3>2, <4>1, <4>2, <4>3, <5>1
        <5>2. CASE i # 1
          <6>1. i - 1 \in 1 .. Len(tail) /\ ~ (i <= 1)
            BY <4>1, <5>2
          <6>2. both[i] = tail[i - 1]
            BY <4>2, <4>3, <6>1
          <6> QED  BY <4>1, <6>1, <6>2
        <5> QED  BY <5>1, <5>2
      <4> QED  BY <3>2, <4>3, <4>4, <4>5 DEF both, one, tail
    <3> QED  BY <3>1, <3>2
  <2> HIDE DEF rest
  <2> QED  BY <1>5, <1>8, <1>10, <2>3, <2>4, <2>5
<1> QED  BY <1>6, <1>7, <1>9, <1>10

\* The rows of a list, each of one resume.
LEMMA RowsOnce ==
  ASSUME NEW people \in Seq(Applicants), IsInjective(people),
         NEW status \in {"ok", "partial", "error", "skipped"}
  PROVE  /\ IsInjective(Who(Rows(people, status)))
         /\ {Rows(people, status)[k].who : k \in DOMAIN Rows(people, status)} = Range(people)
<1>1. /\ DOMAIN Rows(people, status) = DOMAIN people
      /\ \A k \in DOMAIN people : Rows(people, status)[k].who = people[k]
  <2>1. /\ DOMAIN Rows(people, status) = DOMAIN people
        /\ \A k \in DOMAIN people : Rows(people, status)[k] = RowOf(people[k], status)
    BY RowsOf
  <2>2. \A a : RowOf(a, status).who = a
    BY DEF RowOf
  <2> QED  BY <2>1, <2>2
<1> QED  BY <1>1 DEF Who, IsInjective, Range

LEMMA ExtPartChoose ==
  ASSUME ExtPart, NEW c \in Extractions, Choose(c)
  PROVE  ExtPart'
<1>1. run \in [Extractions -> RunRow]
  BY ExtTypes DEF ExtPart
<1>2. PICK r \in RunRow : r = run[c]
  BY <1>1
<1>3. RunFine(r) /\ r.pc = "rest"
  BY <1>2 DEF ExtPart, Choose
<1>4. /\ r.people \in Seq(Applicants) /\ IsInjective(r.people)
      /\ \A i \in DOMAIN r.rest : r.rest[i] # <<>>
      /\ r.fetched = {} /\ r.open = {}
  BY <1>3 DEF RunRow, RunFine, Begun
<1> DEFINE people == IF r.request.dates THEN Those(r.people, InDates) ELSE r.people
           rows == IF r.request.dry THEN Rows(people, "skipped") ELSE <<>>
           pc == IF people = <<>> \/ r.request.dry THEN "manifest" ELSE "letters"
           s == [r EXCEPT !.people = people, !.rows = rows, !.pc = pc]
<1>5. people \in Seq(Applicants) /\ IsInjective(people)
  BY <1>4, ThoseOnce
<1>6. run' = [run EXCEPT ![c] = s] /\ UNCHANGED <<dirs, now>>
  BY <1>1, <1>2 DEF Choose
<1> HIDE DEF people
<1>7. rows \in Seq(Row)
  BY <1>5, RowsOf, EmptySeq
<1>8. /\ \A k \in DOMAIN rows : /\ rows[k].status = "skipped" /\ ~rows[k].original
                                /\ r.request.dry
      /\ IsInjective(Who(rows))
      /\ r.request.dry => {rows[k].who : k \in DOMAIN rows} = Range(people)
  <2>1. CASE r.request.dry
    <3>1. rows = Rows(people, "skipped")
      BY <2>1
    <3>2. IsInjective(Who(rows)) /\ {rows[k].who : k \in DOMAIN rows} = Range(people)
      BY <1>5, <3>1, RowsOnce
    <3>3. \A k \in DOMAIN rows : rows[k].status = "skipped" /\ ~rows[k].original
      <4>1. /\ DOMAIN Rows(people, "skipped") = DOMAIN people
            /\ \A k \in DOMAIN people :
                 Rows(people, "skipped")[k] = RowOf(people[k], "skipped")
        BY <1>5, RowsOf
      <4>2. \A a : RowOf(a, "skipped").status = "skipped" /\ ~RowOf(a, "skipped").original
        BY DEF RowOf
      <4> QED  BY <3>1, <4>1, <4>2
    <3> HIDE DEF rows
    <3> QED  BY <2>1, <3>2, <3>3
  <2>2. CASE ~r.request.dry
    <3>1. rows = <<>> /\ DOMAIN rows = {}
      BY <2>2
    <3> HIDE DEF rows
    <3> QED  BY <2>2, <3>1 DEF Who, IsInjective
  <2> QED  BY <2>1, <2>2
<1> HIDE DEF rows
<1>9. s \in RunRow
  BY <1>5, <1>7 DEF RunRow
<1>10. /\ s.people = people /\ s.rows = rows /\ s.pc = pc /\ s.rest = r.rest
       /\ s.fetched = {} /\ s.open = {} /\ s.request = r.request
  BY <1>4 DEF RunRow
<1>11. ~r.request.dry => rows = <<>>
  BY DEF rows
<1>12. people = <<>> => Range(people) = {}
  BY DEF Range
<1>13. pc \in {"manifest", "letters"} /\ (pc = "letters" => ~r.request.dry)
       /\ (pc = "manifest" => people = <<>> \/ r.request.dry)
  BY DEF pc
<1> HIDE DEF s, pc
<1>14. pc = "manifest" => Listed(s) /\ Finished(s)
  <2> SUFFICES ASSUME pc = "manifest"
               PROVE  Listed(s) /\ Finished(s)
    OBVIOUS
  <2>1. Range(people) \subseteq {rows[k].who : k \in DOMAIN rows}
    BY <1>8, <1>12, <1>13
  <2>2. Listed(s)
    BY <1>8, <1>10, <2>1 DEF Listed
  <2> QED  BY <1>8, <1>10, <2>2 DEF Finished
<1>15. RunFine(s)
  BY <1>4, <1>5, <1>10, <1>11, <1>13, <1>14 DEF RunFine
<1> QED  BY <1>6, <1>9, <1>15, RunAlone

\* What a run in a group of tasks may do to its tasks.
LEMMA ExtPartTask ==
  ASSUME ExtPart, NEW c \in Extractions, StartTask(c)
  PROVE  ExtPart'
<1>1. run \in [Extractions -> RunRow]
  BY ExtTypes DEF ExtPart
<1>2. PICK r \in RunRow : r = run[c]
  BY <1>1
<1>3. RunFine(r) /\ r.pc \in {"letters", "resumes", "originals"}
  BY <1>2 DEF ExtPart, StartTask
<1> DEFINE next == {k \in Tasks(c) : k > r.started}
<1>4. /\ r.people \in Seq(Applicants) /\ r.rows \in Seq(Row) /\ r.started \in Nat
      /\ r.open \subseteq Nat
  BY DEF RunRow
<1>5. Tasks(c) \subseteq Nat /\ next # {}
  <2>1. DOMAIN r.people \subseteq Nat /\ DOMAIN r.rows \subseteq Nat
    BY <1>4, LenProperties
  <2> QED  BY <1>2, <2>1 DEF Tasks, StartTask
<1>6. PICK k \in next : Min(next) = k /\ \A j \in next : k <= j
  <2> HIDE DEF next
  <2>1. next \subseteq Nat
    BY <1>5 DEF next
  <2> QED  BY <1>5, <2>1, LeastIsMin
<1> DEFINE s == [r EXCEPT !.started = k, !.open = r.open \cup {k}]
<1>7. run' = [run EXCEPT ![c] = s] /\ UNCHANGED <<dirs, now>>
  BY <1>1, <1>2, <1>6 DEF StartTask
<1>8. k \in Nat /\ k > r.started /\ k \in Tasks(c)
  BY <1>5
<1>9. s \in RunRow
  BY <1>4, <1>8 DEF RunRow
<1>10. /\ s.people = r.people /\ s.rows = r.rows /\ s.pc = r.pc /\ s.rest = r.rest
       /\ s.fetched = r.fetched /\ s.request = r.request /\ s.letters = r.letters
       /\ s.open = r.open \cup {k} /\ s.started = k
  BY DEF RunRow
<1> HIDE DEF s
<1>11. CASE r.pc \in {"letters", "resumes"}
  <2>1. k \in DOMAIN r.people
    BY <1>2, <1>8, <1>11 DEF Tasks
  <2> QED  BY ZenonT(30), <1>3, <1>7, <1>9, <1>10, <1>11, <2>1, RunAlone DEF RunFine, Others
<1>12. CASE r.pc = "originals"
  <2>1. k \in DOMAIN r.rows /\ r.rows[k].status = "ok"
    BY <1>2, <1>8, <1>12 DEF Tasks
  <2>2. /\ Listed(r) /\ r.open \subseteq DOMAIN r.rows /\ Downloads(r) /\ ~r.request.dry
        /\ \A i \in DOMAIN r.rest : r.rest[i] # <<>>
        /\ IsInjective(r.people)
    BY <1>3, <1>12 DEF RunFine
  <2>3. Listed(s)
    BY <1>10, <2>2 DEF Listed
  <2>4. ASSUME NEW j \in DOMAIN r.rows, r.rows[j].status = "ok"
        PROVE  r.rows[j].original <=> j <= k /\ j \notin r.open \cup {k}
    <3>1. r.rows[j].original <=> j <= r.started /\ j \notin r.open
      BY <2>2, <2>4 DEF Downloads
    <3>2. j \in Nat
      BY <1>4, LenProperties
    <3>3. j > r.started => j \in next
      BY <1>2, <1>12, <2>4 DEF Tasks
    <3>4. j > r.started => k <= j
      BY <1>6, <3>3
    <3> QED  BY <1>4, <1>8, <3>1, <3>2, <3>4
  <2>5. Downloads(s)
    <3>1. \A j \in r.open : j <= r.started /\ r.rows[j].status = "ok"
      BY <2>2 DEF Downloads
    <3>2. \A j \in r.open \cup {k} : j <= k /\ r.rows[j].status = "ok"
      BY <1>4, <1>8, <2>1, <3>1
    <3>3. r.request.originals
      BY <2>2 DEF Downloads
    <3> QED  BY <1>10, <2>4, <3>2, <3>3 DEF Downloads
  <2>6. RunFine(s)
    BY <1>10, <1>12, <2>1, <2>2, <2>3, <2>5 DEF RunFine
  <2> QED  BY <1>7, <1>9, <2>6, RunAlone
<1> QED  BY <1>3, <1>11, <1>12

LEMMA ExtPartLetters ==
  ASSUME ExtPart, NEW c \in Extractions, LetterArrives(c) \/ ResumeArrives(c)
  PROVE  ExtPart'
<1>1. run \in [Extractions -> RunRow]
  BY ExtTypes DEF ExtPart
<1>2. PICK r \in RunRow : r = run[c]
  BY <1>1
<1>3. RunFine(r)
  BY <1>2 DEF ExtPart
<1>4. /\ r.people \in Seq(Applicants) /\ r.open \subseteq Nat
      /\ r.letters \subseteq Applicants /\ r.fetched \subseteq Applicants
      /\ \A k \in DOMAIN r.people : r.people[k] \in Applicants
  BY LenProperties, ElementOfSeq DEF RunRow
<1>5. CASE LetterArrives(c)
  <2>1. PICK k \in r.open : \E letters \in {r.letters, r.letters \cup {r.people[k]}} :
          run' = [run EXCEPT ![c].open = r.open \ {k}, ![c].letters = letters]
    BY <1>1, <1>2, <1>5 DEF LetterArrives
  <2>2. /\ r.rows = <<>> /\ r.fetched = {} /\ r.open \subseteq DOMAIN r.people /\ ~r.request.dry
        /\ r.pc = "letters" /\ IsInjective(r.people) /\ \A i \in DOMAIN r.rest : r.rest[i] # <<>>
    BY <1>2, <1>3, <1>5 DEF RunFine, LetterArrives
  <2>3. PICK letters \in {r.letters, r.letters \cup {r.people[k]}} :
          run' = [run EXCEPT ![c].open = r.open \ {k}, ![c].letters = letters]
    BY <2>1
  <2> DEFINE s == [r EXCEPT !.open = r.open \ {k}, !.letters = letters]
  <2>4. run' = [run EXCEPT ![c] = s] /\ UNCHANGED <<dirs, now>>
    BY <1>1, <1>2, <1>5, <2>3 DEF LetterArrives
  <2>5. s \in RunRow
    <3>1. letters \subseteq Applicants
      BY <1>4, <2>2, <2>3
    <3> QED  BY <1>4, <3>1 DEF RunRow
  <2>6. /\ s.people = r.people /\ s.rows = r.rows /\ s.pc = r.pc /\ s.rest = r.rest
        /\ s.fetched = r.fetched /\ s.request = r.request /\ s.open = r.open \ {k}
    BY DEF RunRow
  <2> HIDE DEF s
  <2>7. RunFine(s)
    BY <2>2, <2>6 DEF RunFine
  <2> QED  BY <2>4, <2>5, <2>7, RunAlone
<1>6. CASE ResumeArrives(c)
  <2>1. PICK k \in r.open : \E fetched \in {r.fetched, r.fetched \cup {r.people[k]}} :
          run' = [run EXCEPT ![c].open = r.open \ {k}, ![c].fetched = fetched]
    BY <1>1, <1>2, <1>6 DEF ResumeArrives
  <2>2. /\ Others(r) /\ r.fetched \subseteq Range(r.people)
        /\ r.open \subseteq DOMAIN r.people /\ ~r.request.dry
        /\ r.pc = "resumes" /\ IsInjective(r.people) /\ \A i \in DOMAIN r.rest : r.rest[i] # <<>>
    BY <1>2, <1>3, <1>6 DEF RunFine, ResumeArrives
  <2>3. PICK fetched \in {r.fetched, r.fetched \cup {r.people[k]}} :
          run' = [run EXCEPT ![c].open = r.open \ {k}, ![c].fetched = fetched]
    BY <2>1
  <2> DEFINE s == [r EXCEPT !.open = r.open \ {k}, !.fetched = fetched]
  <2>4. run' = [run EXCEPT ![c] = s] /\ UNCHANGED <<dirs, now>>
    BY <1>1, <1>2, <1>6, <2>3 DEF ResumeArrives
  <2>5. s \in RunRow /\ fetched \subseteq Range(r.people)
    <3>1. fetched \subseteq Applicants /\ fetched \subseteq Range(r.people)
      BY <1>4, <2>2, <2>3 DEF Range
    <3> QED  BY <1>4, <3>1 DEF RunRow
  <2>6. /\ s.people = r.people /\ s.rows = r.rows /\ s.pc = r.pc /\ s.rest = r.rest
        /\ s.fetched = fetched /\ s.request = r.request /\ s.open = r.open \ {k}
        /\ s.letters = r.letters
    BY DEF RunRow
  <2> HIDE DEF s
  <2>7. Others(s)
    BY <2>2, <2>6 DEF Others
  <2>8. RunFine(s)
    BY <2>2, <2>5, <2>6, <2>7 DEF RunFine
  <2> QED  BY <2>4, <2>5, <2>8, RunAlone
<1> QED  BY <1>5, <1>6

LEMMA ExtPartLettersDone ==
  ASSUME ExtPart, NEW c \in Extractions, LettersDone(c)
  PROVE  ExtPart'
<1>1. run \in [Extractions -> RunRow]
  BY ExtTypes DEF ExtPart
<1>2. PICK r \in RunRow : r = run[c]
  BY <1>1
<1>3. /\ r.rows = <<>> /\ r.fetched = {} /\ r.open = {} /\ ~r.request.dry
      /\ IsInjective(r.people) /\ \A i \in DOMAIN r.rest : r.rest[i] # <<>>
  BY <1>2 DEF ExtPart, RunFine, LettersDone, Waited
<1>4. r.people \in Seq(Applicants)
  BY DEF RunRow
<1> DEFINE only == r.request.lettersOnly
           kept == IF only THEN Those(r.people, r.letters) ELSE r.people
           others == IF only THEN Those(r.people, Applicants \ r.letters) ELSE <<>>
           rows == Rows(others, "skipped")
           pc == IF kept = <<>> THEN "manifest" ELSE "resumes"
           s == [r EXCEPT !.people = kept, !.rows = rows, !.started = 0, !.pc = pc]
<1>5. run' = [run EXCEPT ![c] = s] /\ UNCHANGED <<dirs, now>>
  BY <1>1, <1>2 DEF LettersDone
<1>6. /\ kept \in Seq(Applicants) /\ IsInjective(kept)
      /\ others \in Seq(Applicants) /\ IsInjective(others)
      /\ \A a \in Range(others) : a \notin r.letters /\ a \notin Range(kept)
  <2>1. CASE only
    BY <1>3, <1>4, <2>1, ThoseOnce
  <2>2. CASE ~only
    <3>1. others = <<>> /\ kept = r.people /\ Range(<<>>) = {}
      BY <2>2 DEF Range
    <3> QED  BY <1>3, <1>4, <3>1, NothingIsOnce, EmptySeq
  <2> QED  BY <2>1, <2>2
<1> HIDE DEF kept, others
<1>7. /\ rows \in Seq(Row) /\ IsInjective(Who(rows))
      /\ {rows[k].who : k \in DOMAIN rows} = Range(others)
  BY <1>6, RowsOf, RowsOnce
<1>8. \A k \in DOMAIN rows : rows[k].status = "skipped" /\ ~rows[k].original
  <2>1. /\ DOMAIN rows = DOMAIN others
        /\ \A k \in DOMAIN others : rows[k] = RowOf(others[k], "skipped")
    BY <1>6, RowsOf
  <2>2. \A a : RowOf(a, "skipped").status = "skipped" /\ ~RowOf(a, "skipped").original
    BY DEF RowOf
  <2> QED  BY <2>1, <2>2
<1> HIDE DEF rows
<1>9. \A k \in DOMAIN rows : rows[k].who \notin r.letters /\ rows[k].who \notin Range(kept)
  BY <1>6, <1>7
<1>10. s \in RunRow
  BY <1>6, <1>7 DEF RunRow
<1>11. /\ s.people = kept /\ s.rows = rows /\ s.pc = pc /\ s.rest = r.rest
       /\ s.fetched = {} /\ s.open = {} /\ s.request = r.request /\ s.letters = r.letters
  BY <1>3 DEF RunRow
<1>12. pc = "manifest" => Range(kept) = {}
  BY DEF Range
<1>13. pc \in {"manifest", "resumes"}
  OBVIOUS
<1> HIDE DEF s, pc
<1>14. Others(s)
  BY <1>7, <1>8, <1>9, <1>11 DEF Others
<1>15. pc = "manifest" => Listed(s) /\ Finished(s)
  BY <1>7, <1>8, <1>9, <1>11, <1>12 DEF Listed, Finished
<1>16. RunFine(s)
  BY <1>3, <1>6, <1>11, <1>13, <1>14, <1>15 DEF RunFine
<1> QED  BY <1>5, <1>10, <1>16, RunAlone

LEMMA ExtPartResumesDone ==
  ASSUME ExtPart, NEW c \in Extractions, ResumesDone(c)
  PROVE  ExtPart'
<1>1. run \in [Extractions -> RunRow]
  BY ExtTypes DEF ExtPart
<1>2. PICK r \in RunRow : r = run[c]
  BY <1>1
<1>3. /\ Others(r) /\ r.fetched \subseteq Range(r.people) /\ r.open = {} /\ ~r.request.dry
      /\ IsInjective(r.people) /\ \A i \in DOMAIN r.rest : r.rest[i] # <<>>
  BY <1>2 DEF ExtPart, RunFine, ResumesDone, Waited
<1>4. /\ r.people \in Seq(Applicants) /\ r.rows \in Seq(Row)
      /\ Len(r.people) \in Nat /\ DOMAIN r.people = 1 .. Len(r.people)
      /\ Len(r.rows) \in Nat /\ DOMAIN r.rows = 1 .. Len(r.rows)
      /\ \A k \in DOMAIN r.people : r.people[k] \in Applicants
  BY LenProperties, ElementOfSeq DEF RunRow
<1> DEFINE row == [a \in Applicants |-> RowOf(a, IF a \in r.fetched THEN "ok" ELSE "error")]
           new == [k \in DOMAIN r.people |->
                     RowOf(r.people[k], IF r.people[k] \in r.fetched THEN "ok" ELSE "error")]
           rows == r.rows \o new
           pc == IF r.request.originals THEN "originals" ELSE "markdown"
           s == [r EXCEPT !.rows = rows, !.started = 0, !.pc = pc]
<1>5. run' = [run EXCEPT ![c] = s] /\ UNCHANGED <<dirs, now>>
  BY <1>1, <1>2 DEF ResumesDone
<1>6. /\ \A a \in Applicants : row[a] \in Row
      /\ \A a \in Applicants :
                /\ row[a].who = a /\ ~row[a].original
                /\ row[a].status \in {"ok", "error"}
                /\ row[a].status = "ok" <=> a \in r.fetched
  BY DEF RowOf, Row
<1>22. new = [k \in DOMAIN r.people |-> row[r.people[k]]]
  BY <1>4
<1> HIDE DEF row, new
<1>7. /\ new \in Seq(Row) /\ DOMAIN new = DOMAIN r.people /\ Len(new) = Len(r.people)
      /\ \A k \in DOMAIN r.people : new[k] = row[r.people[k]]
  <2>1. new \in [1 .. Len(r.people) -> Row]
    BY <1>4, <1>6, <1>22
  <2> QED  BY <1>4, <1>22, <2>1
<1>8. /\ rows \in Seq(Row)
      /\ \A k \in DOMAIN rows :
           \/ k \in DOMAIN r.rows /\ rows[k] = r.rows[k]
           \/ \E j \in DOMAIN new : k = Len(r.rows) + j /\ rows[k] = new[j]
      /\ \A j \in DOMAIN new : Len(r.rows) + j \in DOMAIN rows /\ rows[Len(r.rows) + j] = new[j]
  <2> DEFINE old == r.rows
  <2>1. old \in Seq(Row) /\ new \in Seq(Row)
    BY <1>4, <1>7
  <2> HIDE DEF old
  <2>2. /\ old \o new \in Seq(Row)
        /\ \A k \in DOMAIN (old \o new) :
             \/ k \in DOMAIN old /\ (old \o new)[k] = old[k]
             \/ \E j \in DOMAIN new : k = Len(old) + j /\ (old \o new)[k] = new[j]
        /\ \A j \in DOMAIN new :
             Len(old) + j \in DOMAIN (old \o new) /\ (old \o new)[Len(old) + j] = new[j]
    BY <2>1, JoinedPlaces
  <2> QED  BY <2>2 DEF old
<1> HIDE DEF rows
<1>9. DOMAIN rows \subseteq Nat \ {0}
  BY <1>8, LenProperties
<1>10. ASSUME NEW k \in DOMAIN rows
       PROVE  \/ k \in DOMAIN r.rows /\ rows[k] = r.rows[k]
              \/ \E j \in DOMAIN r.people :
                   k = Len(r.rows) + j /\ rows[k] = row[r.people[j]]
  <2>1. CASE k \in DOMAIN r.rows /\ rows[k] = r.rows[k]
    BY <2>1
  <2>2. ASSUME NEW j \in DOMAIN new, k = Len(r.rows) + j, rows[k] = new[j]
        PROVE  \E i \in DOMAIN r.people : k = Len(r.rows) + i /\ rows[k] = row[r.people[i]]
    BY <1>7, <2>2
  <2> QED  BY <1>8, <2>1, <2>2
<1>11. ASSUME NEW a \in Range(r.people)
       PROVE  \E k \in DOMAIN rows : rows[k].who = a
  <2>1. PICK j \in DOMAIN r.people : r.people[j] = a
    BY DEF Range
  <2>2. /\ Len(r.rows) + j \in DOMAIN rows
        /\ rows[Len(r.rows) + j] = row[a]
    BY <1>7, <1>8, <2>1
  <2>3. row[a].who = a
    BY <1>4, <1>6, <2>1
  <2> QED  BY <2>2, <2>3
<1>12. \A j, k \in DOMAIN rows : rows[j].who = rows[k].who => j = k
  <2> SUFFICES ASSUME NEW j \in DOMAIN rows, NEW k \in DOMAIN rows, rows[j].who = rows[k].who
               PROVE  j = k
    OBVIOUS
  <2>1. /\ \A i \in DOMAIN r.rows : r.rows[i].who \notin Range(r.people)
        /\ \A i, m \in DOMAIN r.rows : r.rows[i].who = r.rows[m].who => i = m
    BY <1>3 DEF Others, Who, IsInjective
  <2>2. /\ \A i \in DOMAIN r.people : r.people[i] \in Range(r.people)
        /\ \A i, m \in DOMAIN r.people : r.people[i] = r.people[m] => i = m
        /\ \A i \in DOMAIN r.people : row[r.people[i]].who = r.people[i]
    BY <1>3, <1>4, <1>6 DEF Range, IsInjective
  <2> QED  BY <1>10, <2>1, <2>2
<1>13. IsInjective(Who(rows))
  BY <1>12 DEF IsInjective, Who
<1>14. s \in RunRow
  BY <1>4, <1>8 DEF RunRow
<1>15. /\ s.people = r.people /\ s.rows = rows /\ s.pc = pc /\ s.rest = r.rest /\ s.started = 0
       /\ s.fetched = r.fetched /\ s.open = {} /\ s.request = r.request /\ s.letters = r.letters
  BY <1>3 DEF RunRow
<1>16. /\ pc \in {"originals", "markdown"}
       /\ pc = "originals" <=> r.request.originals
  OBVIOUS
<1> HIDE DEF s, pc
<1>17. ASSUME NEW k \in DOMAIN rows
       PROVE  /\ rows[k].status \in {"ok", "partial"} <=> rows[k].who \in r.fetched
              /\ rows[k].status = "skipped" => rows[k].who \notin r.letters
              /\ ~rows[k].original
  <2>1. CASE k \in DOMAIN r.rows /\ rows[k] = r.rows[k]
    BY <1>3, <2>1 DEF Others
  <2>2. ASSUME NEW j \in DOMAIN r.people, rows[k] = row[r.people[j]]
        PROVE  /\ rows[k].status \in {"ok", "partial"} <=> rows[k].who \in r.fetched
               /\ rows[k].status = "skipped" => rows[k].who \notin r.letters
               /\ ~rows[k].original
    BY <1>4, <1>6, <2>2
  <2> QED  BY <1>10, <2>1, <2>2
<1>18. Listed(s)
  <2>1. Range(r.people) \subseteq {rows[k].who : k \in DOMAIN rows}
    BY <1>11
  <2> QED  BY <1>3, <1>13, <1>15, <1>17, <2>1 DEF Listed
<1>19. pc = "originals" => Downloads(s)
  <2>1. \A k \in DOMAIN rows : ~ (k <= 0)
    BY <1>9
  <2> QED  BY <1>15, <1>16, <1>17, <2>1 DEF Downloads
<1>20. pc = "markdown" => Finished(s)
  BY <1>15, <1>16, <1>17 DEF Finished
<1>21. RunFine(s)
  BY <1>3, <1>15, <1>16, <1>18, <1>19, <1>20 DEF RunFine
<1> QED  BY <1>5, <1>14, <1>21, RunAlone

\* The run s after the task of the original k has ended.
AfterOriginal(r, k, saved, s) ==
  /\ k \in DOMAIN r.rows /\ r.rows[k].status = "ok"
  /\ s.people = r.people /\ s.pc = r.pc /\ s.rest = r.rest /\ s.dir = r.dir
  /\ s.started = r.started /\ s.fetched = r.fetched /\ s.open = r.open \ {k}
  /\ s.request = r.request /\ s.letters = r.letters
  /\ DOMAIN s.rows = DOMAIN r.rows
  /\ \A j \in DOMAIN r.rows : j # k => s.rows[j] = r.rows[j]
  /\ s.rows[k].who = r.rows[k].who /\ s.rows[k].original = saved
  /\ s.rows[k].status = IF saved THEN "ok" ELSE "partial"

LEMMA OriginalEnds ==
  ASSUME ExtPart, NEW c \in Extractions, OriginalArrives(c)
  PROVE  \E k \in run[c].open : \E saved \in BOOLEAN : \E s \in RunRow :
           /\ AfterOriginal(run[c], k, saved, s)
           /\ run' = [run EXCEPT ![c] = s] /\ now' = now
           /\ dirs' = [dirs EXCEPT ![run[c].dir].originals =
                         IF saved THEN @ \cup {run[c].rows[k].who} ELSE @]
<1>1. run \in [Extractions -> RunRow]
  BY ExtTypes DEF ExtPart
<1>2. PICK r \in RunRow : r = run[c]
  BY <1>1
<1>3. r.open \subseteq DOMAIN r.rows /\ Downloads(r)
  BY <1>2 DEF ExtPart, RunFine, OriginalArrives
<1>4. PICK k \in r.open, saved \in BOOLEAN :
        /\ run' = [run EXCEPT ![c].open = @ \ {k}, ![c].rows[k].original = saved,
                              ![c].rows[k].status = IF saved THEN @ ELSE "partial"]
        /\ dirs' = [dirs EXCEPT ![r.dir].originals =
                      IF saved THEN @ \cup {r.rows[k].who} ELSE @]
  BY <1>2 DEF OriginalArrives, ManifestIndex
<1>5. k \in DOMAIN r.rows /\ r.rows[k].status = "ok"
  BY <1>3, <1>4 DEF Downloads
<1>6. /\ r.rows \in Seq(Row) /\ \A j \in DOMAIN r.rows : r.rows[j] \in Row
      /\ DOMAIN r.rows = 1 .. Len(r.rows) /\ Len(r.rows) \in Nat
  BY LenProperties, ElementOfSeq DEF RunRow
<1> DEFINE old == r.rows[k]
           status == IF saved THEN "ok" ELSE "partial"
           row == [old EXCEPT !.original = saved, !.status = status]
           rows == [r.rows EXCEPT ![k] = row]
           s == [r EXCEPT !.open = r.open \ {k}, !.rows = rows]
<1>7. old \in Row /\ status \in {"ok", "partial"} /\ old.status = "ok"
  BY <1>5, <1>6
<1>8. rows = [r.rows EXCEPT ![k].original = saved, ![k].status = status]
  BY <1>5, <1>6
<1>9. run' = [run EXCEPT ![c] = s]
  <2>1. run' = [run EXCEPT ![c].open = @ \ {k}, ![c].rows[k].original = saved,
                           ![c].rows[k].status = status]
    <3>1. CASE saved
      <4>1. status = "ok" /\ run[c].rows[k].status = "ok"
        BY <1>2, <1>5, <3>1
      <4> HIDE DEF status
      <4> QED  BY <1>1, <1>2, <1>4, <1>5, <1>6, <3>1, <4>1 DEF RunRow, Row
    <3>2. CASE ~saved
      BY <1>4, <3>2
    <3> QED  BY <3>1, <3>2
  <2> HIDE DEF row, status
  <2>2. [r EXCEPT !.open = @ \ {k}, !.rows[k].original = saved, !.rows[k].status = status] = s
    BY <1>8 DEF RunRow
  <2> QED  BY <1>1, <1>2, <2>1, <2>2
<1>10. row \in Row
  BY <1>7 DEF Row
<1>11. rows \in Seq(Row)
  <2>1. rows \in [1 .. Len(r.rows) -> Row]
    BY <1>6, <1>10
  <2> QED  BY <1>6, <2>1
<1>12. /\ DOMAIN rows = DOMAIN r.rows /\ rows[k] = row
       /\ \A j \in DOMAIN r.rows : j # k => rows[j] = r.rows[j]
  BY <1>5
<1>13. row.who = old.who /\ row.status = (IF saved THEN "ok" ELSE "partial") /\ row.original = saved
  BY <1>7 DEF Row
<1> HIDE DEF row, rows
<1>15. s \in RunRow
  BY <1>11 DEF RunRow
<1>16. /\ s.people = r.people /\ s.rows = rows /\ s.pc = r.pc /\ s.rest = r.rest /\ s.dir = r.dir
       /\ s.started = r.started /\ s.fetched = r.fetched /\ s.open = r.open \ {k}
       /\ s.request = r.request /\ s.letters = r.letters
  BY DEF RunRow
<1>17. now' = now
  BY DEF OriginalArrives
<1> HIDE DEF s
<1>18. AfterOriginal(r, k, saved, s)
  BY <1>5, <1>12, <1>13, <1>16 DEF AfterOriginal
<1> QED  BY ZenonT(30), <1>2, <1>4, <1>9, <1>15, <1>17, <1>18

LEMMA ExtPartOriginals ==
  ASSUME ExtPart, NEW c \in Extractions, OriginalArrives(c)
  PROVE  ExtPart'
<1>1. run \in [Extractions -> RunRow] /\ dirs \in [0 .. LastSecond -> Dir] /\ now \in 0 .. LastSecond
  BY ExtTypes DEF ExtPart
<1>2. PICK r \in RunRow : r = run[c]
  BY <1>1
<1>3. /\ Listed(r) /\ r.open \subseteq DOMAIN r.rows /\ Downloads(r) /\ ~r.request.dry
      /\ IsInjective(r.people) /\ \A i \in DOMAIN r.rest : r.rest[i] # <<>>
      /\ r.pc = "originals"
  BY <1>2 DEF ExtPart, RunFine, OriginalArrives
<1>4. PICK k \in r.open, saved \in BOOLEAN, s \in RunRow :
        /\ AfterOriginal(r, k, saved, s)
        /\ run' = [run EXCEPT ![c] = s] /\ now' = now
        /\ dirs' = [dirs EXCEPT ![r.dir].originals =
                      IF saved THEN @ \cup {r.rows[k].who} ELSE @]
  BY <1>2, OriginalEnds
<1> DEFINE rows == s.rows
<1>5. /\ k \in DOMAIN r.rows /\ r.rows[k].status = "ok" /\ k <= r.started /\ r.request.originals
      /\ \A j \in DOMAIN r.rows :
           r.rows[j].status = "ok" => (r.rows[j].original <=> j <= r.started /\ j \notin r.open)
  BY <1>3, <1>4 DEF Downloads, AfterOriginal
<1>6. \A j \in DOMAIN r.rows : r.rows[j] \in Row
  BY LenProperties, ElementOfSeq DEF RunRow
<1>9. run' = [run EXCEPT ![c] = s]
  BY <1>4
<1>11. /\ DOMAIN rows = DOMAIN r.rows
       /\ \A j \in DOMAIN r.rows : j # k => rows[j] = r.rows[j]
  BY <1>4 DEF AfterOriginal
<1>12. /\ rows[k].who = r.rows[k].who /\ rows[k].original = saved
       /\ rows[k].status = IF saved THEN "ok" ELSE "partial"
  BY <1>4 DEF AfterOriginal
<1>13. s \in RunRow
  BY <1>4
<1>14. /\ s.people = r.people /\ s.pc = r.pc /\ s.rest = r.rest
       /\ s.started = r.started /\ s.fetched = r.fetched /\ s.open = r.open \ {k}
       /\ s.request = r.request /\ s.letters = r.letters
  BY <1>4 DEF AfterOriginal
<1>15. \A j \in DOMAIN rows : rows[j].who = r.rows[j].who
  BY <1>11, <1>12
<1>16. Listed(s)
  <2>1. IsInjective(Who(rows))
    <3>1. Who(rows) = Who(r.rows)
      BY <1>11, <1>15 DEF Who
    <3> QED  BY <1>3, <3>1 DEF Listed
  <2>2. {rows[j].who : j \in DOMAIN rows} = {r.rows[j].who : j \in DOMAIN r.rows}
    BY <1>11, <1>15
  <2>3. ASSUME NEW j \in DOMAIN rows
        PROVE  /\ rows[j].status \in {"ok", "partial"} <=> rows[j].who \in r.fetched
               /\ rows[j].status = "skipped" => r.request.dry \/ rows[j].who \notin r.letters
               /\ rows[j].original => rows[j].status = "ok"
    <3>1. CASE j = k
      BY <1>3, <1>5, <1>11, <1>12, <3>1 DEF Listed
    <3>2. CASE j # k
      BY <1>3, <1>11, <3>2 DEF Listed
    <3> QED  BY <3>1, <3>2
  <2> QED  BY <1>3, <1>14, <2>1, <2>2, <2>3 DEF Listed
<1>17. Downloads(s)
  <2>1. ASSUME NEW j \in DOMAIN rows, rows[j].status = "ok"
        PROVE  rows[j].original <=> j <= r.started /\ j \notin r.open \ {k}
    <3>1. CASE j = k
      BY <1>5, <1>11, <1>12, <2>1, <3>1
    <3>2. CASE j # k
      BY <1>5, <1>11, <2>1, <3>2
    <3> QED  BY <3>1, <3>2
  <2>2. \A j \in r.open \ {k} : rows[j].status = "ok" /\ j <= r.started
    BY <1>3, <1>11 DEF Downloads
  <2> QED  BY <1>5, <1>14, <2>1, <2>2 DEF Downloads
<1>18. RunFine(s)
  BY <1>3, <1>11, <1>14, <1>16, <1>17 DEF RunFine
<1>19. RunMoves(c)
  BY <1>1, <1>9, <1>13, <1>18 DEF RunMoves
<1>20. dirs' \in [0 .. LastSecond -> Dir]
  <2>1. r.dir \in 0 .. LastSecond /\ r.rows[k].who \in Applicants
    BY <1>5, <1>6 DEF RunRow, Row
  <2>2. PICK dir \in Dir : dir = dirs[r.dir]
    BY <1>1, <2>1
  <2> DEFINE new == [dir EXCEPT !.originals = IF saved THEN @ \cup {r.rows[k].who} ELSE @]
  <2>3. new \in Dir
    BY <2>1, <2>2 DEF Dir
  <2>4. dirs' = [dirs EXCEPT ![r.dir] = new]
    BY <1>1, <1>4, <2>1, <2>2
  <2> HIDE DEF new
  <2> QED  BY <1>1, <2>3, <2>4
<1> QED  BY <1>1, <1>19, <1>20, RunMovesAreFine DEF OriginalArrives

\* A run whose rows are known goes on, and its rows stay.
LEMMA RunGoesOn ==
  ASSUME ExtPart, NEW c \in Extractions,
         run[c].pc \in {"originals", "markdown", "html", "pdf", "manifest"},
         run[c].pc = "originals" => Waited(c),
         NEW pc \in {"markdown", "html", "pdf", "manifest", "done", "failed"},
         pc \in {"markdown", "html", "pdf"} => run[c].pc # "manifest", Moves(c, pc)
  PROVE  /\ RunMoves(c) /\ Listed(run[c]) /\ Finished(run[c])
         /\ run'[c] = [run[c] EXCEPT !.pc = pc]
<1>1. run \in [Extractions -> RunRow]
  BY ExtTypes DEF ExtPart
<1>2. PICK r \in RunRow : r = run[c]
  BY <1>1
<1>3. /\ RunFine(r) /\ IsInjective(r.people) /\ \A i \in DOMAIN r.rest : r.rest[i] # <<>>
      /\ r.pc \in {"originals", "markdown", "html", "pdf", "manifest"}
  BY <1>2 DEF ExtPart, RunFine
<1>4. Listed(r) /\ Finished(r) /\ (r.pc # "manifest" => ~r.request.dry)
  <2>1. CASE r.pc = "originals"
    <3>1. Listed(r) /\ Downloads(r) /\ ~r.request.dry
      BY <1>3, <2>1 DEF RunFine
    <3>2. ASSUME NEW k \in DOMAIN r.rows, r.rows[k].status = "ok"
          PROVE  r.rows[k].original <=> r.request.originals
      <4>1. k \in Tasks(c)
        BY <1>2, <2>1, <3>2 DEF Tasks
      <4>2. k <= r.started /\ k \notin r.open
        BY <1>2, <2>1, <4>1 DEF Waited
      <4> QED  BY <3>1, <3>2, <4>2 DEF Downloads
    <3> QED  BY <3>1, <3>2 DEF Finished
  <2>2. CASE r.pc # "originals"
    BY <1>3, <2>2 DEF RunFine
  <2> QED  BY <2>1, <2>2
<1> DEFINE s == [r EXCEPT !.pc = pc]
<1>5. run' = [run EXCEPT ![c] = s]
  BY <1>1, <1>2 DEF Moves
<1>6. s \in RunRow
  BY DEF RunRow
<1>7. /\ s.people = r.people /\ s.rows = r.rows /\ s.pc = pc /\ s.rest = r.rest
      /\ s.started = r.started /\ s.fetched = r.fetched /\ s.open = r.open
      /\ s.request = r.request /\ s.letters = r.letters
  BY DEF RunRow
<1> HIDE DEF s
<1>8. Listed(s) /\ Finished(s)
  BY <1>4, <1>7 DEF Listed, Finished
<1>9. RunFine(s)
  BY <1>2, <1>3, <1>4, <1>7, <1>8 DEF RunFine
<1>10. RunMoves(c)
  BY <1>1, <1>5, <1>6, <1>9 DEF RunMoves
<1>11. run'[c] = s
  BY <1>1, <1>5
<1> QED  BY <1>2, <1>4, <1>10, <1>11 DEF s

LEMMA CombinedType ==
  ASSUME ExtPart, NEW c \in Extractions
  PROVE  /\ Combined(c) \in Combination
         /\ {entry.who : entry \in Range(Combined(c))} = Range(run[c].people) \cap run[c].fetched
         /\ \A entry \in Range(Combined(c)) : entry.letter = (entry.who \in run[c].letters)
<1>1. run \in [Extractions -> RunRow]
  BY ExtTypes DEF ExtPart
<1>2. PICK r \in RunRow : r = run[c]
  BY <1>1
<1>3. r.people \in Seq(Applicants) /\ IsInjective(r.people)
  BY <1>2 DEF ExtPart, RunFine, RunRow
<1> DEFINE people == Those(r.people, r.fetched)
           all == [k \in DOMAIN people |-> [who |-> people[k], letter |-> people[k] \in r.letters]]
<1>4. people \in Seq(Applicants) /\ Range(people) = Range(r.people) \cap r.fetched
  BY <1>3, ThoseOnce
<1>5. Combined(c) = all
  BY <1>2 DEF Combined
<1> HIDE DEF people
<1>6. /\ DOMAIN people = 1 .. Len(people) /\ Len(people) \in Nat
      /\ \A k \in 1 .. Len(people) : people[k] \in Applicants
  BY <1>4, LenProperties, ElementOfSeq
<1>7. all \in [1 .. Len(people) -> [who : Applicants, letter : BOOLEAN]]
  BY <1>6
<1>8. all \in Combination
  BY <1>6, <1>7 DEF Combination
<1>9. /\ DOMAIN all = DOMAIN people
      /\ \A k \in DOMAIN people : all[k].who = people[k] /\ all[k].letter = (people[k] \in r.letters)
  OBVIOUS
<1> HIDE DEF all
<1>10. {entry.who : entry \in Range(all)} = Range(people)
  BY <1>9 DEF Range
<1>11. \A entry \in Range(all) : entry.letter = (entry.who \in r.letters)
  BY <1>9 DEF Range
<1> QED  BY <1>2, <1>4, <1>5, <1>8, <1>10, <1>11

LEMMA CountedIsFinite ==
  ASSUME NEW rows \in Seq(Row), NEW statuses
  PROVE  /\ Counted(rows, statuses) \in Nat
         /\ IsFiniteSet({k \in DOMAIN rows : rows[k].status \in statuses})
<1>1. DOMAIN rows = 1 .. Len(rows) /\ Len(rows) \in Nat
  BY LenProperties
<1>2. IsFiniteSet(1 .. Len(rows))
  BY <1>1, CountTo
<1>3. IsFiniteSet({k \in DOMAIN rows : rows[k].status \in statuses})
  BY <1>1, <1>2, FS_Subset
<1> QED  BY <1>3, FS_CardinalityType DEF Counted

LEMMA ExtPartFiles ==
  ASSUME ExtPart, NEW c \in Extractions,
         \/ WriteCombinedMarkdown(c) \/ WriteCombinedHTML(c) \/ WriteCombinedPDF(c)
         \/ WriteManifest(c) \/ OriginalsDone(c)
  PROVE  ExtPart'
<1>1. run \in [Extractions -> RunRow] /\ dirs \in [0 .. LastSecond -> Dir] /\ now \in 0 .. LastSecond
  BY ExtTypes DEF ExtPart
<1>2. PICK r \in RunRow : r = run[c]
  BY <1>1
<1>3. PICK pc \in {"markdown", "html", "pdf", "manifest", "done", "failed"} :
        /\ pc \in {"markdown", "html", "pdf"} => run[c].pc # "manifest"
        /\ Moves(c, pc) /\ now' = now
        /\ run[c].pc \in {"originals", "markdown", "html", "pdf", "manifest"}
        /\ run[c].pc = "originals" => Waited(c)
  BY DEF WriteCombinedMarkdown, WriteCombinedHTML, WriteCombinedPDF, WriteManifest, OriginalsDone
<1>4. RunMoves(c)
  BY <1>3, RunGoesOn
<1>5. PICK dir \in Dir : dir = dirs[r.dir]
  BY <1>1 DEF RunRow
<1>6. ASSUME NEW new \in Dir, dirs' = [dirs EXCEPT ![r.dir] = new]
      PROVE  dirs' \in [0 .. LastSecond -> Dir]
  BY <1>1, <1>6
<1>7. <<Combined(c)>> \in Seq(Combination) /\ NoFile \in Seq(Combination)
  BY CombinedType, EmptySeq DEF NoFile
<1>8. /\ dir.manifest \in Seq(Manifest) /\ dir.html \in Seq(Combination)
      /\ r.dir \in 0 .. LastSecond
  BY DEF Dir, RunRow
<1>9. CASE UNCHANGED dirs
  BY <1>1, <1>3, <1>4, <1>9, RunMovesAreFine
<1>10. CASE WriteCombinedMarkdown(c) /\ ~UNCHANGED dirs
  <2>1. dirs' = [dirs EXCEPT ![r.dir] = [dir EXCEPT !.markdown = <<Combined(c)>>]]
    BY <1>1, <1>2, <1>5, <1>8, <1>10 DEF WriteCombinedMarkdown
  <2>2. [dir EXCEPT !.markdown = <<Combined(c)>>] \in Dir
    BY <1>7 DEF Dir
  <2> QED  BY <1>1, <1>3, <1>4, <1>6, <2>1, <2>2, RunMovesAreFine
<1>11. CASE WriteCombinedHTML(c) /\ ~UNCHANGED dirs
  <2>1. PICK file \in {<<Combined(c)>>, NoFile} :
          dirs' = [dirs EXCEPT ![r.dir] = [dir EXCEPT !.html = file]]
    BY <1>1, <1>2, <1>5, <1>8, <1>11 DEF WriteCombinedHTML
  <2>2. [dir EXCEPT !.html = file] \in Dir
    BY <1>7 DEF Dir
  <2> QED  BY <1>1, <1>3, <1>4, <1>6, <2>1, <2>2, RunMovesAreFine
<1>12. CASE WriteCombinedPDF(c) /\ ~UNCHANGED dirs
  <2>1. dirs' = [dirs EXCEPT ![r.dir] = [dir EXCEPT !.pdf = dir.html]]
    BY <1>1, <1>2, <1>5, <1>8, <1>12 DEF WriteCombinedPDF
  <2>2. [dir EXCEPT !.pdf = dir.html] \in Dir
    BY <1>8 DEF Dir
  <2> QED  BY <1>1, <1>3, <1>4, <1>6, <2>1, <2>2, RunMovesAreFine
<1>13. CASE WriteManifest(c) /\ ~UNCHANGED dirs
  <2> DEFINE succeeded == IF r.request.dry THEN Len(r.rows) ELSE Counted(r.rows, {"ok", "partial"})
             failed == IF r.request.dry THEN 0 ELSE Counted(r.rows, {"error", "skipped"})
             manifest == [rows |-> r.rows, succeeded |-> succeeded, failed |-> failed]
             file == <<manifest>>
  <2>1. dirs' = [dirs EXCEPT ![r.dir] = [dir EXCEPT !.manifest = file]]
    BY <1>1, <1>2, <1>5, <1>8, <1>13 DEF WriteManifest
  <2>2. succeeded \in Nat /\ failed \in Nat /\ r.rows \in Seq(Row)
    <3>1. r.rows \in Seq(Row)
      BY DEF RunRow
    <3> QED  BY <3>1, CountedIsFinite, LenProperties
  <2> HIDE DEF succeeded, failed
  <2>3. manifest \in Manifest
    BY <2>2 DEF Manifest
  <2> HIDE DEF manifest
  <2>4. file \in Seq(Manifest)
    BY <2>3
  <2> HIDE DEF file
  <2>5. [dir EXCEPT !.manifest = file] \in Dir
    BY <2>4 DEF Dir
  <2> QED  BY <1>1, <1>3, <1>4, <1>6, <2>1, <2>5, RunMovesAreFine
<1>14. OriginalsDone(c) => UNCHANGED dirs
  BY DEF OriginalsDone
<1> QED  BY <1>9, <1>10, <1>11, <1>12, <1>13, <1>14

LEMMA ExtPartNext ==
  ASSUME ExtPart, ExtActs
  PROVE  ExtPart'
<1>1. CASE UNCHANGED extractionVars
  <2>1. run' = run /\ dirs' = dirs /\ now' = now
    BY <1>1 DEF extractionVars
  <2>2. ExtractionTypeOK'
    BY <2>1 DEF ExtPart, ExtractionTypeOK
  <2>3. \A c \in Extractions : RunFine(run'[c])
    BY <2>1 DEF ExtPart
  <2> QED  BY <2>2, <2>3 DEF ExtPart, RunFine, Begun, Others, Listed, Downloads, Finished, Who
<1>2. CASE TickSecond
  <2>1. run' = run /\ dirs' = dirs
    BY <1>2 DEF TickSecond
  <2>2. ExtractionTypeOK'
    BY <1>2, <2>1, ExtractionAssumption DEF ExtPart, ExtractionTypeOK, TickSecond
  <2>3. \A c \in Extractions : RunFine(run'[c])
    BY <2>1 DEF ExtPart
  <2> QED  BY <2>2, <2>3 DEF ExtPart, RunFine, Begun, Others, Listed, Downloads, Finished, Who
<1>3. ASSUME NEW c \in Extractions, RunStep(c)
      PROVE  ExtPart'
  BY <1>3, ExtPartReads, ExtPartChoose, ExtPartTask, ExtPartLetters, ExtPartLettersDone,
     ExtPartResumesDone, ExtPartOriginals, ExtPartFiles DEF RunStep
<1> QED  BY <1>1, <1>2, <1>3, ExtPartStart DEF ExtActs

-----------------------------------------------------------------------------
(***************************************************************************)
(* Type correctness of the whole, and what a step of it is to each part.   *)
(***************************************************************************)
TypeInv ==
  /\ kind \in Kinds
  /\ ImportPart /\ VacPart /\ HitsTypeOK /\ ExtPart

LEMMA SelectsNothing ==
  ASSUME NEW S, NEW list \in Seq(S)
  PROVE  Selected(list, {}) = <<>>
<1> DEFINE out == Selected(list, {})
<1>1. out \in Seq(S) /\ Range(out) = {}
  <2>1. {list[k] : k \in {} \cap DOMAIN list} = {}
    OBVIOUS
  <2> QED  BY <2>1, SelectedFacts
<1> HIDE DEF out
<1>2. Len(out) \in Nat /\ DOMAIN out = 1 .. Len(out)
  BY <1>1, LenProperties
<1>3. DOMAIN out = {}
  BY <1>1 DEF Range
<1>4. Len(out) = 0
  BY <1>2, <1>3
<1>5. out = <<>>
  BY <1>1, <1>4, EmptySeq
<1> QED  BY <1>5 DEF out

\* A request begins an import: what it takes of a list fits as the list does.
LEMMA RequestBegins ==
  ASSUME NEW c \in Imports, NEW name \in Names, NEW items \in Seq(Items),
         \A k \in DOMAIN items : items[k].id + Len(items) <= MaxId,
         ImportJSON(c, name, items)
  PROVE  Begins(c)
<1> DEFINE at == {k \in DOMAIN items : IsSupported(items[k])}
           records == Selected(items, at)
<1>1. /\ records \in Seq(Items) /\ Len(records) <= Len(items)
      /\ Range(records) = {items[k] : k \in at \cap DOMAIN items}
  BY SelectedFacts
<1>2. /\ imp[c].pc = "off"
      /\ imp' = [imp EXCEPT ![c].pc = IF records = <<>> THEN "rejected" ELSE "create",
                            ![c].name = name, ![c].records = records]
      /\ UNCHANGED <<raw, docs, over>>
  BY DEF ImportJSON
<1> HIDE DEF records
<1>3. /\ Len(records) \in Nat /\ Len(items) \in Nat /\ MaxId \in Nat
      /\ \A k \in DOMAIN items : items[k] \in Items
      /\ DOMAIN items = 1 .. Len(items)
  BY <1>1, LenProperties, ElementOfSeq, ImportAssumption
<1>4. Fits(records)
  <2> SUFFICES ASSUME NEW k \in DOMAIN records
               PROVE  records[k].id + Len(records) <= MaxId
    BY DEF Fits
  <2>1. records[k] \in Range(records)
    BY DEF Range
  <2>2. PICK j \in DOMAIN items : records[k] = items[j]
    BY <1>1, <2>1
  <2>3. items[j].id \in Nat /\ items[j].id + Len(items) <= MaxId
    BY <1>3 DEF Items
  <2>4. PICK id \in Nat : id = items[j].id
    BY <2>3
  <2> QED  BY <1>1, <1>3, <2>2, <2>3, <2>4
<1> QED  BY <1>1, <1>2, <1>4 DEF Begins

LEMMA UploadsBegin ==
  ASSUME NEW c \in Uploads, Upload(c)
  PROVE  c \in Imports /\ Begins(c) /\ UNCHANGED <<vacancyVars, hits>>
<1>1. PICK name \in Names, items \in Payloads : ImportJSON(c, name, items)
  BY DEF Upload
<1>2. /\ c \in Imports /\ items \in Seq(Items)
      /\ \A k \in DOMAIN items : items[k].id + Len(items) <= MaxId
  BY HeadHunterAssumption
<1> QED  BY <1>1, <1>2, RequestBegins DEF Upload

LEMMA VacanciesBegin ==
  ASSUME VacPart, ImportVacancies
  PROVE  OfVacancies \in Imports /\ Begins(OfVacancies) /\ UNCHANGED <<vacancyVars, hits>>
<1> DEFINE found == search.items
           items == [k \in DOMAIN found |-> VacancyItem(found[k])]
<1>1. PICK name \in Names : ImportJSON(OfVacancies, name, items)
  BY DEF ImportVacancies
<1>2. /\ found \in Seq(Vacancies) /\ search.max \in MaxItems /\ search.max \in Nat
      /\ Len(found) <= search.max
  BY VacTypes DEF VacPart, SearchRow, RowSearches
<1> HIDE DEF found
<1>3. /\ Len(found) \in Nat /\ DOMAIN found = 1 .. Len(found)
      /\ \A k \in DOMAIN found : found[k] \in Vacancies
  BY <1>2, LenProperties, ElementOfSeq
<1>4. \A v \in Vacancies : VacancyItem(v) \in Items /\ VacancyItem(v).id = v
  <2> DEFINE keys == {"id", "text", "caption"}
  <2>1. keys \in SUBSET Keys
    BY DEF Keys, TextKeys, CaptionKeys
  <2>2. \A v \in Vacancies : v \in Nat /\ v \in Nat \ {0}
    BY VacancyAssumption
  <2>3. \A v : VacancyItem(v) = [keys |-> keys, id |-> v, text |-> v]
    BY DEF VacancyItem
  <2> HIDE DEF keys
  <2> QED  BY <2>1, <2>2, <2>3 DEF Items, NoText
<1>5. items \in [1 .. Len(found) -> Items]
  BY <1>3, <1>4
<1>6. items \in Seq(Items) /\ Len(items) = Len(found) /\ DOMAIN items = DOMAIN found
      /\ \A k \in DOMAIN found : items[k].id = found[k]
  BY <1>3, <1>4, <1>5
<1> HIDE DEF items
<1>7. ASSUME NEW k \in DOMAIN items
      PROVE  items[k].id + Len(items) <= MaxId
  <2>1. PICK v \in Vacancies : v = found[k]
    BY <1>3, <1>6
  <2>2. v \in Nat /\ v + search.max <= MaxId /\ MaxId \in Nat
    BY <1>2, HeadHunterAssumption, VacancyAssumption, ImportAssumption
  <2> QED  BY <1>2, <1>3, <1>6, <2>1, <2>2
<1>8. OfVacancies \in Imports
  BY HeadHunterAssumption
<1> QED  BY <1>1, <1>6, <1>7, <1>8, RequestBegins DEF ImportVacancies

\* Nothing is taken of the resumes: none has a key with a text.
LEMMA ResumesBegin ==
  ASSUME HitsTypeOK, ImportResumes
  PROVE  OfResumes \in Imports /\ Begins(OfResumes) /\ UNCHANGED <<vacancyVars, hits>>
<1> DEFINE found == hits.found
           items == [k \in DOMAIN found |-> ResumeItem(found[k])]
           at == {k \in DOMAIN items : IsSupported(items[k])}
<1>1. PICK name \in Names : ImportJSON(OfResumes, name, items)
  BY DEF ImportResumes
<1>2. found \in Seq(Resumes)
  BY DEF HitsTypeOK
<1> HIDE DEF found
<1>3. /\ Len(found) \in Nat /\ DOMAIN found = 1 .. Len(found)
      /\ \A k \in DOMAIN found : found[k] \in Resumes
  BY <1>2, LenProperties, ElementOfSeq
<1>4. items \in Seq({ResumeItem(r) : r \in Resumes})
  <2>1. items \in [1 .. Len(found) -> {ResumeItem(r) : r \in Resumes}]
    BY <1>3
  <2> QED  BY <1>3, <2>1
<1>5. at = {}
  <2>1. \A r : ResumeItem(r).keys = ResumeKeys
    BY DEF ResumeItem
  <2>2. ResumeKeys \cap (TextKeys \cup CaptionKeys) = {}
    BY DEF ResumeKeys, TextKeys, CaptionKeys
  <2>3. \A r : ~ IsSupported(ResumeItem(r))
    BY <2>1, <2>2 DEF IsSupported
  <2> QED  BY <2>3
<1>6. Selected(items, at) = <<>>
  <2> HIDE DEF items
  <2>1. Selected(items, {}) = <<>>
    BY <1>4, SelectsNothing
  <2> QED  BY <1>5, <2>1
<1>7. /\ imp[OfResumes].pc = "off"
      /\ imp' = [imp EXCEPT ![OfResumes].pc = IF <<>> = <<>> THEN "rejected" ELSE "create",
                            ![OfResumes].name = name, ![OfResumes].records = <<>>]
      /\ UNCHANGED <<raw, docs, over>>
  <2> HIDE DEF items
  <2> QED  BY <1>1, <1>6 DEF ImportJSON
<1>8. <<>> \in Seq(Items) /\ Fits(<<>>)
  BY NothingIsOnce, EmptySeq DEF Fits
<1>9. OfResumes \in Imports
  BY HeadHunterAssumption
<1> QED  BY <1>7, <1>8, <1>9 DEF Begins, ImportResumes

LEMMA NextActs ==
  ASSUME TypeInv, [Next]_vars
  PROVE  ImportActs /\ VacActs /\ HitActs /\ ExtActs /\ kind' = kind
<1>1. Uploads \subseteq Imports /\ OfVacancies \in Imports
  BY HeadHunterAssumption
<1>2. CASE UNCHANGED vars
  BY <1>2 DEF vars, ImportActs, VacActs, HitActs, ExtActs
<1>3. CASE UploadRequest
  BY <1>3, UploadsBegin DEF UploadRequest, ImportActs, VacActs, HitActs, ExtActs
<1>4. ASSUME NEW c \in Uploads, UploadStep(c)
      PROVE  ImportActs /\ VacActs /\ HitActs /\ ExtActs /\ kind' = kind
  BY <1>1, <1>4 DEF UploadStep, Stores, ImportActs, VacActs, HitActs, ExtActs
<1>5. CASE VacancyRequest
  BY <1>5 DEF VacancyRequest, ImportActs, VacActs, HitActs, ExtActs
<1>6. CASE VacancyStep
  <2>1. CASE ImportVacancies
    BY <1>6, <2>1, VacanciesBegin
       DEF TypeInv, VacancyStep, ImportActs, VacActs, HitActs, ExtActs
  <2>2. CASE Stores(OfVacancies)
    BY <1>1, <1>6, <2>2 DEF VacancyStep, Stores, ImportActs, VacActs, HitActs, ExtActs
  <2>3. CASE SearchStep /\ UNCHANGED <<importVars, hits>>
    BY <1>6, <2>3 DEF VacancyStep, ImportActs, VacActs, HitActs, ExtActs
  <2> QED  BY <1>6, <2>1, <2>2, <2>3 DEF VacancyStep
<1>7. CASE VacanciesChange
  BY <1>7 DEF VacanciesChange, ImportActs, VacActs, HitActs, ExtActs
<1>8. CASE ResumeRequest
  BY <1>8 DEF ResumeRequest, ImportActs, VacActs, HitActs, ExtActs
<1>9. CASE ResumeStep
  <2>1. CASE ImportResumes
    BY <1>9, <2>1, ResumesBegin
       DEF TypeInv, ResumeStep, ImportActs, VacActs, HitActs, ExtActs
  <2>2. CASE HitsStep /\ UNCHANGED <<importVars, vacancyVars>>
    BY <1>9, <2>2 DEF ResumeStep, ImportActs, VacActs, HitActs, ExtActs
  <2> QED  BY <1>9, <2>1, <2>2 DEF ResumeStep
<1>10. CASE ExtractionRequest
  BY <1>10 DEF ExtractionRequest, ImportActs, VacActs, HitActs, ExtActs
<1>11. ASSUME NEW c \in Extractions, ExtractionStep(c)
       PROVE  ImportActs /\ VacActs /\ HitActs /\ ExtActs /\ kind' = kind
  BY <1>11 DEF ExtractionStep, ImportActs, VacActs, HitActs, ExtActs
<1> QED  BY <1>2, <1>3, <1>4, <1>5, <1>6, <1>7, <1>8, <1>9, <1>10, <1>11 DEF Next

LEMMA TypeInvInit ==
  ASSUME Init
  PROVE  TypeInv
BY ImportPartInit, VacPartInit, HitsInitTypes, ExtPartInit DEF Init, TypeInv

LEMMA TypeInvNext ==
  ASSUME TypeInv, [Next]_vars
  PROVE  TypeInv'
<1>1. ImportActs /\ VacActs /\ HitActs /\ ExtActs /\ kind' = kind
  BY NextActs
<1> QED  BY <1>1, ImportPartNext, VacPartNext, HitsTypesNext, ExtPartNext DEF TypeInv

LEMMA TypeInvAlways == Spec => []TypeInv
<1>1. Init => TypeInv
  BY TypeInvInit
<1>2. TypeInv /\ [Next]_vars => TypeInv'
  BY TypeInvNext
<1> QED  BY <1>1, <1>2, PTL DEF Spec

(***************************************************************************)
(* The variables of the imports, of both searches and of the extractions   *)
(* keep their types.  Behind it: the numbers that records are given do not *)
(* run out, whatever ids a payload repeats or leaves out (imp.used and     *)
(* imp.next of UpsertRawMessage), a search collects nothing twice and      *)
(* never more than it was asked for, and a page is a part of what is       *)
(* online.                                                                 *)
(***************************************************************************)
THEOREM TypeCorrect == Spec => []TypeOK
<1>1. TypeInv => TypeOK
  BY DEF TypeInv, TypeOK, ImportPart, VacPart, ExtPart
<1> QED  BY <1>1, TypeInvAlways, PTL

-----------------------------------------------------------------------------
(***************************************************************************)
(* What an import has stored: r is the import c, texts its raw messages,   *)
(* ds the documents.                                                       *)
(***************************************************************************)
Kept(r) == Going(r) \/ r.pc = "done"

\* How many raw messages it has, and of which record each is.
Stored(r) == IF InHand(r) THEN r.done + 1 ELSE r.done

Numbering(r, texts, g) ==
  /\ \A j, k \in 1 .. Stored(r) : g[j] = g[k] => j = k
  /\ \A m \in r.used : \E k \in 1 .. Stored(r) : g[k] = m
  /\ \A k \in 1 .. Stored(r) : texts[g[k]] = r.records[k].text
  /\ InHand(r) => g[Stored(r)] = r.id

Numbered(r, texts) ==
  /\ {m \in Ids : texts[m] # NoText} = r.used
  /\ IF r.used = {} THEN r.last = 0
     ELSE r.last \in r.used /\ \A m \in r.used : m <= r.last
  /\ \E g \in [1 .. Stored(r) -> r.used] : Numbering(r, texts, g)
  /\ r.records # <<>>
  /\ r.pc = "done" => r.done = Len(r.records)

\* The documents of the source, and those of them that are not duplicates.
Mine(c, ds) == {k \in DOMAIN ds : ds[k].by = c}
Firsts(c, ds) == {k \in Mine(c, ds) : ~ds[k].dup}
HasFirst(c, ds, t) == \E k \in Firsts(c, ds) : ds[k].text = t

InRecord(r) == r.records[r.done + 1]
AtKey(r) == <<r.name, r.id>>
Unsaved(r) == r.pc \in {"find", "save"}
Saved(r) == r.pc \in {"delete", "insert"}

Documented(c, r, texts, ds) ==
  /\ \A k \in Mine(c, ds) :
       /\ k[1] = r.name /\ k[2] \in r.used /\ ds[k].text = texts[k[2]]
       /\ Unsaved(r) => k[2] # r.id
  /\ \A m \in r.used :
       \/ texts[m] = TrashText
       \/ Unsaved(r) /\ m = r.id
       \/ HasFirst(c, ds, texts[m])
  /\ \A j, k \in Firsts(c, ds) : ds[j].text = ds[k].text => j = k
  /\ \A k \in Firsts(c, ds) : ds[k].chunk = ds[k].text \/ (Saved(r) /\ k = AtKey(r))
  /\ r.pc = "save" => (r.dup <=> HasFirst(c, ds, InRecord(r).text))
  /\ Saved(r) => AtKey(r) \in Mine(c, ds) /\ ds[AtKey(r)].dup = r.dup
  /\ r.pc = "insert" => ~r.dup
  /\ InHand(r) => texts[r.id] = InRecord(r).text /\ InRecord(r).text # TrashText

\* The imports in ov have been written into.
ImportKnown(c, r, texts, ds, ov) ==
  /\ r.pc = "off" => (\A m \in Ids : texts[m] = NoText) /\ Mine(c, ds) = {}
  /\ Kept(r) => Numbered(r, texts) /\ (c \notin ov => Documented(c, r, texts, ds))

ImportKnows == \A c \in Imports : ImportKnown(c, imp[c], raw[c], docs, over)

\* What others write leaves what an import knows.
LEMMA KnownStays ==
  ASSUME NEW c, NEW r, NEW texts, NEW ds, NEW es, NEW ov, NEW ow,
         ImportKnown(c, r, texts, ds, ov), ov \subseteq ow, Mine(c, es) = Mine(c, ds),
         \A k \in Mine(c, ds) : es[k] = ds[k]
  PROVE  ImportKnown(c, r, texts, es, ow)
<1>1. Firsts(c, es) = Firsts(c, ds)
  BY DEF Firsts
<1>2. \A k \in Firsts(c, ds) : k \in Mine(c, ds)
  BY DEF Firsts
<1>3. \A t : HasFirst(c, es, t) <=> HasFirst(c, ds, t)
  BY <1>1, <1>2 DEF HasFirst
<1>4. c \notin ov /\ Documented(c, r, texts, ds) => Documented(c, r, texts, es)
  <2> SUFFICES ASSUME Documented(c, r, texts, ds)
               PROVE  Documented(c, r, texts, es)
    OBVIOUS
  <2>1. \A k \in Mine(c, es) :
          /\ k[1] = r.name /\ k[2] \in r.used /\ es[k].text = texts[k[2]]
          /\ Unsaved(r) => k[2] # r.id
    BY DEF Documented
  <2>2. \A m \in r.used :
          \/ texts[m] = TrashText
          \/ Unsaved(r) /\ m = r.id
          \/ HasFirst(c, es, texts[m])
    BY <1>3 DEF Documented
  <2>3. /\ \A j, k \in Firsts(c, es) : es[j].text = es[k].text => j = k
        /\ \A k \in Firsts(c, es) : es[k].chunk = es[k].text \/ (Saved(r) /\ k = AtKey(r))
    BY <1>1, <1>2 DEF Documented
  <2>4. /\ r.pc = "save" => (r.dup <=> HasFirst(c, es, InRecord(r).text))
        /\ Saved(r) => AtKey(r) \in Mine(c, es) /\ es[AtKey(r)].dup = r.dup
        /\ r.pc = "insert" => ~r.dup
        /\ InHand(r) => texts[r.id] = InRecord(r).text /\ InRecord(r).text # TrashText
    BY <1>3 DEF Documented
  <2> QED  BY <2>1, <2>2, <2>3, <2>4 DEF Documented
<1> QED  BY <1>4 DEF ImportKnown

\* The step of an import writes the document of its record, or none.
WritesAt(d) ==
  \/ UNCHANGED <<docs, over>>
  \/ \E doc : /\ Key(d) \in DOMAIN docs
              /\ docs' = [docs EXCEPT ![Key(d)] = doc]
              /\ doc.by \in {d, docs[Key(d)].by}
              /\ over' = over \cup ({docs[Key(d)].by} \cap (Imports \ {d}))

LEMMA OthersKnow ==
  ASSUME ImportPart, ImportKnows, NEW d \in Imports, NEW c \in Imports \ {d},
         imp'[c] = imp[c], raw'[c] = raw[c], WritesAt(d)
  PROVE  ImportKnown(c, imp'[c], raw'[c], docs', over')
<1>1. ImportKnown(c, imp[c], raw[c], docs, over)
  BY DEF ImportKnows
<1>2. CASE UNCHANGED <<docs, over>>
  BY <1>1, <1>2
<1>3. ASSUME NEW doc, Key(d) \in DOMAIN docs, docs' = [docs EXCEPT ![Key(d)] = doc],
             doc.by \in {d, docs[Key(d)].by},
             over' = over \cup ({docs[Key(d)].by} \cap (Imports \ {d}))
      PROVE  ImportKnown(c, imp'[c], raw'[c], docs', over')
  <2>1. CASE docs[Key(d)].by = c
    <3>1. c \in over' /\ Key(d) \in Mine(c, docs)
      BY <1>3, <2>1 DEF Mine
    <3> QED  BY <1>1, <3>1 DEF ImportKnown
  <2>2. CASE docs[Key(d)].by # c
    <3>1. \A k \in DOMAIN docs : k # Key(d) => docs'[k] = docs[k]
      BY <1>3
    <3>2. docs'[Key(d)].by # c /\ DOMAIN docs' = DOMAIN docs
      BY <1>3, <2>2
    <3>3. Mine(c, docs') = Mine(c, docs) /\ \A k \in Mine(c, docs) : docs'[k] = docs[k]
      BY <2>2, <3>1, <3>2 DEF Mine
    <3>4. over \subseteq over'
      BY <1>3
    <3> QED  BY <1>1, <3>3, <3>4, KnownStays
  <2> QED  BY <2>1, <2>2
<1> QED  BY <1>2, <1>3 DEF WritesAt

\* A row that goes on with the raw messages it has.
LEMMA NumberedStays ==
  ASSUME NEW r, NEW s, NEW texts, Numbered(r, texts),
         s.records = r.records, s.used = r.used, s.last = r.last,
         Stored(s) = Stored(r), InHand(s) => InHand(r) /\ s.id = r.id,
         s.pc = "done" => s.done = Len(s.records)
  PROVE  Numbered(s, texts)
<1>1. PICK g \in [1 .. Stored(r) -> r.used] : Numbering(r, texts, g)
  BY DEF Numbered
<1>2. Numbering(s, texts, g)
  BY <1>1 DEF Numbering
<1> QED  BY <1>1, <1>2 DEF Numbered

LEMMA ImportKnowsInit ==
  ASSUME ImportInit
  PROVE  ImportKnows
<1> SUFFICES ASSUME NEW c \in Imports
             PROVE  ImportKnown(c, imp[c], raw[c], docs, over)
  BY DEF ImportKnows
<1>1. imp[c].pc = "off" /\ \A m \in Ids : raw[c][m] = NoText
  BY DEF ImportInit, Idle
<1>2. Mine(c, docs) = {}
  <2>1. \A k \in DOMAIN docs : docs[k].by = "nobody"
    BY DEF ImportInit, NoDoc
  <2> QED  BY <2>1, ImportAssumption DEF Mine
<1> QED  BY <1>1, <1>2 DEF ImportKnown, Kept, Going, InHand

LEMMA KnowsBegins ==
  ASSUME ImportPart, ImportKnows, NEW c \in Imports, Begins(c)
  PROVE  ImportKnows'
<1>1. imp \in [Imports -> ImportRow]
  BY ImportTypes DEF ImportPart
<1>2. PICK name \in Names, records \in Seq(Items) :
        /\ imp[c].pc = "off"
        /\ imp' = [imp EXCEPT ![c].pc = IF records = <<>> THEN "rejected" ELSE "create",
                              ![c].name = name, ![c].records = records]
        /\ UNCHANGED <<raw, docs, over>>
  BY DEF Begins
<1>3. PICK r \in ImportRow : r = imp[c]
  BY <1>1
<1> DEFINE s == [r EXCEPT !.pc = IF records = <<>> THEN "rejected" ELSE "create",
                          !.name = name, !.records = records]
<1>4. imp'[c] = s /\ \A d \in Imports \ {c} : imp'[d] = imp[d]
  BY <1>1, <1>2, <1>3
<1>5. r.done = 0 /\ r.used = {} /\ r.last = 0
  BY <1>2, <1>3 DEF ImportPart, RowFits
<1>6. /\ s.pc = (IF records = <<>> THEN "rejected" ELSE "create")
      /\ s.records = records /\ s.done = 0 /\ s.used = {} /\ s.last = 0
  BY <1>5 DEF ImportRow
<1> HIDE DEF s
<1>7. (\A m \in Ids : raw[c][m] = NoText) /\ Mine(c, docs) = {}
  BY <1>2 DEF ImportKnows, ImportKnown
<1>8. s.pc = "create" => Numbered(s, raw[c])
  <2>1. s.pc = "create" => Stored(s) = 0 /\ ~InHand(s) /\ s.records # <<>>
    BY <1>6 DEF Stored, InHand
  <2>2. <<>> \in [1 .. 0 -> {}]
    BY EmptySeq, NothingIsOnce
  <2>3. s.pc = "create" => Numbering(s, raw[c], <<>>)
    BY <1>6, <2>1 DEF Numbering
  <2> QED  BY <1>6, <1>7, <2>1, <2>2, <2>3 DEF Numbered
<1>9. s.pc = "create" => Documented(c, s, raw[c], docs)
  <2>1. s.pc = "create" => ~Unsaved(s) /\ ~Saved(s) /\ ~InHand(s)
    BY DEF Unsaved, Saved, InHand
  <2>2. Firsts(c, docs) = {}
    BY <1>7 DEF Firsts
  <2> QED  BY <1>6, <1>7, <2>1, <2>2 DEF Documented
<1>10. ImportKnown(c, s, raw[c], docs, over)
  <2>1. s.pc \in {"rejected", "create"}
    BY <1>6
  <2>2. Kept(s) => s.pc = "create"
    BY <2>1 DEF Kept, Going, InHand
  <2> QED  BY <1>8, <1>9, <2>1, <2>2 DEF ImportKnown
<1>11. ASSUME NEW d \in Imports
       PROVE  ImportKnown(d, imp'[d], raw'[d], docs', over')
  <2>1. CASE d = c
    BY <1>2, <1>4, <1>10, <2>1
  <2>2. CASE d # c
    BY <1>2, <1>4, <2>2 DEF ImportKnows
  <2> QED  BY <2>1, <2>2
<1> QED  BY <1>11 DEF ImportKnows

LEMMA StepKnows ==
  ASSUME ImportPart, ImportKnows, NEW c \in Imports,
         \A d \in Imports \ {c} : imp'[d] = imp[d] /\ raw'[d] = raw[d], WritesAt(c),
         ImportKnown(c, imp'[c], raw'[c], docs', over')
  PROVE  ImportKnows'
<1>1. \A d \in Imports : ImportKnown(d, imp'[d], raw'[d], docs', over')
  BY OthersKnow
<1> QED  BY <1>1 DEF ImportKnows

LEMMA FailureKnows ==
  ASSUME ImportPart, ImportKnows, NEW c \in Imports, Fails(c),
         \A d \in Imports \ {c} : raw'[d] = raw[d], WritesAt(c)
  PROVE  ImportKnows'
<1>1. imp \in [Imports -> ImportRow]
  BY ImportTypes DEF ImportPart
<1>2. PICK r \in ImportRow : r = imp[c]
  BY <1>1
<1>3. imp' = [imp EXCEPT ![c] = [r EXCEPT !.pc = "failed"]]
  BY <1>1, <1>2 DEF Fails, Goes
<1>4. imp'[c].pc = "failed" /\ \A d \in Imports \ {c} : imp'[d] = imp[d]
  BY <1>1, <1>3 DEF ImportRow
<1>5. ImportKnown(c, imp'[c], raw'[c], docs', over')
  BY <1>4 DEF ImportKnown, Kept, Going, InHand
<1> QED  BY <1>4, <1>5, StepKnows

LEMMA KnowsGoes ==
  ASSUME ImportPart, ImportKnows, NEW c \in Imports, CreateSource(c) \/ MarkSourceSyncSuccess(c)
  PROVE  ImportKnows'
<1>1. imp \in [Imports -> ImportRow] /\ UNCHANGED <<raw, docs, over>>
  BY ImportTypes DEF ImportPart, CreateSource, MarkSourceSyncSuccess
<1>2. PICK r \in ImportRow : r = imp[c]
  BY <1>1
<1>3. WritesAt(c)
  BY <1>1 DEF WritesAt
<1>4. CASE Fails(c)
  BY <1>1, <1>3, <1>4, FailureKnows
<1>5. ASSUME NEW pc \in {"raw", "done"}, Goes(c, pc), r.pc \in {"create", "raw"},
             pc = "done" => r.done = Len(r.records)
      PROVE  ImportKnows'
  <2> DEFINE s == [r EXCEPT !.pc = pc]
  <2>1. imp' = [imp EXCEPT ![c] = s]
    BY <1>1, <1>2, <1>5 DEF Goes
  <2>2. imp'[c] = s /\ \A d \in Imports \ {c} : imp'[d] = imp[d]
    BY <1>1, <2>1
  <2>3. /\ s.pc = pc /\ s.records = r.records /\ s.done = r.done /\ s.used = r.used
        /\ s.last = r.last /\ s.id = r.id /\ s.name = r.name
    BY DEF ImportRow
  <2> HIDE DEF s
  <2>4. /\ ~InHand(s) /\ ~InHand(r) /\ ~Unsaved(s) /\ ~Unsaved(r) /\ ~Saved(s) /\ ~Saved(r)
        /\ s.pc \notin {"off", "save", "insert"}
    BY <1>5, <2>3 DEF InHand, Unsaved, Saved
  <2>5. Numbered(r, raw[c]) /\ (c \notin over => Documented(c, r, raw[c], docs))
    BY <1>2, <1>5 DEF ImportKnows, ImportKnown, Kept, Going
  <2>6. Numbered(s, raw[c])
    <3>1. Stored(s) = Stored(r)
      BY <2>3, <2>4 DEF Stored
    <3> QED  BY <1>5, <2>3, <2>4, <2>5, <3>1, NumberedStays
  <2>7. Documented(c, r, raw[c], docs) => Documented(c, s, raw[c], docs)
    BY <2>3, <2>4 DEF Documented
  <2>8. ImportKnown(c, s, raw[c], docs, over)
    BY <2>4, <2>5, <2>6, <2>7 DEF ImportKnown
  <2> QED  BY <1>1, <1>3, <2>2, <2>8, StepKnows
<1> QED  BY <1>2, <1>4, <1>5 DEF CreateSource, MarkSourceSyncSuccess

\* A raw message is stored under a number that none has, and is the last.
LEMMA KnowsUpsert ==
  ASSUME ImportPart, ImportKnows, NEW c \in Imports, UpsertRawMessage(c)
  PROVE  ImportKnows'
<1>1. imp \in [Imports -> ImportRow] /\ raw \in [Imports -> [Ids -> Nat]]
      /\ UNCHANGED <<docs, over>>
  BY ImportTypes DEF ImportPart, UpsertRawMessage
<1>2. PICK r \in ImportRow : r = imp[c]
  BY <1>1
<1> DEFINE id == FreeId(c)
           text == Record(c).text
           stored == [raw EXCEPT ![c][id] = text]
           trash == text = TrashText
<1>3. /\ id \in Ids /\ id \notin r.used /\ r.used \subseteq Ids /\ r.pc = "raw"
      /\ r.done \in Nat /\ Len(r.records) \in Nat /\ r.done < Len(r.records)
      /\ Record(c) \in Items /\ r.last \in Nat
  BY <1>2, NumberGiven
<1>4. text \in Nat \ {0} /\ id \in Nat
  BY <1>3, IdsAreNumbers DEF Items, NoText
<1>5. WritesAt(c)
  BY <1>1 DEF WritesAt
<1>6. text = InRecord(r).text
  BY <1>2 DEF Record, InRecord
<1> HIDE DEF id, text
<1>7. PICK texts : texts = raw[c] /\ texts \in [Ids -> Nat]
  BY <1>1
<1>8. /\ \A d \in Imports \ {c} : stored[d] = raw[d]
      /\ stored[c] = [texts EXCEPT ![id] = text]
  BY <1>1, <1>7
<1> DEFINE now1 == [texts EXCEPT ![id] = text]
<1>9. now1[id] = text /\ \A m \in Ids : m # id => now1[m] = texts[m]
  BY <1>3, <1>7
<1>10. CASE raw' \in {raw, stored} /\ Fails(c)
  BY <1>5, <1>8, <1>10, FailureKnows
<1>11. CASE /\ raw' = stored
            /\ imp' = [imp EXCEPT ![c].id = id,
                         ![c].used = @ \cup {id},
                         ![c].next = IF id >= @ THEN id + 1 ELSE @,
                         ![c].pc = IF trash THEN "raw" ELSE "find",
                         ![c].done = IF trash THEN @ + 1 ELSE @,
                         ![c].last = IF id > @ THEN id ELSE @]
  <2> DEFINE s == [r EXCEPT !.id = id,
                         !.used = @ \cup {id},
                         !.next = IF id >= @ THEN id + 1 ELSE @,
                         !.pc = IF trash THEN "raw" ELSE "find",
                         !.done = IF trash THEN @ + 1 ELSE @,
                         !.last = IF id > @ THEN id ELSE @]
  <2>1. imp'[c] = s /\ \A d \in Imports \ {c} : imp'[d] = imp[d]
    BY <1>1, <1>2, <1>11
  <2>2. /\ s.id = id /\ s.used = r.used \cup {id} /\ s.records = r.records
        /\ s.pc = (IF trash THEN "raw" ELSE "find") /\ s.name = r.name
        /\ s.done = (IF trash THEN r.done + 1 ELSE r.done)
        /\ s.last = IF id > r.last THEN id ELSE r.last
    BY DEF ImportRow
  <2> HIDE DEF s, now1
  <2>3. Numbered(r, texts) /\ (c \notin over => Documented(c, r, texts, docs))
    BY <1>2, <1>3, <1>7 DEF ImportKnows, ImportKnown, Kept, Going
  <2>4. /\ ~InHand(r) /\ Stored(r) = r.done /\ Stored(s) = r.done + 1
        /\ (InHand(s) <=> ~trash) /\ (Unsaved(s) <=> ~trash) /\ ~Saved(s) /\ ~Saved(r) /\ ~Unsaved(r)
        /\ s.pc \notin {"off", "save", "insert", "done"}
        /\ (InHand(s) => s.done = r.done)
    BY <1>3, <2>2 DEF InHand, Stored, Unsaved, Saved
  <2>5. Numbered(s, now1)
    <3>1. PICK g \in [1 .. r.done -> r.used] : Numbering(r, texts, g)
      BY <2>3, <2>4 DEF Numbered
    <3> DEFINE n == r.done + 1
               h == [k \in 1 .. n |-> IF k = n THEN id ELSE g[k]]
    <3>2. /\ \A k \in 1 .. r.done : k \in 1 .. n /\ k # n /\ h[k] = g[k] /\ g[k] \in r.used
          /\ n \in 1 .. n /\ h[n] = id
          /\ \A k \in 1 .. n : k = n \/ k \in 1 .. r.done
      BY <1>3
    <3>3. h \in [1 .. n -> s.used]
      BY <2>2, <3>2
    <3> HIDE DEF h
    <3>4. \A j, k \in 1 .. n : h[j] = h[k] => j = k
      BY <1>3, <2>4, <3>1, <3>2 DEF Numbering
    <3>5. \A m \in s.used : \E k \in 1 .. n : h[k] = m
      BY <2>2, <2>4, <3>1, <3>2 DEF Numbering
    <3>6. \A k \in 1 .. n : now1[h[k]] = s.records[k].text
      <4>1. now1[id] = s.records[n].text
        BY <1>6, <1>9, <2>2 DEF InRecord
      <4>2. \A k \in 1 .. r.done : now1[g[k]] = s.records[k].text
        BY SMTT(30), <1>3, <1>9, <2>2, <2>4, <3>1, <3>2 DEF Numbering
      <4> QED  BY <3>2, <4>1, <4>2
    <3>7. Numbering(s, now1, h)
      BY <2>2, <2>4, <3>2, <3>4, <3>5, <3>6 DEF Numbering
    <3>8. {m \in Ids : now1[m] # NoText} = s.used
      BY <1>3, <1>4, <1>9, <2>2, <2>3 DEF Numbered, NoText
    <3>9. s.last \in s.used /\ \A m \in s.used : m <= s.last
      <4>1. \A m \in r.used : m <= r.last /\ m \in Nat
        BY <1>3, <2>3, IdsAreNumbers DEF Numbered
      <4>2. r.used # {} => r.last \in r.used
        BY <2>3 DEF Numbered
      <4>3. CASE id > r.last
        BY <1>3, <1>4, <2>2, <4>1, <4>3
      <4>4. CASE ~ (id > r.last) /\ r.used # {}
        BY <1>3, <1>4, <2>2, <4>1, <4>2, <4>4
      <4>5. CASE ~ (id > r.last) /\ r.used = {}
        <5>1. r.last = 0
          BY <2>3, <4>5 DEF Numbered
        <5> QED  BY <1>3, <4>5, <5>1, IdsAreNumbers
      <4> QED  BY <4>3, <4>4, <4>5
    <3>10. s.records # <<>>
      BY <2>2, <2>3 DEF Numbered
    <3> QED  BY <2>4, <3>3, <3>7, <3>8, <3>9, <3>10 DEF Numbered
  <2>6. Documented(c, r, texts, docs) => Documented(c, s, now1, docs)
    <3> SUFFICES ASSUME Documented(c, r, texts, docs)
                 PROVE  Documented(c, s, now1, docs)
      OBVIOUS
    <3>1. \A m \in r.used : now1[m] = texts[m] /\ m # id
      BY <1>3, <1>9
    <3>2. \A k \in Mine(c, docs) :
            /\ k[1] = s.name /\ k[2] \in s.used /\ docs[k].text = now1[k[2]]
            /\ Unsaved(s) => k[2] # s.id
      BY <2>2, <3>1 DEF Documented
    <3>3. \A m \in s.used :
            \/ now1[m] = TrashText
            \/ Unsaved(s) /\ m = s.id
            \/ HasFirst(c, docs, now1[m])
      BY <1>9, <2>2, <2>4, <3>1 DEF Documented
    <3>4. InHand(s) => now1[s.id] = InRecord(s).text /\ InRecord(s).text # TrashText
      <4>1. InHand(s) => InRecord(s) = InRecord(r)
        BY <2>2, <2>4 DEF InRecord
      <4> QED  BY <1>6, <1>9, <2>2, <2>4, <4>1
    <3> QED  BY <2>4, <3>2, <3>3, <3>4 DEF Documented
  <2>7. ImportKnown(c, s, now1, docs, over)
    BY <2>3, <2>4, <2>5, <2>6 DEF ImportKnown
  <2>8. raw'[c] = now1 /\ \A d \in Imports \ {c} : raw'[d] = raw[d]
    BY <1>8, <1>11 DEF now1
  <2> QED  BY <1>1, <1>5, <2>1, <2>7, <2>8, StepKnows
<1> QED  BY <1>10, <1>11 DEF UpsertRawMessage, id, text

LEMMA HandFacts ==
  ASSUME ImportPart, NEW c \in Imports, InHand(imp[c])
  PROVE  /\ imp[c] \in ImportRow /\ imp[c].done \in Nat
         /\ imp[c].id \in imp[c].used /\ imp[c].id \in Ids /\ imp[c].name \in Names
         /\ Key(c) = AtKey(imp[c]) /\ Key(c) \in DOMAIN docs
         /\ Record(c) = InRecord(imp[c]) /\ Record(c) \in Items
         /\ docs \in [Names \X Ids -> DocRow] /\ docs[Key(c)] \in DocRow
<1>1. /\ imp \in [Imports -> ImportRow] /\ docs \in [Names \X Ids -> DocRow]
  BY ImportTypes DEF ImportPart
<1>2. PICK r \in ImportRow : r = imp[c]
  BY <1>1
<1>3. RowFits(r) /\ Going(r)
  BY <1>2 DEF ImportPart, Going
<1>4. r.id \in r.used /\ r.used \subseteq Ids /\ r.name \in Names /\ r.done \in Nat
      /\ r.done < Len(r.records)
  BY <1>2, <1>3 DEF RowFits, ImportRow
<1>5. Record(c) \in Items
  BY <1>2, <1>4, RecordInHand
<1>6. Key(c) = AtKey(r) /\ AtKey(r) \in Names \X Ids
  BY <1>2, <1>4 DEF Key, AtKey
<1>7. Record(c) = InRecord(r)
  BY <1>2 DEF Record, InRecord
<1> QED  BY <1>1, <1>2, <1>4, <1>5, <1>6, <1>7

LEMMA KnowsFind ==
  ASSUME ImportPart, ImportKnows, NEW c \in Imports, FindCanonicalDocumentByHash(c)
  PROVE  ImportKnows'
<1>1. imp \in [Imports -> ImportRow] /\ UNCHANGED <<raw, docs, over>>
  BY ImportTypes DEF ImportPart, FindCanonicalDocumentByHash
<1>2. PICK r \in ImportRow : r = imp[c]
  BY <1>1
<1>3. r.pc = "find" /\ InHand(r)
  BY <1>2 DEF FindCanonicalDocumentByHash, InHand
<1>4. WritesAt(c)
  BY <1>1 DEF WritesAt
<1>5. CASE Fails(c)
  BY <1>1, <1>4, <1>5, FailureKnows
<1>6. CASE imp' = [imp EXCEPT ![c].pc = "save", ![c].dup = Canonical(c) # {}]
  <2> DEFINE dup == Canonical(c) # {}
             s == [r EXCEPT !.pc = "save", !.dup = dup]
  <2>1. imp'[c] = s /\ \A d \in Imports \ {c} : imp'[d] = imp[d]
    BY <1>1, <1>2, <1>6
  <2>2. /\ s.pc = "save" /\ s.records = r.records /\ s.done = r.done /\ s.used = r.used
        /\ s.last = r.last /\ s.id = r.id /\ s.name = r.name /\ s.dup = dup
    BY DEF ImportRow
  <2> HIDE DEF s
  <2>3. /\ InHand(s) /\ Unsaved(s) /\ Unsaved(r) /\ ~Saved(s) /\ ~Saved(r)
        /\ AtKey(s) = AtKey(r) /\ InRecord(s) = InRecord(r)
    BY <1>3, <2>2 DEF InHand, Unsaved, Saved, AtKey, InRecord
  <2>4. Numbered(r, raw[c]) /\ (c \notin over => Documented(c, r, raw[c], docs))
    BY <1>2, <1>3 DEF ImportKnows, ImportKnown, Kept, Going
  <2>5. Numbered(s, raw[c])
    <3>1. Stored(s) = Stored(r)
      BY <1>3, <2>2, <2>3 DEF Stored
    <3> QED  BY <1>3, <2>2, <2>3, <2>4, <3>1, NumberedStays
  <2>6. Documented(c, r, raw[c], docs) => Documented(c, s, raw[c], docs)
    <3> SUFFICES ASSUME Documented(c, r, raw[c], docs)
                 PROVE  Documented(c, s, raw[c], docs)
      OBVIOUS
    <3>1. AtKey(r) \notin Mine(c, docs)
      BY <2>3 DEF Documented, AtKey
    <3>2. Canonical(c) = {k \in Firsts(c, docs) : docs[k].text = InRecord(r).text}
      BY <1>2, <1>3, <3>1, HandFacts DEF Canonical, Firsts, Mine
    <3>3. dup <=> HasFirst(c, docs, InRecord(s).text)
      BY <2>3, <3>2 DEF HasFirst
    <3> HIDE DEF dup
    <3> QED  BY <1>3, <2>2, <2>3, <3>3 DEF Documented
  <2>7. ImportKnown(c, s, raw[c], docs, over)
    BY <2>2, <2>4, <2>5, <2>6 DEF ImportKnown
  <2> QED  BY <1>1, <1>4, <2>1, <2>7, StepKnows
<1> QED  BY <1>5, <1>6 DEF FindCanonicalDocumentByHash

\* The document of the record becomes one of the source.
LEMMA KnowsSave ==
  ASSUME ImportPart, ImportKnows, NEW c \in Imports, SaveDocument(c)
  PROVE  ImportKnows'
<1>1. imp \in [Imports -> ImportRow] /\ UNCHANGED raw
  BY ImportTypes DEF ImportPart, SaveDocument
<1>2. PICK r \in ImportRow : r = imp[c]
  BY <1>1
<1>3. r.pc = "save" /\ InHand(r)
  BY <1>2 DEF SaveDocument, InHand
<1>4. /\ r.id \in r.used /\ Key(c) = AtKey(r) /\ AtKey(r) \in DOMAIN docs
      /\ Record(c) = InRecord(r)
  BY <1>2, <1>3, HandFacts
<1>5. PICK d \in DocRow : d = docs[AtKey(r)]
  BY <1>2, <1>3, HandFacts
<1> DEFINE text == InRecord(r).text
           doc == [d EXCEPT !.by = c, !.text = text, !.dup = r.dup]
           execute == /\ docs' = [docs EXCEPT ![AtKey(r)] = doc]
                      /\ over' = over \cup ({docs[Key(c)].by} \cap (Imports \ {c}))
<1>6. doc.by = c /\ doc.text = text /\ doc.dup = r.dup
  BY DEF DocRow
<1>7. \/ execute /\ imp' = [imp EXCEPT ![c].pc = "delete"]
      \/ execute /\ Fails(c)
      \/ UNCHANGED <<docs, over>> /\ Fails(c)
  BY <1>2, <1>4, <1>5 DEF SaveDocument, Write
<1> HIDE DEF doc, text
<1>8. WritesAt(c)
  BY <1>4, <1>6, <1>7 DEF WritesAt
<1>9. CASE Fails(c)
  BY <1>1, <1>8, <1>9, FailureKnows
<1>10. CASE execute /\ imp' = [imp EXCEPT ![c].pc = "delete"]
  <2> DEFINE s == [r EXCEPT !.pc = "delete"]
             K == AtKey(r)
  <2>1. imp'[c] = s /\ \A e \in Imports \ {c} : imp'[e] = imp[e]
    BY <1>1, <1>2, <1>10
  <2>2. /\ s.pc = "delete" /\ s.records = r.records /\ s.done = r.done /\ s.used = r.used
        /\ s.last = r.last /\ s.id = r.id /\ s.name = r.name /\ s.dup = r.dup
    BY DEF ImportRow
  <2> HIDE DEF s
  <2>3. /\ InHand(s) /\ ~Unsaved(s) /\ Unsaved(r) /\ Saved(s) /\ ~Saved(r)
        /\ AtKey(s) = K /\ InRecord(s) = InRecord(r)
    BY <1>3, <2>2 DEF InHand, Unsaved, Saved, AtKey, InRecord
  <2>4. Numbered(r, raw[c]) /\ (c \notin over => Documented(c, r, raw[c], docs))
    BY <1>2, <1>3 DEF ImportKnows, ImportKnown, Kept, Going
  <2>5. Numbered(s, raw[c])
    <3>1. Stored(s) = Stored(r)
      BY <1>3, <2>2, <2>3 DEF Stored
    <3> QED  BY <1>3, <2>2, <2>3, <2>4, <3>1, NumberedStays
  <2>6. Documented(c, r, raw[c], docs) => Documented(c, s, raw[c], docs')
    <3> SUFFICES ASSUME Documented(c, r, raw[c], docs)
                 PROVE  Documented(c, s, raw[c], docs')
      OBVIOUS
    <3>1. K \notin Mine(c, docs) /\ K[1] = r.name /\ K[2] = r.id
      BY <2>3 DEF Documented, AtKey
    <3>2. raw[c][r.id] = text /\ text # TrashText
      BY <1>3 DEF Documented, text
    <3>3. /\ DOMAIN docs' = DOMAIN docs /\ docs'[K] = doc
          /\ \A k \in DOMAIN docs : k # K => docs'[k] = docs[k]
      BY <1>4, <1>10
    <3> HIDE DEF K
    <3>4. /\ Mine(c, docs') = Mine(c, docs) \cup {K}
          /\ \A k \in Mine(c, docs) : docs'[k] = docs[k] /\ k # K
      BY <1>4, <1>6, <3>1, <3>3 DEF Mine, K
    <3>5. Firsts(c, docs') = IF r.dup THEN Firsts(c, docs) ELSE Firsts(c, docs) \cup {K}
      BY <1>6, <3>3, <3>4 DEF Firsts
    <3>6. Firsts(c, docs) \subseteq Mine(c, docs)
      BY DEF Firsts
    <3>7. \A t : HasFirst(c, docs, t) => HasFirst(c, docs', t)
      BY <3>4, <3>5, <3>6 DEF HasFirst
    <3>8. r.dup <=> HasFirst(c, docs, text)
      BY <1>3 DEF Documented, text
    <3>9. HasFirst(c, docs', text)
      <4>1. CASE r.dup
        BY <3>7, <3>8, <4>1
      <4>2. CASE ~r.dup
        BY <1>6, <3>3, <3>5, <4>2 DEF HasFirst
      <4> QED  BY <4>1, <4>2
    <3>10. \A k \in Mine(c, docs') :
             k[1] = s.name /\ k[2] \in s.used /\ docs'[k].text = raw[c][k[2]]
      <4>1. \A k \in Mine(c, docs) : k[1] = r.name /\ k[2] \in r.used /\ docs[k].text = raw[c][k[2]]
        BY DEF Documented
      <4> QED  BY <1>4, <1>6, <2>2, <3>1, <3>2, <3>3, <3>4, <4>1
    <3>11. \A m \in s.used : raw[c][m] = TrashText \/ HasFirst(c, docs', raw[c][m])
      <4>1. \A m \in r.used : raw[c][m] = TrashText \/ m = r.id \/ HasFirst(c, docs, raw[c][m])
        BY DEF Documented
      <4> QED  BY <2>2, <3>2, <3>7, <3>9, <4>1
    <3>12. \A j, k \in Firsts(c, docs') : docs'[j].text = docs'[k].text => j = k
      <4>1. \A j, k \in Firsts(c, docs) : docs[j].text = docs[k].text => j = k
        BY DEF Documented
      <4>2. CASE r.dup
        BY <3>4, <3>5, <3>6, <4>1, <4>2
      <4>3. CASE ~r.dup
        <5>1. \A k \in Firsts(c, docs) : docs[k].text # text
          BY <3>8, <4>3 DEF HasFirst
        <5> QED  BY <1>6, <3>3, <3>4, <3>5, <3>6, <4>1, <4>3, <5>1
      <4> QED  BY <4>2, <4>3
    <3>13. \A k \in Firsts(c, docs') : docs'[k].chunk = docs'[k].text \/ k = K
      <4>1. \A k \in Firsts(c, docs) : docs[k].chunk = docs[k].text
        BY <2>3 DEF Documented
      <4> QED  BY <3>4, <3>5, <3>6, <4>1
    <3>14. K \in Mine(c, docs') /\ docs'[K].dup = s.dup
      BY <1>6, <2>2, <3>3, <3>4
    <3> QED  BY <2>2, <2>3, <3>2, <3>10, <3>11, <3>12, <3>13, <3>14 DEF Documented, text
  <2>7. ImportKnown(c, s, raw[c], docs', over')
    <3>1. over \subseteq over'
      BY <1>10
    <3> QED  BY <2>2, <2>4, <2>5, <2>6, <3>1 DEF ImportKnown
  <2> QED  BY <1>1, <1>8, <2>1, <2>7, StepKnows
<1> QED  BY <1>7, <1>9, <1>10

\* The chunk of a document of the source goes, or comes: an import leaves a
\* record when the document has the chunk or is a duplicate.
LEMMA ChunkWritten ==
  ASSUME NEW c, NEW r, NEW s, NEW texts, NEW ds, NEW es, NEW doc,
         Documented(c, r, texts, ds), Saved(r), AtKey(r) \in DOMAIN ds,
         es = [ds EXCEPT ![AtKey(r)] = doc],
         doc.by = ds[AtKey(r)].by, doc.text = ds[AtKey(r)].text, doc.dup = ds[AtKey(r)].dup,
         s.name = r.name, s.used = r.used, s.id = r.id, s.records = r.records, s.dup = r.dup,
         \/ s.pc = "insert" /\ ~r.dup /\ s.done = r.done
         \/ s.pc = "raw" /\ (r.dup \/ doc.chunk = InRecord(r).text)
  PROVE  Documented(c, s, texts, es)
<1> DEFINE K == AtKey(r)
<1>1. /\ DOMAIN es = DOMAIN ds /\ es[K] = doc
      /\ \A k \in DOMAIN ds : k # K => es[k] = ds[k]
  OBVIOUS
<1>2. K \in Mine(c, ds) /\ ds[K].dup = r.dup /\ InHand(r) /\ K[2] = r.id
  BY DEF Documented, Saved, InHand, AtKey
<1>3. texts[r.id] = InRecord(r).text /\ InRecord(r).text # TrashText /\ doc.text = InRecord(r).text
  BY <1>2 DEF Documented
<1>4. s.pc = "insert" => InRecord(s) = InRecord(r)
  BY DEF InRecord
<1>5. /\ ~Unsaved(s) /\ ~Unsaved(r) /\ (Saved(s) <=> s.pc = "insert") /\ (InHand(s) <=> s.pc = "insert")
      /\ AtKey(s) = K /\ s.pc # "save"
  BY DEF Saved, Unsaved, InHand, AtKey
<1> HIDE DEF K
<1>6. /\ \A k \in DOMAIN ds : /\ es[k].by = ds[k].by /\ es[k].text = ds[k].text
                              /\ es[k].dup = ds[k].dup
      /\ Mine(c, es) = Mine(c, ds) /\ Firsts(c, es) = Firsts(c, ds)
  <2>1. \A k \in DOMAIN ds : /\ es[k].by = ds[k].by /\ es[k].text = ds[k].text
                             /\ es[k].dup = ds[k].dup
    BY <1>1 DEF K
  <2>2. Mine(c, es) = Mine(c, ds)
    BY <1>1, <2>1 DEF Mine
  <2>3. Firsts(c, es) = Firsts(c, ds)
    BY <1>1, <2>1, <2>2 DEF Firsts, Mine
  <2> QED  BY <2>1, <2>2, <2>3
<1>7. Mine(c, ds) \subseteq DOMAIN ds /\ Firsts(c, ds) \subseteq Mine(c, ds)
  BY DEF Mine, Firsts
<1>8. \A t : HasFirst(c, es, t) <=> HasFirst(c, ds, t)
  BY <1>6, <1>7 DEF HasFirst
<1>9. \A k \in Firsts(c, es) : es[k].chunk = es[k].text \/ (Saved(s) /\ k = AtKey(s))
  <2> SUFFICES ASSUME NEW k \in Firsts(c, ds)
               PROVE  es[k].chunk = es[k].text \/ (Saved(s) /\ k = AtKey(s))
    BY <1>6
  <2>1. CASE k # K
    <3>1. ds[k].chunk = ds[k].text
      BY <2>1 DEF Documented, K
    <3> QED  BY <1>1, <1>7, <2>1, <3>1
  <2>2. CASE k = K
    <3>1. ~r.dup
      BY <1>2, <2>2 DEF Firsts
    <3>2. CASE s.pc = "insert"
      BY <1>5, <2>2, <3>2
    <3>3. CASE s.pc = "raw"
      <4>1. doc.chunk = doc.text
        BY <1>3, <3>1, <3>3
      <4> QED  BY <1>1, <2>2, <4>1
    <3> QED  BY <3>2, <3>3
  <2> QED  BY <2>1, <2>2
<1>10. \A k \in Mine(c, es) :
         /\ k[1] = s.name /\ k[2] \in s.used /\ es[k].text = texts[k[2]]
         /\ Unsaved(s) => k[2] # s.id
  BY <1>5, <1>6, <1>7 DEF Documented
<1>11. \A m \in s.used :
         \/ texts[m] = TrashText
         \/ Unsaved(s) /\ m = s.id
         \/ HasFirst(c, es, texts[m])
  BY <1>5, <1>8 DEF Documented
<1>12. \A j, k \in Firsts(c, es) : es[j].text = es[k].text => j = k
  BY <1>6, <1>7 DEF Documented
<1>13. Saved(s) => AtKey(s) \in Mine(c, es) /\ es[AtKey(s)].dup = s.dup
  BY <1>1, <1>2, <1>5, <1>6 DEF K
<1>14. InHand(s) => texts[s.id] = InRecord(s).text /\ InRecord(s).text # TrashText
  BY <1>3, <1>4, <1>5
<1>15. s.pc = "insert" => ~s.dup
  OBVIOUS
<1> QED  BY <1>5, <1>9, <1>10, <1>11, <1>12, <1>13, <1>14, <1>15 DEF Documented

LEMMA KnowsChunks ==
  ASSUME ImportPart, ImportKnows, NEW c \in Imports, DeleteChunks(c) \/ InsertChunks(c)
  PROVE  ImportKnows'
<1>1. imp \in [Imports -> ImportRow] /\ UNCHANGED raw
  BY ImportTypes DEF ImportPart, DeleteChunks, InsertChunks
<1>2. PICK r \in ImportRow : r = imp[c]
  BY <1>1
<1>3. r.pc \in {"delete", "insert"} /\ InHand(r) /\ Saved(r)
  BY <1>2 DEF DeleteChunks, InsertChunks, InHand, Saved
<1>4. /\ r.id \in r.used /\ Key(c) = AtKey(r) /\ AtKey(r) \in DOMAIN docs
      /\ Record(c) = InRecord(r) /\ r.done \in Nat
  BY <1>2, <1>3, HandFacts
<1>5. PICK d \in DocRow : d = docs[AtKey(r)]
  BY <1>2, <1>3, HandFacts
<1>6. Numbered(r, raw[c]) /\ (c \notin over => Documented(c, r, raw[c], docs))
  BY <1>2, <1>3 DEF ImportKnows, ImportKnown, Kept, Going
<1>7. ASSUME NEW x, NEW s \in ImportRow, Write(c, [docs[Key(c)] EXCEPT !.chunk = x],
                                               [imp EXCEPT ![c] = s]),
             s.name = r.name, s.used = r.used, s.id = r.id, s.records = r.records,
             s.dup = r.dup, s.last = r.last,
             \/ s.pc = "insert" /\ ~r.dup /\ s.done = r.done
             \/ s.pc = "raw" /\ s.done = r.done + 1 /\ (r.dup \/ x = InRecord(r).text)
      PROVE  ImportKnows'
  <2> DEFINE doc == [d EXCEPT !.chunk = x]
             execute == /\ docs' = [docs EXCEPT ![AtKey(r)] = doc]
                        /\ over' = over \cup ({docs[Key(c)].by} \cap (Imports \ {c}))
  <2>1. /\ doc.by = d.by /\ doc.text = d.text /\ doc.dup = d.dup /\ doc.chunk = x
    BY DEF DocRow
  <2>2. \/ execute /\ imp' = [imp EXCEPT ![c] = s]
        \/ execute /\ Fails(c)
        \/ UNCHANGED <<docs, over>> /\ Fails(c)
    BY <1>2, <1>4, <1>5, <1>7 DEF Write
  <2> HIDE DEF doc
  <2>3. WritesAt(c)
    BY <1>4, <1>5, <2>1, <2>2 DEF WritesAt
  <2>4. CASE Fails(c)
    BY <1>1, <2>3, <2>4, FailureKnows
  <2>5. CASE execute /\ imp' = [imp EXCEPT ![c] = s]
    <3>1. imp'[c] = s /\ \A e \in Imports \ {c} : imp'[e] = imp[e]
      BY <1>1, <2>5
    <3>2. Numbered(s, raw[c])
      <4>1. Stored(s) = Stored(r) /\ (InHand(s) => s.pc = "insert") /\ s.pc # "done"
        BY <1>3, <1>4, <1>7 DEF Stored, InHand
      <4> QED  BY <1>3, <1>6, <1>7, <4>1, NumberedStays
    <3>3. Documented(c, r, raw[c], docs) => Documented(c, s, raw[c], docs')
      BY <1>3, <1>4, <1>5, <1>7, <2>1, <2>5, ChunkWritten
    <3>4. over \subseteq over' /\ s.pc # "off"
      BY <1>7, <2>5
    <3>5. ImportKnown(c, s, raw[c], docs', over')
      BY <1>6, <3>2, <3>3, <3>4 DEF ImportKnown
    <3> QED  BY <1>1, <2>3, <3>1, <3>5, StepKnows
  <2> QED  BY <2>2, <2>4, <2>5
<1> DEFINE gone == [r EXCEPT !.pc = "raw", !.done = r.done + 1]
           on == [r EXCEPT !.pc = "insert"]
<1>8. /\ gone \in ImportRow /\ gone.pc = "raw" /\ gone.done = r.done + 1
      /\ gone.name = r.name /\ gone.used = r.used /\ gone.id = r.id /\ gone.records = r.records
      /\ gone.dup = r.dup /\ gone.last = r.last
      /\ NextRecord(c) = [imp EXCEPT ![c] = gone]
  <2> DEFINE n == r.done + 1
  <2>1. n \in Nat
    BY <1>4
  <2>2. NextRecord(c) = [imp EXCEPT ![c] = gone]
    BY <1>1, <1>2 DEF NextRecord
  <2> HIDE DEF n
  <2>3. [r EXCEPT !.pc = "raw", !.done = n] \in ImportRow
    BY <2>1 DEF ImportRow
  <2>4. gone \in ImportRow
    BY <2>3 DEF n
  <2>5. /\ gone.pc = "raw" /\ gone.done = r.done + 1
        /\ gone.name = r.name /\ gone.used = r.used /\ gone.id = r.id /\ gone.records = r.records
        /\ gone.dup = r.dup /\ gone.last = r.last
    BY DEF ImportRow
  <2> HIDE DEF gone
  <2> QED  BY <2>2, <2>4, <2>5
<1>9. /\ on \in ImportRow /\ on.pc = "insert" /\ on.done = r.done
      /\ on.name = r.name /\ on.used = r.used /\ on.id = r.id /\ on.records = r.records
      /\ on.dup = r.dup /\ on.last = r.last
      /\ [imp EXCEPT ![c].pc = "insert"] = [imp EXCEPT ![c] = on]
  <2>1. on \in ImportRow
    BY DEF ImportRow
  <2>2. /\ on.pc = "insert" /\ on.done = r.done
        /\ on.name = r.name /\ on.used = r.used /\ on.id = r.id /\ on.records = r.records
        /\ on.dup = r.dup /\ on.last = r.last
    BY DEF ImportRow
  <2>3. [imp EXCEPT ![c].pc = "insert"] = [imp EXCEPT ![c] = on]
    BY <1>1, <1>2
  <2> HIDE DEF on
  <2> QED  BY <2>1, <2>2, <2>3
<1> HIDE DEF gone, on
<1>10. CASE DeleteChunks(c)
  <2>1. CASE r.dup
    <3>1. Write(c, [docs[Key(c)] EXCEPT !.chunk = NoText], [imp EXCEPT ![c] = gone])
      BY <1>2, <1>8, <1>10, <2>1 DEF DeleteChunks
    <3> QED  BY <1>7, <1>8, <2>1, <3>1
  <2>2. CASE ~r.dup
    <3>1. Write(c, [docs[Key(c)] EXCEPT !.chunk = NoText], [imp EXCEPT ![c] = on])
      BY <1>2, <1>9, <1>10, <2>2 DEF DeleteChunks
    <3> QED  BY <1>7, <1>9, <2>2, <3>1
  <2> QED  BY <2>1, <2>2
<1>11. CASE InsertChunks(c)
  <2>1. Write(c, [docs[Key(c)] EXCEPT !.chunk = Record(c).text], [imp EXCEPT ![c] = gone])
    BY <1>8, <1>11 DEF InsertChunks
  <2>2. Write(c, [docs[Key(c)] EXCEPT !.chunk = InRecord(r).text], [imp EXCEPT ![c] = gone])
    BY <1>4, <2>1
  <2> QED  BY <1>7, <1>8, <2>2
<1> QED  BY <1>10, <1>11

LEMMA ImportKnowsNext ==
  ASSUME ImportPart, ImportKnows, ImportActs
  PROVE  ImportKnows'
<1>1. CASE UNCHANGED importVars
  BY <1>1 DEF importVars, ImportKnows
<1>2. ASSUME NEW c \in Imports, ImportStep(c)
      PROVE  ImportKnows'
  BY <1>2, KnowsGoes, KnowsUpsert, KnowsFind, KnowsSave, KnowsChunks DEF ImportStep
<1> QED  BY <1>1, <1>2, KnowsBegins DEF ImportActs

LEMMA ImportKnowsAlways == Spec => []ImportKnows
<1>1. Init => ImportKnows
  BY ImportKnowsInit DEF Init
<1>2. TypeInv /\ ImportKnows /\ [Next]_vars => ImportKnows'
  BY NextActs, ImportKnowsNext DEF TypeInv
<1> QED  BY <1>1, <1>2, TypeInvAlways, PTL DEF Spec

\* A set whose members are numbered by another, each once, is as large.
LEMMA SameNumber ==
  ASSUME NEW S, NEW T, IsFiniteSet(S), NEW f \in [S -> T],
         \A a, b \in S : f[a] = f[b] => a = b,
         \A t \in T : \E a \in S : f[a] = t
  PROVE  IsFiniteSet(T) /\ Cardinality(T) = Cardinality(S)
<1>1. f \in Injection(S, T)
  BY DEF Injection, IsInjective
<1>2. f \in Surjection(S, T)
  BY DEF Surjection
<1>3. ExistsBijection(S, T)
  BY <1>1, <1>2 DEF ExistsBijection, Bijection
<1> QED  BY <1>3, FS_Bijection

\* What an import knows when it is done is what its properties promise: of the
\* ids it has stored, how many have a text.
LEMMA DoneHasNumbers ==
  ASSUME NEW r \in ImportRow, NEW texts, Numbered(r, texts), r.pc = "done"
  PROVE  /\ Cardinality(r.used) = Len(r.records)
         /\ \A t : Cardinality({m \in r.used : texts[m] = t})
                     = Cardinality({k \in 1 .. Len(r.records) : r.records[k].text = t})
         /\ \A k \in 1 .. Len(r.records) : \E m \in r.used : texts[m] = r.records[k].text
         /\ r.used # {}
<1> DEFINE n == Len(r.records)
<1>1. /\ n \in Nat /\ n # 0 /\ Stored(r) = n
  BY DEF ImportRow, Numbered, Stored, InHand
<1>2. PICK g \in [1 .. n -> r.used] : Numbering(r, texts, g)
  BY <1>1 DEF Numbered
<1>3. /\ \A j, k \in 1 .. n : g[j] = g[k] => j = k
      /\ \A m \in r.used : \E k \in 1 .. n : g[k] = m
      /\ \A k \in 1 .. n : texts[g[k]] = r.records[k].text
  BY <1>1, <1>2 DEF Numbering
<1>4. IsFiniteSet(1 .. n) /\ Cardinality(1 .. n) = n
  BY <1>1, CountTo
<1> HIDE DEF n
<1>5. Cardinality(r.used) = n
  <2> DEFINE S == 1 .. n
  <2>1. /\ g \in [S -> r.used] /\ IsFiniteSet(S) /\ Cardinality(S) = n
        /\ \A a, b \in S : g[a] = g[b] => a = b
        /\ \A m \in r.used : \E a \in S : g[a] = m
    BY <1>3, <1>4
  <2> HIDE DEF S
  <2> QED  BY <2>1, SameNumber
<1>6. ASSUME NEW t
      PROVE  Cardinality({m \in r.used : texts[m] = t})
               = Cardinality({k \in 1 .. n : r.records[k].text = t})
  <2> DEFINE S == {k \in 1 .. n : r.records[k].text = t}
             T == {m \in r.used : texts[m] = t}
             f == [k \in S |-> g[k]]
  <2>1. IsFiniteSet(S)
    BY <1>4, FS_Subset
  <2>2. f \in [S -> T]
    BY <1>3
  <2>3. \A a, b \in S : f[a] = f[b] => a = b
    BY <1>3
  <2>4. \A m \in T : \E a \in S : f[a] = m
    BY <1>3
  <2> HIDE DEF S, T, f
  <2>5. Cardinality(T) = Cardinality(S)
    BY <2>1, <2>2, <2>3, <2>4, SameNumber
  <2> QED  BY <2>5 DEF S, T
<1>7. /\ \A k \in 1 .. n : \E m \in r.used : texts[m] = r.records[k].text
      /\ r.used # {}
  BY <1>1, <1>3
<1> QED  BY <1>5, <1>6, <1>7 DEF n

\* Each of its texts has one document that is no duplicate, and its chunk.
DocsOf(c, ds, t) ==
  {k \in DOMAIN ds : ds[k].by = c /\ ds[k].text = t /\ ~ds[k].dup}

HasOneDoc(c, ds, t) ==
  /\ Cardinality(DocsOf(c, ds, t)) = 1
  /\ \A k \in DocsOf(c, ds, t) : ds[k].chunk = t

LEMMA DoneHasDocuments ==
  ASSUME NEW c, NEW r, NEW texts, NEW ds, NEW m \in r.used, r.pc = "done",
         Documented(c, r, texts, ds), texts[m] # TrashText
  PROVE  HasOneDoc(c, ds, texts[m])
<1> DEFINE found == DocsOf(c, ds, texts[m])
<1>1. ~Unsaved(r) /\ ~Saved(r)
  BY DEF Unsaved, Saved
<1>2. PICK k \in Firsts(c, ds) : ds[k].text = texts[m]
  BY <1>1 DEF Documented, HasFirst
<1>3. k \in found /\ \A j \in found : j = k
  BY <1>2 DEF Documented, Firsts, Mine, DocsOf
<1>4. found = {k}
  BY <1>3
<1>5. Cardinality(found) = 1
  BY <1>4, FS_Singleton
<1>6. ds[k].chunk = texts[m]
  BY <1>1, <1>2 DEF Documented
<1> QED  BY <1>2, <1>4, <1>5, <1>6 DEF HasOneDoc

LEMMA KnowsImportIsWhole ==
  ASSUME ImportPart, ImportKnows
  PROVE  ImportIsWhole
<1> SUFFICES ASSUME NEW c \in Imports, imp[c].pc = "done"
             PROVE  LET texts == [k \in 1 .. Len(imp[c].records) |-> imp[c].records[k].text]
                        stored == {m \in Ids : raw[c][m] # NoText}
                    IN /\ Cardinality(stored) = Len(texts)
                       /\ \A t \in Range(texts) :
                            /\ Cardinality({m \in stored : raw[c][m] = t})
                                 = Cardinality({k \in DOMAIN texts : texts[k] = t})
                            /\ c \notin over /\ t # TrashText =>
                                 LET found == {k \in DOMAIN docs : docs[k].by = c /\ docs[k].text = t
                                                                   /\ ~docs[k].dup}
                                 IN Cardinality(found) = 1 /\ \A k \in found : docs[k].chunk = t
                       /\ imp[c].last = Max(stored)
  BY DEF ImportIsWhole
<1> DEFINE records == imp[c].records
           n == Len(records)
           texts == [k \in 1 .. n |-> records[k].text]
           stored == {m \in Ids : raw[c][m] # NoText}
           used == imp[c].used
<1>1. PICK r \in ImportRow : r = imp[c]
  BY ImportTypes DEF ImportPart
<1>2. /\ Numbered(r, raw[c])
      /\ c \notin over => Documented(c, r, raw[c], docs)
  BY <1>1 DEF ImportKnows, ImportKnown, Kept
<1>3. /\ Cardinality(used) = n
      /\ \A t : Cardinality({m \in used : raw[c][m] = t})
                  = Cardinality({k \in 1 .. n : records[k].text = t})
      /\ \A k \in 1 .. n : \E m \in used : raw[c][m] = records[k].text
      /\ used # {}
  BY <1>1, <1>2, DoneHasNumbers
<1>4. stored = used /\ used \subseteq Ids
  BY <1>1, <1>2 DEF Numbered, ImportRow
<1>5. n \in Nat
  BY <1>1 DEF ImportRow
<1>6. imp[c].last = Max(stored)
  <2>1. imp[c].last \in used /\ \A m \in used : m <= imp[c].last
    BY <1>1, <1>2, <1>3 DEF Numbered
  <2>2. used \subseteq Nat
    BY <1>4, IdsAreNumbers
  <2>3. ASSUME NEW x \in used, \A y \in used : x >= y
        PROVE  x = imp[c].last
    BY <2>1, <2>2, <2>3
  <2>4. \A y \in used : imp[c].last >= y
    BY <2>1, <2>2
  <2> HIDE DEF used
  <2>5. Max(used) = imp[c].last
    BY <2>1, <2>3, <2>4 DEF Max
  <2> QED  BY <2>5, <1>4
<1>7. Cardinality(stored) = Len(texts)
  <2>1. Len(texts) = n
    BY <1>5
  <2>2. Cardinality(stored) = Cardinality(used)
    BY <1>4
  <2> QED  BY <1>3, <2>1, <2>2
<1>8. ASSUME NEW t \in Range(texts)
      PROVE  /\ Cardinality({m \in stored : raw[c][m] = t})
                  = Cardinality({k \in DOMAIN texts : texts[k] = t})
             /\ c \notin over /\ t # TrashText =>
                  LET found == {k \in DOMAIN docs : docs[k].by = c /\ docs[k].text = t
                                                    /\ ~docs[k].dup}
                  IN Cardinality(found) = 1 /\ \A k \in found : docs[k].chunk = t
  <2>1. {k \in DOMAIN texts : texts[k] = t} = {k \in 1 .. n : records[k].text = t}
    OBVIOUS
  <2>2. Cardinality({m \in stored : raw[c][m] = t})
          = Cardinality({k \in DOMAIN texts : texts[k] = t})
    BY <1>3, <1>4, <2>1
  <2>3. PICK m \in used : raw[c][m] = t
    BY <1>3 DEF Range
  <2>4. ASSUME c \notin over, t # TrashText
        PROVE  LET found == {k \in DOMAIN docs : docs[k].by = c /\ docs[k].text = t
                                                 /\ ~docs[k].dup}
               IN Cardinality(found) = 1 /\ \A k \in found : docs[k].chunk = t
    <3>1. Documented(c, r, raw[c], docs)
      BY <1>2, <2>4
    <3>2. m \in r.used /\ r.pc = "done" /\ raw[c][m] # TrashText
      BY <1>1, <2>3, <2>4
    <3> HIDE DEF texts, used
    <3>3. HasOneDoc(c, docs, t)
      BY <2>3, <3>1, <3>2, DoneHasDocuments
    <3> QED  BY <3>3 DEF HasOneDoc, DocsOf
  <2> QED  BY <2>2, <2>4
<1> QED  BY <1>6, <1>7, <1>8

\* An import that reports success has stored every record of its payload under
\* an id of its own, with the largest id as the last one, and left exactly one
\* document with its chunk for each text that is no trash, unless another
\* import of the same name wrote into it.
THEOREM DoneImportsAreWhole == Spec => []ImportIsWhole
<1>1. TypeInv /\ ImportKnows => ImportIsWhole
  BY KnowsImportIsWhole DEF TypeInv
<1> QED  BY <1>1, TypeInvAlways, ImportKnowsAlways, PTL

-----------------------------------------------------------------------------
(***************************************************************************)
(* What a search knows: s is the search, alw what has been online all the  *)
(* time, clean says that nothing changed under it and nothing was cut.     *)
(***************************************************************************)
Inside(w, v) == PostedAt[v] >= w.from /\ PostedAt[v] <= w.to
Clean == ~stale /\ ~search.truncated

\* The windows that are left go from the newest to the oldest.
InOrder(left) == \A i, j \in DOMAIN left : i < j => left[j].to < left[i].from
Waits(left, v) == \E i \in DOMAIN left : Inside(left[i], v)

\* Collected, or still to come.
Accounted(s, v) == ~Inside(Window, v) \/ v \in Range(s.items) \/ Waits(s.left, v)

Overtaken(s, v) ==
  Len(s.items) >= s.max /\ \A u \in Range(s.items) : PostedAt[u] >= PostedAt[v]

\* Between windows: all that is collected is newer than all that is to come.
Between(s, alw, clean) ==
  /\ InOrder(s.left)
  /\ \A u \in Range(s.items) : \A i \in DOMAIN s.left : PostedAt[u] > s.left[i].to
  /\ clean => \A v \in alw : Accounted(s, v) \/ Overtaken(s, v)

\* In a window, where HeadHunter has F: of them the first ranks are collected,
\* as many as the pages that are read hold, and the pages to read hold all of
\* them or as many as are wanted.
Earlier(s) == {u \in Range(s.items) : PostedAt[u] > s.left[1].to}

Leading(s, F) ==
  /\ \A u \in Range(s.items) : PostedAt[u] > s.left[1].to \/ u \in F
  /\ \A u \in Range(s.items) \cap F : \A v \in F : Newer(v, u) => v \in Range(s.items)
  /\ \/ Len(s.items) >= s.max
     \/ \A v \in F : Rank(F, v) < s.page * PerPage => v \in Range(s.items)

Enough(s, F) ==
  \/ s.pages * PerPage >= Cardinality(F)
  \/ s.pages * PerPage + Cardinality(Earlier(s)) >= s.max

InWindow(s, F, alw, clean) ==
  /\ InOrder(s.left)
  /\ \A u \in Range(s.items) : PostedAt[u] >= s.left[1].from
  /\ clean => (\A v \in alw : Accounted(s, v)) /\ Leading(s, F) /\ Enough(s, F)

Latest(s, alw, clean) ==
  clean => \A v \in alw : ~Inside(Window, v) \/ v \in Range(s.items) \/ Overtaken(s, v)

SearchKnown(s, F, alw, clean) ==
  /\ s.pc = "windows" => Between(s, alw, clean)
  /\ s.pc = "pages" => InWindow(s, F, alw, clean)
  /\ s.pc = "collected" => Latest(s, alw, clean)

SearchKnows == SearchKnown(search, Found(Current), always, Clean)

LEMMA SearchElements ==
  ASSUME VacPart
  PROVE  /\ \A u \in Range(search.items) : u \in Vacancies /\ PostedAt[u] \in Nat
         /\ \A v \in always : v \in Vacancies /\ v \in online /\ PostedAt[v] \in Nat
         /\ \A i \in DOMAIN search.left :
              search.left[i].from \in Nat /\ search.left[i].to \in Nat
<1>1. /\ search.left \in Seq(Windows) /\ search.items \in Seq(Vacancies)
      /\ always \subseteq online /\ online \subseteq Vacancies
      /\ PostedAt \in [Vacancies -> Nat]
  BY VacTypes, VacancyAssumption DEF VacPart
<1>2. \A i \in DOMAIN search.left : search.left[i] \in Windows
  BY <1>1, LenProperties, ElementOfSeq
<1>3. \A i \in DOMAIN search.items : search.items[i] \in Vacancies
  BY <1>1, LenProperties, ElementOfSeq
<1> QED  BY <1>1, <1>2, <1>3 DEF Range, Windows

LEMMA RestOfWindows ==
  ASSUME VacPart, search.left # <<>>, InOrder(search.left)
  PROVE  /\ InOrder(Tail(search.left))
         /\ \A i \in DOMAIN Tail(search.left) :
              /\ Tail(search.left)[i].to \in Nat /\ Tail(search.left)[i].to < Current.from
              /\ \E j \in DOMAIN search.left : Tail(search.left)[i] = search.left[j]
         /\ \A v : Waits(search.left, v) => Inside(Current, v) \/ Waits(Tail(search.left), v)
<1> DEFINE left == search.left
           tail == Tail(left)
           n == Len(left)
<1>1. /\ n \in Nat \ {0} /\ DOMAIN left = 1 .. n /\ DOMAIN tail = 1 .. n - 1
      /\ \A i \in 1 .. n - 1 : i + 1 \in DOMAIN left /\ tail[i] = left[i + 1]
      /\ Current = left[1] /\ left \in Seq(Windows)
  BY HeadOfWindows, VacTypes DEF VacPart
<1>2. InOrder(left)
  OBVIOUS
<1>3. \A i \in 1 .. n : left[i].to \in Nat /\ left[i].from \in Nat
  BY <1>1, SearchElements
<1> HIDE DEF tail, n, left
<1>4. InOrder(tail)
  <2> SUFFICES ASSUME NEW i \in 1 .. n - 1, NEW j \in 1 .. n - 1, i < j
               PROVE  tail[j].to < tail[i].from
    BY <1>1 DEF InOrder
  <2>1. i + 1 < j + 1 /\ i + 1 \in DOMAIN left /\ j + 1 \in DOMAIN left
    BY <1>1
  <2>2. left[j + 1].to < left[i + 1].from
    BY <1>2, <2>1 DEF InOrder
  <2> QED  BY <1>1, <2>2
<1>5. ASSUME NEW i \in 1 .. n - 1
      PROVE  /\ tail[i].to \in Nat /\ tail[i].to < left[1].from
             /\ \E j \in DOMAIN left : tail[i] = left[j]
  <2>1. 1 < i + 1 /\ i + 1 \in DOMAIN left /\ 1 \in DOMAIN left /\ tail[i] = left[i + 1]
    BY <1>1
  <2>2. left[i + 1].to < left[1].from
    BY <1>2, <2>1 DEF InOrder
  <2> QED  BY <1>1, <1>3, <2>1, <2>2
<1>6. ASSUME NEW v, Waits(left, v), ~Inside(left[1], v)
      PROVE  Waits(tail, v)
  <2>1. PICK i \in DOMAIN left : Inside(left[i], v)
    BY <1>6 DEF Waits
  <2>2. i # 1
    BY <1>6, <2>1
  <2>3. i - 1 \in 1 .. n - 1 /\ (i - 1) + 1 = i
    BY <1>1, <2>1, <2>2
  <2>4. tail[i - 1] = left[i]
    BY <1>1, <2>3
  <2> QED  BY <1>1, <2>1, <2>3, <2>4 DEF Waits
<1>7. /\ InOrder(tail)
      /\ \A i \in DOMAIN tail :
           /\ tail[i].to \in Nat /\ tail[i].to < Current.from
           /\ \E j \in DOMAIN left : tail[i] = left[j]
      /\ \A v : Waits(left, v) => Inside(Current, v) \/ Waits(tail, v)
  BY <1>1, <1>4, <1>5, <1>6
<1> QED  BY <1>7 DEF tail, left

LEMMA SearchKnowsInit ==
  ASSUME VacancyInit
  PROVE  SearchKnows
BY DEF VacancyInit, SearchKnows, SearchKnown

LEMMA KnowsStart ==
  ASSUME VacPart, NEW max \in MaxItems, StartSearch(max)
  PROVE  SearchKnows'
<1>1. search \in SearchRow /\ search.items = <<>>
  BY VacTypes DEF VacPart, RowSearches, StartSearch
<1>2. /\ search'.pc = "windows" /\ search'.left = <<Window>> /\ search'.items = <<>>
  BY <1>1 DEF StartSearch, SearchRow
<1>3. DOMAIN <<Window>> = 1 .. 1 /\ <<Window>>[1] = Window
  OBVIOUS
<1>4. InOrder(<<Window>>)
  BY <1>3 DEF InOrder
<1>5. \A v : Inside(Window, v) => Waits(<<Window>>, v)
  BY <1>3 DEF Waits
<1>6. Between(search', always', Clean')
  BY <1>2, <1>4, <1>5, NothingIsOnce DEF Between, Accounted
<1> QED  BY <1>2, <1>6 DEF SearchKnows, SearchKnown

\* What HeadHunter has changes.
LEMMA KnowsChanges ==
  ASSUME VacPart, SearchKnows, HeadHunterChanges
  PROVE  SearchKnows'
<1>1. /\ search' = search /\ always' \subseteq always /\ always' \subseteq online'
      /\ Clean' => Clean
  BY DEF HeadHunterChanges, Clean
<1>2. CASE search.pc = "windows"
  BY <1>1, <1>2 DEF SearchKnows, SearchKnown, Between
<1>3. CASE search.pc = "pages"
  <2>1. ASSUME Clean'
        PROVE  Found(Current)' = Found(Current)
    <3>1. PICK v \in Vacancies :
            /\ online' = online \cup {v} \/ online' = online \ {v}
            /\ ~ (PostedAt[v] >= Current.from /\ PostedAt[v] <= Current.to)
      BY <1>3, <2>1 DEF HeadHunterChanges, Clean
    <3>2. Current' = Current
      BY <1>1 DEF Current
    <3> QED  BY <3>1, <3>2 DEF Found
  <2>2. InWindow(search, Found(Current)', always', Clean')
    BY <1>1, <1>3, <2>1 DEF SearchKnows, SearchKnown, InWindow
  <2> QED  BY <1>1, <1>3, <2>2 DEF SearchKnows, SearchKnown
<1> QED  BY <1>1, <1>2, <1>3 DEF HeadHunterChanges, Searching

\* A window without vacancies had none of those that were online all the time.
LEMMA KnowsEmpty ==
  ASSUME VacPart, SearchKnows, ProbeEmpty
  PROVE  SearchKnows'
<1>1. /\ search \in SearchRow /\ search.left # <<>> /\ search.pc = "windows"
      /\ always \subseteq online /\ Found(Current) = {}
  BY VacTypes DEF VacPart, ProbeEmpty, Probes
<1>2. /\ search'.pc = "windows" /\ search'.left = Tail(search.left)
      /\ search'.items = search.items /\ search'.max = search.max
      /\ search'.truncated = search.truncated
      /\ always' = always /\ Clean' = Clean
  BY <1>1 DEF ProbeEmpty, SearchRow, Clean
<1>3. Between(search, always, Clean)
  BY <1>1 DEF SearchKnows, SearchKnown
<1>4. \A v \in always : ~Inside(Current, v)
  BY <1>1 DEF Found, Inside
<1>5. InOrder(search'.left)
  BY <1>1, <1>2, <1>3, RestOfWindows DEF Between
<1>6. \A u \in Range(search'.items) : \A i \in DOMAIN search'.left :
        PostedAt[u] > search'.left[i].to
  BY <1>1, <1>2, <1>3, RestOfWindows DEF Between
<1>7. ASSUME NEW v \in always, Clean
      PROVE  Accounted(search', v) \/ Overtaken(search', v)
  <2>1. CASE Overtaken(search, v)
    BY <1>2, <2>1 DEF Overtaken
  <2>2. CASE Accounted(search, v)
    <3>1. Waits(search.left, v) => Waits(search'.left, v)
      BY <1>1, <1>2, <1>3, <1>4, RestOfWindows DEF Between
    <3> QED  BY <1>2, <2>2, <3>1 DEF Accounted
  <2> QED  BY <1>3, <1>7, <2>1, <2>2 DEF Between
<1>8. Between(search', always', Clean')
  BY <1>2, <1>5, <1>6, <1>7 DEF Between
<1> QED  BY <1>2, <1>8 DEF SearchKnows, SearchKnown

\* The search is over: all windows are read, or it is full.
LEMMA KnowsCollected ==
  ASSUME VacPart, SearchKnows, Collected
  PROVE  SearchKnows'
<1>1. /\ search \in SearchRow /\ search.pc = "windows" /\ search.left \in Seq(Windows)
      /\ always \subseteq Vacancies /\ search.items \in Seq(Vacancies)
  BY VacTypes DEF VacPart, Collected
<1>2. /\ search'.pc \in {"failed", "collected"} /\ search'.left = search.left
      /\ search'.items = search.items /\ search'.max = search.max
      /\ always' = always /\ Clean' = Clean
  BY <1>1 DEF Collected, SearchRow, Clean
<1>3. Between(search, always, Clean)
  BY <1>1 DEF SearchKnows, SearchKnown
<1>4. ASSUME NEW v \in always, Clean, Inside(Window, v), v \notin Range(search.items)
      PROVE  Overtaken(search, v)
  <2>1. CASE Accounted(search, v)
    <3>1. PICK i \in DOMAIN search.left : Inside(search.left[i], v)
      BY <1>4, <2>1 DEF Accounted, Waits
    <3>2. search.left # <<>>
      BY <3>1, NothingIsOnce
    <3>3. Full
      BY <3>2 DEF Collected
    <3>4. search.left[i].to \in Nat /\ PostedAt[v] \in Nat
      BY <3>1, SearchElements
    <3>5. ASSUME NEW u \in Range(search.items)
          PROVE  PostedAt[u] >= PostedAt[v]
      <4>1. PostedAt[u] > search.left[i].to /\ search.left[i].to >= PostedAt[v]
        BY <1>3, <3>1, <3>4 DEF Between, Inside
      <4>2. PostedAt[u] \in Nat
        BY SearchElements
      <4> QED  BY <3>4, <4>1, <4>2
    <3> QED  BY <3>3, <3>5 DEF Overtaken, Full
  <2> QED  BY <1>3, <1>4, <2>1 DEF Between
<1>5. Latest(search', always', Clean')
  BY <1>2, <1>4 DEF Latest, Overtaken
<1> QED  BY <1>2, <1>5 DEF SearchKnows, SearchKnown

\* A window is halved: all that waited in it waits in one of the halves.
LEMMA KnowsSplit ==
  ASSUME VacPart, SearchKnows, ProbeSplit
  PROVE  SearchKnows'
<1> DEFINE left == search.left
           h == Halves(Current)
           both == h \o Tail(left)
           n == Len(left)
<1>1. /\ search \in SearchRow /\ left # <<>> /\ search.pc = "windows"
      /\ Between(search, always, Clean)
  BY VacTypes DEF VacPart, ProbeSplit, Probes, SearchKnows, SearchKnown
<1>2. /\ Current = left[1] /\ Current \in Windows
      /\ Current.from \in Nat /\ Current.to \in Nat
      /\ n \in Nat \ {0} /\ DOMAIN left = 1 .. n
  BY <1>1, HeadOfWindows
<1>3. Current.to - Current.from > 1
  BY <1>2 DEF ProbeSplit, IsLeaf
<1>4. /\ DOMAIN both = 1 .. n + 1 /\ both[1] = h[1] /\ both[2] = h[2]
      /\ \A i \in 3 .. n + 1 : i - 1 \in 2 .. n /\ both[i] = left[i - 1]
  BY <1>1, <1>3, WindowsSplit
<1>5. /\ h \in Seq(Windows) /\ Len(h) = 2
      /\ h[1].from <= h[1].to /\ h[2].from <= h[2].to
      /\ h[1].to = Current.to /\ h[2].from = Current.from /\ h[1].from = h[2].to + 1
  BY <1>2, <1>3, HalvesOfWindow
<1>6. /\ h[1].from \in Nat /\ h[1].to \in Nat /\ h[2].from \in Nat /\ h[2].to \in Nat
  <2>1. h \in Seq(Windows) /\ 1 \in 1 .. Len(h) /\ 2 \in 1 .. Len(h)
    BY <1>5
  <2> HIDE DEF h
  <2>2. h[1] \in Windows /\ h[2] \in Windows
    BY <2>1, ElementOfSeq
  <2> QED  BY <2>2 DEF Windows
<1>7. /\ search'.pc = "windows" /\ search'.left = both
      /\ search'.items = search.items /\ search'.max = search.max
      /\ search'.truncated = search.truncated
      /\ always' = always /\ Clean' = Clean
  BY <1>1 DEF ProbeSplit, SearchRow, Clean
<1> HIDE DEF h, both, n
<1>8. \A i \in DOMAIN both : i = 1 \/ i = 2 \/ i \in 3 .. n + 1
  BY <1>2, <1>4
<1>9. \A i \in DOMAIN left : left[i].from \in Nat /\ left[i].to \in Nat
  BY SearchElements
<1>10. InOrder(both)
  <2> SUFFICES ASSUME NEW i \in DOMAIN both, NEW j \in DOMAIN both, i < j
               PROVE  both[j].to < both[i].from
    BY DEF InOrder
  <2>1. CASE i = 1 /\ j = 2
    BY <1>4, <1>5, <1>6, <2>1
  <2>2. CASE i \in {1, 2} /\ j \in 3 .. n + 1
    <3>1. /\ j - 1 \in DOMAIN left /\ 1 \in DOMAIN left /\ 1 < j - 1 /\ both[j] = left[j - 1]
      BY <1>2, <1>4, <2>2
    <3>2. left[j - 1].to < Current.from /\ left[j - 1].to \in Nat
      BY <1>1, <1>2, <1>9, <3>1 DEF Between, InOrder
    <3>3. Current.from <= both[i].from /\ both[i].from \in Nat
      BY SMTT(30), <1>2, <1>4, <1>5, <1>6, <2>2
    <3> QED  BY <1>2, <3>1, <3>2, <3>3
  <2>3. CASE i \in 3 .. n + 1 /\ j \in 3 .. n + 1
    <3>1. /\ i - 1 \in DOMAIN left /\ j - 1 \in DOMAIN left /\ i - 1 < j - 1
          /\ both[i] = left[i - 1] /\ both[j] = left[j - 1]
      BY <1>2, <1>4, <2>3
    <3> QED  BY <1>1, <3>1 DEF Between, InOrder
  <2>4. \/ i = 1 /\ j = 2
        \/ i \in {1, 2} /\ j \in 3 .. n + 1
        \/ i \in 3 .. n + 1 /\ j \in 3 .. n + 1
    BY <1>2, <1>8
  <2> QED  BY <2>1, <2>2, <2>3, <2>4
<1>11. ASSUME NEW u \in Range(search.items), NEW i \in DOMAIN both
       PROVE  PostedAt[u] > both[i].to
  <2>1. PostedAt[u] > Current.to /\ PostedAt[u] \in Nat
    BY <1>1, <1>2, SearchElements DEF Between
  <2>2. CASE i \in {1, 2}
    BY <1>2, <1>4, <1>5, <1>6, <2>1, <2>2
  <2>3. CASE i \in 3 .. n + 1
    <3>1. i - 1 \in DOMAIN left /\ both[i] = left[i - 1]
      BY <1>2, <1>4, <2>3
    <3> QED  BY <1>1, <3>1 DEF Between
  <2> QED  BY <1>8, <2>2, <2>3
<1>12. ASSUME NEW v \in always, Waits(left, v)
       PROVE  Waits(both, v)
  <2>1. PICK i \in DOMAIN left : Inside(left[i], v)
    BY <1>12 DEF Waits
  <2>2. CASE i = 1
    <3>1. PostedAt[v] \in Nat /\ PostedAt[v] >= Current.from /\ PostedAt[v] <= Current.to
      BY <1>2, <2>1, <2>2, SearchElements DEF Inside
    <3>2. Inside(h[1], v) \/ Inside(h[2], v)
      BY <1>5, <1>6, <3>1 DEF Inside
    <3>3. 1 \in DOMAIN both /\ 2 \in DOMAIN both
      BY <1>2, <1>4
    <3> QED  BY <1>4, <3>2, <3>3 DEF Waits
  <2>3. CASE i # 1
    <3>1. i + 1 \in 3 .. n + 1 /\ i + 1 \in DOMAIN both /\ (i + 1) - 1 = i
      BY <1>2, <1>4, <2>1, <2>3
    <3>2. both[i + 1] = left[i]
      BY <1>4, <3>1
    <3> QED  BY <2>1, <3>1, <3>2 DEF Waits
  <2> QED  BY <2>2, <2>3
<1>13. ASSUME NEW v \in always, Clean
       PROVE  Accounted(search', v) \/ Overtaken(search', v)
  BY <1>1, <1>7, <1>12, <1>13 DEF Between, Accounted, Overtaken
<1>14. Between(search', always', Clean')
  BY <1>7, <1>10, <1>11, <1>13 DEF Between
<1> QED  BY <1>7, <1>14 DEF SearchKnows, SearchKnown

\* How many are collected, and how many are of the first ranks.
LEMMA CollectedNumber ==
  ASSUME VacPart
  PROVE  /\ IsFiniteSet(Range(search.items))
         /\ Cardinality(Range(search.items)) = Len(search.items)
         /\ Len(search.items) \in Nat
<1> DEFINE items == search.items
           S == 1 .. Len(items)
<1>1. items \in Seq(Vacancies) /\ Len(items) \in Nat /\ IsInjective(items)
  BY VacTypes DEF VacPart, RowSearches
<1>2. DOMAIN items = S
  BY <1>1, LenProperties
<1>3. IsFiniteSet(S) /\ Cardinality(S) = Len(items)
  BY <1>1, CountTo
<1>4. items \in [S -> Range(items)]
  <2>1. items = [i \in 1 .. Len(items) |-> items[i]]
    BY <1>1, LenProperties
  <2> QED  BY <1>2, <2>1 DEF Range
<1>5. \A a, b \in S : items[a] = items[b] => a = b
  BY <1>1, <1>2 DEF IsInjective
<1>6. \A t \in Range(items) : \E a \in S : items[a] = t
  BY <1>2 DEF Range
<1> HIDE DEF S, items
<1>7. IsFiniteSet(Range(items)) /\ Cardinality(Range(items)) = Len(items)
  BY <1>3, <1>4, <1>5, <1>6, SameNumber
<1> QED  BY <1>1, <1>7 DEF items

Leaders(S, m) == {v \in S : Rank(S, v) < m}

LEMMA LeadersNumber ==
  ASSUME NEW S \in SUBSET Vacancies, NEW m \in Nat, m <= Cardinality(S)
  PROVE  IsFiniteSet(Leaders(S, m)) /\ Cardinality(Leaders(S, m)) = m
<1> DEFINE leaders == {v \in S : Rank(S, v) < m}
           K == 1 .. m
           f == [k \in K |-> NewestFirst(S)[k]]
<1>1. /\ NewestFirst(S) \in Seq(S) /\ Len(NewestFirst(S)) = Cardinality(S)
      /\ Cardinality(S) \in Nat
      /\ \A k \in 1 .. Cardinality(S) : Rank(S, NewestFirst(S)[k]) = k - 1
      /\ \A v \in S : NewestFirst(S)[Rank(S, v) + 1] = v
  BY NewestFirstIsSorted
<1>2. \A k \in K : k \in 1 .. Cardinality(S) /\ NewestFirst(S)[k] \in S
  BY <1>1, ElementOfSeq
<1>3. \A k \in K : f[k] \in S /\ Rank(S, f[k]) = k - 1
  BY <1>1, <1>2
<1>4. f \in [K -> leaders]
  BY <1>3
<1>5. \A a, b \in K : f[a] = f[b] => a = b
  <2> SUFFICES ASSUME NEW a \in K, NEW b \in K, f[a] = f[b]
               PROVE  a = b
    OBVIOUS
  <2>1. Rank(S, f[a]) = a - 1 /\ Rank(S, f[b]) = b - 1
    BY <1>3
  <2> QED  BY <2>1
<1>6. ASSUME NEW t \in leaders
      PROVE  \E a \in K : f[a] = t
  <2>1. Rank(S, t) \in Nat /\ Rank(S, t) < m
    BY RankIsBelow
  <2>2. Rank(S, t) + 1 \in K
    BY <2>1
  <2> QED  BY <1>1, <2>2
<1>7. IsFiniteSet(K) /\ Cardinality(K) = m
  BY CountTo
<1> HIDE DEF K, f, leaders
<1>8. IsFiniteSet(leaders) /\ Cardinality(leaders) = m
  BY <1>4, <1>5, <1>6, <1>7, SameNumber
<1> QED  BY <1>8 DEF leaders, Leaders

\* The pages of a window are opened: they hold all that is in it, or as many
\* as are wanted.
LEMMA LeafIsEnough ==
  ASSUME NEW found \in Nat, NEW max \in Nat, NEW have \in Nat, have < max,
         found <= PerWindow
  PROVE  LET limit == Least(max - have, Least(found, PerWindow))
             pages == (limit + PerPage - 1) \div PerPage
         IN pages * PerPage >= found \/ pages * PerPage + have >= max
<1> DEFINE limit == Least(max - have, Least(found, PerWindow))
           pages == (limit + PerPage - 1) \div PerPage
           all == pages * PerPage
<1>1. PerWindow \in Nat /\ PerPage \in Nat \ {0}
  BY VacancyAssumption
<1>2. /\ limit \in Nat
      /\ limit = max - have \/ limit = found
  BY <1>1 DEF Least
<1> HIDE DEF limit
<1>3. pages \in Nat /\ pages * PerPage >= limit
  BY <1>1, <1>2, PagesCover
<1> HIDE DEF pages
<1>4. all \in Nat /\ all >= limit
  BY <1>1, <1>3
<1> HIDE DEF all
<1>5. all >= found \/ all + have >= max
  BY <1>2, <1>4
<1> QED  BY <1>5 DEF all, pages, limit

LEMMA KnowsLeaf ==
  ASSUME VacPart, SearchKnows, ProbeLeaf
  PROVE  SearchKnows'
<1> DEFINE F == Found(Current)
           found == Cardinality(F)
           have == Len(search.items)
           limit == Least(search.max - have, Least(found, PerWindow))
           pages == (limit + PerPage - 1) \div PerPage
<1>1. /\ search \in SearchRow /\ search.max \in Nat /\ have \in Nat /\ ~Full
      /\ search.left # <<>> /\ search.pc = "windows"
      /\ Between(search, always, Clean)
  BY VacTypes DEF VacPart, ProbeLeaf, Probes, SearchKnows, SearchKnown
<1>2. /\ search'.pc = "pages" /\ search'.page = 0 /\ search'.pages = pages
      /\ search'.left = search.left /\ search'.items = search.items
      /\ search'.max = search.max
      /\ search'.truncated = (search.truncated \/ found > PerWindow)
  BY <1>1 DEF ProbeLeaf, SearchRow
<1>3. /\ always' = always /\ online' = online
      /\ Clean' => Clean /\ ~ (found > PerWindow)
  BY <1>2 DEF ProbeLeaf, Clean
<1>4. F \in SUBSET Vacancies /\ found \in Nat /\ PerWindow \in Nat /\ PerPage \in Nat
  BY VacTypes, NewestFirstIsSorted, VacancyAssumption DEF VacPart
<1>5. /\ Current = search.left[1] /\ 1 \in DOMAIN search.left
      /\ Current.from \in Nat /\ Current.to \in Nat /\ Current.from <= Current.to
  BY <1>1, HeadOfWindows
<1>6. \A u \in Range(search.items) : PostedAt[u] > Current.to /\ PostedAt[u] \in Nat
  BY <1>1, <1>5, SearchElements DEF Between
<1> HIDE DEF pages
<1>7. \A u \in Range(search'.items) : PostedAt[u] >= search'.left[1].from
  <2>1. \A u \in Range(search.items) : PostedAt[u] >= Current.from
    BY <1>5, <1>6
  <2> QED  BY <1>2, <1>5, <2>1
<1>8. ASSUME Clean, NEW v \in always
      PROVE  Accounted(search', v)
  BY <1>1, <1>2, <1>8 DEF Between, Accounted, Overtaken, Full
<1>9. Leading(search', F)
  <2>1. \A u \in Range(search.items) : u \notin F
    BY <1>4, <1>5, <1>6 DEF Found
  <2>2. \A v \in F : ~ (Rank(F, v) < 0 * PerPage)
    BY <1>4, RankIsBelow
  <2> QED  BY <1>2, <1>5, <1>6, <2>1, <2>2 DEF Leading
<1>10. ASSUME ~ (found > PerWindow)
       PROVE  Enough(search', F)
  <2>1. have < search.max /\ found <= PerWindow
    BY <1>1, <1>4, <1>10 DEF Full
  <2>2. pages * PerPage >= found \/ pages * PerPage + have >= search.max
    BY <1>1, <1>4, <2>1, LeafIsEnough DEF pages
  <2>3. Earlier(search') = Range(search.items)
    BY <1>2, <1>5, <1>6 DEF Earlier
  <2>4. Cardinality(Earlier(search')) = have
    BY <2>3, CollectedNumber
  <2> QED  BY <1>2, <2>2, <2>4 DEF Enough
<1>11. InWindow(search', F, always', Clean')
  <2>1. InOrder(search'.left)
    BY <1>1, <1>2 DEF Between
  <2> QED  BY <1>3, <1>7, <1>8, <1>9, <1>10, <2>1 DEF InWindow
<1>12. Found(Current)' = F
  BY <1>2, <1>3 DEF Found, Current
<1> QED  BY <1>2, <1>11, <1>12 DEF SearchKnows, SearchKnown

\* When the pages are read and the search is not full, all of the window is
\* collected.
LEMMA WindowIsRead ==
  ASSUME VacPart, search.pc = "pages", search.page >= search.pages, ~Full,
         NEW F \in SUBSET Vacancies, Leading(search, F), Enough(search, F),
         \A v \in F : PostedAt[v] <= search.left[1].to
  PROVE  F \subseteq Range(search.items)
<1> DEFINE got == Range(search.items)
           all == search.pages * PerPage
           leaders == Leaders(F, all)
           n == Cardinality(F)
<1>1. /\ search.page \in Nat /\ search.pages \in Nat /\ PerPage \in Nat
      /\ search.max \in Nat /\ n \in Nat
  BY VacTypes, VacancyAssumption, NewestFirstIsSorted DEF VacPart
<1>2. all \in Nat /\ search.page * PerPage \in Nat /\ search.page * PerPage >= all
  BY <1>1
<1>3. \A v \in F : Rank(F, v) \in Nat /\ Rank(F, v) < n
  <2> SUFFICES ASSUME NEW v \in F PROVE Rank(F, v) \in Nat /\ Rank(F, v) < n
    OBVIOUS
  <2>1. Rank(F, v) \in Nat /\ Rank(F, v) + 1 \in 1 .. n
    BY RankIsBelow
  <2> QED  BY <1>1, <2>1
<1>4. Len(search.items) < search.max
  BY <1>1, CollectedNumber DEF Full
<1>5. \A v \in F : Rank(F, v) < search.page * PerPage => v \in got
  BY <1>1, <1>4, CollectedNumber DEF Leading
<1> HIDE DEF n, got
<1>6. leaders \subseteq got
  <2> SUFFICES ASSUME NEW v \in F, Rank(F, v) < all
               PROVE  v \in got
    BY DEF Leaders
  <2>1. Rank(F, v) < search.page * PerPage
    BY <1>2, <1>3
  <2> QED  BY <1>5, <2>1
<1>7. CASE all >= n
  <2>1. \A v \in F : Rank(F, v) < all
    BY <1>1, <1>2, <1>3, <1>7
  <2> QED  BY <1>6, <2>1 DEF got, Leaders
<1>8. CASE ~ (all >= n)
  <2> DEFINE E == Earlier(search)
  <2>1. all + Cardinality(E) >= search.max
    BY <1>8 DEF Enough, n
  <2>2. IsFiniteSet(leaders) /\ Cardinality(leaders) = all
    <3>1. all \in Nat /\ all <= n
      BY <1>1, <1>2, <1>8
    <3> HIDE DEF all
    <3> QED  BY <3>1, LeadersNumber DEF n
  <2>3. E \subseteq got /\ E \cap leaders = {}
    <3>1. \A u \in got : PostedAt[u] \in Nat
      BY SearchElements DEF got
    <3>2. search.left[1].to \in Nat
      BY HeadOfWindows DEF VacPart, RowSearches
    <3> QED  BY <3>1, <3>2 DEF Earlier, got, Leaders
  <2>4. IsFiniteSet(got) /\ Cardinality(got) = Len(search.items) /\ Len(search.items) \in Nat
    BY CollectedNumber DEF got
  <2> HIDE DEF E, all, leaders
  <2>5. IsFiniteSet(E)
    BY <2>3, <2>4, FS_Subset
  <2>6. Cardinality(E \cup leaders) = Cardinality(E) + Cardinality(leaders)
    <3>1. Cardinality(E \cup leaders)
            = Cardinality(E) + Cardinality(leaders) - Cardinality(E \cap leaders)
      BY <2>2, <2>5, FS_Union
    <3>2. Cardinality(E \cap leaders) = 0
      BY <2>3, FS_EmptySet
    <3> QED  BY <1>2, <2>2, <2>5, <3>1, <3>2, FS_CardinalityType
  <2>7. Cardinality(E \cup leaders) <= Len(search.items)
    BY <1>6, <2>3, <2>4, FS_Subset
  <2>8. Cardinality(E) \in Nat
    BY <2>5, FS_CardinalityType
  <2>9. FALSE
    BY <1>1, <1>2, <1>4, <2>1, <2>2, <2>4, <2>6, <2>7, <2>8
  <2> QED  BY <2>9
<1> QED  BY <1>7, <1>8

\* A window is left: what of it is missing is overtaken.
LEMMA KnowsLeave ==
  ASSUME VacPart, SearchKnows, LeaveWindow
  PROVE  SearchKnows'
<1> DEFINE F == Found(Current)
<1>1. /\ search \in SearchRow /\ search.left # <<>> /\ search.pc = "pages"
      /\ InWindow(search, F, always, Clean)
  BY VacTypes DEF VacPart, RowSearches, LeaveWindow, SearchKnows, SearchKnown
<1>2. /\ search'.pc = "windows" /\ search'.left = Tail(search.left)
      /\ search'.items = search.items /\ search'.max = search.max
      /\ search'.truncated = search.truncated
      /\ always' = always /\ Clean' = Clean
  BY <1>1 DEF LeaveWindow, SearchRow, Clean
<1>3. /\ Current = search.left[1] /\ Current.from \in Nat /\ Current.to \in Nat
      /\ F \in SUBSET Vacancies /\ InOrder(search.left)
  BY <1>1, HeadOfWindows, VacTypes DEF VacPart, InWindow
<1>4. InOrder(search'.left)
  BY <1>1, <1>2, <1>3, RestOfWindows
<1>5. ASSUME NEW u \in Range(search'.items), NEW i \in DOMAIN search'.left
      PROVE  PostedAt[u] > search'.left[i].to
  <2>1. /\ search'.left[i].to \in Nat /\ search'.left[i].to < Current.from
    BY <1>1, <1>2, <1>3, RestOfWindows
  <2>2. PostedAt[u] >= Current.from /\ PostedAt[u] \in Nat
    BY <1>1, <1>2, <1>3, SearchElements DEF InWindow
  <2> QED  BY <1>3, <2>1, <2>2
<1>6. ASSUME NEW v \in always, Clean, Inside(Current, v), v \notin Range(search.items)
      PROVE  Overtaken(search, v)
  <2>1. v \in F /\ PostedAt[v] \in Nat /\ v \in Vacancies
    BY <1>6, SearchElements DEF Found, Inside
  <2>2. Leading(search, F) /\ Enough(search, F)
    BY <1>1, <1>6 DEF InWindow
  <2>3. \A x \in F : PostedAt[x] <= search.left[1].to
    BY <1>3 DEF Found
  <2>4. Full
    BY <1>1, <1>3, <1>6, <2>1, <2>2, <2>3, WindowIsRead DEF LeaveWindow
  <2>5. ASSUME NEW u \in Range(search.items)
        PROVE  PostedAt[u] >= PostedAt[v]
    <3>1. u \in Vacancies /\ PostedAt[u] \in Nat /\ PostedAt[v] <= Current.to
      BY <1>6, SearchElements DEF Inside
    <3>2. CASE PostedAt[u] > Current.to
      BY <1>3, <2>1, <3>1, <3>2
    <3>3. CASE u \in F
      <4>1. ~ Newer(v, u) /\ u # v
        BY <1>6, <2>1, <2>2, <3>3 DEF Leading
      <4> QED  BY <2>1, <3>1, <4>1, NewerIsAnOrder
    <3> QED  BY <1>3, <2>2, <3>2, <3>3 DEF Leading
  <2> QED  BY <2>4, <2>5 DEF Overtaken, Full
<1>7. ASSUME NEW v \in always, Clean
      PROVE  Accounted(search', v) \/ Overtaken(search', v)
  <2>1. Accounted(search, v)
    BY <1>1, <1>7 DEF InWindow
  <2>2. Waits(search.left, v) => Inside(Current, v) \/ Waits(search'.left, v)
    BY <1>1, <1>2, <1>3, RestOfWindows
  <2> QED  BY <1>2, <1>6, <1>7, <2>1, <2>2 DEF Accounted, Overtaken
<1>8. Between(search', always', Clean')
  BY <1>2, <1>4, <1>5, <1>7 DEF Between
<1> QED  BY <1>2, <1>8 DEF SearchKnows, SearchKnown

\* Of a page, what comes before a vacancy that is taken is taken, or was there.
LEMMA TakenFirst ==
  ASSUME VacPart, ~Full, NEW answer \in Seq(Vacancies), IsInjective(answer),
         NEW j \in DOMAIN answer, NEW k \in DOMAIN answer, j < k,
         answer[k] \in Range(Taken(answer)), answer[j] \notin Range(search.items)
  PROVE  answer[j] \in Range(Taken(answer))
<1> DEFINE at == Unseen(answer)
           new == Selected(answer, at)
           room == search.max - Len(search.items)
           n == Least(room, Len(new))
           taken == SubSeq(new, 1, n)
<1>1. room \in Nat
  BY VacTypes DEF VacPart, Full
<1>2. /\ new \in Seq(Vacancies)
      /\ Range(new) = {answer[i] : i \in at \cap DOMAIN answer}
  BY SelectedFacts
<1>3. \A h, i \in at \cap DOMAIN answer : answer[h] = answer[i] => h = i
  BY DEF IsInjective
<1>4. Len(new) \in Nat /\ DOMAIN new = 1 .. Len(new)
  BY <1>2, LenProperties
<1>5. taken = Taken(answer)
  BY DEF Taken
<1>6. \A i \in 1 .. Len(new) :
        new[i] = answer[k] /\ j \in at /\ k \in at =>
          \E h \in 1 .. Len(new) : h < i /\ new[h] = answer[j]
  BY SelectedInOrder
<1> HIDE DEF new
<1>7. n \in Nat /\ n <= Len(new)
  BY <1>1, <1>4 DEF Least
<1> HIDE DEF n
<1>8. /\ taken \in Seq(Vacancies) /\ Len(taken) = n
      /\ \A i \in 1 .. n : taken[i] = new[i]
      /\ Range(taken) \subseteq Range(new)
  BY <1>2, <1>7, FirstOnes
<1> HIDE DEF taken
<1>9. DOMAIN taken = 1 .. n
  BY <1>8, LenProperties
<1>10. PICK i \in 1 .. n : taken[i] = answer[k]
  BY <1>5, <1>9 DEF Range
<1>11. k \in at
  <2>1. PICK m \in at \cap DOMAIN answer : answer[k] = answer[m]
    BY <1>2, <1>5, <1>8
  <2> QED  BY <2>1 DEF IsInjective
<1>12. j \in at
  BY DEF Unseen
<1>13. i \in 1 .. Len(new) /\ new[i] = answer[k]
  BY <1>4, <1>7, <1>8, <1>10
<1> HIDE DEF at
<1>14. PICK h \in 1 .. Len(new) : h < i /\ new[h] = answer[j]
  BY <1>6, <1>11, <1>12, <1>13
<1>15. h \in 1 .. n
  BY <1>4, <1>7, <1>10, <1>14
<1> QED  BY <1>5, <1>8, <1>9, <1>14, <1>15 DEF Range

\* A page is read: what is collected of the window are still the first ranks.
LEMMA KnowsRead ==
  ASSUME VacPart, SearchKnows, ReadPage
  PROVE  SearchKnows'
<1> DEFINE F == Found(Current)
           answer == AnswerPage(Current, search.page)
           before == search.page * PerPage
           taken == Taken(answer)
           got == Range(search.items)
           items == search.items \o taken
           page == IF Len(answer) < PerPage THEN search.pages ELSE search.page + 1
<1>1. /\ search \in SearchRow /\ search.left # <<>> /\ search.pc = "pages" /\ ~Full
      /\ search.page \in Nat /\ search.pages \in Nat /\ search.page < search.pages
      /\ search.max \in Nat /\ F \in SUBSET Vacancies /\ PerPage \in Nat
      /\ InWindow(search, F, always, Clean)
  BY VacTypes, VacancyAssumption
     DEF VacPart, RowSearches, ReadPage, SearchKnows, SearchKnown
<1>2. answer \in Seq(Vacancies) /\ IsInjective(answer)
  BY <1>1, PageOnce
<1>3. /\ before \in Nat /\ (search.page + 1) * PerPage = before + PerPage
      /\ answer \in Seq(F) /\ Len(answer) \in Nat
      /\ \A k \in 1 .. Len(answer) : Rank(F, answer[k]) = before + k - 1 /\ k <= PerPage
      /\ \A v \in F : Rank(F, v) >= before /\ Rank(F, v) < before + PerPage =>
           /\ Rank(F, v) - before + 1 \in 1 .. Len(answer)
           /\ answer[Rank(F, v) - before + 1] = v
      /\ Len(answer) < PerPage => \A v \in F : Rank(F, v) < before + PerPage
  BY <1>1, PageOfRanks
<1>4. search' = [search EXCEPT !.items = items, !.page = page]
  BY DEF ReadPage, Taken, Unseen
<1> HIDE DEF answer
<1>5. DOMAIN answer = 1 .. Len(answer) /\ \A k \in DOMAIN answer : answer[k] \in F
  BY <1>3, LenProperties, ElementOfSeq
<1>6. /\ items \in Seq(Vacancies) /\ Len(items) \in Nat
      /\ Range(items) = got \cup Range(taken)
      /\ Range(taken) \subseteq Range(answer)
      /\ Len(items) < search.max => Range(answer) \subseteq Range(items)
  BY <1>1, <1>2, TakenOnce, LenProperties
<1>7. Range(answer) \subseteq F
  BY <1>5 DEF Range
<1> HIDE DEF items, page, taken, before
<1>8. /\ search'.pc = "pages" /\ search'.page = page /\ search'.pages = search.pages
      /\ search'.left = search.left /\ search'.items = items
      /\ search'.max = search.max /\ search'.truncated = search.truncated
  BY <1>1, <1>4 DEF SearchRow
<1>9. always' = always /\ online' = online /\ Clean' = Clean
  BY <1>8 DEF ReadPage, Clean
<1>10. /\ Current = search.left[1] /\ Current.from \in Nat /\ Current.to \in Nat
       /\ \A v \in F : PostedAt[v] >= Current.from /\ PostedAt[v] <= Current.to
  BY <1>1, HeadOfWindows DEF Found
<1>11. \A u \in Range(items) : PostedAt[u] >= Current.from
  BY <1>1, <1>6, <1>7, <1>10 DEF InWindow
<1>12. ASSUME NEW v, Accounted(search, v)
       PROVE  Accounted(search', v)
  BY <1>6, <1>8, <1>12 DEF Accounted
<1>13. ~ (Len(search.items) >= search.max)
  BY <1>1 DEF Full
<1>14. ASSUME Leading(search, F), NEW v \in F, Rank(F, v) < before
       PROVE  v \in got
  BY <1>13, <1>14 DEF Leading, before
<1>15. ASSUME Leading(search, F)
       PROVE  \A u \in Range(items) \cap F : \A v \in F : Newer(v, u) => v \in Range(items)
  <2> SUFFICES ASSUME NEW u \in Range(items), u \in F, NEW v \in F, Newer(v, u), v \notin got
               PROVE  v \in Range(taken)
    BY <1>6
  <2>1. u \in Range(taken)
    BY <1>6, <1>15 DEF Leading
  <2>2. PICK k \in 1 .. Len(answer) : answer[k] = u
    BY <1>5, <1>6, <2>1 DEF Range
  <2>3. Rank(F, v) < Rank(F, u) /\ Rank(F, v) \in Nat /\ Rank(F, v) >= before
    <3>1. ~ (Rank(F, v) < before)
      BY <1>14, <1>15
    <3>2. Rank(F, v) < Rank(F, u)
      BY <1>1, RankRises
    <3>3. Rank(F, v) \in Nat
      BY <1>1, RankIsBelow
    <3> QED  BY <1>3, <3>1, <3>2, <3>3
  <2>4. Rank(F, u) = before + k - 1 /\ k <= PerPage
    BY <1>3, <2>2
  <2> DEFINE j == Rank(F, v) - before + 1
  <2>5. Rank(F, v) < before + PerPage /\ j < k
    BY <1>1, <1>3, <2>3, <2>4
  <2>6. j \in 1 .. Len(answer) /\ answer[j] = v
    BY <1>3, <2>3, <2>5
  <2> HIDE DEF j
  <2>7. answer[j] \in Range(taken)
    BY <1>1, <1>2, <1>5, <2>1, <2>2, <2>5, <2>6, TakenFirst DEF taken
  <2> QED  BY <2>6, <2>7
<1>16. ASSUME Leading(search, F), ~ (Len(items) >= search.max), NEW v \in F,
              Rank(F, v) < page * PerPage
       PROVE  v \in Range(items)
  <2>1. Rank(F, v) \in Nat
    BY <1>1, RankIsBelow
  <2>2. Rank(F, v) < before + PerPage
    <3>1. CASE Len(answer) < PerPage
      BY <1>3, <3>1
    <3>2. CASE ~ (Len(answer) < PerPage)
      BY <1>3, <1>16, <3>2 DEF page
    <3> QED  BY <3>1, <3>2
  <2>3. CASE Rank(F, v) < before
    BY <1>6, <1>14, <1>16, <2>3
  <2>4. CASE ~ (Rank(F, v) < before)
    <3>1. Rank(F, v) >= before
      BY <1>3, <2>1, <2>4
    <3>2. v \in Range(answer)
      BY <1>3, <1>5, <2>2, <3>1 DEF Range
    <3>3. Len(items) < search.max
      BY <1>1, <1>6, <1>16
    <3> QED  BY <1>6, <3>2, <3>3
  <2> QED  BY <2>3, <2>4
<1>17. ASSUME Leading(search, F)
       PROVE  Leading(search', F)
  <2>1. \A u \in Range(items) : PostedAt[u] > search.left[1].to \/ u \in F
    BY <1>6, <1>7, <1>17 DEF Leading
  <2> QED  BY <1>8, <1>15, <1>16, <1>17, <2>1 DEF Leading
<1>18. Earlier(search') = Earlier(search)
  <2>1. \A u \in Range(taken) : PostedAt[u] \in Nat /\ ~ (PostedAt[u] > search.left[1].to)
    <3>1. \A u \in F : PostedAt[u] \in Nat
      BY <1>1, VacancyAssumption
    <3> QED  BY <1>6, <1>7, <1>10, <3>1
  <2> QED  BY <1>6, <1>8, <2>1 DEF Earlier
<1>19. Enough(search, F) => Enough(search', F)
  BY <1>8, <1>18 DEF Enough
<1>20. InWindow(search', F, always', Clean')
  BY <1>1, <1>8, <1>9, <1>10, <1>11, <1>12, <1>17, <1>19 DEF InWindow
<1>21. Found(Current)' = F
  BY <1>8, <1>9 DEF Found, Current
<1> QED  BY <1>8, <1>20, <1>21 DEF SearchKnows, SearchKnown

LEMMA SearchKnowsNext ==
  ASSUME VacPart, SearchKnows, VacActs
  PROVE  SearchKnows'
<1>1. CASE UNCHANGED vacancyVars
  BY <1>1 DEF vacancyVars, SearchKnows, Found, Current, Clean
<1>2. CASE SearchFails
  <2>1. search'.pc = "failed"
    BY <1>2, VacTypes DEF VacPart, SearchFails, SearchRow
  <2> QED  BY <2>1 DEF SearchKnows, SearchKnown
<1> QED  BY <1>1, <1>2, KnowsStart, KnowsEmpty, KnowsLeaf, KnowsSplit, KnowsRead,
            KnowsLeave, KnowsCollected, KnowsChanges DEF VacActs, SearchStep

LEMMA SearchKnowsAlways == Spec => []SearchKnows
<1>1. Init => SearchKnows
  BY SearchKnowsInit DEF Init
<1>2. TypeInv /\ SearchKnows /\ [Next]_vars => SearchKnows'
  BY NextActs, SearchKnowsNext DEF TypeInv
<1> QED  BY <1>1, <1>2, TypeInvAlways, PTL DEF Spec

LEMMA KnowsTheLatest ==
  ASSUME VacPart, SearchKnows
  PROVE  TheLatestAreCollected
<1> SUFFICES ASSUME search.pc = "collected"
             PROVE  /\ IsInjective(search.items)
                    /\ Len(search.items) <= search.max
                    /\ ~stale /\ ~search.truncated =>
                         \A v \in always :
                           \/ PostedAt[v] < Window.from \/ PostedAt[v] > Window.to
                           \/ v \in Range(search.items)
                           \/ /\ Full
                              /\ \A u \in Range(search.items) : PostedAt[u] >= PostedAt[v]
  BY DEF TheLatestAreCollected
<1>1. IsInjective(search.items) /\ Len(search.items) <= search.max
  BY DEF VacPart, RowSearches
<1>2. Latest(search, always, Clean)
  BY DEF SearchKnows, SearchKnown
<1>3. Window.from \in Nat /\ Window.to \in Nat
  BY VacancyAssumption
<1>4. ASSUME ~stale, ~search.truncated, NEW v \in always
      PROVE  \/ PostedAt[v] < Window.from \/ PostedAt[v] > Window.to
             \/ v \in Range(search.items)
             \/ /\ Full
                /\ \A u \in Range(search.items) : PostedAt[u] >= PostedAt[v]
  <2>1. ~Inside(Window, v) \/ v \in Range(search.items) \/ Overtaken(search, v)
    BY <1>2, <1>4 DEF Latest, Clean
  <2>2. PostedAt[v] \in Nat
    BY SearchElements
  <2>3. ~Inside(Window, v) => PostedAt[v] < Window.from \/ PostedAt[v] > Window.to
    BY <1>3, <2>2 DEF Inside
  <2> QED  BY <2>1, <2>3 DEF Overtaken, Full
<1> QED  BY <1>1, <1>4

\* A search that ends without an error has the newest vacancies of its window:
\* one that was online all the time is missing only when the search is full of
\* vacancies that are no older, however many there are and however the window
\* is halved, if no page changed while it was read and no second was cut.
THEOREM SearchesCollectTheLatest == Spec => []TheLatestAreCollected
<1>1. TypeInv /\ SearchKnows => TheLatestAreCollected
  BY KnowsTheLatest DEF TypeInv
<1> QED  BY <1>1, TypeInvAlways, SearchKnowsAlways, PTL

-----------------------------------------------------------------------------
(***************************************************************************)
(* What an extraction has in its directory, if it has it for itself: r is  *)
(* the extraction, dir the directory.                                      *)
(***************************************************************************)
CombinedOf(r) ==
  LET people == Those(r.people, r.fetched)
  IN [k \in DOMAIN people |-> [who |-> people[k], letter |-> people[k] \in r.letters]]

ManifestOf(r) ==
  [rows |-> r.rows,
   succeeded |-> IF r.request.dry THEN Len(r.rows) ELSE Counted(r.rows, {"ok", "partial"}),
   failed |-> IF r.request.dry THEN 0 ELSE Counted(r.rows, {"error", "skipped"})]

WithOriginal(rows) == {rows[k].who : k \in {j \in DOMAIN rows : rows[j].original}}

\* The combined files may be there.
Late(r) == r.pc \in {"html", "pdf", "manifest", "done", "failed"}

FileOf(r, file) == file = NoFile \/ (Late(r) /\ file = <<CombinedOf(r)>>)

Holds(r, dir) ==
  /\ dir.originals = WithOriginal(r.rows)
  /\ FileOf(r, dir.markdown) /\ FileOf(r, dir.html) /\ FileOf(r, dir.pdf)
  /\ r.pc = "done" => dir.manifest = <<ManifestOf(r)>>

Unused(s) == \A c \in Extractions : run[c].pc # "off" => run[c].dir # s

DirsKnow ==
  /\ \A c \in Extractions :
       run[c].pc # "off" /\ ~SharesDirectory(c) => Holds(run[c], dirs[run[c].dir])
  /\ \A s \in 0 .. LastSecond : Unused(s) => dirs[s] = NoDir

LEMMA DirsKnowInit ==
  ASSUME ExtractionInit
  PROVE  DirsKnow
BY DEF ExtractionInit, DirsKnow, NoRun

\* A step of an extraction reaches its own directory only.
StepOfRun(c) ==
  /\ run[c].pc # "off" /\ run'[c].pc # "off" /\ run'[c].dir = run[c].dir
  /\ \A d \in Extractions \ {c} : run'[d] = run[d]
  /\ \A s \in 0 .. LastSecond \ {run[c].dir} : dirs'[s] = dirs[s]
  /\ Holds(run[c], dirs[run[c].dir]) => Holds(run'[c], dirs'[run[c].dir])

LEMMA StepKeepsDirs ==
  ASSUME ExtPart, DirsKnow, NEW c \in Extractions, StepOfRun(c)
  PROVE  DirsKnow'
<1>1. \A d \in Extractions : run[d].dir \in 0 .. LastSecond
  BY ExtTypes DEF ExtPart, RunRow
<1>2. \A d \in Extractions : run'[d].dir = run[d].dir /\ (run'[d].pc = "off" <=> run[d].pc = "off")
  BY DEF StepOfRun
<1>3. \A d \in Extractions : SharesDirectory(d)' <=> SharesDirectory(d)
  BY <1>2 DEF SharesDirectory
<1>4. ASSUME NEW d \in Extractions, run'[d].pc # "off", ~SharesDirectory(d)
      PROVE  Holds(run'[d], dirs'[run'[d].dir])
  <2>1. Holds(run[d], dirs[run[d].dir])
    BY <1>2, <1>4 DEF DirsKnow
  <2>2. CASE d = c
    BY <2>1, <2>2 DEF StepOfRun
  <2>3. CASE d # c
    <3>1. run[d].dir # run[c].dir
      BY <1>4, <2>3 DEF SharesDirectory, StepOfRun
    <3>2. dirs'[run[d].dir] = dirs[run[d].dir] /\ run'[d] = run[d]
      BY <1>1, <2>3, <3>1 DEF StepOfRun
    <3> QED  BY <2>1, <3>2
  <2> QED  BY <2>2, <2>3
<1>5. ASSUME NEW s \in 0 .. LastSecond, Unused(s)'
      PROVE  dirs'[s] = NoDir
  <2>1. Unused(s)
    BY <1>2, <1>5 DEF Unused
  <2>2. s # run[c].dir
    BY <2>1 DEF Unused, StepOfRun
  <2> QED  BY <2>1, <2>2 DEF DirsKnow, StepOfRun
<1> QED  BY <1>3, <1>4, <1>5 DEF DirsKnow, Holds, FileOf, Late, WithOriginal

LEMMA StartKnows ==
  ASSUME ExtPart, DirsKnow, NEW c \in Extractions, NEW request \in Requests[c],
         StartRun(c, request)
  PROVE  DirsKnow'
<1>1. run \in [Extractions -> RunRow] /\ dirs \in [0 .. LastSecond -> Dir]
      /\ now \in 0 .. LastSecond
  BY ExtTypes DEF ExtPart
<1>2. run[c].pc = "off" /\ run[c].rows = <<>> /\ dirs' = dirs
  BY DEF StartRun, ExtPart, RunFine, NoRun
<1>3. /\ run'[c].pc = "first" /\ run'[c].dir = now /\ run'[c].rows = <<>>
      /\ \A d \in Extractions \ {c} : run'[d] = run[d]
  BY <1>1, <1>2 DEF StartRun, RunRow
<1>4. ASSUME NEW d \in Extractions, run'[d].pc # "off", ~SharesDirectory(d)'
      PROVE  Holds(run'[d], dirs'[run'[d].dir])
  <2>1. CASE d = c
    <3>1. Unused(now)
      BY <1>2, <1>3, <1>4, <2>1 DEF Unused, SharesDirectory
    <3>2. dirs'[now] = NoDir
      BY <1>1, <1>2, <3>1 DEF DirsKnow
    <3>3. WithOriginal(<<>>) = {}
      BY NothingIsOnce DEF WithOriginal
    <3>4. /\ NoDir.originals = {} /\ NoDir.markdown = NoFile
          /\ NoDir.html = NoFile /\ NoDir.pdf = NoFile
      BY DEF NoDir
    <3>5. Holds(run'[c], NoDir)
      BY <1>3, <3>3, <3>4 DEF Holds, FileOf
    <3> QED  BY <1>3, <2>1, <3>2, <3>5
  <2>2. CASE d # c
    <3>1. ~SharesDirectory(d)
      BY <1>2, <1>3, <1>4, <2>2 DEF SharesDirectory
    <3>2. run[d].pc # "off" /\ run'[d] = run[d]
      BY <1>3, <1>4, <2>2
    <3>3. Holds(run[d], dirs[run[d].dir])
      BY <3>1, <3>2 DEF DirsKnow
    <3> QED  BY <1>2, <3>2, <3>3
  <2> QED  BY <2>1, <2>2
<1>5. ASSUME NEW s \in 0 .. LastSecond, Unused(s)'
      PROVE  dirs'[s] = NoDir
  <2>1. Unused(s)
    BY <1>2, <1>3, <1>5 DEF Unused
  <2> QED  BY <1>2, <2>1 DEF DirsKnow
<1> QED  BY <1>4, <1>5 DEF DirsKnow, Holds, FileOf, Late, WithOriginal

\* Before the files, only the originals of the rows are there.
LEMMA EarlyKeepsDirs ==
  ASSUME ExtPart, DirsKnow, NEW c \in Extractions, dirs' = dirs,
         run[c].pc # "off", ~Late(run[c]),
         run'[c].pc \notin {"off", "done"}, run'[c].dir = run[c].dir,
         \A d \in Extractions \ {c} : run'[d] = run[d],
         WithOriginal(run'[c].rows) = WithOriginal(run[c].rows)
  PROVE  DirsKnow'
<1>1. ASSUME Holds(run[c], dirs[run[c].dir])
      PROVE  Holds(run'[c], dirs[run[c].dir])
  BY <1>1 DEF Holds, FileOf
<1>2. StepOfRun(c)
  BY <1>1 DEF StepOfRun
<1> QED  BY <1>2, StepKeepsDirs

LEMMA ReadsKnow ==
  ASSUME ExtPart, DirsKnow, NEW c \in Extractions,
         \/ RunFails(c) \/ ReadFirst(c) \/ ReadRest(c) \/ RestFails(c) \/ StartTask(c)
         \/ LetterArrives(c) \/ ResumeArrives(c) \/ OriginalsDone(c)
  PROVE  DirsKnow'
<1>1. run \in [Extractions -> RunRow]
  BY ExtTypes DEF ExtPart
<1>2. PICK r \in RunRow : r = run[c]
  BY <1>1
<1>3. /\ r.pc \in {"first", "rest", "letters", "resumes", "originals"} /\ dirs' = dirs
      /\ \A d \in Extractions \ {c} : run'[d] = run[d]
      /\ run'[c].pc \in {"failed", "rest", "letters", "resumes", "originals", "markdown"}
      /\ run'[c].dir = r.dir /\ run'[c].rows = r.rows
  <2>1. CASE RunFails(c)
    BY <1>1, <1>2, <2>1 DEF RunFails, Moves, RunRow
  <2>8. CASE OriginalsDone(c)
    <3>1. run' = [run EXCEPT ![c].pc = "markdown"]
      BY <2>8 DEF OriginalsDone, Moves
    <3>2. r.pc = "originals" /\ dirs' = dirs
      BY <1>2, <2>8 DEF OriginalsDone
    <3> QED  BY <1>1, <1>2, <3>1, <3>2 DEF RunRow
  <2>2. CASE ReadFirst(c)
    <3>1. \E people, rest :
            run' = [run EXCEPT ![c].pc = "rest", ![c].people = people, ![c].rest = rest]
      BY <2>2 DEF ReadFirst
    <3>2. r.pc = "first" /\ dirs' = dirs
      BY <1>2, <2>2 DEF ReadFirst
    <3> QED  BY <1>1, <1>2, <3>1, <3>2 DEF RunRow
  <2>3. CASE ReadRest(c)
    BY <1>1, <1>2, <2>3 DEF ReadRest, RunRow
  <2>4. CASE RestFails(c)
    BY <1>1, <1>2, <2>4 DEF RestFails, RunRow
  <2>5. CASE StartTask(c)
    <3>1. \E k, open : run' = [run EXCEPT ![c].started = k, ![c].open = open]
      BY <1>1, <1>2, <2>5 DEF StartTask
    <3> QED  BY <1>1, <1>2, <2>5, <3>1 DEF StartTask, RunRow
  <2>6. CASE LetterArrives(c)
    <3>1. \E open, letters : run' = [run EXCEPT ![c].open = open, ![c].letters = letters]
      BY <1>1, <1>2, <2>6 DEF LetterArrives
    <3>2. r.pc = "letters" /\ dirs' = dirs
      BY <1>2, <2>6 DEF LetterArrives
    <3> QED  BY <1>1, <1>2, <3>1, <3>2 DEF RunRow
  <2>7. CASE ResumeArrives(c)
    <3>1. \E open, fetched : run' = [run EXCEPT ![c].open = open, ![c].fetched = fetched]
      BY <1>1, <1>2, <2>7 DEF ResumeArrives
    <3>2. r.pc = "resumes" /\ dirs' = dirs
      BY <1>2, <2>7 DEF ResumeArrives
    <3> QED  BY <1>1, <1>2, <3>1, <3>2 DEF RunRow
  <2> QED  BY <2>1, <2>2, <2>3, <2>4, <2>5, <2>6, <2>7, <2>8
<1>4. ~Late(run[c])
  BY <1>2, <1>3 DEF Late
<1> QED  BY <1>2, <1>3, <1>4, EarlyKeepsDirs

\* No row has an original before the originals are asked for.
LEMMA NoOriginals ==
  ASSUME NEW rows, \A k \in DOMAIN rows : ~rows[k].original
  PROVE  WithOriginal(rows) = {}
BY DEF WithOriginal

LEMMA SkippedHaveNone ==
  ASSUME NEW people
  PROVE  WithOriginal(Rows(people, "skipped")) = {}
<1>1. /\ DOMAIN Rows(people, "skipped") = DOMAIN people
      /\ \A k \in DOMAIN people : Rows(people, "skipped")[k] = RowOf(people[k], "skipped")
  BY DEF Rows
<1>2. \A a : ~RowOf(a, "skipped").original
  BY DEF RowOf
<1> QED  BY <1>1, <1>2, NoOriginals

LEMMA RowsKnow ==
  ASSUME ExtPart, ExtPart', DirsKnow, NEW c \in Extractions,
         Choose(c) \/ LettersDone(c) \/ ResumesDone(c)
  PROVE  DirsKnow'
<1>1. run \in [Extractions -> RunRow]
  BY ExtTypes DEF ExtPart
<1>2. PICK r \in RunRow : r = run[c]
  BY <1>1
<1>3. RunFine(r) /\ RunFine(run'[c])
  <2>1. RunFine(r)
    BY <1>2 DEF ExtPart
  <2>2. RunFine(run[c])'
    BY DEF ExtPart
  <2>3. RunFine(run'[c])
    BY <2>2 DEF RunFine, Begun, Others, Listed, Downloads, Finished, Who
  <2> QED  BY <2>1, <2>3
<1>4. WithOriginal(<<>>) = {}
  BY NothingIsOnce DEF WithOriginal
<1>5. /\ r.pc \in {"rest", "letters", "resumes"} /\ dirs' = dirs
      /\ \A d \in Extractions \ {c} : run'[d] = run[d]
      /\ run'[c].pc \in {"manifest", "letters", "resumes", "originals", "markdown"}
      /\ run'[c].dir = r.dir
  <2>1. CASE Choose(c)
    BY <1>1, <1>2, <2>1 DEF Choose, RunRow
  <2>2. CASE LettersDone(c)
    BY <1>1, <1>2, <2>2 DEF LettersDone, RunRow
  <2>3. CASE ResumesDone(c)
    BY <1>1, <1>2, <2>3 DEF ResumesDone, RunRow
  <2> QED  BY <2>1, <2>2, <2>3
<1>6. WithOriginal(r.rows) = {}
  <2>1. r.rows = <<>> \/ Others(r)
    BY <1>3, <1>5 DEF RunFine, Begun
  <2> QED  BY <1>4, <2>1, NoOriginals DEF Others
<1>7. WithOriginal(run'[c].rows) = {}
  <2>1. CASE Choose(c)
    <3>1. \E people : run'[c].rows \in {<<>>, Rows(people, "skipped")}
      BY <1>1, <1>2, <2>1 DEF Choose, RunRow
    <3> QED  BY <1>4, <3>1, SkippedHaveNone
  <2>2. CASE LettersDone(c)
    <3>1. \E people : run'[c].rows = Rows(people, "skipped")
      BY <1>1, <1>2, <2>2 DEF LettersDone, RunRow
    <3> QED  BY <3>1, SkippedHaveNone
  <2>3. CASE ResumesDone(c)
    <3>1. run'[c].started = 0 /\ run'[c].request = r.request
          /\ run'[c].pc = IF r.request.originals THEN "originals" ELSE "markdown"
      BY <1>1, <1>2, <2>3 DEF ResumesDone, RunRow
    <3>2. PICK s \in RunRow : s = run'[c]
      BY ExtTypes DEF ExtPart, ExtractionTypeOK, RunRow
    <3>3. \A k \in DOMAIN s.rows : k \in Nat \ {0}
      BY LenProperties DEF RunRow
    <3>4. RunFine(s) /\ Listed(s)
      BY <1>3, <3>1, <3>2 DEF RunFine
    <3>5. \A k \in DOMAIN s.rows : ~s.rows[k].original
      <4>1. CASE r.request.originals
        BY <3>1, <3>2, <3>3, <3>4, <4>1 DEF RunFine, Listed, Downloads
      <4>2. CASE ~r.request.originals
        BY <3>1, <3>2, <3>4, <4>2 DEF RunFine, Listed, Finished
      <4> QED  BY <4>1, <4>2
    <3> QED  BY <3>2, <3>5, NoOriginals
  <2> QED  BY <2>1, <2>2, <2>3
<1>8. ~Late(run[c])
  BY <1>2, <1>5 DEF Late
<1> QED  BY <1>2, <1>5, <1>6, <1>7, <1>8, EarlyKeepsDirs

\* An original is saved together with the flag of its row.
LEMMA OriginalKnows ==
  ASSUME ExtPart, DirsKnow, NEW c \in Extractions, OriginalArrives(c)
  PROVE  DirsKnow'
<1>1. run \in [Extractions -> RunRow] /\ dirs \in [0 .. LastSecond -> Dir]
  BY ExtTypes DEF ExtPart
<1>2. PICK r \in RunRow : r = run[c]
  BY <1>1
<1>3. r.pc = "originals" /\ Downloads(r)
  BY <1>2 DEF ExtPart, RunFine, OriginalArrives
<1>4. PICK k \in r.open, saved \in BOOLEAN, s \in RunRow :
        /\ AfterOriginal(r, k, saved, s)
        /\ run' = [run EXCEPT ![c] = s]
        /\ dirs' = [dirs EXCEPT ![r.dir].originals =
                      IF saved THEN @ \cup {r.rows[k].who} ELSE @]
  BY <1>2, OriginalEnds
<1>5. /\ k \in DOMAIN r.rows /\ s.dir = r.dir /\ s.pc = "originals"
      /\ DOMAIN s.rows = DOMAIN r.rows
      /\ \A j \in DOMAIN r.rows : j # k => s.rows[j] = r.rows[j]
      /\ s.rows[k].who = r.rows[k].who /\ s.rows[k].original = saved
  BY <1>3, <1>4 DEF AfterOriginal
<1>6. ~r.rows[k].original
  BY <1>3, <1>4, <1>5 DEF Downloads
<1>7. PICK dir \in Dir : dir = dirs[r.dir]
  BY <1>1 DEF RunRow
<1> DEFINE new == [dir EXCEPT !.originals =
                     IF saved THEN dir.originals \cup {r.rows[k].who} ELSE dir.originals]
<1>8. dirs'[r.dir] = new /\ \A x \in 0 .. LastSecond \ {r.dir} : dirs'[x] = dirs[x]
  BY <1>1, <1>4, <1>7 DEF RunRow
<1>9. /\ new.originals = IF saved THEN dir.originals \cup {r.rows[k].who} ELSE dir.originals
      /\ new.markdown = dir.markdown /\ new.html = dir.html /\ new.pdf = dir.pdf
  BY DEF Dir
<1> HIDE DEF new
<1>10. WithOriginal(s.rows)
         = IF saved THEN WithOriginal(r.rows) \cup {r.rows[k].who} ELSE WithOriginal(r.rows)
  <2>1. CASE saved
    <3>1. \A j \in DOMAIN r.rows : s.rows[j].original <=> j = k \/ r.rows[j].original
      BY <1>5, <2>1
    <3>2. \A j \in DOMAIN r.rows : s.rows[j].who = r.rows[j].who
      BY <1>5
    <3> QED  BY <1>5, <2>1, <3>1, <3>2 DEF WithOriginal
  <2>2. CASE ~saved
    <3>1. \A j \in DOMAIN r.rows : s.rows[j].original <=> r.rows[j].original
      BY <1>5, <1>6, <2>2
    <3>2. \A j \in DOMAIN r.rows : s.rows[j].who = r.rows[j].who
      BY <1>5
    <3> QED  BY <1>5, <2>2, <3>1, <3>2 DEF WithOriginal
  <2> QED  BY <2>1, <2>2
<1>11. ASSUME Holds(r, dir)
       PROVE  Holds(s, new)
  BY <1>3, <1>5, <1>9, <1>10, <1>11 DEF Holds, FileOf, Late
<1>12. run'[c] = s /\ \A d \in Extractions \ {c} : run'[d] = run[d]
  BY <1>1, <1>4
<1>13. StepOfRun(c)
  BY <1>2, <1>3, <1>5, <1>7, <1>8, <1>11, <1>12 DEF StepOfRun
<1> QED  BY <1>13, StepKeepsDirs

\* What writing a file may leave of the directory of an extraction.
Written(r, dir, new) ==
  /\ new.originals = dir.originals
  /\ \A file \in {new.markdown, new.html, new.pdf} :
       file \in {NoFile, <<CombinedOf(r)>>, dir.markdown, dir.html, dir.pdf}

\* A file is written, or is not: the rows and what is combined stay.
LEMMA LateKeepsDirs ==
  ASSUME ExtPart, DirsKnow, NEW c \in Extractions,
         NEW r \in RunRow, r = run[c], NEW dir \in Dir, dir = dirs[r.dir],
         NEW new \in Dir, dirs' = [dirs EXCEPT ![r.dir] = new], Written(r, dir, new),
         r.pc \in {"markdown", "html", "pdf", "manifest"},
         NEW pc \in {"html", "pdf", "manifest", "done", "failed"}, Moves(c, pc),
         pc = "done" => new.manifest = <<ManifestOf(r)>>
  PROVE  DirsKnow'
<1>1. run \in [Extractions -> RunRow] /\ dirs \in [0 .. LastSecond -> Dir]
  BY ExtTypes DEF ExtPart
<1> DEFINE s == [r EXCEPT !.pc = pc]
<1>3. run' = [run EXCEPT ![c] = s]
  BY <1>1 DEF Moves
<1>4. /\ s.people = r.people /\ s.rows = r.rows /\ s.pc = pc /\ s.dir = r.dir
      /\ s.fetched = r.fetched /\ s.request = r.request /\ s.letters = r.letters
  BY DEF RunRow
<1> HIDE DEF s
<1>5. CombinedOf(s) = CombinedOf(r) /\ ManifestOf(s) = ManifestOf(r)
  BY <1>4 DEF CombinedOf, ManifestOf
<1>6. r.dir \in 0 .. LastSecond
  BY DEF RunRow
<1>9. ASSUME Holds(r, dir)
      PROVE  Holds(s, new)
  <2>1. Late(s)
    BY <1>4 DEF Late
  <2>2. \A file \in {NoFile, <<CombinedOf(r)>>, dir.markdown, dir.html, dir.pdf} : FileOf(s, file)
    BY <1>5, <1>9, <2>1 DEF Holds, FileOf
  <2>3. FileOf(s, new.markdown) /\ FileOf(s, new.html) /\ FileOf(s, new.pdf)
    BY <2>2 DEF Written
  <2>4. new.originals = WithOriginal(s.rows)
    BY <1>4, <1>9 DEF Holds, Written
  <2>5. s.pc = "done" => new.manifest = <<ManifestOf(s)>>
    BY <1>4, <1>5
  <2> QED  BY <2>3, <2>4, <2>5 DEF Holds
<1>10. run'[c] = s /\ \A d \in Extractions \ {c} : run'[d] = run[d]
  BY <1>1, <1>3
<1>11. /\ dirs'[r.dir] = new
       /\ \A x \in 0 .. LastSecond \ {r.dir} : dirs'[x] = dirs[x]
  BY <1>1, <1>6
<1>12. StepOfRun(c)
  BY <1>4, <1>9, <1>10, <1>11 DEF StepOfRun
<1> QED  BY <1>12, StepKeepsDirs

LEMMA FilesKnow ==
  ASSUME ExtPart, DirsKnow, NEW c \in Extractions,
         \/ WriteCombinedMarkdown(c) \/ WriteCombinedHTML(c) \/ WriteCombinedPDF(c)
         \/ WriteManifest(c)
  PROVE  DirsKnow'
<1>1. run \in [Extractions -> RunRow] /\ dirs \in [0 .. LastSecond -> Dir]
  BY ExtTypes DEF ExtPart
<1>2. PICK r \in RunRow : r = run[c]
  BY <1>1
<1>3. PICK dir \in Dir : dir = dirs[r.dir]
  BY <1>1 DEF RunRow
<1>4. Combined(c) = CombinedOf(r)
  BY <1>2 DEF Combined, CombinedOf
<1>5. /\ <<CombinedOf(r)>> \in Seq(Combination) /\ NoFile \in Seq(Combination)
      /\ dir.html \in Seq(Combination) /\ dir.manifest \in Seq(Manifest)
      /\ r.dir \in 0 .. LastSecond
  <2>1. Combined(c) \in Combination
    BY CombinedType
  <2>2. CombinedOf(r) \in Combination
    BY <1>4, <2>1
  <2> QED  BY <2>2, EmptySeq DEF NoFile, Dir, RunRow
<1>6. r.pc \in {"markdown", "html", "pdf", "manifest"}
  BY <1>2 DEF WriteCombinedMarkdown, WriteCombinedHTML, WriteCombinedPDF, WriteManifest
<1>7. ASSUME UNCHANGED dirs, NEW pc \in {"html", "pdf", "manifest", "failed"}, Moves(c, pc)
      PROVE  DirsKnow'
  <2>1. dirs' = [dirs EXCEPT ![r.dir] = dir]
    BY <1>1, <1>3, <1>5, <1>7
  <2>2. Written(r, dir, dir)
    BY DEF Written
  <2> QED  BY <1>2, <1>3, <1>6, <1>7, <2>1, <2>2, LateKeepsDirs
<1>8. CASE WriteCombinedMarkdown(c) /\ ~UNCHANGED dirs
  <2> DEFINE new == [dir EXCEPT !.markdown = <<CombinedOf(r)>>]
  <2>1. dirs' = [dirs EXCEPT ![r.dir] = new] /\ Moves(c, "html")
    BY <1>1, <1>2, <1>3, <1>4, <1>5, <1>8 DEF WriteCombinedMarkdown
  <2>2. new \in Dir /\ Written(r, dir, new)
    BY <1>5 DEF Dir, Written
  <2> HIDE DEF new
  <2> QED  BY <1>2, <1>3, <1>6, <2>1, <2>2, LateKeepsDirs
<1>9. CASE WriteCombinedHTML(c) /\ ~UNCHANGED dirs
  <2>1. PICK file \in {<<CombinedOf(r)>>, NoFile}, pc \in {"pdf", "manifest"} :
          /\ dirs' = [dirs EXCEPT ![r.dir] = [dir EXCEPT !.html = file]]
          /\ Moves(c, pc)
    BY <1>1, <1>2, <1>3, <1>4, <1>5, <1>9 DEF WriteCombinedHTML
  <2> DEFINE new == [dir EXCEPT !.html = file]
  <2>2. new \in Dir /\ Written(r, dir, new)
    BY <1>5 DEF Dir, Written
  <2>3. dirs' = [dirs EXCEPT ![r.dir] = new]
    BY <2>1
  <2> HIDE DEF new
  <2> QED  BY ZenonT(30), <1>2, <1>3, <1>6, <2>1, <2>2, <2>3, LateKeepsDirs
<1>10. CASE WriteCombinedPDF(c) /\ ~UNCHANGED dirs
  <2> DEFINE new == [dir EXCEPT !.pdf = dir.html]
  <2>1. dirs' = [dirs EXCEPT ![r.dir] = new] /\ Moves(c, "manifest")
    BY <1>1, <1>2, <1>3, <1>5, <1>10 DEF WriteCombinedPDF
  <2>2. new \in Dir /\ Written(r, dir, new)
    BY <1>5 DEF Dir, Written
  <2> HIDE DEF new
  <2> QED  BY <1>2, <1>3, <1>6, <2>1, <2>2, LateKeepsDirs
<1>11. CASE WriteManifest(c) /\ Moves(c, "done")
  <2> DEFINE file == <<ManifestOf(r)>>
             new == [dir EXCEPT !.manifest = file]
  <2>1. dirs' = [dirs EXCEPT ![r.dir] = new] /\ Moves(c, "done")
    <3>1. ~Moves(c, "failed")
      BY <1>1, <1>11 DEF Moves, RunRow
    <3> QED  BY <1>1, <1>2, <1>3, <1>5, <1>11, <3>1 DEF WriteManifest, ManifestOf
  <2>2. file \in Seq(Manifest)
    <3>1. r.rows \in Seq(Row) /\ Len(r.rows) \in Nat
      BY LenProperties DEF RunRow
    <3>2. Counted(r.rows, {"ok", "partial"}) \in Nat /\ Counted(r.rows, {"error", "skipped"}) \in Nat
      BY <3>1, CountedIsFinite
    <3>3. ManifestOf(r) \in Manifest
      BY <3>1, <3>2 DEF ManifestOf, Manifest
    <3> QED  BY <3>3
  <2>3. new \in Dir /\ new.manifest = file /\ Written(r, dir, new)
    BY <2>2 DEF Dir, Written
  <2> HIDE DEF new
  <2> QED  BY <1>2, <1>3, <1>6, <2>1, <2>3, LateKeepsDirs
<1>12. CASE UNCHANGED dirs /\ ~Moves(c, "done")
  <2>1. PICK pc \in {"html", "pdf", "manifest", "failed"} : Moves(c, pc)
    BY <1>12 DEF WriteCombinedMarkdown, WriteCombinedHTML, WriteCombinedPDF, WriteManifest
  <2> QED  BY <1>7, <1>12, <2>1
<1>13. Moves(c, "done") => WriteManifest(c)
  <2>1. ASSUME Moves(c, "done"), NEW pc \in {"html", "pdf", "manifest"}, Moves(c, pc)
        PROVE  FALSE
    BY <1>1, <2>1 DEF Moves, RunRow
  <2> QED  BY <2>1 DEF WriteCombinedMarkdown, WriteCombinedHTML, WriteCombinedPDF
<1>14. WriteManifest(c) => UNCHANGED dirs \/ Moves(c, "done")
  BY DEF WriteManifest
<1> QED  BY <1>8, <1>9, <1>10, <1>11, <1>12, <1>13, <1>14

LEMMA DirsKnowNext ==
  ASSUME ExtPart, ExtPart', DirsKnow, ExtActs
  PROVE  DirsKnow'
<1>1. ASSUME run' = run, dirs' = dirs
      PROVE  DirsKnow'
  BY <1>1 DEF DirsKnow, SharesDirectory, Unused, Holds, FileOf, Late, WithOriginal
<1>2. CASE UNCHANGED extractionVars
  BY <1>1, <1>2 DEF extractionVars
<1>3. CASE TickSecond
  BY <1>1, <1>3 DEF TickSecond
<1>4. ASSUME NEW c \in Extractions, RunStep(c)
      PROVE  DirsKnow'
  BY <1>4, ReadsKnow, RowsKnow, OriginalKnows, FilesKnow DEF RunStep
<1> QED  BY <1>2, <1>3, <1>4, StartKnows DEF ExtActs

LEMMA DirsKnowAlways == Spec => []DirsKnow
<1>1. Init => DirsKnow
  BY DirsKnowInit DEF Init
<1>2. TypeInv /\ TypeInv' /\ DirsKnow /\ [Next]_vars => DirsKnow'
  BY NextActs, DirsKnowNext DEF TypeInv
<1> QED  BY <1>1, <1>2, TypeInvAlways, PTL DEF Spec

\* Every row counts as one or the other.
LEMMA RowsAreCounted ==
  ASSUME NEW rows \in Seq(Row)
  PROVE  Counted(rows, {"ok", "partial"}) + Counted(rows, {"error", "skipped"}) = Len(rows)
<1> DEFINE good == {k \in DOMAIN rows : rows[k].status \in {"ok", "partial"}}
           bad  == {k \in DOMAIN rows : rows[k].status \in {"error", "skipped"}}
<1>1. DOMAIN rows = 1 .. Len(rows) /\ Len(rows) \in Nat
  BY LenProperties
<1>2. \A k \in DOMAIN rows : rows[k].status \in {"ok", "partial", "error", "skipped"}
  <2>1. \A k \in 1 .. Len(rows) : rows[k] \in Row
    BY ElementOfSeq
  <2>2. \A row \in Row : row.status \in {"ok", "partial", "error", "skipped"}
    BY DEF Row
  <2> QED  BY <1>1, <2>1, <2>2
<1>3. good \cup bad = DOMAIN rows /\ good \cap bad = {}
  BY <1>2
<1>4. IsFiniteSet(good) /\ IsFiniteSet(bad)
  BY CountedIsFinite
<1>5. /\ Counted(rows, {"ok", "partial"}) = Cardinality(good)
      /\ Counted(rows, {"error", "skipped"}) = Cardinality(bad)
  BY DEF Counted
<1> HIDE DEF good, bad
<1>6. Cardinality(good \cup bad) = Cardinality(good) + Cardinality(bad) - Cardinality(good \cap bad)
  BY <1>4, FS_Union
<1>7. Cardinality(DOMAIN rows) = Len(rows)
  BY <1>1, CountTo
<1>8. Cardinality(good \cap bad) = 0
  BY <1>3, FS_EmptySet
<1>9. Cardinality(good) \in Nat /\ Cardinality(bad) \in Nat
  BY <1>4, FS_CardinalityType
<1> QED  BY <1>3, <1>5, <1>6, <1>7, <1>8, <1>9

\* As many rows say "ok" or "partial" as there are resumes that were fetched.
LEMMA FetchedAreCounted ==
  ASSUME NEW r \in RunRow, Listed(r)
  PROVE  Counted(r.rows, {"ok", "partial"}) = Cardinality(r.fetched)
<1> DEFINE good == {k \in DOMAIN r.rows : r.rows[k].status \in {"ok", "partial"}}
           f == [k \in good |-> r.rows[k].who]
<1>1. r.rows \in Seq(Row)
  BY DEF RunRow
<1>2. IsFiniteSet(good) /\ Counted(r.rows, {"ok", "partial"}) = Cardinality(good)
  BY <1>1, CountedIsFinite DEF Counted
<1>3. \A k \in good : k \in DOMAIN r.rows /\ r.rows[k].who \in r.fetched
  BY DEF Listed
<1>4. \A k \in good : f[k] = r.rows[k].who
  OBVIOUS
<1>5. f \in [good -> r.fetched]
  BY <1>3
<1>6. \A j, k \in DOMAIN r.rows : r.rows[j].who = r.rows[k].who => j = k
  BY DEF Listed, Who, IsInjective
<1>7. \A j, k \in good : f[j] = f[k] => j = k
  BY <1>3, <1>4, <1>6
<1>8. ASSUME NEW a \in r.fetched
      PROVE  \E k \in good : f[k] = a
  <2>1. PICK k \in DOMAIN r.rows : r.rows[k].who = a
    BY <1>8 DEF Listed
  <2>2. k \in good
    BY <1>8, <2>1 DEF Listed
  <2> QED  BY <1>4, <2>1, <2>2
<1> HIDE DEF good, f
<1>9. Cardinality(r.fetched) = Cardinality(good)
  BY <1>2, <1>5, <1>7, <1>8, SameNumber
<1> QED  BY <1>2, <1>9

\* What is promised of an extraction that has its directory for itself.
TellsTheTruth(r, dir, manifest, rows) ==
  /\ IsInjective([k \in DOMAIN rows |-> rows[k].who])
  /\ Range(r.people) \subseteq {rows[k].who : k \in DOMAIN rows}
  /\ \A k \in DOMAIN rows :
       /\ rows[k].status \in {"ok", "partial"} <=> rows[k].who \in r.fetched
       /\ rows[k].original <=> rows[k].who \in dir.originals
       /\ r.request.originals =>
            (rows[k].status = "ok" <=> rows[k].who \in dir.originals)
       /\ rows[k].status = "skipped" =>
            r.request.dry \/ rows[k].who \notin r.letters
  /\ ~r.request.dry => manifest.succeeded = Cardinality(r.fetched)
  /\ manifest.succeeded + manifest.failed = Len(rows)
  /\ \A file \in {dir.markdown, dir.html, dir.pdf} \ {NoFile} :
       /\ {entry.who : entry \in Range(file[1])} = r.fetched
       /\ \A entry \in Range(file[1]) : entry.letter = (entry.who \in r.letters)

LEMMA HoldsTheTruth ==
  ASSUME ExtPart, NEW c \in Extractions, NEW r \in RunRow, r = run[c], NEW dir \in Dir,
         r.pc = "done", Holds(r, dir)
  PROVE  TellsTheTruth(r, dir, ManifestOf(r), r.rows)
<1>1. Listed(r) /\ Finished(r)
  BY DEF ExtPart, RunFine
<1>2. \A j, k \in DOMAIN r.rows : r.rows[j].who = r.rows[k].who => j = k
  BY <1>1 DEF Listed, Who, IsInjective
<1>3. dir.originals = WithOriginal(r.rows)
  BY DEF Holds
<1>4. \A k \in DOMAIN r.rows : r.rows[k].original \in BOOLEAN
  <2>1. r.rows \in Seq(Row)
    BY DEF RunRow
  <2>2. DOMAIN r.rows = 1 .. Len(r.rows)
    BY <2>1, LenProperties
  <2>3. \A k \in DOMAIN r.rows : r.rows[k] \in Row
    BY <2>1, <2>2, ElementOfSeq
  <2>4. \A row \in Row : row.original \in BOOLEAN
    BY DEF Row
  <2> QED  BY <2>3, <2>4
<1>5. ASSUME NEW k \in DOMAIN r.rows
      PROVE  r.rows[k].original <=> r.rows[k].who \in dir.originals
  BY <1>2, <1>3, <1>4, <1>5 DEF WithOriginal
<1>6. \A k \in DOMAIN r.rows :
        r.request.originals => (r.rows[k].status = "ok" <=> r.rows[k].original)
  BY <1>1 DEF Listed, Finished
<1>7. /\ r.rows \in Seq(Row) /\ Len(r.rows) \in Nat
      /\ Counted(r.rows, {"ok", "partial"}) = Cardinality(r.fetched)
      /\ Counted(r.rows, {"ok", "partial"}) + Counted(r.rows, {"error", "skipped"}) = Len(r.rows)
  BY <1>1, FetchedAreCounted, RowsAreCounted, LenProperties DEF RunRow
<1>8. /\ ~r.request.dry => ManifestOf(r).succeeded = Cardinality(r.fetched)
      /\ ManifestOf(r).succeeded + ManifestOf(r).failed = Len(r.rows)
  BY <1>7 DEF ManifestOf
<1>9. /\ {entry.who : entry \in Range(CombinedOf(r))} = r.fetched
      /\ \A entry \in Range(CombinedOf(r)) : entry.letter = (entry.who \in r.letters)
  <2>1. Combined(c) = CombinedOf(r)
    BY DEF Combined, CombinedOf
  <2>2. r.fetched \subseteq Range(r.people)
    BY <1>1 DEF Listed
  <2> QED  BY <2>1, <2>2, CombinedType
<1>10. \A file \in {dir.markdown, dir.html, dir.pdf} \ {NoFile} : file = <<CombinedOf(r)>>
  BY DEF Holds, FileOf
<1>11. \A file \in {dir.markdown, dir.html, dir.pdf} \ {NoFile} : file[1] = CombinedOf(r)
  BY <1>10
<1>12. IsInjective([k \in DOMAIN r.rows |-> r.rows[k].who])
  BY <1>1 DEF Listed, Who
<1>13. Range(r.people) \subseteq {r.rows[k].who : k \in DOMAIN r.rows}
  BY <1>1 DEF Listed
<1>14. \A k \in DOMAIN r.rows :
         /\ r.rows[k].status \in {"ok", "partial"} <=> r.rows[k].who \in r.fetched
         /\ r.rows[k].original <=> r.rows[k].who \in dir.originals
         /\ r.request.originals =>
              (r.rows[k].status = "ok" <=> r.rows[k].who \in dir.originals)
         /\ r.rows[k].status = "skipped" =>
              r.request.dry \/ r.rows[k].who \notin r.letters
  BY <1>1, <1>5, <1>6 DEF Listed
<1>15. \A file \in {dir.markdown, dir.html, dir.pdf} \ {NoFile} :
         /\ {entry.who : entry \in Range(file[1])} = r.fetched
         /\ \A entry \in Range(file[1]) : entry.letter = (entry.who \in r.letters)
  BY <1>9, <1>11
<1> QED  BY <1>8, <1>12, <1>13, <1>14, <1>15 DEF TellsTheTruth

LEMMA KnowsManifest ==
  ASSUME ExtPart, DirsKnow
  PROVE  ManifestTellsTheTruth
<1>1. run \in [Extractions -> RunRow] /\ dirs \in [0 .. LastSecond -> Dir]
  BY ExtTypes DEF ExtPart
<1>2. ASSUME NEW c \in Extractions, run[c].pc = "done", ~SharesDirectory(c)
      PROVE  TellsTheTruth(run[c], dirs[run[c].dir], dirs[run[c].dir].manifest[1],
                           dirs[run[c].dir].manifest[1].rows)
  <2>1. PICK r \in RunRow : r = run[c]
    BY <1>1
  <2>2. PICK dir \in Dir : dir = dirs[r.dir]
    BY <1>1 DEF RunRow
  <2>3. Holds(r, dir)
    BY <1>2, <2>1, <2>2 DEF DirsKnow
  <2>4. TellsTheTruth(r, dir, ManifestOf(r), r.rows)
    BY <1>2, <2>1, <2>3, HoldsTheTruth
  <2>5. dir.manifest[1] = ManifestOf(r)
    BY <1>2, <2>1, <2>3 DEF Holds
  <2>6. ManifestOf(r).rows = r.rows
    BY DEF ManifestOf
  <2> QED  BY <2>1, <2>2, <2>4, <2>5, <2>6
<1> QED  BY <1>2 DEF ManifestTellsTheTruth, TellsTheTruth

\* An extraction that is done and has its directory for itself tells the truth
\* in its manifest, however its requests overlap and whichever of them fail:
\* the rows, the counters, the flags of the originals and the combined files
\* are those of the resumes that were fetched.
THEOREM ManifestsTellTheTruth == Spec => []ManifestTellsTheTruth
<1>1. TypeInv /\ DirsKnow => ManifestTellsTheTruth
  BY KnowsManifest DEF TypeInv
<1> QED  BY <1>1, TypeInvAlways, DirsKnowAlways, PTL
=============================================================================
