---------------------------- MODULE JSONImport ----------------------------
(***************************************************************************)
(* ImportJSON of backend/internal/ingestion/service.go and the processing  *)
(* it calls, for several imports at once.  Each creates a source, even     *)
(* under a name that is there already; a document is found by the name and *)
(* the message id, so imports of one name share the rows of documents.     *)
(*                                                                         *)
(* Every access to the database is a statement of its own; a text is cut   *)
(* into one chunk.                                                         *)
(***************************************************************************)
EXTENDS Naturals, Sequences, SequencesExt, FiniteSetsExt, Functions, Selections

CONSTANTS
  Imports,     \* calls of ImportJSON
  Names,       \* source names, as buildImportSourceName leaves them
  MaxId,       \* bound: message ids
  TrashText    \* a text that IsTrash rejects

ASSUME ImportAssumption ==
  /\ MaxId \in Nat \ {0} /\ TrashText \in Nat \ {0}
  /\ Names # {} /\ "nobody" \notin Imports

VARIABLES
  imp,    \* where each import is
  raw,    \* raw[c]: raw_messages of the source import c creates
  docs,   \* documents, and the chunk each has
  over    \* imports another one of their name wrote into

importVars == <<imp, raw, docs, over>>

NoText == 0
Ids == 1 .. MaxId

\* What a JSON value of the payload is to parseImportedItem: the keys with a
\* text, the first id among message_id, post_id and id (0 for none), the text.
TextKeys == {"text", "content", "message", "body"}
CaptionKeys == {"caption", "description", "summary"}

\* Some keys without a text stand for all of them.
Keys == TextKeys \cup CaptionKeys \cup {"id", "title", "url"}

Items == [keys: SUBSET Keys, id: Nat, text: Nat \ {NoText}]

IsSupported(item) == item.keys \cap (TextKeys \cup CaptionKeys) # {}

NoDoc == [by |-> "nobody", text |-> NoText, dup |-> FALSE, chunk |-> NoText]

Idle == [pc |-> "off", name |-> CHOOSE n \in Names : TRUE, records |-> <<>>,
         done |-> 0, used |-> {}, next |-> 1, id |-> 0, dup |-> FALSE,
         last |-> 0]

ImportTypeOK ==
  /\ imp \in [Imports ->
       [pc: {"off", "create", "raw", "find", "save", "delete", "insert",
             "done", "rejected", "failed"},
        name: Names, records: Seq(Items), done: Nat, used: SUBSET Ids,
        next: 1 .. MaxId + 1, id: 0 .. MaxId, dup: BOOLEAN, last: 0 .. MaxId]]
  /\ raw \in [Imports -> [Ids -> Nat]]
  /\ docs \in [Names \X Ids ->
       [by: Imports \cup {"nobody"}, text: Nat, dup: BOOLEAN, chunk: Nat]]
  /\ over \subseteq Imports

ImportInit ==
  /\ imp = [c \in Imports |-> Idle]
  /\ raw = [c \in Imports |-> [m \in Ids |-> NoText]]
  /\ docs = [k \in Names \X Ids |-> NoDoc]
  /\ over = {}

-----------------------------------------------------------------------------
\* The payload is parsed before anything is stored: items without a text are
\* passed over, and there must be one that has one.
ImportJSON(c, name, items) ==
  /\ imp[c].pc = "off"
  /\ LET records == Selected(items, {k \in DOMAIN items : IsSupported(items[k])})
     IN imp' = [imp EXCEPT ![c].pc = IF records = <<>> THEN "rejected" ELSE "create",
                           ![c].name = name, ![c].records = records]
  /\ UNCHANGED <<raw, docs, over>>

Goes(c, pc) == imp' = [imp EXCEPT ![c].pc = pc]

Record(c) == imp[c].records[imp[c].done + 1]
Key(c) == <<imp[c].name, imp[c].id>>

\* An error ends the import and leaves what is stored.  A request that is
\* cancelled and a process that dies look the same to the database.
Fails(c) == Goes(c, "failed")

CreateSource(c) ==
  /\ imp[c].pc = "create"
  /\ Goes(c, "raw") \/ Fails(c)
  /\ UNCHANGED <<raw, docs, over>>

\* The id of a record: its own, or the one after the largest so far, and then
\* the first from there that is free.
WantedId(c) == IF Record(c).id > 0 THEN Record(c).id ELSE imp[c].next
FreeIdBelow(c) == Max({m \in 0 .. WantedId(c) : m \notin imp[c].used})

FreeId(c) ==
  Min({m \in WantedId(c) .. WantedId(c) + Cardinality(imp[c].used) :
         m \notin imp[c].used})

UpsertRawMessage(c) ==
  /\ imp[c].pc = "raw"
  /\ imp[c].done < Len(imp[c].records)
  /\ LET id == FreeId(c)
         stored == [raw EXCEPT ![c][id] = Record(c).text]
     IN \/ /\ raw' = stored
           /\ imp' = [imp EXCEPT ![c].id = id,
                        ![c].used = @ \cup {id},
                        ![c].next = IF id >= @ THEN id + 1 ELSE @,
                        ![c].pc = IF Record(c).text = TrashText THEN "raw" ELSE "find",
                        ![c].done = IF Record(c).text = TrashText THEN @ + 1 ELSE @,
                        ![c].last = IF id > @ THEN id ELSE @]
        \/ raw' \in {raw, stored} /\ Fails(c)
  /\ UNCHANGED <<docs, over>>

\* Documents of the source with the same hash, another id and no canonical one.
Canonical(c) ==
  {k \in DOMAIN docs : /\ docs[k].by = c
                       /\ docs[k].text = Record(c).text
                       /\ k # Key(c)
                       /\ ~docs[k].dup}

FindCanonicalDocumentByHash(c) ==
  /\ imp[c].pc = "find"
  /\ \/ imp' = [imp EXCEPT ![c].pc = "save", ![c].dup = Canonical(c) # {}]
     \/ Fails(c)
  /\ UNCHANGED <<raw, docs, over>>

\* A statement on the document of the record: whoever it belonged to has been
\* written over.  When the answer is lost it may have been executed.
Write(c, doc, next) ==
  LET owner == docs[Key(c)].by
      execute == /\ docs' = [docs EXCEPT ![Key(c)] = doc]
                 /\ over' = over \cup ({owner} \cap (Imports \ {c}))
  IN \/ execute /\ imp' = next
     \/ execute /\ Fails(c)
     \/ UNCHANGED <<docs, over>> /\ Fails(c)

NextRecord(c) == [imp EXCEPT ![c].pc = "raw", ![c].done = @ + 1]

\* on conflict (external_doc_id) do update: the source changes too, and the
\* chunks stay with the row.
SaveDocument(c) ==
  /\ imp[c].pc = "save"
  /\ Write(c, [docs[Key(c)] EXCEPT !.by = c, !.text = Record(c).text,
                                   !.dup = imp[c].dup],
           [imp EXCEPT ![c].pc = "delete"])
  /\ UNCHANGED raw

DeleteChunks(c) ==
  /\ imp[c].pc = "delete"
  /\ Write(c, [docs[Key(c)] EXCEPT !.chunk = NoText],
           IF imp[c].dup THEN NextRecord(c) ELSE [imp EXCEPT ![c].pc = "insert"])
  /\ UNCHANGED raw

InsertChunks(c) ==
  /\ imp[c].pc = "insert"
  /\ Write(c, [docs[Key(c)] EXCEPT !.chunk = Record(c).text], NextRecord(c))
  /\ UNCHANGED raw

MarkSourceSyncSuccess(c) ==
  /\ imp[c].pc = "raw"
  /\ imp[c].done = Len(imp[c].records)
  /\ Goes(c, "done") \/ Fails(c)
  /\ UNCHANGED <<raw, docs, over>>

ImportStep(c) ==
  \/ CreateSource(c) \/ UpsertRawMessage(c) \/ FindCanonicalDocumentByHash(c)
  \/ SaveDocument(c) \/ DeleteChunks(c) \/ InsertChunks(c)
  \/ MarkSourceSyncSuccess(c)

-----------------------------------------------------------------------------
\* An import that says it is done stored every record of its payload under an
\* id of its own, with the largest of them as the last, and each of its texts
\* has exactly one document of its source that is not a duplicate and carries
\* the chunk: whatever ids the payload gives or repeats, and whatever an
\* earlier import of the same name left, as long as no other one wrote into it.
ImportIsWhole ==
  \A c \in Imports : imp[c].pc = "done" =>
    LET texts == [k \in 1 .. Len(imp[c].records) |-> imp[c].records[k].text]
        stored == {m \in Ids : raw[c][m] # NoText}
    IN /\ Cardinality(stored) = Len(texts)
       /\ \A t \in Range(texts) :
            /\ Cardinality({m \in stored : raw[c][m] = t})
                 = Cardinality({k \in DOMAIN texts : texts[k] = t})
            /\ c \notin over /\ t # TrashText =>
                 LET found == {k \in DOMAIN docs : docs[k].by = c /\ docs[k].text = t
                                                   /\ ~docs[k].dup}
                 IN Cardinality(found) = 1 /\ \A k \in found : docs[k].chunk = t
       /\ imp[c].last = Max(stored)
=============================================================================
