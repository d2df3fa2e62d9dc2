------------------------------ MODULE DocStore ------------------------------
(***************************************************************************)
(* The three content tables one source owns, and the SQL statements that   *)
(* ingestion and processing run on them: raw_messages (one row per         *)
(* Telegram message), documents (one row per external_doc_id, here one     *)
(* per message id) and chunks (one row per document and chunk index).      *)
(* Every operator is ONE statement, which PostgreSQL runs atomically; the  *)
(* program opens no transaction around several of them.                    *)
(*                                                                         *)
(* A text stands for a cleaned message body, and equality of texts for     *)
(* equality of content_hash.  Trash stands for every body that the         *)
(* cleaning step rejects.                                                  *)
(***************************************************************************)
EXTENDS Naturals, FiniteSets

CONSTANTS
  MaxId,      \* largest message id of the instance
  Texts,      \* cleaned bodies worth keeping
  Trash,      \* a body that IsTrash rejects
  NoText,     \* no row, or no message
  MaxChunks,  \* most chunks one text is cut into
  ChunkCount  \* chunks of each text

ASSUME StoreAssumption ==
  /\ MaxId \in Nat \ {0}
  /\ MaxChunks \in Nat \ {0}
  /\ Trash \notin Texts
  /\ NoText \notin Texts \cup {Trash}
  /\ ChunkCount \in [Texts -> 1 .. MaxChunks]

Ids == 1 .. MaxId
Bodies == Texts \cup {Trash}

VARIABLES
  raw,     \* raw[m]: body stored in raw_messages, or NoText
  docs,    \* docs[m]: the documents row of message m
  chunks   \* chunks[m][i]: text the i-th chunk row was cut from, or NoText

storeVars == <<raw, docs, chunks>>

\* dupOf is the message whose document is the canonical one, 0 when
\* is_duplicate is false; born orders the rows by created_at.
DocRow == [text: Texts \cup {NoText}, dupOf: 0 .. MaxId, born: 0 .. MaxId]
NoDoc == [text |-> NoText, dupOf |-> 0, born |-> 0]
NoChunks == [i \in 1 .. MaxChunks |-> NoText]

StoreTypeOK ==
  /\ raw \in [Ids -> Bodies \cup {NoText}]
  /\ docs \in [Ids -> DocRow]
  /\ chunks \in [Ids -> [1 .. MaxChunks -> Texts \cup {NoText}]]

StoreInit ==
  /\ raw = [m \in Ids |-> NoText]
  /\ docs = [m \in Ids |-> NoDoc]
  /\ chunks = [m \in Ids |-> NoChunks]

HasDoc(m) == docs[m].text # NoText
IsDuplicate(m) == HasDoc(m) /\ docs[m].dupOf # 0
IsCanonical(m) == HasDoc(m) /\ docs[m].dupOf = 0

-----------------------------------------------------------------------------
\* insert ... on conflict (source_id, telegram_message_id) do update
UpsertRawMessage(m, body) == raw' = [raw EXCEPT ![m] = body]

\* Three ways to get the lookup wrong: forget is_duplicate = false, look only
\* at earlier messages, or let a message find its own document.
CanonicalDocsAnyRow(m, text) == {k \in Ids \ {m} : docs[k].text = text}
CanonicalDocsEarlier(m, text) ==
  {k \in 1 .. m - 1 : IsCanonical(k) /\ docs[k].text = text}
CanonicalDocsSelf(m, text) == {k \in Ids : IsCanonical(k) /\ docs[k].text = text}

\* Documents of other messages with the same hash that are not duplicates.
CanonicalDocs(m, text) ==
  {k \in Ids \ {m} : IsCanonical(k) /\ docs[k].text = text}

\* k is what "order by created_at asc limit 1" returns; 0 for no row.
FoundCanonical(m, text, k) ==
  \/ k = 0 /\ CanonicalDocs(m, text) = {}
  \/ /\ k \in CanonicalDocs(m, text)
     /\ \A j \in CanonicalDocs(m, text) : docs[k].born <= docs[j].born

\* insert ... on conflict (external_doc_id) do update; created_at is kept.
SaveDocument(m, text, dup) ==
  docs' = [docs EXCEPT ![m] =
             [text |-> text, dupOf |-> dup,
              born |-> IF HasDoc(m) THEN docs[m].born
                       ELSE Cardinality({k \in Ids : HasDoc(k)}) + 1]]

\* A document that is saved again keeps the chunks of its old text.
KeepChunks(m) == UNCHANGED chunks

DeleteChunksByDocumentID(m) == chunks' = [chunks EXCEPT ![m] = NoChunks]

\* One iteration of InsertChunks: each chunk is a statement of its own.
InsertChunk(m, i, text) == chunks' = [chunks EXCEPT ![m][i] = text]

-----------------------------------------------------------------------------
\* The document of m carries the text and exactly that text's chunks.
FullyChunked(m, text) ==
  /\ docs[m].text = text
  /\ \A i \in 1 .. MaxChunks :
       chunks[m][i] = IF i <= ChunkCount[text] THEN text ELSE NoText

\* What ProcessRawMessage leaves behind for a stored body: a duplicate owns no
\* chunks and names its canonical document, any other document is chunked.
Processed(m, body) ==
  body \in Texts =>
    \/ FullyChunked(m, body) /\ IsCanonical(m)
    \/ docs[m].text = body /\ IsDuplicate(m) /\ chunks[m] = NoChunks

=============================================================================
