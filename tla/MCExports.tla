----------------------------- MODULE MCExports -----------------------------
(***************************************************************************)
(* Small values for the constants of Exports.                              *)
(***************************************************************************)
EXTENDS Exports

\* A folder with two archives and a document.  In the first an archive and a file
\* of a format the scan cannot unpack; in that inner archive one that is too deep
\* to open; in the second archive a system file only.  With everything unpacked
\* three files are listed, the limit; the second one broken makes a fourth.
MCNodes == 1 .. 7
MCKind == <<"document", "archive", "archive", "archive", "unsupported", "ignorable",
            "archive">>
MCMembers == 0 :> <<2, 7, 1>> @@ 2 :> <<3, 5>> @@ 3 :> <<4>> @@ 4 :> <<>> @@ 7 :> <<6>>
MCRequests ==
  {[stem |-> "a", mode |-> "txt_rag", duplicates |-> TRUE, trash |-> TRUE],
   [stem |-> "a", mode |-> "chunks", duplicates |-> FALSE, trash |-> TRUE]}
\* Calls of different kinds share nothing but the table, where each has its row.
MCBatches ==
  {[calls |-> {"folder"}, messages |-> {}],
   [calls |-> {"one"}, messages |-> {1, 2}],
   [calls |-> {"one", "two"}, messages |-> {}]}
=============================================================================
