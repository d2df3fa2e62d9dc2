------------------------------ MODULE MCTgBot ------------------------------
(***************************************************************************)
(* Small values for the constants of TgBot.                                *)
(***************************************************************************)
EXTENDS TgBot

MCCatalog == <<"v1", "v2">>

Plain(kind) == [kind |-> kind, query |-> [index |-> 0, name |-> NoVacancy]]

\* The paths on which a session is read and written in more than one access:
\* the vacancy scenario, the searches, uploads, one-shot imports and /cancel.
MCMessages ==
  {Plain(k) : k \in {"reset", "cabinet", "public", "people", "period", "link",
                     "audio", "json", "files", "info", "run", "document"}}
    \cup {[kind |-> "text", query |-> [index |-> 2, name |-> NoVacancy]],
          [kind |-> "hh", query |-> [index |-> 0, name |-> "v1"]]}
=============================================================================
