----------------------------- MODULE Requests -----------------------------
(***************************************************************************)
(* The calls that make exports, and their contexts: a context is done when *)
(* the client of the HTTP request goes away or the bot's time-out passes.  *)
(***************************************************************************)
CONSTANTS
  FolderCalls,   \* POST /filesystem/export-rag and the bot's file uploads
  TextCalls      \* POST /exports/jsonl and the bot's /export

VARIABLE cancelled   \* the calls whose context is done

Calls == FolderCalls \cup TextCalls

Cancel(c) ==
  /\ c \notin cancelled
  /\ cancelled' = cancelled \cup {c}
=============================================================================
