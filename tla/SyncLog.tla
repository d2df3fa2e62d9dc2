------------------------------- MODULE SyncLog -------------------------------
(***************************************************************************)
(* What synchronisation promises, without calls, pages or jobs: a channel  *)
(* whose messages come and go, a store that only grows, and a watermark    *)
(* that is moved only to a stored message below which nothing that is      *)
(* still in the channel is missing from the store.  An incremental sync    *)
(* never looks below the watermark, so a message lost there is lost for    *)
(* good.                                                                   *)
(***************************************************************************)
EXTENDS Naturals

CONSTANT MaxId   \* largest message id

VARIABLES
  live,    \* ids in the channel
  stored,  \* ids with a raw_messages row
  mark     \* last_message_id, 0 for null

logVars == <<live, stored, mark>>

LogInit == live = {} /\ stored = {} /\ mark = 0

\* A new message is numbered above everything already synchronised.
Publish == \E m \in 1 .. MaxId :
             /\ m \notin live /\ m > mark
             /\ live' = live \cup {m}
             /\ UNCHANGED <<stored, mark>>

Withdraw == \E m \in live : live' = live \ {m} /\ UNCHANGED <<stored, mark>>

Store == \E m \in 1 .. MaxId :
           stored' = stored \cup {m} /\ UNCHANGED <<live, mark>>

Advance == \E k \in stored :
             /\ \A m \in live : m <= k => m \in stored
             /\ mark' = k
             /\ UNCHANGED <<live, stored>>

LogNext == Publish \/ Withdraw \/ Store \/ Advance

LogSpec == LogInit /\ [][LogNext]_logVars
=============================================================================
