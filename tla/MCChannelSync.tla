--------------------------- MODULE MCChannelSync ---------------------------
(***************************************************************************)
(* Small values for the constants of ChannelSync.                          *)
(***************************************************************************)
EXTENDS ChannelSync, TLC

\* The first text is cut into two chunks, any other into one.
MCChunkCount == [t \in Texts |-> IF t = "a" THEN 2 ELSE 1]

\* Calls are interchangeable (not used where liveness is checked).
Symmetry == Permutations(Syncs)
=============================================================================
