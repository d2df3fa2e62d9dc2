------------------------- MODULE MCYouTubePipeline -------------------------
(***************************************************************************)
(* Small values for the constants of YouTubePipeline.                      *)
(***************************************************************************)
EXTENDS YouTubePipeline, TLC

\* A long transcript of two chunks, and a short one.
MCChunkCount == [t \in Texts |-> IF t = "long" THEN 2 ELSE 1]

\* Requests are interchangeable (not used where liveness is checked).
Symmetry == Permutations(Calls)
=============================================================================
