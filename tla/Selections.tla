----------------------------- MODULE Selections -----------------------------
(***************************************************************************)
(* What a loop builds that goes over a list and appends what it keeps.     *)
(***************************************************************************)
EXTENDS Naturals, Sequences

\* The elements of a list at the places `at`, in their order.
Selected(list, at) ==
  LET kept[n \in 0 .. Len(list)] ==
        IF n = 0 THEN <<>>
        ELSE IF n \in at THEN Append(kept[n - 1], list[n]) ELSE kept[n - 1]
  IN kept[Len(list)]
=============================================================================
