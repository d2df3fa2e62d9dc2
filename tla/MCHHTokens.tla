----------------------------- MODULE MCHHTokens -----------------------------
(***************************************************************************)
(* An instance of HHTokens: an extraction of the API with two goroutines,  *)
(* an access check of the bot and a code exchanged by the API.             *)
(***************************************************************************)
EXTENDS HHTokens

ProcessOfInstance ==
  [c \in Calls |-> IF c = "access" THEN "bot" ELSE "api"]

CallOfInstance ==
  [w \in Workers |-> CASE w = "a1" -> "access" [] w = "x1" -> "code"
                       [] OTHER -> "extraction"]

BatchesOfInstance ==
  {{"extraction", "code"}, {"extraction", "access"}, {"code", "access"}}
=============================================================================
