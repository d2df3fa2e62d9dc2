--------------------------- MODULE MCMessageLinks ---------------------------
(***************************************************************************)
(* Small values for the constants of MessageLinks.                         *)
(***************************************************************************)
EXTENDS MessageLinks

MCChannels == {<<"a", "trash", "b">>, <<"trash", "b", "none">>}
MCLinkLists == {<<3, 1, 3>>, <<2>>}
=============================================================================
