---------------------------- MODULE MCHeadHunter ----------------------------
(***************************************************************************)
(* Small values for the constants of HeadHunter.                           *)
(***************************************************************************)
EXTENDS HeadHunter

Item(keys, id, text) == [keys |-> keys, id |-> id, text |-> text]
T == {"text"}

\* A repeated id and a free one that it moves to; texts that repeat; an item
\* without a text; a body that is trash.
MCPayloads ==
  {<<Item(T, 2, 7), Item(T \cup {"caption"}, 0, 8), Item(T, 2, 7)>>,
   <<Item(T, 0, 8), Item({"url"}, 1, 9), Item({"summary"}, 1, 7)>>,
   <<Item({"body"}, 1, TrashText), Item(T, 1, 8), Item(T, 0, 8)>>,
   <<Item({"title"}, 1, 9)>>}

\* Three vacancies in one second, which only one window can hold.
MCPostedAt == <<0, 0, 0, 1, 3, 4, 5>>
MCOnline == {1 .. 3, {1, 4, 5, 6}, {1, 2, 4, 5, 6}, {}}
MCWindow == [from |-> 0, to |-> 5]

MCPages == <<{<<1, 2>>, <<2, 1>>, <<>>}, {<<3>>, <<1, 3>>}>>

MCListings ==
  {[first |-> <<1, 2>>, rest |-> <<<<<<2, 3>>>>>>],
   [first |-> <<1>>, rest |-> <<<<<<2>>, <<1>>>>, <<<<3>>>>>>],
   [first |-> <<>>, rest |-> <<>>]}
AllOff == [dates |-> FALSE, dry |-> FALSE, lettersOnly |-> FALSE,
           originals |-> FALSE, pdf |-> FALSE]
MCRequests ==
  "first" :> {[AllOff EXCEPT !.lettersOnly = TRUE, !.originals = TRUE],
              [AllOff EXCEPT !.dates = TRUE, !.pdf = TRUE]} @@
  "second" :> {[AllOff EXCEPT !.dry = TRUE]}
=============================================================================
