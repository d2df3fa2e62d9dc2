--------------------------- MODULE VacancySearch ---------------------------
(***************************************************************************)
(* The collection of public vacancies, backend/internal/hhpublic/          *)
(* service.go: HeadHunter shows only the newest PerWindow vacancies of a   *)
(* search, so a window of time with more is halved, the newer half first;  *)
(* meanwhile vacancies go online and are archived.                         *)
(*                                                                         *)
(* Time is in whole seconds, as in the queries.  The calls of              *)
(* collectWindow that are still to come are the windows left.              *)
(***************************************************************************)
EXTENDS Naturals, Sequences, SequencesExt, FiniteSetsExt, Functions, Selections

CONSTANTS
  Vacancies,     \* that are ever online, as numbers
  PostedAt,      \* publication time of each
  OnlineBefore,  \* sets of vacancies online when the search begins
  Window,        \* the window asked for
  PerWindow,     \* maxSearchResultsPerWindow
  PerPage,       \* searchPerPage
  MaxItems,      \* limits a request may have
  MaxChanges     \* bound: vacancies that go online or offline meanwhile

ASSUME VacancyAssumption ==
  /\ Vacancies \subseteq Nat \ {0} /\ IsFiniteSet(Vacancies)
  /\ PostedAt \in [Vacancies -> Nat]
  /\ OnlineBefore \subseteq SUBSET Vacancies
  /\ {PerWindow, PerPage} \subseteq Nat \ {0} /\ PerWindow % PerPage = 0
  /\ Window \in [from: Nat, to: Nat] /\ Window.from <= Window.to
  /\ MaxItems \subseteq Nat \ {0} /\ MaxItems # {} /\ MaxChanges \in Nat

VARIABLES
  search,    \* the search
  online,    \* what HeadHunter has
  always,    \* what has been online since the search began
  stale,     \* a window changed while its pages were read
  changes

vacancyVars == <<search, online, always, stale, changes>>

Windows == [from: Nat, to: Nat]

VacancyTypeOK ==
  /\ search \in [pc: {"off", "windows", "pages", "collected", "failed"},
                 max: MaxItems, left: Seq(Windows), page: Nat, pages: Nat,
                 items: Seq(Vacancies), truncated: BOOLEAN]
  /\ always \subseteq online /\ online \subseteq Vacancies
  /\ stale \in BOOLEAN
  /\ changes \in 0 .. MaxChanges

VacancyInit ==
  /\ online \in OnlineBefore
  /\ always = online
  /\ stale = FALSE
  /\ changes = 0
  /\ search = [pc |-> "off", max |-> CHOOSE n \in MaxItems : TRUE, left |-> <<>>,
               page |-> 0, pages |-> 0, items |-> <<>>, truncated |-> FALSE]

-----------------------------------------------------------------------------
\* HeadHunter: what is online in a window, newest first, and a page of it.
Found(w) == {v \in online : PostedAt[v] >= w.from /\ PostedAt[v] <= w.to}

Newer(u, v) == \/ PostedAt[u] > PostedAt[v]
               \/ PostedAt[u] = PostedAt[v] /\ u > v

Rank(S, v) == Cardinality({u \in S : Newer(u, v)})

NewestFirst(S) ==
  [k \in 1 .. Cardinality(S) |-> CHOOSE v \in S : Rank(S, v) = k - 1]

Least(a, b) == IF a < b THEN a ELSE b

AnswerPage(w, page) ==
  LET all == NewestFirst(Found(w))
  IN SubSeq(all, page * PerPage + 1, Least((page + 1) * PerPage, Len(all)))

-----------------------------------------------------------------------------
Searching == search.pc \in {"windows", "pages"}
Full == Len(search.items) >= search.max
Current == Head(search.left)

StartSearch(max) ==
  /\ search.pc = "off"
  /\ search' = [search EXCEPT !.pc = "windows", !.max = max, !.left = <<Window>>]
  /\ UNCHANGED <<online, always, stale, changes>>

\* A probe asks how many there are in a window.
Probes == search.pc = "windows" /\ search.left # <<>> /\ ~Full

ProbeEmpty ==
  /\ Probes
  /\ Found(Current) = {}
  /\ search' = [search EXCEPT !.left = Tail(@)]
  /\ UNCHANGED <<online, always, stale, changes>>

IsLeaf(w) == Cardinality(Found(w)) <= PerWindow \/ w.to - w.from <= 1

\* fetchWindowItems: no more pages than the items wanted fill.
ProbeLeaf ==
  /\ Probes
  /\ Found(Current) # {}
  /\ IsLeaf(Current)
  /\ LET found == Cardinality(Found(Current))
         limit == Least(search.max - Len(search.items), Least(found, PerWindow))
     IN search' = [search EXCEPT !.pc = "pages", !.page = 0,
                     !.pages = (limit + PerPage - 1) \div PerPage,
                     !.truncated = @ \/ found > PerWindow]
  /\ UNCHANGED <<online, always, stale, changes>>

\* Halves with a second between them that is in neither.
HalvesApart(w) ==
  LET mid == w.from + (w.to - w.from) \div 2
  IN <<[from |-> mid + 1, to |-> w.to], [from |-> w.from, to |-> mid - 1]>>

\* The whole window is walked again in place of its older half.
HalvesAgain(w) ==
  LET mid == w.from + (w.to - w.from) \div 2
  IN <<[from |-> mid + 1, to |-> w.to], w>>

\* splitWindow
Halves(w) ==
  LET mid == w.from + (w.to - w.from) \div 2
  IN <<[from |-> mid + 1, to |-> w.to], [from |-> w.from, to |-> mid]>>

\* collectWindow's branch for a window that splitWindow refuses is left out: one
\* that is no leaf is at least two whole seconds long and has two halves.
ProbeSplit ==
  /\ Probes
  /\ ~IsLeaf(Current)
  /\ search' = [search EXCEPT !.left = Halves(Current) \o Tail(@)]
  /\ UNCHANGED <<online, always, stale, changes>>

\* A page of the window; what was seen already is passed over.  A short page
\* is the last one.
ReadPage ==
  /\ search.pc = "pages"
  /\ search.page < search.pages
  /\ ~Full
  /\ LET answer == AnswerPage(Current, search.page)
         new == Selected(answer, {k \in DOMAIN answer :
                                   answer[k] \notin Range(search.items)})
         room == search.max - Len(search.items)
     IN search' = [search EXCEPT
          !.items = @ \o SubSeq(new, 1, Least(room, Len(new))),
          !.page = IF Len(answer) < PerPage THEN search.pages ELSE @ + 1]
  /\ UNCHANGED <<online, always, stale, changes>>

LeaveWindow ==
  /\ search.pc = "pages"
  /\ search.page >= search.pages \/ Full
  /\ search' = [search EXCEPT !.pc = "windows", !.left = Tail(@)]
  /\ UNCHANGED <<online, always, stale, changes>>

Collected ==
  /\ search.pc = "windows"
  /\ search.left = <<>> \/ Full
  /\ search' = [search EXCEPT !.pc = IF search.items = <<>> THEN "failed" ELSE "collected"]
  /\ UNCHANGED <<online, always, stale, changes>>

\* A request that fails, after the client's retries, ends the whole import.
SearchFails ==
  /\ \/ Probes
     \/ search.pc = "pages" /\ search.page < search.pages /\ ~Full
  /\ search' = [search EXCEPT !.pc = "failed"]
  /\ UNCHANGED <<online, always, stale, changes>>

SearchStep == ProbeEmpty \/ ProbeLeaf \/ ProbeSplit \/ ReadPage \/ LeaveWindow
              \/ Collected \/ SearchFails

\* A vacancy goes online, as the newest; one is archived.
HeadHunterChanges ==
  /\ Searching
  /\ changes < MaxChanges
  /\ \E v \in Vacancies :
       /\ \/ /\ v \notin online
             /\ \A u \in online : PostedAt[u] <= PostedAt[v]
             /\ online' = online \cup {v}
          \/ /\ v \in online
             /\ online' = online \ {v}
       /\ always' = always \cap online'
       /\ stale' = (stale \/ (search.pc = "pages" /\ PostedAt[v] >= Current.from
                                                  /\ PostedAt[v] <= Current.to))
  /\ changes' = changes + 1
  /\ UNCHANGED search

-----------------------------------------------------------------------------
\* A search that ends without an error has the newest vacancies: one of the
\* window that was online all the time is missing only when the search is full
\* of vacancies that are no older, however the window was halved and whatever
\* changed outside the pages being read.  Nothing is collected twice.
\* (A second with more than PerWindow vacancies is cut: the code counts it.)
TheLatestAreCollected ==
  search.pc = "collected" =>
    /\ IsInjective(search.items)
    /\ Len(search.items) <= search.max
    /\ ~stale /\ ~search.truncated =>
         \A v \in always :
           \/ PostedAt[v] < Window.from \/ PostedAt[v] > Window.to
           \/ v \in Range(search.items)
           \/ /\ Full
              /\ \A u \in Range(search.items) : PostedAt[u] >= PostedAt[v]
=============================================================================
