--------------------------- MODULE ResumeSearch ---------------------------
(***************************************************************************)
(* The global search of resumes, backend/internal/hhresumesearch/          *)
(* service.go: pages of hits, then each resume in full, several at a time, *)
(* all of them or none.                                                    *)
(***************************************************************************)
EXTENDS Naturals, Sequences, SequencesExt, FiniteSetsExt, Functions, Selections

CONSTANTS
  Resumes,       \* resumes that can be found
  Pages,         \* what HeadHunter may answer for each page: sets of sequences
  MaxResumes,    \* bound: the limit a request may have
  Concurrency    \* requests at a time

ASSUME ResumeAssumption ==
  /\ Pages \in Seq(SUBSET Seq(Resumes))
  /\ {MaxResumes, Concurrency} \subseteq Nat \ {0}

VARIABLE hits   \* the search

HitsTypeOK ==
  hits \in [pc: {"off", "pages", "fetch", "fetched", "failed"}, page: Nat \ {0},
            found: Seq(Resumes), started: Nat, open: SUBSET Nat,
            error: BOOLEAN]

HitsInit ==
  hits = [pc |-> "off", page |-> 1, found |-> <<>>, started |-> 0, open |-> {},
          error |-> FALSE]

StartHits == hits.pc = "off" /\ hits' = [hits EXCEPT !.pc = "pages"]

\* The ranking may change between two pages: a resume may come again.
ReadHits ==
  /\ hits.pc = "pages"
  /\ hits.page <= Len(Pages) /\ Len(hits.found) < MaxResumes
  /\ \/ \E answer \in Pages[hits.page] :
          LET new == Selected(answer, {k \in DOMAIN answer :
                                         answer[k] \notin Range(hits.found)})
              room == MaxResumes - Len(hits.found)
          IN hits' = [hits EXCEPT
               !.found = @ \o SubSeq(new, 1, IF room < Len(new) THEN room ELSE Len(new)),
               !.page = @ + 1]
     \/ hits' = [hits EXCEPT !.pc = "failed"]

EndHits ==
  /\ hits.pc = "pages"
  /\ hits.page > Len(Pages) \/ Len(hits.found) = MaxResumes
  /\ hits' = [hits EXCEPT !.pc = IF hits.found = <<>> THEN "failed" ELSE "fetch"]

\* fetchFullResumes; the first error cancels the others.
StartFetch ==
  /\ hits.pc = "fetch"
  /\ hits.started < Len(hits.found)
  /\ Cardinality(hits.open) < Concurrency
  /\ hits' = [hits EXCEPT !.started = @ + 1, !.open = @ \cup {hits.started + 1}]

EndFetch ==
  /\ hits.pc = "fetch"
  /\ \E k \in hits.open, error \in BOOLEAN :
       hits' = [hits EXCEPT !.open = @ \ {k}, !.error = @ \/ error]

WaitFetch ==
  /\ hits.pc = "fetch"
  /\ hits.started = Len(hits.found) /\ hits.open = {}
  /\ hits' = [hits EXCEPT !.pc = IF hits.error THEN "failed" ELSE "fetched"]

HitsStep == ReadHits \/ EndHits \/ StartFetch \/ EndFetch \/ WaitFetch

\* The keys of a resume as the search marshals it (model.Resume).
ResumeKeys == {"id", "first_name", "last_name", "middle_name", "title", "area",
               "age", "salary", "contact", "skill_set", "skills", "experience",
               "education", "download", "alternate_url", "updated_at",
               "created_at"}
=============================================================================
