---------------------------- MODULE HHExtraction ----------------------------
(***************************************************************************)
(* Extractions of the resumes of a vacancy: Run of backend/internal/       *)
(* service/hh_extraction_service.go with negotiations, resumes and         *)
(* export/hh_resumes.go.  Requests for letters, resumes and originals run  *)
(* concurrently, and what fails is left out.  The directory of an          *)
(* extraction is named by vacancy and second: here all are of one vacancy. *)
(***************************************************************************)
EXTENDS Naturals, Sequences, SequencesExt, FiniteSetsExt, Functions, Selections

CONSTANTS
  Extractions,   \* calls of Run
  Applicants,    \* resumes of the applicants
  Listings,      \* what HeadHunter has of the vacancy's negotiations
  InDates,       \* applicants within the dates of a request that has them
  WithMessage,   \* whose negotiation carries the letter
  WithChat,      \* whose negotiation has a chat
  WithLetter,    \* who wrote a letter
  Requests,      \* what each call may be asked for
  Parallel,      \* the limit of concurrent requests
  LastSecond     \* bound: seconds

Request == [dates: BOOLEAN, dry: BOOLEAN, lettersOnly: BOOLEAN,
            originals: BOOLEAN, pdf: BOOLEAN]

\* The first page, and each further collection or page: of at least one page.
Listing == [first: Seq(Applicants), rest: Seq(Seq(Seq(Applicants)) \ {<<>>})]

ASSUME ExtractionAssumption ==
  /\ Listings \subseteq Listing
  /\ UNION {InDates, WithMessage, WithChat, WithLetter} \subseteq Applicants
  /\ WithMessage \subseteq WithLetter
  /\ \A c \in Extractions : Requests[c] \subseteq Request
  /\ Parallel \in Nat \ {0} /\ LastSecond \in Nat

VARIABLES
  run,     \* where each extraction is
  dirs,    \* dirs[s]: the directory of the extractions begun in second s
  now      \* the clock

extractionVars == <<run, dirs, now>>

Row == [who: Applicants, status: {"ok", "partial", "error", "skipped"},
        original: BOOLEAN]

\* A combined file has the resumes; the manifest has the rows and the counters.
Combination == Seq([who: Applicants, letter: BOOLEAN])
Manifest == [rows: Seq(Row), succeeded: Nat, failed: Nat]

\* A file is a sequence of one, its content.
Dir == [manifest: Seq(Manifest), markdown: Seq(Combination),
        html: Seq(Combination), pdf: Seq(Combination),
        originals: SUBSET Applicants]
NoFile == <<>>
NoDir == [manifest |-> NoFile, markdown |-> NoFile, html |-> NoFile,
          pdf |-> NoFile, originals |-> {}]

NoRun == [pc |-> "off", request |-> [dates |-> FALSE, dry |-> FALSE, lettersOnly |-> FALSE,
                        originals |-> FALSE, pdf |-> FALSE], dir |-> 0,
          rest |-> <<>>, people |-> <<>>, letters |-> {}, started |-> 0,
          open |-> {}, fetched |-> {}, rows |-> <<>>]

ExtractionTypeOK ==
  /\ run \in [Extractions ->
       [pc: {"off", "first", "rest", "choose", "letters", "resumes", "originals",
             "markdown", "html", "pdf", "manifest", "done", "failed"},
        request: Request, dir: 0 .. LastSecond,
        rest: Seq(Seq(Seq(Applicants))), people: Seq(Applicants),
        letters: SUBSET Applicants, started: Nat, open: SUBSET Nat,
        fetched: SUBSET Applicants, rows: Seq(Row)]]
  /\ dirs \in [0 .. LastSecond -> Dir]
  /\ now \in 0 .. LastSecond

ExtractionInit ==
  /\ run = [c \in Extractions |-> NoRun]
  /\ dirs = [s \in 0 .. LastSecond |-> NoDir]
  /\ now = 0

-----------------------------------------------------------------------------
Moves(c, pc) == run' = [run EXCEPT ![c].pc = pc]

\* HHStartExtraction; Run makes the directory.
StartRun(c, request) ==
  /\ run[c].pc = "off"
  /\ run' = [run EXCEPT ![c].pc = "first", ![c].request = request, ![c].dir = now]
  /\ UNCHANGED <<dirs, now>>

RunFails(c) ==
  /\ run[c].pc = "first"
  /\ Moves(c, "failed")
  /\ UNCHANGED <<dirs, now>>

-----------------------------------------------------------------------------
(***************************************************************************)
(* FetchByVacancy.                                                         *)
(***************************************************************************)
\* Each resume once, where it is first seen.
FirstSeen(people, page) ==
  {k \in DOMAIN page : /\ page[k] \notin Range(people)
                       /\ \A j \in DOMAIN page : j < k => page[j] # page[k]}

AppendCandidates(people, page) == people \o Selected(page, FirstSeen(people, page))

\* The rest is a sequence of what is read page by page: the collections, if
\* the first answer names some, or each further page by itself.
ReadFirst(c) ==
  /\ run[c].pc = "first"
  /\ \E l \in Listings :
       run' = [run EXCEPT ![c].pc = "rest",
                 ![c].people = AppendCandidates(<<>>, l.first),
                 ![c].rest = l.rest]
  /\ UNCHANGED <<dirs, now>>

\* A page, and what follows in its collection.
ReadRest(c) ==
  /\ run[c].pc = "rest"
  /\ run[c].rest # <<>>
  /\ LET pages == Head(run[c].rest)
         answer == Head(pages)
         more == IF answer = <<>> THEN <<>> ELSE Tail(pages)
     IN run' = [run EXCEPT
          ![c].people = AppendCandidates(@, answer),
          ![c].rest = IF more = <<>> THEN Tail(@) ELSE <<more>> \o Tail(@)]
  /\ UNCHANGED <<dirs, now>>

\* What an error leaves of a collection is not read; the next one is.
RestFails(c) ==
  /\ run[c].pc = "rest"
  /\ run[c].rest # <<>>
  /\ run' = [run EXCEPT ![c].rest = Tail(@)]
  /\ UNCHANGED <<dirs, now>>

\* Those of a list that are in a set, in their order.
Those(people, S) == Selected(people, {k \in DOMAIN people : people[k] \in S})

RowOf(a, status) == [who |-> a, status |-> status, original |-> FALSE]
Rows(people, status) == [k \in DOMAIN people |-> RowOf(people[k], status)]

\* The filter by date; without candidates, or in a dry run, only the manifest.
Choose(c) ==
  /\ run[c].pc = "rest"
  /\ run[c].rest = <<>>
  /\ LET request == run[c].request
         people == IF request.dates
                   THEN Those(run[c].people, InDates)
                   ELSE run[c].people
     IN run' = [run EXCEPT ![c].people = people,
                  ![c].rows = IF request.dry THEN Rows(people, "skipped") ELSE <<>>,
                  ![c].pc = IF people = <<>> \/ request.dry THEN "manifest"
                            ELSE "letters"]
  /\ UNCHANGED <<dirs, now>>

-----------------------------------------------------------------------------
(***************************************************************************)
(* The three groups of goroutines, each over the candidates in their order *)
(* with at most Parallel at a time; none of them returns an error.         *)
(***************************************************************************)
Tasks(c) == IF run[c].pc = "originals"
            THEN {k \in DOMAIN run[c].rows : run[c].rows[k].status = "ok"}
            ELSE DOMAIN run[c].people

StartTask(c) ==
  /\ run[c].pc \in {"letters", "resumes", "originals"}
  /\ Cardinality(run[c].open) < Parallel
  /\ LET next == {k \in Tasks(c) : k > run[c].started}
     IN /\ next # {}
        /\ run' = [run EXCEPT ![c].started = Min(next),
                              ![c].open = @ \cup {Min(next)}]
  /\ UNCHANGED <<dirs, now>>

Waited(c) == /\ run[c].open = {}
             /\ \A k \in Tasks(c) : k <= run[c].started

\* FetchCoverLetter asks the chat, if there is one, and after an error the old
\* messages; its own error leaves the candidate without a letter.
LetterArrives(c) ==
  /\ run[c].pc = "letters"
  /\ \E k \in run[c].open, chat \in BOOLEAN, legacy \in BOOLEAN :
       LET a == run[c].people[k]
           known == \/ a \in WithMessage
                    \/ a \in WithLetter /\ ((a \in WithChat /\ chat) \/ legacy)
       IN run' = [run EXCEPT ![c].open = @ \ {k},
                    ![c].letters = IF known THEN @ \cup {a} ELSE @]
  /\ UNCHANGED <<dirs, now>>

\* With letters only, the others become rows and are candidates no more.
LettersDone(c) ==
  /\ run[c].pc = "letters"
  /\ Waited(c)
  /\ LET only == run[c].request.lettersOnly
         kept == IF only THEN Those(run[c].people, run[c].letters)
                 ELSE run[c].people
         others == IF only THEN Those(run[c].people, Applicants \ run[c].letters)
                   ELSE <<>>
     IN run' = [run EXCEPT ![c].people = kept,
                  ![c].rows = Rows(others, "skipped"), ![c].started = 0,
                  ![c].pc = IF kept = <<>> THEN "manifest" ELSE "resumes"]
  /\ UNCHANGED <<dirs, now>>

ResumeArrives(c) ==
  /\ run[c].pc = "resumes"
  /\ \E k \in run[c].open, answered \in BOOLEAN :
       run' = [run EXCEPT ![c].open = @ \ {k},
                 ![c].fetched = IF answered THEN @ \cup {run[c].people[k]} ELSE @]
  /\ UNCHANGED <<dirs, now>>

ResumesDone(c) ==
  /\ run[c].pc = "resumes"
  /\ Waited(c)
  /\ LET row(a) == RowOf(a, IF a \in run[c].fetched THEN "ok" ELSE "error")
         people == run[c].people
     IN run' = [run EXCEPT ![c].started = 0,
          ![c].rows = @ \o [k \in DOMAIN people |-> row(people[k])],
          ![c].pc = IF run[c].request.originals THEN "originals" ELSE "markdown"]
  /\ UNCHANGED <<dirs, now>>

\* The row of an original: its manifestIndex.  Wrong: its place among the
\* resumes that were fetched.
IndexOfFetched(c, k) ==
  Cardinality({j \in 1 .. k : run[c].rows[j].who \in run[c].fetched})
ManifestIndex(c, k) == k

\* DownloadOriginal writes the file; the row is changed under a lock.
OriginalArrives(c) ==
  /\ run[c].pc = "originals"
  /\ \E k \in run[c].open, saved \in BOOLEAN :
       /\ run' = [run EXCEPT ![c].open = @ \ {k},
            ![c].rows[ManifestIndex(c, k)].original = saved,
            ![c].rows[ManifestIndex(c, k)].status = IF saved THEN @ ELSE "partial"]
       /\ dirs' = [dirs EXCEPT ![run[c].dir].originals =
                     IF saved THEN @ \cup {run[c].rows[k].who} ELSE @]
  /\ UNCHANGED now

OriginalsDone(c) ==
  /\ run[c].pc = "originals"
  /\ Waited(c)
  /\ Moves(c, "markdown")
  /\ UNCHANGED <<dirs, now>>

-----------------------------------------------------------------------------
(***************************************************************************)
(* The files: an error of one of them does not stop the others.            *)
(***************************************************************************)
\* The resumes that were fetched, in order, each with its letter.
Combined(c) ==
  LET people == Those(run[c].people, run[c].fetched)
  IN [k \in DOMAIN people |-> [who |-> people[k],
                               letter |-> people[k] \in run[c].letters]]

WriteCombinedMarkdown(c) ==
  /\ run[c].pc = "markdown"
  /\ IF Combined(c) = <<>> THEN UNCHANGED dirs /\ Moves(c, "manifest")
     ELSE /\ Moves(c, "html")
          /\ \/ dirs' = [dirs EXCEPT ![run[c].dir].markdown = <<Combined(c)>>]
             \/ UNCHANGED dirs
  /\ UNCHANGED now

\* Create empties the file before the template is rendered.
WriteCombinedHTML(c) ==
  /\ run[c].pc = "html"
  /\ \/ /\ dirs' = [dirs EXCEPT ![run[c].dir].html = <<Combined(c)>>]
        /\ Moves(c, IF run[c].request.pdf THEN "pdf" ELSE "manifest")
     \/ /\ \/ UNCHANGED dirs
           \/ dirs' = [dirs EXCEPT ![run[c].dir].html = NoFile]
        /\ Moves(c, "manifest")
  /\ UNCHANGED now

\* Chrome prints what the HTML file holds now.
WriteCombinedPDF(c) ==
  /\ run[c].pc = "pdf"
  /\ \/ dirs' = [dirs EXCEPT ![run[c].dir].pdf = dirs[run[c].dir].html]
     \/ UNCHANGED dirs
  /\ Moves(c, "manifest")
  /\ UNCHANGED now

\* The counters go with the rows.
Counted(rows, statuses) ==
  Cardinality({k \in DOMAIN rows : rows[k].status \in statuses})

WriteManifest(c) ==
  /\ run[c].pc = "manifest"
  /\ LET rows == run[c].rows
         dry == run[c].request.dry
         manifest == [rows |-> rows,
                      succeeded |-> IF dry THEN Len(rows)
                                    ELSE Counted(rows, {"ok", "partial"}),
                      failed |-> IF dry THEN 0
                                 ELSE Counted(rows, {"error", "skipped"})]
     IN \/ /\ dirs' = [dirs EXCEPT ![run[c].dir].manifest = <<manifest>>]
           /\ Moves(c, "done")
        \/ Moves(c, "failed") /\ UNCHANGED dirs
  /\ UNCHANGED now

RunStep(c) ==
  \/ RunFails(c) \/ ReadFirst(c) \/ ReadRest(c) \/ RestFails(c) \/ Choose(c)
  \/ StartTask(c) \/ LetterArrives(c) \/ LettersDone(c) \/ ResumeArrives(c)
  \/ ResumesDone(c) \/ OriginalArrives(c) \/ OriginalsDone(c)
  \/ WriteCombinedMarkdown(c) \/ WriteCombinedHTML(c) \/ WriteCombinedPDF(c)
  \/ WriteManifest(c)

TickSecond ==
  /\ now < LastSecond
  /\ now' = now + 1
  /\ UNCHANGED <<run, dirs>>

-----------------------------------------------------------------------------
SharesDirectory(c) ==
  \E d \in Extractions \ {c} : run[d].pc # "off" /\ run[d].dir = run[c].dir

\* README.md:420 "partial success": the manifest of an extraction that is done
\* has one row for every resume, one that says "ok" or "partial" exactly for
\* each that was fetched, and the flag of the original exactly where the file
\* is; the combined files hold just those resumes with the letters that were
\* read.  (Unless another extraction has the directory.)
ManifestTellsTheTruth ==
  \A c \in Extractions : run[c].pc = "done" /\ ~SharesDirectory(c) =>
    LET dir == dirs[run[c].dir]
        manifest == dir.manifest[1]
        rows == manifest.rows
        who(k) == rows[k].who
    IN /\ IsInjective([k \in DOMAIN rows |-> who(k)])
       /\ Range(run[c].people) \subseteq {who(k) : k \in DOMAIN rows}
       /\ \A k \in DOMAIN rows :
            /\ rows[k].status \in {"ok", "partial"} <=> who(k) \in run[c].fetched
            /\ rows[k].original <=> who(k) \in dir.originals
            /\ run[c].request.originals =>
                 (rows[k].status = "ok" <=> who(k) \in dir.originals)
            /\ rows[k].status = "skipped" =>
                 run[c].request.dry \/ who(k) \notin run[c].letters
       /\ ~run[c].request.dry => manifest.succeeded = Cardinality(run[c].fetched)
       /\ manifest.succeeded + manifest.failed = Len(rows)
       /\ \A file \in {dir.markdown, dir.html, dir.pdf} \ {NoFile} :
            /\ {entry.who : entry \in Range(file[1])} = run[c].fetched
            /\ \A entry \in Range(file[1]) :
                 entry.letter = (entry.who \in run[c].letters)
=============================================================================
