----------------------------- MODULE HeadHunter -----------------------------
(***************************************************************************)
(* JSON uploads, the import of public vacancies, the import of resumes     *)
(* found by a global search, and extractions, as the handlers of backend/  *)
(* internal/api and the bot start them.  Uploads and extractions come      *)
(* several at a time.                                                      *)
(***************************************************************************)
EXTENDS JSONImport, VacancySearch, ResumeSearch, HHExtraction

CONSTANTS
  Kinds,      \* what an instance looks at, one of the four at a time
  Uploads,    \* imports of uploaded files
  OfVacancies, OfResumes,   \* the imports of the two searches
  Payloads    \* items an uploaded file may have

ASSUME HeadHunterAssumption ==
  /\ Kinds \subseteq {"uploads", "vacancies", "resumes", "extractions"}
  /\ Imports = Uploads \cup {OfVacancies, OfResumes}
  /\ {OfVacancies, OfResumes} \cap Uploads = {} /\ OfVacancies # OfResumes
  /\ Payloads \subseteq Seq(Items)
  \* Numbers fit, whatever ids repeat or are missing.
  /\ \A p \in Payloads : \A k \in DOMAIN p : p[k].id + Len(p) <= MaxId
  /\ \A v \in Vacancies : \A n \in MaxItems : v + n <= MaxId

VARIABLE kind

vars == <<kind, importVars, vacancyVars, hits, extractionVars>>

TypeOK == /\ kind \in Kinds
          /\ ImportTypeOK /\ VacancyTypeOK /\ HitsTypeOK /\ ExtractionTypeOK

Init == /\ kind \in Kinds
        /\ ImportInit /\ VacancyInit /\ HitsInit /\ ExtractionInit
        /\ kind # "vacancies" => online = {}

-----------------------------------------------------------------------------
\* A vacancy is marshalled with its text and its title; its id is a number.
\* A resume has none of the keys of a text, and its id is not a number.
VacancyItem(v) == [keys |-> {"id", "text", "caption"}, id |-> v, text |-> v]
ResumeItem(r) == [keys |-> ResumeKeys, id |-> 0, text |-> r]

Upload(c) ==
  /\ \E name \in Names, items \in Payloads : ImportJSON(c, name, items)
  /\ UNCHANGED <<vacancyVars, hits>>

ImportVacancies ==
  /\ search.pc = "collected"
  /\ LET found == search.items
     IN \E name \in Names :
          ImportJSON(OfVacancies, name, [k \in DOMAIN found |-> VacancyItem(found[k])])
  /\ UNCHANGED <<vacancyVars, hits>>

ImportResumes ==
  /\ hits.pc = "fetched"
  /\ LET found == hits.found
     IN \E name \in Names :
          ImportJSON(OfResumes, name, [k \in DOMAIN found |-> ResumeItem(found[k])])
  /\ UNCHANGED <<vacancyVars, hits>>

-----------------------------------------------------------------------------
Stores(c) == ImportStep(c) /\ UNCHANGED <<vacancyVars, hits>>

UploadRequest ==
  /\ kind = "uploads"
  /\ \E c \in Uploads : Upload(c)
  /\ UNCHANGED <<kind, extractionVars>>

UploadStep(c) ==
  /\ kind = "uploads"
  /\ Stores(c)
  /\ UNCHANGED <<kind, extractionVars>>

VacancyRequest ==
  /\ kind = "vacancies"
  /\ \E max \in MaxItems : StartSearch(max)
  /\ UNCHANGED <<kind, importVars, hits, extractionVars>>

VacancyStep ==
  /\ kind = "vacancies"
  /\ \/ SearchStep /\ UNCHANGED <<importVars, hits>>
     \/ ImportVacancies
     \/ Stores(OfVacancies)
  /\ UNCHANGED <<kind, extractionVars>>

VacanciesChange ==
  /\ kind = "vacancies"
  /\ HeadHunterChanges
  /\ UNCHANGED <<kind, importVars, hits, extractionVars>>

ResumeRequest ==
  /\ kind = "resumes"
  /\ StartHits
  /\ UNCHANGED <<kind, importVars, vacancyVars, extractionVars>>

ResumeStep ==
  /\ kind = "resumes"
  /\ \/ HitsStep /\ UNCHANGED <<importVars, vacancyVars>>
     \/ ImportResumes
  /\ UNCHANGED <<kind, extractionVars>>

ExtractionRequest ==
  /\ kind = "extractions"
  /\ \/ \E c \in Extractions : \E request \in Requests[c] : StartRun(c, request)
     \/ TickSecond
  /\ UNCHANGED <<kind, importVars, vacancyVars, hits>>

ExtractionStep(c) ==
  /\ kind = "extractions"
  /\ RunStep(c)
  /\ UNCHANGED <<kind, importVars, vacancyVars, hits>>

Next ==
  \/ UploadRequest \/ \E c \in Uploads : UploadStep(c)
  \/ VacancyRequest \/ VacancyStep \/ VacanciesChange
  \/ ResumeRequest \/ ResumeStep
  \/ ExtractionRequest \/ \E c \in Extractions : ExtractionStep(c)

Spec == Init /\ [][Next]_vars

\* Goroutines go on, and the database, HeadHunter and Chrome answer or fail.
FairSpec ==
  /\ Spec
  /\ \A c \in Uploads : WF_vars(UploadStep(c))
  /\ WF_vars(VacancyStep) /\ WF_vars(ResumeStep)
  /\ \A c \in Extractions : WF_vars(ExtractionStep(c))

-----------------------------------------------------------------------------
Settled == {"off", "done", "rejected", "failed"}

Busy ==
  \/ \E c \in Imports : imp[c].pc \notin Settled
  \/ search.pc \in {"windows", "pages"}
  \/ hits.pc \in {"pages", "fetch"}
  \/ \E c \in Extractions : run[c].pc \notin Settled

\* Whatever was begun ends: an import, a search though what it reads changes
\* and a second may hold more than a window shows, and an extraction whatever
\* its goroutines are answered.
WorkEnds == Busy ~> ~Busy

\* backend/internal/api/hh_handlers.go:359: HHImportGlobalResumes "imports
\* globally searched HH resumes into the generic JSON ingestion flow": the flow
\* takes a payload of resumes that were all fetched.
FoundResumesAreImported == imp[OfResumes].pc # "rejected"
=============================================================================
