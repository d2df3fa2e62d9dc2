------------------------------- MODULE TgBot -------------------------------
(***************************************************************************)
(* The Telegram bot: the update loop, the session of each chat and the     *)
(* goroutines of backend/internal/tgbot/bot.go.                            *)
(*                                                                         *)
(* One loop takes updates in order and works on sessions under a mutex     *)
(* that it holds for one access only; goroutines it starts read and write  *)
(* the same sessions.  Everything the bot knows is in memory: a restart    *)
(* forgets sessions, goroutines and the read offset, and Telegram sends    *)
(* again what no getUpdates call has confirmed.                            *)
(***************************************************************************)
EXTENDS Naturals, Sequences, SequencesExt

CONSTANTS
  Chats,
  Vacancies, NoVacancy,
  Catalog,      \* vacancies of the account, as shortlistHHVacancies orders them
  ListLimit,    \* how many of them a list shows (8 in the code)
  Messages,     \* what users send
  MaxUpdates,   \* bound: updates sent
  MaxFaults,    \* bound: getUpdates calls without an answer
  MaxRestarts   \* bound: restarts of the bot

Queries == [index: Nat, name: Vacancies \cup {NoVacancy}]

MessageKinds ==
  {"reset",    \* /start, /menu, /cancel and the cancel button
   "info",     \* help, /sources, /status, a usage error, a refused user
   "run",      \* /sync, /export, /document and the HH status button
   "link", "audio", "json",  \* buttons that ask for something to import
   "files", "hhMode", "cabinet", "public", "people",   \* the other buttons
   "hh",       \* /hh <query>
   "text", "period", "document", "sound"}              \* what a scenario takes

ASSUME BotAssumption ==
  /\ NoVacancy \notin Vacancies
  /\ Catalog \in Seq(Vacancies)
  /\ Messages \subseteq [kind: MessageKinds, query: Queries]
  /\ {ListLimit, MaxUpdates, MaxFaults, MaxRestarts} \subseteq Nat

VARIABLES
  inbox,      \* the updates sent so far; an update's number is its place
  confirmed,  \* Telegram has dropped the updates up to this one
  offset,     \* Run: the next update to ask for, 0 at the start
  batch,      \* Run: updates received and not taken yet
  loop,       \* where the loop is
  session,    \* b.sessions
  task,       \* task[u]: the goroutine started for update u
  handled,    \* how often handleMessage has returned for an update
  spent       \* how much of the bounds is used

vars == <<inbox, confirmed, offset, batch, loop, session, task, handled, spent>>

Updates == 1 .. MaxUpdates

States == {"idle", "link", "audio", "json", "files", "hhMode", "vacancy", "date", "public",
           "people"}

Session == [state: States,
            options: Seq(Vacancies),               \* HHOptions
            vacancy: Vacancies \cup {NoVacancy}]   \* HHSelectedVacancyID

NewSession == [state |-> "idle", options |-> <<>>, vacancy |-> NoVacancy]

Live == {"catalog", "choose", "reread", "store", "work", "export"}

Tasks == [pc: Live \cup {"none", "ended", "lost"},
          kind: {"none", "prompt", "resolve", "import", "search", "extract",
                 "answer"},
          list: Seq(Vacancies),  \* what resolveHHVacancyQuery returned
          snap: Session]         \* sess of resolveAndRunHHExtraction

NoTask == [pc |-> "none", kind |-> "none", list |-> <<>>, snap |-> NewSession]

Polling == [pc |-> "poll", update |-> 0, state |-> "idle", snap |-> NewSession]

TypeOK ==
  /\ inbox \in Seq([chat: Chats, msg: Messages])
  /\ Len(inbox) <= MaxUpdates
  /\ confirmed \in 0 .. MaxUpdates
  /\ offset \in 0 .. MaxUpdates + 1
  /\ batch \in Seq(Updates)
  /\ loop \in [pc: {"poll", "take", "scenario", "resetScenario", "storePeople"},
               update: 0 .. MaxUpdates, state: States, snap: Session]
  /\ session \in [Chats -> Session]
  /\ task \in [Updates -> Tasks]
  /\ handled \in [Updates -> Nat]
  /\ spent \in [faults: Nat, restarts: Nat]

Init ==
  /\ inbox = <<>>
  /\ confirmed = 0
  /\ offset = 0
  /\ batch = <<>>
  /\ loop = Polling
  /\ session = [c \in Chats |-> NewSession]
  /\ task = [u \in Updates |-> NoTask]
  /\ handled = [u \in Updates |-> 0]
  /\ spent = [faults |-> 0, restarts |-> 0]

-----------------------------------------------------------------------------
(***************************************************************************)
(* Accesses to a session, each under the mutex.                            *)
(***************************************************************************)
\* Back to idle drops the list on offer, but not the vacancy selected.
SetState(c, s) ==
  session' = [session EXCEPT
                ![c].state = s,
                ![c].options = IF s = "idle" THEN <<>> ELSE @]

SetSession(c, next) == session' = [session EXCEPT ![c] = next]

-----------------------------------------------------------------------------
(***************************************************************************)
(* The loop.                                                               *)
(***************************************************************************)
Send(c, m) ==
  /\ Len(inbox) < MaxUpdates
  /\ inbox' = Append(inbox, [chat |-> c, msg |-> m])
  /\ UNCHANGED <<confirmed, offset, batch, loop, session, task, handled, spent>>

FirstSkips == IF offset = 0 THEN confirmed + 1 ELSE offset + 1
FirstForgets == confirmed + 1

First == IF offset = 0 THEN confirmed + 1 ELSE offset

\* Asking from an update on confirms the ones before it.  The long poll
\* returns when there is something.
GetUpdates ==
  /\ loop.pc = "poll"
  /\ First <= Len(inbox)
  /\ confirmed' = First - 1
  /\ batch' = [k \in 1 .. Len(inbox) + 1 - First |-> First + k - 1]
  /\ loop' = [loop EXCEPT !.pc = "take"]
  /\ UNCHANGED <<inbox, offset, session, task, handled, spent>>

GetUpdatesEndsRun ==
  /\ loop.pc = "poll"
  /\ spent.faults < MaxFaults
  /\ spent' = [spent EXCEPT !.faults = @ + 1]
  /\ loop' = [loop EXCEPT !.pc = "stopped"]
  /\ UNCHANGED <<inbox, confirmed, offset, batch, session, task, handled>>

\* The request may have reached Telegram all the same.
GetUpdatesFails ==
  /\ loop.pc = "poll"
  /\ spent.faults < MaxFaults
  /\ spent' = [spent EXCEPT !.faults = @ + 1]
  /\ confirmed' \in {confirmed, First - 1}
  /\ UNCHANGED <<inbox, offset, batch, loop, session, task, handled>>

\* handleMessage returns.
Return(u) ==
  /\ handled' = [handled EXCEPT ![u] = @ + 1]
  /\ batch' = IF loop.pc = "take" THEN Tail(batch) ELSE batch
  /\ loop' = [Polling EXCEPT !.pc = IF batch' = <<>> THEN "poll" ELSE "take"]

\* handleMessage goes on with another access to the session.
GoOn(u, pc) ==
  /\ loop' = [loop EXCEPT !.pc = pc, !.update = u,
                !.state = session[inbox[u].chat].state,
                !.snap = IF pc = "storePeople" THEN session[inbox[u].chat] ELSE @]
  /\ batch' = IF loop.pc = "take" THEN Tail(batch) ELSE batch
  /\ UNCHANGED handled

Start(u, kind, pc) ==
  task' = [task EXCEPT ![u] = [NoTask EXCEPT !.kind = kind, !.pc = pc]]

\* The state a button asks for.
AsksOther(kind) == IF kind = "reset" THEN "none" ELSE kind

Asks(kind) == CASE kind = "reset" -> "idle"
                [] kind = "cabinet" -> "vacancy"
                [] OTHER -> kind

Button(u, c, kind) ==
  /\ kind \in {"reset", "link", "audio", "json", "files", "hhMode", "cabinet",
              "public"}
  /\ SetState(c, Asks(kind))
  /\ IF kind = "cabinet" THEN Start(u, "prompt", "catalog") ELSE UNCHANGED task
  /\ Return(u)

Command(u, kind) ==
  /\ \/ kind = "info" /\ UNCHANGED task
     \/ /\ kind = "run"
        /\ \/ Start(u, "import", "work")
           \/ Start(u, "answer", "export")
           \/ Start(u, "answer", "work")
     \/ kind = "hh" /\ Start(u, "resolve", "catalog")
  /\ Return(u)
  /\ UNCHANGED session

\* The offset moves before the update is handled.  A message that is neither a
\* command nor a button is for the state the chat is in: getState.
TakeUpdate ==
  /\ loop.pc = "take"
  /\ LET u == Head(batch)
         c == inbox[u].chat
         kind == inbox[u].msg.kind
     IN /\ offset' = u + 1
        /\ \/ Button(u, c, kind)
           \/ Command(u, kind)
           \/ /\ kind = "people"
              /\ GoOn(u, "storePeople")
              /\ UNCHANGED <<session, task>>
           \/ /\ kind \in {"text", "period", "document", "sound"}
              /\ GoOn(u, "scenario")
              /\ UNCHANGED <<session, task>>
  /\ UNCHANGED <<inbox, confirmed, spent>>

\* startHHPeopleSearchFlow writes back the session it read before.
StorePeople ==
  /\ loop.pc = "storePeople"
  /\ SetSession(inbox[loop.update].chat, [loop.snap EXCEPT !.state = "people"])
  /\ Return(loop.update)
  /\ UNCHANGED <<inbox, confirmed, offset, task, spent>>

\* The scenario is over and its work started; or the chat is told what is
\* missing, and the scenario goes on.
Accept(u, c, kind) ==
  /\ SetState(c, "idle")
  /\ Start(u, kind, "work")
  /\ Return(u)

Reply(u) ==
  /\ Return(u)
  /\ UNCHANGED <<session, task>>

\* Telegram links are synchronised and exported, a video is transcribed.
LinkImport(u, c, kind) ==
  /\ loop.state = "link"
  /\ IF kind \in {"text", "period"}
     THEN \E work \in {"import", "answer"} : Accept(u, c, work)
     ELSE Reply(u)

AudioImport(u, c, kind) ==
  /\ loop.state = "audio"
  /\ IF kind \in {"document", "sound"} THEN Accept(u, c, "answer") ELSE Reply(u)

\* A file is downloaded by the loop itself, before the scenario ends.
JSONImport(u, c, kind) ==
  /\ loop.state = "json"
  /\ \/ kind # "sound" /\ Accept(u, c, "import")
     \/ kind \in {"document", "sound"} /\ Reply(u)

\* Uploads, audio included, follow one another without leaving the scenario.
FileUpload(u, kind) ==
  /\ loop.state = "files"
  /\ \/ kind \in {"document", "sound"} /\ Start(u, "answer", "work")
     \/ kind # "sound" /\ UNCHANGED task
  /\ Return(u)
  /\ UNCHANGED session

Vacancy(u) ==
  /\ loop.state = "vacancy"
  /\ Start(u, "resolve", "catalog")
  /\ Return(u)
  /\ UNCHANGED session

\* A period, in the search scenario, sets its state once more.
Period(u, c) ==
  /\ loop.state = "public"
  /\ SetState(c, "public")
  /\ Return(u)
  /\ UNCHANGED task

\* getSession, and setState(idle) as an access of its own.
ReadSession(u) ==
  /\ GoOn(u, "resetScenario")
  /\ UNCHANGED <<session, task>>

Scenario ==
  /\ loop.pc = "scenario"
  /\ LET u == loop.update
         c == inbox[u].chat
         kind == inbox[u].msg.kind
     IN \/ LinkImport(u, c, kind)
        \/ AudioImport(u, c, kind)
        \/ JSONImport(u, c, kind)
        \/ FileUpload(u, kind)
        \/ Vacancy(u)
        \/ kind = "period" /\ Period(u, c)
        \/ loop.state = "date" /\ kind = "period" /\ ReadSession(u)
        \/ loop.state = "date" /\ kind # "period" /\ Reply(u)
        \/ loop.state = "public" /\ kind = "text" /\ ReadSession(u)
        \/ loop.state = "people" /\ kind \in {"text", "period"} /\ ReadSession(u)
        \/ /\ loop.state \in {"public", "people"}
           /\ kind \in {"document", "sound"}
           /\ Reply(u)
        \/ loop.state \in {"idle", "hhMode"} /\ Reply(u)
  /\ UNCHANGED <<inbox, confirmed, offset, spent>>

\* An extraction or a search leaves with what the session said before.
ResetScenario ==
  /\ loop.pc = "resetScenario"
  /\ SetState(inbox[loop.update].chat, "idle")
  /\ Start(loop.update, IF loop.state = "date" THEN "extract" ELSE "search",
           "work")
  /\ Return(loop.update)
  /\ UNCHANGED <<inbox, confirmed, offset, spent>>

LoopStep == \/ GetUpdates \/ TakeUpdate \/ StorePeople \/ Scenario
            \/ ResetScenario

-----------------------------------------------------------------------------
(***************************************************************************)
(* The goroutines.  Errors are sent to the chat and end them.              *)
(***************************************************************************)
Shown(list) == SubSeq(list, 1, IF Len(list) < ListLimit THEN Len(list)
                               ELSE ListLimit)

\* A number is a place in the list on offer, then an id counts, then the text:
\* which vacancies it fits, and how well, is left open.
Resolutions(q, options) ==
  IF q.index \in 1 .. Len(options) THEN {<<options[q.index]>>}
  ELSE IF q.name \in ToSet(Catalog) THEN {<<q.name>>}
  ELSE {list \in UNION {[1 .. n -> ToSet(Catalog)] : n \in 0 .. Len(Catalog)} :
          IsInjective(list)}

EndTask(u) == task' = [task EXCEPT ![u] = [NoTask EXCEPT !.pc = "ended"]]

\* Any step of the work may fail.
WorkFails(u) ==
  /\ task[u].pc \in {"work", "export"}
  /\ EndTask(u)
  /\ UNCHANGED session

\* What was imported is exported next, by a goroutine's last call.
Imported(u) ==
  /\ task[u].pc = "work"
  /\ task[u].kind = "import"
  /\ task' = [task EXCEPT ![u].pc = "export"]
  /\ UNCHANGED session

Searched(u) ==
  /\ task[u].pc = "work"
  /\ task[u].kind = "search"
  /\ task' = [task EXCEPT ![u].pc = "export"]
  /\ UNCHANGED session

Extracted(u) ==
  /\ task[u].pc = "work"
  /\ task[u].kind = "extract"
  /\ EndTask(u)
  /\ UNCHANGED session

Answered(u) ==
  /\ task[u].pc = "work"
  /\ task[u].kind = "answer"
  /\ EndTask(u)
  /\ UNCHANGED session

SourceExported(u) ==
  /\ task[u].pc = "export"
  /\ EndTask(u)
  /\ UNCHANGED session

\* A blank query, a catalog that HH does not send.
GivesUp(u) ==
  /\ task[u].pc = "catalog"
  /\ EndTask(u)
  /\ UNCHANGED session

\* The catalog may be empty by then; the session is replaced as a whole.
PromptVacancies(u) ==
  /\ task[u].pc = "catalog"
  /\ task[u].kind = "prompt"
  /\ SetSession(inbox[u].chat,
                [NewSession EXCEPT !.state = "vacancy",
                                   !.options = Shown(Catalog)])
  /\ EndTask(u)

\* The catalog arrived: the list on offer is read and the query resolved.
ReadOptions(u) ==
  /\ task[u].pc = "catalog"
  /\ task[u].kind = "resolve"
  /\ \E list \in Resolutions(inbox[u].msg.query,
                             session[inbox[u].chat].options) :
       task' = [task EXCEPT ![u].pc = IF Len(list) = 1 THEN "reread"
                                      ELSE "choose",
                            ![u].list = list]
  /\ UNCHANGED session

\* No vacancy fits, or several do and become the list on offer.
OfferCandidates(u) ==
  /\ task[u].pc = "choose"
  /\ IF task[u].list = <<>> THEN UNCHANGED session
     ELSE SetSession(inbox[u].chat,
                     [NewSession EXCEPT !.state = "vacancy",
                                        !.options = Shown(task[u].list)])
  /\ EndTask(u)

RereadSession(u) ==
  /\ task[u].pc = "reread"
  /\ task' = [task EXCEPT ![u].pc = "store",
                          ![u].snap = session[inbox[u].chat]]
  /\ UNCHANGED session

StoreState(u) ==
  /\ task[u].pc = "store"
  /\ SetState(inbox[u].chat, "date")
  /\ EndTask(u)

StoreVacancy(u) ==
  /\ task[u].pc = "store"
  /\ SetSession(inbox[u].chat,
                [task[u].snap EXCEPT !.state = "date",
                                     !.vacancy = Head(task[u].list)])
  /\ EndTask(u)

TaskStep(u) ==
  /\ \/ WorkFails(u) \/ Imported(u) \/ Searched(u) \/ Extracted(u)
     \/ Answered(u) \/ SourceExported(u) \/ GivesUp(u) \/ PromptVacancies(u) \/ ReadOptions(u)
     \/ OfferCandidates(u) \/ RereadSession(u) \/ StoreVacancy(u)
  /\ UNCHANGED <<inbox, confirmed, offset, batch, loop, handled, spent>>

-----------------------------------------------------------------------------
\* The process dies and is started again.
Restart ==
  /\ spent.restarts < MaxRestarts
  /\ spent' = [spent EXCEPT !.restarts = @ + 1]
  /\ offset' = 0
  /\ batch' = <<>>
  /\ loop' = Polling
  /\ session' = [c \in Chats |-> NewSession]
  /\ task' = [u \in Updates |->
                IF task[u].pc \in Live
                THEN [NoTask EXCEPT !.pc = "lost"]
                ELSE task[u]]
  /\ UNCHANGED <<inbox, confirmed, handled>>

Next ==
  \/ \E c \in Chats, m \in Messages : Send(c, m)
  \/ LoopStep
  \/ GetUpdatesFails
  \/ \E u \in Updates : TaskStep(u)
  \/ Restart

Spec == Init /\ [][Next]_vars

\* The loop is run, and Telegram answers it or fails within the time-out that
\* every call carries.
FairSpec == Spec /\ WF_vars(LoopStep)

-----------------------------------------------------------------------------
(***************************************************************************)
(* Properties.                                                             *)
(***************************************************************************)
\* What Telegram has dropped, handleMessage has returned for: no restart, lost
\* answer or batch boundary can make the bot skip an update (Run moves the
\* offset before it handles an update, but confirms it only with the next poll).
NothingSkipped == \A u \in 1 .. confirmed : handled[u] > 0

\* Only a restart makes the bot handle an update again.
OncePerStart == \A u \in Updates : handled[u] <= 1 + spent.restarts

\* A chat is asked for the period of an extraction only when a vacancy is
\* selected, although the loop and two kinds of goroutines replace its session.
DateStateHasVacancy ==
  \A c \in Chats : session[c].state = "date" => session[c].vacancy # NoVacancy

\* Again and again the bot catches up: every update sent has been handled,
\* restarts and unanswered polls or not.
CatchesUp == []<>(\A u \in 1 .. Len(inbox) : handled[u] > 0)
=============================================================================
