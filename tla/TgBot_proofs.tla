---------------------------- MODULE TgBot_proofs ----------------------------
(***************************************************************************)
(* Proofs about TgBot, for any number of chats, updates, lost polls and    *)
(* restarts: no update is skipped, only a restart repeats one, and a chat  *)
(* is asked for a period only with a vacancy selected.                     *)
(***************************************************************************)
EXTENDS TgBot, SequenceTheorems, TLAPS

\* Where the loop still holds the update it took last.
Paused == {"scenario", "resetScenario", "storePeople"}
InHand == IF loop.pc \in Paused THEN {loop.update} ELSE {}

\* The batch is a run of consecutive updates that starts at the next one to
\* take, and Telegram keeps whatever the loop has in hand or ahead of it.
OrderInv ==
  /\ confirmed < First
  /\ First + Len(batch) <= Len(inbox) + 1
  /\ \A k \in 1 .. Len(batch) : batch[k] = First + k - 1
  /\ loop.pc = "poll" => batch = <<>>
  /\ loop.pc = "take" => batch # <<>>
  /\ loop.pc \in Paused => /\ loop.update + 1 = offset
                           /\ confirmed < loop.update

\* Behind the next update to take everything is handled but the one in hand;
\* nothing ahead of it has been handled since the last restart.
HandledInv ==
  /\ \A u \in Updates : u < First /\ u \notin InHand => handled[u] > 0
  /\ \A u \in Updates : handled[u] <= 1 + spent.restarts
  /\ \A u \in Updates : u >= First \/ u \in InHand => handled[u] <= spent.restarts

\* A goroutine belongs to an update that was sent, and stores a vacancy only
\* when the query named exactly one.
TaskInv ==
  \A u \in Updates :
    /\ task[u].pc # "none" => u <= Len(inbox)
    /\ task[u].pc \in {"reread", "store"} => Len(task[u].list) = 1

BotInv == TypeOK /\ OrderInv /\ HandledInv /\ TaskInv /\ DateStateHasVacancy

-----------------------------------------------------------------------------
(***************************************************************************)
(* What the updates look like.                                             *)
(***************************************************************************)
LEMMA UpdateFacts ==
  ASSUME TypeOK, NEW u \in Updates, u <= Len(inbox)
  PROVE  /\ inbox[u].chat \in Chats
         /\ inbox[u].chat \in Chats => session[inbox[u].chat] \in Session
<1>1. u \in 1 .. Len(inbox)
  BY DEF Updates
<1>2. inbox[u] \in [chat: Chats, msg: Messages]
  BY <1>1, ElementOfSeq DEF TypeOK
<1> QED  BY <1>2 DEF TypeOK

LEMMA FirstFacts ==
  ASSUME BotInv
  PROVE  /\ MaxUpdates \in Nat /\ Len(inbox) \in Nat /\ Len(inbox) <= MaxUpdates
         /\ First \in 1 .. MaxUpdates + 1
         /\ confirmed \in Nat /\ Len(batch) \in Nat
<1>1. inbox \in Seq([chat: Chats, msg: Messages]) /\ batch \in Seq(Updates)
  BY DEF BotInv, TypeOK
<1>2. MaxUpdates \in Nat
  BY BotAssumption
<1>3. Len(inbox) \in Nat /\ Len(batch) \in Nat
  BY <1>1
<1> QED  BY <1>2, <1>3 DEF BotInv, TypeOK, OrderInv, First

\* The update the loop takes next.
LEMMA HeadFacts ==
  ASSUME BotInv, loop.pc = "take"
  PROVE  /\ Head(batch) = First /\ First \in Updates /\ First <= Len(inbox)
         /\ Tail(batch) \in Seq(Updates)
         /\ Len(Tail(batch)) = Len(batch) - 1
         /\ \A k \in 1 .. Len(Tail(batch)) : Tail(batch)[k] = batch[k + 1]
<1>1. batch \in Seq(Updates) /\ batch # <<>>
  BY DEF BotInv, TypeOK, OrderInv
<1>2. Len(batch) \in Nat /\ Len(batch) >= 1 /\ Head(batch) = batch[1]
  BY <1>1
<1>3. Head(batch) = First
  BY <1>2, FirstFacts DEF BotInv, OrderInv
<1>4. /\ Tail(batch) \in Seq(Updates)
      /\ Len(Tail(batch)) = Len(batch) - 1
      /\ \A k \in 1 .. Len(Tail(batch)) : Tail(batch)[k] = batch[k + 1]
  BY <1>1, HeadTailProperties
<1>5. First <= Len(inbox)
  BY <1>2, FirstFacts DEF BotInv, OrderInv
<1> QED  BY <1>3, <1>4, <1>5, FirstFacts DEF Updates

\* The update the loop has in hand.
LEMMA InHandFacts ==
  ASSUME BotInv, loop.pc \in Paused
  PROVE  /\ loop.update \in Updates /\ loop.update <= Len(inbox)
         /\ offset = First /\ loop.update + 1 = First /\ confirmed < loop.update
<1>1. loop.update \in 0 .. MaxUpdates /\ offset \in 0 .. MaxUpdates + 1
  BY DEF BotInv, TypeOK
<1>2. loop.update + 1 = offset /\ confirmed < loop.update
  BY DEF BotInv, OrderInv
<1>3. offset # 0 /\ offset = First
  BY <1>1, <1>2, FirstFacts DEF First
<1>4. First + Len(batch) <= Len(inbox) + 1
  BY DEF BotInv, OrderInv
<1> QED  BY <1>1, <1>2, <1>3, <1>4, FirstFacts DEF Updates

-----------------------------------------------------------------------------
(***************************************************************************)
(* The order of updates.                                                   *)
(***************************************************************************)
LEMMA ReturnHandled ==
  ASSUME BotInv, NEW u \in Updates, handled' = [handled EXCEPT ![u] = @ + 1],
         spent' = spent, InHand' = {}, First' = u + 1,
         \/ First = u /\ InHand = {}
         \/ First = u + 1 /\ InHand = {u}
  PROVE  HandledInv'
<1>1. handled \in [Updates -> Nat] /\ spent.restarts \in Nat /\ u \in Nat
      /\ spent'.restarts = spent.restarts
  BY DEF BotInv, TypeOK, Updates
<1>2. ASSUME NEW x \in Updates
      PROVE  /\ x < First' /\ x \notin InHand' => handled'[x] > 0
             /\ handled'[x] <= 1 + spent'.restarts
             /\ x >= First' \/ x \in InHand' => handled'[x] <= spent'.restarts
  <2>1. x \in Nat /\ handled[x] \in Nat
    BY <1>1 DEF Updates
  <2>2. /\ x < First /\ x \notin InHand => handled[x] > 0
        /\ handled[x] <= 1 + spent.restarts
        /\ x >= First \/ x \in InHand => handled[x] <= spent.restarts
    BY DEF BotInv, HandledInv
  <2>3. CASE x = u
    BY <1>1, <2>1, <2>2, <2>3
  <2>4. CASE x # u
    BY <1>1, <2>1, <2>2, <2>4
  <2> QED  BY <2>3, <2>4
<1> QED  BY <1>2 DEF HandledInv

LEMMA GoOnHandled ==
  ASSUME BotInv, NEW u \in Updates, UNCHANGED <<handled, spent>>,
         InHand' = {u}, First' = u + 1,
         \/ First = u /\ InHand = {}
         \/ First = u + 1 /\ InHand = {u}
  PROVE  HandledInv'
<1>1. ASSUME NEW x \in Updates
      PROVE  /\ x < First' /\ x \notin InHand' => handled'[x] > 0
             /\ handled'[x] <= 1 + spent'.restarts
             /\ x >= First' \/ x \in InHand' => handled'[x] <= spent'.restarts
  <2>1. x \in Nat /\ u \in Nat
    BY DEF Updates
  <2>2. /\ x < First /\ x \notin InHand => handled[x] > 0
        /\ handled[x] <= 1 + spent.restarts
        /\ x >= First \/ x \in InHand => handled[x] <= spent.restarts
    BY DEF BotInv, HandledInv
  <2>3. CASE x = u
    BY <2>1, <2>2, <2>3
  <2>4. CASE x # u
    BY <2>1, <2>2, <2>4
  <2> QED  BY <2>3, <2>4
<1> QED  BY <1>1 DEF HandledInv

\* The batch after the loop took its first update.
LEMMA TakenOrder ==
  ASSUME BotInv, loop.pc = "take", UNCHANGED <<inbox, confirmed>>,
         offset' = Head(batch) + 1, batch' = Tail(batch)
  PROVE  /\ First' = First + 1 /\ offset' = First' /\ confirmed' < First
         /\ First' + Len(batch') <= Len(inbox') + 1
         /\ \A k \in 1 .. Len(batch') : batch'[k] = First' + k - 1
<1>1. First' = First + 1 /\ offset' = First'
  BY HeadFacts, FirstFacts DEF First
<1>2. confirmed' < First
  BY DEF BotInv, OrderInv
<1>3. First' + Len(batch') <= Len(inbox') + 1
  BY <1>1, HeadFacts, FirstFacts DEF BotInv, OrderInv
<1>4. ASSUME NEW k \in 1 .. Len(batch')
      PROVE  batch'[k] = First' + k - 1
  <2>1. k \in 1 .. Len(Tail(batch)) /\ k + 1 \in 1 .. Len(batch)
    BY HeadFacts, FirstFacts
  <2>2. batch'[k] = batch[k + 1] /\ batch[k + 1] = First + (k + 1) - 1
    BY <2>1, HeadFacts DEF BotInv, OrderInv
  <2> QED  BY <2>1, <2>2, <1>1, FirstFacts
<1> QED  BY <1>1, <1>2, <1>3, <1>4

\* Any step of the loop that finishes an update, taken now or in hand.
LEMMA ReturnOrder ==
  ASSUME BotInv, NEW u \in Updates, Return(u),
         UNCHANGED <<inbox, confirmed, spent>>,
         \/ loop.pc = "take" /\ u = Head(batch) /\ offset' = u + 1
         \/ loop.pc \in Paused /\ u = loop.update /\ UNCHANGED offset
  PROVE  OrderInv' /\ HandledInv'
<1>1. InHand' = {} /\ loop'.pc \in {"poll", "take"}
      /\ (loop'.pc = "poll" <=> batch' = <<>>)
  BY DEF Return, Polling, InHand, Paused
<1>2. handled' = [handled EXCEPT ![u] = @ + 1] /\ spent' = spent
  BY DEF Return
<1>3. CASE loop.pc = "take" /\ u = Head(batch) /\ offset' = u + 1
  <2>1. u = First /\ batch' = Tail(batch) /\ InHand = {}
    BY <1>3, HeadFacts DEF Return, InHand, Paused
  <2>2. /\ First' = u + 1 /\ confirmed' < First
        /\ First' + Len(batch') <= Len(inbox') + 1
        /\ \A k \in 1 .. Len(batch') : batch'[k] = First' + k - 1
    BY <1>3, <2>1, TakenOrder
  <2>3. OrderInv'
    BY <2>1, <2>2, <1>1, FirstFacts DEF OrderInv, Paused
  <2> QED  BY <2>1, <2>2, <2>3, <1>1, <1>2, ReturnHandled
<1>4. CASE loop.pc \in Paused /\ u = loop.update /\ UNCHANGED offset
  <2>1. First' = First /\ batch' = batch /\ InHand = {u} /\ First = u + 1
    BY <1>4, InHandFacts DEF First, Return, InHand, Paused
  <2>2. OrderInv'
    BY <2>1, <1>1 DEF BotInv, OrderInv, Paused
  <2> QED  BY <2>1, <2>2, <1>1, <1>2, ReturnHandled
<1> QED  BY <1>3, <1>4

\* Any step of the loop that keeps the update, taken now or in hand.
LEMMA GoOnOrder ==
  ASSUME BotInv, NEW u \in Updates, NEW pc \in Paused, GoOn(u, pc),
         UNCHANGED <<inbox, confirmed, spent>>,
         \/ loop.pc = "take" /\ u = Head(batch) /\ offset' = u + 1
         \/ loop.pc \in Paused /\ u = loop.update /\ UNCHANGED offset
  PROVE  OrderInv' /\ HandledInv'
<1>1. handled' = handled /\ spent' = spent
  BY DEF GoOn
<1>2. loop'.pc = pc /\ loop'.update = u /\ InHand' = {u}
  BY DEF BotInv, TypeOK, GoOn, InHand
<1>3. CASE loop.pc = "take" /\ u = Head(batch) /\ offset' = u + 1
  <2>1. u = First /\ batch' = Tail(batch) /\ InHand = {}
    BY <1>3, HeadFacts DEF GoOn, InHand, Paused
  <2>2. /\ First' = u + 1 /\ offset' = First' /\ confirmed' < First
        /\ First' + Len(batch') <= Len(inbox') + 1
        /\ \A k \in 1 .. Len(batch') : batch'[k] = First' + k - 1
    BY <1>3, <2>1, TakenOrder
  <2>3. OrderInv'
    BY <2>1, <2>2, <1>2, FirstFacts DEF OrderInv, Paused
  <2> QED  BY <2>1, <2>2, <2>3, <1>1, <1>2, GoOnHandled
<1>4. CASE loop.pc \in Paused /\ u = loop.update /\ UNCHANGED offset
  <2>1. /\ First' = First /\ batch' = batch /\ InHand = {u} /\ First = u + 1
        /\ offset' = First /\ confirmed' < u
    BY <1>4, InHandFacts DEF First, GoOn, InHand, Paused
  <2>2. OrderInv'
    BY <2>1, <1>2 DEF BotInv, OrderInv, Paused
  <2> QED  BY <2>1, <2>2, <1>1, <1>2, GoOnHandled
<1> QED  BY <1>3, <1>4

-----------------------------------------------------------------------------
(***************************************************************************)
(* The types of what a step writes.                                        *)
(***************************************************************************)
SessionsTyped == session \in [Chats -> Session]
TasksTyped == task \in [Updates -> Tasks]
LoopTyped ==
  /\ offset \in 0 .. MaxUpdates + 1
  /\ batch \in Seq(Updates)
  /\ loop \in [pc: {"poll", "take", "scenario", "resetScenario", "storePeople"},
               update: 0 .. MaxUpdates, state: States, snap: Session]
  /\ handled \in [Updates -> Nat]

LEMMA NewSessionTyped == NewSession \in Session
  BY DEF NewSession, Session, States

LEMMA NoTaskTyped ==
  /\ NoTask \in Tasks
  /\ [NoTask EXCEPT !.pc = "ended"] \in Tasks
  /\ [NoTask EXCEPT !.pc = "lost"] \in Tasks
<1>1. <<>> \in Seq(Vacancies)
  BY EmptySeq
<1> QED  BY <1>1, NewSessionTyped DEF NoTask, Tasks

LEMMA FirstUpdates == MaxUpdates \in Nat /\ 0 \in 0 .. MaxUpdates
<1>1. MaxUpdates \in Nat
  BY BotAssumption
<1> QED  BY <1>1

LEMMA PollingTyped ==
  \A pc \in {"poll", "take"} :
    [Polling EXCEPT !.pc = pc]
      \in [pc: {"poll", "take", "scenario", "resetScenario", "storePeople"},
           update: 0 .. MaxUpdates, state: States, snap: Session]
<1>1. 0 \in 0 .. MaxUpdates
  BY FirstUpdates
<1>2. \A pc \in {"poll", "take"} :
        [Polling EXCEPT !.pc = pc]
          = [pc |-> pc, update |-> 0, state |-> "idle", snap |-> NewSession]
  BY DEF Polling
<1> QED  BY <1>1, <1>2, NewSessionTyped DEF States

\* Moving a chat to another state than "date" asks nobody for a period.
LEMMA SetStateSafe ==
  ASSUME BotInv, NEW c \in Chats, NEW s \in States \ {"date"}, SetState(c, s)
  PROVE  SessionsTyped' /\ DateStateHasVacancy'
<1>1. session \in [Chats -> Session]
  BY DEF BotInv, TypeOK
<1> DEFINE kept == IF s = "idle" THEN <<>> ELSE session[c].options
           r == [session[c] EXCEPT !.state = s, !.options = kept]
<1>2. session[c].options \in Seq(Vacancies) /\ <<>> \in Seq(Vacancies)
  BY <1>1, EmptySeq DEF Session
<1>3. session' = [session EXCEPT ![c] = r]
  BY <1>1 DEF SetState
<1>4. kept \in Seq(Vacancies)
  BY <1>2
<1> HIDE DEF kept
<1>5. r \in Session /\ r.state # "date"
  BY <1>1, <1>4 DEF Session
<1> HIDE DEF r
<1> QED  BY <1>1, <1>3, <1>5 DEF BotInv, SessionsTyped, DateStateHasVacancy

\* A session put in place as a whole.
LEMMA SetSessionSafe ==
  ASSUME BotInv, NEW c \in Chats, NEW next \in Session, SetSession(c, next),
         next.state = "date" => next.vacancy # NoVacancy
  PROVE  SessionsTyped' /\ DateStateHasVacancy'
  BY DEF BotInv, TypeOK, SessionsTyped, SetSession, DateStateHasVacancy

LEMMA SessionsKept ==
  ASSUME BotInv, UNCHANGED session
  PROVE  SessionsTyped' /\ DateStateHasVacancy'
  BY DEF BotInv, TypeOK, SessionsTyped, DateStateHasVacancy

Kinds == {"prompt", "resolve", "import", "search", "extract", "answer"}

\* A goroutine replaced by one that stores nothing yet.
LEMMA TaskSafe ==
  ASSUME BotInv, UNCHANGED inbox, NEW u \in Updates, u <= Len(inbox), NEW t \in Tasks,
         task' = [task EXCEPT ![u] = t],
         t.pc \in {"reread", "store"} => Len(t.list) = 1
  PROVE  TasksTyped' /\ TaskInv'
  BY DEF BotInv, TypeOK, TasksTyped, TaskInv

LEMMA TasksKept ==
  ASSUME BotInv, UNCHANGED <<inbox, task>>
  PROVE  TasksTyped' /\ TaskInv'
  BY DEF BotInv, TypeOK, TasksTyped, TaskInv

LEMMA StartSafe ==
  ASSUME BotInv, UNCHANGED inbox, NEW u \in Updates, u <= Len(inbox), NEW kind \in Kinds,
         NEW pc \in {"catalog", "work", "export"}, Start(u, kind, pc)
  PROVE  TasksTyped' /\ TaskInv'
<1> DEFINE t == [NoTask EXCEPT !.kind = kind, !.pc = pc]
<1>1. task' = [task EXCEPT ![u] = t]
  BY DEF Start
<1>2. NoTask \in Tasks
  BY NoTaskTyped
<1>3. t \in Tasks /\ t.pc \notin {"reread", "store"}
  BY <1>2 DEF Tasks, Live, Kinds
<1> HIDE DEF t
<1> QED  BY <1>1, <1>3, TaskSafe

LEMMA EndTaskSafe ==
  ASSUME BotInv, UNCHANGED inbox, NEW u \in Updates, u <= Len(inbox), EndTask(u)
  PROVE  TasksTyped' /\ TaskInv'
<1> DEFINE t == [NoTask EXCEPT !.pc = "ended"]
<1>1. task' = [task EXCEPT ![u] = t]
  BY DEF EndTask
<1>2. t \in Tasks /\ t.pc = "ended"
  BY NoTaskTyped DEF NoTask
<1> HIDE DEF t
<1> QED  BY <1>1, <1>2, TaskSafe

LEMMA ReturnTyped ==
  ASSUME BotInv, NEW u \in Updates, Return(u), offset' \in 0 .. MaxUpdates + 1
  PROVE  LoopTyped'
<1>1. batch' \in Seq(Updates)
  BY HeadFacts DEF BotInv, TypeOK, Return
<1>2. loop' \in [pc: {"poll", "take", "scenario", "resetScenario", "storePeople"},
                 update: 0 .. MaxUpdates, state: States, snap: Session]
  BY PollingTyped DEF Return
<1>3. handled' \in [Updates -> Nat]
  BY DEF BotInv, TypeOK, Return
<1> QED  BY <1>1, <1>2, <1>3 DEF LoopTyped

LEMMA GoOnTyped ==
  ASSUME BotInv, NEW u \in Updates, u <= Len(inbox), NEW pc \in Paused, GoOn(u, pc),
         offset' \in 0 .. MaxUpdates + 1
  PROVE  LoopTyped'
<1>1. batch' \in Seq(Updates)
  BY HeadFacts DEF BotInv, TypeOK, GoOn
<1>2. inbox[u].chat \in Chats /\ session[inbox[u].chat] \in Session
  BY UpdateFacts DEF BotInv
<1>3. session[inbox[u].chat].state \in States
  BY <1>2 DEF Session
<1>4. u \in 0 .. MaxUpdates
  BY FirstFacts DEF Updates
<1>5. loop' \in [pc: {"poll", "take", "scenario", "resetScenario", "storePeople"},
                 update: 0 .. MaxUpdates, state: States, snap: Session]
  BY <1>2, <1>3, <1>4 DEF BotInv, TypeOK, GoOn, Paused
<1>6. handled' \in [Updates -> Nat]
  BY DEF BotInv, TypeOK, GoOn
<1> QED  BY <1>1, <1>5, <1>6 DEF LoopTyped

-----------------------------------------------------------------------------
(***************************************************************************)
(* The steps of the loop.                                                  *)
(***************************************************************************)
\* What an update handled by the loop leaves in the sessions and goroutines.
Safe == SessionsTyped' /\ TasksTyped' /\ TaskInv' /\ DateStateHasVacancy'

LEMMA LoopKeeps ==
  ASSUME BotInv, UNCHANGED <<inbox, confirmed, spent>>, LoopTyped',
         OrderInv', HandledInv', Safe
  PROVE  BotInv'
  BY DEF BotInv, TypeOK, LoopTyped, SessionsTyped, TasksTyped, Safe

LEMMA ButtonSafe ==
  ASSUME BotInv, UNCHANGED inbox, NEW u \in Updates, u <= Len(inbox), NEW kind,
         Button(u, inbox[u].chat, kind)
  PROVE  Safe
<1>1. inbox[u].chat \in Chats
  BY UpdateFacts DEF BotInv
<1>2. Asks(kind) \in States \ {"date"} /\ SetState(inbox[u].chat, Asks(kind))
  BY DEF Button, Asks, States
<1>3. SessionsTyped' /\ DateStateHasVacancy'
  BY <1>1, <1>2, SetStateSafe
<1>4. TasksTyped' /\ TaskInv'
  BY StartSafe, TasksKept DEF Button, Kinds
<1> QED  BY <1>3, <1>4 DEF Safe

LEMMA CommandSafe ==
  ASSUME BotInv, UNCHANGED inbox, NEW u \in Updates, u <= Len(inbox), NEW kind,
         Command(u, kind)
  PROVE  Safe
<1>1. SessionsTyped' /\ DateStateHasVacancy'
  BY SessionsKept DEF Command
<1>2. TasksTyped' /\ TaskInv'
  BY StartSafe, TasksKept DEF Command, Kinds
<1> QED  BY <1>1, <1>2 DEF Safe

LEMMA UnchangedSafe ==
  ASSUME BotInv, UNCHANGED <<inbox, session, task>>
  PROVE  Safe
  BY SessionsKept, TasksKept DEF Safe

LEMMA TakeUpdateKeeps ==
  ASSUME BotInv, TakeUpdate
  PROVE  BotInv'
<1> DEFINE u == Head(batch)
<1>1. loop.pc = "take" /\ UNCHANGED <<inbox, confirmed, spent>>
  BY DEF TakeUpdate
<1>2. u \in Updates /\ u <= Len(inbox)
  BY <1>1, HeadFacts
<1>3. offset' = u + 1 /\ offset' \in 0 .. MaxUpdates + 1
  BY <1>2, FirstFacts DEF TakeUpdate, Updates
<1>4. \/ Return(u) /\ Safe
      \/ \E pc \in Paused : GoOn(u, pc) /\ Safe
  <2>1. ASSUME NEW kind, Button(u, inbox[u].chat, kind)
        PROVE  Return(u) /\ Safe
    BY <2>1, <1>1, <1>2, ButtonSafe DEF Button
  <2>2. ASSUME NEW kind, Command(u, kind)
        PROVE  Return(u) /\ Safe
    BY <2>2, <1>1, <1>2, CommandSafe DEF Command
  <2>3. ASSUME NEW pc \in Paused, GoOn(u, pc), UNCHANGED <<session, task>>
        PROVE  GoOn(u, pc) /\ Safe
    BY <2>3, <1>1, UnchangedSafe
  <2> QED  BY <2>1, <2>2, <2>3 DEF TakeUpdate, Paused
<1>5. LoopTyped' /\ OrderInv' /\ HandledInv' /\ Safe
  BY <1>1, <1>2, <1>3, <1>4, ReturnTyped, GoOnTyped, ReturnOrder, GoOnOrder
<1> QED  BY <1>1, <1>5, LoopKeeps

\* A step that works on the update in hand.
LEMMA InHandKeeps ==
  ASSUME BotInv, loop.pc \in Paused, UNCHANGED <<inbox, confirmed, offset, spent>>,
         Safe,
         Return(loop.update) \/ \E pc \in Paused : GoOn(loop.update, pc)
  PROVE  BotInv'
<1>1. loop.update \in Updates /\ loop.update <= Len(inbox)
      /\ offset' \in 0 .. MaxUpdates + 1
  BY InHandFacts DEF BotInv, TypeOK
<1>2. LoopTyped' /\ OrderInv' /\ HandledInv'
  BY <1>1, ReturnTyped, GoOnTyped, ReturnOrder, GoOnOrder
<1> QED  BY <1>2, LoopKeeps

LEMMA StorePeopleKeeps ==
  ASSUME BotInv, StorePeople
  PROVE  BotInv'
<1> DEFINE c == inbox[loop.update].chat
           next == [loop.snap EXCEPT !.state = "people"]
<1>1. loop.pc \in Paused /\ UNCHANGED <<inbox, confirmed, offset, spent, task>>
      /\ Return(loop.update) /\ SetSession(c, next)
  BY DEF StorePeople, Paused
<1>2. c \in Chats
  BY <1>1, InHandFacts, UpdateFacts DEF BotInv
<1>3. next \in Session /\ next.state = "people"
  BY DEF BotInv, TypeOK, Session, States
<1>4. SessionsTyped' /\ DateStateHasVacancy'
  BY <1>1, <1>2, <1>3, SetSessionSafe
<1>5. Safe
  BY <1>1, <1>4, TasksKept DEF Safe
<1> QED  BY <1>1, <1>5, InHandKeeps

LEMMA ResetScenarioKeeps ==
  ASSUME BotInv, ResetScenario
  PROVE  BotInv'
<1> DEFINE c == inbox[loop.update].chat
           kind == IF loop.state = "date" THEN "extract" ELSE "search"
<1>1. loop.pc \in Paused /\ UNCHANGED <<inbox, confirmed, offset, spent>>
      /\ Return(loop.update) /\ SetState(c, "idle") /\ Start(loop.update, kind, "work")
  BY DEF ResetScenario, Paused
<1>2. c \in Chats /\ loop.update \in Updates /\ loop.update <= Len(inbox)
  BY <1>1, InHandFacts, UpdateFacts DEF BotInv
<1>3. "idle" \in States \ {"date"} /\ kind \in Kinds
  BY DEF States, Kinds
<1>4. SessionsTyped' /\ DateStateHasVacancy'
  BY <1>1, <1>2, <1>3, SetStateSafe
<1>5. TasksTyped' /\ TaskInv'
  BY <1>1, <1>2, <1>3, StartSafe
<1> QED  BY <1>1, <1>4, <1>5, InHandKeeps DEF Safe

LEMMA AcceptSafe ==
  ASSUME BotInv, UNCHANGED inbox, NEW u \in Updates, u <= Len(inbox),
         NEW kind \in Kinds, Accept(u, inbox[u].chat, kind)
  PROVE  Safe
<1>1. inbox[u].chat \in Chats /\ "idle" \in States \ {"date"}
  BY UpdateFacts DEF BotInv, States
<1>2. SessionsTyped' /\ DateStateHasVacancy'
  BY <1>1, SetStateSafe DEF Accept
<1> QED  BY <1>2, StartSafe DEF Accept, Safe

LEMMA ScenarioKeeps ==
  ASSUME BotInv, Scenario
  PROVE  BotInv'
<1> DEFINE u == loop.update
           c == inbox[u].chat
           kind == inbox[u].msg.kind
<1>1. loop.pc \in Paused /\ UNCHANGED <<inbox, confirmed, offset, spent>>
  BY DEF Scenario, Paused
<1>2. u \in Updates /\ u <= Len(inbox) /\ c \in Chats
  BY <1>1, InHandFacts, UpdateFacts DEF BotInv
<1>3. ASSUME NEW work \in {"import", "answer"}, Accept(u, c, work)
      PROVE  Safe /\ Return(u)
  BY <1>1, <1>2, <1>3, AcceptSafe DEF Accept, Kinds
<1>4. ASSUME Reply(u) PROVE Safe /\ Return(u)
  BY <1>1, <1>4, UnchangedSafe DEF Reply
<1>5. ASSUME FileUpload(u, kind) \/ Vacancy(u) PROVE Safe /\ Return(u)
  <2>1. SessionsTyped' /\ DateStateHasVacancy'
    BY <1>5, SessionsKept DEF FileUpload, Vacancy
  <2>2. TasksTyped' /\ TaskInv'
    BY <1>1, <1>2, <1>5, StartSafe, TasksKept DEF FileUpload, Vacancy, Kinds
  <2> QED  BY <1>5, <2>1, <2>2 DEF Safe, FileUpload, Vacancy
<1>6. ASSUME Period(u, c) PROVE Safe /\ Return(u)
  <2>1. SetState(c, "public") /\ "public" \in States \ {"date"} /\ UNCHANGED task
    BY <1>6 DEF Period, States
  <2> QED  BY <1>1, <1>2, <1>6, <2>1, SetStateSafe, TasksKept DEF Safe, Period
<1>7. ASSUME ReadSession(u) PROVE Safe /\ GoOn(u, "resetScenario")
  BY <1>1, <1>7, UnchangedSafe DEF ReadSession
<1>8. Safe /\ (Return(u) \/ \E pc \in Paused : GoOn(u, pc))
  BY <1>3, <1>4, <1>5, <1>6, <1>7 DEF Scenario, LinkImport, AudioImport, JSONImport,
     Paused
<1> QED  BY <1>1, <1>8, InHandKeeps

LEMMA GetUpdatesKeeps ==
  ASSUME BotInv, GetUpdates
  PROVE  BotInv'
<1> DEFINE n == Len(inbox) + 1 - First
<1>1. n \in Nat \ {0} /\ First + n = Len(inbox) + 1
  BY FirstFacts DEF GetUpdates
<1>2. batch' = [k \in 1 .. n |-> First + k - 1]
  BY DEF GetUpdates
<1>3. \A k \in 1 .. n : First + k - 1 \in Updates
  BY FirstFacts DEF Updates
<1> HIDE DEF n
<1>4. batch' \in Seq(Updates) /\ Len(batch') = n
  <2>1. batch' \in [1 .. n -> Updates]
    BY <1>2, <1>3
  <2> QED  BY <1>1, <2>1, SeqDef, LenProperties
<1>5. batch' # <<>>
  BY <1>1, <1>4, EmptySeq
<1>6. First' = First /\ confirmed' = First - 1 /\ confirmed' \in 0 .. MaxUpdates
  BY FirstFacts DEF GetUpdates, First
<1>7. loop'.pc = "take" /\ InHand' = InHand
      /\ loop' \in [pc: {"poll", "take", "scenario", "resetScenario", "storePeople"},
                    update: 0 .. MaxUpdates, state: States, snap: Session]
  BY DEF GetUpdates, BotInv, TypeOK, InHand, Paused
<1>8. OrderInv'
  <2>1. PICK f \in Nat : f = First
    BY FirstFacts
  <2>2. PICK b : b = batch'
    OBVIOUS
  <2>3. confirmed' < f /\ f + Len(b) = Len(inbox) + 1
    BY <1>1, <1>4, <1>6, <2>1, <2>2
  <2>4. \A k \in 1 .. Len(b) : b[k] = f + k - 1
    BY <1>2, <1>4, <2>1, <2>2
  <2>5. inbox' = inbox /\ First' = f /\ Len(b) <= Len(b) /\ b # <<>>
    BY <1>1, <1>4, <1>5, <1>6, <2>1, <2>2 DEF GetUpdates
  <2>6. f + Len(b) <= Len(inbox) + 1
    BY <2>3, FirstFacts
  <2>7. loop'.pc = "take" /\ loop'.pc \notin Paused
    BY <1>7 DEF Paused
  <2> QED  BY <2>2, <2>3, <2>4, <2>5, <2>6, <2>7 DEF OrderInv
<1>9. HandledInv'
  BY <1>6, <1>7 DEF BotInv, HandledInv, GetUpdates
<1> QED
  BY <1>4, <1>6, <1>7, <1>8, <1>9
     DEF GetUpdates, BotInv, TypeOK, TaskInv, DateStateHasVacancy

\* Telegram may have confirmed what the unanswered poll asked from.
LEMMA GetUpdatesFailsKeeps ==
  ASSUME BotInv, GetUpdatesFails
  PROVE  BotInv'
<1>1. First' = First /\ confirmed' < First /\ confirmed' \in 0 .. MaxUpdates
  <2>1. confirmed' = confirmed \/ confirmed' = First - 1
    BY DEF GetUpdatesFails
  <2>2. First \in 1 .. MaxUpdates + 1 /\ confirmed \in 0 .. MaxUpdates /\ confirmed < First
    BY FirstFacts DEF BotInv, TypeOK, OrderInv
  <2>3. confirmed' < First /\ confirmed' \in 0 .. MaxUpdates
    BY <2>1, <2>2, FirstFacts
  <2>4. offset' = offset /\ (offset = 0 => First = confirmed + 1)
    BY DEF GetUpdatesFails, First
  <2>5. offset = 0 => confirmed' = confirmed
    BY <2>1, <2>2, <2>4
  <2>6. First' = First
    BY <2>4, <2>5 DEF First
  <2> QED  BY <2>3, <2>6
<1>2. spent'.restarts = spent.restarts /\ spent' \in [faults: Nat, restarts: Nat]
  <2>1. spent \in [faults: Nat, restarts: Nat]
    BY DEF BotInv, TypeOK
  <2>2. spent' = [spent EXCEPT !.faults = spent.faults + 1]
    BY DEF GetUpdatesFails
  <2> QED  BY <2>1, <2>2
<1>3. loop.pc = "poll" /\ loop' = loop /\ InHand' = InHand
  BY DEF GetUpdatesFails, InHand
<1>4. OrderInv'
  <2>1. PICK f : f = First /\ f = First' /\ confirmed' < f
    BY <1>1
  <2>2. UNCHANGED <<inbox, batch, offset>> /\ loop' = loop /\ loop.pc \notin Paused
    BY <1>3 DEF GetUpdatesFails, Paused
  <2>3. /\ f + Len(batch) <= Len(inbox) + 1
        /\ \A k \in 1 .. Len(batch) : batch[k] = f + k - 1
        /\ loop.pc = "poll" => batch = <<>>
        /\ loop.pc = "take" => batch # <<>>
    BY <2>1 DEF BotInv, OrderInv
  <2> QED  BY <2>1, <2>2, <2>3 DEF OrderInv
<1>5. HandledInv'
  BY <1>1, <1>2, <1>3 DEF GetUpdatesFails, BotInv, HandledInv
<1> QED
  BY <1>1, <1>2, <1>4, <1>5
     DEF GetUpdatesFails, BotInv, TypeOK, TaskInv, DateStateHasVacancy

LEMMA SendKeeps ==
  ASSUME BotInv, NEW c \in Chats, NEW m \in Messages, Send(c, m)
  PROVE  BotInv'
<1> DEFINE e == [chat |-> c, msg |-> m]
<1>1. inbox \in Seq([chat: Chats, msg: Messages]) /\ inbox' = Append(inbox, e)
      /\ Len(inbox) < MaxUpdates
  BY DEF BotInv, TypeOK, Send
<1>2. e \in [chat: Chats, msg: Messages]
  OBVIOUS
<1> HIDE DEF e
<1>3. inbox' \in Seq([chat: Chats, msg: Messages]) /\ Len(inbox') = Len(inbox) + 1
  BY <1>1, <1>2, AppendProperties
<1>4. Len(inbox) \in Nat /\ MaxUpdates \in Nat
  BY FirstFacts
<1>5. TypeOK'
  BY <1>1, <1>3, <1>4 DEF Send, BotInv, TypeOK
<1>6. First' = First /\ InHand' = InHand
  BY DEF Send, First, InHand
<1>7. OrderInv'
  BY <1>3, <1>4, <1>6, FirstFacts DEF Send, BotInv, OrderInv
<1>8. HandledInv'
  BY <1>6 DEF Send, BotInv, HandledInv
<1>9. TaskInv'
  BY <1>3, <1>4 DEF Send, BotInv, TaskInv, Updates
<1> QED
  BY <1>5, <1>7, <1>8, <1>9 DEF Send, BotInv, DateStateHasVacancy

-----------------------------------------------------------------------------
(***************************************************************************)
(* The steps of the goroutines, and restarts.                              *)
(***************************************************************************)
\* What shortlists hold, and what a query resolves to, are vacancies.
LEMMA ShownTyped ==
  ASSUME NEW list \in Seq(Vacancies)
  PROVE  Shown(list) \in Seq(Vacancies)
<1> DEFINE n == IF Len(list) < ListLimit THEN Len(list) ELSE ListLimit
<1>1. ListLimit \in Nat
  BY BotAssumption
<1>2. n \in Int /\ \A k \in 1 .. n : list[k] \in Vacancies
  BY <1>1, ElementOfSeq
<1> HIDE DEF n
<1>3. SubSeq(list, 1, n) \in Seq(Vacancies)
  BY <1>2, SubSeqProperties
<1> QED  BY <1>3 DEF Shown, n

LEMMA ResolutionsTyped ==
  ASSUME NEW q, NEW options \in Seq(Vacancies), NEW list \in Resolutions(q, options)
  PROVE  list \in Seq(Vacancies)
<1>1. ToSet(Catalog) \subseteq Vacancies /\ Len(Catalog) \in Nat
  <2>1. Catalog \in Seq(Vacancies)
    BY BotAssumption
  <2> QED  BY <2>1, LenProperties, ElementOfSeq DEF ToSet
<1>2. CASE q.index \in 1 .. Len(options)
  <2>1. list = <<options[q.index]>> /\ options[q.index] \in Vacancies
    BY <1>2, ElementOfSeq DEF Resolutions
  <2> QED  BY <2>1
<1>3. CASE q.index \notin 1 .. Len(options) /\ q.name \in ToSet(Catalog)
  <2>1. list = <<q.name>> /\ q.name \in Vacancies
    BY <1>1, <1>3 DEF Resolutions
  <2> QED  BY <2>1
<1>4. CASE q.index \notin 1 .. Len(options) /\ q.name \notin ToSet(Catalog)
  <2>1. PICK n \in 0 .. Len(Catalog) : list \in [1 .. n -> ToSet(Catalog)]
    BY <1>4 DEF Resolutions
  <2>2. n \in Nat /\ list \in [1 .. n -> Vacancies]
    BY <1>1, <2>1
  <2> QED  BY <2>2, SeqDef
<1> QED  BY <1>2, <1>3, <1>4

LEMMA LiveTask ==
  ASSUME BotInv, NEW u \in Updates, task[u].pc \in Live
  PROVE  /\ u <= Len(inbox) /\ inbox[u].chat \in Chats
         /\ session[inbox[u].chat] \in Session /\ task[u] \in Tasks
<1>1. u <= Len(inbox) /\ task[u] \in Tasks
  BY DEF BotInv, TypeOK, TaskInv, Live
<1> QED  BY <1>1, UpdateFacts DEF BotInv

\* A goroutine that only ends, or goes on to its export.
LEMMA PlainTaskSafe ==
  ASSUME BotInv, NEW u \in Updates, task[u].pc \in Live, UNCHANGED <<inbox, session>>,
         EndTask(u) \/ task' = [task EXCEPT ![u].pc = "export"]
  PROVE  Safe
<1>1. u <= Len(inbox) /\ task[u] \in Tasks
  BY LiveTask
<1>2. CASE EndTask(u)
  BY <1>1, <1>2, EndTaskSafe, SessionsKept DEF Safe
<1>3. CASE task' = [task EXCEPT ![u].pc = "export"]
  <2> DEFINE t == [task[u] EXCEPT !.pc = "export"]
  <2>1. t \in Tasks /\ t.pc = "export" /\ task' = [task EXCEPT ![u] = t]
    BY <1>1, <1>3 DEF Tasks, Live
  <2> HIDE DEF t
  <2>2. TasksTyped' /\ TaskInv'
    BY <1>1, <2>1, TaskSafe
  <2> QED  BY <2>2, SessionsKept DEF Safe
<1> QED  BY <1>2, <1>3

\* A list is put on offer.
LEMMA OfferSafe ==
  ASSUME BotInv, NEW u \in Updates, task[u].pc \in Live, UNCHANGED inbox,
         NEW list \in Seq(Vacancies),
         SetSession(inbox[u].chat, [NewSession EXCEPT !.state = "vacancy",
                                                      !.options = Shown(list)]),
         EndTask(u)
  PROVE  Safe
<1> DEFINE next == [NewSession EXCEPT !.state = "vacancy", !.options = Shown(list)]
<1>1. u <= Len(inbox) /\ inbox[u].chat \in Chats
  BY LiveTask
<1>2. Shown(list) \in Seq(Vacancies)
  BY ShownTyped
<1>3. next \in Session /\ next.state = "vacancy"
  BY <1>2 DEF NewSession, Session, States
<1>4. SessionsTyped' /\ DateStateHasVacancy'
  BY <1>1, <1>3, SetSessionSafe
<1> QED  BY <1>1, <1>4, EndTaskSafe DEF Safe

LEMMA ReadOptionsSafe ==
  ASSUME BotInv, NEW u \in Updates, UNCHANGED inbox, ReadOptions(u)
  PROVE  Safe
<1> DEFINE options == session[inbox[u].chat].options
<1>1. task[u].pc \in Live
  BY DEF ReadOptions, Live
<1>2. u <= Len(inbox) /\ task[u] \in Tasks /\ options \in Seq(Vacancies)
  BY <1>1, LiveTask DEF Session
<1>3. PICK list \in Resolutions(inbox[u].msg.query, options) :
        task' = [task EXCEPT ![u].pc = IF Len(list) = 1 THEN "reread" ELSE "choose",
                             ![u].list = list]
  BY DEF ReadOptions
<1>4. list \in Seq(Vacancies)
  BY <1>2, <1>3, ResolutionsTyped
<1> DEFINE pc == IF Len(list) = 1 THEN "reread" ELSE "choose"
           t == [task[u] EXCEPT !.pc = pc, !.list = list]
<1>5. task' = [task EXCEPT ![u] = t]
  BY <1>2, <1>3 DEF BotInv, TypeOK
<1>6. pc \in {"reread", "choose"} /\ (pc = "reread" => Len(list) = 1)
  OBVIOUS
<1> HIDE DEF pc
<1>7. t \in Tasks /\ t.pc = pc /\ t.list = list
  BY <1>2, <1>4, <1>6 DEF Tasks, Live
<1> HIDE DEF t
<1>8. TasksTyped' /\ TaskInv'
  BY <1>2, <1>5, <1>6, <1>7, TaskSafe
<1> QED  BY <1>8, SessionsKept DEF ReadOptions, Safe

LEMMA RereadSafe ==
  ASSUME BotInv, NEW u \in Updates, UNCHANGED inbox, RereadSession(u)
  PROVE  Safe
<1> DEFINE t == [task[u] EXCEPT !.pc = "store", !.snap = session[inbox[u].chat]]
<1>1. task[u].pc = "reread" /\ task[u].pc \in Live
  BY DEF RereadSession, Live
<1>2. u <= Len(inbox) /\ task[u] \in Tasks /\ session[inbox[u].chat] \in Session
  BY <1>1, LiveTask
<1>3. task' = [task EXCEPT ![u] = t]
  BY DEF RereadSession, BotInv, TypeOK
<1>4. t \in Tasks /\ t.list = task[u].list
  BY <1>2 DEF Tasks, Live
<1>5. Len(t.list) = 1
  BY <1>1, <1>4 DEF BotInv, TaskInv
<1> HIDE DEF t
<1>6. TasksTyped' /\ TaskInv'
  BY <1>2, <1>3, <1>4, <1>5, TaskSafe
<1> QED  BY <1>6, SessionsKept DEF RereadSession, Safe

LEMMA HeadOfOne ==
  ASSUME NEW S, NEW s \in Seq(S), Len(s) = 1
  PROVE  Head(s) \in S
  BY ElementOfSeq

\* The period is asked for together with the vacancy it is for.
LEMMA StoreVacancySafe ==
  ASSUME BotInv, NEW u \in Updates, UNCHANGED inbox, StoreVacancy(u)
  PROVE  Safe
<1> DEFINE v == Head(task[u].list)
           next == [task[u].snap EXCEPT !.state = "date", !.vacancy = v]
<1>1. task[u].pc = "store" /\ task[u].pc \in Live
  BY DEF StoreVacancy, Live
<1>2. u <= Len(inbox) /\ inbox[u].chat \in Chats /\ task[u] \in Tasks
  BY <1>1, LiveTask
<1>3. task[u].list \in Seq(Vacancies) /\ Len(task[u].list) = 1
      /\ task[u].snap \in Session
  BY <1>1, <1>2 DEF BotInv, TaskInv, Tasks
<1>4. v \in Vacancies /\ v # NoVacancy
  <2>1. v \in Vacancies
    BY <1>3, HeadOfOne
  <2> QED  BY <2>1, BotAssumption
<1>5. SetSession(inbox[u].chat, next) /\ EndTask(u)
  BY DEF StoreVacancy
<1> HIDE DEF v
<1>6. next \in Session /\ next.vacancy = v
  BY <1>3, <1>4 DEF Session, States
<1>7. SessionsTyped' /\ DateStateHasVacancy'
  BY <1>2, <1>4, <1>5, <1>6, SetSessionSafe
<1> QED  BY <1>2, <1>5, <1>7, EndTaskSafe DEF Safe

LEMMA TaskStepKeeps ==
  ASSUME BotInv, NEW u \in Updates, TaskStep(u)
  PROVE  BotInv'
<1>1. UNCHANGED <<inbox, confirmed, offset, batch, loop, handled, spent>>
  BY DEF TaskStep
<1>2. ASSUME \/ WorkFails(u) \/ Imported(u) \/ Searched(u) \/ Extracted(u)
             \/ Answered(u) \/ SourceExported(u) \/ GivesUp(u)
      PROVE  Safe
  <2>1. task[u].pc \in Live /\ UNCHANGED session
        /\ (EndTask(u) \/ task' = [task EXCEPT ![u].pc = "export"])
    BY <1>2 DEF WorkFails, Imported, Searched, Extracted, Answered, SourceExported,
       GivesUp, Live
  <2> QED  BY <1>1, <2>1, PlainTaskSafe
<1>3. ASSUME PromptVacancies(u) PROVE Safe
  <2>1. task[u].pc \in Live
    BY <1>3 DEF PromptVacancies, Live
  <2>2. Catalog \in Seq(Vacancies)
    BY BotAssumption
  <2> QED  BY <1>1, <1>3, <2>1, <2>2, OfferSafe DEF PromptVacancies
<1>4. ASSUME OfferCandidates(u) PROVE Safe
  <2>1. task[u].pc \in Live
    BY <1>4 DEF OfferCandidates, Live
  <2>2. task[u].list \in Seq(Vacancies)
    BY <2>1, LiveTask DEF Tasks
  <2>3. CASE task[u].list = <<>>
    BY <1>1, <1>4, <2>1, <2>3, PlainTaskSafe DEF OfferCandidates
  <2>4. CASE task[u].list # <<>>
    BY <1>1, <1>4, <2>1, <2>2, <2>4, OfferSafe DEF OfferCandidates
  <2> QED  BY <2>3, <2>4
<1>5. Safe
  BY <1>1, <1>2, <1>3, <1>4, ReadOptionsSafe, RereadSafe, StoreVacancySafe
     DEF TaskStep
<1>6. First' = First /\ InHand' = InHand
  BY <1>1 DEF First, InHand
<1>7. LoopTyped' /\ OrderInv' /\ HandledInv'
  BY <1>1, <1>6 DEF BotInv, TypeOK, LoopTyped, OrderInv, HandledInv
<1> QED  BY <1>1, <1>5, <1>7, LoopKeeps

\* What was confirmed before the restart has been handled; the rest comes again.
LEMMA RestartKeeps ==
  ASSUME BotInv, Restart
  PROVE  BotInv'
<1>0. spent'.restarts = spent.restarts + 1 /\ spent' \in [faults: Nat, restarts: Nat]
  <2>1. spent \in [faults: Nat, restarts: Nat]
    BY DEF BotInv, TypeOK
  <2>2. spent' = [spent EXCEPT !.restarts = spent.restarts + 1]
    BY DEF Restart
  <2> QED  BY <2>1, <2>2
<1>1. /\ First' = confirmed + 1 /\ InHand' = {}
      /\ batch' = <<>> /\ loop' = Polling /\ offset' = 0
      /\ UNCHANGED <<inbox, confirmed, handled>>
  BY DEF Restart, First, InHand, Polling, Paused
<1>2. Polling = [Polling EXCEPT !.pc = "poll"] /\ Polling.pc = "poll"
  BY DEF Polling
<1>3. batch' \in Seq(Updates) /\ Len(batch') = 0
  BY <1>1, EmptySeq
<1>4. OrderInv'
  BY <1>1, <1>2, <1>3, FirstFacts DEF BotInv, OrderInv, Paused
<1>5. ASSUME NEW x \in Updates
      PROVE  /\ x < First' /\ x \notin InHand' => handled'[x] > 0
             /\ handled'[x] <= 1 + spent'.restarts
             /\ x >= First' \/ x \in InHand' => handled'[x] <= spent'.restarts
  <2>1. x \in Nat /\ handled[x] \in Nat /\ spent.restarts \in Nat
    BY DEF Updates, BotInv, TypeOK
  <2>2. handled[x] <= 1 + spent.restarts
    BY DEF BotInv, HandledInv
  <2>3. x < First' => handled[x] > 0
    <3>1. ASSUME x < First' PROVE x < First /\ x \notin InHand
      <4>1. x <= confirmed
        BY <1>1, <2>1, <3>1, FirstFacts
      <4>2. loop.pc \in Paused => x # loop.update
        BY <4>1, <2>1, InHandFacts, FirstFacts DEF Updates
      <4> QED  BY <4>1, <4>2, <2>1, FirstFacts DEF BotInv, OrderInv, InHand
    <3> QED  BY <3>1 DEF BotInv, HandledInv
  <2> QED  BY <1>0, <1>1, <2>1, <2>2, <2>3
<1>6. HandledInv'
  BY <1>5 DEF HandledInv
<1>7. SessionsTyped' /\ DateStateHasVacancy'
  BY NewSessionTyped DEF Restart, SessionsTyped, DateStateHasVacancy, NewSession
<1>8. TasksTyped' /\ TaskInv'
  <2>1. task' = [x \in Updates |-> IF task[x].pc \in Live
                                   THEN [NoTask EXCEPT !.pc = "lost"]
                                   ELSE task[x]]
    BY DEF Restart
  <2>2. \A x \in Updates : \/ task'[x] = task[x]
                           \/ task[x].pc \in Live /\ task'[x].pc = "lost"
    BY <2>1 DEF NoTask
  <2>3. TasksTyped'
    BY <2>1, NoTaskTyped DEF BotInv, TypeOK, TasksTyped
  <2> QED  BY <1>1, <2>2, <2>3, LiveTask DEF BotInv, TaskInv
<1>9. TypeOK'
  <2>1. /\ inbox' \in Seq([chat: Chats, msg: Messages]) /\ Len(inbox') <= MaxUpdates
        /\ confirmed' \in 0 .. MaxUpdates /\ handled' \in [Updates -> Nat]
    BY <1>1 DEF BotInv, TypeOK
  <2>2. offset' \in 0 .. MaxUpdates + 1
    BY <1>1, FirstUpdates
  <2>3. loop' \in [pc: {"poll", "take", "scenario", "resetScenario", "storePeople"},
                  update: 0 .. MaxUpdates, state: States, snap: Session]
    BY <1>1, <1>2, PollingTyped
  <2> QED  BY <1>0, <1>3, <1>7, <1>8, <2>1, <2>2, <2>3 DEF TypeOK, SessionsTyped, TasksTyped
<1> QED  BY <1>4, <1>6, <1>7, <1>8, <1>9 DEF BotInv

LEMMA BotInit == Init => BotInv
<1> SUFFICES ASSUME Init PROVE BotInv
  OBVIOUS
<1>1. MaxUpdates \in Nat
  BY FirstUpdates
<1>2. First = 1 /\ InHand = {} /\ Len(inbox) = 0 /\ Len(batch) = 0
  BY EmptySeq DEF Init, First, InHand, Polling, Paused
<1>3. Polling = [Polling EXCEPT !.pc = "poll"]
  BY DEF Polling
<1>4. inbox \in Seq([chat: Chats, msg: Messages]) /\ batch \in Seq(Updates)
  BY EmptySeq DEF Init
<1>5. TypeOK
  BY <1>1, <1>2, <1>3, <1>4, PollingTyped, NewSessionTyped, NoTaskTyped DEF Init, TypeOK
<1>6. OrderInv /\ HandledInv
  BY <1>2 DEF Init, OrderInv, HandledInv, Polling, Paused, Updates
<1>7. TaskInv /\ DateStateHasVacancy
  BY DEF Init, TaskInv, DateStateHasVacancy, NoTask, NewSession
<1> QED  BY <1>5, <1>6, <1>7 DEF BotInv

LEMMA BotNext == BotInv /\ [Next]_vars => BotInv'
<1> SUFFICES ASSUME BotInv, [Next]_vars PROVE BotInv'
  OBVIOUS
<1>1. CASE LoopStep
  BY <1>1, GetUpdatesKeeps, TakeUpdateKeeps, StorePeopleKeeps, ScenarioKeeps,
     ResetScenarioKeeps DEF LoopStep
<1>2. CASE UNCHANGED vars
  <2>1. First' = First /\ InHand' = InHand
    BY <1>2 DEF vars, First, InHand
  <2> QED
    BY <1>2, <2>1 DEF vars, BotInv, TypeOK, OrderInv, HandledInv, TaskInv,
       DateStateHasVacancy
<1> QED
  BY <1>1, <1>2, SendKeeps, GetUpdatesFailsKeeps, TaskStepKeeps, RestartKeeps DEF Next

\* The inductive invariant of the bot, for any number of chats, goroutines,
\* unanswered polls and restarts.
THEOREM BotInvariant == Spec => []BotInv
  BY BotInit, BotNext, PTL DEF Spec

\* Every session, goroutine and update keeps its type.
THEOREM BotTypeCorrect == Spec => []TypeOK
<1>1. BotInv => TypeOK
  BY DEF BotInv
<1> QED  BY <1>1, BotInvariant, PTL

\* What Telegram has dropped, the bot has handled: Run confirms an update only
\* with the poll after it, so no restart or lost answer makes it skip one.
THEOREM BotSkipsNothing == Spec => []NothingSkipped
<1>1. BotInv => NothingSkipped
  <2> SUFFICES ASSUME BotInv, NEW u \in 1 .. confirmed PROVE handled[u] > 0
    BY DEF NothingSkipped
  <2>1. u \in Updates /\ u < First /\ u <= confirmed
    BY FirstFacts DEF BotInv, OrderInv, Updates
  <2>2. u \notin InHand
    BY <2>1, InHandFacts, FirstFacts DEF InHand, Updates
  <2> QED  BY <2>1, <2>2 DEF BotInv, HandledInv
<1> QED  BY <1>1, BotInvariant, PTL

\* An update is handled once per start of the bot at most.
THEOREM BotHandlesOncePerStart == Spec => []OncePerStart
<1>1. BotInv => OncePerStart
  BY DEF BotInv, HandledInv, OncePerStart
<1> QED  BY <1>1, BotInvariant, PTL

\* No interleaving of the loop and the goroutines leaves a chat asked for a
\* period with no vacancy selected.
THEOREM PeriodIsForAVacancy == Spec => []DateStateHasVacancy
<1>1. BotInv => DateStateHasVacancy
  BY DEF BotInv
<1> QED  BY <1>1, BotInvariant, PTL
=============================================================================
