------------------------------ MODULE HHTokens ------------------------------
(***************************************************************************)
(* HeadHunter's OAuth tokens: backend/internal/auth/oauth.go, the requests *)
(* of backend/internal/hhclient/client.go that use them, the .env file of  *)
(* backend/internal/hhtokens/envfile.go, and the handlers that keep a      *)
(* configuration (api/hh_handlers.go, tgbot/bot.go).                       *)
(*                                                                         *)
(* Every call copies the configuration of its process into a manager of    *)
(* its own; the call's workers share the manager.  HH replaces a pair of   *)
(* tokens when its refresh token is used.  The new pair is written to .env *)
(* by reading the whole file and writing it again, without a lock, by all  *)
(* the processes.                                                          *)
(***************************************************************************)
EXTENDS Naturals

CONSTANTS
  Processes,    \* the API and the bot
  Calls,        \* requests and goroutines that talk to HH
  Batches,      \* what an instance looks at: calls that come together
  ProcessOf,    \* ProcessOf[c]: where call c runs
  Exchanges,    \* the calls that exchange a code for tokens
  Cancellable,  \* the calls with the context of a request or with a time-out
  Workers,      \* goroutines of the calls; each sends one request to the API
  CallOf,       \* CallOf[w]: the call of worker w
  MaxAttempts,  \* RetryMax + 1
  MaxPairs,     \* bound: pairs of tokens HH issues
  MaxFaults     \* bound: failed requests, lost answers, file errors and
                \* processes that die

NoOne == "nobody"

ASSUME TokensAssumption ==
  /\ NoOne \notin Calls \cup Workers
  /\ ProcessOf \in [Calls -> Processes]
  /\ CallOf \in [Workers -> Calls]
  /\ Exchanges \subseteq Calls /\ Cancellable \subseteq Calls
  /\ Batches \subseteq SUBSET Calls
  /\ {MaxAttempts, MaxPairs} \subseteq Nat \ {0}
  /\ MaxFaults \in Nat

VARIABLES
  coming,      \* the batch of this instance
  hh,          \* HH: pairs issued, tokens it takes, who got them
  file,        \* .env
  conf,        \* hhConfig of each process
  manager,     \* the manager of each call
  lock,        \* refreshMu of each manager
  worker,      \* where each worker is
  up,          \* processes that run
  cancelled,   \* calls whose context is done
  unanswered,  \* pairs whose holder never saw the answer
  unsaved,     \* pairs a manager got and could not write to .env
  torn,        \* .env was read while it was written, or a write broke off
  refused,     \* <<c, g>>: HH refused pair g to call c
  faults

hhVars == <<hh, refused>>
fileVars == <<file, torn>>
lossVars == <<unanswered, unsaved>>
vars == <<coming, hhVars, fileVars, lossVars, conf, manager, lock, worker, up,
          cancelled, faults>>

Pairs == 1 .. MaxPairs        \* in the order HH issued them
Blank == 0
Tokens == [access: Pairs \cup {Blank}, refresh: Pairs \cup {Blank}]
NoTokens == [access |-> Blank, refresh |-> Blank]
Both(g) == [access |-> g, refresh |-> g]

\* .env: the tokens and whether the other settings are still there.
EnvFile == [tokens: Tokens, settings: BOOLEAN]
Truncated == [tokens |-> NoTokens, settings |-> FALSE]

Steps == {"wait", "slot", "asked", "lock", "post", "answered", "save", "cut",
          "write", "conf", "ok", "failed", "dead"}
Finished == {"ok", "failed", "dead"}
NoWork == [pc |-> "wait", attempt |-> 1, sent |-> Blank, got |-> Blank,
           read |-> Truncated]

WorkersOf(c) == {w \in Workers : CallOf[w] = c}

Init ==
  /\ coming \in Batches
  /\ hh = [issued |-> 1, fresh |-> {1}, usable |-> {1},
           by |-> [g \in Pairs |-> NoOne], replacing |-> [g \in Pairs |-> Blank]]
  /\ \E t \in {Both(1), [Both(1) EXCEPT !.access = Blank]} :
       /\ file = [tokens |-> t, settings |-> TRUE]
       /\ conf = [p \in Processes |-> t]
  /\ manager = [c \in Calls |-> NoTokens]
  /\ lock = [c \in Calls |-> NoOne]
  /\ worker = [w \in Workers |-> NoWork]
  /\ up = Processes
  /\ cancelled = {} /\ unanswered = {} /\ unsaved = {} /\ refused = {}
  /\ torn = FALSE
  /\ faults = 0

(***************************************************************************)
(* A call starts: hhConfigSnapshot and NewManager.                         *)
(***************************************************************************)
FirstStep(c) ==
  IF c \in Exchanges THEN "post"
  ELSE IF conf[ProcessOf[c]] = NoTokens THEN "failed" ELSE "slot"

Start(c) ==
  /\ c \in coming
  /\ ProcessOf[c] \in up
  /\ \A w \in WorkersOf(c) : worker[w].pc = "wait"
  /\ manager' = [manager EXCEPT ![c] = conf[ProcessOf[c]]]
  /\ worker' = [w \in Workers |-> IF CallOf[w] = c
                                  THEN [worker[w] EXCEPT !.pc = FirstStep(c)]
                                  ELSE worker[w]]
  /\ UNCHANGED <<coming, hhVars, fileVars, lossVars, conf, lock, up, cancelled, faults>>

(***************************************************************************)
(* A request to the API: Client.do.                                        *)
(***************************************************************************)
At(w, pc) == worker[w].pc = pc
Go(w, pc) == worker' = [worker EXCEPT ![w].pc = pc]
Stop(w, pc) == worker' = [worker EXCEPT ![w] = [NoWork EXCEPT !.pc = pc]]

RetryUnbounded(w) ==
  worker' = [worker EXCEPT ![w].pc = "slot", ![w].attempt = @ + 1, ![w].sent = Blank]

\* Another attempt, while there is one.
Retry(w) ==
  IF worker[w].attempt < MaxAttempts
  THEN worker' = [worker EXCEPT ![w].pc = "slot", ![w].attempt = @ + 1,
                                ![w].sent = Blank]
  ELSE Stop(w, "failed")

Fault == faults < MaxFaults /\ faults' = faults + 1

\* A place at the rate limiter, EnsureAccessToken, and the request goes out.
Send(w) ==
  LET t == manager[CallOf[w]] IN
  /\ At(w, "slot")
  /\ \/ CallOf[w] \in cancelled /\ Stop(w, "failed")
     \/ /\ CallOf[w] \notin cancelled
        /\ IF t.access = Blank /\ t.refresh # Blank
           THEN Go(w, "lock")
           ELSE worker' = [worker EXCEPT ![w].pc = "asked", ![w].sent = t.access]
  /\ UNCHANGED <<coming, hhVars, fileVars, lossVars, conf, manager, lock, up, cancelled, faults>>

Answered(w) ==
  /\ At(w, "asked")
  /\ worker[w].sent \in hh.fresh
  /\ Stop(w, "ok")
  /\ UNCHANGED <<coming, hhVars, fileVars, lossVars, conf, manager, lock, up, cancelled, faults>>

\* 401, or 403 with token_expired.
Unauthorised(w) ==
  /\ At(w, "asked")
  /\ worker[w].sent \notin hh.fresh
  /\ IF worker[w].attempt < MaxAttempts THEN Go(w, "lock") ELSE Stop(w, "failed")
  /\ UNCHANGED <<coming, hhVars, fileVars, lossVars, conf, manager, lock, up, cancelled, faults>>

\* No answer, 429 or 5xx: another attempt.  A context that is done ends the wait
\* for it, and an answer that breaks off while its body is read ends the request.
RequestFails(w) ==
  /\ At(w, "asked")
  /\ \/ CallOf[w] \in cancelled /\ Stop(w, "failed") /\ UNCHANGED faults
     \/ /\ CallOf[w] \notin cancelled
        /\ Retry(w) \/ Stop(w, "failed")
        /\ Fault
  /\ UNCHANGED <<coming, hhVars, fileVars, lossVars, conf, manager, lock, up, cancelled>>

(***************************************************************************)
(* Manager.refresh, from EnsureAccessToken (nothing was sent) and from     *)
(* RefreshIfCurrent (the token that was sent failed).                      *)
(***************************************************************************)
RefreshedByEnsure(w) == worker[w].sent = Blank /\ manager[CallOf[w]].access # Blank

AlreadyRefreshed(w) ==
  /\ manager[CallOf[w]].access # Blank
  /\ manager[CallOf[w]].access # worker[w].sent

Carry(w) ==
  IF worker[w].sent = Blank THEN Go(w, "slot") ELSE Retry(w)

Lock(w) ==
  LET c == CallOf[w] IN
  /\ At(w, "lock")
  /\ lock[c] = NoOne
  /\ \/ AlreadyRefreshed(w) /\ Carry(w) /\ UNCHANGED lock
     \/ /\ ~ AlreadyRefreshed(w)
        /\ manager[c].refresh = Blank
        /\ Stop(w, "failed") /\ UNCHANGED lock
     \/ /\ ~ AlreadyRefreshed(w)
        /\ manager[c].refresh # Blank
        /\ Go(w, "post") /\ lock' = [lock EXCEPT ![c] = w]
  /\ UNCHANGED <<coming, hhVars, fileVars, lossVars, conf, manager, up, cancelled, faults>>

\* Every return of refresh releases the manager.
Released(w) ==
  [lock EXCEPT ![CallOf[w]] = IF @ = w THEN NoOne ELSE @]

ReturnHolding(w) == Stop(w, "failed") /\ UNCHANGED lock

ReturnError(w) == Stop(w, "failed") /\ lock' = Released(w)

\* HH takes a refresh token once, and any code it has given.
Used(w) == IF CallOf[w] \in Exchanges THEN Blank ELSE manager[CallOf[w]].refresh

Grant(w) ==
  /\ At(w, "post")
  /\ CallOf[w] \in Exchanges \/ Used(w) \in hh.usable
  /\ hh.issued < MaxPairs
  /\ LET g == hh.issued + 1 IN
     /\ hh' = [hh EXCEPT !.issued = g,
                         !.fresh = (@ \ {Used(w)}) \cup {g},
                         !.usable = (@ \ {Used(w)}) \cup {g},
                         !.by[g] = CallOf[w],
                         !.replacing[g] = Used(w)]
     /\ worker' = [worker EXCEPT ![w].pc = "answered", ![w].got = g]
  /\ UNCHANGED <<coming, refused, fileVars, lossVars, conf, manager, lock, up, cancelled, faults>>

Refuse(w) ==
  /\ At(w, "post")
  /\ CallOf[w] \notin Exchanges
  /\ Used(w) \notin hh.usable
  /\ refused' = refused \cup {<<CallOf[w], Used(w)>>}
  /\ ReturnError(w)
  /\ UNCHANGED <<coming, hh, fileVars, lossVars, conf, manager, up, cancelled, faults>>

\* The request does not reach HH, or its answer does not reach the manager.
\* (Bound: so does every request after the last pair.)
TokenRequestFails(w) ==
  /\ worker[w].pc \in {"post", "answered"}
  /\ IF CallOf[w] \in cancelled \/ (At(w, "post") /\ hh.issued = MaxPairs)
     THEN UNCHANGED faults ELSE Fault
  /\ unanswered' = IF At(w, "answered") THEN unanswered \cup {worker[w].got}
                                        ELSE unanswered
  /\ ReturnError(w)
  /\ UNCHANGED <<coming, hhVars, fileVars, unsaved, conf, manager, up, cancelled>>

ReceiveAndRelease(w) ==
  /\ At(w, "answered")
  /\ manager' = [manager EXCEPT ![CallOf[w]] = Both(worker[w].got)]
  /\ Go(w, "save")
  /\ lock' = Released(w)
  /\ UNCHANGED <<coming, hhVars, fileVars, lossVars, conf, up, cancelled, faults>>

\* setTokenResponse and SetTokens.
Receive(w) ==
  /\ At(w, "answered")
  /\ manager' = [manager EXCEPT ![CallOf[w]] = Both(worker[w].got)]
  /\ Go(w, "save")
  /\ UNCHANGED <<coming, hhVars, fileVars, lossVars, conf, lock, up, cancelled, faults>>

(***************************************************************************)
(* OnTokenRefresh and saveHHTokens: PersistHHTokens reads .env, truncates  *)
(* it and writes it; then the configuration of the process is set.         *)
(***************************************************************************)
SavingFails(w) ==
  /\ unsaved' = unsaved \cup {worker[w].got}
  /\ ReturnError(w)

\* A refresh is not saved when the context is done; an exchange is.
SaveCancelled(w) ==
  /\ At(w, "save")
  /\ CallOf[w] \in cancelled \ Exchanges
  /\ SavingFails(w)
  /\ UNCHANGED <<coming, hhVars, fileVars, unanswered, conf, manager, up, cancelled, faults>>

ReadEnv(w) ==
  /\ At(w, "save")
  /\ CallOf[w] \in Exchanges \/ CallOf[w] \notin cancelled
  /\ worker' = [worker EXCEPT ![w].pc = "cut", ![w].read = file]
  /\ torn' = (torn \/ \E v \in Workers : At(v, "write"))
  /\ UNCHANGED <<coming, hhVars, file, lossVars, conf, manager, lock, up, cancelled, faults>>

TruncateEnv(w) ==
  /\ At(w, "cut")
  /\ file' = Truncated
  /\ Go(w, "write")
  /\ UNCHANGED <<coming, hhVars, torn, lossVars, conf, manager, lock, up, cancelled, faults>>

WriteEnv(w) ==
  /\ At(w, "write")
  /\ file' = [worker[w].read EXCEPT !.tokens = Both(worker[w].got)]
  /\ worker' = [worker EXCEPT ![w].pc = "conf", ![w].read = Truncated]
  /\ UNCHANGED <<coming, hhVars, torn, lossVars, conf, manager, lock, up, cancelled, faults>>

\* The file cannot be read or opened, or the disk is full.
EnvFails(w) ==
  /\ worker[w].pc \in {"cut", "write"}
  /\ Fault
  /\ torn' = (torn \/ At(w, "write"))
  /\ SavingFails(w)
  /\ UNCHANGED <<coming, hhVars, file, unanswered, conf, manager, up, cancelled>>

SetConf(w) ==
  /\ At(w, "conf")
  /\ conf' = [conf EXCEPT ![ProcessOf[CallOf[w]]] = Both(worker[w].got)]
  /\ lock' = Released(w)
  /\ IF CallOf[w] \in Exchanges THEN Stop(w, "ok") ELSE Carry(w)
  /\ UNCHANGED <<coming, hhVars, fileVars, lossVars, manager, up, cancelled, faults>>

(***************************************************************************)
(* The world: access tokens expire, clients go away, processes die.        *)
(***************************************************************************)
Expire(g) ==
  /\ g \in hh.fresh
  /\ hh.issued < MaxPairs
  /\ hh' = [hh EXCEPT !.fresh = @ \ {g}]
  /\ UNCHANGED <<coming, refused, fileVars, lossVars, conf, manager, lock, worker, up,
                 cancelled, faults>>

Running(c) == \E w \in WorkersOf(c) : worker[w].pc \notin Finished \cup {"wait"}

Cancel(c) ==
  /\ Running(c)
  /\ c \in Cancellable \ cancelled
  /\ cancelled' = cancelled \cup {c}
  /\ UNCHANGED <<coming, hhVars, fileVars, lossVars, conf, manager, lock, worker, up, faults>>

Crash(p) ==
  LET dying == {w \in Workers : /\ ProcessOf[CallOf[w]] = p
                                /\ worker[w].pc \notin Finished \cup {"wait"}}
  IN
  /\ p \in up
  /\ Fault
  /\ up' = up \ {p}
  /\ worker' = [w \in Workers |-> IF w \in dying THEN [NoWork EXCEPT !.pc = "dead"]
                                                 ELSE worker[w]]
  /\ conf' = [conf EXCEPT ![p] = NoTokens]
  /\ manager' = [c \in Calls |-> IF ProcessOf[c] = p THEN NoTokens ELSE manager[c]]
  /\ lock' = [c \in Calls |-> IF ProcessOf[c] = p THEN NoOne ELSE lock[c]]
  /\ unanswered' = unanswered \cup {worker[w].got : w \in {v \in dying : At(v, "answered")}}
  /\ unsaved' = unsaved \cup
       {worker[w].got : w \in {v \in dying : worker[v].pc \in {"save", "cut", "write"}}}
  /\ torn' = (torn \/ \E w \in dying : At(w, "write"))
  /\ UNCHANGED <<coming, hhVars, file, cancelled>>

\* godotenv reads .env, unless the environment has the tokens already: a
\* container that is started again keeps the ones it was created with.
Restart(p) ==
  /\ p \notin up
  /\ up' = up \cup {p}
  /\ \E t \in {file.tokens, Both(1)} : conf' = [conf EXCEPT ![p] = t]
  /\ UNCHANGED <<coming, hhVars, fileVars, lossVars, manager, lock, worker, cancelled, faults>>

WorkerStep(w) ==
  \/ Send(w) \/ Answered(w) \/ Unauthorised(w) \/ RequestFails(w)
  \/ Lock(w) \/ Grant(w) \/ Refuse(w) \/ TokenRequestFails(w) \/ Receive(w)
  \/ SaveCancelled(w) \/ ReadEnv(w) \/ TruncateEnv(w) \/ WriteEnv(w)
  \/ EnvFails(w) \/ SetConf(w)

Next ==
  \/ \E w \in Workers : WorkerStep(w)
  \/ \E c \in Calls : Start(c) \/ Cancel(c)
  \/ \E g \in Pairs : Expire(g)
  \/ \E p \in Processes : Crash(p) \/ Restart(p)

\* Goroutines are scheduled and every request has a time-out.
Spec == Init /\ [][Next]_vars /\ \A w \in Workers : WF_vars(WorkerStep(w))

(***************************************************************************)
(* Properties.                                                             *)
(***************************************************************************)
\* The state has its types: no request is sent more often than RetryMax + 1.
TypeOK ==
  /\ coming \in Batches
  /\ hh \in [issued: Pairs, fresh: SUBSET Pairs, usable: SUBSET Pairs,
             by: [Pairs -> Calls \cup {NoOne}],
             replacing: [Pairs -> Pairs \cup {Blank}]]
  /\ file \in EnvFile
  /\ conf \in [Processes -> Tokens]
  /\ manager \in [Calls -> Tokens]
  /\ lock \in [Calls -> Workers \cup {NoOne}]
  /\ worker \in [Workers -> [pc: Steps, attempt: 1 .. MaxAttempts,
                             sent: Pairs \cup {Blank}, got: Pairs \cup {Blank},
                             read: EnvFile]]
  /\ up \subseteq Processes /\ cancelled \subseteq Cancellable
  /\ unanswered \subseteq Pairs /\ unsaved \subseteq Pairs
  /\ torn \in BOOLEAN
  /\ refused \subseteq Calls \X (Pairs \cup {Blank})
  /\ faults \in 0 .. MaxFaults

\* A pair is replaced once however many workers of a manager met the same
\* expired token: HH replaces a pair only after its access token expired, or
\* for a manager that never had one; and HH refuses a refresh token only if
\* another call replaced the pair or the answer with the new one was lost
\* (refreshMu and the comparison with the token that failed).
RefreshedOnce ==
  [][/\ \A g \in Pairs : hh'.replacing[g] # hh.replacing[g] =>
          \/ hh'.replacing[g] \notin hh.fresh
          \/ manager[hh'.by[g]].access = Blank
     /\ \A r \in refused' \ refused : \E g \in Pairs :
          /\ hh.replacing[g] = r[2]
          /\ hh.by[g] # r[1] \/ g \in unanswered]_vars

\* Got from HH and not yet in .env.
OnTheWay == {worker[w].got : w \in {v \in Workers :
               worker[v].pc \in {"answered", "save", "cut", "write"}}}

\* .env always lets the next process in: its refresh token is one HH takes,
\* or the pair that replaced it is on its way to the file or was lost.  An
\* older pair never overwrites a newer one, whichever of several managers
\* writes last; and the other settings of the file survive every save that
\* neither broke off nor met another.
EnvFileLetsIn ==
  \/ torn
  \/ \E w \in Workers : At(w, "write")
  \/ /\ file.settings
     /\ \/ file.tokens.refresh \in hh.usable
        \/ \E g \in OnTheWay \cup unanswered \cup unsaved :
             hh.replacing[g] = file.tokens.refresh

\* Every worker of a call comes to an end, whatever HH answers and whoever
\* waits for the manager's lock.
CallsEnd ==
  (\E c \in Calls : Running(c)) ~> (\A c \in Calls : ~ Running(c))
=============================================================================
