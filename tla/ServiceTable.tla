---------------------------- MODULE ServiceTable ----------------------------
(***************************************************************************)
(* One entry of the service table (lwsm/server/table.c) and the threads    *)
(* that work on it: IPC callers that start, stop, refresh, update and wait *)
(* for the service, the pool threads that run the watchdog, and the        *)
(* loader's task, which reports what happens to the service.               *)
(*                                                                         *)
(* A step is a stretch of code between two places where the entry lock is  *)
(* taken or released.  The lock is never held across a step: the table     *)
(* drops it around every call into the loader and in pthread_cond_wait.  A *)
(* loader call is one step: it holds the loader's own lock throughout, and *)
(* takes the entry lock only inside it, to announce the new state.         *)
(*                                                                         *)
(* The loader is ServiceLifecycle, which Executable is proved to implement *)
(* when it is only rebuilt while the service is down and no call into it   *)
(* is in flight.  A rebuild that breaks this frees an object in use: torn  *)
(* becomes TRUE and the model stops there.                                 *)
(***************************************************************************)
EXTENDS Integers, FiniteSets

CONSTANTS Clients,        \* threads serving IPC calls
          Workers,        \* pool threads that run LwSmTableWatchdog
          Operations,     \* the calls the clients make
          RestartPeriod,  \* RESTART_PERIOD, in ticks of the clock
          RestartLimit,   \* RESTART_LIMIT
          MaxOps,         \* bound: calls made by the clients
          MaxDeaths,      \* bound: unexpected deaths of the service
          MaxFaults       \* bound: failing system or pool calls

AllOperations == {"start", "stop", "refresh", "wait", "update", "setglobal"}

ASSUME ServiceTableConstants ==
  /\ Clients \cap Workers = {}
  /\ IsFiniteSet(Clients) /\ IsFiniteSet(Workers)
  /\ Operations \subseteq AllOperations
  /\ RestartPeriod \in Nat /\ RestartLimit \in Nat \ {0}
  /\ MaxOps \in Nat /\ MaxDeaths \in Nat /\ MaxFaults \in Nat

Threads == Clients \cup Workers

VARIABLES
  state, instances,  \* the loader, see ServiceLifecycle
  tracked,           \* the loader has a task that watches the instance
  StartAttempts,     \* pEntry->StartAttempts
  elapsed,           \* now - pEntry->LastRestartPeriod, up to RestartPeriod + 1
  bDirty,            \* pEntry->bDirty
  bWatchdog,         \* gState.bWatchdog
  queued,            \* LwSmTableWatchdog work items in the pool's queue
  pc, op,            \* where each thread is, and in which call
  seen,              \* the thread's status.state, read by pfnGetStatus
  tried,             \* the thread's dwAttempts # 0
  known,             \* currentState of a thread's LwSmWaitService
  ops, deaths, faults,
  torn,              \* a loader object was freed while in use
  restarts,          \* history: restarts queued in this restart period
  sinceUp            \* history: those queued since a start last found it running

loaderVars  == <<state, instances, tracked>>
entryVars   == <<StartAttempts, elapsed, bDirty>>
threadVars  == <<pc, op, seen, tried, known>>
boundVars   == <<ops, deaths, faults>>
historyVars == <<restarts, sinceUp>>
vars == <<loaderVars, entryVars, bWatchdog, queued, threadVars, boundVars, torn, historyVars>>

Loader == INSTANCE ServiceLifecycle WITH Instances <- {1}

Down == {"STOPPED", "DEAD"}
Changing == {"STARTING", "STOPPING"}
States == {"RUNNING", "STOPPED", "STARTING", "STOPPING", "DEAD"}

\* Where a thread can be between two steps, and in which call.
Places == {"idle", "poll", "decide", "start", "stop", "refresh", "condwait", "registered"}
Calls == {"none", "start", "stop", "refresh", "wait", "watchdog"}

TypeOK ==
  /\ state \in States /\ instances \subseteq {1} /\ tracked \in BOOLEAN
  /\ StartAttempts \in 0..RestartLimit
  /\ elapsed \in 0..(RestartPeriod + 1)
  /\ bDirty \in BOOLEAN /\ bWatchdog \in BOOLEAN
  /\ queued \in Nat
  /\ pc \in [Threads -> Places]
  /\ op \in [Threads -> Calls]
  /\ seen \in [Threads -> States]
  /\ tried \in [Threads -> BOOLEAN]
  /\ known \in [Threads -> States]
  /\ ops \in 0..MaxOps /\ deaths \in 0..MaxDeaths /\ faults \in 0..MaxFaults
  /\ torn \in BOOLEAN
  /\ restarts \in Nat /\ sinceUp \in Nat

\* An entry that LwSmTableAddEntry has just added.  LastRestartPeriod is 0, a
\* date more than RESTART_PERIOD ago.
Init ==
  /\ Loader!Init /\ tracked = FALSE
  /\ StartAttempts = 0 /\ elapsed = RestartPeriod + 1 /\ bDirty = FALSE
  /\ bWatchdog = TRUE /\ queued = 0
  /\ pc = [t \in Threads |-> "idle"]
  /\ op = [t \in Threads |-> "none"]
  /\ seen = [t \in Threads |-> "STOPPED"]
  /\ tried = [t \in Threads |-> FALSE]
  /\ known = [t \in Threads |-> "STOPPED"]
  /\ ops = 0 /\ deaths = 0 /\ faults = 0
  /\ torn = FALSE
  /\ restarts = 0 /\ sinceUp = 0

Fault == faults < MaxFaults /\ faults' = faults + 1

-----------------------------------------------------------------------------
(* LwSmTableNotifyEntryStateChanged.                                       *)

\* It completes every registered LwSmWaitService and broadcasts the condition
\* variable; next gives the program counters of the other threads.
Woken_NotBroadcast(next) == [t \in Threads |-> IF pc[t] = "registered" THEN "idle" ELSE next[t]]
Woken(next) == [t \in Threads |-> CASE pc[t] = "registered" -> "idle"
                                    [] pc[t] = "condwait"   -> "poll"
                                    [] OTHER                -> next[t]]

CompletedWaits == [t \in Threads |-> IF pc[t] = "registered" THEN "none" ELSE op[t]]

\* A new restart period begins for a service that should run.
NewPeriod == StartAttempts >= 1 /\ elapsed > RestartPeriod

\* The announcement of a state other than DEAD, or with the watchdog off.
Announce == UNCHANGED <<StartAttempts, elapsed, queued, faults, historyVars>>

\* May a service that was started n times be started once more?
RestartAllowed_NoLimit(n) == n > 0
RestartAllowed_OneMore(n) == n > 0 /\ n <= RestartLimit
RestartAllowed(n) == n > 0 /\ n < RestartLimit

\* The announcement of DEAD with the watchdog on: the restart is queued, or the
\* queue refuses it, or there is nothing to restart.
AnnounceDeath ==
  LET attempts == IF NewPeriod THEN 1 ELSE StartAttempts
      before   == IF NewPeriod THEN 0 ELSE restarts
      beforeUp == IF NewPeriod THEN 0 ELSE sinceUp
  IN  /\ elapsed' = IF NewPeriod THEN 0 ELSE elapsed
      /\ \/ /\ RestartAllowed(attempts)
            /\ StartAttempts' = attempts + 1
            /\ \/ /\ queued' = queued + 1
                  /\ restarts' = before + 1 /\ sinceUp' = beforeUp + 1
                  /\ UNCHANGED faults
               \/ /\ Fault
                  /\ restarts' = before /\ sinceUp' = beforeUp
                  /\ UNCHANGED queued
         \/ /\ ~RestartAllowed(attempts)
            /\ StartAttempts' = attempts
            /\ restarts' = before /\ sinceUp' = beforeUp
            /\ UNCHANGED <<queued, faults>>

-----------------------------------------------------------------------------
(* The loader's task.                                                      *)

TaskNotifies == /\ pc' = Woken(pc) /\ op' = CompletedWaits
                /\ UNCHANGED <<seen, tried, known, bDirty, bWatchdog, ops, torn>>

ServiceComesUp ==
  /\ tracked /\ Loader!ComesUp /\ UNCHANGED <<tracked, deaths>>
  /\ TaskNotifies
  /\ Announce

ServiceExits ==
  /\ tracked /\ Loader!Exits /\ tracked' = FALSE /\ UNCHANGED deaths
  /\ TaskNotifies
  /\ Announce

ServiceDies ==
  /\ deaths < MaxDeaths /\ deaths' = deaths + 1
  /\ tracked /\ Loader!Dies /\ tracked' = FALSE
  /\ TaskNotifies
  /\ IF bWatchdog THEN AnnounceDeath ELSE Announce

-----------------------------------------------------------------------------
(* Calls on the entry.                                                     *)

\* Thread t is at this place, and the objects it works on are intact.
At(t, place) == ~torn /\ pc[t] = place

Step(t, to) == pc' = [pc EXCEPT ![t] = to]

\* The call goes on; it returns to its caller, and its locals are gone.
GoOn(t, to) == Step(t, to) /\ UNCHANGED <<op, seen, tried>>

Return(t) == /\ Step(t, "idle")
             /\ op' = [op EXCEPT ![t] = "none"]
             /\ seen' = [seen EXCEPT ![t] = "STOPPED"]
             /\ tried' = [tried EXCEPT ![t] = FALSE]

\* LwSmTableStartEntry, StopEntry, RefreshEntry: a client enters the call.
Begin(t, o) ==
  /\ t \in Clients /\ At(t, "idle") /\ ops < MaxOps /\ ops' = ops + 1
  /\ o \in Operations \cap {"start", "stop", "refresh"}
  /\ Step(t, "poll")
  /\ op' = [op EXCEPT ![t] = o]
  /\ UNCHANGED <<loaderVars, entryVars, bWatchdog, queued, seen, tried, known, deaths, faults,
                 torn, historyVars>>

\* A client queries the status and then waits for it to change: the call of
\* LwSmTableRegisterEntryNotify carries the state it was told.
BeginWait(t) ==
  /\ t \in Clients /\ At(t, "idle") /\ ops < MaxOps /\ ops' = ops + 1
  /\ "wait" \in Operations
  /\ Step(t, "poll")
  /\ op' = [op EXCEPT ![t] = "wait"]
  /\ known' = [known EXCEPT ![t] = state]
  /\ UNCHANGED <<loaderVars, entryVars, bWatchdog, queued, seen, tried, deaths, faults,
                 torn, historyVars>>

\* LwSmTableUpdateEntry: new information, to be used at the next start.
LwSmTableUpdateEntry(t) ==
  /\ t \in Clients /\ At(t, "idle") /\ ops < MaxOps /\ ops' = ops + 1
  /\ "update" \in Operations
  /\ bDirty' = TRUE
  /\ UNCHANGED <<loaderVars, StartAttempts, elapsed, bWatchdog, queued, threadVars, deaths,
                 faults, torn, historyVars>>

\* LwSmSetGlobal(LW_SM_GLOBAL_SETTING_WATCHDOG, ...).
LwSmSetGlobal(t) ==
  /\ t \in Clients /\ At(t, "idle") /\ ops < MaxOps /\ ops' = ops + 1
  /\ "setglobal" \in Operations
  /\ bWatchdog' = ~bWatchdog
  /\ UNCHANGED <<loaderVars, entryVars, queued, threadVars, deaths, faults, torn, historyVars>>

\* A pool thread takes a watchdog work item; it starts the entry unasked.
LwSmTableWatchdog(t) ==
  /\ t \in Workers /\ At(t, "idle")
  /\ queued > 0 /\ queued' = queued - 1
  /\ Step(t, "poll")
  /\ op' = [op EXCEPT ![t] = "watchdog"]
  /\ UNCHANGED <<loaderVars, entryVars, bWatchdog, seen, tried, known, boundVars, torn,
                 historyVars>>

\* LwSmTablePollEntry: pfnGetStatus is called without the entry lock.
LwSmTablePollEntry(t) ==
  /\ At(t, "poll")
  /\ seen' = [seen EXCEPT ![t] = state]
  /\ Step(t, "decide")
  /\ UNCHANGED <<loaderVars, entryVars, bWatchdog, queued, op, tried, known, boundVars, torn,
                 historyVars>>

\* Threads that called into the loader and may hold the pointer to its object.
InLoader(t) == {u \in Threads \ {t} : pc[u] \in {"poll", "start", "stop", "refresh"}}

\* LwSmTableReconstructEntry frees the object and builds a new one.
LwSmTableReconstructEntry(t) ==
  /\ bDirty' = FALSE
  /\ tracked' = FALSE
  /\ \/ state \in Down /\ Loader!Reset /\ torn' = FALSE
     \/ state \notin Down /\ torn' = TRUE /\ UNCHANGED <<state, instances>>
     \/ InLoader(t) # {} /\ torn' = TRUE /\ UNCHANGED <<state, instances>>

Starting(t) == op[t] \in {"start", "watchdog"}

\* The switch of LwSmTableStartEntry, under the entry lock again: the service
\* runs, has not answered to the start, or is on its way.
StartEntry_Running(t) ==
  /\ At(t, "decide") /\ Starting(t) /\ seen[t] = "RUNNING"
  /\ StartAttempts' = 1
  /\ sinceUp' = 0
  /\ Return(t)
  /\ UNCHANGED <<loaderVars, elapsed, bDirty, bWatchdog, queued, known, boundVars, torn, restarts>>

StartEntry_Unresponsive(t) ==
  /\ At(t, "decide") /\ Starting(t) /\ seen[t] \in Down /\ tried[t]
  /\ StartAttempts' = 0
  /\ Return(t)
  /\ UNCHANGED <<loaderVars, elapsed, bDirty, bWatchdog, queued, known, boundVars, torn,
                 historyVars>>

StartEntry_Down_KeepsCount(t) ==
  /\ At(t, "decide") /\ Starting(t) /\ seen[t] \in Down /\ ~tried[t]
  /\ GoOn(t, "start")
  /\ IF bDirty THEN LwSmTableReconstructEntry(t) ELSE UNCHANGED <<loaderVars, bDirty, torn>>
  /\ UNCHANGED <<StartAttempts, elapsed, bWatchdog, queued, known, boundVars, historyVars>>

StartEntry_Down(t) ==
  /\ At(t, "decide") /\ Starting(t) /\ seen[t] \in Down /\ ~tried[t]
  /\ StartAttempts' = 0
  /\ GoOn(t, "start")
  /\ IF bDirty THEN LwSmTableReconstructEntry(t) ELSE UNCHANGED <<loaderVars, bDirty, torn>>
  /\ UNCHANGED <<elapsed, bWatchdog, queued, known, boundVars, historyVars>>

\* LwSmTableWaitEntryChanged, in StartEntry and in StopEntry.
LwSmTableWaitEntryChanged(t) ==
  /\ At(t, "decide") /\ (Starting(t) \/ op[t] = "stop") /\ seen[t] \in Changing
  /\ GoOn(t, "condwait")
  /\ UNCHANGED <<loaderVars, entryVars, bWatchdog, queued, known, boundVars, torn, historyVars>>

\* pthread_cond_wait may return without a broadcast.
SpuriousWakeup(t) ==
  /\ At(t, "condwait")
  /\ GoOn(t, "poll")
  /\ UNCHANGED <<loaderVars, entryVars, bWatchdog, queued, known, boundVars, torn, historyVars>>

\* The switch of LwSmTableStopEntry.
StopEntry_Up(t) ==
  /\ At(t, "decide") /\ op[t] = "stop" /\ seen[t] \in {"RUNNING", "DEAD"}
  /\ StartAttempts' = 0
  /\ IF tried[t] THEN Return(t) ELSE GoOn(t, "stop")
  /\ UNCHANGED <<loaderVars, elapsed, bDirty, bWatchdog, queued, known, boundVars, torn,
                 historyVars>>

StopEntry_Stopped(t) ==
  /\ At(t, "decide") /\ op[t] = "stop" /\ seen[t] = "STOPPED"
  /\ Return(t)
  /\ UNCHANGED <<loaderVars, entryVars, bWatchdog, queued, known, boundVars, torn, historyVars>>

\* The switch of LwSmTableRefreshEntry.
RefreshEntry(t) ==
  /\ At(t, "decide") /\ op[t] = "refresh"
  /\ IF seen[t] = "RUNNING" THEN GoOn(t, "refresh") ELSE Return(t)
  /\ UNCHANGED <<loaderVars, entryVars, bWatchdog, queued, known, boundVars, torn, historyVars>>

\* LwSmTableRegisterEntryNotify: answer at once, or join the waiters.
LwSmTableRegisterEntryNotify(t) ==
  /\ At(t, "decide") /\ op[t] = "wait"
  /\ IF seen[t] # known[t] THEN Return(t) ELSE GoOn(t, "registered")
  /\ UNCHANGED <<loaderVars, entryVars, bWatchdog, queued, known, boundVars, torn, historyVars>>

-----------------------------------------------------------------------------
(* The calls into the loader, and what the caller does with their result.  *)

\* pfnStart, pfnStop succeed: the caller polls again.
Succeeds(t) == /\ pc' = Woken([pc EXCEPT ![t] = "poll"]) /\ op' = CompletedWaits
               /\ tried' = [tried EXCEPT ![t] = TRUE]
               /\ UNCHANGED seen

\* They fail after an announcement: the caller returns the error.
Fails(t) == /\ pc' = Woken([pc EXCEPT ![t] = "idle"])
            /\ op' = [CompletedWaits EXCEPT ![t] = "none"]
            /\ seen' = [seen EXCEPT ![t] = "STOPPED"]
            /\ tried' = [tried EXCEPT ![t] = FALSE]

\* pfnStart announces STARTING first.  Then the launch succeeds; or nothing is
\* launched, and DEAD is not announced; or no task can be made to watch it.
CallStart(t) ==
  /\ At(t, "start")
  /\ \/ Loader!Launch /\ tracked' = TRUE /\ Succeeds(t) /\ UNCHANGED faults
     \/ Loader!Launch /\ tracked' = FALSE /\ Fails(t) /\ Fault
     \/ Loader!LaunchFails /\ Fails(t) /\ Fault /\ UNCHANGED tracked
     \/ /\ state \notin Down
        /\ Return(t)
        /\ UNCHANGED <<loaderVars, faults>>
  /\ UNCHANGED <<entryVars, bWatchdog, queued, known, ops, deaths, torn, historyVars>>

CallStop(t) ==
  /\ At(t, "stop")
  /\ \/ Loader!RequestStop /\ Succeeds(t)
     \/ state = "DEAD" /\ Loader!Reset /\ Succeeds(t)
     \/ state \notin {"RUNNING", "DEAD"} /\ Return(t) /\ UNCHANGED <<state, instances>>
  /\ UNCHANGED <<tracked, entryVars, bWatchdog, queued, known, boundVars, torn, historyVars>>

CallRefresh(t) ==
  /\ At(t, "refresh")
  /\ Return(t)
  /\ UNCHANGED <<loaderVars, entryVars, bWatchdog, queued, known, boundVars, torn, historyVars>>

-----------------------------------------------------------------------------
Tick ==
  /\ elapsed <= RestartPeriod
  /\ elapsed' = elapsed + 1
  /\ UNCHANGED <<loaderVars, StartAttempts, bDirty, bWatchdog, queued, threadVars, boundVars,
                 torn, historyVars>>

TaskNext == ServiceComesUp \/ ServiceExits \/ ServiceDies

Enter(t) == \/ \E o \in {"start", "stop", "refresh"} : Begin(t, o)
            \/ BeginWait(t) \/ LwSmTableUpdateEntry(t) \/ LwSmSetGlobal(t)

\* A thread inside a call goes on.
Continue(t) ==
  \/ LwSmTablePollEntry(t)
  \/ StartEntry_Running(t) \/ StartEntry_Unresponsive(t) \/ StartEntry_Down(t)
  \/ StopEntry_Up(t) \/ StopEntry_Stopped(t)
  \/ LwSmTableWaitEntryChanged(t)
  \/ RefreshEntry(t) \/ LwSmTableRegisterEntryNotify(t)
  \/ CallStart(t) \/ CallStop(t) \/ CallRefresh(t)

Next == \/ TaskNext
        \/ Tick
        \/ \E t \in Threads : Enter(t) \/ LwSmTableWatchdog(t) \/ Continue(t) \/ SpuriousWakeup(t)

Spec == Init /\ [][Next]_vars

\* Threads inside a call and queued work items are scheduled, a service that
\* was launched comes up or dies, one told to stop exits.  Nobody is obliged to
\* call, time need not pass, and wake-ups without a broadcast are not promised.
Fairness ==
  /\ \A t \in Threads : WF_vars(Continue(t)) /\ WF_vars(LwSmTableWatchdog(t))
  /\ WF_vars(ServiceExits)
  /\ WF_vars(ServiceComesUp \/ (ServiceDies /\ state = "STARTING"))

FairSpec == Spec /\ Fairness

-----------------------------------------------------------------------------
(* Properties.                                                             *)

\* A worker that has yet to start the entry for the watchdog.
Restarting(w) == op[w] = "watchdog" /\ ~tried[w] /\ pc[w] \in {"poll", "decide", "condwait"}

\* A count above one is a promise: when a death raised StartAttempts, a restart
\* is queued or under way until some start or stop has reset the count.  Only
\* a full work queue breaks the promise.
RestartOwed ==
  StartAttempts >= 2 => \/ queued > 0
                        \/ \E w \in Workers : Restarting(w)
                        \/ faults > 0

\* What the restart limit does limit: the restarts queued in one restart period
\* since a start last found the service running, whatever order starts, stops,
\* deaths and the watchdog come in.
RestartBudget == sinceUp < RestartLimit

\* The invariant that carries RestartOwed and RestartBudget: the count is ahead
\* of the restarts it has paid for unless it was reset, the call a thread is in
\* fits where it is, and a call begins with dwAttempts = 0.
CountCoversRestarts == StartAttempts = 0 \/ sinceUp < StartAttempts
CallsAreShaped ==
  \A t \in Threads :
    /\ pc[t] = "start" => Starting(t)
    /\ pc[t] = "stop" => op[t] = "stop"
    /\ pc[t] \in {"idle", "registered"} \/ op[t] = "wait" => ~tried[t]
IInv == TypeOK /\ RestartOwed /\ RestartBudget /\ CountCoversRestarts /\ CallsAreShaped

\* A thread asleep in LwSmTableWaitEntryChanged while the service is still on
\* its way up or down, and watched, is woken in the end.
SleeperWoken ==
  \A t \in Threads : (pc[t] = "condwait" /\ state \in Changing /\ tracked) ~> pc[t] # "condwait"

\* lwsm.h:518: a start waits for the service "to finish starting", and no
\* longer: once the service is up or down, LwSmTableStartEntry returns.
StartReturns == \A c \in Clients : (op[c] = "start") ~> (op[c] # "start")

\* lwsm.h:575: LwSmWaitService returns at once when the service "has changed
\* state since the last query": a registered waiter's last known state is still
\* the state of the service.
WaitSeesChange == \A c \in Clients : pc[c] = "registered" => state = known[c]

\* server.h:87: "A count of 0 means the service should be stopped": the watchdog
\* starts no service whose count is 0, unless another start is under way that has
\* just set it to 0 itself.
StopHolds ==
  [][\A w \in Workers : pc[w] = "decide" /\ pc'[w] = "start" =>
       StartAttempts > 0 \/ \E t \in Threads \ {w} : Starting(t)]_vars

\* table.c:42 and the message at table.c:958, "attempt %u/%u": in one restart
\* period a service is restarted at most RESTART_LIMIT times.
RestartsLimited == restarts <= RestartLimit
=============================================================================
