---------------------------- MODULE Dependencies ----------------------------
(***************************************************************************)
(* The order in which services are started and stopped: the dependency     *)
(* closures of table.c, and the four who work through them call by call,   *)
(* each in a thread or process of its own:                                 *)
(*   startup    the work item that starts what is marked for autostart,    *)
(*   shutdown   the work item queued by SIGTERM,                           *)
(*   watchdog   the work item queued for a service that died,              *)
(*   tool       lwsm start, stop and restart, which compute the closures   *)
(*              again in the client's process.                             *)
(* None of them holds a lock from one call to the next.  One call of       *)
(* LwSmTableStartEntry or LwSmTableStopEntry is one step here: what it     *)
(* does to its entry is the subject of ServiceTable.                       *)
(***************************************************************************)
EXTENDS Integers, Sequences, SequencesExt, FiniteSets

CONSTANTS N,           \* bound: the number of services
          MaxEvents    \* bound: runs of the lwsm tool, deaths of services, starts and
                       \* stops that fail, and a SIGTERM during startup, together

ASSUME DependenciesConstants == N \in Nat /\ MaxEvents \in Nat

\* Services are numbered in the order of gServiceTable.entries.
Services == 1 .. N
All      == [i \in Services |-> i]

Threads == {"startup", "shutdown", "watchdog", "tool"}

VARIABLES
  deps,        \* pInfo->ppwszDependencies of each service
  state,       \* what pfnGetStatus says
  watched,     \* services with StartAttempts > 0
  queued,      \* services for which a watchdog work item is queued
  plan,        \* the calls that a thread has yet to make for one service
  rest,        \* the services that a thread has yet to make a plan for
  noted,       \* pStatus[] of LwSmRestart: the places where it saw RUNNING
  stage,       \* where the watchdog item is
  stopping,    \* where the shutdown is
  events,
  died,        \* history: services that died
  failed,      \* history: services that could not be stopped
  late,        \* history: services started since the shutdown began
  mixed        \* history: a start and a stop were under way at once

historyVars == <<died, failed, late, mixed>>
svcVars     == <<state, watched, queued>>
vars == <<deps, svcVars, plan, rest, noted, stage, stopping, events, historyVars>>

-----------------------------------------------------------------------------
(* The closures.                                                           *)

\* LwSmTableGetEntryDependencyClosureHelper for service s: its loop over the names,
\* where `below' is what the recursive calls do.  A service follows what it needs,
\* and is listed once.
AppendOnce(list, d) == IF d \in Range(list) THEN list ELSE Append(list, d)

ClosureLoop_BeforeItsOwn(below, s, list) ==
  LET after[i \in 0 .. Len(deps[s])] ==
        IF i = 0 THEN list ELSE below[deps[s][i]][AppendOnce(after[i - 1], deps[s][i])]
  IN  after[Len(deps[s])]

ClosureLoop(below, s, list) ==
  LET after[i \in 0 .. Len(deps[s])] ==
        IF i = 0 THEN list ELSE AppendOnce(below[deps[s][i]][after[i - 1]], deps[s][i])
  IN  after[Len(deps[s])]

ClosureHelper[s \in Services] == [list \in Seq(Services) |-> ClosureLoop(ClosureHelper, s, list)]

DependencyClosure(s) == ClosureHelper[s][<<>>]

\* LwSmTableGetEntryReverseDependencyClosureHelper: the same, upwards, over all the
\* services; a service is listed once for every path that leads to it.
ReverseLoop(above, s, list) ==
  LET after[i \in 0 .. N] ==
        IF i = 0 THEN list
        ELSE IF s \in Range(deps[i]) THEN Append(above[i][after[i - 1]], i) ELSE after[i - 1]
  IN  after[N]

ReverseHelper[s \in Services] == [list \in Seq(Services) |-> ReverseLoop(ReverseHelper, s, list)]

ReverseDependencyClosure(s) == ReverseHelper[s][<<>>]

-----------------------------------------------------------------------------
(* The calls that a thread makes for one service, in their order.          *)

Step == [op : {"start", "stop", "restore"}, svc : Services, at : Nat]

Steps(op, list) == [i \in DOMAIN list |-> [op |-> op, svc |-> list[i], at |-> i]]

\* LwSmTableStartRecursive, StartService and lwsm start.
StartPlan(s) == Steps("start", Append(DependencyClosure(s), s))

\* LwSmShutdownService and lwsm stop.
StopPlan(s) == Steps("stop", Append(ReverseDependencyClosure(s), s))

\* lwsm restart: stop, start, and bring back in reverse what was running.
RestartPlan_SameOrder(s) == StopPlan(s) \o StartPlan(s) \o Steps("restore", ReverseDependencyClosure(s))

RestartPlan(s) ==
  StopPlan(s) \o StartPlan(s) \o Reverse(Steps("restore", ReverseDependencyClosure(s)))

-----------------------------------------------------------------------------
\* The registry is read without a check for cycles; the closures end only
\* where there is none.
Acyclic(d) == \A S \in (SUBSET Services) \ {{}} : \E t \in S : Range(d[t]) \cap S = {}

\* A service names each of its dependencies once, in any order.
NameLists == {list \in SeqOf(Services, N) : IsInjective(list)}

Init ==
  /\ deps \in {d \in [Services -> NameLists] : Acyclic(d)}
  /\ state = [s \in Services |-> "STOPPED"] /\ watched = {} /\ queued = {}
  /\ plan = [t \in Threads |-> <<>>]
  /\ rest = [t \in Threads |-> IF t = "startup" THEN All ELSE <<>>]
  /\ noted = {} /\ stage = "idle" /\ stopping = "no"
  /\ events = 0
  /\ died = {} /\ failed = {} /\ late = {} /\ mixed = FALSE

Event == events < MaxEvents /\ events' = events + 1

\* A call of one kind is made while another thread is about to do the opposite.
Opposed(t, op) ==
  \E u \in Threads \ {t} : \E st \in Range(plan[u]) : (st.op = "stop") # (op = "stop")

\* The thread that gave up a plan: the watchdog ends with its own service.
Abandon(t) ==
  /\ plan' = [plan EXCEPT ![t] = <<>>]
  /\ stage' = IF t = "watchdog" /\ stage = "restart" THEN "idle" ELSE stage

-----------------------------------------------------------------------------
(* LwSmTableStartEntry and LwSmTableStopEntry, as the next step of a plan. *)

Current(t) == Head(plan[t])

Advance(t) == plan' = [plan EXCEPT ![t] = Tail(@)] /\ UNCHANGED stage

\* A start that was asked for, or a service that LwSmRestart saw running.
ToStart(t) ==
  /\ plan[t] # <<>>
  /\ Current(t).op = "start" \/ (Current(t).op = "restore" /\ Current(t).at \in noted)

StartSucceeds(t) ==
  /\ ToStart(t)
  /\ LET s == Current(t).svc
     IN  /\ state' = [state EXCEPT ![s] = "RUNNING"] /\ watched' = watched \cup {s}
         /\ late' = IF stopping # "no" /\ state[s] # "RUNNING" THEN late \cup {s} ELSE late
  /\ mixed' = (mixed \/ Opposed(t, "start"))
  /\ Advance(t)
  /\ UNCHANGED <<deps, queued, rest, noted, stopping, events, died, failed>>

\* The service is dead, or nothing was started at all; the plan is given up.
StartFails(t) ==
  /\ ToStart(t) /\ state[Current(t).svc] # "RUNNING"
  /\ LET s == Current(t).svc
     IN  /\ state' \in {state, [state EXCEPT ![s] = "DEAD"]} /\ watched' = watched \ {s}
         /\ late' = IF stopping # "no" THEN late \cup {s} ELSE late
  /\ Event
  /\ mixed' = (mixed \/ Opposed(t, "start"))
  /\ Abandon(t)
  /\ UNCHANGED <<deps, queued, rest, noted, stopping, died, failed>>

RestoreSkipped(t) ==
  /\ plan[t] # <<>> /\ Current(t).op = "restore" /\ Current(t).at \notin noted
  /\ Advance(t)
  /\ UNCHANGED <<deps, svcVars, rest, noted, stopping, events, historyVars>>

ToStop(t) == plan[t] # <<>> /\ Current(t).op = "stop"

\* LwSmRestart notes what each place of its list was before the stop.
Noted(t) == IF t = "tool" /\ state[Current(t).svc] = "RUNNING" THEN noted \cup {Current(t).at} ELSE noted

StopSucceeds(t) ==
  /\ ToStop(t)
  /\ LET s == Current(t).svc
     IN  /\ state' = [state EXCEPT ![s] = "STOPPED"]
         /\ watched' = IF state[s] = "STOPPED" THEN watched ELSE watched \ {s}
  /\ noted' = Noted(t)
  /\ mixed' = (mixed \/ Opposed(t, "stop"))
  /\ Advance(t)
  /\ UNCHANGED <<deps, queued, rest, stopping, events, died, failed, late>>

StopFails(t) ==
  /\ ToStop(t) /\ state[Current(t).svc] # "STOPPED"
  /\ LET s == Current(t).svc
     IN  /\ state' \in {state, [state EXCEPT ![s] = "DEAD"]} /\ watched' = watched \ {s}
         /\ failed' = failed \cup {s}
  /\ Event
  /\ mixed' = (mixed \/ Opposed(t, "stop"))
  /\ Abandon(t)
  /\ UNCHANGED <<deps, queued, rest, noted, stopping, died, late>>

-----------------------------------------------------------------------------
(* The threads.                                                            *)

\* Thread t takes up the next service of its list with the plan p.
Take(t, p) == plan' = [plan EXCEPT ![t] = p] /\ rest' = [rest EXCEPT ![t] = Tail(@)]

Between(t) == plan[t] = <<>> /\ rest[t] # <<>>

\* LwSmAutostartServices, for a service with bAutostart or one without, or whose
\* closure fails; what fails for one service is ignored for the next.
LwSmAutostartServices ==
  /\ Between("startup")
  /\ \E p \in {StartPlan(Head(rest["startup"])), <<>>} : Take("startup", p)
  /\ UNCHANGED <<deps, svcVars, noted, stage, stopping, events, historyVars>>

\* MainTask queues Shutdown as an item of its own, whether Startup has ended or not.
MainTask ==
  /\ stopping = "no"
  /\ IF plan["startup"] = <<>> /\ rest["startup"] = <<>> THEN UNCHANGED events ELSE Event
  /\ stopping' = "going" /\ rest' = [rest EXCEPT !["shutdown"] = All]
  /\ UNCHANGED <<deps, svcVars, plan, noted, stage, historyVars>>

LwSmShutdownServices_GivesUp ==
  /\ Between("shutdown")
  /\ IF failed = {} THEN Take("shutdown", StopPlan(Head(rest["shutdown"])))
                    ELSE rest' = [rest EXCEPT !["shutdown"] = <<>>] /\ UNCHANGED plan
  /\ UNCHANGED <<deps, svcVars, noted, stage, stopping, events, historyVars>>

\* LwSmShutdownServices: "Ignore errors and try to shut down everything we can".
LwSmShutdownServices ==
  /\ Between("shutdown")
  /\ Take("shutdown", StopPlan(Head(rest["shutdown"])))
  /\ UNCHANGED <<deps, svcVars, noted, stage, stopping, events, historyVars>>

ShutdownOver ==
  /\ stopping = "going" /\ plan["shutdown"] = <<>> /\ rest["shutdown"] = <<>>
  /\ stopping' = "done"
  /\ UNCHANGED <<deps, svcVars, plan, rest, noted, stage, events, historyVars>>

\* A service dies; the watchdog hears of it unless it is off or its queue full.
Dies(s) ==
  /\ state[s] = "RUNNING"
  /\ state' = [state EXCEPT ![s] = "DEAD"] /\ Event /\ died' = died \cup {s}
  /\ queued' \in {queued, IF s \in watched THEN queued \cup {s} ELSE queued}
  /\ UNCHANGED <<deps, watched, plan, rest, noted, stage, stopping, failed, late, mixed>>

\* LwSmTableWatchdog: the service and what it needs are started ...
LwSmTableWatchdog(s) ==
  /\ stage = "idle" /\ s \in queued
  /\ queued' = queued \ {s}
  /\ plan' = [plan EXCEPT !["watchdog"] = StartPlan(s)]
  /\ rest' = [rest EXCEPT !["watchdog"] = ReverseDependencyClosure(s)]
  /\ stage' = "restart"
  /\ UNCHANGED <<deps, state, watched, noted, stopping, events, historyVars>>

\* ... and then what needs it, where that is found dead.
WatchdogLooks ==
  /\ stage # "idle" /\ Between("watchdog")
  /\ LET s == Head(rest["watchdog"])
     IN  Take("watchdog", IF state[s] = "DEAD" THEN StartPlan(s) ELSE <<>>)
  /\ stage' = "look"
  /\ UNCHANGED <<deps, svcVars, noted, stopping, events, historyVars>>

WatchdogOver ==
  /\ stage # "idle" /\ plan["watchdog"] = <<>> /\ rest["watchdog"] = <<>>
  /\ stage' = "idle"
  /\ UNCHANGED <<deps, svcVars, plan, rest, noted, stopping, events, historyVars>>

\* A run of the tool; the IPC server listens until the shutdown is over.
Tool(p) ==
  /\ plan["tool"] = <<>> /\ stopping # "done"
  /\ Event /\ noted' = {}
  /\ plan' = [plan EXCEPT !["tool"] = p]
  /\ UNCHANGED <<deps, svcVars, rest, stage, stopping, historyVars>>

LwSmStart(s)   == Tool(StartPlan(s))
LwSmStop(s)    == Tool(StopPlan(s))
LwSmRestart(s) == Tool(RestartPlan(s))

Next ==
  \/ \E t \in Threads : \/ StartSucceeds(t) \/ StartFails(t) \/ RestoreSkipped(t)
                        \/ StopSucceeds(t) \/ StopFails(t)
  \/ \E s \in Services : \/ Dies(s) \/ LwSmTableWatchdog(s)
                         \/ LwSmStart(s) \/ LwSmStop(s) \/ LwSmRestart(s)
  \/ LwSmAutostartServices \/ MainTask \/ LwSmShutdownServices \/ ShutdownOver
  \/ WatchdogLooks \/ WatchdogOver

Spec == Init /\ [][Next]_vars

-----------------------------------------------------------------------------
(* Properties.                                                             *)

\* What a service needs, directly or not.
Needs(s) ==
  {n \in Services : \A S \in SUBSET Services :
     Range(deps[s]) \subseteq S /\ (\A t \in S : Range(deps[t]) \subseteq S) => n \in S}

FirstAt(list, s) == CHOOSE i \in DOMAIN list : list[i] = s /\ \A j \in 1 .. i - 1 : list[j] # s

\* The closures list exactly what a service needs, each name once, after all that
\* it needs itself; and exactly what needs the service, a name's first place being
\* after the first places of all that need it.  The dependencies stay as they are
\* at startup, so it is enough to look before a service is taken up.
ClosuresExact ==
  rest["startup"] = All => \A s \in Services :
    LET c == DependencyClosure(s)
        r == ReverseDependencyClosure(s)
    IN  /\ Range(c) = Needs(s) /\ IsInjective(c)
        /\ \A t \in Needs(s) : \A d \in Range(deps[t]) : FirstAt(c, d) < FirstAt(c, t)
        /\ Range(r) = {t \in Services : s \in Needs(t)}
        /\ \A t, u \in Range(r) : t \in Range(deps[u]) => FirstAt(r, u) < FirstAt(r, t)

\* A service does not run without what it needs, unless that died by itself or two
\* threads worked against each other: through starts and stops that fail half-way,
\* a shutdown that goes on after errors, and lwsm restart, which goes backwards
\* through a list that may name a service twice.
UpNeedsDeps ==
  mixed \/ \A s \in Services : state[s] = "RUNNING" =>
              \A d \in Range(deps[s]) : d \in died \/ state[d] = "RUNNING"

\* When the shutdown is over a service is stopped, whatever died or failed before,
\* unless it or one that needs it could not be stopped, or somebody (startup, the
\* watchdog, a client) started it since SIGTERM.
ShutdownComplete ==
  stopping = "done" =>
    \A s \in Services : \/ state[s] = "STOPPED" \/ s \in late
                        \/ \E t \in failed : t = s \/ s \in Needs(t)
=============================================================================
