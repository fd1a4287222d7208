----------------------------- MODULE Container -----------------------------
(***************************************************************************)
(* The container loader of the service manager (container.c): services of  *)
(* one group share a container process, started on demand or registered    *)
(* by itself, and are started and stopped in it by asynchronous calls.     *)
(*                                                                         *)
(* A step is a stretch of code under gContainerLock, one unlocked access   *)
(* of a reference count, or a step of the environment: the container's     *)
(* process, its answers, the service table.  The lock is held across steps *)
(* only by InvalidateContainer, which takes the services' entry locks; the *)
(* table holds an entry lock while a logging call is in the loader.        *)
(*                                                                         *)
(* A NULL pointer that is followed ends the service manager: the lock is   *)
(* then held for ever.                                                     *)
(***************************************************************************)
EXTENDS Integers, FiniteSets

CONSTANTS Services,    \* the services of the group
          Ids,         \* bound: the containers that can be created
          Null,        \* the NULL pointer
          MaxStarts,   \* bound: calls of ContainerStart that start something
          MaxFaults    \* bound: system and library calls that fail

ASSUME ContainerConstants ==
  /\ IsFiniteSet(Services) /\ IsFiniteSet(Ids) /\ Null \notin Ids
  /\ "crashed" \notin Ids /\ "crashed" # Null
  /\ MaxStarts \in Nat /\ MaxFaults \in Nat

VARIABLES
  state,       \* pInstance->State
  cont,        \* pInstance->pContainer
  link,        \* the container on whose list pInstance->Link is
  handle,      \* the container that gave out pInstance->pHandle
  calls,       \* start and stop calls that are not completed
  client,      \* where a client's refresh or logging call is
  target,      \* the service that the call is for
  phase,       \* the container's process and task
  refs,        \* pContainer->Refs
  read,        \* the count that ContainerTask has read for its last release
  hash,        \* the group's container in gpContainers
  unborn,      \* containers whose process could not be forked
  registered,  \* containers that registered themselves: no task, no peer
  deleted,     \* containers given to DeleteContainer
  direct,      \* the group is "direct": the container is lwsmd itself
  owner,       \* the container whose invalidation holds gContainerLock
  starts, faults,
  nulls,       \* history: who followed a NULL pContainer
  overtaken,   \* history: services to which a late completion was applied
  stuck,       \* history: services whose start or stop was not sent
  leaked       \* history: containers of whose count an update was lost

svcVars   == <<state, cont, link, handle, calls, client, target>>
procVars  == <<phase, refs, read, hash, unborn, registered, deleted>>
boundVars == <<starts, faults>>
ghostVars == <<overtaken, stuck, leaked>>
vars == <<svcVars, procVars, direct, owner, boundVars, nulls, ghostVars>>

States == {"STOPPED", "STARTING", "RUNNING", "STOPPING", "DEAD"}
\* "exited": the process is gone and the task does not know; "signalled": it has
\* a SIGCHLD to look at; "gone": it has seen it, and invalidates the container.
Phases == {"none", "created", "live", "exited", "signalled", "gone", "releasing", "over"}
Calls  == [svc : Services, kind : {"start", "stop"}, con : Ids]

TypeOK ==
  /\ state \in [Services -> States]
  /\ cont \in [Services -> Ids \cup {Null}] /\ link \in [Services -> Ids \cup {Null}]
  /\ handle \in [Services -> Ids \cup {Null}]
  /\ calls \subseteq Calls
  /\ client \in {"idle", "refresh", "entry", "sent"} /\ target \in Services \cup {Null}
  /\ phase \in [Ids -> Phases] /\ refs \in [Ids -> Nat] /\ read \in [Ids -> Nat]
  /\ hash \in Ids \cup {Null}
  /\ unborn \subseteq Ids /\ registered \subseteq Ids
  /\ deleted \subseteq Ids /\ direct \in BOOLEAN
  /\ owner \in Ids \cup {Null, "crashed"}
  /\ starts \in Nat /\ faults \in Nat
  /\ nulls \subseteq {"stop", "stopped", "refresh", "log"}
  /\ overtaken \subseteq Services /\ stuck \subseteq Services /\ leaked \subseteq Ids

Init ==
  /\ state = [s \in Services |-> "STOPPED"]
  /\ cont = [s \in Services |-> Null] /\ link = [s \in Services |-> Null]
  /\ handle = [s \in Services |-> Null] /\ calls = {}
  /\ client = "idle" /\ target = Null
  /\ phase = [c \in Ids |-> "none"] /\ refs = [c \in Ids |-> 0] /\ read = [c \in Ids |-> 0]
  /\ hash = Null /\ unborn = {} /\ registered = {} /\ deleted = {}
  /\ direct \in BOOLEAN /\ owner = Null
  /\ starts = 0 /\ faults = 0
  /\ nulls = {} /\ overtaken = {} /\ stuck = {} /\ leaked = {}

\* Containers with a ContainerTask that has not completed.
Tasks == IF direct THEN {} ELSE {c \in Ids \ registered : phase[c] \in {"created", "live", "exited", "signalled"}}

\* A NULL pContainer was followed under the lock.
Crash(who) ==
  /\ nulls' = nulls \cup {who} /\ owner' = "crashed"
  /\ UNCHANGED <<svcVars, procVars, direct, boundVars, stuck, leaked>>

-----------------------------------------------------------------------------
(* ReleaseContainer for a service: its effect on each variable.            *)

\* The service was the last one on the list of its container.
Empties(s) == cont[s] # Null /\ \A t \in Services \ {s} : link[t] # cont[s]

\* A container that was created on demand leaves the table when it empties.
HashAfter(s) == IF Empties(s) /\ cont[s] \notin registered /\ hash = cont[s] THEN Null ELSE hash

RefsAfter_NotDropped(s) == refs

RefsAfter_Twice(s) == IF cont[s] = Null THEN refs ELSE [refs EXCEPT ![cont[s]] = @ - 2]

RefsAfter(s) == IF cont[s] = Null THEN refs ELSE [refs EXCEPT ![cont[s]] = @ - 1]

DeletedAfter(s) ==
  IF cont[s] # Null /\ RefsAfter(s)[cont[s]] = 0 THEN deleted \cup {cont[s]} ELSE deleted

-----------------------------------------------------------------------------
(* ContainerStart, ContainerStop and their completions.                    *)

\* AcquireContainer: the group's container if there is one, or a new one.
Acquired(s) == IF HashAfter(s) # Null THEN {HashAfter(s)} ELSE {c \in Ids : phase[c] = "none"}

StartAllowed(s) == owner = Null /\ state[s] \in {"STOPPED", "DEAD"} /\ starts < MaxStarts

\* The service leaves its old container and joins c.
Join(s, c) ==
  LET isNew == phase[c] = "none"
  IN  /\ state' = [state EXCEPT ![s] = "STARTING"]
      /\ cont' = [cont EXCEPT ![s] = c] /\ link' = [link EXCEPT ![s] = c]
      /\ handle' = [handle EXCEPT ![s] = Null]
      /\ hash' = c
      /\ refs' = [RefsAfter(s) EXCEPT ![c] = IF isNew THEN (IF direct THEN 1 ELSE 2) ELSE @ + 1]
      /\ phase' = IF isNew THEN [phase EXCEPT ![c] = IF direct THEN "live" ELSE "created"] ELSE phase
      /\ deleted' = DeletedAfter(s)
      /\ starts' = starts + 1

ContainerStart(s) ==
  /\ StartAllowed(s)
  /\ \E c \in Acquired(s) :
       /\ Join(s, c)
       /\ calls' = calls \cup {[svc |-> s, kind |-> "start", con |-> c]}
  /\ UNCHANGED <<client, target, read, unborn, registered, direct, owner, faults, nulls, ghostVars>>

\* No call can be acquired from the session: the state stays STARTING.
ContainerStart_NoCall(s) ==
  /\ StartAllowed(s) /\ faults < MaxFaults
  /\ \E c \in Acquired(s) : Join(s, c)
  /\ faults' = faults + 1 /\ stuck' = stuck \cup {s}
  /\ UNCHANGED <<calls, client, target, read, unborn, registered, direct, owner, nulls, overtaken,
                 leaked>>

\* CreateContainer fails: the state stays STARTING, without a container.
ContainerStart_NoContainer(s) ==
  /\ StartAllowed(s) /\ HashAfter(s) = Null /\ faults < MaxFaults
  /\ state' = [state EXCEPT ![s] = "STARTING"]
  /\ cont' = [cont EXCEPT ![s] = Null] /\ link' = [link EXCEPT ![s] = Null]
  /\ handle' = [handle EXCEPT ![s] = Null]
  /\ hash' = HashAfter(s) /\ refs' = RefsAfter(s)
  /\ deleted' = DeletedAfter(s)
  /\ starts' = starts + 1 /\ faults' = faults + 1 /\ stuck' = stuck \cup {s}
  /\ UNCHANGED <<calls, client, target, phase, read, unborn, registered, direct, owner, nulls,
                 overtaken, leaked>>

\* How a call to container c can end: an answer may be delivered long after the
\* process that gave it has exited.  A container that was never forked holds both
\* ends of its socket until it is deleted.
Answers(c) ==
  IF phase[c] = "created" THEN {}
  ELSE IF c \in unborn THEN (IF c \in deleted THEN {"error"} ELSE {})
  ELSE {"ok", "error"}

\* The completion sets the state, whatever it is by now.
StartOvertaken(k, a) == cont[k.svc] # k.con \/ (a = "ok" /\ state[k.svc] # "STARTING")

ContainerStartComplete(k, a) ==
  /\ owner = Null /\ k \in calls /\ k.kind = "start" /\ a \in Answers(k.con)
  /\ calls' = calls \ {k}
  /\ state' = [state EXCEPT ![k.svc] = IF a = "ok" THEN "RUNNING" ELSE "DEAD"]
  /\ handle' = IF a = "ok" THEN [handle EXCEPT ![k.svc] = k.con] ELSE handle
  /\ overtaken' = IF StartOvertaken(k, a) THEN overtaken \cup {k.svc} ELSE overtaken
  /\ UNCHANGED <<cont, link, client, target, procVars, direct, owner, boundVars, nulls, stuck, leaked>>

\* ContainerStop and ContainerStart alike turn DEAD into STOPPED.
ContainerStop_Dead(s) ==
  /\ owner = Null /\ state[s] = "DEAD"
  /\ state' = [state EXCEPT ![s] = "STOPPED"]
  /\ UNCHANGED <<cont, link, handle, calls, client, target, procVars, direct, owner, boundVars, nulls,
                 ghostVars>>

ContainerStop(s) ==
  /\ owner = Null /\ state[s] = "RUNNING" /\ cont[s] # Null
  /\ state' = [state EXCEPT ![s] = "STOPPING"]
  /\ \/ /\ calls' = calls \cup {[svc |-> s, kind |-> "stop", con |-> cont[s]]}
        /\ UNCHANGED <<faults, stuck>>
     \/ /\ faults < MaxFaults /\ faults' = faults + 1 /\ stuck' = stuck \cup {s}
        /\ UNCHANGED calls
  /\ UNCHANGED <<cont, link, handle, client, target, procVars, direct, owner, starts, nulls, overtaken,
                 leaked>>

ContainerStop_Null(s) ==
  /\ owner = Null /\ state[s] = "RUNNING" /\ cont[s] = Null
  /\ Crash("stop") /\ UNCHANGED overtaken

\* The service leaves its container, which may be a newer one.
ContainerStopComplete(k, a) ==
  LET s == k.svc
  IN  /\ owner = Null /\ k \in calls /\ k.kind = "stop" /\ a \in Answers(k.con) /\ cont[s] # Null
      /\ calls' = calls \ {k}
      /\ state' = [state EXCEPT ![s] = IF a = "ok" THEN "STOPPED" ELSE "DEAD"]
      /\ cont' = [cont EXCEPT ![s] = Null] /\ link' = [link EXCEPT ![s] = Null]
      /\ handle' = [handle EXCEPT ![s] = Null]
      /\ hash' = HashAfter(s) /\ refs' = RefsAfter(s)
      /\ deleted' = DeletedAfter(s)
      /\ overtaken' = IF cont[s] # k.con THEN overtaken \cup {s} ELSE overtaken
      /\ UNCHANGED <<client, target, phase, read, unborn, registered, direct, owner, boundVars,
                     nulls, stuck, leaked>>

ContainerStopComplete_Null(k, a) ==
  /\ owner = Null /\ k \in calls /\ k.kind = "stop" /\ a \in Answers(k.con) /\ cont[k.svc] = Null
  /\ Crash("stopped") /\ overtaken' = overtaken \cup {k.svc}

-----------------------------------------------------------------------------
(* Refresh, logging and reconstruction, as the table calls them.           *)

Client(c, s) ==
  /\ client' = c /\ target' = s
  /\ UNCHANGED <<state, cont, link, handle, calls, procVars, direct, owner, boundVars, nulls, ghostVars>>

\* LwSmTableRefreshEntry polls the state and calls the loader without a lock.
PollRefresh(s) == owner = Null /\ client = "idle" /\ state[s] = "RUNNING" /\ Client("refresh", s)

ContainerRefresh ==
  /\ owner = Null /\ client = "refresh" /\ cont[target] # Null
  /\ Client("idle", Null)

ContainerRefresh_Null ==
  /\ owner = Null /\ client = "refresh" /\ cont[target] = Null
  /\ Crash("refresh") /\ UNCHANGED overtaken

\* The four logging calls: the table holds the entry's lock around them.
LogBegin(s) == client = "idle" /\ Client("entry", s)

EntryLocked(s) == client \in {"entry", "sent"} /\ target = s

ContainerSetLogInfo ==
  /\ owner = Null /\ client = "entry"
  /\ \/ state[target] # "RUNNING" /\ Client("idle", Null)
     \/ state[target] = "RUNNING" /\ cont[target] # Null /\ Client("sent", target)

ContainerSetLogInfo_Null_Unchecked ==
  /\ owner = Null /\ client = "entry" /\ cont[target] = Null
  /\ Crash("log") /\ UNCHANGED overtaken

ContainerSetLogInfo_Null ==
  /\ owner = Null /\ client = "entry" /\ state[target] = "RUNNING" /\ cont[target] = Null
  /\ Crash("log") /\ UNCHANGED overtaken

LogReturn == owner = Null /\ client = "sent" /\ Client("idle", Null)

\* ContainerDestruct and ContainerConstruct, for a service that was changed in
\* the registry: the instance is freed under the calls that refer to it.
Reconstruct(s) ==
  /\ state[s] \in {"STOPPED", "DEAD"} /\ owner # "crashed" /\ ~EntryLocked(s)
  /\ state' = [state EXCEPT ![s] = "STOPPED"]
  /\ cont' = [cont EXCEPT ![s] = Null] /\ link' = [link EXCEPT ![s] = Null]
  /\ handle' = [handle EXCEPT ![s] = Null]
  /\ calls' = {k \in calls : k.svc # s}
  /\ hash' = HashAfter(s) /\ refs' = RefsAfter(s)
  /\ deleted' = DeletedAfter(s)
  /\ overtaken' = IF calls' # calls THEN overtaken \cup {s} ELSE overtaken
  /\ UNCHANGED <<client, target, phase, read, unborn, registered, direct, owner, boundVars, nulls,
                 stuck, leaked>>

-----------------------------------------------------------------------------
(* ContainerTask, InvalidateContainer and registration.                    *)

Invalidate_ServicesNotTold(c) ==
  /\ owner' = owner
  /\ hash' = IF hash = c THEN Null ELSE hash
  /\ phase' = [phase EXCEPT ![c] = "gone"]

\* InvalidateContainer takes the lock and the container out of the table.
Invalidate(c) ==
  /\ owner' = c
  /\ hash' = IF hash = c THEN Null ELSE hash
  /\ phase' = [phase EXCEPT ![c] = "gone"]

\* The first run of the task forks the process and then asks for SIGCHLD: it
\* misses the signal of a process that has exited by then.
TaskInit(c) ==
  /\ owner = Null /\ c \in Tasks /\ phase[c] = "created"
  /\ \/ /\ phase' \in {[phase EXCEPT ![c] = p] : p \in {"live", "exited"}}
        /\ UNCHANGED <<hash, unborn, owner, faults>>
     \/ /\ faults < MaxFaults /\ faults' = faults + 1
        /\ unborn' = unborn \cup {c}
        /\ Invalidate(c)
  /\ UNCHANGED <<svcVars, refs, read, registered, deleted, direct, starts, nulls, ghostVars>>

\* Every task that has asked for it is told of a SIGCHLD, and looks for its own
\* process then.
Told == [c \in Ids |-> IF phase[c] = "exited" THEN "signalled" ELSE phase[c]]

\* The process exits, by itself or by the SIGTERM of a cancelled task.
ChildExits(c) ==
  /\ phase[c] = "live" /\ c \in Tasks
  /\ phase' = [Told EXCEPT ![c] = "signalled"]
  /\ UNCHANGED <<svcVars, refs, read, hash, unborn, registered, deleted, direct, owner, boundVars,
                 nulls, ghostVars>>

\* A child of another loader.
StrangerExits ==
  /\ Told # phase /\ phase' = Told
  /\ UNCHANGED <<svcVars, refs, read, hash, unborn, registered, deleted, direct, owner, boundVars,
                 nulls, ghostVars>>

TaskSignal(c) ==
  /\ owner = Null /\ c \in Tasks /\ phase[c] = "signalled"
  /\ Invalidate(c)
  /\ UNCHANGED <<svcVars, refs, read, unborn, registered, deleted, direct, boundVars, nulls, ghostVars>>

\* The next service on the list dies; its entry's lock is needed to say so.
InvalidateNext_Unlinked(s) ==
  /\ owner \in Ids /\ link[s] = owner /\ ~EntryLocked(s)
  /\ link' = [link EXCEPT ![s] = Null]
  /\ state' = IF state[s] = "STARTING" THEN state ELSE [state EXCEPT ![s] = "DEAD"]
  /\ UNCHANGED <<cont, handle, calls, client, target, procVars, direct, owner, boundVars, nulls,
                 ghostVars>>

InvalidateNext(s) ==
  /\ owner \in Ids /\ link[s] = owner /\ ~EntryLocked(s)
  /\ link' = [link EXCEPT ![s] = Null]
  /\ state' = [state EXCEPT ![s] = "DEAD"]
  /\ UNCHANGED <<cont, handle, calls, client, target, procVars, direct, owner, boundVars, nulls,
                 ghostVars>>

\* The lock is dropped; the registration's reference is dropped before that.
InvalidateDone ==
  /\ owner \in Ids /\ \A s \in Services : link[s] # owner
  /\ owner' = Null
  /\ IF owner \in registered
       THEN /\ refs' = [refs EXCEPT ![owner] = @ - 1]
            /\ deleted' = IF refs[owner] = 1 THEN deleted \cup {owner} ELSE deleted
            /\ phase' = [phase EXCEPT ![owner] = "over"]
       ELSE UNCHANGED <<refs, deleted, phase>>
  /\ UNCHANGED <<svcVars, read, hash, unborn, registered, direct, boundVars, nulls,
                 ghostVars>>

\* ReleaseContainer at the end of ContainerTask, without the lock: the count is
\* read and written back, and a release in between is lost.
TaskRelease(c) ==
  /\ phase[c] = "gone" /\ owner # c /\ c \notin registered
  /\ read' = [read EXCEPT ![c] = refs[c]]
  /\ phase' = [phase EXCEPT ![c] = "releasing"]
  /\ UNCHANGED <<svcVars, refs, hash, unborn, registered, deleted, direct, owner,
                 boundVars, nulls, ghostVars>>

TaskReleased(c) ==
  /\ phase[c] = "releasing"
  /\ refs' = [refs EXCEPT ![c] = read[c] - 1] /\ read' = [read EXCEPT ![c] = 0]
  /\ deleted' = IF read[c] = 1 THEN deleted \cup {c} ELSE deleted
  /\ leaked' = IF read[c] # refs[c] THEN leaked \cup {c} ELSE leaked
  /\ phase' = [phase EXCEPT ![c] = "over"]
  /\ UNCHANGED <<svcVars, hash, unborn, registered, direct, owner, boundVars, nulls,
                 overtaken, stuck>>

ContainerSrvRegister_Unchecked(c) ==
  /\ owner = Null /\ ~direct /\ phase[c] = "none"
  /\ registered' = registered \cup {c}
  /\ phase' = [phase EXCEPT ![c] = "live"] /\ refs' = [refs EXCEPT ![c] = 1]
  /\ hash' = c
  /\ UNCHANGED <<svcVars, read, unborn, deleted, direct, owner, boundVars, nulls, ghostVars>>

\* A process registers itself as the group's container, unless there is one.
ContainerSrvRegister(c) ==
  /\ owner = Null /\ ~direct /\ phase[c] = "none" /\ hash = Null
  /\ registered' = registered \cup {c}
  /\ phase' = [phase EXCEPT ![c] = "live"] /\ refs' = [refs EXCEPT ![c] = 1]
  /\ hash' = c
  /\ UNCHANGED <<svcVars, read, unborn, deleted, direct, owner, boundVars, nulls,
                 ghostVars>>

\* It is gone when the call it registered with is cancelled.
ContainerSrvRegisterCancel(c) ==
  /\ owner = Null /\ c \in registered /\ phase[c] = "live"
  /\ Invalidate(c)
  /\ UNCHANGED <<svcVars, refs, read, unborn, registered, deleted, direct, boundVars, nulls, ghostVars>>

-----------------------------------------------------------------------------
Completion(k, a) ==
  ContainerStartComplete(k, a) \/ ContainerStopComplete(k, a) \/ ContainerStopComplete_Null(k, a)

\* ContainerTask, from its wake-up to its end.
ContainerTask(c) == TaskInit(c) \/ TaskSignal(c) \/ TaskRelease(c) \/ TaskReleased(c)

Logging == ContainerSetLogInfo \/ ContainerSetLogInfo_Null \/ LogReturn

Next ==
  \/ \E s \in Services :
       \/ ContainerStart(s) \/ ContainerStart_NoCall(s) \/ ContainerStart_NoContainer(s)
       \/ ContainerStop_Dead(s) \/ ContainerStop(s) \/ ContainerStop_Null(s)
       \/ PollRefresh(s) \/ LogBegin(s) \/ Reconstruct(s) \/ InvalidateNext(s)
  \/ ContainerRefresh \/ ContainerRefresh_Null \/ Logging
  \/ \E k \in Calls, a \in {"ok", "error"} : Completion(k, a)
  \/ \E c \in Ids : \/ ContainerTask(c) \/ ChildExits(c)
                    \/ ContainerSrvRegister(c) \/ ContainerSrvRegisterCancel(c)
  \/ InvalidateDone \/ StrangerExits

Spec == Init /\ [][Next]_vars

\* Threads of the service manager are scheduled, and a call fails once the process
\* it was sent to has exited.  A live process owes no answer.
Fairness ==
  /\ WF_vars(\E k \in calls : phase[k.con] \in {"exited", "signalled"} /\ Completion(k, "error"))
  /\ \A c \in Ids : WF_vars(ContainerTask(c))
  /\ \A s \in Services : WF_vars(InvalidateNext(s))
  /\ WF_vars(InvalidateDone) /\ WF_vars(Logging)

FairSpec == Spec /\ Fairness

-----------------------------------------------------------------------------
(* Properties.                                                             *)

\* Services that are up or on their way, by the calls that were made for them
\* and not by a late completion.
InService == {s \in Services \ (overtaken \cup stuck) : state[s] \in {"STARTING", "RUNNING", "STOPPING"}}

\* A service is shown up only while its container is: it is on the list of a
\* container that has not been invalidated, and the handle that ContainerStop
\* will send was given out by that container.
ServiceHasContainer ==
  \A s \in InService :
    /\ cont[s] # Null /\ link[s] = cont[s] /\ cont[s] \notin deleted
    /\ phase[cont[s]] \in {"created", "live", "exited", "signalled"} \/ owner = cont[s]
    /\ state[s] # "STARTING" => handle[s] = cont[s]

\* The services of a group that are up share one container, across deaths of the
\* container, stops of its last service and registrations.
OneContainer == \A s, t \in InService : cont[s] = cont[t]

\* Refs is the number of services that point to the container, and one for its
\* task or registration, and DeleteContainer gets it when nobody is left.  Where the
\* unlocked release of ContainerTask overwrote another one the count is too high,
\* never too low: even then nothing that is deleted is in use.
RefsExact ==
  /\ \A c \in Ids \ leaked :
       /\ refs[c] = Cardinality({s \in Services : cont[s] = c})
                      + (IF ~direct /\ phase[c] \notin {"none", "over"} THEN 1 ELSE 0)
       /\ c \in deleted <=> refs[c] = 0 /\ phase[c] # "none"
  /\ \A c \in deleted : hash # c /\ \A s \in Services : cont[s] # c

\* The loader follows a NULL pContainer only where ContainerRefresh trusts a state
\* that the table polled before, or after a late completion.
NullOnlyByRefresh == nulls \subseteq {"refresh"} \/ overtaken # {}

\* A start or stop whose container does not live any more comes to an end: either
\* the call fails or the container is invalidated.  What can keep it is the cycle
\* of InvalidateContainer, which waits for the lock of an entry, and a logging
\* call, which holds that lock and waits for gContainerLock.
Orphan(s) == /\ s \in InService /\ state[s] # "RUNNING" /\ cont[s] # Null
             /\ phase[cont[s]] # "live"
LockCycle == \E s \in Services : EntryLocked(s) /\ owner \in Ids /\ link[s] = owner

OrphanEnds == \A s \in Services : Orphan(s) ~> (~Orphan(s) \/ LockCycle \/ owner = "crashed")
=============================================================================
