----------------------------- MODULE Executable -----------------------------
(***************************************************************************)
(* The executable loader of the service manager (lwsm/server/executable.c) *)
(* for one service object: the object's fields, the child processes it     *)
(* forked, the thread-pool task that watches the current child, and the    *)
(* way the pool (lwbase/src/threadpool-*.c) hands SIGCHLD and the          *)
(* readiness pipe to that task.                                            *)
(*                                                                         *)
(* Every operation of the loader runs under gProcTable.lock and is one     *)
(* step.  Child processes, the kernel's pending-signal set and the pool's  *)
(* signal dispatcher move between those steps.  Children are numbered in   *)
(* the order they are forked; a child's number is its pid, its pipe and    *)
(* its task.                                                               *)
(***************************************************************************)
EXTENDS Integers, FiniteSets

CONSTANTS Type,          \* pInfo->type: "EXECUTABLE" or "LEGACY_EXECUTABLE"
          MaxLaunches,   \* bound: forks of the service
          MaxFaults,     \* bound: failing system or pool calls
          MaxStrangers   \* bound: exits of other services' children

ASSUME ExecutableConstants ==
  /\ Type \in {"EXECUTABLE", "LEGACY_EXECUTABLE"}
  /\ MaxLaunches \in Nat /\ MaxFaults \in Nat /\ MaxStrangers \in Nat

Launches == 1..MaxLaunches

\* -1 as a pid or as a file descriptor.
None == -1

VARIABLES
  state,      \* pExec->state
  pid,        \* pExec->pid
  notifyFd,   \* pExec->notifyFd: the child whose pipe it reads, or None
  announced,  \* the last state given to LwSmNotifyServiceObjectStateChange
  launches,   \* children forked so far
  child,      \* child[k]: the process as the kernel sees it
  wrote,      \* wrote[k]: what the child put in its readiness pipe
  inbox,      \* inbox[k]: signals the child was sent
  task,       \* task[k]: phase of LwSmExecutableTask for child k
  fdWait,     \* fdWait[k]: LW_TASK_EVENT_FD_READABLE is in the wait mask
  siginfo,    \* siginfo[k]: pTask->pUnixSignal->si_signo is set
  sigEvent,   \* sigEvent[k]: LW_TASK_EVENT_UNIX_SIGNAL is in EventSignal
  sigchld,    \* SIGCHLD is pending for the process
  dispatch,   \* tasks DispatchSignal still has to notify of a SIGCHLD
  faults,     \* failed calls so far
  strangers,  \* exits of other children so far
  misfire     \* a kill() or waitpid() hit something other than its own child

objVars  == <<state, pid, notifyFd, announced>>
procVars == <<launches, child, wrote, inbox>>
taskVars == <<task, fdWait, siginfo, sigEvent>>
poolVars == <<sigchld, dispatch>>
vars == <<objVars, procVars, taskVars, poolVars, faults, strangers, misfire>>

ServiceStates == {"RUNNING", "STOPPED", "STARTING", "STOPPING", "PAUSED", "DEAD"}

TypeOK ==
  /\ state \in ServiceStates \ {"PAUSED"}
  /\ announced \in ServiceStates
  /\ pid \in Launches \cup {None}
  /\ notifyFd \in Launches \cup {None}
  /\ launches \in 0..MaxLaunches
  /\ child \in [Launches -> {"unborn", "alive", "zombie", "reaped"}]
  /\ wrote \in [Launches -> {"nothing", "zero", "other"}]
  /\ inbox \in [Launches -> SUBSET {"TERM", "HUP"}]
  /\ task \in [Launches -> {"none", "new", "waiting", "complete"}]
  /\ fdWait \in [Launches -> BOOLEAN]
  /\ siginfo \in [Launches -> BOOLEAN]
  /\ sigEvent \in [Launches -> BOOLEAN]
  /\ sigchld \in BOOLEAN
  /\ dispatch \subseteq Launches
  /\ faults \in 0..MaxFaults
  /\ strangers \in 0..MaxStrangers
  /\ misfire \in BOOLEAN

\* Forked and not yet waited for: the kernel keeps the pid for this child.
Unreaped == {k \in Launches : child[k] \in {"alive", "zombie"}}

\* A task the pool may still run.
Active(k) == task[k] \in {"new", "waiting"}

Init ==
  /\ state = "STOPPED" /\ announced = "STOPPED"
  /\ pid = None /\ notifyFd = None
  /\ launches = 0
  /\ child = [k \in Launches |-> "unborn"]
  /\ wrote = [k \in Launches |-> "nothing"]
  /\ inbox = [k \in Launches |-> {}]
  /\ task = [k \in Launches |-> "none"]
  /\ fdWait = [k \in Launches |-> FALSE]
  /\ siginfo = [k \in Launches |-> FALSE]
  /\ sigEvent = [k \in Launches |-> FALSE]
  /\ sigchld = FALSE /\ dispatch = {}
  /\ faults = 0 /\ strangers = 0 /\ misfire = FALSE

-----------------------------------------------------------------------------
(* Calls that may fail, and the two ways of touching a child by its pid.   *)

Fault == faults < MaxFaults /\ faults' = faults + 1

\* LwSmNotifyServiceObjectStateChange, the upcall into the service table.
Notify_NotStopping(s) == announced' = IF s = "STOPPING" THEN announced ELSE s
Notify(s) == announced' = s

\* kill(pExec->pid, sig): pid -1 would signal every process of the machine,
\* a reaped pid whoever the kernel gave it to.
Kill(sig) ==
  /\ misfire' = (misfire \/ pid \notin Unreaped)
  /\ inbox' = [k \in Launches |-> IF k = pid THEN inbox[k] \cup {sig} ELSE inbox[k]]

-----------------------------------------------------------------------------
(* The loader's operations.                                                *)

\* pfnStart refuses a service that is up or on its way.
StartAllowed_Unguarded == state \in {"STOPPED", "DEAD", "STARTING"}
StartAllowed == state \in {"STOPPED", "DEAD"}

\* fork() (or, for an lwsm-aware executable, pipe()) fails: the object is
\* left dead and nobody is told; STARTING is what was announced last.
\* (The one-second nanosleep that gives a legacy executable time to start can
\* fail only when a signal handler interrupts it, and lwsmd blocks signals.)
LwSmExecutableStart_ForkFails ==
  /\ StartAllowed
  /\ Fault
  /\ pid' = None
  /\ state' = "DEAD"
  /\ Notify("STARTING")
  /\ UNCHANGED <<notifyFd, procVars, taskVars, poolVars, strangers, misfire>>

\* The read side of child k's pipe, when it has one.
NotifyPipe_KeepsOld(k) == IF notifyFd # None THEN notifyFd
                          ELSE IF Type = "EXECUTABLE" THEN k ELSE None
NotifyPipe(k) == IF Type = "EXECUTABLE" THEN k ELSE None

\* The child is forked; for an lwsm-aware executable the read side of the
\* pipe becomes notifyFd.  The task that is to watch the child is created
\* and woken, or its creation fails and the child is left without one.
LwSmExecutableStart ==
  /\ StartAllowed
  /\ launches < MaxLaunches
  /\ LET k == launches + 1 IN
     /\ launches' = k
     /\ pid' = k
     /\ state' = "STARTING"
     /\ Notify("STARTING")
     /\ notifyFd' = NotifyPipe(k)
     /\ child' = [child EXCEPT ![k] = "alive"]
     /\ \/ task' = [task EXCEPT ![k] = "new"] /\ UNCHANGED faults
        \/ Fault /\ UNCHANGED task
  /\ UNCHANGED <<wrote, inbox, fdWait, siginfo, sigEvent, poolVars, strangers, misfire>>

LwSmExecutableStop_Running_Early ==
  /\ state = "RUNNING"
  /\ state' = "STOPPED"
  /\ Notify("STOPPED")
  /\ Kill("TERM")
  /\ UNCHANGED <<pid, notifyFd, launches, child, wrote, taskVars, poolVars, faults, strangers>>

\* A running service is told to terminate; its task will see it exit.
LwSmExecutableStop_Running ==
  /\ state = "RUNNING"
  /\ state' = "STOPPING"
  /\ Notify("STOPPING")
  /\ Kill("TERM")
  /\ UNCHANGED <<pid, notifyFd, launches, child, wrote, taskVars, poolVars, faults, strangers>>

\* A dead service goes directly to the stopped state.  LwRtlCancelTask does
\* nothing to a task that is complete, see NoTaskWhenDown.
LwSmExecutableStop_Dead ==
  /\ state = "DEAD"
  /\ state' = "STOPPED"
  /\ Notify("STOPPED")
  /\ UNCHANGED <<pid, notifyFd, procVars, taskVars, poolVars, faults, strangers, misfire>>

LwSmExecutableRefresh ==
  /\ state = "RUNNING"
  /\ Kill("HUP")
  /\ UNCHANGED <<objVars, launches, child, wrote, taskVars, poolVars, faults, strangers>>

\* LwSmTableReconstructEntry: pfnDestruct of the old object, pfnConstruct of
\* the new one.  The loader's side of the contract: only of a service that
\* is down.
Reconstruct ==
  /\ StartAllowed
  /\ state' = "STOPPED"
  /\ pid' = None
  /\ notifyFd' = None
  /\ UNCHANGED <<announced, procVars, taskVars, poolVars, faults, strangers, misfire>>

-----------------------------------------------------------------------------
(* LwSmExecutableTask, one action per way through it.                      *)

\* The error label: the service is dead, and a child that is still there is
\* killed and waited for.  The wait for a killed child raises SIGCHLD.
TaskError(k) ==
  /\ state' = "DEAD"
  /\ Notify("DEAD")
  /\ child' = [j \in Launches |->
                 IF j = pid /\ j \in Unreaped THEN "reaped" ELSE child[j]]
  /\ sigchld' = (sigchld \/ (pid \in Launches /\ child[pid] = "alive"))
  /\ pid' = None
  /\ misfire' = (misfire \/ (pid # None /\ pid # k))
  /\ task' = [task EXCEPT ![k] = "complete"]

\* LW_TASK_EVENT_INIT: subscribe to SIGCHLD, wait for the pipe if there is one.
TaskInit(k) ==
  /\ task[k] = "new"
  /\ \/ /\ task' = [task EXCEPT ![k] = "waiting"]
        /\ fdWait' = [fdWait EXCEPT ![k] = notifyFd # None]
        /\ UNCHANGED <<state, pid, announced, child, sigchld, misfire, faults>>
     \/ Fault /\ TaskError(k) /\ UNCHANGED fdWait
  /\ UNCHANGED <<notifyFd, launches, wrote, inbox, siginfo, sigEvent, dispatch, strangers>>

FdReady_NoHangup(k) == fdWait[k] /\ notifyFd # None /\ wrote[notifyFd] # "nothing"
\* EPOLLIN or EPOLLHUP on the pipe: the child wrote to it or closed it.
FdReady(k) ==
  /\ fdWait[k]
  /\ notifyFd # None
  /\ wrote[notifyFd] # "nothing" \/ child[notifyFd] # "alive"

\* RunTask clears all events it handed to the task.  LW_TASK_EVENT_FD_READABLE
\* is looked at before LW_TASK_EVENT_UNIX_SIGNAL, so when ScheduleWaitingTasks
\* and ScheduleSignalled raise both in one round of the event loop (withSignal)
\* the signal event is dropped, and its siginfo stays in the task.
DropSignal(k, withSignal) ==
  /\ withSignal => sigEvent[k]
  /\ sigEvent' = [sigEvent EXCEPT ![k] = @ /\ ~withSignal]

\* LW_TASK_EVENT_FD_READABLE, the child reports that it is up.
TaskReady(k, withSignal) ==
  /\ task[k] = "waiting" /\ FdReady(k)
  /\ wrote[notifyFd] = "zero"
  /\ DropSignal(k, withSignal)
  /\ notifyFd' = None
  /\ fdWait' = [fdWait EXCEPT ![k] = FALSE]
  /\ state' = "RUNNING"
  /\ Notify("RUNNING")
  /\ UNCHANGED <<pid, procVars, task, siginfo, poolVars, faults, strangers, misfire>>

\* LW_TASK_EVENT_FD_READABLE, and a byte other than 0, end of file, or an
\* error taking the pipe out of the epoll set.
TaskNotReady(k, withSignal) ==
  /\ task[k] = "waiting" /\ FdReady(k)
  /\ \/ wrote[notifyFd] # "zero" /\ UNCHANGED faults
     \/ wrote[notifyFd] = "zero" /\ Fault
  /\ DropSignal(k, withSignal)
  /\ TaskError(k)
  /\ UNCHANGED <<notifyFd, launches, wrote, inbox, fdWait, siginfo, dispatch, strangers>>

\* waitpid(pExec->pid, WNOHANG) returns pExec->pid.
Exited_OnlyExpected == pid \in Launches /\ child[pid] = "zombie" /\ state = "STOPPING"
Exited == pid \in Launches /\ child[pid] = "zombie"

\* What an exit means: expected while STOPPING, otherwise "Uh-oh" and the error
\* label, which finds no child left to kill.
AfterExit_Ignored == IF state = "STOPPING" THEN "STOPPED" ELSE state
AfterExit_AlwaysDead == "DEAD"
AfterExit_Paused == IF state = "STOPPING" THEN "STOPPED" ELSE "PAUSED"
AfterExit == IF state = "STOPPING" THEN "STOPPED" ELSE "DEAD"

\* LW_TASK_EVENT_UNIX_SIGNAL: the siginfo is consumed, and the task asks
\* whether the SIGCHLD was for its child or for somebody else's.
TaskSignal(k) ==
  /\ task[k] = "waiting" /\ sigEvent[k]
  /\ sigEvent' = [sigEvent EXCEPT ![k] = FALSE]
  /\ siginfo' = [siginfo EXCEPT ![k] = FALSE]
  /\ \/ ~Exited /\ UNCHANGED <<state, pid, announced, child, task>>
     \/ /\ Exited
        /\ child' = [child EXCEPT ![pid] = "reaped"]
        /\ pid' = None
        /\ state' = AfterExit
        /\ Notify(AfterExit)
        /\ task' = [task EXCEPT ![k] = "complete"]
  /\ misfire' = (misfire \/ pid # k)
  /\ UNCHANGED <<notifyFd, launches, wrote, inbox, fdWait, sigchld, dispatch, faults, strangers>>

-----------------------------------------------------------------------------
(* The pool's signal dispatcher (LwRtlMain, DispatchSignal).               *)

\* sigwaitinfo returns SIGCHLD; DispatchSignal copies the subscriber list.
TakeSignal ==
  /\ sigchld /\ dispatch = {}
  /\ sigchld' = FALSE
  /\ dispatch' = {k \in Launches : task[k] = "waiting"}
  /\ UNCHANGED <<objVars, procVars, taskVars, faults, strangers, misfire>>

\* NotifyTaskUnixSignal: skipped for a complete task, otherwise it waits until
\* the task has consumed the previous siginfo.
DeliverSignal(k) ==
  /\ k \in dispatch
  /\ \/ /\ task[k] = "complete"
        /\ UNCHANGED <<siginfo, sigEvent>>
     \/ /\ task[k] # "complete" /\ ~siginfo[k]
        /\ siginfo' = [siginfo EXCEPT ![k] = TRUE]
        /\ sigEvent' = [sigEvent EXCEPT ![k] = TRUE]
  /\ dispatch' = dispatch \ {k}
  /\ UNCHANGED <<objVars, procVars, task, fdWait, sigchld, faults, strangers, misfire>>

-----------------------------------------------------------------------------
(* The children.                                                           *)

\* An lwsm-aware child holds fd 3 (LIKEWISE_SM_NOTIFY) and writes one byte.
ChildWrites(k, what) ==
  /\ Type = "EXECUTABLE" /\ child[k] = "alive" /\ wrote[k] = "nothing"
  /\ wrote' = [wrote EXCEPT ![k] = what]
  /\ UNCHANGED <<objVars, launches, child, inbox, taskVars, poolVars, faults, strangers, misfire>>

\* exit, crash, failed exec or death by signal.
ChildExits(k) ==
  /\ child[k] = "alive"
  /\ child' = [child EXCEPT ![k] = "zombie"]
  /\ sigchld' = TRUE
  /\ UNCHANGED <<objVars, launches, wrote, inbox, taskVars, dispatch, faults, strangers, misfire>>

\* A child of another service exits: the same SIGCHLD.
StrangerExits ==
  /\ strangers < MaxStrangers
  /\ strangers' = strangers + 1
  /\ sigchld' = TRUE
  /\ UNCHANGED <<objVars, procVars, taskVars, dispatch, faults, misfire>>

-----------------------------------------------------------------------------
LoaderNext == \/ LwSmExecutableStart \/ LwSmExecutableStart_ForkFails
              \/ LwSmExecutableStop_Running \/ LwSmExecutableStop_Dead
              \/ LwSmExecutableRefresh \/ Reconstruct

LwSmExecutableTask(k) ==
  \/ TaskInit(k) \/ TaskSignal(k)
  \/ \E withSignal \in BOOLEAN : TaskReady(k, withSignal) \/ TaskNotReady(k, withSignal)

ChildNext(k) == ChildExits(k) \/ \E what \in {"zero", "other"} : ChildWrites(k, what)

Next == \/ LoaderNext
        \/ \E k \in Launches : LwSmExecutableTask(k) \/ DeliverSignal(k) \/ ChildNext(k)
        \/ TakeSignal
        \/ StrangerExits

Spec == Init /\ [][Next]_vars

\* The pool runs a task that has events and the main thread sits in
\* sigwaitinfo; a child comes up or exits, and one told to terminate does.
\* Nobody is obliged to call the loader.
Fairness ==
  /\ WF_vars(TakeSignal)
  /\ \A k \in Launches :
       /\ WF_vars(LwSmExecutableTask(k))
       /\ WF_vars(DeliverSignal(k))
       /\ WF_vars(ChildNext(k) /\ Type = "EXECUTABLE" /\ wrote[k] = "nothing")
       /\ WF_vars(ChildExits(k) /\ "TERM" \in inbox[k])

FairSpec == Spec /\ Fairness

-----------------------------------------------------------------------------
(* Properties.                                                             *)

Down == {"STOPPED", "DEAD"}

\* kill() in Stop and Refresh and waitpid() in the task only ever name the
\* service's own child while the kernel still keeps its pid: never -1, which
\* would reach every process, and never a pid that was already waited for.
NeverMisfires == ~misfire

\* Two processes of the same service never exist at once, and a service that
\* is reported stopped or dead has none left, running or zombie.
OneInstance ==
  /\ \A j, k \in Unreaped : j = k
  /\ state \in Down => Unreaped = {}

\* A service reported running was reported ready by the child it has now, not
\* through the pipe of an earlier child that failed to start.
RunningWasReady ==
  state \in {"RUNNING", "STOPPING"} => pid \in Launches /\ wrote[pid] = "zero"

\* When the service is down no task is left that could still change the
\* object: the LwRtlCancelTask calls of Stop and Destruct find it complete.
NoTaskWhenDown == state \in Down => \A k \in Launches : ~Active(k)

\* A service that is up, or on its way up or down, was announced as such to
\* the table: whoever waits for the change has been woken.
UpIsAnnounced == state \notin Down => announced = state

\* The invariant that carries the others: the object's pid, the one child that
\* is not reaped and the one task that is not complete are the same launch
\* exactly while the service is neither stopped nor dead.
ObjectTracksChild ==
  /\ state \notin Down => pid \in Unreaped
  /\ \A k \in Unreaped : k = pid /\ state \notin Down
  /\ \A k \in Launches : Active(k) => k = pid /\ state \notin Down
PipeIsOwn ==
  /\ Type = "LEGACY_EXECUTABLE" => notifyFd = None
  /\ state = "STARTING" /\ Type = "EXECUTABLE" => notifyFd = pid
  /\ \A k \in Launches : task[k] = "new" => state = "STARTING"
  /\ \A k \in Launches : Active(k) /\ fdWait[k] => state = "STARTING" /\ Type = "EXECUTABLE"
FreshLaunches ==
  \A k \in Launches : k > launches =>
     child[k] = "unborn" /\ task[k] = "none" /\ ~fdWait[k] /\ wrote[k] = "nothing"
IInv == TypeOK /\ ObjectTracksChild /\ PipeIsOwn /\ FreshLaunches
        /\ NeverMisfires /\ RunningWasReady /\ UpIsAnnounced

\* The loader implements the life cycle the service table relies on.
Lifecycle == INSTANCE ServiceLifecycle WITH Instances <- Launches, instances <- Unreaped
ImplementsLifecycle == Lifecycle!Spec

\* A start whose task was created ends: the child comes up, or its failure is
\* noticed through the pipe or through SIGCHLD whichever way they interleave.
StartResolves ==
  \A k \in Launches :
    (state = "STARTING" /\ pid = k /\ Active(k) /\ Type = "EXECUTABLE") ~> state # "STARTING"

\* A running service that exits while its task holds no unconsumed siginfo is
\* noticed: it does not stay in the state RUNNING or STOPPING.
DeathNoticed ==
  \A k \in Launches :
    (child[k] = "zombie" /\ task[k] = "waiting" /\ ~fdWait[k] /\ sigchld /\ ~siginfo[k])
      ~> child[k] = "reaped"

\* The comment in LwSmExecutableStop, executable.c:382: the task "will notice
\* when the child process finally exits" and leave STOPPING.
StopNoticed == (state = "STOPPING") ~> (state # "STOPPING")
=============================================================================
