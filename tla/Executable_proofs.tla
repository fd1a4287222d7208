------------------------- MODULE Executable_proofs -------------------------
(***************************************************************************)
(* Proofs about Executable, for every type of executable and every value   *)
(* of the bounds.  IInv is inductive; the safety properties of the loader  *)
(* and the implementation of ServiceLifecycle follow from it.              *)
(***************************************************************************)
EXTENDS Executable, TLAPS

\* A freshly constructed object (LwSmExecutableConstruct) satisfies IInv.
LEMMA InitIInv == Init => IInv
<1> SUFFICES ASSUME Init PROVE IInv
  OBVIOUS
<1>1. /\ fdWait \in [Launches -> BOOLEAN]
      /\ siginfo \in [Launches -> BOOLEAN]
      /\ sigEvent \in [Launches -> BOOLEAN]
      /\ sigchld \in BOOLEAN /\ misfire \in BOOLEAN
  BY DEF Init
<1>2. TypeOK
  BY <1>1, ExecutableConstants DEF Init, TypeOK, Launches, None, ServiceStates
<1>3. ObjectTracksChild /\ PipeIsOwn /\ FreshLaunches
  BY ExecutableConstants
  DEF Init, ObjectTracksChild, PipeIsOwn, FreshLaunches, Down, Unreaped, Active
<1>4. NeverMisfires /\ RunningWasReady /\ UpIsAnnounced
  BY DEF Init, NeverMisfires, RunningWasReady, UpIsAnnounced, Down
<1> QED
  BY <1>2, <1>3, <1>4 DEF IInv

\* Starting, stopping, refreshing and rebuilding the object preserve IInv.
LEMMA LoaderIInv == IInv /\ LoaderNext => IInv'
<1> SUFFICES ASSUME IInv, LoaderNext PROVE IInv'
  OBVIOUS
<1> USE ExecutableConstants
    DEF IInv, TypeOK, ObjectTracksChild, PipeIsOwn, FreshLaunches, NeverMisfires, Kill,
        RunningWasReady, UpIsAnnounced, Down, Unreaped, Active, Launches, None, ServiceStates,
        objVars, procVars, taskVars, poolVars, Notify, StartAllowed, Fault
<1>1. CASE LwSmExecutableStart
  BY <1>1 DEF LwSmExecutableStart, NotifyPipe
<1>2. CASE LwSmExecutableStart_ForkFails
  BY <1>2 DEF LwSmExecutableStart_ForkFails
<1>3. CASE LwSmExecutableStop_Running
  BY <1>3 DEF LwSmExecutableStop_Running
<1>4. CASE LwSmExecutableStop_Dead
  BY <1>4 DEF LwSmExecutableStop_Dead
<1>5. CASE LwSmExecutableRefresh
  BY <1>5 DEF LwSmExecutableRefresh
<1>6. CASE Reconstruct
  BY <1>6 DEF Reconstruct
<1> QED
  BY <1>1, <1>2, <1>3, <1>4, <1>5, <1>6 DEF LoaderNext

\* Every run of LwSmExecutableTask preserves IInv.
LEMMA TaskIInv == ASSUME NEW k \in Launches, IInv, LwSmExecutableTask(k) PROVE IInv'
<1> USE ExecutableConstants
    DEF IInv, TypeOK, ObjectTracksChild, PipeIsOwn, FreshLaunches, NeverMisfires,
        RunningWasReady, UpIsAnnounced, Down, Unreaped, Active, Launches, None, ServiceStates,
        objVars, procVars, taskVars, poolVars, Notify, Fault
<1>1. CASE TaskInit(k)
  <2>1. fdWait' \in [Launches -> BOOLEAN]
    BY <1>1 DEF TaskInit
  <2>2. CASE TaskError(k)
    BY <1>1, <2>1, <2>2 DEF TaskInit, TaskError
  <2>3. CASE /\ task' = [task EXCEPT ![k] = "waiting"]
             /\ fdWait' = [fdWait EXCEPT ![k] = notifyFd # None]
             /\ UNCHANGED <<state, pid, announced, child, sigchld, misfire, faults>>
    <3>1. /\ UNCHANGED <<launches, notifyFd, wrote, inbox, siginfo, sigEvent, dispatch, strangers>>
          /\ task[k] = "new"
      BY <1>1 DEF TaskInit
    <3>2. TypeOK'
      BY <2>1, <2>3, <3>1
    <3>3. FreshLaunches'
      BY <2>3, <3>1
    <3>4. PipeIsOwn'
      BY <2>3, <3>1
    <3> QED
      BY <2>3, <3>1, <3>2, <3>3, <3>4
  <2> QED
    BY <1>1, <2>2, <2>3 DEF TaskInit
<1>2. CASE TaskSignal(k)
  <2>1. /\ siginfo' \in [Launches -> BOOLEAN]
        /\ sigEvent' \in [Launches -> BOOLEAN]
    BY <1>2 DEF TaskSignal
  <2>0. pid = k /\ ~misfire
    BY <1>2 DEF TaskSignal
  <2>2. misfire' = FALSE
    <3>1. misfire' = (misfire \/ pid # k)
      BY <1>2 DEF TaskSignal
    <3> QED
      BY ONLY <2>0, <3>1
  <2>3. CASE Exited
    <3>1. /\ UNCHANGED <<notifyFd, launches, wrote, inbox, fdWait, sigchld, dispatch, faults,
                         strangers>>
          /\ child' = [child EXCEPT ![k] = "reaped"]
          /\ task' = [task EXCEPT ![k] = "complete"]
          /\ pid' = None
          /\ state' = AfterExit /\ announced' = AfterExit
      BY <1>2, <2>0, <2>3 DEF TaskSignal
    <3>2. AfterExit \in Down
      BY DEF AfterExit
    <3>3. TypeOK'
      BY <2>1, <2>2, <3>1, <3>2
    <3>4. ObjectTracksChild'
      BY <2>0, <3>1, <3>2
    <3>5. PipeIsOwn' /\ FreshLaunches'
      BY <1>2, <2>0, <3>1, <3>2 DEF TaskSignal
    <3> QED
      BY <2>2, <3>1, <3>2, <3>3, <3>4, <3>5
  <2>4. CASE ~Exited
    BY <1>2, <2>1, <2>2, <2>4 DEF TaskSignal
  <2> QED
    BY <2>3, <2>4
<1>3. ASSUME NEW withSignal \in BOOLEAN, TaskReady(k, withSignal) PROVE IInv'
  BY <1>3 DEF TaskReady, FdReady, DropSignal
<1>4. ASSUME NEW withSignal \in BOOLEAN, TaskNotReady(k, withSignal) PROVE IInv'
  BY <1>4 DEF TaskNotReady, FdReady, DropSignal, TaskError
<1> QED
  BY <1>1, <1>2, <1>3, <1>4 DEF LwSmExecutableTask

\* The children and the pool's signal dispatcher preserve IInv.
LEMMA EnvironmentIInv ==
  ASSUME IInv,
         \/ \E k \in Launches : DeliverSignal(k) \/ ChildNext(k)
         \/ TakeSignal \/ StrangerExits
  PROVE  IInv'
<1> USE ExecutableConstants
    DEF IInv, TypeOK, ObjectTracksChild, PipeIsOwn, FreshLaunches, NeverMisfires,
        RunningWasReady, UpIsAnnounced, Down, Unreaped, Active, Launches, None, ServiceStates,
        objVars, procVars, taskVars, poolVars
<1>1. ASSUME NEW k \in Launches, DeliverSignal(k) PROVE IInv'
  <2>1. /\ siginfo' \in [Launches -> BOOLEAN]
        /\ sigEvent' \in [Launches -> BOOLEAN]
    BY <1>1 DEF DeliverSignal
  <2> QED
    BY <1>1, <2>1 DEF DeliverSignal
<1>2. ASSUME NEW k \in Launches, ChildExits(k) PROVE IInv'
  BY <1>2 DEF ChildExits
<1>3. ASSUME NEW k \in Launches, NEW what \in {"zero", "other"}, ChildWrites(k, what)
      PROVE  IInv'
  BY <1>3 DEF ChildWrites
<1>4. CASE TakeSignal
  BY <1>4 DEF TakeSignal
<1>5. CASE StrangerExits
  BY <1>5 DEF StrangerExits
<1> QED
  BY <1>1, <1>2, <1>3, <1>4, <1>5 DEF ChildNext

\* The object, its child and its task always agree (see ObjectTracksChild).
THEOREM ExecutableInvariant == Spec => []IInv
<1>1. IInv /\ [Next]_vars => IInv'
  <2> SUFFICES ASSUME IInv, [Next]_vars PROVE IInv'
    OBVIOUS
  <2>1. CASE Next
    BY <2>1, LoaderIInv, TaskIInv, EnvironmentIInv DEF Next
  <2>2. CASE UNCHANGED vars
    BY <2>2
    DEF vars, objVars, procVars, taskVars, poolVars, IInv, TypeOK, ObjectTracksChild, PipeIsOwn,
        FreshLaunches, NeverMisfires, RunningWasReady, UpIsAnnounced, Down, Unreaped, Active
  <2> QED
    BY <2>1, <2>2
<1> QED
  BY InitIInv, <1>1, PTL DEF Spec

\* kill() and waitpid() only ever name the service's own, unreaped child.
THEOREM KillsOwnChildOnly == Spec => []NeverMisfires
<1>1. IInv => NeverMisfires
  BY DEF IInv
<1> QED
  BY <1>1, ExecutableInvariant, PTL

\* At most one process of the service exists, and none when it is down.
THEOREM AtMostOneInstance == Spec => []OneInstance
<1>1. IInv => OneInstance
  BY DEF IInv, ObjectTracksChild, OneInstance
<1> QED
  BY <1>1, ExecutableInvariant, PTL

\* RUNNING is only reached on the word of the present child.
THEOREM ReadinessIsOwn == Spec => []RunningWasReady
<1>1. IInv => RunningWasReady
  BY DEF IInv
<1> QED
  BY <1>1, ExecutableInvariant, PTL

\* No task survives the service, so cancelling one when it is down is a no-op.
THEOREM TasksEndWithService == Spec => []NoTaskWhenDown
<1>1. IInv => NoTaskWhenDown
  BY DEF IInv, ObjectTracksChild, NoTaskWhenDown
<1> QED
  BY <1>1, ExecutableInvariant, PTL

\* Every variable of the loader stays in its type, in particular pid names the
\* process of one of the launches, or none.
THEOREM TypesHold == Spec => []TypeOK
<1>1. IInv => TypeOK
  BY DEF IInv
<1> QED
  BY <1>1, ExecutableInvariant, PTL

\* While the service is not down the table was told the state it is in, in every
\* order of launches, deaths and late readiness bytes.
THEOREM UpWasAnnounced == Spec => []UpIsAnnounced
<1>1. IInv => UpIsAnnounced
  BY DEF IInv
<1> QED
  BY <1>1, ExecutableInvariant, PTL

-----------------------------------------------------------------------------
(* The executable loader implements ServiceLifecycle.                      *)

\* While the service is down there is no child; otherwise pid is the only one.
LEMMA UnreapedIsPid ==
  IInv => Unreaped = IF state \in Down THEN {} ELSE {pid}
  BY DEF IInv, ObjectTracksChild

\* Every step of the loader, the task, the pool and the children is a step of
\* the life cycle or leaves it alone.
LEMMA LifecycleStep ==
  ASSUME IInv, IInv', [Next]_vars
  PROVE  [Lifecycle!Next]_(Lifecycle!vars)
<1> USE DEF Lifecycle!vars, Lifecycle!Next, Lifecycle!Down, Down,
            objVars, procVars, taskVars, poolVars, Notify
<1>0. /\ Unreaped = IF state \in Down THEN {} ELSE {pid}
      /\ Unreaped' = IF state' \in Down THEN {} ELSE {pid'}
  BY UnreapedIsPid, ExecutableConstants DEF IInv, ObjectTracksChild
<1>1. CASE LwSmExecutableStart
  <2>1. /\ state \in Down /\ state' = "STARTING"
        /\ pid' \in Launches
    BY <1>1, ExecutableConstants DEF LwSmExecutableStart, StartAllowed, IInv, TypeOK, Launches
  <2> QED
    BY <1>0, <2>1 DEF Lifecycle!Launch
<1>2. CASE LwSmExecutableStart_ForkFails
  BY <1>0, <1>2 DEF LwSmExecutableStart_ForkFails, StartAllowed, Lifecycle!LaunchFails
<1>3. CASE LwSmExecutableStop_Running
  BY <1>0, <1>3 DEF LwSmExecutableStop_Running, Lifecycle!RequestStop
<1>4. CASE LwSmExecutableStop_Dead
  BY <1>0, <1>4 DEF LwSmExecutableStop_Dead, Lifecycle!Reset
<1>5. CASE LwSmExecutableRefresh
  BY <1>0, <1>5 DEF LwSmExecutableRefresh
<1>6. CASE Reconstruct
  BY <1>0, <1>6 DEF Reconstruct, StartAllowed, Lifecycle!Reset
<1>7. ASSUME NEW k \in Launches, LwSmExecutableTask(k)
      PROVE  [Lifecycle!Next]_(Lifecycle!vars)
  <2>0. /\ Active(k) => state \notin Down
        /\ Active(k) /\ fdWait[k] => state = "STARTING"
        /\ task[k] = "new" => state = "STARTING"
        /\ state \in ServiceStates \ {"PAUSED"}
    BY DEF IInv, TypeOK, ObjectTracksChild, PipeIsOwn
  <2>1. CASE TaskInit(k)
    BY <1>0, <2>0, <2>1 DEF TaskInit, TaskError, Lifecycle!Dies
  <2>2. CASE TaskSignal(k)
    BY <1>0, <2>0, <2>2
    DEF TaskSignal, AfterExit, Active, ServiceStates, Lifecycle!Exits, Lifecycle!Dies
  <2>3. ASSUME NEW withSignal \in BOOLEAN, TaskReady(k, withSignal)
        PROVE  [Lifecycle!Next]_(Lifecycle!vars)
    BY <1>0, <2>0, <2>3 DEF TaskReady, FdReady, Active, Lifecycle!ComesUp
  <2>4. ASSUME NEW withSignal \in BOOLEAN, TaskNotReady(k, withSignal)
        PROVE  [Lifecycle!Next]_(Lifecycle!vars)
    BY <1>0, <2>0, <2>4 DEF TaskNotReady, TaskError, FdReady, Active, Lifecycle!Dies
  <2> QED
    BY <1>7, <2>1, <2>2, <2>3, <2>4 DEF LwSmExecutableTask
<1>8. ASSUME UNCHANGED <<state, pid>> PROVE [Lifecycle!Next]_(Lifecycle!vars)
  BY <1>0, <1>8
<1>9. ASSUME NEW k \in Launches, DeliverSignal(k) \/ ChildNext(k)
      PROVE  UNCHANGED <<state, pid>>
  BY <1>9 DEF DeliverSignal, ChildNext, ChildExits, ChildWrites
<1>10. TakeSignal \/ StrangerExits \/ UNCHANGED vars => UNCHANGED <<state, pid>>
  BY DEF TakeSignal, StrangerExits, vars
<1> QED
  BY <1>1, <1>2, <1>3, <1>4, <1>5, <1>6, <1>7, <1>8, <1>9, <1>10 DEF Next, LoaderNext

\* What the service table may rely on (ServiceLifecycle) holds of executables.
THEOREM ExecutableImplementsLifecycle == Spec => ImplementsLifecycle
<1>1. Init => Lifecycle!Init
  BY DEF Init, Lifecycle!Init, Unreaped
<1> QED
  BY <1>1, LifecycleStep, ExecutableInvariant, PTL DEF Spec, ImplementsLifecycle, Lifecycle!Spec
=============================================================================
