# The PBIS service manager and I/O manager in TLA+

This directory specifies and verifies two cores of PBIS Open.  The *likewise
service manager* (`lwsm/`) is the daemon that starts, watches, restarts and
stops all other daemons: lsass, lwio, netlogon, lwreg, eventlog and so on.  The
*I/O manager* of lwio (`lwio/server/iomgr/`) is what every file request of the
SMB redirector and server passes through.  They were chosen because everything
else depends on them, because they are the repository's own code, and because
what they do (threads, signals, child processes, condition variables,
asynchronous completion, cancellation, reference counts) is hard to test.

## 1. Inventory

| Component | State | Operations | Hard behaviour |
|---|---|---|---|
| Executable loader, `lwsm/server/executable.c` | per service: state, pid, readiness pipe, task | start, stop, refresh, construct, destruct; the task's callbacks | children exit at any time; SIGCHLD is shared by all children; readiness and death race |
| Thread pool, `lwbase/src/threadpool-*.c` | tasks, events, one pending siginfo per task, subscribers of a signal | run a task, dispatch a signal, cancel | events raised together; a dispatcher that waits for one task |
| Service table, `lwsm/server/table.c` | per service: info, StartAttempts, restart period, dirty flag, waiters, condition variable, reference count | start, stop, refresh, update, wait, announce, watchdog | the lock is dropped around each loader call; wake-ups; counts written from stale reads |
| IPC dispatch, `lwsm/server/dispatch.c` | handles, pending calls | one handler per request | cancellation of a pending wait |
| Container loader, `lwsm/server/container.c` | containers by group, reference counts, instances | start and stop by asynchronous call, refresh, logging, registration, the container's task | completions after the container died or was replaced; a count updated without the lock; two locks in both orders |
| Driver and stub loaders, `driver.c`, `stub.c` | state of a driver in lwio; one state word | start, stop | failure half-way; no locking |
| Start-up and shutdown, `main.c`, `autostart.c`, `bootstrap.c` | dependency order | autostart, shutdown | both at once, and racing with the watchdog and with clients |
| API and registry, `api.c`, `registry.c` | service definitions | populate the table | - |
| Client, `lwsm/client/` | - | IPC stubs, `lwsm` command | restart of dependents in an order computed elsewhere |
| lwio's I/O manager, `lwio/server/iomgr/` | per file: flags, count of dispatched IRPs, reference count; per IRP: flags, reference count, cancel callback | create, requests, completion, cancellation, close, device rundown | cancellation before the request is pending; completion before the call returns; three ways to close one file |

How they interact: an IPC handler calls the table (`LwSmTableStartEntry` ...),
the table calls the loader through a vtable (`pfnStart`, `pfnStop`,
`pfnGetStatus` ...), and the loader calls the table back
(`LwSmNotifyServiceObjectStateChange`) whenever a service changes state.  The
announcement completes pending `LwSmWaitService` calls, wakes the threads that
sleep on the entry, and on a death queues `LwSmTableWatchdog` in the pool.

What makes each part correct: the loader never signals a process that is not
its own, never has two instances, and reports what is true; the table's calls
return, waits see changes, deaths lead to restarts within a limit, and a
stopped service stays stopped.  Section 6 says which of these hold.

In lwio, the IPC server calls `IoCreateFile`, `IoReadFile` ..., which build an
IRP and hand it to the driver of the file's device.  The driver answers inside
its dispatch routine or marks the IRP pending and completes it later, in a
thread of its own; cancellation and rundown come from the client, from the
release of its handle and from the deletion of the device.  What makes it
correct: no IRP or file object is freed in use or kept for ever, the driver is
told to close a file once and only when it has no other request for it, and a
rundown ends.

The other daemons and libraries (lwmsg, lsass, netlogon, lwreg, eventlog,
domainjoin, dcerpc) and lwio's drivers are systems of their own and out of scope; the vendored
libraries (krb5, openldap, openssl, curl, sqlite, libxml2 ...) are not this
program's logic.

## 2. Modules

    ServiceLifecycle     what a loader promises the table
      ^ implemented by (proved)        ^ used as the loader
    Executable                       ServiceTable
      ^ EXTENDS                        ^ EXTENDS
    MCExecutable  Executable_proofs  MCServiceTable  ServiceTable_proofs

    Container                        IoFile
      ^ EXTENDS                        ^ EXTENDS
    MCContainer  Container_proofs    MCIoFile  IoFile_proofs

    Dependencies
      ^ EXTENDS
    MCDependencies  Dependencies_proofs
                      ^ EXTENDS
                    DependenciesOrder_proofs

**ServiceLifecycle** has the state of a service and the set of its instances,
and says how they may change: launch, come up, stop, exit, die, reset.

**Executable** is `executable.c` for one service object, with the part of the
thread pool it relies on.  Every loader operation holds `gProcTable.lock` from
beginning to end and is one action.  Between those, children write to their
pipe and exit, the kernel keeps one pending SIGCHLD, `LwRtlMain` takes it and
`DispatchSignal` hands it to each subscribed task in turn.  Children are
numbered; the number stands for the pid, the pipe and the task.  Two details
of the pool decide most of what happens:

* a task has room for one siginfo, and `NotifyTaskUnixSignal` waits until the
  task has consumed it (`DeliverSignal`);
* `RunTask` clears every event it passed to the task, and the task looks at one
  event per run (`DropSignal`): a SIGCHLD event that comes together with the
  readiness pipe is lost, while its siginfo stays.

`misfire` becomes true when `kill` or `waitpid` names anything but the
service's own child.  It is what NeverMisfires is about.

**ServiceTable** is one entry of `table.c` with the threads that work on it.
A step is a stretch of code between two points where the entry lock is taken or
released, because that is where other threads get in: `poll` (about to call
`pfnGetStatus`), `decide` (back under the lock with a possibly stale answer),
`start`, `stop`, `refresh` (calling the loader without the lock), `condwait`,
`registered` (a linked waiter).  `seen`, `tried` and `known` are the thread's
`status.state`, `dwAttempts # 0` and `currentState`.  The loader is
ServiceLifecycle with the announcements of the executable loader; `tracked`
says that it has a task (its creation may fail after the fork).  `elapsed` is
the time since `LastRestartPeriod`, cut off above RESTART_PERIOD, where only
"more than the period" matters.  `restarts` and `sinceUp` are history variables
that no action reads.

`torn` marks a rebuild (`LwSmTableReconstructEntry`, taken for a dirty entry) of
a loader object that is in use: because the decision is made on a stale poll,
the object of a service that another thread has started meanwhile can be freed.
What follows is undefined in C, so the model stops there.

**Container** is `container.c` on the manager's side, for the services of one
group.  `gContainerLock` makes each operation one step, with three exceptions
that the model takes apart: calls to the container's process are sent and
completed without the lock (`calls`); `InvalidateContainer` holds the lock while
it waits for entry locks (`owner`, `EntryLocked`); and `ContainerTask` drops its
reference after unlocking (`TaskRelease`, `TaskReleased`: the count is read, and
written back).  `link` and `cont` differ on purpose: invalidation takes an
instance off the container's list and leaves `pContainer`, with its reference,
in place.  `direct` is a group that runs inside lwsmd itself.  `overtaken` are
services to which a late completion was applied, which the code does not
prevent; `stuck` those whose call could not be sent after the state was set.
Following a NULL `pContainer` ends the behaviour (`nulls` says who did it).

**Dependencies** has the closures of `table.c` (and of the client, which
computes them again) as recursive functions from a service and a list to the
longer list, with the loop over the names as an operator of its own, and the
four threads that work through them one call at a time.  A service names its
dependencies in any order, each once.  A thread's `plan` is the rest of the calls for
one service; a start or stop that fails makes it give up that plan, and what it
does next depends on who it is: the shutdown goes on, the watchdog ends.
`noted` is the array of states that `lwsm restart` keeps; its places, not its
names, count, since a list of reverse dependencies may name a service twice.

**IoFile** is one file object with the IRPs sent to it, on one device.  `pc`
follows the caller through `IopIrpCreate` and `IopIrpDispatch`, `stage` the
completion through `IopIrpCompleteInternal` (in the caller's thread or the
driver's), `cpc` each thread in `IopFileObjectRundownEx`, and `gathered` the
list of IRPs that `IopIrpCancelFileObject` is working through.  The counts
`refs`, `frefs` and `dispatched` are raised and lowered where the code does it;
`holders`, a history variable, says who is entitled to a reference.  `lost`
marks an IRP whose flags were updated by two threads at once, one without the
lock; the model takes either update as lost.  `stray` and `torn` mark accesses
to memory that was, or is being, freed.

## 3. Runs

| Run | Bounds | Checks |
|---|---|---|
| executable | 2 launches, 1 failing call, 1 exit of a foreign child | ten properties below: 14 792 states |
| executable_stop | 1 launch, nothing else | StopNoticed, violated |
| table | 2 clients, 1 watchdog thread, 2 calls of any kind, 2 deaths, 1 fault, restart limit 2 as in the code, period 1 | TypeOK, RestartOwed, RestartBudget, IInv, SleeperWoken: 37 738 states |
| table_start | 2 clients, start only | StartReturns, violated |
| table_wait | 2 clients, start and wait | WaitSeesChange, violated |
| table_stop | 1 client, 1 death | StopHolds, violated |
| table_limit | 1 client, 3 deaths in one period | RestartsLimited, violated |
| io_file | a create and one other IRP, each synchronous or asynchronous, 1 failed close, 1 spurious wake-up | nine properties below: 678 483 states |
| io_async | the same, no faults | ControlBlockLive, violated |
| io_resolve | the same, no faults | NeverResurrected, violated |
| container | 2 services, 2 containers, 2 starts, 1 fault | six properties below: 464 328 states |
| dependencies | 3 services, every graph without a cycle (25) with its names in every order (34), 2 events | UpNeedsDeps, ShutdownComplete, ClosuresExact: 6 324 380 states |

Why the bounds are enough: two launches are what a stale pid, pipe, task or
siginfo needs to meet its successor (three launches, 206 000 states, were
checked during development with the same result for the safety properties); a
foreign child is what separates "a SIGCHLD" from "my child exited".  In the
table, two calls and the watchdog give three threads in one entry, so that one
can act between another's poll and its decision while a third waits; two deaths
are needed to exhaust a limit of two.  The safety properties do not rest on the
bounds, they are proved (section 5).

In IoFile, one IRP besides the create already meets every closer and canceller at
every point of its life; its safety is proved for any number.  In Container two
services are needed to share a container, two containers for one to be overtaken
by its successor, and two starts for a service to be started again; with three
starts (5.6 million states) the safety properties held as well.  Symmetry is not
used: both runs check liveness.  In Dependencies three services give chains,
forks and diamonds with a direct edge across; an *event* is a run of the tool, a
death, a failing call or a SIGTERM during startup, and two of them let any two
meet, with autostart and shutdown under way besides.

Deadlock is not checked: when all calls have returned and nobody calls, the
system rests, and so does a model whose bounds are used up.

Executable is run as an lwsm-aware executable (`LW_SERVICE_TYPE_EXECUTABLE`);
the proofs hold for both types.

## 4. Fairness

Executable: the pool runs a task that has an event (worker threads never stop
while lwsmd lives), the main thread sits in `sigwaitinfo`, an lwsm-aware child
eventually writes to its pipe or exits, and a child that got SIGTERM exits.  The
last two are assumptions about the services, not about lwsm; without them a
start or a stop may last forever for reasons lwsm cannot change (it has no
timeout).  Nothing obliges anybody to call the loader.

ServiceTable: threads inside a call and queued work items are scheduled, a
service that was launched comes up or dies, one that was told to stop exits.
Spurious wake-ups from `pthread_cond_wait` are possible and not promised: it
would be wrong to let them repair a lost wake-up.  Time need not pass.

Container: the threads of lwsmd are scheduled, and a call to a process that has
exited fails (lwmsg sees the socket closed).  A live process owes no answer, and
no other child need exit, so a SIGCHLD that came before the subscription may stay
unseen.

IoFile: threads inside the I/O manager are scheduled.  The driver owes an answer
only to a request whose cancel callback was called, and to CLOSE.  For rdr the
first is a response timeout rather than the callback, which does nothing; either
way the request comes back.

Dependencies has safety properties only: whether a start or stop returns is the
subject of ServiceTable.

## 5. Proofs

TLAPS checks the six proof modules for every value of the constants, under the
named assumptions of the modules only (the bounds are natural numbers, clients
and workers are disjoint, the limit is not 0, the sets of IRPs, services and
containers are finite).  Every invariant and every action property of a passing
run is a theorem.

*Executable_proofs.*  No safety property is inductive by itself.  IInv ties them
together: while the service is neither stopped nor dead, `pid`, the one child
that is not reaped and the one task that is not complete are the same launch,
and when it is down there is no such child and no such task
(`ObjectTracksChild`); while it is starting, the pipe is that launch's, and only
a starting service has a task that waits for the pipe (`PipeIsOwn`).  From it
follow KillsOwnChildOnly, AtMostOneInstance, ReadinessIsOwn,
TasksEndWithService, and that every step is a step of ServiceLifecycle or leaves
it unchanged (ExecutableImplementsLifecycle), which is what entitles
ServiceTable to use ServiceLifecycle in the loader's place.

*ServiceTable_proofs.*  RestartOwed needs to know that a worker begins with
`dwAttempts = 0` (`CallsAreShaped`), otherwise its switch could give up instead
of resetting the count; RestartBudget needs that the count stays ahead of the
restarts it paid for unless it was reset (`CountCoversRestarts`).  The invariant
holds for any number of clients and watchdog threads.

*IoFile_proofs.*  Every invariant of the run io_file is a theorem, for any finite
set of IRPs.  None is inductive.  The invariant `Inv` of the proof module has
three layers.  The *phases* say which flags, stages and places go together: an
IRP that is pending has passed through the driver, a completion has begun only
for an IRP that was dispatched, at most one closer is past `RundownEnter`, the
handle exists only after a successful create (`IrpPhases`, `CancelPhases`,
`ActivePhases`, `DriverPhase`, `ListPhases`, `HandlePhase`, `CreatePhase`,
`HolderPhases`, `ExtraPhases`).  The *counts* say that `refs`, `frefs` and
`dispatched` are the numbers of their users (`IrpRefs`, `FileRefs`,
`DispatchedExact`); since an IRP with a user is alive and a live IRP holds the
file, neither is freed in use.  `DispatchedExact` is what makes CLOSE come
alone: the closer goes on when `dispatched` is 0, and `RUNDOWN` keeps everybody
else from raising it.  The *ends* say what is true when a closer has finished or
nobody is left (`OpenPhases`, `EndPhases`), from which OpenedIsClosed and
NothingLeaks follow.  There is one lemma per part and in it one step per action.

*Container_proofs.*  Every invariant of the run container is a theorem, for any
group of services and any number of containers.  The invariant `Inv` says who
holds `gContainerLock` and how far an invalidation or a release has come
(`OwnerPhase`), what the group's table entry and the lists point to
(`DirectPhase`, `LinkPhase`), that the count is exact unless it is `leaked`
(`LeakPhase`, `Counts`, `DeletedPhase`), and what follows for a service that is
shown as starting or up (`ServicePhase`, `RunningPhase`).  The lemma `Steps`
reduces the actions to the ten ways in which they treat the containers, so that
a part of the invariant needs ten cases and not thirty.

*Dependencies_proofs.*  ClosuresRight is about recursion: that the code's two
closures are right in every graph without a cycle, of every size.  The
induction theorems of the library cannot be used (they take an operator), so
the induction is made first-order by hand, with least counterexamples.  A loop
is the unique function that obeys its step (`IsRun`).  A graph without a cycle
has a rank (`IsRank`), built by taking services away whose names are all taken
already; by rank, the recursive equations have a solution on each set of low
rank and then on all services, and the CHOOSE behind a recursive function picks
one.  What a call adds to its list is then shown rank by rank (`ClosureAdds`:
all that the service needs, each name after what it needs; `ReverseAdds`: all
that needs it, each name preceded by what needs it).  A graph with a cycle has
no rank, and the code does not end on it.

*DependenciesOrder_proofs.*  Both theorems follow from what the plans look like
half-way.  `ShutdownInv`: every service is handled (stopped, started since, or
below one that could not be stopped), waits in the shutdown's list, or is the
last of its present plan, all steps of which stop that service or one that needs
it.  `OrderInv` is needed because UpNeedsDeps says nothing of the future: the
*shape* of a plan (stops come first, at growing places; restores come backwards)
survives each call, and a plan is *safe* when every stop has its running
dependents stopped by an earlier step, every start has what it needs started by
an earlier step or running with no stop to come, and every restore of a place
that was seen running the same, where "no stop to come" is "a restore in between
for each stop to come".  The last is what makes a list that names a service
twice come out right, and why `lwsm restart` must go backwards.  A thread's own
call keeps its plan safe (`StartKeepsSafe`, `StopKeepsSafe`); the calls of
others do when they are not opposed (`OthersSafe`), which is what `mixed`
records.

All inductive invariants were model-checked before they were proved.

Only model-checked: the liveness properties (StartResolves, DeathNoticed,
SleeperWoken, RundownEnds, OrphanEnds), which need fairness and are out of the
prover's reach.

## 6. What the checks show

Properties that hold:

* *NeverMisfires, OneInstance, RunningWasReady, NoTaskWhenDown*: the loader's
  use of pids, pipes and tasks is sound, although its error path leaves
  `notifyFd` open (a descriptor is lost, but it is never read again).
* *UpIsAnnounced*: whenever the service is up or on its way, the table was told.
  The converse does not hold: after a failed fork the service is dead and
  STARTING is what was announced last.
* *ImplementsLifecycle, StartResolves, DeathNoticed*: the life cycle; a watched
  start ends; a death is noticed as long as no siginfo is stuck in the task.
* *RestartOwed, RestartBudget, SleeperWoken*: see the comments in ServiceTable.
* *ServiceHasContainer, OneContainer*: services of a group that are up share one
  live container, as long as no late completion was applied to them.
* *RefsExact*: the container's count is exact; the unlocked release can make it
  too high (the container is then leaked), never too low.
* *NullOnlyByRefresh*: a NULL container is followed only by a refresh that was
  decided on an older state, or after a late completion.
* *OrphanEnds*: a start or stop whose container has died ends.  The one thing in
  the way is a cycle of `gContainerLock` and an entry lock, between
  `InvalidateContainer` and a logging call; the property names it (`LockCycle`).
* *ClosuresExact*: the closures against reachability; the list of reverse
  dependencies may repeat names, but first places are in a sound order.
* *UpNeedsDeps, ShutdownComplete*: order holds through failures, restarts with
  repeated names and a shutdown that goes on after errors.  What breaks it are
  threads that work against each other, which no lock prevents; both properties
  say so (`mixed`, `late`).
* *IrpRefsExact, FileRefsExact, CloseAlone, CloseOnce, CancelNotForgotten,
  NoLeak, OpenIsClosed, RundownEnds*: the I/O manager's counts and its close
  protocol hold, up to the windows named in the properties: a condition wait
  without a loop, a device rundown that overtakes a create (the TODO of
  `iofile.c:299`), a flag set without the lock (`ioirp.c:652`), and the two
  references that a device rundown leaves behind.

Disagreements between the code and its own words, each with a run that shows a
shortest trace:

* *StopNoticed* (`executable.c:382`): the child becomes ready while some other
  child exits; both events reach the task in one round, the SIGCHLD is dropped
  and its siginfo blocks the dispatcher.  A later stop never ends.
* *StartReturns* (`lwsm.h:518`): a start polls STARTING, the service comes up
  and is announced, then the start goes to sleep.  Stop has the same window.
* *WaitSeesChange* (`lwsm.h:575`): the same window in
  `LwSmTableRegisterEntryNotify`.
* *StopHolds* (`server.h:87`): the watchdog starts a service although a stop came
  after the death that queued the restart and set the count to 0.
* *ControlBlockLive* (`ioipc.c:491`): the request completes in another thread
  before `IopIrpDispatch` stores the cancel context; the call context is freed
  by then, and the reference of the cancel context is never dropped.
* *NeverResurrected* (`iofile.c:66`): the device's rundown takes a file from its
  list after the last reference went and before the file left the list.
* *RestartsLimited* (`table.c:42`, `table.c:959`): a service that dies each time
  after it came up is restarted without limit; RestartBudget says what the limit
  does achieve.

## 7. What is left out

* Allocation failures in the table and the strings of a service's information;
  `bValid`, which no code sets to FALSE; PAUSED, which no loader enters.
* The order of the entry lock and `gProcTable.lock`: a loader call is one step,
  so a deadlock between the two (see the hazards) cannot show.
* Cancellation of `LwSmWaitService`, the reference count of an entry (entries are
  removed only when lwsmd ends), shutdown of the table.
* *Container*: the code inside a container process; `LwSmContainerShutdown`;
  resource limits, environment and log targets.  A rebuilt instance
  (`Reconstruct`) ends the calls that refer to it in the model; in C they would
  complete into freed memory.
* *Dependencies*: cycles, on which the closures do not end (nothing checks the
  registry for them); `StartOnly` and `StopOnly`; a change of a service's
  dependencies while lwsmd runs (for which the reverse closure takes the wrong
  entry's lock, `table.c:1229`); the timer that kills the process group when a
  shutdown takes too long.  `lwsm` skips calls that would change nothing, and
  queries a state just before the stop: each pair is one step.
* *IoFile*: zero-copy reads and writes; the failure of `LwRtlInitializeEvent`;
  creation and naming of devices, loading of drivers, marshalling.  `CREATE_DONE`
  and the reference that goes with it are set in one step.  `IoCancelFile` has no
  caller in the repository and is modelled as part of the interface.

## 8. Not modelled, and why

* *driver.c, stub.c*: a synchronous call and one state word; ServiceLifecycle has
  what the table sees of them.
* *api.c, registry.c, logger.c, bootstrap.c* and the rest of the client: strings,
  registry access and output.
* *lwmsg, lwio's drivers (rdr, srv), lsass, netlogon, lwreg, eventlog*: systems of
  their own, each several times the size of what is modelled here.  The next one
  worth a project is `lwmsg/src/` (sessions, associations and call completion),
  since Container and IoFile both rest on what it promises about late and
  cancelled calls.
* *domainjoin*: sequential configuration of a host.  *dcerpc* and the vendored
  libraries (krb5, openldap, libxml2, libiconv ...), which are nearly all of the
  repository's lines, are not this program's logic.

## 9. Plan

1. A lock-level module for the table and its loaders: entry lock,
   `gProcTable.lock` and `gContainerLock`, with the life time of
   `SM_WAIT_CONTEXT` and its cancellation.
2. lwmsg's call objects as an abstract specification that Container's `calls` and
   IoFile's call contexts use.
