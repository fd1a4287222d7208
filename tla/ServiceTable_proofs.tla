------------------------ MODULE ServiceTable_proofs ------------------------
(***************************************************************************)
(* Proofs about ServiceTable, for any number of clients and watchdog       *)
(* threads, any restart period and limit, and every value of the bounds.   *)
(***************************************************************************)
EXTENDS ServiceTable, TLAPS

\* An entry that was just added satisfies IInv.
LEMMA InitIInv == Init => IInv
<1> SUFFICES ASSUME Init PROVE IInv
  OBVIOUS
<1> USE DEF Init, Loader!Init
<1>1. /\ tracked \in BOOLEAN /\ bDirty \in BOOLEAN /\ bWatchdog \in BOOLEAN /\ torn \in BOOLEAN
      /\ tried \in [Threads -> BOOLEAN]
  OBVIOUS
<1>2. TypeOK
  BY <1>1, ServiceTableConstants DEF TypeOK, States, Places, Calls
<1>3. RestartOwed /\ RestartBudget /\ CountCoversRestarts /\ CallsAreShaped
  BY ServiceTableConstants DEF RestartOwed, RestartBudget, CountCoversRestarts, CallsAreShaped
<1> QED
  BY <1>2, <1>3 DEF IInv

\* What the entry's announcement does to the other threads keeps them typed and
\* takes no worker away from a restart.
LEMMA WokenThreads ==
  ASSUME IInv, NEW next \in [Threads -> Places]
  PROVE  /\ Woken(next) \in [Threads -> Places]
         /\ CompletedWaits \in [Threads -> Calls]
  BY DEF IInv, TypeOK, Woken, CompletedWaits, Places, Calls

\* The loader's task: the service comes up, exits or dies.
LEMMA TaskIInv == IInv /\ TaskNext => IInv'
<1> SUFFICES ASSUME IInv, TaskNext PROVE IInv'
  OBVIOUS
<1> USE ServiceTableConstants
    DEF IInv, loaderVars, entryVars, threadVars, boundVars, historyVars
<1>1. TaskNotifies
  BY DEF TaskNext, ServiceComesUp, ServiceExits, ServiceDies
<1>2. deaths' \in 0..MaxDeaths
  BY DEF TaskNext, ServiceComesUp, ServiceExits, ServiceDies, TypeOK
<1>3. tracked' \in BOOLEAN
  BY Zenon DEF TaskNext, ServiceComesUp, ServiceExits, ServiceDies, TypeOK
<1>4. state' \in States /\ instances' \subseteq {1}
  BY DEF TaskNext, ServiceComesUp, ServiceExits, ServiceDies, Loader!ComesUp, Loader!Exits,
         Loader!Dies, States, TypeOK
<1>5. Announce \/ AnnounceDeath
  BY DEF TaskNext, ServiceComesUp, ServiceExits, ServiceDies
<1>6. /\ StartAttempts' \in 0..RestartLimit /\ elapsed' \in 0..(RestartPeriod + 1)
      /\ queued' \in Nat /\ faults' \in 0..MaxFaults /\ restarts' \in Nat /\ sinceUp' \in Nat
      /\ RestartBudget' /\ CountCoversRestarts'
      /\ StartAttempts' >= 2 => queued' > 0 \/ faults' > 0
                                \/ (StartAttempts >= 2 /\ queued' = queued /\ faults' = faults)
  <2>1. CASE Announce
    BY <2>1 DEF Announce, TypeOK, RestartBudget, CountCoversRestarts
  <2>2. CASE AnnounceDeath
    BY <2>2 DEF AnnounceDeath, RestartAllowed, NewPeriod, Fault, TypeOK, RestartBudget,
                CountCoversRestarts
  <2> QED
    BY <1>5, <2>1, <2>2
<1>7. /\ pc' = Woken(pc) /\ op' = CompletedWaits
      /\ UNCHANGED <<seen, tried, known, bDirty, bWatchdog, ops, torn>>
  BY <1>1 DEF TaskNotifies
<1>8. TypeOK'
  <2>1. pc' \in [Threads -> Places]
        /\ op' \in [Threads -> Calls]
    BY <1>7, WokenThreads DEF TypeOK
  <2> QED
    BY <1>6, <1>7, <1>2, <1>3, <1>4, <2>1 DEF TypeOK
<1>9. RestartOwed'
  <2>1. \A w \in Workers : Restarting(w) => Restarting(w)'
    BY <1>7 DEF Restarting, Woken, CompletedWaits, Threads
  <2> QED
    BY <1>6, <2>1 DEF RestartOwed
<1>10. CallsAreShaped'
  BY <1>7 DEF CallsAreShaped, Starting, Woken, CompletedWaits, TypeOK
<1> QED
  BY <1>6, <1>8, <1>9, <1>10

\* A client enters a call, and a worker takes up a restart.
LEMMA EnterIInv ==
  ASSUME NEW t \in Threads, IInv, Enter(t) \/ LwSmTableWatchdog(t)
  PROVE  IInv'
<1> USE ServiceTableConstants
    DEF IInv, loaderVars, entryVars, threadVars, boundVars, historyVars, At, Step
<1>1. TypeOK'
  <2>1. bDirty' \in BOOLEAN /\ bWatchdog' \in BOOLEAN /\ tried' \in [Threads -> BOOLEAN]
        /\ tracked' \in BOOLEAN /\ torn' \in BOOLEAN
    BY Zenon DEF Enter, Begin, BeginWait, LwSmTableUpdateEntry, LwSmSetGlobal,
                 LwSmTableWatchdog, TypeOK
  <2>2. CASE \E o \in {"start", "stop", "refresh"} : Begin(t, o)
    BY <2>1, <2>2 DEF Begin, TypeOK, Places, Calls
  <2>3. CASE BeginWait(t)
    BY <2>1, <2>3 DEF BeginWait, TypeOK, Places, Calls
  <2>4. CASE LwSmTableUpdateEntry(t)
    BY <2>1, <2>4 DEF LwSmTableUpdateEntry, TypeOK
  <2>5. CASE LwSmSetGlobal(t)
    BY <2>1, <2>5 DEF LwSmSetGlobal, TypeOK
  <2>6. CASE LwSmTableWatchdog(t)
    BY <2>1, <2>6 DEF LwSmTableWatchdog, TypeOK, Places, Calls
  <2> QED
    BY <2>2, <2>3, <2>4, <2>5, <2>6 DEF Enter
<1>2. UNCHANGED <<StartAttempts, sinceUp, faults>>
  BY DEF Enter, Begin, BeginWait, LwSmTableUpdateEntry, LwSmSetGlobal, LwSmTableWatchdog
<1>3. RestartOwed'
  <2>1. CASE LwSmTableWatchdog(t)
    BY <2>1 DEF LwSmTableWatchdog, RestartOwed, Restarting, CallsAreShaped, TypeOK
  <2>2. CASE Enter(t)
    <3>1. queued' = queued
      BY <2>2 DEF Enter, Begin, BeginWait, LwSmTableUpdateEntry, LwSmSetGlobal
    <3>2. \A w \in Workers : pc'[w] = pc[w] /\ op'[w] = op[w] /\ tried'[w] = tried[w]
      BY <2>2 DEF Enter, Begin, BeginWait, LwSmTableUpdateEntry, LwSmSetGlobal, TypeOK,
                  Threads
    <3> QED
      BY <1>2, <3>1, <3>2 DEF RestartOwed, Restarting
  <2> QED
    BY <2>1, <2>2
<1>4. CallsAreShaped'
  BY DEF Enter, Begin, BeginWait, LwSmTableUpdateEntry, LwSmSetGlobal, LwSmTableWatchdog,
         CallsAreShaped, Starting, TypeOK
<1> QED
  BY <1>1, <1>2, <1>3, <1>4 DEF RestartBudget, CountCoversRestarts

\* The steps of a call under the entry lock: polling, the switches of
\* LwSmTableStartEntry, StopEntry, RefreshEntry and RegisterEntryNotify, and the
\* condition variable.
EntryStep(t) ==
  \/ LwSmTablePollEntry(t) \/ SpuriousWakeup(t) \/ LwSmTableWaitEntryChanged(t)
  \/ StartEntry_Running(t) \/ StartEntry_Unresponsive(t) \/ StartEntry_Down(t)
  \/ StopEntry_Up(t) \/ StopEntry_Stopped(t)
  \/ RefreshEntry(t) \/ LwSmTableRegisterEntryNotify(t)

LEMMA EntryStepIInv == ASSUME NEW t \in Threads, IInv, EntryStep(t) PROVE IInv'
<1> USE ServiceTableConstants
    DEF IInv, loaderVars, entryVars, threadVars, boundVars, historyVars, At, Step, GoOn, Return
<1>1. CASE LwSmTablePollEntry(t)
  <2>1. TypeOK'
    BY <1>1 DEF LwSmTablePollEntry, TypeOK, Places
  <2>2. RestartOwed' /\ CallsAreShaped'
    BY <1>1 DEF LwSmTablePollEntry, RestartOwed, Restarting, CallsAreShaped, Starting, TypeOK
  <2> QED
    BY <1>1, <2>1, <2>2 DEF LwSmTablePollEntry, RestartBudget, CountCoversRestarts
<1>2. CASE SpuriousWakeup(t) \/ LwSmTableWaitEntryChanged(t)
  <2>1. TypeOK'
    BY <1>2 DEF SpuriousWakeup, LwSmTableWaitEntryChanged, TypeOK, Places
  <2>2. CallsAreShaped'
    BY <1>2 DEF SpuriousWakeup, LwSmTableWaitEntryChanged, CallsAreShaped, Starting, TypeOK
  <2>3. \A w \in Workers : Restarting(w) => Restarting(w)'
    BY <1>2 DEF SpuriousWakeup, LwSmTableWaitEntryChanged, Restarting, TypeOK, Threads
  <2>4. RestartOwed'
    BY <1>2, <2>3 DEF SpuriousWakeup, LwSmTableWaitEntryChanged, RestartOwed
  <2> QED
    BY <1>2, <2>1, <2>2, <2>4
    DEF SpuriousWakeup, LwSmTableWaitEntryChanged, RestartBudget, CountCoversRestarts
<1>3. CASE StartEntry_Running(t) \/ StartEntry_Unresponsive(t)
  <2>1. tried' \in [Threads -> BOOLEAN]
    BY <1>3 DEF StartEntry_Running, StartEntry_Unresponsive, TypeOK
  <2>2. TypeOK'
    <3>1. CASE StartEntry_Running(t)
      BY <3>1, <2>1 DEF StartEntry_Running, TypeOK, Places, Calls, States
    <3>2. CASE StartEntry_Unresponsive(t)
      BY <3>2, <2>1 DEF StartEntry_Unresponsive, TypeOK, Places, Calls, States
    <3> QED
      BY <1>3, <3>1, <3>2
  <2>3. StartAttempts' < 2 /\ CallsAreShaped'
    BY <1>3 DEF StartEntry_Running, StartEntry_Unresponsive, CallsAreShaped, Starting, TypeOK
  <2> QED
    BY <1>3, <2>2, <2>3 DEF StartEntry_Running, StartEntry_Unresponsive, RestartOwed,
                            RestartBudget, CountCoversRestarts
<1>4. CASE StartEntry_Down(t)
  <2>1. state' \in States /\ instances' \subseteq {1}
    BY <1>4 DEF StartEntry_Down, LwSmTableReconstructEntry, Loader!Reset, TypeOK, States
  <2>2. tracked' \in BOOLEAN /\ bDirty' \in BOOLEAN /\ torn' \in BOOLEAN
    BY <1>4, Zenon DEF StartEntry_Down, LwSmTableReconstructEntry, TypeOK
  <2>3. TypeOK'
    BY <1>4, <2>1, <2>2 DEF StartEntry_Down, TypeOK, Places
  <2>4. CallsAreShaped'
    BY <1>4 DEF StartEntry_Down, CallsAreShaped, Starting, TypeOK
  <2> QED
    BY <1>4, <2>3, <2>4 DEF StartEntry_Down, RestartOwed, RestartBudget, CountCoversRestarts
<1>5. CASE StopEntry_Up(t)
  <2>1. tried' \in [Threads -> BOOLEAN]
    BY <1>5 DEF StopEntry_Up, TypeOK
  <2>2. TypeOK'
    BY <1>5, <2>1 DEF StopEntry_Up, TypeOK, Places, Calls, States
  <2>3. CallsAreShaped'
    BY <1>5 DEF StopEntry_Up, CallsAreShaped, Starting, TypeOK
  <2> QED
    BY <1>5, <2>2, <2>3 DEF StopEntry_Up, RestartOwed, RestartBudget, CountCoversRestarts
<1>6. CASE StopEntry_Stopped(t) \/ RefreshEntry(t) \/ LwSmTableRegisterEntryNotify(t)
  <2> USE DEF StopEntry_Stopped, RefreshEntry, LwSmTableRegisterEntryNotify
  <2>1. tried' \in [Threads -> BOOLEAN]
    BY <1>6 DEF TypeOK
  <2>2. TypeOK'
    BY <1>6, <2>1 DEF TypeOK, Places, Calls, States
  <2>3. CallsAreShaped'
    BY <1>6 DEF CallsAreShaped, Starting, TypeOK
  <2>4. \A w \in Workers : Restarting(w) => Restarting(w)'
    BY <1>6 DEF Restarting, TypeOK, Threads
  <2>5. RestartOwed'
    BY <1>6, <2>4 DEF RestartOwed
  <2> QED
    BY <1>6, <2>2, <2>3, <2>5 DEF RestartBudget, CountCoversRestarts
<1> QED
  BY <1>1, <1>2, <1>3, <1>4, <1>5, <1>6 DEF EntryStep

\* The calls into the loader.
LEMMA LoaderCallIInv ==
  ASSUME NEW t \in Threads, IInv, CallStart(t) \/ CallStop(t) \/ CallRefresh(t)
  PROVE  IInv'
<1> USE ServiceTableConstants
    DEF IInv, loaderVars, entryVars, threadVars, boundVars, historyVars, At, Step, Return, Succeeds,
        Fails, CallStart, CallStop, CallRefresh
<1>1. state' \in States /\ instances' \subseteq {1}
  BY DEF Loader!Launch, Loader!LaunchFails, Loader!RequestStop, Loader!Reset, TypeOK, States
<1>2. tracked' \in BOOLEAN /\ tried' \in [Threads -> BOOLEAN]
  BY DEF TypeOK
<1>3. pc' \in [Threads -> Places] /\ op' \in [Threads -> Calls]
  BY DEF Woken, CompletedWaits, TypeOK, Places, Calls
<1>4. seen' \in [Threads -> States] /\ faults' \in 0..MaxFaults
  BY DEF Fault, TypeOK, States
<1>5. UNCHANGED <<entryVars, bWatchdog, queued, known, ops, deaths, torn, historyVars>>
  OBVIOUS
<1>6. TypeOK'
  BY <1>1, <1>2, <1>3, <1>4, <1>5 DEF TypeOK
<1>7. CallsAreShaped'
  <2> USE DEF CallsAreShaped, Starting, Woken, CompletedWaits, TypeOK
  <2>1. CASE Succeeds(t) /\ pc[t] \in {"start", "stop"}
    BY <2>1
  <2>2. CASE Fails(t)
    BY <2>2
  <2>3. CASE Return(t)
    BY <2>3
  <2> QED
    BY <2>1, <2>2, <2>3
<1>8. RestartOwed'
  <2>1. \A w \in Workers : Restarting(w) => Restarting(w)'
    BY DEF Restarting, Woken, CompletedWaits, TypeOK, Threads
  <2>2. faults > 0 => faults' > 0
    BY DEF Fault, TypeOK
  <2> QED
    BY <1>5, <2>1, <2>2 DEF RestartOwed
<1> QED
  BY <1>5, <1>6, <1>7, <1>8 DEF RestartBudget, CountCoversRestarts

\* IInv is inductive.
LEMMA NextIInv == IInv /\ [Next]_vars => IInv'
<1> SUFFICES ASSUME IInv, [Next]_vars PROVE IInv'
  OBVIOUS
<1>1. CASE TaskNext
  BY <1>1, TaskIInv
<1>2. CASE Tick
  BY <1>2, ServiceTableConstants
  DEF Tick, IInv, TypeOK, RestartOwed, Restarting, RestartBudget, CountCoversRestarts,
      CallsAreShaped, Starting, loaderVars, threadVars, boundVars, historyVars
<1>3. ASSUME NEW t \in Threads,
             Enter(t) \/ LwSmTableWatchdog(t) \/ Continue(t) \/ SpuriousWakeup(t)
      PROVE  IInv'
  BY <1>3, EnterIInv, EntryStepIInv, LoaderCallIInv DEF Continue, EntryStep
<1>4. CASE UNCHANGED vars
  BY <1>4 DEF vars, IInv, TypeOK, RestartOwed, Restarting, RestartBudget, CountCoversRestarts,
              CallsAreShaped, Starting, loaderVars, entryVars, threadVars, boundVars, historyVars
<1> QED
  BY <1>1, <1>2, <1>3, <1>4 DEF Next

\* The inductive invariant of the entry, and with it type correctness: no
\* interleaving of clients, watchdog and loader drives StartAttempts out of
\* 0..RESTART_LIMIT.
THEOREM TableInvariant == Spec => []IInv
  BY InitIInv, NextIInv, PTL DEF Spec

\* However many clients race with the watchdog, a raised StartAttempts is backed
\* by a queued or running restart as long as the work queue accepts it.
THEOREM RestartsAreOwed == Spec => []RestartOwed
<1>1. IInv => RestartOwed
  BY DEF IInv
<1> QED
  BY <1>1, TableInvariant, PTL

\* Within a restart period fewer than RESTART_LIMIT restarts are queued after a
\* start last found the service running.
THEOREM RestartsWithinBudget == Spec => []RestartBudget
<1>1. IInv => RestartBudget
  BY DEF IInv
<1> QED
  BY <1>1, TableInvariant, PTL

\* The entry, its waiters and its threads keep their types, for any number of
\* clients and watchdog threads.
THEOREM TypesHold == Spec => []TypeOK
<1>1. IInv => TypeOK
  BY DEF IInv
<1> QED
  BY <1>1, TableInvariant, PTL
=============================================================================
