---------------------------- MODULE IoFile_proofs ----------------------------
(***************************************************************************)
(* Proofs about IoFile, for every set of IRPs and every bound: the two     *)
(* reference counts are exact, the file is closed once, after every other  *)
(* IRP of it came back, no cancellation is forgotten, and in the end a     *)
(* file that was opened has been closed and freed.                         *)
(*                                                                         *)
(* The inductive invariant is Inv.  Each of its parts has a lemma that     *)
(* says which other parts keep it, one step per action:                    *)
(*   Types, Booleans   what is typed before the counts are known           *)
(*   IrpPhases      an IRP's caller, flags and completion                  *)
(*   HandlePhase, ListPhases   the client's handle and the cancel lists    *)
(*   IrpRefs        from these, the count of an IRP                        *)
(*   DispatchedExact, ActivePhases, DriverPhase   the rundown              *)
(*   CreatePhase, HolderPhases, FileRefs          the count of the file    *)
(*   CancelPhases, ExtraPhases, OpenPhases, EndPhases   cancellation, and  *)
(*                  what is left when nobody uses the file any more        *)
(***************************************************************************)
EXTENDS IoFile, FiniteSetTheorems, TLAPS


\* TypeOK while the counts may still be negative, and without the flags that no
\* count depends on.
Types ==
  /\ pc \in [Irps -> Places] /\ stage \in [Irps -> Stages]
  /\ flags \in [Irps -> SUBSET IrpFlags] /\ refs \in [Irps -> Int]
  /\ async \subseteq Irps /\ extra \subseteq Irps /\ handed \subseteq Irps
  /\ freed \subseteq Irps /\ linked \subseteq Irps
  /\ fflags \subseteq FileFlags /\ dispatched \in Int /\ frefs \in Int
  /\ handle \in {"none", "held", "released"}
  /\ cpc \in [Cancellers -> CloserPlaces]
  /\ gathered \in [Cancellers -> SUBSET Irps]
  /\ faults \in Nat /\ spurious \in Nat
  /\ holders \subseteq Holders /\ lost \subseteq Irps /\ stray \subseteq Irps

-----------------------------------------------------------------------------
(* The parts of the inductive invariant.                                   *)

\* DispatchedIrpCount counts these.
DispatchedExact == dispatched = Cardinality(InDriver) + Cardinality(Closing)

\* How the place of the caller, the flags and the completion of an IRP relate.
IrpPhases ==
  \A i \in Irps :
    /\ pc[i] \in {"idle", "attached", "counted", "driver", "marked"} => stage[i] = "none"
    /\ pc[i] \in {"idle", "attached", "counted", "driver", "inline"} => "PENDING" \notin flags[i]
    /\ pc[i] \in {"marked", "pended", "recancel", "waiting", "handing"} => "PENDING" \in flags[i]
    /\ stage[i] \notin {"none", "done"} => "PENDING" \in flags[i] \/ pc[i] = "inline"
    /\ pc[i] \in {"idle", "attached"} => i \notin extra
    /\ pc[i] = "idle" => \A t \in Cancellers : i \notin gathered[t]

\* The closer that set RUNDOWN, until it is through.
Active == {k \in Closers : cpc[k] \notin {"idle", "enter", "done"}}

\* There is one such closer at most.
ActivePhases ==
  /\ \A k, l \in Active : k = l
  /\ Active # {} => "RUNDOWN" \in fflags /\ "CLOSE_DONE" \notin fflags
  /\ "CLOSE_DONE" \in fflags => "RUNDOWN" \in fflags

\* It goes on to close the file only when the driver has no IRP left.
DriverPhase ==
  (\E k \in Closers : cpc[k] \in {"close", "closing"}) /\ spurious = 0 => InDriver = {}

\* A cancel list is in use only while its IRPs are being cancelled.
ListPhases == \A t \in Cancellers : cpc[t] # "cancel" => gathered[t] = {}

\* The create returns its handle once, and its release starts the cleanup.
HandlePhase ==
  /\ cpc["cleanup"] # "idle" <=> handle = "released"
  /\ handle # "none" => IF ReturnsStatus(Create) THEN pc[Create] = "gone"
                                                 ELSE stage[Create] = "done"

\* When the file counts as open.
CreatePhase ==
  /\ "CREATE_DONE" \in fflags <=> created /\ stage[Create] \in {"typed", "done"}
  /\ Closing # {} => "CREATE_DONE" \in fflags
  /\ handle # "none" => "CREATE_DONE" \in fflags

\* Who then holds which reference.
HolderPhases ==
  /\ pc[Create] # "gone" => "creator" \in holders
  /\ "CREATE_DONE" \notin fflags => "handle" \notin holders
  /\ "CREATE_DONE" \in fflags /\ handle # "released" => "handle" \in holders
  /\ cpc["call"] = "idle" => "call" \notin holders
  /\ cpc["device"] = "idle" => "device" \notin holders /\ "gatherer" \notin holders
  /\ \A k \in Closers : cpc[k] \notin {"idle", "done"} => Token(k) \in holders

\* A cancelled IRP is pending; one that IopIrpDispatch is done with is not left marked.
CancelPhases ==
  \A i \in Irps :
    /\ "CANCELLED" \in flags[i] => "PENDING" \in flags[i] /\ "CANCEL_PENDING" \notin flags[i]
    /\ pc[i] \in {"waiting", "handing", "leaving", "gone"} /\ "PENDING" \in flags[i]
       /\ "CANCEL_PENDING" \in flags[i] => "COMPLETE" \in flags[i]

\* The reference for an asynchronous caller's cancel context: handed to the caller, and
\* dropped by the callback unless the callback came first.
ExtraPhases ==
  \A i \in Irps :
    /\ i \in extra => i \in async
    /\ pc[i] = "waiting" => i \notin async
    /\ pc[i] = "handing" => i \in async
    /\ i \in handed => pc[i] \in {"leaving", "gone"}
    /\ i \in extra /\ pc[i] \in {"leaving", "gone"} => "PENDING" \in flags[i] /\ i \in handed
    /\ i \in extra /\ stage[i] = "done" /\ "PENDING" \in flags[i] => i \in freed
    /\ i \in extra /\ i \in freed /\ i \in handed => i \in stray
    /\ i \notin async /\ "PENDING" \in flags[i] /\ pc[i] \in {"leaving", "gone"}
       => stage[i] = "done"


\* The end of the create, the handle it makes, and the client's close.
OpenPhases ==
  /\ pc[Create] = "gone" => "creator" \notin holders
  /\ created => stage[Create] # "none"
  /\ created /\ stage[Create] = "done" /\ handle = "none"
     => ReturnsStatus(Create) /\ pc[Create] # "gone"
  /\ cpc["call"] # "idle" => handle # "none"
  /\ handle = "released" => cpc["call"] \in {"idle", "done"}

\* What a rundown leaves behind when it is through.
EndPhases ==
  /\ \A k \in {"call", "cleanup"} : cpc[k] \notin {"idle", "enter"} => "RUNDOWN" \in fflags
  /\ cpc["device"] = "idle" => ~missed
  /\ faults = 0 /\ ~missed /\ "RUNDOWN" \in fflags /\ "CLOSE_DONE" \notin fflags /\ Active = {}
     => stage[Create] \in {"typed", "done"} /\ ~created
  /\ faults = 0 /\ cpc["device"] = "idle"
     => \A k \in {"call", "cleanup"} : cpc[k] = "done" => Token(k) \notin holders

\* Variables that no count depends on.
Booleans == listed \in BOOLEAN /\ created \in BOOLEAN /\ missed \in BOOLEAN /\ torn \in BOOLEAN

-----------------------------------------------------------------------------
(* One lemma for each part.                                                *)

\* Every action keeps the types.
LEMMA TypesStep == ASSUME Types, [Next]_vars PROVE Types'
<1> USE IoFileConstants DEF Types, irpVars, fileVars, closeVars, boundVars, ghostVars, vars
<1>1. ASSUME NEW i \in Irps, IopIrpAttach(i) PROVE Types'
  BY <1>1 DEF IopIrpAttach, Irps, Places, Stages, IrpFlags, FileFlags, Holders, Step,
     CloserPlaces, Cancellers, Closers
<1>2. ASSUME NEW i \in Irps, AttachRefused(i) PROVE Types'
  BY <1>2 DEF AttachRefused, Irps, Places, Stages, IrpFlags, FileFlags, Holders, Step,
     CloserPlaces, Cancellers, Closers
<1>3. ASSUME NEW i \in Irps, IopFileObjectAddDispatched(i) PROVE Types'
  BY <1>3 DEF IopFileObjectAddDispatched, Irps, Places, Stages, IrpFlags, FileFlags, Holders,
     Step, CloserPlaces, Cancellers, Closers
<1>4. ASSUME NEW i \in Irps, DispatchRefused(i) PROVE Types'
  BY <1>4 DEF DispatchRefused, Irps, Places, Stages, IrpFlags, FileFlags, Holders, Step,
     CloserPlaces, Cancellers, Closers
<1>5. ASSUME NEW i \in Irps, SetDispatched(i) PROVE Types'
  BY <1>5 DEF SetDispatched, Irps, Places, Stages, IrpFlags, FileFlags, Holders, Step,
     CloserPlaces, Cancellers, Closers
<1>6. ASSUME NEW i \in Irps, DriverReturns(i) PROVE Types'
  BY <1>6 DEF DriverReturns, Irps, Places, Stages, IrpFlags, FileFlags, Holders, Step,
     CloserPlaces, Cancellers, Closers, MarkComplete
<1>7. ASSUME NEW i \in Irps, IoIrpMarkPending(i) PROVE Types'
  BY <1>7 DEF IoIrpMarkPending, Irps, Places, Stages, IrpFlags, FileFlags, Holders, Step,
     CloserPlaces, Cancellers, Closers
<1>8. ASSUME NEW i \in Irps, ReferencePending(i) PROVE Types'
  BY <1>8 DEF ReferencePending, Irps, Places, Stages, IrpFlags, FileFlags, Holders, Step,
     CloserPlaces, Cancellers, Closers
<1>9. ASSUME NEW i \in Irps, NeedCancel(i) PROVE Types'
  BY <1>9 DEF NeedCancel, Irps, Places, Stages, IrpFlags, FileFlags, Holders, Step, CloserPlaces,
     Cancellers, Closers, AwaitIrp
<1>10. ASSUME NEW i \in Irps, Recancel(i) PROVE Types'
  BY <1>10 DEF Recancel, Irps, Places, Stages, IrpFlags, FileFlags, Holders, Step, CloserPlaces,
     Cancellers, Closers, AwaitIrp, Cancelled
<1>11. ASSUME NEW i \in Irps, HandOut(i) PROVE Types'
  BY <1>11 DEF HandOut, Irps, Places, Stages, IrpFlags, FileFlags, Holders, Step, CloserPlaces,
     Cancellers, Closers
<1>12. ASSUME NEW i \in Irps, EventSet(i) PROVE Types'
  BY <1>12 DEF EventSet, Irps, Places, Stages, IrpFlags, FileFlags, Holders, Step, CloserPlaces,
     Cancellers, Closers
<1>13. ASSUME NEW i \in Irps, InlineDone(i) PROVE Types'
  BY <1>13 DEF InlineDone, Irps, Places, Stages, IrpFlags, FileFlags, Holders, Step, CloserPlaces,
     Cancellers, Closers
<1>14. ASSUME NEW i \in Irps, Leave(i) PROVE Types'
  BY <1>14 DEF Leave, Irps, Places, Stages, IrpFlags, FileFlags, Holders, Step, CloserPlaces,
     Cancellers, Closers, Dereference, FreesIrp
<1>15. ASSUME NEW i \in Irps, IoIrpComplete(i) PROVE Types'
  BY <1>15 DEF IoIrpComplete, Irps, Places, Stages, IrpFlags, FileFlags, Holders, Step,
     CloserPlaces, Cancellers, Closers, MarkComplete
<1>16. ASSUME NEW i \in Irps, IopFileObjectRemoveDispatched(i) PROVE Types'
  BY <1>16 DEF IopFileObjectRemoveDispatched, Irps, Places, Stages, IrpFlags, FileFlags, Holders,
     Step, CloserPlaces, Cancellers, Closers, LastAwaited
<1>17. ASSUME NEW i \in Irps, ResumeCompletion(i) PROVE Types'
  BY <1>17 DEF ResumeCompletion, Irps, Places, Stages, IrpFlags, FileFlags, Holders, Step,
     CloserPlaces, Cancellers, Closers
<1>18. ASSUME NEW i \in Irps, CompleteType(i) PROVE Types'
  <2>1. holders' \subseteq Holders
    BY <1>18 DEF CompleteType, Holders
  <2>2. fflags' \subseteq FileFlags
    BY <1>18 DEF CompleteType, FileFlags
  <2>3. frefs' \in Int
    BY <1>18 DEF CompleteType
  <2>4. stage' \in [Irps -> Stages]
    BY <1>18 DEF CompleteType, Stages
  <2> QED
    BY <1>18, <2>1, <2>2, <2>3, <2>4 DEF CompleteType
<1>19. ASSUME NEW i \in Irps, CallBack(i) PROVE Types'
  BY <1>19 DEF CallBack, Irps, Places, Stages, IrpFlags, FileFlags, Holders, Step, CloserPlaces,
     Cancellers, Closers, Dereference, FreesIrp
<1>20. ASSUME NEW i \in Irps, CompleteCaller(i) PROVE Types'
  BY <1>20 DEF CompleteCaller, Irps, Places, Stages, IrpFlags, FileFlags, Holders, Step,
     CloserPlaces, Cancellers, Closers, Dereference, FreesIrp
<1>21. ASSUME NEW i \in Irps, IoCancelAsyncCancelContext(i) PROVE Types'
  BY <1>21 DEF IoCancelAsyncCancelContext, Irps, Places, Stages, IrpFlags, FileFlags, Holders,
     Step, CloserPlaces, Cancellers, Closers, Cancelled
<1>22. ASSUME NEW k \in Cancellers, RundownEnter(k) PROVE Types'
  <2>1. holders' \subseteq Holders
    BY <1>22 DEF RundownEnter, Holders
  <2>2. fflags' \subseteq FileFlags
    BY <1>22 DEF RundownEnter, FileFlags
  <2>3. frefs' \in Int
    BY <1>22 DEF RundownEnter
  <2>4. cpc' \in [Cancellers -> CloserPlaces]
    BY <1>22 DEF RundownEnter, Goto, CloserPlaces, Cancellers, Closers
  <2> QED
    BY <1>22, <2>1, <2>2, <2>3, <2>4 DEF RundownEnter
<1>23. ASSUME NEW k \in Cancellers, RundownCancel(k) PROVE Types'
  BY <1>23 DEF RundownCancel, Irps, Places, Stages, IrpFlags, FileFlags, Holders, Step,
     CloserPlaces, Cancellers, Closers, Gather, Gathered
<1>24. ASSUME NEW k \in Cancellers, CancelNext(k) PROVE Types'
  BY <1>24 DEF CancelNext, Irps, Places, Stages, IrpFlags, FileFlags, Holders, Step, CloserPlaces,
     Cancellers, Closers, Cancelled, Dereference, FreesIrp
<1>25. ASSUME NEW k \in Cancellers, RundownWait(k) PROVE Types'
  BY <1>25 DEF RundownWait, Irps, Places, Stages, IrpFlags, FileFlags, Holders, Step,
     CloserPlaces, Cancellers, Closers, Goto
<1>26. ASSUME NEW k \in Cancellers, IopContinueAsyncCloseFile(k) PROVE Types'
  BY <1>26 DEF IopContinueAsyncCloseFile, Irps, Places, Stages, IrpFlags, FileFlags, Holders,
     Step, CloserPlaces, Cancellers, Closers, Goto
<1>27. ASSUME NEW k \in Cancellers, CloseComplete(k) PROVE Types'
  <2>1. holders' \subseteq Holders
    BY <1>27 DEF CloseComplete, Holders
  <2>2. fflags' \subseteq FileFlags
    BY <1>27 DEF CloseComplete, FileFlags, CloseFlags
  <2>3. frefs' \in Int /\ dispatched' \in Int /\ faults' \in Nat
    BY <1>27 DEF CloseComplete
  <2>4. cpc' \in [Cancellers -> CloserPlaces]
    BY <1>27 DEF CloseComplete, Goto, CloserPlaces, Cancellers, Closers
  <2> QED
    BY <1>27, <2>1, <2>2, <2>3, <2>4 DEF CloseComplete
<1>28. CASE IoCancelFile
  BY <1>28 DEF IoCancelFile, Irps, Places, Stages, IrpFlags, FileFlags, Holders, Step,
     CloserPlaces, Cancellers, Closers, Gather, Gathered
<1>29. CASE IopIpcCloseFile
  BY <1>29 DEF IopIpcCloseFile, Irps, Places, Stages, IrpFlags, FileFlags, Holders, Step,
     CloserPlaces, Cancellers, Closers, Goto
<1>30. CASE IopIpcCleanupFileHandle
  BY <1>30 DEF IopIpcCleanupFileHandle, Irps, Places, Stages, IrpFlags, FileFlags, Holders, Step,
     CloserPlaces, Cancellers, Closers, Goto
<1>31. CASE IopDeviceRundown
  <2>1. holders' \subseteq Holders
    BY <1>31 DEF IopDeviceRundown, Holders
  <2>2. frefs' \in Int
    BY <1>31 DEF IopDeviceRundown
  <2>3. cpc' \in [Cancellers -> CloserPlaces]
    BY <1>31 DEF IopDeviceRundown, Goto, CloserPlaces, Cancellers, Closers
  <2> QED
    BY <1>31, <2>1, <2>2, <2>3 DEF IopDeviceRundown
<1>32. CASE SpuriousWakeup
  BY <1>32 DEF SpuriousWakeup, Irps, Places, Stages, IrpFlags, FileFlags, Holders, Step,
     CloserPlaces, Cancellers, Closers, Goto
<1>33. CASE IopFileObjectFree
  BY <1>33 DEF IopFileObjectFree, Irps, Places, Stages, IrpFlags, FileFlags, Holders, Step,
     CloserPlaces, Cancellers, Closers
<1>34. CASE UNCHANGED vars
  BY <1>34
<1> QED
  BY <1>1, <1>2, <1>3, <1>4, <1>5, <1>6, <1>7, <1>8, <1>9, <1>10, <1>11, <1>12, <1>13, <1>14,
     <1>15, <1>16, <1>17, <1>18, <1>19, <1>20, <1>21, <1>22, <1>23, <1>24, <1>25, <1>26, <1>27,
     <1>28, <1>29, <1>30, <1>31, <1>32, <1>33, <1>34 DEF Next, Caller, Completion, Closer,
     Cancellers

-----------------------------------------------------------------------------
(* The reference count of an IRP.                                          *)

\* An IRP that was not created has no reference.
IdleUnused == \A i \in Irps : pc[i] = "idle" => refs[i] = 0

\* The place of a caller and the completion of its IRP stay in step.
LEMMA IrpPhasesStep ==
  ASSUME Types, IrpPhases, ListPhases, IdleUnused, [Next]_vars PROVE IrpPhases'
<1> USE DEF Types, IrpPhases, irpVars, fileVars, closeVars, boundVars, ghostVars, vars
<1>1. ASSUME NEW i \in Irps, IopIrpAttach(i) PROVE IrpPhases'
  BY <1>1 DEF IopIrpAttach, Step, Stages
<1>2. ASSUME NEW i \in Irps, AttachRefused(i) PROVE IrpPhases'
  BY <1>2 DEF AttachRefused, Step, Stages
<1>3. ASSUME NEW i \in Irps, IopFileObjectAddDispatched(i) PROVE IrpPhases'
  BY <1>3 DEF IopFileObjectAddDispatched, Step, Stages
<1>4. ASSUME NEW i \in Irps, DispatchRefused(i) PROVE IrpPhases'
  BY <1>4 DEF DispatchRefused, Step, Stages
<1>5. ASSUME NEW i \in Irps, SetDispatched(i) PROVE IrpPhases'
  BY <1>5 DEF SetDispatched, Step, Stages
<1>6. ASSUME NEW i \in Irps, DriverReturns(i) PROVE IrpPhases'
  BY <1>6 DEF DriverReturns, Step, MarkComplete, Stages
<1>7. ASSUME NEW i \in Irps, IoIrpMarkPending(i) PROVE IrpPhases'
  BY <1>7 DEF IoIrpMarkPending, Step, Stages
<1>8. ASSUME NEW i \in Irps, ReferencePending(i) PROVE IrpPhases'
  BY <1>8 DEF ReferencePending, Step, Stages
<1>9. ASSUME NEW i \in Irps, NeedCancel(i) PROVE IrpPhases'
  BY <1>9 DEF NeedCancel, Step, AwaitIrp, Stages
<1>10. ASSUME NEW i \in Irps, Recancel(i) PROVE IrpPhases'
  BY <1>10 DEF Recancel, Step, AwaitIrp, Cancelled, Stages
<1>11. ASSUME NEW i \in Irps, HandOut(i) PROVE IrpPhases'
  BY <1>11 DEF HandOut, Step, Stages
<1>12. ASSUME NEW i \in Irps, EventSet(i) PROVE IrpPhases'
  BY <1>12 DEF EventSet, Step, Stages
<1>13. ASSUME NEW i \in Irps, InlineDone(i) PROVE IrpPhases'
  BY <1>13 DEF InlineDone, Step, Stages
<1>14. ASSUME NEW i \in Irps, Leave(i) PROVE IrpPhases'
  BY <1>14 DEF Leave, Step, Dereference, FreesIrp, Stages
<1>15. ASSUME NEW i \in Irps, IoIrpComplete(i) PROVE IrpPhases'
  BY <1>15 DEF IoIrpComplete, MarkComplete, Stages
<1>16. ASSUME NEW i \in Irps, IopFileObjectRemoveDispatched(i) PROVE IrpPhases'
  BY <1>16 DEF IopFileObjectRemoveDispatched, LastAwaited, Stages
<1>17. ASSUME NEW i \in Irps, ResumeCompletion(i) PROVE IrpPhases'
  BY <1>17 DEF ResumeCompletion, Stages
<1>18. ASSUME NEW i \in Irps, CompleteType(i) PROVE IrpPhases'
  BY <1>18 DEF CompleteType, Stages
<1>19. ASSUME NEW i \in Irps, CallBack(i) PROVE IrpPhases'
  BY <1>19 DEF CallBack, Dereference, FreesIrp, Stages
<1>20. ASSUME NEW i \in Irps, CompleteCaller(i) PROVE IrpPhases'
  BY <1>20 DEF CompleteCaller, Dereference, FreesIrp, Stages
<1>21. ASSUME NEW i \in Irps, IoCancelAsyncCancelContext(i) PROVE IrpPhases'
  BY <1>21 DEF IoCancelAsyncCancelContext, Cancelled, Stages
<1>22. ASSUME NEW k \in Closers, RundownEnter(k) PROVE IrpPhases'
  BY <1>22 DEF RundownEnter, Goto, Token, Stages
<1>23. ASSUME NEW k \in Closers, RundownCancel(k) PROVE IrpPhases'
  BY <1>23 DEF RundownCancel, Gather, Gathered, Cancellers, IdleUnused
<1>24. ASSUME NEW k \in Cancellers, CancelNext(k) PROVE IrpPhases'
  BY <1>24 DEF CancelNext, Step, Cancelled, Dereference, FreesIrp, Cancellers
<1>25. ASSUME NEW k \in Closers, RundownWait(k) PROVE IrpPhases'
  BY <1>25 DEF RundownWait, Goto, Stages
<1>26. ASSUME NEW k \in Closers, IopContinueAsyncCloseFile(k) PROVE IrpPhases'
  BY <1>26 DEF IopContinueAsyncCloseFile, Goto, Stages
<1>27. ASSUME NEW k \in Closers, CloseComplete(k) PROVE IrpPhases'
  BY <1>27 DEF CloseComplete, CloseFlags, Goto, Token, Stages
<1>28. CASE IoCancelFile
  BY <1>28 DEF IoCancelFile, Gather, Gathered, Cancellers, IdleUnused
<1>29. CASE IopIpcCloseFile
  BY <1>29 DEF IopIpcCloseFile, Goto, Stages
<1>30. CASE IopIpcCleanupFileHandle
  BY <1>30 DEF IopIpcCleanupFileHandle, Goto, Stages
<1>31. CASE IopDeviceRundown
  BY <1>31 DEF IopDeviceRundown, Goto, Stages
<1>32. CASE SpuriousWakeup
  BY <1>32 DEF SpuriousWakeup, Goto, Stages
<1>33. CASE IopFileObjectFree
  BY <1>33 DEF IopFileObjectFree, Stages
<1>34. CASE UNCHANGED vars
  BY <1>34
<1> QED
  BY <1>1, <1>2, <1>3, <1>4, <1>5, <1>6, <1>7, <1>8, <1>9, <1>10, <1>11, <1>12, <1>13, <1>14,
     <1>15, <1>16, <1>17, <1>18, <1>19, <1>20, <1>21, <1>22, <1>23, <1>24, <1>25, <1>26, <1>27,
     <1>28, <1>29, <1>30, <1>31, <1>32, <1>33, <1>34 DEF Next, Caller, Completion, Closer,
     Cancellers

\* The client's handle appears once, at the end of the create.
LEMMA HandlePhaseStep ==
  ASSUME Types, IrpPhases, HandlePhase, [Next]_vars PROVE HandlePhase'
<1> USE DEF Types, IrpPhases, HandlePhase, ReturnsStatus, irpVars, fileVars, closeVars, boundVars,
   ghostVars, vars, Closers, Cancellers
<1>0. Create \in Irps
  BY DEF Irps
<1>1. ASSUME NEW i \in Irps, IopIrpAttach(i) PROVE HandlePhase'
  BY <1>1, <1>0 DEF IopIrpAttach, Step
<1>2. ASSUME NEW i \in Irps, AttachRefused(i) PROVE HandlePhase'
  BY <1>2, <1>0 DEF AttachRefused, Step
<1>3. ASSUME NEW i \in Irps, IopFileObjectAddDispatched(i) PROVE HandlePhase'
  BY <1>3, <1>0 DEF IopFileObjectAddDispatched, Step
<1>4. ASSUME NEW i \in Irps, DispatchRefused(i) PROVE HandlePhase'
  BY <1>4, <1>0 DEF DispatchRefused, Step
<1>5. ASSUME NEW i \in Irps, SetDispatched(i) PROVE HandlePhase'
  BY <1>5, <1>0 DEF SetDispatched, Step
<1>6. ASSUME NEW i \in Irps, DriverReturns(i) PROVE HandlePhase'
  BY <1>6, <1>0 DEF DriverReturns, Step, MarkComplete
<1>7. ASSUME NEW i \in Irps, IoIrpMarkPending(i) PROVE HandlePhase'
  BY <1>7, <1>0 DEF IoIrpMarkPending, Step
<1>8. ASSUME NEW i \in Irps, ReferencePending(i) PROVE HandlePhase'
  BY <1>8, <1>0 DEF ReferencePending, Step
<1>9. ASSUME NEW i \in Irps, NeedCancel(i) PROVE HandlePhase'
  BY <1>9, <1>0 DEF NeedCancel, Step, AwaitIrp
<1>10. ASSUME NEW i \in Irps, Recancel(i) PROVE HandlePhase'
  BY <1>10, <1>0 DEF Recancel, Step, AwaitIrp, Cancelled
<1>11. ASSUME NEW i \in Irps, HandOut(i) PROVE HandlePhase'
  BY <1>11, <1>0 DEF HandOut, Step
<1>12. ASSUME NEW i \in Irps, EventSet(i) PROVE HandlePhase'
  BY <1>12, <1>0 DEF EventSet, Step
<1>13. ASSUME NEW i \in Irps, InlineDone(i) PROVE HandlePhase'
  BY <1>13, <1>0 DEF InlineDone, Step
<1>14. ASSUME NEW i \in Irps, Leave(i) PROVE HandlePhase'
  BY <1>14, <1>0 DEF Leave, Step, Dereference, FreesIrp
<1>15. ASSUME NEW i \in Irps, IoIrpComplete(i) PROVE HandlePhase'
  BY <1>15, <1>0 DEF IoIrpComplete, MarkComplete
<1>16. ASSUME NEW i \in Irps, IopFileObjectRemoveDispatched(i) PROVE HandlePhase'
  BY <1>16, <1>0 DEF IopFileObjectRemoveDispatched, LastAwaited
<1>17. ASSUME NEW i \in Irps, ResumeCompletion(i) PROVE HandlePhase'
  BY <1>17, <1>0 DEF ResumeCompletion
<1>18. ASSUME NEW i \in Irps, CompleteType(i) PROVE HandlePhase'
  BY <1>18, <1>0 DEF CompleteType
<1>19. ASSUME NEW i \in Irps, CallBack(i) PROVE HandlePhase'
  BY <1>19, <1>0 DEF CallBack, Dereference, FreesIrp
<1>20. ASSUME NEW i \in Irps, CompleteCaller(i) PROVE HandlePhase'
  BY <1>20, <1>0 DEF CompleteCaller, Dereference, FreesIrp
<1>21. ASSUME NEW i \in Irps, IoCancelAsyncCancelContext(i) PROVE HandlePhase'
  BY <1>21, <1>0 DEF IoCancelAsyncCancelContext, Cancelled
<1>22. ASSUME NEW k \in Closers, RundownEnter(k) PROVE HandlePhase'
  BY <1>22, <1>0 DEF RundownEnter, Goto, Token
<1>23. ASSUME NEW k \in Closers, RundownCancel(k) PROVE HandlePhase'
  BY <1>23, <1>0 DEF RundownCancel, Gather, Gathered
<1>24. ASSUME NEW k \in Cancellers, CancelNext(k) PROVE HandlePhase'
  BY <1>24, <1>0 DEF CancelNext, Step, Cancelled, Dereference, FreesIrp
<1>25. ASSUME NEW k \in Closers, RundownWait(k) PROVE HandlePhase'
  BY <1>25, <1>0 DEF RundownWait, Goto
<1>26. ASSUME NEW k \in Closers, IopContinueAsyncCloseFile(k) PROVE HandlePhase'
  BY <1>26, <1>0 DEF IopContinueAsyncCloseFile, Goto
<1>27. ASSUME NEW k \in Closers, CloseComplete(k) PROVE HandlePhase'
  BY <1>27, <1>0 DEF CloseComplete, CloseFlags, Goto, Token
<1>28. CASE IoCancelFile
  BY <1>28, <1>0 DEF IoCancelFile, Gather, Gathered
<1>29. CASE IopIpcCloseFile
  BY <1>29, <1>0 DEF IopIpcCloseFile, Goto
<1>30. CASE IopIpcCleanupFileHandle
  BY <1>30, <1>0 DEF IopIpcCleanupFileHandle, Goto
<1>31. CASE IopDeviceRundown
  BY <1>31, <1>0 DEF IopDeviceRundown, Goto
<1>32. CASE SpuriousWakeup
  BY <1>32, <1>0 DEF SpuriousWakeup, Goto
<1>33. CASE IopFileObjectFree
  BY <1>33, <1>0 DEF IopFileObjectFree
<1>34. CASE UNCHANGED vars
  BY <1>34
<1> QED
  BY <1>1, <1>2, <1>3, <1>4, <1>5, <1>6, <1>7, <1>8, <1>9, <1>10, <1>11, <1>12, <1>13, <1>14,
     <1>15, <1>16, <1>17, <1>18, <1>19, <1>20, <1>21, <1>22, <1>23, <1>24, <1>25, <1>26, <1>27,
     <1>28, <1>29, <1>30, <1>31, <1>32, <1>33, <1>34 DEF Next, Caller, Completion, Closer,
     Cancellers


\* A cancel list is empty but for the time its IRPs are being cancelled.
LEMMA ListPhasesStep ==
  ASSUME Types, ListPhases, HandlePhase, [Next]_vars PROVE ListPhases'
<1> USE DEF Types, ListPhases, irpVars, fileVars, closeVars, boundVars, ghostVars, vars, Closers,
   Cancellers
<1>1. ASSUME NEW i \in Irps, IopIrpAttach(i) PROVE ListPhases'
  BY <1>1 DEF IopIrpAttach, Step
<1>2. ASSUME NEW i \in Irps, AttachRefused(i) PROVE ListPhases'
  BY <1>2 DEF AttachRefused, Step
<1>3. ASSUME NEW i \in Irps, IopFileObjectAddDispatched(i) PROVE ListPhases'
  BY <1>3 DEF IopFileObjectAddDispatched, Step
<1>4. ASSUME NEW i \in Irps, DispatchRefused(i) PROVE ListPhases'
  BY <1>4 DEF DispatchRefused, Step
<1>5. ASSUME NEW i \in Irps, SetDispatched(i) PROVE ListPhases'
  BY <1>5 DEF SetDispatched, Step
<1>6. ASSUME NEW i \in Irps, DriverReturns(i) PROVE ListPhases'
  BY <1>6 DEF DriverReturns, Step, MarkComplete
<1>7. ASSUME NEW i \in Irps, IoIrpMarkPending(i) PROVE ListPhases'
  BY <1>7 DEF IoIrpMarkPending, Step
<1>8. ASSUME NEW i \in Irps, ReferencePending(i) PROVE ListPhases'
  BY <1>8 DEF ReferencePending, Step
<1>9. ASSUME NEW i \in Irps, NeedCancel(i) PROVE ListPhases'
  BY <1>9 DEF NeedCancel, Step, AwaitIrp
<1>10. ASSUME NEW i \in Irps, Recancel(i) PROVE ListPhases'
  BY <1>10 DEF Recancel, Step, AwaitIrp, Cancelled
<1>11. ASSUME NEW i \in Irps, HandOut(i) PROVE ListPhases'
  BY <1>11 DEF HandOut, Step
<1>12. ASSUME NEW i \in Irps, EventSet(i) PROVE ListPhases'
  BY <1>12 DEF EventSet, Step
<1>13. ASSUME NEW i \in Irps, InlineDone(i) PROVE ListPhases'
  BY <1>13 DEF InlineDone, Step
<1>14. ASSUME NEW i \in Irps, Leave(i) PROVE ListPhases'
  BY <1>14 DEF Leave, Step, Dereference, FreesIrp
<1>15. ASSUME NEW i \in Irps, IoIrpComplete(i) PROVE ListPhases'
  BY <1>15 DEF IoIrpComplete, MarkComplete
<1>16. ASSUME NEW i \in Irps, IopFileObjectRemoveDispatched(i) PROVE ListPhases'
  BY <1>16 DEF IopFileObjectRemoveDispatched, LastAwaited
<1>17. ASSUME NEW i \in Irps, ResumeCompletion(i) PROVE ListPhases'
  BY <1>17 DEF ResumeCompletion
<1>18. ASSUME NEW i \in Irps, CompleteType(i) PROVE ListPhases'
  BY <1>18 DEF CompleteType
<1>19. ASSUME NEW i \in Irps, CallBack(i) PROVE ListPhases'
  BY <1>19 DEF CallBack, Dereference, FreesIrp
<1>20. ASSUME NEW i \in Irps, CompleteCaller(i) PROVE ListPhases'
  BY <1>20 DEF CompleteCaller, Dereference, FreesIrp
<1>21. ASSUME NEW i \in Irps, IoCancelAsyncCancelContext(i) PROVE ListPhases'
  BY <1>21 DEF IoCancelAsyncCancelContext, Cancelled
<1>22. ASSUME NEW k \in Closers, RundownEnter(k) PROVE ListPhases'
  BY <1>22 DEF RundownEnter, Goto, Token
<1>23. ASSUME NEW k \in Closers, RundownCancel(k) PROVE ListPhases'
  BY <1>23 DEF RundownCancel, Gather, Gathered
<1>24. ASSUME NEW k \in Cancellers, CancelNext(k) PROVE ListPhases'
  BY <1>24 DEF CancelNext, Step, Cancelled, Dereference, FreesIrp
<1>25. ASSUME NEW k \in Closers, RundownWait(k) PROVE ListPhases'
  BY <1>25 DEF RundownWait, Goto
<1>26. ASSUME NEW k \in Closers, IopContinueAsyncCloseFile(k) PROVE ListPhases'
  BY <1>26 DEF IopContinueAsyncCloseFile, Goto
<1>27. ASSUME NEW k \in Closers, CloseComplete(k) PROVE ListPhases'
  BY <1>27 DEF CloseComplete, CloseFlags, Goto, Token
<1>28. CASE IoCancelFile
  BY <1>28 DEF IoCancelFile, Gather, Gathered
<1>29. CASE IopIpcCloseFile
  BY <1>29 DEF IopIpcCloseFile, Goto
<1>30. CASE IopIpcCleanupFileHandle
  BY <1>30 DEF IopIpcCleanupFileHandle, Goto, HandlePhase
<1>31. CASE IopDeviceRundown
  BY <1>31 DEF IopDeviceRundown, Goto
<1>32. CASE SpuriousWakeup
  BY <1>32 DEF SpuriousWakeup, Goto
<1>33. CASE IopFileObjectFree
  BY <1>33 DEF IopFileObjectFree
<1>34. CASE UNCHANGED vars
  BY <1>34
<1> QED
  BY <1>1, <1>2, <1>3, <1>4, <1>5, <1>6, <1>7, <1>8, <1>9, <1>10, <1>11, <1>12, <1>13, <1>14,
     <1>15, <1>16, <1>17, <1>18, <1>19, <1>20, <1>21, <1>22, <1>23, <1>24, <1>25, <1>26, <1>27,
     <1>28, <1>29, <1>30, <1>31, <1>32, <1>33, <1>34 DEF Next, Caller, Completion, Closer,
     Cancellers

\* The cancel lists that IRP i is on, and their number.
Lists(i) == {t \in Cancellers : i \in gathered[t]}

N(i) == Cardinality(Lists(i))

\* IrpRefsExact, with the number of cancel lists named.
IrpRefs ==
  \A i \in Irps : refs[i] = One(UsedByCaller, i) + One(UsedByDriver, i) + One(extra, i) + N(i)

\* There are four cancellers.
LEMMA CancellersFinite == IsFiniteSet(Cancellers)
<1>1. Cancellers = ((({} \cup {"call"}) \cup {"cleanup"}) \cup {"device"}) \cup {"cancel"}
  BY DEF Cancellers, Closers
<1> QED
  BY <1>1, FS_EmptySet, FS_AddElement

\* The number of cancel lists an IRP is on is a natural number.
LEMMA NNat == \A i \in Irps : N(i) \in Nat
  <1> SUFFICES ASSUME NEW i \in Irps PROVE N(i) \in Nat
    OBVIOUS
  <1>1. Lists(i) \in SUBSET Cancellers
    BY DEF Lists
  <1> QED
   BY <1>1, CancellersFinite, FS_Subset, FS_CardinalityType DEF N

\* It changes only with the lists.
LEMMA NSame == ASSUME gathered' = gathered PROVE \A i \in Irps : N(i)' = N(i)
  BY DEF N, Lists

\* Taking an IRP from a list takes one from its number and from no other.
LEMMA NTaken ==
  ASSUME Types, NEW k \in Cancellers, NEW i \in gathered[k],
         gathered' = [gathered EXCEPT ![k] = @ \ {i}]
  PROVE \A j \in Irps : N(j)' = N(j) - (IF j = i THEN 1 ELSE 0)
<1> SUFFICES ASSUME NEW j \in Irps PROVE N(j)' = N(j) - (IF j = i THEN 1 ELSE 0)
  OBVIOUS
<1>1. IsFiniteSet(Lists(j))
  BY CancellersFinite, FS_Subset DEF Lists
<1>2. CASE j = i
  <2>1. Lists(j)' = Lists(j) \ {k} /\ k \in Lists(j)
    BY <1>2 DEF Lists, Types
  <2> QED
    BY <2>1, <1>1, <1>2, FS_RemoveElement DEF N
<1>3. CASE j # i
  <2>1. Lists(j)' = Lists(j)
    BY <1>3 DEF Lists, Types
  <2> QED
    BY <2>1, <1>3, NNat DEF N
<1> QED
  BY <1>2, <1>3

\* Gathering the IRPs G into an empty list adds one to the number of each.
LEMMA NGathered ==
  ASSUME Types, NEW k \in Cancellers, gathered[k] = {}, NEW G \in SUBSET Irps,
         gathered' = [gathered EXCEPT ![k] = G]
  PROVE \A j \in Irps : N(j)' = N(j) + (IF j \in G THEN 1 ELSE 0)
<1> SUFFICES ASSUME NEW j \in Irps PROVE N(j)' = N(j) + (IF j \in G THEN 1 ELSE 0)
  OBVIOUS
<1>1. IsFiniteSet(Lists(j))
  BY CancellersFinite, FS_Subset DEF Lists
<1>2. CASE j \in G
  <2>1. Lists(j)' = Lists(j) \cup {k} /\ k \notin Lists(j)
    BY <1>2 DEF Lists, Types
  <2> QED
    BY <2>1, <1>1, <1>2, FS_AddElement DEF N
<1>3. CASE j \notin G
  <2>1. Lists(j)' = Lists(j)
    BY <1>3 DEF Lists, Types
  <2> QED
    BY <2>1, <1>3, NNat DEF N
<1> QED
  BY <1>2, <1>3

\* An IRP that was not created is on no list.
LEMMA IdleUnlisted == ASSUME IrpPhases, NEW i \in Irps, pc[i] = "idle" PROVE N(i) = 0
<1>1. Lists(i) = {}
  BY DEF IrpPhases, Lists
<1> QED
  BY <1>1, FS_EmptySet DEF N

\* Every action keeps the count of every IRP exact: a reference is taken before
\* its user exists and given back after its user is gone.
LEMMA IrpRefsStep ==
  ASSUME Types, IrpPhases, ListPhases, IrpRefs, [Next]_vars PROVE IrpRefs'
<1> USE NNat DEF Types, IrpPhases, IrpRefs, irpVars, fileVars, closeVars, boundVars, ghostVars,
   vars, One, UsedByCaller, UsedByDriver
<1>1. ASSUME NEW i \in Irps, IopIrpAttach(i) PROVE IrpRefs'
  <2>1. N(i) = 0
    BY <1>1, IdleUnlisted DEF IopIrpAttach
  <2> QED
    BY <1>1, <2>1, NSame DEF IopIrpAttach, Step, Stages
<1>2. ASSUME NEW i \in Irps, AttachRefused(i) PROVE IrpRefs'
  BY <1>2, NSame DEF AttachRefused, Step, Stages
<1>3. ASSUME NEW i \in Irps, IopFileObjectAddDispatched(i) PROVE IrpRefs'
  BY <1>3, NSame DEF IopFileObjectAddDispatched, Step, Stages
<1>4. ASSUME NEW i \in Irps, DispatchRefused(i) PROVE IrpRefs'
  BY <1>4, NSame DEF DispatchRefused, Step, Stages
<1>5. ASSUME NEW i \in Irps, SetDispatched(i) PROVE IrpRefs'
  BY <1>5, NSame DEF SetDispatched, Step, Stages
<1>6. ASSUME NEW i \in Irps, DriverReturns(i) PROVE IrpRefs'
  BY <1>6, NSame DEF DriverReturns, Step, MarkComplete, Stages
<1>7. ASSUME NEW i \in Irps, IoIrpMarkPending(i) PROVE IrpRefs'
  BY <1>7, NSame DEF IoIrpMarkPending, Step, Stages
<1>8. ASSUME NEW i \in Irps, ReferencePending(i) PROVE IrpRefs'
  BY <1>8, NSame DEF ReferencePending, Step, Stages
<1>9. ASSUME NEW i \in Irps, NeedCancel(i) PROVE IrpRefs'
  BY <1>9, NSame DEF NeedCancel, Step, AwaitIrp, Stages
<1>10. ASSUME NEW i \in Irps, Recancel(i) PROVE IrpRefs'
  BY <1>10, NSame DEF Recancel, Step, AwaitIrp, Cancelled, Stages
<1>11. ASSUME NEW i \in Irps, HandOut(i) PROVE IrpRefs'
  BY <1>11, NSame DEF HandOut, Step, Stages
<1>12. ASSUME NEW i \in Irps, EventSet(i) PROVE IrpRefs'
  BY <1>12, NSame DEF EventSet, Step, Stages
<1>13. ASSUME NEW i \in Irps, InlineDone(i) PROVE IrpRefs'
  BY <1>13, NSame DEF InlineDone, Step, Stages
<1>14. ASSUME NEW i \in Irps, Leave(i) PROVE IrpRefs'
  BY <1>14, NSame DEF Leave, Step, Dereference, FreesIrp, Stages
<1>15. ASSUME NEW i \in Irps, IoIrpComplete(i) PROVE IrpRefs'
  BY <1>15, NSame DEF IoIrpComplete, MarkComplete, Stages
<1>16. ASSUME NEW i \in Irps, IopFileObjectRemoveDispatched(i) PROVE IrpRefs'
  BY <1>16, NSame DEF IopFileObjectRemoveDispatched, LastAwaited, Stages
<1>17. ASSUME NEW i \in Irps, ResumeCompletion(i) PROVE IrpRefs'
  BY <1>17, NSame DEF ResumeCompletion, Stages
<1>18. ASSUME NEW i \in Irps, CompleteType(i) PROVE IrpRefs'
  BY <1>18, NSame DEF CompleteType, Stages
<1>19. ASSUME NEW i \in Irps, CallBack(i) PROVE IrpRefs'
  BY <1>19, NSame DEF CallBack, Dereference, FreesIrp, Stages
<1>20. ASSUME NEW i \in Irps, CompleteCaller(i) PROVE IrpRefs'
  BY <1>20, NSame DEF CompleteCaller, Dereference, FreesIrp, Stages
<1>21. ASSUME NEW i \in Irps, IoCancelAsyncCancelContext(i) PROVE IrpRefs'
  BY <1>21, NSame DEF IoCancelAsyncCancelContext, Cancelled, Stages
<1>22. ASSUME NEW k \in Closers, RundownEnter(k) PROVE IrpRefs'
  BY <1>22, NSame DEF RundownEnter, Goto, Token, Stages
<1>23. ASSUME NEW k \in Closers, RundownCancel(k) PROVE IrpRefs'
  <2>1. CASE "CANCELLED" \in fflags
    BY <1>23, <2>1, NSame DEF RundownCancel, Gather
  <2>2. CASE "CANCELLED" \notin fflags
    <3>1. \A j \in Irps : N(j)' = N(j) + (IF j \in Gathered THEN 1 ELSE 0)
      <4>1. gathered[k] = {}
        BY <1>23 DEF RundownCancel, ListPhases, Cancellers
      <4>2. Gathered \in SUBSET Irps /\ gathered' = [gathered EXCEPT ![k] = Gathered]
        BY <1>23, <2>2 DEF RundownCancel, Gather, Gathered
      <4> QED
        BY <4>1, <4>2, NGathered DEF Cancellers
    <3> QED
      BY <1>23, <2>2, <3>1 DEF RundownCancel, Gather, Gathered
  <2> QED
    BY <2>1, <2>2
<1>24. ASSUME NEW k \in Cancellers, CancelNext(k) PROVE IrpRefs'
  <2>1. PICK i \in gathered[k] : CancelNext(k)!(i)
    BY <1>24 DEF CancelNext
  <2>2. \A j \in Irps : N(j)' = N(j) - (IF j = i THEN 1 ELSE 0)
    <3>1. gathered' = [gathered EXCEPT ![k] = @ \ {i}]
      BY <2>1
    <3> HIDE DEF Types, IrpPhases, IrpRefs, One, UsedByCaller, UsedByDriver
    <3> QED
      BY <3>1, NTaken
  <2>3. /\ flags' \in [Irps -> SUBSET IrpFlags]
        /\ \A j \in Irps : "PENDING" \in flags'[j] <=> "PENDING" \in flags[j]
    BY <2>1 DEF Cancelled, IrpFlags
  <2>4. \A j \in Irps : /\ pc'[j] = pc[j] \/ (pc[j] = "counted" /\ pc'[j] = "driver")
                        /\ refs'[j] = refs[j] - (IF j = i THEN 1 ELSE 0)
    BY <2>1 DEF Dereference, Step
  <2>5. stage' = stage /\ extra' = extra
    BY <2>1
  <2>6. \A j \in Irps : /\ One(UsedByCaller, j)' = One(UsedByCaller, j)
                        /\ One(UsedByDriver, j)' = One(UsedByDriver, j)
    BY <2>3, <2>4, <2>5
  <2> QED
    BY <2>2, <2>4, <2>5, <2>6
<1>25. ASSUME NEW k \in Closers, RundownWait(k) PROVE IrpRefs'
  BY <1>25, NSame DEF RundownWait, Goto, Stages
<1>26. ASSUME NEW k \in Closers, IopContinueAsyncCloseFile(k) PROVE IrpRefs'
  BY <1>26, NSame DEF IopContinueAsyncCloseFile, Goto, Stages
<1>27. ASSUME NEW k \in Closers, CloseComplete(k) PROVE IrpRefs'
  BY <1>27, NSame DEF CloseComplete, CloseFlags, Goto, Token, Stages
<1>28. CASE IoCancelFile
  <2>1. CASE "CANCELLED" \in fflags
    BY <1>28, <2>1, NSame DEF IoCancelFile, Gather
  <2>2. CASE "CANCELLED" \notin fflags
    <3>1. \A j \in Irps : N(j)' = N(j) + (IF j \in Gathered THEN 1 ELSE 0)
      <4>1. gathered["cancel"] = {}
        BY <1>28 DEF IoCancelFile, ListPhases, Cancellers
      <4>2. Gathered \in SUBSET Irps /\ gathered' = [gathered EXCEPT !["cancel"] = Gathered]
        BY <1>28, <2>2 DEF IoCancelFile, Gather, Gathered
      <4> QED
        BY <4>1, <4>2, NGathered DEF Cancellers
    <3> QED
      BY <1>28, <2>2, <3>1 DEF IoCancelFile, Gather, Gathered
  <2> QED
    BY <2>1, <2>2
<1>29. CASE IopIpcCloseFile
  BY <1>29, NSame DEF IopIpcCloseFile, Goto, Stages
<1>30. CASE IopIpcCleanupFileHandle
  BY <1>30, NSame DEF IopIpcCleanupFileHandle, Goto, Stages
<1>31. CASE IopDeviceRundown
  BY <1>31, NSame DEF IopDeviceRundown, Goto, Stages
<1>32. CASE SpuriousWakeup
  BY <1>32, NSame DEF SpuriousWakeup, Goto, Stages
<1>33. CASE IopFileObjectFree
  BY <1>33, NSame DEF IopFileObjectFree, Stages
<1>34. CASE UNCHANGED vars
  BY <1>34, NSame
<1> QED
  BY <1>1, <1>2, <1>3, <1>4, <1>5, <1>6, <1>7, <1>8, <1>9, <1>10, <1>11, <1>12, <1>13, <1>14,
     <1>15, <1>16, <1>17, <1>18, <1>19, <1>20, <1>21, <1>22, <1>23, <1>24, <1>25, <1>26, <1>27,
     <1>28, <1>29, <1>30, <1>31, <1>32, <1>33, <1>34 DEF Next, Caller, Completion, Closer,
     Cancellers

-----------------------------------------------------------------------------
(* The count of dispatched IRPs and the rundown.                           *)

\* The sets behind DispatchedIrpCount and the count itself stay as they are.
CountSame == InDriver' = InDriver /\ Closing' = Closing /\ dispatched' = dispatched

\* A file has finitely many IRPs.
LEMMA IrpsFinite == IsFiniteSet(Irps)
  BY IoFileConstants, FS_AddElement DEF Irps

\* Only four actions move an IRP into the driver or out of it.
LEMMA CountStep ==
  ASSUME Types, IrpPhases, HandlePhase, [Next]_vars
  PROVE  \/ CountSame
         \/ \E i \in Irps : IopFileObjectAddDispatched(i) \/ IopFileObjectRemoveDispatched(i)
         \/ \E k \in Closers : IopContinueAsyncCloseFile(k) \/ CloseComplete(k)
<1> DEFINE Goal ==
         \/ CountSame
         \/ \E i \in Irps : IopFileObjectAddDispatched(i) \/ IopFileObjectRemoveDispatched(i)
         \/ \E k \in Closers : IopContinueAsyncCloseFile(k) \/ CloseComplete(k)
<1> USE DEF Types, IrpPhases, CountSame, InDriver, Closing, irpVars, fileVars, closeVars,
   boundVars, ghostVars, vars
<1>1. ASSUME NEW i \in Irps, IopIrpAttach(i) PROVE Goal
  BY <1>1 DEF IopIrpAttach, Step, Stages
<1>2. ASSUME NEW i \in Irps, AttachRefused(i) PROVE Goal
  BY <1>2 DEF AttachRefused, Step, Stages
<1>3. ASSUME NEW i \in Irps, IopFileObjectAddDispatched(i) PROVE Goal
  BY <1>3
<1>4. ASSUME NEW i \in Irps, DispatchRefused(i) PROVE Goal
  BY <1>4 DEF DispatchRefused, Step, Stages
<1>5. ASSUME NEW i \in Irps, SetDispatched(i) PROVE Goal
  BY <1>5 DEF SetDispatched, Step, Stages
<1>6. ASSUME NEW i \in Irps, DriverReturns(i) PROVE Goal
  BY <1>6 DEF DriverReturns, Step, MarkComplete, Stages
<1>7. ASSUME NEW i \in Irps, IoIrpMarkPending(i) PROVE Goal
  BY <1>7 DEF IoIrpMarkPending, Step, Stages
<1>8. ASSUME NEW i \in Irps, ReferencePending(i) PROVE Goal
  BY <1>8 DEF ReferencePending, Step, Stages
<1>9. ASSUME NEW i \in Irps, NeedCancel(i) PROVE Goal
  BY <1>9 DEF NeedCancel, Step, AwaitIrp, Stages
<1>10. ASSUME NEW i \in Irps, Recancel(i) PROVE Goal
  BY <1>10 DEF Recancel, Step, AwaitIrp, Cancelled, Stages
<1>11. ASSUME NEW i \in Irps, HandOut(i) PROVE Goal
  BY <1>11 DEF HandOut, Step, Stages
<1>12. ASSUME NEW i \in Irps, EventSet(i) PROVE Goal
  BY <1>12 DEF EventSet, Step, Stages
<1>13. ASSUME NEW i \in Irps, InlineDone(i) PROVE Goal
  BY <1>13 DEF InlineDone, Step, Stages
<1>14. ASSUME NEW i \in Irps, Leave(i) PROVE Goal
  BY <1>14 DEF Leave, Step, Dereference, FreesIrp, Stages
<1>15. ASSUME NEW i \in Irps, IoIrpComplete(i) PROVE Goal
  BY <1>15 DEF IoIrpComplete, MarkComplete, Stages
<1>16. ASSUME NEW i \in Irps, IopFileObjectRemoveDispatched(i) PROVE Goal
  BY <1>16
<1>17. ASSUME NEW i \in Irps, ResumeCompletion(i) PROVE Goal
  BY <1>17 DEF ResumeCompletion, Stages
<1>18. ASSUME NEW i \in Irps, CompleteType(i) PROVE Goal
  BY <1>18 DEF CompleteType, Stages
<1>19. ASSUME NEW i \in Irps, CallBack(i) PROVE Goal
  BY <1>19 DEF CallBack, Dereference, FreesIrp, Stages
<1>20. ASSUME NEW i \in Irps, CompleteCaller(i) PROVE Goal
  BY <1>20 DEF CompleteCaller, Dereference, FreesIrp, Stages
<1>21. ASSUME NEW i \in Irps, IoCancelAsyncCancelContext(i) PROVE Goal
  BY <1>21 DEF IoCancelAsyncCancelContext, Cancelled, Stages
<1>22. ASSUME NEW k \in Closers, RundownEnter(k) PROVE Goal
  BY <1>22 DEF RundownEnter, Goto, Token, Closers, Cancellers
<1>23. ASSUME NEW k \in Closers, RundownCancel(k) PROVE Goal
  BY <1>23 DEF RundownCancel, Gather, Gathered, Closers, Cancellers
<1>24. ASSUME NEW k \in Cancellers, CancelNext(k) PROVE Goal
  BY <1>24 DEF CancelNext, Step, Cancelled, Dereference, FreesIrp, IrpFlags
<1>25. ASSUME NEW k \in Closers, RundownWait(k) PROVE Goal
  BY <1>25 DEF RundownWait, Goto, Closers, Cancellers
<1>26. ASSUME NEW k \in Closers, IopContinueAsyncCloseFile(k) PROVE Goal
  BY <1>26
<1>27. ASSUME NEW k \in Closers, CloseComplete(k) PROVE Goal
  BY <1>27
<1>28. CASE IoCancelFile
  BY <1>28 DEF IoCancelFile, Gather, Gathered, Closers, Cancellers
<1>29. CASE IopIpcCloseFile
  BY <1>29 DEF IopIpcCloseFile, Goto, Closers, Cancellers
<1>30. CASE IopIpcCleanupFileHandle
  BY <1>30 DEF IopIpcCleanupFileHandle, HandlePhase, Goto, Closers, Cancellers
<1>31. CASE IopDeviceRundown
  BY <1>31 DEF IopDeviceRundown, Goto, Closers, Cancellers
<1>32. CASE SpuriousWakeup
  BY <1>32 DEF SpuriousWakeup, Goto, Closers, Cancellers
<1>33. CASE IopFileObjectFree
  BY <1>33 DEF IopFileObjectFree, Closers, Cancellers
<1>34. CASE UNCHANGED vars
  BY <1>34
<1> QED
  BY <1>1, <1>2, <1>3, <1>4, <1>5, <1>6, <1>7, <1>8, <1>9, <1>10, <1>11, <1>12, <1>13, <1>14,
     <1>15, <1>16, <1>17, <1>18, <1>19, <1>20, <1>21, <1>22, <1>23, <1>24, <1>25, <1>26, <1>27,
     <1>28, <1>29, <1>30, <1>31, <1>32, <1>33, <1>34 DEF Next, Caller, Completion, Closer,
     Cancellers

\* Both sets are finite.
LEMMA CountsFinite ==
  /\ IsFiniteSet(InDriver) /\ Cardinality(InDriver) \in Nat
  /\ IsFiniteSet(Closing) /\ Cardinality(Closing) \in Nat
<1>1. InDriver \in SUBSET Irps /\ Closing \in SUBSET Cancellers
  BY DEF InDriver, Closing, Cancellers
<1>2. IsFiniteSet(InDriver) /\ IsFiniteSet(Closing)
  BY <1>1, IrpsFinite, CancellersFinite, FS_Subset
<1> QED
  BY <1>2, FS_CardinalityType

\* DispatchedIrpCount stays the number of IRPs with the driver.
LEMMA DispatchedStep ==
  ASSUME Types, IrpPhases, HandlePhase, DispatchedExact, [Next]_vars PROVE DispatchedExact'
<1> USE DEF DispatchedExact
<1>0. /\ IsFiniteSet(InDriver) /\ Cardinality(InDriver) \in Nat
      /\ IsFiniteSet(Closing) /\ Cardinality(Closing) \in Nat
  BY CountsFinite
<1>1. CASE CountSame
  BY <1>1 DEF CountSame
<1>2. ASSUME NEW i \in Irps, IopFileObjectAddDispatched(i) PROVE DispatchedExact'
  <2>1. InDriver' = InDriver \cup {i} /\ i \notin InDriver
    BY <1>2 DEF IopFileObjectAddDispatched, InDriver, Types, IrpPhases, Step
  <2>2. Closing' = Closing /\ dispatched' = dispatched + 1
    BY <1>2 DEF IopFileObjectAddDispatched, Closing, closeVars
  <2>3. Cardinality(InDriver)' = Cardinality(InDriver) + 1
    BY <1>0, <2>1, FS_AddElement
  <2> QED
    BY <1>0, <2>2, <2>3
<1>3. ASSUME NEW i \in Irps, IopFileObjectRemoveDispatched(i) PROVE DispatchedExact'
  <2>1. InDriver' = InDriver \ {i} /\ i \in InDriver
    BY <1>3 DEF IopFileObjectRemoveDispatched, InDriver, Types, IrpPhases
  <2>2. Closing' = Closing /\ dispatched' = dispatched - 1
    BY <1>3 DEF IopFileObjectRemoveDispatched, Closing, Types, Cancellers
  <2>3. Cardinality(InDriver)' = Cardinality(InDriver) - 1
    BY <1>0, <2>1, FS_RemoveElement
  <2> QED
    BY <1>0, <2>2, <2>3
<1>4. ASSUME NEW k \in Closers, IopContinueAsyncCloseFile(k) PROVE DispatchedExact'
  <2>1. InDriver' = InDriver
    BY <1>4 DEF IopContinueAsyncCloseFile, InDriver, irpVars
  <2>2. CASE "CREATE_DONE" \in fflags
    <3>1. Closing' = Closing \cup {k} /\ k \notin Closing /\ dispatched' = dispatched + 1
      BY <1>4, <2>2 DEF IopContinueAsyncCloseFile, Closing, Goto, Types, Cancellers
    <3>2. Cardinality(Closing)' = Cardinality(Closing) + 1
      BY <1>0, <3>1, FS_AddElement
    <3> QED
      BY <1>0, <2>1, <3>1, <3>2
  <2>3. CASE "CREATE_DONE" \notin fflags
    <3>1. Closing' = Closing /\ dispatched' = dispatched
      BY <1>4, <2>3 DEF IopContinueAsyncCloseFile, Closing, Goto, Types, Cancellers
    <3> QED
      BY <2>1, <3>1
  <2> QED
    BY <2>2, <2>3
<1>5. ASSUME NEW k \in Closers, CloseComplete(k) PROVE DispatchedExact'
  <2>1. InDriver' = InDriver
    BY <1>5 DEF CloseComplete, InDriver, irpVars
  <2>2. Closing' = Closing \ {k} /\ k \in Closing /\ dispatched' = dispatched - 1
    BY <1>5 DEF CloseComplete, Closing, Goto, Types, Cancellers
  <2>3. Cardinality(Closing)' = Cardinality(Closing) - 1
    BY <1>0, <2>2, FS_RemoveElement
  <2> QED
    BY <1>0, <2>1, <2>2, <2>3
<1> QED
  BY <1>1, <1>2, <1>3, <1>4, <1>5, CountStep

\* One closer at most runs the file down, and none once it is closed.
LEMMA ActiveStep ==
  ASSUME Types, ActivePhases, [Next]_vars PROVE ActivePhases'
<1> USE DEF Types, ActivePhases, Active, irpVars, fileVars, closeVars, boundVars, ghostVars, vars,
   Cancellers
<1>1. ASSUME NEW i \in Irps, IopIrpAttach(i) PROVE ActivePhases'
  BY <1>1 DEF IopIrpAttach, Step, FileFlags
<1>2. ASSUME NEW i \in Irps, AttachRefused(i) PROVE ActivePhases'
  BY <1>2 DEF AttachRefused, Step, FileFlags
<1>3. ASSUME NEW i \in Irps, IopFileObjectAddDispatched(i) PROVE ActivePhases'
  BY <1>3 DEF IopFileObjectAddDispatched, Step, FileFlags
<1>4. ASSUME NEW i \in Irps, DispatchRefused(i) PROVE ActivePhases'
  BY <1>4 DEF DispatchRefused, Step, FileFlags
<1>5. ASSUME NEW i \in Irps, SetDispatched(i) PROVE ActivePhases'
  BY <1>5 DEF SetDispatched, Step, FileFlags
<1>6. ASSUME NEW i \in Irps, DriverReturns(i) PROVE ActivePhases'
  BY <1>6 DEF DriverReturns, Step, MarkComplete, FileFlags
<1>7. ASSUME NEW i \in Irps, IoIrpMarkPending(i) PROVE ActivePhases'
  BY <1>7 DEF IoIrpMarkPending, Step, FileFlags
<1>8. ASSUME NEW i \in Irps, ReferencePending(i) PROVE ActivePhases'
  BY <1>8 DEF ReferencePending, Step, FileFlags
<1>9. ASSUME NEW i \in Irps, NeedCancel(i) PROVE ActivePhases'
  BY <1>9 DEF NeedCancel, Step, AwaitIrp, FileFlags
<1>10. ASSUME NEW i \in Irps, Recancel(i) PROVE ActivePhases'
  BY <1>10 DEF Recancel, Step, AwaitIrp, Cancelled, FileFlags
<1>11. ASSUME NEW i \in Irps, HandOut(i) PROVE ActivePhases'
  BY <1>11 DEF HandOut, Step, FileFlags
<1>12. ASSUME NEW i \in Irps, EventSet(i) PROVE ActivePhases'
  BY <1>12 DEF EventSet, Step, FileFlags
<1>13. ASSUME NEW i \in Irps, InlineDone(i) PROVE ActivePhases'
  BY <1>13 DEF InlineDone, Step, FileFlags
<1>14. ASSUME NEW i \in Irps, Leave(i) PROVE ActivePhases'
  BY <1>14 DEF Leave, Step, Dereference, FreesIrp, FileFlags
<1>15. ASSUME NEW i \in Irps, IoIrpComplete(i) PROVE ActivePhases'
  BY <1>15 DEF IoIrpComplete, MarkComplete, FileFlags
<1>16. ASSUME NEW i \in Irps, IopFileObjectRemoveDispatched(i) PROVE ActivePhases'
  BY <1>16 DEF IopFileObjectRemoveDispatched, LastAwaited, FileFlags
<1>17. ASSUME NEW i \in Irps, ResumeCompletion(i) PROVE ActivePhases'
  BY <1>17 DEF ResumeCompletion, FileFlags
<1>18. ASSUME NEW i \in Irps, CompleteType(i) PROVE ActivePhases'
  BY <1>18 DEF CompleteType, FileFlags
<1>19. ASSUME NEW i \in Irps, CallBack(i) PROVE ActivePhases'
  BY <1>19 DEF CallBack, Dereference, FreesIrp, FileFlags
<1>20. ASSUME NEW i \in Irps, CompleteCaller(i) PROVE ActivePhases'
  BY <1>20 DEF CompleteCaller, Dereference, FreesIrp, FileFlags
<1>21. ASSUME NEW i \in Irps, IoCancelAsyncCancelContext(i) PROVE ActivePhases'
  BY <1>21 DEF IoCancelAsyncCancelContext, Cancelled, FileFlags
<1>22. ASSUME NEW k \in Closers, RundownEnter(k) PROVE ActivePhases'
  BY <1>22 DEF RundownEnter, Goto, Token, FileFlags
<1>23. ASSUME NEW k \in Closers, RundownCancel(k) PROVE ActivePhases'
  BY <1>23 DEF RundownCancel, Gather, Gathered, FileFlags
<1>24. ASSUME NEW k \in Cancellers, CancelNext(k) PROVE ActivePhases'
  BY <1>24 DEF CancelNext, Step, Cancelled, Dereference, FreesIrp, FileFlags
<1>25. ASSUME NEW k \in Closers, RundownWait(k) PROVE ActivePhases'
  BY <1>25 DEF RundownWait, Goto, FileFlags
<1>26. ASSUME NEW k \in Closers, IopContinueAsyncCloseFile(k) PROVE ActivePhases'
  BY <1>26 DEF IopContinueAsyncCloseFile, Goto, FileFlags
<1>27. ASSUME NEW k \in Closers, CloseComplete(k) PROVE ActivePhases'
  BY <1>27 DEF CloseComplete, CloseFlags, Goto, Token, FileFlags
<1>28. CASE IoCancelFile
  BY <1>28 DEF IoCancelFile, Gather, Gathered, FileFlags, Closers
<1>29. CASE IopIpcCloseFile
  BY <1>29 DEF IopIpcCloseFile, Goto, FileFlags
<1>30. CASE IopIpcCleanupFileHandle
  BY <1>30 DEF IopIpcCleanupFileHandle, Goto, FileFlags
<1>31. CASE IopDeviceRundown
  BY <1>31 DEF IopDeviceRundown, Goto, FileFlags
<1>32. CASE SpuriousWakeup
  BY <1>32 DEF SpuriousWakeup, Goto, FileFlags
<1>33. CASE IopFileObjectFree
  BY <1>33 DEF IopFileObjectFree, FileFlags
<1>34. CASE UNCHANGED vars
  BY <1>34
<1> QED
  BY <1>1, <1>2, <1>3, <1>4, <1>5, <1>6, <1>7, <1>8, <1>9, <1>10, <1>11, <1>12, <1>13, <1>14,
     <1>15, <1>16, <1>17, <1>18, <1>19, <1>20, <1>21, <1>22, <1>23, <1>24, <1>25, <1>26, <1>27,
     <1>28, <1>29, <1>30, <1>31, <1>32, <1>33, <1>34 DEF Next, Caller, Completion, Closer,
     Cancellers

\* That closer reaches the close only when the driver has no IRP left.
LEMMA DriverPhaseStep ==
  ASSUME Types, IrpPhases, HandlePhase, ActivePhases, DriverPhase, DispatchedExact, [Next]_vars
  PROVE  DriverPhase'
<1> DEFINE G == {k \in Closers : cpc[k] \in {"close", "closing"}}
<1>0. /\ IsFiniteSet(InDriver) /\ Cardinality(InDriver) \in Nat
      /\ IsFiniteSet(Closing) /\ Cardinality(Closing) \in Nat
  BY CountsFinite
<1>1. ASSUME NEW i \in Irps, IopFileObjectAddDispatched(i) PROVE DriverPhase'
  <2>1. Active = {}
    BY <1>1 DEF IopFileObjectAddDispatched, Refused, ActivePhases
  <2>2. cpc' = cpc
    BY <1>1 DEF IopFileObjectAddDispatched, closeVars
  <2> QED
    BY <2>1, <2>2 DEF Active, DriverPhase
<1>2. ASSUME NEW i \in Irps, IopFileObjectRemoveDispatched(i) PROVE DriverPhase'
  <2>1. InDriver' = InDriver \ {i} /\ i \in InDriver
    BY <1>2 DEF IopFileObjectRemoveDispatched, InDriver, Types, IrpPhases
  <2>2. CASE LastAwaited
    <3>1. Cardinality(InDriver) >= 1
      <4>1. Cardinality(InDriver) # 0
        BY <2>1, <1>0, FS_EmptySet
      <4> QED
        BY <4>1, <1>0
    <3>2. Cardinality(InDriver) = 1
      BY <3>1, <2>2, <1>0 DEF LastAwaited, DispatchedExact
    <3>3. Cardinality(InDriver \ {i}) = Cardinality(InDriver) - 1
      BY <2>1, <1>0, FS_RemoveElement
    <3>4. IsFiniteSet(InDriver \ {i})
      BY <2>1, <1>0, FS_RemoveElement
    <3>5. Cardinality(InDriver \ {i}) = 0
      BY <3>2, <3>3
    <3>6. InDriver' = {}
      BY <3>4, <3>5, <2>1, FS_EmptySet
    <3> QED
      BY <3>6 DEF DriverPhase
  <2>3. CASE ~LastAwaited
    <3>1. cpc' = cpc /\ spurious' = spurious
      BY <1>2, <2>3 DEF IopFileObjectRemoveDispatched, boundVars
    <3> QED
      BY <3>1, <2>1 DEF DriverPhase
  <2> QED
    BY <2>2, <2>3
<1>3. ASSUME InDriver' = InDriver, spurious' = spurious, G' \subseteq G PROVE DriverPhase'
  BY <1>3 DEF DriverPhase
<1>4. ASSUME NEW k \in Closers, RundownWait(k) PROVE DriverPhase'
  <2>0. InDriver' = InDriver /\ spurious' = spurious
    BY <1>4 DEF RundownWait, InDriver, irpVars, boundVars
  <2>1. CASE dispatched = 0
    <3>1. Cardinality(InDriver) = 0
      BY <2>1, <1>0 DEF DispatchedExact
    <3>2. InDriver = {}
      BY <3>1, <1>0, FS_EmptySet
    <3> QED
      BY <3>2, <2>0 DEF DriverPhase
  <2>2. CASE dispatched # 0
    <3>1. G' \subseteq G
      BY <1>4, <2>2 DEF RundownWait, Goto, Types, Cancellers
    <3> QED
      BY <2>0, <3>1, <1>3
  <2> QED
    BY <2>1, <2>2
<1>5. CASE SpuriousWakeup
  <2>1. spurious' # 0
    BY <1>5 DEF SpuriousWakeup, Types
  <2> QED
    BY <2>1 DEF DriverPhase
<1>6. ASSUME NEW k \in Closers, IopContinueAsyncCloseFile(k) PROVE DriverPhase'
  <2>1. InDriver' = InDriver /\ spurious' = spurious
    BY <1>6 DEF IopContinueAsyncCloseFile, InDriver, irpVars, boundVars
  <2>2. G' \subseteq G
    BY <1>6 DEF IopContinueAsyncCloseFile, Goto, Types, Cancellers
  <2> QED
    BY <2>1, <2>2, <1>3
<1>7. ASSUME NEW k \in Closers, CloseComplete(k) PROVE DriverPhase'
  <2>1. InDriver' = InDriver /\ spurious' = spurious
    BY <1>7 DEF CloseComplete, InDriver, irpVars
  <2>2. G' \subseteq G
    BY <1>7 DEF CloseComplete, Goto, Types, Cancellers
  <2> QED
    BY <2>1, <2>2, <1>3
<1>8. ASSUME InDriver' = InDriver PROVE DriverPhase'
  <2> SUFFICES ASSUME ~(\E k \in Closers : \/ RundownWait(k) \/ IopContinueAsyncCloseFile(k)
                                           \/ CloseComplete(k)),
                      ~SpuriousWakeup, ~(\E i \in Irps : IopFileObjectRemoveDispatched(i))
               PROVE spurious' = spurious /\ G' \subseteq G
    BY <1>2, <1>3, <1>4, <1>5, <1>6, <1>7, <1>8
  <2> DEFINE Goal == spurious' = spurious /\ G' \subseteq G
  <2> USE DEF Types, irpVars, fileVars, closeVars, boundVars, ghostVars, vars, Cancellers
  <2>1. ASSUME NEW i \in Irps, IopIrpAttach(i) PROVE Goal
    BY <2>1 DEF IopIrpAttach, Step
  <2>2. ASSUME NEW i \in Irps, AttachRefused(i) PROVE Goal
    BY <2>2 DEF AttachRefused, Step
  <2>3. ASSUME NEW i \in Irps, IopFileObjectAddDispatched(i) PROVE Goal
    BY <2>3 DEF IopFileObjectAddDispatched, Step
  <2>4. ASSUME NEW i \in Irps, DispatchRefused(i) PROVE Goal
    BY <2>4 DEF DispatchRefused, Step
  <2>5. ASSUME NEW i \in Irps, SetDispatched(i) PROVE Goal
    BY <2>5 DEF SetDispatched, Step
  <2>6. ASSUME NEW i \in Irps, DriverReturns(i) PROVE Goal
    BY <2>6 DEF DriverReturns, Step
  <2>7. ASSUME NEW i \in Irps, IoIrpMarkPending(i) PROVE Goal
    BY <2>7 DEF IoIrpMarkPending, Step
  <2>8. ASSUME NEW i \in Irps, ReferencePending(i) PROVE Goal
    BY <2>8 DEF ReferencePending, Step
  <2>9. ASSUME NEW i \in Irps, NeedCancel(i) PROVE Goal
    BY <2>9 DEF NeedCancel, Step
  <2>10. ASSUME NEW i \in Irps, Recancel(i) PROVE Goal
    BY <2>10 DEF Recancel, Step
  <2>11. ASSUME NEW i \in Irps, HandOut(i) PROVE Goal
    BY <2>11 DEF HandOut, Step
  <2>12. ASSUME NEW i \in Irps, EventSet(i) PROVE Goal
    BY <2>12 DEF EventSet, Step
  <2>13. ASSUME NEW i \in Irps, InlineDone(i) PROVE Goal
    BY <2>13 DEF InlineDone, Step
  <2>14. ASSUME NEW i \in Irps, Leave(i) PROVE Goal
    BY <2>14 DEF Leave, Step
  <2>15. ASSUME NEW i \in Irps, IoIrpComplete(i) PROVE Goal
    BY <2>15 DEF IoIrpComplete
  <2>16. ASSUME NEW i \in Irps, IopFileObjectRemoveDispatched(i) PROVE Goal
    BY <2>16
  <2>17. ASSUME NEW i \in Irps, ResumeCompletion(i) PROVE Goal
    BY <2>17 DEF ResumeCompletion
  <2>18. ASSUME NEW i \in Irps, CompleteType(i) PROVE Goal
    BY <2>18 DEF CompleteType
  <2>19. ASSUME NEW i \in Irps, CallBack(i) PROVE Goal
    BY <2>19 DEF CallBack
  <2>20. ASSUME NEW i \in Irps, CompleteCaller(i) PROVE Goal
    BY <2>20 DEF CompleteCaller
  <2>21. ASSUME NEW i \in Irps, IoCancelAsyncCancelContext(i) PROVE Goal
    BY <2>21 DEF IoCancelAsyncCancelContext
  <2>22. ASSUME NEW k \in Closers, RundownEnter(k) PROVE Goal
    BY <2>22 DEF RundownEnter, Goto, Closers
  <2>23. ASSUME NEW k \in Closers, RundownCancel(k) PROVE Goal
    BY <2>23 DEF RundownCancel, Gather
  <2>24. ASSUME NEW k \in Cancellers, CancelNext(k) PROVE Goal
    BY <2>24 DEF CancelNext, Step
  <2>25. ASSUME NEW k \in Closers, RundownWait(k) PROVE Goal
    BY <2>25
  <2>26. ASSUME NEW k \in Closers, IopContinueAsyncCloseFile(k) PROVE Goal
    BY <2>26
  <2>27. ASSUME NEW k \in Closers, CloseComplete(k) PROVE Goal
    BY <2>27
  <2>28. CASE IoCancelFile
    BY <2>28 DEF IoCancelFile, Gather
  <2>29. CASE IopIpcCloseFile
    BY <2>29 DEF IopIpcCloseFile, Goto, Closers
  <2>30. CASE IopIpcCleanupFileHandle
    BY <2>30 DEF IopIpcCleanupFileHandle, Goto, Closers
  <2>31. CASE IopDeviceRundown
    BY <2>31 DEF IopDeviceRundown, Goto, Closers
  <2>32. CASE SpuriousWakeup
    BY <2>32
  <2>33. CASE IopFileObjectFree
    BY <2>33 DEF IopFileObjectFree
  <2>34. CASE UNCHANGED vars
    BY <2>34
  <2> QED
    BY <2>1, <2>2, <2>3, <2>4, <2>5, <2>6, <2>7, <2>8, <2>9, <2>10, <2>11, <2>12, <2>13, <2>14,
       <2>15, <2>16, <2>17, <2>18, <2>19, <2>20, <2>21, <2>22, <2>23, <2>24, <2>25, <2>26, <2>27,
       <2>28, <2>29, <2>30, <2>31, <2>32, <2>33, <2>34 DEF Next, Caller, Completion, Closer,
       Cancellers
<1> QED
  BY CountStep, <1>1, <1>2, <1>6, <1>7, <1>8 DEF CountSame

-----------------------------------------------------------------------------
(* The reference count of the file.                                        *)

\* The file is marked open exactly when the completed create was successful.
LEMMA CreatePhaseStep ==
  ASSUME Types, IrpPhases, CreatePhase, [Next]_vars PROVE CreatePhase'
<1>0. Create \in Irps
  BY DEF Irps
<1> USE <1>0 DEF Types, IrpPhases, CreatePhase, Closing, irpVars, fileVars, closeVars, boundVars,
   ghostVars, vars, Cancellers
<1>1. ASSUME NEW i \in Irps, IopIrpAttach(i) PROVE CreatePhase'
  BY <1>1 DEF IopIrpAttach, Step, FileFlags, Stages
<1>2. ASSUME NEW i \in Irps, AttachRefused(i) PROVE CreatePhase'
  BY <1>2 DEF AttachRefused, Step, FileFlags, Stages
<1>3. ASSUME NEW i \in Irps, IopFileObjectAddDispatched(i) PROVE CreatePhase'
  BY <1>3 DEF IopFileObjectAddDispatched, Step, FileFlags, Stages
<1>4. ASSUME NEW i \in Irps, DispatchRefused(i) PROVE CreatePhase'
  BY <1>4 DEF DispatchRefused, Step, FileFlags, Stages
<1>5. ASSUME NEW i \in Irps, SetDispatched(i) PROVE CreatePhase'
  BY <1>5 DEF SetDispatched, Step, FileFlags, Stages
<1>6. ASSUME NEW i \in Irps, DriverReturns(i) PROVE CreatePhase'
  BY <1>6 DEF DriverReturns, Step, MarkComplete, FileFlags, Stages
<1>7. ASSUME NEW i \in Irps, IoIrpMarkPending(i) PROVE CreatePhase'
  BY <1>7 DEF IoIrpMarkPending, Step, FileFlags, Stages
<1>8. ASSUME NEW i \in Irps, ReferencePending(i) PROVE CreatePhase'
  BY <1>8 DEF ReferencePending, Step, FileFlags, Stages
<1>9. ASSUME NEW i \in Irps, NeedCancel(i) PROVE CreatePhase'
  BY <1>9 DEF NeedCancel, Step, AwaitIrp, FileFlags, Stages
<1>10. ASSUME NEW i \in Irps, Recancel(i) PROVE CreatePhase'
  BY <1>10 DEF Recancel, Step, AwaitIrp, Cancelled, FileFlags, Stages
<1>11. ASSUME NEW i \in Irps, HandOut(i) PROVE CreatePhase'
  BY <1>11 DEF HandOut, Step, FileFlags, Stages
<1>12. ASSUME NEW i \in Irps, EventSet(i) PROVE CreatePhase'
  BY <1>12 DEF EventSet, Step, FileFlags, Stages
<1>13. ASSUME NEW i \in Irps, InlineDone(i) PROVE CreatePhase'
  BY <1>13 DEF InlineDone, Step, FileFlags, Stages
<1>14. ASSUME NEW i \in Irps, Leave(i) PROVE CreatePhase'
  BY <1>14 DEF Leave, Step, Dereference, FreesIrp, FileFlags, Stages
<1>15. ASSUME NEW i \in Irps, IoIrpComplete(i) PROVE CreatePhase'
  BY <1>15 DEF IoIrpComplete, MarkComplete, FileFlags, Stages
<1>16. ASSUME NEW i \in Irps, IopFileObjectRemoveDispatched(i) PROVE CreatePhase'
  BY <1>16 DEF IopFileObjectRemoveDispatched, LastAwaited, FileFlags, Stages, Closers
<1>17. ASSUME NEW i \in Irps, ResumeCompletion(i) PROVE CreatePhase'
  BY <1>17 DEF ResumeCompletion, FileFlags, Stages
<1>18. ASSUME NEW i \in Irps, CompleteType(i) PROVE CreatePhase'
  BY <1>18 DEF CompleteType, FileFlags, Stages
<1>19. ASSUME NEW i \in Irps, CallBack(i) PROVE CreatePhase'
  BY <1>19 DEF CallBack, Dereference, FreesIrp, FileFlags, Stages
<1>20. ASSUME NEW i \in Irps, CompleteCaller(i) PROVE CreatePhase'
  BY <1>20 DEF CompleteCaller, Dereference, FreesIrp, FileFlags, Stages
<1>21. ASSUME NEW i \in Irps, IoCancelAsyncCancelContext(i) PROVE CreatePhase'
  BY <1>21 DEF IoCancelAsyncCancelContext, Cancelled, FileFlags, Stages
<1>22. ASSUME NEW k \in Closers, RundownEnter(k) PROVE CreatePhase'
  BY <1>22 DEF RundownEnter, Goto, Token, FileFlags, Stages
<1>23. ASSUME NEW k \in Closers, RundownCancel(k) PROVE CreatePhase'
  BY <1>23 DEF RundownCancel, Gather, Gathered, FileFlags, Stages
<1>24. ASSUME NEW k \in Cancellers, CancelNext(k) PROVE CreatePhase'
  BY <1>24 DEF CancelNext, Step, Cancelled, Dereference, FreesIrp, FileFlags, Stages
<1>25. ASSUME NEW k \in Closers, RundownWait(k) PROVE CreatePhase'
  BY <1>25 DEF RundownWait, Goto, FileFlags, Stages
<1>26. ASSUME NEW k \in Closers, IopContinueAsyncCloseFile(k) PROVE CreatePhase'
  BY <1>26 DEF IopContinueAsyncCloseFile, Goto, FileFlags, Stages
<1>27. ASSUME NEW k \in Closers, CloseComplete(k) PROVE CreatePhase'
  BY <1>27 DEF CloseComplete, CloseFlags, Goto, Token, FileFlags, Stages
<1>28. CASE IoCancelFile
  BY <1>28 DEF IoCancelFile, Gather, Gathered, FileFlags, Stages, Closers
<1>29. CASE IopIpcCloseFile
  BY <1>29 DEF IopIpcCloseFile, Goto, FileFlags, Stages, Closers
<1>30. CASE IopIpcCleanupFileHandle
  BY <1>30 DEF IopIpcCleanupFileHandle, Goto, FileFlags, Stages, Closers
<1>31. CASE IopDeviceRundown
  BY <1>31 DEF IopDeviceRundown, Goto, FileFlags, Stages, Closers
<1>32. CASE SpuriousWakeup
  BY <1>32 DEF SpuriousWakeup, Goto, FileFlags, Stages, Closers
<1>33. CASE IopFileObjectFree
  BY <1>33 DEF IopFileObjectFree, FileFlags, Stages, Closers
<1>34. CASE UNCHANGED vars
  BY <1>34
<1> QED
  BY <1>1, <1>2, <1>3, <1>4, <1>5, <1>6, <1>7, <1>8, <1>9, <1>10, <1>11, <1>12, <1>13, <1>14,
     <1>15, <1>16, <1>17, <1>18, <1>19, <1>20, <1>21, <1>22, <1>23, <1>24, <1>25, <1>26, <1>27,
     <1>28, <1>29, <1>30, <1>31, <1>32, <1>33, <1>34 DEF Next, Caller, Completion, Closer,
     Cancellers

\* Whoever may give back a reference to the file holds it.
LEMMA HolderPhasesStep ==
  ASSUME Types, IrpPhases, HandlePhase, CreatePhase, HolderPhases, [Next]_vars PROVE HolderPhases'
<1>0. Create \in Irps
  BY DEF Irps
<1> USE <1>0 DEF Types, IrpPhases, HandlePhase, CreatePhase, HolderPhases, Token, irpVars,
   fileVars, closeVars, boundVars, ghostVars, vars, Cancellers, Closers
<1>1. ASSUME NEW i \in Irps, IopIrpAttach(i) PROVE HolderPhases'
  BY <1>1 DEF IopIrpAttach, Step, FileFlags, Stages
<1>2. ASSUME NEW i \in Irps, AttachRefused(i) PROVE HolderPhases'
  BY <1>2 DEF AttachRefused, Step, FileFlags, Stages
<1>3. ASSUME NEW i \in Irps, IopFileObjectAddDispatched(i) PROVE HolderPhases'
  BY <1>3 DEF IopFileObjectAddDispatched, Step, FileFlags, Stages
<1>4. ASSUME NEW i \in Irps, DispatchRefused(i) PROVE HolderPhases'
  BY <1>4 DEF DispatchRefused, Step, FileFlags, Stages
<1>5. ASSUME NEW i \in Irps, SetDispatched(i) PROVE HolderPhases'
  BY <1>5 DEF SetDispatched, Step, FileFlags, Stages
<1>6. ASSUME NEW i \in Irps, DriverReturns(i) PROVE HolderPhases'
  BY <1>6 DEF DriverReturns, Step, MarkComplete, FileFlags, Stages
<1>7. ASSUME NEW i \in Irps, IoIrpMarkPending(i) PROVE HolderPhases'
  BY <1>7 DEF IoIrpMarkPending, Step, FileFlags, Stages
<1>8. ASSUME NEW i \in Irps, ReferencePending(i) PROVE HolderPhases'
  BY <1>8 DEF ReferencePending, Step, FileFlags, Stages
<1>9. ASSUME NEW i \in Irps, NeedCancel(i) PROVE HolderPhases'
  BY <1>9 DEF NeedCancel, Step, AwaitIrp, FileFlags, Stages
<1>10. ASSUME NEW i \in Irps, Recancel(i) PROVE HolderPhases'
  BY <1>10 DEF Recancel, Step, AwaitIrp, Cancelled, FileFlags, Stages
<1>11. ASSUME NEW i \in Irps, HandOut(i) PROVE HolderPhases'
  BY <1>11 DEF HandOut, Step, FileFlags, Stages
<1>12. ASSUME NEW i \in Irps, EventSet(i) PROVE HolderPhases'
  BY <1>12 DEF EventSet, Step, FileFlags, Stages
<1>13. ASSUME NEW i \in Irps, InlineDone(i) PROVE HolderPhases'
  BY <1>13 DEF InlineDone, Step, FileFlags, Stages
<1>14. ASSUME NEW i \in Irps, Leave(i) PROVE HolderPhases'
  BY <1>14 DEF Leave, Step, Dereference, FreesIrp, FileFlags, Stages, ReturnsStatus
<1>15. ASSUME NEW i \in Irps, IoIrpComplete(i) PROVE HolderPhases'
  BY <1>15 DEF IoIrpComplete, MarkComplete, FileFlags, Stages
<1>16. ASSUME NEW i \in Irps, IopFileObjectRemoveDispatched(i) PROVE HolderPhases'
  BY <1>16 DEF IopFileObjectRemoveDispatched, LastAwaited, FileFlags, Stages
<1>17. ASSUME NEW i \in Irps, ResumeCompletion(i) PROVE HolderPhases'
  BY <1>17 DEF ResumeCompletion, FileFlags, Stages
<1>18. ASSUME NEW i \in Irps, CompleteType(i) PROVE HolderPhases'
  BY <1>18 DEF CompleteType, FileFlags, Stages
<1>19. ASSUME NEW i \in Irps, CallBack(i) PROVE HolderPhases'
  BY <1>19 DEF CallBack, Dereference, FreesIrp, FileFlags, Stages, ReturnsStatus
<1>20. ASSUME NEW i \in Irps, CompleteCaller(i) PROVE HolderPhases'
  BY <1>20 DEF CompleteCaller, Dereference, FreesIrp, FileFlags, Stages
<1>21. ASSUME NEW i \in Irps, IoCancelAsyncCancelContext(i) PROVE HolderPhases'
  BY <1>21 DEF IoCancelAsyncCancelContext, Cancelled, FileFlags, Stages
<1>22. ASSUME NEW k \in Closers, RundownEnter(k) PROVE HolderPhases'
  BY <1>22 DEF RundownEnter, Goto, Token, FileFlags, Stages
<1>23. ASSUME NEW k \in Closers, RundownCancel(k) PROVE HolderPhases'
  BY <1>23 DEF RundownCancel, Gather, Gathered, FileFlags, Stages
<1>24. ASSUME NEW k \in Cancellers, CancelNext(k) PROVE HolderPhases'
  BY <1>24 DEF CancelNext, Step, Cancelled, Dereference, FreesIrp, FileFlags, Stages
<1>25. ASSUME NEW k \in Closers, RundownWait(k) PROVE HolderPhases'
  BY <1>25 DEF RundownWait, Goto, FileFlags, Stages
<1>26. ASSUME NEW k \in Closers, IopContinueAsyncCloseFile(k) PROVE HolderPhases'
  BY <1>26 DEF IopContinueAsyncCloseFile, Goto, FileFlags, Stages
<1>27. ASSUME NEW k \in Closers, CloseComplete(k) PROVE HolderPhases'
  BY <1>27 DEF CloseComplete, CloseFlags, Goto, Token, FileFlags, Stages
<1>28. CASE IoCancelFile
  BY <1>28 DEF IoCancelFile, Gather, Gathered, FileFlags, Stages
<1>29. CASE IopIpcCloseFile
  BY <1>29 DEF IopIpcCloseFile, Goto, FileFlags, Stages
<1>30. CASE IopIpcCleanupFileHandle
  BY <1>30 DEF IopIpcCleanupFileHandle, Goto, FileFlags, Stages
<1>31. CASE IopDeviceRundown
  BY <1>31 DEF IopDeviceRundown, Goto, FileFlags, Stages
<1>32. CASE SpuriousWakeup
  BY <1>32 DEF SpuriousWakeup, Goto, FileFlags, Stages
<1>33. CASE IopFileObjectFree
  BY <1>33 DEF IopFileObjectFree, FileFlags, Stages
<1>34. CASE UNCHANGED vars
  BY <1>34
<1> QED
  BY <1>1, <1>2, <1>3, <1>4, <1>5, <1>6, <1>7, <1>8, <1>9, <1>10, <1>11, <1>12, <1>13, <1>14,
     <1>15, <1>16, <1>17, <1>18, <1>19, <1>20, <1>21, <1>22, <1>23, <1>24, <1>25, <1>26, <1>27,
     <1>28, <1>29, <1>30, <1>31, <1>32, <1>33, <1>34 DEF Next, Caller, Completion, Closer,
     Cancellers

\* The IRPs that are alive.
Live == {i \in Irps : refs[i] > 0}

\* FileRefsExact, with the live IRPs named.
FileRefs == frefs = Cardinality(Live) + Cardinality(Closing) + Cardinality(holders)

\* The users of the file are finitely many.
LEMMA FileCountsFinite ==
  ASSUME Types
  PROVE  /\ IsFiniteSet(Live) /\ Cardinality(Live) \in Nat
         /\ IsFiniteSet(Closing) /\ Cardinality(Closing) \in Nat
         /\ IsFiniteSet(holders) /\ Cardinality(holders) \in Nat
<1>1. Holders = (((({} \cup {"creator"}) \cup {"handle"}) \cup {"call"}) \cup {"device"})
                   \cup {"gatherer"}
  BY DEF Holders
<1>2. IsFiniteSet(Holders)
  BY <1>1, FS_EmptySet, FS_AddElement
<1>3. Live \in SUBSET Irps /\ holders \in SUBSET Holders
  BY DEF Live, Types
<1>4. IsFiniteSet(Live) /\ IsFiniteSet(holders)
  BY <1>2, <1>3, IrpsFinite, FS_Subset
<1> QED
  BY <1>4, FS_CardinalityType, CountsFinite

\* What an exact count says: each user of an IRP accounts for one reference.
LEMMA RefsBounds ==
  ASSUME Types, IrpRefs
  PROVE  \A i \in Irps : /\ refs[i] >= 0
                         /\ i \in UsedByCaller => refs[i] >= 1
                         /\ i \in UsedByDriver => refs[i] >= 1
                         /\ i \in UsedByCaller /\ i \in extra => refs[i] >= 2
                         /\ i \in UsedByDriver /\ i \in extra => refs[i] >= 2
                         /\ N(i) >= 1 => refs[i] >= 1
  BY NNat DEF IrpRefs, One

\* Dropping n references kills the IRP exactly when these were the last.
LEMMA LiveFreed ==
  ASSUME Types, NEW i \in Irps, NEW n \in Nat, n > 0, refs[i] >= n, Dereference(i, n)
  PROVE  Cardinality(Live)' = Cardinality(Live) - FreesIrp(i, n)
<1>0. IsFiniteSet(Live) /\ Cardinality(Live) \in Nat
  BY FileCountsFinite
<1>1. CASE refs[i] = n
  <2>1. Live' = Live \ {i} /\ i \in Live
    BY <1>1 DEF Live, Types, Dereference
  <2>2. Cardinality(Live)' = Cardinality(Live) - 1
    BY <1>0, <2>1, FS_RemoveElement
  <2> QED
    BY <1>1, <2>2 DEF FreesIrp
<1>2. CASE refs[i] # n
  <2>1. Live' = Live
    BY <1>2 DEF Live, Types, Dereference
  <2> QED
    BY <1>0, <1>2, <2>1 DEF FreesIrp
<1> QED
  BY <1>1, <1>2

\* An IRP on a cancel list is counted.
LEMMA ListedCounted ==
  ASSUME Types, NEW k \in Cancellers, NEW i \in gathered[k] PROVE N(i) >= 1
<1>1. k \in Lists(i) /\ IsFiniteSet(Lists(i))
  BY CancellersFinite, FS_Subset DEF Lists
<1>2. Cardinality(Lists(i)) \in Nat /\ Cardinality(Lists(i)) # 0
  BY <1>1, FS_CardinalityType, FS_EmptySet
<1> QED
  BY <1>2 DEF N

\* A holder that leaves takes one from the number of holders.
LEMMA HolderGoes ==
  ASSUME Types, NEW h \in holders, holders' = holders \ {h}
  PROVE  Cardinality(holders)' = Cardinality(holders) - 1
  BY FileCountsFinite, FS_RemoveElement

\* A new holder adds one.
LEMMA HolderComes ==
  ASSUME Types, NEW h, h \notin holders, holders' = holders \cup {h}
  PROVE  Cardinality(holders)' = Cardinality(holders) + 1
  BY FileCountsFinite, FS_AddElement

\* No user of the file comes or goes.
FileSame == frefs' = frefs /\ Live' = Live /\ Closing' = Closing /\ holders' = holders

\* Every action keeps the count of the file exact.
LEMMA FileRefsStep ==
  ASSUME Types, IrpPhases, HandlePhase, ListPhases, CreatePhase, HolderPhases, IrpRefs, FileRefs,
         [Next]_vars
  PROVE  FileRefs'
<1>0. Create \in Irps
  BY DEF Irps
<1> DEFINE NL == Cardinality(Live)
<1> DEFINE NC == Cardinality(Closing)
<1> DEFINE NH == Cardinality(holders)
<1>a. NL \in Nat /\ NC \in Nat /\ NH \in Nat
  BY FileCountsFinite
<1>b. ASSUME FileSame PROVE FileRefs'
  BY <1>b DEF FileSame, FileRefs
<1>c. ASSUME NEW a \in Int, NEW b \in Int, NEW c \in Int, NL' = NL + a, NC' = NC + b, NH' = NH + c,
             frefs' = frefs + a + b + c
      PROVE  FileRefs'
  BY <1>a, <1>c DEF FileRefs
<1>e. frefs \in Int
  BY DEF Types
<1> HIDE DEF NL, NC, NH
<1>1. ASSUME NEW i \in Irps, IopIrpAttach(i) PROVE FileRefs'
  <2>1. Live' = Live \cup {i} /\ i \notin Live
    <3>1. N(i) = 0
      BY <1>1, IdleUnlisted DEF IopIrpAttach
    <3>2. refs[i] = 0
      BY <1>1, <3>1 DEF IopIrpAttach, IrpRefs, IrpPhases, One, UsedByCaller, UsedByDriver
    <3> QED
      BY <1>1, <3>2 DEF IopIrpAttach, Live, Types
  <2>2. NL' = NL + 1
    BY <2>1, FileCountsFinite, FS_AddElement DEF NL
  <2>3. NC' = NC + 0 /\ NH' = NH + 0 /\ frefs' = frefs + 1 + 0 + 0
    BY <1>1, <1>a, <1>e DEF IopIrpAttach, NC, NH, Closing, irpVars, fileVars, closeVars,
       boundVars, ghostVars, vars
  <2> QED
    BY <2>2, <2>3, <1>c
<1>2. ASSUME NEW i \in Irps, AttachRefused(i) PROVE FileRefs'
  <2>1. Live' = Live /\ Closing' = Closing
    BY <1>2 DEF AttachRefused, Live, Closing, irpVars, fileVars, closeVars, boundVars, ghostVars,
       vars
  <2>2. CASE i = Create
    <3>1. NH' = NH - 1
      BY <1>2, <2>2, HolderGoes DEF AttachRefused, HolderPhases, NH
    <3>2. frefs' = frefs - 1
      BY <1>2, <2>2 DEF AttachRefused
    <3> QED
      BY <2>1, <3>1, <3>2, <1>a, <1>e DEF FileRefs, NL, NC, NH
  <2>3. CASE i # Create
    BY <1>2, <2>1, <2>3, <1>b DEF AttachRefused, FileSame
  <2> QED
    BY <2>2, <2>3
<1>3. ASSUME NEW i \in Irps, IopFileObjectAddDispatched(i) PROVE FileRefs'
  <2>1. Live' = Live
    <3>1. i \in UsedByCaller
      BY <1>3, RefsBounds DEF IopFileObjectAddDispatched, UsedByCaller
    <3>2. refs[i] >= 1
      BY <3>1, RefsBounds
    <3> QED
      BY <1>3, <3>1, <3>2 DEF IopFileObjectAddDispatched, Live, Types
  <2>2. frefs' = frefs /\ holders' = holders /\ Closing' = Closing
    BY <1>3 DEF IopFileObjectAddDispatched, Closing, irpVars, fileVars, closeVars, boundVars,
       ghostVars, vars
  <2> QED
    BY <2>1, <2>2, <1>b DEF FileSame
<1>4. ASSUME NEW i \in Irps, DispatchRefused(i) PROVE FileRefs'
  BY <1>4, <1>b DEF DispatchRefused, FileSame, Live, Closing, irpVars, fileVars, closeVars,
     boundVars, ghostVars, vars
<1>5. ASSUME NEW i \in Irps, SetDispatched(i) PROVE FileRefs'
  BY <1>5, <1>b DEF SetDispatched, FileSame, Live, Closing, irpVars, fileVars, closeVars,
     boundVars, ghostVars, vars
<1>6. ASSUME NEW i \in Irps, DriverReturns(i) PROVE FileRefs'
  BY <1>6, <1>b DEF DriverReturns, FileSame, Live, Closing, irpVars, fileVars, closeVars,
     boundVars, ghostVars, vars
<1>7. ASSUME NEW i \in Irps, IoIrpMarkPending(i) PROVE FileRefs'
  BY <1>7, <1>b DEF IoIrpMarkPending, FileSame, Live, Closing, irpVars, fileVars, closeVars,
     boundVars, ghostVars, vars
<1>8. ASSUME NEW i \in Irps, ReferencePending(i) PROVE FileRefs'
  <2>1. Live' = Live
    <3>1. i \in UsedByCaller
      BY <1>8, RefsBounds DEF ReferencePending, UsedByCaller
    <3>2. refs[i] >= 1
      BY <3>1, RefsBounds
    <3> QED
      BY <1>8, <3>1, <3>2 DEF ReferencePending, Live, Types
  <2>2. frefs' = frefs /\ holders' = holders /\ Closing' = Closing
    BY <1>8 DEF ReferencePending, Closing, irpVars, fileVars, closeVars, boundVars, ghostVars,
       vars
  <2> QED
    BY <2>1, <2>2, <1>b DEF FileSame
<1>9. ASSUME NEW i \in Irps, NeedCancel(i) PROVE FileRefs'
  BY <1>9, <1>b DEF NeedCancel, FileSame, Live, Closing, irpVars, fileVars, closeVars, boundVars,
     ghostVars, vars
<1>10. ASSUME NEW i \in Irps, Recancel(i) PROVE FileRefs'
  BY <1>10, <1>b DEF Recancel, FileSame, Live, Closing, irpVars, fileVars, closeVars, boundVars,
     ghostVars, vars
<1>11. ASSUME NEW i \in Irps, HandOut(i) PROVE FileRefs'
  BY <1>11, <1>b DEF HandOut, FileSame, Live, Closing, irpVars, fileVars, closeVars, boundVars,
     ghostVars, vars
<1>12. ASSUME NEW i \in Irps, EventSet(i) PROVE FileRefs'
  BY <1>12, <1>b DEF EventSet, FileSame, Live, Closing, irpVars, fileVars, closeVars, boundVars,
     ghostVars, vars
<1>13. ASSUME NEW i \in Irps, InlineDone(i) PROVE FileRefs'
  <2>1. Live' = Live
    <3>1. i \in UsedByCaller /\ (i \in extra => refs[i] >= 2)
      BY <1>13, RefsBounds DEF InlineDone, UsedByCaller
    <3>2. refs[i] >= 1
      BY <3>1, RefsBounds
    <3> QED
      BY <1>13, <3>1, <3>2 DEF InlineDone, Live, Types
  <2>2. frefs' = frefs /\ holders' = holders /\ Closing' = Closing
    BY <1>13 DEF InlineDone, Closing, irpVars, fileVars, closeVars, boundVars, ghostVars, vars
  <2> QED
    BY <2>1, <2>2, <1>b DEF FileSame
<1>14. ASSUME NEW i \in Irps, Leave(i) PROVE FileRefs'
  <2>1. NL' = NL - FreesIrp(i, 1)
    <3>1. refs[i] >= 1
      BY <1>14, RefsBounds DEF Leave, UsedByCaller
    <3> QED
      BY <1>14, <3>1, LiveFreed DEF Leave, NL
  <2>2. Closing' = Closing
    BY <1>14 DEF Leave, Closing, irpVars, fileVars, closeVars, boundVars, ghostVars, vars
  <2>3. FreesIrp(i, 1) \in Int
    BY DEF FreesIrp
  <2>4. CASE i = Create
    <3>1. NH' = NH - 1
      BY <1>14, <2>4, HolderGoes DEF Leave, HolderPhases, NH
    <3>2. frefs' = frefs - FreesIrp(i, 1) - 1
      BY <1>14, <2>4 DEF Leave
    <3> QED
      BY <2>1, <2>2, <2>3, <3>1, <3>2, <1>a, <1>e DEF FileRefs, NL, NC, NH
  <2>5. CASE i # Create
    <3>1. holders' = holders /\ frefs' = frefs - FreesIrp(i, 1) - 0
      BY <1>14, <2>5 DEF Leave
    <3> QED
      BY <2>1, <2>2, <2>3, <3>1, <1>a, <1>e DEF FileRefs, NL, NC, NH
  <2> QED
    BY <2>4, <2>5
<1>15. ASSUME NEW i \in Irps, IoIrpComplete(i) PROVE FileRefs'
  BY <1>15, <1>b DEF IoIrpComplete, FileSame, Live, Closing, irpVars, fileVars, closeVars,
     boundVars, ghostVars, vars
<1>16. ASSUME NEW i \in Irps, IopFileObjectRemoveDispatched(i) PROVE FileRefs'
  <2>1. Closing' = Closing
    BY <1>16 DEF IopFileObjectRemoveDispatched, Closing, Types, Cancellers
  <2> QED
    BY <1>16, <2>1, <1>b DEF IopFileObjectRemoveDispatched, FileSame, Live, irpVars, fileVars,
       closeVars, boundVars, ghostVars, vars
<1>17. ASSUME NEW i \in Irps, ResumeCompletion(i) PROVE FileRefs'
  BY <1>17, <1>b DEF ResumeCompletion, FileSame, Live, Closing, irpVars, fileVars, closeVars,
     boundVars, ghostVars, vars
<1>18. ASSUME NEW i \in Irps, CompleteType(i) PROVE FileRefs'
  <2>1. Live' = Live /\ Closing' = Closing
    BY <1>18 DEF CompleteType, Live, Closing, irpVars, fileVars, closeVars, boundVars, ghostVars,
       vars
  <2>2. CASE i = Create /\ created
    <3>1. NH' = NH + 1
      <4>1. "handle" \notin holders
        BY <1>18, <2>2 DEF CompleteType, CreatePhase, HolderPhases
      <4> QED
        BY <1>18, <2>2, <4>1, HolderComes DEF CompleteType, NH
    <3>2. frefs' = frefs + 1
      BY <1>18, <2>2 DEF CompleteType
    <3> QED
      BY <2>1, <3>1, <3>2, <1>a, <1>e DEF FileRefs, NL, NC, NH
  <2>3. CASE ~(i = Create /\ created)
    BY <1>18, <2>1, <2>3, <1>b DEF CompleteType, FileSame
  <2> QED
    BY <2>2, <2>3
<1>19. ASSUME NEW i \in Irps, CallBack(i) PROVE FileRefs'
  <2> DEFINE n == IF i \in handed \cap extra THEN 2 ELSE 1
  <2>1. NL' = NL - FreesIrp(i, n)
    <3>1. i \in UsedByDriver
      BY <1>19, <1>0 DEF CallBack, UsedByDriver, IrpPhases
    <3>2. refs[i] >= n /\ n \in Nat /\ n > 0
      BY <3>1, RefsBounds
    <3>3. Dereference(i, n)
      BY <1>19 DEF CallBack
    <3> QED
      BY <3>2, <3>3, LiveFreed DEF NL
  <2>2. Closing' = Closing /\ holders' = holders /\ frefs' = frefs - FreesIrp(i, n)
    BY <1>19 DEF CallBack, Closing, irpVars, fileVars, closeVars, boundVars, ghostVars, vars
  <2>3. FreesIrp(i, n) \in Int
    BY DEF FreesIrp
  <2> QED
    BY <2>1, <2>2, <2>3, <1>a, <1>e DEF FileRefs, NL, NC, NH
<1>20. ASSUME NEW i \in Irps, CompleteCaller(i) PROVE FileRefs'
  <2>1. Closing' = Closing /\ holders' = holders
    BY <1>20 DEF CompleteCaller, Closing, irpVars, fileVars, closeVars, boundVars, ghostVars, vars
  <2>2. CASE "PENDING" \in flags[i]
    <3>1. refs[i] >= 1
      <4>1. i \in UsedByDriver
        BY <1>20, <2>2 DEF CompleteCaller, UsedByDriver, IrpPhases
      <4> QED
        BY <4>1, RefsBounds
    <3>2. Dereference(i, 1) /\ frefs' = frefs - FreesIrp(i, 1)
      BY <1>20, <2>2 DEF CompleteCaller
    <3>3. NL' = NL - FreesIrp(i, 1)
      BY <3>1, <3>2, LiveFreed DEF NL
    <3>4. FreesIrp(i, 1) \in Int
      BY DEF FreesIrp
    <3> QED
      BY <2>1, <3>2, <3>3, <3>4, <1>a, <1>e DEF FileRefs, NL, NC, NH
  <2>3. CASE "PENDING" \notin flags[i]
    BY <1>20, <2>1, <2>3, <1>b DEF CompleteCaller, FileSame, Live
  <2> QED
    BY <2>2, <2>3
<1>21. ASSUME NEW i \in Irps, IoCancelAsyncCancelContext(i) PROVE FileRefs'
  BY <1>21, <1>b DEF IoCancelAsyncCancelContext, FileSame, Live, Closing, irpVars, fileVars,
     closeVars, boundVars, ghostVars, vars
<1>22. ASSUME NEW k \in Closers, RundownEnter(k) PROVE FileRefs'
  <2>1. Live' = Live /\ Closing' = Closing
    <3>1. Live' = Live
      BY <1>22 DEF RundownEnter, Live, irpVars, fileVars, closeVars, boundVars, ghostVars, vars
    <3>2. Closing' = Closing
      BY <1>22 DEF RundownEnter, Goto, Closing, Closers, Cancellers, Types
    <3> QED
      BY <3>1, <3>2
  <2>2. CASE "CLOSE_DONE" \in fflags
    <3>1. Token(k) \in holders /\ holders' = holders \ {Token(k)} /\ frefs' = frefs - 1
      BY <1>22, <2>2 DEF RundownEnter, HolderPhases
    <3>2. NH' = NH - 1
      BY <3>1, HolderGoes DEF NH
    <3> QED
      BY <2>1, <3>1, <3>2, <1>a, <1>e DEF FileRefs, NL, NC, NH
  <2>3. CASE "CLOSE_DONE" \notin fflags
    BY <1>22, <2>1, <2>3, <1>b DEF RundownEnter, FileSame
  <2> QED
    BY <2>2, <2>3
<1>23. ASSUME NEW k \in Closers, RundownCancel(k) PROVE FileRefs'
  <2>1. Live' = Live
    BY <1>23 DEF RundownCancel, Gather, Gathered, Live, Types
  <2>2. Closing' = Closing
    BY <1>23 DEF RundownCancel, Gather, Closing, Closers, Cancellers, Types
  <2> QED
    BY <1>23, <2>1, <2>2, <1>b DEF RundownCancel, FileSame, irpVars, fileVars, closeVars,
       boundVars, ghostVars, vars
<1>24. ASSUME NEW k \in Cancellers, CancelNext(k) PROVE FileRefs'
  <2>1. PICK i \in gathered[k] : CancelNext(k)!(i)
    BY <1>24 DEF CancelNext
  <2>2. i \in Irps /\ refs[i] >= 1
    BY ListedCounted, RefsBounds DEF Types
  <2>3. Dereference(i, 1) /\ frefs' = frefs - FreesIrp(i, 1) /\ holders' = holders /\ cpc' = cpc
    BY <2>1
  <2>4. NL' = NL - FreesIrp(i, 1)
    BY <2>2, <2>3, LiveFreed DEF NL
  <2>5. FreesIrp(i, 1) \in Int /\ Closing' = Closing
    BY <2>3 DEF FreesIrp, Closing
  <2> QED
    BY <2>3, <2>4, <2>5, <1>a, <1>e DEF FileRefs, NL, NC, NH
<1>25. ASSUME NEW k \in Closers, RundownWait(k) PROVE FileRefs'
  <2>1. Closing' = Closing
    BY <1>25 DEF RundownWait, Closing, Goto, Types, Closers, Cancellers, HandlePhase
  <2> QED
    BY <1>25, <2>1, <1>b DEF RundownWait, FileSame, Live, irpVars, fileVars, closeVars, boundVars,
       ghostVars, vars
<1>26. ASSUME NEW k \in Closers, IopContinueAsyncCloseFile(k) PROVE FileRefs'
  <2>1. Live' = Live /\ holders' = holders
    BY <1>26 DEF IopContinueAsyncCloseFile, Live, irpVars, fileVars, closeVars, boundVars,
       ghostVars, vars
  <2>2. CASE "CREATE_DONE" \in fflags
    <3>1. Closing' = Closing \cup {k} /\ k \notin Closing /\ frefs' = frefs + 1
      BY <1>26, <2>2 DEF IopContinueAsyncCloseFile, Closing, Goto, Types, Cancellers
    <3>2. NC' = NC + 1
      BY <3>1, FileCountsFinite, FS_AddElement DEF NC
    <3> QED
      BY <2>1, <3>1, <3>2, <1>a, <1>e DEF FileRefs, NL, NC, NH
  <2>3. CASE "CREATE_DONE" \notin fflags
    <3>1. Closing' = Closing /\ frefs' = frefs
      BY <1>26, <2>3 DEF IopContinueAsyncCloseFile, Closing, Goto, Types, Cancellers
    <3> QED
      BY <2>1, <3>1, <1>b DEF FileSame
  <2> QED
    BY <2>2, <2>3
<1>27. ASSUME NEW k \in Closers, CloseComplete(k) PROVE FileRefs'
  <2>1. Live' = Live
    BY <1>27 DEF CloseComplete, Live, irpVars, fileVars, closeVars, boundVars, ghostVars, vars
  <2>2. Closing' = Closing \ {k} /\ k \in Closing
    BY <1>27 DEF CloseComplete, Closing, Goto, Types, Cancellers
  <2>3. NC' = NC - 1
    BY <2>2, FileCountsFinite, FS_RemoveElement DEF NC
  <2>4. CASE frefs' = frefs - 2 /\ holders' = holders \ {Token(k)}
    <3>1. Token(k) \in holders
      BY <1>27 DEF CloseComplete, HolderPhases
    <3>2. NH' = NH - 1
      BY <2>4, <3>1, HolderGoes DEF NH
    <3> QED
      BY <2>1, <2>3, <2>4, <3>2, <1>a, <1>e DEF FileRefs, NL, NC, NH
  <2>5. CASE frefs' = frefs - 1 /\ holders' = holders
    BY <2>1, <2>3, <2>5, <1>a, <1>e DEF FileRefs, NL, NC, NH
  <2> QED
    BY <1>27, <2>4, <2>5 DEF CloseComplete
<1>28. CASE IoCancelFile
  <2>1. Live' = Live
    BY <1>28 DEF IoCancelFile, Gather, Gathered, Live, Types
  <2>2. Closing' = Closing
    BY <1>28 DEF IoCancelFile, Gather, Closing, Closers, Cancellers, Types
  <2> QED
    BY <1>28, <2>1, <2>2, <1>b DEF IoCancelFile, FileSame, irpVars, fileVars, closeVars,
       boundVars, ghostVars, vars
<1>29. CASE IopIpcCloseFile
  <2>1. NH' = NH + 1
    BY <1>29, HolderComes DEF IopIpcCloseFile, HolderPhases, NH
  <2>2. Closing' = Closing
    BY <1>29 DEF IopIpcCloseFile, Goto, Closing, Closers, Cancellers, Types
  <2>3. Live' = Live /\ frefs' = frefs + 1
    BY <1>29 DEF IopIpcCloseFile, Live, irpVars, fileVars, closeVars, boundVars, ghostVars, vars
  <2> QED
    BY <2>1, <2>2, <2>3, <1>a, <1>e DEF FileRefs, NL, NC, NH
<1>30. CASE IopIpcCleanupFileHandle
  <2>1. Closing' = Closing
    BY <1>30 DEF IopIpcCleanupFileHandle, Closing, Goto, Types, Closers, Cancellers, HandlePhase
  <2> QED
    BY <1>30, <2>1, <1>b DEF IopIpcCleanupFileHandle, FileSame, Live, irpVars, fileVars,
       closeVars, boundVars, ghostVars, vars
<1>31. CASE IopDeviceRundown
  <2>1. Live' = Live /\ Closing' = Closing
    <3>1. Live' = Live
      BY <1>31 DEF IopDeviceRundown, Live, irpVars, fileVars, closeVars, boundVars, ghostVars,
         vars
    <3>2. Closing' = Closing
      BY <1>31 DEF IopDeviceRundown, Goto, Closing, Closers, Cancellers, Types
    <3> QED
      BY <3>1, <3>2
  <2>2. CASE frefs > 0
    <3>1. /\ "gatherer" \notin holders /\ "device" \notin holders \cup {"gatherer"}
          /\ holders' = (holders \cup {"gatherer"}) \cup {"device"}
          /\ frefs' = frefs + 2
      BY <1>31, <2>2, <1>e DEF IopDeviceRundown, HolderPhases
    <3>2. /\ IsFiniteSet(holders \cup {"gatherer"})
          /\ Cardinality(holders \cup {"gatherer"}) = NH + 1
      BY <3>1, FileCountsFinite, FS_AddElement DEF NH
    <3>3. NH' = (NH + 1) + 1
      BY <3>1, <3>2, FS_AddElement DEF NH
    <3> QED
      BY <2>1, <3>1, <3>3, <1>a, <1>e DEF FileRefs, NL, NC, NH
  <2>3. CASE ~(frefs > 0)
    BY <1>31, <2>1, <2>3, <1>b DEF IopDeviceRundown, FileSame
  <2> QED
    BY <2>2, <2>3
<1>32. CASE SpuriousWakeup
  <2>1. Closing' = Closing
    BY <1>32 DEF SpuriousWakeup, Closing, Goto, Types, Closers, Cancellers, HandlePhase
  <2> QED
    BY <1>32, <2>1, <1>b DEF SpuriousWakeup, FileSame, Live, irpVars, fileVars, closeVars,
       boundVars, ghostVars, vars
<1>33. CASE IopFileObjectFree
  BY <1>33, <1>b DEF IopFileObjectFree, FileSame, Live, Closing, irpVars, fileVars, closeVars,
     boundVars, ghostVars, vars
<1>34. CASE UNCHANGED vars
  BY <1>34, <1>b DEF FileSame, Live, Closing, irpVars, fileVars, closeVars, boundVars, ghostVars,
     vars
<1> QED
  BY <1>1, <1>2, <1>3, <1>4, <1>5, <1>6, <1>7, <1>8, <1>9, <1>10, <1>11, <1>12, <1>13, <1>14,
     <1>15, <1>16, <1>17, <1>18, <1>19, <1>20, <1>21, <1>22, <1>23, <1>24, <1>25, <1>26, <1>27,
     <1>28, <1>29, <1>30, <1>31, <1>32, <1>33, <1>34 DEF Next, Caller, Completion, Closer,
     Cancellers

-----------------------------------------------------------------------------
(* Cancellation, and the end of a file.                                    *)

\* Every action keeps the marks of a cancellation in step with the driver.
LEMMA CancelPhasesStep ==
  ASSUME Types, IrpPhases, CancelPhases, [Next]_vars PROVE CancelPhases'
<1> USE DEF Types, IrpPhases, CancelPhases, irpVars, fileVars, closeVars, boundVars, ghostVars,
   vars
<1>1. ASSUME NEW i \in Irps, IopIrpAttach(i) PROVE CancelPhases'
  BY <1>1 DEF IopIrpAttach, Step, IrpFlags, Places
<1>2. ASSUME NEW i \in Irps, AttachRefused(i) PROVE CancelPhases'
  BY <1>2 DEF AttachRefused, Step, IrpFlags, Places
<1>3. ASSUME NEW i \in Irps, IopFileObjectAddDispatched(i) PROVE CancelPhases'
  BY <1>3 DEF IopFileObjectAddDispatched, Step, IrpFlags, Places
<1>4. ASSUME NEW i \in Irps, DispatchRefused(i) PROVE CancelPhases'
  BY <1>4 DEF DispatchRefused, Step, IrpFlags, Places
<1>5. ASSUME NEW i \in Irps, SetDispatched(i) PROVE CancelPhases'
  BY <1>5 DEF SetDispatched, Step, IrpFlags, Places
<1>6. ASSUME NEW i \in Irps, DriverReturns(i) PROVE CancelPhases'
  BY <1>6 DEF DriverReturns, Step, MarkComplete, IrpFlags, Places
<1>7. ASSUME NEW i \in Irps, IoIrpMarkPending(i) PROVE CancelPhases'
  BY <1>7 DEF IoIrpMarkPending, Step, IrpFlags, Places
<1>8. ASSUME NEW i \in Irps, ReferencePending(i) PROVE CancelPhases'
  BY <1>8 DEF ReferencePending, Step, IrpFlags, Places
<1>9. ASSUME NEW i \in Irps, NeedCancel(i) PROVE CancelPhases'
  BY <1>9 DEF NeedCancel, Step, AwaitIrp, IrpFlags, Places
<1>10. ASSUME NEW i \in Irps, Recancel(i) PROVE CancelPhases'
  BY <1>10 DEF Recancel, Step, AwaitIrp, Cancelled, IrpFlags, Places
<1>11. ASSUME NEW i \in Irps, HandOut(i) PROVE CancelPhases'
  BY <1>11 DEF HandOut, Step, IrpFlags, Places
<1>12. ASSUME NEW i \in Irps, EventSet(i) PROVE CancelPhases'
  BY <1>12 DEF EventSet, Step, IrpFlags, Places
<1>13. ASSUME NEW i \in Irps, InlineDone(i) PROVE CancelPhases'
  BY <1>13 DEF InlineDone, Step, IrpFlags, Places
<1>14. ASSUME NEW i \in Irps, Leave(i) PROVE CancelPhases'
  BY <1>14 DEF Leave, Step, Dereference, FreesIrp, IrpFlags, Places
<1>15. ASSUME NEW i \in Irps, IoIrpComplete(i) PROVE CancelPhases'
  BY <1>15 DEF IoIrpComplete, MarkComplete, IrpFlags, Places
<1>16. ASSUME NEW i \in Irps, IopFileObjectRemoveDispatched(i) PROVE CancelPhases'
  BY <1>16 DEF IopFileObjectRemoveDispatched, LastAwaited, IrpFlags, Places
<1>17. ASSUME NEW i \in Irps, ResumeCompletion(i) PROVE CancelPhases'
  BY <1>17 DEF ResumeCompletion, IrpFlags, Places
<1>18. ASSUME NEW i \in Irps, CompleteType(i) PROVE CancelPhases'
  BY <1>18 DEF CompleteType, IrpFlags, Places
<1>19. ASSUME NEW i \in Irps, CallBack(i) PROVE CancelPhases'
  BY <1>19 DEF CallBack, Dereference, FreesIrp, IrpFlags, Places
<1>20. ASSUME NEW i \in Irps, CompleteCaller(i) PROVE CancelPhases'
  BY <1>20 DEF CompleteCaller, Dereference, FreesIrp, IrpFlags, Places
<1>21. ASSUME NEW i \in Irps, IoCancelAsyncCancelContext(i) PROVE CancelPhases'
  BY <1>21 DEF IoCancelAsyncCancelContext, Cancelled, IrpFlags, Places
<1>22. ASSUME NEW k \in Closers, RundownEnter(k) PROVE CancelPhases'
  BY <1>22 DEF RundownEnter, Goto, Token, IrpFlags, Places
<1>23. ASSUME NEW k \in Closers, RundownCancel(k) PROVE CancelPhases'
  BY <1>23 DEF RundownCancel, Gather, Gathered, IrpFlags, Places
<1>24. ASSUME NEW k \in Cancellers, CancelNext(k) PROVE CancelPhases'
  BY <1>24 DEF CancelNext, Step, Cancelled, Dereference, FreesIrp, IrpFlags, Places
<1>25. ASSUME NEW k \in Closers, RundownWait(k) PROVE CancelPhases'
  BY <1>25 DEF RundownWait, Goto, IrpFlags, Places
<1>26. ASSUME NEW k \in Closers, IopContinueAsyncCloseFile(k) PROVE CancelPhases'
  BY <1>26 DEF IopContinueAsyncCloseFile, Goto, IrpFlags, Places
<1>27. ASSUME NEW k \in Closers, CloseComplete(k) PROVE CancelPhases'
  BY <1>27 DEF CloseComplete, CloseFlags, Goto, Token, IrpFlags, Places
<1>28. CASE IoCancelFile
  BY <1>28 DEF IoCancelFile, Gather, Gathered, IrpFlags, Places
<1>29. CASE IopIpcCloseFile
  BY <1>29 DEF IopIpcCloseFile, Goto, IrpFlags, Places
<1>30. CASE IopIpcCleanupFileHandle
  BY <1>30 DEF IopIpcCleanupFileHandle, Goto, IrpFlags, Places
<1>31. CASE IopDeviceRundown
  BY <1>31 DEF IopDeviceRundown, Goto, IrpFlags, Places
<1>32. CASE SpuriousWakeup
  BY <1>32 DEF SpuriousWakeup, Goto, IrpFlags, Places
<1>33. CASE IopFileObjectFree
  BY <1>33 DEF IopFileObjectFree, IrpFlags, Places
<1>34. CASE UNCHANGED vars
  BY <1>34
<1> QED
  BY <1>1, <1>2, <1>3, <1>4, <1>5, <1>6, <1>7, <1>8, <1>9, <1>10, <1>11, <1>12, <1>13, <1>14,
     <1>15, <1>16, <1>17, <1>18, <1>19, <1>20, <1>21, <1>22, <1>23, <1>24, <1>25, <1>26, <1>27,
     <1>28, <1>29, <1>30, <1>31, <1>32, <1>33, <1>34 DEF Next, Caller, Completion, Closer,
     Cancellers

\* Every action keeps the Boolean variables Boolean.
LEMMA BooleansStep ==
  ASSUME Booleans, [Next]_vars PROVE Booleans'
<1> USE DEF Booleans, irpVars, fileVars, closeVars, boundVars, ghostVars, vars
<1>1. ASSUME NEW i \in Irps, IopIrpAttach(i) PROVE Booleans'
  BY <1>1 DEF IopIrpAttach, Step
<1>2. ASSUME NEW i \in Irps, AttachRefused(i) PROVE Booleans'
  BY <1>2 DEF AttachRefused, Step
<1>3. ASSUME NEW i \in Irps, IopFileObjectAddDispatched(i) PROVE Booleans'
  BY <1>3 DEF IopFileObjectAddDispatched, Step
<1>4. ASSUME NEW i \in Irps, DispatchRefused(i) PROVE Booleans'
  BY <1>4 DEF DispatchRefused, Step
<1>5. ASSUME NEW i \in Irps, SetDispatched(i) PROVE Booleans'
  BY <1>5 DEF SetDispatched, Step
<1>6. ASSUME NEW i \in Irps, DriverReturns(i) PROVE Booleans'
  BY <1>6 DEF DriverReturns, Step, MarkComplete
<1>7. ASSUME NEW i \in Irps, IoIrpMarkPending(i) PROVE Booleans'
  BY <1>7 DEF IoIrpMarkPending, Step
<1>8. ASSUME NEW i \in Irps, ReferencePending(i) PROVE Booleans'
  BY <1>8 DEF ReferencePending, Step
<1>9. ASSUME NEW i \in Irps, NeedCancel(i) PROVE Booleans'
  BY <1>9 DEF NeedCancel, Step, AwaitIrp
<1>10. ASSUME NEW i \in Irps, Recancel(i) PROVE Booleans'
  BY <1>10 DEF Recancel, Step, AwaitIrp, Cancelled
<1>11. ASSUME NEW i \in Irps, HandOut(i) PROVE Booleans'
  BY <1>11 DEF HandOut, Step
<1>12. ASSUME NEW i \in Irps, EventSet(i) PROVE Booleans'
  BY <1>12 DEF EventSet, Step
<1>13. ASSUME NEW i \in Irps, InlineDone(i) PROVE Booleans'
  BY <1>13 DEF InlineDone, Step
<1>14. ASSUME NEW i \in Irps, Leave(i) PROVE Booleans'
  BY <1>14 DEF Leave, Step, Dereference, FreesIrp
<1>15. ASSUME NEW i \in Irps, IoIrpComplete(i) PROVE Booleans'
  BY <1>15 DEF IoIrpComplete, MarkComplete
<1>16. ASSUME NEW i \in Irps, IopFileObjectRemoveDispatched(i) PROVE Booleans'
  BY <1>16 DEF IopFileObjectRemoveDispatched, LastAwaited
<1>17. ASSUME NEW i \in Irps, ResumeCompletion(i) PROVE Booleans'
  BY <1>17 DEF ResumeCompletion
<1>18. ASSUME NEW i \in Irps, CompleteType(i) PROVE Booleans'
  BY <1>18 DEF CompleteType
<1>19. ASSUME NEW i \in Irps, CallBack(i) PROVE Booleans'
  BY <1>19 DEF CallBack, Dereference, FreesIrp
<1>20. ASSUME NEW i \in Irps, CompleteCaller(i) PROVE Booleans'
  BY <1>20 DEF CompleteCaller, Dereference, FreesIrp
<1>21. ASSUME NEW i \in Irps, IoCancelAsyncCancelContext(i) PROVE Booleans'
  BY <1>21 DEF IoCancelAsyncCancelContext, Cancelled
<1>22. ASSUME NEW k \in Closers, RundownEnter(k) PROVE Booleans'
  BY <1>22 DEF RundownEnter, Goto, Token
<1>23. ASSUME NEW k \in Closers, RundownCancel(k) PROVE Booleans'
  BY <1>23 DEF RundownCancel, Gather, Gathered
<1>24. ASSUME NEW k \in Cancellers, CancelNext(k) PROVE Booleans'
  BY <1>24 DEF CancelNext, Step, Cancelled, Dereference, FreesIrp
<1>25. ASSUME NEW k \in Closers, RundownWait(k) PROVE Booleans'
  BY <1>25 DEF RundownWait, Goto
<1>26. ASSUME NEW k \in Closers, IopContinueAsyncCloseFile(k) PROVE Booleans'
  BY <1>26 DEF IopContinueAsyncCloseFile, Goto
<1>27. ASSUME NEW k \in Closers, CloseComplete(k) PROVE Booleans'
  BY <1>27 DEF CloseComplete, CloseFlags, Goto, Token
<1>28. CASE IoCancelFile
  BY <1>28 DEF IoCancelFile, Gather, Gathered
<1>29. CASE IopIpcCloseFile
  BY <1>29 DEF IopIpcCloseFile, Goto
<1>30. CASE IopIpcCleanupFileHandle
  BY <1>30 DEF IopIpcCleanupFileHandle, Goto
<1>31. CASE IopDeviceRundown
  BY <1>31 DEF IopDeviceRundown, Goto
<1>32. CASE SpuriousWakeup
  BY <1>32 DEF SpuriousWakeup, Goto
<1>33. CASE IopFileObjectFree
  BY <1>33 DEF IopFileObjectFree
<1>34. CASE UNCHANGED vars
  BY <1>34
<1> QED
  BY <1>1, <1>2, <1>3, <1>4, <1>5, <1>6, <1>7, <1>8, <1>9, <1>10, <1>11, <1>12, <1>13, <1>14,
     <1>15, <1>16, <1>17, <1>18, <1>19, <1>20, <1>21, <1>22, <1>23, <1>24, <1>25, <1>26, <1>27,
     <1>28, <1>29, <1>30, <1>31, <1>32, <1>33, <1>34 DEF Next, Caller, Completion, Closer,
     Cancellers

\* Every action keeps track of the reference for a cancel context.
LEMMA ExtraPhasesStep ==
  ASSUME Types, IrpPhases, ExtraPhases, [Next]_vars PROVE ExtraPhases'
<1> USE DEF Types, IrpPhases, ExtraPhases, irpVars, fileVars, closeVars, boundVars, ghostVars,
   vars
<1>1. ASSUME NEW i \in Irps, IopIrpAttach(i) PROVE ExtraPhases'
  BY <1>1 DEF IopIrpAttach, Step, IrpFlags, Places, Stages
<1>2. ASSUME NEW i \in Irps, AttachRefused(i) PROVE ExtraPhases'
  BY <1>2 DEF AttachRefused, Step, IrpFlags, Places, Stages
<1>3. ASSUME NEW i \in Irps, IopFileObjectAddDispatched(i) PROVE ExtraPhases'
  BY <1>3 DEF IopFileObjectAddDispatched, Step, IrpFlags, Places, Stages
<1>4. ASSUME NEW i \in Irps, DispatchRefused(i) PROVE ExtraPhases'
  BY <1>4 DEF DispatchRefused, Step, IrpFlags, Places, Stages
<1>5. ASSUME NEW i \in Irps, SetDispatched(i) PROVE ExtraPhases'
  BY <1>5 DEF SetDispatched, Step, IrpFlags, Places, Stages
<1>6. ASSUME NEW i \in Irps, DriverReturns(i) PROVE ExtraPhases'
  BY <1>6 DEF DriverReturns, Step, MarkComplete, IrpFlags, Places, Stages
<1>7. ASSUME NEW i \in Irps, IoIrpMarkPending(i) PROVE ExtraPhases'
  BY <1>7 DEF IoIrpMarkPending, Step, IrpFlags, Places, Stages
<1>8. ASSUME NEW i \in Irps, ReferencePending(i) PROVE ExtraPhases'
  BY <1>8 DEF ReferencePending, Step, IrpFlags, Places, Stages
<1>9. ASSUME NEW i \in Irps, NeedCancel(i) PROVE ExtraPhases'
  BY <1>9 DEF NeedCancel, Step, AwaitIrp, IrpFlags, Places, Stages
<1>10. ASSUME NEW i \in Irps, Recancel(i) PROVE ExtraPhases'
  BY <1>10 DEF Recancel, Step, AwaitIrp, Cancelled, IrpFlags, Places, Stages
<1>11. ASSUME NEW i \in Irps, HandOut(i) PROVE ExtraPhases'
  BY <1>11 DEF HandOut, Step, IrpFlags, Places, Stages
<1>12. ASSUME NEW i \in Irps, EventSet(i) PROVE ExtraPhases'
  BY <1>12 DEF EventSet, Step, IrpFlags, Places, Stages
<1>13. ASSUME NEW i \in Irps, InlineDone(i) PROVE ExtraPhases'
  BY <1>13 DEF InlineDone, Step, IrpFlags, Places, Stages
<1>14. ASSUME NEW i \in Irps, Leave(i) PROVE ExtraPhases'
  BY <1>14 DEF Leave, Step, Dereference, FreesIrp, IrpFlags, Places, Stages
<1>15. ASSUME NEW i \in Irps, IoIrpComplete(i) PROVE ExtraPhases'
  BY <1>15 DEF IoIrpComplete, MarkComplete, IrpFlags, Places, Stages
<1>16. ASSUME NEW i \in Irps, IopFileObjectRemoveDispatched(i) PROVE ExtraPhases'
  BY <1>16 DEF IopFileObjectRemoveDispatched, LastAwaited, IrpFlags, Places, Stages
<1>17. ASSUME NEW i \in Irps, ResumeCompletion(i) PROVE ExtraPhases'
  BY <1>17 DEF ResumeCompletion, IrpFlags, Places, Stages
<1>18. ASSUME NEW i \in Irps, CompleteType(i) PROVE ExtraPhases'
  BY <1>18 DEF CompleteType, IrpFlags, Places, Stages
<1>19. ASSUME NEW i \in Irps, CallBack(i) PROVE ExtraPhases'
  BY <1>19 DEF CallBack, Dereference, FreesIrp, IrpFlags, Places, Stages
<1>20. ASSUME NEW i \in Irps, CompleteCaller(i) PROVE ExtraPhases'
  BY <1>20 DEF CompleteCaller, Dereference, FreesIrp, IrpFlags, Places, Stages
<1>21. ASSUME NEW i \in Irps, IoCancelAsyncCancelContext(i) PROVE ExtraPhases'
  BY <1>21 DEF IoCancelAsyncCancelContext, Cancelled, IrpFlags, Places, Stages
<1>22. ASSUME NEW k \in Closers, RundownEnter(k) PROVE ExtraPhases'
  BY <1>22 DEF RundownEnter, Goto, Token, IrpFlags, Places, Stages
<1>23. ASSUME NEW k \in Closers, RundownCancel(k) PROVE ExtraPhases'
  BY <1>23 DEF RundownCancel, Gather, Gathered, IrpFlags, Places, Stages
<1>24. ASSUME NEW k \in Cancellers, CancelNext(k) PROVE ExtraPhases'
  BY <1>24 DEF CancelNext, Step, Cancelled, Dereference, FreesIrp, IrpFlags, Places, Stages
<1>25. ASSUME NEW k \in Closers, RundownWait(k) PROVE ExtraPhases'
  BY <1>25 DEF RundownWait, Goto, IrpFlags, Places, Stages
<1>26. ASSUME NEW k \in Closers, IopContinueAsyncCloseFile(k) PROVE ExtraPhases'
  BY <1>26 DEF IopContinueAsyncCloseFile, Goto, IrpFlags, Places, Stages
<1>27. ASSUME NEW k \in Closers, CloseComplete(k) PROVE ExtraPhases'
  BY <1>27 DEF CloseComplete, CloseFlags, Goto, Token, IrpFlags, Places, Stages
<1>28. CASE IoCancelFile
  BY <1>28 DEF IoCancelFile, Gather, Gathered, IrpFlags, Places, Stages
<1>29. CASE IopIpcCloseFile
  BY <1>29 DEF IopIpcCloseFile, Goto, IrpFlags, Places, Stages
<1>30. CASE IopIpcCleanupFileHandle
  BY <1>30 DEF IopIpcCleanupFileHandle, Goto, IrpFlags, Places, Stages
<1>31. CASE IopDeviceRundown
  BY <1>31 DEF IopDeviceRundown, Goto, IrpFlags, Places, Stages
<1>32. CASE SpuriousWakeup
  BY <1>32 DEF SpuriousWakeup, Goto, IrpFlags, Places, Stages
<1>33. CASE IopFileObjectFree
  BY <1>33 DEF IopFileObjectFree, IrpFlags, Places, Stages
<1>34. CASE UNCHANGED vars
  BY <1>34
<1> QED
  BY <1>1, <1>2, <1>3, <1>4, <1>5, <1>6, <1>7, <1>8, <1>9, <1>10, <1>11, <1>12, <1>13, <1>14,
     <1>15, <1>16, <1>17, <1>18, <1>19, <1>20, <1>21, <1>22, <1>23, <1>24, <1>25, <1>26, <1>27,
     <1>28, <1>29, <1>30, <1>31, <1>32, <1>33, <1>34 DEF Next, Caller, Completion, Closer,
     Cancellers

\* Every action keeps the end of the create and the handle in step.
LEMMA OpenPhasesStep ==
  ASSUME Types, IrpPhases, ExtraPhases, HandlePhase, CreatePhase, OpenPhases, [Next]_vars
  PROVE  OpenPhases'
<1>0. Create \in Irps
  BY DEF Irps
<1> USE <1>0 DEF Types, IrpPhases, ExtraPhases, HandlePhase, CreatePhase, OpenPhases, Closers,
   Cancellers, irpVars, fileVars, closeVars, boundVars, ghostVars, vars
<1>1. ASSUME NEW i \in Irps, IopIrpAttach(i) PROVE OpenPhases'
  BY <1>1 DEF IopIrpAttach, Step, IrpFlags, Stages, ReturnsStatus, Holders
<1>2. ASSUME NEW i \in Irps, AttachRefused(i) PROVE OpenPhases'
  BY <1>2 DEF AttachRefused, Step, IrpFlags, Stages, ReturnsStatus, Holders
<1>3. ASSUME NEW i \in Irps, IopFileObjectAddDispatched(i) PROVE OpenPhases'
  BY <1>3 DEF IopFileObjectAddDispatched, Step, IrpFlags, Stages, ReturnsStatus, Holders
<1>4. ASSUME NEW i \in Irps, DispatchRefused(i) PROVE OpenPhases'
  BY <1>4 DEF DispatchRefused, Step, IrpFlags, Stages, ReturnsStatus, Holders
<1>5. ASSUME NEW i \in Irps, SetDispatched(i) PROVE OpenPhases'
  BY <1>5 DEF SetDispatched, Step, IrpFlags, Stages, ReturnsStatus, Holders
<1>6. ASSUME NEW i \in Irps, DriverReturns(i) PROVE OpenPhases'
  BY <1>6 DEF DriverReturns, Step, MarkComplete, IrpFlags, Stages, ReturnsStatus, Holders
<1>7. ASSUME NEW i \in Irps, IoIrpMarkPending(i) PROVE OpenPhases'
  BY <1>7 DEF IoIrpMarkPending, Step, IrpFlags, Stages, ReturnsStatus, Holders
<1>8. ASSUME NEW i \in Irps, ReferencePending(i) PROVE OpenPhases'
  BY <1>8 DEF ReferencePending, Step, IrpFlags, Stages, ReturnsStatus, Holders
<1>9. ASSUME NEW i \in Irps, NeedCancel(i) PROVE OpenPhases'
  BY <1>9 DEF NeedCancel, Step, AwaitIrp, IrpFlags, Stages, ReturnsStatus, Holders
<1>10. ASSUME NEW i \in Irps, Recancel(i) PROVE OpenPhases'
  BY <1>10 DEF Recancel, Step, AwaitIrp, Cancelled, IrpFlags, Stages, ReturnsStatus, Holders
<1>11. ASSUME NEW i \in Irps, HandOut(i) PROVE OpenPhases'
  BY <1>11 DEF HandOut, Step, IrpFlags, Stages, ReturnsStatus, Holders
<1>12. ASSUME NEW i \in Irps, EventSet(i) PROVE OpenPhases'
  BY <1>12 DEF EventSet, Step, IrpFlags, Stages, ReturnsStatus, Holders
<1>13. ASSUME NEW i \in Irps, InlineDone(i) PROVE OpenPhases'
  BY <1>13 DEF InlineDone, Step, IrpFlags, Stages, ReturnsStatus, Holders
<1>14. ASSUME NEW i \in Irps, Leave(i) PROVE OpenPhases'
  BY <1>14 DEF Leave, Step, Dereference, FreesIrp, IrpFlags, Stages, ReturnsStatus, Holders
<1>15. ASSUME NEW i \in Irps, IoIrpComplete(i) PROVE OpenPhases'
  BY <1>15 DEF IoIrpComplete, MarkComplete, IrpFlags, Stages, ReturnsStatus, Holders
<1>16. ASSUME NEW i \in Irps, IopFileObjectRemoveDispatched(i) PROVE OpenPhases'
  BY <1>16 DEF IopFileObjectRemoveDispatched, LastAwaited, IrpFlags, Stages, ReturnsStatus,
     Holders
<1>17. ASSUME NEW i \in Irps, ResumeCompletion(i) PROVE OpenPhases'
  BY <1>17 DEF ResumeCompletion, IrpFlags, Stages, ReturnsStatus, Holders
<1>18. ASSUME NEW i \in Irps, CompleteType(i) PROVE OpenPhases'
  BY <1>18 DEF CompleteType, IrpFlags, Stages, ReturnsStatus, Holders
<1>19. ASSUME NEW i \in Irps, CallBack(i) PROVE OpenPhases'
  BY <1>19 DEF CallBack, Dereference, FreesIrp, IrpFlags, Stages, ReturnsStatus, Holders
<1>20. ASSUME NEW i \in Irps, CompleteCaller(i) PROVE OpenPhases'
  BY <1>20 DEF CompleteCaller, Dereference, FreesIrp, IrpFlags, Stages, ReturnsStatus, Holders
<1>21. ASSUME NEW i \in Irps, IoCancelAsyncCancelContext(i) PROVE OpenPhases'
  BY <1>21 DEF IoCancelAsyncCancelContext, Cancelled, IrpFlags, Stages, ReturnsStatus, Holders
<1>22. ASSUME NEW k \in Closers, RundownEnter(k) PROVE OpenPhases'
  BY <1>22 DEF RundownEnter, Goto, Token, IrpFlags, Stages, ReturnsStatus, Holders
<1>23. ASSUME NEW k \in Closers, RundownCancel(k) PROVE OpenPhases'
  BY <1>23 DEF RundownCancel, Gather, Gathered, IrpFlags, Stages, ReturnsStatus, Holders
<1>24. ASSUME NEW k \in Cancellers, CancelNext(k) PROVE OpenPhases'
  BY <1>24 DEF CancelNext, Step, Cancelled, Dereference, FreesIrp, IrpFlags, Stages,
     ReturnsStatus, Holders
<1>25. ASSUME NEW k \in Closers, RundownWait(k) PROVE OpenPhases'
  BY <1>25 DEF RundownWait, Goto, IrpFlags, Stages, ReturnsStatus, Holders
<1>26. ASSUME NEW k \in Closers, IopContinueAsyncCloseFile(k) PROVE OpenPhases'
  BY <1>26 DEF IopContinueAsyncCloseFile, Goto, IrpFlags, Stages, ReturnsStatus, Holders
<1>27. ASSUME NEW k \in Closers, CloseComplete(k) PROVE OpenPhases'
  BY <1>27 DEF CloseComplete, CloseFlags, Goto, Token, IrpFlags, Stages, ReturnsStatus, Holders
<1>28. CASE IoCancelFile
  BY <1>28 DEF IoCancelFile, Gather, Gathered, IrpFlags, Stages, ReturnsStatus, Holders
<1>29. CASE IopIpcCloseFile
  BY <1>29 DEF IopIpcCloseFile, Goto, IrpFlags, Stages, ReturnsStatus, Holders
<1>30. CASE IopIpcCleanupFileHandle
  BY <1>30 DEF IopIpcCleanupFileHandle, Goto, IrpFlags, Stages, ReturnsStatus, Holders, CallsEnded
<1>31. CASE IopDeviceRundown
  BY <1>31 DEF IopDeviceRundown, Goto, IrpFlags, Stages, ReturnsStatus, Holders
<1>32. CASE SpuriousWakeup
  BY <1>32 DEF SpuriousWakeup, Goto, IrpFlags, Stages, ReturnsStatus, Holders
<1>33. CASE IopFileObjectFree
  BY <1>33 DEF IopFileObjectFree, IrpFlags, Stages, ReturnsStatus, Holders
<1>34. CASE UNCHANGED vars
  BY <1>34 DEF ReturnsStatus
<1> QED
  BY <1>1, <1>2, <1>3, <1>4, <1>5, <1>6, <1>7, <1>8, <1>9, <1>10, <1>11, <1>12, <1>13, <1>14,
     <1>15, <1>16, <1>17, <1>18, <1>19, <1>20, <1>21, <1>22, <1>23, <1>24, <1>25, <1>26, <1>27,
     <1>28, <1>29, <1>30, <1>31, <1>32, <1>33, <1>34 DEF Next, Caller, Completion, Closer,
     Cancellers

\* Every action keeps what a rundown leaves behind.
LEMMA EndPhasesStep ==
  ASSUME Types, IrpPhases, HandlePhase, CreatePhase, ActivePhases, OpenPhases, EndPhases,
         [Next]_vars
  PROVE  EndPhases'
<1>0. Create \in Irps
  BY DEF Irps
<1> USE <1>0 DEF Types, IrpPhases, HandlePhase, CreatePhase, ActivePhases, OpenPhases, EndPhases,
   Active, Token, Closers, Cancellers, irpVars, fileVars, closeVars, boundVars, ghostVars, vars
<1>1. ASSUME NEW i \in Irps, IopIrpAttach(i) PROVE EndPhases'
  BY <1>1 DEF IopIrpAttach, Step, FileFlags, Stages, Holders
<1>2. ASSUME NEW i \in Irps, AttachRefused(i) PROVE EndPhases'
  BY <1>2 DEF AttachRefused, Step, FileFlags, Stages, Holders
<1>3. ASSUME NEW i \in Irps, IopFileObjectAddDispatched(i) PROVE EndPhases'
  BY <1>3 DEF IopFileObjectAddDispatched, Step, FileFlags, Stages, Holders
<1>4. ASSUME NEW i \in Irps, DispatchRefused(i) PROVE EndPhases'
  BY <1>4 DEF DispatchRefused, Step, FileFlags, Stages, Holders
<1>5. ASSUME NEW i \in Irps, SetDispatched(i) PROVE EndPhases'
  BY <1>5 DEF SetDispatched, Step, FileFlags, Stages, Holders
<1>6. ASSUME NEW i \in Irps, DriverReturns(i) PROVE EndPhases'
  BY <1>6 DEF DriverReturns, Step, MarkComplete, FileFlags, Stages, Holders
<1>7. ASSUME NEW i \in Irps, IoIrpMarkPending(i) PROVE EndPhases'
  BY <1>7 DEF IoIrpMarkPending, Step, FileFlags, Stages, Holders
<1>8. ASSUME NEW i \in Irps, ReferencePending(i) PROVE EndPhases'
  BY <1>8 DEF ReferencePending, Step, FileFlags, Stages, Holders
<1>9. ASSUME NEW i \in Irps, NeedCancel(i) PROVE EndPhases'
  BY <1>9 DEF NeedCancel, Step, AwaitIrp, FileFlags, Stages, Holders
<1>10. ASSUME NEW i \in Irps, Recancel(i) PROVE EndPhases'
  BY <1>10 DEF Recancel, Step, AwaitIrp, Cancelled, FileFlags, Stages, Holders
<1>11. ASSUME NEW i \in Irps, HandOut(i) PROVE EndPhases'
  BY <1>11 DEF HandOut, Step, FileFlags, Stages, Holders
<1>12. ASSUME NEW i \in Irps, EventSet(i) PROVE EndPhases'
  BY <1>12 DEF EventSet, Step, FileFlags, Stages, Holders
<1>13. ASSUME NEW i \in Irps, InlineDone(i) PROVE EndPhases'
  BY <1>13 DEF InlineDone, Step, FileFlags, Stages, Holders
<1>14. ASSUME NEW i \in Irps, Leave(i) PROVE EndPhases'
  BY <1>14 DEF Leave, Step, Dereference, FreesIrp, FileFlags, Stages, Holders
<1>15. ASSUME NEW i \in Irps, IoIrpComplete(i) PROVE EndPhases'
  BY <1>15 DEF IoIrpComplete, MarkComplete, FileFlags, Stages, Holders
<1>16. ASSUME NEW i \in Irps, IopFileObjectRemoveDispatched(i) PROVE EndPhases'
  BY <1>16 DEF IopFileObjectRemoveDispatched, LastAwaited, FileFlags, Stages, Holders
<1>17. ASSUME NEW i \in Irps, ResumeCompletion(i) PROVE EndPhases'
  BY <1>17 DEF ResumeCompletion, FileFlags, Stages, Holders
<1>18. ASSUME NEW i \in Irps, CompleteType(i) PROVE EndPhases'
  BY <1>18 DEF CompleteType, FileFlags, Stages, Holders
<1>19. ASSUME NEW i \in Irps, CallBack(i) PROVE EndPhases'
  BY <1>19 DEF CallBack, Dereference, FreesIrp, FileFlags, Stages, Holders
<1>20. ASSUME NEW i \in Irps, CompleteCaller(i) PROVE EndPhases'
  BY <1>20 DEF CompleteCaller, Dereference, FreesIrp, FileFlags, Stages, Holders
<1>21. ASSUME NEW i \in Irps, IoCancelAsyncCancelContext(i) PROVE EndPhases'
  BY <1>21 DEF IoCancelAsyncCancelContext, Cancelled, FileFlags, Stages, Holders
<1>22. ASSUME NEW k \in Closers, RundownEnter(k) PROVE EndPhases'
  BY <1>22 DEF RundownEnter, Goto, Token, FileFlags, Stages, Holders
<1>23. ASSUME NEW k \in Closers, RundownCancel(k) PROVE EndPhases'
  BY <1>23 DEF RundownCancel, Gather, Gathered, FileFlags, Stages, Holders
<1>24. ASSUME NEW k \in Cancellers, CancelNext(k) PROVE EndPhases'
  BY <1>24 DEF CancelNext, Step, Cancelled, Dereference, FreesIrp, FileFlags, Stages, Holders
<1>25. ASSUME NEW k \in Closers, RundownWait(k) PROVE EndPhases'
  BY <1>25 DEF RundownWait, Goto, FileFlags, Stages, Holders
<1>26. ASSUME NEW k \in Closers, IopContinueAsyncCloseFile(k) PROVE EndPhases'
  <2>1. CASE "CREATE_DONE" \in fflags
    BY <1>26, <2>1 DEF IopContinueAsyncCloseFile, Goto
  <2>2. CASE "CREATE_DONE" \notin fflags
    <3>1. k = "device"
      BY <1>26, <2>2 DEF IopContinueAsyncCloseFile
    <3>2. cpc' = [cpc EXCEPT !["device"] = "done"] /\ fflags' = fflags
      BY <1>26, <2>2, <3>1 DEF IopContinueAsyncCloseFile, Goto
    <3>3. missed' \/ (stage[Create] \in {"typed", "done"} /\ ~created)
      BY <1>26, <2>2 DEF IopContinueAsyncCloseFile
    <3>4. stage' = stage /\ created' = created
      BY <1>26 DEF IopContinueAsyncCloseFile
    <3> QED
      BY <3>2, <3>3, <3>4
  <2> QED
    BY <2>1, <2>2
<1>27. ASSUME NEW k \in Closers, CloseComplete(k) PROVE EndPhases'
  BY <1>27 DEF CloseComplete, CloseFlags, Goto, Token, FileFlags, Stages, Holders
<1>28. CASE IoCancelFile
  BY <1>28 DEF IoCancelFile, Gather, Gathered, FileFlags, Stages, Holders
<1>29. CASE IopIpcCloseFile
  BY <1>29 DEF IopIpcCloseFile, Goto, FileFlags, Stages, Holders
<1>30. CASE IopIpcCleanupFileHandle
  BY <1>30 DEF IopIpcCleanupFileHandle, Goto, FileFlags, Stages, Holders
<1>31. CASE IopDeviceRundown
  BY <1>31 DEF IopDeviceRundown, Goto, FileFlags, Stages, Holders
<1>32. CASE SpuriousWakeup
  BY <1>32 DEF SpuriousWakeup, Goto, FileFlags, Stages, Holders
<1>33. CASE IopFileObjectFree
  BY <1>33 DEF IopFileObjectFree, FileFlags, Stages, Holders
<1>34. CASE UNCHANGED vars
  BY <1>34
<1> QED
  BY <1>1, <1>2, <1>3, <1>4, <1>5, <1>6, <1>7, <1>8, <1>9, <1>10, <1>11, <1>12, <1>13, <1>14,
     <1>15, <1>16, <1>17, <1>18, <1>19, <1>20, <1>21, <1>22, <1>23, <1>24, <1>25, <1>26, <1>27,
     <1>28, <1>29, <1>30, <1>31, <1>32, <1>33, <1>34 DEF Next, Caller, Completion, Closer,
     Cancellers

-----------------------------------------------------------------------------
(* The theorems.                                                           *)

\* The inductive invariant.
Inv == /\ Types /\ Booleans /\ IrpPhases /\ CancelPhases /\ ActivePhases /\ DriverPhase
       /\ ListPhases /\ HandlePhase /\ CreatePhase /\ HolderPhases
       /\ DispatchedExact /\ IrpRefs /\ FileRefs
       /\ ExtraPhases /\ OpenPhases /\ EndPhases

\* It holds when IoCreateFile has allocated the file object.
LEMMA InvInit == Init => Inv
<1> SUFFICES ASSUME Init PROVE Inv
  OBVIOUS
<1> USE DEF Init
<1>0. Create \in Irps /\ Closing = {} /\ InDriver = {} /\ Live = {} /\ Active = {}
  BY DEF Irps, Closing, Closers, Cancellers, InDriver, Live, Active
<1>1. Types
  BY DEF Types, Places, Stages, FileFlags, CloserPlaces, Holders
<1>2. Booleans
  BY DEF Booleans
<1>3. IrpPhases /\ CancelPhases /\ ListPhases
  BY DEF IrpPhases, CancelPhases, ListPhases
<1>4. ActivePhases /\ DriverPhase
  BY <1>0 DEF ActivePhases, DriverPhase
<1>5. HandlePhase /\ CreatePhase /\ HolderPhases
  BY <1>0 DEF HandlePhase, CreatePhase, HolderPhases, Closers, Cancellers
<1>6. DispatchedExact
  BY <1>0, FS_EmptySet DEF DispatchedExact
<1>7. IrpRefs
  <2>1. \A i \in Irps : N(i) = 0
    BY <1>3, IdleUnlisted
  <2> QED
    BY <2>1 DEF IrpRefs, One, UsedByCaller, UsedByDriver
<1>8. FileRefs
  <2>1. Cardinality({} \cup {"creator"}) = Cardinality({}) + 1
    BY FS_EmptySet, FS_AddElement
  <2>2. holders = {} \cup {"creator"} /\ Cardinality({}) = 0
    BY FS_EmptySet
  <2> QED
    BY <2>1, <2>2, <1>0 DEF FileRefs
<1>9. ExtraPhases /\ OpenPhases /\ EndPhases
  BY <1>0 DEF ExtraPhases, OpenPhases, EndPhases, Closers, Cancellers
<1> QED
  BY <1>1, <1>2, <1>3, <1>4, <1>5, <1>6, <1>7, <1>8, <1>9 DEF Inv

\* Every step keeps it.
LEMMA InvStep == Inv /\ [Next]_vars => Inv'
<1> SUFFICES ASSUME Inv, [Next]_vars PROVE Inv'
  OBVIOUS
<1> USE DEF Inv
<1>1. IdleUnused
  BY NNat, IdleUnlisted DEF IdleUnused, IrpRefs, IrpPhases, One, UsedByCaller, UsedByDriver
<1>2. Types' /\ Booleans'
  BY TypesStep, BooleansStep
<1>3. IrpPhases' /\ CancelPhases' /\ ListPhases' /\ IrpRefs'
  BY <1>1, IrpPhasesStep, CancelPhasesStep, ListPhasesStep, IrpRefsStep
<1>4. DispatchedExact' /\ ActivePhases' /\ DriverPhase'
  BY DispatchedStep, ActiveStep, DriverPhaseStep
<1>5. HandlePhase' /\ CreatePhase' /\ HolderPhases' /\ FileRefs'
  BY HandlePhaseStep, CreatePhaseStep, HolderPhasesStep, FileRefsStep
<1>6. ExtraPhases' /\ OpenPhases' /\ EndPhases'
  BY ExtraPhasesStep, OpenPhasesStep, EndPhasesStep
<1> QED
  BY <1>2, <1>3, <1>4, <1>5, <1>6

\* So it always holds.
LEMMA Invariance == Spec => []Inv
  BY InvInit, InvStep, PTL DEF Spec

\* The variables have their types, and no count is ever negative (the unsigned
\* ReferenceCount and DispatchedIrpCount never wrap).
THEOREM TypesHold == Spec => []TypeOK
<1>1. Inv => TypeOK
  <2> SUFFICES ASSUME Inv PROVE TypeOK
    OBVIOUS
  <2>1. dispatched \in Nat
    BY CountsFinite DEF Inv, DispatchedExact
  <2>2. Types
    BY DEF Inv
  <2>3. frefs \in Nat
    BY <2>2, FileCountsFinite DEF Inv, FileRefs
  <2>4. refs \in [Irps -> Nat]
    <3>1. \A i \in Irps : refs[i] >= 0
      BY <2>2, RefsBounds DEF Inv
    <3> QED
      BY <2>2, <3>1 DEF Types
  <2>5. listed \in BOOLEAN /\ created \in BOOLEAN /\ missed \in BOOLEAN /\ torn \in BOOLEAN
    BY DEF Inv, Booleans
  <2> QED
    BY <2>1, <2>2, <2>3, <2>4, <2>5 DEF TypeOK, Types
<1> QED
  BY <1>1, Invariance, PTL

\* IopIrpDereference frees an IRP exactly when its last user is done with it.
THEOREM IrpCountExact == Spec => []IrpRefsExact
<1>1. Inv => IrpRefsExact
  BY DEF Inv, IrpRefs, IrpRefsExact, N, Lists
<1> QED
  BY <1>1, Invariance, PTL

\* IopFileObjectDereference frees a file object exactly when its last user is done.
THEOREM FileCountExact == Spec => []FileRefsExact
<1>1. Inv => FileRefsExact
  BY DEF Inv, FileRefs, FileRefsExact, Live
<1> QED
  BY <1>1, Invariance, PTL

\* IopFileObjectRundownEx sends CLOSE only after every other IRP came back, as long as
\* no condition wait returned without a signal.
THEOREM ClosesAlone == Spec => []CloseAlone
<1>1. Inv => CloseAlone
  BY DEF Inv, DriverPhase, CloseAlone, Closing
<1> QED
  BY <1>1, Invariance, PTL

\* The driver gets at most one CLOSE, and only for a file it opened.
THEOREM ClosesOnce == Spec => []CloseOnce
<1>1. Inv => CloseOnce
  <2> SUFFICES ASSUME Inv PROVE CloseOnce
    OBVIOUS
  <2>1. Closing \subseteq Active
    BY DEF Closing, Active
  <2>2. CASE Closing = {}
    BY <2>2, FS_EmptySet DEF CloseOnce
  <2>3. CASE Closing # {}
    <3>1. PICK k \in Closing : TRUE
      BY <2>3
    <3>2. Closing = {} \cup {k}
      BY <2>1, <3>1 DEF Inv, ActivePhases
    <3>3. Cardinality(Closing) = 1
      <4>1. Cardinality({} \cup {k}) = Cardinality({}) + 1 /\ Cardinality({}) = 0
        BY FS_EmptySet, FS_AddElement
      <4> QED
        BY <3>2, <4>1
    <3>4. created /\ "CLOSE_DONE" \notin fflags
      BY <2>1, <2>3 DEF Inv, ActivePhases, CreatePhase
    <3> QED
      BY <3>3, <3>4 DEF CloseOnce
  <2> QED
    BY <2>2, <2>3
<1> QED
  BY <1>1, Invariance, PTL

\* A cancellation that came before IoIrpMarkPending is made good by IopIrpDispatch.
THEOREM CancelsReach == Spec => []CancelNotForgotten
<1>1. Inv => CancelNotForgotten
  BY DEF Inv, CancelPhases, CancelNotForgotten, UsedByDriver
<1> QED
  BY <1>1, Invariance, PTL

\* Once nobody uses a file that the driver opened, the create is over, and the client's
\* handle was given out and released.
LEMMA QuietCreate ==
  ASSUME Inv, Quiet, created
  PROVE  "CREATE_DONE" \in fflags /\ handle = "released" /\ cpc["cleanup"] = "done"
<1>0. Create \in Irps
  BY DEF Irps
<1>1. stage[Create] = "done"
  <2>1. pc[Create] = "gone" /\ Create \notin UsedByDriver /\ stage[Create] # "none"
    BY <1>0 DEF Quiet, Inv, OpenPhases
  <2>2. "PENDING" \in flags[Create] => stage[Create] = "done"
    BY <1>0, <2>1 DEF UsedByDriver
  <2> QED
    BY <1>0, <2>1, <2>2 DEF Inv, IrpPhases
<1>2. "CREATE_DONE" \in fflags
  BY <1>1 DEF Inv, CreatePhase
<1>3. handle = "released"
  BY <1>1 DEF Quiet, Inv, OpenPhases, Types
<1>4. cpc["cleanup"] = "done"
  BY <1>3 DEF Quiet, Inv, HandlePhase, Closers
<1> QED
  BY <1>2, <1>3, <1>4

\* A file that was opened is closed by the time nobody uses it, but for the window of
\* the TODO in IopContinueAsyncCloseFile and a driver that fails the close.
THEOREM OpenedIsClosed == Spec => []OpenIsClosed
<1>1. Inv => OpenIsClosed
  <2> SUFFICES ASSUME Inv, Quiet, created, faults = 0, ~missed PROVE "CLOSE_DONE" \in fflags
    BY DEF OpenIsClosed
  <2>1. "RUNDOWN" \in fflags
    BY QuietCreate DEF Inv, EndPhases
  <2>2. Active = {}
    BY DEF Quiet, Active
  <2> QED
    BY <2>1, <2>2 DEF Inv, EndPhases
<1> QED
  BY <1>1, Invariance, PTL

\* Without a rundown of the device, a failed close or a call context written to after
\* its release, no file object is leaked.
THEOREM NothingLeaks == Spec => []NoLeak
<1>1. Inv => NoLeak
  <2> SUFFICES ASSUME Inv, Quiet, cpc["device"] = "idle", faults = 0, stray = {} PROVE frefs = 0
    BY DEF NoLeak
  <2>1. Live = {}
    <3> SUFFICES ASSUME NEW i \in Irps PROVE refs[i] = 0
      BY DEF Live
    <3>1. N(i) = 0
      <4>1. \A t \in Cancellers : gathered[t] = {}
        BY DEF Quiet, Inv, ListPhases, Cancellers, Closers
      <4>2. Lists(i) = {}
        BY <4>1 DEF Lists
      <4> QED
        BY <4>2, FS_EmptySet DEF N
    <3>2. i \notin UsedByCaller /\ i \notin UsedByDriver
      BY DEF Quiet, UsedByCaller
    <3>3. i \notin extra
      BY <3>2 DEF Quiet, Inv, ExtraPhases, IrpPhases, UsedByDriver
    <3> QED
      BY <3>1, <3>2, <3>3 DEF Inv, IrpRefs, One
  <2>2. Closing = {}
    BY DEF Quiet, Closing
  <2>3. holders = {}
    <3>1. "creator" \notin holders
      BY DEF Quiet, Inv, OpenPhases
    <3>2. "device" \notin holders /\ "gatherer" \notin holders
      BY DEF Inv, HolderPhases
    <3>3. "call" \notin holders
      BY DEF Quiet, Inv, HolderPhases, EndPhases, Token, Closers
    <3>4. "handle" \notin holders
      <4>1. CASE created
        BY <4>1, QuietCreate DEF Inv, EndPhases, Token
      <4>2. CASE ~created
        BY <4>2 DEF Inv, CreatePhase, HolderPhases
      <4> QED
        BY <4>1, <4>2
    <3> QED
      BY <3>1, <3>2, <3>3, <3>4 DEF Inv, Types, Holders
  <2> QED
    BY <2>1, <2>2, <2>3, FS_EmptySet DEF Inv, FileRefs
<1> QED
  BY <1>1, Invariance, PTL
=============================================================================
