------------------------------- MODULE IoFile -------------------------------
(***************************************************************************)
(* A file object of lwio's I/O manager and its IRPs (ioirp.c, iofile.c,    *)
(* the rundown of iodevice.c and the callers in ioipc.c): creation of the  *)
(* file, requests that complete at once or later, cancellation, and the    *)
(* ways a file is run down: the client's close, the release of its handle  *)
(* and the deletion of the device.                                         *)
(*                                                                         *)
(* A step is a stretch of code under the file object's mutex or under the  *)
(* device's CancelMutex, or one interlocked operation.  Flags that the     *)
(* code updates without a lock while another thread may update them can    *)
(* lose one of the two updates.                                            *)
(*                                                                         *)
(* The driver behaves like rdr: it may finish a request inside Dispatch,   *)
(* or mark it pending and complete it from another thread afterwards.      *)
(***************************************************************************)
EXTENDS Integers, FiniteSets

CONSTANTS Create,       \* the CREATE IRP of the file
          Others,       \* the other IRPs sent to it
          MaxFaults,    \* bound: close requests the driver fails
          MaxSpurious   \* bound: returns of a condition wait without a signal

ASSUME IoFileConstants ==
  /\ Create \notin Others /\ IsFiniteSet(Others)
  /\ MaxFaults \in Nat /\ MaxSpurious \in Nat

Irps == Others \cup {Create}

\* Threads that run IopFileObjectRundownEx: IopIpcCloseFile, the release of the
\* client's handle, and IopDeviceRundown.  Only the last one waits inline.
Closers == {"call", "cleanup", "device"}

\* Threads that run IopIrpCancelFileObject: these and IoCancelFile.
Cancellers == Closers \cup {"cancel"}

VARIABLES
  pc,          \* where the caller of each IRP is
  async,       \* the IRPs of asynchronous calls
  flags,       \* irpInternal->Flags
  refs,        \* irpInternal->ReferenceCount; 0 before and after its life
  stage,       \* how far IopIrpCompleteInternal is
  extra,       \* IRPs whose reference for the async cancel context is held
  handed,      \* IRPs whose AsyncCancelContext was handed to the caller
  freed,       \* IRPs whose call context the completion callback has freed
  linked,      \* IRPs that were put on a cancel list: CancelLinks.Next # NULL
  fflags,      \* pFileObject->Flags
  dispatched,  \* pFileObject->DispatchedIrpCount
  frefs,       \* pFileObject->ReferenceCount
  listed,      \* the file object is in pDevice->FileObjectsList
  created,     \* the driver has completed the create with success
  handle,      \* the client's handle: "none", "held", "released"
  cpc,         \* where each closer is, and the IoCancelFile thread
  gathered,    \* the cancel list of each canceller
  faults, spurious,
  holders,     \* history: who holds a reference to the file, IRPs aside
  lost,        \* history: IRPs of which a racing flag update was lost
  stray,       \* history: IRPs whose freed call context was written to
  missed,      \* history: a rundown took the file for unopened before the create ended
  torn         \* a file object was referenced that is being freed

irpVars   == <<pc, async, flags, refs, stage, extra, handed, freed, linked>>
fileVars  == <<fflags, dispatched, frefs, listed, created, handle>>
closeVars == <<cpc, gathered>>
boundVars == <<faults, spurious>>
ghostVars == <<holders, lost, stray, missed, torn>>
vars == <<irpVars, fileVars, closeVars, boundVars, ghostVars>>

IrpFlags  == {"PENDING", "COMPLETE", "CANCEL_PENDING", "CANCELLED", "DISPATCHED"}
FileFlags == {"CREATE_DONE", "CANCELLED", "RUNDOWN", "CLOSE_DONE", "RUNDOWN_WAIT"}
Places == {"idle", "attached", "counted", "driver", "inline", "marked", "pended", "recancel",
           "waiting", "handing", "leaving", "gone"}
Stages == {"none", "complete", "closing", "removed", "typed", "done"}
CloserPlaces == {"idle", "enter", "gather", "cancel", "wait", "close", "closing", "done"}
Holders == {"creator", "handle", "call", "device", "gatherer"}

TypeOK ==
  /\ pc \in [Irps -> Places] /\ stage \in [Irps -> Stages]
  /\ flags \in [Irps -> SUBSET IrpFlags] /\ refs \in [Irps -> Nat]
  /\ async \subseteq Irps /\ extra \subseteq Irps /\ handed \subseteq Irps
  /\ freed \subseteq Irps /\ linked \subseteq Irps
  /\ fflags \subseteq FileFlags /\ dispatched \in Nat /\ frefs \in Nat
  /\ listed \in BOOLEAN /\ created \in BOOLEAN
  /\ handle \in {"none", "held", "released"}
  /\ cpc \in [Cancellers -> CloserPlaces]
  /\ gathered \in [Cancellers -> SUBSET Irps]
  /\ faults \in Nat /\ spurious \in Nat
  /\ holders \subseteq Holders /\ lost \subseteq Irps /\ stray \subseteq Irps
  /\ missed \in BOOLEAN /\ torn \in BOOLEAN

\* After IopFileObjectAllocate in IoCreateFile: the creator holds the only
\* reference, and the file object is in the device's list.
Init ==
  /\ pc = [i \in Irps |-> "idle"] /\ stage = [i \in Irps |-> "none"]
  /\ flags = [i \in Irps |-> {}] /\ refs = [i \in Irps |-> 0]
  /\ async = {} /\ extra = {} /\ handed = {} /\ freed = {} /\ linked = {}
  /\ fflags = {} /\ dispatched = 0 /\ frefs = 1
  /\ listed = TRUE /\ created = FALSE /\ handle = "none"
  /\ cpc = [t \in Cancellers |-> "idle"]
  /\ gathered = [t \in Cancellers |-> {}]
  /\ faults = 0 /\ spurious = 0
  /\ holders = {"creator"} /\ lost = {} /\ stray = {}
  /\ missed = FALSE /\ torn = FALSE

Refused == fflags \cap {"CANCELLED", "RUNDOWN"} # {}

Step(i, to) == pc' = [pc EXCEPT ![i] = to]

\* IopIrpDereference, n times: the last one frees the IRP, and with it the
\* IRP's reference to the file.
Dereference(i, n) == refs' = [refs EXCEPT ![i] = @ - n]
FreesIrp(i, n) == IF refs[i] = n THEN 1 ELSE 0

-----------------------------------------------------------------------------
(* The caller's side: IopIrpCreate and IopIrpDispatch.                     *)

\* IopIrpAttach; a caller other than IoCreateFile got the file from a handle.
IopIrpAttach(i) ==
  /\ pc[i] = "idle" /\ (i = Create \/ handle = "held") /\ ~Refused
  /\ Step(i, "attached")
  /\ refs' = [refs EXCEPT ![i] = 1]
  /\ frefs' = frefs + 1
  /\ async' \in {async, async \cup {i}}
  /\ UNCHANGED <<flags, stage, extra, handed, freed, linked, fflags, dispatched, listed, created,
                 handle, closeVars, boundVars, ghostVars>>

AttachRefused(i) ==
  /\ pc[i] = "idle" /\ (i = Create \/ handle = "held") /\ Refused
  /\ Step(i, "gone")
  /\ frefs' = IF i = Create THEN frefs - 1 ELSE frefs
  /\ holders' = IF i = Create THEN holders \ {"creator"} ELSE holders
  /\ UNCHANGED <<async, flags, refs, stage, extra, handed, freed, linked, fflags, dispatched,
                 listed, created, handle, closeVars, boundVars, lost, stray, missed, torn>>

\* IopFileObjectAddDispatched.  An asynchronous call first references the IRP
\* for its cancel context, and drops that reference again when refused.
AddDispatched_Unchecked(i) ==
  /\ pc[i] = "attached"
  /\ Step(i, "counted")
  /\ dispatched' = dispatched + 1
  /\ refs' = [refs EXCEPT ![i] = @ + IF i \in async THEN 1 ELSE 0]
  /\ extra' = IF i \in async THEN extra \cup {i} ELSE extra
  /\ UNCHANGED <<async, flags, stage, handed, freed, linked, fflags, frefs, listed, created,
                 handle, closeVars, boundVars, ghostVars>>

IopFileObjectAddDispatched(i) ==
  /\ pc[i] = "attached" /\ ~Refused
  /\ Step(i, "counted")
  /\ dispatched' = dispatched + 1
  /\ refs' = [refs EXCEPT ![i] = @ + IF i \in async THEN 1 ELSE 0]
  /\ extra' = IF i \in async THEN extra \cup {i} ELSE extra
  /\ UNCHANGED <<async, flags, stage, handed, freed, linked, fflags, frefs, listed, created,
                 handle, closeVars, boundVars, ghostVars>>

DispatchRefused(i) ==
  /\ pc[i] = "attached" /\ Refused
  /\ Step(i, "leaving")
  /\ UNCHANGED <<async, flags, refs, stage, extra, handed, freed, linked, fileVars, closeVars,
                 boundVars, ghostVars>>

\* SetFlag(irpInternal->Flags, IRP_FLAG_DISPATCHED), without a lock.
SetDispatched(i) ==
  /\ pc[i] = "counted"
  /\ flags' = [flags EXCEPT ![i] = @ \cup {"DISPATCHED"}]
  /\ Step(i, "driver")
  /\ UNCHANGED <<async, refs, stage, extra, handed, freed, linked, fileVars, closeVars,
                 boundVars, ghostVars>>

\* IopIrpCompleteInternal marks the IRP; the driver has chosen the result.
MarkComplete(i) ==
  /\ flags' = [flags EXCEPT ![i] = @ \cup {"COMPLETE"}]
  /\ stage' = [stage EXCEPT ![i] = "complete"]
  /\ created' \in IF i = Create THEN BOOLEAN ELSE {created}

\* The driver finishes the request inside its dispatch routine.
DriverReturns(i) ==
  /\ pc[i] = "driver"
  /\ Step(i, "inline")
  /\ MarkComplete(i)
  /\ UNCHANGED <<async, refs, extra, handed, freed, linked, fflags, dispatched, frefs, listed,
                 handle, closeVars, boundVars, ghostVars>>

\* IoIrpMarkPending: the flag and the cancel callback are set under the cancel
\* lock, the reference is taken after it.
IoIrpMarkPending(i) ==
  /\ pc[i] = "driver"
  /\ flags' = [flags EXCEPT ![i] = @ \cup {"PENDING"}]
  /\ Step(i, "marked")
  /\ UNCHANGED <<async, refs, stage, extra, handed, freed, linked, fileVars, closeVars,
                 boundVars, ghostVars>>

ReferencePending_None(i) ==
  /\ pc[i] = "marked"
  /\ Step(i, "pended")
  /\ UNCHANGED <<async, flags, refs, stage, extra, handed, freed, linked, fileVars, closeVars,
                 boundVars, ghostVars>>

ReferencePending(i) ==
  /\ pc[i] = "marked"
  /\ refs' = [refs EXCEPT ![i] = @ + 1]
  /\ Step(i, "pended")
  /\ UNCHANGED <<async, flags, stage, extra, handed, freed, linked, fileVars, closeVars,
                 boundVars, ghostVars>>

\* Back in IopIrpDispatch: was the IRP cancelled before it could be?
AwaitIrp(i) == IF i \in async THEN "handing" ELSE "waiting"

NeedCancel_Never(i) ==
  /\ pc[i] = "pended"
  /\ Step(i, AwaitIrp(i))
  /\ UNCHANGED <<async, flags, refs, stage, extra, handed, freed, linked, fileVars, closeVars,
                 boundVars, ghostVars>>

NeedCancel(i) ==
  /\ pc[i] = "pended"
  /\ Step(i, IF "CANCEL_PENDING" \in flags[i] THEN "recancel" ELSE AwaitIrp(i))
  /\ UNCHANGED <<async, flags, refs, stage, extra, handed, freed, linked, fileVars, closeVars,
                 boundVars, ghostVars>>

\* IopIrpCancel on flags f: the cancel callback is called if there is one.
Cancelled(f) ==
  CASE f \cap {"CANCELLED", "COMPLETE"} # {} -> f
    [] f \cap {"CANCELLED", "COMPLETE"} = {} /\ "PENDING" \in f ->
         (f \ {"CANCEL_PENDING"}) \cup {"CANCELLED"}
    [] OTHER -> f \cup {"CANCEL_PENDING"}

Recancel(i) ==
  /\ pc[i] = "recancel"
  /\ flags' = [flags EXCEPT ![i] = Cancelled(@)]
  /\ Step(i, AwaitIrp(i))
  /\ UNCHANGED <<async, refs, stage, extra, handed, freed, linked, fileVars, closeVars,
                 boundVars, ghostVars>>

\* The asynchronous caller gets its cancel context in its control block, which
\* is part of the call context (ioipc.c).
HandOut(i) ==
  /\ pc[i] = "handing"
  /\ handed' = handed \cup {i}
  /\ stray' = IF i \in freed THEN stray \cup {i} ELSE stray
  /\ Step(i, "leaving")
  /\ UNCHANGED <<async, flags, refs, stage, extra, freed, linked, fileVars, closeVars,
                 boundVars, holders, lost, missed, torn>>

\* A synchronous caller is woken by the completion event.
EventSet(i) ==
  /\ pc[i] = "waiting" /\ stage[i] = "done"
  /\ Step(i, "leaving")
  /\ UNCHANGED <<async, flags, refs, stage, extra, handed, freed, linked, fileVars, closeVars,
                 boundVars, ghostVars>>

InlineDone_Always(i) ==
  /\ pc[i] = "inline" /\ stage[i] = "done"
  /\ Step(i, "leaving")
  /\ refs' = [refs EXCEPT ![i] = @ - 1]
  /\ extra' = extra \ {i}
  /\ UNCHANGED <<async, flags, stage, handed, freed, linked, fileVars, closeVars, boundVars,
                 ghostVars>>

\* The IRP was completed inline; there is no cancel context to hand out.
InlineDone(i) ==
  /\ pc[i] = "inline" /\ stage[i] = "done"
  /\ Step(i, "leaving")
  /\ refs' = [refs EXCEPT ![i] = @ - IF i \in extra THEN 1 ELSE 0]
  /\ extra' = extra \ {i}
  /\ UNCHANGED <<async, flags, stage, handed, freed, linked, fileVars, closeVars, boundVars,
                 ghostVars>>

\* Does the call return the status, rather than STATUS_PENDING?
ReturnsStatus(i) == i \notin async \/ "PENDING" \notin flags[i]

\* The end of IoCreateFile, IopReadWriteFile, ...: the caller's reference goes.
Leave(i) ==
  /\ pc[i] = "leaving"
  /\ Step(i, "gone")
  /\ Dereference(i, 1)
  /\ frefs' = frefs - FreesIrp(i, 1) - (IF i = Create THEN 1 ELSE 0)
  /\ holders' = IF i = Create THEN holders \ {"creator"} ELSE holders
  /\ handle' = IF i = Create /\ "CREATE_DONE" \in fflags /\ ReturnsStatus(i) THEN "held" ELSE handle
  /\ UNCHANGED <<async, flags, stage, extra, handed, freed, linked, fflags, dispatched, listed,
                 created, closeVars, boundVars, lost, stray, missed, torn>>

-----------------------------------------------------------------------------
(* Completion: the rest of IopIrpCompleteInternal.                         *)

\* IoIrpComplete, by a thread of the driver.
IoIrpComplete(i) ==
  /\ "PENDING" \in flags[i] /\ stage[i] = "none" /\ pc[i] # "marked"
  /\ MarkComplete(i)
  /\ UNCHANGED <<pc, async, refs, extra, handed, freed, linked, fflags, dispatched, frefs, listed,
                 handle, closeVars, boundVars, ghostVars>>

\* The rundown waits for this IRP only.
LastAwaited == "RUNDOWN_WAIT" \in fflags /\ dispatched = 1

\* IopFileObjectRemoveDispatched.  The last IRP wakes the closer that waits for
\* it inline, and closes the file itself for one that does not.
RemoveDispatched_NoWakeup(i) ==
  /\ stage[i] = "complete"
  /\ dispatched' = dispatched - 1
  /\ fflags' = IF LastAwaited THEN fflags \ {"RUNDOWN_WAIT"} ELSE fflags
  /\ stage' = [stage EXCEPT ![i] = "removed"]
  /\ UNCHANGED <<pc, async, flags, refs, extra, handed, freed, linked, frefs, listed, created,
                 handle, closeVars, boundVars, ghostVars>>

IopFileObjectRemoveDispatched(i) ==
  /\ stage[i] = "complete"
  /\ dispatched' = dispatched - 1
  /\ fflags' = IF LastAwaited THEN fflags \ {"RUNDOWN_WAIT"} ELSE fflags
  /\ cpc' = IF LastAwaited THEN [t \in Cancellers |-> IF cpc[t] = "wait" THEN "close" ELSE cpc[t]]
                           ELSE cpc
  /\ stage' = [stage EXCEPT ![i] =
                 IF LastAwaited /\ cpc["device"] # "wait" THEN "closing" ELSE "removed"]
  /\ UNCHANGED <<pc, async, flags, refs, extra, handed, freed, linked, frefs, listed, created,
                 handle, gathered, boundVars, ghostVars>>

\* IopContinueAsyncCloseFile returned to the completion that called it.
ResumeCompletion(i) ==
  /\ stage[i] = "closing" /\ \A t \in Closers : cpc[t] # "close"
  /\ stage' = [stage EXCEPT ![i] = "removed"]
  /\ UNCHANGED <<pc, async, flags, refs, extra, handed, freed, linked, fileVars, closeVars,
                 boundVars, ghostVars>>

CompleteType_NoReference(i) ==
  /\ stage[i] = "removed"
  /\ stage' = [stage EXCEPT ![i] = "typed"]
  /\ IF i = Create /\ created
       THEN /\ fflags' = fflags \cup {"CREATE_DONE"}
            /\ holders' = holders \cup {"handle"}
       ELSE UNCHANGED <<fflags, holders>>
  /\ UNCHANGED <<pc, async, flags, refs, extra, handed, freed, linked, dispatched, frefs, listed,
                 created, handle, closeVars, boundVars, lost, stray, missed, torn>>

\* The switch on the type: a successful create makes a handle, with a reference.
CompleteType(i) ==
  /\ stage[i] = "removed"
  /\ stage' = [stage EXCEPT ![i] = "typed"]
  /\ IF i = Create /\ created
       THEN /\ fflags' = fflags \cup {"CREATE_DONE"}
            /\ frefs' = frefs + 1
            /\ holders' = holders \cup {"handle"}
       ELSE UNCHANGED <<fflags, frefs, holders>>
  /\ UNCHANGED <<pc, async, flags, refs, extra, handed, freed, linked, dispatched, listed, created,
                 handle, closeVars, boundVars, lost, stray, missed, torn>>

\* A pending IRP of an asynchronous call: the callback drops the reference of the
\* cancel context, if it was handed out by now, and frees the call context.
CallBack(i) ==
  LET n == IF i \in handed \cap extra THEN 2 ELSE 1
  IN  /\ stage[i] = "typed" /\ "PENDING" \in flags[i] /\ i \in async
      /\ stage' = [stage EXCEPT ![i] = "done"]
      /\ freed' = freed \cup {i}
      /\ extra' = IF i \in handed THEN extra \ {i} ELSE extra
      /\ Dereference(i, n)
      /\ frefs' = frefs - FreesIrp(i, n)
      /\ handle' = IF i = Create /\ created THEN "held" ELSE handle
      /\ UNCHANGED <<pc, async, flags, handed, linked, fflags, dispatched, listed, created,
                     closeVars, boundVars, ghostVars>>

\* The other completions: one sets the caller's event, an inline one returns.
CompleteCaller(i) ==
  /\ stage[i] = "typed" /\ ("PENDING" \notin flags[i] \/ i \notin async)
  /\ stage' = [stage EXCEPT ![i] = "done"]
  /\ IF "PENDING" \in flags[i]
       THEN Dereference(i, 1) /\ frefs' = frefs - FreesIrp(i, 1)
       ELSE UNCHANGED <<refs, frefs>>
  /\ UNCHANGED <<pc, async, flags, extra, handed, freed, linked, fflags, dispatched, listed,
                 created, handle, closeVars, boundVars, ghostVars>>

-----------------------------------------------------------------------------
(* Cancellation.                                                           *)

\* IoCancelAsyncCancelContext, for a client that gives up on the call.
IoCancelAsyncCancelContext(i) ==
  /\ i \in handed \ freed
  /\ flags' = [flags EXCEPT ![i] = Cancelled(@)]
  /\ flags' # flags
  /\ UNCHANGED <<pc, async, refs, stage, extra, handed, freed, linked, fileVars, closeVars,
                 boundVars, ghostVars>>

\* IopIrpCancelFileObject gathers the IRPs of the file, each with a reference.
Gathered == {i \in Irps : refs[i] > 0} \ linked
Gather(t, to) ==
  /\ IF "CANCELLED" \in fflags
       THEN UNCHANGED <<refs, linked, gathered>>
       ELSE /\ refs' = [i \in Irps |-> IF i \in Gathered THEN refs[i] + 1 ELSE refs[i]]
            /\ linked' = linked \cup Gathered
            /\ gathered' = [gathered EXCEPT ![t] = Gathered]
  /\ cpc' = [cpc EXCEPT ![t] = to]

IoCancelFile ==
  /\ cpc["cancel"] = "idle" /\ handle = "held"
  /\ Gather("cancel", "cancel")
  /\ UNCHANGED <<pc, async, flags, stage, extra, handed, freed, fileVars, boundVars, ghostVars>>

\* IopIrpCancel for the next IRP of the list, whose reference is then dropped.
CancelNext(t) ==
  \E i \in gathered[t] :
    /\ gathered' = [gathered EXCEPT ![t] = @ \ {i}]
    /\ \/ flags' = [flags EXCEPT ![i] = Cancelled(@)] /\ UNCHANGED <<pc, lost>>
       \/ \* IopIrpDispatch sets DISPATCHED at the same time: one update is lost
          /\ pc[i] = "counted"
          /\ flags' \in {[flags EXCEPT ![i] = @ \cup {f}] : f \in {"DISPATCHED", "CANCEL_PENDING"}}
          /\ Step(i, "driver")
          /\ lost' = lost \cup {i}
    /\ Dereference(i, 1)
    /\ frefs' = frefs - FreesIrp(i, 1)
    /\ UNCHANGED <<async, stage, extra, handed, freed, linked, fflags, dispatched, listed, created,
                   handle, cpc, boundVars, holders, stray, missed, torn>>

-----------------------------------------------------------------------------
(* IopFileObjectRundownEx and its callers.                                 *)

Goto(t, to) == cpc' = [cpc EXCEPT ![t] = to]

\* IopIpcCloseFile -> IoRundownFile, which takes a reference of its own.
IopIpcCloseFile ==
  /\ cpc["call"] = "idle" /\ handle = "held"
  /\ Goto("call", "enter")
  /\ frefs' = frefs + 1 /\ holders' = holders \cup {"call"}
  /\ UNCHANGED <<irpVars, fflags, dispatched, listed, created, handle, gathered, boundVars, lost,
                 stray, missed, torn>>

\* The client's handle is released when no call uses it: IopIpcCleanupFileHandle.
CallsEnded == /\ cpc["call"] \in {"idle", "done"}
              /\ \A i \in Others : pc[i] \in {"idle", "gone"} /\ ("PENDING" \in flags[i] => stage[i] = "done")
              /\ cpc["cancel"] # "idle" => gathered["cancel"] = {}

IopIpcCleanupFileHandle ==
  /\ handle = "held" /\ CallsEnded
  /\ handle' = "released"
  /\ Goto("cleanup", "enter")
  /\ UNCHANGED <<irpVars, fflags, dispatched, frefs, listed, created, gathered, boundVars, ghostVars>>

\* IopDeviceRundown finds the file in the device's list and references it, as
\* IopFileObjectRundown does again.  A file whose count is 0 is being freed.
IopDeviceRundown ==
  /\ cpc["device"] = "idle" /\ listed
  /\ \/ /\ frefs > 0
        /\ Goto("device", "enter")
        /\ frefs' = frefs + 2 /\ holders' = holders \cup {"gatherer", "device"}
        /\ UNCHANGED torn
     \/ /\ frefs = 0
        /\ Goto("device", "done")
        /\ torn' = TRUE
        /\ UNCHANGED <<frefs, holders>>
  /\ UNCHANGED <<irpVars, fflags, dispatched, listed, created, handle, gathered, boundVars, lost,
                 stray, missed>>

\* The reference that closer k gives up once the file is closed.
Token(k) == IF k = "cleanup" THEN "handle" ELSE k

\* Somebody has closed the file, or is about to, or it falls to this closer.
RundownEnter_Twice(k) ==
  /\ cpc[k] = "enter"
  /\ IF "CLOSE_DONE" \in fflags
       THEN /\ Goto(k, "done")
            /\ frefs' = frefs - 1 /\ holders' = holders \ {Token(k)}
            /\ UNCHANGED fflags
       ELSE /\ Goto(k, "gather")
            /\ fflags' = fflags \cup {"RUNDOWN"}
            /\ UNCHANGED <<frefs, holders>>
  /\ UNCHANGED <<irpVars, dispatched, listed, created, handle, gathered, boundVars, lost, stray,
                 missed, torn>>

RundownEnter(k) ==
  /\ cpc[k] = "enter"
  /\ \/ /\ "CLOSE_DONE" \in fflags
        /\ Goto(k, "done")
        /\ frefs' = frefs - 1 /\ holders' = holders \ {Token(k)}
        /\ UNCHANGED fflags
     \/ /\ "CLOSE_DONE" \notin fflags /\ "RUNDOWN" \in fflags
        /\ Goto(k, "done")
        /\ UNCHANGED <<fflags, frefs, holders>>
     \/ /\ "CLOSE_DONE" \notin fflags /\ "RUNDOWN" \notin fflags
        /\ Goto(k, "gather")
        /\ fflags' = fflags \cup {"RUNDOWN"}
        /\ UNCHANGED <<frefs, holders>>
  /\ UNCHANGED <<irpVars, dispatched, listed, created, handle, gathered, boundVars, lost, stray,
                 missed, torn>>

RundownCancel(k) ==
  /\ cpc[k] = "gather"
  /\ Gather(k, "cancel")
  /\ fflags' = fflags \cup {"CANCELLED"}
  /\ UNCHANGED <<pc, async, flags, stage, extra, handed, freed, dispatched, frefs, listed, created,
                 handle, boundVars, ghostVars>>

\* Wait for the IRPs that were dispatched, or go on at once.
RundownWait(k) ==
  /\ cpc[k] = "cancel" /\ gathered[k] = {}
  /\ IF dispatched # 0
       THEN Goto(k, "wait") /\ fflags' = fflags \cup {"RUNDOWN_WAIT"}
       ELSE Goto(k, "close") /\ UNCHANGED fflags
  /\ UNCHANGED <<irpVars, dispatched, frefs, listed, created, handle, gathered, boundVars, ghostVars>>

\* The inline wait has no loop around it.
SpuriousWakeup ==
  /\ cpc["device"] = "wait"
  /\ spurious < MaxSpurious /\ spurious' = spurious + 1
  /\ Goto("device", "close")
  /\ UNCHANGED <<irpVars, fileVars, gathered, faults, ghostVars>>

ContinueAsyncCloseFile_Refused(k) ==
  /\ cpc[k] = "close"
  /\ Goto(k, "done")
  /\ missed' = (missed \/ stage[Create] \notin {"typed", "done"})
  /\ UNCHANGED <<irpVars, fileVars, gathered, boundVars, holders, lost, stray, torn>>

\* IopContinueAsyncCloseFile: a file that was opened gets its CLOSE IRP.
IopContinueAsyncCloseFile(k) ==
  /\ cpc[k] = "close"
  /\ IF "CREATE_DONE" \in fflags
       THEN /\ Goto(k, "closing")
            /\ dispatched' = dispatched + 1
            /\ frefs' = frefs + 1
            /\ UNCHANGED missed
       ELSE /\ Goto(k, "done")
            /\ missed' = (missed \/ stage[Create] \notin {"typed", "done"})
            /\ UNCHANGED <<dispatched, frefs>>
  /\ UNCHANGED <<irpVars, fflags, listed, created, handle, gathered, boundVars, holders, lost,
                 stray, torn>>

\* The driver completes the CLOSE IRP, and the IRP is freed.
CloseFlags == IF LastAwaited THEN fflags \ {"RUNDOWN_WAIT"} ELSE fflags

CloseComplete_NoDereference(k) ==
  /\ cpc[k] = "closing"
  /\ Goto(k, "done")
  /\ dispatched' = dispatched - 1
  /\ fflags' = CloseFlags \cup {"CLOSE_DONE"}
  /\ frefs' = frefs - 1
  /\ UNCHANGED <<irpVars, listed, created, handle, gathered, boundVars, holders, lost, stray,
                 missed, torn>>

CloseComplete(k) ==
  /\ cpc[k] = "closing"
  /\ Goto(k, "done")
  /\ dispatched' = dispatched - 1
  /\ \/ /\ fflags' = CloseFlags \cup {"CLOSE_DONE"}
        /\ frefs' = frefs - 2 /\ holders' = holders \ {Token(k)}
        /\ UNCHANGED faults
     \/ /\ faults < MaxFaults /\ faults' = faults + 1
        /\ fflags' = CloseFlags
        /\ frefs' = frefs - 1
        /\ UNCHANGED holders
  /\ UNCHANGED <<irpVars, listed, created, handle, gathered, spurious, lost, stray, missed, torn>>

\* IopFileObjectFree takes the file out of the device's list.
IopFileObjectFree ==
  /\ frefs = 0 /\ listed
  /\ listed' = FALSE
  /\ UNCHANGED <<irpVars, fflags, dispatched, frefs, created, handle, closeVars, boundVars, ghostVars>>

-----------------------------------------------------------------------------
\* The caller of IRP i goes on.
Caller(i) ==
  \/ IopFileObjectAddDispatched(i) \/ DispatchRefused(i)
  \/ SetDispatched(i) \/ DriverReturns(i) \/ IoIrpMarkPending(i) \/ ReferencePending(i)
  \/ NeedCancel(i) \/ Recancel(i) \/ HandOut(i) \/ EventSet(i) \/ InlineDone(i) \/ Leave(i)

\* A completion that has begun goes on.
Completion(i) ==
  \/ IopFileObjectRemoveDispatched(i) \/ ResumeCompletion(i)
  \/ CompleteType(i) \/ CallBack(i) \/ CompleteCaller(i)

Closer(k) ==
  \/ RundownEnter(k) \/ RundownCancel(k) \/ CancelNext(k) \/ RundownWait(k)
  \/ IopContinueAsyncCloseFile(k) \/ CloseComplete(k)

Next ==
  \/ \E i \in Irps : \/ IopIrpAttach(i) \/ AttachRefused(i) \/ Caller(i)
                     \/ IoIrpComplete(i) \/ Completion(i) \/ IoCancelAsyncCancelContext(i)
  \/ IoCancelFile \/ CancelNext("cancel")
  \/ IopIpcCloseFile \/ IopIpcCleanupFileHandle \/ IopDeviceRundown
  \/ \E k \in Closers : Closer(k)
  \/ SpuriousWakeup
  \/ IopFileObjectFree

Spec == Init /\ [][Next]_vars

\* Threads inside the I/O manager are scheduled.  The driver owes an answer only
\* to a request whose cancel callback was called, and to the CLOSE IRP.
Fairness ==
  /\ \A i \in Irps : /\ WF_vars(Caller(i)) /\ WF_vars(Completion(i))
                     /\ WF_vars(IoIrpComplete(i) /\ "CANCELLED" \in flags[i])
  /\ \A k \in Closers : WF_vars(Closer(k))
  /\ WF_vars(CancelNext("cancel"))

FairSpec == Spec /\ Fairness

-----------------------------------------------------------------------------
(* Who still uses an IRP.                                                  *)

\* The caller, from IopIrpCreate to its own IopIrpDereference.
UsedByCaller == {i \in Irps : pc[i] \notin {"idle", "gone"}}

\* The driver and the completion, from IoIrpMarkPending to the end of
\* IopIrpCompleteInternal.
UsedByDriver == {i \in Irps : "PENDING" \in flags[i] /\ pc[i] # "marked" /\ stage[i] # "done"}

\* IRPs that the driver was called for and has not answered.
InDriver == {i \in Irps : pc[i] \notin {"idle", "attached"} /\ stage[i] \in {"none", "complete"}
                           /\ (pc[i] \in {"leaving", "gone"} => "PENDING" \in flags[i])}

Closing == {k \in Closers : cpc[k] = "closing"}

One(S, x) == IF x \in S THEN 1 ELSE 0

-----------------------------------------------------------------------------
(* Properties.                                                             *)

\* The reference count of an IRP is the number of its users: its caller, the
\* driver that holds it pending, the cancel context that was not given back, and
\* the cancel lists it is on.  So IopIrpDereference frees it under none of them.
IrpRefsExact ==
  \A i \in Irps : refs[i] = One(UsedByCaller, i) + One(UsedByDriver, i) + One(extra, i)
                             + Cardinality({t \in Cancellers : i \in gathered[t]})

\* The reference count of the file is the number of its users: the live IRPs, a
\* CLOSE IRP, the handle and the closers.  So IopFileObjectDereference frees it
\* under none of them, and not later than the last one.
FileRefsExact ==
  frefs = Cardinality({i \in Irps : refs[i] > 0}) + Cardinality(Closing) + Cardinality(holders)

\* The driver is sent CLOSE only after every other IRP of the file came back, as
\* IopFileObjectRundownEx promises by waiting for DispatchedIrpCount; the one way
\* around it is a condition wait that returns without a signal.
CloseAlone == Closing # {} /\ spurious = 0 => InDriver = {}

\* The driver is sent CLOSE at most once, and never for a file it did not open.
CloseOnce == Cardinality(Closing) <= 1 /\ (Closing # {} => created /\ "CLOSE_DONE" \notin fflags)

\* A cancellation that arrives before the driver has made the IRP pending is not
\* forgotten: once IopIrpDispatch is past its check, no IRP is left marked
\* CANCEL_PENDING, uncancelled, with the driver.
CancelNotForgotten ==
  \A i \in Irps : pc[i] \in {"waiting", "handing", "leaving", "gone"} /\ i \in UsedByDriver
                  => "CANCEL_PENDING" \notin flags[i] \/ "COMPLETE" \in flags[i]

\* Nobody is inside the I/O manager, and the client has released its handle.
Quiet ==
  /\ \A i \in Irps : pc[i] \in {"idle", "gone"} /\ i \notin UsedByDriver
  /\ pc[Create] = "gone" /\ handle # "held"
  /\ gathered["cancel"] = {} /\ \A k \in Closers : cpc[k] \in {"idle", "done"}

\* The file object is not leaked: after the last call it has no reference, unless
\* the device was run down (whose two references nobody gives back), the driver
\* failed the close, or a call context was written to after it was freed.
NoLeak ==
  Quiet /\ cpc["device"] = "idle" /\ faults = 0 /\ stray = {} => frefs = 0

\* A file that the driver opened is closed in the driver by the time nobody uses
\* it, unless the rundown of the device overtook the end of the create (the window
\* of the TODO in IopContinueAsyncCloseFile) or the driver failed the close.
OpenIsClosed == Quiet /\ created /\ faults = 0 /\ ~missed => "CLOSE_DONE" \in fflags

\* A rundown that began ends: the cancellations reach the IRPs that the driver
\* holds, the last one wakes the closer, and the file is closed, unless a
\* cancellation was lost to the race for the flags.
RundownEnds ==
  "RUNDOWN" \in fflags ~> (lost # {} \/ \A k \in Closers : cpc[k] \in {"idle", "enter", "done"})

\* "Note that the IRP could complete in another thread and call
\* lwmsg_call_complete() before we call lwmsg_call_pend()" (ioipc.c): the call's
\* context is then not used any more.
ControlBlockLive == stray = {}

\* "It is impossible to resolve a file object from a device" (iofile.c), so a file
\* object whose last reference is gone is never referenced again.
NeverResurrected == ~torn
=============================================================================
