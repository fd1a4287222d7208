-------------------------- MODULE Container_proofs --------------------------
(***************************************************************************)
(* Proofs about Container, for every group of services and every bound: a  *)
(* service that is shown up is in the group's one live container, the      *)
(* reference count is exact or too high but nothing in use is deleted, and *)
(* a NULL container is followed only where NullOnlyByRefresh says.         *)
(*                                                                         *)
(* The inductive invariant is Inv.  Each of its parts has a lemma that     *)
(* says which other parts keep it, one step per action:                    *)
(*   Types          what is typed before the counts are known              *)
(*   OwnerPhase, DirectPhase, LinkPhase   the lock, the table and the list *)
(*   LeakPhase, Counts, DeletedPhase      the reference count              *)
(*   ServicePhase, RunningPhase, NullOnlyByRefresh   what a service is     *)
(*                  shown as                                               *)
(***************************************************************************)
EXTENDS Container, FiniteSetTheorems, TLAPS

\* TypeOK while the counts may still be negative.
Types ==
  /\ state \in [Services -> States]
  /\ cont \in [Services -> Ids \cup {Null}] /\ link \in [Services -> Ids \cup {Null}]
  /\ handle \in [Services -> Ids \cup {Null}]
  /\ calls \subseteq Calls
  /\ client \in {"idle", "refresh", "entry", "sent"} /\ target \in Services \cup {Null}
  /\ client # "idle" => target \in Services
  /\ phase \in [Ids -> Phases] /\ refs \in [Ids -> Int] /\ read \in [Ids -> Int]
  /\ hash \in Ids \cup {Null}
  /\ unborn \subseteq Ids /\ registered \subseteq Ids
  /\ deleted \subseteq Ids /\ direct \in BOOLEAN
  /\ owner \in Ids \cup {Null, "crashed"}
  /\ starts \in Nat /\ faults \in Nat
  /\ nulls \subseteq {"stop", "stopped", "refresh", "log"}
  /\ overtaken \subseteq Services /\ stuck \subseteq Services /\ leaked \subseteq Ids

-----------------------------------------------------------------------------
(* The parts of the inductive invariant.                                   *)

\* The phases of a container that has not been invalidated.
Living == {"created", "live", "exited", "signalled"}

\* The lock is held by a container that left the table, which has a live one or none.
OwnerPhase ==
  /\ owner \in Ids => phase[owner] = "gone"
  /\ hash # Null => phase[hash] \in Living

\* lwsmd itself is never invalidated, and leaves the table with its last service.
DirectPhase ==
  direct => /\ registered = {} /\ \A c \in Ids : phase[c] \in {"none", "live"}
            /\ hash # Null => \E s \in Services : link[s] = hash

\* All lists but that of the table's container, or of one being invalidated, are empty.
LinkPhase ==
  \A s \in Services :
    /\ cont[s] # Null => phase[cont[s]] # "none"
    /\ link[s] # Null => /\ link[s] = cont[s]
                         /\ link[s] = IF owner \in Ids /\ hash = Null THEN owner ELSE hash

\* An update is lost only in the last release of a task.
LeakPhase == \A c \in leaked : phase[c] = "over" /\ ~direct

Users(c) == {s \in Services : cont[s] = c}

\* The reference of the task or of the registration.
TaskRef(c) == IF ~direct /\ phase[c] \notin {"none", "over"} THEN 1 ELSE 0

\* Refs is never too low.  What a task has read can be overtaken by releases only.
Counts ==
  \A c \in Ids :
    /\ refs[c] >= Cardinality(Users(c)) + TaskRef(c)
    /\ c \notin leaked => refs[c] = Cardinality(Users(c)) + TaskRef(c)
    /\ phase[c] = "releasing" => read[c] >= refs[c]
    /\ phase[c] # "releasing" => read[c] = 0

\* A container is deleted when its count is 0.
DeletedPhase == \A c \in Ids : c \in deleted <=> refs[c] = 0 /\ phase[c] # "none"

\* A service that is up is on the list of its container, which gave out its handle.
ServicePhase ==
  \A s \in Services \ (overtaken \cup stuck) :
    state[s] \in {"STARTING", "RUNNING", "STOPPING"}
    => /\ cont[s] # Null /\ link[s] = cont[s]
       /\ state[s] # "STARTING" => handle[s] = cont[s]

\* Even when its stop could not be sent it has a container.
RunningPhase ==
  \A s \in Services \ overtaken : state[s] \in {"RUNNING", "STOPPING"} => cont[s] # Null

Inv ==
  /\ Types /\ OwnerPhase /\ DirectPhase /\ LinkPhase /\ LeakPhase /\ Counts /\ DeletedPhase
  /\ ServicePhase /\ RunningPhase /\ NullOnlyByRefresh

-----------------------------------------------------------------------------
(* What the steps do to the containers.                                    *)

\* The containers and the lists are left alone; the service manager may end.
Quiet ==
  /\ UNCHANGED <<cont, link, phase, refs, read, hash, registered, deleted, direct, leaked>>
  /\ owner' = owner \/ (owner = Null /\ owner' = "crashed")

\* A service leaves its container.
Leave(s) ==
  /\ cont' = [cont EXCEPT ![s] = Null] /\ link' = [link EXCEPT ![s] = Null]
  /\ hash' = HashAfter(s) /\ refs' = RefsAfter(s) /\ deleted' = DeletedAfter(s)
  /\ UNCHANGED <<phase, read, registered, direct, owner, leaked>>

\* A service leaves its container for the group's, which may be new.
Change(s, c) ==
  /\ owner = Null /\ c \in Acquired(s) /\ Join(s, c)
  /\ UNCHANGED <<read, registered, direct, owner, leaked>>

\* Processes start and end, behind the loader's back.
Process ==
  /\ \A c \in Ids : phase'[c] # phase[c] => ~direct /\ phase[c] \in Living /\ phase'[c] \in Living
  /\ UNCHANGED <<cont, link, refs, read, hash, registered, deleted, direct, owner, leaked>>

\* InvalidateContainer begins.
Begin(c) ==
  /\ owner = Null /\ ~direct /\ phase[c] \in Living /\ Invalidate(c)
  /\ UNCHANGED <<cont, link, refs, read, registered, deleted, direct, leaked>>

\* It takes one service off the list.
Unlink(s) ==
  /\ owner \in Ids /\ link[s] = owner /\ link' = [link EXCEPT ![s] = Null]
  /\ UNCHANGED <<cont, phase, refs, read, hash, registered, deleted, direct, owner, leaked>>

ContainerStep ==
  \/ Quiet \/ Process \/ InvalidateDone
  \/ \E s \in Services : Leave(s) \/ Unlink(s) \/ \E c \in Ids : Change(s, c)
  \/ \E c \in Ids : Begin(c) \/ TaskRelease(c) \/ TaskReleased(c) \/ ContainerSrvRegister(c)

\* Every action is one of these to the containers.
LEMMA Steps == ASSUME Types, DirectPhase, [Next]_vars PROVE ContainerStep
<1> USE DEF svcVars, procVars, boundVars, ghostVars, vars
<1>1. ASSUME NEW s \in Services, ContainerStart(s) \/ ContainerStart_NoCall(s)
      PROVE ContainerStep
  <2>1. PICK c \in Acquired(s) : Join(s, c)
    BY <1>1 DEF ContainerStart, ContainerStart_NoCall
  <2>2. c \in Ids
    BY <2>1, ContainerConstants DEF Acquired, HashAfter, Types
  <2>3. Change(s, c)
    BY <1>1, <2>1 DEF Change, ContainerStart, ContainerStart_NoCall, StartAllowed
  <2> QED BY <2>2, <2>3 DEF ContainerStep
<1>2. ASSUME NEW s \in Services, ContainerStart_NoContainer(s) \/ Reconstruct(s)
      PROVE ContainerStep
  BY <1>2 DEF ContainerStep, Leave, ContainerStart_NoContainer, Reconstruct
<1>3. ASSUME NEW s \in Services, ContainerStop_Dead(s) \/ ContainerStop(s) \/ ContainerStop_Null(s)
                                 \/ PollRefresh(s) \/ LogBegin(s)
      PROVE ContainerStep
  BY <1>3 DEF ContainerStep, Quiet, ContainerStop_Dead, ContainerStop, ContainerStop_Null,
     PollRefresh, LogBegin, Client, Crash
<1>4. ASSUME NEW s \in Services, InvalidateNext(s) PROVE ContainerStep
  BY <1>4 DEF ContainerStep, Unlink, InvalidateNext
<1>5. CASE ContainerRefresh \/ ContainerRefresh_Null \/ Logging
  BY <1>5 DEF ContainerStep, Quiet, ContainerRefresh, ContainerRefresh_Null, Logging,
     ContainerSetLogInfo, ContainerSetLogInfo_Null, LogReturn, Client, Crash
<1>6. ASSUME NEW k \in Calls, NEW a \in {"ok", "error"}, Completion(k, a) PROVE ContainerStep
  <2>1. k.svc \in Services
    BY DEF Calls
  <2>2. CASE ContainerStopComplete(k, a)
    BY <2>1, <2>2 DEF ContainerStep, Leave, ContainerStopComplete
  <2>3. CASE ContainerStartComplete(k, a) \/ ContainerStopComplete_Null(k, a)
    BY <2>3 DEF ContainerStep, Quiet, ContainerStartComplete, ContainerStopComplete_Null, Crash
  <2> QED BY <1>6, <2>2, <2>3 DEF Completion
<1>7. ASSUME NEW c \in Ids, TaskInit(c) PROVE ContainerStep
  <2>1. ~direct /\ phase[c] = "created" /\ owner = Null
    BY <1>7 DEF TaskInit, Tasks
  <2>2. CASE Invalidate(c)
    BY <1>7, <2>1, <2>2 DEF ContainerStep, Begin, TaskInit, Living
  <2>3. ASSUME NEW p \in {"live", "exited"}, phase' = [phase EXCEPT ![c] = p],
               UNCHANGED <<hash, owner>>
        PROVE  ContainerStep
    <3>1. \A d \in Ids : phase'[d] # phase[d] => phase[d] \in Living /\ phase'[d] \in Living
      BY <2>1, <2>3 DEF Types, Living
    <3> QED BY <1>7, <2>1, <2>3, <3>1 DEF ContainerStep, Process, TaskInit
  <2> QED BY <1>7, <2>2, <2>3 DEF TaskInit
<1>8. ASSUME NEW c \in Ids, TaskSignal(c) \/ ContainerSrvRegisterCancel(c) PROVE ContainerStep
  BY <1>8 DEF ContainerStep, Begin, TaskSignal, ContainerSrvRegisterCancel, Tasks, DirectPhase, Living
<1>9. ASSUME NEW c \in Ids, ChildExits(c) PROVE ContainerStep
  <2>1. ~direct /\ phase[c] = "live"
    BY <1>9 DEF ChildExits, Tasks
  <2>2. \A d \in Ids : phase'[d] # phase[d] => phase[d] \in Living /\ phase'[d] \in Living
    BY <1>9, <2>1 DEF ChildExits, Told, Living
  <2> QED BY <1>9, <2>1, <2>2 DEF ContainerStep, Process, ChildExits
<1>10. CASE StrangerExits
  <2>1. \A d \in Ids : phase'[d] # phase[d] => phase[d] = "exited" /\ phase'[d] = "signalled"
    BY <1>10 DEF StrangerExits, Told
  <2>2. \A d \in Ids : phase'[d] # phase[d] => ~direct /\ phase[d] \in Living /\ phase'[d] \in Living
    BY <2>1 DEF DirectPhase, Living
  <2> QED BY <1>10, <2>2 DEF ContainerStep, Process, StrangerExits
<1>11. CASE UNCHANGED vars
  BY <1>11 DEF ContainerStep, Quiet
<1> QED
  BY <1>1, <1>2, <1>3, <1>4, <1>5, <1>6, <1>7, <1>8, <1>9, <1>10, <1>11
     DEF Next, ContainerTask, ContainerStep

-----------------------------------------------------------------------------
(* One lemma for each part.                                                *)

\* Every action keeps the types.
LEMMA TypesStep == ASSUME Types, [Next]_vars PROVE Types'
<1> USE ContainerConstants DEF Types, svcVars, procVars, boundVars, ghostVars, vars
<1>1. ASSUME NEW s \in Services PROVE RefsAfter(s) \in [Ids -> Int] /\ HashAfter(s) \in Ids \cup {Null}
                                      /\ DeletedAfter(s) \subseteq Ids
  BY DEF RefsAfter, HashAfter, DeletedAfter
<1>2. ASSUME NEW s \in Services, NEW c \in Acquired(s), Join(s, c)
      PROVE  /\ state' \in [Services -> States] /\ cont' \in [Services -> Ids \cup {Null}]
             /\ link' \in [Services -> Ids \cup {Null}] /\ handle' \in [Services -> Ids \cup {Null}]
             /\ hash' \in Ids \cup {Null} /\ refs' \in [Ids -> Int] /\ phase' \in [Ids -> Phases]
             /\ deleted' \subseteq Ids /\ starts' \in Nat /\ c \in Ids
  <2>1. c \in Ids
    BY <1>1 DEF Acquired
  <2> QED BY <1>1, <1>2, <2>1 DEF Join, States, Phases
<1>3. ASSUME NEW s \in Services, ContainerStart(s) PROVE Types'
  <2>1. PICK c \in Acquired(s) :
               Join(s, c) /\ calls' = calls \cup {[svc |-> s, kind |-> "start", con |-> c]}
    BY <1>3 DEF ContainerStart
  <2>2. calls' \subseteq Calls
    BY <1>2, <2>1 DEF Calls
  <2> QED BY <1>2, <1>3, <2>1, <2>2 DEF ContainerStart
<1>4. ASSUME NEW s \in Services, ContainerStart_NoCall(s) PROVE Types'
  BY <1>2, <1>4 DEF ContainerStart_NoCall
<1>5. ASSUME NEW s \in Services, ContainerStart_NoContainer(s) PROVE Types'
  BY <1>1, <1>5 DEF ContainerStart_NoContainer, States
<1>6. ASSUME NEW s \in Services, ContainerStop_Dead(s) PROVE Types'
  BY <1>6 DEF ContainerStop_Dead, States
<1>7. ASSUME NEW s \in Services, ContainerStop(s) PROVE Types'
  <2>1. calls' \subseteq Calls
    BY <1>7 DEF ContainerStop, Calls
  <2> QED BY <1>7, <2>1 DEF ContainerStop, States
<1>8. ASSUME NEW s \in Services,
             ContainerStop_Null(s) \/ PollRefresh(s) \/ LogBegin(s)
      PROVE Types'
  BY <1>8 DEF ContainerStop_Null, PollRefresh, LogBegin, Client, Crash
<1>9. ASSUME NEW s \in Services, Reconstruct(s) PROVE Types'
  BY <1>1, <1>9 DEF Reconstruct, States
<1>10. ASSUME NEW s \in Services, InvalidateNext(s) PROVE Types'
  BY <1>10 DEF InvalidateNext, States
<1>11. CASE ContainerRefresh \/ ContainerRefresh_Null \/ Logging
  BY <1>11 DEF ContainerRefresh, ContainerRefresh_Null, Logging, ContainerSetLogInfo,
     ContainerSetLogInfo_Null, LogReturn, Client, Crash
<1>12. ASSUME NEW k \in Calls, NEW a \in {"ok", "error"}, Completion(k, a) PROVE Types'
  <2>1. k.svc \in Services /\ k.con \in Ids
    BY DEF Calls
  <2>2. CASE ContainerStartComplete(k, a)
    BY <2>1, <2>2 DEF ContainerStartComplete, States
  <2>3. CASE ContainerStopComplete(k, a)
    BY <1>1, <2>1, <2>3 DEF ContainerStopComplete, States
  <2>4. CASE ContainerStopComplete_Null(k, a)
    BY <2>1, <2>4 DEF ContainerStopComplete_Null, Crash
  <2> QED BY <1>12, <2>2, <2>3, <2>4 DEF Completion
<1>13. ASSUME NEW c \in Ids, TaskInit(c) PROVE Types'
  BY <1>13 DEF TaskInit, Invalidate, Phases
<1>14. ASSUME NEW c \in Ids, TaskSignal(c) \/ ContainerSrvRegisterCancel(c) PROVE Types'
  BY <1>14 DEF TaskSignal, ContainerSrvRegisterCancel, Invalidate, Phases
<1>15. ASSUME NEW c \in Ids, TaskRelease(c) PROVE Types'
  BY <1>15 DEF TaskRelease, Phases
<1>16. ASSUME NEW c \in Ids, TaskReleased(c) PROVE Types'
  BY <1>16 DEF TaskReleased, Phases
<1>17. ASSUME NEW c \in Ids, ContainerSrvRegister(c) PROVE Types'
  BY <1>17 DEF ContainerSrvRegister, Phases
<1>18. ASSUME NEW c \in Ids, ChildExits(c) PROVE Types'
  <2>1. Told \in [Ids -> Phases]
    BY DEF Told, Phases
  <2> QED BY <1>18, <2>1 DEF ChildExits, Phases
<1>19. CASE StrangerExits
  BY <1>19 DEF StrangerExits, Told, Phases
<1>20. CASE InvalidateDone
  BY <1>20 DEF InvalidateDone, Phases
<1>21. CASE UNCHANGED vars
  BY <1>21
<1> QED
  BY <1>3, <1>4, <1>5, <1>6, <1>7, <1>8, <1>9, <1>10, <1>11, <1>12, <1>13, <1>14, <1>15, <1>16,
     <1>17, <1>18, <1>19, <1>20, <1>21 DEF Next, ContainerTask

\* A service joins the container in the table, or a new one when there is none.
LEMMA Acquires ==
  ASSUME Types, OwnerPhase, NEW s \in Services, NEW c \in Acquired(s)
  PROVE  /\ c \in Ids
         /\ \/ HashAfter(s) = Null /\ phase[c] = "none" /\ hash # c
            \/ HashAfter(s) = hash /\ c = hash /\ phase[c] \in Living /\ phase[c] # "none"
  BY ContainerConstants DEF Types, OwnerPhase, Acquired, HashAfter, Living

\* A container leaves the table in the step that takes the lock for its invalidation.
LEMMA OwnerStep == ASSUME Types, DirectPhase, OwnerPhase, [Next]_vars PROVE OwnerPhase'
<1>0. ContainerStep
  BY Steps
<1> USE ContainerConstants DEF Types, OwnerPhase
<1>1. CASE Quiet
  BY <1>1 DEF Quiet
<1>2. CASE Process
  BY <1>2 DEF Process, Living
<1>3. CASE InvalidateDone
  BY <1>3 DEF InvalidateDone, Living
<1>4. ASSUME NEW s \in Services, Leave(s) PROVE OwnerPhase'
  BY <1>4 DEF Leave, HashAfter
<1>5. ASSUME NEW s \in Services, Unlink(s) PROVE OwnerPhase'
  BY <1>5 DEF Unlink
<1>6. ASSUME NEW s \in Services, NEW c \in Ids, Change(s, c) PROVE OwnerPhase'
  BY <1>6, Acquires DEF Change, Join, Living
<1>7. ASSUME NEW c \in Ids, Begin(c) PROVE OwnerPhase'
  BY <1>7 DEF Begin, Invalidate
<1>8. ASSUME NEW c \in Ids, TaskRelease(c) PROVE OwnerPhase'
  BY <1>8 DEF TaskRelease, Living
<1>9. ASSUME NEW c \in Ids, TaskReleased(c) PROVE OwnerPhase'
  BY <1>9 DEF TaskReleased, Living
<1>10. ASSUME NEW c \in Ids, ContainerSrvRegister(c) PROVE OwnerPhase'
  BY <1>10 DEF ContainerSrvRegister, Living
<1> QED
  BY <1>0, <1>1, <1>2, <1>3, <1>4, <1>5, <1>6, <1>7, <1>8, <1>9, <1>10 DEF ContainerStep

\* The container of a direct group has no task and leaves with its last service.
LEMMA DirectStep ==
  ASSUME Types, OwnerPhase, DirectPhase, LinkPhase, [Next]_vars PROVE DirectPhase'
<1>0. ContainerStep
  BY Steps
<1> USE ContainerConstants DEF Types, DirectPhase
<1>1. CASE Quiet
  BY <1>1 DEF Quiet
<1>2. CASE Process
  BY <1>2 DEF Process, Living
<1>3. CASE InvalidateDone
  BY <1>3 DEF InvalidateDone, OwnerPhase, svcVars
<1>4. ASSUME NEW s \in Services, Leave(s) PROVE DirectPhase'
  <2>1. CASE direct /\ hash' # Null
    <3>1. hash' = hash /\ ~(Empties(s) /\ hash = cont[s])
      BY <1>4, <2>1 DEF Leave, HashAfter
    <3>2. PICK t \in Services : link[t] = hash
      BY <1>4, <2>1, <3>1
    <3>3. CASE t # s
      BY <1>4, <2>1, <3>1, <3>2, <3>3 DEF Leave
    <3>4. CASE t = s
      <4>1. cont[s] = hash /\ cont[s] # Null
        BY <2>1, <3>1, <3>2, <3>4 DEF LinkPhase
      <4>2. PICK u \in Services \ {s} : link[u] = cont[s]
        BY <3>1, <4>1 DEF Empties
      <4> QED BY <1>4, <2>1, <3>1, <4>1, <4>2 DEF Leave
    <3> QED BY <3>3, <3>4
  <2> QED BY <1>4, <2>1 DEF Leave
<1>5. ASSUME NEW s \in Services, Unlink(s) PROVE DirectPhase'
  BY <1>5 DEF Unlink, OwnerPhase
<1>6. ASSUME NEW s \in Services, NEW c \in Ids, Change(s, c) PROVE DirectPhase'
  <2>1. link'[s] = hash' /\ s \in Services
    BY <1>6 DEF Change, Join
  <2> QED BY <1>6, <2>1 DEF Change, Join
<1>7. ASSUME NEW c \in Ids, Begin(c) PROVE DirectPhase'
  BY <1>7 DEF Begin
<1>8. ASSUME NEW c \in Ids, TaskRelease(c) PROVE DirectPhase'
  BY <1>8 DEF TaskRelease
<1>9. ASSUME NEW c \in Ids, TaskReleased(c) PROVE DirectPhase'
  BY <1>9 DEF TaskReleased
<1>10. ASSUME NEW c \in Ids, ContainerSrvRegister(c) PROVE DirectPhase'
  BY <1>10 DEF ContainerSrvRegister
<1> QED
  BY <1>0, <1>1, <1>2, <1>3, <1>4, <1>5, <1>6, <1>7, <1>8, <1>9, <1>10 DEF ContainerStep

\* Where a service is on a list, it is on the one of the table's container or of the
\* container that is being invalidated: the last service to leave takes it out.
LEMMA LinkStep ==
  ASSUME Types, Types', OwnerPhase, DirectPhase, LinkPhase, [Next]_vars PROVE LinkPhase'
<1>0. ContainerStep
  BY Steps
<1> USE ContainerConstants DEF Types, LinkPhase
<1>1. CASE Quiet
  BY <1>1 DEF Quiet
<1>2. CASE Process
  BY <1>2 DEF Process, Living
<1>3. CASE InvalidateDone
  BY <1>3 DEF InvalidateDone, OwnerPhase, svcVars
<1>4. ASSUME NEW s \in Services, Leave(s) PROVE LinkPhase'
  <2>1. ASSUME NEW t \in Services \ {s}, link[t] # Null PROVE hash' = hash
    BY <1>4, <2>1 DEF Leave, HashAfter, Empties
  <2> QED BY <1>4, <2>1 DEF Leave
<1>5. ASSUME NEW s \in Services, Unlink(s) PROVE LinkPhase'
  BY <1>5 DEF Unlink
<1>6. ASSUME NEW s \in Services, NEW c \in Ids, Change(s, c) PROVE LinkPhase'
  <2>1. ASSUME NEW t \in Services \ {s}, link[t] # Null PROVE c = hash
    BY <1>6, <2>1, Acquires DEF Change, HashAfter, Empties
  <2>2. \A d \in Ids : phase[d] # "none" => phase'[d] # "none"
    BY <1>6 DEF Change, Join
  <2>3. phase'[c] # "none"
    BY <1>6, Acquires DEF Change, Join
  <2>4. owner = Null /\ owner' = Null /\ hash' = c
    BY <1>6 DEF Change, Join
  <2>5. cont' = [cont EXCEPT ![s] = c] /\ link' = [link EXCEPT ![s] = c]
    BY <1>6 DEF Change, Join
  <2> QED BY <2>1, <2>2, <2>3, <2>4, <2>5
<1>7. ASSUME NEW c \in Ids, Begin(c) PROVE LinkPhase'
  BY <1>7 DEF Begin, Invalidate
<1>8. ASSUME NEW c \in Ids, TaskRelease(c) PROVE LinkPhase'
  BY <1>8 DEF TaskRelease, svcVars
<1>9. ASSUME NEW c \in Ids, TaskReleased(c) PROVE LinkPhase'
  BY <1>9 DEF TaskReleased, svcVars
<1>10. ASSUME NEW c \in Ids, ContainerSrvRegister(c) PROVE LinkPhase'
  BY <1>10 DEF ContainerSrvRegister, svcVars
<1> QED
  BY <1>0, <1>1, <1>2, <1>3, <1>4, <1>5, <1>6, <1>7, <1>8, <1>9, <1>10 DEF ContainerStep

\* A container of which an update was lost stays released.
LEMMA LeakStep ==
  ASSUME Types, OwnerPhase, DirectPhase, LeakPhase, [Next]_vars PROVE LeakPhase'
<1>0. ContainerStep
  BY Steps
<1> USE ContainerConstants DEF Types, LeakPhase
<1>1. CASE Quiet
  BY <1>1 DEF Quiet
<1>2. CASE Process
  BY <1>2 DEF Process, Living
<1>3. CASE InvalidateDone
  BY <1>3 DEF InvalidateDone, ghostVars
<1>4. ASSUME NEW s \in Services, Leave(s) PROVE LeakPhase'
  BY <1>4 DEF Leave
<1>5. ASSUME NEW s \in Services, Unlink(s) PROVE LeakPhase'
  BY <1>5 DEF Unlink
<1>6. ASSUME NEW s \in Services, NEW c \in Ids, Change(s, c) PROVE LeakPhase'
  BY <1>6 DEF Change, Join
<1>7. ASSUME NEW c \in Ids, Begin(c) PROVE LeakPhase'
  BY <1>7 DEF Begin, Invalidate, Living
<1>8. ASSUME NEW c \in Ids, TaskRelease(c) PROVE LeakPhase'
  BY <1>8 DEF TaskRelease, ghostVars
<1>9. ASSUME NEW c \in Ids, TaskReleased(c) PROVE LeakPhase'
  BY <1>9 DEF TaskReleased, DirectPhase
<1>10. ASSUME NEW c \in Ids, ContainerSrvRegister(c) PROVE LeakPhase'
  BY <1>10 DEF ContainerSrvRegister, ghostVars
<1> QED
  BY <1>0, <1>1, <1>2, <1>3, <1>4, <1>5, <1>6, <1>7, <1>8, <1>9, <1>10 DEF ContainerStep

-----------------------------------------------------------------------------
(* The reference count.                                                    *)

\* The services of a container are finitely many.
LEMMA UsersFinite == ASSUME NEW c PROVE IsFiniteSet(Users(c)) /\ Cardinality(Users(c)) \in Nat
<1>1. Users(c) \subseteq Services
  BY DEF Users
<1> QED BY <1>1, ContainerConstants, FS_Subset, FS_CardinalityType

\* When one service changes its container, the counts of two containers change.
LEMMA UsersMove ==
  ASSUME Types, NEW s \in Services, NEW d \in Ids \cup {Null}, cont' = [cont EXCEPT ![s] = d],
         NEW c \in Ids
  PROVE  Cardinality(Users(c)') = Cardinality(Users(c)) - (IF cont[s] = c THEN 1 ELSE 0)
                                                        + (IF d = c THEN 1 ELSE 0)
<1> DEFINE Rest == {t \in Services \ {s} : cont[t] = c}
<1>1. Rest \subseteq Services /\ s \notin Rest
  OBVIOUS
<1>2. IsFiniteSet(Rest) /\ Cardinality(Rest) \in Nat
  BY <1>1, ContainerConstants, FS_Subset, FS_CardinalityType
<1>3. Cardinality(Rest \cup {s}) = Cardinality(Rest) + 1
  BY <1>1, <1>2, FS_AddElement
<1>4. Users(c) = IF cont[s] = c THEN Rest \cup {s} ELSE Rest
  BY DEF Users
<1>5. Users(c)' = IF d = c THEN Rest \cup {s} ELSE Rest
  BY DEF Users, Types
<1> HIDE DEF Rest
<1> QED BY <1>2, <1>3, <1>4, <1>5

\* Nobody changes its container.
LEMMA UsersSame == ASSUME cont' = cont, NEW c PROVE Users(c)' = Users(c)
  BY DEF Users

\* A service that has a container is one of its users.
LEMMA UsersOne ==
  ASSUME NEW s \in Services, NEW c, cont[s] = c PROVE Cardinality(Users(c)) >= 1
<1>1. s \in Users(c)
  BY DEF Users
<1> QED BY <1>1, UsersFinite, FS_EmptySet

\* No user, and the count of users is 0.
LEMMA UsersNone == ASSUME NEW c PROVE Cardinality(Users(c)) = 0 <=> Users(c) = {}
  BY UsersFinite, FS_EmptySet

\* Whoever drops a reference finds one, and a task reads at least what it leaves.
LEMMA CountsStep ==
  ASSUME Types, Types', OwnerPhase, DirectPhase, LinkPhase, LeakPhase, Counts, [Next]_vars
  PROVE  Counts'
<1>0. ContainerStep
  BY Steps
<1>u. \A c \in Ids : Cardinality(Users(c)) \in Nat /\ Cardinality(Users(c)') \in Nat
  <2>1. \A c \in Ids : Cardinality(Users(c)) \in Nat
    BY UsersFinite
  <2>2. ASSUME NEW c \in Ids PROVE Cardinality(Users(c)') \in Nat
    <3>1. Users(c)' \subseteq Services
      BY DEF Users
    <3> QED BY <3>1, ContainerConstants, FS_Subset, FS_CardinalityType
  <2> QED BY <2>1, <2>2
<1>k. ASSUME cont' = cont PROVE \A c \in Ids : Cardinality(Users(c)') = Cardinality(Users(c))
  BY <1>k, UsersSame
<1>m. ASSUME NEW s \in Services, NEW d \in Ids \cup {Null}, cont' = [cont EXCEPT ![s] = d]
      PROVE  \A c \in Ids :
               Cardinality(Users(c)') = Cardinality(Users(c)) - (IF cont[s] = c THEN 1 ELSE 0)
                                                              + (IF d = c THEN 1 ELSE 0)
  BY <1>m, UsersMove
<1>n. ASSUME NEW s \in Services, cont' = [cont EXCEPT ![s] = Null]
      PROVE  \A c \in Ids :
               Cardinality(Users(c)') = Cardinality(Users(c)) - (IF cont[s] = c THEN 1 ELSE 0)
                                                              + (IF Null = c THEN 1 ELSE 0)
  <2> DEFINE d == Null
  <2>1. d \in Ids \cup {Null} /\ cont' = [cont EXCEPT ![s] = d]
    BY <1>n
  <2> HIDE DEF d
  <2>2. \A c \in Ids :
               Cardinality(Users(c)') = Cardinality(Users(c)) - (IF cont[s] = c THEN 1 ELSE 0)
                                                              + (IF d = c THEN 1 ELSE 0)
    BY <2>1, <1>m
  <2> QED BY <2>2 DEF d
<1> USE ContainerConstants DEF Types, Counts, TaskRef
<1>1. CASE Quiet
  BY <1>1, <1>k DEF Quiet
<1>2. CASE Process
  BY <1>2, <1>k DEF Process, Living
<1>3. CASE InvalidateDone
  <2>1. owner \in Ids /\ phase[owner] = "gone" /\ ~direct
    BY <1>3 DEF InvalidateDone, OwnerPhase, DirectPhase
  <2> QED BY <1>3, <1>k, <1>u, <2>1 DEF InvalidateDone, svcVars, ghostVars, LeakPhase
<1>4. ASSUME NEW s \in Services, Leave(s) PROVE Counts'
  <2>1. ASSUME NEW c \in Ids
        PROVE  Cardinality(Users(c)') = Cardinality(Users(c)) - (IF cont[s] = c THEN 1 ELSE 0)
    <3>1. Cardinality(Users(c)') = Cardinality(Users(c)) - (IF cont[s] = c THEN 1 ELSE 0)
                                                         + (IF Null = c THEN 1 ELSE 0)
      BY <1>4, <1>n DEF Leave
    <3> QED BY <1>u, <3>1
  <2>2. \A c \in Ids : refs'[c] = refs[c] - (IF cont[s] = c THEN 1 ELSE 0)
    BY <1>4 DEF Leave, RefsAfter
  <2> QED BY <1>4, <1>u, <2>1, <2>2 DEF Leave
<1>5. ASSUME NEW s \in Services, Unlink(s) PROVE Counts'
  BY <1>5, <1>k DEF Unlink
<1>6. ASSUME NEW s \in Services, NEW d \in Ids, Change(s, d) PROVE Counts'
  <2>1. \A c \in Ids : Cardinality(Users(c)') = Cardinality(Users(c)) - (IF cont[s] = c THEN 1 ELSE 0)
                                                                      + (IF d = c THEN 1 ELSE 0)
    BY <1>6, <1>m DEF Change, Join
  <2>2. CASE phase[d] = "none"
    <3>1. Users(d) = {} /\ cont[s] # d
      BY <2>2 DEF LinkPhase, Users
    <3>2. Cardinality(Users(d)) = 0
      BY <3>1, UsersNone
    <3>3. refs'[d] = (IF direct THEN 1 ELSE 2)
      BY <1>6, <2>2 DEF Change, Join, RefsAfter
    <3>4. \A c \in Ids \ {d} : refs'[c] = refs[c] - (IF cont[s] = c THEN 1 ELSE 0)
      BY <1>6, <2>2 DEF Change, Join, RefsAfter
    <3>5. phase'[d] = (IF direct THEN "live" ELSE "created") /\ \A c \in Ids \ {d} : phase'[c] = phase[c]
      BY <1>6, <2>2 DEF Change, Join
    <3>6. UNCHANGED <<direct, leaked, read>>
      BY <1>6 DEF Change
    <3>7. d \notin leaked /\ read[d] = 0
      BY <2>2 DEF LeakPhase
    <3>8. ASSUME NEW c \in Ids \ {d}
          PROVE  /\ Cardinality(Users(c)') = Cardinality(Users(c)) - (IF cont[s] = c THEN 1 ELSE 0)
                 /\ TaskRef(c)' = TaskRef(c)
      BY <1>u, <2>1, <3>5, <3>6
    <3>9. Cardinality(Users(d)') = 1
      <4>1. Cardinality(Users(d)') = Cardinality(Users(d)) - (IF cont[s] = d THEN 1 ELSE 0) + 1
        BY <2>1
      <4> QED BY <3>1, <3>2, <4>1
    <3> QED BY <1>u, <3>3, <3>4, <3>5, <3>6, <3>7, <3>8, <3>9
  <2>3. CASE phase[d] # "none"
    <3>1. phase[d] \in Living
      BY <1>6, <2>3, Acquires DEF Change
    <3>2. refs'[d] = refs[d] - (IF cont[s] = d THEN 1 ELSE 0) + 1
      BY <1>6, <2>3 DEF Change, Join, RefsAfter
    <3>3. \A c \in Ids \ {d} : refs'[c] = refs[c] - (IF cont[s] = c THEN 1 ELSE 0)
      BY <1>6, <2>3 DEF Change, Join, RefsAfter
    <3>4. UNCHANGED <<phase, direct, leaked, read>>
      BY <1>6, <2>3 DEF Change, Join
    <3> QED BY <1>u, <2>1, <3>1, <3>2, <3>3, <3>4 DEF Living
  <2> QED BY <2>2, <2>3
<1>7. ASSUME NEW c \in Ids, Begin(c) PROVE Counts'
  BY <1>7, <1>k DEF Begin, Invalidate, Living
<1>8. ASSUME NEW c \in Ids, TaskRelease(c) PROVE Counts'
  BY <1>8, <1>k DEF TaskRelease, svcVars, ghostVars
<1>9. ASSUME NEW c \in Ids, TaskReleased(c) PROVE Counts'
  <2>1. phase[c] = "releasing" /\ ~direct /\ c \notin leaked
    BY <1>9 DEF TaskReleased, DirectPhase, LeakPhase
  <2>2. refs'[c] = read[c] - 1 /\ read'[c] = 0 /\ phase'[c] = "over"
    BY <1>9 DEF TaskReleased
  <2>3. \A d \in Ids \ {c} : refs'[d] = refs[d] /\ read'[d] = read[d] /\ phase'[d] = phase[d]
                             /\ (d \in leaked <=> d \in leaked')
    BY <1>9 DEF TaskReleased
  <2>4. c \notin leaked' => read[c] = refs[c]
    BY <1>9 DEF TaskReleased
  <2>5. UNCHANGED <<cont, direct>>
    BY <1>9 DEF TaskReleased, svcVars
  <2> QED BY <1>k, <1>u, <2>1, <2>2, <2>3, <2>4, <2>5
<1>10. ASSUME NEW c \in Ids, ContainerSrvRegister(c) PROVE Counts'
  <2>1. Users(c) = {}
    BY <1>10 DEF ContainerSrvRegister, LinkPhase, Users
  <2>2. Cardinality(Users(c)) = 0
    BY <2>1, UsersNone
  <2> QED BY <1>10, <1>k, <2>2 DEF ContainerSrvRegister, svcVars, ghostVars
<1> QED
  BY <1>0, <1>1, <1>2, <1>3, <1>4, <1>5, <1>6, <1>7, <1>8, <1>9, <1>10 DEF ContainerStep

\* A container that is deleted is out of the table, and no service has it: its count,
\* which is 0, is never too low.
LEMMA DeletedFree ==
  ASSUME Types, OwnerPhase, DirectPhase, LinkPhase, Counts, DeletedPhase, NEW c \in deleted
  PROVE  /\ hash # c /\ Users(c) = {} /\ \A s \in Services : cont[s] # c
         /\ direct \/ phase[c] = "over"
<1>1. c \in Ids /\ refs[c] = 0 /\ phase[c] # "none"
  BY DEF Types, DeletedPhase
<1>2. Cardinality(Users(c)) = 0 /\ TaskRef(c) = 0
  BY <1>1, UsersFinite DEF Counts, TaskRef
<1>3. Users(c) = {} /\ \A s \in Services : cont[s] # c
  BY <1>2, UsersNone DEF Users
<1>4. direct \/ phase[c] = "over"
  BY <1>1, <1>2 DEF TaskRef
<1>5. hash # c
  BY <1>1, <1>3, <1>4, ContainerConstants DEF OwnerPhase, DirectPhase, LinkPhase, Living
<1> QED BY <1>3, <1>4, <1>5

\* Whoever drops the last reference deletes the container.
LEMMA DeletedStep ==
  ASSUME Types, Types', OwnerPhase, DirectPhase, LinkPhase, LeakPhase, Counts, DeletedPhase,
         [Next]_vars
  PROVE  DeletedPhase'
<1>0. ContainerStep
  BY Steps
<1>d. \A c \in deleted : hash # c /\ (\A s \in Services : cont[s] # c) /\ (direct \/ phase[c] = "over")
  BY DeletedFree
<1> USE ContainerConstants DEF Types, DeletedPhase
<1>1. CASE Quiet
  BY <1>1 DEF Quiet
<1>2. CASE Process
  BY <1>2 DEF Process, Living
<1>3. CASE InvalidateDone
  <2>1. owner \in Ids /\ phase[owner] = "gone" /\ ~direct /\ owner \notin deleted
    BY <1>3, <1>d DEF InvalidateDone, OwnerPhase, DirectPhase
  <2> QED BY <1>3, <2>1 DEF InvalidateDone
<1>4. ASSUME NEW s \in Services, Leave(s) PROVE DeletedPhase'
  <2>1. CASE cont[s] = Null
    BY <1>4, <2>1 DEF Leave, RefsAfter, DeletedAfter
  <2>2. CASE cont[s] # Null
    BY <1>4, <1>d, <2>2 DEF Leave, RefsAfter, DeletedAfter, LinkPhase
  <2> QED BY <2>1, <2>2
<1>5. ASSUME NEW s \in Services, Unlink(s) PROVE DeletedPhase'
  BY <1>5 DEF Unlink
<1>6. ASSUME NEW s \in Services, NEW d \in Ids, Change(s, d) PROVE DeletedPhase'
  <2>1. d \notin deleted
    BY <1>6, <1>d, Acquires DEF Change
  <2>2. CASE phase[d] = "none"
    <3>1. cont[s] # d
      BY <2>2 DEF LinkPhase
    <3>2. refs'[d] # 0 /\ phase'[d] # "none" /\ \A c \in Ids \ {d} : phase'[c] = phase[c]
      BY <1>6, <2>2 DEF Change, Join
    <3>3. \A c \in Ids \ {d} : refs'[c] = refs[c] - (IF cont[s] = c THEN 1 ELSE 0)
      BY <1>6, <2>2 DEF Change, Join, RefsAfter
    <3>4. \A c \in Ids : c \in deleted' <=> c \in deleted \/ (c = cont[s] /\ refs[c] = 1)
      BY <1>6 DEF Change, Join, DeletedAfter, RefsAfter
    <3> QED BY <1>d, <2>1, <3>1, <3>2, <3>3, <3>4 DEF LinkPhase
  <2>3. CASE phase[d] # "none"
    <3>1. phase[d] \in Living /\ HashAfter(s) = hash /\ hash = d
      BY <1>6, <2>3, Acquires DEF Change
    <3>2. cont[s] = d => refs[d] >= 2
      <4>1. CASE ~direct /\ cont[s] = d
        <5>1. Cardinality(Users(d)) >= 1
          BY <4>1, UsersOne
        <5>2. TaskRef(d) = 1 /\ Cardinality(Users(d)) \in Nat
          BY <3>1, <4>1, UsersFinite DEF TaskRef, Living
        <5> QED BY <5>1, <5>2 DEF Counts
      <4>2. CASE direct /\ cont[s] = d
        <5>1. PICK t \in Services \ {s} : link[t] = d
          BY <3>1, <4>2 DEF HashAfter, Empties, DirectPhase
        <5>2. cont[t] = d
          BY <5>1 DEF LinkPhase
        <5>3. s \in Users(d) /\ t \in Users(d) \ {s}
          BY <4>2, <5>1, <5>2 DEF Users
        <5>4. Cardinality(Users(d) \ {s}) = Cardinality(Users(d)) - 1 /\ IsFiniteSet(Users(d) \ {s})
          BY <5>3, UsersFinite, FS_RemoveElement
        <5>5. Cardinality(Users(d) \ {s}) \in Nat \ {0}
          BY <5>3, <5>4, FS_EmptySet, FS_CardinalityType
        <5>6. Cardinality(Users(d)) >= 2
          BY <5>4, <5>5, UsersFinite
        <5> QED BY <5>6, UsersFinite DEF Counts, TaskRef
      <4> QED BY <4>1, <4>2
    <3>3. refs'[d] = refs[d] - (IF cont[s] = d THEN 1 ELSE 0) + 1
      BY <1>6, <2>3 DEF Change, Join, RefsAfter
    <3>4. \A c \in Ids \ {d} : refs'[c] = refs[c] - (IF cont[s] = c THEN 1 ELSE 0)
      BY <1>6, <2>3 DEF Change, Join, RefsAfter
    <3>5. \A c \in Ids : c \in deleted' <=> c \in deleted \/ (c = cont[s] /\ refs[c] = 1)
      BY <1>6 DEF Change, Join, DeletedAfter, RefsAfter
    <3>6. phase' = phase
      BY <1>6, <2>3 DEF Change, Join
    <3>7. refs[d] >= 0
      BY UsersFinite DEF Counts, TaskRef
    <3> QED BY <1>d, <2>1, <2>3, <3>2, <3>3, <3>4, <3>5, <3>6, <3>7 DEF LinkPhase
  <2> QED BY <2>2, <2>3
<1>7. ASSUME NEW c \in Ids, Begin(c) PROVE DeletedPhase'
  BY <1>7 DEF Begin, Invalidate, Living
<1>8. ASSUME NEW c \in Ids, TaskRelease(c) PROVE DeletedPhase'
  BY <1>8 DEF TaskRelease
<1>9. ASSUME NEW c \in Ids, TaskReleased(c) PROVE DeletedPhase'
  <2>1. phase[c] = "releasing" /\ ~direct /\ c \notin deleted
    BY <1>9, <1>d DEF TaskReleased, DirectPhase
  <2> QED BY <1>9, <2>1 DEF TaskReleased
<1>10. ASSUME NEW c \in Ids, ContainerSrvRegister(c) PROVE DeletedPhase'
  BY <1>10 DEF ContainerSrvRegister
<1> QED
  BY <1>0, <1>1, <1>2, <1>3, <1>4, <1>5, <1>6, <1>7, <1>8, <1>9, <1>10 DEF ContainerStep

-----------------------------------------------------------------------------
(* What a service is shown as.                                             *)

\* A service joins before it is STARTING, and leaves when it is not up any more.
LEMMA ServiceStep ==
  ASSUME Types, OwnerPhase, ServicePhase, [Next]_vars PROVE ServicePhase'
<1> USE ContainerConstants DEF Types, ServicePhase, svcVars, procVars, boundVars, ghostVars, vars
<1>1. ASSUME NEW s \in Services, ContainerStart(s) \/ ContainerStart_NoCall(s) PROVE ServicePhase'
  <2>1. PICK c \in Acquired(s) : Join(s, c)
    BY <1>1 DEF ContainerStart, ContainerStart_NoCall
  <2>2. c \in Ids
    BY Acquires
  <2>3. overtaken' = overtaken /\ stuck \subseteq stuck'
    BY <1>1 DEF ContainerStart, ContainerStart_NoCall
  <2> QED BY <2>1, <2>2, <2>3 DEF Join
<1>2. ASSUME NEW s \in Services, ContainerStart_NoContainer(s) PROVE ServicePhase'
  BY <1>2 DEF ContainerStart_NoContainer
<1>3. ASSUME NEW s \in Services, ContainerStop_Dead(s) PROVE ServicePhase'
  BY <1>3 DEF ContainerStop_Dead
<1>4. ASSUME NEW s \in Services, ContainerStop(s) PROVE ServicePhase'
  BY <1>4 DEF ContainerStop
<1>5. ASSUME NEW s \in Services, ContainerStop_Null(s) \/ PollRefresh(s) \/ LogBegin(s)
      PROVE  ServicePhase'
  BY <1>5 DEF ContainerStop_Null, PollRefresh, LogBegin, Client, Crash
<1>6. ASSUME NEW s \in Services, Reconstruct(s) PROVE ServicePhase'
  BY <1>6 DEF Reconstruct
<1>7. ASSUME NEW s \in Services, InvalidateNext(s) PROVE ServicePhase'
  BY <1>7 DEF InvalidateNext
<1>8. CASE ContainerRefresh \/ ContainerRefresh_Null \/ Logging
  BY <1>8 DEF ContainerRefresh, ContainerRefresh_Null, Logging, ContainerSetLogInfo,
     ContainerSetLogInfo_Null, LogReturn, Client, Crash
<1>9. ASSUME NEW k \in Calls, NEW a \in {"ok", "error"}, Completion(k, a) PROVE ServicePhase'
  <2>1. k.svc \in Services /\ k.con \in Ids
    BY DEF Calls
  <2>2. CASE ContainerStartComplete(k, a)
    BY <2>1, <2>2 DEF ContainerStartComplete, StartOvertaken
  <2>3. CASE ContainerStopComplete(k, a)
    BY <2>1, <2>3 DEF ContainerStopComplete
  <2>4. CASE ContainerStopComplete_Null(k, a)
    BY <2>1, <2>4 DEF ContainerStopComplete_Null, Crash
  <2> QED BY <1>9, <2>2, <2>3, <2>4 DEF Completion
<1>10. ASSUME NEW c \in Ids, TaskInit(c) \/ TaskSignal(c) \/ TaskRelease(c) \/ ChildExits(c)
                             \/ ContainerSrvRegister(c) \/ ContainerSrvRegisterCancel(c)
       PROVE  ServicePhase'
  BY <1>10 DEF TaskInit, TaskSignal, TaskRelease, ChildExits, ContainerSrvRegister,
     ContainerSrvRegisterCancel
<1>11. ASSUME NEW c \in Ids, TaskReleased(c) PROVE ServicePhase'
  BY <1>11 DEF TaskReleased
<1>12. CASE InvalidateDone \/ StrangerExits
  BY <1>12 DEF InvalidateDone, StrangerExits
<1>13. CASE UNCHANGED vars
  BY <1>13
<1> QED
  BY <1>1, <1>2, <1>3, <1>4, <1>5, <1>6, <1>7, <1>8, <1>9, <1>10, <1>11, <1>12, <1>13
     DEF Next, ContainerTask

\* A service runs, or is stopping, in a container, unless a late completion said so.
LEMMA RunningStep ==
  ASSUME Types, OwnerPhase, RunningPhase, [Next]_vars PROVE RunningPhase'
<1> USE ContainerConstants DEF Types, RunningPhase, svcVars, procVars, boundVars, ghostVars, vars
<1>1. ASSUME NEW s \in Services, ContainerStart(s) \/ ContainerStart_NoCall(s) PROVE RunningPhase'
  <2>1. PICK c \in Acquired(s) : Join(s, c)
    BY <1>1 DEF ContainerStart, ContainerStart_NoCall
  <2>2. overtaken' = overtaken
    BY <1>1 DEF ContainerStart, ContainerStart_NoCall
  <2> QED BY <2>1, <2>2 DEF Join
<1>2. ASSUME NEW s \in Services, ContainerStart_NoContainer(s) PROVE RunningPhase'
  BY <1>2 DEF ContainerStart_NoContainer
<1>3. ASSUME NEW s \in Services, ContainerStop_Dead(s) PROVE RunningPhase'
  BY <1>3 DEF ContainerStop_Dead
<1>4. ASSUME NEW s \in Services, ContainerStop(s) PROVE RunningPhase'
  BY <1>4 DEF ContainerStop
<1>5. ASSUME NEW s \in Services, ContainerStop_Null(s) \/ PollRefresh(s) \/ LogBegin(s)
      PROVE  RunningPhase'
  BY <1>5 DEF ContainerStop_Null, PollRefresh, LogBegin, Client, Crash
<1>6. ASSUME NEW s \in Services, Reconstruct(s) PROVE RunningPhase'
  BY <1>6 DEF Reconstruct
<1>7. ASSUME NEW s \in Services, InvalidateNext(s) PROVE RunningPhase'
  BY <1>7 DEF InvalidateNext
<1>8. CASE ContainerRefresh \/ ContainerRefresh_Null \/ Logging
  BY <1>8 DEF ContainerRefresh, ContainerRefresh_Null, Logging, ContainerSetLogInfo,
     ContainerSetLogInfo_Null, LogReturn, Client, Crash
<1>9. ASSUME NEW k \in Calls, NEW a \in {"ok", "error"}, Completion(k, a) PROVE RunningPhase'
  <2>1. k.svc \in Services /\ k.con \in Ids
    BY DEF Calls
  <2>2. CASE ContainerStartComplete(k, a)
    BY <2>1, <2>2 DEF ContainerStartComplete, StartOvertaken
  <2>3. CASE ContainerStopComplete(k, a)
    BY <2>1, <2>3 DEF ContainerStopComplete
  <2>4. CASE ContainerStopComplete_Null(k, a)
    BY <2>1, <2>4 DEF ContainerStopComplete_Null, Crash
  <2> QED BY <1>9, <2>2, <2>3, <2>4 DEF Completion
<1>10. ASSUME NEW c \in Ids, TaskInit(c) \/ TaskSignal(c) \/ TaskRelease(c) \/ ChildExits(c)
                             \/ ContainerSrvRegister(c) \/ ContainerSrvRegisterCancel(c)
       PROVE  RunningPhase'
  BY <1>10 DEF TaskInit, TaskSignal, TaskRelease, ChildExits, ContainerSrvRegister,
     ContainerSrvRegisterCancel
<1>11. ASSUME NEW c \in Ids, TaskReleased(c) PROVE RunningPhase'
  BY <1>11 DEF TaskReleased
<1>12. CASE InvalidateDone \/ StrangerExits
  BY <1>12 DEF InvalidateDone, StrangerExits
<1>13. CASE UNCHANGED vars
  BY <1>13
<1> QED
  BY <1>1, <1>2, <1>3, <1>4, <1>5, <1>6, <1>7, <1>8, <1>9, <1>10, <1>11, <1>12, <1>13
     DEF Next, ContainerTask

\* Of those who follow a NULL container, all but a refresh look at the state first.
LEMMA NullStep ==
  ASSUME Types, RunningPhase, NullOnlyByRefresh, [Next]_vars PROVE NullOnlyByRefresh'
<1> USE DEF Types, NullOnlyByRefresh, svcVars, procVars, boundVars, ghostVars, vars
<1>1. ASSUME NEW s \in Services, ContainerStop_Null(s) PROVE NullOnlyByRefresh'
  BY <1>1 DEF ContainerStop_Null, Crash, RunningPhase
<1>2. CASE ContainerRefresh_Null
  BY <1>2 DEF ContainerRefresh_Null, Crash
<1>3. CASE ContainerSetLogInfo_Null
  BY <1>3 DEF ContainerSetLogInfo_Null, Crash, RunningPhase
<1>4. ASSUME NEW k \in Calls, NEW a \in {"ok", "error"}, Completion(k, a)
      PROVE  NullOnlyByRefresh'
  BY <1>4 DEF Completion, ContainerStartComplete, ContainerStopComplete, ContainerStopComplete_Null,
     Crash
<1>5. ASSUME NEW s \in Services, Reconstruct(s) PROVE NullOnlyByRefresh'
  BY <1>5 DEF Reconstruct
<1>6. CASE UNCHANGED <<nulls, overtaken>>
  BY <1>6
<1>7. ASSUME NEW s \in Services,
             \/ ContainerStart(s) \/ ContainerStart_NoCall(s) \/ ContainerStart_NoContainer(s)
             \/ ContainerStop_Dead(s) \/ ContainerStop(s)
             \/ PollRefresh(s) \/ LogBegin(s) \/ InvalidateNext(s)
      PROVE  UNCHANGED <<nulls, overtaken>>
  BY <1>7 DEF ContainerStart, ContainerStart_NoCall, ContainerStart_NoContainer, ContainerStop_Dead,
     ContainerStop, PollRefresh, LogBegin, InvalidateNext, Client
<1>8. ASSUME ContainerRefresh \/ ContainerSetLogInfo \/ LogReturn \/ InvalidateDone \/ StrangerExits
             \/ UNCHANGED vars
      PROVE  UNCHANGED <<nulls, overtaken>>
  BY <1>8 DEF ContainerRefresh, ContainerSetLogInfo, LogReturn, InvalidateDone, StrangerExits, Client
<1>9. ASSUME NEW c \in Ids,
             ContainerTask(c) \/ ChildExits(c) \/ ContainerSrvRegister(c)
             \/ ContainerSrvRegisterCancel(c)
      PROVE  UNCHANGED <<nulls, overtaken>>
  BY <1>9 DEF ContainerTask, TaskInit, TaskSignal, TaskRelease, TaskReleased, ChildExits,
     ContainerSrvRegister, ContainerSrvRegisterCancel
<1> QED
  BY <1>1, <1>2, <1>3, <1>4, <1>5, <1>6, <1>7, <1>8, <1>9 DEF Next, Logging

-----------------------------------------------------------------------------
(* The theorems.                                                           *)

\* The invariant holds before the first service is started.
LEMMA InitInv == Init => Inv
<1> SUFFICES ASSUME Init PROVE Inv
  OBVIOUS
<1> USE ContainerConstants DEF Init
<1>1. Types
  BY DEF Types, States, Phases
<1>2. OwnerPhase /\ DirectPhase /\ LinkPhase /\ LeakPhase
  BY DEF OwnerPhase, DirectPhase, LinkPhase, LeakPhase
<1>3. \A c \in Ids : Cardinality(Users(c)) = 0
  <2>1. \A c \in Ids : Users(c) = {}
    BY DEF Users
  <2> QED BY <2>1, UsersNone
<1>4. Counts /\ DeletedPhase
  BY <1>3 DEF Counts, DeletedPhase, TaskRef
<1>5. ServicePhase /\ RunningPhase /\ NullOnlyByRefresh
  BY DEF ServicePhase, RunningPhase, NullOnlyByRefresh
<1> QED BY <1>1, <1>2, <1>4, <1>5 DEF Inv

\* Every action keeps the invariant.
LEMMA NextInv == Inv /\ [Next]_vars => Inv'
<1> SUFFICES ASSUME Inv, [Next]_vars PROVE Inv'
  OBVIOUS
<1> USE DEF Inv
<1>1. Types'
  BY TypesStep
<1>2. OwnerPhase' /\ DirectPhase'
  BY OwnerStep, DirectStep
<1>3. LinkPhase' /\ LeakPhase'
  BY <1>1, LinkStep, LeakStep
<1>4. Counts' /\ DeletedPhase'
  BY <1>1, CountsStep, DeletedStep
<1>5. ServicePhase' /\ RunningPhase' /\ NullOnlyByRefresh'
  BY ServiceStep, RunningStep, NullStep
<1> QED BY <1>1, <1>2, <1>3, <1>4, <1>5

\* It is an invariant of the loader.
THEOREM Invariance == Spec => []Inv
  BY InitInv, NextInv, PTL DEF Spec

\* The types hold, and no reference count goes below 0.
THEOREM TypeCorrect == Spec => []TypeOK
<1>1. Inv => TypeOK
  <2> SUFFICES ASSUME Inv PROVE TypeOK
    OBVIOUS
  <2>1. \A c \in Ids : refs[c] \in Nat /\ read[c] \in Nat
    <3>1. ASSUME NEW c \in Ids PROVE refs[c] \in Nat
      BY UsersFinite DEF Inv, Counts, TaskRef, Types
    <3> QED BY <3>1 DEF Inv, Counts, Types
  <2>2. refs \in [Ids -> Nat] /\ read \in [Ids -> Nat]
    BY <2>1 DEF Inv, Types
  <2> QED BY <2>2 DEF Inv, Types, TypeOK
<1> QED BY <1>1, Invariance, PTL

\* A service that is shown up is on the list of a container that was neither deleted nor
\* invalidated, or that is on its way to tell it, and has that container's handle.
THEOREM ContainerHeld == Spec => []ServiceHasContainer
<1>1. Inv => ServiceHasContainer
  <2> SUFFICES ASSUME Inv, NEW s \in InService
               PROVE  /\ cont[s] # Null /\ link[s] = cont[s] /\ cont[s] \notin deleted
                      /\ phase[cont[s]] \in Living \/ owner = cont[s]
                      /\ state[s] # "STARTING" => handle[s] = cont[s]
    BY DEF ServiceHasContainer, Living
  <2>1. /\ s \in Services /\ cont[s] # Null /\ link[s] = cont[s]
        /\ state[s] # "STARTING" => handle[s] = cont[s]
    BY DEF Inv, InService, ServicePhase
  <2>2. cont[s] \notin deleted
    BY <2>1, DeletedFree DEF Inv
  <2>3. phase[cont[s]] \in Living \/ owner = cont[s]
    BY <2>1 DEF Inv, LinkPhase, OwnerPhase
  <2> QED BY <2>1, <2>2, <2>3
<1> QED BY <1>1, Invariance, PTL

\* Services of the group that are up share one container.
THEOREM ContainerShared == Spec => []OneContainer
<1>1. Inv => OneContainer
  BY DEF Inv, OneContainer, InService, ServicePhase, LinkPhase
<1> QED BY <1>1, Invariance, PTL

\* The reference count is exact unless the release of a task lost an update, and what is
\* deleted is not in use even then.
THEOREM CountExact == Spec => []RefsExact
<1>1. Inv => RefsExact
  <2> SUFFICES ASSUME Inv PROVE RefsExact
    OBVIOUS
  <2>1. \A c \in deleted : hash # c /\ \A s \in Services : cont[s] # c
    BY DeletedFree DEF Inv
  <2>2. \A c \in Ids \ leaked :
          /\ refs[c] = Cardinality({s \in Services : cont[s] = c})
                         + (IF ~direct /\ phase[c] \notin {"none", "over"} THEN 1 ELSE 0)
          /\ c \in deleted <=> refs[c] = 0 /\ phase[c] # "none"
    BY DEF Inv, Counts, DeletedPhase, Users, TaskRef
  <2> QED BY <2>1, <2>2 DEF RefsExact
<1> QED BY <1>1, Invariance, PTL

\* The service manager dies of a NULL container only in a refresh that trusted the state
\* it had polled, or after a late completion.
THEOREM NullOrigin == Spec => []NullOnlyByRefresh
<1>1. Inv => NullOnlyByRefresh
  BY DEF Inv
<1> QED BY <1>1, Invariance, PTL
=============================================================================
