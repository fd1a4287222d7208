-------------------------- MODULE ServiceLifecycle --------------------------
(***************************************************************************)
(* What a service loader promises the service table: the states of one     *)
(* service object (LW_SERVICE_STATE of lwsm.h) and how they may follow     *)
(* each other, together with the instances of the service that exist.      *)
(* The loaders (executable.c, driver.c, ...) are shown to implement it.    *)
(***************************************************************************)

CONSTANT Instances    \* identities of the instances a loader can create

VARIABLES state,      \* what pfnGetStatus reports
          instances   \* instances created and not yet disposed of

vars == <<state, instances>>

\* LW_SERVICE_STATE; PAUSED exists in the enumeration but no loader enters it.
ServiceStates == {"RUNNING", "STOPPED", "STARTING", "STOPPING", "PAUSED", "DEAD"}

\* The states in which pfnStart is legal: no instance exists.
Down == {"STOPPED", "DEAD"}

Init == state = "STOPPED" /\ instances = {}

Launch == /\ state \in Down
          /\ state' = "STARTING"
          /\ \E i \in Instances : instances' = {i}

\* Nothing could be created: the service is dead without having lived.
LaunchFails == /\ state \in Down
               /\ state' = "DEAD"
               /\ UNCHANGED instances

ComesUp == state = "STARTING" /\ state' = "RUNNING" /\ UNCHANGED instances

RequestStop == state = "RUNNING" /\ state' = "STOPPING" /\ UNCHANGED instances

Exits == state = "STOPPING" /\ state' = "STOPPED" /\ instances' = {}

Dies == state \in {"STARTING", "RUNNING"} /\ state' = "DEAD" /\ instances' = {}

\* Stopping a dead service, or rebuilding it from new information, only resets it.
Reset == state \in Down /\ state' = "STOPPED" /\ UNCHANGED instances

Next == \/ Launch \/ LaunchFails \/ ComesUp
        \/ RequestStop \/ Exits \/ Dies \/ Reset

Spec == Init /\ [][Next]_vars
=============================================================================
