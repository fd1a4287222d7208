------------------------ MODULE DependenciesOrder_proofs ------------------------
(***************************************************************************)
(* What the threads of Dependencies keep up between their calls, for every *)
(* number of services and every acyclic graph: a service runs only with    *)
(* what it needs (UpNeedsDeps), and a shutdown leaves nothing behind       *)
(* (ShutdownComplete).                                                     *)
(*                                                                         *)
(* OrderInv says of each plan, however far it has been worked through,     *)
(* which shape it has (Shape) and what it relies on (Safe): stops, starts  *)
(* and restores each find what they need done by a step in front of them   *)
(* or by the present state.  ShutdownInv says of each service that it is   *)
(* handled, waiting, or the target of the shutdown's present plan.         *)
(***************************************************************************)
EXTENDS Dependencies_proofs

-----------------------------------------------------------------------------
(* The inductive invariant.                                                *)

Types ==
  /\ Graph
  /\ state \in [Services -> {"STOPPED", "RUNNING", "DEAD"}]
  /\ plan \in [Threads -> Seq(Step)] /\ rest \in [Threads -> Seq(Services)]
  /\ mixed \in BOOLEAN

Places(p) == 1 .. Len(p)

\* The shape of a plan, however far it has been worked through: stops come first, their
\* places grow; a restore brings back the service of the stop at its place, after what
\* was stopped at later places.
StopsFirst(p)  == \A i, j \in Places(p) : i < j /\ p[j].op = "stop" => p[i].op = "stop"
PlacesGrow(p)  == \A i, j \in Places(p) : i < j /\ p[j].op = "stop" => p[i].at < p[j].at
SamePlace(p)   == \A i, j \in Places(p) :
                    p[i].op = "stop" /\ p[j].op = "restore" /\ p[i].at = p[j].at => p[i].svc = p[j].svc
Backwards(p)   == \A i, j \in Places(p) :
                    p[i].op = "restore" /\ p[j].op = "stop" /\ p[j].at > p[i].at =>
                      \E k \in 1 .. i - 1 : \/ p[k].op = "restore" /\ p[k].at = p[j].at
                                            \/ p[k].op = "start" /\ p[k].svc = p[j].svc
Shape(p) == StopsFirst(p) /\ PlacesGrow(p) /\ SamePlace(p) /\ Backwards(p)

\* What a plan relies on, in the states of the services `st', the places `nt' that were
\* seen running and the services `dd' that died.
StopsSafe(p, st) ==
  \A i \in Places(p) : p[i].op = "stop" =>
    \A u \in Dependents(p[i].svc) :
      st[u] # "RUNNING" \/ \E j \in 1 .. i - 1 : p[j].op = "stop" /\ p[j].svc = u

StartsSafe(p, st, dd) ==
  \A i \in Places(p) : p[i].op = "start" =>
    \A d \in Range(deps[p[i].svc]) :
      \/ d \in dd
      \/ \E j \in 1 .. i - 1 : p[j].op = "start" /\ p[j].svc = d
      \/ st[d] = "RUNNING" /\ \A j \in Places(p) : p[j].op # "stop"

RestoresSafe(p, st, nt, dd) ==
  \A i \in Places(p) : p[i].op = "restore" /\ p[i].at \in nt =>
    \A d \in Range(deps[p[i].svc]) :
      \/ d \in dd
      \/ \E j \in 1 .. i - 1 : p[j].svc = d /\ (p[j].op = "start" \/ (p[j].op = "restore" /\ p[j].at \in nt))
      \/ /\ st[d] = "RUNNING"
         /\ \A j \in Places(p) : p[j].op = "stop" /\ p[j].svc = d =>
              \E k \in 1 .. i - 1 : p[k].op = "restore" /\ p[k].svc = d /\ p[k].at = p[j].at

Safe(p, st, nt, dd) == StopsSafe(p, st) /\ StartsSafe(p, st, dd) /\ RestoresSafe(p, st, nt, dd)

Up(st, dd) ==
  \A s \in Services : st[s] = "RUNNING" => \A d \in Range(deps[s]) : d \in dd \/ st[d] = "RUNNING"

\* Only lwsm restart brings services back.
OnlyToolRestores == \A t \in Threads \ {"tool"} : \A i \in Places(plan[t]) : plan[t][i].op # "restore"

OrderInv ==
  /\ Types /\ OnlyToolRestores
  /\ \A t \in Threads : Shape(plan[t])
  /\ ~mixed => Up(state, died) /\ \A t \in Threads : Safe(plan[t], state, noted, died)

\* The shutdown's plan stops what needs a service and then the service.
Target == plan["shutdown"][Len(plan["shutdown"])].svc

ShutdownStops ==
  \A i \in Places(plan["shutdown"]) :
    /\ plan["shutdown"][i].op = "stop"
    /\ plan["shutdown"][i].svc = Target \/ Target \in Needs(plan["shutdown"][i].svc)

Handled(s) == state[s] = "STOPPED" \/ s \in late \/ \E t \in failed : t = s \/ s \in Needs(t)

ShutdownInv ==
  /\ Types /\ ShutdownStops
  /\ stopping # "going" => plan["shutdown"] = <<>> /\ rest["shutdown"] = <<>>
  /\ stopping # "no" =>
       \A s \in Services : \/ Handled(s) \/ s \in Range(rest["shutdown"])
                           \/ plan["shutdown"] # <<>> /\ s = Target

-----------------------------------------------------------------------------
(* The plans.                                                              *)

\* A list of services as steps.
LEMMA StepsFacts ==
  ASSUME NEW op \in {"start", "stop", "restore"}, NEW list \in Seq(Services)
  PROVE  /\ Steps(op, list) \in Seq(Step) /\ Len(Steps(op, list)) = Len(list)
         /\ \A i \in 1 .. Len(list) :
              /\ Steps(op, list)[i].op = op /\ Steps(op, list)[i].svc = list[i]
              /\ Steps(op, list)[i].at = i
<1>1. DOMAIN list = 1 .. Len(list) /\ Len(list) \in Nat /\ \A i \in 1 .. Len(list) : list[i] \in Services
  OBVIOUS
<1>2. Steps(op, list) = [i \in 1 .. Len(list) |-> [op |-> op, svc |-> list[i], at |-> i]]
  BY <1>1 DEF Steps
<1>3. \A i \in 1 .. Len(list) : [op |-> op, svc |-> list[i], at |-> i] \in Step
  BY <1>1 DEF Step
<1>4. Steps(op, list) \in Seq(Step)
  BY <1>1, <1>2, <1>3
<1>5. Len(Steps(op, list)) = Len(list)
  BY <1>1, <1>2, <1>4
<1> QED BY <1>2, <1>4, <1>5

\* A start plan starts what a service needs before the service.
LEMMA StartPlanFacts ==
  ASSUME Graph, NEW s \in Services
  PROVE  LET p == StartPlan(s)
         IN  /\ p \in Seq(Step) /\ \A i \in 1 .. Len(p) : p[i].op = "start"
             /\ \E i \in 1 .. Len(p) : p[i].svc = s
             /\ \A i \in 1 .. Len(p) : \A d \in Range(deps[p[i].svc]) :
                  \E j \in 1 .. i - 1 : p[j].svc = d
<1> DEFINE c == DependencyClosure(s)
           l == Append(c, s)
           p == StartPlan(s)
<1>1. c \in Seq(Services) /\ Range(c) = Needs(s) /\ Ordered(c) /\ Range(deps[s]) \subseteq Range(c)
  BY ClosureRight, NeedsFacts DEF Graph
<1> HIDE DEF c
<1>2. /\ l \in Seq(Services) /\ Len(l) = Len(c) + 1 /\ Len(c) \in Nat /\ l[Len(c) + 1] = s
      /\ \A i \in 1 .. Len(c) : l[i] = c[i]
  BY <1>1
<1>3. ASSUME NEW i \in 1 .. Len(l), NEW d \in Range(deps[l[i]]) PROVE \E j \in 1 .. i - 1 : l[j] = d
  <2>1. CASE i \in 1 .. Len(c)
    <3>1. i \in DOMAIN c /\ d \in Range(deps[c[i]])
      BY <1>1, <1>2, <1>3, <2>1
    <3>2. PICK j \in 1 .. i - 1 : c[j] = d
      BY <1>1, <3>1 DEF Ordered
    <3> QED BY <1>2, <2>1, <3>2
  <2>2. CASE i = Len(c) + 1
    <3>1. PICK j \in DOMAIN c : c[j] = d
      BY <1>1, <1>2, <1>3, <2>2 DEF Range
    <3>2. j \in 1 .. Len(c)
      BY <1>1
    <3> QED BY <1>2, <2>2, <3>1, <3>2
  <2> QED BY <1>2, <2>1, <2>2
<1>4. p = Steps("start", l)
  BY DEF StartPlan, c
<1> HIDE DEF l, p
<1>5. /\ p \in Seq(Step) /\ Len(p) = Len(l)
      /\ \A i \in 1 .. Len(l) : p[i].op = "start" /\ p[i].svc = l[i]
  BY <1>2, <1>4, StepsFacts
<1>6. \A i \in 1 .. Len(p) : \A d \in Range(deps[p[i].svc]) : \E j \in 1 .. i - 1 : p[j].svc = d
  <2>1. ASSUME NEW i \in 1 .. Len(p), NEW d \in Range(deps[p[i].svc])
        PROVE  \E j \in 1 .. i - 1 : p[j].svc = d
    <3>1. PICK j \in 1 .. i - 1 : l[j] = d
      BY <1>3, <1>5, <2>1
    <3>2. j \in 1 .. Len(l)
      BY <1>2, <1>5, <3>1
    <3> QED BY <1>5, <3>1, <3>2
  <2> QED BY <2>1
<1>7. Len(c) + 1 \in 1 .. Len(p) /\ p[Len(c) + 1].svc = s
  BY <1>2, <1>5
<1> QED BY <1>5, <1>6, <1>7 DEF p

\* A stop plan stops what needs a service before the service, which comes last.
LEMMA StopPlanFacts ==
  ASSUME Graph, NEW s \in Services
  PROVE  LET p == StopPlan(s)
             r == ReverseDependencyClosure(s)
         IN  /\ p \in Seq(Step) /\ \A i \in 1 .. Len(p) : p[i].op = "stop" /\ p[i].at = i
             /\ Len(p) = Len(r) + 1 /\ p[Len(p)].svc = s /\ Len(p) \in Nat \ {0}
             /\ \A i \in 1 .. Len(r) : p[i].svc = r[i]
             /\ \A i \in 1 .. Len(p) : p[i].svc = s \/ s \in Needs(p[i].svc)
             /\ \A i \in 1 .. Len(p) : \A u \in Dependents(p[i].svc) :
                  \E j \in 1 .. i - 1 : p[j].svc = u
<1> DEFINE r == ReverseDependencyClosure(s)
           l == Append(r, s)
           p == StopPlan(s)
<1>1. r \in Seq(Services) /\ Range(r) = Above(s) /\ Preceded(r) /\ Dependents(s) \subseteq Range(r)
  BY ReverseRight DEF Graph
<1> HIDE DEF r
<1>2. /\ l \in Seq(Services) /\ Len(l) = Len(r) + 1 /\ Len(r) \in Nat /\ l[Len(r) + 1] = s
      /\ \A i \in 1 .. Len(r) : l[i] = r[i]
  BY <1>1
<1>3. ASSUME NEW i \in 1 .. Len(l), NEW u \in Dependents(l[i]) PROVE \E j \in 1 .. i - 1 : l[j] = u
  <2>1. CASE i \in 1 .. Len(r)
    <3>1. i \in DOMAIN r /\ u \in Dependents(r[i])
      BY <1>1, <1>2, <1>3, <2>1
    <3>2. PICK j \in 1 .. i - 1 : r[j] = u
      BY <1>1, <3>1 DEF Preceded
    <3> QED BY <1>2, <2>1, <3>2
  <2>2. CASE i = Len(r) + 1
    <3>1. PICK j \in DOMAIN r : r[j] = u
      BY <1>1, <1>2, <1>3, <2>2 DEF Range
    <3>2. j \in 1 .. Len(r)
      BY <1>1
    <3> QED BY <1>2, <2>2, <3>1, <3>2
  <2> QED BY <1>2, <2>1, <2>2
<1>4. ASSUME NEW i \in 1 .. Len(l) PROVE l[i] = s \/ s \in Needs(l[i])
  <2>1. CASE i \in 1 .. Len(r)
    <3>1. r[i] \in Range(r)
      BY <1>1, <2>1 DEF Range
    <3> QED BY <1>1, <1>2, <2>1, <3>1 DEF Above
  <2> QED BY <1>2, <2>1
<1>5. p = Steps("stop", l)
  BY DEF StopPlan, r
<1> HIDE DEF l, p
<1>6. /\ p \in Seq(Step) /\ Len(p) = Len(l)
      /\ \A i \in 1 .. Len(l) : p[i].op = "stop" /\ p[i].svc = l[i] /\ p[i].at = i
  BY <1>2, <1>5, StepsFacts
<1>7. ASSUME NEW i \in 1 .. Len(p), NEW u \in Dependents(p[i].svc)
      PROVE  \E j \in 1 .. i - 1 : p[j].svc = u
  <2>a. i \in 1 .. Len(l) /\ p[i].svc = l[i]
    BY <1>6
  <2>b. u \in Dependents(l[i])
    BY <1>7, <2>a
  <2>1. PICK j \in 1 .. i - 1 : l[j] = u
    BY <1>3, <2>a, <2>b
  <2>2. j \in 1 .. Len(l)
    BY <1>2, <1>6, <2>1
  <2> QED BY <1>6, <2>1, <2>2
<1>8. Len(p) = Len(r) + 1 /\ p[Len(p)].svc = s /\ \A i \in 1 .. Len(r) : p[i].svc = r[i]
  BY <1>2, <1>6
<1> QED BY <1>2, <1>4, <1>6, <1>7, <1>8 DEF p, r

\* One list after another.
LEMMA ConcatFacts ==
  ASSUME NEW S, NEW x \in Seq(S), NEW y \in Seq(S)
  PROVE  /\ x \o y \in Seq(S) /\ Len(x \o y) = Len(x) + Len(y)
         /\ \A i \in 1 .. Len(x) : (x \o y)[i] = x[i]
         /\ \A i \in 1 .. Len(y) : (x \o y)[Len(x) + i] = y[i]
OBVIOUS

\* lwsm restart: a stop plan, a start plan, and the list of the stop plan backwards.
LEMMA RestartPlanFacts ==
  ASSUME Graph, NEW s \in Services
  PROVE  LET p == RestartPlan(s)
             n == Len(ReverseDependencyClosure(s))
             m == Len(StartPlan(s))
         IN  /\ p \in Seq(Step) /\ n \in Nat /\ m \in Nat /\ Len(p) = n + 1 + m + n
             /\ \A i \in 1 .. n + 1 : p[i] = StopPlan(s)[i]
             /\ \A i \in 1 .. m : p[n + 1 + i] = StartPlan(s)[i]
             /\ \A i \in 1 .. n : /\ p[n + 1 + m + i].op = "restore" /\ p[n + 1 + m + i].at = n + 1 - i
                                  /\ p[n + 1 + m + i].svc = ReverseDependencyClosure(s)[n + 1 - i]
<1> DEFINE r == ReverseDependencyClosure(s)
           n == Len(r)
           a == StopPlan(s)
           b == StartPlan(s)
           m == Len(b)
           e == Steps("restore", r)
           c == Reverse(e)
           p == RestartPlan(s)
<1>1. r \in Seq(Services) /\ n \in Nat
  BY ReverseRight DEF Graph
<1>2. a \in Seq(Step) /\ Len(a) = n + 1
  BY StopPlanFacts
<1>3. b \in Seq(Step) /\ m \in Nat
  BY StartPlanFacts
<1>4. /\ e \in Seq(Step) /\ Len(e) = n
      /\ \A i \in 1 .. n : e[i].op = "restore" /\ e[i].svc = r[i] /\ e[i].at = i
  BY <1>1, StepsFacts
<1>5. p = a \o b \o c
  BY DEF RestartPlan
<1> HIDE DEF r, a, b, e, p
<1>6. c = [i \in 1 .. n |-> e[(n - i) + 1]]
  BY <1>4 DEF Reverse
<1>7. /\ c \in Seq(Step) /\ Len(c) = n
      /\ \A i \in 1 .. n : c[i].op = "restore" /\ c[i].at = n + 1 - i /\ c[i].svc = r[n + 1 - i]
  <2>1. \A i \in 1 .. n : (n - i) + 1 \in 1 .. n /\ (n - i) + 1 = n + 1 - i
    BY <1>1
  <2>2. \A i \in 1 .. n : e[(n - i) + 1] \in Step
    BY <1>4, <2>1
  <2>3. c \in [1 .. n -> Step]
    BY <1>6, <2>2
  <2>4. c \in Seq(Step) /\ Len(c) = n
    BY <1>1, <2>3
  <2> QED BY <1>4, <1>6, <2>1, <2>4
<1> HIDE DEF c, n, m
<1>8. /\ a \o b \in Seq(Step) /\ Len(a \o b) = n + 1 + m
      /\ \A i \in 1 .. n + 1 : (a \o b)[i] = a[i]
      /\ \A i \in 1 .. m : (a \o b)[n + 1 + i] = b[i]
  BY <1>1, <1>2, <1>3 DEF m
<1> DEFINE ab == a \o b
<1> HIDE DEF ab
<1>9. p = ab \o c /\ ab \in Seq(Step) /\ Len(ab) = n + 1 + m
  BY <1>5, <1>8 DEF ab
<1>10. /\ p \in Seq(Step) /\ Len(p) = n + 1 + m + n
       /\ \A i \in 1 .. n + 1 + m : p[i] = ab[i]
       /\ \A i \in 1 .. n : p[n + 1 + m + i] = c[i]
  <2>1. /\ ab \o c \in Seq(Step) /\ Len(ab \o c) = Len(ab) + Len(c)
        /\ \A i \in 1 .. Len(ab) : (ab \o c)[i] = ab[i]
        /\ \A i \in 1 .. Len(c) : (ab \o c)[Len(ab) + i] = c[i]
    <3>1. ab \in Seq(Step)
      BY <1>9
    <3>2. c \in Seq(Step)
      BY <1>7
    <3> QED BY <3>1, <3>2, ConcatFacts
  <2> QED BY <1>7, <1>9, <2>1
<1>11. \A i \in 1 .. n + 1 : p[i] = a[i]
  BY <1>1, <1>3, <1>8, <1>10 DEF ab
<1>12. \A i \in 1 .. m : p[n + 1 + i] = b[i]
  <2>1. \A i \in 1 .. m : n + 1 + i \in 1 .. n + 1 + m
    BY <1>1, <1>3
  <2> QED BY <1>8, <1>10, <2>1 DEF ab
<1> QED BY <1>1, <1>3, <1>7, <1>10, <1>11, <1>12 DEF p, n, m, r, a, b

\* A list without entries.
LEMMA EmptyList == ASSUME NEW S, NEW p \in Seq(S), Len(p) = 0 PROVE p = <<>>
OBVIOUS

\* What is left of a list after its head.
LEMMA TailFacts ==
  ASSUME NEW S, NEW p \in Seq(S), p # <<>>
  PROVE  /\ Tail(p) \in Seq(S) /\ Len(p) \in Nat \ {0} /\ Len(Tail(p)) = Len(p) - 1
         /\ \A i \in 1 .. Len(p) - 1 : Tail(p)[i] = p[i + 1]
         /\ Head(p) = p[1] /\ p[1] \in S
OBVIOUS

\* The lists and plans that the threads take up.
LEMMA ListTypes ==
  ASSUME Graph
  PROVE  /\ All \in Seq(Services) /\ Range(All) = Services
         /\ \A s \in Services : /\ StartPlan(s) \in Seq(Step) /\ StopPlan(s) \in Seq(Step)
                                /\ RestartPlan(s) \in Seq(Step)
                                /\ ReverseDependencyClosure(s) \in Seq(Services)
<1>1. All \in Seq(Services) /\ Range(All) = Services
  BY DependenciesConstants DEF All, Services, Range
<1>2. \A s \in Services : /\ StartPlan(s) \in Seq(Step) /\ StopPlan(s) \in Seq(Step)
                          /\ RestartPlan(s) \in Seq(Step)
                          /\ ReverseDependencyClosure(s) \in Seq(Services)
  BY StartPlanFacts, StopPlanFacts, RestartPlanFacts, ReverseRight DEF Graph
<1> QED BY <1>1, <1>2

\* The types, at the start.
LEMMA TypesInit == Init => Types
<1> SUFFICES ASSUME Init PROVE Types
  OBVIOUS
<1>1. Graph
  BY GraphFirst
<1>2. All \in Seq(Services)
  BY <1>1, ListTypes
<1>3. plan \in [Threads -> Seq(Step)]
  BY DEF Init
<1>4. rest \in [Threads -> Seq(Services)]
  BY <1>2 DEF Init
<1> QED BY <1>1, <1>3, <1>4 DEF Init, Types

\* The types, step by step.
LEMMA TypesStep == ASSUME Types, [Next]_vars PROVE Types'
<1>1. Graph' /\ deps' = deps
  BY DepsStay DEF Types, Graph, Typed, Acyclic
<1> USE DEF Types
<1>2. ASSUME NEW t \in Threads, plan[t] # <<>> PROVE Tail(plan[t]) \in Seq(Step) /\ Current(t) \in Step
  BY <1>2, TailFacts DEF Current
<1>3. ASSUME NEW t \in Threads, rest[t] # <<>>
      PROVE  Tail(rest[t]) \in Seq(Services) /\ Head(rest[t]) \in Services
  BY <1>3, TailFacts
<1>4. ASSUME NEW t \in Threads,
             StartSucceeds(t) \/ StartFails(t) \/ RestoreSkipped(t) \/ StopSucceeds(t) \/ StopFails(t)
      PROVE  Types'
  <2>1. plan[t] # <<>> /\ Tail(plan[t]) \in Seq(Step) /\ Current(t).svc \in Services
    BY <1>2, <1>4 DEF StartSucceeds, StartFails, RestoreSkipped, StopSucceeds, StopFails, ToStart, ToStop, Step
  <2>2. plan' \in [Threads -> Seq(Step)]
    <3>1. plan' = [plan EXCEPT ![t] = Tail(plan[t])] \/ plan' = [plan EXCEPT ![t] = <<>>]
      BY <1>4 DEF StartSucceeds, StartFails, RestoreSkipped, StopSucceeds, StopFails, Advance, Abandon
    <3>2. <<>> \in Seq(Step)
      OBVIOUS
    <3> QED BY <2>1, <3>1, <3>2
  <2>3. state' \in [Services -> {"STOPPED", "RUNNING", "DEAD"}]
    BY <1>4, <2>1 DEF StartSucceeds, StartFails, RestoreSkipped, StopSucceeds, StopFails, svcVars
  <2>4. rest' = rest
    BY <1>4 DEF StartSucceeds, StartFails, RestoreSkipped, StopSucceeds, StopFails
  <2>5. mixed' \in BOOLEAN
    BY <1>4 DEF StartSucceeds, StartFails, RestoreSkipped, StopSucceeds, StopFails, Opposed, historyVars
  <2> QED BY <1>1, <2>2, <2>3, <2>4, <2>5
<1>5. ASSUME NEW s \in Services, Dies(s) PROVE Types'
  BY <1>1, <1>5 DEF Dies
<1>6. ASSUME NEW s \in Services, LwSmTableWatchdog(s) PROVE Types'
  BY <1>1, <1>6, ListTypes DEF LwSmTableWatchdog, historyVars
<1>7. ASSUME NEW s \in Services, LwSmStart(s) \/ LwSmStop(s) \/ LwSmRestart(s) PROVE Types'
  BY <1>1, <1>7, ListTypes DEF LwSmStart, LwSmStop, LwSmRestart, Tool, svcVars, historyVars
<1>8. ASSUME LwSmAutostartServices \/ LwSmShutdownServices \/ WatchdogLooks PROVE Types'
  <2>1. PICK t \in Threads : Between(t) /\ \E p \in {StartPlan(Head(rest[t])), StopPlan(Head(rest[t])), <<>>} : Take(t, p)
    BY <1>8 DEF LwSmAutostartServices, LwSmShutdownServices, WatchdogLooks, Threads
  <2>2. PICK p \in Seq(Step) : Take(t, p)
    BY <1>3, <2>1, ListTypes DEF Between
  <2>3. UNCHANGED <<state, mixed>>
    BY <1>8 DEF LwSmAutostartServices, LwSmShutdownServices, WatchdogLooks, svcVars, historyVars
  <2> QED BY <1>1, <1>3, <2>1, <2>2, <2>3 DEF Take, Between
<1>9. ASSUME MainTask \/ ShutdownOver \/ WatchdogOver PROVE Types'
  BY <1>1, <1>9, ListTypes DEF MainTask, ShutdownOver, WatchdogOver, svcVars, historyVars
<1>10. ASSUME UNCHANGED vars PROVE Types'
  BY <1>1, <1>10 DEF vars, svcVars, historyVars
<1> QED BY <1>4, <1>5, <1>6, <1>7, <1>8, <1>9, <1>10 DEF Next

-----------------------------------------------------------------------------
(* The shutdown.                                                           *)

\* What no longer concerns the shutdown stays so.
LEMMA HandledStays ==
  ASSUME Types, [Next]_vars, stopping # "no", NEW s \in Services, Handled(s)
  PROVE  Handled(s)'
<1>1. \A t : Needs(t)' = Needs(t)
  BY DepsStay DEF Needs
<1>2. ASSUME late \subseteq late', failed \subseteq failed',
             state[s] = "STOPPED" => state'[s] = "STOPPED" \/ s \in late'
      PROVE  Handled(s)'
  BY <1>1, <1>2 DEF Handled
<1>3. ASSUME NEW t \in Threads,
             StartSucceeds(t) \/ StartFails(t) \/ RestoreSkipped(t) \/ StopSucceeds(t) \/ StopFails(t)
      PROVE  Handled(s)'
  <2>1. late \subseteq late' /\ failed \subseteq failed'
    BY <1>3 DEF StartSucceeds, StartFails, RestoreSkipped, StopSucceeds, StopFails, historyVars
  <2>2. ASSUME state[s] = "STOPPED" PROVE state'[s] = "STOPPED" \/ s \in late'
    BY <1>3, <2>2 DEF StartSucceeds, StartFails, RestoreSkipped, StopSucceeds, StopFails, svcVars, Types
  <2> QED BY <1>2, <2>1, <2>2
<1>4. ASSUME NEW t \in Services, Dies(t) PROVE Handled(s)'
  BY <1>2, <1>4 DEF Dies, Types
<1>5. ASSUME UNCHANGED <<state, late, failed>> PROVE Handled(s)'
  BY <1>2, <1>5
<1> QED BY <1>3, <1>4, <1>5 DEF Next, LwSmTableWatchdog, LwSmStart, LwSmStop, LwSmRestart, Tool,
     LwSmAutostartServices, MainTask, LwSmShutdownServices, ShutdownOver, WatchdogLooks, WatchdogOver,
     vars, svcVars, historyVars

\* The shutdown's own steps, and the steps of others, which leave its plan alone.
LEMMA ShutdownStep == ASSUME ShutdownInv, [Next]_vars PROVE ShutdownInv'
<1> DEFINE P == plan["shutdown"]
           R == rest["shutdown"]
<1>0. PICK g : g = Target
  OBVIOUS
<1>1. Types /\ Types' /\ deps' = deps /\ \A t : Needs(t)' = Needs(t)
  BY TypesStep, DepsStay DEF ShutdownInv, Needs
<1>2. /\ P \in Seq(Step) /\ R \in Seq(Services)
      /\ \A i \in Places(P) : P[i].op = "stop" /\ (P[i].svc = Target \/ Target \in Needs(P[i].svc))
      /\ stopping # "going" => P = <<>> /\ R = <<>>
      /\ stopping # "no" => \A s \in Services : Handled(s) \/ s \in Range(R) \/ (P # <<>> /\ s = Target)
  BY DEF ShutdownInv, Types, Threads, ShutdownStops
<1>3. ASSUME P # <<>>
      PROVE  /\ stopping = "going" /\ Len(P) \in Nat \ {0} /\ 1 \in Places(P) /\ Current("shutdown") = P[1]
             /\ P[1].op = "stop" /\ P[1].svc \in Services
             /\ P[1].svc = Target \/ Target \in Needs(P[1].svc)
             /\ Len(Tail(P)) = Len(P) - 1 /\ \A i \in 1 .. Len(P) - 1 : Tail(P)[i] = P[i + 1]
  <2>1. /\ Len(P) \in Nat \ {0} /\ Len(Tail(P)) = Len(P) - 1 /\ Head(P) = P[1] /\ P[1] \in Step
        /\ \A i \in 1 .. Len(P) - 1 : Tail(P)[i] = P[i + 1]
    BY <1>2, <1>3, TailFacts
  <2>2. 1 \in Places(P) /\ P[1].svc \in Services /\ Current("shutdown") = P[1]
    BY <2>1 DEF Places, Current, Step
  <2> QED BY <1>2, <1>3, <2>1, <2>2
<1>4. ASSUME NEW s \in Services, stopping # "no", Handled(s) PROVE Handled(s)'
  BY <1>1, <1>4, HandledStays
<1>5. ASSUME P' = P, R' = R, stopping' = stopping PROVE ShutdownInv'
  <2>1. Target' = Target
    BY <1>5 DEF Target
  <2> QED BY <1>1, <1>2, <1>4, <1>5, <2>1 DEF ShutdownInv, ShutdownStops
<1>6. ASSUME StopSucceeds("shutdown") PROVE ShutdownInv'
  <2>1. P # <<>> /\ P' = Tail(P) /\ R' = R /\ stopping' = stopping
    BY <1>1, <1>6 DEF StopSucceeds, ToStop, Advance, Types, Threads
  <2>2. state' = [state EXCEPT ![P[1].svc] = "STOPPED"]
    BY <1>3, <1>6, <2>1 DEF StopSucceeds
  <2>3. CASE Len(P) = 1
    <3>1. Tail(P) = <<>> /\ g = P[1].svc
      <4>1. Tail(P) \in Seq(Step) /\ Len(Tail(P)) = 0
        BY <1>2, <1>3, <2>1, <2>3, TailFacts
      <4>2. g = P[1].svc
        BY <1>0, <2>3 DEF Target
      <4> QED BY <4>1, <4>2, EmptyList
    <3>2. Handled(g)'
      BY <1>1, <1>3, <2>1, <2>2, <3>1 DEF Handled, Types
    <3>3. Places(P)' = {}
      BY <2>1, <3>1 DEF Places
    <3> QED BY <1>0, <1>1, <1>2, <1>3, <1>4, <2>1, <3>1, <3>2, <3>3 DEF ShutdownInv, ShutdownStops
  <2>4. CASE Len(P) # 1
    <3>1. Target' = Target /\ Tail(P) # <<>>
      <4>1. Len(Tail(P)) = Len(P) - 1 /\ Len(P) - 1 \in 1 .. Len(P) - 1 /\ Len(P) - 1 # 0
        <5>1. Len(P) \in Nat \ {0} /\ Len(Tail(P)) = Len(P) - 1
          BY <1>3, <2>1
        <5>2. \A n \in Nat \ {0} : n # 1 => n - 1 \in 1 .. n - 1 /\ n - 1 # 0
          OBVIOUS
        <5>3. Len(P) - 1 \in 1 .. Len(P) - 1 /\ Len(P) - 1 # 0
          BY <2>4, <5>1, <5>2, Zenon
        <5> QED BY <5>1, <5>3
      <4>2. Tail(P)[Len(P) - 1] = P[Len(P)]
        BY <1>3, <2>1, <4>1
      <4>3. P'[Len(P')] = P[Len(P)]
        BY <2>1, <4>1, <4>2
      <4>4. Tail(P) # <<>>
        BY <4>1
      <4> QED BY <4>3, <4>4 DEF Target
    <3>2. \A i \in 1 .. Len(P) - 1 : /\ Tail(P)[i].op = "stop"
                                     /\ Tail(P)[i].svc = Target \/ Target \in Needs(Tail(P)[i].svc)
      BY <1>2, <1>3, <2>1 DEF Places
    <3>3. ShutdownStops'
      BY <1>1, <1>3, <2>1, <3>1, <3>2 DEF ShutdownStops, Places
    <3> QED BY <1>1, <1>2, <1>3, <1>4, <2>1, <3>1, <3>3 DEF ShutdownInv
  <2> QED BY <2>3, <2>4
<1>7. ASSUME StopFails("shutdown") PROVE ShutdownInv'
  <2>1. P # <<>> /\ P' = <<>> /\ R' = R /\ stopping' = stopping
    BY <1>1, <1>7 DEF StopFails, ToStop, Abandon, Types, Threads
  <2>2. failed' = failed \cup {P[1].svc}
    BY <1>3, <1>7, <2>1 DEF StopFails
  <2>3. Handled(g)'
    BY <1>0, <1>1, <1>3, <2>1, <2>2 DEF Handled
  <2>4. Places(P)' = {}
    BY <2>1 DEF Places
  <2> QED BY <1>0, <1>1, <1>2, <1>3, <1>4, <2>1, <2>3, <2>4 DEF ShutdownInv, ShutdownStops
<1>8. ASSUME LwSmShutdownServices PROVE ShutdownInv'
  <2>1. P = <<>> /\ R # <<>> /\ P' = StopPlan(Head(R)) /\ R' = Tail(R) /\ stopping' = stopping
    BY <1>1, <1>8 DEF LwSmShutdownServices, Between, Take, Types, Threads
  <2>2. /\ Head(R) \in Services /\ Head(R) = R[1] /\ Len(R) \in Nat /\ Len(Tail(R)) = Len(R) - 1
        /\ \A i \in 1 .. Len(R) - 1 : Tail(R)[i] = R[i + 1]
    BY <1>2, <2>1, TailFacts
  <2> DEFINE p == StopPlan(Head(R))
  <2>3. /\ p \in Seq(Step) /\ Len(p) \in Nat \ {0} /\ p[Len(p)].svc = Head(R)
        /\ \A i \in Places(p) : p[i].op = "stop" /\ (p[i].svc = Head(R) \/ Head(R) \in Needs(p[i].svc))
    BY <1>1, <2>2, StopPlanFacts DEF Types, Places
  <2> HIDE DEF p
  <2>4. P' = p /\ Target' = Head(R) /\ p # <<>>
    BY <2>1, <2>3 DEF Target, p
  <2>5. ShutdownStops'
    BY <1>1, <2>3, <2>4 DEF ShutdownStops
  <2>6. \A s \in Range(R) : s = Head(R) \/ s \in Range(Tail(R))
    <3>1. ASSUME NEW i \in 1 .. Len(R), i # 1 PROVE R[i] \in Range(Tail(R))
      <4>1. i - 1 \in 1 .. Len(R) - 1 /\ R[i] = Tail(R)[i - 1]
        BY <2>2, <3>1
      <4>2. i - 1 \in DOMAIN Tail(R)
        BY <1>2, <2>1, <2>2, <4>1, TailFacts
      <4> QED BY <4>1, <4>2 DEF Range
    <3> QED BY <1>2, <2>2, <3>1 DEF Range
  <2> QED BY <1>1, <1>2, <1>4, <2>1, <2>4, <2>5, <2>6 DEF ShutdownInv
<1>9. ASSUME MainTask PROVE ShutdownInv'
  <2>1. P' = P /\ P = <<>> /\ R' = All /\ stopping' = "going"
    BY <1>1, <1>2, <1>9 DEF MainTask, Types, Threads
  <2>2. Range(All) = Services
    BY <1>1, ListTypes DEF Types
  <2>3. Places(P)' = {}
    BY <2>1 DEF Places
  <2> QED BY <1>1, <2>1, <2>2, <2>3 DEF ShutdownInv, ShutdownStops
<1>10. ASSUME ShutdownOver PROVE ShutdownInv'
  <2>1. P' = P /\ P = <<>> /\ R' = R /\ R = <<>> /\ stopping # "no"
    BY <1>10 DEF ShutdownOver
  <2>2. Places(P)' = {}
    BY <2>1 DEF Places
  <2> QED BY <1>1, <1>2, <1>4, <2>1, <2>2 DEF ShutdownInv, ShutdownStops
<1>11. ASSUME StartSucceeds("shutdown") \/ StartFails("shutdown") \/ RestoreSkipped("shutdown") PROVE FALSE
  BY <1>3, <1>11 DEF StartSucceeds, StartFails, RestoreSkipped, ToStart
<1>12. ASSUME NEW t \in Threads \ {"shutdown"},
              StartSucceeds(t) \/ StartFails(t) \/ RestoreSkipped(t) \/ StopSucceeds(t) \/ StopFails(t)
       PROVE  ShutdownInv'
  BY <1>1, <1>5, <1>12 DEF StartSucceeds, StartFails, RestoreSkipped, StopSucceeds, StopFails,
     Advance, Abandon, Types, Threads
<1>13. ASSUME NEW s \in Services,
              Dies(s) \/ LwSmTableWatchdog(s) \/ LwSmStart(s) \/ LwSmStop(s) \/ LwSmRestart(s)
       PROVE  ShutdownInv'
  BY <1>1, <1>5, <1>13 DEF Dies, LwSmTableWatchdog, LwSmStart, LwSmStop, LwSmRestart, Tool, Types, Threads
<1>14. ASSUME LwSmAutostartServices \/ WatchdogLooks \/ WatchdogOver \/ UNCHANGED vars
       PROVE  ShutdownInv'
  BY <1>1, <1>5, <1>14 DEF LwSmAutostartServices, WatchdogLooks, WatchdogOver, Take, Types, Threads, vars
<1> QED BY <1>6, <1>7, <1>8, <1>9, <1>10, <1>11, <1>12, <1>13, <1>14 DEF Next

\* When the shutdown is over every service is stopped, in every graph and whatever the
\* other threads did, except for what failed to stop and what was started since.
THEOREM ShutdownRight == Spec => []ShutdownComplete
<1>1. Init => ShutdownInv
  <2> SUFFICES ASSUME Init PROVE ShutdownInv
    OBVIOUS
  <2>1. plan["shutdown"] = <<>> /\ rest["shutdown"] = <<>> /\ stopping = "no"
    BY DEF Init, Threads
  <2>2. Places(plan["shutdown"]) = {}
    BY <2>1 DEF Places
  <2> QED BY <2>1, <2>2, TypesInit DEF ShutdownInv, ShutdownStops
<1>2. ShutdownInv /\ [Next]_vars => ShutdownInv'
  BY ShutdownStep
<1>3. ShutdownInv => ShutdownComplete
  <2> SUFFICES ASSUME ShutdownInv, stopping = "done", NEW s \in Services PROVE Handled(s)
    BY DEF ShutdownComplete, Handled
  <2>1. Range(rest["shutdown"]) = {}
    BY DEF ShutdownInv, Range
  <2> QED BY <2>1 DEF ShutdownInv
<1> QED BY <1>1, <1>2, <1>3, PTL DEF Spec

-----------------------------------------------------------------------------
(* The shape of the plans.                                                 *)

\* A plan that is done or given up relies on nothing.
LEMMA EmptyPlan ==
  ASSUME NEW st, NEW nt, NEW dd
  PROVE  Shape(<<>>) /\ Safe(<<>>, st, nt, dd)
<1>1. Places(<<>>) = {}
  BY DEF Places
<1> QED BY <1>1 DEF Shape, StopsFirst, PlacesGrow, SamePlace, Backwards, Safe, StopsSafe, StartsSafe, RestoresSafe

\* The steps of what is left of a plan.
LEMMA TailPlaces ==
  ASSUME NEW p \in Seq(Step), p # <<>>
  PROVE  /\ Tail(p) \in Seq(Step) /\ 1 \in Places(p) /\ p[1] \in Step /\ Head(p) = p[1]
         /\ \A i \in Places(Tail(p)) : i \in Nat \ {0} /\ i + 1 \in Places(p) /\ Tail(p)[i] = p[i + 1]
         /\ \A i \in Places(p) : i \in Nat \ {0} /\ (i # 1 => i - 1 \in Places(Tail(p)) /\ p[i] = Tail(p)[i - 1])
<1>1. /\ Tail(p) \in Seq(Step) /\ Len(p) \in Nat \ {0} /\ Len(Tail(p)) = Len(p) - 1
      /\ \A i \in 1 .. Len(p) - 1 : Tail(p)[i] = p[i + 1]
      /\ Head(p) = p[1] /\ p[1] \in Step
  BY TailFacts
<1>2. Places(p) = 1 .. Len(p) /\ Places(Tail(p)) = 1 .. Len(p) - 1
  BY <1>1 DEF Places
<1>3. ASSUME NEW i \in 1 .. Len(p) - 1 PROVE i \in Nat \ {0} /\ i + 1 \in 1 .. Len(p)
  BY <1>1
<1>4. ASSUME NEW i \in 1 .. Len(p) PROVE i \in Nat \ {0} /\ (i # 1 => i - 1 \in 1 .. Len(p) - 1 /\ (i - 1) + 1 = i)
  BY <1>1
<1>5. 1 \in 1 .. Len(p)
  BY <1>1
<1> QED BY <1>1, <1>2, <1>3, <1>4, <1>5

\* A plan keeps its shape while it is worked through.
LEMMA TailShape ==
  ASSUME NEW p \in Seq(Step), p # <<>>, Shape(p)
  PROVE  Shape(Tail(p))
<1> DEFINE q == Tail(p)
<1>1. /\ 1 \in Places(p)
      /\ \A i \in Places(q) : i \in Nat \ {0} /\ i + 1 \in Places(p) /\ q[i] = p[i + 1]
      /\ \A i \in Places(p) : i \in Nat \ {0} /\ (i # 1 => i - 1 \in Places(q) /\ p[i] = q[i - 1])
  BY TailPlaces
<1> HIDE DEF q
<1>2. StopsFirst(q) /\ PlacesGrow(q) /\ SamePlace(q)
  <2>1. ASSUME NEW i \in Places(q), NEW j \in Places(q)
        PROVE  i + 1 \in Places(p) /\ j + 1 \in Places(p) /\ (i < j => i + 1 < j + 1) /\ q[i] = p[i + 1] /\ q[j] = p[j + 1]
    <3>1. i \in Nat /\ j \in Nat
      BY <1>1
    <3>2. i < j => i + 1 < j + 1
      BY <3>1
    <3> QED BY <1>1, <3>2
  <2>2. StopsFirst(q)
    BY <2>1 DEF Shape, StopsFirst
  <2>3. PlacesGrow(q)
    BY <2>1 DEF Shape, PlacesGrow
  <2>4. SamePlace(q)
    BY <2>1 DEF Shape, SamePlace
  <2> QED BY <2>2, <2>3, <2>4
<1>3. ASSUME NEW i \in Places(q), NEW j \in Places(q),
             q[i].op = "restore", q[j].op = "stop", q[j].at > q[i].at
      PROVE  \E k \in 1 .. i - 1 : \/ q[k].op = "restore" /\ q[k].at = q[j].at
                                   \/ q[k].op = "start" /\ q[k].svc = q[j].svc
  <2>1. PICK k \in 1 .. (i + 1) - 1 : \/ p[k].op = "restore" /\ p[k].at = p[j + 1].at
                                      \/ p[k].op = "start" /\ p[k].svc = p[j + 1].svc
    BY <1>1, <1>3 DEF Shape, Backwards
  <2>2. p[1].op = "stop"
    <3>1. j \in Nat \ {0} /\ j + 1 \in Places(p) /\ p[j + 1].op = "stop"
      BY <1>1, <1>3
    <3>2. 1 < j + 1
      BY <3>1
    <3> QED BY <1>1, <3>1, <3>2 DEF Shape, StopsFirst
  <2>3. k # 1
    BY <2>1, <2>2
  <2>4. k - 1 \in 1 .. i - 1 /\ k - 1 \in Places(q) /\ (k - 1) + 1 = k
    <3>1. i \in Nat /\ i \in 1 .. Len(q) /\ Len(q) \in Nat
      BY <1>1, TailPlaces DEF Places, q
    <3> QED BY <2>1, <2>3, <3>1 DEF Places
  <2>5. q[k - 1] = p[k]
    BY <1>1, <2>4
  <2> QED BY <1>1, <2>1, <2>4, <2>5
<1>4. Backwards(q)
  BY <1>3 DEF Backwards
<1> QED BY <1>2, <1>4 DEF Shape, q

\* A start plan relies on nothing but its own steps.
LEMMA StartPlanFresh ==
  ASSUME Graph, NEW s \in Services, NEW st, NEW nt, NEW dd
  PROVE  LET p == StartPlan(s)
         IN  Shape(p) /\ Safe(p, st, nt, dd) /\ \A i \in Places(p) : p[i].op # "restore"
<1> DEFINE p == StartPlan(s)
<1>1. /\ \A i \in Places(p) : p[i].op = "start" /\ \A d \in Range(deps[p[i].svc]) : \E j \in 1 .. i - 1 : p[j].svc = d
      /\ \A i \in Places(p) : \A j \in 1 .. i - 1 : j \in Places(p)
  <2>1. p \in Seq(Step)
    BY StartPlanFacts
  <2>2. \A i \in 1 .. Len(p) : \A j \in 1 .. i - 1 : j \in 1 .. Len(p)
    BY <2>1
  <2> QED BY <2>2, StartPlanFacts DEF Places
<1> HIDE DEF p
<1> QED BY <1>1 DEF p, Shape, StopsFirst, PlacesGrow, SamePlace, Backwards, Safe, StopsSafe, StartsSafe, RestoresSafe

\* Nor does a stop plan.
LEMMA StopPlanFresh ==
  ASSUME Graph, NEW s \in Services, NEW st, NEW nt, NEW dd
  PROVE  LET p == StopPlan(s)
         IN  Shape(p) /\ Safe(p, st, nt, dd) /\ \A i \in Places(p) : p[i].op # "restore"
<1> DEFINE p == StopPlan(s)
<1>1. /\ \A i \in Places(p) : /\ p[i].op = "stop" /\ p[i].at = i
                              /\ \A u \in Dependents(p[i].svc) : \E j \in 1 .. i - 1 : p[j].svc = u
      /\ \A i \in Places(p) : \A j \in 1 .. i - 1 : j \in Places(p)
  <2>1. p \in Seq(Step)
    BY StopPlanFacts
  <2>2. \A i \in 1 .. Len(p) : \A j \in 1 .. i - 1 : j \in 1 .. Len(p)
    BY <2>1
  <2>3. \A i \in 1 .. Len(p) : p[i].op = "stop" /\ p[i].at = i
    BY StopPlanFacts
  <2>4. \A i \in 1 .. Len(p) : \A u \in Dependents(p[i].svc) : \E j \in 1 .. i - 1 : p[j].svc = u
    BY StopPlanFacts
  <2> HIDE DEF p
  <2> QED BY <2>2, <2>3, <2>4 DEF Places
<1> HIDE DEF p
<1>2. StopsSafe(p, st)
  BY <1>1 DEF StopsSafe
<1> QED BY <1>1, <1>2 DEF p, Shape, StopsFirst, PlacesGrow, SamePlace, Backwards, Safe, StartsSafe, RestoresSafe

\* Nor does lwsm restart: what its list names twice is brought back at each place, and
\* the service itself by the start plan in between.
LEMMA RestartPlanFresh ==
  ASSUME Graph, NEW s \in Services, NEW st, NEW dd
  PROVE  LET p == RestartPlan(s)
         IN  Shape(p) /\ Safe(p, st, {}, dd)
<1> DEFINE p == RestartPlan(s)
           a == StopPlan(s)
           b == StartPlan(s)
           r == ReverseDependencyClosure(s)
           n == Len(r)
           m == Len(b)
<1>1. /\ p \in Seq(Step) /\ n \in Nat /\ m \in Nat /\ Len(p) = n + 1 + m + n
      /\ \A i \in 1 .. n + 1 : p[i] = a[i]
      /\ \A i \in 1 .. m : p[n + 1 + i] = b[i]
      /\ \A i \in 1 .. n : /\ p[n + 1 + m + i].op = "restore" /\ p[n + 1 + m + i].at = n + 1 - i
                           /\ p[n + 1 + m + i].svc = r[n + 1 - i]
  BY RestartPlanFacts
<1>2. \A i \in 1 .. n + 1 : a[i].op = "stop" /\ a[i].at = i
  BY StopPlanFacts
<1>3. a[n + 1].svc = s /\ \A i \in 1 .. n : a[i].svc = r[i]
  BY StopPlanFacts
<1>4. \A i \in 1 .. n + 1 : \A u \in Dependents(a[i].svc) : \E j \in 1 .. i - 1 : a[j].svc = u
  <2>1. \A i \in 1 .. Len(a) : \A u \in Dependents(a[i].svc) : \E j \in 1 .. i - 1 : a[j].svc = u
    BY StopPlanFacts
  <2>2. Len(a) = n + 1
    BY StopPlanFacts
  <2> HIDE DEF a, n
  <2> QED BY <2>1, <2>2
<1>5. \A i \in 1 .. m : b[i].op = "start"
  BY StartPlanFacts
<1>6. \E i \in 1 .. m : b[i].svc = s
  BY StartPlanFacts
<1>7. \A i \in 1 .. m : \A d \in Range(deps[b[i].svc]) : \E j \in 1 .. i - 1 : b[j].svc = d
  BY StartPlanFacts
<1> HIDE DEF p, a, b, r, n, m
<1>8. \A i \in 1 .. n + 1 : p[i].op = "stop" /\ p[i].at = i /\ p[i].svc = a[i].svc
  BY <1>1, <1>2
<1>9. \A x \in 1 .. m : p[n + 1 + x].op = "start" /\ p[n + 1 + x] = b[x]
  BY <1>1, <1>5
<1>10. ASSUME NEW i \in Places(p)
       PROVE  \/ i \in 1 .. n + 1
              \/ \E x \in 1 .. m : i = n + 1 + x
              \/ \E x \in 1 .. n : i = n + 1 + m + x
  <2>1. i \in 1 .. n + 1 + m + n
    BY <1>1 DEF Places
  <2>2. CASE i \in 1 .. n + 1
    BY <2>2
  <2>3. CASE i \in n + 2 .. n + 1 + m
    <3>1. i - (n + 1) \in 1 .. m /\ i = n + 1 + (i - (n + 1))
      BY <1>1, <2>3
    <3> QED BY <2>1, <3>1
  <2>4. CASE i \in n + 2 + m .. n + 1 + m + n
    <3>1. i - (n + 1 + m) \in 1 .. n /\ i = n + 1 + m + (i - (n + 1 + m))
      BY <1>1, <2>4
    <3> QED BY <2>1, <3>1
  <2> QED BY <1>1, <2>1, <2>2, <2>3, <2>4
<1>11. ASSUME NEW i \in Places(p)
       PROVE  /\ i \in Nat
              /\ p[i].op = "stop" => i \in 1 .. n + 1 /\ p[i].at = i /\ p[i].svc = a[i].svc
              /\ p[i].op = "start" => \E x \in 1 .. m : i = n + 1 + x /\ p[i] = b[x]
              /\ p[i].op = "restore" => \E x \in 1 .. n : /\ i = n + 1 + m + x /\ p[i].at = n + 1 - x
                                                          /\ p[i].svc = r[n + 1 - x]
  <2>1. i \in Nat
    BY <1>1 DEF Places
  <2>2. CASE i \in 1 .. n + 1
    BY <1>8, <2>1, <2>2
  <2>3. ASSUME NEW x \in 1 .. m, i = n + 1 + x PROVE p[i].op = "start" /\ p[i] = b[x]
    BY <1>9, <2>3
  <2>4. ASSUME NEW x \in 1 .. n, i = n + 1 + m + x
        PROVE  p[i].op = "restore" /\ p[i].at = n + 1 - x /\ p[i].svc = r[n + 1 - x]
    BY <1>1, <2>4
  <2>5. CASE \E x \in 1 .. m : i = n + 1 + x
    BY <2>1, <2>3, <2>5
  <2>6. CASE \E x \in 1 .. n : i = n + 1 + m + x
    BY <2>1, <2>4, <2>6
  <2> QED BY <1>10, <2>2, <2>5, <2>6
<1>12. StopsFirst(p) /\ PlacesGrow(p)
  <2>1. ASSUME NEW i \in Places(p), NEW j \in Places(p), i < j, p[j].op = "stop"
        PROVE  p[i].op = "stop" /\ p[i].at < p[j].at
    <3>1. j \in 1 .. n + 1 /\ p[j].at = j /\ i \in Nat
      BY <1>11, <2>1
    <3>2. i \in 1 .. n + 1
      BY <1>1, <2>1, <3>1 DEF Places
    <3> QED BY <1>1, <1>2, <2>1, <3>1, <3>2
  <2> QED BY <2>1 DEF StopsFirst, PlacesGrow
<1>13. SamePlace(p)
  <2>1. ASSUME NEW i \in Places(p), NEW j \in Places(p), p[i].op = "stop", p[j].op = "restore", p[i].at = p[j].at
        PROVE  p[i].svc = p[j].svc
    <3>1. i \in 1 .. n + 1 /\ p[i].at = i /\ p[i].svc = a[i].svc
      BY <1>11, <2>1
    <3>2. PICK x \in 1 .. n : p[j].at = n + 1 - x /\ p[j].svc = r[n + 1 - x]
      BY <1>11, <2>1
    <3>3. i = n + 1 - x
      BY <2>1, <3>1, <3>2, Zenon
    <3>4. i \in 1 .. n
      BY <1>1, <3>2, <3>3
    <3> QED BY <1>3, <3>1, <3>2, <3>3, <3>4
  <2> QED BY <2>1 DEF SamePlace
<1>14. Backwards(p)
  <2>1. ASSUME NEW i \in Places(p), NEW j \in Places(p), p[i].op = "restore", p[j].op = "stop", p[j].at > p[i].at
        PROVE  \E k \in 1 .. i - 1 : \/ p[k].op = "restore" /\ p[k].at = p[j].at
                                     \/ p[k].op = "start" /\ p[k].svc = p[j].svc
    <3>1. j \in 1 .. n + 1 /\ p[j].at = j /\ p[j].svc = a[j].svc
      BY <1>11, <2>1
    <3>2. PICK x \in 1 .. n : i = n + 1 + m + x /\ p[i].at = n + 1 - x
      BY <1>11, <2>1
    <3>3. CASE j = n + 1
      <4>1. PICK y \in 1 .. m : b[y].svc = s
        BY <1>6
      <4>2. n + 1 + y \in 1 .. i - 1
        BY <1>1, <3>2, <4>1
      <4>3. p[n + 1 + y].op = "start" /\ p[n + 1 + y].svc = p[j].svc
        BY <1>1, <1>3, <1>5, <3>1, <3>3, <4>1
      <4> QED BY <4>2, <4>3
    <3>4. CASE j \in 1 .. n
      <4>1. n + 1 - j \in 1 .. n /\ n + 1 - j < x /\ n + 1 - (n + 1 - j) = j
        <5>1. j > n + 1 - x
          BY <2>1, <3>1, <3>2, Zenon
        <5>2. n \in Nat
          BY <1>1
        <5>3. j \in 1 .. n /\ x \in 1 .. n
          BY <3>2, <3>4
        <5> QED BY <5>1, <5>2, <5>3
      <4> DEFINE y == n + 1 - j
      <4>2. y \in 1 .. n /\ y < x /\ n + 1 - y = j
        BY <4>1
      <4> HIDE DEF y
      <4>3. n + 1 + m + y \in 1 .. i - 1
        BY <1>1, <3>2, <4>2
      <4>4. p[n + 1 + m + y].op = "restore" /\ p[n + 1 + m + y].at = p[j].at
        BY <1>1, <3>1, <4>2
      <4> QED BY <4>3, <4>4
    <3> QED BY <1>1, <3>1, <3>3, <3>4
  <2> QED BY <2>1 DEF Backwards
<1>15. StopsSafe(p, st)
  <2>1. ASSUME NEW i \in Places(p), p[i].op = "stop", NEW u \in Dependents(p[i].svc)
        PROVE  \E j \in 1 .. i - 1 : p[j].op = "stop" /\ p[j].svc = u
    <3>1. i \in 1 .. n + 1 /\ p[i].svc = a[i].svc
      BY <1>11, <2>1
    <3>2. u \in Dependents(a[i].svc)
      BY <2>1, <3>1
    <3>3. PICK j \in 1 .. i - 1 : a[j].svc = u
      BY <1>4, <3>1, <3>2
    <3>4. j \in 1 .. n + 1
      BY <1>1, <3>1, <3>3
    <3> QED BY <1>1, <1>2, <3>3, <3>4
  <2> QED BY <2>1 DEF StopsSafe
<1>16. StartsSafe(p, st, dd)
  <2>1. ASSUME NEW i \in Places(p), p[i].op = "start", NEW d \in Range(deps[p[i].svc])
        PROVE  \E j \in 1 .. i - 1 : p[j].op = "start" /\ p[j].svc = d
    <3>1. PICK x \in 1 .. m : i = n + 1 + x /\ p[i] = b[x]
      BY <1>11, <2>1
    <3>2. d \in Range(deps[b[x].svc])
      BY <2>1, <3>1
    <3>3. PICK y \in 1 .. x - 1 : b[y].svc = d
      BY <1>7, <3>1, <3>2
    <3>4. y \in 1 .. m /\ n + 1 + y \in 1 .. i - 1
      BY <1>1, <3>1, <3>3
    <3> QED BY <1>1, <1>5, <3>3, <3>4
  <2> QED BY <2>1 DEF StartsSafe
<1>17. RestoresSafe(p, st, {}, dd)
  BY DEF RestoresSafe
<1> QED BY <1>12, <1>13, <1>14, <1>15, <1>16, <1>17 DEF p, Shape, Safe

-----------------------------------------------------------------------------
(* What a plan relies on, when its thread or another makes a call.         *)

\* A service names services, and not itself.
LEMMA DepRange ==
  ASSUME Graph, NEW s \in Services
  PROVE  Range(deps[s]) \subseteq Services /\ s \notin Range(deps[s])
<1>1. Range(deps[s]) \subseteq Services
  BY DEF Graph, Typed, Range
<1>2. {s} \in (SUBSET Services) \ {{}}
  OBVIOUS
<1>3. Range(deps[s]) \cap {s} = {}
  BY <1>2 DEF Graph, Acyclic
<1> QED BY <1>1, <1>3

\* The service of a step.
LEMMA PlanServices ==
  ASSUME Graph, NEW p \in Seq(Step), NEW i \in Places(p)
  PROVE  /\ i \in Nat \ {0} /\ p[i] \in Step /\ p[i].at \in Nat
         /\ p[i].svc \in Services /\ Range(deps[p[i].svc]) \subseteq Services
<1>1. i \in Nat \ {0} /\ p[i] \in Step
  BY DEF Places
<1>2. p[i].svc \in Services /\ p[i].at \in Nat
  BY <1>1 DEF Step
<1> QED BY <1>1, <1>2, DepRange

\* The calls of other threads: nothing is started beside a plan with stops, and nothing
\* stopped beside one with starts.
LEMMA OthersSafe ==
  ASSUME Graph, NEW p \in Seq(Step), NEW st, NEW st2, NEW nt, NEW dd, NEW dd2,
         Safe(p, st, nt, dd), dd \subseteq dd2,
         (\E i \in Places(p) : p[i].op = "stop") =>
           \A u \in Services : st2[u] = "RUNNING" => st[u] = "RUNNING",
         (\E i \in Places(p) : p[i].op # "stop") =>
           \A d \in Services : st[d] = "RUNNING" => st2[d] = "RUNNING" \/ d \in dd2
  PROVE  Safe(p, st2, nt, dd2)
<1>1. \A i \in Places(p) : p[i].svc \in Services /\ Range(deps[p[i].svc]) \subseteq Services
  BY PlanServices
<1>2. StopsSafe(p, st2)
  BY DEF Safe, StopsSafe, Dependents
<1>3. StartsSafe(p, st2, dd2)
  <2> SUFFICES ASSUME NEW i \in Places(p), p[i].op = "start", NEW d \in Range(deps[p[i].svc])
               PROVE  \/ d \in dd2
                      \/ \E j \in 1 .. i - 1 : p[j].op = "start" /\ p[j].svc = d
                      \/ st2[d] = "RUNNING" /\ \A j \in Places(p) : p[j].op # "stop"
    BY DEF StartsSafe
  <2>1. \/ d \in dd
        \/ \E j \in 1 .. i - 1 : p[j].op = "start" /\ p[j].svc = d
        \/ st[d] = "RUNNING" /\ \A j \in Places(p) : p[j].op # "stop"
    BY DEF Safe, StartsSafe
  <2>2. d \in Services /\ p[i].op # "stop"
    BY <1>1
  <2>3. st[d] = "RUNNING" => st2[d] = "RUNNING" \/ d \in dd2
    BY <2>2
  <2> QED BY <2>1, <2>3
<1>4. RestoresSafe(p, st2, nt, dd2)
  <2> SUFFICES ASSUME NEW i \in Places(p), p[i].op = "restore", p[i].at \in nt, NEW d \in Range(deps[p[i].svc])
               PROVE  \/ d \in dd2
                      \/ \E j \in 1 .. i - 1 : p[j].svc = d /\ (p[j].op = "start" \/ (p[j].op = "restore" /\ p[j].at \in nt))
                      \/ /\ st2[d] = "RUNNING"
                         /\ \A j \in Places(p) : p[j].op = "stop" /\ p[j].svc = d =>
                              \E k \in 1 .. i - 1 : p[k].op = "restore" /\ p[k].svc = d /\ p[k].at = p[j].at
    BY DEF RestoresSafe
  <2>1. \/ d \in dd
        \/ \E j \in 1 .. i - 1 : p[j].svc = d /\ (p[j].op = "start" \/ (p[j].op = "restore" /\ p[j].at \in nt))
        \/ /\ st[d] = "RUNNING"
           /\ \A j \in Places(p) : p[j].op = "stop" /\ p[j].svc = d =>
                \E k \in 1 .. i - 1 : p[k].op = "restore" /\ p[k].svc = d /\ p[k].at = p[j].at
    BY DEF Safe, RestoresSafe
  <2>2. d \in Services /\ p[i].op # "stop"
    BY <1>1
  <2>3. st[d] = "RUNNING" => st2[d] = "RUNNING" \/ d \in dd2
    BY <2>2
  <2> QED BY <2>1, <2>3
<1> QED BY <1>2, <1>3, <1>4 DEF Safe

\* An earlier step of a plan, seen from what is left of it.
LEMMA Earlier ==
  ASSUME NEW p \in Seq(Step), p # <<>>, NEW i \in Places(Tail(p)), NEW k \in 1 .. (i + 1) - 1
  PROVE  k = 1 \/ (k - 1 \in 1 .. i - 1 /\ Tail(p)[k - 1] = p[k])
<1>1. i \in 1 .. Len(p) - 1 /\ Len(p) \in Nat \ {0} /\ \A j \in 1 .. Len(p) - 1 : Tail(p)[j] = p[j + 1]
  BY TailFacts DEF Places
<1>2. k \in 1 .. i
  BY <1>1
<1>3. CASE k # 1
  <2>1. k - 1 \in 1 .. i - 1 /\ k - 1 \in 1 .. Len(p) - 1 /\ (k - 1) + 1 = k
    BY <1>1, <1>2, <1>3
  <2> QED BY <1>1, <2>1
<1> QED BY <1>3

\* A start.  Only starts are left.
LEMMA StartKeepsSafe ==
  ASSUME Graph, NEW p \in Seq(Step), p # <<>>, Shape(p), p[1].op # "stop",
         NEW st \in [Services -> {"STOPPED", "RUNNING", "DEAD"}], NEW st2, NEW nt, NEW dd,
         Safe(p, st, nt, dd),
         \/ /\ p[1].op = "start" \/ (p[1].op = "restore" /\ p[1].at \in nt)
            /\ st2 = [st EXCEPT ![p[1].svc] = "RUNNING"]
         \/ p[1].op = "restore" /\ p[1].at \notin nt /\ st2 = st
  PROVE  Safe(Tail(p), st2, nt, dd)
<1> DEFINE q == Tail(p)
<1>1. /\ q \in Seq(Step) /\ 1 \in Places(p) /\ p[1] \in Step
      /\ \A i \in Places(q) : i \in Nat \ {0} /\ i + 1 \in Places(p) /\ q[i] = p[i + 1]
      /\ \A i \in Places(p) : i \in Nat \ {0}
  BY TailPlaces
<1>2. \A i \in Places(q) : \A k \in 1 .. (i + 1) - 1 : k = 1 \/ (k - 1 \in 1 .. i - 1 /\ q[k - 1] = p[k])
  BY Earlier
<1> HIDE DEF q
<1>3. \A j \in Places(p) : p[j].op # "stop"
  <2>1. ASSUME NEW j \in Places(p), j # 1, p[j].op = "stop" PROVE FALSE
    <3>1. 1 < j
      BY <1>1, <2>1
    <3> QED BY <1>1, <2>1, <3>1 DEF Shape, StopsFirst
  <2> QED BY <2>1
<1>4. \A j \in Places(q) : q[j].op # "stop"
  BY <1>1, <1>3
<1>5. \A i \in Places(q) : q[i] \in Step /\ Range(deps[q[i].svc]) \subseteq Services
  BY <1>1, PlanServices
<1>6. \A d \in Services : st[d] = "RUNNING" => st2[d] = "RUNNING"
  OBVIOUS
<1>7. p[1].op = "start" \/ (p[1].op = "restore" /\ p[1].at \in nt) => \A d \in Services : p[1].svc = d => st2[d] = "RUNNING"
  OBVIOUS
<1>8. StartsSafe(q, st2, dd)
  <2> SUFFICES ASSUME NEW i \in Places(q), q[i].op = "start", NEW d \in Range(deps[q[i].svc]), d \notin dd
               PROVE  (\E j \in 1 .. i - 1 : q[j].op = "start" /\ q[j].svc = d) \/ st2[d] = "RUNNING"
    BY <1>4 DEF StartsSafe
  <2>1. d \in Services
    BY <1>5
  <2>2. (\E j \in 1 .. (i + 1) - 1 : p[j].op = "start" /\ p[j].svc = d) \/ st[d] = "RUNNING"
    BY <1>1 DEF Safe, StartsSafe
  <2>3. ASSUME NEW j \in 1 .. (i + 1) - 1, p[j].op = "start", p[j].svc = d
        PROVE  (\E k \in 1 .. i - 1 : q[k].op = "start" /\ q[k].svc = d) \/ st2[d] = "RUNNING"
    BY <1>2, <1>7, <2>1, <2>3
  <2> QED BY <1>6, <2>1, <2>2, <2>3
<1>9. RestoresSafe(q, st2, nt, dd)
  <2> SUFFICES ASSUME NEW i \in Places(q), q[i].op = "restore", q[i].at \in nt,
                      NEW d \in Range(deps[q[i].svc]), d \notin dd
               PROVE  \/ \E j \in 1 .. i - 1 : q[j].svc = d /\ (q[j].op = "start" \/ (q[j].op = "restore" /\ q[j].at \in nt))
                      \/ st2[d] = "RUNNING"
    BY <1>4 DEF RestoresSafe
  <2>1. d \in Services
    BY <1>5
  <2>2. \/ \E j \in 1 .. (i + 1) - 1 : p[j].svc = d /\ (p[j].op = "start" \/ (p[j].op = "restore" /\ p[j].at \in nt))
        \/ st[d] = "RUNNING"
    <3>1. /\ i + 1 \in Places(p) /\ p[i + 1].op = "restore" /\ p[i + 1].at \in nt
          /\ d \in Range(deps[p[i + 1].svc])
      BY <1>1
    <3> QED BY <3>1 DEF Safe, RestoresSafe
  <2>3. ASSUME NEW j \in 1 .. (i + 1) - 1, p[j].svc = d, p[j].op = "start" \/ (p[j].op = "restore" /\ p[j].at \in nt)
        PROVE  \/ \E k \in 1 .. i - 1 : q[k].svc = d /\ (q[k].op = "start" \/ (q[k].op = "restore" /\ q[k].at \in nt))
               \/ st2[d] = "RUNNING"
    BY <1>2, <1>7, <2>1, <2>3
  <2> QED BY <1>6, <2>1, <2>2, <2>3
<1>10. StopsSafe(q, st2)
  BY <1>4 DEF StopsSafe
<1> QED BY <1>8, <1>9, <1>10 DEF Safe, q

\* A stop.  What was running at its place is noted, and will be brought back in front of
\* all that needs it.
LEMMA StopKeepsSafe ==
  ASSUME Graph, NEW p \in Seq(Step), p # <<>>, Shape(p), p[1].op = "stop",
         NEW st \in [Services -> {"STOPPED", "RUNNING", "DEAD"}], NEW nt, NEW nt2, NEW dd,
         Up(st, dd), Safe(p, st, nt, dd),
         \/ nt2 = (IF st[p[1].svc] = "RUNNING" THEN nt \cup {p[1].at} ELSE nt)
         \/ nt2 = nt /\ \A i \in Places(p) : p[i].op # "restore"
  PROVE  Safe(Tail(p), [st EXCEPT ![p[1].svc] = "STOPPED"], nt2, dd)
<1> DEFINE q   == Tail(p)
           st2 == [st EXCEPT ![p[1].svc] = "STOPPED"]
<1>1. /\ q \in Seq(Step) /\ 1 \in Places(p) /\ p[1] \in Step
      /\ \A i \in Places(q) : i \in Nat \ {0} /\ i + 1 \in Places(p) /\ q[i] = p[i + 1]
      /\ \A i \in Places(p) : i \in Nat \ {0}
  BY TailPlaces
<1>2. \A i \in Places(q) : \A k \in 1 .. (i + 1) - 1 : k = 1 \/ (k - 1 \in 1 .. i - 1 /\ q[k - 1] = p[k])
  BY Earlier
<1> HIDE DEF q
<1>3. \A i \in Places(q) : /\ q[i] \in Step /\ q[i].at \in Nat /\ q[i].svc \in Services
                           /\ Range(deps[q[i].svc]) \subseteq Services
  BY <1>1, PlanServices
<1>4. p[1].svc \in Services /\ p[1].at \in Nat
  BY <1>1, PlanServices
<1>5. st2[p[1].svc] = "STOPPED" /\ \A u \in Services : u # p[1].svc => st2[u] = st[u]
  BY <1>4
<1> HIDE DEF st2
<1>6. StopsSafe(q, st2)
  <2> SUFFICES ASSUME NEW i \in Places(q), q[i].op = "stop", NEW u \in Dependents(q[i].svc), st2[u] = "RUNNING"
               PROVE  \E j \in 1 .. i - 1 : q[j].op = "stop" /\ q[j].svc = u
    BY DEF StopsSafe
  <2>1. u \in Services
    BY DEF Dependents
  <2>2. u # p[1].svc /\ st[u] = "RUNNING"
    BY <1>5, <2>1
  <2>3. i + 1 \in Places(p) /\ p[i + 1].op = "stop" /\ u \in Dependents(p[i + 1].svc)
    BY <1>1
  <2>4. PICK j \in 1 .. (i + 1) - 1 : p[j].op = "stop" /\ p[j].svc = u
    BY <2>2, <2>3 DEF Safe, StopsSafe
  <2> QED BY <1>2, <2>2, <2>4
<1>7. StartsSafe(q, st2, dd)
  <2> SUFFICES ASSUME NEW i \in Places(q), q[i].op = "start", NEW d \in Range(deps[q[i].svc]), d \notin dd
               PROVE  \E j \in 1 .. i - 1 : q[j].op = "start" /\ q[j].svc = d
    BY DEF StartsSafe
  <2>1. i + 1 \in Places(p) /\ p[i + 1].op = "start" /\ d \in Range(deps[p[i + 1].svc])
    BY <1>1
  <2>2. PICK j \in 1 .. (i + 1) - 1 : p[j].op = "start" /\ p[j].svc = d
    BY <1>1, <2>1 DEF Safe, StartsSafe
  <2> QED BY <1>2, <2>2
<1>8. RestoresSafe(q, st2, nt2, dd)
  <2> SUFFICES ASSUME NEW i \in Places(q), q[i].op = "restore", q[i].at \in nt2,
                      NEW d \in Range(deps[q[i].svc]), d \notin dd
               PROVE  \/ \E j \in 1 .. i - 1 : q[j].svc = d /\ (q[j].op = "start" \/ (q[j].op = "restore" /\ q[j].at \in nt2))
                      \/ /\ st2[d] = "RUNNING"
                         /\ \A j \in Places(q) : q[j].op = "stop" /\ q[j].svc = d =>
                              \E k \in 1 .. i - 1 : q[k].op = "restore" /\ q[k].svc = d /\ q[k].at = q[j].at
    BY DEF RestoresSafe
  <2> DEFINE h == p[1]
  <2>1. i + 1 \in Places(p) /\ p[i + 1] = q[i] /\ d \in Services /\ p[i + 1].op = "restore"
    BY <1>1, <1>3
  <2>2. /\ nt2 = (IF st[h.svc] = "RUNNING" THEN nt \cup {h.at} ELSE nt)
        /\ nt \subseteq nt2
    BY <2>1
  \* Steps of the whole plan in front of step i + 1 are steps of the rest in front of step i.
  <2>3. ASSUME NEW k \in 1 .. (i + 1) - 1, p[k].op # "stop"
        PROVE  k - 1 \in 1 .. i - 1 /\ q[k - 1] = p[k]
    BY <1>2, <2>3
  <2>4. CASE q[i].at \in nt
    <3>1. \/ \E j \in 1 .. (i + 1) - 1 : p[j].svc = d /\ (p[j].op = "start" \/ (p[j].op = "restore" /\ p[j].at \in nt))
          \/ /\ st[d] = "RUNNING"
             /\ \A j \in Places(p) : p[j].op = "stop" /\ p[j].svc = d =>
                  \E k \in 1 .. (i + 1) - 1 : p[k].op = "restore" /\ p[k].svc = d /\ p[k].at = p[j].at
      BY <2>1, <2>4 DEF Safe, RestoresSafe
    <3>2. CASE \E j \in 1 .. (i + 1) - 1 : p[j].svc = d /\ (p[j].op = "start" \/ (p[j].op = "restore" /\ p[j].at \in nt))
      <4>1. PICK j \in 1 .. (i + 1) - 1 : p[j].svc = d /\ (p[j].op = "start" \/ (p[j].op = "restore" /\ p[j].at \in nt))
        BY <3>2
      <4>2. j - 1 \in 1 .. i - 1 /\ q[j - 1] = p[j]
        BY <2>3, <4>1
      <4> QED BY <2>2, <4>1, <4>2
    <3>3. CASE /\ st[d] = "RUNNING"
               /\ \A j \in Places(p) : p[j].op = "stop" /\ p[j].svc = d =>
                    \E k \in 1 .. (i + 1) - 1 : p[k].op = "restore" /\ p[k].svc = d /\ p[k].at = p[j].at
      <4>1. CASE h.svc = d
        <5>1. PICK k \in 1 .. (i + 1) - 1 : p[k].op = "restore" /\ p[k].svc = d /\ p[k].at = h.at
          BY <1>1, <3>3, <4>1
        <5>2. k - 1 \in 1 .. i - 1 /\ q[k - 1] = p[k]
          BY <2>3, <5>1
        <5>3. h.at \in nt2
          BY <2>2, <3>3, <4>1
        <5> QED BY <5>1, <5>2, <5>3
      <4>2. CASE h.svc # d
        <5>1. st2[d] = "RUNNING"
          BY <1>5, <2>1, <3>3, <4>2
        <5>2. ASSUME NEW j \in Places(q), q[j].op = "stop", q[j].svc = d
              PROVE  \E k \in 1 .. i - 1 : q[k].op = "restore" /\ q[k].svc = d /\ q[k].at = q[j].at
          <6>1. j + 1 \in Places(p) /\ p[j + 1] = q[j]
            BY <1>1
          <6>2. PICK k \in 1 .. (i + 1) - 1 : p[k].op = "restore" /\ p[k].svc = d /\ p[k].at = q[j].at
            BY <3>3, <5>2, <6>1
          <6>3. k - 1 \in 1 .. i - 1 /\ q[k - 1] = p[k]
            BY <2>3, <6>2
          <6> QED BY <6>2, <6>3
        <5> QED BY <5>1, <5>2
      <4> QED BY <4>1, <4>2
    <3> QED BY <3>1, <3>2, <3>3
  <2>5. CASE q[i].at \notin nt
    <3>1. st[h.svc] = "RUNNING" /\ q[i].at = h.at
      BY <2>2, <2>5
    <3>2. q[i].svc = h.svc
      BY <1>1, <2>1, <3>1 DEF Shape, SamePlace
    <3>3. st[d] = "RUNNING" /\ d # h.svc
      BY <1>4, <3>1, <3>2, DepRange DEF Up
    <3>4. st2[d] = "RUNNING"
      BY <1>5, <2>1, <3>3
    <3>5. CASE \E k \in 1 .. i - 1 : q[k].op = "start" /\ q[k].svc = d
      BY <3>5
    <3>6. CASE \A k \in 1 .. i - 1 : ~(q[k].op = "start" /\ q[k].svc = d)
      <4>1. ASSUME NEW j \in Places(q), q[j].op = "stop", q[j].svc = d
            PROVE  \E k \in 1 .. i - 1 : q[k].op = "restore" /\ q[k].svc = d /\ q[k].at = q[j].at
        <5>1. j + 1 \in Places(p) /\ p[j + 1] = q[j] /\ j \in Nat \ {0}
          BY <1>1
        <5>2. 1 < j + 1
          BY <5>1
        <5>3. h.at < p[j + 1].at
          BY <1>1, <4>1, <5>1, <5>2 DEF Shape, PlacesGrow
        <5>4. p[j + 1].at > p[i + 1].at
          <6>1. p[i + 1].at = h.at /\ p[j + 1].at \in Nat /\ h.at \in Nat
            BY <1>3, <1>4, <2>1, <3>1, <5>1
          <6> QED BY <5>3, <6>1
        <5>5. PICK k \in 1 .. (i + 1) - 1 : \/ p[k].op = "restore" /\ p[k].at = p[j + 1].at
                                            \/ p[k].op = "start" /\ p[k].svc = p[j + 1].svc
          BY <2>1, <4>1, <5>1, <5>4 DEF Shape, Backwards
        <5>6. k - 1 \in 1 .. i - 1 /\ q[k - 1] = p[k]
          BY <2>3, <5>5
        <5>7. p[k].op = "restore" /\ p[k].at = p[j + 1].at
          BY <3>6, <4>1, <5>1, <5>5, <5>6
        <5>8. k \in Places(p)
          <6>1. i + 1 \in 1 .. Len(p) /\ Len(p) \in Nat
            BY <2>1 DEF Places
          <6> QED BY <6>1 DEF Places
        <5>9. p[k].svc = d
          BY <4>1, <5>1, <5>7, <5>8 DEF Shape, SamePlace
        <5> QED BY <5>1, <5>6, <5>7, <5>9
      <4> QED BY <3>4, <4>1
    <3> QED BY <3>5, <3>6
  <2> QED BY <2>4, <2>5
<1> QED BY <1>6, <1>7, <1>8 DEF Safe, q, st2

-----------------------------------------------------------------------------
(* A service runs only with what it needs.                                 *)

\* Beside a start that nobody opposes there are no stops, and beside such a stop only stops.
LEMMA Unopposed ==
  ASSUME Types, NEW t \in Threads, NEW op, ~Opposed(t, op), NEW u \in Threads \ {t}, NEW i \in Places(plan[u])
  PROVE  (plan[u][i].op = "stop") = (op = "stop")
<1>1. plan[u] \in Seq(Step)
  BY DEF Types
<1>2. plan[u][i] \in Range(plan[u])
  BY <1>1 DEF Places, Range
<1> QED BY <1>2 DEF Opposed

\* A thread's own call leaves the rest of its plan in shape.
LEMMA ShapeOfCall ==
  ASSUME Types, OnlyToolRestores, \A u \in Threads : Shape(plan[u]), NEW t \in Threads, plan[t] # <<>>,
         plan' = [plan EXCEPT ![t] = Tail(@)] \/ plan' = [plan EXCEPT ![t] = <<>>]
  PROVE  OnlyToolRestores' /\ \A u \in Threads : Shape(plan'[u])
<1>1. plan[t] \in Seq(Step)
  BY DEF Types
<1>2. Shape(Tail(plan[t])) /\ Shape(<<>>)
  BY <1>1, TailShape, EmptyPlan
<1>3. \A u \in Threads : Shape(plan'[u])
  BY <1>2 DEF Types
<1>4. ASSUME NEW u \in Threads \ {"tool"}, NEW i \in Places(plan'[u]) PROVE plan'[u][i].op # "restore"
  <2>1. CASE u # t
    BY <1>4, <2>1 DEF Types, OnlyToolRestores
  <2>2. CASE u = t /\ plan'[t] = Tail(plan[t])
    <3>1. i + 1 \in Places(plan[t]) /\ Tail(plan[t])[i] = plan[t][i + 1]
      BY <1>1, <1>4, <2>2, TailPlaces
    <3> QED BY <2>2, <3>1 DEF OnlyToolRestores
  <2>3. CASE u = t /\ plan'[t] = <<>>
    BY <1>4, <2>3 DEF Places
  <2> QED BY <2>1, <2>2, <2>3 DEF Types
<1> QED BY <1>3, <1>4 DEF OnlyToolRestores

\* The dependencies being what they were, the invariant of the next state.
LEMMA OrderNext ==
  ASSUME Types', deps' = deps, OnlyToolRestores', \A u \in Threads : Shape(plan'[u]),
         ~mixed' => Up(state', died') /\ \A u \in Threads : Safe(plan'[u], state', noted', died')
  PROVE  OrderInv'
BY DEF OrderInv, Up, Safe, Shape, StopsFirst, PlacesGrow, SamePlace, Backwards,
   StopsSafe, StartsSafe, RestoresSafe, Places, Dependents

\* LwSmTableStartEntry succeeds.
LEMMA StartOrder ==
  ASSUME OrderInv, Types', deps' = deps, NEW t \in Threads, StartSucceeds(t)
  PROVE  OrderInv'
<1> DEFINE p == plan[t]
           s == p[1].svc
<1>1. Types /\ Graph /\ p \in Seq(Step) /\ p # <<>> /\ Shape(p) /\ Current(t) = p[1]
  BY TailFacts DEF OrderInv, Types, StartSucceeds, ToStart, Current
<1>2. /\ plan' = [plan EXCEPT ![t] = Tail(@)] /\ noted' = noted /\ died' = died
      /\ state' = [state EXCEPT ![s] = "RUNNING"] /\ mixed' = (mixed \/ Opposed(t, "start"))
      /\ p[1].op = "start" \/ (p[1].op = "restore" /\ p[1].at \in noted)
  BY <1>1 DEF StartSucceeds, Advance, ToStart
<1>3. OnlyToolRestores' /\ \A u \in Threads : Shape(plan'[u])
  BY <1>1, <1>2, ShapeOfCall DEF OrderInv
<1>4. 1 \in Places(p) /\ s \in Services /\ Range(deps[s]) \subseteq Services
  BY <1>1, TailPlaces, PlanServices
<1>5. ASSUME ~mixed' PROVE Up(state', died')
  <2>1. ~mixed /\ Up(state, died) /\ Safe(p, state, noted, died)
    BY <1>2, <1>5 DEF OrderInv
  <2>2. \A d \in Range(deps[s]) : d \in died \/ state[d] = "RUNNING"
    <3>1. 1 .. 1 - 1 = {}
      OBVIOUS
    <3> QED BY <1>2, <1>4, <2>1, <3>1 DEF Safe, StartsSafe, RestoresSafe
  <2>3. \A d \in Services : state[d] = "RUNNING" => state'[d] = "RUNNING"
    BY <1>1, <1>2 DEF Types
  <2>4. \A x \in Services : state'[x] = "RUNNING" => x = s \/ state[x] = "RUNNING"
    BY <1>1, <1>2 DEF Types
  <2>5. \A x \in Services : Range(deps[x]) \subseteq Services
    BY <1>1, DepRange
  <2> QED BY <1>2, <2>1, <2>2, <2>3, <2>4, <2>5 DEF Up
<1>6. ASSUME ~mixed', NEW u \in Threads PROVE Safe(plan'[u], state', noted', died')
  <2>1. ~mixed /\ Safe(plan[u], state, noted, died) /\ ~Opposed(t, "start")
    BY <1>2, <1>6 DEF OrderInv
  <2>2. CASE u = t
    <3>1. Safe(Tail(p), state', noted, died)
      BY <1>1, <1>2, <2>1, <2>2, StartKeepsSafe DEF Types
    <3> QED BY <1>1, <1>2, <2>2, <3>1 DEF Types
  <2>3. CASE u # t
    <3>1. \A i \in Places(plan[u]) : plan[u][i].op # "stop"
      BY <1>1, <2>1, <2>3, Unopposed
    <3>2. \A d \in Services : state[d] = "RUNNING" => state'[d] = "RUNNING"
      BY <1>1, <1>2 DEF Types
    <3>3. plan[u] \in Seq(Step)
      BY <1>1 DEF Types
    <3>4. Safe(plan[u], state', noted, died)
      BY <1>1, <2>1, <3>1, <3>2, <3>3, OthersSafe
    <3> QED BY <1>1, <1>2, <2>3, <3>4 DEF Types
  <2> QED BY <2>2, <2>3
<1> QED BY <1>3, <1>5, <1>6, OrderNext

\* LwSmTableStopEntry succeeds.
LEMMA StopOrder ==
  ASSUME OrderInv, Types', deps' = deps, NEW t \in Threads, StopSucceeds(t)
  PROVE  OrderInv'
<1> DEFINE p == plan[t]
           s == p[1].svc
<1>1. Types /\ Graph /\ p \in Seq(Step) /\ p # <<>> /\ Shape(p) /\ Current(t) = p[1]
  BY TailFacts DEF OrderInv, Types, StopSucceeds, ToStop, Current
<1>2. /\ plan' = [plan EXCEPT ![t] = Tail(@)] /\ noted' = Noted(t) /\ died' = died
      /\ state' = [state EXCEPT ![s] = "STOPPED"] /\ mixed' = (mixed \/ Opposed(t, "stop"))
      /\ p[1].op = "stop"
  BY <1>1 DEF StopSucceeds, Advance, ToStop
<1>3. OnlyToolRestores' /\ \A u \in Threads : Shape(plan'[u])
  BY <1>1, <1>2, ShapeOfCall DEF OrderInv
<1>4. 1 \in Places(p) /\ s \in Services /\ 1 .. 1 - 1 = {}
  BY <1>1, TailPlaces, PlanServices
<1>5. ASSUME ~mixed' PROVE Up(state', died')
  <2>1. ~mixed /\ Up(state, died) /\ Safe(p, state, noted, died)
    BY <1>2, <1>5 DEF OrderInv
  <2>2. \A u \in Dependents(s) : state[u] # "RUNNING"
    BY <1>2, <1>4, <2>1 DEF Safe, StopsSafe
  <2>3. \A x \in Services : state'[x] = "RUNNING" => x # s /\ state[x] = "RUNNING"
    BY <1>1, <1>2 DEF Types
  <2>4. \A x \in Services : x # s => state'[x] = state[x]
    BY <1>1, <1>2 DEF Types
  <2>5. \A x \in Services : Range(deps[x]) \subseteq Services
    BY <1>1, DepRange
  <2>6. \A x \in Services : state'[x] = "RUNNING" => s \notin Range(deps[x])
    BY <2>2, <2>3 DEF Dependents
  <2> QED BY <1>2, <2>1, <2>3, <2>4, <2>5, <2>6 DEF Up
<1>6. ASSUME ~mixed', NEW u \in Threads PROVE Safe(plan'[u], state', noted', died')
  <2>1. ~mixed /\ Up(state, died) /\ Safe(plan[u], state, noted, died) /\ ~Opposed(t, "stop")
    BY <1>2, <1>6 DEF OrderInv
  <2>2. CASE u = t
    <3>1. \/ noted' = (IF state[s] = "RUNNING" THEN noted \cup {p[1].at} ELSE noted)
          \/ noted' = noted /\ \A i \in Places(p) : p[i].op # "restore"
      BY <1>1, <1>2 DEF Noted, OrderInv, OnlyToolRestores
    <3>2. Safe(Tail(p), [state EXCEPT ![s] = "STOPPED"], noted', died)
      BY <1>1, <1>2, <2>1, <2>2, <3>1, StopKeepsSafe DEF Types
    <3> QED BY <1>1, <1>2, <2>2, <3>2 DEF Types
  <2>3. CASE u # t
    <3>1. \A i \in Places(plan[u]) : plan[u][i].op = "stop"
      BY <1>1, <2>1, <2>3, Unopposed
    <3>2. \A d \in Services : state'[d] = "RUNNING" => state[d] = "RUNNING"
      BY <1>1, <1>2 DEF Types
    <3>3. plan[u] \in Seq(Step)
      BY <1>1 DEF Types
    <3>4. Safe(plan[u], state', noted, died)
      BY <1>1, <2>1, <3>1, <3>2, <3>3, OthersSafe
    <3>5. Safe(plan[u], state', noted', died)
      BY <3>1, <3>4 DEF Safe, RestoresSafe
    <3> QED BY <1>1, <1>2, <2>3, <3>5 DEF Types
  <2> QED BY <2>2, <2>3
<1> QED BY <1>3, <1>5, <1>6, OrderNext

\* A start fails: what it leaves behind was not running before.
LEMMA StartFailsOrder ==
  ASSUME OrderInv, Types', deps' = deps, NEW t \in Threads, StartFails(t)
  PROVE  OrderInv'
<1> DEFINE s == Current(t).svc
<1>1. /\ Types /\ Graph /\ plan[t] # <<>> /\ plan' = [plan EXCEPT ![t] = <<>>] /\ noted' = noted /\ died' = died
      /\ state[s] # "RUNNING" /\ state' \in {state, [state EXCEPT ![s] = "DEAD"]} /\ (~mixed' => ~mixed)
  BY DEF OrderInv, Types, StartFails, ToStart, Abandon
<1>2. OnlyToolRestores' /\ \A u \in Threads : Shape(plan'[u])
  BY <1>1, ShapeOfCall DEF OrderInv
<1>3. \A d \in Services : state'[d] = "RUNNING" <=> state[d] = "RUNNING"
  BY <1>1 DEF Types
<1>4. \A x \in Services : Range(deps[x]) \subseteq Services
  BY <1>1, DepRange
<1>5. ASSUME ~mixed' PROVE Up(state', died')
  BY <1>1, <1>3, <1>4, <1>5 DEF OrderInv, Up
<1>6. ASSUME ~mixed', NEW u \in Threads PROVE Safe(plan'[u], state', noted', died')
  <2>1. plan[u] \in Seq(Step) /\ Safe(plan[u], state, noted, died)
    BY <1>1, <1>6 DEF OrderInv, Types
  <2>2. Safe(plan[u], state', noted, died)
    BY <1>1, <1>3, <2>1, OthersSafe
  <2>3. Safe(<<>>, state', noted, died)
    BY EmptyPlan
  <2> QED BY <1>1, <2>2, <2>3 DEF Types
<1> QED BY <1>2, <1>5, <1>6, OrderNext

\* A stop fails: nobody that needs the service is running by then.
LEMMA StopFailsOrder ==
  ASSUME OrderInv, Types', deps' = deps, NEW t \in Threads, StopFails(t)
  PROVE  OrderInv'
<1> DEFINE p == plan[t]
           s == p[1].svc
<1>1. Types /\ Graph /\ p \in Seq(Step) /\ p # <<>> /\ Shape(p) /\ Current(t) = p[1]
  BY TailFacts DEF OrderInv, Types, StopFails, ToStop, Current
<1>2. /\ plan' = [plan EXCEPT ![t] = <<>>] /\ noted' = noted /\ died' = died
      /\ state' \in {state, [state EXCEPT ![s] = "DEAD"]} /\ mixed' = (mixed \/ Opposed(t, "stop"))
      /\ p[1].op = "stop"
  BY <1>1 DEF StopFails, Abandon, ToStop
<1>3. OnlyToolRestores' /\ \A u \in Threads : Shape(plan'[u])
  BY <1>1, <1>2, ShapeOfCall DEF OrderInv
<1>4. 1 \in Places(p) /\ s \in Services /\ 1 .. 1 - 1 = {}
  BY <1>1, TailPlaces, PlanServices
<1>5. ASSUME ~mixed' PROVE Up(state', died')
  <2>1. ~mixed /\ Up(state, died) /\ Safe(p, state, noted, died)
    BY <1>2, <1>5 DEF OrderInv
  <2>2. \A u \in Dependents(s) : state[u] # "RUNNING"
    BY <1>2, <1>4, <2>1 DEF Safe, StopsSafe
  <2>3. \A x \in Services : state'[x] = "RUNNING" => state[x] = "RUNNING"
    BY <1>1, <1>2 DEF Types
  <2>4. \A x \in Services : x # s => state'[x] = state[x]
    BY <1>1, <1>2 DEF Types
  <2>5. \A x \in Services : Range(deps[x]) \subseteq Services
    BY <1>1, DepRange
  <2>6. \A x \in Services : state'[x] = "RUNNING" => s \notin Range(deps[x])
    BY <2>2, <2>3 DEF Dependents
  <2> QED BY <1>2, <2>1, <2>3, <2>4, <2>5, <2>6 DEF Up
<1>6. ASSUME ~mixed', NEW u \in Threads PROVE Safe(plan'[u], state', noted', died')
  <2>1. ~mixed /\ Safe(plan[u], state, noted, died) /\ ~Opposed(t, "stop")
    BY <1>2, <1>6 DEF OrderInv
  <2>2. CASE u = t
    BY <1>1, <1>2, <2>2, EmptyPlan DEF Types
  <2>3. CASE u # t
    <3>1. \A i \in Places(plan[u]) : plan[u][i].op = "stop"
      BY <1>1, <2>1, <2>3, Unopposed
    <3>2. \A d \in Services : state'[d] = "RUNNING" => state[d] = "RUNNING"
      BY <1>1, <1>2 DEF Types
    <3>3. plan[u] \in Seq(Step)
      BY <1>1 DEF Types
    <3>4. Safe(plan[u], state', noted, died)
      BY <1>1, <2>1, <3>1, <3>2, <3>3, OthersSafe
    <3> QED BY <1>1, <1>2, <2>3, <3>4 DEF Types
  <2> QED BY <2>2, <2>3
<1> QED BY <1>3, <1>5, <1>6, OrderNext

\* LwSmRestart passes over a service that it did not see running.
LEMMA SkipOrder ==
  ASSUME OrderInv, Types', deps' = deps, NEW t \in Threads, RestoreSkipped(t)
  PROVE  OrderInv'
<1> DEFINE p == plan[t]
<1>1. Types /\ Graph /\ p \in Seq(Step) /\ p # <<>> /\ Shape(p) /\ Current(t) = p[1]
  BY TailFacts DEF OrderInv, Types, RestoreSkipped, Current
<1>2. /\ plan' = [plan EXCEPT ![t] = Tail(@)] /\ UNCHANGED <<noted, died, state, mixed>>
      /\ p[1].op = "restore" /\ p[1].at \notin noted
  BY <1>1 DEF RestoreSkipped, Advance, svcVars, historyVars
<1>3. OnlyToolRestores' /\ \A u \in Threads : Shape(plan'[u])
  BY <1>1, <1>2, ShapeOfCall DEF OrderInv
<1>4. ASSUME ~mixed', NEW u \in Threads PROVE Safe(plan'[u], state', noted', died')
  <2>1. Safe(plan[u], state, noted, died)
    BY <1>2, <1>4 DEF OrderInv
  <2>2. CASE u = t
    <3>1. Safe(Tail(p), state, noted, died)
      BY <1>1, <1>2, <2>1, <2>2, StartKeepsSafe DEF Types
    <3> QED BY <1>1, <1>2, <2>2, <3>1 DEF Types
  <2>3. CASE u # t
    BY <1>1, <1>2, <2>1, <2>3 DEF Types
  <2> QED BY <2>2, <2>3
<1>5. ~mixed' => Up(state', died')
  BY <1>2 DEF OrderInv
<1> QED BY <1>3, <1>4, <1>5, OrderNext

\* A service dies by itself.
LEMMA DiesOrder ==
  ASSUME OrderInv, Types', deps' = deps, NEW s \in Services, Dies(s)
  PROVE  OrderInv'
<1>1. /\ Types /\ Graph /\ UNCHANGED <<plan, noted, mixed>> /\ died' = died \cup {s}
      /\ state' = [state EXCEPT ![s] = "DEAD"]
  BY DEF OrderInv, Types, Dies
<1>2. /\ \A d \in Services : state'[d] = "RUNNING" => state[d] = "RUNNING"
      /\ \A d \in Services : state[d] = "RUNNING" => state'[d] = "RUNNING" \/ d \in died'
  BY <1>1 DEF Types
<1>3. OnlyToolRestores' /\ \A u \in Threads : Shape(plan'[u])
  BY <1>1 DEF OrderInv, OnlyToolRestores
<1>4. \A x \in Services : Range(deps[x]) \subseteq Services
  BY <1>1, DepRange
<1>5. ASSUME ~mixed' PROVE Up(state', died')
  BY <1>1, <1>2, <1>4, <1>5 DEF OrderInv, Up
<1>6. ASSUME ~mixed', NEW u \in Threads PROVE Safe(plan'[u], state', noted', died')
  <2>1. plan[u] \in Seq(Step) /\ Safe(plan[u], state, noted, died) /\ died \subseteq died'
    BY <1>1, <1>6 DEF OrderInv, Types
  <2>2. Safe(plan[u], state', noted, died')
    BY <1>1, <1>2, <2>1, OthersSafe
  <2> QED BY <1>1, <2>2
<1> QED BY <1>3, <1>5, <1>6, OrderNext

\* A thread takes up a plan.
LEMMA PlanOrder ==
  ASSUME OrderInv, Types', deps' = deps, NEW t \in Threads, NEW p, plan' = [plan EXCEPT ![t] = p],
         Shape(p), Safe(p, state, noted', died), t # "tool" => noted' = noted,
         t = "tool" \/ \A i \in Places(p) : p[i].op # "restore", UNCHANGED <<state, died, mixed>>
  PROVE  OrderInv'
<1>1. plan'[t] = p /\ \A u \in Threads \ {t} : plan'[u] = plan[u]
  BY DEF OrderInv, Types
<1>2. OnlyToolRestores' /\ \A u \in Threads : Shape(plan'[u])
  BY <1>1 DEF OrderInv, OnlyToolRestores
<1>3. ASSUME ~mixed', NEW u \in Threads \ {t} PROVE Safe(plan[u], state, noted', died)
  <2>1. Safe(plan[u], state, noted, died)
    BY <1>3 DEF OrderInv
  <2>2. CASE t = "tool"
    <3>1. \A i \in Places(plan[u]) : plan[u][i].op # "restore"
      BY <2>2 DEF OrderInv, OnlyToolRestores
    <3> QED BY <2>1, <3>1 DEF Safe, RestoresSafe
  <2> QED BY <2>1, <2>2
<1>4. ASSUME ~mixed', NEW u \in Threads PROVE Safe(plan'[u], state', noted', died')
  BY <1>1, <1>3, <1>4
<1>5. ~mixed' => Up(state', died')
  BY DEF OrderInv
<1> QED BY <1>2, <1>4, <1>5, OrderNext

\* Every step, one by one.
LEMMA OrderStep == ASSUME OrderInv, [Next]_vars PROVE OrderInv'
<1>1. Types /\ Graph /\ Types' /\ deps' = deps
  BY TypesStep, DepsStay DEF OrderInv, Types
<1>2. ASSUME NEW t \in Threads,
             StartSucceeds(t) \/ StartFails(t) \/ RestoreSkipped(t) \/ StopSucceeds(t) \/ StopFails(t)
      PROVE  OrderInv'
  BY <1>1, <1>2, StartOrder, StartFailsOrder, SkipOrder, StopOrder, StopFailsOrder
<1>3. ASSUME NEW s \in Services, Dies(s) PROVE OrderInv'
  BY <1>1, <1>3, DiesOrder
<1>4. ASSUME NEW s \in Services, LwSmTableWatchdog(s) PROVE OrderInv'
  <2>1. /\ plan' = [plan EXCEPT !["watchdog"] = StartPlan(s)] /\ UNCHANGED <<noted, state, died, mixed>>
        /\ "watchdog" \in Threads
    BY <1>4 DEF LwSmTableWatchdog, historyVars, Threads
  <2> DEFINE p == StartPlan(s)
  <2>2. Shape(p) /\ Safe(p, state, noted, died) /\ \A i \in Places(p) : p[i].op # "restore"
    BY <1>1, StartPlanFresh
  <2> HIDE DEF p
  <2>3. plan' = [plan EXCEPT !["watchdog"] = p]
    BY <2>1 DEF p
  <2> QED BY <1>1, <2>1, <2>2, <2>3, PlanOrder
<1>5. ASSUME NEW s \in Services, LwSmStart(s) \/ LwSmStop(s) \/ LwSmRestart(s) PROVE OrderInv'
  <2>1. PICK p \in {StartPlan(s), StopPlan(s), RestartPlan(s)} :
          plan' = [plan EXCEPT !["tool"] = p] /\ noted' = {} /\ UNCHANGED <<state, died, mixed>>
    BY <1>5 DEF LwSmStart, LwSmStop, LwSmRestart, Tool, svcVars, historyVars
  <2>2. Shape(p) /\ Safe(p, state, {}, died)
    BY <1>1, StartPlanFresh, StopPlanFresh, RestartPlanFresh
  <2>3. "tool" \in Threads
    BY DEF Threads
  <2> QED BY <1>1, <2>1, <2>2, <2>3, PlanOrder
<1>6. ASSUME LwSmAutostartServices \/ LwSmShutdownServices \/ WatchdogLooks PROVE OrderInv'
  <2>1. PICK t \in Threads \ {"tool"} :
          Between(t) /\ \E p \in {StartPlan(Head(rest[t])), StopPlan(Head(rest[t])), <<>>} : Take(t, p)
    BY <1>6 DEF LwSmAutostartServices, LwSmShutdownServices, WatchdogLooks, Threads
  <2>2. Head(rest[t]) \in Services
    BY <1>1, <2>1, TailFacts DEF Types, Between
  <2>3. PICK p \in {StartPlan(Head(rest[t])), StopPlan(Head(rest[t])), <<>>} : plan' = [plan EXCEPT ![t] = p]
    BY <2>1 DEF Take
  <2>4. UNCHANGED <<noted, state, died, mixed>>
    BY <1>6 DEF LwSmAutostartServices, LwSmShutdownServices, WatchdogLooks, svcVars, historyVars
  <2>5. Places(<<>>) = {}
    BY DEF Places
  <2>6. Shape(p) /\ Safe(p, state, noted, died) /\ \A i \in Places(p) : p[i].op # "restore"
    BY <1>1, <2>2, <2>3, <2>5, StartPlanFresh, StopPlanFresh, EmptyPlan
  <2> QED BY <1>1, <2>1, <2>3, <2>4, <2>6, PlanOrder
<1>7. ASSUME MainTask \/ ShutdownOver \/ WatchdogOver \/ UNCHANGED vars PROVE OrderInv'
  <2>1. UNCHANGED <<plan, noted, state, died, mixed>>
    BY <1>7 DEF MainTask, ShutdownOver, WatchdogOver, vars, svcVars, historyVars
  <2> QED BY <1>1, <2>1, OrderNext DEF OrderInv, OnlyToolRestores
<1> QED BY <1>2, <1>3, <1>4, <1>5, <1>6, <1>7 DEF Next

\* In every graph, whatever fails half-way, is shut down or restarted: a service does not
\* run without what it needs, unless that died or two threads worked against each other.
THEOREM OrderRight == Spec => []UpNeedsDeps
<1>1. Init => OrderInv
  <2> SUFFICES ASSUME Init PROVE OrderInv
    OBVIOUS
  <2>1. Types
    BY TypesInit
  <2>2. \A t \in Threads : plan[t] = <<>>
    BY DEF Init
  <2>3. OnlyToolRestores /\ \A t \in Threads : Shape(plan[t]) /\ Safe(plan[t], state, noted, died)
    BY <2>2, EmptyPlan DEF OnlyToolRestores, Places
  <2>4. Up(state, died)
    BY DEF Init, Up
  <2> QED BY <2>1, <2>3, <2>4 DEF OrderInv
<1>2. OrderInv /\ [Next]_vars => OrderInv'
  BY OrderStep
<1>3. OrderInv => UpNeedsDeps
  BY DEF OrderInv, Up, UpNeedsDeps
<1> QED BY <1>1, <1>2, <1>3, PTL DEF Spec
=============================================================================
