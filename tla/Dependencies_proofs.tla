------------------------ MODULE Dependencies_proofs ------------------------
(***************************************************************************)
(* The closures of Dependencies, for every number of services and every    *)
(* acyclic graph: that the recursive functions are what their definitions  *)
(* say, and that they list what ClosuresExact asks for.                    *)
(*                                                                         *)
(* The induction is over the numbers and first order throughout:           *)
(*   Least, RunExists, RunUnique   a loop as the one function that obeys   *)
(*                  its step (IsRun), by the least number that does not    *)
(*   RankSome, RankExists   without a cycle the services can be ranked so  *)
(*                  that each stands above what it names (IsRank)          *)
(*   ClosureExists, ReverseExists   so the recursion has a solution, rank  *)
(*                  by rank, and CHOOSE in its definition takes it         *)
(*   ClosureAddsAll, ReverseAddsAll   what a call adds to a list, for all  *)
(*                  services up to a rank                                  *)
(***************************************************************************)
EXTENDS Dependencies, FiniteSetTheorems, WellFoundedInduction, TLAPS

-----------------------------------------------------------------------------
(* Induction and recursion over the numbers, without operators as          *)
(* parameters.                                                             *)

\* A set of numbers has a least one.
LEMMA Least == ASSUME NEW S \in SUBSET Nat, S # {} PROVE \E m \in S : \A k \in S : m <= k
<1>1. PICK m \in S : \A k \in S : ~ (<<k, m>> \in OpToRel(<, Nat))
  BY NatLessThanWellFounded, WFMin
<1>2. \A k \in S : ~(k < m)
  BY <1>1 DEF OpToRel
<1> QED BY <1>2

\* The values of a list after each turn of a loop of m turns.
IsRun(f, m, step, list) ==
  /\ f \in [0 .. m -> Seq(Services)] /\ f[0] = list
  /\ \A i \in 1 .. m : f[i] = step[i][f[i - 1]]

\* Every loop has such values ...
LEMMA RunExists ==
  ASSUME NEW m \in Nat, NEW step \in [1 .. m -> [Seq(Services) -> Seq(Services)]],
         NEW list \in Seq(Services)
  PROVE  \E f : IsRun(f, m, step, list)
<1> DEFINE Bad == {k \in 0 .. m : ~ \E f : IsRun(f, k, step, list)}
<1>1. SUFFICES ASSUME ~ \E f : IsRun(f, m, step, list) PROVE FALSE
  OBVIOUS
<1>2. PICK k \in Bad : \A j \in Bad : k <= j
  <2>1. Bad \in SUBSET Nat /\ m \in Bad
    BY <1>1
  <2> HIDE DEF Bad
  <2> QED BY <2>1, Least
<1>3. k \in 0 .. m /\ k # 0
  <2>1. IsRun([i \in 0 .. 0 |-> list], 0, step, list)
    BY DEF IsRun
  <2> QED BY <1>2, <2>1
<1>4. k - 1 \in 0 .. m /\ k \in 1 .. m /\ k - 1 \notin Bad
  <2> HIDE DEF Bad
  <2> QED BY <1>2, <1>3
<1>5. PICK f : IsRun(f, k - 1, step, list)
  BY <1>4
<1> DEFINE g == [i \in 0 .. k |-> IF i = k THEN step[k][f[k - 1]] ELSE f[i]]
<1>6. f[k - 1] \in Seq(Services) /\ step[k][f[k - 1]] \in Seq(Services)
  BY <1>4, <1>5 DEF IsRun
<1>7. g \in [0 .. k -> Seq(Services)] /\ g[0] = list
  BY <1>4, <1>5, <1>6 DEF IsRun
<1>8. ASSUME NEW i \in 1 .. k PROVE g[i] = step[i][g[i - 1]]
  BY <1>4, <1>5 DEF IsRun
<1>9. IsRun(g, k, step, list)
  BY <1>7, <1>8 DEF IsRun
<1> QED BY <1>2, <1>9

\* ... and only one.
LEMMA RunUnique ==
  ASSUME NEW m \in Nat, NEW step, NEW list, NEW f, NEW g,
         IsRun(f, m, step, list), IsRun(g, m, step, list), NEW i \in 0 .. m
  PROVE  f[i] = g[i]
<1> DEFINE Bad == {k \in 0 .. m : f[k] # g[k]}
<1>1. SUFFICES ASSUME Bad # {} PROVE FALSE
  OBVIOUS
<1>2. PICK k \in Bad : \A j \in Bad : k <= j
  <2>1. Bad \in SUBSET Nat
    OBVIOUS
  <2> QED BY <1>1, <2>1, Least
<1>3. k \in 1 .. m /\ k - 1 \in 0 .. m /\ k - 1 \notin Bad
  BY <1>2 DEF IsRun
<1>4. f[k - 1] = g[k - 1]
  BY <1>3
<1> QED BY <1>2, <1>3, <1>4 DEF IsRun

\* What goes by the step of the loop wherever it is a list, is a list everywhere.
LEMMA RunByStep ==
  ASSUME NEW m \in Nat, NEW step \in [1 .. m -> [Seq(Services) -> Seq(Services)]],
         NEW list \in Seq(Services), NEW f,
         f = [i \in 0 .. m |-> f[i]], f[0] = list,
         \A i \in 1 .. m : f[i - 1] \in Seq(Services) => f[i] = step[i][f[i - 1]]
  PROVE  IsRun(f, m, step, list)
<1> DEFINE Bad == {k \in 0 .. m : f[k] \notin Seq(Services)}
<1>1. Bad = {}
  <2>1. SUFFICES ASSUME Bad # {} PROVE FALSE
    OBVIOUS
  <2>2. PICK k \in Bad : \A j \in Bad : k <= j
    <3>1. Bad \in SUBSET Nat
      OBVIOUS
    <3> HIDE DEF Bad
    <3> QED BY <2>1, <3>1, Least
  <2>3. k \in 1 .. m /\ k - 1 \in 0 .. m /\ f[k - 1] \in Seq(Services)
    BY <2>2
  <2>4. f[k] = step[k][f[k - 1]] /\ step[k] \in [Seq(Services) -> Seq(Services)]
    BY <2>3
  <2> QED BY <2>2, <2>3, <2>4
<1>2. \A i \in 0 .. m : f[i] \in Seq(Services)
  BY <1>1
<1>3. f \in [0 .. m -> Seq(Services)]
  BY <1>2
<1>4. \A i \in 1 .. m : f[i - 1] \in Seq(Services)
  BY <1>2
<1> QED BY <1>3, <1>4 DEF IsRun

-----------------------------------------------------------------------------
(* The loops of the two helpers, and the functions that they define.       *)

\* What the registry gives: lists of names, and no cycle.
Typed == deps \in [Services -> Seq(Services)]

ClosureStep(below, s) ==
  [i \in 1 .. Len(deps[s]) |->
     [list \in Seq(Services) |-> AppendOnce(below[deps[s][i]][list], deps[s][i])]]

\* A list stays a list.
LEMMA AppendOnceType ==
  ASSUME NEW list \in Seq(Services), NEW d \in Services PROVE AppendOnce(list, d) \in Seq(Services)
  BY DEF AppendOnce

\* The loop of the closure helper is such a loop.
LEMMA ClosureLoopRun ==
  ASSUME Typed, NEW s \in Services, NEW list \in Seq(Services), NEW below,
         \A d \in Range(deps[s]) : below[d] \in [Seq(Services) -> Seq(Services)]
  PROVE  \E f : /\ IsRun(f, Len(deps[s]), ClosureStep(below, s), list)
                /\ ClosureLoop(below, s, list) = f[Len(deps[s])]
<1> DEFINE m == Len(deps[s])
           step == ClosureStep(below, s)
           Q(f) == f = [i \in 0 .. m |->
                         IF i = 0 THEN list
                         ELSE AppendOnce(below[deps[s][i]][f[i - 1]], deps[s][i])]
           after == CHOOSE f : Q(f)
<1>1. ClosureLoop(below, s, list) = after[m]
  BY DEF ClosureLoop
<1>2. m \in Nat /\ \A i \in 1 .. m : deps[s][i] \in Services /\ deps[s][i] \in Range(deps[s])
  BY DEF Typed, Range
<1>3. \A i \in 1 .. m : \A l \in Seq(Services) :
        /\ step[i][l] = AppendOnce(below[deps[s][i]][l], deps[s][i])
        /\ AppendOnce(below[deps[s][i]][l], deps[s][i]) \in Seq(Services)
  BY <1>2, AppendOnceType DEF ClosureStep
<1>4. step \in [1 .. m -> [Seq(Services) -> Seq(Services)]]
  BY <1>2, AppendOnceType DEF ClosureStep
<1> HIDE DEF m, step
<1>5. PICK f : IsRun(f, m, step, list)
  BY <1>2, <1>4, RunExists
<1>6. Q(f)
  <2>1. ASSUME NEW i \in 1 .. m
        PROVE  f[i] = AppendOnce(below[deps[s][i]][f[i - 1]], deps[s][i])
    <3>1. i - 1 \in 0 .. m /\ f[i - 1] \in Seq(Services)
      BY <1>2, <1>5 DEF IsRun
    <3> QED BY <1>3, <1>5, <3>1 DEF IsRun
  <2>2. ASSUME NEW i \in 0 .. m
        PROVE  f[i] = IF i = 0 THEN list ELSE AppendOnce(below[deps[s][i]][f[i - 1]], deps[s][i])
    <3>1. i = 0 \/ i \in 1 .. m
      BY <1>2
    <3> QED BY <1>5, <2>1, <3>1 DEF IsRun
  <2>3. f = [i \in 0 .. m |-> f[i]]
    BY <1>5 DEF IsRun
  <2> QED BY <2>2, <2>3
<1>7. Q(after)
  <2> HIDE DEF Q
  <2> QED BY <1>6
<1> HIDE DEF after
<1>8. ASSUME NEW i \in 1 .. m, after[i - 1] \in Seq(Services) PROVE after[i] = step[i][after[i - 1]]
  <2>1. i \in 0 .. m /\ i # 0
    BY <1>2
  <2>2. after[i] = AppendOnce(below[deps[s][i]][after[i - 1]], deps[s][i])
    BY <1>7, <2>1
  <2> QED BY <1>3, <1>8, <2>2
<1>9. after = [i \in 0 .. m |-> after[i]] /\ after[0] = list
  BY <1>2, <1>7
<1>10. IsRun(after, m, step, list)
  BY <1>2, <1>4, <1>8, <1>9, RunByStep
<1> QED BY <1>1, <1>10 DEF m, step

ReverseStep(above, s) ==
  [i \in 1 .. N |->
     [list \in Seq(Services) |-> IF s \in Range(deps[i]) THEN Append(above[i][list], i) ELSE list]]

Dependents(s) == {t \in Services : s \in Range(deps[t])}

\* The loop of the reverse helper is one too.
LEMMA ReverseLoopRun ==
  ASSUME Typed, NEW s \in Services, NEW list \in Seq(Services), NEW above,
         \A t \in Dependents(s) : above[t] \in [Seq(Services) -> Seq(Services)]
  PROVE  \E f : /\ IsRun(f, N, ReverseStep(above, s), list)
                /\ ReverseLoop(above, s, list) = f[N]
<1> DEFINE step == ReverseStep(above, s)
           Q(f) == f = [i \in 0 .. N |->
                         IF i = 0 THEN list
                         ELSE IF s \in Range(deps[i]) THEN Append(above[i][f[i - 1]], i) ELSE f[i - 1]]
           after == CHOOSE f : Q(f)
<1>1. ReverseLoop(above, s, list) = after[N]
  BY DEF ReverseLoop
<1>2. N \in Nat /\ Services = 1 .. N
  BY DependenciesConstants DEF Services
<1>3. ASSUME NEW i \in 1 .. N, NEW l \in Seq(Services)
      PROVE  /\ step[i][l] = IF s \in Range(deps[i]) THEN Append(above[i][l], i) ELSE l
             /\ step[i][l] \in Seq(Services)
  <2>1. step[i][l] = IF s \in Range(deps[i]) THEN Append(above[i][l], i) ELSE l
    BY DEF ReverseStep
  <2>2. s \in Range(deps[i]) => above[i][l] \in Seq(Services) /\ i \in Services
    BY <1>2 DEF Dependents
  <2> QED BY <2>1, <2>2
<1>4. step \in [1 .. N -> [Seq(Services) -> Seq(Services)]]
  <2>1. ASSUME NEW i \in 1 .. N PROVE step[i] \in [Seq(Services) -> Seq(Services)]
    BY <1>3 DEF ReverseStep
  <2> QED BY <2>1 DEF ReverseStep
<1> HIDE DEF step
<1>5. PICK f : IsRun(f, N, step, list)
  BY <1>2, <1>4, RunExists
<1>6. Q(f)
  <2>1. ASSUME NEW i \in 1 .. N
        PROVE  f[i] = IF s \in Range(deps[i]) THEN Append(above[i][f[i - 1]], i) ELSE f[i - 1]
    <3>1. i - 1 \in 0 .. N
      BY <1>2
    <3>2. f[i - 1] \in Seq(Services)
      BY <1>5, <3>1 DEF IsRun
    <3> QED BY <1>3, <1>5, <3>2 DEF IsRun
  <2>2. ASSUME NEW i \in 0 .. N
        PROVE  f[i] = IF i = 0 THEN list
                      ELSE IF s \in Range(deps[i]) THEN Append(above[i][f[i - 1]], i) ELSE f[i - 1]
    <3>1. i = 0 \/ i \in 1 .. N
      BY <1>2
    <3> QED BY <1>5, <2>1, <3>1 DEF IsRun
  <2>3. f = [i \in 0 .. N |-> f[i]]
    BY <1>5 DEF IsRun
  <2> QED BY <2>2, <2>3
<1>7. Q(after)
  <2> HIDE DEF Q
  <2> QED BY <1>6
<1> HIDE DEF after
<1>8. ASSUME NEW i \in 1 .. N, after[i - 1] \in Seq(Services) PROVE after[i] = step[i][after[i - 1]]
  <2>1. i \in 0 .. N /\ i # 0
    BY <1>2
  <2>2. after[i] = IF s \in Range(deps[i]) THEN Append(above[i][after[i - 1]], i) ELSE after[i - 1]
    BY <1>7, <2>1
  <2> QED BY <1>3, <1>8, <2>2
<1>9. after = [i \in 0 .. N |-> after[i]] /\ after[0] = list
  BY <1>2, <1>7
<1>10. IsRun(after, N, step, list)
  BY <1>2, <1>4, <1>8, <1>9, RunByStep
<1> QED BY <1>1, <1>10 DEF step

-----------------------------------------------------------------------------
(* Where there is no cycle, the services have ranks.                       *)

\* A service has a higher rank than what it needs.
IsRank(r, T, n) ==
  /\ T \in SUBSET Services /\ r \in [T -> 0 .. n]
  /\ \A t \in T : Range(deps[t]) \subseteq T /\ \A d \in Range(deps[t]) : r[d] < r[t]

\* Without a cycle, n services have ranks below n, or all have.
LEMMA RankSome ==
  ASSUME Typed, Acyclic(deps), NEW n \in Nat
  PROVE  \E T, r : IsRank(r, T, n) /\ (T = Services \/ Cardinality(T) >= n)
                   /\ \A t \in T : r[t] < n
<1> DEFINE Good(k) == \E T, r : IsRank(r, T, k) /\ (T = Services \/ Cardinality(T) >= k)
                                /\ \A t \in T : r[t] < k
           Bad == {k \in Nat : ~Good(k)}
<1>1. SUFFICES ASSUME ~Good(n) PROVE FALSE
  OBVIOUS
<1>2. Bad \in SUBSET Nat /\ n \in Bad
  BY <1>1
<1>3. PICK k \in Bad : \A j \in Bad : k <= j
  <2> HIDE DEF Bad
  <2> QED BY <1>2, Least
<1>4. k # 0
  <2>1. IsRank([t \in {} |-> 0], {}, 0) /\ Cardinality({}) = 0
    BY FS_EmptySet DEF IsRank
  <2>2. Good(0)
    <3> WITNESS {}, [t \in {} |-> 0]
    <3> QED BY <2>1
  <2> HIDE DEF Good
  <2> QED BY <1>3, <2>2
<1>5. k - 1 \in Nat /\ Good(k - 1)
  <2> HIDE DEF Good
  <2> QED BY <1>3, <1>4
<1>6. PICK T, r : IsRank(r, T, k - 1) /\ (T = Services \/ Cardinality(T) >= k - 1)
                  /\ \A t \in T : r[t] < k - 1
  BY <1>5
<1>7. CASE T = Services
  <2>1. IsRank(r, T, k) /\ \A t \in T : r[t] < k
    BY <1>5, <1>6 DEF IsRank
  <2> QED BY <1>3, <1>7, <2>1
<1>8. CASE T # Services
  <2>1. Services \ T \in (SUBSET Services) \ {{}}
    BY <1>6, <1>8 DEF IsRank
  <2>2. PICK t \in Services \ T : Range(deps[t]) \cap (Services \ T) = {}
    BY <2>1 DEF Acyclic
  <2>3. Range(deps[t]) \subseteq T
    BY <2>2 DEF Typed, Range
  <2> DEFINE U == T \cup {t}
             q == [u \in U |-> IF u = t THEN k - 1 ELSE r[u]]
  <2>4. IsRank(q, U, k)
    BY <1>5, <1>6, <2>2, <2>3 DEF IsRank
  <2>5. \A u \in U : q[u] < k
    BY <1>5, <1>6, <2>2 DEF IsRank
  <2>6. Cardinality(U) >= k
    <3>1. IsFiniteSet(T)
      <4>1. IsFiniteSet(Services) /\ T \in SUBSET Services
        BY <1>6, FS_Interval, DependenciesConstants DEF IsRank, Services
      <4> QED BY <4>1, FS_Subset
    <3>2. Cardinality(U) = Cardinality(T) + 1 /\ Cardinality(T) \in Nat
      BY <2>2, <3>1, FS_AddElement, FS_CardinalityType
    <3> QED BY <1>5, <1>6, <1>8, <3>2
  <2> HIDE DEF U, q
  <2>7. Good(k)
    BY <2>4, <2>5, <2>6
  <2> HIDE DEF Good
  <2> QED BY <1>3, <2>7
<1> QED BY <1>7, <1>8

\* Without a cycle, all services have ranks.
LEMMA RankExists == ASSUME Typed, Acyclic(deps) PROVE \E r : IsRank(r, Services, N)
<1>1. N \in Nat /\ IsFiniteSet(Services) /\ Cardinality(Services) = N
  BY DependenciesConstants, FS_Interval DEF Services
<1>2. PICK T, r : IsRank(r, T, N) /\ (T = Services \/ Cardinality(T) >= N)
  BY <1>1, RankSome
<1>3. T = Services
  <2>1. T \in SUBSET Services
    BY <1>2 DEF IsRank
  <2>2. IsFiniteSet(T) /\ Cardinality(T) <= N /\ (Cardinality(T) = N => T = Services)
    BY <1>1, <2>1, FS_Subset
  <2> QED BY <1>1, <1>2, <2>2, FS_CardinalityType
<1> QED BY <1>2, <1>3

-----------------------------------------------------------------------------
(* The two helpers are what their recursive definitions say.               *)

Lists == [Seq(Services) -> Seq(Services)]

\* The loop only uses the recursive calls that it makes.
LEMMA ClosureLoopLocal ==
  ASSUME Typed, NEW s \in Services, NEW list \in Seq(Services), NEW g, NEW h,
         \A d \in Range(deps[s]) : g[d] \in Lists /\ g[d] = h[d]
  PROVE  ClosureLoop(g, s, list) = ClosureLoop(h, s, list) /\ ClosureLoop(g, s, list) \in Seq(Services)
<1>1. Len(deps[s]) \in Nat /\ \A i \in 1 .. Len(deps[s]) : deps[s][i] \in Range(deps[s])
  BY DEF Typed, Range
<1>2. ClosureStep(g, s) = ClosureStep(h, s)
  BY <1>1 DEF ClosureStep
<1>3. PICK e : /\ IsRun(e, Len(deps[s]), ClosureStep(g, s), list)
               /\ ClosureLoop(g, s, list) = e[Len(deps[s])]
  BY ClosureLoopRun DEF Lists
<1>4. PICK f : /\ IsRun(f, Len(deps[s]), ClosureStep(h, s), list)
               /\ ClosureLoop(h, s, list) = f[Len(deps[s])]
  BY ClosureLoopRun DEF Lists
<1>5. e[Len(deps[s])] = f[Len(deps[s])]
  BY <1>1, <1>2, <1>3, <1>4, RunUnique
<1> QED BY <1>1, <1>3, <1>4, <1>5 DEF IsRun

\* There is a function that calls itself as the closure helper does.
LEMMA ClosureExists ==
  ASSUME Typed, Acyclic(deps)
  PROVE  \E h : h = [s \in Services |-> [list \in Seq(Services) |-> ClosureLoop(h, s, list)]]
<1>1. PICK r : IsRank(r, Services, N)
  BY RankExists
<1>2. N \in Nat /\ r \in [Services -> Nat] /\ \A s \in Services : r[s] < N + 1
  BY <1>1, DependenciesConstants DEF IsRank
<1> DEFINE Upto(h, k) == /\ h \in [Services -> Lists]
                         /\ \A s \in Services : r[s] < k =>
                              h[s] = [list \in Seq(Services) |-> ClosureLoop(h, s, list)]
           Bad == {k \in Nat : ~ \E h : Upto(h, k)}
<1>3. \E h : Upto(h, N + 1)
  <2>1. SUFFICES ASSUME ~ \E h : Upto(h, N + 1) PROVE FALSE
    OBVIOUS
  <2>2. Bad \in SUBSET Nat /\ N + 1 \in Bad
    BY <1>2, <2>1
  <2>3. PICK k \in Bad : \A j \in Bad : k <= j
    <3> HIDE DEF Bad
    <3> QED BY <2>2, Least
  <2>4. k # 0
    <3>1. Upto([s \in Services |-> [list \in Seq(Services) |-> list]], 0)
      BY <1>2 DEF Lists
    <3> HIDE DEF Upto
    <3> QED BY <2>3, <3>1
  <2>5. k - 1 \in Nat /\ \E h : Upto(h, k - 1)
    <3> HIDE DEF Upto
    <3> QED BY <2>3, <2>4
  <2>6. PICK h : Upto(h, k - 1)
    BY <2>5
  <2> DEFINE g == [s \in Services |-> IF r[s] < k
                                        THEN [list \in Seq(Services) |-> ClosureLoop(h, s, list)]
                                        ELSE h[s]]
  <2>7. ASSUME NEW s \in Services, r[s] < k, NEW d \in Range(deps[s])
        PROVE  d \in Services /\ r[d] < k - 1 /\ r[d] < k /\ h[d] \in Lists
    BY <1>1, <1>2, <2>5, <2>6, <2>7 DEF IsRank
  <2>8. ASSUME NEW s \in Services, r[s] < k - 1, r[s] < k PROVE g[s] = h[s] 
    BY <2>6, <2>8
  <2>9. ASSUME NEW s \in Services, r[s] < k, NEW list \in Seq(Services)
        PROVE  ClosureLoop(h, s, list) = ClosureLoop(g, s, list) /\ ClosureLoop(h, s, list) \in Seq(Services)
    <3>1. \A d \in Range(deps[s]) : h[d] \in Lists /\ h[d] = g[d]
      BY <2>7, <2>8, <2>9
    <3> HIDE DEF g
    <3> QED BY <3>1, ClosureLoopLocal
  <2>10. g \in [Services -> Lists]
    BY <2>6, <2>9 DEF Lists
  <2>11. ASSUME NEW s \in Services, r[s] < k
         PROVE  g[s] = [list \in Seq(Services) |-> ClosureLoop(g, s, list)]
    <3>1. g[s] = [list \in Seq(Services) |-> ClosureLoop(h, s, list)]
      BY <2>11
    <3> HIDE DEF g
    <3> QED BY <2>9, <2>11, <3>1
  <2> HIDE DEF g
  <2>12. Upto(g, k)
    BY <2>10, <2>11
  <2> HIDE DEF Upto
  <2> QED BY <2>3, <2>12
<1>4. PICK h : Upto(h, N + 1)
  BY <1>3
<1>5. h = [s \in Services |-> [list \in Seq(Services) |-> ClosureLoop(h, s, list)]]
  <2>1. h = [s \in Services |-> h[s]]
    BY <1>4
  <2>2. \A s \in Services : h[s] = [list \in Seq(Services) |-> ClosureLoop(h, s, list)]
    BY <1>2, <1>4
  <2> QED BY <2>1, <2>2
<1> QED BY <1>5

\* So the helper's result for a list is the loop's, and is a list.
LEMMA ClosureHelperDef ==
  ASSUME Typed, Acyclic(deps)
  PROVE  \A s \in Services : /\ ClosureHelper[s] \in Lists
                             /\ \A list \in Seq(Services) :
                                  ClosureHelper[s][list] = ClosureLoop(ClosureHelper, s, list)
<1> DEFINE Q(h) == h = [s \in Services |-> [list \in Seq(Services) |-> ClosureLoop(h, s, list)]]
<1>1. ClosureHelper = CHOOSE h : Q(h)
  BY DEF ClosureHelper
<1>2. \E h : Q(h)
  BY ClosureExists
<1>3. Q(ClosureHelper)
  <2> HIDE DEF Q
  <2> QED BY <1>1, <1>2
<1>4. \A s \in Services :
        ClosureHelper[s] = [list \in Seq(Services) |-> ClosureLoop(ClosureHelper, s, list)]
  BY <1>3
<1>5. PICK r : IsRank(r, Services, N)
  BY RankExists
<1>6. r \in [Services -> Nat]
  BY <1>5, DependenciesConstants DEF IsRank
<1> DEFINE Bad == {s \in Services : ClosureHelper[s] \notin Lists}
<1>7. Bad = {}
  <2>1. SUFFICES ASSUME Bad # {} PROVE FALSE
    OBVIOUS
  <2>2. PICK k \in {r[s] : s \in Bad} : \A j \in {r[s] : s \in Bad} : k <= j
    <3>1. {r[s] : s \in Bad} \in SUBSET Nat /\ {r[s] : s \in Bad} # {}
      BY <1>6, <2>1
    <3> QED BY <3>1, Least
  <2>3. PICK s \in Bad : r[s] = k
    BY <2>2
  <2>4. \A d \in Range(deps[s]) : ClosureHelper[d] \in Lists
    BY <1>5, <1>6, <2>2, <2>3 DEF IsRank
  <2>5. \A list \in Seq(Services) : ClosureLoop(ClosureHelper, s, list) \in Seq(Services)
    BY <2>3, <2>4, ClosureLoopLocal
  <2> QED BY <1>4, <2>3, <2>5 DEF Lists
<1> QED BY <1>4, <1>7

\* The same for the reverse helper, with the ranks upside down.
LEMMA ReverseRank ==
  ASSUME Typed, Acyclic(deps)
  PROVE  \E q \in [Services -> 0 .. N] : \A s \in Services : \A t \in Dependents(s) : q[t] < q[s]
<1>1. PICK r : IsRank(r, Services, N)
  BY RankExists
<1> DEFINE q == [s \in Services |-> N - r[s]]
<1>2. N \in Nat /\ r \in [Services -> 0 .. N]
  BY <1>1, DependenciesConstants DEF IsRank
<1>3. q \in [Services -> 0 .. N]
  BY <1>2
<1>4. \A s \in Services : \A t \in Dependents(s) : q[t] < q[s]
  BY <1>1, <1>2 DEF IsRank, Dependents
<1> QED BY <1>3, <1>4

\* The loop only uses the recursive calls that it makes.
LEMMA ReverseLoopLocal ==
  ASSUME Typed, NEW s \in Services, NEW list \in Seq(Services), NEW g, NEW h,
         \A t \in Dependents(s) : g[t] \in Lists /\ g[t] = h[t]
  PROVE  ReverseLoop(g, s, list) = ReverseLoop(h, s, list) /\ ReverseLoop(g, s, list) \in Seq(Services)
<1>1. N \in Nat /\ \A i \in 1 .. N : s \in Range(deps[i]) => i \in Dependents(s)
  BY DependenciesConstants DEF Dependents, Services
<1>2. ReverseStep(g, s) = ReverseStep(h, s)
  BY <1>1 DEF ReverseStep
<1>3. PICK e : IsRun(e, N, ReverseStep(g, s), list) /\ ReverseLoop(g, s, list) = e[N]
  BY ReverseLoopRun DEF Lists
<1>4. PICK f : IsRun(f, N, ReverseStep(h, s), list) /\ ReverseLoop(h, s, list) = f[N]
  BY ReverseLoopRun DEF Lists
<1>5. e[N] = f[N]
  BY <1>1, <1>2, <1>3, <1>4, RunUnique
<1> QED BY <1>1, <1>3, <1>4, <1>5 DEF IsRun

\* There is a function that calls itself as the reverse helper does.
LEMMA ReverseExists ==
  ASSUME Typed, Acyclic(deps)
  PROVE  \E h : h = [s \in Services |-> [list \in Seq(Services) |-> ReverseLoop(h, s, list)]]
<1>1. PICK q \in [Services -> 0 .. N] : \A s \in Services : \A t \in Dependents(s) : q[t] < q[s]
  BY ReverseRank
<1>2. N \in Nat /\ q \in [Services -> Nat] /\ \A s \in Services : q[s] < N + 1
  BY <1>1, DependenciesConstants
<1> DEFINE Upto(h, k) == /\ h \in [Services -> Lists]
                         /\ \A s \in Services : q[s] < k =>
                              h[s] = [list \in Seq(Services) |-> ReverseLoop(h, s, list)]
           Bad == {k \in Nat : ~ \E h : Upto(h, k)}
<1>3. \E h : Upto(h, N + 1)
  <2>1. SUFFICES ASSUME ~ \E h : Upto(h, N + 1) PROVE FALSE
    OBVIOUS
  <2>2. Bad \in SUBSET Nat /\ N + 1 \in Bad
    BY <1>2, <2>1
  <2>3. PICK k \in Bad : \A j \in Bad : k <= j
    <3> HIDE DEF Bad
    <3> QED BY <2>2, Least
  <2>4. k # 0
    <3>1. Upto([s \in Services |-> [list \in Seq(Services) |-> list]], 0)
      BY <1>2 DEF Lists
    <3> HIDE DEF Upto
    <3> QED BY <2>3, <3>1
  <2>5. k - 1 \in Nat /\ \E h : Upto(h, k - 1)
    <3> HIDE DEF Upto
    <3> QED BY <2>3, <2>4
  <2>6. PICK h : Upto(h, k - 1)
    BY <2>5
  <2> DEFINE g == [s \in Services |-> IF q[s] < k
                                        THEN [list \in Seq(Services) |-> ReverseLoop(h, s, list)]
                                        ELSE h[s]]
  <2>7. ASSUME NEW s \in Services, q[s] < k, NEW t \in Dependents(s)
        PROVE  t \in Services /\ q[t] < k - 1 /\ q[t] < k /\ h[t] \in Lists
    <3>1. t \in Services /\ q[t] < q[s]
      BY <1>1, <2>7 DEF Dependents
    <3> QED BY <1>2, <2>5, <2>6, <2>7, <3>1
  <2>8. ASSUME NEW s \in Services, q[s] < k - 1, q[s] < k PROVE g[s] = h[s] 
    BY <2>6, <2>8
  <2>9. ASSUME NEW s \in Services, q[s] < k, NEW list \in Seq(Services)
        PROVE  ReverseLoop(h, s, list) = ReverseLoop(g, s, list) /\ ReverseLoop(h, s, list) \in Seq(Services)
    <3>1. \A t \in Dependents(s) : h[t] \in Lists /\ h[t] = g[t]
      BY <2>7, <2>8, <2>9
    <3> HIDE DEF g, Upto, Bad
    <3> QED BY <3>1, ReverseLoopLocal, Zenon
  <2>10. g \in [Services -> Lists]
    BY <2>6, <2>9 DEF Lists
  <2>11. ASSUME NEW s \in Services, q[s] < k
         PROVE  g[s] = [list \in Seq(Services) |-> ReverseLoop(g, s, list)]
    <3>1. g[s] = [list \in Seq(Services) |-> ReverseLoop(h, s, list)]
      BY <2>11
    <3> HIDE DEF g
    <3> QED BY <2>9, <2>11, <3>1
  <2> HIDE DEF g
  <2>12. Upto(g, k)
    BY <2>10, <2>11
  <2> HIDE DEF Upto
  <2> QED BY <2>3, <2>12
<1>4. PICK h : Upto(h, N + 1)
  BY <1>3
<1>5. h = [s \in Services |-> [list \in Seq(Services) |-> ReverseLoop(h, s, list)]]
  <2>1. h = [s \in Services |-> h[s]]
    BY <1>4
  <2>2. \A s \in Services : h[s] = [list \in Seq(Services) |-> ReverseLoop(h, s, list)]
    BY <1>2, <1>4
  <2> QED BY <2>1, <2>2
<1> QED BY <1>5

\* So the helper's result for a list is the loop's, and is a list.
LEMMA ReverseHelperDef ==
  ASSUME Typed, Acyclic(deps)
  PROVE  \A s \in Services : /\ ReverseHelper[s] \in Lists
                             /\ \A list \in Seq(Services) :
                                  ReverseHelper[s][list] = ReverseLoop(ReverseHelper, s, list)
<1> DEFINE Q(h) == h = [s \in Services |-> [list \in Seq(Services) |-> ReverseLoop(h, s, list)]]
<1>1. ReverseHelper = CHOOSE h : Q(h)
  BY DEF ReverseHelper
<1>2. \E h : Q(h)
  BY ReverseExists
<1>3. Q(ReverseHelper)
  <2> HIDE DEF Q
  <2> QED BY <1>1, <1>2
<1>4. \A s \in Services :
        ReverseHelper[s] = [list \in Seq(Services) |-> ReverseLoop(ReverseHelper, s, list)]
  BY <1>3
<1>5. PICK q \in [Services -> 0 .. N] : \A s \in Services : \A t \in Dependents(s) : q[t] < q[s]
  BY ReverseRank
<1>6. q \in [Services -> Nat]
  BY <1>5, DependenciesConstants
<1> DEFINE Bad == {s \in Services : ReverseHelper[s] \notin Lists}
<1>7. Bad = {}
  <2>1. SUFFICES ASSUME Bad # {} PROVE FALSE
    OBVIOUS
  <2>2. PICK k \in {q[s] : s \in Bad} : \A j \in {q[s] : s \in Bad} : k <= j
    <3>1. {q[s] : s \in Bad} \in SUBSET Nat /\ {q[s] : s \in Bad} # {}
      BY <1>6, <2>1
    <3> QED BY <3>1, Least
  <2>3. PICK s \in Bad : q[s] = k
    BY <2>2
  <2>4. \A t \in Dependents(s) : ReverseHelper[t] \in Lists
    <3>1. \A t \in Dependents(s) : t \in Services /\ q[t] < k
      BY <1>5, <2>3 DEF Dependents
    <3> QED BY <1>6, <2>2, <2>3, <3>1
  <2>5. \A list \in Seq(Services) : ReverseLoop(ReverseHelper, s, list) \in Seq(Services)
    BY <2>3, <2>4, ReverseLoopLocal
  <2> QED BY <1>4, <2>3, <2>5 DEF Lists
<1> QED BY <1>4, <1>7

-----------------------------------------------------------------------------
(* What the helpers compute.                                               *)

\* What a service needs is the least set with its dependencies and theirs.
LEMMA NeedsFacts ==
  ASSUME Typed, NEW s \in Services
  PROVE  /\ Needs(s) \subseteq Services /\ Range(deps[s]) \subseteq Needs(s)
         /\ \A t \in Needs(s) : Range(deps[t]) \subseteq Needs(s)
         /\ \A d \in Range(deps[s]) : d \in Services /\ Needs(d) \subseteq Needs(s)
         /\ \A S \in SUBSET Services :
              Range(deps[s]) \subseteq S /\ (\A t \in S : Range(deps[t]) \subseteq S) => Needs(s) \subseteq S
<1>1. \A t \in Services : Range(deps[t]) \subseteq Services
  BY DEF Typed, Range
<1>2. Needs(s) \subseteq Services /\ Range(deps[s]) \subseteq Needs(s)
  BY <1>1 DEF Needs
<1>3. \A t \in Needs(s) : Range(deps[t]) \subseteq Needs(s)
  BY <1>1 DEF Needs
<1>4. \A d \in Range(deps[s]) : d \in Services /\ Needs(d) \subseteq Needs(s)
  BY <1>1 DEF Needs
<1>5. \A S \in SUBSET Services :
        Range(deps[s]) \subseteq S /\ (\A t \in S : Range(deps[t]) \subseteq S) => Needs(s) \subseteq S
  BY DEF Needs
<1> QED BY <1>2, <1>3, <1>4, <1>5

\* A list that names nothing twice, and everything after what it needs.
Ordered(list) ==
  /\ IsInjective(list)
  /\ \A i \in DOMAIN list : \A d \in Range(deps[list[i]]) : \E j \in 1 .. i - 1 : list[j] = d

\* Adding a service whose dependencies are there keeps it so.
LEMMA AppendOnceOrdered ==
  ASSUME NEW list \in Seq(Services), NEW d \in Services, Ordered(list),
         Range(deps[d]) \subseteq Range(list)
  PROVE  Ordered(AppendOnce(list, d)) /\ Range(AppendOnce(list, d)) = Range(list) \cup {d}
<1>1. CASE d \in Range(list)
  BY <1>1 DEF AppendOnce
<1>2. CASE d \notin Range(list)
  <2> DEFINE b == Append(list, d)
             n == Len(list)
  <2>1. /\ b \in Seq(Services) /\ Len(b) = n + 1 /\ b[n + 1] = d /\ n \in Nat
        /\ \A i \in 1 .. n : b[i] = list[i]
    OBVIOUS
  <2>2. DOMAIN b = 1 .. n + 1 /\ DOMAIN list = 1 .. n
    OBVIOUS
  <2> HIDE DEF b, n
  <2>3. Range(b) = Range(list) \cup {d}
    BY <2>1, <2>2 DEF Range
  <2>4. IsInjective(b)
    BY <1>2, <2>1, <2>2 DEF Ordered, IsInjective, Range
  <2>5. ASSUME NEW i \in DOMAIN b, NEW e \in Range(deps[b[i]]) PROVE \E j \in 1 .. i - 1 : b[j] = e
    <3>1. CASE i \in 1 .. n
      <4>1. i \in DOMAIN list /\ e \in Range(deps[list[i]])
        BY <2>1, <2>2, <2>5, <3>1
      <4>2. PICK j \in 1 .. i - 1 : list[j] = e
        BY <4>1 DEF Ordered
      <4>3. j \in 1 .. n
        BY <2>1, <3>1, <4>2
      <4> QED BY <2>1, <4>2, <4>3
    <3>2. CASE i = n + 1
      <4>1. PICK j \in 1 .. n : list[j] = e
        BY <2>1, <2>2, <2>5, <3>2 DEF Range
      <4> QED BY <2>1, <3>2, <4>1
    <3> QED BY <2>1, <2>2, <3>1, <3>2
  <2>6. Ordered(b)
    BY <2>4, <2>5 DEF Ordered
  <2> QED BY <1>2, <2>3, <2>6 DEF AppendOnce, b
<1> QED BY <1>1, <1>2

\* The closure helper adds what a service needs and no more, in order.
ClosureAdds(s) ==
  \A list \in Seq(Services) : Ordered(list) =>
    /\ Ordered(ClosureHelper[s][list]) /\ Range(deps[s]) \subseteq Range(ClosureHelper[s][list])
    /\ Range(list) \subseteq Range(ClosureHelper[s][list])
    /\ Range(ClosureHelper[s][list]) \subseteq Range(list) \cup Needs(s)

\* Each turn of its loop does so, if the recursive calls do.
LEMMA ClosureLoopAdds ==
  ASSUME Typed, Acyclic(deps), NEW s \in Services, \A d \in Range(deps[s]) : ClosureAdds(d)
  PROVE  ClosureAdds(s)
<1> SUFFICES ASSUME NEW list \in Seq(Services), Ordered(list)
             PROVE  /\ Ordered(ClosureHelper[s][list])
                    /\ Range(deps[s]) \subseteq Range(ClosureHelper[s][list])
                    /\ Range(list) \subseteq Range(ClosureHelper[s][list])
                    /\ Range(ClosureHelper[s][list]) \subseteq Range(list) \cup Needs(s)
  BY DEF ClosureAdds
<1> DEFINE m == Len(deps[s])
           step == ClosureStep(ClosureHelper, s)
<1>1. m \in Nat /\ DOMAIN deps[s] = 1 .. m /\ \A i \in 1 .. m : deps[s][i] \in Services
  BY DEF Typed
<1>2. Range(deps[s]) = {deps[s][i] : i \in 1 .. m}
  BY <1>1 DEF Range
<1>3. \A d \in Services : ClosureHelper[d] \in [Seq(Services) -> Seq(Services)]
  BY ClosureHelperDef DEF Lists
<1>4. PICK f : IsRun(f, m, step, list) /\ ClosureLoop(ClosureHelper, s, list) = f[m]
  BY <1>1, <1>2, <1>3, ClosureLoopRun
<1>5. ClosureHelper[s][list] = f[m]
  BY <1>4, ClosureHelperDef
<1>6. \A i \in 1 .. m : \A l \in Seq(Services) :
        step[i][l] = AppendOnce(ClosureHelper[deps[s][i]][l], deps[s][i])
  BY DEF ClosureStep
<1> HIDE DEF m, step
<1> DEFINE Good(i) == /\ Ordered(f[i]) /\ \A j \in 1 .. i : deps[s][j] \in Range(f[i])
                      /\ Range(list) \subseteq Range(f[i])
                      /\ Range(f[i]) \subseteq Range(list) \cup Needs(s)
           Bad == {i \in 0 .. m : ~Good(i)}
<1>7. Bad = {}
  <2>1. SUFFICES ASSUME Bad # {} PROVE FALSE
    OBVIOUS
  <2>2. PICK k \in Bad : \A j \in Bad : k <= j
    <3>1. Bad \in SUBSET Nat
      BY <1>1
    <3> HIDE DEF Bad
    <3> QED BY <2>1, <3>1, Least
  <2>3. k # 0
    <3>1. Good(0)
      BY <1>4 DEF IsRun
    <3> HIDE DEF Good
    <3> QED BY <2>2, <3>1
  <2>4. k \in 1 .. m /\ k - 1 \in 0 .. m /\ Good(k - 1)
    <3>1. k \in 1 .. m /\ k - 1 \in 0 .. m
      BY <1>1, <2>2, <2>3
    <3> HIDE DEF Good
    <3> QED BY <1>1, <2>2, <3>1
  <2> DEFINE d == deps[s][k]
             b == ClosureHelper[d][f[k - 1]]
  <2>5. d \in Services /\ d \in Range(deps[s]) /\ f[k - 1] \in Seq(Services)
    BY <1>1, <1>2, <1>4, <2>4 DEF IsRun
  <2>6. b \in Seq(Services) /\ f[k] = AppendOnce(b, d)
    BY <1>3, <1>4, <1>6, <2>4, <2>5 DEF IsRun
  <2>7. /\ Ordered(b) /\ Range(deps[d]) \subseteq Range(b) /\ Range(f[k - 1]) \subseteq Range(b)
        /\ Range(b) \subseteq Range(f[k - 1]) \cup Needs(d)
    BY <2>4, <2>5 DEF ClosureAdds
  <2>8. Ordered(f[k]) /\ Range(f[k]) = Range(b) \cup {d}
    BY <2>5, <2>6, <2>7, AppendOnceOrdered
  <2>9. d \in Needs(s) /\ Needs(d) \subseteq Needs(s)
    BY <2>5, NeedsFacts
  <2>10. \A j \in 1 .. k : deps[s][j] \in Range(f[k])
    <3>1. \A j \in 1 .. k : j = k \/ j \in 1 .. k - 1
      BY <2>4
    <3> QED BY <2>4, <2>7, <2>8, <3>1
  <2>11. Good(k)
    BY <2>4, <2>7, <2>8, <2>9, <2>10
  <2> HIDE DEF Good
  <2> QED BY <2>2, <2>11
<1>8. Good(m)
  <2> HIDE DEF Good
  <2> QED BY <1>1, <1>7
<1> QED BY <1>2, <1>5, <1>8

\* By the ranks, it does so for every service.
LEMMA ClosureAddsAll == ASSUME Typed, Acyclic(deps) PROVE \A s \in Services : ClosureAdds(s)
<1> DEFINE Bad == {s \in Services : ~ClosureAdds(s)}
<1>1. SUFFICES ASSUME Bad # {} PROVE FALSE
  OBVIOUS
<1>2. Bad \in (SUBSET Services) \ {{}}
  BY <1>1
<1>3. PICK s \in Bad : Range(deps[s]) \cap Bad = {}
  BY <1>2 DEF Acyclic
<1>4. \A d \in Range(deps[s]) : ClosureAdds(d)
  BY <1>3, NeedsFacts
<1> QED BY <1>3, <1>4, ClosureLoopAdds

\* The closure of a service is what it needs, in order.
LEMMA ClosureRight ==
  ASSUME Typed, Acyclic(deps), NEW s \in Services
  PROVE  /\ DependencyClosure(s) \in Seq(Services)
         /\ Range(DependencyClosure(s)) = Needs(s) /\ Ordered(DependencyClosure(s))
<1> DEFINE c == DependencyClosure(s)
<1>1. <<>> \in Seq(Services) /\ Ordered(<<>>) /\ Range(<<>>) = {}
  BY DEF Ordered, IsInjective, Range
<1>2. c \in Seq(Services)
  BY <1>1, ClosureHelperDef DEF DependencyClosure, Lists
<1>3. Ordered(c) /\ Range(deps[s]) \subseteq Range(c) /\ Range(c) \subseteq Needs(s)
  BY <1>1, ClosureAddsAll DEF DependencyClosure, ClosureAdds
<1>4. Range(c) \subseteq Services
  BY <1>2 DEF Range
<1>5. ASSUME NEW t \in Range(c) PROVE Range(deps[t]) \subseteq Range(c)
  <2>1. PICK i \in DOMAIN c : c[i] = t
    BY DEF Range
  <2>2. DOMAIN c = 1 .. Len(c) /\ Len(c) \in Nat
    BY <1>2
  <2> HIDE DEF c
  <2>3. ASSUME NEW d \in Range(deps[t]) PROVE d \in Range(c)
    <3>1. PICK j \in 1 .. i - 1 : c[j] = d
      BY <1>3, <2>1, <2>3 DEF Ordered
    <3>2. j \in DOMAIN c
      BY <2>1, <2>2, <3>1
    <3> QED BY <3>1, <3>2 DEF Range
  <2> QED BY <2>3
<1>6. Needs(s) \subseteq Range(c)
  BY <1>3, <1>4, <1>5, NeedsFacts
<1> QED BY <1>2, <1>3, <1>6

\* A list that names everything after all that needs it.
Preceded(list) ==
  \A i \in DOMAIN list : \A t \in Dependents(list[i]) : \E j \in 1 .. i - 1 : list[j] = t

\* Adding a service that is preceded keeps it so.
LEMMA AppendPreceded ==
  ASSUME NEW list \in Seq(Services), NEW d \in Services, Preceded(list),
         Dependents(d) \subseteq Range(list)
  PROVE  Preceded(Append(list, d)) /\ Range(Append(list, d)) = Range(list) \cup {d}
<1> DEFINE b == Append(list, d)
           n == Len(list)
<1>1. /\ b \in Seq(Services) /\ Len(b) = n + 1 /\ b[n + 1] = d /\ n \in Nat
      /\ \A i \in 1 .. n : b[i] = list[i]
  OBVIOUS
<1>2. DOMAIN b = 1 .. n + 1 /\ DOMAIN list = 1 .. n
  OBVIOUS
<1> HIDE DEF b, n
<1>3. Range(b) = Range(list) \cup {d}
  BY <1>1, <1>2 DEF Range
<1>4. ASSUME NEW i \in DOMAIN b, NEW e \in Dependents(b[i]) PROVE \E j \in 1 .. i - 1 : b[j] = e
  <2>1. CASE i \in 1 .. n
    <3>1. i \in DOMAIN list /\ e \in Dependents(list[i])
      BY <1>1, <1>2, <1>4, <2>1
    <3>2. PICK j \in 1 .. i - 1 : list[j] = e
      BY <3>1 DEF Preceded
    <3>3. j \in 1 .. n
      BY <1>1, <2>1, <3>2
    <3> QED BY <1>1, <3>2, <3>3
  <2>2. CASE i = n + 1
    <3>1. PICK j \in 1 .. n : list[j] = e
      BY <1>1, <1>2, <1>4, <2>2 DEF Range
    <3> QED BY <1>1, <2>2, <3>1
  <2> QED BY <1>1, <1>2, <2>1, <2>2
<1>5. Preceded(b)
  BY <1>4 DEF Preceded
<1> QED BY <1>3, <1>5 DEF b

\* What needs a service, directly or not.
Above(s) == {t \in Services : s \in Needs(t)}

\* It holds what depends on the service, and what needs that.
LEMMA AboveFacts ==
  ASSUME Typed, NEW s \in Services
  PROVE  Dependents(s) \subseteq Above(s) /\ \A t \in Dependents(s) : t \in Services /\ Above(t) \subseteq Above(s)
<1>1. Dependents(s) \subseteq Above(s)
  BY NeedsFacts DEF Dependents, Above
<1>2. ASSUME NEW t \in Dependents(s), NEW u \in Above(t) PROVE u \in Above(s)
  <2>1. u \in Services /\ t \in Needs(u) /\ s \in Range(deps[t])
    BY DEF Dependents, Above
  <2> QED BY <2>1, NeedsFacts DEF Above
<1> QED BY <1>1, <1>2 DEF Dependents

\* The reverse helper adds what needs the service and no more, in order.
ReverseAdds(s) ==
  \A list \in Seq(Services) : Preceded(list) =>
    /\ Preceded(ReverseHelper[s][list]) /\ Dependents(s) \subseteq Range(ReverseHelper[s][list])
    /\ Range(list) \subseteq Range(ReverseHelper[s][list])
    /\ Range(ReverseHelper[s][list]) \subseteq Range(list) \cup Above(s)

\* Each turn of its loop does so, if the recursive calls do.
LEMMA ReverseLoopAdds ==
  ASSUME Typed, Acyclic(deps), NEW s \in Services, \A t \in Dependents(s) : ReverseAdds(t)
  PROVE  ReverseAdds(s)
<1> SUFFICES ASSUME NEW list \in Seq(Services), Preceded(list)
             PROVE  /\ Preceded(ReverseHelper[s][list])
                    /\ Dependents(s) \subseteq Range(ReverseHelper[s][list])
                    /\ Range(list) \subseteq Range(ReverseHelper[s][list])
                    /\ Range(ReverseHelper[s][list]) \subseteq Range(list) \cup Above(s)
  BY DEF ReverseAdds
<1> DEFINE step == ReverseStep(ReverseHelper, s)
<1>1. N \in Nat /\ Services = 1 .. N
  BY DependenciesConstants DEF Services
<1>2. Dependents(s) = {i \in 1 .. N : s \in Range(deps[i])}
  BY <1>1 DEF Dependents
<1>3. \A t \in Services : ReverseHelper[t] \in [Seq(Services) -> Seq(Services)]
  BY ReverseHelperDef DEF Lists
<1>4. PICK f : IsRun(f, N, step, list) /\ ReverseLoop(ReverseHelper, s, list) = f[N]
  BY <1>3, ReverseLoopRun DEF Dependents
<1>5. ReverseHelper[s][list] = f[N]
  BY <1>4, ReverseHelperDef
<1>6. \A i \in 1 .. N : \A l \in Seq(Services) :
        step[i][l] = IF s \in Range(deps[i]) THEN Append(ReverseHelper[i][l], i) ELSE l
  BY DEF ReverseStep
<1> HIDE DEF step
<1> DEFINE Good(i) == /\ Preceded(f[i]) /\ \A j \in 1 .. i : j \in Dependents(s) => j \in Range(f[i])
                      /\ Range(list) \subseteq Range(f[i])
                      /\ Range(f[i]) \subseteq Range(list) \cup Above(s)
           Bad == {i \in 0 .. N : ~Good(i)}
<1>7. Bad = {}
  <2>1. SUFFICES ASSUME Bad # {} PROVE FALSE
    OBVIOUS
  <2>2. PICK k \in Bad : \A j \in Bad : k <= j
    <3>1. Bad \in SUBSET Nat
      BY <1>1
    <3> HIDE DEF Bad
    <3> QED BY <2>1, <3>1, Least
  <2>3. k # 0
    <3>1. Good(0)
      BY <1>4 DEF IsRun
    <3> HIDE DEF Good
    <3> QED BY <2>2, <3>1
  <2>4. k \in 1 .. N /\ k - 1 \in 0 .. N /\ Good(k - 1)
    <3>1. k \in 1 .. N /\ k - 1 \in 0 .. N
      BY <1>1, <2>2, <2>3
    <3> HIDE DEF Good
    <3> QED BY <1>1, <2>2, <3>1
  <2>5. \A j \in 1 .. k : j = k \/ j \in 1 .. k - 1
    BY <1>1, <2>4
  <2>6. f[k - 1] \in Seq(Services) /\ f[k] = step[k][f[k - 1]]
    BY <1>4, <2>4 DEF IsRun
  <2>7. CASE k \notin Dependents(s)
    <3>1. f[k] = f[k - 1]
      BY <1>2, <1>6, <2>4, <2>6, <2>7
    <3>2. Good(k)
      BY <2>4, <2>5, <2>7, <3>1
    <3> HIDE DEF Good
    <3> QED BY <2>2, <3>2
  <2>8. CASE k \in Dependents(s)
    <3> DEFINE b == ReverseHelper[k][f[k - 1]]
    <3>1. k \in Services /\ k \in Above(s) /\ Above(k) \subseteq Above(s)
      BY <2>8, AboveFacts
    <3>2. b \in Seq(Services) /\ f[k] = Append(b, k)
      BY <1>2, <1>3, <1>6, <2>4, <2>6, <2>8, <3>1
    <3>3. /\ Preceded(b) /\ Dependents(k) \subseteq Range(b) /\ Range(f[k - 1]) \subseteq Range(b)
          /\ Range(b) \subseteq Range(f[k - 1]) \cup Above(k)
      BY <2>4, <2>6, <2>8 DEF ReverseAdds
    <3>4. Preceded(f[k]) /\ Range(f[k]) = Range(b) \cup {k}
      BY <3>1, <3>2, <3>3, AppendPreceded
    <3>5. Good(k)
      BY <2>4, <2>5, <3>1, <3>3, <3>4
    <3> HIDE DEF Good
    <3> QED BY <2>2, <3>5
  <2> QED BY <2>7, <2>8
<1>8. Good(N)
  <2> HIDE DEF Good
  <2> QED BY <1>1, <1>7
<1> QED BY <1>2, <1>5, <1>8

\* By the ranks, it does so for every service.
LEMMA ReverseAddsAll == ASSUME Typed, Acyclic(deps) PROVE \A s \in Services : ReverseAdds(s)
<1>1. PICK q \in [Services -> 0 .. N] : \A s \in Services : \A t \in Dependents(s) : q[t] < q[s]
  BY ReverseRank
<1>2. q \in [Services -> Nat]
  BY <1>1, DependenciesConstants
<1> DEFINE Bad == {s \in Services : ~ReverseAdds(s)}
<1>3. SUFFICES ASSUME Bad # {} PROVE FALSE
  OBVIOUS
<1>4. PICK k \in {q[s] : s \in Bad} : \A j \in {q[s] : s \in Bad} : k <= j
  <2>1. {q[s] : s \in Bad} \in SUBSET Nat /\ {q[s] : s \in Bad} # {}
    BY <1>2, <1>3
  <2> QED BY <2>1, Least
<1>5. PICK s \in Bad : q[s] = k
  BY <1>4
<1>6. \A t \in Dependents(s) : ReverseAdds(t)
  <2>1. \A t \in Dependents(s) : t \in Services /\ q[t] < k
    BY <1>1, <1>5 DEF Dependents
  <2> QED BY <1>2, <1>4, <1>5, <2>1
<1> QED BY <1>5, <1>6, ReverseLoopAdds

\* The reverse closure of a service is what needs it, in order.
LEMMA ReverseRight ==
  ASSUME Typed, Acyclic(deps), NEW s \in Services
  PROVE  /\ ReverseDependencyClosure(s) \in Seq(Services)
         /\ Range(ReverseDependencyClosure(s)) = Above(s) /\ Preceded(ReverseDependencyClosure(s))
         /\ Dependents(s) \subseteq Range(ReverseDependencyClosure(s))
<1> DEFINE c == ReverseDependencyClosure(s)
<1>1. <<>> \in Seq(Services) /\ Preceded(<<>>) /\ Range(<<>>) = {}
  BY DEF Preceded, Range
<1>2. c \in Seq(Services)
  BY <1>1, ReverseHelperDef DEF ReverseDependencyClosure, Lists
<1>3. Preceded(c) /\ Dependents(s) \subseteq Range(c) /\ Range(c) \subseteq Above(s)
  BY <1>1, ReverseAddsAll DEF ReverseDependencyClosure, ReverseAdds
<1> HIDE DEF c
<1>4. ASSUME NEW t \in Range(c), NEW u \in Dependents(t) PROVE u \in Range(c)
  <2>1. PICK i \in DOMAIN c : c[i] = t
    BY DEF Range
  <2>2. DOMAIN c = 1 .. Len(c) /\ Len(c) \in Nat
    BY <1>2
  <2>3. PICK j \in 1 .. i - 1 : c[j] = u
    BY <1>3, <2>1, <1>4 DEF Preceded
  <2>4. j \in DOMAIN c
    BY <2>1, <2>2, <2>3
  <2> QED BY <2>3, <2>4 DEF Range
<1>5. ASSUME NEW t \in Above(s), t \notin Range(c) PROVE FALSE
  <2> DEFINE S == Services \ (Range(c) \cup {s})
  <2>1. t \in Services /\ s \in Needs(t)
    BY DEF Above
  <2>2. ASSUME NEW u \in Services, u \notin Range(c) PROVE Range(deps[u]) \subseteq S
    <3>1. Range(deps[u]) \subseteq Services
      BY DEF Typed, Range
    <3>2. ASSUME NEW d \in Range(deps[u]) PROVE d # s /\ d \notin Range(c)
      BY <1>3, <1>4, <2>2 DEF Dependents
    <3> QED BY <3>1, <3>2
  <2>3. Range(deps[t]) \subseteq S /\ \A u \in S : Range(deps[u]) \subseteq S
    BY <1>5, <2>1, <2>2
  <2>4. Needs(t) \subseteq S
    BY <2>1, <2>3, NeedsFacts
  <2> QED BY <2>1, <2>4
<1> QED BY <1>2, <1>3, <1>5 DEF c

\* The first place of a name.
LEMMA FirstAtFacts ==
  ASSUME NEW list \in Seq(Services), NEW s \in Range(list)
  PROVE  /\ FirstAt(list, s) \in DOMAIN list /\ list[FirstAt(list, s)] = s
         /\ \A j \in DOMAIN list : list[j] = s => FirstAt(list, s) <= j
<1> DEFINE P(i) == list[i] = s /\ \A j \in 1 .. i - 1 : list[j] # s
           Places == {i \in DOMAIN list : list[i] = s}
<1>1. Len(list) \in Nat /\ DOMAIN list = 1 .. Len(list)
  OBVIOUS
<1>2. Places \in SUBSET Nat /\ Places # {}
  BY <1>1 DEF Range
<1>3. PICK i \in Places : \A k \in Places : i <= k
  <2> HIDE DEF Places
  <2> QED BY <1>2, Least
<1>4. P(i) /\ i \in DOMAIN list
  BY <1>1, <1>3
<1>5. FirstAt(list, s) = CHOOSE k \in DOMAIN list : P(k)
  BY DEF FirstAt
<1>6. FirstAt(list, s) \in DOMAIN list /\ P(FirstAt(list, s))
  <2> HIDE DEF P
  <2> QED BY <1>4, <1>5
<1>7. ASSUME NEW j \in DOMAIN list, list[j] = s PROVE FirstAt(list, s) <= j
  BY <1>1, <1>6, <1>7
<1> QED BY <1>6, <1>7

-----------------------------------------------------------------------------
(* The first theorem: the dependencies stay as they are, so the closures   *)
(* are right whenever they are computed.                                   *)

Graph == Typed /\ Acyclic(deps)

\* No step changes the dependencies.
LEMMA DepsStay == ASSUME [Next]_vars PROVE deps' = deps
  BY DEF Next, StartSucceeds, StartFails, RestoreSkipped, StopSucceeds, StopFails, Dies,
     LwSmTableWatchdog, LwSmStart, LwSmStop, LwSmRestart, Tool, LwSmAutostartServices, MainTask,
     LwSmShutdownServices, ShutdownOver, WatchdogLooks, WatchdogOver, vars

\* The dependencies are lists of names without a cycle.
LEMMA GraphFirst == Init => Graph
<1> SUFFICES ASSUME Init PROVE Graph
  OBVIOUS
<1>1. deps \in [Services -> NameLists] /\ Acyclic(deps)
  BY DEF Init
<1>2. ASSUME NEW list \in NameLists PROVE list \in Seq(Services)
  <2>1. PICK m \in 0 .. N : list \in [1 .. m -> Services]
    BY DEF NameLists, SeqOf
  <2>2. m \in Nat
    BY <2>1, DependenciesConstants
  <2> QED BY <2>1, <2>2
<1> QED BY <1>1, <1>2 DEF Graph, Typed

\* And they stay so.
LEMMA GraphInv == Spec => []Graph
<1>1. Init => Graph
  BY GraphFirst
<1>2. Graph /\ [Next]_vars => Graph'
  <2> SUFFICES ASSUME Graph, [Next]_vars PROVE Graph'
    OBVIOUS
  <2>1. deps' = deps
    BY DepsStay
  <2> QED BY <2>1 DEF Graph, Typed, Acyclic
<1> QED BY <1>1, <1>2, PTL DEF Spec

\* The closures of every service, in every acyclic graph of every size, are exactly what
\* it needs and what needs it, in the order in which they can be started and stopped.
THEOREM ClosuresRight == Spec => []ClosuresExact
<1>1. Graph => ClosuresExact
  <2> SUFFICES ASSUME Graph, NEW s \in Services
               PROVE  LET c == DependencyClosure(s)
                          r == ReverseDependencyClosure(s)
                      IN  /\ Range(c) = Needs(s) /\ IsInjective(c)
                          /\ \A t \in Needs(s) : \A d \in Range(deps[t]) : FirstAt(c, d) < FirstAt(c, t)
                          /\ Range(r) = {t \in Services : s \in Needs(t)}
                          /\ \A t, u \in Range(r) : t \in Range(deps[u]) => FirstAt(r, u) < FirstAt(r, t)
    BY DEF ClosuresExact
  <2> DEFINE c == DependencyClosure(s)
             r == ReverseDependencyClosure(s)
  <2>1. c \in Seq(Services) /\ Range(c) = Needs(s) /\ Ordered(c)
    BY ClosureRight DEF Graph
  <2>2. r \in Seq(Services) /\ Range(r) = Above(s) /\ Preceded(r)
    BY ReverseRight DEF Graph
  <2> HIDE DEF c, r
  <2>3. IsInjective(c)
    BY <2>1 DEF Ordered
  <2>4. ASSUME NEW t \in Needs(s), NEW d \in Range(deps[t]) PROVE FirstAt(c, d) < FirstAt(c, t)
    <3>1. d \in Range(c) /\ t \in Range(c)
      BY <2>1, NeedsFacts DEF Graph
    <3>2. FirstAt(c, t) \in DOMAIN c /\ c[FirstAt(c, t)] = t
      BY <2>1, <3>1, FirstAtFacts
    <3>3. PICK j \in 1 .. FirstAt(c, t) - 1 : c[j] = d
      BY <2>1, <3>2 DEF Ordered
    <3>4. j \in DOMAIN c /\ DOMAIN c = 1 .. Len(c) /\ Len(c) \in Nat
      BY <2>1, <3>2, <3>3
    <3>5. FirstAt(c, d) <= j /\ FirstAt(c, d) \in DOMAIN c
      BY <2>1, <3>1, <3>3, <3>4, FirstAtFacts
    <3> QED BY <3>2, <3>3, <3>4, <3>5
  <2>5. ASSUME NEW t \in Range(r), NEW u \in Range(r), t \in Range(deps[u])
        PROVE  FirstAt(r, u) < FirstAt(r, t)
    <3>1. u \in Dependents(t)
      BY <2>2, <2>5 DEF Dependents, Above
    <3>2. FirstAt(r, t) \in DOMAIN r /\ r[FirstAt(r, t)] = t
      BY <2>2, FirstAtFacts
    <3>3. PICK j \in 1 .. FirstAt(r, t) - 1 : r[j] = u
      BY <2>2, <3>1, <3>2 DEF Preceded
    <3>4. j \in DOMAIN r /\ DOMAIN r = 1 .. Len(r) /\ Len(r) \in Nat
      BY <2>2, <3>2, <3>3
    <3>5. FirstAt(r, u) <= j /\ FirstAt(r, u) \in DOMAIN r
      BY <2>2, <3>3, <3>4, FirstAtFacts
    <3> QED BY <3>2, <3>3, <3>4, <3>5
  <2> QED BY <2>1, <2>2, <2>3, <2>4, <2>5 DEF c, r, Above
<1> QED BY <1>1, GraphInv, PTL

=============================================================================
