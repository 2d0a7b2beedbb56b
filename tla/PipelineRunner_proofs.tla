------------------------ MODULE PipelineRunner_proofs ------------------------
(***************************************************************************)
(* Proofs about PipelineRunner, for every number of nodes, every pool      *)
(* size, every finite set of edges and any number of faults: the control   *)
(* points, then the rows and events (RunInv is inductive on top of IInv),  *)
(* the refinement of DagRun, and that no wakeup is lost (WakeInv, on top  *)
(* of RunInv), for which topological_order finds exactly the cycles.      *)
(***************************************************************************)
EXTENDS PipelineRunner, FiniteSetTheorems, WellFoundedInduction, TLAPS

-----------------------------------------------------------------------------
(***************************************************************************)
(* topological_order.  Turns is a recursive function: that one exists and  *)
(* what its turns preserve follow from a least counterexample.             *)
(***************************************************************************)

\* r is the loop of topological_order, cut after turn k.
IsTurns(r, n, E, k) ==
    r = [i \in 0..k |->
           IF i = 0 THEN FirstTurn(n, E)
           ELSE CHOOSE t \in {PopReady(s, E) : s \in {r[i - 1]}} : TRUE]

LEMMA TurnsExist ==
  ASSUME NEW n \in Nat, NEW E
  PROVE  \E r : IsTurns(r, n, E, n)
<1> DEFINE less == {p \in Nat \X Nat : p[1] < p[2]}
<1>1. SUFFICES ASSUME NEW bad, bad = {k \in Nat : ~ \E r : IsTurns(r, n, E, k)}, bad # {}
               PROVE  FALSE
  OBVIOUS
<1>2. IsWellFoundedOn(less, Nat)
  BY NatLessThanWellFounded DEF OpToRel
<1>3. PICK k \in bad : \A j \in bad : ~ (<<j, k>> \in less)
  BY <1>1, <1>2, WFMin
<1>4. CASE k = 0
  <2>1. PICK r : r = [i \in 0..0 |-> FirstTurn(n, E)]
    OBVIOUS
  <2>2. IsTurns(r, n, E, 0)
    BY <2>1 DEF IsTurns
  <2> QED
    BY <1>1, <1>3, <1>4, <2>2
<1>5. CASE k # 0
  <2>1. k \in Nat /\ k - 1 \in Nat /\ k - 1 < k
    BY <1>1, <1>3, <1>5
  <2>2. k - 1 \notin bad
    BY <1>1, <1>3, <2>1
  <2>3. PICK r : IsTurns(r, n, E, k - 1)
    BY <1>1, <2>1, <2>2
  <2>4. PICK q : q = [i \in 0..k |-> IF i < k THEN r[i] ELSE
                        CHOOSE t \in {PopReady(s, E) : s \in {r[k - 1]}} : TRUE]
    OBVIOUS
  <2>5. ASSUME NEW i \in 0..k
        PROVE  q[i] = IF i = 0 THEN FirstTurn(n, E)
                      ELSE CHOOSE t \in {PopReady(s, E) : s \in {q[i - 1]}} : TRUE
    <3>1. CASE i < k
      <4>1. i \in 0..(k - 1) /\ (i # 0 => i - 1 \in 0..(k - 1) /\ i - 1 \in 0..k)
        BY <2>1, <3>1
      <4>2. r[i] = IF i = 0 THEN FirstTurn(n, E)
                   ELSE CHOOSE t \in {PopReady(s, E) : s \in {r[i - 1]}} : TRUE
        BY <2>3, <4>1 DEF IsTurns
      <4>3. i # 0 => q[i - 1] = r[i - 1]
        BY <2>1, <2>4, <3>1, <4>1
      <4> QED
        BY <2>4, <3>1, <4>2, <4>3
    <3>2. CASE i = k
      <4>1. k - 1 \in 0..k /\ k \in 0..k /\ k - 1 < k /\ ~ (k < k)
        BY <2>1
      <4> QED
        BY <1>5, <2>4, <3>2, <4>1
    <3> QED
      BY <2>1, <3>1, <3>2
  <2>6. IsTurns(q, n, E, k)
    BY <2>4, <2>5 DEF IsTurns
  <2> QED
    BY <1>1, <1>3, <2>6
<1> QED
  BY <1>4, <1>5

LEMMA TurnsUnroll ==
  ASSUME NEW n \in Nat, NEW E
  PROVE  IsTurns(Turns(n, E), n, E, n)
<1>1. \E r : IsTurns(r, n, E, n)
  BY TurnsExist
<1>2. Turns(n, E) = CHOOSE r : IsTurns(r, n, E, n)
  BY Zenon DEF Turns, IsTurns
<1> QED
  BY <1>1, <1>2, Zenon

\* Every nonempty set of naturals has a least element.
LEMMA MinIsMember ==
  ASSUME NEW S, S \subseteq Nat, S # {}
  PROVE  Min(S) \in S
<1> DEFINE less == {p \in Nat \X Nat : p[1] < p[2]}
<1>1. IsWellFoundedOn(less, Nat)
  BY NatLessThanWellFounded DEF OpToRel
<1>2. PICK m \in S : \A k \in S : ~ (<<k, m>> \in less)
  BY <1>1, WFMin
<1>3. ASSUME NEW k \in S PROVE m <= k
  <2>1. k \in Nat /\ m \in Nat
    OBVIOUS
  <2>2. k < m => <<k, m>> \in less
    BY <2>1
  <2> QED
    BY <1>2, <2>1, <2>2
<1> QED
  BY <1>3 DEF Min

\* What a turn has ordered, and the edges into v that it has not taken yet.
Ordered(s) == {s.ordered[i] : i \in DOMAIN s.ordered}
Left(E, D, v) == {e \in EdgesInto(E, v) : e.src \notin D}

\* The loop invariant of topological_order.
TurnInv(n, E, s) ==
    /\ s.ordered \in Seq(1..n)
    /\ s.indegree \in [1..n -> Int]
    /\ \A i, k \in DOMAIN s.ordered : s.ordered[i] = s.ordered[k] => i = k
    /\ \A v \in 1..n : s.indegree[v] = Cardinality(Left(E, Ordered(s), v))
    /\ s.ready = {v \in 1..n : s.indegree[v] = 0} \ Ordered(s)
    /\ \A i \in DOMAIN s.ordered : \A e \in E : e.dst = s.ordered[i] =>
         \E k \in DOMAIN s.ordered : k < i /\ s.ordered[k] = e.src

LEMMA LeftFacts ==
  ASSUME NEW E, IsFiniteSet(E), NEW D, NEW v
  PROVE  /\ IsFiniteSet(Left(E, D, v)) /\ Cardinality(Left(E, D, v)) \in Nat
         /\ Cardinality(Left(E, D, v)) = 0 <=> Left(E, D, v) = {}
<1>1. Left(E, D, v) \subseteq E
  BY DEF Left, EdgesInto
<1>2. IsFiniteSet(Left(E, D, v))
  BY <1>1, FS_Subset
<1> QED
  BY <1>2, FS_CardinalityType, FS_EmptySet

\* Taking u closes the edges from u to v.
LEMMA LeftStep ==
  ASSUME NEW E, IsFiniteSet(E), NEW D, NEW v, NEW u, u \notin D
  PROVE  /\ Cardinality(Left(E, D \cup {u}, v)) =
              Cardinality(Left(E, D, v)) - Cardinality(EdgesBetween(E, u, v))
         /\ EdgesBetween(E, u, v) \subseteq Left(E, D, v)
         /\ Cardinality(EdgesBetween(E, u, v)) \in Nat
<1>1. EdgesBetween(E, u, v) \subseteq Left(E, D, v)
  BY DEF Left, EdgesInto, EdgesBetween
<1>2. Left(E, D \cup {u}, v) = Left(E, D, v) \ EdgesBetween(E, u, v)
  BY DEF Left, EdgesInto, EdgesBetween
<1>3. Left(E, D, v) \cap EdgesBetween(E, u, v) = EdgesBetween(E, u, v)
  BY <1>1
<1>4. Cardinality(EdgesBetween(E, u, v)) \in Nat
  BY <1>1, LeftFacts, FS_Subset, FS_CardinalityType
<1> QED
  BY <1>1, <1>2, <1>3, <1>4, LeftFacts, FS_Difference

LEMMA FirstTurnInv ==
  ASSUME NEW n \in Nat, NEW E, IsFiniteSet(E)
  PROVE  TurnInv(n, E, FirstTurn(n, E))
<1>1. PICK s : s = FirstTurn(n, E)
  OBVIOUS
<1>2. /\ s.ordered = <<>> /\ s.indegree = [v \in 1..n |-> Cardinality(EdgesInto(E, v))]
      /\ s.ready = {v \in 1..n : s.indegree[v] = 0}
  BY <1>1 DEF FirstTurn, Roots, InitialIndegree
<1>3. Ordered(s) = {}
  BY <1>2 DEF Ordered
<1>4. \A v : Left(E, {}, v) = EdgesInto(E, v)
  BY DEF Left
<1>5. \A v \in 1..n : s.indegree[v] = Cardinality(Left(E, Ordered(s), v))
  BY <1>2, <1>3, <1>4
<1>6. s.indegree \in [1..n -> Int]
  <2>1. \A v \in 1..n : Cardinality(EdgesInto(E, v)) \in Int
    BY <1>4, LeftFacts
  <2> QED
    BY <1>2, <2>1
<1> QED
  BY <1>1, <1>2, <1>3, <1>5, <1>6 DEF TurnInv

LEMMA PopReadyInv ==
  ASSUME NEW n \in Nat, NEW E, IsFiniteSet(E), NEW s, TurnInv(n, E, s), s.ready # {}
  PROVE  /\ TurnInv(n, E, PopReady(s, E))
         /\ Len(PopReady(s, E).ordered) = Len(s.ordered) + 1
<1>1. PICK u : u = Min(s.ready)
  OBVIOUS
<1>2. PICK t : t = PopReady(s, E)
  OBVIOUS
<1>3. PICK D : D = Ordered(s)
  OBVIOUS
<1>4. u \in s.ready /\ u \in 1..n /\ s.indegree[u] = 0 /\ u \notin D
  <2>1. s.ready \subseteq 1..n
    BY DEF TurnInv
  <2>2. u \in s.ready
    BY <1>1, <2>1, MinIsMember
  <2> QED
    BY <1>3, <2>2 DEF TurnInv
<1>5. /\ t.ordered = Append(s.ordered, u) /\ t.indegree = Decrement(s.indegree, E, u)
      /\ t.ready = (s.ready \ {u}) \cup Released(s.indegree, E, u)
  BY <1>1, <1>2 DEF PopReady
<1>6. /\ s.ordered \in Seq(1..n) /\ Len(s.ordered) \in Nat
      /\ DOMAIN s.ordered = 1..Len(s.ordered)
      /\ DOMAIN t.ordered = 1..(Len(s.ordered) + 1)
      /\ t.ordered[Len(s.ordered) + 1] = u
      /\ \A i \in 1..Len(s.ordered) : t.ordered[i] = s.ordered[i]
      /\ t.ordered \in Seq(1..n) /\ Len(t.ordered) = Len(s.ordered) + 1
  BY <1>4, <1>5 DEF TurnInv
<1>7. Ordered(t) = D \cup {u}
  <2>1. DOMAIN t.ordered = DOMAIN s.ordered \cup {Len(s.ordered) + 1}
    BY <1>6
  <2>2. \A i \in DOMAIN s.ordered : t.ordered[i] = s.ordered[i]
    BY <1>6
  <2>3. {t.ordered[i] : i \in DOMAIN t.ordered} =
          {s.ordered[i] : i \in DOMAIN s.ordered} \cup {t.ordered[Len(s.ordered) + 1]}
    BY <2>1, <2>2
  <2> QED
    BY <1>3, <1>6, <2>3 DEF Ordered
<1>8. \A v \in 1..n : /\ s.indegree[v] = Cardinality(Left(E, D, v)) /\ s.indegree[v] \in Int
                      /\ s.indegree[v] = 0 <=> Left(E, D, v) = {}
  BY <1>3, LeftFacts DEF TurnInv
<1>9. ASSUME NEW v \in 1..n
      PROVE  /\ t.indegree[v] = s.indegree[v] - Cardinality(EdgesBetween(E, u, v))
             /\ t.indegree[v] = Cardinality(Left(E, Ordered(t), v)) /\ t.indegree[v] \in Int
  <2>1. t.indegree[v] = s.indegree[v] - Cardinality(EdgesBetween(E, u, v))
    BY <1>5 DEF Decrement, TurnInv
  <2> QED
    <3>1. /\ Cardinality(Left(E, Ordered(t), v)) =
               Cardinality(Left(E, D, v)) - Cardinality(EdgesBetween(E, u, v))
          /\ Cardinality(EdgesBetween(E, u, v)) \in Nat
      BY <1>4, <1>7, LeftStep
    <3> QED
      BY <1>8, <2>1, <3>1
<1>10. t.indegree \in [1..n -> Int]
  <2>1. t.indegree = [v \in 1..n |-> s.indegree[v] - Cardinality(EdgesBetween(E, u, v))]
    BY <1>5 DEF Decrement, TurnInv
  <2> QED
    BY <1>9, <2>1
<1>11. \A i, k \in DOMAIN t.ordered : t.ordered[i] = t.ordered[k] => i = k
  <2>1. \A i \in 1..Len(s.ordered) : s.ordered[i] # u
    BY <1>3, <1>4, <1>6 DEF Ordered
  <2>2. \A i, k \in 1..Len(s.ordered) : s.ordered[i] = s.ordered[k] => i = k
    BY <1>6 DEF TurnInv
  <2>3. \A i \in 1..(Len(s.ordered) + 1) : i = Len(s.ordered) + 1 \/ i \in 1..Len(s.ordered)
    BY <1>6
  <2> QED
    BY <1>6, <2>1, <2>2, <2>3
<1>12. \A d \in D : \A e \in E : e.dst = d => e.src \in D
  <2>1. \A i \in DOMAIN s.ordered : \A e \in E : e.dst = s.ordered[i] =>
          \E k \in DOMAIN s.ordered : s.ordered[k] = e.src
    BY DEF TurnInv
  <2>2. D = {s.ordered[i] : i \in DOMAIN s.ordered}
    BY <1>3 DEF Ordered
  <2> QED
    BY <2>1, <2>2
<1>13. ASSUME NEW v \in 1..n
       PROVE  v \in t.ready <=> t.indegree[v] = 0 /\ v \notin Ordered(t)
  <2>1. v \in s.ready <=> s.indegree[v] = 0 /\ v \notin D
    BY <1>3 DEF TurnInv
  <2>2. v \in Released(s.indegree, E, u) <=>
          EdgesBetween(E, u, v) # {} /\ t.indegree[v] = 0
    BY <1>5 DEF Released, TurnInv
  <2>3. EdgesBetween(E, u, v) \subseteq Left(E, D, v)
    BY <1>4, LeftStep
  <2>4. EdgesBetween(E, u, v) # {} => v \notin D /\ v # u
    <3>1. v \in D => Left(E, D, v) = {}
      BY <1>12 DEF Left, EdgesInto
    <3>2. Left(E, D, u) = {}
      BY <1>4, <1>8
    <3> QED
      BY <2>3, <3>1, <3>2
  <2>5. EdgesBetween(E, u, v) = {} => t.indegree[v] = s.indegree[v]
    BY <1>8, <1>9, FS_EmptySet
  <2>6. s.indegree[v] = 0 => EdgesBetween(E, u, v) = {}
    BY <1>8, <2>3
  <2> QED
    BY <1>5, <1>7, <2>1, <2>2, <2>4, <2>5, <2>6
<1>14. t.ready = {v \in 1..n : t.indegree[v] = 0} \ Ordered(t)
  <2>1. t.ready \subseteq 1..n
    BY <1>5 DEF TurnInv, Released
  <2> QED
    BY <1>13, <2>1
<1>15. ASSUME NEW i \in DOMAIN t.ordered, NEW e \in E, e.dst = t.ordered[i]
       PROVE  \E k \in DOMAIN t.ordered : k < i /\ t.ordered[k] = e.src
  <2>1. CASE i \in 1..Len(s.ordered)
    <3>1. PICK k \in DOMAIN s.ordered : k < i /\ s.ordered[k] = e.src
      BY <1>6, <1>15, <2>1 DEF TurnInv
    <3> QED
      BY <1>6, <3>1
  <2>2. CASE i = Len(s.ordered) + 1
    <3>1. e.dst = u
      BY <1>6, <1>15, <2>2
    <3>2. e.src \in D
      BY <1>4, <1>8, <3>1 DEF Left, EdgesInto
    <3>3. PICK k \in DOMAIN s.ordered : s.ordered[k] = e.src
      BY <1>3, <3>2 DEF Ordered
    <3>4. k \in DOMAIN t.ordered /\ k < i /\ t.ordered[k] = s.ordered[k]
      BY <1>6, <2>2, <3>3
    <3> QED
      BY <3>3, <3>4
  <2> QED
    BY <1>6, <2>1, <2>2
<1>16. \A v \in 1..n : t.indegree[v] = Cardinality(Left(E, Ordered(t), v))
  BY <1>9
<1> QED
  BY <1>2, <1>6, <1>10, <1>11, <1>14, <1>15, <1>16 DEF TurnInv

\* Each turn takes a node, or the loop has ended.
TurnDone(n, E, i, s) == TurnInv(n, E, s) /\ (Len(s.ordered) = i \/ s.ready = {})

LEMMA TurnsKeep ==
  ASSUME NEW n \in Nat, NEW E, IsFiniteSet(E), NEW i \in 0..n
  PROVE  TurnDone(n, E, i, Turns(n, E)[i])
<1> DEFINE less == {p \in Nat \X Nat : p[1] < p[2]}
<1>1. PICK r : r = Turns(n, E)
  OBVIOUS
<1>2. IsTurns(r, n, E, n)
  BY <1>1, TurnsUnroll
<1> SUFFICES ASSUME ~ TurnDone(n, E, i, r[i]) PROVE FALSE
  BY <1>1
<1>3. PICK bad : bad = {j \in 0..n : ~ TurnDone(n, E, j, r[j])}
  OBVIOUS
<1>4. IsWellFoundedOn(less, Nat)
  BY NatLessThanWellFounded DEF OpToRel
<1>5. PICK k \in bad : \A j \in bad : ~ (<<j, k>> \in less)
  <2>1. bad \subseteq Nat /\ i \in bad
    BY <1>3
  <2> QED
    BY <1>4, <2>1, WFMin
<1>6. k \in Nat /\ k \in 0..n /\ ~ TurnDone(n, E, k, r[k])
  BY <1>3, <1>5
<1>7. CASE k = 0
  <2>1. r[0] = FirstTurn(n, E)
    BY <1>2, <1>6, <1>7 DEF IsTurns
  <2>2. Len(r[0].ordered) = 0
    BY <2>1 DEF FirstTurn
  <2> QED
    BY <1>6, <1>7, <2>1, <2>2, FirstTurnInv DEF TurnDone
<1>8. CASE k # 0
  <2>1. k - 1 \in Nat /\ k - 1 \in 0..n /\ k - 1 < k
    BY <1>6, <1>8
  <2>2. PICK s : s = r[k - 1]
    OBVIOUS
  <2>3. TurnInv(n, E, s) /\ (Len(s.ordered) = k - 1 \/ s.ready = {})
    BY <1>3, <1>5, <1>6, <2>1, <2>2 DEF TurnDone
  <2>4. r[k] = PopReady(s, E)
    <3>1. r[k] = CHOOSE t \in {PopReady(q, E) : q \in {r[k - 1]}} : TRUE
      BY <1>2, <1>6, <1>8 DEF IsTurns
    <3>2. {PopReady(q, E) : q \in {r[k - 1]}} = {PopReady(s, E)}
      BY <2>2
    <3> QED
      BY <3>1, <3>2
  <2>5. CASE s.ready = {}
    <3>1. r[k] = s
      BY <2>4, <2>5 DEF PopReady
    <3> QED
      BY <1>6, <2>3, <2>5, <3>1 DEF TurnDone
  <2>6. CASE s.ready # {}
    <3>1. TurnInv(n, E, r[k]) /\ Len(r[k].ordered) = Len(s.ordered) + 1
      BY <2>3, <2>4, <2>6, PopReadyInv
    <3>2. Len(r[k].ordered) = k
      BY <1>6, <2>3, <2>6, <3>1
    <3> QED
      BY <1>6, <3>1, <3>2 DEF TurnDone
  <2> QED
    BY <2>5, <2>6
<1> QED
  BY <1>7, <1>8

\* A set of nodes each of which has an edge from the set: a cycle.
Knotted(n, E, S) ==
    /\ S \in (SUBSET (1..n)) \ {{}}
    /\ \A v \in S : \E e \in E : e.dst = v /\ e.src \in S

\* topological_order finds a cycle if and only if there is one, for every
\* number of nodes and every finite set of edges.
THEOREM OrderFindsCycles ==
  ASSUME NEW n \in Nat, NEW E, IsFiniteSet(E), \A e \in E : e.src \in 1..n /\ e.dst \in 1..n
  PROVE  ContainsCycle(n, E) <=> \E S : Knotted(n, E, S)
<1>1. PICK s : s = Turns(n, E)[n]
  OBVIOUS
<1>2. TurnInv(n, E, s) /\ (Len(s.ordered) = n \/ s.ready = {})
  BY <1>1, TurnsKeep DEF TurnDone
<1>3. ContainsCycle(n, E) <=> Len(s.ordered) # n
  BY <1>1 DEF ContainsCycle, TopologicalOrder
<1>4. s.ordered \in Seq(1..n) /\ Len(s.ordered) \in Nat /\ DOMAIN s.ordered = 1..Len(s.ordered)
  BY <1>2 DEF TurnInv
<1>5. IsFiniteSet(1..n) /\ Cardinality(1..n) = n
  <2>1. 1 \in Int /\ n \in Int /\ (1 > n => n = 0)
    OBVIOUS
  <2> QED
    BY <2>1, FS_Interval
<1>6. ASSUME Len(s.ordered) = n PROVE Ordered(s) = 1..n
  <2>1. s.ordered \in Injection(1..n, 1..n)
    <3>1. s.ordered \in [1..n -> 1..n]
      BY <1>4, <1>6
    <3>2. \A i, k \in DOMAIN s.ordered : s.ordered[i] = s.ordered[k] => i = k
      BY <1>2 DEF TurnInv
    <3> QED
      BY <3>1, <3>2 DEF Injection, IsInjective
  <2>2. s.ordered \in Surjection(1..n, 1..n)
    BY <1>5, <2>1, FS_Injection
  <2> QED
    BY <1>4, <1>6, <2>2 DEF Surjection, Ordered
<1>7. ASSUME Len(s.ordered) = n, NEW S, Knotted(n, E, S) PROVE FALSE
  <2>1. PICK P : P = {i \in 1..n : s.ordered[i] \in S}
    OBVIOUS
  <2>2. P # {} /\ P \subseteq Nat
    <3>1. PICK v \in S : v \in 1..n
      BY <1>7 DEF Knotted
    <3>2. PICK i \in 1..n : s.ordered[i] = v
      BY <1>4, <1>6, <1>7, <3>1 DEF Ordered
    <3> QED
      BY <2>1, <3>1, <3>2
  <2>3. PICK i \in P : \A k \in P : i <= k
    <3>1. Min(P) \in P
      BY <2>2, MinIsMember
    <3> DEFINE less == {p \in Nat \X Nat : p[1] < p[2]}
    <3>2. IsWellFoundedOn(less, Nat)
      BY NatLessThanWellFounded DEF OpToRel
    <3>3. PICK m \in P : \A k \in P : ~ (<<k, m>> \in less)
      BY <2>2, <3>2, WFMin
    <3>4. ASSUME NEW k \in P PROVE m <= k
      <4>1. k \in Nat /\ m \in Nat
        BY <2>2
      <4>2. k < m => <<k, m>> \in less
        BY <4>1
      <4> QED
        BY <3>3, <4>1, <4>2
    <3> QED
      BY <3>4
  <2>4. PICK e \in E : e.dst = s.ordered[i] /\ e.src \in S
    BY <1>7, <2>1 DEF Knotted
  <2>5. PICK k \in DOMAIN s.ordered : k < i /\ s.ordered[k] = e.src
    BY <1>2, <1>4, <1>7, <2>1, <2>4 DEF TurnInv
  <2>6. k \in P /\ k \in Nat /\ i \in Nat
    BY <1>4, <1>7, <2>1, <2>4, <2>5
  <2> QED
    BY <2>3, <2>5, <2>6
<1>8. ASSUME Len(s.ordered) # n PROVE Knotted(n, E, (1..n) \ Ordered(s))
  <2>1. s.ready = {}
    BY <1>2, <1>8
  <2>2. (1..n) \ Ordered(s) # {}
    <3>1. SUFFICES ASSUME 1..n \subseteq Ordered(s) PROVE FALSE
      OBVIOUS
    <3>2. s.ordered \in Surjection(1..Len(s.ordered), 1..n)
      <4>1. s.ordered \in [1..Len(s.ordered) -> 1..n]
        BY <1>4
      <4>2. \A v \in 1..n : \E i \in 1..Len(s.ordered) : s.ordered[i] = v
        BY <1>4, <3>1 DEF Ordered
      <4> QED
        BY <4>1, <4>2 DEF Surjection
    <3>3. s.ordered \in Injection(1..Len(s.ordered), 1..n)
      <4>1. s.ordered \in [1..Len(s.ordered) -> 1..n]
        BY <1>4
      <4>2. \A i, k \in DOMAIN s.ordered : s.ordered[i] = s.ordered[k] => i = k
        BY <1>2 DEF TurnInv
      <4> QED
        BY <4>1, <4>2 DEF Injection, IsInjective
    <3>4. Cardinality(1..Len(s.ordered)) = n
      BY <1>5, <3>2, <3>3, FS_Injection
    <3>5. Cardinality(1..Len(s.ordered)) = Len(s.ordered)
      <4>1. PICK m \in Nat : m = Len(s.ordered)
        BY <1>4
      <4>2. 1 \in Int /\ m \in Int /\ (1 > m => m = 0) /\ m - 1 + 1 = m
        OBVIOUS
      <4>3. Cardinality(1..m) = m
        BY <4>2, FS_Interval
      <4> QED
        BY <4>1, <4>3
    <3> QED
      BY <1>8, <3>4, <3>5
  <2>3. ASSUME NEW v \in (1..n) \ Ordered(s)
        PROVE  \E e \in E : e.dst = v /\ e.src \in (1..n) \ Ordered(s)
    <3>1. s.indegree[v] # 0
      BY <1>2, <2>1 DEF TurnInv
    <3>2. Left(E, Ordered(s), v) # {}
      BY <1>2, <3>1, LeftFacts DEF TurnInv
    <3> QED
      BY <3>2 DEF Left, EdgesInto
  <2> QED
    BY <2>2, <2>3 DEF Knotted
<1> QED
  BY <1>3, <1>7, <1>8

-----------------------------------------------------------------------------
(***************************************************************************)
(* Facts about the data.                                                   *)
(***************************************************************************)

LEMMA NodeFacts == Node \subseteq Nat \ {0} /\ None \notin Node /\ NodeCount \in Node
BY SizeAssumption DEF Node, None

LEMMA NodesFinite == IsFiniteSet(Node) /\ Cardinality(Node) = NodeCount
<1>1. 1 \in Int /\ NodeCount \in Int /\ ~(1 > NodeCount)
  BY SizeAssumption
<1>2. QED
  BY <1>1, FS_Interval DEF Node

\* The loop over ready nodes takes the one that comes first in job.nodes.
LEMMA MinOfNodes ==
  ASSUME NEW S, S \subseteq Node, S # {}
  PROVE  Min(S) \in S
<1>1. S \subseteq Nat
  BY NodeFacts
<1> QED
  BY <1>1, MinIsMember

LEMMA EdgesFinite ==
  ASSUME TypeOK, NEW S, S \subseteq job.edges
  PROVE  IsFiniteSet(S) /\ Cardinality(S) \in Nat
<1>1. IsFiniteSet(job.edges)
  BY JobAssumption DEF TypeOK
<1>2. QED
  BY <1>1, FS_Subset, FS_CardinalityType

\* At zero, every upstream node has recorded its outputs.
LEMMA ZeroMeansReady ==
  ASSUME TypeOK, IndegreeInv, NEW v \in Node, indegree[v] = 0
  PROVE  Preds(v) \subseteq outputs
<1>1. IsFiniteSet(OpenEdges(v)) /\ Cardinality(OpenEdges(v)) \in Nat
  BY EdgesFinite DEF OpenEdges, EdgesInto
<1>2. Cardinality(OpenEdges(v)) = 0
  BY <1>1 DEF IndegreeInv
<1>3. OpenEdges(v) = {}
  BY <1>1, <1>2, FS_EmptySet
<1>4. QED
  BY <1>3 DEF OpenEdges, Preds, Upstream

\* Recording n closes exactly the edges that leave it, so the decremented
\* table still bounds the open edges.
LEMMA DecrementKeepsBound ==
  ASSUME TypeOK, IndegreeInv, NEW n \in Node, n \notin outputs,
         NEW v \in Node, job' = job, outputs' = outputs \cup {n}
  PROVE  /\ Cardinality(OpenEdges(v)') =
              Cardinality(OpenEdges(v)) - Cardinality(EdgesBetween(job.edges, n, v))
         /\ Cardinality(OpenEdges(v)') <= Cardinality(OpenEdges(v))
         /\ EdgesBetween(job.edges, n, v) # {} => indegree[v] # 0
         /\ Cardinality(EdgesBetween(job.edges, n, v)) \in Nat
         /\ EdgesBetween(job.edges, n, v) = {}
              => Cardinality(EdgesBetween(job.edges, n, v)) = 0
<1> DEFINE open == OpenEdges(v)
           gone == EdgesBetween(job.edges, n, v)
<1>1. gone \subseteq open
  BY DEF EdgesBetween, OpenEdges, EdgesInto
<1>2. open' = open \ gone
  BY DEF EdgesBetween, OpenEdges, EdgesInto
<1>3. IsFiniteSet(open) /\ Cardinality(open) \in Nat
  BY EdgesFinite DEF OpenEdges, EdgesInto
<1>4. IsFiniteSet(gone) /\ Cardinality(gone) \in Nat
  BY EdgesFinite DEF EdgesBetween
<1>5. open \cap gone = gone
  BY <1>1
<1>6. Cardinality(open \ gone) = Cardinality(open) - Cardinality(gone)
  BY <1>3, <1>5, FS_Difference
<1>7. gone # {} => indegree[v] # 0
  <2>1. SUFFICES ASSUME indegree[v] = 0 PROVE gone = {}
    OBVIOUS
  <2>2. n \notin Preds(v)
    BY <2>1, ZeroMeansReady
  <2>3. QED
    BY <2>2 DEF EdgesBetween, Preds, Upstream, EdgesInto
<1>8. gone = {} => Cardinality(gone) = 0
  BY FS_EmptySet
<1>9. QED
  BY <1>2, <1>3, <1>4, <1>6, <1>7, <1>8

\* All outputs recorded, counted.
LEMMA CountedAll ==
  ASSUME TypeOK, OutputInv, completedCount = NodeCount
  PROVE  outputs = Node
BY NodesFinite, FS_Subset DEF TypeOK, OutputInv

LEMMA CountStep ==
  ASSUME TypeOK, NEW n \in Node, n \notin outputs
  PROVE  /\ Cardinality(outputs \cup {n}) = Cardinality(outputs) + 1
         /\ Cardinality(outputs \cup {n}) = NodeCount => outputs \cup {n} = Node
<1>1. IsFiniteSet(outputs)
  BY NodesFinite, FS_Subset DEF TypeOK
<1>2. Cardinality(outputs \cup {n}) = Cardinality(outputs) + 1
  BY <1>1, FS_AddElement
<1>3. outputs \cup {n} \subseteq Node
  BY DEF TypeOK
<1>4. QED
  BY <1>2, <1>3, NodesFinite, FS_Subset

-----------------------------------------------------------------------------
(***************************************************************************)
(* Steps of one pool thread that touch neither the lock nor the pool.      *)
(***************************************************************************)

\* What these steps have in common, for thread n: it moves on inside
\* _execute_node, writes at most its own row and publishes no run event.
LocalStep(n) ==
    /\ pc[n] \in Working \ {"recording", "submitting", "failing"}
    /\ \E to \in Working \ {"submitting"} : pc' = [pc EXCEPT ![n] = to]
    /\ UNCHANGED <<job, runStatus, locked, pool, control>>
    /\ faults' \in 0..MaxFaults
    /\ artifacts' \subseteq Node
    /\ \/ nodeStatus' = nodeStatus /\ pc'[n] # "announcingDone"
       \/ \E s \in {"running", "completed"} :
            /\ nodeStatus' = [nodeStatus EXCEPT ![n] = s]
            /\ pc'[n] = "announcingDone" => s = "completed"
            /\ pc'[n] # "recording"
    /\ \/ events' = events
       \/ \E t \in {"node.started", "artifact.created", "node.completed"} :
            events' = events \cup {<<t, n>>}
    /\ pc'[n] = "recording" =>
         pc[n] = "announcingDone" /\ <<"node.completed", n>> \in events'

LEMMA LocalSteps ==
  ASSUME TypeOK, NEW n \in Node,
         \/ ResolveInputs(n) \/ StartNode(n) \/ PublishStarted(n) \/ Execute(n)
         \/ StoreArtifact(n) \/ PublishArtifact(n) \/ CompleteNode(n)
         \/ PublishCompleted(n)
  PROVE  LocalStep(n)
<1> USE SizeAssumption DEF TypeOK, LocalStep, Working, Attempt, Proceed, Raise,
        SetRow, Publish, rows, locked, pool, control
<1>1. CASE ResolveInputs(n)
  BY <1>1 DEF ResolveInputs
<1>2. CASE StartNode(n)
  BY <1>2 DEF StartNode
<1>3. CASE PublishStarted(n)
  <2>1. events' = events \/ events' = events \cup {<<"node.started", n>>}
    BY <1>3 DEF PublishStarted
  <2>2. \/ events' = events
        \/ \E t \in {"node.started", "artifact.created", "node.completed"} :
             events' = events \cup {<<t, n>>}
    BY <2>1
  <2>3. /\ pc[n] = "announcing"
        /\ pc' = [pc EXCEPT ![n] = "executing"] \/ pc' = [pc EXCEPT ![n] = "failing"]
        /\ faults' \in 0..MaxFaults
        /\ UNCHANGED <<job, rows, locked, pool, control>>
    BY <1>3 DEF PublishStarted
  <2>4. /\ pc'[n] \in {"executing", "failing"}
        /\ \E to \in Working \ {"submitting"} : pc' = [pc EXCEPT ![n] = to]
    BY <2>3
  <2>5. QED
    BY <2>2, <2>3, <2>4
<1>4. CASE Execute(n)
  BY <1>4 DEF Execute
<1>5. CASE StoreArtifact(n)
  BY <1>5 DEF StoreArtifact
<1>6. CASE PublishArtifact(n)
  <2>1. events' = events \/ events' = events \cup {<<"artifact.created", n>>}
    BY <1>6 DEF PublishArtifact
  <2>2. \/ events' = events
        \/ \E t \in {"node.started", "artifact.created", "node.completed"} :
             events' = events \cup {<<t, n>>}
    BY <2>1
  <2>3. /\ pc[n] = "announcingArtifact"
        /\ pc' = [pc EXCEPT ![n] = "completing"] \/ pc' = [pc EXCEPT ![n] = "failing"]
        /\ faults' \in 0..MaxFaults
        /\ UNCHANGED <<job, rows, locked, pool, control>>
    BY <1>6 DEF PublishArtifact
  <2>4. /\ pc'[n] \in {"completing", "failing"}
        /\ \E to \in Working \ {"submitting"} : pc' = [pc EXCEPT ![n] = to]
    BY <2>3
  <2>5. QED
    BY <2>2, <2>3, <2>4
<1>7. CASE CompleteNode(n)
  BY <1>7 DEF CompleteNode
<1>8. CASE PublishCompleted(n)
  <2>1. events' = events \/ events' = events \cup {<<"node.completed", n>>}
    BY <1>8 DEF PublishCompleted
  <2>2. \/ events' = events
        \/ \E t \in {"node.started", "artifact.created", "node.completed"} :
             events' = events \cup {<<t, n>>}
    BY <2>1
  <2>3. /\ pc[n] = "announcingDone"
        /\ \/ pc' = [pc EXCEPT ![n] = "recording"] /\ <<"node.completed", n>> \in events'
           \/ pc' = [pc EXCEPT ![n] = "failing"]
        /\ faults' \in 0..MaxFaults
        /\ UNCHANGED <<job, rows, locked, pool, control>>
    BY <1>8 DEF PublishCompleted
  <2>4. /\ pc'[n] \in {"recording", "failing"}
        /\ pc'[n] = "recording" => <<"node.completed", n>> \in events'
        /\ \E to \in Working \ {"submitting"} : pc' = [pc EXCEPT ![n] = to]
    BY <2>3
  <2>5. QED
    BY <2>2, <2>3, <2>4
<1>9. QED
  BY <1>1, <1>2, <1>3, <1>4, <1>5, <1>6, <1>7, <1>8

LEMMA OpenEdgesUnchanged ==
  ASSUME UNCHANGED <<job, outputs>>
  PROVE  \A v \in Node : OpenEdges(v)' = OpenEdges(v)
BY DEF OpenEdges, EdgesInto

LEMMA LocalPreserves ==
  ASSUME IInv, NEW n \in Node, LocalStep(n)
  PROVE  IInv'
<1> USE DEF IInv
<1>0. PICK to \in Working \ {"submitting"} : pc' = [pc EXCEPT ![n] = to]
  BY DEF LocalStep
<1>a. /\ pc'[n] = to
      /\ \A m \in Node : m # n => pc'[m] = pc[m]
      /\ pc[n] \in Working /\ pc[n] \notin {"recording", "submitting", "failing"}
      /\ pc[n] \notin {"idle", "queued", "finished"}
      /\ to \notin {"idle", "queued", "finished", "submitting"}
  BY <1>0 DEF LocalStep, TypeOK, Working
<1>b. UNCHANGED <<job, runStatus, indegree, outputs, completedCount, done,
                  firstFailure, queue, shut, toSubmit, main, outcome>>
  BY DEF LocalStep, locked, pool, control
<1>c. n \notin outputs
  BY <1>a DEF OutputInv
<1>d. main \in {"submitting", "waiting", "draining"}
  BY <1>a DEF MainInv, Quiet, Busy
<1>1. TypeOK'
  <2>1. pc' \in [Node -> Working \cup {"idle", "queued", "finished"}]
    BY <1>0 DEF TypeOK
  <2>2. nodeStatus' \in [Node -> RowState] /\ artifacts' \subseteq Node
    BY DEF TypeOK, LocalStep, RowState
  <2>3. events' \subseteq Event
    BY DEF TypeOK, LocalStep, Event
  <2>4. faults' \in 0..MaxFaults
    BY DEF LocalStep
  <2>5. QED
    BY <1>b, <2>1, <2>2, <2>3, <2>4 DEF TypeOK
<1>2. IndegreeInv'
  BY <1>a, <1>b, OpenEdgesUnchanged DEF IndegreeInv
<1>3. ClaimInv'
  <2>1. \A t \in Node \cup {None} : toSubmit[t] \subseteq Node
    BY DEF TypeOK
  <2>2. QED
    BY <2>1, <1>a, <1>b DEF ClaimInv
<1>4. QueueInv'
  <2>1. \A i \in DOMAIN queue : queue[i] \in Node /\ queue[i] # n
    BY <1>a DEF QueueInv, TypeOK
  <2>2. QED
    BY <2>1, <1>a, <1>b DEF QueueInv
<1>5. OutputInv'
  <2>1. \A m \in outputs : /\ m # n
                           /\ nodeStatus'[m] = nodeStatus[m]
                           /\ pc'[m] = pc[m]
    BY <1>a, <1>c DEF LocalStep, TypeOK
  <2>2. events \subseteq events'
    BY DEF LocalStep
  <2>3. \A m \in Node \ {n} : nodeStatus'[m] = nodeStatus[m] /\ pc'[m] = pc[m]
    BY <1>a DEF LocalStep, TypeOK
  <2>4. /\ pc'[n] \in {"announcingDone", "recording"} => nodeStatus'[n] = "completed"
        /\ pc'[n] = "recording" => <<"node.completed", n>> \in events'
    BY DEF LocalStep, TypeOK, OutputInv
  <2>5. QED
    BY <1>b, <2>1, <2>2, <2>3, <2>4 DEF OutputInv
<1>6. FailureInv'
  BY <1>a, <1>b, <1>c DEF FailureInv, TypeOK
<1>7. MainInv'
  <2>1. {<<"run.completed", None>>, <<"run.failed", None>>} \cap events' =
          {<<"run.completed", None>>, <<"run.failed", None>>} \cap events
    BY DEF LocalStep
  <2>2. QED
    BY <1>b, <1>d, <2>1 DEF MainInv
<1>8. QED
  BY <1>1, <1>2, <1>3, <1>4, <1>5, <1>6, <1>7

-----------------------------------------------------------------------------
(***************************************************************************)
(* The steps of a pool thread that use the pool or the lock.               *)
(***************************************************************************)

LEMMA BeginPreserves ==
  ASSUME IInv, NEW n \in Node, Begin(n)
  PROVE  IInv'
<1> USE DEF IInv, rows, locked, control
<1>0. /\ queue \in Seq(Node) /\ queue # <<>> /\ n = queue[1]
      /\ queue' = Tail(queue)
      /\ pc' = [pc EXCEPT ![n] = "resolving"]
      /\ UNCHANGED <<job, runStatus, nodeStatus, artifacts, events, indegree,
                     outputs, completedCount, done, firstFailure, shut,
                     toSubmit, main, outcome, faults>>
  BY DEF Begin, TypeOK
<1>1. /\ 1 \in DOMAIN queue
      /\ DOMAIN queue' = 1..(Len(queue) - 1)
      /\ \A i \in DOMAIN queue' : queue'[i] = queue[i + 1] /\ i + 1 \in DOMAIN queue
  BY <1>0
<1>2. pc[n] = "queued"
  BY <1>0, <1>1 DEF QueueInv
<1>3. /\ pc'[n] = "resolving"
      /\ \A m \in Node : m # n => pc'[m] = pc[m]
  BY <1>0 DEF TypeOK
<1>4. main \in {"submitting", "waiting", "draining"}
  BY <1>0 DEF MainInv, Quiet
<1>5. TypeOK'
  BY <1>0, <1>1 DEF TypeOK, Working
<1>6. IndegreeInv'
  BY <1>0, <1>2, <1>3, OpenEdgesUnchanged DEF IndegreeInv
<1>7. ClaimInv'
  <2>1. \A t \in Node \cup {None} : toSubmit[t] \subseteq Node
    BY DEF TypeOK
  <2>2. QED
    BY <2>1, <1>0, <1>2, <1>3 DEF ClaimInv
<1>8. QueueInv'
  <2>1. \A i \in DOMAIN queue' : queue'[i] \in Node /\ queue'[i] # n
    BY <1>0, <1>1 DEF QueueInv
  <2>2. \A i \in DOMAIN queue' : pc'[queue'[i]] = "queued"
    BY <2>1, <1>1, <1>3 DEF QueueInv
  <2>3. ASSUME NEW i \in DOMAIN queue', NEW k \in DOMAIN queue', queue'[i] = queue'[k]
        PROVE  i = k
    <3>1. i \in Int /\ k \in Int
      BY <1>0, <1>1
    <3>2. i + 1 = k + 1
      BY <2>3, <1>1 DEF QueueInv
    <3>3. QED
      BY <3>1, <3>2
  <2>4. QED
    BY <2>2, <2>3 DEF QueueInv
<1>9. OutputInv'
  <2>1. n \notin outputs
    BY <1>2 DEF OutputInv
  <2>2. \A m \in outputs : m \in Node /\ pc'[m] = pc[m]
    BY <2>1, <1>3 DEF TypeOK
  <2>3. QED
    BY <2>2, <1>0, <1>3 DEF OutputInv
<1>10. FailureInv'
  <2>1. n # firstFailure /\ n \notin outputs
    BY <1>2, NodeFacts DEF FailureInv, OutputInv
  <2>2. \A m \in outputs : m \in Node /\ pc'[m] = pc[m]
    BY <2>1, <1>3 DEF TypeOK
  <2>3. firstFailure # None => pc'[firstFailure] = pc[firstFailure]
    BY <2>1, <1>3 DEF TypeOK
  <2>4. QED
    BY <2>1, <2>2, <2>3, <1>0 DEF FailureInv
<1>11. MainInv'
  BY <1>0, <1>4 DEF MainInv
<1>12. QED
  BY <1>5, <1>6, <1>7, <1>8, <1>9, <1>10, <1>11

\* A thread at work is inside the with block: the main thread is at one of
\* these three places and the run's row is not terminal.
LEMMA BusyMeansOpen ==
  ASSUME TypeOK, MainInv, NEW n \in Node, pc[n] \in Working
  PROVE  /\ main \in {"submitting", "waiting", "draining"}
         /\ runStatus \notin {"completed", "failed"}
         /\ {<<"run.completed", None>>, <<"run.failed", None>>} \cap events = {}
BY DEF MainInv, Quiet, Busy

\* No idle node is left once every node has recorded its outputs.
LEMMA AllRecordedNoneClaimed ==
  ASSUME TypeOK, ClaimInv, OutputInv, outputs = Node,
         NEW t \in Node \cup {None}
  PROVE  toSubmit[t] = {}
<1>1. toSubmit[t] \subseteq Node
  BY DEF TypeOK
<1>2. \A v \in toSubmit[t] : v \in outputs /\ pc[v] = "idle"
  BY <1>1 DEF ClaimInv
<1>3. QED
  BY <1>2 DEF OutputInv

LEMMA HandleFailurePreserves ==
  ASSUME IInv, NEW n \in Node, HandleFailure(n)
  PROVE  IInv'
<1> USE DEF IInv, rows, locked, pool, control
<1>0. /\ pc[n] = "failing"
      /\ pc' = [pc EXCEPT ![n] = "finished"]
      /\ UNCHANGED <<job, runStatus, nodeStatus, artifacts, events, indegree,
                     outputs, completedCount, queue, shut, toSubmit, main,
                     outcome, faults>>
      /\ \/ firstFailure = None /\ firstFailure' = n /\ done' = TRUE
         \/ firstFailure # None /\ UNCHANGED <<firstFailure, done>>
  BY DEF HandleFailure, NoteFailure, Proceed
<1>1. /\ pc'[n] = "finished"
      /\ \A m \in Node : m # n => pc'[m] = pc[m]
  BY <1>0 DEF TypeOK
<1>2. main \in {"submitting", "waiting", "draining"}
      /\ runStatus \notin {"completed", "failed"}
  BY <1>0, BusyMeansOpen DEF Working
<1>3. TypeOK'
  BY <1>0 DEF TypeOK
<1>4. IndegreeInv'
  BY <1>0, <1>1, OpenEdgesUnchanged DEF IndegreeInv
<1>5. ClaimInv'
  <2>1. \A t \in Node \cup {None} : toSubmit[t] \subseteq Node
    BY DEF TypeOK
  <2>2. QED
    BY <2>1, <1>0, <1>1 DEF ClaimInv
<1>6. QueueInv'
  <2>1. \A i \in DOMAIN queue : queue[i] \in Node /\ queue[i] # n
    BY <1>0 DEF QueueInv, TypeOK
  <2>2. QED
    BY <2>1, <1>0, <1>1 DEF QueueInv
<1>7. OutputInv'
  <2>1. outputs \subseteq Node
    BY DEF TypeOK
  <2>2. QED
    BY <2>1, <1>0, <1>1 DEF OutputInv
<1>8. FailureInv'
  <2>1. outputs \subseteq Node /\ firstFailure \in Node \cup {None}
    BY DEF TypeOK
  <2>2. CASE firstFailure = None
    <3>1. n \notin outputs
      BY <2>2, <1>0 DEF FailureInv
    <3>2. n # None
      BY NodeFacts
    <3>3. QED
      BY <2>2, <3>1, <3>2, <1>0, <1>1 DEF FailureInv
  <2>3. CASE firstFailure # None
    BY <2>1, <2>3, <1>0, <1>1 DEF FailureInv
  <2>4. QED
    BY <2>2, <2>3
<1>9. MainInv'
  BY <1>0, <1>2 DEF MainInv
<1>10. QED
  BY <1>3, <1>4, <1>5, <1>6, <1>7, <1>8, <1>9

LEMMA RecordPreserves ==
  ASSUME IInv, NEW n \in Node, Record(n)
  PROVE  IInv'
<1> USE DEF IInv, rows, locked, pool, control
<1> DEFINE released == Released(indegree, job.edges, n)
<1>0. /\ pc[n] = "recording"
      /\ outputs' = outputs \cup {n}
      /\ completedCount' = completedCount + 1
      /\ UNCHANGED <<job, runStatus, nodeStatus, artifacts, events, firstFailure,
                     queue, shut, main, outcome, faults>>
      /\ \/ /\ firstFailure # None
            /\ pc' = [pc EXCEPT ![n] = "finished"]
            /\ UNCHANGED <<indegree, done, toSubmit>>
         \/ /\ firstFailure = None
            /\ pc' = [pc EXCEPT ![n] = IF released = {} THEN "finished"
                                       ELSE "submitting"]
            /\ indegree' = Decrement(indegree, job.edges, n)
            /\ toSubmit' = [toSubmit EXCEPT ![n] = released]
            /\ done' = (done \/ completedCount + 1 = NodeCount)
  BY DEF Record, Proceed, IsLast
<1>1. /\ pc'[n] \in {"submitting", "finished"}
      /\ \A m \in Node : m # n => pc'[m] = pc[m]
      /\ pc'[n] = "submitting" => firstFailure = None /\ released # {}
  BY <1>0 DEF TypeOK
<1>2. /\ n \notin outputs
      /\ outputs \subseteq Node
      /\ nodeStatus[n] = "completed"
      /\ <<"node.completed", n>> \in events
  BY <1>0 DEF OutputInv, TypeOK
<1>3. /\ main \in {"submitting", "waiting", "draining"}
      /\ runStatus \notin {"completed", "failed"}
      /\ {<<"run.completed", None>>, <<"run.failed", None>>} \cap events = {}
  BY <1>0, BusyMeansOpen DEF Working
<1>4. \A v \in Node :
        /\ indegree[v] \in Int
        /\ Cardinality(OpenEdges(v)') =
             Cardinality(OpenEdges(v)) - Cardinality(EdgesBetween(job.edges, n, v))
        /\ Cardinality(OpenEdges(v)') <= Cardinality(OpenEdges(v))
        /\ Cardinality(OpenEdges(v)) \in Nat
        /\ EdgesBetween(job.edges, n, v) # {} => indegree[v] # 0
        /\ Cardinality(EdgesBetween(job.edges, n, v)) \in Nat
        /\ EdgesBetween(job.edges, n, v) = {}
             => Cardinality(EdgesBetween(job.edges, n, v)) = 0
  <2>1. \A v \in Node : indegree[v] \in Int
    BY DEF TypeOK
  <2>2. \A v \in Node : Cardinality(OpenEdges(v)) \in Nat
    BY EdgesFinite DEF OpenEdges, EdgesInto
  <2>3. QED
    BY <2>1, <2>2, <1>0, <1>2, DecrementKeepsBound
<1>5. /\ released \subseteq Node
      /\ \A v \in released : indegree[v] # 0
      /\ firstFailure = None => \A v \in released : indegree'[v] = 0
  <2>1. DOMAIN indegree = Node
    BY DEF TypeOK
  <2>2. QED
    BY <2>1, <1>0, <1>4 DEF Released
<1>6. \A v \in Node : pc[v] = "idle" \/ indegree[v] = 0
  BY DEF IndegreeInv
<1>7. \A v \in Node : /\ indegree'[v] \in Int
                      /\ indegree'[v] >= Cardinality(OpenEdges(v)')
                      /\ indegree[v] = 0 => indegree'[v] = 0
  <2>1. \A v \in Node : indegree[v] >= Cardinality(OpenEdges(v))
    BY DEF IndegreeInv
  <2>2. CASE firstFailure # None
    BY <2>1, <2>2, <1>0, <1>4
  <2>3. CASE firstFailure = None
    <3>1. \A v \in Node : indegree'[v] =
            indegree[v] - Cardinality(EdgesBetween(job.edges, n, v))
      BY <2>3, <1>0 DEF Decrement, TypeOK
    <3>2. QED
      BY <3>1, <2>1, <1>4
  <2>4. QED
    BY <2>2, <2>3
<1>8. TypeOK'
  <2>1. completedCount' \in Nat /\ outputs' \subseteq Node
    BY <1>0, <1>2 DEF TypeOK
  <2>a. done' \in BOOLEAN
    <3>1. done \in BOOLEAN
      BY DEF TypeOK
    <3>2. (done \/ completedCount + 1 = NodeCount) \in BOOLEAN
      OBVIOUS
    <3>3. done' = done \/ done' = (done \/ completedCount + 1 = NodeCount)
      BY <1>0, Zenon
    <3>4. QED
      BY <3>1, <3>2, <3>3, Zenon
  <2>2. indegree' \in [Node -> Int]
    BY <1>0, <1>4 DEF Decrement, TypeOK
  <2>3. toSubmit' \in [Node \cup {None} -> SUBSET Node]
    <3>1. \/ toSubmit' = toSubmit
          \/ toSubmit' = [toSubmit EXCEPT ![n] = released]
      BY <1>0
    <3>2. toSubmit \in [Node \cup {None} -> SUBSET Node] /\ released \subseteq Node
      BY <1>5 DEF TypeOK
    <3> HIDE DEF released
    <3> QED
      BY <3>1, <3>2
  <2>4. pc' \in [Node -> Working \cup {"idle", "queued", "finished"}]
    BY <1>0 DEF TypeOK, Working
  <2>5. QED
    BY <2>1, <2>a, <2>2, <2>3, <2>4, <1>0 DEF TypeOK
<1>9. IndegreeInv'
  BY <1>0, <1>1, <1>6, <1>7 DEF IndegreeInv
<1>10. ClaimInv'
  <2>1. \A t \in Node \cup {None} : toSubmit[t] \subseteq Node
    BY DEF TypeOK
  <2>2. \A t \in Node \cup {None} : \A v \in toSubmit[t] :
          v # n /\ indegree'[v] = 0 /\ pc'[v] = "idle"
    BY <2>1, <1>0, <1>1, <1>7 DEF ClaimInv
  <2>3. CASE firstFailure # None
    BY <2>1, <2>2, <2>3, <1>0, <1>1 DEF ClaimInv
  <2>4. CASE firstFailure = None
    <3>1. /\ toSubmit'[n] = released
          /\ \A t \in Node \cup {None} : t # n => toSubmit'[t] = toSubmit[t]
      BY <2>4, <1>0 DEF TypeOK
    <3>2. \A v \in released : v # n /\ indegree'[v] = 0 /\ pc'[v] = "idle"
      BY <2>4, <1>0, <1>1, <1>5, <1>6
    <3>3. \A t \in Node \cup {None} : toSubmit[t] \cap released = {}
      BY <2>1, <1>5 DEF ClaimInv
    <3>4. pc'[n] = "submitting" => toSubmit'[n] # {}
      BY <3>1, <1>1
    <3>5. QED
      BY <2>2, <3>1, <3>2, <3>3, <3>4, <1>1 DEF ClaimInv
  <2>5. QED
    BY <2>3, <2>4
<1>11. QueueInv'
  <2>1. \A i \in DOMAIN queue : queue[i] \in Node /\ queue[i] # n
    BY <1>0 DEF QueueInv, TypeOK
  <2>2. QED
    BY <2>1, <1>0, <1>1 DEF QueueInv
<1>12. OutputInv'
  <2>1. completedCount' = Cardinality(outputs')
    BY <1>0, <1>2, CountStep DEF OutputInv
  <2>2. QED
    BY <2>1, <1>0, <1>1, <1>2 DEF OutputInv
<1>13. FailureInv'
  <2>1. firstFailure # None => firstFailure \in Node /\ firstFailure # n
    BY <1>0 DEF FailureInv, TypeOK
  <2>2. done' => firstFailure' # None \/ outputs' = Node
    <3>1. done => firstFailure # None \/ outputs' = Node
      BY <1>0, <1>2 DEF FailureInv
    <3>2. completedCount + 1 = NodeCount => outputs' = Node
      BY <1>0, <1>2, CountStep DEF OutputInv
    <3>3. QED
      BY <3>1, <3>2, <1>0
  <2>3. QED
    BY <2>1, <2>2, <1>0, <1>1, <1>2 DEF FailureInv
<1>14. MainInv'
  BY <1>0, <1>3 DEF MainInv
<1>15. QED
  BY <1>8, <1>9, <1>10, <1>11, <1>12, <1>13, <1>14

\* One executor.submit(m): by a pool thread t, which ends with its last item,
\* or by the main thread (None).
EnqueueStep(t, m) ==
    /\ m \in toSubmit[t] /\ m # t /\ t \in Node \cup {None}
    /\ queue' = Append(queue, m)
    /\ toSubmit' = [toSubmit EXCEPT ![t] = @ \ {m}]
    /\ \A k \in Node \ {m, t} : pc'[k] = pc[k]
    /\ pc' \in [Node -> Working \cup {"idle", "queued", "finished"}]
    /\ pc'[m] = "queued"
    /\ t # None => /\ pc[t] = "submitting"
                   /\ pc'[t] \in {"submitting", "finished"}
                   /\ pc'[t] = "submitting" => toSubmit[t] # {m}
    /\ UNCHANGED <<job, runStatus, nodeStatus, artifacts, events, indegree,
                   outputs, completedCount, done, firstFailure, shut>>

\* What a submission preserves, wherever the main thread is.
LEMMA EnqueueKeeps ==
  ASSUME IInv, NEW t \in Node \cup {None}, NEW m \in Node, EnqueueStep(t, m)
  PROVE  IndegreeInv' /\ ClaimInv' /\ QueueInv' /\ OutputInv' /\ FailureInv'
<1> USE DEF IInv
<1>1. /\ queue' = Append(queue, m)
      /\ \A k \in Node \ {m, t} : pc'[k] = pc[k]
      /\ pc'[m] = "queued" /\ m # t
      /\ t \in Node => pc[t] = "submitting" /\ pc'[t] \in {"submitting", "finished"}
      /\ UNCHANGED <<job, nodeStatus, events, indegree, outputs, completedCount,
                     done, firstFailure, shut>>
  BY NodeFacts DEF EnqueueStep
<1>2. pc[m] = "idle" /\ indegree[m] = 0
  BY DEF EnqueueStep, ClaimInv
<1>3. /\ toSubmit'[t] = toSubmit[t] \ {m}
      /\ \A s \in Node \cup {None} : s # t => toSubmit'[s] = toSubmit[s]
      /\ \A s \in Node \cup {None} : toSubmit[s] \subseteq Node
      /\ m \in toSubmit[t]
  BY DEF EnqueueStep, TypeOK
<1>4. IndegreeInv'
  BY <1>1, <1>2, OpenEdgesUnchanged DEF IndegreeInv
<1>5. ClaimInv'
  <2>1. \A s \in Node \cup {None} : m \notin toSubmit'[s]
    BY <1>3 DEF ClaimInv
  <2>2. \A s \in Node \cup {None} : toSubmit'[s] \subseteq toSubmit[s]
    BY <1>3
  <2>3. \A s \in Node \cup {None} : \A v \in toSubmit'[s] :
          v \in Node /\ v # m /\ v # t /\ indegree[v] = 0 /\ pc[v] = "idle"
    BY <2>1, <2>2, <1>1, <1>3 DEF ClaimInv
  <2>4. \A s, u \in Node \cup {None} : s # u => toSubmit'[s] \cap toSubmit'[u] = {}
    BY <2>2 DEF ClaimInv
  <2>5. ASSUME NEW k \in Node, pc'[k] = "submitting"
        PROVE  toSubmit'[k] # {}
    <3>1. CASE k = t
      BY <3>1, <2>5, <1>3, NodeFacts DEF EnqueueStep
    <3>2. CASE k # t
      BY <3>2, <2>5, <1>1, <1>3 DEF ClaimInv
    <3>3. QED
      BY <3>1, <3>2
  <2>6. QED
    BY <2>3, <2>4, <2>5, <1>1 DEF ClaimInv
<1>6. QueueInv'
  <2>1. queue \in Seq(Node)
    BY DEF TypeOK
  <2>2. /\ DOMAIN queue' = 1..(Len(queue) + 1)
        /\ DOMAIN queue = 1..Len(queue)
        /\ Len(queue) \in Nat
        /\ queue'[Len(queue) + 1] = m
        /\ \A i \in DOMAIN queue : queue'[i] = queue[i] /\ queue[i] \in Node
    BY <2>1, <1>1
  <2>3. \A i \in DOMAIN queue : queue[i] # m /\ queue[i] # t /\ pc[queue[i]] = "queued"
    BY <2>2, <1>1, <1>2, NodeFacts DEF QueueInv
  <2>4. \A i \in DOMAIN queue : pc'[queue[i]] = "queued"
    BY <2>2, <2>3, <1>1
  <2>5. \A i \in DOMAIN queue' : i \in DOMAIN queue \/ i = Len(queue) + 1
    BY <2>2
  <2>6. \A i \in DOMAIN queue' : pc'[queue'[i]] = "queued"
    BY <2>2, <2>4, <2>5, <1>1
  <2>7. \A i, k \in DOMAIN queue' : queue'[i] = queue'[k] => i = k
    BY <2>2, <2>3, <2>5 DEF QueueInv
  <2>8. QED
    BY <2>6, <2>7 DEF QueueInv
<1>7. OutputInv'
  <2>1. \A k \in outputs : k \in Node /\ k # m
    BY <1>2 DEF OutputInv, TypeOK
  <2>2. \A k \in Node : pc'[k] \in {"announcingDone", "recording"} => pc'[k] = pc[k]
    BY <1>1
  <2>3. \A k \in outputs : pc'[k] \in {"submitting", "failing", "finished"}
    BY <2>1, <1>1 DEF OutputInv
  <2>4. QED
    BY <2>2, <2>3, <1>1 DEF OutputInv
<1>8. FailureInv'
  <2>1. outputs \subseteq Node
    BY DEF TypeOK
  <2>2. firstFailure # None =>
          firstFailure \in Node /\ firstFailure # m /\ firstFailure # t
    BY <1>1, <1>2, NodeFacts DEF FailureInv, TypeOK
  <2>3. \A k \in outputs : pc'[k] = "failing" => pc[k] = "failing"
    BY <2>1, <1>1
  <2>4. QED
    BY <2>2, <2>3, <1>1 DEF FailureInv
<1>9. QED
  BY <1>4, <1>5, <1>6, <1>7, <1>8

LEMMA SubmitNextPreserves ==
  ASSUME IInv, NEW n \in Node, SubmitNext(n)
  PROVE  IInv'
<1> USE DEF IInv, rows, locked, control
<1> DEFINE m == Min(toSubmit[n])
<1>0. /\ pc[n] = "submitting"
      /\ UNCHANGED <<job, runStatus, nodeStatus, artifacts, events, indegree,
                     outputs, completedCount, done, firstFailure, shut, main,
                     outcome, faults>>
  BY DEF SubmitNext
<1>1. toSubmit[n] # {} /\ toSubmit[n] \subseteq Node
  BY <1>0 DEF ClaimInv, TypeOK
<1>2. m \in toSubmit[n] /\ m \in Node
  BY <1>1, MinOfNodes
<1>3. main \in {"submitting", "waiting", "draining"}
  BY <1>0, BusyMeansOpen DEF Working
<1>4. pc[m] = "idle" /\ indegree[m] = 0 /\ m # n
  BY <1>0, <1>2 DEF ClaimInv
<1>5. CASE /\ Enqueue(n, m)
           /\ pc' = [pc EXCEPT ![m] = "queued",
                               ![n] = IF toSubmit[n] = {m} THEN "finished"
                                      ELSE "submitting"]
  <2>1. EnqueueStep(n, m)
    BY <1>0, <1>2, <1>4, <1>5 DEF EnqueueStep, Enqueue, TypeOK
  <2>2. IndegreeInv' /\ ClaimInv' /\ QueueInv' /\ OutputInv' /\ FailureInv'
    BY <2>1, <1>2, EnqueueKeeps
  <2>3. TypeOK'
    <3>1. pc' \in [Node -> Working \cup {"idle", "queued", "finished"}]
      BY <1>5 DEF TypeOK, Working
    <3>2. queue' \in Seq(Node)
      BY <1>2, <1>5 DEF TypeOK, Enqueue
    <3>3. toSubmit' \in [Node \cup {None} -> SUBSET Node]
      BY <1>5 DEF TypeOK, Enqueue
    <3>4. QED
      BY <1>0, <3>1, <3>2, <3>3 DEF TypeOK
  <2>4. MainInv'
    BY <1>0, <1>3 DEF MainInv
  <2>5. QED
    BY <2>2, <2>3, <2>4
<1>6. CASE shut /\ pc' = [pc EXCEPT ![n] = "failing"] /\ UNCHANGED <<queue, toSubmit>>
  <2>1. /\ pc'[n] = "failing"
        /\ \A k \in Node : k # n => pc'[k] = pc[k]
    BY <1>6 DEF TypeOK
  <2>2. firstFailure # None
    <3>1. outputs # Node
      BY <1>1, AllRecordedNoneClaimed
    <3>2. QED
      BY <3>1, <1>6 DEF FailureInv
  <2>3. TypeOK'
    BY <1>0, <1>6 DEF TypeOK, Working
  <2>4. IndegreeInv'
    BY <1>0, <2>1, OpenEdgesUnchanged DEF IndegreeInv
  <2>5. ClaimInv'
    <3>1. \A t \in Node \cup {None} : toSubmit[t] \subseteq Node
      BY DEF TypeOK
    <3>2. QED
      BY <3>1, <1>0, <1>6, <2>1 DEF ClaimInv
  <2>6. QueueInv'
    <3>1. \A i \in DOMAIN queue : queue[i] \in Node /\ queue[i] # n
      BY <1>0 DEF QueueInv, TypeOK
    <3>2. QED
      BY <3>1, <1>6, <2>1 DEF QueueInv
  <2>7. OutputInv'
    <3>1. outputs \subseteq Node
      BY DEF TypeOK
    <3>2. QED
      BY <3>1, <1>0, <2>1 DEF OutputInv
  <2>8. FailureInv'
    <3>1. outputs \subseteq Node /\ firstFailure \in Node /\ firstFailure # n
      BY <1>0, <2>2 DEF FailureInv, TypeOK
    <3>2. QED
      BY <3>1, <1>0, <2>1, <2>2 DEF FailureInv
  <2>9. MainInv'
    BY <1>0, <1>3, <1>6 DEF MainInv
  <2>10. QED
    BY <2>3, <2>4, <2>5, <2>6, <2>7, <2>8, <2>9
<1>7. QED
  BY <1>5, <1>6 DEF SubmitNext

-----------------------------------------------------------------------------
(***************************************************************************)
(* The main thread.                                                        *)
(***************************************************************************)

\* Outside the with block the main thread leaves the pool and the lock alone
\* and never takes a completed row away from a node other than the culprit.
OutsidePool ==
    /\ main \notin {"submitting", "waiting", "draining"}
    /\ UNCHANGED <<job, locked, pool, pc>>
    /\ \A n \in Node : nodeStatus[n] = "completed" /\ n # firstFailure
                         => nodeStatus'[n] = "completed"
    /\ events \subseteq events'

LEMMA OutsidePoolKeeps ==
  ASSUME IInv, OutsidePool
  PROVE  IndegreeInv' /\ ClaimInv' /\ QueueInv' /\ OutputInv' /\ FailureInv'
<1> USE DEF IInv, locked, pool
<1>1. UNCHANGED <<job, indegree, outputs, completedCount, done, firstFailure,
                  queue, shut, toSubmit, pc>>
  BY DEF OutsidePool
<1>2. \A n \in Node : pc[n] \notin Working
  BY DEF OutsidePool, MainInv, Quiet, Busy
<1>3. \A n \in outputs : n \in Node /\ n # firstFailure
  BY NodeFacts DEF FailureInv, TypeOK
<1>4. IndegreeInv'
  BY <1>1, OpenEdgesUnchanged DEF IndegreeInv
<1>5. ClaimInv'
  BY <1>1 DEF ClaimInv
<1>6. QueueInv'
  BY <1>1 DEF QueueInv
<1>7. OutputInv'
  <2>1. \A n \in outputs : /\ nodeStatus'[n] = "completed"
                           /\ <<"node.completed", n>> \in events'
    BY <1>3 DEF OutputInv, OutsidePool
  <2>2. \A n \in Node : pc[n] \notin {"announcingDone", "recording"}
    BY <1>2 DEF Working
  <2>3. QED
    BY <2>1, <2>2, <1>1 DEF OutputInv
<1>8. FailureInv'
  BY <1>1 DEF FailureInv
<1>9. QED
  BY <1>4, <1>5, <1>6, <1>7, <1>8

LEMMA StartRunPreserves ==
  ASSUME IInv, StartRun
  PROVE  IInv'
<1> USE DEF IInv
<1>1. /\ main = "idle"
      /\ UNCHANGED <<job, nodeStatus, artifacts, events, locked, pool, pc>>
      /\ main' \in {"announcing", "skipping", "end"}
      /\ outcome' \in {"none", "duplicate", "failed", "completed", "raised"}
      /\ faults' \in 0..MaxFaults
      /\ \/ runStatus' = "running"
         \/ runStatus' = runStatus /\ main' = "end"
  BY SizeAssumption DEF StartRun, ProceedMain, Return, RaiseMain, TypeOK
<1>2. OutsidePool
  BY <1>1 DEF OutsidePool
<1>3. TypeOK'
  BY <1>1 DEF TypeOK, RunState, locked, pool
<1>4. MainInv'
  BY <1>1 DEF MainInv, Quiet, Busy, locked, pool
<1>5. QED
  BY <1>2, <1>3, <1>4, OutsidePoolKeeps

LEMMA PublishRunStartedPreserves ==
  ASSUME IInv, PublishRunStarted
  PROVE  IInv'
<1> USE DEF IInv
<1>1. /\ main = "announcing"
      /\ UNCHANGED <<job, rows, locked, queue, shut, pc>>
      /\ events' = events \/ events' = events \cup {<<"run.started", None>>}
      /\ faults' \in 0..MaxFaults
      /\ \/ /\ main' = "submitting" /\ outcome' = outcome
            /\ toSubmit' = [toSubmit EXCEPT ![None] = Roots(indegree)]
         \/ /\ main' = "end" /\ outcome' = "raised"
            /\ toSubmit' = toSubmit
  BY SizeAssumption
  DEF PublishRunStarted, ProceedMain, RaiseMain, Publish, TypeOK
<1>2. Roots(indegree) \subseteq Node /\ \A v \in Roots(indegree) : indegree[v] = 0
  BY DEF Roots, TypeOK
<1>3. /\ \A n \in Node : pc[n] = "idle"
      /\ \A t \in Node \cup {None} : toSubmit[t] = {}
      /\ Quiet
  BY <1>1 DEF MainInv
<1>4. TypeOK'
  <2>1. events' \subseteq Event
    BY <1>1 DEF TypeOK, Event
  <2>2. toSubmit' \in [Node \cup {None} -> SUBSET Node]
    BY <1>1, <1>2 DEF TypeOK
  <2>3. QED
    BY <2>1, <2>2, <1>1 DEF TypeOK, rows, locked
<1>5. \A t \in Node \cup {None} :
        toSubmit'[t] = {} \/ (t = None /\ toSubmit'[t] = Roots(indegree))
  BY <1>1, <1>3 DEF TypeOK
<1>6. IndegreeInv'
  BY <1>1, OpenEdgesUnchanged DEF IndegreeInv, locked
<1>7. ClaimInv'
  <2>1. \A n \in Node : pc'[n] = "idle"
    BY <1>1, <1>3
  <2>2. indegree' = indegree
    BY <1>1 DEF locked
  <2>3. QED
    BY <2>1, <2>2, <1>2, <1>5 DEF ClaimInv
<1>8. QueueInv'
  BY <1>1 DEF QueueInv
<1>9. OutputInv' /\ FailureInv'
  <2>1. UNCHANGED <<nodeStatus, outputs, completedCount, done, firstFailure, shut, pc>>
    BY <1>1 DEF rows, locked
  <2>2. events \subseteq events'
    BY <1>1
  <2>3. OutputInv'
    BY <2>1, <2>2, <1>3 DEF OutputInv
  <2>4. FailureInv'
    BY <2>1 DEF FailureInv
  <2>5. QED
    BY <2>3, <2>4
<1>10. MainInv'
  <2>1. Quiet'
    BY <1>1, <1>3 DEF Quiet, Busy
  <2>2. {<<"run.completed", None>>, <<"run.failed", None>>} \cap events' =
          {<<"run.completed", None>>, <<"run.failed", None>>} \cap events
    BY <1>1
  <2>3. UNCHANGED <<runStatus, outputs, firstFailure, shut>>
    BY <1>1 DEF rows, locked
  <2>4. QED
    BY <2>1, <2>2, <2>3, <1>1 DEF MainInv
<1>11. QED
  BY <1>4, <1>6, <1>7, <1>8, <1>9, <1>10

LEMMA SubmitRootPreserves ==
  ASSUME IInv, SubmitRoot
  PROVE  IInv'
<1> USE DEF IInv
<1> DEFINE m == Min(toSubmit[None])
<1>1. /\ toSubmit[None] # {} /\ main = "submitting"
      /\ main' \in {"submitting", "waiting"}
      /\ Enqueue(None, m)
      /\ pc' = [pc EXCEPT ![m] = "queued"]
      /\ UNCHANGED <<job, runStatus, nodeStatus, artifacts, events, indegree,
                     outputs, completedCount, done, firstFailure, shut, outcome,
                     faults>>
  BY DEF SubmitRoot, ProceedMain, rows, locked
<1>2. toSubmit[None] \subseteq Node
  BY DEF TypeOK
<1>3. m \in toSubmit[None] /\ m \in Node /\ m # None
  BY <1>1, <1>2, MinOfNodes, NodeFacts
<1>4. TypeOK'
  BY <1>1, <1>3 DEF TypeOK, Enqueue
<1>5. EnqueueStep(None, m)
  BY <1>1, <1>3 DEF EnqueueStep, Enqueue, TypeOK
<1>6. MainInv'
  BY <1>1 DEF MainInv
<1>7. QED
  BY <1>3, <1>4, <1>5, <1>6, EnqueueKeeps

LEMMA WakePreserves ==
  ASSUME IInv, Wake
  PROVE  IInv'
<1> USE DEF IInv
<1>1. /\ done /\ main = "waiting" /\ main' = "draining" /\ shut' = TRUE
      /\ UNCHANGED <<job, runStatus, nodeStatus, artifacts, events, indegree,
                     outputs, completedCount, done, firstFailure, queue,
                     toSubmit, pc, outcome, faults>>
  BY DEF Wake, ProceedMain, rows, locked
<1>2. TypeOK'
  BY <1>1 DEF TypeOK
<1>3. IndegreeInv'
  BY <1>1, OpenEdgesUnchanged DEF IndegreeInv
<1>4. ClaimInv' /\ QueueInv' /\ OutputInv'
  BY <1>1 DEF ClaimInv, QueueInv, OutputInv
<1>5. FailureInv' /\ MainInv'
  BY <1>1 DEF FailureInv, MainInv
<1>6. QED
  BY <1>2, <1>3, <1>4, <1>5

LEMMA DrainedPreserves ==
  ASSUME IInv, Drained
  PROVE  IInv'
<1> USE DEF IInv
<1>1. /\ Quiet /\ main = "draining"
      /\ main' = IF firstFailure # None THEN "failingNode" ELSE "completingRun"
      /\ UNCHANGED <<job, runStatus, nodeStatus, artifacts, events, indegree,
                     outputs, completedCount, done, firstFailure, queue, shut,
                     toSubmit, pc, outcome, faults>>
  BY DEF Drained, PoolDrained, Quiet, ProceedMain, rows, locked, pool
<1>2. firstFailure # None \/ outputs = Node
  BY <1>1 DEF FailureInv, MainInv
<1>3. TypeOK'
  BY <1>1 DEF TypeOK
<1>4. IndegreeInv'
  BY <1>1, OpenEdgesUnchanged DEF IndegreeInv
<1>5. ClaimInv' /\ QueueInv' /\ OutputInv' /\ FailureInv'
  BY <1>1 DEF ClaimInv, QueueInv, OutputInv, FailureInv
<1>6. MainInv'
  <2>1. Quiet'
    BY <1>1 DEF Quiet, Busy
  <2>2. QED
    BY <2>1, <1>1, <1>2 DEF MainInv
<1>7. QED
  BY <1>3, <1>4, <1>5, <1>6

\* The steps after the with block that write rows or publish, one at a time.
LEMMA EpiloguePreserves ==
  ASSUME IInv,
         \/ FailNode \/ PublishNodeFailed \/ SkipPending \/ FailRun
         \/ PublishRunFailed \/ CompleteRun \/ PublishRunCompleted
  PROVE  IInv'
<1> USE DEF IInv, rows, locked, pool, ProceedMain, RaiseMain, Return
<1> USE SizeAssumption
<1>1. CASE FailNode
  <2>1. OutsidePool /\ MainInv'
    BY <1>1 DEF FailNode, SetRow, OutsidePool, MainInv, Quiet, Busy, TypeOK
  <2>2. TypeOK'
    BY <1>1 DEF FailNode, SetRow, TypeOK, RowState
  <2>3. QED
    BY <2>1, <2>2, OutsidePoolKeeps
<1>2. CASE PublishNodeFailed
  <2>1. OutsidePool /\ MainInv'
    BY <1>2 DEF PublishNodeFailed, Publish, OutsidePool, MainInv, Quiet, Busy
  <2>2. firstFailure \in Node
    BY <1>2 DEF PublishNodeFailed, MainInv, TypeOK
  <2>3. events' \subseteq Event
    BY <1>2, <2>2 DEF PublishNodeFailed, Publish, TypeOK, Event
  <2>4. TypeOK'
    BY <1>2, <2>3 DEF PublishNodeFailed, TypeOK
  <2>5. QED
    BY <2>1, <2>4, OutsidePoolKeeps
<1>3. CASE SkipPending
  <2>1. OutsidePool /\ MainInv'
    BY <1>3 DEF SkipPending, Skippable, OutsidePool, MainInv, Quiet, Busy, TypeOK
  <2>2. TypeOK'
    BY <1>3 DEF SkipPending, Skippable, TypeOK, RowState
  <2>3. QED
    BY <2>1, <2>2, OutsidePoolKeeps
<1>4. CASE FailRun
  <2>1. OutsidePool /\ MainInv'
    BY <1>4 DEF FailRun, OutsidePool, MainInv, Quiet, Busy
  <2>2. TypeOK'
    BY <1>4 DEF FailRun, TypeOK, RunState
  <2>3. QED
    BY <2>1, <2>2, OutsidePoolKeeps
<1>5. CASE PublishRunFailed
  <2>1. OutsidePool /\ MainInv'
    BY <1>5 DEF PublishRunFailed, Publish, OutsidePool, MainInv, Quiet, Busy
  <2>2. events' \subseteq Event
    BY <1>5 DEF PublishRunFailed, Publish, TypeOK, Event
  <2>3. TypeOK'
    BY <1>5, <2>2 DEF PublishRunFailed, TypeOK
  <2>4. QED
    BY <2>1, <2>3, OutsidePoolKeeps
<1>6. CASE CompleteRun
  <2>1. OutsidePool /\ MainInv'
    BY <1>6 DEF CompleteRun, OutsidePool, MainInv, Quiet, Busy
  <2>2. TypeOK'
    BY <1>6 DEF CompleteRun, TypeOK, RunState
  <2>3. QED
    BY <2>1, <2>2, OutsidePoolKeeps
<1>7. CASE PublishRunCompleted
  <2>1. OutsidePool /\ MainInv'
    BY <1>7 DEF PublishRunCompleted, Publish, OutsidePool, MainInv, Quiet, Busy
  <2>2. events' \subseteq Event
    BY <1>7 DEF PublishRunCompleted, Publish, TypeOK, Event
  <2>3. TypeOK'
    BY <1>7, <2>2 DEF PublishRunCompleted, TypeOK
  <2>4. QED
    BY <2>1, <2>3, OutsidePoolKeeps
<1>8. QED
  BY <1>1, <1>2, <1>3, <1>4, <1>5, <1>6, <1>7

-----------------------------------------------------------------------------
(***************************************************************************)
(* The invariant holds initially and every step preserves it.              *)
(***************************************************************************)

LEMMA InitInvariant == Init => IInv
<1> SUFFICES ASSUME Init PROVE IInv
  OBVIOUS
<1>1. \A v \in Node : IsFiniteSet(EdgesInto(job.edges, v))
                      /\ Cardinality(EdgesInto(job.edges, v)) \in Nat
  <2>1. IsFiniteSet(job.edges)
    BY JobAssumption DEF Init
  <2>2. \A v \in Node : EdgesInto(job.edges, v) \subseteq job.edges
    BY DEF EdgesInto
  <2>3. QED
    BY <2>1, <2>2, FS_Subset, FS_CardinalityType
<1>2. TypeOK
  <2>1. indegree \in [Node -> Int]
    BY <1>1 DEF Init, InitialIndegree
  <2>2. nodeStatus \in [Node -> RowState] /\ runStatus \in RunState
    BY DEF Init, RowState, RunState
  <2>3. toSubmit \in [Node \cup {None} -> SUBSET Node]
    BY DEF Init
  <2>4. pc \in [Node -> Working \cup {"idle", "queued", "finished"}]
    BY DEF Init
  <2>5. queue \in Seq(Node) /\ faults \in 0..MaxFaults
    BY SizeAssumption DEF Init
  <2>6. QED
    BY <2>1, <2>2, <2>3, <2>4, <2>5 DEF Init, TypeOK
<1>3. \A v \in Node : OpenEdges(v) = EdgesInto(job.edges, v)
  BY DEF OpenEdges, EdgesInto, Init
<1>4. IndegreeInv
  <2>1. \A v \in Node : indegree[v] = Cardinality(OpenEdges(v)) /\ pc[v] = "idle"
    BY <1>3 DEF Init, InitialIndegree
  <2>2. \A v \in Node : Cardinality(OpenEdges(v)) \in Nat
    BY <1>1, <1>3
  <2>3. QED
    BY <2>1, <2>2 DEF IndegreeInv
<1>5. ClaimInv /\ QueueInv
  BY DEF Init, ClaimInv, QueueInv
<1>6. OutputInv
  BY FS_EmptySet DEF Init, OutputInv
<1>7. FailureInv
  BY DEF Init, FailureInv
<1>8. MainInv
  BY DEF Init, MainInv, Quiet, Busy, Working
<1>9. QED
  BY <1>2, <1>4, <1>5, <1>6, <1>7, <1>8 DEF IInv

LEMMA ThreadPreserves ==
  ASSUME IInv, NEW n \in Node, Thread(n)
  PROVE  IInv'
<1>1. TypeOK
  BY DEF IInv
<1>2. CASE Begin(n)
  BY <1>2, BeginPreserves
<1>3. CASE Record(n)
  BY <1>3, RecordPreserves
<1>4. CASE SubmitNext(n)
  BY <1>4, SubmitNextPreserves
<1>5. CASE HandleFailure(n)
  BY <1>5, HandleFailurePreserves
<1>6. CASE \/ ResolveInputs(n) \/ StartNode(n) \/ PublishStarted(n)
           \/ Execute(n) \/ StoreArtifact(n) \/ PublishArtifact(n)
           \/ CompleteNode(n) \/ PublishCompleted(n)
  <2>1. LocalStep(n)
    BY <1>1, <1>6, LocalSteps
  <2>2. QED
    BY <2>1, LocalPreserves
<1>7. QED
  BY <1>2, <1>3, <1>4, <1>5, <1>6 DEF Thread

LEMMA StepInvariant == IInv /\ [Next]_vars => IInv'
<1> SUFFICES ASSUME IInv, [Next]_vars PROVE IInv'
  OBVIOUS
<1>1. CASE MainThread
  BY <1>1, StartRunPreserves, PublishRunStartedPreserves, SubmitRootPreserves,
     WakePreserves, DrainedPreserves, EpiloguePreserves DEF MainThread
<1>2. CASE \E n \in Node : Thread(n)
  BY <1>2, ThreadPreserves
<1>3. CASE UNCHANGED vars
  BY <1>3, OpenEdgesUnchanged
  DEF vars, rows, locked, pool, control, IInv, TypeOK, IndegreeInv, ClaimInv,
      QueueInv, OutputInv, FailureInv, MainInv, Quiet, Busy
<1>4. QED
  BY <1>1, <1>2, <1>3 DEF Next, Over

\* Every reachable state satisfies the inductive invariant.
THEOREM Invariant == Spec => []IInv
<1>1. QED
  BY InitInvariant, StepInvariant, PTL DEF Spec

-----------------------------------------------------------------------------
(***************************************************************************)
(* What follows from the invariant alone.                                  *)
(***************************************************************************)

\* Every variable keeps its type.
THEOREM TypeCorrect == Spec => []TypeOK
<1>1. IInv => TypeOK
  BY DEF IInv
<1>2. QED
  BY <1>1, Invariant, PTL

\* A node handed to the pool has all its upstream outputs recorded, and each
\* of them is completed for good: the in-degree table is a correct gate for
\* every graph, including graphs with several edges between two nodes.
THEOREM UpstreamFirstHolds == Spec => []UpstreamFirst
<1>1. IInv => UpstreamFirst
  <2> SUFFICES ASSUME IInv, NEW n \in Node, pc[n] # "idle", NEW u \in Preds(n)
               PROVE  u \in outputs /\ nodeStatus[u] = "completed"
    BY DEF UpstreamFirst
  <2>1. indegree[n] = 0
    BY DEF IInv, IndegreeInv
  <2>2. u \in outputs
    BY <2>1, ZeroMeansReady DEF IInv
  <2>3. QED
    BY <2>2 DEF IInv, OutputInv
<1>2. QED
  BY <1>1, Invariant, PTL

\* No node is submitted twice, whichever threads complete its upstream nodes.
THEOREM SubmittedOnceHolds == Spec => []SubmittedOnce
<1>1. IInv => SubmittedOnce
  <2> SUFFICES ASSUME IInv PROVE SubmittedOnce
    OBVIOUS
  <2>1. \A t \in Node \cup {None} : \A n \in toSubmit[t] :
          /\ pc[n] = "idle"
          /\ \A s \in Node \cup {None} : n \in toSubmit[s] => s = t
    BY DEF IInv, ClaimInv
  <2>2. QED
    BY <2>1 DEF IInv, QueueInv, SubmittedOnce
<1>2. QED
  BY <1>1, Invariant, PTL

\* A run is recorded as completed only as a whole.
THEOREM CompletedRunIsWholeHolds == Spec => []CompletedRunIsWhole
<1>1. IInv => CompletedRunIsWhole
  BY DEF IInv, MainInv, OutputInv, CompletedRunIsWhole
<1>2. QED
  BY <1>1, Invariant, PTL

-----------------------------------------------------------------------------
(***************************************************************************)
(* What the steps may not do.                                              *)
(***************************************************************************)

\* After a terminal row no row changes, after a terminal event none follows.
THEOREM NothingAfterTerminalHolds == Spec => NothingAfterTerminal
<1> DEFINE
      terminal == {<<"run.completed", None>>, <<"run.failed", None>>}
      quiet == /\ runStatus \in {"completed", "failed"} => UNCHANGED rows
               /\ terminal \cap events # {} => UNCHANGED events
<1>1. IInv /\ [Next]_vars => [quiet]_vars
  <2> SUFFICES ASSUME IInv, [Next]_vars PROVE quiet \/ UNCHANGED vars
    OBVIOUS
  <2>1. CASE \E n \in Node : Thread(n)
    <3>1. PICK n \in Node : Thread(n)
      BY <2>1
    <3>2. CASE Begin(n)
      BY <3>2 DEF Begin
    <3>3. CASE ~Begin(n)
      <4>1. pc[n] \in Working
        BY <3>1, <3>3 DEF Thread, ResolveInputs, StartNode, PublishStarted,
           Execute, StoreArtifact, PublishArtifact, CompleteNode,
           PublishCompleted, Record, SubmitNext, HandleFailure, Attempt,
           Proceed, Raise, Working
      <4>2. QED
        BY <4>1, BusyMeansOpen DEF IInv
    <3>4. QED
      BY <3>2, <3>3
  <2>2. CASE MainThread
    <3>1. main # "end"
      BY <2>2 DEF MainThread, StartRun, PublishRunStarted, SubmitRoot, Wake,
         Drained, FailNode, PublishNodeFailed, SkipPending, FailRun,
         PublishRunFailed, CompleteRun, PublishRunCompleted, ProceedMain,
         RaiseMain, Return
    <3>2. terminal \cap events = {}
      BY <3>1 DEF IInv, MainInv
    <3>3. ASSUME runStatus \in {"completed", "failed"}
          PROVE  UNCHANGED rows
      <4>1. main \in {"idle", "announcingFailure", "announcingSuccess"}
        BY <3>1, <3>3 DEF IInv, MainInv
      <4>2. CASE main = "idle"
        BY <2>2, <3>3, <4>2 DEF MainThread, StartRun, PublishRunStarted,
           SubmitRoot, Wake, Drained, FailNode, PublishNodeFailed, SkipPending,
           FailRun, PublishRunFailed, CompleteRun, PublishRunCompleted,
           ProceedMain, RaiseMain, Return, rows
      <4>3. CASE main \in {"announcingFailure", "announcingSuccess"}
        BY <2>2, <4>3 DEF MainThread, StartRun, PublishRunStarted,
           SubmitRoot, Wake, Drained, FailNode, PublishNodeFailed, SkipPending,
           FailRun, PublishRunFailed, CompleteRun, PublishRunCompleted,
           ProceedMain, RaiseMain, Return, rows
      <4>4. QED
        BY <4>1, <4>2, <4>3
    <3>4. QED
      BY <3>2, <3>3
  <2>3. QED
    BY <2>1, <2>2 DEF Next, Over
<1>2. QED
  BY <1>1, Invariant, PTL DEF Spec, NothingAfterTerminal


-----------------------------------------------------------------------------
(***************************************************************************)
(* The rows and events of a run.                                           *)
(***************************************************************************)

LEMMA InitRun == Init => RunInv
<1> SUFFICES ASSUME Init PROVE RunInv
  OBVIOUS
<1>1. IInv
  BY InitInvariant
<1>2. /\ main = "idle" /\ events = {}
      /\ \A n \in Node : pc[n] = "idle"
      /\ \/ runStatus = "pending" /\ \A n \in Node : nodeStatus[n] = "pending"
         \/ runStatus = "failed" /\ \A n \in Node : nodeStatus[n] = "skipped"
  BY DEF Init
<1>3. RowInv /\ QueuedInv
  BY <1>2 DEF RowInv, QueuedInv
<1>4. StageInv
  BY <1>2 DEF StageInv
<1>5. FailedRunIsSettled /\ RowsLeadEvents /\ OneCulprit
  BY <1>2 DEF FailedRunIsSettled, Settled, RowsLeadEvents, OneCulprit
<1> QED
  BY <1>1, <1>3, <1>4, <1>5 DEF RunInv

-----------------------------------------------------------------------------
(***************************************************************************)
(* The pool.                                                               *)
(***************************************************************************)

LEMMA QueuedAppend ==
  ASSUME IInv, QueuedInv, NEW m \in Node, queue' = Append(queue, m),
         \A v \in Node : pc'[v] = "queued" => v = m \/ pc[v] = "queued"
  PROVE  QueuedInv'
<1>1. queue \in Seq(Node)
  BY DEF IInv, TypeOK
<1>2. /\ DOMAIN queue' = 1..(Len(queue) + 1) /\ queue'[Len(queue) + 1] = m
      /\ \A i \in DOMAIN queue : i \in DOMAIN queue' /\ queue'[i] = queue[i]
  BY <1>1
<1>3. Len(queue) + 1 \in DOMAIN queue'
  BY <1>1, <1>2
<1> QED
  BY <1>2, <1>3 DEF QueuedInv

LEMMA QueuedBegin == ASSUME IInv, QueuedInv, NEW n \in Node, Begin(n) PROVE QueuedInv'
<1>1. queue \in Seq(Node) /\ queue # <<>> /\ queue' = Tail(queue) /\ queue[1] = n
  BY DEF IInv, TypeOK, Begin
<1>2. \A i \in DOMAIN queue : i # 1 => i - 1 \in DOMAIN queue' /\ queue'[i - 1] = queue[i]
  BY <1>1
<1>3. \A v \in Node : pc'[v] = "queued" => v # n /\ pc[v] = "queued"
  BY DEF IInv, TypeOK, Begin
<1> SUFFICES ASSUME NEW v \in Node, pc'[v] = "queued"
             PROVE  \E i \in DOMAIN queue' : queue'[i] = v
  BY DEF QueuedInv
<1>4. PICK i \in DOMAIN queue : queue[i] = v /\ i # 1
  BY <1>1, <1>3 DEF QueuedInv
<1> QED
  BY <1>2, <1>4

LEMMA QueuedStep == ASSUME IInv, QueuedInv, [Next]_vars PROVE QueuedInv'
<1>1. CASE \E n \in Node : Begin(n)
  BY <1>1, QueuedBegin
<1>2. CASE \E n \in Node : SubmitNext(n)
  <2>1. PICK n \in Node : SubmitNext(n)
    BY <1>2
  <2> DEFINE m == Min(toSubmit[n])
  <2>2. m \in Node
    <3>1. toSubmit[n] # {} /\ toSubmit[n] \subseteq Node
      BY <2>1 DEF IInv, ClaimInv, TypeOK, SubmitNext
    <3> QED
      BY <3>1, MinOfNodes
  <2>3. \/ /\ queue' = Append(queue, m)
           /\ \/ pc' = [pc EXCEPT ![m] = "queued", ![n] = "finished"]
              \/ pc' = [pc EXCEPT ![m] = "queued", ![n] = "submitting"]
        \/ queue' = queue /\ pc' = [pc EXCEPT ![n] = "failing"]
    BY <2>1 DEF SubmitNext, Enqueue
  <2> HIDE DEF m
  <2>4. \A v \in Node : pc'[v] = "queued" =>
            (v = m /\ queue' = Append(queue, m)) \/ pc[v] = "queued"
    BY <2>2, <2>3 DEF IInv, TypeOK
  <2>5. CASE queue' = Append(queue, m)
    BY <2>2, <2>4, <2>5, QueuedAppend
  <2>6. CASE queue' = queue /\ pc' = [pc EXCEPT ![n] = "failing"]
    BY <2>6 DEF QueuedInv, IInv, TypeOK
  <2> QED
    BY <2>3, <2>5, <2>6
<1>3. CASE SubmitRoot
  <2> DEFINE m == Min(toSubmit[None])
  <2>1. m \in Node
    <3>1. toSubmit[None] # {} /\ toSubmit[None] \subseteq Node
      BY <1>3 DEF IInv, TypeOK, SubmitRoot
    <3> QED
      BY <3>1, MinOfNodes
  <2>2. queue' = Append(queue, m) /\ pc' = [pc EXCEPT ![m] = "queued"]
    BY <1>3 DEF SubmitRoot, Enqueue
  <2> HIDE DEF m
  <2> QED
    BY <2>1, <2>2, QueuedAppend DEF IInv, TypeOK
<1>4. CASE (MainThread /\ ~ SubmitRoot) \/ UNCHANGED vars
  <2>1. UNCHANGED <<queue, pc>>
    BY <1>4 DEF MainThread, StartRun, PublishRunStarted, Wake, Drained, FailNode,
       PublishNodeFailed, SkipPending, FailRun, PublishRunFailed, CompleteRun,
       PublishRunCompleted, pool, vars
  <2> QED
    BY <2>1 DEF QueuedInv
<1>5. ASSUME NEW n \in Node, Thread(n), ~ Begin(n), ~ SubmitNext(n) PROVE QueuedInv'
  <2>1. queue' = queue /\ \E to \in Working \cup {"finished"} : pc' = [pc EXCEPT ![n] = to]
    BY <1>5 DEF Thread, ResolveInputs, StartNode, PublishStarted, Execute, StoreArtifact,
       PublishArtifact, CompleteNode, PublishCompleted, Record, HandleFailure,
       Attempt, Proceed, Raise, pool, Working
  <2> QED
    BY <2>1 DEF QueuedInv, IInv, TypeOK, Working
<1> QED
  BY <1>1, <1>2, <1>3, <1>4, <1>5 DEF Next, Over

\* While a thread of the pool does something the run is running, and nothing
\* has failed or been skipped yet.
LEMMA PoolFacts ==
  ASSUME RunInv, NEW n \in Node, Thread(n)
  PROVE  /\ main \in {"submitting", "waiting", "draining"}
         /\ runStatus = "running"
         /\ \A m \in Node : nodeStatus[m] \notin {"failed", "skipped"}
         /\ UNCHANGED <<job, main, runStatus>>
<1>1. main \in {"submitting", "waiting", "draining"}
  <2>1. CASE Begin(n)
    BY <2>1 DEF Begin, RunInv, IInv, MainInv, Quiet
  <2>2. CASE ~ Begin(n)
    <3>1. pc[n] \in Working
      BY <2>2 DEF Thread, ResolveInputs, StartNode, PublishStarted, Execute,
         StoreArtifact, PublishArtifact, CompleteNode, PublishCompleted, Record,
         SubmitNext, HandleFailure, Attempt, Proceed, Raise, Working
    <3> QED
      BY <3>1, BusyMeansOpen DEF RunInv, IInv
  <2> QED
    BY <2>1, <2>2
<1>2. UNCHANGED <<job, main, runStatus>>
  BY DEF Thread, Begin, ResolveInputs, StartNode, PublishStarted, Execute,
     StoreArtifact, PublishArtifact, CompleteNode, PublishCompleted, Record,
     SubmitNext, HandleFailure, rows, control
<1>3. runStatus = "running"
  BY <1>1 DEF RunInv, StageInv
<1> QED
  BY <1>1, <1>2, <1>3 DEF RunInv, StageInv

\* So that only its own row and events are left to look at.
LEMMA PoolKeeps ==
  ASSUME RunInv, NEW n \in Node, Thread(n), RowInv', RowsLeadEvents',
         \A m \in Node : nodeStatus'[m] \notin {"failed", "skipped"}
  PROVE  RunInv'
<1>1. IInv' /\ QueuedInv'
  BY ThreadPreserves, QueuedStep DEF RunInv, Next
<1>2. main' \in {"submitting", "waiting", "draining"} /\ runStatus' = "running"
  BY PoolFacts
<1>3. StageInv'
  BY <1>2 DEF StageInv
<1>4. FailedRunIsSettled'
  BY <1>2 DEF FailedRunIsSettled
<1>5. OneCulprit'
  BY DEF OneCulprit, RowsLeadEvents
<1> QED
  BY <1>1, <1>3, <1>4, <1>5 DEF RunInv

\* A step that touches neither rows nor events, and takes a thread or a node
\* no further than its row allows.
LEMMA QuietPoolStep ==
  ASSUME RunInv, NEW n \in Node, Thread(n), UNCHANGED <<nodeStatus, artifacts, events>>,
         RowInv'
  PROVE  RunInv'
<1>1. RowsLeadEvents'
  BY PoolFacts DEF RunInv, RowsLeadEvents
<1> QED
  BY <1>1, PoolFacts, PoolKeeps

LEMMA BeginKeeps == ASSUME RunInv, NEW n \in Node, Begin(n) PROVE RunInv'
<1>1. pc[n] = "queued" /\ pc' = [pc EXCEPT ![n] = "resolving"]
  <2>1. 1 \in DOMAIN queue /\ queue[1] = n
    BY DEF Begin, RunInv, IInv, TypeOK
  <2> QED
    BY <2>1 DEF Begin, RunInv, IInv, QueueInv
<1>2. UNCHANGED <<nodeStatus, artifacts, events>>
  BY DEF Begin, rows
<1>3. RowInv'
  BY <1>1, <1>2 DEF RunInv, IInv, TypeOK, RowInv
<1> QED
  BY <1>2, <1>3, QuietPoolStep DEF Thread

LEMMA ResolveKeeps == ASSUME RunInv, NEW n \in Node, ResolveInputs(n) PROVE RunInv'
<1>1. /\ pc[n] = "resolving"
      /\ pc' = [pc EXCEPT ![n] = "failing"] \/ pc' = [pc EXCEPT ![n] = "starting"]
      /\ UNCHANGED <<nodeStatus, artifacts, events>>
  BY DEF ResolveInputs, Proceed, rows
<1>2. RowInv'
  BY <1>1 DEF RunInv, IInv, TypeOK, RowInv
<1> QED
  BY <1>1, <1>2, QuietPoolStep DEF Thread

LEMMA ExecuteKeeps == ASSUME RunInv, NEW n \in Node, Execute(n) PROVE RunInv'
<1>1. /\ pc[n] = "executing"
      /\ \E to \in {"failing", "storing", "completing"} : pc' = [pc EXCEPT ![n] = to]
      /\ UNCHANGED <<nodeStatus, artifacts, events>>
  BY DEF Execute, Proceed, rows
<1>2. RowInv'
  BY <1>1 DEF RunInv, IInv, TypeOK, RowInv
<1> QED
  BY <1>1, <1>2, QuietPoolStep DEF Thread

LEMMA RecordKeeps == ASSUME RunInv, NEW n \in Node, Record(n) PROVE RunInv'
<1>1. /\ pc[n] = "recording"
      /\ \E to \in {"finished", "submitting"} : pc' = [pc EXCEPT ![n] = to]
      /\ UNCHANGED <<nodeStatus, artifacts, events>>
  BY DEF Record, Proceed, rows
<1>2. RowInv'
  BY <1>1 DEF RunInv, IInv, TypeOK, RowInv
<1> QED
  BY <1>1, <1>2, QuietPoolStep DEF Thread

LEMMA FailureKeeps == ASSUME RunInv, NEW n \in Node, HandleFailure(n) PROVE RunInv'
<1>1. /\ pc[n] = "failing"
      /\ pc' = [pc EXCEPT ![n] = "finished"]
      /\ UNCHANGED <<nodeStatus, artifacts, events>>
  BY DEF HandleFailure, Proceed, rows
<1>2. RowInv'
  BY <1>1 DEF RunInv, IInv, TypeOK, RowInv
<1> QED
  BY <1>1, <1>2, QuietPoolStep DEF Thread

\* The node that is submitted is idle, and its row is still pending.
LEMMA SubmitKeeps == ASSUME RunInv, NEW n \in Node, SubmitNext(n) PROVE RunInv'
<1> DEFINE m == Min(toSubmit[n])
<1>1. pc[n] = "submitting" /\ UNCHANGED <<nodeStatus, artifacts, events>>
  BY DEF SubmitNext, rows
<1>2. m \in Node /\ pc[m] = "idle"
  <2>1. toSubmit[n] # {} /\ toSubmit[n] \subseteq Node
    BY <1>1 DEF RunInv, IInv, ClaimInv, TypeOK
  <2> QED
    BY <2>1, MinOfNodes DEF RunInv, IInv, ClaimInv
<1>3. nodeStatus[m] = "pending"
  BY <1>2, PoolFacts DEF Thread, RunInv, RowInv
<1>4. \/ pc' = [pc EXCEPT ![m] = "queued", ![n] = "finished"]
      \/ pc' = [pc EXCEPT ![m] = "queued", ![n] = "submitting"]
      \/ pc' = [pc EXCEPT ![n] = "failing"]
  BY DEF SubmitNext
<1> HIDE DEF m
<1>5. RowInv'
  BY <1>1, <1>2, <1>3, <1>4 DEF RunInv, IInv, TypeOK, RowInv
<1> QED
  BY <1>1, <1>5, QuietPoolStep DEF Thread

\* start_node: no event has mentioned the node yet.
LEMMA StartNodeKeeps == ASSUME RunInv, NEW n \in Node, StartNode(n) PROVE RunInv'
<1>1. /\ pc[n] = "starting" /\ nodeStatus[n] = "pending"
      /\ UNCHANGED <<runStatus, artifacts, events>>
  BY DEF StartNode, Attempt, Proceed, Raise, RunInv, RowInv
<1>2. \/ /\ nodeStatus' = [nodeStatus EXCEPT ![n] = "running"]
         /\ pc' = [pc EXCEPT ![n] = "announcing"] \/ pc' = [pc EXCEPT ![n] = "failing"]
      \/ nodeStatus' = nodeStatus /\ pc' = [pc EXCEPT ![n] = "failing"]
  BY DEF StartNode, Attempt, Proceed, Raise, SetRow
<1>3. RowInv'
  BY <1>1, <1>2 DEF RunInv, IInv, TypeOK, RowInv
<1>4. RowsLeadEvents'
  BY <1>1, <1>2 DEF RunInv, IInv, TypeOK, RowsLeadEvents
<1>5. \A m \in Node : nodeStatus'[m] \notin {"failed", "skipped"}
  BY <1>2, PoolFacts DEF Thread, RunInv, IInv, TypeOK
<1> QED
  BY <1>3, <1>4, <1>5, PoolKeeps DEF Thread

\* complete_node: the node has not been announced as failed.
LEMMA CompleteNodeKeeps == ASSUME RunInv, NEW n \in Node, CompleteNode(n) PROVE RunInv'
<1>1. /\ pc[n] = "completing" /\ nodeStatus[n] = "running"
      /\ UNCHANGED <<runStatus, artifacts, events>>
  BY DEF CompleteNode, Attempt, Proceed, Raise, RunInv, RowInv
<1>2. \/ /\ nodeStatus' = [nodeStatus EXCEPT ![n] = "completed"]
         /\ pc' = [pc EXCEPT ![n] = "announcingDone"] \/ pc' = [pc EXCEPT ![n] = "failing"]
      \/ nodeStatus' = nodeStatus /\ pc' = [pc EXCEPT ![n] = "failing"]
  BY DEF CompleteNode, Attempt, Proceed, Raise, SetRow
<1>3. RowInv'
  BY <1>1, <1>2 DEF RunInv, IInv, TypeOK, RowInv
<1>4. RowsLeadEvents'
  BY <1>1, <1>2 DEF RunInv, IInv, TypeOK, RowsLeadEvents
<1>5. \A m \in Node : nodeStatus'[m] \notin {"failed", "skipped"}
  BY <1>2, PoolFacts DEF Thread, RunInv, IInv, TypeOK
<1> QED
  BY <1>3, <1>4, <1>5, PoolKeeps DEF Thread

LEMMA StoreKeeps == ASSUME RunInv, NEW n \in Node, StoreArtifact(n) PROVE RunInv'
<1>1. /\ pc[n] = "storing" /\ UNCHANGED <<runStatus, nodeStatus, events>>
      /\ artifacts \subseteq artifacts'
      /\ \/ pc' = [pc EXCEPT ![n] = "announcingArtifact"] /\ n \in artifacts'
         \/ pc' = [pc EXCEPT ![n] = "failing"]
  BY DEF StoreArtifact, Attempt, Proceed, Raise
<1>2. RowInv'
  BY <1>1 DEF RunInv, IInv, TypeOK, RowInv
<1>3. RowsLeadEvents'
  BY <1>1 DEF RunInv, RowsLeadEvents
<1> QED
  BY <1>1, <1>2, <1>3, PoolFacts, PoolKeeps DEF Thread

-----------------------------------------------------------------------------
(***************************************************************************)
(* The announcements of the pool.                                          *)
(***************************************************************************)

\* An announcement by thread n of what its row and artifact already say.
LEMMA AnnounceKeeps ==
  ASSUME RunInv, NEW n \in Node, Thread(n), UNCHANGED <<nodeStatus, artifacts>>, RowInv',
         NEW type \in {"node.started", "node.completed", "artifact.created"},
         events' \subseteq events \cup {<<type, n>>},
         type = "node.started" => nodeStatus[n] = "running",
         type = "node.completed" => nodeStatus[n] = "completed",
         type = "artifact.created" => n \in artifacts
  PROVE  RunInv'
<1>1. UNCHANGED runStatus
  BY PoolFacts
<1>2. RowsLeadEvents'
  BY <1>1 DEF RunInv, RowsLeadEvents
<1> QED
  BY <1>2, PoolFacts, PoolKeeps

LEMMA PublishStartedKeeps ==
  ASSUME RunInv, NEW n \in Node, PublishStarted(n) PROVE RunInv'
<1>1. /\ pc[n] = "announcing" /\ UNCHANGED <<nodeStatus, artifacts>>
      /\ pc' = [pc EXCEPT ![n] = "executing"] \/ pc' = [pc EXCEPT ![n] = "failing"]
      /\ events' \subseteq events \cup {<<"node.started", n>>}
  BY DEF PublishStarted, Attempt, Proceed, Raise, Publish, rows
<1>2. RowInv' /\ nodeStatus[n] = "running"
  BY <1>1 DEF RunInv, IInv, TypeOK, RowInv
<1> QED
  BY <1>1, <1>2, AnnounceKeeps DEF Thread

LEMMA PublishArtifactKeeps ==
  ASSUME RunInv, NEW n \in Node, PublishArtifact(n) PROVE RunInv'
<1>1. /\ pc[n] = "announcingArtifact" /\ UNCHANGED <<nodeStatus, artifacts>>
      /\ pc' = [pc EXCEPT ![n] = "completing"] \/ pc' = [pc EXCEPT ![n] = "failing"]
      /\ events' \subseteq events \cup {<<"artifact.created", n>>}
  BY DEF PublishArtifact, Attempt, Proceed, Raise, Publish, rows
<1>2. RowInv' /\ n \in artifacts
  BY <1>1 DEF RunInv, IInv, TypeOK, RowInv
<1> QED
  BY <1>1, <1>2, AnnounceKeeps DEF Thread

LEMMA PublishCompletedKeeps ==
  ASSUME RunInv, NEW n \in Node, PublishCompleted(n) PROVE RunInv'
<1>1. /\ pc[n] = "announcingDone" /\ UNCHANGED <<nodeStatus, artifacts>>
      /\ pc' = [pc EXCEPT ![n] = "recording"] \/ pc' = [pc EXCEPT ![n] = "failing"]
      /\ events' \subseteq events \cup {<<"node.completed", n>>}
  BY DEF PublishCompleted, Attempt, Proceed, Raise, Publish, rows
<1>2. RowInv' /\ nodeStatus[n] = "completed"
  BY <1>1 DEF RunInv, IInv, TypeOK, RowInv, OutputInv
<1> QED
  BY <1>1, <1>2, AnnounceKeeps DEF Thread

LEMMA ThreadKeeps == ASSUME RunInv, NEW n \in Node, Thread(n) PROVE RunInv'
BY BeginKeeps, ResolveKeeps, StartNodeKeeps, PublishStartedKeeps, ExecuteKeeps,
   StoreKeeps, PublishArtifactKeeps, CompleteNodeKeeps, PublishCompletedKeeps,
   RecordKeeps, SubmitKeeps, FailureKeeps
DEF Thread

-----------------------------------------------------------------------------
(***************************************************************************)
(* The main thread.                                                        *)
(***************************************************************************)

LEMMA MainIInv == ASSUME RunInv, MainThread PROVE IInv' /\ QueuedInv'
BY StepInvariant, QueuedStep DEF RunInv, Next

\* A step of the main thread that changes neither a row nor an event.
LEMMA QuietMainStep ==
  ASSUME RunInv, MainThread, RowInv', StageInv',
         UNCHANGED <<runStatus, nodeStatus, artifacts, events, firstFailure, outputs>>
  PROVE  RunInv'
<1>1. FailedRunIsSettled' /\ RowsLeadEvents' /\ OneCulprit'
  BY DEF RunInv, FailedRunIsSettled, Settled, RowsLeadEvents, OneCulprit
<1> QED
  BY <1>1, MainIInv DEF RunInv

LEMMA StartRunKeeps == ASSUME RunInv, StartRun PROVE RunInv'
<1>1. /\ main = "idle"
      /\ UNCHANGED <<nodeStatus, artifacts, events, firstFailure, outputs, pc>>
      /\ \/ /\ runStatus = "pending" /\ runStatus' = "running"
            /\ main' \in {"skipping", "announcing", "end"}
         \/ runStatus' = runStatus /\ main' = "end"
  BY DEF StartRun, ProceedMain, RaiseMain, Return, locked
<1>2. {<<"run.completed", None>>, <<"run.failed", None>>} \cap events = {}
  BY <1>1 DEF RunInv, IInv, MainInv
<1>3. RowInv'
  BY <1>1 DEF RunInv, RowInv
<1>4. StageInv'
  BY <1>1 DEF RunInv, StageInv
<1>5. FailedRunIsSettled' /\ RowsLeadEvents' /\ OneCulprit'
  BY <1>1, <1>2 DEF RunInv, FailedRunIsSettled, Settled, RowsLeadEvents, OneCulprit
<1> QED
  BY <1>3, <1>4, <1>5, MainIInv DEF MainThread, RunInv

LEMMA PublishRunStartedKeeps == ASSUME RunInv, PublishRunStarted PROVE RunInv'
<1>1. /\ main = "announcing" /\ main' \in {"submitting", "end"}
      /\ UNCHANGED <<runStatus, nodeStatus, artifacts, firstFailure, outputs, pc>>
      /\ events' \subseteq events \cup {<<"run.started", None>>}
      /\ events \subseteq events'
  BY DEF PublishRunStarted, ProceedMain, RaiseMain, Publish, rows, locked
<1>2. RowInv'
  BY <1>1 DEF RunInv, RowInv
<1>3. StageInv'
  BY <1>1 DEF RunInv, StageInv
<1>4. FailedRunIsSettled' /\ RowsLeadEvents' /\ OneCulprit'
  BY <1>1 DEF RunInv, FailedRunIsSettled, Settled, RowsLeadEvents, OneCulprit
<1> QED
  BY <1>2, <1>3, <1>4, MainIInv DEF MainThread, RunInv

\* The root that is submitted is idle, and its row is still pending.
LEMMA SubmitRootKeeps == ASSUME RunInv, SubmitRoot PROVE RunInv'
<1> DEFINE m == Min(toSubmit[None])
<1>1. /\ main = "submitting" /\ main' \in {"waiting", "submitting"}
      /\ pc' = [pc EXCEPT ![m] = "queued"]
      /\ UNCHANGED <<runStatus, nodeStatus, artifacts, events, firstFailure, outputs>>
  BY DEF SubmitRoot, ProceedMain, rows, locked
<1>2. m \in Node /\ pc[m] = "idle"
  <2>1. toSubmit[None] # {} /\ toSubmit[None] \subseteq Node
    BY DEF SubmitRoot, RunInv, IInv, TypeOK
  <2> QED
    BY <2>1, MinOfNodes DEF RunInv, IInv, ClaimInv
<1> HIDE DEF m
<1>3. runStatus = "running" /\ nodeStatus[m] = "pending"
  BY <1>1, <1>2 DEF RunInv, StageInv, RowInv
<1>4. RowInv'
  BY <1>1, <1>2, <1>3 DEF RunInv, IInv, TypeOK, RowInv
<1>5. StageInv'
  BY <1>1, <1>3 DEF RunInv, StageInv
<1> QED
  BY <1>1, <1>4, <1>5, QuietMainStep DEF MainThread

LEMMA WakeKeeps == ASSUME RunInv, Wake PROVE RunInv'
<1>1. /\ main = "waiting" /\ main' = "draining"
      /\ UNCHANGED <<runStatus, nodeStatus, artifacts, events, firstFailure, outputs, pc>>
  BY DEF Wake, ProceedMain, rows, locked
<1>2. RowInv' /\ StageInv'
  BY <1>1 DEF RunInv, RowInv, StageInv
<1> QED
  BY <1>1, <1>2, QuietMainStep DEF MainThread

LEMMA DrainedKeeps == ASSUME RunInv, Drained PROVE RunInv'
<1>1. /\ main = "draining" /\ main' \in {"failingNode", "completingRun"}
      /\ UNCHANGED <<runStatus, nodeStatus, artifacts, events, firstFailure, outputs, pc>>
  BY DEF Drained, ProceedMain, rows, locked
<1>2. RowInv' /\ StageInv'
  BY <1>1 DEF RunInv, RowInv, StageInv
<1> QED
  BY <1>1, <1>2, QuietMainStep DEF MainThread

\* A thread of the culprit has ended, and no other node was blamed before.
LEMMA FailNodeKeeps == ASSUME RunInv, FailNode PROVE RunInv'
<1> DEFINE f == firstFailure
<1>1. /\ main = "failingNode"
      /\ UNCHANGED <<runStatus, artifacts, events, firstFailure, outputs, pc>>
      /\ \/ /\ nodeStatus' = [nodeStatus EXCEPT ![f] = "failed"]
            /\ main' \in {"announcingNode", "end"}
         \/ nodeStatus' = nodeStatus /\ main' = "end"
  BY DEF FailNode, ProceedMain, RaiseMain, SetRow, locked
<1>2. f \in Node /\ pc[f] = "finished" /\ f \notin outputs /\ runStatus = "running"
  BY <1>1 DEF RunInv, IInv, TypeOK, MainInv, FailureInv, StageInv
<1>3. \A n \in Node : nodeStatus'[n] = nodeStatus[n] \/ (n = f /\ nodeStatus'[n] = "failed")
  <2>1. DOMAIN nodeStatus = Node
    BY DEF RunInv, IInv, TypeOK
  <2>2. nodeStatus' = [nodeStatus EXCEPT ![f] = "failed"] \/ nodeStatus' = nodeStatus
    BY <1>1
  <2> HIDE DEF f
  <2> QED
    BY <2>1, <2>2
<1>4. main' = "announcingNode" => nodeStatus'[f] = "failed"
  <2>1. DOMAIN nodeStatus = Node
    BY DEF RunInv, IInv, TypeOK
  <2>2. main' = "announcingNode" => nodeStatus' = [nodeStatus EXCEPT ![f] = "failed"]
    BY <1>1
  <2> HIDE DEF f
  <2> QED
    BY <1>2, <2>1, <2>2
<1>5. main' \in {"announcingNode", "end"}
  BY <1>1
<1>6. UNCHANGED <<runStatus, artifacts, events, firstFailure, outputs, pc>>
  BY <1>1
<1> HIDE DEF f
<1>7. RowInv'
  BY <1>2, <1>3, <1>6 DEF RunInv, RowInv
<1>8. StageInv'
  BY <1>1, <1>2, <1>3, <1>4, <1>5, <1>6 DEF RunInv, StageInv, f
<1>9. FailedRunIsSettled'
  BY <1>2, <1>6 DEF FailedRunIsSettled
<1>10. RowsLeadEvents'
  BY <1>3, <1>6 DEF RunInv, RowsLeadEvents
<1>11. OneCulprit'
  BY <1>2, <1>3, <1>6 DEF RunInv, OneCulprit, f
<1> QED
  BY <1>7, <1>8, <1>9, <1>10, <1>11, MainIInv DEF MainThread, RunInv

LEMMA PublishNodeFailedKeeps == ASSUME RunInv, PublishNodeFailed PROVE RunInv'
<1>1. /\ main = "announcingNode" /\ main' \in {"skipping", "end"}
      /\ UNCHANGED <<runStatus, nodeStatus, artifacts, firstFailure, outputs, pc>>
      /\ events' \subseteq events \cup {<<"node.failed", firstFailure>>}
  BY DEF PublishNodeFailed, ProceedMain, RaiseMain, Publish, rows, locked
<1>2. /\ firstFailure \in Node /\ firstFailure \notin outputs
      /\ nodeStatus[firstFailure] = "failed" /\ runStatus = "running"
  BY <1>1 DEF RunInv, IInv, TypeOK, MainInv, FailureInv, StageInv
<1>3. RowInv'
  BY <1>1 DEF RunInv, RowInv
<1>4. StageInv'
  BY <1>1, <1>2 DEF RunInv, StageInv
<1>5. FailedRunIsSettled'
  BY <1>1, <1>2 DEF FailedRunIsSettled
<1>6. RowsLeadEvents'
  BY <1>1, <1>2 DEF RunInv, RowsLeadEvents
<1>7. OneCulprit'
  BY <1>1, <1>2 DEF RunInv, OneCulprit
<1> QED
  BY <1>3, <1>4, <1>5, <1>6, <1>7, MainIInv DEF MainThread, RunInv

\* After the rows are skipped they are settled, and no thread is at work that
\* would need its row pending.
LEMMA SkipPendingKeeps == ASSUME RunInv, SkipPending PROVE RunInv'
<1>1. /\ main = "skipping"
      /\ UNCHANGED <<runStatus, artifacts, events, firstFailure, outputs, pc>>
      /\ \/ /\ \A n \in Node : nodeStatus'[n] = IF nodeStatus[n] = "pending" THEN "skipped"
                                                ELSE nodeStatus[n]
            /\ main' \in {"failingRun", "end"}
         \/ nodeStatus' = nodeStatus /\ main' = "end"
  BY DEF SkipPending, ProceedMain, RaiseMain, Skippable, locked
<1>2. runStatus = "running"
  BY <1>1 DEF RunInv, StageInv
<1>3. \A n \in Node : pc[n] \in {"idle", "finished"}
  <2>1. \A n \in Node : pc[n] \notin Working
    BY <1>1, BusyMeansOpen DEF RunInv, IInv
  <2>2. \A n \in Node : pc[n] # "queued"
    BY <1>1 DEF RunInv, IInv, MainInv, Quiet, QueuedInv
  <2> QED
    BY <2>1, <2>2 DEF RunInv, IInv, TypeOK
<1>4. RowInv'
  BY <1>1, <1>3 DEF RunInv, RowInv
<1>5. StageInv'
  BY <1>1, <1>2 DEF RunInv, StageInv, Settled
<1>6. FailedRunIsSettled'
  BY <1>1, <1>2 DEF FailedRunIsSettled
<1>7. RowsLeadEvents'
  BY <1>1 DEF RunInv, RowsLeadEvents
<1>8. OneCulprit'
  BY <1>1 DEF RunInv, OneCulprit
<1> QED
  BY <1>4, <1>5, <1>6, <1>7, <1>8, MainIInv DEF MainThread, RunInv

LEMMA FailRunKeeps == ASSUME RunInv, FailRun PROVE RunInv'
<1>1. /\ main = "failingRun"
      /\ UNCHANGED <<nodeStatus, artifacts, events, firstFailure, outputs, pc>>
  BY DEF FailRun, ProceedMain, RaiseMain, locked
<1>2. runStatus = "running" /\ Settled
  BY <1>1 DEF RunInv, StageInv
<1>3. \/ runStatus' = "failed" /\ main' \in {"announcingFailure", "end"}
      \/ runStatus' = runStatus /\ main' = "end"
  BY <1>2 DEF FailRun, ProceedMain, RaiseMain
<1>4. {<<"run.completed", None>>, <<"run.failed", None>>} \cap events = {}
  BY <1>1 DEF RunInv, IInv, MainInv
<1>5. RowInv'
  BY <1>1 DEF RunInv, RowInv
<1>6. StageInv'
  BY <1>1, <1>2, <1>3 DEF RunInv, StageInv
<1>7. FailedRunIsSettled' /\ RowsLeadEvents' /\ OneCulprit'
  BY <1>1, <1>2, <1>4 DEF RunInv, FailedRunIsSettled, Settled, RowsLeadEvents, OneCulprit
<1> QED
  BY <1>5, <1>6, <1>7, MainIInv DEF MainThread, RunInv

LEMMA PublishRunFailedKeeps == ASSUME RunInv, PublishRunFailed PROVE RunInv'
<1>1. /\ main = "announcingFailure" /\ main' = "end"
      /\ UNCHANGED <<runStatus, nodeStatus, artifacts, firstFailure, outputs, pc>>
      /\ events' \subseteq events \cup {<<"run.failed", None>>}
  BY DEF PublishRunFailed, Return, RaiseMain, Publish, rows, locked
<1>2. runStatus = "failed"
  BY <1>1 DEF RunInv, StageInv
<1>3. RowInv'
  BY <1>1 DEF RunInv, RowInv
<1>4. StageInv'
  BY <1>1, <1>2 DEF RunInv, StageInv
<1>5. FailedRunIsSettled' /\ RowsLeadEvents' /\ OneCulprit'
  BY <1>1, <1>2 DEF RunInv, FailedRunIsSettled, Settled, RowsLeadEvents, OneCulprit
<1> QED
  BY <1>3, <1>4, <1>5, MainIInv DEF MainThread, RunInv

LEMMA CompleteRunKeeps == ASSUME RunInv, CompleteRun PROVE RunInv'
<1>1. /\ main = "completingRun" /\ main' \in {"announcingSuccess", "end"}
      /\ UNCHANGED <<nodeStatus, artifacts, events, firstFailure, outputs, pc>>
      /\ \/ runStatus' = "completed"
         \/ runStatus' = runStatus /\ main' = "end"
  BY DEF CompleteRun, ProceedMain, RaiseMain, locked
<1>2. runStatus = "running"
  BY <1>1 DEF RunInv, StageInv
<1>3. {<<"run.completed", None>>, <<"run.failed", None>>} \cap events = {}
  BY <1>1 DEF RunInv, IInv, MainInv
<1>4. RowInv'
  BY <1>1 DEF RunInv, RowInv
<1>5. StageInv'
  BY <1>1, <1>2 DEF RunInv, StageInv
<1>6. FailedRunIsSettled' /\ RowsLeadEvents' /\ OneCulprit'
  BY <1>1, <1>2, <1>3 DEF RunInv, FailedRunIsSettled, Settled, RowsLeadEvents, OneCulprit
<1> QED
  BY <1>4, <1>5, <1>6, MainIInv DEF MainThread, RunInv

LEMMA PublishRunCompletedKeeps == ASSUME RunInv, PublishRunCompleted PROVE RunInv'
<1>1. /\ main = "announcingSuccess" /\ main' = "end"
      /\ UNCHANGED <<runStatus, nodeStatus, artifacts, firstFailure, outputs, pc>>
      /\ events' \subseteq events \cup {<<"run.completed", None>>}
  BY DEF PublishRunCompleted, Return, RaiseMain, Publish, rows, locked
<1>2. runStatus = "completed"
  BY <1>1 DEF RunInv, StageInv
<1>3. RowInv'
  BY <1>1 DEF RunInv, RowInv
<1>4. StageInv'
  BY <1>1, <1>2 DEF RunInv, StageInv
<1>5. FailedRunIsSettled' /\ RowsLeadEvents' /\ OneCulprit'
  BY <1>1, <1>2 DEF RunInv, FailedRunIsSettled, Settled, RowsLeadEvents, OneCulprit
<1> QED
  BY <1>3, <1>4, <1>5, MainIInv DEF MainThread, RunInv

LEMMA MainKeeps == ASSUME RunInv, MainThread PROVE RunInv'
BY StartRunKeeps, PublishRunStartedKeeps, SubmitRootKeeps, WakeKeeps, DrainedKeeps,
   FailNodeKeeps, PublishNodeFailedKeeps, SkipPendingKeeps, FailRunKeeps,
   PublishRunFailedKeeps, CompleteRunKeeps, PublishRunCompletedKeeps
DEF MainThread

LEMMA RunStep == RunInv /\ [Next]_vars => RunInv'
<1> SUFFICES ASSUME RunInv, [Next]_vars PROVE RunInv'
  OBVIOUS
<1>1. CASE UNCHANGED vars
  <2>1. IInv' /\ QueuedInv'
    BY StepInvariant, QueuedStep DEF RunInv
  <2>2. RowInv' /\ StageInv' /\ FailedRunIsSettled' /\ RowsLeadEvents' /\ OneCulprit'
    BY <1>1 DEF vars, rows, locked, pool, control, RunInv, RowInv, StageInv, Settled,
       FailedRunIsSettled, RowsLeadEvents, OneCulprit
  <2> QED
    BY <2>1, <2>2 DEF RunInv
<1> QED
  BY <1>1, ThreadKeeps, MainKeeps DEF Next, Over

\* Every reachable state satisfies the invariant on rows and events.
THEOREM RunInvariant == Spec => []RunInv
<1>1. QED
  BY InitRun, RunStep, PTL DEF Spec

\* The rows of a failed run are settled, whichever calls raised meanwhile.
THEOREM FailedRunIsSettledHolds == Spec => []FailedRunIsSettled
<1>1. RunInv => FailedRunIsSettled
  BY DEF RunInv
<1> QED
  BY <1>1, RunInvariant, PTL

\* No event announces what its row does not say yet, or no longer.
THEOREM RowsLeadEventsHolds == Spec => []RowsLeadEvents
<1>1. RunInv => RowsLeadEvents
  BY DEF RunInv
<1> QED
  BY <1>1, RunInvariant, PTL

\* However many threads fail, one node is blamed, and none whose outputs are
\* in use.
THEOREM OneCulpritHolds == Spec => []OneCulprit
<1>1. RunInv => OneCulprit
  BY DEF RunInv
<1> QED
  BY <1>1, RunInvariant, PTL

-----------------------------------------------------------------------------
(***************************************************************************)
(* The refinement.                                                         *)
(***************************************************************************)

LEMMA InitRefines == Init => Rows!Init
BY DEF Init, Rows!Init

\* start_node is DagRun's Begin: a node that was submitted has its inputs.
LEMMA BeginRefines ==
  ASSUME RunInv, NEW n \in Node, StartNode(n)
  PROVE  Rows!Begin(n) \/ UNCHANGED <<job.edges, runStatus, nodeStatus>>
<1>1. /\ pc[n] = "starting" /\ nodeStatus[n] = "pending" /\ runStatus = "running"
      /\ UNCHANGED <<job, runStatus>>
      /\ nodeStatus' = [nodeStatus EXCEPT ![n] = "running"] \/ nodeStatus' = nodeStatus
  BY PoolFacts DEF Thread, StartNode, Attempt, Proceed, Raise, SetRow, RunInv, RowInv
<1>2. \A u \in Preds(n) : nodeStatus[u] = "completed"
  <2>1. indegree[n] = 0
    BY <1>1 DEF RunInv, IInv, IndegreeInv
  <2> QED
    BY <2>1, ZeroMeansReady DEF RunInv, IInv, OutputInv
<1>3. Rows!Preds(n) \subseteq Preds(n)
  BY DEF Rows!Preds, Preds, Upstream, EdgesInto
<1> QED
  BY <1>1, <1>2, <1>3 DEF Rows!Begin

\* complete_node is DagRun's Finish.
LEMMA FinishRefines ==
  ASSUME RunInv, NEW n \in Node, CompleteNode(n)
  PROVE  Rows!Finish(n) \/ UNCHANGED <<job.edges, runStatus, nodeStatus>>
<1>1. /\ pc[n] = "completing" /\ nodeStatus[n] = "running" /\ runStatus = "running"
      /\ UNCHANGED <<job, runStatus>>
      /\ nodeStatus' = [nodeStatus EXCEPT ![n] = "completed"] \/ nodeStatus' = nodeStatus
  BY PoolFacts DEF Thread, CompleteNode, Attempt, Proceed, Raise, SetRow, RunInv, RowInv
<1> QED
  BY <1>1 DEF Rows!Finish

LEMMA ThreadRefines ==
  ASSUME RunInv, NEW n \in Node, Thread(n)
  PROVE  [Rows!Next]_(Rows!vars)
<1>1. CASE StartNode(n)
  BY <1>1, BeginRefines DEF Rows!Next, Rows!vars
<1>2. CASE CompleteNode(n)
  BY <1>2, FinishRefines DEF Rows!Next, Rows!vars
<1>3. CASE ~ StartNode(n) /\ ~ CompleteNode(n)
  <2>1. UNCHANGED <<job, runStatus, nodeStatus>>
    BY <1>3 DEF Thread, Begin, ResolveInputs, PublishStarted, Execute, StoreArtifact,
       PublishArtifact, PublishCompleted, Record, SubmitNext, HandleFailure, rows
  <2> QED
    BY <2>1 DEF Rows!vars
<1> QED
  BY <1>1, <1>2, <1>3

\* The statements of the main thread: Launch, Blame, Skip, Fail and Succeed.
LEMMA MainRefines ==
  ASSUME RunInv, MainThread
  PROVE  [Rows!Next]_(Rows!vars)
<1>1. UNCHANGED job
  BY DEF MainThread, StartRun, PublishRunStarted, SubmitRoot, Wake, Drained, FailNode,
     PublishNodeFailed, SkipPending, FailRun, PublishRunFailed, CompleteRun,
     PublishRunCompleted
<1>2. CASE StartRun
  <2>1. /\ UNCHANGED nodeStatus
        /\ \/ runStatus = "pending" /\ runStatus' = "running"
           \/ UNCHANGED runStatus
    BY <1>2 DEF StartRun
  <2> QED
    BY <1>1, <2>1 DEF Rows!Next, Rows!Launch, Rows!vars
<1>3. CASE FailNode
  <2>1. /\ main = "failingNode" /\ UNCHANGED runStatus
        /\ \/ nodeStatus' = [nodeStatus EXCEPT ![firstFailure] = "failed"]
           \/ UNCHANGED nodeStatus
    BY <1>3 DEF FailNode, ProceedMain, RaiseMain, SetRow
  <2>2. /\ firstFailure \in Node /\ runStatus = "running"
        /\ \A m \in Node : nodeStatus[m] # "failed"
    BY <2>1 DEF RunInv, IInv, TypeOK, MainInv, StageInv
  <2> QED
    BY <1>1, <2>1, <2>2 DEF Rows!Next, Rows!Blame, Rows!vars
<1>4. CASE SkipPending
  <2>1. /\ main = "skipping" /\ UNCHANGED runStatus
        /\ \/ nodeStatus' = [n \in Node |-> IF nodeStatus[n] = "pending" THEN "skipped"
                                            ELSE nodeStatus[n]]
           \/ UNCHANGED nodeStatus
    BY <1>4 DEF SkipPending, ProceedMain, RaiseMain, Skippable
  <2>2. /\ runStatus = "running"
        /\ \/ \E n \in Node : nodeStatus[n] = "failed"
           \/ \A n \in Node : nodeStatus[n] = "pending"
    BY <2>1 DEF RunInv, StageInv
  <2> QED
    BY <1>1, <2>1, <2>2 DEF Rows!Next, Rows!Skip, Rows!vars
<1>5. CASE FailRun
  <2>1. main = "failingRun" /\ UNCHANGED nodeStatus
    BY <1>5 DEF FailRun, ProceedMain, RaiseMain
  <2>2. runStatus = "running" /\ Settled
    BY <2>1 DEF RunInv, StageInv
  <2>3. runStatus' = "failed" \/ UNCHANGED runStatus
    BY <1>5, <2>2 DEF FailRun
  <2> QED
    BY <1>1, <2>1, <2>2, <2>3 DEF Rows!Next, Rows!Fail, Rows!vars, Settled
<1>6. CASE CompleteRun
  <2>1. /\ main = "completingRun" /\ UNCHANGED nodeStatus
        /\ runStatus' = "completed" \/ UNCHANGED runStatus
    BY <1>6 DEF CompleteRun, ProceedMain, RaiseMain
  <2>2. runStatus = "running" /\ \A n \in Node : nodeStatus[n] = "completed"
    BY <2>1 DEF RunInv, IInv, MainInv, OutputInv, StageInv
  <2> QED
    BY <1>1, <2>1, <2>2 DEF Rows!Next, Rows!Succeed, Rows!vars
<1>7. CASE \/ PublishRunStarted \/ SubmitRoot \/ Wake \/ Drained \/ PublishNodeFailed
           \/ PublishRunFailed \/ PublishRunCompleted
  <2>1. UNCHANGED <<runStatus, nodeStatus>>
    BY <1>7 DEF PublishRunStarted, SubmitRoot, Wake, Drained, PublishNodeFailed,
       PublishRunFailed, PublishRunCompleted, rows
  <2> QED
    BY <1>1, <2>1 DEF Rows!vars
<1> QED
  BY <1>2, <1>3, <1>4, <1>5, <1>6, <1>7 DEF MainThread

\* The rows that the threads, the lock and the exceptions leave in the database
\* are those of a run without threads.
THEOREM RowsImplementDagRun == Spec => ImplementsDagRun
<1>1. RunInv /\ [Next]_vars => [Rows!Next]_(Rows!vars)
  <2> SUFFICES ASSUME RunInv, [Next]_vars PROVE [Rows!Next]_(Rows!vars)
    OBVIOUS
  <2>1. CASE UNCHANGED vars
    BY <2>1 DEF vars, rows, Rows!vars
  <2> QED
    BY <2>1, ThreadRefines, MainRefines DEF Next, Over
<1> QED
  BY <1>1, InitRefines, RunInvariant, PTL DEF Spec, ImplementsDagRun, Rows!Spec

-----------------------------------------------------------------------------
(***************************************************************************)
(* No lost wakeup: WakeInv is inductive on top of RunInv.                  *)
(***************************************************************************)

\* A job without a cycle has, before its last output, a node that is ready.
LEMMA ReadyExists ==
  ASSUME TypeOK, TableInv, firstFailure = None, job \notin CyclicJobs, outputs # Node
  PROVE  \E v \in Node \ outputs : indegree[v] = 0
<1>1. PICK S : S = Node \ outputs
  OBVIOUS
<1>2. S \in (SUBSET (1..NodeCount)) \ {{}}
  BY <1>1 DEF TypeOK, Node
<1>3. ~ Knotted(NodeCount, job.edges, S)
  <2>1. /\ IsFiniteSet(job.edges)
        /\ \A e \in job.edges : e.src \in 1..NodeCount /\ e.dst \in 1..NodeCount
    BY JobAssumption DEF TypeOK, Node
  <2>2. ~ ContainsCycle(NodeCount, job.edges)
    BY DEF TypeOK, CyclicJobs
  <2>3. NodeCount \in Nat
    BY SizeAssumption
  <2> QED
    BY <2>1, <2>2, <2>3, OrderFindsCycles
<1>4. PICK v \in S : \A e \in job.edges : e.dst = v => e.src \notin S
  BY <1>2, <1>3 DEF Knotted
<1>5. OpenEdges(v) = {}
  <2>1. \A e \in job.edges : e.src \in Node
    BY JobAssumption DEF TypeOK
  <2> QED
    BY <1>1, <1>4, <2>1 DEF OpenEdges, EdgesInto
<1>6. Cardinality(OpenEdges(v)) = 0
  BY <1>5, FS_EmptySet
<1> QED
  BY <1>1, <1>6 DEF TableInv

Wakeful == TableInv /\ DoneInv /\ ReadyInv

\* done is set by the first failure or the last output, and not before.
LEMMA DoneFacts ==
  ASSUME RunInv, DoneInv
  PROVE  done <=> firstFailure # None \/ outputs = Node
BY DEF RunInv, IInv, FailureInv, DoneInv

LEMMA TableKept ==
  ASSUME TableInv, UNCHANGED <<job, indegree, outputs, firstFailure>>
  PROVE  TableInv'
BY OpenEdgesUnchanged DEF TableInv

\* A thread moves on inside _execute_node.
MovesOn(n) ==
    /\ n \in Node
    /\ pc[n] # "idle" /\ pc[n] = "submitting" => done
    /\ pc'[n] \notin {"idle", "submitting", "finished"}
    /\ \A m \in Node \ {n} : pc'[m] = pc[m]
    /\ UNCHANGED <<job, indegree, outputs, done, firstFailure, toSubmit, main>>

LEMMA MovesOnKeepsWakeful ==
  ASSUME RunInv, Wakeful, NEW n \in Node, MovesOn(n)
  PROVE  Wakeful'
<1>1. TableInv'
  BY TableKept DEF Wakeful, MovesOn
<1>2. DoneInv'
  BY DEF Wakeful, DoneInv, MovesOn
<1>3. ReadyInv'
  <2>1. \A m \in Node : toSubmit[m] # {} => pc'[m] = "submitting" \/ done
    BY DEF Wakeful, ReadyInv, MovesOn
  <2>2. \A m \in Node : pc'[m] = "idle" => pc[m] = "idle"
    BY DEF MovesOn
  <2>3. UNCHANGED <<job, indegree, done, firstFailure, toSubmit, main>>
    BY DEF MovesOn
  <2> QED
    BY <2>1, <2>2, <2>3 DEF Wakeful, ReadyInv, CyclicJobs
<1> QED
  BY <1>1, <1>2, <1>3 DEF Wakeful

LEMMA RecordKeepsWakeful ==
  ASSUME RunInv, Wakeful, NEW n \in Node, Record(n)
  PROVE  Wakeful'
<1>1. PICK released : released = Released(indegree, job.edges, n)
  OBVIOUS
<1>2. /\ pc[n] = "recording"
      /\ outputs' = outputs \cup {n}
      /\ UNCHANGED <<job, firstFailure, main>>
      /\ \/ /\ firstFailure # None
            /\ pc' = [pc EXCEPT ![n] = "finished"]
            /\ UNCHANGED <<indegree, done, toSubmit>>
         \/ /\ firstFailure = None
            /\ pc' = [pc EXCEPT ![n] = IF released = {} THEN "finished" ELSE "submitting"]
            /\ indegree' = Decrement(indegree, job.edges, n)
            /\ toSubmit' = [toSubmit EXCEPT ![n] = released]
            /\ done' = (done \/ completedCount + 1 = NodeCount)
  BY <1>1 DEF Record, Proceed, IsLast, control
<1>3. TypeOK /\ n \notin outputs /\ n # None
  BY <1>2, NodeFacts DEF RunInv, IInv, OutputInv
<1>4. /\ pc'[n] \in {"submitting", "finished"}
      /\ \A m \in Node \ {n} : pc'[m] = pc[m]
  BY <1>2, <1>3 DEF TypeOK
<1>5. CASE firstFailure # None
  <2>1. done /\ done' /\ UNCHANGED <<toSubmit, indegree>> /\ pc'[n] = "finished"
    BY <1>2, <1>3, <1>5, DoneFacts DEF Wakeful, TypeOK
  <2>2. TableInv' /\ DoneInv'
    BY <1>2, <1>4, <1>5, <2>1 DEF Wakeful, TableInv, DoneInv
  <2>3. ReadyInv'
    BY <1>2, <1>5, <2>1 DEF Wakeful, ReadyInv, CyclicJobs
  <2> QED
    BY <2>2, <2>3 DEF Wakeful
<1>6. CASE firstFailure = None
  <2>1. toSubmit[n] = {}
    <3>1. ~ done
      BY <1>3, <1>6, DoneFacts DEF Wakeful
    <3> QED
      BY <1>2, <3>1 DEF Wakeful, ReadyInv
  <2>2. \A v \in Node :
          /\ indegree[v] \in Int
          /\ indegree'[v] = indegree[v] - Cardinality(EdgesBetween(job.edges, n, v))
          /\ indegree[v] = Cardinality(OpenEdges(v))
          /\ Cardinality(OpenEdges(v)') =
               Cardinality(OpenEdges(v)) - Cardinality(EdgesBetween(job.edges, n, v))
          /\ EdgesBetween(job.edges, n, v) = {}
               => Cardinality(EdgesBetween(job.edges, n, v)) = 0
    <3>1. \A v \in Node :
            /\ indegree[v] \in Int
            /\ indegree'[v] = indegree[v] - Cardinality(EdgesBetween(job.edges, n, v))
      BY <1>2, <1>3, <1>6 DEF Decrement, TypeOK
    <3>2. \A v \in Node : indegree[v] = Cardinality(OpenEdges(v))
      BY <1>6 DEF Wakeful, TableInv
    <3>3. IndegreeInv
      BY DEF RunInv, IInv
    <3>4. \A v \in Node :
            /\ Cardinality(OpenEdges(v)') =
                 Cardinality(OpenEdges(v)) - Cardinality(EdgesBetween(job.edges, n, v))
            /\ EdgesBetween(job.edges, n, v) = {}
                 => Cardinality(EdgesBetween(job.edges, n, v)) = 0
      BY <1>2, <1>3, <3>3, DecrementKeepsBound
    <3> QED
      BY <3>1, <3>2, <3>4
  <2>3. TableInv'
    BY <2>2 DEF TableInv
  <2>4. /\ toSubmit'[n] = released
        /\ \A t \in Node \cup {None} : t # n => toSubmit'[t] = toSubmit[t]
        /\ released # {} => pc'[n] = "submitting"
        /\ done => done'
    BY <1>2, <1>3, <1>6 DEF TypeOK
  <2>5. outputs' = Node => done'
    <3>1. outputs' = Node => completedCount + 1 = NodeCount
      BY <1>2, <1>3, CountStep, NodesFinite DEF RunInv, IInv, OutputInv
    <3> QED
      BY <1>2, <1>6, <3>1
  <2>6. DoneInv'
    BY <1>2, <1>4, <1>6, <2>5 DEF Wakeful, DoneInv
  <2>7. ASSUME NEW v \in Node, indegree'[v] = 0, pc'[v] = "idle",
               main \in {"submitting", "waiting"}
        PROVE  \E t \in Node \cup {None} : v \in toSubmit'[t]
    <3>1. v # n /\ pc[v] = "idle"
      BY <1>4, <2>7
    <3>2. CASE indegree[v] = 0
      <4>1. PICK t \in Node \cup {None} : v \in toSubmit[t]
        BY <1>6, <2>7, <3>1, <3>2 DEF Wakeful, ReadyInv
      <4> QED
        BY <2>1, <2>4, <4>1
    <3>3. CASE indegree[v] # 0
      <4>1. EdgesBetween(job.edges, n, v) # {}
        BY <2>2, <2>7, <3>3
      <4>2. v \in released
        BY <1>1, <1>2, <1>3, <1>6, <2>7, <4>1 DEF Released, TypeOK
      <4> QED
        BY <2>4, <4>2
    <3> QED
      BY <3>2, <3>3
  <2>8. \A t \in Node : toSubmit'[t] # {} => pc'[t] = "submitting" \/ done'
    BY <1>4, <2>4 DEF Wakeful, ReadyInv
  <2>9. toSubmit'[None] = toSubmit[None] /\ job' = job /\ main' = main
    BY <1>2, <1>3, <2>4
  <2>10. ReadyInv'
    BY <2>7, <2>8, <2>9 DEF Wakeful, ReadyInv, CyclicJobs
  <2> QED
    BY <2>3, <2>6, <2>10 DEF Wakeful
<1> QED
  BY <1>5, <1>6

LEMMA HandleFailureKeepsWakeful ==
  ASSUME RunInv, Wakeful, NEW n \in Node, HandleFailure(n)
  PROVE  Wakeful'
<1>1. /\ pc' = [pc EXCEPT ![n] = "finished"]
      /\ UNCHANGED <<job, indegree, outputs, toSubmit, main>>
      /\ \/ firstFailure = None /\ firstFailure' = n /\ done' = TRUE
         \/ firstFailure # None /\ UNCHANGED <<firstFailure, done>>
  BY DEF HandleFailure, NoteFailure, Proceed, pool, control
<1>2. firstFailure' # None /\ done'
  BY <1>1, NodeFacts DEF Wakeful, DoneInv
<1>3. \A m \in Node : pc'[m] = "submitting" => pc[m] = "submitting"
  BY <1>1 DEF RunInv, IInv, TypeOK
<1> QED
  BY <1>1, <1>2, <1>3 DEF Wakeful, TableInv, DoneInv, ReadyInv, CyclicJobs

\* One executor.submit(m) leaves no other list and no other place changed.
LEMMA EnqueueKeepsWakeful ==
  ASSUME RunInv, Wakeful, NEW t \in Node \cup {None}, NEW m \in Node, EnqueueStep(t, m),
         t # None => (pc'[t] = "finished" => toSubmit[t] = {m}),
         main \in {"submitting", "waiting", "draining"},
         t # None => main' = main,
         t = None => main' = IF toSubmit[None] = {m} THEN "waiting" ELSE "submitting",
         t = None => main = "submitting"
  PROVE  Wakeful'
<1>1. /\ m \in toSubmit[t] /\ m # t /\ pc[m] = "idle"
      /\ pc'[m] = "queued" /\ \A k \in Node \ {m, t} : pc'[k] = pc[k]
      /\ t # None => /\ pc[t] = "submitting" /\ pc'[t] \in {"submitting", "finished"}
      /\ UNCHANGED <<job, indegree, outputs, done, firstFailure>>
  BY DEF EnqueueStep, RunInv, IInv, ClaimInv
<1>2. /\ toSubmit'[t] = toSubmit[t] \ {m}
      /\ \A s \in Node \cup {None} : s # t => toSubmit'[s] = toSubmit[s]
  BY DEF EnqueueStep, RunInv, IInv, TypeOK
<1>3. TableInv'
  BY <1>1, TableKept DEF Wakeful
<1>4. DoneInv'
  <2>1. \A n \in Node : pc'[n] \in {"submitting", "finished"} =>
           pc'[n] = pc[n] \/ pc[n] = "submitting"
    BY <1>1, NodeFacts
  <2>2. \A n \in Node : pc[n] = "submitting" => n \in outputs
    BY DEF Wakeful, DoneInv
  <2>3. UNCHANGED <<outputs, done, firstFailure>>
    BY <1>1
  <2> QED
    BY <2>1, <2>2, <2>3 DEF Wakeful, DoneInv
<1>5. \A s \in Node : toSubmit'[s] # {} => pc'[s] = "submitting" \/ done
  <2>1. ASSUME NEW s \in Node, s # t, toSubmit'[s] # {}
        PROVE  pc'[s] = "submitting" \/ done
    BY <1>1, <1>2, <2>1 DEF Wakeful, ReadyInv
  <2>2. ASSUME t \in Node, toSubmit'[t] # {}
        PROVE  pc'[t] = "submitting"
    BY <1>1, <1>2, <2>2, NodeFacts
  <2> QED
    BY <2>1, <2>2
<1>6. \A v \in Node : pc'[v] = "idle" => pc[v] = "idle" /\ v # m
  BY <1>1, NodeFacts
<1>7. \A v \in Node : \A s \in Node \cup {None} : v # m /\ v \in toSubmit[s] => v \in toSubmit'[s]
  BY <1>2
<1>8. main' = "submitting" <=> toSubmit'[None] # {}
  BY <1>1, <1>2 DEF Wakeful, ReadyInv
<1>9. main' \in {"announcing", "submitting", "waiting"} => main \in {"submitting", "waiting"}
  OBVIOUS
<1>10. ReadyInv'
  BY <1>1, <1>5, <1>6, <1>7, <1>8, <1>9 DEF Wakeful, ReadyInv, CyclicJobs
<1> QED
  BY <1>3, <1>4, <1>10 DEF Wakeful

LEMMA SubmitNextKeepsWakeful ==
  ASSUME RunInv, Wakeful, NEW n \in Node, SubmitNext(n)
  PROVE  Wakeful'
<1>1. PICK m : m = Min(toSubmit[n])
  OBVIOUS
<1>2. TypeOK /\ pc[n] = "submitting" /\ toSubmit[n] # {} /\ toSubmit[n] \subseteq Node
  BY DEF SubmitNext, RunInv, IInv, ClaimInv, TypeOK
<1>3. m \in toSubmit[n] /\ m \in Node /\ m # n
  <2>1. m \in toSubmit[n] /\ m \in Node
    BY <1>1, <1>2, MinOfNodes
  <2> QED
    BY <1>2, <2>1 DEF RunInv, IInv, ClaimInv
<1>4. UNCHANGED <<job, runStatus, nodeStatus, artifacts, events, indegree, outputs,
                  completedCount, done, firstFailure, shut, main>>
  BY DEF SubmitNext, rows, locked, control
<1>5. CASE /\ Enqueue(n, m)
           /\ pc' = [pc EXCEPT ![m] = "queued",
                               ![n] = IF toSubmit[n] = {m} THEN "finished" ELSE "submitting"]
  <2>1. EnqueueStep(n, m)
    BY <1>2, <1>3, <1>4, <1>5 DEF EnqueueStep, Enqueue, TypeOK
  <2>2. pc'[n] = "finished" => toSubmit[n] = {m}
    BY <1>2, <1>3, <1>5 DEF TypeOK
  <2>3. main \in {"submitting", "waiting", "draining"}
    BY <1>2, BusyMeansOpen DEF RunInv, IInv, Working
  <2> QED
    BY <1>3, <1>4, <2>1, <2>2, <2>3, EnqueueKeepsWakeful, NodeFacts
<1>6. CASE shut /\ pc' = [pc EXCEPT ![n] = "failing"] /\ UNCHANGED <<queue, toSubmit>>
  <2>1. MovesOn(n)
    BY <1>2, <1>4, <1>6 DEF MovesOn, TypeOK, RunInv, IInv, FailureInv
  <2> QED
    BY <2>1, MovesOnKeepsWakeful
<1> QED
  BY <1>1, <1>5, <1>6 DEF SubmitNext

LEMMA ThreadKeepsWakeful ==
  ASSUME RunInv, Wakeful, NEW n \in Node, Thread(n)
  PROVE  Wakeful'
<1>1. CASE Begin(n)
  <2>1. pc[n] = "queued" /\ pc' = [pc EXCEPT ![n] = "resolving"]
    BY <1>1 DEF Begin, RunInv, IInv, TypeOK, QueueInv
  <2>2. UNCHANGED <<job, indegree, outputs, done, firstFailure, toSubmit, main>>
    BY <1>1 DEF Begin, locked, control
  <2>3. MovesOn(n)
    BY <2>1, <2>2 DEF MovesOn, RunInv, IInv, TypeOK
  <2> QED
    BY <2>3, MovesOnKeepsWakeful
<1>2. CASE LocalStep(n)
  <2>1. MovesOn(n)
    BY <1>2 DEF LocalStep, MovesOn, RunInv, IInv, TypeOK, Working, locked, pool, control
  <2> QED
    BY <2>1, MovesOnKeepsWakeful
<1>3. LocalStep(n) \/ Begin(n) \/ Record(n) \/ SubmitNext(n) \/ HandleFailure(n)
  BY LocalSteps DEF RunInv, IInv, Thread
<1> QED
  BY <1>1, <1>2, <1>3, RecordKeepsWakeful, SubmitNextKeepsWakeful, HandleFailureKeepsWakeful

\* The main thread goes somewhere else than to the roots or to the wait.
LEMMA MainLeavesWakeful ==
  ASSUME RunInv, Wakeful, main # "submitting",
         main' \in {"submitting", "waiting"} => main' = main,
         main' = "announcing" => job \notin CyclicJobs,
         main' # "submitting",
         UNCHANGED <<job, indegree, outputs, done, firstFailure, toSubmit, pc>>
  PROVE  Wakeful'
<1>1. TableInv' /\ DoneInv'
  BY TableKept DEF Wakeful, DoneInv
<1>2. ReadyInv'
  BY DEF Wakeful, ReadyInv, CyclicJobs
<1> QED
  BY <1>1, <1>2 DEF Wakeful

LEMMA PublishRunStartedKeepsWakeful ==
  ASSUME RunInv, Wakeful, PublishRunStarted
  PROVE  Wakeful'
<1>1. /\ main = "announcing" /\ UNCHANGED <<job, indegree, outputs, done, firstFailure, pc>>
      /\ \/ main' = "submitting" /\ toSubmit' = [toSubmit EXCEPT ![None] = Roots(indegree)]
         \/ main' = "end" /\ UNCHANGED toSubmit
  BY DEF PublishRunStarted, ProceedMain, RaiseMain, locked
<1>2. /\ TypeOK /\ job \notin CyclicJobs
      /\ \A n \in Node : pc[n] = "idle"
      /\ \A t \in Node \cup {None} : toSubmit[t] = {}
  BY <1>1 DEF RunInv, IInv, MainInv, Wakeful, ReadyInv
<1>3. CASE main' = "end"
  BY <1>1, <1>3, MainLeavesWakeful
<1>4. CASE main' = "submitting"
  <2>1. firstFailure = None /\ outputs # Node
    <3>1. firstFailure = None
      BY <1>2 DEF RunInv, IInv, FailureInv, TypeOK
    <3>2. NodeCount \in Node /\ NodeCount \notin outputs
      BY <1>2, NodeFacts DEF RunInv, IInv, OutputInv
    <3> QED
      BY <3>1, <3>2
  <2>2. Roots(indegree) # {}
    <3>1. \E v \in Node \ outputs : indegree[v] = 0
      BY <1>2, <2>1, ReadyExists DEF Wakeful
    <3> QED
      BY <1>2, <3>1 DEF Roots, TypeOK
  <2>3. /\ toSubmit'[None] = Roots(indegree)
        /\ \A n \in Node : toSubmit'[n] = {}
    BY <1>1, <1>2, <1>4, NodeFacts DEF TypeOK
  <2>4. \A v \in Node : indegree[v] = 0 => v \in toSubmit'[None]
    BY <1>2, <2>3 DEF Roots, TypeOK
  <2>5. TableInv' /\ DoneInv'
    BY <1>1, TableKept DEF Wakeful, DoneInv
  <2>6. ReadyInv'
    BY <1>1, <1>2, <1>4, <2>2, <2>3, <2>4 DEF ReadyInv, CyclicJobs
  <2> QED
    BY <2>5, <2>6 DEF Wakeful
<1> QED
  BY <1>1, <1>3, <1>4

LEMMA SubmitRootKeepsWakeful ==
  ASSUME RunInv, Wakeful, SubmitRoot
  PROVE  Wakeful'
<1>1. PICK m : m = Min(toSubmit[None])
  OBVIOUS
<1>2. /\ main = "submitting" /\ toSubmit[None] # {}
      /\ main' = IF toSubmit[None] = {m} THEN "waiting" ELSE "submitting"
      /\ Enqueue(None, m) /\ pc' = [pc EXCEPT ![m] = "queued"]
      /\ UNCHANGED <<job, rows, events, locked, shut>>
  BY <1>1 DEF SubmitRoot, ProceedMain
<1>3. TypeOK /\ m \in toSubmit[None] /\ m \in Node
  <2>1. toSubmit[None] \subseteq Node
    BY DEF RunInv, IInv, TypeOK
  <2> QED
    BY <1>1, <1>2, <2>1, MinOfNodes DEF RunInv, IInv
<1>4. EnqueueStep(None, m)
  BY <1>2, <1>3, NodeFacts DEF EnqueueStep, Enqueue, TypeOK, rows, locked
<1> QED
  BY <1>2, <1>3, <1>4, EnqueueKeepsWakeful

LEMMA MainKeepsWakeful ==
  ASSUME RunInv, Wakeful, MainThread
  PROVE  Wakeful'
<1>1. CASE StartRun
  <2>1. /\ main = "idle" /\ main' \in {"skipping", "announcing", "end"}
        /\ main' = "announcing" => job \notin CyclicJobs
        /\ UNCHANGED <<job, indegree, outputs, done, firstFailure, toSubmit, pc>>
    BY <1>1 DEF StartRun, ProceedMain, RaiseMain, Return, locked, pool
  <2> QED
    BY <2>1, MainLeavesWakeful
<1>2. CASE \/ Wake \/ Drained \/ FailNode \/ PublishNodeFailed \/ SkipPending \/ FailRun
           \/ PublishRunFailed \/ CompleteRun \/ PublishRunCompleted
  <2>1. /\ main # "submitting" /\ main' \notin {"announcing", "submitting", "waiting"}
        /\ UNCHANGED <<job, indegree, outputs, done, firstFailure, toSubmit, pc>>
    BY <1>2 DEF Wake, Drained, FailNode, PublishNodeFailed, SkipPending, FailRun,
       PublishRunFailed, CompleteRun, PublishRunCompleted, ProceedMain, RaiseMain, Return,
       locked, pool
  <2> QED
    BY <2>1, MainLeavesWakeful
<1> QED
  BY <1>1, <1>2, PublishRunStartedKeepsWakeful, SubmitRootKeepsWakeful DEF MainThread

LEMMA InitWakeful == Init => Wakeful
<1> SUFFICES ASSUME Init PROVE Wakeful
  OBVIOUS
<1>1. \A v \in Node : OpenEdges(v) = EdgesInto(job.edges, v)
  BY DEF Init, OpenEdges
<1>2. TableInv
  BY <1>1 DEF Init, TableInv, InitialIndegree
<1>3. DoneInv
  BY NodeFacts DEF Init, DoneInv
<1>4. ReadyInv
  BY DEF Init, ReadyInv
<1> QED
  BY <1>2, <1>3, <1>4 DEF Wakeful

LEMMA WakeStep == WakeInv /\ [Next]_vars => WakeInv'
<1> SUFFICES ASSUME WakeInv, [Next]_vars PROVE WakeInv'
  OBVIOUS
<1>1. RunInv /\ Wakeful
  BY DEF WakeInv, Wakeful
<1>2. RunInv'
  BY <1>1, RunStep
<1>3. Wakeful'
  <2>1. CASE UNCHANGED vars
    <3>1. UNCHANGED <<job, indegree, outputs, done, firstFailure, toSubmit, pc, main>>
      BY <2>1 DEF vars, locked, pool, control
    <3>2. TableInv' /\ DoneInv' /\ ReadyInv'
      BY <1>1, <3>1, TableKept DEF Wakeful, DoneInv, ReadyInv, CyclicJobs
    <3> QED
      BY <3>2 DEF Wakeful
  <2> QED
    BY <1>1, <2>1, ThreadKeepsWakeful, MainKeepsWakeful DEF Next, Over
<1> QED
  BY <1>2, <1>3 DEF WakeInv, Wakeful

\* Until a node fails the table counts the open edges exactly, and every node
\* that is ready is on the list of a thread that is there to submit it.
THEOREM WakeInvariant == Spec => []WakeInv
<1>1. Init => WakeInv
  BY InitRun, InitWakeful DEF WakeInv, Wakeful
<1> QED
  BY <1>1, WakeStep, PTL DEF Spec

\* With the pool at rest and no failure, every node that has not recorded its
\* outputs is idle and waits for another such node: a cycle.
LEMMA WakeMeansNeverStuck ==
  ASSUME WakeInv
  PROVE  NeverStuck
<1>1. RunInv /\ TypeOK /\ TableInv /\ DoneInv /\ ReadyInv
  BY DEF WakeInv, RunInv, IInv
<1>2. main = "submitting" => toSubmit[None] # {}
  BY <1>1 DEF ReadyInv
<1>3. ASSUME main = "waiting", ~ done, PoolDrained PROVE FALSE
  <2>1. firstFailure = None /\ outputs # Node /\ job \notin CyclicJobs
    BY <1>1, <1>3 DEF DoneInv, ReadyInv
  <2>2. \A n \in Node : pc[n] \in {"idle", "finished"}
    <3>1. \A n \in Node : pc[n] \notin Working
      BY <1>3 DEF PoolDrained, Busy
    <3>2. \A n \in Node : pc[n] # "queued"
      BY <1>1, <1>3 DEF PoolDrained, RunInv, QueuedInv
    <3> QED
      BY <1>1, <3>1, <3>2 DEF TypeOK
  <2>3. PICK v \in Node \ outputs : indegree[v] = 0
    BY <1>1, <2>1, ReadyExists
  <2>4. pc[v] = "idle"
    BY <1>1, <2>1, <2>2, <2>3 DEF DoneInv
  <2>5. PICK t \in Node \cup {None} : v \in toSubmit[t]
    BY <1>1, <1>3, <2>1, <2>3, <2>4 DEF ReadyInv
  <2>6. t = None
    BY <1>1, <1>3, <2>2, <2>5 DEF ReadyInv
  <2> QED
    BY <1>1, <1>3, <2>5, <2>6 DEF ReadyInv
<1> QED
  BY <1>2, <1>3 DEF NeverStuck

\* done_event.wait() is never waited on in vain.
THEOREM NeverStuckHolds == Spec => []NeverStuck
<1>1. WakeInv => NeverStuck
  BY WakeMeansNeverStuck
<1> QED
  BY <1>1, WakeInvariant, PTL
=============================================================================
