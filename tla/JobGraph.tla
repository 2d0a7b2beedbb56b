------------------------------ MODULE JobGraph ------------------------------
(***************************************************************************)
(* The graph of a worker job (apps/services/worker/src/runner.py), as the  *)
(* scheduler sees it once PipelineJob.from_mapping has parsed it.          *)
(*                                                                         *)
(* A node is named by its position in job.nodes, so that the code's        *)
(* sort(key=position) is the order of the integers.  An edge is a record   *)
(* [src, dst, port]: two edges may join the same two nodes through         *)
(* different input ports, and the code counts each of them.                *)
(***************************************************************************)
EXTENDS Integers, Sequences, FiniteSets, FiniteSetsExt

EdgesInto(E, v) == {e \in E : e.dst = v}

EdgesBetween(E, u, v) == {e \in E : e.src = u /\ e.dst = v}

Upstream(E, v) == {e.src : e \in EdgesInto(E, v)}

\* Mutant: the in-degree counts distinct upstream nodes instead of edges.
MutDistinctIndegree(N, E) == [v \in N |-> Cardinality(Upstream(E, v))]

\* The in-degree table: one per incoming EDGE, not per upstream node.
InitialIndegree(N, E) == [v \in N |-> Cardinality(EdgesInto(E, v))]

\* Completing u takes one off a successor for every edge that joins them.
Decrement(indegree, E, u) ==
    [v \in DOMAIN indegree |-> indegree[v] - Cardinality(EdgesBetween(E, u, v))]

\* Mutant: a successor is released when one of its edges is still open.
MutReleaseEarly(indegree, E, u) ==
    {v \in DOMAIN indegree : /\ EdgesBetween(E, u, v) # {}
                             /\ Decrement(indegree, E, u)[v] <= 1}

\* Mutant: positions off by one.
MutWrongPosition(indegree, E, u) ==
    {v + 1 : v \in {w \in DOMAIN indegree : /\ EdgesBetween(E, u, w) # {}
                                           /\ Decrement(indegree, E, u)[w] = 0}}

\* The successors of u whose in-degree reaches zero when u completes.
Released(indegree, E, u) ==
    {v \in DOMAIN indegree : /\ EdgesBetween(E, u, v) # {}
                             /\ Decrement(indegree, E, u)[v] = 0}

Roots(indegree) == {v \in DOMAIN indegree : indegree[v] = 0}

\* One turn of the while loop of topological_order: ready is kept sorted by
\* position, so pop(0) takes its least element.
PopReady(s, E) ==
    IF s.ready = {} THEN s
    ELSE LET u == Min(s.ready)
         IN [ready    |-> (s.ready \ {u}) \cup Released(s.indegree, E, u),
             indegree |-> Decrement(s.indegree, E, u),
             ordered  |-> Append(s.ordered, u)]

\* Before the loop: the roots are ready.
FirstTurn(n, E) ==
    [ready    |-> Roots(InitialIndegree(1..n, E)),
     indegree |-> InitialIndegree(1..n, E),
     ordered  |-> <<>>]

\* The turns of the loop; n turns empty ready.
\* (s ranges over a singleton so that TLC evaluates a turn only once)
Turns(n, E) ==
    LET turn[i \in 0..n] ==
            IF i = 0 THEN FirstTurn(n, E)
            ELSE CHOOSE t \in {PopReady(s, E) : s \in {turn[i - 1]}} : TRUE
    IN turn

\* PipelineJob.topological_order on the nodes 1..n.
TopologicalOrder(n, E) == Turns(n, E)[n].ordered

\* "Pipeline graph contains a cycle": the order misses a node.
ContainsCycle(n, E) == Len(TopologicalOrder(n, E)) # n

=============================================================================
