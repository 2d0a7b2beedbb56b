------------------------------- MODULE DagRun -------------------------------
(***************************************************************************)
(* What a run promises to whoever reads its rows in the database: the      *)
(* abstract specification of PipelineRunner.  There are no threads, no     *)
(* queue and no counters here, only the rows and the order in which a DAG  *)
(* allows them to change.                                                  *)
(***************************************************************************)
EXTENDS Integers

CONSTANTS Node, Graphs

VARIABLES
    graph,  \* the edges
    run,    \* the run's row
    row     \* the nodes' rows

vars == <<graph, run, row>>

Preds(n) == {e.src : e \in {d \in graph : d.dst = n}}

Init ==
    /\ graph \in Graphs
    /\ \/ run = "pending" /\ row = [n \in Node |-> "pending"]
       \/ run = "failed" /\ row = [n \in Node |-> "skipped"]

Launch ==
    /\ run = "pending"
    /\ run' = "running"
    /\ UNCHANGED <<graph, row>>

\* A node starts only after every node it depends on has completed.
Begin(n) ==
    /\ run = "running" /\ row[n] = "pending"
    /\ \A u \in Preds(n) : row[u] = "completed"
    /\ row' = [row EXCEPT ![n] = "running"]
    /\ UNCHANGED <<graph, run>>

Finish(n) ==
    /\ run = "running" /\ row[n] = "running"
    /\ row' = [row EXCEPT ![n] = "completed"]
    /\ UNCHANGED <<graph, run>>

\* One node is blamed for the failure, once every started node has ended or
\* lost its verdict: it had not started, had not finished, or had finished
\* without being able to say so.
Blame(n) ==
    /\ run = "running"
    /\ \A m \in Node : row[m] # "failed"
    /\ row' = [row EXCEPT ![n] = "failed"]
    /\ UNCHANGED <<graph, run>>

\* The pending rows are skipped together, and only in a run that cannot be
\* completed any more or that never began.
Skip ==
    /\ run = "running"
    /\ \/ \E n \in Node : row[n] = "failed"
       \/ \A n \in Node : row[n] = "pending"
    /\ row' = [n \in Node |-> IF row[n] = "pending" THEN "skipped" ELSE row[n]]
    /\ UNCHANGED <<graph, run>>

Succeed ==
    /\ run = "running"
    /\ \A n \in Node : row[n] = "completed"
    /\ run' = "completed"
    /\ UNCHANGED <<graph, row>>

Fail ==
    /\ run = "running"
    /\ \A n \in Node : row[n] # "pending"
    /\ \/ \E n \in Node : row[n] = "failed"
       \/ \A n \in Node : row[n] = "skipped"
    /\ run' = "failed"
    /\ UNCHANGED <<graph, row>>

Next == \/ Launch \/ Skip \/ Succeed \/ Fail
        \/ \E n \in Node : Begin(n) \/ Finish(n) \/ Blame(n)

Spec == Init /\ [][Next]_vars

=============================================================================
