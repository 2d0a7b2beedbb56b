-------------------------- MODULE MCPipelineRunner --------------------------
(***************************************************************************)
(* Small jobs for PipelineRunner: every shape the scheduler can get wrong. *)
(***************************************************************************)
EXTENDS PipelineRunner

Edge(u, v, p) == [src |-> u, dst |-> v, port |-> p]
Job(E, W) == [edges |-> E, unwired |-> W]

\* Two edges join 1 and 3; 3 also waits for 2.
Twin == {Edge(1, 3, "a"), Edge(1, 3, "b"), Edge(2, 3, "c")}
Chain == {Edge(1, 2, "a"), Edge(2, 3, "a")}
\* A positional order that is not the topological one.
Backward == {Edge(3, 1, "a"), Edge(3, 2, "a")}
Cycle == {Edge(1, 2, "a"), Edge(2, 3, "a"), Edge(3, 2, "b")}
Diamond == {Edge(1, 2, "a"), Edge(1, 3, "a"), Edge(2, 4, "a"), Edge(3, 4, "b")}
Branches == {Edge(1, 3, "a"), Edge(2, 4, "a")}

ThreeNodeJobs ==
    {Job(E, {}) : E \in {Twin, Chain, Backward, Cycle, {}}}
        \cup {Job(Twin, {2}), Job({}, {1})}

FourNodeJobs == {Job(Diamond, {}), Job(Branches, {}), Job(Cycle, {})}

AllJobs == ThreeNodeJobs \cup FourNodeJobs
=============================================================================
