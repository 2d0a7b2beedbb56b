--------------------------- MODULE PipelineRunner ---------------------------
(***************************************************************************)
(* One call of PipelineRunner.run (apps/services/worker/src/runner.py):    *)
(* the main thread starts the run, submits the root nodes to a             *)
(* ThreadPoolExecutor and waits; pool threads execute nodes, write their   *)
(* rows (database.py), publish events (events.py) and, under one lock,     *)
(* release the successors whose in-degree reaches zero.                    *)
(*                                                                         *)
(* Abstracted: payloads, configs, ports other than the one that tells two  *)
(* edges of the same two nodes apart, durations, log events.  A database   *)
(* statement or a publish is one step; each may raise, with or without     *)
(* its effect having been applied (a lost commit reply, an EXPIRE that     *)
(* fails after the XADD), at most MaxFaults times.                         *)
(***************************************************************************)
EXTENDS JobGraph

CONSTANTS
    NodeCount,       \* len(job.nodes)
    MaxConcurrency,  \* max_workers of the pool
    Jobs,            \* the jobs considered: their edges and unwired nodes
    ArtifactNodes,   \* nodes whose block returns a pending artifact
    MaxFaults        \* bound: infrastructure exceptions in one run

Node == 1..NodeCount
None == 0   \* no node: first_failure is empty; also the main thread's name

ASSUME SizeAssumption ==
    /\ NodeCount \in Nat \ {0}
    /\ MaxConcurrency \in Nat \ {0}
    /\ MaxFaults \in Nat
    /\ ArtifactNodes \subseteq Node

ASSUME JobAssumption ==
    \A j \in Jobs :
        /\ IsFiniteSet(j.edges)
        /\ \A e \in j.edges : e.src \in Node /\ e.dst \in Node
        /\ j.unwired \subseteq Node

VARIABLES
    job,             \* the parsed payload (never changes)
    runStatus,       \* workflow_runs.status
    nodeStatus,      \* node_executions.status, one row per node
    artifacts,       \* nodes with a row in artifacts
    events,          \* the events in the run's stream: <<type, node>>
    indegree,        \* under the lock
    outputs,         \* under the lock: nodes whose outputs are recorded
    completedCount,  \* under the lock
    done,            \* done_event.is_set()
    firstFailure,    \* under the lock: first_failure["node"], or None
    queue,           \* the executor's FIFO work queue
    shut,            \* the executor refuses new work
    pc,              \* where _execute_node(n) stands
    toSubmit,        \* nodes a thread (None: the main one) has yet to submit
    main,            \* where run() stands
    outcome,         \* RunOutcome.status, or "raised"
    faults           \* infrastructure exceptions so far

rows == <<runStatus, nodeStatus, artifacts>>
locked == <<indegree, outputs, completedCount, done, firstFailure>>
pool == <<queue, shut, toSubmit>>
control == <<main, outcome>>
vars == <<job, rows, events, locked, pool, pc, control, faults>>

RunState == {"pending", "running", "completed", "failed"}
RowState == {"pending", "running", "completed", "failed", "skipped"}
Working == {"resolving", "starting", "announcing", "executing", "storing",
            "announcingArtifact", "completing", "announcingDone", "recording",
            "submitting", "failing"}
Event == {<<t, None>> : t \in {"run.started", "run.completed", "run.failed"}}
         \cup {<<t, n>> : t \in {"node.started", "artifact.created",
                                 "node.completed", "node.failed"}, n \in Node}

\* The jobs whose from_mapping raises.
CyclicJobs == {j \in Jobs : ContainsCycle(NodeCount, j.edges)}

Preds(n) == Upstream(job.edges, n)
Busy == {n \in Node : pc[n] \in Working}

(***************************************************************************)
(* The run's row is pending when the job is delivered, or already failed   *)
(* by the API, which then skipped the rows (markEnqueueFailure).           *)
(***************************************************************************)
Init ==
    /\ job \in Jobs
    /\ \/ runStatus = "pending" /\ nodeStatus = [n \in Node |-> "pending"]
       \/ runStatus = "failed" /\ nodeStatus = [n \in Node |-> "skipped"]
    /\ artifacts = {}
    /\ events = {}
    /\ indegree = InitialIndegree(Node, job.edges)
    /\ outputs = {}
    /\ completedCount = 0
    /\ done = FALSE
    /\ firstFailure = None
    /\ queue = <<>>
    /\ shut = FALSE
    /\ pc = [n \in Node |-> "idle"]
    /\ toSubmit = [t \in Node \cup {None} |-> {}]
    /\ main = "idle"
    /\ outcome = "none"
    /\ faults = 0

(***************************************************************************)
(* Ways to go on.  A thread's exception lands in its except clause; one of *)
(* the main thread leaves run().                                           *)
(***************************************************************************)
Proceed(n, from, to) ==
    /\ pc[n] = from
    /\ pc' = [pc EXCEPT ![n] = to]
    /\ UNCHANGED faults

Raise(n, from) ==
    /\ pc[n] = from
    /\ faults < MaxFaults
    /\ faults' = faults + 1
    /\ pc' = [pc EXCEPT ![n] = "failing"]

Attempt(n, from, to) == Proceed(n, from, to) \/ Raise(n, from)

ProceedMain(from, to) ==
    /\ main = from
    /\ main' = to
    /\ UNCHANGED <<outcome, faults>>

Return(from, status) ==
    /\ main = from
    /\ main' = "end"
    /\ outcome' = status
    /\ UNCHANGED faults

RaiseMain(from) ==
    /\ main = from
    /\ faults < MaxFaults
    /\ faults' = faults + 1
    /\ main' = "end"
    /\ outcome' = "raised"

SetRow(n, status) == nodeStatus' = [nodeStatus EXCEPT ![n] = status]
Publish(type, n) == events' = events \cup {<<type, n>>}

(***************************************************************************)
(* _execute_node, on a pool thread.                                        *)
(***************************************************************************)

\* An idle pool thread takes the oldest work item.
Begin(n) ==
    /\ queue # <<>>
    /\ n = Head(queue)
    /\ Cardinality(Busy) < MaxConcurrency
    /\ queue' = Tail(queue)
    /\ pc' = [pc EXCEPT ![n] = "resolving"]
    /\ UNCHANGED <<job, rows, events, locked, shut, toSubmit, control, faults>>

\* A source's outputs are not recorded, or a required port has no edge.
MissingInputs(n) == ~(Preds(n) \subseteq outputs) \/ n \in job.unwired

ResolveInputs(n) ==
    /\ Proceed(n, "resolving", IF MissingInputs(n) THEN "failing" ELSE "starting")
    /\ UNCHANGED <<job, rows, events, locked, pool, control>>

StartNode(n) ==
    /\ \/ Attempt(n, "starting", "announcing") /\ SetRow(n, "running")
       \/ Raise(n, "starting") /\ UNCHANGED nodeStatus
    /\ UNCHANGED <<job, runStatus, artifacts, events, locked, pool, control>>

PublishStarted(n) ==
    /\ \/ Attempt(n, "announcing", "executing") /\ Publish("node.started", n)
       \/ Raise(n, "announcing") /\ UNCHANGED events
    /\ UNCHANGED <<job, rows, locked, pool, control>>

\* registry.resolve and block.execute: it may raise, or return wrong ports.
Execute(n) ==
    /\ \/ Proceed(n, "executing", "failing")
       \/ Proceed(n, "executing",
                  IF n \in ArtifactNodes THEN "storing" ELSE "completing")
    /\ UNCHANGED <<job, rows, events, locked, pool, control>>

StoreArtifact(n) ==
    /\ \/ /\ Attempt(n, "storing", "announcingArtifact")
          /\ artifacts' = artifacts \cup {n}
       \/ Raise(n, "storing") /\ UNCHANGED artifacts
    /\ UNCHANGED <<job, runStatus, nodeStatus, events, locked, pool, control>>

PublishArtifact(n) ==
    /\ \/ /\ Attempt(n, "announcingArtifact", "completing")
          /\ Publish("artifact.created", n)
       \/ Raise(n, "announcingArtifact") /\ UNCHANGED events
    /\ UNCHANGED <<job, rows, locked, pool, control>>

\* Mutant: node.completed is published before the row is written.
MutPublishFirst(n) ==
    /\ Attempt(n, "completing", "announcingDone")
    /\ Publish("node.completed", n)
    /\ UNCHANGED <<job, rows, locked, pool, control>>

CompleteNode(n) ==
    /\ \/ Attempt(n, "completing", "announcingDone") /\ SetRow(n, "completed")
       \/ Raise(n, "completing") /\ UNCHANGED nodeStatus
    /\ UNCHANGED <<job, runStatus, artifacts, events, locked, pool, control>>

PublishCompleted(n) ==
    /\ \/ Attempt(n, "announcingDone", "recording") /\ Publish("node.completed", n)
       \/ Raise(n, "announcingDone") /\ UNCHANGED events
    /\ UNCHANGED <<job, rows, locked, pool, control>>

\* Mutant: done_event is set one node too late.
MutDoneOffByOne(n) == completedCount = NodeCount

\* completed_count, counting n, has reached total_nodes.
IsLast(n) == completedCount + 1 = NodeCount

\* The critical section that ends a successful execution.
Record(n) ==
    /\ outputs' = outputs \cup {n}
    /\ completedCount' = completedCount + 1
    /\ LET released == Released(indegree, job.edges, n)
       IN \/ /\ firstFailure # None
             /\ Proceed(n, "recording", "finished")
             /\ UNCHANGED <<indegree, done, toSubmit>>
          \/ /\ firstFailure = None
             /\ Proceed(n, "recording",
                        IF released = {} THEN "finished" ELSE "submitting")
             /\ indegree' = Decrement(indegree, job.edges, n)
             /\ toSubmit' = [toSubmit EXCEPT ![n] = released]
             /\ done' = (done \/ IsLast(n))
    /\ UNCHANGED <<job, rows, events, firstFailure, queue, shut, control>>

\* executor.submit(m), by thread t.
Enqueue(t, m) ==
    /\ queue' = Append(queue, m)
    /\ toSubmit' = [toSubmit EXCEPT ![t] = @ \ {m}]

\* The loop after the lock is released; submit raises once the pool is shut.
SubmitNext(n) ==
    LET m == Min(toSubmit[n])
    IN /\ pc[n] = "submitting"
       /\ \/ /\ ~shut
             /\ Enqueue(n, m)
             /\ pc' = [pc EXCEPT ![m] = "queued",
                                 ![n] = IF toSubmit[n] = {m} THEN "finished"
                                        ELSE "submitting"]
          \/ /\ shut
             /\ pc' = [pc EXCEPT ![n] = "failing"]
             /\ UNCHANGED <<queue, toSubmit>>
       /\ UNCHANGED <<job, rows, events, locked, shut, control, faults>>

\* Mutant: the last failure wins.
MutLastFailure(n) == firstFailure' = n /\ done' = TRUE

\* Mutant: the failure wakes the main thread but is not kept.
MutForgetFailure(n) == done' = TRUE /\ UNCHANGED firstFailure

\* Mutant: the failure is kept but the waiting main thread is not woken.
MutSilentFailure(n) ==
    /\ firstFailure' = IF firstFailure = None THEN n ELSE firstFailure
    /\ UNCHANGED done

\* The first failure is kept and wakes the main thread; later ones are lost.
NoteFailure(n) ==
    IF firstFailure = None
    THEN firstFailure' = n /\ done' = TRUE
    ELSE UNCHANGED <<firstFailure, done>>

\* The except clause of _execute_node.
HandleFailure(n) ==
    /\ Proceed(n, "failing", "finished")
    /\ NoteFailure(n)
    /\ UNCHANGED <<job, rows, events, indegree, outputs, completedCount, pool,
                   control>>

Thread(n) ==
    \/ Begin(n) \/ ResolveInputs(n) \/ StartNode(n) \/ PublishStarted(n)
    \/ Execute(n) \/ StoreArtifact(n) \/ PublishArtifact(n) \/ CompleteNode(n)
    \/ PublishCompleted(n) \/ Record(n)
    \/ SubmitNext(n) \/ HandleFailure(n)

(***************************************************************************)
(* run, on the main thread.                                                *)
(***************************************************************************)

\* from_mapping raises on a cycle; start_run is guarded by status = 'pending'.
StartRun ==
    LET cyclic == job \in CyclicJobs
    IN /\ \/ /\ runStatus = "pending"
             /\ runStatus' = "running"
             /\ \/ ProceedMain("idle", IF cyclic THEN "skipping" ELSE "announcing")
                \/ RaiseMain("idle")
          \/ /\ runStatus # "pending"
             /\ Return("idle", IF cyclic THEN "failed" ELSE "duplicate")
             /\ UNCHANGED runStatus
          \/ RaiseMain("idle") /\ UNCHANGED runStatus
       /\ UNCHANGED <<job, nodeStatus, artifacts, events, locked, pool, pc>>

PublishRunStarted ==
    /\ \/ /\ ProceedMain("announcing", "submitting")
          /\ Publish("run.started", None)
          /\ toSubmit' = [toSubmit EXCEPT ![None] = Roots(indegree)]
       \/ /\ RaiseMain("announcing")
          /\ Publish("run.started", None) \/ UNCHANGED events
          /\ UNCHANGED toSubmit
    /\ UNCHANGED <<job, rows, locked, queue, shut, pc>>

SubmitRoot ==
    LET m == Min(toSubmit[None])
    IN /\ toSubmit[None] # {}
       /\ ProceedMain("submitting",
                      IF toSubmit[None] = {m} THEN "waiting" ELSE "submitting")
       /\ Enqueue(None, m)
       /\ pc' = [pc EXCEPT ![m] = "queued"]
       /\ UNCHANGED <<job, rows, events, locked, shut>>

\* done_event.wait() returns and the with block begins shutdown(wait=True).
Wake ==
    /\ done
    /\ ProceedMain("waiting", "draining")
    /\ shut' = TRUE
    /\ UNCHANGED <<job, rows, events, locked, queue, toSubmit, pc>>

\* Mutant: shutdown(wait=False).
MutNoWait == TRUE

\* Every queued item has been taken (none is cancelled) and has ended.
PoolDrained == queue = <<>> /\ Busy = {}

Drained ==
    /\ PoolDrained
    /\ ProceedMain("draining", IF firstFailure # None THEN "failingNode"
                               ELSE "completingRun")
    /\ UNCHANGED <<job, rows, events, locked, pool, pc>>

FailNode ==
    /\ \/ /\ ProceedMain("failingNode", "announcingNode") \/ RaiseMain("failingNode")
          /\ SetRow(firstFailure, "failed")
       \/ RaiseMain("failingNode") /\ UNCHANGED nodeStatus
    /\ UNCHANGED <<job, runStatus, artifacts, events, locked, pool, pc>>

PublishNodeFailed ==
    /\ \/ /\ ProceedMain("announcingNode", "skipping") \/ RaiseMain("announcingNode")
          /\ Publish("node.failed", firstFailure)
       \/ RaiseMain("announcingNode") /\ UNCHANGED events
    /\ UNCHANGED <<job, rows, locked, pool, pc>>

\* Mutant: no row is skipped.
MutSkipNothing(n) == FALSE

\* WHERE status = 'pending'
Skippable(n) == nodeStatus[n] = "pending"

SkipPending ==
    /\ \/ /\ ProceedMain("skipping", "failingRun") \/ RaiseMain("skipping")
          /\ nodeStatus' = [n \in Node |-> IF Skippable(n) THEN "skipped"
                                           ELSE nodeStatus[n]]
       \/ RaiseMain("skipping") /\ UNCHANGED nodeStatus
    /\ UNCHANGED <<job, runStatus, artifacts, events, locked, pool, pc>>

\* fail_run: WHERE status NOT IN ('completed', 'cancelled')
FailRun ==
    /\ \/ /\ ProceedMain("failingRun", "announcingFailure") \/ RaiseMain("failingRun")
          /\ runStatus' = IF runStatus = "completed" THEN runStatus ELSE "failed"
       \/ RaiseMain("failingRun") /\ UNCHANGED runStatus
    /\ UNCHANGED <<job, nodeStatus, artifacts, events, locked, pool, pc>>

PublishRunFailed ==
    /\ \/ /\ Return("announcingFailure", "failed") \/ RaiseMain("announcingFailure")
          /\ Publish("run.failed", None)
       \/ RaiseMain("announcingFailure") /\ UNCHANGED events
    /\ UNCHANGED <<job, rows, locked, pool, pc>>

CompleteRun ==
    /\ \/ /\ \/ ProceedMain("completingRun", "announcingSuccess")
             \/ RaiseMain("completingRun")
          /\ runStatus' = "completed"
       \/ RaiseMain("completingRun") /\ UNCHANGED runStatus
    /\ UNCHANGED <<job, nodeStatus, artifacts, events, locked, pool, pc>>

PublishRunCompleted ==
    /\ \/ /\ \/ Return("announcingSuccess", "completed")
             \/ RaiseMain("announcingSuccess")
          /\ Publish("run.completed", None)
       \/ RaiseMain("announcingSuccess") /\ UNCHANGED events
    /\ UNCHANGED <<job, rows, locked, pool, pc>>

MainThread ==
    \/ StartRun \/ PublishRunStarted \/ SubmitRoot \/ Wake \/ Drained
    \/ FailNode \/ PublishNodeFailed \/ SkipPending \/ FailRun
    \/ PublishRunFailed \/ CompleteRun \/ PublishRunCompleted

\* run() has returned or raised: the call is over.
Over == main = "end" /\ UNCHANGED vars

Next == MainThread \/ (\E n \in Node : Thread(n)) \/ Over

Spec == Init /\ [][Next]_vars

\* The operating system runs every runnable thread, and blocks terminate.
FairSpec == Spec /\ WF_vars(MainThread) /\ \A n \in Node : WF_vars(Thread(n))

-----------------------------------------------------------------------------
(***************************************************************************)
(* Properties.                                                             *)
(***************************************************************************)

TypeOK ==
    /\ job \in Jobs
    /\ runStatus \in RunState
    /\ nodeStatus \in [Node -> RowState]
    /\ artifacts \subseteq Node
    /\ events \subseteq Event
    /\ indegree \in [Node -> Int]
    /\ outputs \subseteq Node
    /\ completedCount \in Nat
    /\ done \in BOOLEAN
    /\ firstFailure \in Node \cup {None}
    /\ queue \in Seq(Node)
    /\ shut \in BOOLEAN
    /\ pc \in [Node -> Working \cup {"idle", "queued", "finished"}]
    /\ toSubmit \in [Node \cup {None} -> SUBSET Node]
    /\ main \in {"idle", "announcing", "submitting", "waiting", "draining",
                 "failingNode", "announcingNode", "skipping", "failingRun",
                 "announcingFailure", "completingRun", "announcingSuccess", "end"}
    /\ outcome \in {"none", "duplicate", "failed", "completed", "raised"}
    /\ faults \in 0..MaxFaults

\* A node is submitted only when every upstream node has completed for good
\* and left its outputs: the in-degree table, decremented edge by edge from
\* several threads, never lets a node run on missing inputs.
UpstreamFirst ==
    \A n \in Node : pc[n] # "idle" =>
        \A u \in Preds(n) : u \in outputs /\ nodeStatus[u] = "completed"

\* No node is submitted twice, by one thread or by two that complete its
\* upstream nodes at the same time: every item still to be submitted is
\* claimed by one thread only and has never been queued.
SubmittedOnce ==
    /\ \A i, k \in DOMAIN queue : queue[i] = queue[k] => i = k
    /\ \A i \in DOMAIN queue : pc[queue[i]] = "queued"
    /\ \A t \in Node \cup {None} : \A n \in toSubmit[t] :
          /\ pc[n] = "idle"
          /\ \A s \in Node \cup {None} : n \in toSubmit[s] => s = t

\* A run is recorded as completed only when every node's row is completed,
\* every node's completion was announced and every output recorded.
CompletedRunIsWhole ==
    runStatus = "completed" =>
        \A n \in Node : /\ nodeStatus[n] = "completed"
                        /\ <<"node.completed", n>> \in events
                        /\ n \in outputs

\* No row is left pending, and some row says failed unless nothing was
\* executed at all.
Settled ==
    /\ \A n \in Node : nodeStatus[n] # "pending"
    /\ \/ \E n \in Node : nodeStatus[n] = "failed"
       \/ \A n \in Node : nodeStatus[n] = "skipped"

\* When the run's row says failed the rows of its nodes are settled, whichever
\* call raised meanwhile.
FailedRunIsSettled == runStatus = "failed" => Settled

\* Rows are written before the event that announces them (README, "Node
\* executions"): a client that reacts to an event by reading the database
\* never sees an older state.
RowsLeadEvents ==
    /\ \A n \in Node :
          /\ <<"node.started", n>> \in events =>
                nodeStatus[n] \in {"running", "completed", "failed"}
          /\ <<"node.completed", n>> \in events =>
                nodeStatus[n] \in {"completed", "failed"}
          /\ <<"node.failed", n>> \in events => nodeStatus[n] = "failed"
          /\ <<"artifact.created", n>> \in events => n \in artifacts
    /\ <<"run.completed", None>> \in events => runStatus = "completed"
    /\ <<"run.failed", None>> \in events => runStatus = "failed"

\* Once the run's row is terminal no pool thread touches a row or inserts an
\* artifact, and once the terminal event is out nothing follows it: a client
\* that closes its stream on the terminal event misses nothing.
NothingAfterTerminal ==
    [][/\ runStatus \in {"completed", "failed"} => UNCHANGED rows
       /\ {<<"run.completed", None>>, <<"run.failed", None>>} \cap events # {}
             => UNCHANGED events]_vars

\* At most one node is recorded or announced as failed, the one whose
\* exception ended the run, and never a node whose outputs its successors
\* may already be using.
OneCulprit ==
    \A n \in Node :
        nodeStatus[n] = "failed" \/ <<"node.failed", n>> \in events
            => n = firstFailure /\ n \notin outputs

\* No lost wakeup: while run() waits in done_event.wait(), either the event is
\* set or the pool still holds work that will set it.  No node is left behind
\* that no thread would submit, and the roots to submit never run out early.
NeverStuck ==
    /\ main = "submitting" => toSubmit[None] # {}
    /\ main = "waiting" => done \/ ~PoolDrained

\* run() always ends, whatever blocks fail and whichever threads are slow:
\* the worker's loop is never stuck in done_event.wait().
RunReturns == <>(main = "end")

\* Every run that starts is settled, unless an infrastructure call raises.
RunSettles ==
    (runStatus = "running") ~> (runStatus \in {"completed", "failed"} \/ faults > 0)

\* The rows seen from outside are those of DagRun: nodes start in dependency
\* order, the run closes as a whole and every row it leaves is settled once.
Rows == INSTANCE DagRun WITH graph <- job.edges, run <- runStatus,
                             row <- nodeStatus,
                             Graphs <- {j.edges : j \in Jobs}

ImplementsDagRun == Rows!Spec

-----------------------------------------------------------------------------
(***************************************************************************)
(* What the documentation says and the code does not do.                   *)
(***************************************************************************)

\* README, Runner: "node hiện tại thành `failed`" - a node whose execution
\* raises gets a failed row.  Once the run's row says failed no row should
\* still say running.
FailingNodesMarked ==
    runStatus = "failed" => \A n \in Node : nodeStatus[n] # "running"

-----------------------------------------------------------------------------
(***************************************************************************)
(* The inductive invariant behind the safety properties.                   *)
(***************************************************************************)

\* Edges into v whose source has not recorded its outputs.
OpenEdges(v) == {e \in EdgesInto(job.edges, v) : e.src \notin outputs}

\* No thread of the pool is at work or about to be.
Quiet == queue = <<>> /\ Busy = {}

\* The table never runs ahead of the recorded outputs; a node is handed to
\* the pool only at zero.
IndegreeInv ==
    /\ \A v \in Node : indegree[v] >= Cardinality(OpenEdges(v))
    /\ \A v \in Node : pc[v] # "idle" => indegree[v] = 0

\* What is still to be submitted is idle, ready and claimed once.
ClaimInv ==
    /\ \A t \in Node \cup {None} : \A v \in toSubmit[t] :
          indegree[v] = 0 /\ pc[v] = "idle"
    /\ \A s, t \in Node \cup {None} : s # t => toSubmit[s] \cap toSubmit[t] = {}
    /\ \A n \in Node : pc[n] = "submitting" => toSubmit[n] # {}

QueueInv ==
    /\ \A i \in DOMAIN queue : pc[queue[i]] = "queued"
    /\ \A i, k \in DOMAIN queue : queue[i] = queue[k] => i = k

\* A recorded output belongs to a node that is completed for good.
OutputInv ==
    /\ completedCount = Cardinality(outputs)
    /\ \A n \in outputs : /\ nodeStatus[n] = "completed"
                          /\ <<"node.completed", n>> \in events
                          /\ pc[n] \in {"submitting", "failing", "finished"}
    /\ \A n \in Node :
          /\ pc[n] \in {"announcingDone", "recording"} => nodeStatus[n] = "completed"
          /\ pc[n] = "recording" => <<"node.completed", n>> \in events

\* The culprit has ended without recording outputs, and the main thread is
\* woken only by a failure or by the last output.
FailureInv ==
    /\ firstFailure # None =>
          pc[firstFailure] = "finished" /\ firstFailure \notin outputs
    /\ \A n \in outputs : pc[n] = "failing" => firstFailure # None
    /\ done => firstFailure # None \/ outputs = Node
    /\ shut => done

\* Outside the with block the pool is quiet; the verdict follows from what
\* the pool left; nothing but the announcement follows a terminal row.
MainInv ==
    /\ main \notin {"submitting", "waiting", "draining"} => Quiet
    /\ main \in {"idle", "announcing"} =>
          /\ \A n \in Node : pc[n] = "idle"
          /\ \A t \in Node \cup {None} : toSubmit[t] = {}
    /\ main = "draining" => shut
    /\ main \in {"failingNode", "announcingNode"} => firstFailure # None
    /\ main \in {"completingRun", "announcingSuccess"} \/ runStatus = "completed" =>
          outputs = Node /\ firstFailure = None
    /\ runStatus \in {"completed", "failed"} =>
          main \in {"idle", "announcingFailure", "announcingSuccess", "end"}
    /\ {<<"run.completed", None>>, <<"run.failed", None>>} \cap events # {} =>
          main = "end"

IInv ==
    /\ TypeOK
    /\ IndegreeInv
    /\ ClaimInv
    /\ QueueInv
    /\ OutputInv
    /\ FailureInv
    /\ MainInv

-----------------------------------------------------------------------------
(***************************************************************************)
(* What the rows say at each place of the two programs: with IInv, the     *)
(* invariant behind the properties of rows and events and the refinement.  *)
(***************************************************************************)

\* A node that was submitted stays in the queue until a thread takes it.
QueuedInv == \A n \in Node : pc[n] = "queued" => \E i \in DOMAIN queue : queue[i] = n

\* Between start_node and complete_node the row is running, before it pending.
RowInv ==
    \A n \in Node :
        /\ pc[n] \in {"queued", "resolving", "starting"} => nodeStatus[n] = "pending"
        /\ pc[n] \in {"announcing", "executing", "storing", "announcingArtifact",
                     "completing"} => nodeStatus[n] = "running"
        /\ pc[n] = "idle" => nodeStatus[n] \in {"pending", "skipped"}
        /\ pc[n] = "announcingArtifact" => n \in artifacts

\* What the main thread has written by the time it gets somewhere.
StageInv ==
    /\ main \in {"announcing", "submitting", "waiting", "draining", "failingNode",
                "announcingNode", "skipping", "failingRun", "completingRun"}
          => runStatus = "running"
    /\ runStatus = "pending" =>
          /\ main \in {"idle", "end"}
          /\ \A n \in Node : pc[n] = "idle" /\ nodeStatus[n] = "pending"
    /\ \A n \in Node : nodeStatus[n] = "failed" =>
          /\ n = firstFailure
          /\ main \in {"announcingNode", "skipping", "failingRun", "announcingFailure", "end"}
    /\ \A n \in Node : nodeStatus[n] = "skipped" =>
          runStatus = "failed" \/ main \in {"failingRun", "end"}
    /\ main = "announcingNode" => nodeStatus[firstFailure] = "failed"
    /\ main = "skipping" => \/ \E n \in Node : nodeStatus[n] = "failed"
                            \/ \A n \in Node : nodeStatus[n] = "pending"
    /\ main = "failingRun" => Settled
    /\ main = "announcingFailure" => runStatus = "failed"
    /\ main = "announcingSuccess" => runStatus = "completed"

\* The rows and events of a run agree with the control points of its threads.
RunInv ==
    /\ IInv
    /\ QueuedInv
    /\ RowInv
    /\ StageInv
    /\ FailedRunIsSettled
    /\ RowsLeadEvents
    /\ OneCulprit

-----------------------------------------------------------------------------
(***************************************************************************)
(* What keeps the main thread from waiting for ever: until a node fails    *)
(* the in-degree table is exact, what reaches zero is on somebody's list,  *)
(* and the thread that owns a list is still there to submit it.            *)
(***************************************************************************)

TableInv ==
    firstFailure = None => \A v \in Node : indegree[v] = Cardinality(OpenEdges(v))

DoneInv ==
    /\ firstFailure # None \/ outputs = Node => done
    /\ \A n \in Node :
          /\ pc[n] = "submitting" => n \in outputs
          /\ pc[n] = "finished" /\ firstFailure = None => n \in outputs

ReadyInv ==
    /\ main \in {"announcing", "submitting", "waiting"} => job \notin CyclicJobs
    /\ main = "submitting" <=> toSubmit[None] # {}
    /\ \A n \in Node : toSubmit[n] # {} => pc[n] = "submitting" \/ done
    /\ main \in {"submitting", "waiting"} /\ firstFailure = None =>
          \A v \in Node : indegree[v] = 0 /\ pc[v] = "idle" =>
              \E t \in Node \cup {None} : v \in toSubmit[t]

WakeInv == RunInv /\ TableInv /\ DoneInv /\ ReadyInv

=============================================================================
