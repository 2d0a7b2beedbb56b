----------------------------- MODULE RunDispatch -----------------------------
(***************************************************************************)
(* How a run travels: WorkflowRunService.execute (apps/services/api)       *)
(* commits its rows, then appends a job to a Redis stream; a worker        *)
(* (apps/services/worker/src/main.py) reads the job through a consumer     *)
(* group, executes it and acknowledges it.                                 *)
(*                                                                         *)
(* The rows live in PostgreSQL and the job in Redis, so that nothing is    *)
(* atomic across them: every call may raise with or without its effect (a  *)
(* lost reply), and each process may die between two calls.  Executing the *)
(* graph, with the node rows and their events, is PipelineRunner; here it  *)
(* is a verdict.  An entry of the job stream is known by its position; the *)
(* group's PEL holds the entries delivered and not acknowledged.           *)
(***************************************************************************)
EXTENDS Integers, Sequences, FiniteSets

CONSTANTS
    Runs, Workers,
    Foreign,     \* sequences of entries an older producer may have left
    MaxFaults,   \* bound: infrastructure exceptions
    MaxCrashes   \* bound: processes that die or are told to stop

\* Entries that are no runs: one without a payload field, and one whose
\* payload is an object without a runId.
Garbled == "garbled"
Anonymous == "anonymous"

ASSUME BoundAssumption == MaxFaults \in Nat /\ MaxCrashes \in Nat

ASSUME EntryAssumption ==
    /\ Garbled \notin Runs /\ Anonymous \notin Runs
    /\ Foreign \subseteq Seq({Garbled, Anonymous})

VARIABLES
    row,        \* workflow_runs.status; "none": no row
    announced,  \* types of the events in the run's stream
    handler,    \* where execute() stands for the run
    stream,     \* the job stream
    delivered,  \* the group's last-delivered position
    pel,        \* positions delivered and not acknowledged
    at,         \* where each worker's loop stands
    holding,    \* the position each worker handles; 0: none
    presence,   \* workers.status
    faults, crashes

data == <<row, announced>>
queue == <<stream, delivered, pel>>
worker == <<at, holding, presence>>
vars == <<data, handler, queue, worker, faults, crashes>>

Terminal == {"completed", "failed"}
EventTypes == {"run.queued", "run.started", "run.completed", "run.failed"}

\* Where execute() may stand: not called, between two calls, or answered
\* (202, 503, 500, or nothing because the process died).
Answers == {"none", "created", "marking", "announcing",
            "accepted", "unavailable", "error", "lost"}

\* Stages of a worker between start_run and the end of run().
Inside == {"executing", "completing", "failing", "announcingCompleted",
           "announcingFailed"}

Stages == Inside \cup {"down", "reading", "received", "starting", "acking",
                       "releasing", "leaving"}

Init ==
    /\ row = [r \in Runs |-> "none"]
    /\ announced = [r \in Runs |-> {}]
    /\ handler = [r \in Runs |-> "none"]
    /\ stream \in Foreign
    /\ delivered = 0
    /\ pel = {}
    /\ at = [w \in Workers |-> "down"]
    /\ holding = [w \in Workers |-> 0]
    /\ presence = [w \in Workers |-> "offline"]
    /\ faults = 0
    /\ crashes = 0

Entry(w) == stream[holding[w]]

Fault == faults < MaxFaults /\ faults' = faults + 1
Fine == UNCHANGED faults
Die == crashes < MaxCrashes /\ crashes' = crashes + 1

SetRow(r, status) == row' = [row EXCEPT ![r] = status]
Announce(r, types) == announced' = [announced EXCEPT ![r] = @ \cup types]

-----------------------------------------------------------------------------
(***************************************************************************)
(* The API.                                                                *)
(***************************************************************************)

Answer(r, from, to) == handler[r] = from /\ handler' = [handler EXCEPT ![r] = to]

\* The transaction that creates the run and its node rows.
CreateRun(r) ==
    /\ \/ Answer(r, "none", "created") /\ Fine /\ SetRow(r, "pending")
       \/ /\ Answer(r, "none", "error") /\ Fault
          /\ SetRow(r, "pending") \/ UNCHANGED row
    /\ UNCHANGED <<announced, queue, worker, crashes>>

\* MULTI: the queued event and the job, together; the client re-sends a
\* MULTI whose reply it lost, so the pair may be applied again.
AppendJob(r, copies) ==
    /\ stream' = stream \o [i \in 1..copies |-> r]
    /\ Announce(r, IF copies > 0 THEN {"run.queued"} ELSE {})

\* enqueueWorkflow answers, or raises although 0, 1 or 2 jobs were appended.
Enqueue(r) ==
    /\ \/ Answer(r, "created", "accepted") /\ Fine /\ AppendJob(r, 1)
       \/ Answer(r, "created", "accepted") /\ Fault /\ AppendJob(r, 2)
       \/ /\ Answer(r, "created", "marking") /\ Fault
          /\ \E copies \in 0..2 : AppendJob(r, copies)
    /\ UNCHANGED <<row, delivered, pel, worker, crashes>>

\* The run's row is failed whatever it says by now.
MarkEnqueueFailure(r) ==
    /\ \/ Answer(r, "marking", "announcing") /\ Fine /\ SetRow(r, "failed")
       \/ /\ Answer(r, "marking", "error") /\ Fault
          /\ SetRow(r, "failed") \/ UNCHANGED row
    /\ UNCHANGED <<announced, queue, worker, crashes>>

\* The run.failed event; its exception is only logged.  Then 503.
PublishEnqueueFailure(r) ==
    /\ Answer(r, "announcing", "unavailable")
    /\ \/ Fine /\ Announce(r, {"run.failed"})
       \/ Fault /\ (Announce(r, {"run.failed"}) \/ UNCHANGED announced)
    /\ UNCHANGED <<row, queue, worker, crashes>>

\* The API process dies while it handles the request.
CrashApi(r) ==
    /\ Die
    /\ \/ /\ Answer(r, "created", "lost")
          /\ \E copies \in 0..1 : AppendJob(r, copies)
       \/ /\ Answer(r, "marking", "lost") \/ Answer(r, "announcing", "lost")
          /\ UNCHANGED <<stream, announced>>
    /\ UNCHANGED <<row, delivered, pel, worker, faults>>

Api(r) ==
    \/ CreateRun(r) \/ Enqueue(r) \/ MarkEnqueueFailure(r)
    \/ PublishEnqueueFailure(r)

-----------------------------------------------------------------------------
(***************************************************************************)
(* A worker.                                                               *)
(***************************************************************************)

Move(w, from, to) == at[w] = from /\ at' = [at EXCEPT ![w] = to]
Present(w, status) == presence' = [presence EXCEPT ![w] = status]
Drop(w) == holding' = [holding EXCEPT ![w] = 0]

\* register_worker, at start, outside the try: its exception ends start().
Register(w) ==
    /\ \/ Move(w, "down", "reading") /\ Fine
       \/ Move(w, "down", "down") /\ Fault
    /\ Present(w, "idle")
    /\ UNCHANGED <<data, handler, queue, holding, crashes>>

\* Mutant: delivery does not enter the entry in the PEL (NOACK).
MutDeliverNoAck ==
    /\ delivered < Len(stream)
    /\ delivered' = delivered + 1
    /\ UNCHANGED pel

\* Mutant: an empty stream delivers an entry.
MutDeliverPastEnd ==
    /\ delivered' = delivered + 1
    /\ pel' = pel \cup {delivered + 1}

\* XREADGROUP '>' COUNT 1; it never returns an entry that is in the PEL.
Deliver ==
    /\ delivered < Len(stream)
    /\ delivered' = delivered + 1
    /\ pel' = pel \cup {delivered + 1}

\* The read of the loop; its exception, which may hide a delivery, ends the
\* process.
Read(w) ==
    /\ \/ /\ Move(w, "reading", "received") /\ Fine
          /\ Deliver
          /\ holding' = [holding EXCEPT ![w] = delivered + 1]
       \/ /\ Move(w, "reading", "leaving") /\ Fault
          /\ Deliver \/ UNCHANGED <<delivered, pel>>
          /\ UNCHANGED holding
    /\ UNCHANGED <<data, handler, stream, presence, crashes>>

\* The read times out and the loop goes round.
Poll(w) ==
    /\ at[w] = "reading" /\ delivered = Len(stream)
    /\ UNCHANGED vars

\* An entry without a payload is acknowledged at once, outside the try.
AckPoison(w) ==
    /\ at[w] = "received" /\ Entry(w) = Garbled
    /\ Drop(w)
    /\ \/ Move(w, "received", "reading") /\ Fine /\ pel' = pel \ {holding[w]}
       \/ /\ Move(w, "received", "leaving") /\ Fault
          /\ pel' = pel \ {holding[w]} \/ UNCHANGED pel
    /\ UNCHANGED <<data, handler, stream, delivered, presence, crashes>>

\* set_worker_status(busy), outside the try: its exception ends the process.
SetBusy(w) ==
    /\ at[w] = "received" /\ Entry(w) # Garbled
    /\ \/ /\ Move(w, "received", "starting") /\ Fine
          /\ Present(w, "busy") /\ UNCHANGED holding
       \/ /\ Move(w, "received", "leaving") /\ Fault
          /\ Present(w, "busy") \/ UNCHANGED presence
          /\ Drop(w)
    /\ UNCHANGED <<data, handler, queue, crashes>>

\* run() raised and was logged: the entry is not acknowledged.
RunRaises(w) == Move(w, at[w], "releasing")

\* Mutant: start_run is not guarded by status = 'pending'.
MutStartable(r) == row[r] # "running"

\* WHERE id = ... AND status = 'pending'
Startable(r) == row[r] = "pending"

\* start_run: a run that is not pending is a duplicate, to be acknowledged.
StartRun(w) ==
    /\ at[w] = "starting" /\ Entry(w) \in Runs
    /\ LET r == Entry(w)
       IN \/ /\ Startable(r)
             /\ SetRow(r, "running")
             /\ \/ Move(w, "starting", "executing") /\ Fine
                \/ RunRaises(w) /\ Fault
          \/ /\ ~Startable(r)
             /\ Move(w, "starting", "acking") /\ Fine
             /\ UNCHANGED row
          \/ RunRaises(w) /\ Fault /\ UNCHANGED row
    /\ UNCHANGED <<announced, handler, queue, holding, presence, crashes>>

\* from_mapping raises and there is no runId to fail.
RejectAnonymous(w) ==
    /\ Move(w, "starting", "releasing")
    /\ Entry(w) = Anonymous
    /\ UNCHANGED <<data, handler, queue, holding, presence, faults, crashes>>

\* run.started and the graph: no node fails, or some does; a job that does
\* not parse is failed unannounced; or run() raises while it publishes or
\* writes the rows of the nodes that failed or are skipped.
Execute(w) ==
    /\ at[w] = "executing"
    /\ \/ /\ Move(w, "executing", "completing") \/ Move(w, "executing", "failing")
          /\ Fine /\ Announce(Entry(w), {"run.started"})
       \/ Move(w, "executing", "failing") /\ Fine /\ UNCHANGED announced
       \/ /\ RunRaises(w) /\ Fault
          /\ Announce(Entry(w), {"run.started"}) \/ UNCHANGED announced
    /\ UNCHANGED <<row, handler, queue, holding, presence, crashes>>

\* Mutant: complete_run touches only runs that are pending.
MutCompleted(r) == IF row[r] = "pending" THEN "completed" ELSE row[r]

\* complete_run: WHERE id = ...
Completed(r) == "completed"

CompleteRun(w) ==
    /\ at[w] = "completing"
    /\ \/ /\ Move(w, "completing", "announcingCompleted") /\ Fine
          /\ SetRow(Entry(w), Completed(Entry(w)))
       \/ /\ RunRaises(w) /\ Fault
          /\ SetRow(Entry(w), Completed(Entry(w))) \/ UNCHANGED row
    /\ UNCHANGED <<announced, handler, queue, holding, presence, crashes>>

\* fail_run: WHERE status NOT IN ('completed', 'cancelled')
Failed(r) == IF row[r] = "completed" THEN row[r] ELSE "failed"

FailRun(w) ==
    /\ at[w] = "failing"
    /\ \/ /\ Move(w, "failing", "announcingFailed") /\ Fine
          /\ SetRow(Entry(w), Failed(Entry(w)))
       \/ /\ RunRaises(w) /\ Fault
          /\ SetRow(Entry(w), Failed(Entry(w))) \/ UNCHANGED row
    /\ UNCHANGED <<announced, handler, queue, holding, presence, crashes>>

Verdict(w) == IF at[w] = "announcingCompleted" THEN "run.completed" ELSE "run.failed"

\* The terminal event.
Publish(w) ==
    /\ at[w] \in {"announcingCompleted", "announcingFailed"}
    /\ \/ Move(w, at[w], "acking") /\ Fine /\ Announce(Entry(w), {Verdict(w)})
       \/ /\ RunRaises(w) /\ Fault
          /\ Announce(Entry(w), {Verdict(w)}) \/ UNCHANGED announced
    /\ UNCHANGED <<row, handler, queue, holding, presence, crashes>>

\* Mutant: a handled entry is not acknowledged.
MutNoAck(w) ==
    /\ Move(w, "acking", "releasing")
    /\ UNCHANGED <<data, handler, queue, holding, presence, faults, crashes>>

\* XACK, inside the try.
Ack(w) ==
    /\ Move(w, "acking", "releasing")
    /\ \/ Fine /\ pel' = pel \ {holding[w]}
       \/ Fault /\ (pel' = pel \ {holding[w]} \/ UNCHANGED pel)
    /\ UNCHANGED <<data, handler, stream, delivered, holding, presence, crashes>>

\* The finally clause; its exception ends the process.
Release(w) ==
    /\ \/ Move(w, "releasing", "reading") /\ Fine /\ Present(w, "idle")
       \/ /\ Move(w, "releasing", "leaving") /\ Fault
          /\ Present(w, "idle") \/ UNCHANGED presence
    /\ Drop(w)
    /\ UNCHANGED <<data, handler, queue, crashes>>

\* SIGTERM, honoured between two entries.
Stop(w) ==
    /\ Die
    /\ Move(w, "reading", "leaving")
    /\ UNCHANGED <<data, handler, queue, holding, presence, faults>>

\* start()'s finally clause: an exception is only logged.
Leave(w) ==
    /\ Move(w, "leaving", "down")
    /\ \/ Fine /\ Present(w, "offline")
       \/ Fault /\ (Present(w, "offline") \/ UNCHANGED presence)
    /\ UNCHANGED <<data, handler, queue, holding, crashes>>

\* The process is killed.
CrashWorker(w) ==
    /\ Die
    /\ at[w] # "down"
    /\ Move(w, at[w], "down")
    /\ Drop(w)
    /\ UNCHANGED <<data, handler, queue, presence, faults>>

Worker(w) ==
    \/ Register(w) \/ Read(w) \/ AckPoison(w) \/ SetBusy(w) \/ StartRun(w)
    \/ RejectAnonymous(w) \/ Execute(w) \/ CompleteRun(w) \/ FailRun(w)
    \/ Publish(w) \/ Ack(w) \/ Release(w) \/ Leave(w)

Next ==
    \/ \E r \in Runs : Api(r) \/ CrashApi(r)
    \/ \E w \in Workers : Worker(w) \/ Poll(w) \/ Stop(w) \/ CrashWorker(w)

Spec == Init /\ [][Next]_vars

\* The API answers what it has begun to handle (no one has to submit a run),
\* and a supervisor keeps every worker's loop going.  Nothing has to fail.
FairSpec ==
    /\ Spec
    /\ \A r \in Runs : WF_vars(handler[r] # "none" /\ Api(r) /\ UNCHANGED faults)
    /\ \A w \in Workers : WF_vars(Worker(w) /\ UNCHANGED faults)

-----------------------------------------------------------------------------
(***************************************************************************)
(* Properties.                                                             *)
(***************************************************************************)

TypeOK ==
    /\ row \in [Runs -> {"none", "pending", "running", "completed", "failed"}]
    /\ announced \in [Runs -> SUBSET EventTypes]
    /\ handler \in [Runs -> Answers]
    /\ stream \in Seq(Runs \cup {Garbled, Anonymous})
    /\ delivered \in 0..Len(stream)
    /\ pel \subseteq 1..delivered
    /\ at \in [Workers -> Stages]
    /\ holding \in [Workers -> 0..delivered]
    /\ presence \in [Workers -> {"offline", "idle", "busy"}]
    /\ faults \in 0..MaxFaults
    /\ crashes \in 0..MaxCrashes

\* The entries of the run the group still owes an acknowledgement.
Unacknowledged(r) ==
    {i \in DOMAIN stream : stream[i] = r /\ (i > delivered \/ i \in pel)}

\* However often its job is appended and whoever reads the copies, a run is
\* executed by one worker only.
OneExecutor ==
    \A v, w \in Workers :
        at[v] \in Inside /\ at[w] \in Inside /\ Entry(v) = Entry(w) => v = w

\* A run the API accepted and that has no verdict yet is still owed by the
\* consumer group: neither a crash nor a duplicate's acknowledgement makes
\* its last entry disappear.
NoLostJob ==
    \A r \in Runs :
        handler[r] = "accepted" /\ row[r] \notin Terminal
            => Unacknowledged(r) # {}

\* The verdict of an accepted run is final, and its events never contradict
\* its row: no copy of the job runs it again.
AcceptedVerdictIsFinal ==
    [][\A r \in Runs : handler[r] = "accepted" /\ row[r] \in Terminal
          => row'[r] = row[r]]_vars

\* What the run's stream announces of an accepted run is what its row says:
\* a client that closes its view on the event is not mistaken.
AcceptedEventsAreTrue ==
    \A r \in Runs : handler[r] = "accepted" =>
        /\ "run.completed" \in announced[r] => row[r] = "completed"
        /\ "run.failed" \in announced[r] => row[r] = "failed"

\* Unless a call raises or a process dies, every accepted run reaches a
\* verdict and its entries are acknowledged, whatever entries precede them in
\* the stream.
AcceptedRunsSettle ==
    \A r \in Runs :
        handler[r] = "accepted" ~>
            \/ row[r] \in Terminal /\ Unacknowledged(r) = {}
            \/ faults > 0 \/ crashes > 0

-----------------------------------------------------------------------------
(***************************************************************************)
(* What the documentation says and the code does not do.                   *)
(***************************************************************************)

\* README, Redis integration: when the enqueue fails the run is marked failed
\* and the response is service-unavailable.  A run answered with 503 should
\* then be a failed run.
UnavailableMeansFailed ==
    \A r \in Runs : handler[r] = "unavailable" => row[r] = "failed"

-----------------------------------------------------------------------------
(***************************************************************************)
(* The inductive invariant behind the safety properties.                   *)
(***************************************************************************)

\* A run has a row once its creation was attempted with success, and entries
\* only once enqueueWorkflow was called.
EntryInv ==
    /\ \A r \in Runs :
          /\ handler[r] = "none" => row[r] = "none"
          /\ handler[r] = "created" => row[r] = "pending"
          /\ handler[r] \in {"none", "created"} => announced[r] = {}
    /\ \A i \in DOMAIN stream : stream[i] \in Runs =>
          handler[stream[i]] \notin {"none", "created"} /\ row[stream[i]] # "none"

\* An entry is in the hands of one worker, and in the PEL until it is
\* acknowledged.
HoldInv ==
    /\ \A w \in Workers : holding[w] = 0 <=> at[w] \in {"down", "reading", "leaving"}
    /\ \A v, w \in Workers : holding[v] # 0 /\ holding[v] = holding[w] => v = w
    /\ \A w \in Workers :
          /\ at[w] \in Inside \cup {"received", "starting", "acking"} => holding[w] \in pel
          /\ at[w] \in Inside \cup {"acking"} => Entry(w) \in Runs

\* Whoever executes a run owns it; an accepted run's row is its owner's.
OwnerInv ==
    /\ OneExecutor
    /\ \A w \in Workers : at[w] \in Inside \cup {"acking"} =>
          row[Entry(w)] \notin {"none", "pending"}
    /\ \A w \in Workers :
          at[w] \in Inside /\ handler[Entry(w)] = "accepted" =>
             row[Entry(w)] = CASE at[w] = "announcingCompleted" -> "completed"
                               [] at[w] = "announcingFailed" -> "failed"
                               [] OTHER -> "running"

\* What the group owes an accepted run: while it is pending, every entry;
\* while it is running, the one its executor holds or left behind.
OwedInv ==
    \A r \in Runs : handler[r] = "accepted" =>
        /\ row[r] # "none"
        /\ row[r] = "pending" =>
              /\ \E i \in DOMAIN stream : stream[i] = r
              /\ \A i \in DOMAIN stream : stream[i] = r => i > delivered \/ i \in pel
        /\ row[r] = "running" =>
              \E i \in pel :
                 /\ stream[i] = r
                 /\ \A w \in Workers : holding[w] = i =>
                       at[w] \in {"executing", "completing", "failing", "releasing"}

DispatchInv ==
    /\ TypeOK
    /\ EntryInv
    /\ HoldInv
    /\ OwnerInv
    /\ OwedInv
    /\ AcceptedEventsAreTrue

=============================================================================
