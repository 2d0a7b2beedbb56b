---------------------------- MODULE RunFollower ----------------------------
(***************************************************************************)
(* A browser follows a run that PipelineRunner executes.  The API's events *)
(* handler (workflow-run.controller.ts) sends the rows it has read, then   *)
(* the entries of the run's Redis stream behind a cursor; usePipelineRun   *)
(* keeps the connection, its cursor and a copy of it in sessionStorage;    *)
(* the reducer (run-reducer.ts) turns rows and events into a view.         *)
(*                                                                         *)
(* The runner is PipelineRunner itself, with its set of events put in the  *)
(* order of their publication.  An entry's id is its position; position 0  *)
(* is the cursor 0-0.  Abstracted: logs, metrics, artifacts and messages   *)
(* of the view, the status of the connection, the delay before another     *)
(* attempt, keepalives, the trimming and expiry of the stream.             *)
(***************************************************************************)
EXTENDS PipelineRunner

CONSTANTS
    MaxCuts,    \* bound: connections that break
    MaxReloads  \* bound: reloads of the page

ASSUME FollowerAssumption == MaxCuts \in Nat /\ MaxReloads \in Nat

VARIABLES
    log,        \* the run's event stream
    link,       \* where the connection stands
    snapshot,   \* the rows under way to the browser
    position,   \* of the last entry this connection delivered
    last,       \* of the last entry XRANGE returned
    view,       \* PipelineRunState: the status of the run and of its nodes
    after,      \* followRun's cursor
    stored,     \* lastEventId in sessionStorage
    processed,  \* processedEventIds
    mounted,    \* the cursor this view was restored with
    cuts, reloads

connection == <<link, snapshot, position, last>>
client == <<view, after, stored, processed, mounted>>
bounds == <<cuts, reloads>>
followVars == <<vars, log, connection, client, bounds>>

NotStored == -1
NoRows == [run |-> "none"]
Terminal == {"completed", "failed"}
ViewStatus == {"pending", "running", "completed", "failed"}
ViewNode == {"queued", "running", "success", "error", "skipped"}

-----------------------------------------------------------------------------
(***************************************************************************)
(* The reducer.                                                            *)
(***************************************************************************)

\* Mutant: the candidate always wins.
MutAdvance(current, candidate) == candidate

\* advanceRunStatus: the first terminal status stays, the others only grow.
Advance(current, candidate) ==
    IF current \in Terminal \/ (current = "running" /\ candidate = "pending")
    THEN current ELSE candidate

\* Mutant: the database's words reach the view.
MutShown(status) == IF status = "completed" THEN "success" ELSE status

\* normalizeNodeStatus
Shown(status) ==
    CASE status = "pending" -> "queued"
      [] status = "completed" -> "success"
      [] status = "failed" -> "error"
      [] OTHER -> status

\* accepted and restore
Restored == [status |-> "pending", nodes |-> [n \in Node |-> "queued"]]

\* Mutant: the snapshot only speaks of the run.
MutApplySnapshot(v, rowsRead) == [v EXCEPT !.status = Advance(@, rowsRead.run)]

ApplySnapshot(v, rowsRead) ==
    [status |-> Advance(v.status, rowsRead.run),
     nodes |-> [n \in Node |-> Shown(rowsRead.nodes[n])]]

\* The nodes without a verdict when the run gets its own.
Close(v, verdict, running, queued) ==
    [status |-> Advance(v.status, verdict),
     nodes |-> IF v.status \in Terminal \ {verdict} THEN v.nodes
               ELSE [n \in Node |-> CASE v.nodes[n] = "running" -> running
                                      [] v.nodes[n] = "queued" -> queued
                                      [] OTHER -> v.nodes[n]]]

\* Mutant: the first failing node fails the run.
MutFailNodeShown(v, n) ==
    [v EXCEPT !.nodes[n] = "error", !.status = Advance(@, "failed")]

FailNodeShown(v, n) == [v EXCEPT !.nodes[n] = "error"]

ApplyEvent(v, event) ==
    LET type == event[1]
        n == event[2]
    IN CASE type = "run.queued" -> [v EXCEPT !.status = Advance(@, "pending")]
         [] type = "run.started" -> [v EXCEPT !.status = Advance(@, "running")]
         [] type = "node.started" -> [v EXCEPT !.nodes[n] = "running"]
         [] type = "node.completed" -> [v EXCEPT !.nodes[n] = "success"]
         [] type = "node.failed" -> FailNodeShown(v, n)
         [] type = "run.completed" -> Close(v, "completed", "success", "success")
         [] type = "run.failed" -> Close(v, "failed", "error", "skipped")
         [] OTHER -> v

\* Mutant: only a success ends the stream.
MutIsTerminalEvent(event) == event[1] = "run.completed"

IsTerminalEvent(event) == event[1] \in {"run.completed", "run.failed"}

-----------------------------------------------------------------------------
(***************************************************************************)
(* The API accepted the run: the queued event is in the stream and the     *)
(* follower starts.  It may connect before, while or after the run is      *)
(* executed.                                                               *)
(***************************************************************************)
FollowInit ==
    /\ Init
    /\ runStatus = "pending"
    /\ log = << <<"run.queued", None>> >>
    /\ link = "requesting"
    /\ snapshot = NoRows
    /\ position = 0
    /\ last = 0
    /\ view = Restored
    /\ after = 0
    /\ stored = 0
    /\ processed = {}
    /\ mounted = 0
    /\ cuts = 0
    /\ reloads = 0

\* A step of the runner; what it publishes is appended.
Run ==
    /\ MainThread \/ \E n \in Node : Thread(n)
    /\ IF events' = events THEN UNCHANGED log
       ELSE \E e \in events' \ events : log' = Append(log, e)
    /\ UNCHANGED <<connection, client, bounds>>

\* The handler reads the rows, before it opens the stream.
ReadRows ==
    /\ link = "requesting"
    /\ link' = "answered"
    /\ snapshot' = [run |-> runStatus, nodes |-> nodeStatus]
    /\ UNCHANGED <<vars, log, position, last, client, bounds>>

\* Mutant: the stream is read from its end (XREAD with $).
MutStartOf(cursor) == Len(log)

\* The position behind which the handler reads the stream.
StartOf(cursor) == cursor

\* The snapshot, which has no id, reaches the reducer.
TakeSnapshot ==
    /\ link = "answered"
    /\ view' = ApplySnapshot(view, snapshot)
    /\ link' = IF snapshot.run \in Terminal THEN "ranging" ELSE "streaming"
    /\ snapshot' = NoRows
    /\ position' = StartOf(after)
    /\ UNCHANGED <<vars, log, last, after, stored, processed, mounted, bounds>>

\* readAvailableRunEvents: what the stream of a settled run holds by now.
ReadAvailable ==
    /\ link = "ranging"
    /\ link' = "replaying"
    /\ last' = Len(log)
    /\ UNCHANGED <<vars, log, snapshot, position, client, bounds>>

\* The next entry is sent, parsed, reduced, and its id kept.
Deliver(nextLink) ==
    LET i == position + 1
    IN /\ i \in DOMAIN log
       /\ position' = i
       /\ view' = IF i \notin processed THEN ApplyEvent(view, log[i]) ELSE view
       /\ processed' = processed \cup {i}
       /\ after' = i
       /\ stored' = i
       /\ link' = nextLink
       /\ UNCHANGED <<vars, log, snapshot, last, mounted, bounds>>

\* The handler of a run without a verdict leaves its loop on the terminal
\* event, and the response ends.
Stream ==
    /\ link = "streaming"
    /\ Deliver(IF position < Len(log) /\ IsTerminalEvent(log[position + 1])
               THEN "ended" ELSE "streaming")

\* The stream has nothing to deliver: a keepalive.
Keepalive ==
    /\ link = "streaming" /\ position = Len(log)
    /\ UNCHANGED followVars

Replay ==
    /\ link = "replaying" /\ position < last
    /\ Deliver("replaying")

\* The response ended and the snapshot or an event was terminal: the run is
\* forgotten.
Finish ==
    /\ link = "ended" \/ (link = "replaying" /\ position >= last)
    /\ link' = "finished"
    /\ stored' = NotStored
    /\ UNCHANGED <<vars, log, snapshot, position, last,
                   view, after, processed, mounted, bounds>>

\* The connection breaks, or is refused, at any time: followRun asks again
\* with the cursor it has.
Cut ==
    /\ link \notin {"requesting", "finished"}
    /\ cuts < MaxCuts
    /\ cuts' = cuts + 1
    /\ link' = "requesting"
    /\ snapshot' = NoRows
    /\ UNCHANGED <<vars, log, position, last, client, reloads>>

\* The page is loaded again while the run is still stored: only the cursor
\* survives of the view.
Reload ==
    /\ stored # NotStored
    /\ reloads < MaxReloads
    /\ reloads' = reloads + 1
    /\ view' = Restored
    /\ after' = stored
    /\ mounted' = stored
    /\ processed' = {}
    /\ link' = "requesting"
    /\ snapshot' = NoRows
    /\ UNCHANGED <<vars, log, position, last, stored, cuts>>

\* The run is over and the browser done with it.
Rest ==
    /\ Over /\ link = "finished"
    /\ UNCHANGED <<log, connection, client, bounds>>

Follow == ReadRows \/ TakeSnapshot \/ ReadAvailable \/ Stream \/ Replay \/ Finish

FollowNext ==
    Run \/ Follow \/ Keepalive \/ Cut \/ Reload \/ Rest

FollowSpec == FollowInit /\ [][FollowNext]_followVars

\* The worker's threads and blocks go on (FairSpec of the runner), and so do
\* the handler and the browser; cuts and reloads need not happen.
FairFollowSpec ==
    /\ FollowSpec
    /\ WF_followVars(MainThread /\ Run)
    /\ \A n \in Node : WF_followVars(Thread(n) /\ Run)
    /\ WF_followVars(Follow)

-----------------------------------------------------------------------------
(***************************************************************************)
(* Properties.                                                             *)
(***************************************************************************)

FollowTypeOK ==
    /\ log \in Seq(Event \cup {<<"run.queued", None>>})
    /\ link \in {"requesting", "answered", "ranging", "replaying", "streaming",
                 "ended", "finished"}
    /\ snapshot \in {NoRows} \cup [run : RunState, nodes : [Node -> RowState]]
    /\ position \in 0..Len(log) /\ last \in 0..Len(log)
    /\ view \in [status : ViewStatus, nodes : [Node -> ViewNode]]
    /\ after \in 0..Len(log)
    /\ stored \in {NotStored} \cup 0..Len(log)
    /\ processed \subseteq DOMAIN log
    /\ mounted \in 0..Len(log)
    /\ cuts \in 0..MaxCuts
    /\ reloads \in 0..MaxReloads

\* A view that shows a verdict shows the run's: rows lead events, a snapshot
\* may be older than the stream and the stream older than the snapshot, but
\* no order of them makes the browser announce the wrong end.
TerminalViewIsTrue == view.status \in Terminal => runStatus = view.status

\* Through cuts and reloads the cursor skips no event and takes none twice:
\* the view has processed exactly the events between the cursor it was
\* restored with and the one it would ask from.
NothingSkipped ==
    /\ processed = (mounted + 1)..after
    /\ stored \in {NotStored, after}

\* A node's row and its events say the same, so that a reader of either is
\* up to date.
InStep(n) ==
    CASE nodeStatus[n] = "pending" -> TRUE
      [] nodeStatus[n] = "running" -> <<"node.started", n>> \in events
      [] nodeStatus[n] = "completed" -> <<"node.completed", n>> \in events
      [] nodeStatus[n] = "failed" -> <<"node.failed", n>> \in events
      [] OTHER -> FALSE

\* A live view that has caught up with the stream of a run without a verdict
\* shows the rows, although it started from a snapshot newer than the events
\* it was then given.
CaughtUpViewIsCurrent ==
    link = "streaming" /\ position = Len(log) /\ runStatus \notin Terminal =>
        \A n \in Node : InStep(n) => view.nodes[n] = Shown(nodeStatus[n])

\* What a view shows that has heard the end of the run.
Told ==
    /\ view.status = runStatus
    /\ \A n \in Node :
          /\ nodeStatus[n] = "failed" => view.nodes[n] = "error"
          /\ nodeStatus[n] = "skipped" => view.nodes[n] = "skipped"
          /\ view.nodes[n] = "success" => nodeStatus[n] = "completed"
          /\ faults = 0 /\ nodeStatus[n] # "running"
                => view.nodes[n] = Shown(nodeStatus[n])

\* What the browser shows of a run it is done with: what failed or was
\* skipped, and nothing as successful that did not complete.  Without faults
\* it shows each row, but those the runner leaves "running".
FinishedViewIsTrue == link = "finished" => Told

\* Unless an infrastructure call of the runner raises, the browser learns the
\* verdict, whenever it connects and however often it must connect again, and
\* forgets the run.
FollowerFinishes == <>(faults > 0) \/ <>[](link = "finished" /\ stored = NotStored)

-----------------------------------------------------------------------------
(***************************************************************************)
(* The inductive invariants behind the safety properties.                  *)
(***************************************************************************)

\* What makes NothingSkipped inductive: a connection that delivers stands at
\* the browser's cursor.
CursorInv ==
    /\ mounted \in Nat /\ after \in Nat /\ mounted <= after
    /\ NothingSkipped
    /\ link \in {"ranging", "replaying", "streaming"} => position = after
    /\ link = "finished" <=> stored = NotStored

\* The terminal event of the runner's history tells the run's row.
EventVerdictInv ==
    /\ <<"run.completed", None>> \in events \/ main = "announcingSuccess"
          => runStatus = "completed"
    /\ <<"run.failed", None>> \in events \/ main = "announcingFailure"
          => runStatus = "failed"

\* Whatever carries a verdict to the browser carries the run's: the entries
\* of the stream, the snapshot under way, the view.
VerdictInv ==
    /\ EventVerdictInv
    /\ \A i \in DOMAIN log :
          /\ log[i][1] = "run.completed" => runStatus = "completed"
          /\ log[i][1] = "run.failed" => runStatus = "failed"
    /\ link = "answered" => /\ snapshot # NoRows
                            /\ snapshot.run \in Terminal => runStatus = snapshot.run
    /\ TerminalViewIsTrue

FollowInv == IInv /\ FollowTypeOK /\ CursorInv /\ VerdictInv

-----------------------------------------------------------------------------
(***************************************************************************)
(* Why the view is true: a snapshot is never older than the events before  *)
(* the cursor nor newer than the rows, and the events of a node come in    *)
(* the order of its rows.                                                  *)
(***************************************************************************)

\* A row that says s may say t later.
Before(s, t) ==
    \/ s \in {t, "pending"}
    \/ s = "running" /\ t \in {"completed", "failed"}
    \/ s = "completed" /\ t = "failed"

NodeEvents(n) == {<<"node.started", n>>, <<"node.completed", n>>, <<"node.failed", n>>}

\* The row that an event of a node announces.
Status(event) ==
    CASE event[1] = "node.started" -> "running"
      [] event[1] = "node.completed" -> "completed"
      [] event[1] = "node.failed" -> "failed"

About(n) == {i \in DOMAIN log : log[i] \in NodeEvents(n)}

\* Without a fault no completed row goes unannounced, and the row of a failed
\* run is written after the event that names the culprit.
NewsInv ==
    /\ faults = 0 => \A n \in Node : nodeStatus[n] = "completed" =>
          pc[n] = "announcingDone" \/ <<"node.completed", n>> \in events
    /\ runStatus = "failed" \/ main \in {"skipping", "failingRun", "announcingFailure"} =>
          \A n \in Node : nodeStatus[n] = "failed" => <<"node.failed", n>> \in events

LogInv ==
    /\ \A i \in DOMAIN log : log[i] \in events \cup {<<"run.queued", None>>}
    /\ \A e \in events : \E i \in DOMAIN log : log[i] = e
    /\ \A n \in Node : \A i, j \in About(n) :
          i <= j => Before(Status(log[i]), Status(log[j]))
    /\ \A i \in DOMAIN log : IsTerminalEvent(log[i]) => i = Len(log)

\* Status s of node n is not older than the entries up to i.
Covers(n, s, i) == \A j \in About(n) : j <= i => Before(Status(log[j]), s)

\* No entry up to i ends the run.
OpenUpTo(i) == \A j \in DOMAIN log : j <= i => ~ IsTerminalEvent(log[j])

Fresh ==
    /\ \A n \in Node : /\ Before(snapshot.nodes[n], nodeStatus[n])
                       /\ Covers(n, snapshot.nodes[n], after)
    /\ IF snapshot.run \in Terminal THEN snapshot.nodes = nodeStatus ELSE OpenUpTo(after)

\* The view shows s, a state of the node's row that is not older than what the
\* browser heard.
Shows(n, s) ==
    /\ view.nodes[n] = Shown(s)
    /\ Before(s, nodeStatus[n])
    /\ Covers(n, s, position)

Live == OpenUpTo(position) /\ \A n \in Node : \E s \in RowState : Shows(n, s)

\* A replay began with the rows of a settled run.
Replayed == \A n \in Node : \E s \in RowState \ {"pending"} : Shows(n, s)

ShownInv ==
    /\ link = "answered" => Fresh
    /\ link = "streaming" => Live
    /\ link \in {"ranging", "replaying", "ended", "finished"} =>
          runStatus \in Terminal /\ view.status = runStatus
    /\ link \in {"ranging", "replaying"} => Replayed \/ (Told /\ ~ OpenUpTo(position))
    /\ link = "replaying" => \A n \in Node : \A j \in About(n) : j <= last
    /\ link \in {"ended", "finished"} => Told

\* The inductive invariant.
BrowserInv == FollowInv /\ RunInv /\ NewsInv /\ LogInv /\ ShownInv

=============================================================================
