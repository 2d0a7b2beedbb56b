------------------------- MODULE RunFollower_proofs -------------------------
(***************************************************************************)
(* The event stream, for every job, every interleaving of the runner's     *)
(* threads and the handler, and any number of cuts and reloads.  The       *)
(* browser processes each event once; it never shows a verdict that the    *)
(* run does not have; it shows the rows once it has caught up, and the     *)
(* truth when it is done.  All but the first rest on the invariants of the *)
(* runner (PipelineRunner_proofs).                                         *)
(***************************************************************************)
EXTENDS RunFollower, PipelineRunner_proofs

\* What the cursor depends on.
cursor == <<link, position, after, stored, processed, mounted>>

\* A step that delivers the next entry.
LEMMA DeliverKeepsCursor ==
    ASSUME CursorInv, NEW l, Deliver(l), position = after, stored # NotStored,
           l \in {"streaming", "ended", "replaying"}
    PROVE  CursorInv'
<1>1. /\ after' = after + 1 /\ stored' = after + 1 /\ position' = after + 1
      /\ processed' = processed \cup {after + 1}
      /\ mounted' = mounted /\ link' = l
  BY DEF Deliver
<1>2. processed' = (mounted + 1)..(after + 1)
  BY <1>1 DEF CursorInv, NothingSkipped
<1>3. mounted' \in Nat /\ after' \in Nat /\ mounted' <= after'
  BY <1>1 DEF CursorInv
<1>4. stored' # NotStored
  BY <1>1 DEF CursorInv, NotStored
<1> QED
  BY <1>1, <1>2, <1>3, <1>4 DEF CursorInv, NothingSkipped

\* Every step keeps the cursor where it belongs.
LEMMA CursorStep == CursorInv /\ [FollowNext]_followVars => CursorInv'
<1> SUFFICES ASSUME CursorInv, [FollowNext]_followVars
             PROVE  CursorInv'
  OBVIOUS
<1>1. ASSUME UNCHANGED cursor PROVE CursorInv'
  BY <1>1 DEF cursor, CursorInv, NothingSkipped
<1>2. CASE Run
  BY <1>1, <1>2 DEF Run, connection, client, cursor
<1>3. CASE ReadRows
  BY <1>3 DEF ReadRows, client, CursorInv, NothingSkipped
<1>4. CASE TakeSnapshot
  BY <1>4 DEF TakeSnapshot, StartOf, CursorInv, NothingSkipped
<1>5. CASE ReadAvailable
  BY <1>5 DEF ReadAvailable, client, CursorInv, NothingSkipped
<1>6. CASE Stream
  <2>1. position = after /\ stored # NotStored
    BY <1>6 DEF Stream, CursorInv
  <2>2. CASE Deliver("ended")
    BY <2>1, <2>2, DeliverKeepsCursor
  <2>3. CASE Deliver("streaming")
    BY <2>1, <2>3, DeliverKeepsCursor
  <2> QED
    BY <1>6, <2>2, <2>3 DEF Stream
<1>7. CASE Replay
  <2>1. position = after /\ stored # NotStored
    BY <1>7 DEF Replay, CursorInv
  <2> QED
    BY <1>7, <2>1, DeliverKeepsCursor DEF Replay
<1>8. CASE Finish
  BY <1>8 DEF Finish, CursorInv, NothingSkipped
<1>9. CASE Cut
  BY <1>9 DEF Cut, client, CursorInv, NothingSkipped
<1>10. CASE Reload
  <2>1. stored = after /\ after \in Nat
    BY <1>10 DEF Reload, CursorInv, NothingSkipped
  <2>2. /\ after' = after /\ mounted' = after /\ processed' = {}
        /\ stored' = after /\ link' = "requesting"
    BY <1>10, <2>1 DEF Reload
  <2>3. (after + 1)..after = {}
    BY <2>1
  <2>4. after # NotStored
    BY <2>1 DEF NotStored
  <2> QED
    BY <2>1, <2>2, <2>3, <2>4 DEF CursorInv, NothingSkipped
<1>11. CASE Keepalive \/ Rest
  BY <1>1, <1>11 DEF Keepalive, Rest, followVars, connection, client, cursor
<1>12. CASE UNCHANGED followVars
  BY <1>1, <1>12 DEF followVars, connection, client, cursor
<1> QED
  BY <1>2, <1>3, <1>4, <1>5, <1>6, <1>7, <1>8, <1>9, <1>10, <1>11, <1>12
  DEF FollowNext, Follow

\* The browser processes every event behind the cursor of its view exactly
\* once, through any number of cuts and reloads.
THEOREM NothingSkippedHolds == FollowSpec => []NothingSkipped
<1>1. FollowInit => CursorInv
  BY DEF FollowInit, CursorInv, NothingSkipped, NotStored
<1>2. CursorInv => NothingSkipped
  BY DEF CursorInv
<1> QED
  BY <1>1, <1>2, CursorStep, PTL DEF FollowSpec

-----------------------------------------------------------------------------
(***************************************************************************)
(* The runner's side of a verdict.                                         *)
(***************************************************************************)

\* What a step of the runner may do to its verdict and its terminal events.
VerdictStep ==
    /\ runStatus \in Terminal => runStatus' = runStatus
    /\ EventVerdictInv'
    /\ \A e \in events' \ events : e \in Event

LEMMA ThreadKeepsVerdict ==
    ASSUME IInv, EventVerdictInv, NEW n \in Node, Thread(n)
    PROVE  VerdictStep
<1>1. TypeOK /\ TypeOK'
  BY ThreadPreserves DEF IInv
<1>2. UNCHANGED <<runStatus, main>>
  BY DEF Thread, Begin, ResolveInputs, StartNode, PublishStarted, Execute,
     StoreArtifact, PublishArtifact, CompleteNode, PublishCompleted, Record,
     SubmitNext, HandleFailure, rows, control
<1>3. <<"run.completed", None>> \in events' => <<"run.completed", None>> \in events
  BY DEF Thread, Begin, ResolveInputs, StartNode, PublishStarted, Execute,
     StoreArtifact, PublishArtifact, CompleteNode, PublishCompleted, Record,
     SubmitNext, HandleFailure, Publish
<1>4. <<"run.failed", None>> \in events' => <<"run.failed", None>> \in events
  BY DEF Thread, Begin, ResolveInputs, StartNode, PublishStarted, Execute,
     StoreArtifact, PublishArtifact, CompleteNode, PublishCompleted, Record,
     SubmitNext, HandleFailure, Publish
<1> QED
  BY <1>1, <1>2, <1>3, <1>4 DEF VerdictStep, EventVerdictInv, TypeOK

LEMMA MainKeepsVerdict ==
    ASSUME IInv, EventVerdictInv, MainThread
    PROVE  VerdictStep
<1>1. TypeOK /\ TypeOK' /\ MainInv
  BY StepInvariant DEF IInv, Next
<1>2. \A e \in events' \ events : e \in Event
  BY <1>1 DEF TypeOK
<1> USE DEF EventVerdictInv, ProceedMain, RaiseMain, Return, Publish, rows
<1>3. CASE StartRun
  BY <1>1, <1>2, <1>3 DEF StartRun, VerdictStep, Terminal, MainInv
<1>4. CASE PublishRunStarted
  BY <1>1, <1>2, <1>4 DEF PublishRunStarted, VerdictStep
<1>5. CASE SubmitRoot \/ Wake \/ Drained
  BY <1>1, <1>2, <1>5 DEF SubmitRoot, Wake, Drained, VerdictStep
<1>6. CASE FailNode \/ SkipPending
  BY <1>1, <1>2, <1>6 DEF FailNode, SkipPending, VerdictStep
<1>7. CASE PublishNodeFailed
  BY <1>1, <1>2, <1>7 DEF PublishNodeFailed, VerdictStep
<1>8. CASE FailRun
  BY <1>1, <1>2, <1>8 DEF FailRun, VerdictStep, Terminal, MainInv
<1>9. CASE PublishRunFailed
  BY <1>1, <1>2, <1>9 DEF PublishRunFailed, VerdictStep
<1>10. CASE CompleteRun
  BY <1>1, <1>2, <1>10 DEF CompleteRun, VerdictStep, Terminal, MainInv
<1>11. CASE PublishRunCompleted
  BY <1>1, <1>2, <1>11 DEF PublishRunCompleted, VerdictStep
<1> QED
  BY <1>3, <1>4, <1>5, <1>6, <1>7, <1>8, <1>9, <1>10, <1>11 DEF MainThread

-----------------------------------------------------------------------------
(***************************************************************************)
(* The reducer.                                                            *)
(***************************************************************************)

View == [status : ViewStatus, nodes : [Node -> ViewNode]]

\* A view reduced by a snapshot keeps its type and takes its verdict either
\* from the view before or from the snapshot.
LEMMA SnapshotReduced ==
    ASSUME NEW v \in View, NEW s \in [run : RunState, nodes : [Node -> RowState]]
    PROVE  /\ ApplySnapshot(v, s) \in View
           /\ ApplySnapshot(v, s).status \in {v.status, s.run}
<1>1. \A t \in RowState : Shown(t) \in ViewNode
  BY DEF RowState, Shown, ViewNode
<1>2. Advance(v.status, s.run) \in {v.status, s.run}
  BY DEF Advance
<1>3. Advance(v.status, s.run) \in ViewStatus
  BY <1>2 DEF View, ViewStatus, RunState
<1>4. [n \in Node |-> Shown(s.nodes[n])] \in [Node -> ViewNode]
  BY <1>1
<1> QED
  BY <1>2, <1>3, <1>4 DEF ApplySnapshot, View

\* The same of an event.
LEMMA EventReduced ==
    ASSUME NEW v \in View, NEW e \in Event \cup {<<"run.queued", None>>}
    PROVE  /\ ApplyEvent(v, e) \in View
           /\ ApplyEvent(v, e).status \in Terminal =>
                 \/ ApplyEvent(v, e).status = v.status
                 \/ e[1] = "run.completed" /\ ApplyEvent(v, e).status = "completed"
                 \/ e[1] = "run.failed" /\ ApplyEvent(v, e).status = "failed"
<1> DEFINE w == ApplyEvent(v, e)
<1>1. v.status \in ViewStatus /\ v.nodes \in [Node -> ViewNode]
  BY DEF View
<1>2. \A x \in ViewStatus : Advance(v.status, x) \in {v.status, x}
  BY DEF Advance
<1>3. CASE e[1] \in {"run.queued", "run.started"}
  <2>1. PICK x \in {"pending", "running"} : w = [v EXCEPT !.status = Advance(@, x)]
    BY <1>3 DEF ApplyEvent
  <2>2. w = [v EXCEPT !.status = Advance(v.status, x)]
    BY <2>1
  <2>3. Advance(v.status, x) \in {v.status, x} /\ x \notin Terminal
    BY <1>2 DEF ViewStatus, Terminal
  <2>4. w.status = Advance(v.status, x) /\ w \in View
    BY <1>1, <2>2, <2>3 DEF View, ViewStatus
  <2> QED
    BY <2>3, <2>4
<1>4. CASE e[1] \in {"node.started", "node.completed", "node.failed"}
  <2>1. e[2] \in Node
    BY <1>4 DEF Event
  <2>2. PICK x \in ViewNode : w = [v EXCEPT !.nodes[e[2]] = x]
    BY <1>4 DEF ApplyEvent, FailNodeShown, ViewNode
  <2>3. w \in View /\ w.status = v.status
    BY <2>1, <2>2 DEF View
  <2> QED
    BY <2>3
<1>5. CASE e[1] = "artifact.created"
  BY <1>5 DEF ApplyEvent
<1>6. ASSUME NEW s \in Terminal, NEW r \in ViewNode, NEW q \in ViewNode
      PROVE  Close(v, s, r, q) \in View /\ Close(v, s, r, q).status \in {v.status, s}
  <2>1. Advance(v.status, s) \in {v.status, s} /\ Advance(v.status, s) \in ViewStatus
    BY <1>1, <1>2 DEF ViewStatus, Terminal
  <2>2. \A n \in Node : (CASE v.nodes[n] = "running" -> r
                           [] v.nodes[n] = "queued" -> q
                           [] OTHER -> v.nodes[n]) \in ViewNode
    BY <1>1
  <2>3. (IF v.status \in Terminal \ {s} THEN v.nodes
         ELSE [n \in Node |-> CASE v.nodes[n] = "running" -> r
                                [] v.nodes[n] = "queued" -> q
                                [] OTHER -> v.nodes[n]]) \in [Node -> ViewNode]
    BY <1>1, <2>2
  <2> QED
    BY <2>1, <2>3 DEF Close, View
<1>7. CASE e[1] = "run.completed"
  <2>1. w = Close(v, "completed", "success", "success")
    BY <1>7 DEF ApplyEvent
  <2> QED
    BY <1>6, <1>7, <2>1 DEF Terminal, ViewNode
<1>8. CASE e[1] = "run.failed"
  <2>1. w = Close(v, "failed", "error", "skipped")
    BY <1>8 DEF ApplyEvent
  <2> QED
    BY <1>6, <1>8, <2>1 DEF Terminal, ViewNode
<1> QED
  BY <1>3, <1>4, <1>5, <1>7, <1>8 DEF Event

-----------------------------------------------------------------------------
(***************************************************************************)
(* The composition.                                                        *)
(***************************************************************************)

\* A step of the runner.
LEMMA RunKeeps ==
    ASSUME FollowInv, Run
    PROVE  FollowTypeOK' /\ VerdictInv' /\ IInv'
<1>1. IInv'
  BY StepInvariant DEF FollowInv, Run, Next
<1>2. VerdictStep
  BY ThreadKeepsVerdict, MainKeepsVerdict DEF FollowInv, Run, VerdictInv
<1>3. /\ log \in Seq(Event \cup {<<"run.queued", None>>})
      /\ UNCHANGED <<connection, client, bounds>>
  BY DEF Run, FollowInv, FollowTypeOK
<1>4. \/ log' = log
      \/ \E e \in events' \cap Event : log' = Append(log, e)
  BY <1>2 DEF Run, VerdictStep
<1>5. /\ log' \in Seq(Event \cup {<<"run.queued", None>>})
      /\ Len(log') >= Len(log)
  BY <1>3, <1>4
<1>6. FollowTypeOK'
  BY <1>3, <1>5 DEF FollowInv, FollowTypeOK, connection, client, bounds
<1>7. runStatus \in Terminal => runStatus' = runStatus
  BY <1>2 DEF VerdictStep
<1>8. ASSUME NEW i \in DOMAIN log'
      PROVE  /\ log'[i][1] = "run.completed" => runStatus' = "completed"
             /\ log'[i][1] = "run.failed" => runStatus' = "failed"
  <2>1. CASE i \in DOMAIN log /\ log'[i] = log[i]
    BY <1>7, <2>1 DEF FollowInv, VerdictInv, Terminal
  <2>2. CASE log'[i] \in events' \cap Event
    <3>1. /\ log'[i][1] = "run.completed" => log'[i] = <<"run.completed", None>>
          /\ log'[i][1] = "run.failed" => log'[i] = <<"run.failed", None>>
      BY <2>2 DEF Event
    <3> QED
      BY <1>2, <2>2, <3>1 DEF VerdictStep, EventVerdictInv
  <2> QED
    BY <1>3, <1>4, <2>1, <2>2
<1>9. TerminalViewIsTrue' /\ (link' = "answered" =>
          /\ snapshot' # NoRows
          /\ snapshot'.run \in Terminal => runStatus' = snapshot'.run)
  BY <1>3, <1>7 DEF FollowInv, VerdictInv, TerminalViewIsTrue, connection, client
<1> QED
  BY <1>1, <1>2, <1>6, <1>8, <1>9 DEF VerdictInv, VerdictStep

\* The delivery of an entry.
LEMMA DeliverKeeps ==
    ASSUME FollowInv, NEW l \in {"streaming", "ended", "replaying"}, Deliver(l)
    PROVE  FollowTypeOK' /\ VerdictInv'
<1> DEFINE i == position + 1
<1>1. /\ i \in DOMAIN log /\ i \in 1..Len(log)
      /\ log[i] \in Event \cup {<<"run.queued", None>>}
      /\ view \in View
  BY DEF Deliver, FollowInv, FollowTypeOK, View
<1>2. /\ position' = i /\ after' = i /\ stored' = i /\ link' = l
      /\ processed' = processed \cup {i}
      /\ UNCHANGED <<vars, log, snapshot, last, mounted, cuts, reloads>>
      /\ view' = view \/ view' = ApplyEvent(view, log[i])
  BY DEF Deliver, bounds
<1>3. view' \in View /\ (view'.status \in Terminal => runStatus = view'.status)
  BY <1>1, <1>2, EventReduced DEF FollowInv, VerdictInv, TerminalViewIsTrue
<1>4. FollowTypeOK'
  BY <1>1, <1>2, <1>3 DEF FollowInv, FollowTypeOK, View
<1>5. UNCHANGED <<runStatus, events, main>>
  BY <1>2 DEF vars, rows, control
<1> QED
  BY <1>2, <1>3, <1>4, <1>5
  DEF FollowInv, VerdictInv, EventVerdictInv, TerminalViewIsTrue

\* A step of the handler or of the browser.
LEMMA FollowKeeps ==
    ASSUME FollowInv, Follow \/ Keepalive \/ Cut \/ Reload \/ Rest
    PROVE  FollowTypeOK' /\ VerdictInv'
<1>1. FollowTypeOK /\ VerdictInv /\ TypeOK
  BY DEF FollowInv, IInv
<1> USE DEF connection, client, bounds
<1>2. ASSUME UNCHANGED vars
      PROVE  UNCHANGED <<runStatus, nodeStatus, events, main>>
  BY <1>2 DEF vars, rows, control
<1>3. CASE ReadRows
  <2>1. /\ snapshot' = [run |-> runStatus, nodes |-> nodeStatus]
        /\ snapshot' \in [run : RunState, nodes : [Node -> RowState]]
        /\ snapshot'.run = runStatus
    BY <1>1, <1>3 DEF ReadRows, TypeOK
  <2>2. snapshot' # NoRows
    BY <2>1 DEF NoRows, RunState
  <2> QED
    BY <1>1, <1>2, <1>3, <2>1, <2>2
    DEF ReadRows, FollowTypeOK, VerdictInv, EventVerdictInv, TerminalViewIsTrue
<1>4. CASE TakeSnapshot
  <2>1. snapshot \in [run : RunState, nodes : [Node -> RowState]] /\ view \in View
    BY <1>1, <1>4 DEF TakeSnapshot, FollowTypeOK, VerdictInv, View
  <2>2. /\ view' \in View
        /\ view'.status \in Terminal => runStatus = view'.status
    BY <1>1, <1>4, <2>1, SnapshotReduced
    DEF TakeSnapshot, VerdictInv, TerminalViewIsTrue
  <2>3. FollowTypeOK'
    BY <1>1, <1>4, <2>2 DEF TakeSnapshot, StartOf, FollowTypeOK, View
  <2> QED
    BY <1>1, <1>2, <1>4, <2>2, <2>3
    DEF TakeSnapshot, VerdictInv, EventVerdictInv, TerminalViewIsTrue
<1>5. CASE ReadAvailable
  BY <1>1, <1>2, <1>5
  DEF ReadAvailable, FollowTypeOK, VerdictInv, EventVerdictInv, TerminalViewIsTrue
<1>6. CASE Stream \/ Replay
  BY <1>6, DeliverKeeps DEF Stream, Replay
<1>7. CASE Finish
  BY <1>1, <1>2, <1>7
  DEF Finish, FollowTypeOK, VerdictInv, EventVerdictInv, TerminalViewIsTrue
<1>8. CASE Cut
  BY <1>1, <1>2, <1>8, FollowerAssumption
  DEF Cut, FollowTypeOK, VerdictInv, EventVerdictInv, TerminalViewIsTrue
<1>9. CASE Reload
  <2>1. /\ view' = Restored /\ Restored \in View
        /\ Restored.status \notin Terminal
    BY <1>9 DEF Reload, Restored, View, ViewStatus, ViewNode, Terminal
  <2>2. FollowTypeOK'
    BY <1>1, <1>9, <2>1, FollowerAssumption DEF Reload, FollowTypeOK, View
  <2> QED
    BY <1>1, <1>2, <1>9, <2>1, <2>2
    DEF Reload, VerdictInv, EventVerdictInv, TerminalViewIsTrue
<1>10. CASE Keepalive
  BY <1>1, <1>2, <1>10
  DEF Keepalive, followVars, FollowTypeOK, VerdictInv, EventVerdictInv,
      TerminalViewIsTrue
<1>11. CASE Rest
  BY <1>1, <1>2, <1>11
  DEF Rest, Over, FollowTypeOK, VerdictInv, EventVerdictInv, TerminalViewIsTrue
<1> QED
  BY <1>3, <1>4, <1>5, <1>6, <1>7, <1>8, <1>9, <1>10, <1>11 DEF Follow

\* The handler and the browser leave the runner alone.
LEMMA FollowLeavesRunner ==
    ASSUME IInv, Follow \/ Keepalive \/ Cut \/ Reload \/ Rest
    PROVE  IInv'
<1>1. UNCHANGED vars
  BY DEF Follow, ReadRows, TakeSnapshot, ReadAvailable, Stream, Replay, Deliver,
     Finish, Keepalive, followVars, Cut, Reload, Rest, Over
<1> QED
  BY <1>1, StepInvariant

LEMMA FollowStart == FollowInit => FollowInv
<1> SUFFICES ASSUME FollowInit PROVE FollowInv
  OBVIOUS
<1>1. IInv
  BY InitInvariant DEF FollowInit
<1>2. CursorInv
  BY DEF FollowInit, CursorInv, NothingSkipped, NotStored
<1>3. FollowTypeOK
  BY FollowerAssumption
  DEF FollowInit, FollowTypeOK, Restored, ViewStatus, ViewNode, NotStored
<1>4. VerdictInv
  BY DEF FollowInit, Init, VerdictInv, EventVerdictInv, TerminalViewIsTrue,
     Restored, Terminal
<1> QED
  BY <1>1, <1>2, <1>3, <1>4 DEF FollowInv

LEMMA FollowStep == FollowInv /\ [FollowNext]_followVars => FollowInv'
<1> SUFFICES ASSUME FollowInv, [FollowNext]_followVars PROVE FollowInv'
  OBVIOUS
<1>1. CursorInv'
  BY CursorStep DEF FollowInv
<1>2. CASE Run
  BY <1>1, <1>2, RunKeeps DEF FollowInv
<1>3. CASE Follow \/ Keepalive \/ Cut \/ Reload \/ Rest
  BY <1>1, <1>3, FollowKeeps, FollowLeavesRunner DEF FollowInv
<1>4. CASE UNCHANGED followVars
  <2>1. UNCHANGED vars
    BY <1>4 DEF followVars
  <2>2. IInv'
    BY <2>1, StepInvariant DEF FollowInv
  <2>3. FollowTypeOK' /\ VerdictInv'
    BY <1>4 DEF FollowInv, followVars, vars, rows, control, connection, client,
       bounds, FollowTypeOK, VerdictInv, EventVerdictInv, TerminalViewIsTrue
  <2> QED
    BY <1>1, <2>2, <2>3 DEF FollowInv
<1> QED
  BY <1>2, <1>3, <1>4 DEF FollowNext

\* The invariant of the composition.
THEOREM FollowInvariant == FollowSpec => []FollowInv
<1>1. QED
  BY FollowStart, FollowStep, PTL DEF FollowSpec

\* The types of the stream, the connection and the view.
THEOREM FollowTypeCorrect == FollowSpec => []FollowTypeOK
<1>1. FollowInv => FollowTypeOK
  BY DEF FollowInv
<1> QED
  BY <1>1, FollowInvariant, PTL

\* The browser never shows a verdict the run does not have.
THEOREM TerminalViewIsTrueHolds == FollowSpec => []TerminalViewIsTrue
<1>1. FollowInv => TerminalViewIsTrue
  BY DEF FollowInv, VerdictInv
<1> QED
  BY <1>1, FollowInvariant, PTL

-----------------------------------------------------------------------------
(***************************************************************************)
(* The rows and the events of the runner, step by step.                    *)
(***************************************************************************)

TerminalEvents == {<<"run.completed", None>>, <<"run.failed", None>>}

\* What a step of the runner does to what a follower sees.
Moves ==
    /\ \A n \in Node : Before(nodeStatus[n], nodeStatus'[n])
    /\ runStatus \in Terminal => nodeStatus' = nodeStatus
    /\ TerminalEvents \cap events # {} => events' = events
    /\ \A e \in events' \ events : \A n \in Node : e \in NodeEvents(n) =>
          runStatus \notin Terminal /\ Status(e) = nodeStatus[n]
    /\ faults' = 0 => faults = 0

\* An invariant of the news: with every step of the runner.
LEMMA ThreadMoves ==
    ASSUME RunInv, NewsInv, NEW n \in Node, Thread(n)
    PROVE  NewsInv' /\ Moves
<1>1. /\ main \in {"submitting", "waiting", "draining"} /\ UNCHANGED main
      /\ runStatus = "running" /\ UNCHANGED runStatus
      /\ \A m \in Node : nodeStatus[m] \notin {"failed", "skipped"}
  BY PoolFacts
<1>2. /\ nodeStatus \in [Node -> RowState] /\ pc \in [Node -> {"idle", "queued", "finished"} \cup Working]
      /\ faults \in Nat
  BY DEF RunInv, IInv, TypeOK
<1>3. TerminalEvents \cap events = {}
  BY <1>1 DEF RunInv, IInv, MainInv, TerminalEvents
<1>4. \/ nodeStatus' = nodeStatus
      \/ StartNode(n) /\ nodeStatus[n] = "pending" /\ nodeStatus' = [nodeStatus EXCEPT ![n] = "running"]
      \/ /\ CompleteNode(n) /\ nodeStatus[n] = "running"
         /\ nodeStatus' = [nodeStatus EXCEPT ![n] = "completed"]
  <2>1. CASE StartNode(n)
    BY <2>1 DEF StartNode, SetRow, Attempt, Proceed, Raise, RunInv, RowInv
  <2>2. CASE CompleteNode(n)
    BY <2>2 DEF CompleteNode, SetRow, Attempt, Proceed, Raise, RunInv, RowInv
  <2> QED
    BY <2>1, <2>2 DEF Thread, Begin, ResolveInputs, PublishStarted, Execute, StoreArtifact,
       PublishArtifact, PublishCompleted, Record, SubmitNext, HandleFailure, rows
<1>5. \A m \in Node : Before(nodeStatus[m], nodeStatus'[m])
  BY <1>2, <1>4 DEF Before
<1>6. /\ events \subseteq events'
      /\ \A e \in events' \ events :
           \/ e = <<"node.started", n>> /\ nodeStatus[n] = "running"
           \/ e = <<"node.completed", n>> /\ nodeStatus[n] = "completed"
           \/ e = <<"artifact.created", n>>
  <2>1. CASE PublishStarted(n)
    BY <2>1 DEF PublishStarted, Publish, Attempt, Proceed, Raise, RunInv, RowInv
  <2>2. CASE PublishCompleted(n)
    BY <2>2 DEF PublishCompleted, Publish, Attempt, Proceed, Raise, RunInv, IInv, OutputInv
  <2>3. CASE PublishArtifact(n)
    BY <2>3 DEF PublishArtifact, Publish, Attempt, Proceed, Raise
  <2> QED
    BY <2>1, <2>2, <2>3 DEF Thread, Begin, ResolveInputs, StartNode, Execute, StoreArtifact,
       CompleteNode, Record, SubmitNext, HandleFailure
<1>7. \A e \in events' \ events : \A m \in Node : e \in NodeEvents(m) => Status(e) = nodeStatus[m]
  BY <1>6 DEF NodeEvents, Status
<1>8. faults' \in {faults, faults + 1}
  BY DEF Thread, Begin, ResolveInputs, StartNode, PublishStarted, Execute, StoreArtifact,
     PublishArtifact, CompleteNode, PublishCompleted, Record, SubmitNext, HandleFailure,
     Attempt, Proceed, Raise
<1>9. Moves
  BY <1>1, <1>2, <1>3, <1>5, <1>7, <1>8 DEF Moves, Terminal
<1>10. ASSUME faults' = 0, NEW m \in Node, nodeStatus'[m] = "completed"
       PROVE  pc'[m] = "announcingDone" \/ <<"node.completed", m>> \in events'
  <2>1. faults = 0
    BY <1>2, <1>8, <1>10
  <2>2. CASE nodeStatus[m] = "completed"
    <3>1. CASE <<"node.completed", m>> \in events
      BY <1>6, <3>1
    <3>2. CASE pc[m] = "announcingDone" /\ m # n
      <4>1. CASE SubmitNext(n)
        <5>1. /\ toSubmit[n] # {} /\ toSubmit[n] \subseteq Node
              /\ \A v \in toSubmit[n] : pc[v] = "idle"
          BY <4>1 DEF RunInv, IInv, ClaimInv, TypeOK, SubmitNext
        <5>2. pc[Min(toSubmit[n])] = "idle" /\ Min(toSubmit[n]) \in Node
          BY <5>1, MinOfNodes
        <5> QED
          BY <1>2, <3>2, <4>1, <5>2 DEF SubmitNext
      <4>2. CASE ~ SubmitNext(n)
        BY <1>2, <3>2, <4>2 DEF Thread, Begin, ResolveInputs, StartNode, PublishStarted,
           Execute, StoreArtifact, PublishArtifact, CompleteNode, PublishCompleted, Record,
           HandleFailure, Attempt, Proceed, Raise
      <4> QED
        BY <4>1, <4>2
    <3>3. CASE pc[n] = "announcingDone" /\ m = n
      <4>1. PublishCompleted(n) \/ Begin(n)
        BY <3>3 DEF Thread, ResolveInputs, StartNode, PublishStarted, Execute, StoreArtifact,
           PublishArtifact, CompleteNode, Record, SubmitNext, HandleFailure, Attempt,
           Proceed, Raise
      <4>2. ~ Begin(n)
        BY <3>3 DEF RunInv, IInv, TypeOK, QueueInv, Begin
      <4>3. PublishCompleted(n) /\ faults' = faults
        BY <1>10, <2>1, <4>1, <4>2
      <4> QED
        BY <2>1, <3>3, <4>3 DEF PublishCompleted, Attempt, Proceed, Raise, Publish
    <3> QED
      BY <2>1, <2>2, <3>1, <3>2, <3>3 DEF NewsInv
  <2>3. CASE nodeStatus[m] # "completed"
    <3>1. m = n /\ CompleteNode(n)
      BY <1>2, <1>4, <1>10, <2>3
    <3> QED
      BY <1>2, <1>10, <2>1, <3>1 DEF CompleteNode, Attempt, Proceed, Raise
  <2> QED
    BY <2>2, <2>3
<1> QED
  BY <1>1, <1>9, <1>10 DEF NewsInv

LEMMA MainMoves ==
    ASSUME RunInv, NewsInv, MainThread
    PROVE  NewsInv' /\ Moves
<1>1. main # "end"
  BY DEF MainThread, StartRun, PublishRunStarted, SubmitRoot, Wake, Drained, FailNode,
     PublishNodeFailed, SkipPending, FailRun, PublishRunFailed, CompleteRun,
     PublishRunCompleted, ProceedMain, RaiseMain, Return
<1>2. TerminalEvents \cap events = {}
  BY <1>1 DEF RunInv, IInv, MainInv, TerminalEvents
<1>3. /\ nodeStatus \in [Node -> RowState]
      /\ pc \in [Node -> Working \cup {"idle", "queued", "finished"}] /\ faults \in Nat
  BY DEF RunInv, IInv, TypeOK
<1>4. faults' \in {faults, faults + 1}
  BY DEF MainThread, StartRun, PublishRunStarted, SubmitRoot, Wake, Drained, FailNode,
     PublishNodeFailed, SkipPending, FailRun, PublishRunFailed, CompleteRun,
     PublishRunCompleted, ProceedMain, RaiseMain, Return
<1>5. ASSUME NEW n \in Node, pc[n] = "announcingDone" PROVE pc'[n] = "announcingDone"
  <2>1. CASE SubmitRoot
    <3>1. /\ toSubmit[None] # {} /\ toSubmit[None] \subseteq Node
          /\ \A v \in toSubmit[None] : pc[v] = "idle"
      BY <2>1 DEF RunInv, IInv, ClaimInv, TypeOK, SubmitRoot
    <3>2. pc[Min(toSubmit[None])] = "idle"
      BY <3>1, MinOfNodes
    <3> QED
      BY <1>3, <1>5, <2>1, <3>2 DEF SubmitRoot
  <2>2. CASE ~ SubmitRoot
    BY <1>5, <2>2 DEF MainThread, StartRun, PublishRunStarted, Wake, Drained, FailNode,
       PublishNodeFailed, SkipPending, FailRun, PublishRunFailed, CompleteRun,
       PublishRunCompleted
  <2> QED
    BY <2>1, <2>2
\* The first part of NewsInv: no row is completed here, and no event taken back.
<1>6. ASSUME events \subseteq events',
             \A n \in Node : nodeStatus'[n] = "completed" => nodeStatus[n] = "completed"
      PROVE  /\ faults' = 0 => faults = 0
             /\ faults' = 0 => \A n \in Node : nodeStatus'[n] = "completed" =>
                   pc'[n] = "announcingDone" \/ <<"node.completed", n>> \in events'
  BY <1>3, <1>4, <1>5, <1>6 DEF NewsInv
<1>7. CASE FailNode
  <2>1. /\ main = "failingNode" /\ main' \in {"announcingNode", "end"}
        /\ UNCHANGED <<runStatus, events>>
        /\ \/ nodeStatus' = [nodeStatus EXCEPT ![firstFailure] = "failed"]
           \/ nodeStatus' = nodeStatus
    BY <1>7 DEF FailNode, ProceedMain, RaiseMain, SetRow
  <2>2. /\ runStatus = "running"
        /\ \A n \in Node : nodeStatus[n] # "skipped"
    BY <2>1 DEF RunInv, StageInv
  <2>3. \A n \in Node : /\ Before(nodeStatus[n], nodeStatus'[n])
                        /\ nodeStatus'[n] = "completed" => nodeStatus[n] = "completed"
    BY <1>3, <2>1, <2>2 DEF Before, RowState
  <2> QED
    BY <1>6, <2>1, <2>2, <2>3 DEF NewsInv, Moves, Terminal
<1>8. CASE SkipPending
  <2>1. /\ main = "skipping" /\ UNCHANGED <<runStatus, events>>
        /\ \/ \A n \in Node : nodeStatus'[n] = IF nodeStatus[n] = "pending" THEN "skipped"
                                               ELSE nodeStatus[n]
           \/ nodeStatus' = nodeStatus
    BY <1>8 DEF SkipPending, ProceedMain, RaiseMain, Skippable
  <2>2. runStatus = "running"
    BY <2>1 DEF RunInv, StageInv
  <2>3. \A n \in Node : /\ Before(nodeStatus[n], nodeStatus'[n])
                        /\ nodeStatus'[n] = "completed" => nodeStatus[n] = "completed"
                        /\ nodeStatus'[n] = "failed" => nodeStatus[n] = "failed"
    BY <2>1 DEF Before
  <2> QED
    BY <1>6, <2>1, <2>2, <2>3 DEF NewsInv, Moves, Terminal
<1>9. CASE PublishNodeFailed
  <2>1. /\ main = "announcingNode" /\ UNCHANGED <<runStatus, nodeStatus>>
        /\ events \subseteq events'
        /\ events' \subseteq events \cup {<<"node.failed", firstFailure>>}
        /\ main' = "end" \/ (main' = "skipping" /\ <<"node.failed", firstFailure>> \in events')
    BY <1>9 DEF PublishNodeFailed, ProceedMain, RaiseMain, Publish, rows
  <2>2. /\ runStatus = "running" /\ nodeStatus[firstFailure] = "failed"
        /\ \A n \in Node : nodeStatus[n] = "failed" => n = firstFailure
    BY <2>1 DEF RunInv, StageInv
  <2>3. \A n \in Node : Before(nodeStatus[n], nodeStatus'[n])
    BY <2>1 DEF Before
  <2>4. \A e \in events' \ events : \A n \in Node :
           e \in NodeEvents(n) => Status(e) = nodeStatus[n]
    BY <2>1, <2>2 DEF NodeEvents, Status
  <2> QED
    BY <1>2, <1>6, <2>1, <2>2, <2>3, <2>4 DEF NewsInv, Moves, Terminal
<1>10. CASE StartRun \/ FailRun \/ CompleteRun
  <2>1. UNCHANGED <<nodeStatus, events>>
    BY <1>10 DEF StartRun, FailRun, CompleteRun
  <2>2. runStatus' = "failed" \/ main' \in {"skipping", "failingRun", "announcingFailure"} =>
           \A n \in Node : nodeStatus[n] = "failed" => <<"node.failed", n>> \in events
    <3>1. CASE StartRun
      <4>1. runStatus' = "failed" => runStatus = "failed"
        BY <3>1 DEF StartRun
      <4>2. main' \in {"skipping", "failingRun", "announcingFailure"} => runStatus = "pending"
        BY <3>1 DEF StartRun, ProceedMain, RaiseMain, Return
      <4>3. runStatus = "pending" => \A n \in Node : nodeStatus[n] = "pending"
        BY DEF RunInv, StageInv
      <4> QED
        BY <4>1, <4>2, <4>3 DEF NewsInv
    <3>2. CASE FailRun
      BY <3>2 DEF FailRun, ProceedMain, RaiseMain, NewsInv
    <3>3. CASE CompleteRun
      BY <3>3 DEF CompleteRun, ProceedMain, RaiseMain, NewsInv
    <3> QED
      BY <1>10, <3>1, <3>2, <3>3
  <2>3. \A n \in Node : Before(nodeStatus[n], nodeStatus'[n])
    BY <2>1 DEF Before
  <2> QED
    BY <1>6, <2>1, <2>2, <2>3 DEF NewsInv, Moves
<1>11. CASE \/ PublishRunStarted \/ SubmitRoot \/ Wake \/ Drained
            \/ PublishRunFailed \/ PublishRunCompleted
  <2>1. /\ UNCHANGED <<runStatus, nodeStatus>> /\ events \subseteq events'
        /\ main' \notin {"skipping", "failingRun", "announcingFailure"}
    BY <1>11 DEF PublishRunStarted, SubmitRoot, Wake, Drained, PublishRunFailed,
       PublishRunCompleted, ProceedMain, RaiseMain, Return, Publish, rows
  <2>2. events' \subseteq events \cup {<<"run.started", None>>} \cup TerminalEvents
    BY <1>11 DEF PublishRunStarted, SubmitRoot, Wake, Drained, PublishRunFailed,
       PublishRunCompleted, Publish, TerminalEvents
  <2>3. \A n \in Node : Before(nodeStatus[n], nodeStatus'[n])
    BY <2>1 DEF Before
  <2>4. \A e \in events' \ events : \A n \in Node : e \notin NodeEvents(n)
    BY <2>2 DEF NodeEvents, TerminalEvents
  <2> QED
    BY <1>2, <1>6, <2>1, <2>3, <2>4 DEF NewsInv, Moves
<1> QED
  BY <1>7, <1>8, <1>9, <1>10, <1>11 DEF MainThread

\* At most one event is published.
LEMMA OneEvent ==
    ASSUME MainThread \/ \E n \in Node : Thread(n)
    PROVE  events' = events \/ \E e : events' = events \cup {e}
<1>1. CASE MainThread
  BY <1>1 DEF MainThread, StartRun, PublishRunStarted, SubmitRoot, Wake, Drained, FailNode,
     PublishNodeFailed, SkipPending, FailRun, PublishRunFailed, CompleteRun,
     PublishRunCompleted, Publish
<1>2. CASE \E n \in Node : Thread(n)
  BY <1>2 DEF Thread, Begin, ResolveInputs, StartNode, PublishStarted, Execute,
     StoreArtifact, PublishArtifact, CompleteNode, PublishCompleted, Record, SubmitNext,
     HandleFailure, Publish
<1> QED
  BY <1>1, <1>2

\* The same of Run, and what it leaves to the follower.
LEMMA RunMoves ==
    ASSUME BrowserInv, Run
    PROVE  /\ RunInv' /\ NewsInv' /\ Moves
           /\ runStatus \in Terminal => runStatus' = runStatus
           /\ UNCHANGED <<connection, client, bounds>>
           /\ \/ events' = events /\ log' = log
              \/ \E e \in Event \ events : events' = events \cup {e} /\ log' = Append(log, e)
<1>1. RunInv' /\ NewsInv' /\ Moves
  BY ThreadMoves, MainMoves, RunStep DEF Run, Next, BrowserInv
<1>2. VerdictStep
  BY ThreadKeepsVerdict, MainKeepsVerdict DEF Run, BrowserInv, FollowInv, VerdictInv
<1>3. events' # events => \E e \in Event \ events : events' = events \cup {e} /\ log' = Append(log, e)
  BY <1>2, OneEvent DEF Run, VerdictStep
<1> QED
  BY <1>1, <1>2, <1>3 DEF Run, VerdictStep

-----------------------------------------------------------------------------
(***************************************************************************)
(* The order of the rows, and the stream.                                  *)
(***************************************************************************)

LEMMA BeforeOrder ==
    ASSUME NEW s \in RowState, NEW t \in RowState
    PROVE  /\ Before(s, s)
           /\ Before(s, t) /\ Before(t, s) => s = t
           /\ \A u \in RowState : Before(s, t) /\ Before(t, u) => Before(s, u)
BY DEF Before, RowState

LEMMA StatusOf ==
    ASSUME NEW n \in Node
    PROVE  /\ Status(<<"node.started", n>>) = "running"
           /\ Status(<<"node.completed", n>>) = "completed"
           /\ Status(<<"node.failed", n>>) = "failed"
           /\ \A e \in NodeEvents(n) :
                 /\ Status(e) \in {"running", "completed", "failed"}
                 /\ Status(e) = "running" => e = <<"node.started", n>>
                 /\ Status(e) = "completed" => e = <<"node.completed", n>>
                 /\ Status(e) = "failed" => e = <<"node.failed", n>>
BY DEF Status, NodeEvents

\* No entry of the stream is ahead of its row.
LEMMA LogSays ==
    ASSUME BrowserInv, NEW n \in Node, NEW j \in About(n)
    PROVE  /\ j \in DOMAIN log /\ j \in 1..Len(log) /\ log[j] \in events \cap NodeEvents(n)
           /\ Status(log[j]) \in RowState
           /\ Before(Status(log[j]), nodeStatus[n])
<1>1. log \in Seq(Event \cup {<<"run.queued", None>>})
  BY DEF BrowserInv, FollowInv, FollowTypeOK
<1>2. j \in DOMAIN log /\ log[j] \in NodeEvents(n) /\ log[j] # <<"run.queued", None>>
  BY DEF About, NodeEvents
<1>3. log[j] \in events
  BY <1>2 DEF BrowserInv, LogInv
<1>4. /\ Status(log[j]) = "running" => nodeStatus[n] \in {"running", "completed", "failed"}
      /\ Status(log[j]) = "completed" => nodeStatus[n] \in {"completed", "failed"}
      /\ Status(log[j]) = "failed" => nodeStatus[n] = "failed"
  BY <1>2, <1>3, StatusOf DEF BrowserInv, RunInv, RowsLeadEvents
<1>5. Status(log[j]) \in {"running", "completed", "failed"}
  BY <1>2, StatusOf
<1>6. Before(Status(log[j]), nodeStatus[n])
  BY <1>4, <1>5 DEF Before
<1>7. j \in 1..Len(log)
  BY <1>1, <1>2
<1> QED
  BY <1>2, <1>3, <1>5, <1>6, <1>7 DEF RowState

\* A published event is in the stream.
LEMMA InLog ==
    ASSUME BrowserInv, NEW n \in Node, NEW e \in events \cap NodeEvents(n)
    PROVE  \E j \in About(n) : log[j] = e
BY DEF BrowserInv, LogInv, About

\* What the invariant says of entries up to i does not change as the stream grows.
LEMMA GrownLog ==
    ASSUME BrowserInv, Run
    PROVE  /\ log' \in Seq(Event \cup {<<"run.queued", None>>})
           /\ Len(log) \in Nat /\ (Len(log') = Len(log) \/ Len(log') = Len(log) + 1)
           /\ DOMAIN log \subseteq DOMAIN log' /\ \A i \in DOMAIN log : log'[i] = log[i]
           /\ \A n \in Node : About(n) \subseteq About(n)'
           /\ \A n \in Node : \A j \in About(n)' : j \in About(n) \/ j = Len(log) + 1
<1>1. log \in Seq(Event \cup {<<"run.queued", None>>})
  BY DEF BrowserInv, FollowInv, FollowTypeOK
<1>2. log' = log \/ \E e \in Event : log' = Append(log, e)
  BY RunMoves
<1>3. /\ log' \in Seq(Event \cup {<<"run.queued", None>>})
      /\ Len(log') = Len(log) \/ Len(log') = Len(log) + 1
      /\ \A i \in DOMAIN log : log'[i] = log[i]
      /\ Len(log) \in Nat
      /\ DOMAIN log \subseteq DOMAIN log'
      /\ \A j \in DOMAIN log' : j \in DOMAIN log \/ j = Len(log) + 1
  BY <1>1, <1>2
<1>4. ASSUME NEW n \in Node
      PROVE  /\ About(n) \subseteq About(n)'
             /\ \A j \in About(n)' : j \in About(n) \/ j = Len(log) + 1
  <2>1. About(n)' = {i \in DOMAIN log' : log'[i] \in NodeEvents(n)}
    BY DEF About, NodeEvents
  <2> QED
    BY <1>3, <2>1 DEF About
<1> QED
  BY <1>3, <1>4

LEMMA LogStep == ASSUME BrowserInv, Run PROVE LogInv'
<1>1. CASE log' = log /\ events' = events
  BY <1>1 DEF BrowserInv, LogInv, About, NodeEvents, Status, IsTerminalEvent, Before
<1>2. ASSUME NEW e \in Event \ events, events' = events \cup {e}, log' = Append(log, e)
      PROVE  LogInv'
  <2>1. log \in Seq(Event \cup {<<"run.queued", None>>})
    BY DEF BrowserInv, FollowInv, FollowTypeOK
  <2> DEFINE k == Len(log) + 1
  <2>2. /\ DOMAIN log = 1..Len(log) /\ DOMAIN log' = 1..k /\ Len(log') = k
        /\ log'[k] = e /\ \A i \in DOMAIN log : log'[i] = log[i]
        /\ Len(log) \in Nat
    BY <1>2, <2>1
  <2>3. Moves
    BY RunMoves
  <2>4. \A i \in DOMAIN log' : log'[i] \in events' \cup {<<"run.queued", None>>}
    BY <1>2, <2>2 DEF BrowserInv, LogInv
  <2>5. \A d \in events' : \E i \in DOMAIN log' : log'[i] = d
    BY <1>2, <2>2 DEF BrowserInv, LogInv
  <2>6. \A i \in DOMAIN log : ~ IsTerminalEvent(log[i])
    <3>1. TerminalEvents \cap events = {}
      BY <1>2, <2>3 DEF Moves
    <3>2. \A d \in events : d[1] \in {"run.completed", "run.failed"} => d \in TerminalEvents
      BY DEF BrowserInv, RunInv, IInv, TypeOK, Event, TerminalEvents
    <3> QED
      BY <3>1, <3>2 DEF BrowserInv, LogInv, IsTerminalEvent
  <2>7. \A i \in DOMAIN log' : IsTerminalEvent(log'[i]) => i = Len(log')
    BY <2>2, <2>6 DEF IsTerminalEvent
  <2>8. ASSUME NEW n \in Node, NEW i \in About(n)', NEW j \in About(n)', i <= j
        PROVE  Before(Status(log'[i]), Status(log'[j]))
    <3>1. /\ i \in 1..k /\ j \in 1..k
          /\ log'[i] \in NodeEvents(n) /\ log'[j] \in NodeEvents(n)
      BY <2>2, <2>8 DEF About, NodeEvents
    <3>2. CASE j # k
      <4>1. i \in About(n) /\ j \in About(n) /\ log'[i] = log[i] /\ log'[j] = log[j]
        BY <2>2, <2>8, <3>1, <3>2 DEF About
      <4> QED
        BY <2>8, <4>1 DEF BrowserInv, LogInv
    <3>3. CASE j = k /\ i = k
      BY <3>1, <3>3 DEF Before
    <3>4. CASE j = k /\ i # k
      <4>1. i \in About(n) /\ log'[i] = log[i]
        BY <2>2, <3>1, <3>4 DEF About
      <4>2. Status(e) = nodeStatus[n]
        BY <1>2, <2>2, <2>3, <3>1, <3>4 DEF Moves
      <4> QED
        BY <2>2, <3>4, <4>1, <4>2, LogSays
    <3> QED
      BY <3>2, <3>3, <3>4
  <2> QED
    BY <2>4, <2>5, <2>7, <2>8 DEF LogInv, IsTerminalEvent, Status, Before
<1> QED
  BY <1>1, <1>2, RunMoves

-----------------------------------------------------------------------------
(***************************************************************************)
(* The view.                                                               *)
(***************************************************************************)

LEMMA BrowserFacts ==
    ASSUME BrowserInv
    PROVE  /\ log \in Seq(Event \cup {<<"run.queued", None>>}) /\ Len(log) \in Nat
           /\ DOMAIN log = 1..Len(log)
           /\ position \in 0..Len(log) /\ after \in 0..Len(log) /\ last \in 0..Len(log)
           /\ view \in View /\ nodeStatus \in [Node -> RowState] /\ runStatus \in RunState
           /\ link = "answered" => snapshot \in [run : RunState, nodes : [Node -> RowState]]
BY DEF BrowserInv, FollowInv, FollowTypeOK, IInv, TypeOK, VerdictInv, View

\* Entries that are there keep their place, so that what they cover is covered.
LEMMA CoversKept ==
    ASSUME BrowserInv, Run, NEW i \in 0..Len(log)
    PROVE  /\ \A n \in Node : \A j \in About(n)' : j <= i => j \in About(n) /\ log'[j] = log[j]
           /\ \A j \in DOMAIN log' : j <= i => j \in DOMAIN log /\ log'[j] = log[j]
<1>1. /\ Len(log) \in Nat /\ DOMAIN log = 1..Len(log)
      /\ \A n \in Node : About(n) \subseteq DOMAIN log
  BY BrowserFacts DEF About
<1>2. \A n \in Node : \A j \in About(n)' : j <= i => j \in About(n)
  BY <1>1, GrownLog
<1>3. \A j \in DOMAIN log' : j <= i => j \in DOMAIN log
  <2>1. log' \in Seq(Event \cup {<<"run.queued", None>>})
    BY GrownLog
  <2> QED
    BY <1>1, <2>1
<1> QED
  BY <1>1, <1>2, <1>3, GrownLog

\* A step of the runner changes no view, and none it makes false.
LEMMA RunShown == ASSUME BrowserInv, Run PROVE ShownInv'
<1>1. /\ UNCHANGED <<link, snapshot, position, last, view, after>>
      /\ Moves
      /\ runStatus \in Terminal => UNCHANGED <<runStatus, nodeStatus>>
  BY RunMoves DEF connection, client, Moves
<1>2. RunInv' /\ BrowserInv
  BY RunMoves
<1>3. nodeStatus \in [Node -> RowState] /\ nodeStatus' \in [Node -> RowState]
  BY <1>2, BrowserFacts DEF RunInv, IInv, TypeOK
<1>4. ASSUME NEW n \in Node, NEW s \in RowState, Before(s, nodeStatus[n])
      PROVE  Before(s, nodeStatus'[n])
  BY <1>1, <1>3, <1>4, BeforeOrder DEF Moves
<1>5. ASSUME NEW n \in Node, NEW s \in RowState, Shows(n, s)
      PROVE  Shows(n, s)'
  <2>1. \A j \in About(n)' : j <= position => Before(Status(log'[j]), s)
    BY <1>5, BrowserFacts, CoversKept DEF Shows, Covers
  <2> QED
    BY <1>1, <1>4, <1>5, <2>1 DEF Shows, Covers, Before, Status, Shown
<1>6. ASSUME NEW i \in 0..Len(log), OpenUpTo(i)
      PROVE  \A j \in DOMAIN log' : j <= i => ~ IsTerminalEvent(log'[j])
  BY <1>6, CoversKept DEF OpenUpTo
<1>7. link' = "answered" => Fresh'
  <2> SUFFICES ASSUME link = "answered" PROVE Fresh'
    BY <1>1
  <2>1. Fresh /\ snapshot \in [run : RunState, nodes : [Node -> RowState]]
    BY BrowserFacts DEF BrowserInv, ShownInv
  <2>2. after \in 0..Len(log)
    BY BrowserFacts
  <2>3. \A n \in Node : /\ Before(snapshot.nodes[n], nodeStatus'[n])
                        /\ \A j \in About(n)' : j <= after =>
                              Before(Status(log'[j]), snapshot.nodes[n])
    BY <1>4, <2>1, <2>2, CoversKept DEF Fresh, Covers
  <2>4. IF snapshot.run \in Terminal THEN snapshot.nodes = nodeStatus'
        ELSE \A j \in DOMAIN log' : j <= after => ~ IsTerminalEvent(log'[j])
    <3>1. snapshot.run \in Terminal => runStatus \in Terminal
      BY DEF BrowserInv, FollowInv, VerdictInv
    <3> QED
      BY <1>1, <1>6, <2>1, <2>2, <3>1 DEF Fresh
  <2> QED
    BY <1>1, <2>3, <2>4 DEF Fresh, Covers, OpenUpTo, Before, Status, IsTerminalEvent
<1>8. link' = "streaming" => Live'
  <2> SUFFICES ASSUME link = "streaming" PROVE Live'
    BY <1>1
  <2>1. Live /\ position \in 0..Len(log)
    BY BrowserFacts DEF BrowserInv, ShownInv
  <2>2. OpenUpTo(position)'
    BY <1>1, <1>6, <2>1 DEF Live, OpenUpTo, IsTerminalEvent
  <2>3. \A n \in Node : \E s \in RowState : Shows(n, s)'
    BY <1>5, <2>1 DEF Live
  <2> QED
    BY <2>2, <2>3 DEF Live, Shows, Covers, Before, Status, Shown, About, NodeEvents, RowState
<1>9. ASSUME Told, runStatus \in Terminal PROVE Told'
  BY <1>1, <1>9 DEF Told, Moves, Shown
<1>10. ASSUME link \in {"ranging", "replaying"}
       PROVE  Replayed' \/ (Told' /\ ~ OpenUpTo(position)')
  <2>1. runStatus \in Terminal /\ (Replayed \/ (Told /\ ~ OpenUpTo(position)))
    BY <1>10 DEF BrowserInv, ShownInv
  <2>2. CASE Replayed
    <3>1. \A n \in Node : \E s \in RowState \ {"pending"} : Shows(n, s)'
      BY <1>5, <2>2 DEF Replayed
    <3> QED
      BY <3>1 DEF Replayed, Shows, Covers, Before, Status, Shown, About, NodeEvents, RowState
  <2>3. CASE Told /\ ~ OpenUpTo(position)
    <3>1. Told'
      BY <1>9, <2>1, <2>3
    <3>2. ~ OpenUpTo(position)'
      BY <1>1, <2>3, GrownLog DEF OpenUpTo, IsTerminalEvent
    <3> QED
      BY <3>1, <3>2
  <2> QED
    BY <2>1, <2>2, <2>3
<1>11. ASSUME link = "replaying", NEW n \in Node, NEW j \in About(n)' PROVE j <= last
  <2>1. runStatus \in Terminal /\ \A k \in About(n) : k <= last
    BY <1>11 DEF BrowserInv, ShownInv
  <2>2. j \in DOMAIN log' /\ log'[j] \in NodeEvents(n)
    BY DEF About, NodeEvents
  <2>3. CASE log' = log
    BY <2>1, <2>2, <2>3 DEF About
  <2>4. ASSUME NEW e \in Event \ events, events' = events \cup {e}, log' = Append(log, e)
        PROVE  j <= last
    <3>1. e \notin NodeEvents(n)
      BY <1>1, <2>1, <2>4 DEF Moves
    <3>2. j \in DOMAIN log /\ log'[j] = log[j]
      BY <2>2, <2>4, <3>1, BrowserFacts
    <3> QED
      BY <2>1, <2>2, <3>2 DEF About
  <2> QED
    BY <2>3, <2>4, RunMoves
<1>12. link \in {"ended", "finished"} => Told'
  BY <1>9 DEF BrowserInv, ShownInv
<1>13. link \in {"ranging", "replaying", "ended", "finished"} =>
          runStatus' \in Terminal /\ view'.status = runStatus'
  BY <1>1 DEF BrowserInv, ShownInv
<1> QED
  BY <1>1, <1>7, <1>8, <1>10, <1>11, <1>12, <1>13 DEF ShownInv

\* What is left to learn of a node once its run has a verdict.
LEMMA Final ==
    ASSUME BrowserInv, runStatus \in Terminal, NEW n \in Node, NEW s \in RowState,
           Before(s, nodeStatus[n]),
           \A j \in About(n) : Before(Status(log[j]), s)
    PROVE  /\ nodeStatus[n] # "pending"
           /\ runStatus = "completed" => nodeStatus[n] = "completed"
           /\ nodeStatus[n] = "failed" => s = "failed"
           /\ nodeStatus[n] = "skipped" => s \in {"skipped", "pending"}
           /\ s = "completed" => nodeStatus[n] = "completed"
           /\ faults = 0 /\ nodeStatus[n] \notin {"running", "skipped"} => s = nodeStatus[n]
<1>1. nodeStatus[n] \in RowState
  BY BrowserFacts
<1>2. runStatus = "completed" => nodeStatus[n] = "completed"
  BY DEF BrowserInv, RunInv, IInv, MainInv, OutputInv
<1>3. nodeStatus[n] # "pending"
  BY <1>2 DEF BrowserInv, RunInv, FailedRunIsSettled, Settled, Terminal
<1>4. nodeStatus[n] = "failed" => s = "failed"
  <2> SUFFICES ASSUME nodeStatus[n] = "failed" PROVE s = "failed"
    OBVIOUS
  <2>1. runStatus = "failed"
    BY <1>2 DEF Terminal
  <2>2. <<"node.failed", n>> \in events \cap NodeEvents(n)
    BY <2>1 DEF BrowserInv, NewsInv, NodeEvents
  <2>3. PICK j \in About(n) : log[j] = <<"node.failed", n>>
    BY <2>2, InLog
  <2>4. Before("failed", s)
    BY <2>3, StatusOf
  <2> QED
    BY <2>4 DEF Before
<1>5. s = "completed" => nodeStatus[n] = "completed"
  BY <1>1, <1>4 DEF Before, RowState
<1>6. faults = 0 /\ nodeStatus[n] = "completed" => s = "completed"
  <2> SUFFICES ASSUME faults = 0, nodeStatus[n] = "completed" PROVE s = "completed"
    OBVIOUS
  <2>1. pc[n] # "announcingDone"
    <3>1. Quiet
      BY DEF BrowserInv, RunInv, IInv, MainInv, Terminal
    <3> QED
      BY <3>1 DEF Quiet, Busy, Working
  <2>2. <<"node.completed", n>> \in events \cap NodeEvents(n)
    BY <2>1 DEF BrowserInv, NewsInv, NodeEvents
  <2>3. PICK j \in About(n) : log[j] = <<"node.completed", n>>
    BY <2>2, InLog
  <2>4. Before("completed", s)
    BY <2>3, StatusOf
  <2> QED
    BY <2>4 DEF Before
<1> QED
  BY <1>1, <1>2, <1>3, <1>4, <1>5, <1>6 DEF Before, RowState

LEMMA ShownFacts ==
    ASSUME NEW s \in RowState
    PROVE  /\ s = "failed" <=> Shown(s) = "error"
           /\ s = "completed" <=> Shown(s) = "success"
           /\ s = "skipped" <=> Shown(s) = "skipped"
           /\ s = "pending" <=> Shown(s) = "queued"
           /\ s = "running" <=> Shown(s) = "running"
BY DEF Shown, RowState

\* An event that does not end the run changes the view of its node only.
LEMMA EventShown ==
    ASSUME NEW v \in View, NEW e \in Event \cup {<<"run.queued", None>>},
           ~ IsTerminalEvent(e), NEW n \in Node
    PROVE  ApplyEvent(v, e).nodes[n] = IF e \in NodeEvents(n) THEN Shown(Status(e)) ELSE v.nodes[n]
<1>1. v.nodes \in [Node -> ViewNode]
  BY DEF View
<1>2. CASE e[1] \in {"run.queued", "run.started"}
  <2>1. \E x : ApplyEvent(v, e) = [v EXCEPT !.status = x]
    BY <1>2 DEF ApplyEvent
  <2>2. ApplyEvent(v, e).nodes = v.nodes
    BY <2>1 DEF View
  <2> QED
    BY <1>2, <2>2 DEF NodeEvents
<1>3. CASE e[1] = "artifact.created"
  BY <1>3 DEF ApplyEvent, NodeEvents
<1>4. CASE e[1] \in {"node.started", "node.completed", "node.failed"}
  <2>1. e[2] \in Node /\ e = <<e[1], e[2]>>
    BY <1>4 DEF Event
  <2>2. ApplyEvent(v, e) = [v EXCEPT !.nodes[e[2]] = Shown(Status(e))]
    BY <1>4 DEF ApplyEvent, FailNodeShown, Shown, Status
  <2>3. ApplyEvent(v, e).nodes[n] = IF n = e[2] THEN Shown(Status(e)) ELSE v.nodes[n]
    BY <1>1, <2>1, <2>2 DEF View
  <2>4. e \in NodeEvents(n) <=> n = e[2]
    BY <1>4, <2>1 DEF NodeEvents
  <2> QED
    BY <2>3, <2>4
<1> QED
  BY <1>2, <1>3, <1>4 DEF Event, IsTerminalEvent

\* The end of the run is taken in by a view that shows rows as late as what it heard.
LEMMA ClosedIsTold ==
    ASSUME BrowserInv, runStatus \in Terminal, view' = ApplyEvent(view, log[Len(log)]),
           IsTerminalEvent(log[Len(log)]), UNCHANGED <<nodeStatus, runStatus, faults>>,
           Len(log) \in DOMAIN log,
           \A n \in Node : \E s \in RowState :
               /\ view.nodes[n] = Shown(s) /\ Before(s, nodeStatus[n])
               /\ Covers(n, s, Len(log))
    PROVE  Told'
<1> DEFINE r == IF runStatus = "completed" THEN "success" ELSE "error"
           q == IF runStatus = "completed" THEN "success" ELSE "skipped"
<1>1. log[Len(log)][1] = IF runStatus = "completed" THEN "run.completed" ELSE "run.failed"
  BY DEF BrowserInv, FollowInv, VerdictInv, IsTerminalEvent, Terminal
<1>2. view' = Close(view, runStatus, r, q)
  BY <1>1 DEF ApplyEvent, Terminal
<1>3. view.status \in Terminal => view.status = runStatus
  BY DEF BrowserInv, FollowInv, VerdictInv, TerminalViewIsTrue
<1>4. /\ view'.status = runStatus
      /\ \A n \in Node : view'.nodes[n] = CASE view.nodes[n] = "running" -> r
                                            [] view.nodes[n] = "queued" -> q
                                            [] OTHER -> view.nodes[n]
  BY <1>2, <1>3 DEF Close, Advance, Terminal
<1>5. ASSUME NEW n \in Node
      PROVE  /\ nodeStatus[n] = "failed" => view'.nodes[n] = "error"
             /\ nodeStatus[n] = "skipped" => view'.nodes[n] = "skipped"
             /\ view'.nodes[n] = "success" => nodeStatus[n] = "completed"
             /\ faults = 0 /\ nodeStatus[n] # "running"
                   => view'.nodes[n] = Shown(nodeStatus[n])
  <2>1. PICK s \in RowState : /\ view.nodes[n] = Shown(s) /\ Before(s, nodeStatus[n])
                              /\ Covers(n, s, Len(log))
    OBVIOUS
  <2>2. \A j \in About(n) : Before(Status(log[j]), s)
    BY <2>1, LogSays, BrowserFacts DEF Covers
  <2>3. /\ nodeStatus[n] # "pending"
        /\ runStatus = "completed" => nodeStatus[n] = "completed"
        /\ nodeStatus[n] = "failed" => s = "failed"
        /\ nodeStatus[n] = "skipped" => s \in {"skipped", "pending"}
        /\ s = "completed" => nodeStatus[n] = "completed"
        /\ faults = 0 /\ nodeStatus[n] \notin {"running", "skipped"} => s = nodeStatus[n]
    BY <2>1, <2>2, Final
  <2>4. nodeStatus[n] \in RowState
    BY BrowserFacts
  <2> QED
    BY <1>4, <2>1, <2>3, <2>4, ShownFacts DEF RowState
<1> QED
  BY <1>4, <1>5 DEF Told, Shown

\* The entries of a replay have all been read.
LEMMA ReplayedIsTold ==
    ASSUME BrowserInv, runStatus \in Terminal, view.status = runStatus, Replayed,
           \A n \in Node : \A j \in About(n) : j <= position
    PROVE  Told
<1>1. ASSUME NEW n \in Node
      PROVE  /\ nodeStatus[n] = "failed" => view.nodes[n] = "error"
             /\ nodeStatus[n] = "skipped" => view.nodes[n] = "skipped"
             /\ view.nodes[n] = "success" => nodeStatus[n] = "completed"
             /\ faults = 0 /\ nodeStatus[n] # "running"
                   => view.nodes[n] = Shown(nodeStatus[n])
  <2>1. PICK s \in RowState \ {"pending"} : Shows(n, s)
    BY DEF Replayed
  <2>2. \A j \in About(n) : Before(Status(log[j]), s)
    BY <2>1 DEF Shows, Covers
  <2>3. /\ nodeStatus[n] # "pending"
        /\ nodeStatus[n] = "failed" => s = "failed"
        /\ nodeStatus[n] = "skipped" => s \in {"skipped", "pending"}
        /\ s = "completed" => nodeStatus[n] = "completed"
        /\ faults = 0 /\ nodeStatus[n] \notin {"running", "skipped"} => s = nodeStatus[n]
    BY <2>1, <2>2, Final DEF Shows
  <2> QED
    BY <2>1, <2>3, ShownFacts DEF Shows
<1> QED
  BY <1>1 DEF Told

LEMMA DeliverFacts ==
    ASSUME BrowserInv, link \in {"streaming", "replaying"}, NEW l, Deliver(l)
    PROVE  /\ position + 1 \in DOMAIN log /\ position' = position + 1 /\ link' = l
           /\ view' = ApplyEvent(view, log[position + 1])
           /\ log[position + 1] \in Event \cup {<<"run.queued", None>>}
           /\ UNCHANGED <<log, last, events, runStatus, nodeStatus, faults>>
<1>1. position = after /\ processed = (mounted + 1)..after
  BY DEF BrowserInv, FollowInv, CursorInv, NothingSkipped
<1>2. position + 1 \notin processed
  BY <1>1, BrowserFacts
<1>3. UNCHANGED <<events, runStatus, nodeStatus, faults>>
  BY DEF Deliver, vars, rows
<1>4. log[position + 1] \in Event \cup {<<"run.queued", None>>}
  BY BrowserFacts DEF Deliver
<1> QED
  BY <1>2, <1>3, <1>4 DEF Deliver

\* An entry that does not end the run.
LEMMA DeliverShows ==
    ASSUME BrowserInv, link \in {"streaming", "replaying"}, NEW l, Deliver(l),
           ~ IsTerminalEvent(log[position + 1]),
           NEW n \in Node, NEW s \in RowState, Shows(n, s)
    PROVE  \E t \in RowState : Shows(n, t)' /\ (s # "pending" => t # "pending")
<1> DEFINE i == position + 1
           e == log[i]
<1>1. /\ i \in DOMAIN log /\ position' = i
      /\ view' = ApplyEvent(view, e) /\ e \in Event \cup {<<"run.queued", None>>}
      /\ UNCHANGED <<log, nodeStatus>>
  BY DeliverFacts
<1>2. view'.nodes[n] = IF e \in NodeEvents(n) THEN Shown(Status(e)) ELSE view.nodes[n]
  BY <1>1, EventShown, BrowserFacts
<1>3. CASE e \in NodeEvents(n)
  <2>1. i \in About(n)
    BY <1>1, <1>3 DEF About
  <2>2. Status(e) \in RowState \ {"pending"} /\ Before(Status(e), nodeStatus[n])
    BY <1>3, <2>1, LogSays, StatusOf
  <2>3. \A j \in About(n) : j <= i => Before(Status(log[j]), Status(e))
    BY <2>1 DEF BrowserInv, LogInv
  <2>4. PICK t \in RowState \ {"pending"} : t = Status(e)
    BY <2>2
  <2>5. /\ view'.nodes[n] = Shown(t) /\ Before(t, nodeStatus[n])
        /\ \A j \in About(n) : j <= i => Before(Status(log[j]), t)
    BY <1>2, <1>3, <2>2, <2>3, <2>4
  <2>6. Shows(n, t)'
    BY <1>1, <2>5 DEF Shows, Covers, About, NodeEvents, Before, Status, Shown
  <2> QED
    BY <2>6
<1>4. CASE e \notin NodeEvents(n)
  <2>1. \A j \in About(n) : j <= i => Before(Status(log[j]), s)
    <3>1. \A j \in About(n) : j <= i => j <= position
      BY <1>4, LogSays, BrowserFacts
    <3> QED
      BY <3>1 DEF Shows, Covers
  <2>2. Shows(n, s)'
    BY <1>1, <1>2, <1>4, <2>1 DEF Shows, Covers, About, NodeEvents, Before, Status, Shown
  <2> QED
    BY <2>2
<1> QED
  BY <1>3, <1>4

LEMMA StreamShown == ASSUME BrowserInv, Stream PROVE ShownInv'
<1> DEFINE i == position + 1
<1>1. link = "streaming" /\ Live
  BY DEF Stream, BrowserInv, ShownInv
<1>2. i \in DOMAIN log /\ position < Len(log)
  BY <1>1, DeliverFacts, BrowserFacts DEF Stream
<1>3. CASE IsTerminalEvent(log[i])
  <2>1. Deliver("ended")
    BY <1>2, <1>3 DEF Stream
  <2>2. i = Len(log)
    BY <1>2, <1>3 DEF BrowserInv, LogInv
  <2>3. /\ link' = "ended" /\ view' = ApplyEvent(view, log[i])
        /\ UNCHANGED <<runStatus, nodeStatus, faults>>
    BY <1>1, <2>1, DeliverFacts
  <2>4. runStatus \in Terminal
    BY <1>2, <1>3 DEF BrowserInv, FollowInv, VerdictInv, IsTerminalEvent, Terminal
  <2>5. ASSUME NEW n \in Node
        PROVE  \E s \in RowState : /\ view.nodes[n] = Shown(s) /\ Before(s, nodeStatus[n])
                                   /\ Covers(n, s, Len(log))
    <3>1. PICK s \in RowState : Shows(n, s)
      BY <1>1 DEF Live
    <3>2. i \notin About(n)
      BY <1>3 DEF About, NodeEvents, IsTerminalEvent
    <3>3. \A j \in About(n) : j <= Len(log) => j <= position
      BY <2>2, <3>2, LogSays, BrowserFacts
    <3> QED
      BY <3>1, <3>3 DEF Shows, Covers
  <2>6. Told'
    BY <1>2, <1>3, <2>2, <2>3, <2>4, <2>5, ClosedIsTold
  <2> QED
    BY <2>3, <2>4, <2>6 DEF ShownInv, Told
<1>4. CASE ~ IsTerminalEvent(log[i])
  <2>1. Deliver("streaming")
    BY <1>4 DEF Stream
  <2>2. /\ link' = "streaming" /\ position' = i /\ log' = log
    BY <1>1, <2>1, DeliverFacts
  <2>3. \A n \in Node : \E s \in RowState : Shows(n, s)'
    BY <1>1, <1>4, <2>1, DeliverShows DEF Live
  <2>4. \A j \in DOMAIN log : j <= i => ~ IsTerminalEvent(log[j])
    <3>1. \A j \in DOMAIN log : j <= i => j = i \/ j <= position
      BY BrowserFacts
    <3> QED
      BY <1>1, <1>4, <3>1 DEF Live, OpenUpTo
  <2>5. Live'
    BY <2>2, <2>3, <2>4
    DEF Live, OpenUpTo, IsTerminalEvent, Shows, Covers, About, NodeEvents, Before, Status,
        Shown, RowState
  <2> QED
    BY <2>2, <2>5 DEF ShownInv
<1> QED
  BY <1>3, <1>4

LEMMA ReplayShown == ASSUME BrowserInv, Replay PROVE ShownInv'
<1> DEFINE i == position + 1
<1>1. /\ link = "replaying" /\ Deliver("replaying")
      /\ runStatus \in Terminal /\ view.status = runStatus
      /\ Replayed \/ (Told /\ ~ OpenUpTo(position))
      /\ \A n \in Node : \A j \in About(n) : j <= last
  BY DEF Replay, BrowserInv, ShownInv
<1>2. /\ i \in DOMAIN log /\ position' = i /\ link' = "replaying"
      /\ view' = ApplyEvent(view, log[i]) /\ log[i] \in Event \cup {<<"run.queued", None>>}
      /\ UNCHANGED <<log, last, runStatus, nodeStatus, faults>>
  BY <1>1, DeliverFacts
\* Nothing follows the terminal event.
<1>3. OpenUpTo(position) /\ Replayed
  <2>1. \A j \in DOMAIN log : j <= position => j # Len(log)
    BY <1>2, BrowserFacts
  <2> QED
    BY <1>1, <2>1 DEF OpenUpTo, BrowserInv, LogInv
<1>4. view'.status = runStatus
  <2>1. view \in View
    BY BrowserFacts
  <2>2. FollowInv /\ TerminalViewIsTrue
    BY DEF BrowserInv, FollowInv, VerdictInv
  <2>3. CASE IsTerminalEvent(log[i])
    <3>1. log[i][1] = IF runStatus = "completed" THEN "run.completed" ELSE "run.failed"
      BY <1>1, <1>2, <2>3 DEF BrowserInv, FollowInv, VerdictInv, IsTerminalEvent, Terminal
    <3>2. \E r, q : view' = Close(view, runStatus, r, q)
      BY <1>1, <1>2, <3>1 DEF ApplyEvent, Terminal
    <3> QED
      BY <1>1, <3>2 DEF Close, Advance
  <2>4. CASE ~ IsTerminalEvent(log[i])
    <3>1. \A x : Advance(view.status, x) = view.status
      BY <1>1 DEF Advance
    <3>2. log[i][1] \in {"run.queued", "run.started", "node.started", "node.completed",
                         "node.failed", "artifact.created"}
      BY <1>2, <2>4 DEF IsTerminalEvent, Event
    <3>3. \/ view' = [view EXCEPT !.status = view.status]
          \/ \E x : view' = [view EXCEPT !.nodes[log[i][2]] = x]
          \/ view' = view
      BY <1>2, <3>1, <3>2 DEF ApplyEvent, FailNodeShown
    <3> QED
      BY <1>1, <2>1, <3>3 DEF View
  <2> QED
    BY <2>3, <2>4
<1>5. CASE IsTerminalEvent(log[i])
  <2>1. i = Len(log)
    BY <1>2, <1>5 DEF BrowserInv, LogInv
  <2>2. ASSUME NEW n \in Node
        PROVE  \E s \in RowState : /\ view.nodes[n] = Shown(s) /\ Before(s, nodeStatus[n])
                                   /\ Covers(n, s, Len(log))
    <3>1. PICK s \in RowState : Shows(n, s)
      BY <1>3 DEF Replayed
    <3>2. i \notin About(n)
      BY <1>5 DEF About, NodeEvents, IsTerminalEvent
    <3>3. \A j \in About(n) : j <= Len(log) => j <= position
      BY <2>1, <3>2, LogSays, BrowserFacts
    <3> QED
      BY <3>1, <3>3 DEF Shows, Covers
  <2>3. Told'
    BY <1>1, <1>2, <1>5, <2>1, <2>2, ClosedIsTold
  <2>4. ~ OpenUpTo(position)'
    BY <1>2, <1>5, BrowserFacts DEF OpenUpTo, IsTerminalEvent
  <2> QED
    BY <1>1, <1>2, <1>4, <2>3, <2>4 DEF ShownInv, About, NodeEvents
<1>6. CASE ~ IsTerminalEvent(log[i])
  <2>1. ASSUME NEW n \in Node PROVE \E t \in RowState \ {"pending"} : Shows(n, t)'
    <3>1. PICK s \in RowState \ {"pending"} : Shows(n, s)
      BY <1>3 DEF Replayed
    <3> QED
      BY <1>1, <1>6, <3>1, DeliverShows
  <2>2. Replayed'
    BY <2>1 DEF Replayed, Shows, Covers, About, NodeEvents, Before, Status, Shown, RowState
  <2> QED
    BY <1>1, <1>2, <1>4, <2>2 DEF ShownInv, About, NodeEvents
<1> QED
  BY <1>5, <1>6

LEMMA ReadRowsShown == ASSUME BrowserInv, ReadRows PROVE ShownInv'
<1>1. /\ link' = "answered" /\ snapshot' = [run |-> runStatus, nodes |-> nodeStatus]
      /\ UNCHANGED <<log, after, runStatus, nodeStatus>>
  BY DEF ReadRows, client, vars, rows
<1>2. \A n \in Node : Before(nodeStatus[n], nodeStatus[n]) /\ Covers(n, nodeStatus[n], after)
  BY LogSays DEF Covers, Before
<1>3. runStatus \notin Terminal => OpenUpTo(after)
  BY DEF BrowserInv, FollowInv, VerdictInv, OpenUpTo, IsTerminalEvent, Terminal
<1>4. Fresh'
  BY <1>1, <1>2, <1>3
  DEF Fresh, Covers, OpenUpTo, IsTerminalEvent, About, NodeEvents, Before, Status, Terminal
<1> QED
  BY <1>1, <1>4 DEF ShownInv

\* A snapshot is shown as it is, however old the view before.
LEMMA TakeSnapshotShown == ASSUME BrowserInv, TakeSnapshot PROVE ShownInv'
<1>1. /\ Fresh /\ position' = after
      /\ view' = ApplySnapshot(view, snapshot)
      /\ link' = IF snapshot.run \in Terminal THEN "ranging" ELSE "streaming"
      /\ UNCHANGED <<log, runStatus, nodeStatus>>
  BY DEF TakeSnapshot, StartOf, BrowserInv, ShownInv, vars, rows
<1>2. snapshot \in [run : RunState, nodes : [Node -> RowState]]
  BY BrowserFacts DEF TakeSnapshot
<1>3. \A n \in Node : view'.nodes[n] = Shown(snapshot.nodes[n])
  BY <1>1 DEF ApplySnapshot
<1>4. ASSUME NEW n \in Node
      PROVE  \E s \in RowState : s = snapshot.nodes[n] /\ Shows(n, s)'
  <2>1. PICK s \in RowState : s = snapshot.nodes[n]
    BY <1>2
  <2>2. Shows(n, s)'
    BY <1>1, <1>3, <2>1 DEF Fresh, Shows, Covers, About, NodeEvents, Before, Status, Shown
  <2> QED
    BY <2>1, <2>2
<1>5. CASE snapshot.run \in Terminal
  <2>1. runStatus = snapshot.run /\ snapshot.nodes = nodeStatus
    BY <1>1, <1>5 DEF TakeSnapshot, BrowserInv, FollowInv, VerdictInv, Fresh
  <2>2. \A n \in Node : nodeStatus[n] # "pending"
    BY <1>5, <2>1 DEF BrowserInv, RunInv, IInv, MainInv, OutputInv, FailedRunIsSettled,
       Settled, Terminal
  <2>3. \A n \in Node : \E s \in RowState \ {"pending"} : Shows(n, s)'
    BY <1>4, <2>1, <2>2
  <2>4. Replayed'
    BY <2>3 DEF Replayed, Shows, Covers, About, NodeEvents, Before, Status, Shown, RowState
  <2>5. view.status \in Terminal => view.status = runStatus
    BY DEF BrowserInv, FollowInv, VerdictInv, TerminalViewIsTrue
  <2>6. view'.status = runStatus
    BY <1>1, <1>5, <2>1, <2>5 DEF ApplySnapshot, Advance, Terminal
  <2> QED
    BY <1>1, <1>5, <2>1, <2>4, <2>6 DEF ShownInv
<1>6. CASE snapshot.run \notin Terminal
  <2>1. OpenUpTo(after)
    BY <1>1, <1>6 DEF Fresh
  <2>2. Live'
    BY <1>1, <1>4, <2>1
    DEF Live, OpenUpTo, IsTerminalEvent, Shows, Covers, About, NodeEvents, Before, Status,
        Shown, RowState
  <2> QED
    BY <1>1, <1>6, <2>2 DEF ShownInv
<1> QED
  BY <1>5, <1>6

LEMMA ReadAvailableShown == ASSUME BrowserInv, ReadAvailable PROVE ShownInv'
<1>1. /\ link = "ranging" /\ link' = "replaying" /\ last' = Len(log)
      /\ UNCHANGED <<log, position, view, runStatus, nodeStatus, faults>>
  BY DEF ReadAvailable, client, vars, rows
<1>2. /\ runStatus \in Terminal /\ view.status = runStatus
      /\ Replayed \/ (Told /\ ~ OpenUpTo(position))
  BY <1>1 DEF BrowserInv, ShownInv
<1>3. Replayed' \/ (Told' /\ ~ OpenUpTo(position)')
  BY <1>1, <1>2 DEF Replayed, Shows, Covers, Told, OpenUpTo, IsTerminalEvent, About,
     NodeEvents, Before, Status, Shown, RowState
<1>4. \A n \in Node : \A j \in About(n) : j <= Len(log)
  BY LogSays, BrowserFacts
<1> QED
  BY <1>1, <1>2, <1>3, <1>4 DEF ShownInv, About, NodeEvents

LEMMA FinishShown == ASSUME BrowserInv, Finish PROVE ShownInv'
<1>1. /\ link' = "finished"
      /\ UNCHANGED <<view, runStatus, nodeStatus, faults>>
  BY DEF Finish, vars, rows
<1>2. link = "ended" \/ (link = "replaying" /\ position >= last)
  BY DEF Finish
<1>3. runStatus \in Terminal /\ view.status = runStatus
  BY <1>2 DEF BrowserInv, ShownInv
<1>4. Told
  <2>1. CASE link = "ended"
    BY <2>1 DEF BrowserInv, ShownInv
  <2>2. CASE link = "replaying" /\ position >= last
    <3>1. \A n \in Node : \A j \in About(n) : j <= position
      BY <2>2, LogSays, BrowserFacts DEF BrowserInv, ShownInv
    <3>2. Replayed \/ Told
      BY <2>2 DEF BrowserInv, ShownInv
    <3> QED
      BY <1>3, <3>1, <3>2, ReplayedIsTold
  <2> QED
    BY <1>2, <2>1, <2>2
<1>5. Told'
  BY <1>1, <1>4 DEF Told, Shown
<1> QED
  BY <1>1, <1>3, <1>5 DEF ShownInv

LEMMA SameShown ==
    ASSUME BrowserInv, UNCHANGED followVars
    PROVE  NewsInv' /\ LogInv' /\ ShownInv'
BY DEF BrowserInv, NewsInv, LogInv, ShownInv, followVars, vars, rows, control, connection,
   client, About, NodeEvents, Status, Before, IsTerminalEvent, Fresh, Live, Replayed, Told,
   Covers, OpenUpTo, Shows, Shown, Terminal, RowState

\* The handler, the browser, cuts and reloads.
LEMMA FollowShown ==
    ASSUME BrowserInv, Follow \/ Keepalive \/ Cut \/ Reload \/ Rest
    PROVE  RunInv' /\ NewsInv' /\ LogInv' /\ ShownInv'
<1>1. UNCHANGED <<vars, log>>
  BY DEF Follow, ReadRows, TakeSnapshot, ReadAvailable, Stream, Replay, Deliver,
     Finish, Keepalive, followVars, Cut, Reload, Rest, Over
<1>2. RunInv'
  BY <1>1, RunStep DEF BrowserInv
<1>3. NewsInv' /\ LogInv'
  BY <1>1 DEF BrowserInv, NewsInv, LogInv, vars, rows, control, About, NodeEvents, Status,
     Before, IsTerminalEvent
<1>4. ASSUME Follow PROVE ShownInv'
  BY <1>4, ReadRowsShown, TakeSnapshotShown, ReadAvailableShown, StreamShown, ReplayShown,
     FinishShown DEF Follow
<1>5. ASSUME Cut \/ Reload PROVE ShownInv'
  <2>1. link' = "requesting"
    BY <1>5 DEF Cut, Reload
  <2> QED
    BY <2>1 DEF ShownInv
<1>6. ASSUME Keepalive \/ Rest PROVE ShownInv'
  <2>1. UNCHANGED followVars
    BY <1>1, <1>6 DEF Keepalive, Rest, followVars
  <2> QED
    BY <2>1, SameShown
<1> QED
  BY <1>2, <1>3, <1>4, <1>5, <1>6

-----------------------------------------------------------------------------
(***************************************************************************)
(* The theorems.                                                           *)
(***************************************************************************)

LEMMA BrowserStep == BrowserInv /\ [FollowNext]_followVars => BrowserInv'
<1> SUFFICES ASSUME BrowserInv, [FollowNext]_followVars PROVE BrowserInv'
  OBVIOUS
<1>1. FollowInv'
  BY FollowStep DEF BrowserInv
<1>2. CASE Run
  BY <1>1, <1>2, RunMoves, LogStep, RunShown DEF BrowserInv
<1>3. CASE Follow \/ Keepalive \/ Cut \/ Reload \/ Rest
  BY <1>1, <1>3, FollowShown DEF BrowserInv
<1>4. CASE UNCHANGED followVars
  <2>1. RunInv'
    BY <1>4, RunStep DEF BrowserInv, followVars
  <2> QED
    BY <1>1, <1>4, <2>1, SameShown DEF BrowserInv
<1> QED
  BY <1>2, <1>3, <1>4 DEF FollowNext

\* The invariant behind what a view shows.
THEOREM BrowserInvariant == FollowSpec => []BrowserInv
<1>1. FollowInit => BrowserInv
  <2> SUFFICES ASSUME FollowInit PROVE BrowserInv
    OBVIOUS
  <2>1. RunInv /\ FollowInv
    BY InitRun, FollowStart DEF FollowInit
  <2>2. /\ log = << <<"run.queued", None>> >> /\ events = {}
        /\ link = "requesting" /\ runStatus = "pending" /\ main = "idle"
        /\ \A n \in Node : nodeStatus[n] = "pending"
    BY DEF FollowInit, Init
  <2>3. NewsInv
    BY <2>2 DEF NewsInv
  <2>4. LogInv
    BY <2>2 DEF LogInv, About, NodeEvents, IsTerminalEvent
  <2>5. ShownInv
    BY <2>2 DEF ShownInv
  <2> QED
    BY <2>1, <2>3, <2>4, <2>5 DEF BrowserInv
<1> QED
  BY <1>1, BrowserStep, PTL DEF FollowSpec

\* A live view that has caught up with the stream shows the rows, in spite of
\* the snapshot that was newer than the events after it.
THEOREM CaughtUpViewIsCurrentHolds == FollowSpec => []CaughtUpViewIsCurrent
<1>1. BrowserInv => CaughtUpViewIsCurrent
  <2> SUFFICES ASSUME BrowserInv, link = "streaming", position = Len(log),
                      NEW n \in Node, InStep(n)
               PROVE  view.nodes[n] = Shown(nodeStatus[n])
    BY DEF CaughtUpViewIsCurrent
  <2>1. PICK s \in RowState : Shows(n, s)
    BY DEF BrowserInv, ShownInv, Live
  <2>2. nodeStatus[n] \in RowState
    BY BrowserFacts
  <2>3. \A j \in About(n) : Before(Status(log[j]), s)
    BY <2>1, LogSays, BrowserFacts DEF Shows, Covers
  <2>4. \A e \in events \cap NodeEvents(n) : Before(Status(e), s)
    BY <2>3, InLog
  <2>5. Before(nodeStatus[n], s)
    <3>1. CASE nodeStatus[n] = "pending"
      BY <3>1 DEF Before
    <3>2. CASE nodeStatus[n] # "pending"
      <4>1. \E e \in events \cap NodeEvents(n) : Status(e) = nodeStatus[n]
        BY <3>2, StatusOf DEF InStep, NodeEvents
      <4> QED
        BY <2>4, <4>1
    <3> QED
      BY <3>1, <3>2
  <2>6. s = nodeStatus[n]
    BY <2>1, <2>2, <2>5, BeforeOrder DEF Shows
  <2> QED
    BY <2>1, <2>6 DEF Shows
<1> QED
  BY <1>1, BrowserInvariant, PTL

\* What the browser shows of a run it is done with is true.
THEOREM FinishedViewIsTrueHolds == FollowSpec => []FinishedViewIsTrue
<1>1. BrowserInv => FinishedViewIsTrue
  BY DEF BrowserInv, ShownInv, FinishedViewIsTrue
<1> QED
  BY <1>1, BrowserInvariant, PTL

=============================================================================
