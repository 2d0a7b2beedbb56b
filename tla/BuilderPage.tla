----------------------------- MODULE BuilderPage -----------------------------
(***************************************************************************)
(* The builder page: the canvas of useBuilder, its draft in localStorage   *)
(* and the run of usePipelineRun (RunHook), which BuilderCanvas puts       *)
(* together.  The graph can be edited while no run is active; 800 ms after *)
(* the last change the draft is written; each mount restores the draft and *)
(* the stored run independently of each other.                             *)
(***************************************************************************)
EXTENDS RunHook, Canvas

CONSTANTS
    Drafts,    \* what an earlier visit left in localStorage
    Demo,      \* the graph of a demo
    MaxEdits   \* bound: edits

\* Groups contain blocks that exist, edges join them, at most one at an input,
\* and only edges and groups that exist are shown as skipped.
Sound(g) ==
    /\ \A b \in Blocks : g.parent[b] # None => b \in BlocksOf(g) /\ g.parent[b] \in g.groups
    /\ \A e \in g.edges : e[1] # e[2] /\ {e[1], e[2]} \subseteq BlocksOf(g)
    /\ \A e, f \in g.edges : e[2] = f[2] /\ e[3] = f[3] => e = f
    /\ g.dim \subseteq g.edges /\ g.skipped \subseteq g.groups

ASSUME PageAssumption ==
    /\ None \notin Configs \cup Groups /\ None \notin Graphs
    /\ \A d \in Drafts \ {None} : d \in Graphs /\ Sound(d)
    /\ Demo \in Graphs /\ Sound(Demo)
    /\ MaxEdits \in Nat

VARIABLES
    canvas,     \* nodes and edges of the mounted builder
    draft,      \* the draft in localStorage
    timer,      \* the autosave is due
    submitted,  \* the graph of each submission
    edits,
    excused     \* history: why the page may show a run on another graph

page == <<canvas, draft, timer, submitted, edits, excused>>
pageVars == <<vars, page>>

PageInit ==
    /\ Init
    /\ canvas = Empty
    /\ draft \in Drafts
    /\ timer = FALSE
    /\ submitted = [s \in Runs |-> ValidationGraph(Empty)]
    /\ edits = 0
    /\ excused = FALSE

-----------------------------------------------------------------------------
\* Mutant: the configuration forms are not locked.
MutMayEdit == mount # Nobody

\* The handlers of BuilderCanvas refuse edits while a run is active.
MayEdit == mount # Nobody /\ view.status \notin Active

\* An edit between a run's verdict and the end of its stream: the run is still
\* the stored one.
Edit(g) ==
    /\ MayEdit
    /\ edits < MaxEdits
    /\ edits' = edits + 1
    /\ canvas' = g
    /\ timer' = TRUE
    /\ excused' = (excused \/ following[mount] # NoRun)
    /\ UNCHANGED <<vars, draft, submitted>>

Connect ==
    \E s, t \in Blocks, p \in Ports :
        IsValidNodeConnection(canvas, s, t, p) /\ Edit(Connected(canvas, s, t, p))

AddNode ==
    \E b \in Blocks \ BlocksOf(canvas), c \in Configs : Edit(Configured(canvas, b, c))

UpdateNodeConfig ==
    \E b \in BlocksOf(canvas), c \in Configs : Edit(Configured(canvas, b, c))

GroupNodes ==
    \E S \in SUBSET BlocksOf(canvas), group \in Groups \ canvas.groups :
        Cardinality(S) >= 2 /\ Edit(CreateGroups(canvas, group, S))

ChangeGroup ==
    \E group \in canvas.groups :
        \/ Edit(Ungrouped(canvas, group))
        \/ Edit(Suspended(canvas, group))
        \/ Edit(GroupDeleted(canvas, group))

Delete ==
    \/ \E b \in BlocksOf(canvas) : Edit(Without(canvas, {b}))
    \/ \E e \in canvas.edges : Edit(Disconnected(canvas, e))

Edits == Connect \/ AddNode \/ UpdateNodeConfig \/ GroupNodes \/ ChangeGroup \/ Delete

\* saveLocal
Autosave ==
    /\ timer
    /\ draft' = Serialized(canvas)
    /\ timer' = FALSE
    /\ UNCHANGED <<vars, canvas, submitted, edits, excused>>

-----------------------------------------------------------------------------
(* The steps of the hook.  A change of the nodes' statuses is a change of    *)
(* the nodes, and starts the autosave's delay again.                         *)

\* isValid: no cycle; that the blocks' rules hold is left open.
Submit ==
    /\ Acyclic(ValidationGraph(canvas))
    /\ Execute
    /\ submitted' = [submitted EXCEPT ![submits + 1] = ValidationGraph(canvas)]
    /\ timer' = TRUE
    /\ UNCHANGED <<canvas, draft, edits, excused>>

\* The API accepts no empty graph.
Answer ==
    /\ \E s \in Runs :
         \/ DOMAIN submitted[s].nodes # {} /\ Accept(s)
         \/ Reject(s)
    /\ timer' \in {timer, mount # Nobody}
    /\ UNCHANGED <<canvas, draft, submitted, edits, excused>>

Stream ==
    /\ \E m \in Mounts : Event(m) \/ Finish(m) \/ Refuse(m)
    /\ timer' \in {timer, mount # Nobody}
    /\ UNCHANGED <<canvas, draft, submitted, edits, excused>>

\* PipelineRunPanel's button, or a demo, which replaces the graph.
ResetRun ==
    /\ Reset
    /\ \/ UNCHANGED canvas
       \/ canvas' = Demo
    /\ timer' = TRUE
    /\ UNCHANGED <<draft, submitted, edits, excused>>

\* The mount effect of useBuilder.
RestoreDraft ==
    /\ canvas' = Deserialized(draft)
    /\ timer' = TRUE
    /\ UNCHANGED <<draft, submitted, edits>>

Unsaved == mount # Nobody /\ Deserialized(draft) # canvas

Visit ==
    /\ Enter
    /\ RestoreDraft
    /\ UNCHANGED excused

ReloadPage ==
    /\ Reload
    /\ RestoreDraft
    /\ excused' = (excused \/ Unsaved)

\* The delay is cancelled, not ended: the last edits are lost.
LeavePage ==
    /\ Leave
    /\ canvas' = Empty
    /\ timer' = FALSE
    /\ excused' = (excused \/ Unsaved \/ \E s \in Runs : posts[s] # Nobody)
    /\ UNCHANGED <<draft, submitted, edits>>

PageNext ==
    \/ Edits \/ Autosave
    \/ Submit \/ Answer \/ Stream \/ ResetRun
    \/ Visit \/ ReloadPage \/ LeavePage

PageSpec == PageInit /\ [][PageNext]_pageVars

-----------------------------------------------------------------------------
\* The statuses of a run are shown on the graph that was submitted: while the
\* page shows a run in progress, across loads and visits, the canvas holds the
\* blocks, configurations and edges that the worker executes - unless the page
\* was left before the last edit was saved or a submission was answered.
RunGraphShown ==
    ~ excused /\ mount # Nobody /\ view.status \in {"pending", "running"}
        => ValidationGraph(canvas) = submitted[view.run]

\* Whatever was connected, grouped and deleted, the page submits only graphs
\* whose edges join two of their blocks, without a cycle and with at most one
\* edge at an input: the worker would let one of two values overwrite the other.
SubmittedIsWellFormed == \A s \in Runs : WellFormed(submitted[s])

PageTypeOK ==
    /\ TypeOK
    /\ canvas \in Graphs /\ draft \in Graphs \cup {None}
    /\ timer \in BOOLEAN /\ excused \in BOOLEAN
    /\ edits \in 0..MaxEdits

\* What is drawn and what is saved stays such a graph; without a mount nothing
\* is drawn and no autosave is due.
CanvasInv ==
    /\ PageTypeOK
    /\ Sound(canvas) /\ Sound(Deserialized(draft))
    /\ mount = Nobody => canvas = Empty /\ ~ timer

\* What the next mount of this page load, or the present one, draws.
Drawn == IF mount = Nobody THEN Deserialized(draft) ELSE canvas

\* Why the run is shown on its graph: until the page is excused, only the
\* mounted builder follows a run or awaits an answer, a stored run is followed
\* unless a new one is submitted, and both have the graph that is drawn.
OneGraph ==
    ~ excused =>
        /\ \A m \in Mounts : m # mount => following[m] = NoRun
        /\ \A s \in Runs : posts[s] # Nobody =>
              posts[s] = mount /\ submitted[s] = ValidationGraph(Drawn)
        /\ mount # Nobody => following[mount] \in {NoRun, stored}
        /\ mount # Nobody /\ stored # NoRun /\ following[mount] = NoRun =>
              view.status = "submitting"
        /\ stored # NoRun => submitted[stored] = ValidationGraph(Drawn)

\* The inductive invariant.
PageInv ==
    /\ HookInv
    /\ CanvasInv
    /\ submitted = [s \in Runs |-> submitted[s]]
    /\ SubmittedIsWellFormed
    /\ OneGraph
=============================================================================
