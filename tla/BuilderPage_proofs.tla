-------------------------- MODULE BuilderPage_proofs --------------------------
(***************************************************************************)
(* Proofs about the builder page, for any blocks, groups, configurations,  *)
(* edits, submissions, mounts and departures.  The hook comes first:       *)
(* HookInv is inductive, and what the builder shows is what it follows.    *)
(* Then the page: it takes the hook's steps only, what it draws and        *)
(* submits is well formed, and a run in progress is shown on the graph     *)
(* that was submitted.                                                     *)
(***************************************************************************)
EXTENDS BuilderPage, TLAPS

USE HookAssumption DEF Runs, Mounts, NoRun, Nobody, Idle, Active

\* Nothing is shown, followed or awaited at first.
LEMMA InitHook == Init => HookInv
BY DEF Init, HookInv, OneMount, TypeOK, ShownRunIsFollowed, RefusedFollowsNothing

\* Until the page is left, what is followed and awaited is the mounted
\* builder's, and every action keeps what it follows stored.
LEMMA OneMountStep == HookInv /\ Next => OneMount'
<1> SUFFICES ASSUME HookInv, Next, leaves' = 0 PROVE OneMount'
    BY DEF OneMount
<1> USE DEF HookInv, OneMount, TypeOK, Follow, counters
<1>0. leaves = 0
  <2>1. CASE Leave
      BY <2>1 DEF Leave
  <2>2. CASE Execute \/ Reset \/ Enter \/ Reload
      BY <2>2 DEF Execute, Reset, Enter, Reload
  <2>3. CASE \E s \in Runs : Accept(s) \/ Reject(s)
      BY <2>3 DEF Accept, Reject
  <2>4. CASE \E m \in Mounts : Event(m) \/ Finish(m) \/ Refuse(m)
      BY <2>4 DEF Event, Finish, Refuse
  <2> QED
      BY <2>1, <2>2, <2>3, <2>4 DEF Next
<1>1. CASE Execute
    BY <1>0, <1>1 DEF Execute, MayExecute
<1>2. CASE Reset
    BY <1>0, <1>2 DEF Reset
<1>3. CASE Enter \/ Reload
  <2> USE DEF Restore
  <2>1. mounts + 1 \in Mounts /\ mount' = mounts + 1 /\ mounts' = mounts + 1
      BY <1>3 DEF Enter, Reload
  <2>2. \A m \in Mounts : m # mount' => following'[m] = NoRun
    <3>1. CASE Enter
      <4>1. \A m \in Mounts : following[m] = NoRun
          BY <1>0, <3>1 DEF Enter
      <4> QED
          BY <2>1, <3>1, <4>1 DEF Enter
    <3>2. CASE Reload
        BY <2>1, <3>2 DEF Reload
    <3> QED
        BY <1>3, <3>1, <3>2
  <2>3. following'[mount'] = stored' /\ stored' = stored
      BY <1>3, <2>1 DEF Enter, Reload
  <2>4. \A s \in Runs : posts'[s] \in {Nobody, mount'}
      BY <1>0, <1>3 DEF Enter, Reload
  <2> QED
      BY <2>1, <2>2, <2>3, <2>4
<1>4. CASE Leave
    BY <1>0, <1>4 DEF Leave
<1>5. ASSUME NEW s \in Runs, Accept(s) PROVE OneMount'
    BY <1>0, <1>5 DEF Accept, FollowAccepted, StoredAtAccept
<1>6. ASSUME NEW s \in Runs, Reject(s) PROVE OneMount'
    BY <1>0, <1>6 DEF Reject
<1>7. ASSUME NEW m \in Mounts, Event(m) PROVE OneMount'
    BY <1>0, <1>7 DEF Event
<1>8. ASSUME NEW m \in Mounts, Finish(m) PROVE OneMount'
    BY <1>0, <1>8 DEF Finish, Forget
<1>9. ASSUME NEW m \in Mounts, Refuse(m) PROVE OneMount'
    BY <1>0, <1>9 DEF Refuse, Forget
<1> QED
    BY <1>1, <1>2, <1>3, <1>4, <1>5, <1>6, <1>7, <1>8, <1>9 DEF Next

\* execute(): nothing was followed by a mount that awaited an answer, and none
\* awaits one when it submits.
LEMMA ExecuteHook == HookInv /\ Execute => HookInv'
<1> SUFFICES ASSUME HookInv, Execute PROVE HookInv'
    OBVIOUS
<1>0. OneMount'
    BY OneMountStep DEF Next
<1> USE DEF HookInv, Execute, MayExecute, Follow
<1>1. mount \in Mounts /\ submits + 1 \in Runs
    BY DEF TypeOK
<1>2. TypeOK'
    BY <1>1 DEF TypeOK
<1>3. ShownRunIsFollowed' /\ RefusedFollowsNothing'
    BY DEF TypeOK, ShownRunIsFollowed, RefusedFollowsNothing
<1>4. \A s \in Runs : posts'[s] = IF s = submits + 1 THEN mount ELSE posts[s]
    BY <1>1 DEF TypeOK
<1>5. \A s \in Runs : posts[s] # mount
    OBVIOUS
<1>6. \A s \in Runs : s > submits' => posts'[s] = Nobody
    BY <1>4 DEF TypeOK
<1>7. \A s \in Runs : posts'[s] = mount' => s = submits + 1
    BY <1>4, <1>5
<1>8. view'.status = "submitting" /\ following'[mount'] = NoRun
    BY <1>1 DEF TypeOK
<1>9. \A m \in Mounts : m > mounts' => following'[m] = NoRun
    BY <1>1 DEF TypeOK
<1> QED
    BY <1>0, <1>2, <1>3, <1>6, <1>7, <1>8, <1>9

\* The answer of a mount that is gone changes what that mount follows only.
LEMMA AcceptHook == ASSUME NEW s \in Runs PROVE HookInv /\ Accept(s) => HookInv'
<1> SUFFICES ASSUME HookInv, Accept(s) PROVE HookInv'
    OBVIOUS
<1>0. OneMount'
    BY OneMountStep DEF Next
<1> USE DEF HookInv, Accept, Show, Follow, FollowAccepted, StoredAtAccept, counters
<1>1. posts[s] \in Mounts /\ posts[s] <= mounts
    BY DEF TypeOK
<1>2. TypeOK'
    BY <1>1 DEF TypeOK
<1>3. ShownRunIsFollowed' /\ RefusedFollowsNothing'
    BY <1>1 DEF TypeOK, ShownRunIsFollowed, RefusedFollowsNothing
<1> QED
    BY <1>0, <1>1, <1>2, <1>3 DEF TypeOK

LEMMA RejectHook == ASSUME NEW s \in Runs PROVE HookInv /\ Reject(s) => HookInv'
<1> SUFFICES ASSUME HookInv, Reject(s) PROVE HookInv'
    OBVIOUS
<1>0. OneMount'
    BY OneMountStep DEF Next
<1> USE DEF HookInv, Reject, Show, counters
<1>1. TypeOK'
  <2>1. view.run \in Runs \cup {NoRun} /\ view = [run |-> view.run, status |-> view.status]
      BY DEF TypeOK
  <2>2. view' \in {view, [run |-> view.run, status |-> "refused"]}
      BY <2>1
  <2> QED
      BY <2>1, <2>2 DEF TypeOK
<1>2. ShownRunIsFollowed' /\ RefusedFollowsNothing'
    BY DEF TypeOK, ShownRunIsFollowed, RefusedFollowsNothing
<1> QED
    BY <1>0, <1>1, <1>2 DEF TypeOK

\* An event, a verdict or a refusal comes to a mount that follows a run, which
\* therefore awaits no answer.
LEMMA EventHook == ASSUME NEW m \in Mounts PROVE HookInv /\ Event(m) => HookInv'
<1> SUFFICES ASSUME HookInv, Event(m) PROVE HookInv'
    OBVIOUS
<1>0. OneMount'
    BY OneMountStep DEF Next
<1> USE DEF HookInv, Event, Show, counters
<1>1. TypeOK'
    BY DEF TypeOK
<1>2. ShownRunIsFollowed' /\ RefusedFollowsNothing'
    BY DEF TypeOK, ShownRunIsFollowed, RefusedFollowsNothing
<1> QED
    BY <1>0, <1>1, <1>2 DEF TypeOK

LEMMA FinishHook == ASSUME NEW m \in Mounts PROVE HookInv /\ Finish(m) => HookInv'
<1> SUFFICES ASSUME HookInv, Finish(m) PROVE HookInv'
    OBVIOUS
<1>0. OneMount'
    BY OneMountStep DEF Next
<1> USE DEF HookInv, Finish, Show, Follow, Forget, counters
<1>1. TypeOK'
    BY DEF TypeOK
<1>2. ShownRunIsFollowed' /\ RefusedFollowsNothing'
    BY DEF TypeOK, ShownRunIsFollowed, RefusedFollowsNothing
<1> QED
    BY <1>0, <1>1, <1>2 DEF TypeOK

LEMMA RefuseHook == ASSUME NEW m \in Mounts PROVE HookInv /\ Refuse(m) => HookInv'
<1> SUFFICES ASSUME HookInv, Refuse(m) PROVE HookInv'
    OBVIOUS
<1>0. OneMount'
    BY OneMountStep DEF Next
<1> USE DEF HookInv, Refuse, Show, Follow, Forget, counters
<1>1. TypeOK'
    BY DEF TypeOK
<1>2. ShownRunIsFollowed' /\ RefusedFollowsNothing'
    BY DEF TypeOK, ShownRunIsFollowed, RefusedFollowsNothing
<1> QED
    BY <1>0, <1>1, <1>2 DEF TypeOK

\* A result is cleared only when none is awaited.
LEMMA ResetHook == HookInv /\ Reset => HookInv'
<1> SUFFICES ASSUME HookInv, Reset PROVE HookInv'
    OBVIOUS
<1>0. OneMount'
    BY OneMountStep DEF Next
<1> USE DEF HookInv, Reset, Follow, counters
<1>1. TypeOK'
    BY DEF TypeOK
<1>2. ShownRunIsFollowed' /\ RefusedFollowsNothing'
    BY DEF TypeOK, ShownRunIsFollowed, RefusedFollowsNothing
<1> QED
    BY <1>0, <1>1, <1>2 DEF TypeOK

\* A mount is new: nobody awaits an answer for it.
LEMMA EnterHook == HookInv /\ Enter => HookInv'
<1> SUFFICES ASSUME HookInv, Enter PROVE HookInv'
    OBVIOUS
<1>0. OneMount'
    BY OneMountStep DEF Next
<1> USE DEF HookInv, Enter, Restore
<1>1. mounts + 1 \in Mounts /\ \A s \in Runs : posts[s] # mounts + 1
    BY DEF TypeOK
<1>2. TypeOK'
    BY <1>1 DEF TypeOK
<1>3. ShownRunIsFollowed' /\ RefusedFollowsNothing'
    BY <1>1 DEF TypeOK, ShownRunIsFollowed, RefusedFollowsNothing
<1> QED
    BY <1>0, <1>1, <1>2, <1>3 DEF TypeOK

LEMMA LeaveHook == HookInv /\ Leave => HookInv'
<1> SUFFICES ASSUME HookInv, Leave PROVE HookInv'
    OBVIOUS
<1>0. OneMount'
    BY OneMountStep DEF Next
<1> USE DEF HookInv, Leave, Follow
<1>1. TypeOK'
    BY DEF TypeOK
<1>2. ShownRunIsFollowed' /\ RefusedFollowsNothing'
    BY DEF TypeOK, ShownRunIsFollowed, RefusedFollowsNothing
<1> QED
    BY <1>0, <1>1, <1>2 DEF TypeOK

LEMMA ReloadHook == HookInv /\ Reload => HookInv'
<1> SUFFICES ASSUME HookInv, Reload PROVE HookInv'
    OBVIOUS
<1>0. OneMount'
    BY OneMountStep DEF Next
<1> USE DEF HookInv, Reload, Restore
<1>1. mounts + 1 \in Mounts
    BY DEF TypeOK
<1>2. TypeOK'
    BY <1>1 DEF TypeOK
<1>3. ShownRunIsFollowed' /\ RefusedFollowsNothing'
    BY <1>1 DEF TypeOK, ShownRunIsFollowed, RefusedFollowsNothing
<1> QED
    BY <1>0, <1>1, <1>2, <1>3 DEF TypeOK

LEMMA HookStep == HookInv /\ [Next]_vars => HookInv'
<1> SUFFICES ASSUME HookInv, [Next]_vars PROVE HookInv'
    OBVIOUS
<1>1. CASE UNCHANGED vars
    BY <1>1 DEF vars, counters, HookInv, OneMount, TypeOK, ShownRunIsFollowed, RefusedFollowsNothing
<1>2. CASE Execute \/ Reset \/ Enter \/ Leave \/ Reload
    BY <1>2, ExecuteHook, ResetHook, EnterHook, LeaveHook, ReloadHook
<1>3. CASE \E s \in Runs : Accept(s) \/ Reject(s)
    BY <1>3, AcceptHook, RejectHook
<1>4. CASE \E m \in Mounts : Event(m) \/ Finish(m) \/ Refuse(m)
    BY <1>4, EventHook, FinishHook, RefuseHook
<1> QED
    BY <1>1, <1>2, <1>3, <1>4 DEF Next

\* A builder that awaits an answer follows nothing and awaits one answer only,
\* so that no answer, verdict or refusal makes what is shown differ from what
\* is followed.
THEOREM Invariant == Spec => []HookInv
BY InitHook, HookStep, PTL DEF Spec

\* The run shown in progress is the one followed.
THEOREM ShownRunIsFollowedHolds == Spec => []ShownRunIsFollowed
<1>1. HookInv => ShownRunIsFollowed
    BY DEF HookInv
<1> QED
    BY Invariant, <1>1, PTL

\* No run is followed behind a reported transport failure.
THEOREM RefusedFollowsNothingHolds == Spec => []RefusedFollowsNothing
<1>1. HookInv => RefusedFollowsNothing
    BY DEF HookInv
<1> QED
    BY Invariant, <1>1, PTL

\* Until the page is left, the run in progress is the stored one.
THEOREM StoredUnlessLeftHolds == Spec => []StoredUnlessLeft
<1>1. HookInv => StoredUnlessLeft
    BY DEF HookInv, OneMount, TypeOK, ShownRunIsFollowed, StoredUnlessLeft, ActiveRunIsStored
<1> QED
    BY Invariant, <1>1, PTL

-----------------------------------------------------------------------------
(***************************************************************************)
(* The page around the hook.                                               *)
(***************************************************************************)

\* What the page adds to the hook.
LEMMA HookSteps == [PageNext]_pageVars => [Next]_vars
<1> SUFFICES ASSUME [PageNext]_pageVars PROVE [Next]_vars
    OBVIOUS
<1>1. CASE UNCHANGED pageVars
    BY <1>1 DEF pageVars
<1>2. CASE Edits
    BY <1>2 DEF Edits, Connect, AddNode, UpdateNodeConfig, GroupNodes, ChangeGroup,
                Delete, Edit
<1>3. CASE Autosave
    BY <1>3 DEF Autosave
<1>4. CASE Submit \/ Answer \/ Stream \/ ResetRun \/ Visit \/ ReloadPage \/ LeavePage
    BY <1>4 DEF Submit, Answer, Stream, ResetRun, Visit, ReloadPage, LeavePage, Next
<1> QED
    BY <1>1, <1>2, <1>3, <1>4 DEF PageNext

\* The page implements the hook: whatever is drawn, saved or loaded, the
\* controllers and the stored run take steps of usePipelineRun only.
THEOREM PageImplementsHook == PageSpec => Spec
<1>1. PageInit => Init
    BY DEF PageInit
<1> QED
    BY <1>1, HookSteps, PTL DEF PageSpec, Spec

-----------------------------------------------------------------------------
(* The operations on the graph keep it sound.                               *)

LEMMA EmptySound == Empty \in Graphs /\ Sound(Empty)
<1>1. Empty \in Graphs
    BY DEF Empty, Graphs
<1>2. Sound(Empty)
    BY DEF Empty, Sound
<1> QED
    BY <1>1, <1>2

LEMMA ConnectedSound ==
    ASSUME NEW g \in Graphs, Sound(g), NEW s \in Blocks, NEW t \in Blocks,
           NEW p \in Ports, IsValidNodeConnection(g, s, t, p)
    PROVE  Connected(g, s, t, p) \in Graphs /\ Sound(Connected(g, s, t, p))
<1> PICK h : h = Connected(g, s, t, p)
    OBVIOUS
<1>1. h \in Graphs
    BY DEF Connected, Graphs
<1>2. /\ h.config = g.config /\ h.parent = g.parent /\ h.groups = g.groups
      /\ h.skipped = g.skipped /\ h.dim = g.dim /\ h.edges = g.edges \cup {<<s, t, p>>}
    BY DEF Connected, Graphs
<1>3. /\ s # t /\ {s, t} \subseteq BlocksOf(g)
      /\ \A e \in g.edges : e[2] # t \/ e[3] # p
    BY DEF IsValidNodeConnection
<1>4. Sound(h)
    BY <1>2, <1>3 DEF Sound, BlocksOf
<1> QED
    BY <1>1, <1>4

LEMMA ConfiguredSound ==
    ASSUME NEW g \in Graphs, Sound(g), NEW b \in Blocks, NEW c \in Configs
    PROVE  Configured(g, b, c) \in Graphs /\ Sound(Configured(g, b, c))
<1> PICK h : h = Configured(g, b, c)
    OBVIOUS
<1>1. /\ h.config = [g.config EXCEPT ![b] = c]
      /\ h.parent = g.parent /\ h.groups = g.groups
      /\ h.skipped = g.skipped /\ h.dim = g.dim /\ h.edges = g.edges
      /\ h = [config |-> h.config, parent |-> h.parent, groups |-> h.groups,
              skipped |-> h.skipped, edges |-> h.edges, dim |-> h.dim]
    BY DEF Configured, Graphs
<1>2. g.config \in [Blocks -> Configs \cup {None}]
    BY DEF Graphs
<1>3. h.config \in [Blocks -> Configs \cup {None}]
    BY <1>1, <1>2
<1>4. h \in Graphs
    BY <1>1, <1>3 DEF Graphs
<1>5. BlocksOf(g) \subseteq BlocksOf(h)
    BY <1>1, <1>2, PageAssumption DEF BlocksOf
<1>6. Sound(h)
    BY <1>1, <1>5 DEF Sound
<1> QED
    BY <1>4, <1>6

LEMMA GroupsSound ==
    ASSUME NEW g \in Graphs, Sound(g), NEW group \in Groups, NEW S \in SUBSET BlocksOf(g)
    PROVE  CreateGroups(g, group, S) \in Graphs /\ Sound(CreateGroups(g, group, S))
<1> PICK h : h = CreateGroups(g, group, S)
    OBVIOUS
<1>1. /\ h.config = g.config /\ h.groups = g.groups \cup {group}
      /\ h.parent = [b \in Blocks |-> IF b \in S THEN group ELSE g.parent[b]]
      /\ h.skipped = g.skipped /\ h.dim = g.dim /\ h.edges = g.edges
      /\ h = [config |-> h.config, parent |-> h.parent, groups |-> h.groups,
              skipped |-> h.skipped, edges |-> h.edges, dim |-> h.dim]
    BY DEF CreateGroups, Graphs
<1>2. h.parent \in [Blocks -> Groups \cup {None}]
    BY <1>1 DEF Graphs
<1>3. h \in Graphs
    BY <1>1, <1>2 DEF Graphs
<1>4. BlocksOf(h) = BlocksOf(g) /\ S \subseteq BlocksOf(h)
    BY <1>1 DEF BlocksOf
<1>5. Sound(h)
    BY <1>1, <1>4 DEF Sound
<1> QED
    BY <1>3, <1>5

LEMMA UngroupedSound ==
    ASSUME NEW g \in Graphs, Sound(g), NEW group \in Groups
    PROVE  Ungrouped(g, group) \in Graphs /\ Sound(Ungrouped(g, group))
<1> PICK h : h = Ungrouped(g, group)
    OBVIOUS
<1>1. /\ h.config = g.config /\ h.groups = g.groups \ {group}
      /\ h.parent = [b \in Blocks |-> IF g.parent[b] = group THEN None ELSE g.parent[b]]
      /\ h.skipped = g.skipped \ {group} /\ h.dim = {} /\ h.edges = g.edges
      /\ h = [config |-> h.config, parent |-> h.parent, groups |-> h.groups,
              skipped |-> h.skipped, edges |-> h.edges, dim |-> h.dim]
    BY DEF Ungrouped, Graphs
<1>2. h.parent \in [Blocks -> Groups \cup {None}]
    BY <1>1 DEF Graphs
<1>3. h \in Graphs
    BY <1>1, <1>2 DEF Graphs
<1>4. BlocksOf(h) = BlocksOf(g)
    BY <1>1 DEF BlocksOf
<1>5. Sound(h)
    BY <1>1, <1>4 DEF Sound
<1> QED
    BY <1>3, <1>5

LEMMA SuspendedSound ==
    ASSUME NEW g \in Graphs, Sound(g), NEW group \in g.groups
    PROVE  Suspended(g, group) \in Graphs /\ Sound(Suspended(g, group))
<1> PICK h : h = Suspended(g, group)
    OBVIOUS
<1>0. group \in Groups
    BY DEF Graphs
<1>1. EdgesAt(g, ChildrenOf(g, group)) \subseteq g.edges
    BY DEF EdgesAt
<1>2. /\ h.config = g.config /\ h.groups = g.groups /\ h.parent = g.parent
      /\ h.edges = g.edges /\ h.skipped \subseteq g.skipped \cup {group}
      /\ h.dim \subseteq g.dim \cup EdgesAt(g, ChildrenOf(g, group))
      /\ h = [config |-> h.config, parent |-> h.parent, groups |-> h.groups,
              skipped |-> h.skipped, edges |-> h.edges, dim |-> h.dim]
  <2>1. CASE group \in g.skipped
      BY <2>1 DEF Suspended, Graphs
  <2>2. CASE group \notin g.skipped
      BY <2>2 DEF Suspended, Graphs
  <2> QED
      BY <2>1, <2>2
<1>3. /\ h.dim \subseteq g.edges /\ h.skipped \subseteq g.groups
    BY <1>1, <1>2 DEF Sound
<1>4. h \in Graphs
    BY <1>2, <1>3 DEF Graphs
<1>5. BlocksOf(h) = BlocksOf(g)
    BY <1>2 DEF BlocksOf
<1>6. Sound(h)
    BY <1>2, <1>3, <1>5 DEF Sound
<1> QED
    BY <1>4, <1>6

LEMMA WithoutSound ==
    ASSUME NEW g \in Graphs, Sound(g), NEW S \in SUBSET Blocks
    PROVE  Without(g, S) \in Graphs /\ Sound(Without(g, S))
<1> PICK h : h = Without(g, S)
    OBVIOUS
<1>1. /\ h.config = [b \in Blocks |-> IF b \in S THEN None ELSE g.config[b]]
      /\ h.parent = [b \in Blocks |-> IF b \in S THEN None ELSE g.parent[b]]
      /\ h.groups = g.groups /\ h.skipped = g.skipped
      /\ h.edges = g.edges \ EdgesAt(g, S) /\ h.dim = g.dim \ EdgesAt(g, S)
      /\ h = [config |-> h.config, parent |-> h.parent, groups |-> h.groups,
              skipped |-> h.skipped, edges |-> h.edges, dim |-> h.dim]
    BY DEF Without, Graphs
<1>2. /\ h.config \in [Blocks -> Configs \cup {None}]
      /\ h.parent \in [Blocks -> Groups \cup {None}]
    BY <1>1 DEF Graphs
<1>3. h \in Graphs
    BY <1>1, <1>2 DEF Graphs
<1>4. BlocksOf(h) = BlocksOf(g) \ S
    BY <1>1 DEF BlocksOf
<1>5. \A e \in h.edges : e \in g.edges /\ e[1] \notin S /\ e[2] \notin S
    BY <1>1 DEF EdgesAt
<1>6. Sound(h)
    BY <1>1, <1>4, <1>5 DEF Sound
<1> QED
    BY <1>3, <1>6

LEMMA DisconnectedSound ==
    ASSUME NEW g \in Graphs, Sound(g), NEW e
    PROVE  Disconnected(g, e) \in Graphs /\ Sound(Disconnected(g, e))
<1> PICK h : h = Disconnected(g, e)
    OBVIOUS
<1>1. /\ h.config = g.config /\ h.parent = g.parent /\ h.groups = g.groups
      /\ h.skipped = g.skipped /\ h.edges = g.edges \ {e} /\ h.dim = g.dim \ {e}
      /\ h = [config |-> h.config, parent |-> h.parent, groups |-> h.groups,
              skipped |-> h.skipped, edges |-> h.edges, dim |-> h.dim]
    BY DEF Disconnected, Graphs
<1>2. h \in Graphs
    BY <1>1 DEF Graphs
<1>3. BlocksOf(h) = BlocksOf(g)
    BY <1>1 DEF BlocksOf
<1>4. Sound(h)
    BY <1>1, <1>3 DEF Sound
<1> QED
    BY <1>2, <1>4

\* An edit draws a sound graph.
LEMMA EditsSound ==
    ASSUME canvas \in Graphs, Sound(canvas), Edits
    PROVE  \E g \in Graphs : Sound(g) /\ Edit(g)
<1>1. CASE Connect
    BY <1>1, ConnectedSound DEF Connect
<1>2. CASE AddNode \/ UpdateNodeConfig
    BY <1>2, ConfiguredSound DEF AddNode, UpdateNodeConfig, BlocksOf
<1>3. CASE GroupNodes
    BY <1>3, GroupsSound DEF GroupNodes
<1>4. CASE ChangeGroup
  <2> PICK group \in canvas.groups :
            \/ Edit(Ungrouped(canvas, group))
            \/ Edit(Suspended(canvas, group))
            \/ Edit(GroupDeleted(canvas, group))
      BY <1>4 DEF ChangeGroup
  <2>1. group \in Groups /\ ChildrenOf(canvas, group) \in SUBSET Blocks
      BY DEF Graphs, ChildrenOf, BlocksOf
  <2>2. GroupDeleted(canvas, group) \in Graphs /\ Sound(GroupDeleted(canvas, group))
      BY <2>1, WithoutSound, UngroupedSound DEF GroupDeleted
  <2> QED
      BY <2>1, <2>2, UngroupedSound, SuspendedSound
<1>5. CASE Delete
  <2>1. CASE \E b \in BlocksOf(canvas) : Edit(Without(canvas, {b}))
      BY <2>1, WithoutSound DEF BlocksOf
  <2>2. CASE \E e \in canvas.edges : Edit(Disconnected(canvas, e))
      BY <2>2, DisconnectedSound
  <2> QED
      BY <1>5, <2>1, <2>2 DEF Delete
<1> QED
    BY <1>1, <1>2, <1>3, <1>4, <1>5 DEF Edits

-----------------------------------------------------------------------------
(* What is drawn is sound.                                                  *)

LEMMA InitCanvas == PageInit => CanvasInv
<1> SUFFICES ASSUME PageInit PROVE CanvasInv
    OBVIOUS
<1>1. TypeOK
    BY InitHook DEF PageInit, HookInv
<1>2. draft \in Graphs \cup {None} /\ Sound(Deserialized(draft))
    BY PageAssumption, EmptySound DEF PageInit, Deserialized
<1>3. timer \in BOOLEAN /\ ~ timer /\ excused \in BOOLEAN
    BY DEF PageInit
<1>4. canvas = Empty /\ edits \in 0..MaxEdits
    BY PageAssumption DEF PageInit
<1> QED
    BY <1>1, <1>2, <1>3, <1>4, EmptySound DEF CanvasInv, PageTypeOK

LEMMA CanvasStep ==
    ASSUME HookInv, CanvasInv, [PageNext]_pageVars PROVE CanvasInv'
<1>0. TypeOK'
    BY HookSteps, HookStep DEF HookInv
<1> USE DEF CanvasInv, PageTypeOK
<1>1. CASE UNCHANGED pageVars
    BY <1>0, <1>1 DEF pageVars, page, vars, counters
<1>2. CASE Edits
  <2>1. PICK g \in Graphs : Sound(g) /\ Edit(g)
      BY <1>2, EditsSound
  <2>2. /\ canvas' = g /\ edits' \in 0..MaxEdits /\ draft' = draft
        /\ mount' = mount /\ mount # Nobody
      BY <2>1, PageAssumption DEF Edit, MayEdit, vars
  <2>3. timer' \in BOOLEAN /\ excused' \in BOOLEAN
      BY <2>1 DEF Edit
  <2> QED
      BY <1>0, <2>1, <2>2, <2>3 DEF Deserialized
<1>3. CASE Autosave
  <2>1. draft' = canvas /\ UNCHANGED <<canvas, edits, excused, mount>> /\ timer' = FALSE
      BY <1>3 DEF Autosave, Serialized, vars
  <2>2. Deserialized(draft)' = canvas
      BY <2>1, PageAssumption DEF Deserialized
  <2> QED
      BY <1>0, <2>1, <2>2
<1>4. CASE Submit
    BY <1>0, <1>4 DEF Submit, Execute, MayExecute, Nobody
<1>5. CASE Answer
    BY <1>0, <1>5 DEF Answer, Accept, Reject, Nobody
<1>6. CASE Stream
    BY <1>0, <1>6 DEF Stream, Event, Finish, Refuse, Nobody
<1>7. CASE ResetRun
    BY <1>0, <1>7, PageAssumption DEF ResetRun, Reset, Nobody
<1>8. CASE Visit \/ ReloadPage
  <2>1. /\ canvas' = Deserialized(draft) /\ timer' = TRUE /\ draft' = draft
        /\ edits' = edits /\ excused' \in BOOLEAN /\ mount' = mounts + 1
      BY <1>8 DEF Visit, ReloadPage, RestoreDraft, Enter, Reload, Restore
  <2>2. canvas' \in Graphs /\ Sound(canvas)'
      BY <2>1, EmptySound DEF Deserialized
  <2>3. mount' # Nobody
      BY <2>1 DEF HookInv, TypeOK, Nobody
  <2> QED
      BY <1>0, <2>1, <2>2, <2>3 DEF Deserialized
<1>9. CASE LeavePage
  <2>1. canvas' = Empty /\ timer' = FALSE /\ UNCHANGED <<draft, edits>> /\ excused' \in BOOLEAN
      BY <1>9 DEF LeavePage
  <2> QED
      BY <1>0, <2>1, EmptySound DEF Deserialized
<1> QED
    BY <1>1, <1>2, <1>3, <1>4, <1>5, <1>6, <1>7, <1>8, <1>9 DEF PageNext

-----------------------------------------------------------------------------
(* A run in progress is shown on its graph.                                 *)

LEMMA InitPage == PageInit => PageInv
<1> SUFFICES ASSUME PageInit PROVE PageInv
    OBVIOUS
<1>1. HookInv /\ CanvasInv
    BY InitHook, InitCanvas DEF PageInit
<1>2. submitted = [s \in Runs |-> submitted[s]]
    BY DEF PageInit
<1>3. SubmittedIsWellFormed
  <2>1. WellFormed(ValidationGraph(Empty))
    <3>1. Empty.edges = {} /\ BlocksOf(Empty) = {}
        BY DEF Empty, BlocksOf
    <3>2. /\ DOMAIN ValidationGraph(Empty).nodes = {}
          /\ ValidationGraph(Empty).edges = {}
        BY <3>1 DEF ValidationGraph
    <3>3. Acyclic(ValidationGraph(Empty))
      <4>1. (SUBSET {}) \ {{}} = {}
          OBVIOUS
      <4> QED
          BY <3>2, <4>1 DEF Acyclic
    <3> QED
        BY <3>2, <3>3 DEF WellFormed
  <2> QED
      BY <2>1 DEF PageInit, SubmittedIsWellFormed
<1>4. OneGraph
    BY DEF PageInit, Init, OneGraph
<1> QED
    BY <1>1, <1>2, <1>3, <1>4 DEF PageInv

\* The graph that passes the page's check is well formed.
LEMMA ValidationGraphFacts ==
    ASSUME NEW g, Sound(g), Acyclic(ValidationGraph(g))
    PROVE  WellFormed(ValidationGraph(g))
<1>1. DOMAIN ValidationGraph(g).nodes = BlocksOf(g) /\ ValidationGraph(g).edges = g.edges
    BY DEF ValidationGraph
<1> QED
    BY <1>1 DEF Sound, WellFormed

\* A submission is the only step that sets the graph of a run.
LEMMA SubmittedStep ==
    ASSUME PageInv, [PageNext]_pageVars
    PROVE  /\ submitted' = [s \in Runs |-> submitted'[s]]
           /\ SubmittedIsWellFormed'
           /\ Submit \/ submitted' = submitted
<1>1. CASE Submit
  <2>1. \A s \in Runs : submitted'[s] \in {submitted[s], ValidationGraph(canvas)}
      BY <1>1 DEF Submit, PageInv
  <2>2. submitted' = [s \in Runs |-> submitted'[s]]
      BY <1>1 DEF Submit, PageInv
  <2>3. WellFormed(ValidationGraph(canvas))
      BY <1>1, ValidationGraphFacts DEF Submit, PageInv, CanvasInv
  <2>4. \A s \in Runs : WellFormed(submitted'[s])
      BY <2>1, <2>3 DEF PageInv, SubmittedIsWellFormed
  <2> QED
      BY <1>1, <2>2, <2>4 DEF SubmittedIsWellFormed
<1>2. ASSUME submitted' = submitted PROVE SubmittedIsWellFormed'
    BY <1>2 DEF PageInv, SubmittedIsWellFormed
<1>3. CASE ~ Submit
  <2>1. submitted' = submitted
    <3>1. CASE Edits
        BY <3>1 DEF Edits, Connect, AddNode, UpdateNodeConfig, GroupNodes, ChangeGroup,
                    Delete, Edit
    <3>2. CASE UNCHANGED pageVars
        BY <3>2 DEF pageVars, page
    <3>3. CASE Autosave \/ Answer \/ Stream \/ ResetRun
        BY <3>3 DEF Autosave, Answer, Stream, ResetRun
    <3>4. CASE Visit \/ ReloadPage \/ LeavePage
        BY <3>4 DEF Visit, ReloadPage, LeavePage, RestoreDraft
    <3> QED
        BY <1>3, <3>1, <3>2, <3>3, <3>4 DEF PageNext
  <2> QED
      BY <1>2, <2>1 DEF PageInv
<1> QED
    BY <1>1, <1>3

\* The mounted builder is one of the mounts.
LEMMA MountFacts ==
    ASSUME PageInv
    PROVE  /\ mount # Nobody => mount \in Mounts
           /\ posts \in [Runs -> 0..mounts] /\ following \in [Mounts -> Runs \cup {NoRun}]
           /\ stored \in Runs \cup {NoRun}
BY HookAssumption DEF PageInv, HookInv, TypeOK, Mounts, Nobody

\* While the graph may be edited nobody awaits an answer, and a run that is
\* stored is followed.
LEMMA UnlockedFacts ==
    ASSUME PageInv, ~ excused, mount # Nobody, view.status \notin Active
    PROVE  /\ \A s \in Runs : posts[s] = Nobody
           /\ following[mount] = NoRun => stored = NoRun
<1>1. \A s \in Runs : posts[s] # mount
    BY DEF PageInv, HookInv, Active
<1> QED
    BY <1>1 DEF PageInv, OneGraph, Active

\* The page's own steps: an edit while a run is stored excuses the page, and
\* leaving or loading it does so unless the draft is what is drawn.
LEMMA GraphStep ==
    ASSUME PageInv, Edits \/ Autosave \/ UNCHANGED pageVars PROVE OneGraph'
<1> SUFFICES ASSUME ~ excused' PROVE OneGraph'
    BY DEF OneGraph
<1> USE DEF NoRun, Nobody
<1>1. CASE Edits
  <2>1. PICK g : Edit(g)
      BY <1>1 DEF Edits, Connect, AddNode, UpdateNodeConfig, GroupNodes, ChangeGroup, Delete
  <2>2. /\ ~ excused /\ following[mount] = NoRun /\ mount # Nobody
        /\ view.status \notin Active /\ UNCHANGED vars
      BY <2>1 DEF Edit, MayEdit
  <2>3. stored = NoRun /\ \A s \in Runs : posts[s] = Nobody
      BY <2>2, UnlockedFacts
  <2> QED
      BY <2>2, <2>3 DEF PageInv, OneGraph, vars, counters
<1>2. CASE Autosave
  <2>1. mount # Nobody
      BY <1>2 DEF Autosave, PageInv, CanvasInv
  <2>2. UNCHANGED <<vars, canvas, submitted, excused>>
      BY <1>2 DEF Autosave
  <2>3. Drawn' = Drawn
      BY <2>1, <2>2 DEF Drawn, vars
  <2> QED
      BY <2>2, <2>3 DEF PageInv, OneGraph, vars, counters
<1>3. CASE UNCHANGED pageVars
    BY <1>3 DEF PageInv, OneGraph, Drawn, pageVars, page, vars, counters
<1> QED
    BY <1>1, <1>2, <1>3

LEMMA SubmitStep == ASSUME PageInv, Submit PROVE OneGraph'
<1> SUFFICES ASSUME ~ excused' PROVE OneGraph'
    BY DEF OneGraph
<1>1. /\ ~ excused /\ mount # Nobody /\ view.status \notin Active
      /\ mount' = mount /\ canvas' = canvas /\ stored' = stored
      /\ view' = [run |-> NoRun, status |-> "submitting"]
      /\ submits + 1 \in Runs
      /\ posts' = [posts EXCEPT ![submits + 1] = mount]
      /\ following' = [following EXCEPT ![mount] = NoRun]
      /\ submitted' = [submitted EXCEPT ![submits + 1] = ValidationGraph(canvas)]
    BY HookAssumption DEF Submit, Execute, MayExecute, Follow, PageInv, HookInv, TypeOK, Runs
<1>2. \A s \in Runs : posts[s] = Nobody
    BY <1>1, UnlockedFacts
<1>3. Drawn = canvas /\ Drawn' = canvas
    BY <1>1 DEF Drawn
<1>4. \A s \in Runs : posts'[s] # Nobody => s = submits + 1 /\ posts'[s] = mount
    BY <1>1, <1>2 DEF PageInv, HookInv, TypeOK
<1>5. /\ submitted'[submits + 1] = ValidationGraph(canvas)
      /\ \A s \in Runs : submitted'[s] \in {submitted[s], ValidationGraph(canvas)}
    BY <1>1 DEF PageInv
<1>6. \A m \in Mounts : following'[m] \in {following[m], NoRun}
    BY <1>1 DEF PageInv, HookInv, TypeOK
<1>7. mount \in Mounts /\ following'[mount] = NoRun
    BY <1>1, MountFacts
<1>8. stored \in Runs \cup {NoRun}
    BY DEF PageInv, HookInv, TypeOK
<1> QED
    BY <1>1, <1>3, <1>4, <1>5, <1>6, <1>7, <1>8 DEF PageInv, OneGraph

LEMMA AnswerStep == ASSUME PageInv, Answer PROVE OneGraph'
<1> SUFFICES ASSUME ~ excused' PROVE OneGraph'
    BY DEF OneGraph
<1>0. /\ ~ excused /\ UNCHANGED <<mount, canvas, draft, submitted>>
      /\ Drawn' = Drawn
    BY DEF Answer, Accept, Reject, Drawn
<1>1. PICK s \in Runs : Accept(s) \/ Reject(s)
    BY DEF Answer
<1>2. /\ posts[s] # Nobody /\ posts[s] = mount /\ mount \in Mounts
      /\ submitted[s] = ValidationGraph(Drawn)
      /\ posts' = [posts EXCEPT ![s] = Nobody]
      /\ \A t \in Runs : posts'[t] \in {posts[t], Nobody}
    BY <1>0, <1>1, MountFacts DEF Accept, Reject, PageInv, OneGraph
<1>3. CASE Accept(s)
  <2>1. stored' = s /\ following' = [following EXCEPT ![mount] = s]
      BY <1>2, <1>3 DEF Accept, StoredAtAccept, FollowAccepted, Follow
  <2>2. following'[mount] = s /\ \A m \in Mounts : m # mount => following'[m] = following[m]
      BY <1>2, <2>1 DEF PageInv, HookInv, TypeOK
  <2>3. s # NoRun
      BY DEF Runs, NoRun
  <2> QED
      BY <1>0, <1>2, <2>1, <2>2, <2>3 DEF PageInv, OneGraph
<1>4. CASE Reject(s)
    BY <1>0, <1>2, <1>4 DEF Reject, PageInv, OneGraph, HookInv
<1> QED
    BY <1>1, <1>3, <1>4

LEMMA StreamStep == ASSUME PageInv, Stream PROVE OneGraph'
<1> SUFFICES ASSUME ~ excused' PROVE OneGraph'
    BY DEF OneGraph
<1>0. /\ ~ excused /\ UNCHANGED <<mount, canvas, draft, submitted, posts>>
      /\ Drawn' = Drawn
    BY DEF Stream, Event, Finish, Refuse, Drawn
<1>1. PICK m \in Mounts : Event(m) \/ Finish(m) \/ Refuse(m)
    BY DEF Stream
<1>2. /\ m = mount /\ mount # Nobody /\ following[mount] = stored /\ stored # NoRun
    BY <1>0, <1>1 DEF Event, Finish, Refuse, PageInv, OneGraph, Mounts, Nobody
<1>3. CASE Event(m)
  <2>1. stored' = stored /\ following' = following
      BY <1>2, <1>3 DEF Event
  <2> QED
      BY <1>0, <1>2, <2>1 DEF PageInv, OneGraph
<1>4. CASE Finish(m) \/ Refuse(m)
  <2>1. stored' = NoRun /\ following' = [following EXCEPT ![mount] = NoRun]
      BY <1>2, <1>4 DEF Finish, Refuse, Forget, Follow
  <2>2. \A k \in Mounts : following'[k] \in {following[k], NoRun}
        /\ following'[mount] = NoRun
      BY <1>2, <2>1 DEF PageInv, HookInv, TypeOK
  <2> QED
      BY <1>0, <2>1, <2>2 DEF PageInv, OneGraph
<1> QED
    BY <1>1, <1>3, <1>4

LEMMA ResetStep == ASSUME PageInv, ResetRun PROVE OneGraph'
<1> SUFFICES ASSUME ~ excused' PROVE OneGraph'
    BY DEF OneGraph
<1>1. /\ ~ excused /\ mount # Nobody /\ view.status \notin Active
      /\ mount' = mount /\ stored' = NoRun /\ posts' = posts
      /\ following' = [following EXCEPT ![mount] = NoRun]
    BY DEF ResetRun, Reset, Follow
<1>2. \A s \in Runs : posts[s] = Nobody
    BY <1>1, UnlockedFacts
<1>3. \A m \in Mounts : following'[m] \in {following[m], NoRun}
    BY <1>1 DEF PageInv, HookInv, TypeOK
<1>4. mount \in Mounts /\ following'[mount] = NoRun
    BY <1>1, MountFacts
<1> QED
    BY <1>1, <1>2, <1>3, <1>4 DEF PageInv, OneGraph

LEMMA VisitStep == ASSUME PageInv, Visit \/ ReloadPage PROVE OneGraph'
<1> SUFFICES ASSUME ~ excused' PROVE OneGraph'
    BY DEF OneGraph
<1>1. /\ ~ excused /\ mount' = mounts + 1 /\ mounts + 1 \in Mounts /\ mount' # Nobody
      /\ canvas' = Deserialized(draft) /\ UNCHANGED <<stored, submitted>>
  <2>1. mounts \in Nat /\ mounts < MaxMounts /\ mount' = mounts + 1
      BY DEF Visit, ReloadPage, Enter, Reload, Restore, PageInv, HookInv, TypeOK
  <2>2. mounts + 1 \in Mounts /\ mount' # Nobody
      BY <2>1, HookAssumption DEF Mounts, Nobody
  <2> QED
    <3>1. ~ excused
        BY DEF Visit, ReloadPage
    <3>2. canvas' = Deserialized(draft) /\ UNCHANGED <<stored, submitted>>
        BY DEF Visit, ReloadPage, RestoreDraft, Enter, Reload
    <3> QED
        BY <2>1, <2>2, <3>1, <3>2
<1>2. Drawn' = Drawn
    BY <1>1 DEF Drawn, Visit, ReloadPage, Unsaved, Enter
<1>3. \A s \in Runs : posts'[s] = Nobody
    BY <1>1 DEF Visit, ReloadPage, Enter, Reload, PageInv, OneGraph
<1>4. \A m \in Mounts : following'[m] = IF m = mount' THEN stored ELSE NoRun
  <2>1. CASE Visit
    <3>1. \A m \in Mounts : following[m] = NoRun
        BY <1>1, <2>1 DEF Visit, Enter, PageInv, OneGraph, Mounts, Nobody
    <3> QED
        BY <1>1, <2>1, <3>1 DEF Visit, Enter, Restore, PageInv, HookInv, TypeOK
  <2>2. CASE ReloadPage
      BY <1>1, <2>2 DEF ReloadPage, Reload, Restore
  <2> QED
      BY <2>1, <2>2
<1> QED
    BY <1>1, <1>2, <1>3, <1>4 DEF PageInv, OneGraph

LEMMA LeaveStep == ASSUME PageInv, LeavePage PROVE OneGraph'
<1> SUFFICES ASSUME ~ excused' PROVE OneGraph'
    BY DEF OneGraph
<1>1. /\ ~ excused /\ ~ Unsaved /\ \A s \in Runs : posts[s] = Nobody
      /\ mount # Nobody /\ mount' = Nobody
      /\ following' = [following EXCEPT ![mount] = NoRun]
      /\ UNCHANGED <<draft, submitted, posts, stored>>
    BY DEF LeavePage, Leave, Follow
<1>2. Drawn' = Drawn
    BY <1>1 DEF Drawn, Unsaved, Deserialized
<1>3. \A m \in Mounts : following'[m] = NoRun
    BY <1>1, MountFacts DEF PageInv, OneGraph
<1> QED
    BY <1>1, <1>2, <1>3 DEF PageInv, OneGraph

\* The invariant of the page: the hook's, the canvas's, and that the runs it
\* follows, stores and awaits have the graph that is drawn.
THEOREM PageInvariant == PageSpec => []PageInv
<1>1. PageInv /\ [PageNext]_pageVars => PageInv'
  <2> SUFFICES ASSUME PageInv, [PageNext]_pageVars PROVE PageInv'
      OBVIOUS
  <2>1. HookInv' /\ CanvasInv'
      BY HookStep, HookSteps, CanvasStep DEF PageInv
  <2>2. OneGraph'
      BY GraphStep, SubmitStep, AnswerStep, StreamStep, ResetStep, VisitStep, LeaveStep
         DEF PageNext
  <2> QED
      BY <2>1, <2>2, SubmittedStep DEF PageInv
<1> QED
    BY <1>1, InitPage, PTL DEF PageSpec

\* Whatever is edited, autosaved, reloaded and answered, the page shows a run in
\* progress on the graph that was submitted (BuilderCanvas locks the handlers).
THEOREM RunGraphShownHolds == PageSpec => []RunGraphShown
<1>1. PageInv => RunGraphShown
  <2> SUFFICES ASSUME PageInv, ~ excused, mount # Nobody,
                      view.status \in {"pending", "running"}
               PROVE  ValidationGraph(canvas) = submitted[view.run]
      BY DEF RunGraphShown
  <2>1. view.run # NoRun /\ following[mount] = view.run
      BY DEF PageInv, HookInv, ShownRunIsFollowed
  <2>2. stored = view.run
      BY <2>1 DEF PageInv, OneGraph
  <2> QED
      BY <2>1, <2>2 DEF PageInv, OneGraph, Drawn
<1> QED
    BY <1>1, PageInvariant, PTL

\* Whatever is connected, grouped, deleted and restored, the page submits acyclic
\* graphs only, whose edges join their blocks, one at most at each input.
THEOREM SubmittedIsWellFormedHolds == PageSpec => []SubmittedIsWellFormed
<1>1. PageInv => SubmittedIsWellFormed
    BY DEF PageInv
<1> QED
    BY <1>1, PageInvariant, PTL

\* Groups, edges and skips stay consistent with the blocks that are drawn.
THEOREM CanvasInvHolds == PageSpec => []CanvasInv
<1>1. PageInv => CanvasInv
    BY DEF PageInv
<1> QED
    BY <1>1, PageInvariant, PTL
=============================================================================
