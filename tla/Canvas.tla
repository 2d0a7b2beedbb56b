-------------------------------- MODULE Canvas --------------------------------
(***************************************************************************)
(* The graph that the builder edits: blocks with a configuration, groups   *)
(* that contain blocks, and edges from a block's output to an input of     *)
(* another block.  `dim' are the edges shown as skipped.  Positions,       *)
(* colours and selections are left out, the status of a block is that of   *)
(* the run the page shows.                                                 *)
(***************************************************************************)
EXTENDS Naturals, FiniteSets

CONSTANTS
    Blocks,   \* identifiers of block nodes
    Groups,   \* identifiers of group nodes
    Ports,    \* inputs of a block
    Configs,  \* configurations of a block
    Fits,     \* <<source, target, port>>: the artifacts of the ports agree
    None

Graphs ==
    [config : [Blocks -> Configs \cup {None}],   \* None: no such block
     parent : [Blocks -> Groups \cup {None}],
     groups : SUBSET Groups, skipped : SUBSET Groups,
     edges : SUBSET (Blocks \X Blocks \X Ports),
     dim : SUBSET (Blocks \X Blocks \X Ports)]

Empty ==
    [config |-> [b \in Blocks |-> None], parent |-> [b \in Blocks |-> None],
     groups |-> {}, skipped |-> {}, edges |-> {}, dim |-> {}]

BlocksOf(g) == {b \in Blocks : g.config[b] # None}
ChildrenOf(g, group) == {b \in BlocksOf(g) : g.parent[b] = group}
EdgesAt(g, S) == {e \in g.edges : e[1] \in S \/ e[2] \in S}

-----------------------------------------------------------------------------
\* Mutant: an input accepts any number of edges.
MutIsValidNodeConnection(g, s, t, p) ==
    /\ s # t /\ {s, t} \subseteq BlocksOf(g)
    /\ <<s, t, p>> \in Fits

IsValidNodeConnection(g, s, t, p) ==
    /\ s # t /\ {s, t} \subseteq BlocksOf(g)
    /\ <<s, t, p>> \in Fits
    /\ \A e \in g.edges : e[2] # t \/ e[3] # p

Connected(g, s, t, p) == [g EXCEPT !.edges = @ \cup {<<s, t, p>>}]

Configured(g, b, c) == [g EXCEPT !.config[b] = c]

\* Blocks that were in another group change it; that group stays.
CreateGroups(g, group, S) ==
    [g EXCEPT !.groups = @ \cup {group},
              !.parent = [b \in Blocks |-> IF b \in S THEN group ELSE @[b]]]

\* No edge is shown as skipped afterwards, of whatever group.
Ungrouped(g, group) ==
    [g EXCEPT !.groups = @ \ {group}, !.skipped = @ \ {group}, !.dim = {},
              !.parent = [b \in Blocks |-> IF @[b] = group THEN None ELSE @[b]]]

Suspended(g, group) ==
    LET at == EdgesAt(g, ChildrenOf(g, group)) IN
    IF group \in g.skipped
    THEN [g EXCEPT !.skipped = @ \ {group}, !.dim = @ \ at]
    ELSE [g EXCEPT !.skipped = @ \cup {group}, !.dim = @ \cup at]

\* Mutant: a deletion keeps the edges of what it deletes.
MutWithout(g, S) ==
    [g EXCEPT !.config = [b \in Blocks |-> IF b \in S THEN None ELSE @[b]],
              !.parent = [b \in Blocks |-> IF b \in S THEN None ELSE @[b]]]

Without(g, S) ==
    LET gone == EdgesAt(g, S) IN
    [g EXCEPT !.config = [b \in Blocks |-> IF b \in S THEN None ELSE @[b]],
              !.parent = [b \in Blocks |-> IF b \in S THEN None ELSE @[b]],
              !.edges = @ \ gone, !.dim = @ \ gone]

\* React Flow deletes the children of a group with it, and the edges of what
\* it deletes; onNodesDelete ungroups the group, which does not save them.
GroupDeleted(g, group) ==
    Ungrouped(Without(g, ChildrenOf(g, group)), group)

Disconnected(g, e) == [g EXCEPT !.edges = @ \ {e}, !.dim = @ \ {e}]

-----------------------------------------------------------------------------
\* toValidationGraph: skipped groups and edges are not left out.
ValidationGraph(g) ==
    [nodes |-> [b \in BlocksOf(g) |-> g.config[b]], edges |-> g.edges]

\* serializeGraph and deserializeGraph keep all of it.
Serialized(g) == g
Deserialized(d) == IF d = None THEN Empty ELSE d

\* Kahn's algorithm visits every node.
Acyclic(g) ==
    \A S \in (SUBSET DOMAIN g.nodes) \ {{}} :
        \E b \in S : \A e \in g.edges : e[2] = b => e[1] \notin S

\* PipelineGraphSchema, and one edge per input.
WellFormed(g) ==
    /\ \A e \in g.edges : e[1] # e[2] /\ {e[1], e[2]} \subseteq DOMAIN g.nodes
    /\ \A e, f \in g.edges : e[2] = f[2] /\ e[3] = f[3] => e = f
    /\ Acyclic(g)
=============================================================================
