--------------------------- MODULE GraphAdmission ---------------------------
(***************************************************************************)
(* Two gates of the same graph: what WorkflowRunService.execute admits     *)
(* becomes a job, which the worker parses and validates again.  Whoever    *)
(* calls the API chooses the identifiers; the worker strips them.          *)
(***************************************************************************)
EXTENDS Naturals, Sequences, FiniteSets

CONSTANTS
    Ids,        \* identifiers of nodes and edges
    Stripped,   \* the identifiers without the blanks around them
    NoId,       \* an identifier of blanks only, stripped
    Store,      \* dataset -> its row: status, format
    NoDataset,  \* what the config of a node names that is no dataset
    Catalogue   \* block -> inputs, optional inputs, outputs: port -> artifact;
                \* format: the format a source loads, or "none"

Sources == {b \in DOMAIN Catalogue : Catalogue[b].format # "none"}
Nodes ==
    [id : Ids, block : Sources, dataset : DOMAIN Store \cup {NoDataset}]
    \cup [id : Ids, block : DOMAIN Catalogue \ Sources, dataset : {NoDataset}]
Inputs == UNION {DOMAIN Catalogue[b].inputs : b \in DOMAIN Catalogue}
Outputs == UNION {DOMAIN Catalogue[b].outputs : b \in DOMAIN Catalogue}
Edges == [id : Ids, source : Ids, output : Outputs, target : Ids, input : Inputs]

Distinct(seq) == \A i, j \in DOMAIN seq : seq[i].id = seq[j].id => i = j
NodeIds(g) == {g.nodes[i].id : i \in DOMAIN g.nodes}
EdgeSet(g) == {g.edges[i] : i \in DOMAIN g.edges}

\* Kahn's algorithm, once in the API's schema and once in topological_order.
Sorts(g) ==
    \A S \in (SUBSET NodeIds(g)) \ {{}} :
        \E n \in S : \A e \in EdgeSet(g) : e.target = n => e.source \notin S

\* Of two nodes with an id the code's maps keep the last.
Block(g, id) ==
    LET at == {i \in DOMAIN g.nodes : g.nodes[i].id = id}
    IN Catalogue[g.nodes[CHOOSE i \in at : \A j \in at : j <= i].block]

-----------------------------------------------------------------------------
\* PipelineGraphSchema.
SchemaAccepts(g) ==
    /\ g.nodes # <<>>
    /\ Distinct(g.nodes) /\ Distinct(g.edges)
    /\ \A e \in EdgeSet(g) : {e.source, e.target} \subseteq NodeIds(g) /\ e.source # e.target
    /\ Sorts(g)

\* validateDefinitionsAndPorts.
PortsExist(g) ==
    \A e \in EdgeSet(g) : /\ e.output \in DOMAIN Block(g, e.source).outputs
                          /\ e.input \in DOMAIN Block(g, e.target).inputs

EdgesInto(g, id, port) == {i \in DOMAIN g.edges : g.edges[i].target = id /\ g.edges[i].input = port}

\* Mutant: PORT_ALREADY_CONNECTED is a warning.
MutInputsServed(g) ==
    \A id \in NodeIds(g) : \A p \in DOMAIN Block(g, id).inputs :
        \/ EdgesInto(g, id, p) # {}
        \/ p \in Block(g, id).optional

\* validatePorts.
InputsServed(g) ==
    \A id \in NodeIds(g) : \A p \in DOMAIN Block(g, id).inputs :
        /\ \/ Cardinality(EdgesInto(g, id, p)) = 1
           \/ EdgesInto(g, id, p) = {} /\ p \in Block(g, id).optional
        /\ \A i \in EdgesInto(g, id, p) :
              Block(g, g.edges[i].source).outputs[g.edges[i].output] = Block(g, id).inputs[p]

SourceNodes(g) == {n \in {g.nodes[i] : i \in DOMAIN g.nodes} : n.block \in Sources}

\* loadAndValidateDatasets, at the moment of the submission.
DatasetsServe(g) ==
    \A n \in SourceNodes(g) : /\ n.dataset \in DOMAIN Store
                              /\ Store[n.dataset].status = "READY"
                              /\ Store[n.dataset].format = Catalogue[n.block].format

Admitted(g) == SchemaAccepts(g) /\ PortsExist(g) /\ DatasetsServe(g) /\ InputsServed(g)

-----------------------------------------------------------------------------
\* buildJob and PipelineJob.from_mapping, up to its call of validate_graph.
AsJob(g) ==
    [datasets |-> [d \in {n.dataset : n \in SourceNodes(g)} |-> Store[d].format],
     nodes |-> [i \in DOMAIN g.nodes |-> [g.nodes[i] EXCEPT !.id = Stripped[@]]],
     edges |-> [i \in DOMAIN g.edges |->
                   [g.edges[i] EXCEPT !.id = Stripped[@], !.source = Stripped[@],
                                      !.target = Stripped[@]]]]

Named(job) ==
    /\ NoId \notin NodeIds(job)
    /\ \A e \in EdgeSet(job) : NoId \notin {e.id, e.source, e.target}

\* PipelineJob.validate_graph
JobAccepts(job) ==
    /\ job.nodes # <<>> /\ Named(job)
    /\ Distinct(job.nodes) /\ Distinct(job.edges)
    /\ \A e \in EdgeSet(job) : /\ {e.source, e.target} \subseteq NodeIds(job)
                               /\ e.source # e.target
                               /\ e.output \in DOMAIN Block(job, e.source).outputs
                               /\ e.input \in DOMAIN Block(job, e.target).inputs
    /\ \A i, j \in DOMAIN job.edges :
          job.edges[i].target = job.edges[j].target /\ job.edges[i].input = job.edges[j].input
              => i = j
    /\ Sorts(job)

\* _descriptor: the loader finds its dataset in the job, in its format.
SourcesFound(job) ==
    \A n \in SourceNodes(job) : /\ n.dataset \in DOMAIN job.datasets
                                /\ job.datasets[n.dataset] = Catalogue[n.block].format
=============================================================================
