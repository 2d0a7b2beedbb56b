--------------------------------- MODULE Gates ---------------------------------
(***************************************************************************)
(* What the API admits, the worker meets again: the graph of a submission  *)
(* and a dataset file.  A graph is put together node by node and edge by   *)
(* edge; at every step what the one program decides about it is compared   *)
(* with what the other will.                                               *)
(***************************************************************************)
EXTENDS GraphAdmission, DatasetFiles

CONSTANTS
    MaxNodes,
    MaxEdges,
    MaxRecords     \* length of a file

VARIABLE artifact

Graph(g) == [kind |-> "graph", graph |-> g]
File(f, o) == [kind |-> "file", file |-> f, options |-> o]

FilesWithOptions ==
    {File(f, o) : f \in CsvFiles(MaxRecords), o \in CsvOptions}
    \cup {File(f, o) : f \in JsonFiles(MaxRecords), o \in JsonOptions}
    \cup {File(f, o) : f \in XmlFiles(MaxRecords), o \in XmlOptions}

Submitted ==
    \/ artifact = Graph([nodes |-> <<>>, edges |-> <<>>])
    \/ artifact \in FilesWithOptions

AddNode(node) ==
    /\ artifact.kind = "graph"
    /\ artifact.graph.edges = <<>> /\ Len(artifact.graph.nodes) < MaxNodes
    /\ artifact' = [artifact EXCEPT !.graph.nodes = Append(@, node)]

AddEdge(edge) ==
    /\ artifact.kind = "graph"
    /\ artifact.graph.nodes # <<>> /\ Len(artifact.graph.edges) < MaxEdges
    /\ artifact' = [artifact EXCEPT !.graph.edges = Append(@, edge)]

Assemble ==
    \/ \E node \in Nodes : AddNode(node)
    \/ \E edge \in Edges : AddEdge(edge)

-----------------------------------------------------------------------------
NoCollision(ids) == NoId \notin {Stripped[i] : i \in ids}
                    /\ \A i, j \in ids : Stripped[i] = Stripped[j] => i = j

(* A graph that the API admits is one that the worker's parser accepts and  *)
(* whose loaders find their datasets in the job, so that an accepted run    *)
(* does not fail before its first block, unless identifiers differ by       *)
(* blanks only or are blank.                                                *)
AdmittedGraphParses ==
    artifact.kind = "graph" =>
        LET g == artifact.graph IN
        /\ Admitted(g)
        /\ NoCollision(NodeIds(g)) /\ NoCollision({e.id : e \in EdgeSet(g)})
        => JobAccepts(AsJob(g)) /\ SourcesFound(AsJob(g))

-----------------------------------------------------------------------------
(* The files whose profile says something else than their frame holds.      *)

TellsCsv(f, o) ==
    LET data == Data(f.cells, HasHeader(f, o))
    IN /\ data # <<>>                                              \* the worker refuses no records
       /\ f.foreign = "tail" => o.encoding # NoOption              \* beyond the bytes looked at
       /\ Elements(data) = Elements(Sampled(data))                 \* beyond the sample
       /\ "bool" \in Elements(data) => Elements(data) \cap {"int", "float"} = {}

TellsJson(f, o) ==
    /\ f.records # <<>>
    /\ Elements(f.records) = {"flat"}                              \* nested names, scalars
    /\ IF o.path = NoOption THEN f.root = "array" ELSE o.path = "p" /\ f.root = "object"

TellsXml(f, o) ==
    /\ ~ f.numbers                                                 \* text to the worker
    /\ f.large \/ ~ f.declared                                     \* the declaration is profiled
    /\ IF o.element # NoOption THEN At(f, o.element) # {}
       ELSE ~ f.large /\ Repeated(f) # {}                          \* the first record is missed

Tells(f, o) ==
    CASE f.format = "csv" -> TellsCsv(f, o)
      [] f.format = "json" -> TellsJson(f, o)
      [] f.format = "xml" -> TellsXml(f, o)

Profile(f, o) ==
    CASE f.format = "csv" -> CsvProfile(f, o)
      [] f.format = "json" -> JsonProfile(f, o)
      [] f.format = "xml" -> XmlProfile(f, o)

Frame(f, o) ==
    CASE f.format = "csv" -> CsvFrame(f, o)
      [] f.format = "json" -> JsonFrame(f, o)
      [] f.format = "xml" -> XmlFrame(f, o)

(* Apart from the files named above, a dataset that is READY loads, and the *)
(* frame has the profile's columns and records; a column the profile calls  *)
(* numeric is numeric, so that a block the editor allows finds its column.  *)
ProfileTellsFrame ==
    artifact.kind = "file" =>
        LET profile == Profile(artifact.file, artifact.options)
            frame == Frame(artifact.file, artifact.options)
        IN Tells(artifact.file, artifact.options) =>
              /\ Rejected \notin {profile, frame}
              /\ frame.names = profile.names /\ frame.rows = profile.rows
              /\ profile.numeric \subseteq frame.numeric
================================================================================
