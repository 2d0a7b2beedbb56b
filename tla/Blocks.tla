-------------------------------- MODULE Blocks --------------------------------
(***************************************************************************)
(* A pipeline put together block by block.  Each wire carries the contract *)
(* the API's engine computes for it and the value the worker computes when *)
(* the pipeline runs; a block takes both.  A block whose rules report an   *)
(* error is refused with the whole graph, before anything runs; a block    *)
(* that is admitted and whose executor raises fails the run.               *)
(*                                                                         *)
(* At most two dataset wires and one model are open at a time: a block     *)
(* replaces the wire it consumes, Branch connects one output twice.        *)
(***************************************************************************)
EXTENDS BlockExecutors

CONSTANTS
    Sources,    \* datasets: [profile, frame]
    Picks,      \* selections of columns in a configuration
    Fields,     \* single names in a configuration
    Objects,    \* identities of column objects that transforms make
    MaxLoads,       \* bound: blocks that load a dataset
    MaxTransforms   \* bound: blocks from one dataset to another

Identities == Objects \cup {"file"}
Roles == {"full", "train", "test"}

ASSUME BlocksAssumption ==
    /\ None \notin Tasks \cup Roles \cup Column(Identities)
    /\ None \notin BOOLEAN /\ None \notin {"number", "numeric"}
    /\ Hot \in [Names -> Names]
    /\ Picks \subseteq Selections /\ Fields \subseteq Names
    /\ \A s \in Sources :
         /\ s.profile \subseteq Column({"file"})
         /\ DOMAIN s.frame \subseteq Names /\ s.frame \in [DOMAIN s.frame -> ColumnTypes]
    /\ MaxLoads \in Nat /\ MaxTransforms \in Nat

VARIABLES
    bench,    \* the two open dataset wires
    model,    \* the open model wire
    loads,        \* how many datasets were loaded
    transforms,   \* how many blocks with one dataset in and out
    verdict   \* the block that was refused or failed, None before

vars == <<bench, model, loads, transforms, verdict>>

Ends == {"a", "b"}

Cleared == [e \in Ends |-> None]

Init ==
    /\ bench = Cleared
    /\ model = None
    /\ loads = 0 /\ transforms = 0
    /\ verdict = None

-----------------------------------------------------------------------------
Open(e) == bench[e] # None
Free(e) == bench[e] = None

\* The identity of the column objects that a transform makes for the wire e.
\* What it replaces is garbage, so only the other wires' objects differ from it.
HeldBesides(e) ==
    UNION {ColumnsOf(bench[f].api) : f \in {f \in Ends \ {e} : Open(f)}} \cup
    (IF model = None \/ model.api.features = Unknown THEN {} ELSE model.api.features)

Unheld(e) == {o \in Objects : \A col \in HeldBesides(e) : col.id # o}
Fresh(e) == CHOOSE o \in Unheld(e) : TRUE

Wire(api, run, doubts) == [api |-> api, run |-> run, doubts |-> doubts]

Runs(codes, unmet) == codes \cup unmet = {}

\* The API admits the pipeline, and the worker executes it, if no rule reports
\* an error and no requirement of the executor is missed; then `wires' and `made'
\* are the open wires and the open model.
Place(block, codes, unmet, doubts, wires, made) ==
    /\ verdict = None
    /\ IF Runs(codes, unmet)
       THEN bench' = wires /\ model' = made /\ verdict' = None
       ELSE /\ bench' = Cleared /\ model' = None
            /\ verdict' = [block |-> block, codes |-> codes, unmet |-> unmet, doubts |-> doubts]

\* A block with one dataset input and one dataset output.  `own' is the doubt that
\* its configuration casts on its rules, `doubts' what holds of its output.
Unary(e, block, codes, unmet, api, run, own, doubts) ==
    /\ Open(e)
    /\ transforms < MaxTransforms /\ transforms' = transforms + 1
    /\ UNCHANGED loads
    /\ Unheld(e) # {}    \* bound
    /\ Place(block, codes, unmet, bench[e].doubts \cup own,
             [bench EXCEPT ![e] = Wire(api, run, doubts)], model)

NoUpdate == [primitive |-> None, semantic |-> None, nullable |-> None]

\* The transforms of the engine and the worker read other names.
Reread(S) == When(S.names # S.parsed, "reread")
\* The rules of the engine and the worker read other names.
Misread(S) == When(S.items # S.parsed, "reread")
MisreadName(n) == When(Read(n) # n, "reread")

\* A stored profile is computed from a sample of the file, without the words that
\* pandas reads as missing, and a user may override it.
ProfileDoubts(s) ==
    IF s.profile = {} \/ NamesIn(s.profile) # DOMAIN s.frame THEN {"unprofiled"}
    ELSE When(\E col \in s.profile :
                col.semantic = "numeric" /\ s.frame[col.name].dtype # "number", "mistyped") \cup
         When(\E col \in s.profile :
                ~ col.nullable /\ s.frame[col.name].missing # {}, "gappy")

Load(e, s) ==
    /\ Free(e) /\ (e = "b" => Open("a"))
    /\ loads < MaxLoads /\ loads' = loads + 1
    /\ Unheld(e) # {}    \* bound
    /\ Place("load", {}, {}, {},
             [bench EXCEPT ![e] = Wire(SourceContract(s.profile, Fresh(e)), Loaded(s.frame),
                                       ProfileDoubts(s))], model)
    /\ UNCHANGED transforms

Normalize(e, S) ==
    LET w == bench[e] IN
    Unary(e, "normalize", {}, UnmetNormalize(w.run, S.parsed),
          Updated(w.api, S.names, [NoUpdate EXCEPT !.primitive = "number"], Fresh(e)),
          Normalized(w.run, S.parsed), {}, w.doubts \cup Reread(S))

Encode(e, S, strategy) ==
    LET w == bench[e] IN
    Unary(e, "encode", {}, UnmetEncode(w.run, S.parsed, strategy),
          Updated(w.api, S.names, [NoUpdate EXCEPT !.primitive = "number", !.semantic = "numeric"],
                  Fresh(e)),
          Encoded(w.run, S.parsed, strategy), {},
          w.doubts \cup Reread(S) \cup When(strategy = "OneHot", "expanded"))

Impute(e, S, strategy) ==
    LET w == bench[e]
        unfilled == \E n \in S.parsed \cap ColumnNames(w.run) : "None" \in w.run.frame[n].missing
    IN  Unary(e, "impute", {}, UnmetImpute(w.run, S.parsed, strategy),
              Updated(w.api, S.names, [NoUpdate EXCEPT !.nullable = FALSE], Fresh(e)),
              Imputed(w.run, S.parsed, strategy), {},
              w.doubts \cup Reread(S) \cup When(unfilled, "gappy"))

FeatureSelect(e, S) ==
    LET w == bench[e] IN
    Unary(e, "select",
          IF w.api.target = None THEN {} ELSE SubsetOf({w.api.target}, S.items),
          UnmetSelect(w.run, S.parsed), Kept(w.api, S.names), Selected(w.run, S.parsed),
          Misread(S), w.doubts \cup Reread(S))

\* The worker drops the target of a clustering task, the contract keeps what
\* the configuration, or an earlier block, says.
SelectTarget(e, task, target) ==
    LET w == bench[e]
        api == WithFields(w.api, target, None, task)
        run == Targeted(w.run, task, Read(target))
    IN  Unary(e, "target",
              (IF task \in {"classification", "regression"} THEN Exists(target) ELSE {}) \cup
              (IF task = "classification" THEN Semantic(w.api, target, "categorical") ELSE {}) \cup
              (IF task = "regression" THEN Semantic(w.api, target, "numeric") ELSE {}),
              UnmetTarget(w.run, task, Read(target)), api, run, MisreadName(target),
              (w.doubts \ {"retargeted"}) \cup When(api.target # run.target, "retargeted"))

\* The rule of Rename Column reads $config.mapping.keys, which is no column.
Rename(e, from, to) ==
    LET w == bench[e] IN
    Unary(e, "rename", {}, UnmetRename(w.run, Read(from), Read(to)),
          RenamedColumns(w.api, from, to, Fresh(e)), RenamedFrame(w.run, Read(from), Read(to)), {},
          w.doubts \cup MisreadName(from) \cup MisreadName(to) \cup
          When(Read(from) = w.run.target, "retargeted"))

FilterRows(e, n, op, invert) ==
    LET w == bench[e] IN
    Unary(e, "filter", Condition(w.api, n, op), UnmetFilter(w.run, Read(n), op),
          w.api, Filtered(w.run, Read(n), op, invert), MisreadName(n), w.doubts)

Formula(e, output, uses, type) ==
    LET w == bench[e] IN
    Unary(e, "formula", Expression(w.api, output, uses) \cup AddedCollision(w.api, output),
          UnmetFormula(w.run, Read(output), uses), AddedColumn(w.api, output, type, Fresh(e)),
          WithFormula(w.run, Read(output), uses, type), MisreadName(output), w.doubts)

-----------------------------------------------------------------------------
Branch ==
    /\ Open("a") /\ Free("b") /\ verdict = None
    /\ bench' = [bench EXCEPT !["b"] = bench["a"]]
    /\ UNCHANGED <<model, loads, transforms, verdict>>

Split(stratify) ==
    LET w == bench["a"]
        codes == Exists(w.api.target)
        unmet == UnmetSplit(w.run, stratify)
        Part(role) == Wire(WithFields(w.api, None, role, None), [w.run EXCEPT !.role = role], w.doubts)
    IN  /\ Open("a") /\ Free("b")
        /\ Place("split", codes, unmet, w.doubts, [a |-> Part("train"), b |-> Part("test")], model)
        /\ UNCHANGED <<loads, transforms>>

\* Join Datasets and Feature Union consume both wires.
Binary(block, codes, unmet, api, run, own, doubts) ==
    /\ Open("a") /\ Open("b")
    /\ Place(block, codes, unmet, bench["a"].doubts \cup bench["b"].doubts \cup own,
             [a |-> Wire(api, run, doubts), b |-> None], model)
    /\ UNCHANGED <<loads, transforms>>

Join(S, strategy, unmatched) ==
    LET v == bench["a"]  w == bench["b"] IN
    Binary("join",
           Given(S) \cup ColumnsExist(S.items, v.api) \cup ColumnsExist(S.items, w.api) \cup
           Disjoint(v.api, w.api, S.items) \cup JoinCollision(v.api, w.api, S.items),
           UnmetJoin(v.run, w.run, S.parsed, strategy),
           Joined(v.api, w.api, S.items),
           JoinedFrame(v.run, w.run, S.parsed, strategy, unmatched), Misread(S),
           v.doubts \cup w.doubts \cup Misread(S) \cup When(strategy # "inner", "outer"))

FeatureUnion(aligned) ==
    LET v == bench["a"]  w == bench["b"] IN
    Binary("union", {}, UnmetUnion(aligned), Concatenated(v.api, w.api), United(v.run, w.run),
           {}, v.doubts \cup w.doubts)

-----------------------------------------------------------------------------
TrainingCodes(c, algorithm, clusters) ==
    Eq(c.task, Supports(algorithm)) \cup
    (IF algorithm = "KMeans" THEN Lte(clusters, Cardinality(ColumnsOf(c)))
     ELSE Exists(c.target) \cup Eq(c.role, {"train"}))

Train(e, algorithm, clusters) ==
    LET w == bench[e] IN
    /\ Open(e) /\ model = None
    /\ Place(IF algorithm = "KMeans" THEN "cluster" ELSE "train",
             TrainingCodes(w.api, algorithm, clusters), UnmetTraining(w.run, algorithm), w.doubts,
             bench, Wire(ModelContract(w.api, algorithm), Trained(w.run, algorithm), w.doubts))
    /\ UNCHANGED <<loads, transforms>>

\* Mutant: the test set may be of any task.
MutEvaluationCodes(m, c) == Eq(c.role, {"test"}) \cup FeatureSubset(m, c)

EvaluationCodes(m, c) ==
    Eq(c.role, {"test"}) \cup Eq(m.task, {c.task}) \cup FeatureSubset(m, c)

\* Metrics end the branch of the test set.
Evaluate(e) ==
    LET w == bench[e] IN
    /\ Open(e) /\ model # None
    /\ Place("evaluate", EvaluationCodes(model.api, w.api), UnmetEvaluate(model.run, w.run),
             w.doubts \cup model.doubts, [bench EXCEPT ![e] = None], model)
    /\ UNCHANGED <<loads, transforms>>

\* The rule about ONNX is a warning, which does not refuse the graph.
SaveModel(format, named) ==
    /\ model # None
    /\ Place("save", When(~ named, "REQUIRED_FIELD_MISSING"), UnmetSave(model.run, format, named),
             model.doubts, bench, None)
    /\ UNCHANGED <<loads, transforms>>

-----------------------------------------------------------------------------
UnaryBlock(e) ==
    \/ \E S \in Picks : Normalize(e, S) \/ FeatureSelect(e, S)
    \/ \E S \in Picks, strategy \in {"Label", "OneHot"} : Encode(e, S, strategy)
    \/ \E S \in Picks, strategy \in {"Mean", "Mode"} : Impute(e, S, strategy)
    \/ \E task \in Tasks, target \in Fields \cup {None} : SelectTarget(e, task, target)
    \/ \E from, to \in Fields : Rename(e, from, to)
    \/ \E n \in Fields, op \in {"gt", "ne", "contains", "isNull"}, invert \in BOOLEAN :
          FilterRows(e, n, op, invert)
    \/ \E output \in Fields, uses \in SUBSET Identifiers, type \in {"number", "boolean"} :
          Formula(e, output, uses, type)

BinaryBlock ==
    \/ \E S \in Picks :
          \/ \E strategy \in {"inner", "full"} : Join(S, strategy, FALSE)
          \/ \E strategy \in {"left", "right"}, unmatched \in BOOLEAN : Join(S, strategy, unmatched)
    \/ \E aligned \in BOOLEAN : FeatureUnion(aligned)

ModelBlock ==
    \/ \E e \in Ends, algorithm \in Algorithms, clusters \in 1 .. 2 : Train(e, algorithm, clusters)
    \/ \E e \in Ends : Evaluate(e)
    \/ \E format \in {"joblib", "onnx"}, named \in BOOLEAN : SaveModel(format, named)

Next ==
    \/ \E e \in Ends, s \in Sources : Load(e, s)
    \/ \E e \in Ends : UnaryBlock(e)
    \/ Branch
    \/ \E stratify \in BOOLEAN : Split(stratify)
    \/ BinaryBlock
    \/ ModelBlock

Spec == Init /\ [][Next]_vars

-----------------------------------------------------------------------------
(* Properties.  The engine is known to describe some wires imprecisely; what *)
(* excuses a claim is a doubt, and each claim names those that excuse it:    *)
(*   reread      an earlier block names columns by a text with blanks that   *)
(*               only the worker drops, by an empty name, or, a join or      *)
(*               selection, by one text for several columns                  *)
(*   expanded    one-hot encoding: the contract keeps the old names          *)
(*   unprofiled  the stored profile is empty or names other columns          *)
(*   mistyped    it says numeric of a column that is not                     *)
(*   gappy       a column has gaps that the contract denies: the profile did *)
(*               not see them, or imputing left them (None)                  *)
(*   outer       an outer join: the contract keeps types and `nullable'      *)
(*   retargeted  the contract keeps the target that clustering drops, that a *)
(*               rename replaces or that has blanks around it                *)

Numeric(w) == NamesIn({k \in ColumnsOf(w.api) : k.semantic = "numeric"})
Complete(w) == NamesIn({k \in ColumnsOf(w.api) : ~ k.nullable})

\* Whether the engine knows the names of the columns.
NamesKnown(doubts) == doubts \cap {"reread", "expanded", "unprofiled"} = {}

Describes(w) ==
    /\ w.api.role = w.run.role /\ w.api.task = w.run.task
    /\ "retargeted" \notin w.doubts => w.api.target = w.run.target
    /\ NamesKnown(w.doubts) =>
         /\ NamesOf(w.api) = ColumnNames(w.run)
         /\ {"mistyped", "outer"} \cap w.doubts = {} =>
              \A n \in Numeric(w) : w.run.frame[n].dtype = "number"
         /\ {"gappy", "outer"} \cap w.doubts = {} =>
              \A n \in Complete(w) : w.run.frame[n].missing = {}

\* The contract that the engine computes for a wire describes the value that
\* the worker computes for it, whatever blocks lie before: the same role and
\* task, and as far as no doubt excuses it the same target and the same columns,
\* where `numeric' columns are numeric and non-nullable ones miss no values.
ContractsDescribe == \A e \in Ends : Open(e) => Describes(bench[e])

\* The requirements of the executors that the catalogue means to check first.
Guarded ==
    [target |-> {"columns", "target"}, select |-> {"target"}, filter |-> {"columns"},
     formula |-> {"columns", "kind", "collision"}, join |-> {"columns", "collision"},
     split |-> {"task", "target"}, train |-> {"role", "task", "target"}, cluster |-> {"task"},
     evaluate |-> {"role", "task", "columns", "target"}]

\* A pipeline that the API admits does not fail in the worker for something
\* that a rule of the catalogue is there to check, unless the wire or the names
\* in the block's own configuration were in doubt.  Gaps are not what these rules
\* check, so that a doubt about gaps excuses nothing.
GuardedNeverFails ==
    /\ verdict # None /\ verdict.codes = {} /\ verdict.doubts \subseteq {"gappy"}
    /\ verdict.block \in DOMAIN Guarded
    => verdict.unmet \cap Guarded[verdict.block] = {}

SchemaCodes ==
    {"KEYS_NOT_FOUND", "COLUMNS_NOT_DISJOINT", "COLUMN_COLLISION", "CONDITION_COLUMN_NOT_FOUND",
     "EXPRESSION_UNKNOWN_COLUMN", "EXPRESSION_OUTPUT_COLLISION", "COLUMN_NOT_FOUND"}

\* NOT_SUBSET is about names where a selection drops the target; the evaluation
\* reports it of column objects.
RefusedForNames(v) ==
    \/ v.codes \cap SchemaCodes # {}
    \/ v.block = "select" /\ "NOT_SUBSET" \in v.codes /\ "retargeted" \notin v.doubts

\* The API refuses no pipeline over the names of columns that the worker would
\* have executed, as long as the engine knows the names and both read the same
\* ones in the block's configuration: not so for one text of several columns,
\* `x,g', by which the API refuses every join and every selection with a target.
SchemaRefusalsAreReal ==
    verdict # None /\ NamesKnown(verdict.doubts) /\ RefusedForNames(verdict) =>
        verdict.unmet # {}
=============================================================================
