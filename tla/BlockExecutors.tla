---------------------------- MODULE BlockExecutors ----------------------------
(***************************************************************************)
(* What the worker's executors do with a DatasetValue: a frame, of which   *)
(* the names, kinds and missing values of the columns are kept, and the    *)
(* target, task and role beside it.  An executor raises when a requirement *)
(* of its own is not met; Unmet... is the set of requirements that are not *)
(* (the first of them is the error the run reports), and the other         *)
(* operators are the values that it returns.                               *)
(***************************************************************************)
EXTENDS BlockContracts

CONSTANT Hot  \* per column, the name one-hot encoding gives its indicator

\* pandas has two missing values, which isna finds: NaN, and None in a column of
\* objects that a JSON file gives.
ColumnTypes == [dtype : {"number", "boolean", "object"}, missing : SUBSET {"NaN", "None"}]

ColumnNames(v) == DOMAIN v.frame

\* str(value or "").strip() or None: one name of a configuration.
Read(n) == IF n = None \/ Stripped[n] = "" THEN None ELSE Stripped[n]

\* pandas' is_numeric_dtype also holds for booleans.
IsNumeric(v, n) == v.frame[n].dtype \in {"number", "boolean"}

RequireNames(S) == When(S = {}, "config")
RequireColumns(v, S) == When(~ S \subseteq ColumnNames(v), "columns")
RequireNumeric(v, S) ==
    RequireColumns(v, S) \cup
    When(\E n \in S \cap ColumnNames(v) : ~ IsNumeric(v, n), "kind")
RequireNoNulls(v, S) ==
    RequireColumns(v, S) \cup
    When(\E n \in S \cap ColumnNames(v) : v.frame[n].missing # {}, "nulls")

Number == [dtype |-> "number", missing |-> {}]

\* The frame with the columns S replaced.
WithColumns(v, S, type) ==
    [v EXCEPT !.frame = [n \in DOMAIN @ |-> IF n \in S THEN type ELSE @[n]]]

\* What a loader returns.
Loaded(frame) == [frame |-> frame, target |-> None, task |-> None, role |-> "full"]

-----------------------------------------------------------------------------
UnmetNormalize(v, S) == RequireNames(S) \cup RequireNumeric(v, S) \cup RequireNoNulls(v, S)
Normalized(v, S) == WithColumns(v, S, Number)

\* Indicators must not collide with a column that stays; Label and Ordinal
\* replace the columns in place.  Two indicators of one name, which one block can
\* make of columns whose names run into each other, count as one column.
HotNames(S) == {Hot[n] : n \in S}

UnmetEncode(v, S, strategy) ==
    RequireNames(S) \cup RequireNoNulls(v, S) \cup
    (IF strategy = "OneHot"
     THEN When(HotNames(S) \cap (ColumnNames(v) \ S) # {}, "collision") \cup
          When(v.target \in S, "target")
     ELSE {})

Encoded(v, S, strategy) ==
    IF strategy = "OneHot"
    THEN [v EXCEPT !.frame = [n \in (DOMAIN @ \ S) \cup HotNames(S) |->
                                IF n \in HotNames(S) THEN Number ELSE @[n]]]
    ELSE WithColumns(v, S, Number)

\* SimpleImputer takes Booleans for numbers when it computes a mean, and refuses
\* them otherwise.  Its missing value is NaN: None stays in a column of objects.
UnmetImpute(v, S, strategy) ==
    RequireNames(S) \cup RequireColumns(v, S) \cup
    (IF strategy \in {"Mean", "Median"} THEN RequireNumeric(v, S)
     ELSE When(\E n \in S \cap ColumnNames(v) : v.frame[n].dtype = "boolean", "kind"))
Imputed(v, S, strategy) ==
    LET Filled(t) == [dtype |-> IF strategy \in {"Mean", "Median"} THEN "number" ELSE t.dtype,
                      missing |-> t.missing \ {"NaN"}]
    IN  [v EXCEPT !.frame = [n \in DOMAIN @ |-> IF n \in S THEN Filled(@[n]) ELSE @[n]]]

UnmetSelect(v, S) ==
    RequireNames(S) \cup RequireColumns(v, S) \cup
    When(v.target # None /\ v.target \notin S, "target")
Selected(v, S) == [v EXCEPT !.frame = [n \in S |-> @[n]]]

UnmetTarget(v, task, target) ==
    When(task = None, "config") \cup
    (IF task \in {"classification", "regression"}
     THEN When(target = None, "target") \cup When(target # None /\ target \notin ColumnNames(v), "columns")
     ELSE {})
Targeted(v, task, target) ==
    [v EXCEPT !.task = task, !.target = IF task = "clustering" THEN None ELSE target]

UnmetRename(v, from, to) ==
    When(None \in {from, to}, "config") \cup RequireColumns(v, {from} \ {None}) \cup
    When(to \in ColumnNames(v) \ {from}, "collision")
RenamedFrame(v, from, to) ==
    [v EXCEPT !.frame = [n \in (DOMAIN @ \ {from}) \cup {to} |-> IF n = to THEN @[from] ELSE @[n]],
              !.target = IF @ = from THEN to ELSE @]

\* pandas compares no text with a number, and is_string_dtype does not hold for
\* text with missing values.
UnmetFilter(v, n, op) ==
    When(n = None, "config") \cup RequireColumns(v, {n} \ {None}) \cup
    When(/\ n \in ColumnNames(v)
         /\ \/ op = "gt" /\ v.frame[n].dtype = "object"
            \/ op = "contains" /\ v.frame[n] # [dtype |-> "object", missing |-> {}], "kind")

\* A missing value is null, and differs from every value; no other operator holds
\* for it.
Filtered(v, n, op, invert) ==
    IF (op \in {"isNull", "ne"}) # invert THEN v ELSE [v EXCEPT !.frame[n].missing = {}]

\* A formula without columns evaluates to a number, which has no astype.
UnmetFormula(v, output, uses) ==
    When(output = None, "config") \cup When(output \in ColumnNames(v), "collision") \cup
    RequireNumeric(v, uses) \cup When(uses = {}, "constant")
WithFormula(v, output, uses, type) ==
    LET gaps == type # "boolean" /\ \E n \in uses : v.frame[n].missing # {}
        new == [dtype |-> type, missing |-> IF gaps THEN {"NaN"} ELSE {}]
    IN  [v EXCEPT !.frame = [n \in DOMAIN @ \cup {output} |-> IF n = output THEN new ELSE @[n]]]

-----------------------------------------------------------------------------
(* Two inputs.                                                             *)

\* pandas.merge matches no text with numbers and knows no strategy "full", with
\* which it is called nevertheless.
IsText(v, n) == v.frame[n].dtype = "object"

UnmetJoin(v, w, keys, strategy) ==
    RequireNames(keys) \cup
    When(~ keys \subseteq ColumnNames(v) \cap ColumnNames(w), "columns") \cup
    When((ColumnNames(v) \ keys) \cap ColumnNames(w) # {}, "collision") \cup
    When(\E n \in keys \cap ColumnNames(v) \cap ColumnNames(w) : IsText(v, n) # IsText(w, n),
         "kind") \cup
    When(strategy = "full", "strategy")

\* Rows without a partner miss the other side's columns, if there are any.
JoinedFrame(v, w, keys, strategy, unmatched) ==
    LET Loose(t) == [dtype |-> IF t.dtype = "boolean" THEN "object" ELSE t.dtype,
                     missing |-> t.missing \cup {"NaN"}]
        Side(t, side) == IF unmatched /\ strategy = side THEN Loose(t) ELSE t
        Merged(n) == IF n \in keys THEN IF strategy = "right" THEN w.frame[n] ELSE v.frame[n]
                     ELSE IF n \in ColumnNames(v) THEN Side(v.frame[n], "right")
                     ELSE Side(w.frame[n], "left")
    IN  [v EXCEPT !.frame = [n \in ColumnNames(v) \cup ColumnNames(w) |-> Merged(n)]]

\* aligned: the inputs have as many rows as each other.
UnmetUnion(aligned) == When(~ aligned, "rows")

United(v, w) ==
    [frame |-> [n \in ColumnNames(v) \cup ColumnNames(w) |->
                  IF n \in ColumnNames(v) THEN v.frame[n] ELSE w.frame[n]],
     target |-> Or(v.target, w.target), task |-> Or(v.task, w.task), role |-> v.role]

-----------------------------------------------------------------------------
(* Split, models, evaluation.                                              *)

UnmetSplit(v, stratify) ==
    When(v.task = None, "task") \cup
    When(stratify /\ v.task = "classification" /\ v.target \notin ColumnNames(v), "target")

Features(v) == ColumnNames(v) \ {v.target}

\* supervised_training_data
UnmetTrainingData(v, tasks) ==
    When(v.task \notin tasks, "task") \cup When(v.role # "train", "role") \cup
    When(Features(v) = {}, "features") \cup
    RequireNumeric(v, Features(v)) \cup RequireNoNulls(v, Features(v)) \cup
    (IF v.target \in ColumnNames(v) THEN RequireNoNulls(v, {v.target}) ELSE {"target"})

UnmetKMeans(v) ==
    When(v.task # "clustering", "task") \cup When(v.target # None, "target") \cup
    When(Features(v) = {}, "features") \cup
    RequireNumeric(v, Features(v)) \cup RequireNoNulls(v, Features(v))

\* SVM differs from RandomForest in nothing that is said here.
Algorithms == {"LogisticRegression", "RandomForest", "KMeans"}

Supports(algorithm) ==
    IF algorithm = "KMeans" THEN {"clustering"}
    ELSE IF algorithm = "LogisticRegression" THEN {"classification"}
    ELSE {"classification", "regression"}

UnmetTraining(v, algorithm) ==
    IF algorithm = "KMeans" THEN UnmetKMeans(v) ELSE UnmetTrainingData(v, Supports(algorithm))

Trained(v, algorithm) ==
    [algorithm |-> algorithm, task |-> v.task, features |-> Features(v), target |-> v.target]

UnmetEvaluate(m, v) ==
    When(v.role # "test", "role") \cup When(m.task # v.task, "task") \cup
    RequireNumeric(v, m.features) \cup RequireNoNulls(v, m.features) \cup
    When(m.task # "clustering" /\ m.target \notin ColumnNames(v), "target")

\* K-Means has no ONNX export.
UnmetSave(m, format, named) ==
    When(~ named, "config") \cup When(format = "onnx" /\ m.algorithm = "KMeans", "format")
=============================================================================
