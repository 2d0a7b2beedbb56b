---------------------------- MODULE BlockContracts ----------------------------
(***************************************************************************)
(* What the pipeline engine knows of a wire.  A contract has the columns   *)
(* (or "unknown"), the target, the role and the task of the dataset that   *)
(* will flow there; the rules of the block catalogue are evaluated on the  *)
(* contracts of the inputs, and the block's transform makes the contract   *)
(* of its output.  Columns are JavaScript objects: `id' tells two objects  *)
(* with equal fields apart, as Array.includes does.                        *)
(***************************************************************************)
EXTENDS Naturals, FiniteSets

CONSTANTS
    Names,    \* column names, and the texts that a configuration may hold
    None,     \* null, undefined or an absent field
    Identifiers,   \* the names that a formula can write
    Parts,    \* per text, what is between its commas, without blanks around it
    Stripped  \* per text, the text without blanks around it

ASSUME TextsAssumption ==
    /\ None \notin Names
    /\ Parts \in [Names -> SUBSET Names]
    /\ Stripped \in [Names -> Names]
    /\ Identifiers \subseteq Names
    /\ \A n \in Identifiers : n # "" /\ Stripped[n] = n
    /\ "" \in Names => Stripped[""] = ""

(***************************************************************************)
(* A selection of columns in a block's configuration.  The builder stores  *)
(* one text, the names joined by commas; a client of the API may also send *)
(* a list.  The text is one item to the rules (resolveItems), which split  *)
(* nothing; the transforms split it; and the worker also strips the        *)
(* members of a list and drops what is empty.                              *)
(***************************************************************************)
Unset == [given |-> FALSE, items |-> {}, names |-> {}, parsed |-> {}]
Text(t) == [given |-> t # "", items |-> {t}, names |-> Parts[t], parsed |-> Parts[t] \ {""}]
List(L) == [given |-> TRUE, items |-> L, names |-> L,
            parsed |-> {Stripped[n] : n \in L} \ {""}]

Selections == {Unset} \cup {Text(t) : t \in Names} \cup {List(L) : L \in SUBSET Names}

\* The string 'unknown' in place of a list of columns.
Unknown == {None}

Tasks == {"classification", "regression", "clustering"}

Column(Ids) ==
    [name : Names, primitive : {"number", "boolean", "string"},
     semantic : {"numeric", "categorical", "text"}, nullable : BOOLEAN, id : Ids]

When(p, code) == IF p THEN {code} ELSE {}

ColumnsOf(c) == IF c.columns = Unknown THEN {} ELSE c.columns
NamesIn(columns) == {col.name : col \in columns}
NamesOf(c) == NamesIn(ColumnsOf(c))

-----------------------------------------------------------------------------
(* The operators of constraint rules: the codes of the errors they report. *)

Exists(v) == When(v \in {None, ""}, "REQUIRED_FIELD_MISSING")
Given(S) == When(~ S.given, "REQUIRED_FIELD_MISSING")
Eq(v, allowed) == When(v \notin allowed, "VALUE_MISMATCH")
Lte(n, m) == When(n > m, "VALUE_TOO_LARGE")
SubsetOf(S, T) == When(~ S \subseteq T, "NOT_SUBSET")

\* getColumnByName on the first input, also when its columns are unknown.
Semantic(c, name, expected) ==
    LET found == {col \in ColumnsOf(c) : col.name = name} IN
    IF name = None THEN {}
    ELSE When(found = {}, "COLUMN_NOT_FOUND") \cup
         When(found # {} /\ \A col \in found : col.semantic # expected, "SEMANTIC_MISMATCH")

\* Mutant: the join keys are not excluded.
MutDisjoint(c, d, exclude) == When(NamesOf(c) \cap NamesOf(d) # {}, "COLUMNS_NOT_DISJOINT")

Disjoint(c, d, exclude) ==
    When((NamesOf(c) \cap NamesOf(d)) \ exclude # {}, "COLUMNS_NOT_DISJOINT")

ColumnsExist(names, c) ==
    When(ColumnsOf(c) # {} /\ ~ names \subseteq NamesOf(c), "KEYS_NOT_FOUND")

\* A condition of Filter Rows: nothing else is reported of one without a column.
Condition(c, name, op) ==
    LET found == {col \in ColumnsOf(c) : col.name = name} IN
    When(ColumnsOf(c) # {} /\ found = {} /\ name # "", "CONDITION_COLUMN_NOT_FOUND") \cup
    When(name = "" \/ (op = "gt" /\ \E col \in found : col.primitive = "string"),
         "CONDITION_VALUE_TYPE_MISMATCH")

\* The formula's output, which is checked if there is one, and the columns that
\* the formula refers to.
Expression(c, output, uses) ==
    LET known == ColumnsOf(c) # {} IN
    When(known /\ ~ uses \subseteq NamesOf(c), "EXPRESSION_UNKNOWN_COLUMN") \cup
    When(\E col \in ColumnsOf(c) : col.name \in uses /\ col.semantic # "numeric",
         "EXPRESSION_NON_NUMERIC_COLUMN") \cup
    When(output \notin Identifiers \cup {""}, "EXPRESSION_OUTPUT_INVALID") \cup
    When(output \in Identifiers \cap NamesOf(c), "EXPRESSION_OUTPUT_COLLISION")

-----------------------------------------------------------------------------
(* The transforms: contracts of outputs.  `id' is the identity of the      *)
(* column objects that the transform makes.                                *)

SourceContract(profile, id) ==
    [columns |-> IF profile = {} THEN Unknown ELSE {[col EXCEPT !.id = id] : col \in profile},
     target |-> None, role |-> "full", task |-> None]

\* a ?? b
Or(a, b) == IF a = None THEN b ELSE a

\* columnUpdates: only the columns that an update matches become new objects.
Updated(c, names, u, id) ==
    LET New(col) == IF col.name \notin names THEN col ELSE
            [col EXCEPT !.primitive = Or(u.primitive, @), !.semantic = Or(u.semantic, @),
                        !.nullable = Or(u.nullable, @), !.id = id]
    IN  [c EXCEPT !.columns = IF @ = Unknown THEN @ ELSE {New(col) : col \in @}]

\* Mutant: the input's fields win.
MutWithFields(c, target, role, task) ==
    [c EXCEPT !.target = Or(@, target), !.role = Or(@, role), !.task = Or(@, task)]

\* set: a field that does not resolve keeps the input's.
WithFields(c, target, role, task) ==
    [c EXCEPT !.target = Or(target, @), !.role = Or(role, @), !.task = Or(task, @)]

Kept(c, names) ==
    [c EXCEPT !.columns = IF @ = Unknown THEN @ ELSE {col \in @ : col.name \in names}]

\* renameColumns makes a new object of every column, and no new target.
RenamedColumns(c, from, to, id) ==
    LET New(col) == [col EXCEPT !.name = IF @ = from THEN to ELSE @, !.id = id]
    IN  [c EXCEPT !.columns = IF @ = Unknown THEN @ ELSE {New(col) : col \in @}]

\* addColumns: a column without a name is passed over, one that exists is an error.
AddedCollision(c, output) == When(output \in NamesOf(c) \ {""}, "COLUMN_COLLISION")

AddedColumn(c, output, type, id) ==
    LET new == [name |-> output, primitive |-> type, nullable |-> TRUE, id |-> id,
                semantic |-> IF type = "boolean" THEN "categorical" ELSE "numeric"]
    IN  [c EXCEPT !.columns =
            IF @ = Unknown \/ output \in NamesOf(c) \cup {""} THEN @ ELSE @ \cup {new}]

\* joinColumns: the keys come from the left input; two columns with one name
\* are an error, and then there is no contract.
AddedRight(d, keys) == {col \in ColumnsOf(d) : col.name \notin keys}

JoinCollision(c, d, keys) ==
    When(/\ Unknown \notin {c.columns, d.columns}
         /\ \E col \in AddedRight(d, keys) : col.name \in NamesOf(c), "COLUMN_COLLISION")

Joined(c, d, keys) ==
    [c EXCEPT !.columns = IF Unknown \in {c.columns, d.columns} THEN Unknown
                          ELSE @ \cup AddedRight(d, keys)]

\* concatColumns: the first column of a name, the first target and task that
\* are set, the role of the first input.
Concatenated(c, d) ==
    [columns |-> IF Unknown \in {c.columns, d.columns} THEN Unknown
                 ELSE c.columns \cup {col \in d.columns : col.name \notin NamesOf(c)},
     target |-> Or(c.target, d.target), role |-> c.role, task |-> Or(c.task, d.task)]

ModelContract(c, algorithm) ==
    [algorithm |-> algorithm, task |-> Or(c.task, "classification"),
     features |-> c.columns, target |-> c.target]

\* $input.model.featureSchema against $input.dataset.schema.columns: lists of
\* objects, a string being a list of itself.
FeatureSubset(m, c) == SubsetOf(m.features, c.columns)
=============================================================================
