---------------------------- MODULE DatasetFiles ----------------------------
(***************************************************************************)
(* Two readers of an uploaded file: the API profiles it when the upload is *)
(* validated, the worker loads it into a frame when a run uses it.         *)
(*                                                                         *)
(* A file is abstracted to what the readers tell apart: a CSV file of one  *)
(* column is a sequence of cells, a JSON file is a sequence of records     *)
(* behind a root, an XML file is the sequence of the root's children.      *)
(* Either reader returns the names of the columns, those that are numeric, *)
(* and the number of records, or nothing.                                  *)
(***************************************************************************)
EXTENDS Naturals, Sequences, FiniteSets

CONSTANTS
    SampleSize,   \* records that the API infers types from
    NoOption

ASSUME DatasetFilesAssumption ==
    /\ SampleSize \in Nat \ {0}
    /\ NoOption \notin {"utf-8", "p", "elsewhere", "row", "note"}
    /\ NoOption \notin BOOLEAN

Rejected == [rows |-> 0, names |-> {"nothing"}, numeric |-> {}]
Reading(names, numeric, rows) == [rows |-> rows, names |-> names, numeric |-> numeric]

Cells == {"int", "float", "word", "bool", "NA"}
Sampled(s) == SubSeq(s, 1, IF Len(s) < SampleSize THEN Len(s) ELSE SampleSize)
Elements(s) == {s[i] : i \in DOMAIN s}

\* Mutant: one number among words makes a column numeric.
MutInferredNumeric(values) == values \cap {"int", "float"} # {}

\* inferPrimitiveType and inferSemanticType: a Boolean among numbers does not
\* count.
InferredNumeric(values) ==
    values \cap {"word", "NA"} = {} /\ values \cap {"int", "float"} # {}

\* The dtype of the column: NA is a missing value, and Booleans alone are
\* numeric too.
LoadedNumeric(values) == values \subseteq {"int", "float", "NA"} \/ values = {"bool"}

-----------------------------------------------------------------------------
(* CSV                                                                       *)

CsvFiles(max) ==
    [format : {"csv"}, cells : UNION {[1..n -> Cells] : n \in 0..max},
     foreign : {"nowhere", "tail"}]    \* a letter beyond ASCII behind the first 4096 bytes

CsvOptions == [header : BOOLEAN \cup {NoOption}, encoding : {"utf-8", NoOption}]

LooksLikeHeader(cells) == cells # <<>> /\ cells[1] \notin {"int", "float"}

\* scanCsv: hasHeader of the profile; a file without a line has none.
HasHeader(f, o) ==
    IF o.header # NoOption THEN o.header ELSE LooksLikeHeader(f.cells)

Data(cells, header) == IF header /\ cells # <<>> THEN Tail(cells) ELSE cells
ColumnName(header) == IF header THEN "own" ELSE "column_0"

\* Nothing is known of the columns of a file without a data row.
CsvProfile(f, o) ==
    LET header == HasHeader(f, o)
        data == Data(f.cells, header)
        names == IF data = <<>> THEN {} ELSE {ColumnName(header)}
    IN Reading(names, IF InferredNumeric(Elements(Sampled(data))) THEN names ELSE {}, Len(data))

\* chardet looks at the first 4096 bytes.
Encoding(f, o) == IF o.encoding # NoOption THEN o.encoding ELSE "ascii"

CsvFrame(f, o) ==
    LET header == IF o.header # NoOption THEN o.header ELSE HasHeader(f, o)
        data == Data(f.cells, header)
        names == {ColumnName(header)}
    IN IF data = <<>> \/ (Encoding(f, o) = "ascii" /\ f.foreign = "tail") THEN Rejected
       ELSE Reading(names, IF LoadedNumeric(Elements(data)) THEN names ELSE {}, Len(data))

-----------------------------------------------------------------------------
(* JSON                                                                      *)

RecordKinds == {"flat", "nested", "scalar"}    \* {"k": 1}, {"o": {"k": 1}}, 1

JsonFiles(max) ==
    [format : {"json"},
     root : {"array", "object", "single"},   \* single: an object without any array
     records : UNION {[1..n -> RecordKinds] : n \in 0..max},
     large : BOOLEAN]                        \* above 5 MB the API streams it

\* The array of an object is at "p".
JsonOptions == [path : {"p", "elsewhere", NoOption}]

ApiColumns(kinds) == {c \in {"k", "o"} : \/ c = "k" /\ "flat" \in kinds
                                         \/ c = "o" /\ "nested" \in kinds}
NumericOf(names) == names \cap {"k", "o.k"}

\* What scanJsonArray streams; a path that leads nowhere leads to no record.
Streamed(f, o) ==
    CASE o.path = NoOption /\ f.root = "array" -> f.records
      [] o.path = "p" /\ f.root = "object" -> f.records
      [] OTHER -> <<>>

StreamRefuses(f, o) == o.path = NoOption /\ f.root # "array"

\* What validateJson finds in memory; what is no object is filtered out before
\* the sample is taken.
Found(f, o) == f.root = "array" \/ (f.root = "object" /\ o.path \in {"p", NoOption})
ObjectsUpTo(s, i) == {j \in 1..i : s[j] # "scalar"}
SampledObjects(s) ==
    {i \in ObjectsUpTo(s, Len(s)) : Cardinality(ObjectsUpTo(s, i)) <= SampleSize}

JsonProfile(f, o) ==
    LET streamed == ApiColumns(Elements(Sampled(Streamed(f, o))))
        found == ApiColumns({f.records[i] : i \in SampledObjects(f.records)}) IN
    IF f.large
    THEN IF StreamRefuses(f, o) THEN Rejected
         ELSE Reading(streamed, NumericOf(streamed), Len(Streamed(f, o)))
    ELSE IF Found(f, o) THEN Reading(found, NumericOf(found), Len(f.records))
    ELSE Reading({"p"}, {}, 1)    \* the object is the only record

\* An object is no record, and json_normalize flattens what is nested.
JsonFrame(f, o) ==
    LET found == \/ o.path = NoOption /\ f.root = "array"
                 \/ o.path = "p" /\ f.root = "object"
        names == {c \in {"k", "o.k"} : \/ c = "k" /\ "flat" \in Elements(f.records)
                                       \/ c = "o.k" /\ "nested" \in Elements(f.records)}
    IN IF ~ found \/ f.records = <<>> \/ "scalar" \in Elements(f.records) THEN Rejected
       ELSE Reading(names, NumericOf(names), Len(f.records))

-----------------------------------------------------------------------------
(* XML                                                                       *)

XmlFiles(max) ==
    [format : {"xml"}, declared : BOOLEAN,    \* <?xml version="1.0"?>
     children : UNION {[1..n -> {"row", "note"}] : n \in 1..max},
     numbers : BOOLEAN,    \* the fields hold numbers
     large : BOOLEAN]

XmlOptions == [element : {"row", NoOption}]

At(f, tag) == {i \in DOMAIN f.children : f.children[i] = tag}
Repeated(f) == {i \in DOMAIN f.children : \E j \in 1..(i - 1) : f.children[j] = f.children[i]}
Least(S) == CHOOSE i \in S : \A j \in S : i <= j

\* scanXml: the tag that is the first to come twice; its first element has
\* passed by then.
StreamedTag(f, o) ==
    CASE o.element # NoOption -> o.element
      [] o.element = NoOption /\ Repeated(f) # {} -> f.children[Least(Repeated(f))]
      [] OTHER -> NoOption

\* findRecordArray: the first of the tags that come twice, in their order.
BufferedTag(f, o) ==
    LET twice == {i \in DOMAIN f.children : Cardinality(At(f, f.children[i])) > 1} IN
    CASE o.element # NoOption -> o.element
      [] o.element = NoOption /\ twice # {} /\ ~ f.declared -> f.children[Least(twice)]
      [] OTHER -> NoOption

\* Each child has the column that is named after it.
Column(tag) == IF tag = "row" THEN "k" ELSE "remark"

\* The root of a parsed document that has a declaration is the declaration.
XmlProfile(f, o) ==
    LET tag == IF f.large THEN StreamedTag(f, o) ELSE BufferedTag(f, o)
        n == Cardinality(At(f, tag))
        missed == IF f.large /\ o.element = NoOption THEN 1 ELSE 0
        found(names, m) == Reading(names, IF f.numbers THEN names ELSE {}, m)
        listed(m) == found(IF m = 0 THEN {} ELSE {Column(tag)}, m)
    IN IF f.large THEN IF tag = NoOption THEN listed(0) ELSE listed(n - missed)
       ELSE IF f.declared
       THEN IF o.element = NoOption THEN Reading({"@_version"}, {"@_version"}, 1) ELSE listed(0)
       ELSE IF tag # NoOption THEN listed(n)
       ELSE found({t \o "." \o Column(t) : t \in Elements(f.children)}, 1)

\* The text of a field stays text.
XmlFrame(f, o) ==
    LET named == IF o.element # NoOption THEN o.element
                 ELSE IF f.large THEN StreamedTag(f, o) ELSE BufferedTag(f, o)
        records == IF named = NoOption THEN DOMAIN f.children ELSE At(f, named)
    IN IF records = {} THEN Rejected
       ELSE Reading({Column(f.children[i]) : i \in records}, {}, Cardinality(records))
=============================================================================
