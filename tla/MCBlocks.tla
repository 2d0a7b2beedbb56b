------------------------------ MODULE MCBlocks ------------------------------
(* The columns are x (a number), g (a category) and ` g', a header with a     *)
(* blank; h stands for g's one-hot indicator, and `x,g' is the text that the *)
(* builder stores for two columns.                                           *)
EXTENDS Blocks

Col(n, p, s, nullable) ==
    [name |-> n, primitive |-> p, semantic |-> s, nullable |-> nullable, id |-> "file"]

Category == [dtype |-> "object", missing |-> {}]

Customers ==
    [profile |-> {Col("x", "number", "numeric", FALSE), Col("g", "string", "categorical", FALSE)},
     frame |-> [n \in {"x", "g"} |-> IF n = "x" THEN Number ELSE Category]]

\* A JSON file with nulls in a text, and records without a number.
Document ==
    [profile |-> {Col("x", "number", "numeric", TRUE), Col("g", "string", "categorical", TRUE)},
     frame |-> [n \in {"x", "g"} |-> IF n = "x" THEN [dtype |-> "number", missing |-> {"NaN"}]
                                     ELSE [dtype |-> "object", missing |-> {"None"}]]]

\* A CSV file with a blank in its header and cells `NA'.
Survey ==
    [profile |-> {Col(" g", "string", "categorical", FALSE)},
     frame |-> [n \in {" g"} |-> [dtype |-> "object", missing |-> {"NaN"}]]]

\* A text that the user declared to be numeric.
Declared ==
    [profile |-> {Col("g", "number", "numeric", FALSE)}, frame |-> [n \in {"g"} |-> Category]]

\* A file whose profile the validation left unknown.
Unprofiled == [Declared EXCEPT !.profile = {}]

MCSources == {Customers, Document, Survey, Declared, Unprofiled}
MCNames == {"x", "g", "h", " g", "x,g", ""}
MCFields == {"x", "g", "h", " g", ""}
MCIdentifiers == {"x", "g", "h"}
MCHot == [n \in MCNames |-> "h"]
MCStripped == [n \in MCNames |-> IF n = " g" THEN "g" ELSE n]
MCParts == [n \in MCNames |-> IF n = "x,g" THEN {"x", "g"} ELSE {MCStripped[n]}]
MCPicks == {Unset, Text("x"), Text("g"), Text("x,g"), Text(" g"), List({"x", "g"}), List({" g"})}
=============================================================================
