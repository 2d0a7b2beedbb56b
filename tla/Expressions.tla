----------------------------- MODULE Expressions -----------------------------
(***************************************************************************)
(* The formula language, which is implemented twice: the pipeline engine's *)
(* recursive-descent parser decides which formulas the API accepts, and    *)
(* the worker reads them with Python's ast module and a whitelist.         *)
(*                                                                         *)
(* A formula is a sequence of tokens: an operand, an operator, a bracket   *)
(* or a comma.  A reading of it is a tree.                                 *)
(***************************************************************************)
EXTENDS Integers, Sequences, FiniteSets

CONSTANTS
    Numbers,        \* literals
    Names,          \* columns of the dataset that the formula is applied to
    Keywords,       \* those of them that Python reserves
    Arity,          \* function name -> numbers of arguments it takes
    Signs,          \* + and -, between two operands or before one
    Products,       \* * and its like
    Comparators     \* < and its like

Functions == DOMAIN Arity
Idents == Names \cup Functions
Operators == Signs \cup Products \cup Comparators \cup {"**"}
Tokens == Numbers \cup Idents \cup Operators \cup {"(", ")", ","}

Eof == "<end>"

\* The tokenizer gives every token one type.
ASSUME TokenAssumption ==
    LET types == <<Numbers, Idents, Signs, Products, Comparators, {"**", "(", ")", ",", Eof}>>
    IN \A a, b \in DOMAIN types : a # b => types[a] \cap types[b] = {}

Leaf(x) == <<"leaf", x>>
Signed(op, t) == <<"unary", op, t>>
Binary(op, l, r) == <<"binary", op, l, r>>
Call(f, args) == <<"call", f, args>>

\* What an operator makes of its operands; a comma lengthens a list.
Node(op, l, r) == IF op = "," THEN Append(l, r) ELSE Binary(op, l, r)

-----------------------------------------------------------------------------
(* The engine's parser: each method returns a tree and the next position,    *)
(* or the position of the token it refuses.  A method calls others at its    *)
(* own token and at later ones; later holds what these return, the last      *)
(* token's end first.                                                        *)

Read(tree, at) == [ok |-> TRUE, tree |-> tree, at |-> at]
Refused(at) == [ok |-> FALSE, tree |-> <<>>, at |-> at]
Failed(r) == ~ r.ok

Peek(ts, i) == IF i > Len(ts) THEN Eof ELSE ts[i]

\* What the methods return at the token p.
Ahead(ts, later, p) == later[Len(ts) + 2 - p]

\* l, and then r, which was read behind an operator.
Join(op, l, r) == IF Failed(r) THEN r ELSE Read(Node(op, l.tree, r.tree), r.at)

\* A turn of a loop that reads operands, by a method, as long as operators come.
Turn(ts, ops, method, later, l) ==
    IF Failed(l) \/ Peek(ts, l.at) \notin ops THEN l
    ELSE Join(Peek(ts, l.at), l, Ahead(ts, later, l.at + 1)[method])

\* The loop, which stops at the first token that is no operator.
Turns(ts, ops, method, later, first) ==
    LET turn[n \in 0..Len(ts)] ==
            IF n = 0 THEN first ELSE Turn(ts, ops, method, later, turn[n - 1])
    IN turn
Loop(ts, ops, method, later, first) ==
    IF Failed(first) \/ Peek(ts, first.at) \notin ops THEN first
    ELSE Turns(ts, ops, method, later, first)[Len(ts)]

\* The token that must come next.
Expect(ts, token, r) ==
    IF Failed(r) THEN r
    ELSE IF Peek(ts, r.at) = token THEN Read(r.tree, r.at + 1) ELSE Refused(r.at)

Listed(r) == IF Failed(r) THEN r ELSE Read(<<r.tree>>, r.at)
Arguments(ts, later, i) ==
    IF Peek(ts, i) = ")" THEN Read(<<>>, i)
    ELSE Loop(ts, {","}, "comparison", later, Listed(Ahead(ts, later, i).comparison))
CallOf(f, args) == IF Failed(args) THEN args ELSE Read(Call(f, args.tree), args.at)
CallAt(ts, later, i) ==
    IF ts[i] \in Functions THEN CallOf(ts[i], Expect(ts, ")", Arguments(ts, later, i + 2)))
    ELSE Refused(i)

Primary(ts, later, i) ==
    CASE Peek(ts, i) \in Idents /\ Peek(ts, i + 1) = "(" -> CallAt(ts, later, i)
      [] Peek(ts, i) \in Idents /\ Peek(ts, i + 1) # "(" -> Read(Leaf(ts[i]), i + 1)
      [] Peek(ts, i) \in Numbers -> Read(Leaf(ts[i]), i + 1)
      [] Peek(ts, i) = "(" -> Expect(ts, ")", Ahead(ts, later, i + 1).comparison)
      [] OTHER -> Refused(i)

Raised(ts, later, base) ==
    IF Failed(base) \/ Peek(ts, base.at) # "**" THEN base
    ELSE Join("**", base, Ahead(ts, later, base.at + 1).unary)
Power(ts, later, i) == Raised(ts, later, Primary(ts, later, i))

WithSign(op, r) == IF Failed(r) THEN r ELSE Read(Signed(op, r.tree), r.at)
Unary(ts, later, i) ==
    IF Peek(ts, i) \in Signs THEN WithSign(ts[i], Ahead(ts, later, i + 1).unary)
    ELSE Power(ts, later, i)

Term(ts, later, i) == Loop(ts, Products, "unary", later, Unary(ts, later, i))

\* Mutant: a chain of subtractions is read from the right.
MutArith(ts, later, i) ==
    LET l == Term(ts, later, i)
    IN IF Failed(l) \/ Peek(ts, l.at) \notin Signs THEN l
       ELSE Join(Peek(ts, l.at), l, Ahead(ts, later, l.at + 1).arith)

Arith(ts, later, i) == Loop(ts, Signs, "term", later, Term(ts, later, i))

\* A second comparator is refused.
Compared(ts, l, r) ==
    IF ~ Failed(r) /\ Peek(ts, r.at) \in Comparators THEN Refused(r.at)
    ELSE Join(Peek(ts, l.at), l, r)
Comparison(ts, later, i) ==
    LET l == Arith(ts, later, i)
    IN IF Failed(l) \/ Peek(ts, l.at) \notin Comparators THEN l
       ELSE Compared(ts, l, Ahead(ts, later, l.at + 1).arith)

\* What they return at the token i, and then from i on.
Methods(ts, later, i) ==
    [unary      |-> Unary(ts, later, i),
     term       |-> Term(ts, later, i),
     arith      |-> Arith(ts, later, i),
     comparison |-> Comparison(ts, later, i)]
From(ts, i, later) == Append(later, Methods(ts, later, i))
Readings(ts) ==
    LET last[n \in 0..(Len(ts) + 1)] ==
            IF n = 0 THEN <<>> ELSE From(ts, Len(ts) + 2 - n, last[n - 1])
    IN last

\* parseExpression
Parsed(ts) ==
    LET r == Readings(ts)[Len(ts) + 1][Len(ts) + 1].comparison
    IN IF ~ Failed(r) /\ r.at <= Len(ts) THEN Refused(r.at) ELSE r

-----------------------------------------------------------------------------
(* validateAst, and the same rules in _validate_tree and _eval.              *)

Children(t) ==
    CASE t[1] = "leaf" -> {}
      [] t[1] = "unary" -> {t[3]}
      [] t[1] = "binary" -> {t[3], t[4]}
      [] t[1] = "call" -> {t[3][i] : i \in DOMAIN t[3]}

\* All the nodes of t, which has no more levels than its formula has tokens.
Walk(t, levels) ==
    LET walked[d \in 0..levels] ==
            IF d = 0 THEN {t} ELSE UNION {{u} \cup Children(u) : u \in walked[d - 1]}
    IN walked[levels]

\* The calls have a number of arguments that the function takes, and what is
\* not a literal is a column.
Valid(t, levels) ==
    \A u \in Walk(t, levels) :
        /\ u[1] = "call" => Len(u[3]) \in Arity[u[2]]
        /\ u[1] = "leaf" => u[2] \in Numbers \cup Names

EngineAccepts(ts) == ~ Failed(Parsed(ts)) /\ Valid(Parsed(ts).tree, Len(ts))

-----------------------------------------------------------------------------
(* Python's grammar, as the set of trees of every part ts[i..j] of a source; *)
(* ast drops the brackets of a group.  A trailing comma and a function in    *)
(* brackets are Python as well; tuples and calls of anything else the        *)
(* whitelist refuses.  shorter holds the trees of the shorter parts.         *)

Parts(n, size) == {p \in (1..n) \X (1..n) : p[1] <= p[2] /\ p[2] - p[1] < size}

PySplit(ts, shorter, i, j, ops, left, right) ==
    UNION {{Node(ts[k], l, r) : l \in shorter[<<i, k - 1>>][left], r \in shorter[<<k + 1, j>>][right]} :
           k \in {k \in (i + 1)..(j - 1) : ts[k] \in ops}}

PyArguments(ts, shorter, i, j) ==
    IF i > j THEN {<<>>}
    ELSE shorter[<<i, j>>].list
         \cup (IF i < j /\ ts[j] = "," THEN shorter[<<i, j - 1>>].list ELSE {})

PyCalls(ts, shorter, i, j) ==
    UNION {{Call(f[2], args) : f \in {g \in shorter[<<i, k - 1>>].primary :
                                        g[1] = "leaf" /\ g[2] \in Functions},
                               args \in PyArguments(ts, shorter, k + 1, j - 1)} :
           k \in {k \in (i + 1)..(j - 1) : ts[k] = "("}}

PyGroup(ts, shorter, i, j) ==
    IF ts[i] = "(" /\ i + 1 < j THEN shorter[<<i + 1, j - 1>>].expression ELSE {}

PyPrimary(ts, shorter, i, j) ==
    IF i = j THEN {Leaf(x) : x \in {ts[i]} \cap ((Numbers \cup Idents) \ Keywords)}
    ELSE IF ts[j] = ")" THEN PyGroup(ts, shorter, i, j) \cup PyCalls(ts, shorter, i, j)
    ELSE {}
PyPower(ts, shorter, i, j) ==
    PyPrimary(ts, shorter, i, j) \cup PySplit(ts, shorter, i, j, {"**"}, "primary", "factor")
PyFactor(ts, shorter, i, j) ==
    PyPower(ts, shorter, i, j)
    \cup (IF i < j /\ ts[i] \in Signs THEN {Signed(ts[i], t) : t \in shorter[<<i + 1, j>>].factor}
          ELSE {})
PyTerm(ts, shorter, i, j) ==
    PyFactor(ts, shorter, i, j) \cup PySplit(ts, shorter, i, j, Products, "term", "factor")
PySum(ts, shorter, i, j) ==
    PyTerm(ts, shorter, i, j) \cup PySplit(ts, shorter, i, j, Signs, "sum", "term")
PyExpression(ts, shorter, i, j) ==
    PySum(ts, shorter, i, j) \cup PySplit(ts, shorter, i, j, Comparators, "sum", "sum")
PyList(ts, shorter, i, j) ==
    {<<t>> : t \in PyExpression(ts, shorter, i, j)}
    \cup PySplit(ts, shorter, i, j, {","}, "list", "expression")

PyTrees(ts, shorter, i, j) ==
    [rule \in {"primary", "factor", "term", "sum", "expression", "list"} |->
        CASE rule = "primary" -> PyPrimary(ts, shorter, i, j)
          [] rule = "factor" -> PyFactor(ts, shorter, i, j)
          [] rule = "term" -> PyTerm(ts, shorter, i, j)
          [] rule = "sum" -> PySum(ts, shorter, i, j)
          [] rule = "expression" -> PyExpression(ts, shorter, i, j)
          [] rule = "list" -> PyList(ts, shorter, i, j)]

PyLonger(ts, size, shorter) ==
    [p \in Parts(Len(ts), size) |->
        IF p[2] - p[1] < size - 1 THEN shorter[p] ELSE PyTrees(ts, shorter, p[1], p[2])]
PyParts(ts) ==
    LET upTo[size \in 0..Len(ts)] ==
            IF size = 0 THEN <<>> ELSE PyLonger(ts, size, upTo[size - 1])
    IN upTo

\* evaluate_expression up to the values of the columns.
WorkerReads(ts) ==
    {t \in PyParts(ts)[Len(ts)][<<1, Len(ts)>>].expression : Valid(t, Len(ts))}
=============================================================================
