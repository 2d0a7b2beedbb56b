------------------------------ MODULE Agreement ------------------------------
(***************************************************************************)
(* What two programs decide about the same thing.  The TypeScript side     *)
(* decides first and the user is told; the Python worker decides again     *)
(* when a run reaches it.  A formula is written token by token beside the  *)
(* graphs and dataset files of Gates.                                      *)
(***************************************************************************)
EXTENDS Expressions, Gates

CONSTANT MaxTokens    \* length of a formula

Formula(ts) == [kind |-> "formula", tokens |-> ts]

Init == artifact = Formula(<<>>) \/ Submitted

\* A token that the parser does not refuse by itself: what follows a refused
\* token is never read.
Type(token) ==
    LET longer == Append(artifact.tokens, token)
        r == Parsed(longer)
    IN /\ artifact.kind = "formula" /\ Len(longer) <= MaxTokens
       /\ Failed(r) => r.at > Len(longer)
       /\ artifact' = Formula(longer)

Next == (\E token \in Tokens : Type(token)) \/ Assemble

Spec == Init /\ [][Next]_artifact

-----------------------------------------------------------------------------
(* A formula that the API accepts has one reading in Python, and it is the  *)
(* engine's: precedence, associativity, the sign of a power and the         *)
(* arguments of a call agree.  The one exception the two parsers have is a  *)
(* column that bears a keyword of Python.                                   *)
SameReading ==
    artifact.kind = "formula" =>
        LET ts == artifact.tokens IN
        EngineAccepts(ts) /\ (\A i \in DOMAIN ts : ts[i] \notin Keywords)
            => WorkerReads(ts) = {Parsed(ts).tree}
==============================================================================
