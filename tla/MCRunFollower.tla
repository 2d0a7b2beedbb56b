--------------------------- MODULE MCRunFollower ---------------------------
(***************************************************************************)
(* Two nodes side by side, two in a chain.                                 *)
(***************************************************************************)
EXTENDS RunFollower

Wired(E) == [edges |-> E, unwired |-> {}]

TwoNodeJobs == {Wired({}), Wired({[src |-> 1, dst |-> 2, port |-> "a"]})}
=============================================================================
