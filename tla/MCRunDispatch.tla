---------------------------- MODULE MCRunDispatch ----------------------------
(***************************************************************************)
(* Instances of RunDispatch for TLC.                                       *)
(***************************************************************************)
EXTENDS RunDispatch

NoForeign == {<<>>}
BothForeign == {<<Anonymous, Garbled>>}

=============================================================================
