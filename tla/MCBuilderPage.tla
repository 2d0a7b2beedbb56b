---------------------------- MODULE MCBuilderPage ----------------------------
(* Three blocks: two fit the input of the third, which fits that of one of   *)
(* them.  An earlier visit left nothing, or two connected and grouped blocks *)
(* and one that is free.                                                     *)
EXTENDS BuilderPage

MCBlocks == {"load", "other", "scale"}
MCFits == {<<"load", "scale", "in">>, <<"other", "scale", "in">>, <<"scale", "load", "in">>}

Trio ==
    [Empty EXCEPT !.config = [b \in MCBlocks |-> "v1"],
                  !.parent = [b \in MCBlocks |-> IF b = "other" THEN None ELSE "box"],
                  !.groups = {"box"}, !.edges = {<<"load", "scale", "in">>}]

MCDrafts == {None, Trio}
MCDemo == [Empty EXCEPT !.config["load"] = "v1"]
=============================================================================
