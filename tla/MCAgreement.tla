----------------------------- MODULE MCAgreement -----------------------------
(* Two blocks: one loads a dataset, the other needs it and may take a model; *)
(* the identifiers x and "x " are one to the worker.                         *)
EXTENDS Agreement

MCArity == [f \in {"abs", "pow"} |-> IF f = "abs" THEN {1} ELSE {2}]
MCStripped == [i \in {"x", "x ", "y"} |-> IF i = "x " THEN "x" ELSE i]

MCStore ==
    [d \in {"ready", "queued", "other"} |->
        [status |-> IF d = "queued" THEN "QUEUED" ELSE "READY",
         format |-> IF d = "other" THEN "json" ELSE "csv"]]

MCCatalogue ==
    [b \in {"load", "train"} |->
        IF b = "load"
        THEN [format |-> "csv", inputs |-> <<>>, optional |-> {}, outputs |-> [p \in {"o"} |-> "dataset"]]
        ELSE [format |-> "none",
              inputs |-> [p \in {"l", "r"} |-> IF p = "l" THEN "dataset" ELSE "model"],
              optional |-> {"r"}, outputs |-> [p \in {"o"} |-> "model"]]]
=============================================================================
