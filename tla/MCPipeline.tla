----------------------------- MODULE MCPipeline -----------------------------
(***************************************************************************)
(* Model values for Pipeline: two batches that need two requests each; in  *)
(* the second, the rule engine refuses the last invoice.                   *)
(***************************************************************************)
EXTENDS Pipeline

CONSTANTS t1, t2

Good   == [valid |-> TRUE, given |-> FALSE]
Named  == [valid |-> TRUE, given |-> TRUE]
Broken == [valid |-> FALSE, given |-> FALSE]

TwoRequests == <<Good, Good, Named>>
LateRefusal == <<Named, Good, Good, Broken>>

OneRequest  == <<Good>>
OnlyNamed   == <<Named, Named>>
Short       == {OneRequest, OnlyNamed}
TwoBatches  == {TwoRequests, LateRefusal}

=============================================================================
