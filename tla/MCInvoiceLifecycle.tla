------------------------- MODULE MCInvoiceLifecycle -------------------------
(***************************************************************************)
(* Model values for InvoiceLifecycle: a valid invoice, one the rule engine *)
(* refuses, and one that voids the first tax id issued.                    *)
(***************************************************************************)
EXTENDS InvoiceLifecycle, TLC

CONSTANTS w1, w2, r1, r2

Plain   == [valid |-> TRUE, voids |-> 0, taxid |-> 0]
Broken  == [valid |-> FALSE, voids |-> 0, taxid |-> 0]
Voiding == [valid |-> TRUE, voids |-> 1, taxid |-> 0]

Entered    == {Plain, Broken, Voiding}
EnteredFew == {Plain, Voiding}

\* Swapping the two requests together with their workers changes nothing.
Mirror == {(r1 :> r2) @@ (r2 :> r1) @@ (w1 :> w2) @@ (w2 :> w1)}

OneWorker  == [r \in Request |-> w1]
TwoWorkers == (r1 :> w1) @@ (r2 :> w2)

=============================================================================
