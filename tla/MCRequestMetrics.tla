-------------------------- MODULE MCRequestMetrics --------------------------
(* Constants and symmetry of the metrics model for TLC. *)
EXTENDS RequestMetrics, TLC
SomeResults == { [status |-> "ok", hit |-> "yes"], [status |-> "cancelled", hit |-> "no"],
                 [status |-> "error", hit |-> "none"] }
Symmetry == Permutations(Observed)
=============================================================================
