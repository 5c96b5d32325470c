-------------------------- MODULE MCModelResidency ---------------------------
(* Constants of the residency model for TLC. *)
EXTENDS ModelResidency, TLC
CONSTANTS a, b, c1, c2, l1
MCModelOf == c1 :> a @@ c2 :> a @@ l1 :> b
MCSize == a :> 1 @@ b :> 1
=============================================================================
