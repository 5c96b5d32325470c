--------------------------- MODULE MCServerLifecycle ---------------------------
(***************************************************************************)
(* Constants and symmetry for checking ServerLifecycle.                    *)
(***************************************************************************)
EXTENDS ServerLifecycle, TLC

(* The other two kinds, stop --force and a plain restart, take no branch    *)
(* these do not.                                                           *)
SomeKinds == {"start", "stop", "restart --force"}

Symmetry == Permutations(Commands) \cup Permutations(Pids)

=============================================================================
