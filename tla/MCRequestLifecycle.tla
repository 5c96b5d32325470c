------------------------- MODULE MCRequestLifecycle -------------------------
(* Instances of RequestLifecycle for TLC: one client, one class. *)
EXTENDS RequestLifecycle

CONSTANT client

OneClient == [r \in Requests |-> client]
OneClass == [r \in Requests |-> "normal"]
=============================================================================
