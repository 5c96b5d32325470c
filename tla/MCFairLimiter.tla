---------------------------- MODULE MCFairLimiter ----------------------------
(* Instances for TLC of what may be under way at once: requests at the server  *)
(* (FairLimiter), and in each worker (ActiveLimits); `side` says which of the  *)
(* two moves in a behaviour.                                                   *)
EXTENDS FairLimiter, ActiveLimits

CONSTANTS a, b, i1, i2, n1, b1

VARIABLE side

(* A client may have several classes, but a class has only one client. *)
PlainRequests == {i1, i2, n1, b1}
ClientPerClass == [r \in PlainRequests |-> IF r \in {i1, i2} THEN a ELSE b]
PriorityByName ==
    [r \in Requests |-> IF r \in {i1, i2} THEN "interactive"
                        ELSE IF r = n1 THEN "normal" ELSE "background"]

(* The first model is in fixed mode. *)
SixForOne == [m \in Keys |-> IF m = "one" THEN 6 ELSE 8]

allVars == <<side, vars, limitVars>>

MCInit ==
    /\ Init /\ LimitsInit /\ side \in {"requests", "workers"}
    /\ side = "requests" => available = 30

Serves(Action) == side = "requests" /\ Action /\ UNCHANGED <<side, limitVars>>
Rebalances(Action) == side = "workers" /\ Action /\ UNCHANGED <<side, vars>>

MCNext == Serves(Next) \/ Rebalances(LimitsNext)

MCSpec ==
    /\ MCInit /\ [][MCNext]_allVars
    /\ \A r \in Requests : WF_allVars(Serves(Release(r)))
    /\ WF_allVars(Rebalances(Proceeds))
=============================================================================
