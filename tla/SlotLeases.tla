----------------------------- MODULE SlotLeases -----------------------------
(***************************************************************************)
(* What the cache coordinator promises its backends, without saying how    *)
(* slots are chosen: a plan is granted a set of slots to write and a set   *)
(* to read.  Until it finishes nobody else changes the slots it writes,    *)
(* and the slots it reads only grow.                                       *)
(***************************************************************************)
EXTENDS Integers, Sequences

CONSTANTS Slots, Plans, None

VARIABLES
    writer,   \* the plan that holds the write lease of a slot
    readers,  \* how many plans read a slot
    content,  \* tag and tokens of a slot
    granted   \* the leases of each plan

leaseVars == <<writer, readers, content, granted>>

Extends(old, new) ==
    /\ new.tag = old.tag
    /\ Len(old.tokens) <= Len(new.tokens)
    /\ \A i \in 1 .. Len(old.tokens) : new.tokens[i] = old.tokens[i]

Init ==
    /\ writer = [s \in Slots |-> None]
    /\ readers = [s \in Slots |-> 0]
    /\ \A s \in Slots : content[s].tokens = <<>>
    /\ granted = [p \in Plans |-> None]

Acquire(p, write, read) ==
    /\ granted[p] = None
    /\ write \cap read = {}
    /\ \A s \in write : writer[s] = None /\ readers[s] = 0
    /\ \A s \in read : writer[s] = None
    /\ granted' = [granted EXCEPT ![p] = [write |-> write, read |-> read]]
    /\ writer' = [s \in Slots |-> IF s \in write THEN p ELSE writer[s]]
    /\ readers' = [s \in Slots |->
                      IF s \in read THEN readers[s] + 1 ELSE readers[s]]
    /\ UNCHANGED content

(* The plan may have put anything in the slots it was granted to write. *)
Finish(p) ==
    /\ granted[p] # None
    /\ granted' = [granted EXCEPT ![p] = None]
    /\ writer' = [s \in Slots |->
                     IF s \in granted[p].write THEN None ELSE writer[s]]
    /\ readers' = [s \in Slots |->
                      IF s \in granted[p].read THEN readers[s] - 1
                      ELSE readers[s]]
    /\ \A s \in Slots \ granted[p].write : content'[s] = content[s]

Extend(s) ==
    /\ writer[s] = None
    /\ Extends(content[s], content'[s])
    /\ \A o \in Slots \ {s} : content'[o] = content[o]
    /\ UNCHANGED <<writer, readers, granted>>

Replace(s) ==
    /\ writer[s] = None /\ readers[s] = 0
    /\ \A o \in Slots \ {s} : content'[o] = content[o]
    /\ UNCHANGED <<writer, readers, granted>>

(* Every plan is forgotten and every slot emptied. *)
Wipe == Init'

Next ==
    \/ \E p \in Plans, write, read \in SUBSET Slots : Acquire(p, write, read)
    \/ \E p \in Plans : Finish(p)
    \/ \E s \in Slots : Extend(s) \/ Replace(s)
    \/ Wipe

Spec == Init /\ [][Next]_leaseVars
=============================================================================
