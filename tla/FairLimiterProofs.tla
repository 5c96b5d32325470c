------------------------- MODULE FairLimiterProofs -------------------------
(***************************************************************************)
(* Theorems about FairLimiter, for any number of requests and clients, any *)
(* limit and any queue depth.                                              *)
(***************************************************************************)
EXTENDS FairLimiter, FiniteSetTheorems, SequenceTheorems, TLAPS

-----------------------------------------------------------------------------
(* The schedule. *)

(* How many turns of the schedule lie before the next turn of class c.     *)
Ahead(c, i) ==
    CASE c = "interactive" -> IF i < 4 THEN 0 ELSE 7 - i
      [] c = "normal" -> IF i < 4 THEN 4 - i ELSE IF i < 6 THEN 0 ELSE 5
      [] OTHER -> 6 - i

(* It is the turn of c after Ahead(c, i) turns.                            *)
LEMMA AheadIsTurn ==
    ASSUME NEW i \in 0 .. 6, NEW c \in Priorities
    PROVE  /\ Ahead(c, i) \in Nat /\ Ahead(c, i) <= MostPassed[c]
           /\ ClassAt(i + Ahead(c, i)) = c
  <1>1. CASE c = "interactive"
    BY <1>1 DEF Ahead, ClassAt, Cycle, MostPassed
  <1>2. CASE c = "normal"
    BY <1>2 DEF Ahead, ClassAt, Cycle, MostPassed
  <1>3. CASE c = "background"
    BY <1>3 DEF Ahead, ClassAt, Cycle, MostPassed
  <1> QED BY <1>1, <1>2, <1>3 DEF Priorities

(* Turns that are not those of c bring the turn of c nearer.               *)
LEMMA TurnPasses ==
    ASSUME NEW i \in 0 .. 6, NEW o \in 0 .. 6, NEW c \in Priorities,
           \A k \in 0 .. o : ClassAt(i + k) # c
    PROVE  /\ (i + o + 1) % Cycle \in 0 .. 6
           /\ Ahead(c, (i + o + 1) % Cycle) = Ahead(c, i) - o - 1
  <1>1. Ahead(c, i) \in Nat /\ Ahead(c, i) > o
    <2>1. Ahead(c, i) \in Nat /\ ClassAt(i + Ahead(c, i)) = c
      BY AheadIsTurn
    <2> QED BY <2>1
  <1>2. (i + o + 1) % Cycle = IF i + o + 1 < 7 THEN i + o + 1 ELSE i + o - 6
    BY DEF Cycle
  <1>3. CASE c = "interactive"
    BY <1>1, <1>2, <1>3 DEF Ahead
  <1>4. CASE c = "normal"
    BY <1>1, <1>2, <1>4 DEF Ahead
  <1>5. CASE c = "background"
    BY <1>1, <1>2, <1>5 DEF Ahead
  <1> QED BY <1>2, <1>3, <1>4, <1>5 DEF Priorities

-----------------------------------------------------------------------------
(* Queues and counters, as functions of the values a call works on. *)

Total(q) == Len(q["interactive"]) + Len(q["normal"]) + Len(q["background"])

QueuesOK(q, promises, fired) ==
    /\ q \in [Priorities -> Seq(Requests)]
    /\ \A c \in Priorities :
          /\ \A i, j \in 1 .. Len(q[c]) : q[c][i] = q[c][j] => i = j
          /\ \A i \in 1 .. Len(q[c]) :
                /\ promises[q[c][i]] = "pending"
                /\ PriorityOf[q[c][i]] = c
                /\ q[c][i] \notin fired

Holders(promises) == {r \in Requests : promises[r] = "granted"}

(* How many elements of S a function F maps to c.                          *)
Count(S, F, c) == Cardinality({x \in S : F[x] = c})

Counters == [inflight : Nat, byPriority : [Priorities -> Nat],
             perClient : [Clients -> Nat]]

CountersOK(h, promises) ==
    /\ h \in Counters
    /\ h.inflight = Cardinality(Holders(promises))
    /\ \A c \in Priorities :
          h.byPriority[c] = Count(Holders(promises), PriorityOf, c)
    /\ \A k \in Clients :
          h.perClient[k] = Count(Holders(promises), ClientOf, k)

(* Removing a waiter keeps the others, in order.                           *)
LEMMA RemoveAtKeeps ==
    ASSUME NEW S, NEW s \in Seq(S), NEW i \in 1 .. Len(s)
    PROVE  /\ RemoveAt(s, i) \in Seq(S)
           /\ Len(RemoveAt(s, i)) = Len(s) - 1
           /\ \A j \in 1 .. Len(s) - 1 :
                 RemoveAt(s, i)[j] = IF j < i THEN s[j] ELSE s[j + 1]
  <1> DEFINE front == SubSeq(s, 1, i - 1)
             back == SubSeq(s, i + 1, Len(s))
  <1>1. /\ front \in Seq(S) /\ Len(front) = i - 1
        /\ \A j \in 1 .. i - 1 : front[j] = s[j]
    BY SubSeqProperties
  <1>2. /\ back \in Seq(S) /\ Len(back) = Len(s) - i
        /\ \A j \in 1 .. Len(s) - i : back[j] = s[i + j]
    BY SubSeqProperties
  <1> HIDE DEF front, back
  <1>3. /\ front \o back \in Seq(S) /\ Len(front \o back) = Len(s) - 1
        /\ \A j \in 1 .. Len(s) - 1 :
              (front \o back)[j] = IF j <= i - 1 THEN front[j]
                                   ELSE back[j - (i - 1)]
    BY <1>1, <1>2, ConcatProperties
  <1>4. ASSUME NEW j \in 1 .. Len(s) - 1
        PROVE  (front \o back)[j] = IF j < i THEN s[j] ELSE s[j + 1]
    <2>1. CASE j < i
      BY <1>1, <1>3, <2>1
    <2>2. CASE ~(j < i)
      <3>1. j - (i - 1) \in 1 .. Len(s) - i /\ i + (j - (i - 1)) = j + 1
        BY <2>2
      <3>2. back[j - (i - 1)] = s[i + (j - (i - 1))]
        BY <1>2, <3>1
      <3> QED BY <1>3, <2>2, <3>1, <3>2
    <2> QED BY <2>1, <2>2
  <1> QED BY <1>3, <1>4 DEF RemoveAt, front, back

CountsOneMore(S, r, F, c) ==
    /\ Count(S, F, c) \in Nat
    /\ Count(S \cup {r}, F, c)
         = Count(S, F, c) + (IF F[r] = c THEN 1 ELSE 0)

(* One more request in a set is one more in its class.                     *)
LEMMA CountedOnceMore ==
    ASSUME NEW S, IsFiniteSet(S), NEW r, r \notin S, NEW F, NEW c
    PROVE  CountsOneMore(S, r, F, c)
  <1> DEFINE old == {x \in S : F[x] = c}
  <1>1. IsFiniteSet(old) /\ r \notin old
    BY FS_Subset
  <1>2. Count(S, F, c) = Cardinality(old) /\ Count(S, F, c) \in Nat
    BY <1>1, FS_CardinalityType DEF Count
  <1>3. ASSUME F[r] = c
        PROVE  Count(S \cup {r}, F, c) = Count(S, F, c) + 1
    <2>1. {x \in S \cup {r} : F[x] = c} = old \cup {r}
      BY <1>3
    <2>2. Cardinality(old \cup {r}) = Cardinality(old) + 1
      BY <1>1, FS_AddElement
    <2>3. Count(S \cup {r}, F, c) = Cardinality(old) + 1
      BY <2>1, <2>2 DEF Count
    <2> HIDE DEF old
    <2> QED BY <1>2, <1>3, <2>3
  <1>4. ASSUME F[r] # c
        PROVE  Count(S \cup {r}, F, c) = Count(S, F, c)
    <2>1. {x \in S \cup {r} : F[x] = c} = old
      BY <1>4
    <2>2. Count(S \cup {r}, F, c) = Cardinality(old)
      BY <2>1 DEF Count
    <2> HIDE DEF old
    <2> QED BY <1>2, <1>4, <2>2
  <1> QED BY <1>2, <1>3, <1>4 DEF CountsOneMore

(* The counters follow a request that gets a slot, ...                     *)
LEMMA AdmitCounted ==
    ASSUME NEW h, NEW promises \in [Requests -> Promises], NEW r \in Requests,
           CountersOK(h, promises), promises[r] # "granted"
    PROVE  CountersOK(Admit(h, r), [promises EXCEPT ![r] = "granted"])
  <1> DEFINE after == [promises EXCEPT ![r] = "granted"]
             old == Holders(promises)
  <1>1. Holders(after) = old \cup {r} /\ r \notin old
    BY DEF Holders
  <1>2. IsFiniteSet(old)
    BY LimiterAssumption, FS_Subset DEF Holders
  <1>3. Cardinality(old \cup {r}) = Cardinality(old) + 1
    BY <1>1, <1>2, FS_AddElement
  <1>4. PriorityOf[r] \in Priorities /\ ClientOf[r] \in Clients
    BY LimiterAssumption
  <1>5. /\ h \in Counters /\ Admit(h, r) \in Counters
        /\ Admit(h, r).inflight = h.inflight + 1
        /\ \A c \in Priorities : Admit(h, r).byPriority[c]
              = h.byPriority[c] + (IF PriorityOf[r] = c THEN 1 ELSE 0)
        /\ \A k \in Clients : Admit(h, r).perClient[k]
              = h.perClient[k] + (IF ClientOf[r] = k THEN 1 ELSE 0)
    BY <1>4 DEF Admit, Moved, CountersOK, Counters
  <1> HIDE DEF after, old
  <1>6. \A c \in Priorities : Admit(h, r).byPriority[c]
           = Count(Holders(after), PriorityOf, c)
    <2> TAKE c \in Priorities
    <2>1. h.byPriority[c] = Count(old, PriorityOf, c)
      BY DEF CountersOK, old
    <2>2. CountsOneMore(old, r, PriorityOf, c)
      BY <1>1, <1>2, CountedOnceMore
    <2> QED BY <1>1, <1>5, <2>1, <2>2 DEF CountsOneMore
  <1>7. \A k \in Clients : Admit(h, r).perClient[k]
           = Count(Holders(after), ClientOf, k)
    <2> TAKE k \in Clients
    <2>1. h.perClient[k] = Count(old, ClientOf, k)
      BY DEF CountersOK, old
    <2>2. CountsOneMore(old, r, ClientOf, k)
      BY <1>1, <1>2, CountedOnceMore
    <2> QED BY <1>1, <1>5, <2>1, <2>2 DEF CountsOneMore
  <1>8. Admit(h, r).inflight = Cardinality(Holders(after))
    BY <1>1, <1>3, <1>5 DEF CountersOK, old
  <1>9. CountersOK(Admit(h, r), after)
    BY <1>5, <1>6, <1>7, <1>8 DEF CountersOK
  <1> QED BY <1>9 DEF after

(* ... and one that gives its slot back.                                   *)
LEMMA ReturnCounted ==
    ASSUME NEW h, NEW promises \in [Requests -> Promises], NEW r \in Requests,
           CountersOK(h, promises), promises[r] = "granted",
           NEW p, p # "granted"
    PROVE  CountersOK(Return(h, r), [promises EXCEPT ![r] = p])
  <1> DEFINE after == [promises EXCEPT ![r] = p]
             new == Holders(after)
  <1>1. Holders(promises) = new \cup {r} /\ r \notin new
    BY DEF Holders
  <1>2. IsFiniteSet(new)
    BY LimiterAssumption, FS_Subset DEF Holders
  <1>3. /\ Cardinality(new \cup {r}) = Cardinality(new) + 1
        /\ Cardinality(new) \in Nat
    BY <1>1, <1>2, FS_AddElement, FS_CardinalityType
  <1>4. PriorityOf[r] \in Priorities /\ ClientOf[r] \in Clients
    BY LimiterAssumption
  <1>5. /\ h \in Counters
        /\ Return(h, r).inflight = h.inflight - 1
        /\ DOMAIN Return(h, r).byPriority = Priorities
        /\ DOMAIN Return(h, r).perClient = Clients
        /\ \A c \in Priorities : Return(h, r).byPriority[c]
              = h.byPriority[c] - (IF PriorityOf[r] = c THEN 1 ELSE 0)
        /\ \A k \in Clients : Return(h, r).perClient[k]
              = h.perClient[k] - (IF ClientOf[r] = k THEN 1 ELSE 0)
    BY <1>4 DEF Return, Moved, CountersOK, Counters
  <1> HIDE DEF after, new
  <1>6. \A c \in Priorities :
           /\ Return(h, r).byPriority[c] \in Nat
           /\ Return(h, r).byPriority[c]
                = Count(new, PriorityOf, c)
    <2> TAKE c \in Priorities
    <2>1. h.byPriority[c] = Count(new \cup {r}, PriorityOf, c)
      BY <1>1 DEF CountersOK
    <2>2. CountsOneMore(new, r, PriorityOf, c)
      BY <1>1, <1>2, CountedOnceMore
    <2> QED BY <1>1, <1>5, <2>1, <2>2 DEF CountsOneMore
  <1>7. \A k \in Clients :
           /\ Return(h, r).perClient[k] \in Nat
           /\ Return(h, r).perClient[k]
                = Count(new, ClientOf, k)
    <2> TAKE k \in Clients
    <2>1. h.perClient[k] = Count(new \cup {r}, ClientOf, k)
      BY <1>1 DEF CountersOK
    <2>2. CountsOneMore(new, r, ClientOf, k)
      BY <1>1, <1>2, CountedOnceMore
    <2> QED BY <1>1, <1>5, <2>1, <2>2 DEF CountsOneMore
  <1>8. Return(h, r).inflight = Cardinality(new) /\ Return(h, r).inflight \in Nat
    <2>1. h.inflight = Cardinality(new \cup {r})
      BY <1>1 DEF CountersOK
    <2> QED BY <1>3, <1>5, <2>1
  <1>9. Return(h, r) \in Counters
    <2>1. /\ Return(h, r).byPriority \in [Priorities -> Nat]
          /\ Return(h, r).perClient \in [Clients -> Nat]
      BY <1>5, <1>6, <1>7 DEF Return, Moved
    <2> QED BY <1>8, <2>1 DEF Return, Moved, Counters
  <1>10. CountersOK(Return(h, r), after)
    BY <1>6, <1>7, <1>8, <1>9 DEF CountersOK, new
  <1> QED BY <1>10 DEF after

-----------------------------------------------------------------------------
(* The invariant, and what a call must establish before it dispatches.      *)

TurnsOK(queues, over, i) ==
    \A c \in Priorities :
        /\ over[c] \in Nat
        /\ queues[c] = <<>> => over[c] = 0
        /\ over[c] + Ahead(c, i) <= MostPassed[c]

LInv ==
    /\ promise \in [Requests -> Promises] /\ aborted \subseteq Requests
    /\ scheduleIndex \in 0 .. 6 /\ passed \in [Priorities -> Nat]
    /\ QueuesOK(waiters, promise, aborted)
    /\ Total(waiters) <= QueueDepth
    /\ CountersOK(held, promise)
    /\ held.inflight <= MaxInflight
    /\ Total(waiters) > 0 => held.inflight >= MaxInflight
    /\ TurnsOK(waiters, passed, scheduleIndex)

Dispatchable(queues, counters, promises, fired) ==
    /\ promises \in [Requests -> Promises] /\ fired \subseteq Requests
    /\ scheduleIndex \in 0 .. 6 /\ passed \in [Priorities -> Nat]
    /\ QueuesOK(queues, promises, fired)
    /\ Total(queues) <= QueueDepth
    /\ CountersOK(counters, promises)
    /\ counters.inflight <= MaxInflight
    /\ Total(queues) > 0 => counters.inflight >= MaxInflight - 1
    /\ TurnsOK(queues, passed, scheduleIndex)

(* The waiter at i leaves the queue of class c and its promise becomes p.   *)
RemovedOK(q, promises, fired, c, i, p) ==
    /\ q[c][i] \in Requests /\ PriorityOf[q[c][i]] = c
    /\ promises[q[c][i]] = "pending"
    /\ QueuesOK([q EXCEPT ![c] = RemoveAt(@, i)],
                [promises EXCEPT ![q[c][i]] = p], fired)
    /\ Total([q EXCEPT ![c] = RemoveAt(@, i)]) = Total(q) - 1
    /\ Total(q) \in Nat

LEMMA WaiterRemoved ==
    ASSUME NEW q, NEW promises \in [Requests -> Promises], NEW fired,
           QueuesOK(q, promises, fired),
           NEW c \in Priorities, NEW i \in 1 .. Len(q[c]), NEW p
    PROVE  RemovedOK(q, promises, fired, c, i, p)
  <1> DEFINE r == q[c][i]
             s == RemoveAt(q[c], i)
             q2 == [q EXCEPT ![c] = s]
             promises2 == [promises EXCEPT ![r] = p]
  <1>1. q[c] \in Seq(Requests) /\ r \in Requests /\ PriorityOf[r] = c
        /\ promises[r] = "pending"
    BY DEF QueuesOK
  <1>2. /\ s \in Seq(Requests) /\ Len(s) = Len(q[c]) - 1
        /\ \A j \in 1 .. Len(q[c]) - 1 :
              s[j] = IF j < i THEN q[c][j] ELSE q[c][j + 1]
    BY <1>1, RemoveAtKeeps
  <1>3. ASSUME NEW j \in 1 .. Len(s)
        PROVE  \E k \in 1 .. Len(q[c]) : s[j] = q[c][k] /\ k # i
                 /\ k = IF j < i THEN j ELSE j + 1
    BY <1>1, <1>2
  <1> HIDE DEF s
  <1>4. q2 \in [Priorities -> Seq(Requests)]
        /\ q2[c] = s /\ \A d \in Priorities \ {c} : q2[d] = q[d]
    BY <1>2 DEF QueuesOK
  <1>5. \A x \in Requests : x # r => promises2[x] = promises[x]
    OBVIOUS
  <1>6. ASSUME NEW d \in Priorities
        PROVE  /\ \A j, k \in 1 .. Len(q2[d]) : q2[d][j] = q2[d][k] => j = k
               /\ \A j \in 1 .. Len(q2[d]) :
                     /\ promises2[q2[d][j]] = "pending"
                     /\ PriorityOf[q2[d][j]] = d
                     /\ q2[d][j] \notin fired
    <2>1. CASE d = c
      <3>1. ASSUME NEW j \in 1 .. Len(s)
            PROVE  /\ s[j] # r /\ s[j] \in Requests
                   /\ promises[s[j]] = "pending" /\ PriorityOf[s[j]] = c
                   /\ s[j] \notin fired
        <4>1. PICK k \in 1 .. Len(q[c]) : s[j] = q[c][k] /\ k # i
          BY <1>3
        <4> QED BY <1>1, <4>1 DEF QueuesOK
      <3>2. ASSUME NEW j \in 1 .. Len(s), NEW k \in 1 .. Len(s), s[j] = s[k]
            PROVE  j = k
        <4>1. PICK j1 \in 1 .. Len(q[c]) :
                 s[j] = q[c][j1] /\ j1 = IF j < i THEN j ELSE j + 1
          BY <1>3
        <4>2. PICK k1 \in 1 .. Len(q[c]) :
                 s[k] = q[c][k1] /\ k1 = IF k < i THEN k ELSE k + 1
          BY <1>3
        <4>3. q[c][j1] = q[c][k1]
          BY <3>2, <4>1, <4>2
        <4>4. \A m, n \in 1 .. Len(q[c]) : q[c][m] = q[c][n] => m = n
          BY DEF QueuesOK
        <4>5. j1 = k1
          BY <4>3, <4>4
        <4> QED BY <1>2, <4>1, <4>2, <4>5
      <3> QED BY <1>4, <1>5, <2>1, <3>1, <3>2
    <2>2. CASE d # c
      <3>1. q2[d] = q[d]
        BY <1>4, <2>2
      <3>2. \A j \in 1 .. Len(q[d]) : q[d][j] # r /\ q[d][j] \in Requests
        BY <1>1, <2>2 DEF QueuesOK
      <3> QED BY <1>5, <3>1, <3>2 DEF QueuesOK
    <2> QED BY <2>1, <2>2
  <1>7. QueuesOK(q2, promises2, fired)
    BY <1>4, <1>6 DEF QueuesOK
  <1>8. Total(q2) = Total(q) - 1 /\ Total(q) \in Nat
    <2>1. \A d \in Priorities : Len(q[d]) \in Nat /\ Len(q2[d]) \in Nat
      BY <1>4 DEF QueuesOK
    <2>2. Len(q2[c]) = Len(q[c]) - 1
          /\ \A d \in Priorities \ {c} : Len(q2[d]) = Len(q[d])
      BY <1>2, <1>4
    <2> HIDE DEF q2
    <2>0. /\ Len(q["interactive"]) \in Nat /\ Len(q["normal"]) \in Nat
          /\ Len(q["background"]) \in Nat
      BY <2>1 DEF Priorities
    <2> DEFINE li == Len(q["interactive"])  li2 == Len(q2["interactive"])
               ln == Len(q["normal"])       ln2 == Len(q2["normal"])
               lb == Len(q["background"])   lb2 == Len(q2["background"])
    <2>8. li \in Nat /\ ln \in Nat /\ lb \in Nat
      BY <2>0
    <2>6. Total(q) = li + ln + lb /\ Total(q2) = li2 + ln2 + lb2
      BY DEF Total
    <2> HIDE DEF li, ln, lb, li2, ln2, lb2
    <2>7. ASSUME li2 + ln2 + lb2 = li + ln + lb - 1
          PROVE  Total(q2) = Total(q) - 1 /\ Total(q) \in Nat
      <3> DEFINE t == Total(q)  t2 == Total(q2)
      <3>1. t = li + ln + lb /\ t2 = li2 + ln2 + lb2
        BY <2>6
      <3> HIDE DEF t, t2
      <3>2. t2 = t - 1 /\ t \in Nat
        BY <2>7, <2>8, <3>1
      <3> QED BY <3>2 DEF t, t2
    <2>3. CASE c = "interactive"
      <3>1. Len(q2["interactive"]) = Len(q["interactive"]) - 1
        BY <2>2, <2>3
      <3>2. /\ Len(q2["normal"]) = Len(q["normal"])
            /\ Len(q2["background"]) = Len(q["background"])
        BY <2>2, <2>3 DEF Priorities
      <3> QED BY <2>0, <2>7, <3>1, <3>2 DEF li, ln, lb, li2, ln2, lb2
    <2>4. CASE c = "normal"
      <3>1. Len(q2["normal"]) = Len(q["normal"]) - 1
        BY <2>2, <2>4
      <3>2. /\ Len(q2["interactive"]) = Len(q["interactive"])
            /\ Len(q2["background"]) = Len(q["background"])
        BY <2>2, <2>4 DEF Priorities
      <3> QED BY <2>0, <2>7, <3>1, <3>2 DEF li, ln, lb, li2, ln2, lb2
    <2>5. CASE c = "background"
      <3>1. Len(q2["background"]) = Len(q["background"]) - 1
        BY <2>2, <2>5
      <3>2. /\ Len(q2["interactive"]) = Len(q["interactive"])
            /\ Len(q2["normal"]) = Len(q["normal"])
        BY <2>2, <2>5 DEF Priorities
      <3> QED BY <2>0, <2>7, <3>1, <3>2 DEF li, ln, lb, li2, ln2, lb2
    <2> QED BY <2>3, <2>4, <2>5 DEF Priorities
  <1> QED BY <1>1, <1>7, <1>8 DEF s, RemovedOK
-----------------------------------------------------------------------------
(* One turn of dispatchNext restores the invariant. *)

(* Nobody is dispatched: no slot is free or nobody waits.                   *)
LEMMA NobodyDispatched ==
    ASSUME NEW q, NEW h, NEW promises, NEW fired,
           Dispatchable(q, h, promises, fired),
           h.inflight >= MaxInflight \/ \A c \in Priorities : q[c] = <<>>,
           waiters' = q, held' = h, promise' = promises, aborted' = fired,
           passed' = PassedOver(q, {}, 0), scheduleIndex' = scheduleIndex
    PROVE  LInv'
  <1>1. /\ promises \in [Requests -> Promises] /\ fired \subseteq Requests
        /\ scheduleIndex \in 0 .. 6 /\ passed \in [Priorities -> Nat]
        /\ QueuesOK(q, promises, fired) /\ Total(q) <= QueueDepth
        /\ CountersOK(h, promises) /\ h.inflight <= MaxInflight
        /\ TurnsOK(q, passed, scheduleIndex)
    BY DEF Dispatchable
  <1>2. \A c \in Priorities :
           passed'[c] = IF q[c] = <<>> THEN 0 ELSE passed[c]
    BY <1>1 DEF PassedOver
  <1>3. passed' \in [Priorities -> Nat]
    BY <1>1 DEF PassedOver
  <1>4. TurnsOK(q, passed', scheduleIndex)
    <2> SUFFICES ASSUME NEW c \in Priorities
                 PROVE  /\ passed'[c] \in Nat
                        /\ q[c] = <<>> => passed'[c] = 0
                        /\ passed'[c] + Ahead(c, scheduleIndex) <= MostPassed[c]
      BY DEF TurnsOK
    <2>1. /\ Ahead(c, scheduleIndex) \in Nat
          /\ Ahead(c, scheduleIndex) <= MostPassed[c]
      BY <1>1, AheadIsTurn
    <2>2. passed[c] + Ahead(c, scheduleIndex) <= MostPassed[c]
      BY <1>1 DEF TurnsOK
    <2>3. passed'[c] = 0 \/ passed'[c] = passed[c]
      BY <1>2
    <2>4. CASE passed'[c] = 0
      <3>1. 0 + Ahead(c, scheduleIndex) <= MostPassed[c]
        BY <2>1
      <3> QED BY <2>4, <3>1
    <2>5. CASE passed'[c] = passed[c]
      BY <1>2, <1>3, <2>2, <2>5
    <2> QED BY <2>3, <2>4, <2>5
  <1>5. Total(q) > 0 => h.inflight >= MaxInflight
    <2>1. ASSUME \A c \in Priorities : q[c] = <<>>
          PROVE  Total(q) = 0
      <3>1. /\ q["interactive"] = <<>> /\ q["normal"] = <<>>
            /\ q["background"] = <<>>
        BY <2>1 DEF Priorities
      <3> QED BY <3>1 DEF Total
    <2> QED BY <2>1
  <1> QED BY <1>1, <1>3, <1>4, <1>5 DEF LInv

(* A waiter is dispatched: the class at offset o gets this turn.           *)
LEMMA WaiterDispatched ==
    ASSUME NEW q, NEW h, NEW promises, NEW fired,
           Dispatchable(q, h, promises, fired), h.inflight < MaxInflight,
           NEW o \in NextOffset(q),
           NEW i \in DOMAIN q[ClassAt(scheduleIndex + o)],
           LET class == ClassAt(scheduleIndex + o)
               r == q[class][i]
           IN  /\ waiters' = [q EXCEPT ![class] = RemoveAt(@, i)]
               /\ held' = Admit(h, r)
               /\ promise' = [promises EXCEPT ![r] = "granted"]
               /\ scheduleIndex' = (scheduleIndex + o + 1) % Cycle
               /\ passed' = PassedOver(waiters', {class}, 1),
           aborted' = fired
    PROVE  LInv'
  <1> DEFINE class == ClassAt(scheduleIndex + o)
             r == q[class][i]
             q2 == [q EXCEPT ![class] = RemoveAt(@, i)]
             promises2 == [promises EXCEPT ![r] = "granted"]
  <1>1. /\ promises \in [Requests -> Promises] /\ fired \subseteq Requests
        /\ scheduleIndex \in 0 .. 6 /\ passed \in [Priorities -> Nat]
        /\ QueuesOK(q, promises, fired) /\ Total(q) <= QueueDepth
        /\ CountersOK(h, promises)
        /\ Total(q) > 0 => h.inflight >= MaxInflight - 1
        /\ TurnsOK(q, passed, scheduleIndex)
    BY DEF Dispatchable
  <1>2. /\ o \in 0 .. 6 /\ q[class] # <<>>
        /\ \A k \in 0 .. o - 1 : q[ClassAt(scheduleIndex + k)] = <<>>
    BY DEF NextOffset, Cycle
  <1>3. class \in Priorities
    BY <1>1, <1>2 DEF ClassAt, Priorities, Cycle
  <1>4. i \in 1 .. Len(q[class])
    BY <1>1, <1>3 DEF QueuesOK
  <1>5. /\ r \in Requests /\ promises[r] = "pending"
        /\ QueuesOK(q2, promises2, fired)
        /\ Total(q2) = Total(q) - 1 /\ Total(q) \in Nat
    <2>1. RemovedOK(q, promises, fired, class, i, "granted")
      <3> HIDE DEF class
      <3> QED BY <1>1, <1>3, <1>4, WaiterRemoved
    <2> QED BY <2>1 DEF RemovedOK
  <1>6. CountersOK(Admit(h, r), promises2)
    BY <1>1, <1>5, AdmitCounted
  <1>7. /\ waiters' = q2 /\ held' = Admit(h, r) /\ promise' = promises2
        /\ scheduleIndex' = (scheduleIndex + o + 1) % Cycle
        /\ passed' = PassedOver(q2, {class}, 1)
    OBVIOUS
  <1>8. promises2 \in [Requests -> Promises]
    BY <1>1 DEF Promises
  <1>9. /\ Admit(h, r).inflight = h.inflight + 1 /\ h.inflight \in Nat
        /\ MaxInflight \in Nat
    BY <1>1, LimiterAssumption DEF Admit, Moved, CountersOK, Counters
  <1>10. scheduleIndex' \in 0 .. 6
    BY <1>1, <1>2, <1>7 DEF Cycle
  <1>11. \A c \in Priorities \ {class} : q2[c] = q[c]
    BY <1>1 DEF QueuesOK
  <1> HIDE DEF q2, promises2, class, r
  <1>12. \A c \in Priorities : passed'[c]
            = IF q2[c] = <<>> \/ c = class THEN 0 ELSE passed[c] + 1
    BY <1>7 DEF PassedOver
  <1>13. passed' \in [Priorities -> Nat]
    BY <1>1, <1>7 DEF PassedOver
  <1>14. TurnsOK(q2, passed', scheduleIndex')
    <2> SUFFICES ASSUME NEW c \in Priorities
                 PROVE  /\ passed'[c] \in Nat
                        /\ q2[c] = <<>> => passed'[c] = 0
                        /\ passed'[c] + Ahead(c, scheduleIndex') <= MostPassed[c]
      BY DEF TurnsOK
    <2>1. CASE q2[c] = <<>> \/ c = class
      <3>1. passed'[c] = 0
        BY <1>12, <2>1
      <3>2. /\ Ahead(c, scheduleIndex') \in Nat
            /\ Ahead(c, scheduleIndex') <= MostPassed[c]
        BY <1>10, AheadIsTurn
      <3> QED BY <3>1, <3>2
    <2>2. CASE ~(q2[c] = <<>> \/ c = class)
      <3>1. passed'[c] = passed[c] + 1 /\ passed[c] \in Nat
        BY <1>1, <1>12, <2>2
      <3>2. q[c] # <<>>
        BY <1>11, <2>2
      <3>3. ASSUME NEW k \in 0 .. o
            PROVE  ClassAt(scheduleIndex + k) # c
        <4>1. CASE k = o
          BY <2>2, <4>1 DEF class
        <4>2. CASE k # o
          BY <1>2, <3>2, <4>2
        <4> QED BY <4>1, <4>2
      <3>4. Ahead(c, scheduleIndex') = Ahead(c, scheduleIndex) - o - 1
        BY <1>1, <1>2, <1>7, <3>3, TurnPasses
      <3>5. /\ Ahead(c, scheduleIndex) \in Nat
            /\ passed[c] + Ahead(c, scheduleIndex) <= MostPassed[c]
        BY <1>1, AheadIsTurn DEF TurnsOK
      <3>6. MostPassed[c] \in Nat
        BY DEF MostPassed, Priorities
      <3> QED BY <1>2, <2>2, <3>1, <3>4, <3>5, <3>6
    <2> QED BY <2>1, <2>2
  <1>15. Total(q2) <= QueueDepth
    BY <1>1, <1>5, LimiterAssumption
  <1>16. held'.inflight <= MaxInflight
    BY <1>7, <1>9
  <1>17. Total(q2) > 0 => held'.inflight >= MaxInflight
    BY <1>1, <1>5, <1>7, <1>9
  <1> QED BY <1>1, <1>5, <1>6, <1>7, <1>8, <1>10, <1>13, <1>14, <1>15, <1>16,
             <1>17 DEF LInv

LEMMA DispatchRestores ==
    ASSUME NEW q, NEW h, NEW promises, NEW fired,
           Dispatchable(q, h, promises, fired),
           Dispatch(q, h, promises), aborted' = fired
    PROVE  LInv'
  <1>1. CASE /\ \/ h.inflight >= MaxInflight
                \/ \A c \in Priorities : q[c] = <<>>
             /\ waiters' = q /\ held' = h /\ promise' = promises
             /\ passed' = PassedOver(q, {}, 0)
             /\ UNCHANGED scheduleIndex
    BY <1>1, NobodyDispatched
  <1>2. CASE /\ h.inflight < MaxInflight
             /\ \E o \in NextOffset(q) :
                  LET class == ClassAt(scheduleIndex + o)
                  IN  \E i \in Best(q[class], h.perClient) :
                        LET r == q[class][i]
                        IN  /\ waiters' = [q EXCEPT ![class] = RemoveAt(@, i)]
                            /\ held' = Admit(h, r)
                            /\ promise' = [promises EXCEPT ![r] = "granted"]
                            /\ scheduleIndex' = (scheduleIndex + o + 1) % Cycle
                            /\ passed' = PassedOver(waiters', {class}, 1)
    <2>1. PICK o \in NextOffset(q) :
             LET class == ClassAt(scheduleIndex + o)
             IN  \E i \in Best(q[class], h.perClient) :
                    LET r == q[class][i]
                    IN  /\ waiters' = [q EXCEPT ![class] = RemoveAt(@, i)]
                        /\ held' = Admit(h, r)
                        /\ promise' = [promises EXCEPT ![r] = "granted"]
                        /\ scheduleIndex' = (scheduleIndex + o + 1) % Cycle
                        /\ passed' = PassedOver(waiters', {class}, 1)
      BY <1>2
    <2>2. PICK i \in DOMAIN q[ClassAt(scheduleIndex + o)] :
             LET class == ClassAt(scheduleIndex + o)
                 r == q[class][i]
             IN  /\ waiters' = [q EXCEPT ![class] = RemoveAt(@, i)]
                 /\ held' = Admit(h, r)
                 /\ promise' = [promises EXCEPT ![r] = "granted"]
                 /\ scheduleIndex' = (scheduleIndex + o + 1) % Cycle
                 /\ passed' = PassedOver(waiters', {class}, 1)
      BY <2>1 DEF Best
    <2> HIDE DEF NextOffset
    <2> QED BY <1>2, <2>2, WaiterDispatched
  <1> QED BY <1>1, <1>2 DEF Dispatch

-----------------------------------------------------------------------------
(* Every call keeps the invariant. *)

LEMMA InitLInv == ASSUME Init PROVE LInv
  <1>1. Holders(promise) = {}
    BY DEF Init, Holders
  <1>2. CountersOK(held, promise)
    <2>1. \A F, c : Count({}, F, c) = 0
      BY FS_EmptySet DEF Count
    <2>2. Cardinality({}) = 0
      BY FS_EmptySet
    <2> QED BY <1>1, <2>1, <2>2 DEF Init, CountersOK, Counters
  <1>3. QueuesOK(waiters, promise, aborted)
    BY DEF Init, QueuesOK
  <1>4. Total(waiters) = 0
    BY DEF Init, Total, Priorities
  <1>5. TurnsOK(waiters, passed, scheduleIndex)
    <2> SUFFICES ASSUME NEW c \in Priorities
                 PROVE  0 + Ahead(c, 0) <= MostPassed[c]
      BY DEF TurnsOK, Init
    <2>1. Ahead(c, 0) \in Nat /\ Ahead(c, 0) <= MostPassed[c]
      BY AheadIsTurn
    <2> QED BY <2>1
  <1> QED BY <1>2, <1>3, <1>4, <1>5, LimiterAssumption DEF LInv, Init, Promises

(* A request that does not wait may change its promise, ...                *)
LEMMA PromiseOutside ==
    ASSUME NEW q, NEW promises \in [Requests -> Promises], NEW fired,
           QueuesOK(q, promises, fired),
           NEW r \in Requests, promises[r] # "pending", NEW p
    PROVE  QueuesOK(q, [promises EXCEPT ![r] = p], fired \ {r})
  <1>1. ASSUME NEW c \in Priorities, NEW i \in 1 .. Len(q[c])
        PROVE  /\ q[c][i] \in Requests /\ promises[q[c][i]] = "pending"
               /\ PriorityOf[q[c][i]] = c /\ q[c][i] \notin fired
    BY DEF QueuesOK
  <1>2. ASSUME NEW c \in Priorities, NEW i \in 1 .. Len(q[c])
        PROVE  /\ [promises EXCEPT ![r] = p][q[c][i]] = "pending"
               /\ PriorityOf[q[c][i]] = c /\ q[c][i] \notin fired \ {r}
    BY <1>1
  <1> QED BY <1>2 DEF QueuesOK

(* ... and its signal may fire.                                            *)
LEMMA FiredOutside ==
    ASSUME NEW q, NEW promises, NEW fired, QueuesOK(q, promises, fired),
           NEW r, \A c \in Priorities : \A i \in 1 .. Len(q[c]) : q[c][i] # r
    PROVE  QueuesOK(q, promises, fired \cup {r})
  BY DEF QueuesOK

(* Promises of requests that hold no slot do not count.                    *)
LEMMA CountersOutside ==
    ASSUME NEW h, NEW promises \in [Requests -> Promises],
           CountersOK(h, promises),
           NEW r \in Requests, promises[r] # "granted",
           NEW p, p # "granted"
    PROVE  CountersOK(h, [promises EXCEPT ![r] = p])
  <1>1. Holders([promises EXCEPT ![r] = p]) = Holders(promises)
    BY DEF Holders
  <1> QED BY <1>1 DEF CountersOK

LEMMA QueuedIsTotal == Queued = Total(waiters)
  BY DEF Queued, Total

LEMMA AcquireNowKeeps ==
    ASSUME LInv, NEW r \in Requests, AcquireNow(r)
    PROVE  LInv'
  <1>1. CountersOK(Admit(held, r), promise')
    BY AdmitCounted DEF LInv, AcquireNow
  <1>2. QueuesOK(waiters, promise', aborted \ {r})
    BY PromiseOutside DEF LInv, AcquireNow
  <1>3. QueuesOK(waiters, promise', aborted)
    <2>1. ASSUME NEW c \in Priorities, NEW i \in 1 .. Len(waiters[c])
          PROVE  waiters[c][i] \notin aborted
      BY DEF LInv, QueuesOK
    <2> QED BY <1>2, <2>1 DEF QueuesOK
  <1>4. /\ held'.inflight = held.inflight + 1 /\ held.inflight \in Nat
        /\ held.inflight < MaxInflight /\ MaxInflight \in Nat
    BY LimiterAssumption DEF AcquireNow, LInv, CountersOK, Counters, Admit, Moved
  <1>5. Total(waiters) = 0
    BY QueuedIsTotal DEF AcquireNow
  <1>6. promise' \in [Requests -> Promises]
    BY DEF LInv, AcquireNow, Promises
  <1>7. TurnsOK(waiters, passed, scheduleIndex)'
    BY DEF LInv, AcquireNow, TurnsOK
  <1>8. held'.inflight <= MaxInflight
    BY <1>4
  <1> QED BY <1>1, <1>3, <1>5, <1>6, <1>7, <1>8 DEF LInv, AcquireNow

(* What a refusal, a pending promise that is not queued and an answer have  *)
(* in common.                                                               *)
LEMMA PromiseMoves ==
    ASSUME LInv, NEW r \in Requests, NEW p \in Promises \ {"granted"},
           promise[r] \notin {"pending", "granted"},
           promise' = [promise EXCEPT ![r] = p],
           aborted' \in {aborted, aborted \ {r}},
           UNCHANGED <<held, waiters, scheduleIndex, passed>>
    PROVE  LInv'
  <1>1. CountersOK(held, promise')
    BY CountersOutside DEF LInv
  <1>2. QueuesOK(waiters, promise', aborted \ {r})
    BY PromiseOutside DEF LInv
  <1>3. QueuesOK(waiters, promise', aborted)
    <2>1. ASSUME NEW c \in Priorities, NEW i \in 1 .. Len(waiters[c])
          PROVE  waiters[c][i] \notin aborted
      BY DEF LInv, QueuesOK
    <2> QED BY <1>2, <2>1 DEF QueuesOK
  <1>4. QueuesOK(waiters, promise', aborted')
    BY <1>2, <1>3
  <1>5. promise' \in [Requests -> Promises] /\ aborted' \subseteq Requests
    BY DEF LInv
  <1>6. TurnsOK(waiters, passed, scheduleIndex)'
    BY DEF LInv, TurnsOK
  <1> QED BY <1>1, <1>4, <1>5, <1>6 DEF LInv

(* What acquire and the release closure hand to dispatchNext.              *)
LEMMA AcquireQueuedReady ==
    ASSUME LInv, NEW r \in Requests, AcquireQueued(r)
    PROVE  Dispatchable([waiters EXCEPT ![PriorityOf[r]] = Append(@, r)], held,
                        [promise EXCEPT ![r] = "pending"], aborted)
  <1> DEFINE c == PriorityOf[r]
             q == [waiters EXCEPT ![c] = Append(@, r)]
             promises == [promise EXCEPT ![r] = "pending"]
  <1>1. /\ promise \in [Requests -> Promises] /\ promise[r] = "none"
        /\ QueuesOK(waiters, promise, aborted) /\ r \notin aborted
        /\ CountersOK(held, promise)
    BY DEF LInv, AcquireQueued, MustWait
  <1>2. c \in Priorities
    BY LimiterAssumption
  <1>3. QueuesOK(waiters, promises, aborted)
    <2>1. aborted \ {r} = aborted
      BY <1>1
    <2>2. QueuesOK(waiters, promises, aborted \ {r})
      BY <1>1, PromiseOutside
    <2> QED BY <2>1, <2>2
  <1>4. CountersOK(held, promises)
    BY <1>1, CountersOutside
  <1>5. /\ q[c] = Append(waiters[c], r) /\ waiters[c] \in Seq(Requests)
        /\ \A d \in Priorities \ {c} : q[d] = waiters[d]
        /\ q \in [Priorities -> Seq(Requests)]
    BY <1>1, <1>2 DEF QueuesOK
  <1>6. /\ Len(q[c]) = Len(waiters[c]) + 1 /\ Len(waiters[c]) \in Nat
        /\ q[c][Len(waiters[c]) + 1] = r
        /\ \A j \in 1 .. Len(waiters[c]) : q[c][j] = waiters[c][j]
    BY <1>5
  <1>7. promises \in [Requests -> Promises] /\ promises[r] = "pending"
    BY <1>1 DEF Promises
  <1>8. \A d \in Priorities : \A j \in 1 .. Len(waiters[d]) : waiters[d][j] # r
    BY <1>1 DEF QueuesOK
  <1> HIDE DEF q, promises
  <1>9. QueuesOK(q, promises, aborted)
    <2>1. ASSUME NEW d \in Priorities
          PROVE  /\ \A j, k \in 1 .. Len(q[d]) : q[d][j] = q[d][k] => j = k
                 /\ \A j \in 1 .. Len(q[d]) :
                       /\ promises[q[d][j]] = "pending"
                       /\ PriorityOf[q[d][j]] = d
                       /\ q[d][j] \notin aborted
      <3>1. CASE d = c
        <4>1. \A j \in 1 .. Len(q[c]) :
                 j \in 1 .. Len(waiters[c]) \/ j = Len(waiters[c]) + 1
          BY <1>6
        <4>4. \A j \in 1 .. Len(waiters[c]) :
                 /\ promises[waiters[c][j]] = "pending"
                 /\ PriorityOf[waiters[c][j]] = c
                 /\ waiters[c][j] \notin aborted /\ waiters[c][j] # r
          BY <1>2, <1>3, <1>8 DEF QueuesOK
        <4>5. \A j, k \in 1 .. Len(waiters[c]) :
                 waiters[c][j] = waiters[c][k] => j = k
          BY <1>2, <1>3 DEF QueuesOK
        <4>2. ASSUME NEW j \in 1 .. Len(q[c])
              PROVE  /\ promises[q[c][j]] = "pending"
                     /\ PriorityOf[q[c][j]] = c
                     /\ q[c][j] \notin aborted
          <5>1. CASE j \in 1 .. Len(waiters[c])
            BY <1>6, <4>4, <5>1
          <5>2. CASE j = Len(waiters[c]) + 1
            BY <1>1, <1>6, <1>7, <5>2
          <5> QED BY <4>1, <5>1, <5>2
        <4>3. ASSUME NEW j \in 1 .. Len(q[c]), NEW k \in 1 .. Len(q[c]),
                     q[c][j] = q[c][k]
              PROVE  j = k
          <5>1. CASE j \in 1 .. Len(waiters[c]) /\ k \in 1 .. Len(waiters[c])
            BY <1>6, <4>3, <4>5, <5>1
          <5>2. CASE j \in 1 .. Len(waiters[c]) /\ k = Len(waiters[c]) + 1
            BY <1>6, <4>3, <4>4, <5>2
          <5>3. CASE j = Len(waiters[c]) + 1 /\ k \in 1 .. Len(waiters[c])
            BY <1>6, <4>3, <4>4, <5>3
          <5> QED BY <4>1, <5>1, <5>2, <5>3
        <4> QED BY <3>1, <4>2, <4>3
      <3>2. CASE d # c
        BY <1>3, <1>5, <3>2 DEF QueuesOK
      <3> QED BY <3>1, <3>2
    <2> QED BY <1>5, <2>1 DEF QueuesOK
  <1>10. Total(q) = Total(waiters) + 1 /\ Total(waiters) \in Nat
    <2>1. /\ Len(waiters["interactive"]) \in Nat /\ Len(waiters["normal"]) \in Nat
          /\ Len(waiters["background"]) \in Nat
      BY <1>1 DEF QueuesOK, Priorities
    <2> DEFINE t == Total(q)  t2 == Total(waiters)
               li == Len(q["interactive"])  li2 == Len(waiters["interactive"])
               ln == Len(q["normal"])       ln2 == Len(waiters["normal"])
               lb == Len(q["background"])   lb2 == Len(waiters["background"])
    <2>2. /\ t = li + ln + lb /\ t2 = li2 + ln2 + lb2
          /\ li2 \in Nat /\ ln2 \in Nat /\ lb2 \in Nat
      BY <2>1 DEF Total
    <2>3. /\ c = "interactive" => li = li2 + 1 /\ ln = ln2 /\ lb = lb2
          /\ c = "normal" => li = li2 /\ ln = ln2 + 1 /\ lb = lb2
          /\ c = "background" => li = li2 /\ ln = ln2 /\ lb = lb2 + 1
      BY <1>5, <1>6 DEF Priorities
    <2> HIDE DEF t, t2, li, ln, lb, li2, ln2, lb2
    <2>4. t = t2 + 1 /\ t2 \in Nat
      BY <1>2, <2>2, <2>3 DEF Priorities
    <2> QED BY <2>4 DEF t, t2
  <1>11. Total(q) <= QueueDepth
    <2>1. Total(waiters) < QueueDepth
      <3>1. Queued < QueueDepth
        BY DEF AcquireQueued
      <3> QED BY <3>1, QueuedIsTotal
    <2> QED BY <1>10, <2>1, LimiterAssumption
  <1>12. held.inflight >= MaxInflight
    <2>1. held.inflight >= MaxInflight \/ Queued > 0
      BY DEF AcquireQueued, MustWait
    <2>2. Total(waiters) > 0 => held.inflight >= MaxInflight
      BY DEF LInv
    <2> QED BY <2>1, <2>2, QueuedIsTotal
  <1>13. TurnsOK(q, passed, scheduleIndex)
    <2>1. \A d \in Priorities : q[d] = <<>> => waiters[d] = <<>>
      <3> TAKE d \in Priorities
      <3>1. CASE d = c
        BY <1>5, <1>6, <3>1
      <3>2. CASE d # c
        BY <1>5, <3>2
      <3> QED BY <3>1, <3>2
    <2> QED BY <2>1 DEF LInv, TurnsOK
  <1>14. Dispatchable(q, held, promises, aborted)
    <2>1. held.inflight \in Nat /\ MaxInflight \in Nat
      BY <1>4, LimiterAssumption DEF CountersOK, Counters
    <2>2. held.inflight >= MaxInflight - 1
      BY <1>12, <2>1
    <2> QED BY <1>4, <1>7, <1>9, <1>11, <1>13, <2>2 DEF Dispatchable, LInv
  <1> QED BY <1>14 DEF q, promises

LEMMA AcquireQueuedKeeps ==
    ASSUME LInv, NEW r \in Requests, AcquireQueued(r)
    PROVE  LInv'
  BY AcquireQueuedReady, DispatchRestores DEF AcquireQueued

LEMMA ReleaseReady ==
    ASSUME LInv, NEW r \in Requests, Release(r)
    PROVE  Dispatchable(waiters, Return(held, r),
                        [promise EXCEPT ![r] = "none"], aborted \ {r})
  <1> DEFINE promises == [promise EXCEPT ![r] = "none"]
             h == Return(held, r)
  <1>1. CountersOK(h, promises)
    BY ReturnCounted DEF LInv, Release
  <1>2. QueuesOK(waiters, promises, aborted \ {r})
    BY PromiseOutside DEF LInv, Release
  <1>3. /\ h.inflight = held.inflight - 1 /\ held.inflight \in Nat
        /\ MaxInflight \in Nat /\ held.inflight <= MaxInflight
    BY LimiterAssumption DEF LInv, CountersOK, Counters, Return, Moved
  <1>4. promises \in [Requests -> Promises] /\ aborted \ {r} \subseteq Requests
    BY DEF LInv, Promises
  <1> HIDE DEF promises, h
  <1>5. Dispatchable(waiters, h, promises, aborted \ {r})
    <2>1. h.inflight <= MaxInflight
      BY <1>3
    <2>2. Total(waiters) > 0 => h.inflight >= MaxInflight - 1
      <3>1. Total(waiters) > 0 => held.inflight >= MaxInflight
        BY DEF LInv
      <3> QED BY <1>3, <3>1
    <2> QED BY <1>1, <1>2, <1>4, <2>1, <2>2 DEF Dispatchable, LInv
  <1> QED BY <1>5 DEF promises, h

LEMMA ReleaseKeeps ==
    ASSUME LInv, NEW r \in Requests, Release(r)
    PROVE  LInv'
  BY ReleaseReady, DispatchRestores DEF Release

LEMMA AbortKeeps ==
    ASSUME LInv, NEW r \in Requests, Abort(r)
    PROVE  LInv'
  <1> DEFINE c == PriorityOf[r]
             at == {i \in DOMAIN waiters[c] : waiters[c][i] = r}
  <1>1. /\ promise \in [Requests -> Promises] /\ c \in Priorities
        /\ QueuesOK(waiters, promise, aborted) /\ CountersOK(held, promise)
        /\ scheduleIndex \in 0 .. 6 /\ passed \in [Priorities -> Nat]
        /\ TurnsOK(waiters, passed, scheduleIndex)
    BY LimiterAssumption DEF LInv
  <1>2. DOMAIN waiters[c] = 1 .. Len(waiters[c])
    BY <1>1 DEF QueuesOK
  <1>3. aborted' = aborted \cup {r} /\ aborted' \subseteq Requests
    BY DEF Abort, LInv
  <1>4. CASE at = {} /\ UNCHANGED <<waiters, promise, passed>>
    <2>1. ASSUME NEW d \in Priorities, NEW i \in 1 .. Len(waiters[d]),
                 waiters[d][i] = r
          PROVE  FALSE
      <3>1. d = c
        BY <1>1, <2>1 DEF QueuesOK
      <3>2. i \in at
        BY <1>2, <2>1, <3>1
      <3> QED BY <1>4, <3>2
    <2>2. QueuesOK(waiters, promise, aborted')
      BY <1>1, <1>3, <2>1, FiredOutside
    <2> QED BY <1>3, <1>4, <2>2 DEF LInv, Abort, TurnsOK
  <1>5. ASSUME NEW i \in at,
               waiters' = [waiters EXCEPT ![c] = RemoveAt(@, i)],
               promise' = [promise EXCEPT ![r] = "aborted"],
               passed' = PassedOver(waiters', {}, 0)
        PROVE  LInv'
    <2>1. i \in 1 .. Len(waiters[c]) /\ waiters[c][i] = r
      BY <1>2, <1>5
    <2>2. RemovedOK(waiters, promise, aborted, c, i, "aborted")
      BY <1>1, <2>1, WaiterRemoved
    <2>3. /\ promise[r] = "pending" /\ QueuesOK(waiters', promise', aborted)
          /\ Total(waiters') = Total(waiters) - 1 /\ Total(waiters) \in Nat
      BY <1>5, <2>1, <2>2 DEF RemovedOK
    <2>4. promise' \in [Requests -> Promises] /\ promise'[r] = "aborted"
      BY <1>1, <1>5 DEF Promises
    <2>5. QueuesOK(waiters', promise', aborted')
      <3>1. \A d \in Priorities : \A j \in 1 .. Len(waiters'[d]) : waiters'[d][j] # r
        BY <2>3, <2>4 DEF QueuesOK
      <3> QED BY <1>3, <2>3, <3>1, FiredOutside
    <2>6. CountersOK(held, promise')
      BY <1>1, <1>5, <2>3, CountersOutside
    <2>7. UNCHANGED <<held, scheduleIndex>>
      BY DEF Abort
    <2>8. \A d \in Priorities :
             passed'[d] = IF waiters'[d] = <<>> THEN 0 ELSE passed[d]
      BY <1>1, <1>5 DEF PassedOver
    <2>9. passed' \in [Priorities -> Nat]
      BY <1>1, <1>5 DEF PassedOver
    <2>10. TurnsOK(waiters', passed', scheduleIndex)
      <3> SUFFICES ASSUME NEW d \in Priorities
                   PROVE  passed'[d] + Ahead(d, scheduleIndex) <= MostPassed[d]
        BY <2>8, <2>9 DEF TurnsOK
      <3>1. /\ Ahead(d, scheduleIndex) \in Nat
            /\ Ahead(d, scheduleIndex) <= MostPassed[d]
        BY <1>1, AheadIsTurn
      <3>2. passed[d] + Ahead(d, scheduleIndex) <= MostPassed[d]
        BY <1>1 DEF TurnsOK
      <3>3. CASE passed'[d] = 0
        <4>1. 0 + Ahead(d, scheduleIndex) <= MostPassed[d]
          BY <3>1
        <4> QED BY <3>3, <4>1
      <3>4. CASE passed'[d] = passed[d]
        BY <3>2, <3>4
      <3> QED BY <2>8, <3>3, <3>4
    <2>11. Total(waiters') <= QueueDepth
      <3>1. Total(waiters) <= QueueDepth
        BY DEF LInv
      <3> QED BY <2>3, <3>1, LimiterAssumption
    <2>12. Total(waiters') > 0 => held.inflight >= MaxInflight
      <3>1. Total(waiters) > 0 => held.inflight >= MaxInflight
        BY DEF LInv
      <3> QED BY <2>3, <3>1
    <2> QED BY <1>1, <1>3, <2>4, <2>5, <2>6, <2>7, <2>9, <2>10, <2>11, <2>12
            DEF LInv
  <1> QED BY <1>4, <1>5 DEF Abort

LEMMA StepKeeps == LInv /\ [Next]_vars => LInv'
  <1> SUFFICES ASSUME LInv, [Next]_vars PROVE LInv'
    OBVIOUS
  <1>1. CASE UNCHANGED vars
    BY <1>1 DEF vars, LInv, TurnsOK
  <1>2. ASSUME NEW r \in Requests, AcquireNow(r) PROVE LInv'
    BY <1>2, AcquireNowKeeps
  <1>3. ASSUME NEW r \in Requests, AcquireRefused(r) PROVE LInv'
    <2>1. promise[r] = "none" /\ promise' = [promise EXCEPT ![r] = "refused"]
          /\ UNCHANGED <<held, waiters, scheduleIndex, aborted, passed>>
      BY <1>3 DEF AcquireRefused, MustWait
    <2> QED BY <2>1, PromiseMoves DEF Promises
  <1>4. ASSUME NEW r \in Requests, AcquireAborted(r) PROVE LInv'
    <2>1. promise[r] = "none" /\ promise' = [promise EXCEPT ![r] = "pending"]
          /\ UNCHANGED <<held, waiters, scheduleIndex, aborted, passed>>
      BY <1>4 DEF AcquireAborted, MustWait
    <2> QED BY <2>1, PromiseMoves DEF Promises
  <1>5. ASSUME NEW r \in Requests, AcquireQueued(r) PROVE LInv'
    BY <1>5, AcquireQueuedKeeps
  <1>6. ASSUME NEW r \in Requests, Release(r) PROVE LInv'
    BY <1>6, ReleaseKeeps
  <1>7. ASSUME NEW r \in Requests, Abort(r) PROVE LInv'
    BY <1>7, AbortKeeps
  <1>8. ASSUME NEW r \in Requests, Leave(r) PROVE LInv'
    <2>1. /\ promise[r] \in {"refused", "aborted"}
          /\ promise' = [promise EXCEPT ![r] = "none"]
          /\ aborted' = aborted \ {r}
          /\ UNCHANGED <<held, waiters, scheduleIndex, passed>>
      BY <1>8 DEF Leave
    <2> QED BY <2>1, PromiseMoves DEF Promises
  <1> QED BY <1>1, <1>2, <1>3, <1>4, <1>5, <1>6, <1>7, <1>8 DEF Next, ReleaseAgain

LEMMA Invariance == Spec => []LInv
  BY InitLInv, StepKeeps, PTL DEF Spec

-----------------------------------------------------------------------------
(* The theorems. *)

(* The state of the limiter always has its type.                           *)
THEOREM TypeCorrect == Spec => []TypeOK
  <1>1. LInv => TypeOK
    BY DEF LInv, TypeOK, QueuesOK, CountersOK, Counters, Cycle
  <1> QED BY <1>1, Invariance, PTL

(* The counters of limits.ts count the requests that hold a slot, in total, *)
(* by class and by client, and stay within maxInflight.                     *)
THEOREM SlotsNeverLost == Spec => []SlotsAccounted
  <1>1. LInv => SlotsAccounted
    <2>1. Granted = Holders(promise)
      BY DEF Granted, Holders
    <2> QED BY <2>1 DEF LInv, CountersOK, Count, SlotsAccounted
  <1> QED BY <1>1, Invariance, PTL

(* One turn of dispatchNext suffices: nobody waits while a slot is free.    *)
THEOREM NoLostWakeup == Spec => []WorkConserving
  <1>1. LInv => WorkConserving
    BY QueuedIsTotal DEF LInv, WorkConserving
  <1> QED BY <1>1, Invariance, PTL

(* The queues hold exactly waiters that are pending and not aborted, once.  *)
THEOREM QueuesStayConsistent == Spec => []QueueConsistent
  <1>1. LInv => QueueConsistent
    <2> SUFFICES ASSUME LInv PROVE QueueConsistent
      OBVIOUS
    <2>1. Queued <= QueueDepth
      BY QueuedIsTotal DEF LInv
    <2>2. ASSUME NEW c \in Priorities
          PROVE  DOMAIN waiters[c] = 1 .. Len(waiters[c])
      BY DEF LInv, QueuesOK
    <2>3. ASSUME NEW c \in Priorities, NEW r \in Waiting(c)
          PROVE  promise[r] = "pending" /\ PriorityOf[r] = c /\ r \notin aborted
      BY <2>2 DEF LInv, QueuesOK, Waiting
    <2>4. ASSUME NEW c \in Priorities, NEW i \in DOMAIN waiters[c],
                 NEW j \in DOMAIN waiters[c], waiters[c][i] = waiters[c][j]
          PROVE  i = j
      BY <2>2, <2>4 DEF LInv, QueuesOK
    <2> QED BY <2>1, <2>3, <2>4 DEF QueueConsistent
  <1> QED BY <1>1, Invariance, PTL

(* Whatever waits and is aborted, a waiting class is passed over at most 3, *)
(* 5 or 6 times in a row: 4:2:1 service for every load.                     *)
THEOREM ServedInTurn == Spec => []ClassesServedInTurn
  <1>1. LInv => ClassesServedInTurn
    <2> SUFFICES ASSUME LInv, NEW c \in Priorities
                 PROVE  passed[c] <= MostPassed[c]
      BY DEF ClassesServedInTurn
    <2>1. /\ passed[c] \in Nat /\ Ahead(c, scheduleIndex) \in Nat
          /\ passed[c] + Ahead(c, scheduleIndex) <= MostPassed[c]
      BY AheadIsTurn DEF LInv, TurnsOK
    <2>2. MostPassed[c] \in Nat
      BY DEF MostPassed, Priorities
    <2> QED BY <2>1, <2>2
  <1> QED BY <1>1, Invariance, PTL

-----------------------------------------------------------------------------
(* FIFO within a client. *)

(* dispatchNext grants no waiter that has an earlier one of its client.    *)
LEMMA DispatchFIFO ==
    ASSUME NEW q, NEW h, NEW promises, NEW fired,
           Dispatchable(q, h, promises, fired), Dispatch(q, h, promises),
           NEW c \in Priorities,
           NEW i \in 1 .. Len(q[c]), NEW j \in 1 .. Len(q[c]), i < j,
           ClientOf[q[c][i]] = ClientOf[q[c][j]]
    PROVE  promise'[q[c][j]] # "granted"
  <1>1. /\ q[c] \in Seq(Requests) /\ promises[q[c][j]] = "pending"
        /\ PriorityOf[q[c][j]] = c /\ q[c][j] \in Requests
        /\ promises \in [Requests -> Promises]
        /\ scheduleIndex \in 0 .. 6
    BY DEF Dispatchable, QueuesOK
  <1>2. CASE promise' = promises
    BY <1>1, <1>2
  <1>3. ASSUME NEW o \in NextOffset(q),
               NEW m \in Best(q[ClassAt(scheduleIndex + o)], h.perClient),
               promise' = [promises EXCEPT
                             ![q[ClassAt(scheduleIndex + o)][m]] = "granted"],
               promise'[q[c][j]] = "granted"
        PROVE  FALSE
    <2> DEFINE class == ClassAt(scheduleIndex + o)
    <2>1. class \in Priorities
      BY <1>1 DEF ClassAt, Priorities, Cycle, NextOffset
    <2>2. m \in 1 .. Len(q[class])
      BY <2>1 DEF Best, Dispatchable, QueuesOK
    <2> HIDE DEF class
    <2>3. q[class][m] = q[c][j]
      BY <1>1, <1>3 DEF class
    <2>4. class = c
      BY <1>1, <2>1, <2>2, <2>3 DEF Dispatchable, QueuesOK
    <2>5. m = j
      BY <2>2, <2>3, <2>4 DEF Dispatchable, QueuesOK
    <2>6. j \in Best(q[c], h.perClient)
      BY <1>3, <2>4, <2>5 DEF class
    <2>7. /\ i \in DOMAIN q[c]
          /\ h.perClient[ClientOf[q[c][i]]] \in Nat
      <3>1. ClientOf[q[c][i]] \in Clients
        BY <1>1, LimiterAssumption
      <3>2. h.perClient \in [Clients -> Nat]
        BY DEF Dispatchable, CountersOK, Counters
      <3> QED BY <1>1, <3>1, <3>2
    <2> QED BY <2>6, <2>7 DEF Best
  <1> QED BY <1>2, <1>3 DEF Dispatch

LEMMA StepFIFO ==
    ASSUME LInv, [Next]_vars,
           NEW c \in Priorities,
           NEW i \in DOMAIN waiters[c], NEW j \in DOMAIN waiters[c], i < j,
           ClientOf[waiters[c][i]] = ClientOf[waiters[c][j]]
    PROVE  promise'[waiters[c][j]] # "granted"
  <1>1. /\ i \in 1 .. Len(waiters[c]) /\ j \in 1 .. Len(waiters[c])
        /\ waiters[c] \in Seq(Requests) /\ waiters[c][j] \in Requests
        /\ promise[waiters[c][j]] = "pending"
        /\ promise \in [Requests -> Promises]
        /\ waiters \in [Priorities -> Seq(Requests)]
    BY DEF LInv, QueuesOK
  <1>2. CASE UNCHANGED vars
    BY <1>1, <1>2 DEF vars
  <1>3. ASSUME NEW r \in Requests,
               AcquireNow(r) \/ AcquireRefused(r) \/ AcquireAborted(r) \/ Leave(r)
        PROVE  promise'[waiters[c][j]] # "granted"
    BY <1>1, <1>3
       DEF AcquireNow, AcquireRefused, AcquireAborted, MustWait, Leave
  <1>4. ASSUME NEW r \in Requests, Abort(r)
        PROVE  promise'[waiters[c][j]] # "granted"
    BY <1>1, <1>4 DEF Abort
  <1>5. ASSUME NEW r \in Requests, Release(r)
        PROVE  promise'[waiters[c][j]] # "granted"
    BY <1>1, <1>5, ReleaseReady, DispatchFIFO DEF Release
  <1>6. ASSUME NEW r \in Requests, AcquireQueued(r)
        PROVE  promise'[waiters[c][j]] # "granted"
    <2> DEFINE q == [waiters EXCEPT ![PriorityOf[r]] = Append(@, r)]
    <2>1. /\ q[c][i] = waiters[c][i] /\ q[c][j] = waiters[c][j]
          /\ i \in 1 .. Len(q[c]) /\ j \in 1 .. Len(q[c])
      <3>1. CASE PriorityOf[r] = c
        BY <1>1, <3>1
      <3>2. CASE PriorityOf[r] # c
        BY <1>1, <3>2
      <3> QED BY <3>1, <3>2
    <2>2. /\ Dispatchable(q, held, [promise EXCEPT ![r] = "pending"], aborted)
          /\ Dispatch(q, held, [promise EXCEPT ![r] = "pending"])
      BY <1>6, AcquireQueuedReady DEF AcquireQueued
    <2> HIDE DEF q
    <2> QED BY <2>1, <2>2, DispatchFIFO
  <1> QED BY <1>2, <1>3, <1>4, <1>5, <1>6 DEF Next, ReleaseAgain

(* Within a class no waiter is granted a slot before an earlier one of the  *)
(* same client, whatever the other clients do.                             *)
THEOREM FIFOWithinClient == Spec => ClientFIFO
  <1> DEFINE Overtaken ==
        \A c \in Priorities : \A i, j \in DOMAIN waiters[c] :
          /\ i < j
          /\ ClientOf[waiters[c][i]] = ClientOf[waiters[c][j]]
          /\ promise'[waiters[c][j]] = "granted"
          => promise'[waiters[c][i]] # "pending"
  <1>1. LInv /\ [Next]_vars => [Overtaken]_vars
    BY StepFIFO
  <1> QED BY <1>1, Invariance, PTL DEF Spec, ClientFIFO

-----------------------------------------------------------------------------
(* What a call does to promises, for the modules that compose the limiter. *)

(* The promise of s is kept, or s is a waiter that gets its slot.          *)
KeptOrServed(promises, s) ==
    \/ promise'[s] = promises[s]
    \/ promises[s] = "pending" /\ promise'[s] = "granted"

LEMMA DispatchServes ==
    ASSUME NEW q, NEW h, NEW promises, NEW fired,
           Dispatchable(q, h, promises, fired), Dispatch(q, h, promises),
           NEW s \in Requests
    PROVE  KeptOrServed(promises, s)
  <1>1. CASE promise' = promises
    BY <1>1 DEF KeptOrServed
  <1>2. ASSUME NEW o \in NextOffset(q),
               NEW m \in Best(q[ClassAt(scheduleIndex + o)], h.perClient),
               promise' = [promises EXCEPT
                             ![q[ClassAt(scheduleIndex + o)][m]] = "granted"]
        PROVE  KeptOrServed(promises, s)
    <2> DEFINE class == ClassAt(scheduleIndex + o)
    <2>1. class \in Priorities
      BY DEF ClassAt, Priorities, Cycle, NextOffset, Dispatchable
    <2>2. m \in 1 .. Len(q[class])
      BY <2>1 DEF Best, Dispatchable, QueuesOK
    <2>3. promise' = [promises EXCEPT ![q[class][m]] = "granted"]
      BY <1>2
    <2> HIDE DEF class
    <2>4. promises[q[class][m]] = "pending"
      BY <2>1, <2>2 DEF Dispatchable, QueuesOK
    <2>5. promises \in [Requests -> Promises]
      BY DEF Dispatchable
    <2> QED BY <2>3, <2>4, <2>5 DEF KeptOrServed
  <1> QED BY <1>1, <1>2 DEF Dispatch

(* acquire leaves its own request with a promise and gives others slots.   *)
LEMMA AcquirePromises ==
    ASSUME LInv, NEW r \in Requests,
           \/ AcquireNow(r) \/ AcquireRefused(r)
           \/ AcquireAborted(r) \/ AcquireQueued(r)
    PROVE  /\ promise[r] = "none" /\ promise'[r] # "none"
           /\ \A s \in Requests \ {r} : KeptOrServed(promise, s)
  <1>1. promise \in [Requests -> Promises]
    BY DEF LInv
  <1>2. CASE AcquireNow(r) \/ AcquireRefused(r) \/ AcquireAborted(r)
    BY <1>1, <1>2 DEF AcquireNow, AcquireRefused, AcquireAborted, MustWait,
                      KeptOrServed
  <1>3. CASE AcquireQueued(r)
    <2> DEFINE q == [waiters EXCEPT ![PriorityOf[r]] = Append(@, r)]
               promises == [promise EXCEPT ![r] = "pending"]
    <2>1. promise[r] = "none"
      BY <1>3 DEF AcquireQueued, MustWait
    <2>2. Dispatchable(q, held, promises, aborted) /\ Dispatch(q, held, promises)
      BY <1>3, AcquireQueuedReady DEF AcquireQueued
    <2>3. promises[r] = "pending" /\ \A s \in Requests \ {r} : promises[s] = promise[s]
      BY <1>1
    <2> HIDE DEF q, promises
    <2>4. \A s \in Requests : KeptOrServed(promises, s)
      BY <2>2, DispatchServes
    <2> QED BY <2>1, <2>3, <2>4 DEF KeptOrServed
  <1> QED BY <1>2, <1>3

(* The release closure, and the end of a request without a slot.           *)
LEMMA ReturnPromises ==
    ASSUME LInv, NEW r \in Requests, Release(r) \/ Leave(r)
    PROVE  /\ promise'[r] = "none"
           /\ \A s \in Requests \ {r} : KeptOrServed(promise, s)
  <1>1. promise \in [Requests -> Promises]
    BY DEF LInv
  <1>2. CASE Leave(r)
    BY <1>1, <1>2 DEF Leave, KeptOrServed
  <1>3. CASE Release(r)
    <2> DEFINE promises == [promise EXCEPT ![r] = "none"]
               h == Return(held, r)
    <2>1. Dispatchable(waiters, h, promises, aborted \ {r})
          /\ Dispatch(waiters, h, promises)
      BY <1>3, ReleaseReady DEF Release
    <2>2. promises[r] = "none" /\ \A s \in Requests \ {r} : promises[s] = promise[s]
      BY <1>1
    <2> HIDE DEF h, promises
    <2>3. \A s \in Requests : KeptOrServed(promises, s)
      BY <2>1, DispatchServes
    <2> QED BY <2>2, <2>3 DEF KeptOrServed
  <1> QED BY <1>2, <1>3

(* A signal that fires rejects at most the wait of its own request.        *)
LEMMA AbortPromises ==
    ASSUME LInv, NEW r \in Requests, Abort(r)
    PROVE  /\ promise'[r] = "none" <=> promise[r] = "none"
           /\ \A s \in Requests \ {r} : KeptOrServed(promise, s)
  <1>1. promise \in [Requests -> Promises] /\ PriorityOf[r] \in Priorities
    BY LimiterAssumption DEF LInv
  <1>2. CASE promise' = promise
    BY <1>2 DEF KeptOrServed
  <1>3. ASSUME NEW i \in DOMAIN waiters[PriorityOf[r]],
               waiters[PriorityOf[r]][i] = r,
               promise' = [promise EXCEPT ![r] = "aborted"]
        PROVE  /\ promise'[r] # "none" /\ promise[r] # "none"
               /\ \A s \in Requests \ {r} : KeptOrServed(promise, s)
    <2>1. i \in 1 .. Len(waiters[PriorityOf[r]])
      BY <1>1, <1>3 DEF LInv, QueuesOK
    <2>2. promise[r] = "pending"
      BY <1>1, <1>3, <2>1 DEF LInv, QueuesOK
    <2> QED BY <1>1, <1>3, <2>2 DEF KeptOrServed
  <1> QED BY <1>2, <1>3 DEF Abort
=============================================================================
