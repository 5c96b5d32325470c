------------------------- MODULE ModelResidencyProofs -------------------------
(***************************************************************************)
(* What is in memory fits as long as every launch went through admission,  *)
(* no worker is told to exit under a chat, and under critical pressure the *)
(* limits of the workers fit in what is left, for any number of models,    *)
(* calls and disturbances and any sizes.  First, induction over finite     *)
(* sets and natural numbers, in the form of facts about sets, and what     *)
(* follows from it for sums over finite sets; then the two models.         *)
(***************************************************************************)
EXTENDS ModelResidency, ActiveLimits, FiniteSetTheorems, TLAPS

-----------------------------------------------------------------------------
(* Of finite sets one contains no other. *)
LEMMA MinimalSet ==
    ASSUME NEW F, F # {}, \A A \in F : IsFiniteSet(A)
    PROVE  \E A \in F : \A B \in F : B \subseteq A => B = A
  <1> DEFINE S == UNION F
  <1>1. F \subseteq FiniteSubsetsOf(S)
    BY DEF FiniteSubsetsOf
  <1> HIDE DEF S
  <1>2. PICK A \in F : \A B \in F : ~ (<<B, A>> \in StrictSubsetOrdering(S))
    BY <1>1, FS_StrictSubsetOrderingWellFounded, WFMin
  <1>3. ASSUME NEW B \in F, B \subseteq A, B # A
        PROVE  <<B, A>> \in StrictSubsetOrdering(S)
    BY <1>1, <1>3 DEF StrictSubsetOrdering, FiniteSubsetsOf
  <1>4. ASSUME NEW B \in F, B \subseteq A PROVE B = A
    BY <1>2, <1>3, <1>4
  <1> QED BY <1>4

(* A set of natural numbers has a least one. *)
LEMMA LeastNat ==
    ASSUME NEW T \in SUBSET Nat, T # {}
    PROVE  \E n \in T : \A k \in T : n <= k
  <1> DEFINE F == {0 .. n : n \in T}
  <1>1. F # {}
    OBVIOUS
  <1>2. ASSUME NEW n \in T PROVE IsFiniteSet(0 .. n)
    BY FS_Interval
  <1>3. \A A \in F : IsFiniteSet(A)
    BY <1>2
  <1> HIDE DEF F
  <1>4. PICK A \in F : \A B \in F : B \subseteq A => B = A
    BY <1>1, <1>3, MinimalSet
  <1> USE DEF F
  <1>5. PICK n \in T : A = 0 .. n
    BY <1>4
  <1>6. ASSUME NEW k \in T, k < n PROVE FALSE
    <2>1. 0 .. k \in F /\ 0 .. k \subseteq 0 .. n
      BY <1>6
    <2>2. 0 .. k = 0 .. n
      BY <2>1, <1>4, <1>5
    <2> QED BY <2>2, <1>6
  <1> QED BY <1>6

(* Induction over the natural numbers. *)
LEMMA NatsIn ==
    ASSUME NEW S, 0 \in S, \A n \in Nat : n \in S => n + 1 \in S
    PROVE  Nat \subseteq S
  <1> SUFFICES ASSUME Nat \ S # {} PROVE FALSE
    OBVIOUS
  <1>1. PICK n \in Nat \ S : \A k \in Nat \ S : n <= k
    BY LeastNat
  <1>2. n # 0 /\ n - 1 \in Nat
    BY <1>1
  <1>3. n - 1 \in S
    BY <1>1, <1>2
  <1> QED BY <1>1, <1>2, <1>3

(* Induction over the subsets of a finite set. *)
LEMMA SubsetsIn ==
    ASSUME NEW S, IsFiniteSet(S), NEW G,
           \A A \in SUBSET S : (\A x \in A : A \ {x} \in G) => A \in G
    PROVE  SUBSET S \subseteq G
  <1> SUFFICES ASSUME (SUBSET S) \ G # {} PROVE FALSE
    OBVIOUS
  <1> DEFINE F == (SUBSET S) \ G
  <1>1. F # {} /\ \A A \in F : IsFiniteSet(A)
    BY FS_Subset
  <1> HIDE DEF F
  <1>2. PICK A \in F : \A B \in F : B \subseteq A => B = A
    BY <1>1, MinimalSet
  <1> USE DEF F
  <1>3. ASSUME NEW x \in A PROVE A \ {x} \in G
    BY <1>2
  <1> QED BY <1>2, <1>3

-----------------------------------------------------------------------------
Some(s) == CHOOSE x \in s : TRUE
SumsOver(g, f, S) ==
    g = [s \in SUBSET S |-> IF s = {} THEN 0 ELSE f[Some(s)] + g[s \ {Some(s)}]]
SumsTo(g, f, s) == g[s] = IF s = {} THEN 0 ELSE f[Some(s)] + g[s \ {Some(s)}]

LEMMA SomeIn == ASSUME NEW s, s # {} PROVE Some(s) \in s
  BY DEF Some

(* The recursion of SumFunctionOnSet has a solution. *)
LEMMA SumsExist ==
    ASSUME NEW S, IsFiniteSet(S), NEW f
    PROVE  \E g : SumsOver(g, f, S)
  <1> DEFINE Upto(n) == {s \in SUBSET S : Cardinality(s) <= n}
             G == {n \in Nat : \E g : /\ DOMAIN g = Upto(n)
                                      /\ \A s \in Upto(n) : SumsTo(g, f, s)}
  <1>0. \A s \in SUBSET S : IsFiniteSet(s) /\ Cardinality(s) \in Nat
    BY FS_Subset, FS_CardinalityType
  <1>1. 0 \in G
    <2> DEFINE g == [s \in Upto(0) |-> 0]
    <2>1. \A s \in Upto(0) : s = {}
      BY <1>0, FS_EmptySet
    <2>2. DOMAIN g = Upto(0) /\ \A s \in Upto(0) : SumsTo(g, f, s)
      BY <2>1 DEF SumsTo
    <2> HIDE DEF g, Upto
    <2> QED BY <2>2
  <1>2. ASSUME NEW n \in Nat, n \in G PROVE n + 1 \in G
    <2>1. PICK g : DOMAIN g = Upto(n) /\ \A s \in Upto(n) : SumsTo(g, f, s)
      BY <1>2
    <2> DEFINE h == [s \in Upto(n + 1) |-> IF s \in Upto(n) THEN g[s]
                       ELSE f[Some(s)] + g[s \ {Some(s)}]]
    <2>2. {} \in Upto(n)
      BY FS_EmptySet
    <2>3. ASSUME NEW s \in Upto(n + 1), s # {}
          PROVE  s \ {Some(s)} \in Upto(n) /\ s \ {Some(s)} \in Upto(n + 1)
      BY <2>3, <1>0, SomeIn, FS_RemoveElement
    <2>4. ASSUME NEW s \in Upto(n + 1) PROVE SumsTo(h, f, s)
      <3>1. CASE s \in Upto(n)
        <4>1. h[s] = g[s]
          BY <3>1
        <4>2. s # {} => h[s \ {Some(s)}] = g[s \ {Some(s)}]
          BY <2>3
        <4>3. SumsTo(g, f, s)
          BY <2>1, <3>1
        <4> QED BY <4>1, <4>2, <4>3 DEF SumsTo
      <3>2. CASE s \notin Upto(n)
        <4>1. s # {} /\ h[s] = f[Some(s)] + g[s \ {Some(s)}]
          BY <3>2, <2>2
        <4>2. h[s \ {Some(s)}] = g[s \ {Some(s)}]
          BY <2>3, <4>1
        <4> QED BY <4>1, <4>2 DEF SumsTo
      <3> QED BY <3>1, <3>2
    <2>5. DOMAIN h = Upto(n + 1)
      OBVIOUS
    <2> HIDE DEF h, Upto
    <2> QED BY <2>4, <2>5
  <1> HIDE DEF G
  <1>3. Nat \subseteq G
    BY <1>1, <1>2, NatsIn
  <1> USE DEF G
  <1>4. Cardinality(S) \in Nat /\ \A s \in SUBSET S : Cardinality(s) <= Cardinality(S)
    BY FS_Subset, FS_CardinalityType
  <1>5. Upto(Cardinality(S)) = SUBSET S
    BY <1>4
  <1> HIDE DEF Upto
  <1>6. PICK g : DOMAIN g = SUBSET S /\ \A s \in SUBSET S : SumsTo(g, f, s)
    BY <1>3, <1>4, <1>5
  <1>7. PICK h : h = [s \in SUBSET S |-> g[s]]
    OBVIOUS
  <1>8. ASSUME NEW s \in SUBSET S
        PROVE  h[s] = IF s = {} THEN 0 ELSE f[Some(s)] + h[s \ {Some(s)}]
    BY <1>6, <1>7 DEF SumsTo
  <1>9. h = [s \in SUBSET S |-> IF s = {} THEN 0 ELSE f[Some(s)] + h[s \ {Some(s)}]]
    BY <1>7, <1>8
  <1> QED BY <1>9 DEF SumsOver

LEMMA SumSolves ==
    ASSUME NEW S, IsFiniteSet(S), NEW f
    PROVE  \E g : /\ SumFunctionOnSet(f, S) = g[S]
                  /\ \A s \in SUBSET S : SumsTo(g, f, s)
  <1> DEFINE h == CHOOSE g : SumsOver(g, f, S)
  <1>1. SumsOver(h, f, S)
    BY SumsExist
  <1>2. SumFunctionOnSet(f, S) = h[S]
    BY DEF SumFunctionOnSet, FoldFunctionOnSet, MapThenFoldSet, Some, SumsOver
  <1>3. \A s \in SUBSET S : SumsTo(h, f, s)
    BY <1>1 DEF SumsTo, SumsOver
  <1> QED BY <1>2, <1>3

(* The sum of a set is that of its parts: the chosen element and the rest. *)
LEMMA SumChosen ==
    ASSUME NEW S, IsFiniteSet(S), NEW f
    PROVE  SumFunctionOnSet(f, S) =
               IF S = {} THEN 0
               ELSE f[Some(S)] + SumFunctionOnSet(f, S \ {Some(S)})
  <1>1. PICK g : SumFunctionOnSet(f, S) = g[S] /\ \A s \in SUBSET S : SumsTo(g, f, s)
    BY SumSolves
  <1>2. CASE S = {}
    BY <1>1, <1>2 DEF SumsTo
  <1>3. CASE S # {}
    <2> DEFINE R == S \ {Some(S)}
    <2>1. IsFiniteSet(R) /\ R \in SUBSET S
      BY FS_RemoveElement
    <2>2. PICK h : SumFunctionOnSet(f, R) = h[R] /\ \A s \in SUBSET R : SumsTo(h, f, s)
      BY <2>1, SumSolves
    <2> DEFINE G == {s \in SUBSET R : g[s] = h[s]}
    <2>3. ASSUME NEW A \in SUBSET R, \A x \in A : A \ {x} \in G PROVE A \in G
      <3>1. SumsTo(g, f, A) /\ SumsTo(h, f, A)
        BY <1>1, <2>2
      <3>2. A # {} => g[A \ {Some(A)}] = h[A \ {Some(A)}]
        BY <2>3, SomeIn
      <3> QED BY <3>1, <3>2 DEF SumsTo
    <2> HIDE DEF R, G
    <2>4. SUBSET R \subseteq G
      BY <2>1, <2>3, SubsetsIn
    <2> USE DEF R, G
    <2>5. g[R] = h[R]
      BY <2>4
    <2>6. SumsTo(g, f, S)
      BY <1>1
    <2> QED BY <1>1, <1>3, <2>2, <2>5, <2>6 DEF SumsTo
  <1> QED BY <1>2, <1>3

LEMMA SumEmpty == ASSUME NEW f PROVE SumFunctionOnSet(f, {}) = 0
  BY SumChosen, FS_EmptySet

(* A sum of natural numbers is one. *)
LEMMA SumNat ==
    ASSUME NEW S, IsFiniteSet(S), NEW f, \A x \in S : f[x] \in Nat
    PROVE  SumFunctionOnSet(f, S) \in Nat
  <1> DEFINE G == {s \in SUBSET S : SumFunctionOnSet(f, s) \in Nat}
  <1>1. ASSUME NEW A \in SUBSET S, \A x \in A : A \ {x} \in G PROVE A \in G
    <2>1. SumFunctionOnSet(f, A) =
              IF A = {} THEN 0 ELSE f[Some(A)] + SumFunctionOnSet(f, A \ {Some(A)})
      BY SumChosen, FS_Subset
    <2>2. A # {} => f[Some(A)] \in Nat /\ SumFunctionOnSet(f, A \ {Some(A)}) \in Nat
      BY <1>1, SomeIn
    <2> QED BY <2>1, <2>2
  <1> HIDE DEF G
  <1>2. SUBSET S \subseteq G
    BY <1>1, SubsetsIn
  <1> QED BY <1>2 DEF G

(* Any element may be taken out first. *)
LEMMA SumWithout ==
    ASSUME NEW S, IsFiniteSet(S), NEW f, \A y \in S : f[y] \in Nat, NEW x \in S
    PROVE  SumFunctionOnSet(f, S) = f[x] + SumFunctionOnSet(f, S \ {x})
  <1> DEFINE Sum(s) == SumFunctionOnSet(f, s)
             G == {s \in SUBSET S : \A y \in s : Sum(s) = f[y] + Sum(s \ {y})}
  <1>0. \A s \in SUBSET S : IsFiniteSet(s) /\ Sum(s) \in Nat
    BY SumNat, FS_Subset
  <1>1. ASSUME NEW A \in SUBSET S, \A y \in A : A \ {y} \in G PROVE A \in G
    <2> SUFFICES ASSUME NEW y \in A PROVE Sum(A) = f[y] + Sum(A \ {y})
      OBVIOUS
    <2> DEFINE c == Some(A)
    <2>1. c \in A
      BY SomeIn
    <2> HIDE DEF c
    <2>2. Sum(A) = f[c] + Sum(A \ {c})
      BY SumChosen, <1>0 DEF c
    <2>3. CASE c = y
      BY <2>2, <2>3
    <2>4. CASE c # y
      <3>1. Sum(A \ {c}) = f[y] + Sum((A \ {c}) \ {y})
        BY <1>1, <2>1, <2>4
      <3>2. Sum(A \ {y}) = f[c] + Sum((A \ {y}) \ {c})
        BY <1>1, <2>1, <2>4
      <3>3. (A \ {c}) \ {y} = (A \ {y}) \ {c}
        OBVIOUS
      <3>4. f[c] \in Nat /\ f[y] \in Nat /\ Sum((A \ {y}) \ {c}) \in Nat
        BY <1>0, <2>1
      <3> HIDE DEF Sum
      <3> QED BY <2>2, <3>1, <3>2, <3>3, <3>4
    <2> QED BY <2>3, <2>4
  <1> HIDE DEF G
  <1>2. SUBSET S \subseteq G
    BY <1>1, SubsetsIn
  <1> QED BY <1>2 DEF G

(* Functions that agree on a set have the same sum over it. *)
LEMMA SumEqual ==
    ASSUME NEW S, IsFiniteSet(S), NEW f, NEW g, \A x \in S : f[x] = g[x]
    PROVE  SumFunctionOnSet(f, S) = SumFunctionOnSet(g, S)
  <1> DEFINE G == {s \in SUBSET S : SumFunctionOnSet(f, s) = SumFunctionOnSet(g, s)}
  <1>1. ASSUME NEW A \in SUBSET S, \A x \in A : A \ {x} \in G PROVE A \in G
    <2>1. IsFiniteSet(A)
      BY FS_Subset
    <2>2. A # {} => /\ f[Some(A)] = g[Some(A)]
                    /\ SumFunctionOnSet(f, A \ {Some(A)}) =
                           SumFunctionOnSet(g, A \ {Some(A)})
      BY <1>1, SomeIn
    <2> QED BY <2>1, <2>2, SumChosen
  <1> HIDE DEF G
  <1>2. SUBSET S \subseteq G
    BY <1>1, SubsetsIn
  <1> QED BY <1>2 DEF G

(* Where no summand grows the sum does not. *)
LEMMA SumMonotone ==
    ASSUME NEW S, IsFiniteSet(S), NEW f, NEW g,
           \A x \in S : f[x] \in Nat /\ g[x] \in Nat /\ f[x] <= g[x]
    PROVE  SumFunctionOnSet(f, S) <= SumFunctionOnSet(g, S)
  <1> DEFINE G == {s \in SUBSET S : SumFunctionOnSet(f, s) <= SumFunctionOnSet(g, s)}
  <1>1. ASSUME NEW A \in SUBSET S, \A x \in A : A \ {x} \in G PROVE A \in G
    <2>1. IsFiniteSet(A)
      BY FS_Subset
    <2>2. CASE A = {}
      BY <2>2, SumEmpty
    <2>3. CASE A # {}
      <3> DEFINE c == Some(A)
                 F == SumFunctionOnSet(f, A \ {c})
                 H == SumFunctionOnSet(g, A \ {c})
      <3>1. c \in A
        BY <2>3, SomeIn
      <3>2. F \in Nat /\ H \in Nat
        BY <2>1, SumNat, FS_RemoveElement
      <3>3. F <= H
        BY <1>1, <3>1
      <3>4. SumFunctionOnSet(f, A) = f[c] + F /\ SumFunctionOnSet(g, A) = g[c] + H
        BY <2>1, <2>3, SumChosen
      <3>5. f[c] \in Nat /\ g[c] \in Nat /\ f[c] <= g[c]
        BY <3>1
      <3> HIDE DEF c, F, H
      <3> QED BY <3>2, <3>3, <3>4, <3>5
    <2> QED BY <2>2, <2>3
  <1> HIDE DEF G
  <1>2. SUBSET S \subseteq G
    BY <1>1, SubsetsIn
  <1> QED BY <1>2 DEF G

-----------------------------------------------------------------------------
(* The limits of the workers: ActiveLimits. *)

LEMMA MaxIs ==
    ASSUME NEW S \in SUBSET Int, NEW x \in S, \A y \in S : y <= x
    PROVE  Max(S) = x
  <1>1. \A z \in S : (\A y \in S : z >= y) => z = x
    OBVIOUS
  <1> QED BY <1>1 DEF Max

LEMMA MinIs ==
    ASSUME NEW S \in SUBSET Int, NEW x \in S, \A y \in S : x <= y
    PROVE  Min(S) = x
  <1>1. \A z \in S : (\A y \in S : z <= y) => z = x
    OBVIOUS
  <1> QED BY <1>1 DEF Min

LEMMA MaxOfTwo ==
    ASSUME NEW a \in Int, NEW b \in Int
    PROVE  Max({a, b}) = IF a <= b THEN b ELSE a
  <1>1. CASE a <= b
    BY <1>1, MaxIs
  <1>2. CASE ~ (a <= b)
    BY <1>2, MaxIs
  <1> QED BY <1>1, <1>2

LEMMA MinOfTwo ==
    ASSUME NEW a \in Int, NEW b \in Int
    PROVE  Min({a, b}) = IF a <= b THEN a ELSE b
  <1>1. CASE a <= b
    BY <1>1, MinIs
  <1>2. CASE ~ (a <= b)
    BY <1>2, MinIs
  <1> QED BY <1>1, <1>2

LEMMA MaxOfThree ==
    ASSUME NEW a \in Int, NEW b \in Int, NEW c \in Int
    PROVE  /\ Max({a, b, c}) \in {a, b, c}
           /\ a <= Max({a, b, c}) /\ b <= Max({a, b, c}) /\ c <= Max({a, b, c})
  <1>1. PICK x \in {a, b, c} : \A y \in {a, b, c} : y <= x
    <2>1. CASE a >= b /\ a >= c
      BY <2>1
    <2>2. CASE b >= a /\ b >= c
      BY <2>2
    <2>3. CASE c >= a /\ c >= b
      BY <2>3
    <2> QED BY <2>1, <2>2, <2>3
  <1>2. Max({a, b, c}) = x
    BY <1>1, MaxIs
  <1> QED BY <1>1, <1>2

(* A share is no more than its part, and grows with the whole. *)
LEMMA ShareFits ==
    ASSUME NEW a \in Nat, NEW n \in Nat \ {0}
    PROVE  a \div n \in Nat /\ n * (a \div n) <= a
  OBVIOUS

LEMMA ShareGrows ==
    ASSUME NEW a \in Nat, NEW b \in Nat, a <= b, NEW n \in Nat \ {0}
    PROVE  a \div n <= b \div n
  OBVIOUS

LEMMA TimesGrows ==
    ASSUME NEW a \in Nat, NEW b \in Nat, a <= b, NEW n \in Nat
    PROVE  a * n <= b * n /\ n * a <= n * b
  OBVIOUS
-----------------------------------------------------------------------------
ToldNow == [m \in Told |-> told[m]]
Pool == ActivePool("critical", ToldNow)
Allowed == SafeCeiling(Pool, Cardinality(Told))
Pressures == {"normal", "warning", "critical"}
Telling == [max : Nat, retained : Nat]
Growing == [bytes : Nat, age : 0 .. 2]

(* Telemetry is of a launched worker. *)
ToldAreUp == \A m \in Keys : told[m] # NoTelemetry => handle[m] = "up"

HandlesTyped ==
    /\ handle \in [Keys -> {"none", "down", "up"}] /\ limit \in [Keys -> Nat]
    /\ told \in [Keys -> Telling] /\ growth \in [Keys -> Growing]
    /\ parting \in [Keys -> Telling]
RebalanceTyped ==
    /\ plans \subseteq [key : Keys, selected : Nat, previous : Nat]
    /\ command = NoCall \/ command \in [key : Keys, max : Nat]
    /\ available \in Nat /\ snapshot \in Nat /\ loading \subseteq Keys /\ pressure \in Pressures
LimitsTyped == HandlesTyped /\ RebalanceTyped

StepsRight ==
    /\ step = "evicting" => pressure = "critical"
    /\ step = "setting" => seen \/ unheeded
    /\ command # NoCall => step = "setting"

(* A list and a snapshot without a change since are still right. *)
Sampling == step \in {"sampled", "evicting", "resampled"}
Fresh ==
    ~unheeded =>
        /\ Sampling \/ step \in {"sampling", "resampling"} =>
               Told \subseteq resident /\ parting = NobodyParts
        /\ Sampling => snapshot = available

(* Pressure that is critical has been noticed once the last change is dealt with. *)
Aware ==
    Told # {} /\ available <= 8 /\ (~unheeded \/ (seen /\ step = "setting")) =>
        pressure = "critical"

(* No limit is above the share of the pool. *)
Bounded ==
    pressure = "critical" /\ ~unheeded => \A m \in Told : limit[m] <= Allowed

(* What a rebalance still has to set is within the share, and so is the rest. *)
Planned ==
    pressure = "critical" /\ seen /\ step = "setting" =>
        /\ \A p \in plans : p.key \in Told => p.selected <= Allowed
        /\ command.key \in Told => command.max <= Allowed
        /\ \A m \in Told : \/ limit[m] <= Allowed \/ command.key = m
                           \/ \E p \in plans : p.key = m

LimitsInv ==
    LimitsTyped /\ ToldAreUp /\ StepsRight /\ Fresh /\ Aware /\ Bounded /\ Planned

-----------------------------------------------------------------------------
LEMMA LimitsConstants ==
    /\ IsFiniteSet(Keys) /\ "none" \notin Keys
    /\ OsReserve \in Nat /\ Resident \in Nat /\ Budget \in Nat /\ LeastGrowth \in Nat
    /\ Reserve \in Nat \ {0} /\ Ceiling \in Nat \ {0} /\ FirstLimit \in Nat \ {0}
    /\ Retained \subseteq Nat /\ 0 \in Retained /\ Levels \subseteq Nat
    /\ Wanted \in [Keys -> Nat \ {0}]
  BY LimitsAssumption

LEMMA ToldFinite ==
    /\ Told \subseteq Keys /\ IsFiniteSet(Told) /\ Cardinality(Told) \in Nat
    /\ Told # {} => Cardinality(Told) \in Nat \ {0}
  <1>1. Told \subseteq Keys /\ IsFiniteSet(Told)
    BY LimitsConstants, FS_Subset DEF Told
  <1> QED BY <1>1, FS_CardinalityType, FS_EmptySet

LEMMA ReserveNat ==
    ASSUME NEW t \in Telling, NEW g \in Growing
    PROVE  GrowthReserve(t, g) \in Nat
  <1> DEFINE remaining == Max({0, Budget - t.retained})
             recent == IF g.age < 2 THEN g.bytes ELSE 0
             most == Max({recent, LeastGrowth, remaining \div 10})
  <1>0. recent \in Nat /\ Budget - t.retained \in Int
    BY LimitsConstants DEF Telling, Growing
  <1>1. remaining \in Nat
    BY <1>0, MaxOfTwo
  <1> HIDE DEF remaining, recent
  <1>2. remaining \div 10 \in Nat
    BY <1>1
  <1>3. most \in Nat
    <2> DEFINE part == remaining \div 10
    <2>1. recent \in Int /\ LeastGrowth \in Int /\ LeastGrowth \in Nat
      BY <1>0, LimitsConstants
    <2>2. part \in Int /\ part \in Nat
      BY <1>2
    <2> HIDE DEF part
    <2> DEFINE x == Max({recent, LeastGrowth, part})
    <2>3. x \in {recent, LeastGrowth, part}
      BY <2>1, <2>2, MaxOfThree
    <2> HIDE DEF x
    <2>4. x \in Nat
      BY <1>0, <2>1, <2>2, <2>3
    <2> QED BY <2>4 DEF x, part
  <1> HIDE DEF most
  <1>4. Min({remaining, most}) \in Nat
    BY <1>1, <1>3, MinOfTwo
  <1> QED BY <1>4 DEF GrowthReserve, remaining, recent, most

(* Less recent growth, less reserve. *)
LEMMA ReserveFalls ==
    ASSUME NEW t \in Telling, NEW g \in Growing, NEW h \in Growing,
           h.age < 2 => g.age < 2 /\ h.bytes <= g.bytes
    PROVE  GrowthReserve(t, h) <= GrowthReserve(t, g)
  <1> DEFINE remaining == Max({0, Budget - t.retained})
             recent(k) == IF k.age < 2 THEN k.bytes ELSE 0
             most(k) == Max({recent(k), LeastGrowth, remaining \div 10})
  <1>0. recent(g) \in Nat /\ recent(h) \in Nat /\ recent(h) <= recent(g)
        /\ Budget - t.retained \in Int
    BY LimitsConstants DEF Telling, Growing
  <1>1. remaining \in Nat
    BY <1>0, MaxOfTwo
  <1>2. GrowthReserve(t, g) = Min({remaining, most(g)})
        /\ GrowthReserve(t, h) = Min({remaining, most(h)})
    BY DEF GrowthReserve
  <1> HIDE DEF remaining, recent
  <1>3. remaining \div 10 \in Nat
    BY <1>1
  <1>4. most(g) \in Nat /\ most(h) \in Nat /\ most(h) <= most(g)
    <2> DEFINE part == remaining \div 10
               a == recent(g)
               b == recent(h)
    <2>1. a \in Nat /\ b \in Nat /\ b <= a /\ part \in Nat /\ LeastGrowth \in Nat
      BY <1>0, <1>3, LimitsConstants
    <2> HIDE DEF part, a, b
    <2> DEFINE x == Max({a, LeastGrowth, part})
               y == Max({b, LeastGrowth, part})
    <2>2. a \in Int /\ b \in Int /\ part \in Int /\ LeastGrowth \in Int
      BY <2>1
    <2>4. x \in {a, LeastGrowth, part} /\ a <= x /\ LeastGrowth <= x /\ part <= x
      BY <2>2, MaxOfThree
    <2>5. y \in {b, LeastGrowth, part} /\ b <= y /\ LeastGrowth <= y /\ part <= y
      BY <2>2, MaxOfThree
    <2> HIDE DEF x, y
    <2>3. x \in Nat /\ y \in Nat /\ y <= x
      BY <2>1, <2>4, <2>5
    <2> QED BY <2>3 DEF x, y, a, b, part
  <1> HIDE DEF most
  <1> QED BY <1>1, <1>2, <1>4, MinOfTwo

LEMMA TakenNat ==
    ASSUME NEW t \in Telling, NEW g \in Growing
    PROVE  Taken(t, g) \in Nat
  <1>1. t.retained \in Nat /\ Resident + t.retained \in Nat
    BY LimitsConstants DEF Telling
  <1>2. Max({Resident + t.retained, t.retained}) \in Nat
    BY <1>1, MaxOfTwo
  <1> QED BY <1>2, ReserveNat DEF Taken

(* What some of the workers say. *)
Saying(says) ==
    /\ DOMAIN says \subseteq Keys /\ says = [m \in DOMAIN says |-> says[m]]
    /\ \A m \in DOMAIN says : says[m] \in Telling
LEMMA SayingFinite ==
    ASSUME NEW says, Saying(says)
    PROVE  /\ IsFiniteSet(DOMAIN says) /\ Cardinality(DOMAIN says) \in Nat
           /\ DOMAIN says # {} => Cardinality(DOMAIN says) \in Nat \ {0}
  <1>1. IsFiniteSet(DOMAIN says)
    BY LimitsConstants, FS_Subset DEF Saying
  <1> QED BY <1>1, FS_CardinalityType, FS_EmptySet

LEMMA PoolIs ==
    ASSUME LimitsTyped, NEW p, NEW says, Saying(says)
    PROVE  /\ TakenByAll(says) \in Nat /\ PressureReserve(p) \in Nat
           /\ ActivePool(p, says) \in Nat
  <1> DEFINE f == [m \in DOMAIN says |-> Taken(says[m], growth[m])]
  <1>1. \A m \in DOMAIN says : f[m] \in Nat
    BY TakenNat DEF LimitsTyped, HandlesTyped, Saying
  <1>2. SumFunctionOnSet(f, DOMAIN says) \in Nat
    <2> HIDE DEF f
    <2> QED BY <1>1, SayingFinite, SumNat
  <1>3. SumFunction(f) = SumFunctionOnSet(f, DOMAIN says)
    BY DEF SumFunction
  <1>4. TakenByAll(says) \in Nat
    BY <1>2, <1>3 DEF TakenByAll
  <1>5. PressureReserve(p) \in Nat
    BY DEF PressureReserve
  <1>6. 100 - OsReserve - PressureReserve(p) - TakenByAll(says) \in Int
    BY <1>4, <1>5, LimitsConstants
  <1> QED BY <1>4, <1>5, <1>6, MaxOfTwo DEF ActivePool

LEMMA ToldSaying == ASSUME LimitsTyped PROVE Saying(ToldNow) /\ DOMAIN ToldNow = Told
  BY DEF LimitsTyped, HandlesTyped, Told, ToldNow, Saying
LEMMA PoolNat == ASSUME LimitsTyped PROVE Pool \in Nat
  BY ToldSaying, PoolIs DEF Pool

LEMMA PoolKept ==
    ASSUME UNCHANGED <<told, growth>>
    PROVE  /\ Told' = Told /\ ToldNow' = ToldNow /\ Pool' = Pool /\ Allowed' = Allowed
  BY DEF Told, ToldNow, Pool, ActivePool, TakenByAll, Taken, Allowed, SafeCeiling

(* What is safe is at least one, or what memory and the ceiling allow. *)
LEMMA SafeIs ==
    ASSUME NEW pool \in Nat, NEW n \in Nat \ {0}
    PROVE  LET q == (pool \div n) \div Reserve
           IN  /\ q \in Nat /\ SafeCeiling(pool, n) \in Nat \ {0}
               /\ \/ SafeCeiling(pool, n) = 1
                  \/ SafeCeiling(pool, n) <= Ceiling /\ SafeCeiling(pool, n) <= q
               /\ \A k \in Nat : k <= Ceiling /\ k <= q => k <= SafeCeiling(pool, n)
  <1> DEFINE q == (pool \div n) \div Reserve
             least == Min({Ceiling, q})
  <1>1. q \in Nat
    BY LimitsConstants, ShareFits
  <1> HIDE DEF q
  <1>2. least \in {Ceiling, q} /\ least <= Ceiling /\ least <= q
    <2>1. Ceiling \in Int /\ q \in Int
      BY <1>1, LimitsConstants
    <2> QED BY <2>1, MinOfTwo
  <1>3. least \in Nat
    BY <1>1, <1>2, LimitsConstants
  <1> HIDE DEF least
  <1>4. SafeCeiling(pool, n) = IF 1 <= least THEN least ELSE 1
    BY <1>3, MaxOfTwo DEF SafeCeiling, q, least
  <1> QED BY <1>1, <1>2, <1>3, <1>4 DEF q

LEMMA SafeGrows ==
    ASSUME NEW a \in Nat, NEW b \in Nat, a <= b, NEW n \in Nat \ {0}
    PROVE  SafeCeiling(a, n) <= SafeCeiling(b, n)
  <1> DEFINE q(c) == (c \div n) \div Reserve
  <1>1. a \div n \in Nat /\ b \div n \in Nat /\ a \div n <= b \div n
    BY ShareFits, ShareGrows
  <1>2. q(a) \in Nat /\ q(b) \in Nat /\ q(a) <= q(b)
    BY <1>1, LimitsConstants, ShareFits, ShareGrows
  <1>3. /\ SafeCeiling(a, n) \in Nat \ {0} /\ SafeCeiling(b, n) \in Nat \ {0}
        /\ \/ SafeCeiling(a, n) = 1
           \/ SafeCeiling(a, n) <= Ceiling /\ SafeCeiling(a, n) <= q(a)
        /\ \A k \in Nat : k <= Ceiling /\ k <= q(b) => k <= SafeCeiling(b, n)
    BY SafeIs
  <1> QED BY <1>2, <1>3

(* A fixed mode may ask for less, never for more. *)
LEMMA SelectedIs ==
    ASSUME NEW pool \in Nat, NEW n \in Nat \ {0}, NEW m \in Keys
    PROVE  Selected(pool, n, m) \in Nat /\ Selected(pool, n, m) <= SafeCeiling(pool, n)
  <1>1. Wanted[m] \in Nat /\ SafeCeiling(pool, n) \in Nat
    BY LimitsConstants, SafeIs
  <1> QED BY <1>1, MinOfTwo DEF Selected

(* A sum is within the number of summands times a bound of each. *)
LEMMA SumWithin ==
    ASSUME NEW S, IsFiniteSet(S), NEW f, NEW k \in Nat,
           \A x \in S : f[x] \in Nat /\ f[x] <= k
    PROVE  SumFunctionOnSet(f, S) <= Cardinality(S) * k
  <1> DEFINE G == {s \in SUBSET S : SumFunctionOnSet(f, s) <= Cardinality(s) * k}
  <1>1. ASSUME NEW A \in SUBSET S, \A x \in A : A \ {x} \in G PROVE A \in G
    <2>1. IsFiniteSet(A)
      BY FS_Subset
    <2>2. CASE A = {}
      BY <2>2, SumEmpty, FS_EmptySet
    <2>3. CASE A # {}
      <3> DEFINE c == Some(A)
                 n == Cardinality(A)
                 rest == SumFunctionOnSet(f, A \ {c})
      <3>1. c \in A
        BY <2>3, SomeIn
      <3>2. n \in Nat /\ Cardinality(A \ {c}) = n - 1 /\ IsFiniteSet(A \ {c})
        BY <2>1, <3>1, FS_RemoveElement, FS_CardinalityType
      <3>3. n - 1 \in Nat
        BY <3>2, FS_CardinalityType
      <3>4. rest \in Nat
        BY <3>2, SumNat
      <3>5. rest <= (n - 1) * k
        BY <1>1, <3>1, <3>2
      <3>6. SumFunctionOnSet(f, A) = f[c] + rest
        BY <2>1, <2>3, SumChosen
      <3>7. f[c] \in Nat /\ f[c] <= k
        BY <3>1
      <3> HIDE DEF c, n, rest
      <3>8. (n - 1) * k + k = n * k /\ n * k \in Nat /\ (n - 1) * k \in Nat
        BY <3>2, <3>3
      <3>9. f[c] + rest <= n * k
        BY <3>4, <3>5, <3>7, <3>8
      <3> QED BY <3>6, <3>9 DEF n
    <2> QED BY <2>2, <2>3
  <1> HIDE DEF G
  <1>2. SUBSET S \subseteq G
    BY <1>1, SubsetsIn
  <1> QED BY <1>2 DEF G

LEMMA BoundedFits == ASSUME LimitsTyped, Bounded PROVE CriticalFits
  <1> SUFFICES ASSUME pressure = "critical" /\ ~unheeded
               PROVE  SumFunction([m \in Told |-> IF limit[m] <= 1 THEN 0
                                                  ELSE limit[m] * Reserve]) <= Pool
    BY DEF CriticalFits, Pool, ToldNow
  <1> DEFINE f == [m \in Told |-> IF limit[m] <= 1 THEN 0 ELSE limit[m] * Reserve]
             n == Cardinality(Told)
             k == Pool \div n
             q == k \div Reserve
  <1>1. Pool \in Nat
    BY PoolNat
  <1>2. SumFunction(f) = SumFunctionOnSet(f, Told)
    BY DEF SumFunction
  <1>3. CASE Told = {}
    <2>1. SumFunctionOnSet(f, Told) = 0
      BY <1>3, SumEmpty
    <2> QED BY <1>1, <1>2, <2>1
  <1>4. CASE Told # {}
    <2>1. n \in Nat \ {0} /\ k \in Nat /\ n * k <= Pool
      BY <1>1, <1>4, ToldFinite, ShareFits
    <2>2. q \in Nat /\ Reserve * q <= k
      BY <2>1, LimitsConstants, ShareFits
    <2>3. Allowed \in Nat /\ (Allowed = 1 \/ Allowed <= q)
      BY <1>1, <2>1, SafeIs DEF Allowed
    <2>4. ASSUME NEW m \in Told PROVE f[m] \in Nat /\ f[m] <= k
      <3>1. limit[m] \in Nat /\ limit[m] <= Allowed
        BY ToldFinite DEF LimitsTyped, HandlesTyped, Bounded
      <3>2. CASE limit[m] <= 1
        BY <2>1, <3>2
      <3>3. CASE ~ (limit[m] <= 1)
        <4> HIDE DEF n, k, q
        <4>1. limit[m] <= q
          BY <2>2, <2>3, <3>1, <3>3
        <4>2. limit[m] * Reserve <= q * Reserve /\ q * Reserve = Reserve * q
          BY <2>2, <3>1, <4>1, LimitsConstants, TimesGrows
        <4>3. limit[m] * Reserve \in Nat
          BY <3>1, LimitsConstants
        <4>4. limit[m] * Reserve <= k
          BY <2>1, <2>2, <4>2, <4>3, LimitsConstants
        <4> QED BY <3>3, <4>3, <4>4
      <3> QED BY <3>2, <3>3
    <2> HIDE DEF f, n, k, q
    <2>5. SumFunctionOnSet(f, Told) <= n * k /\ SumFunctionOnSet(f, Told) \in Nat
      BY <2>1, <2>4, ToldFinite, SumWithin, SumNat DEF n
    <2>6. SumFunctionOnSet(f, Told) <= Pool
      BY <1>1, <2>1, <2>5
    <2> QED BY <1>2, <2>6 DEF f
  <1> QED BY <1>3, <1>4

-----------------------------------------------------------------------------
LEMMA LimitsInitially == LimitsInit => LimitsInv
  <1> SUFFICES ASSUME LimitsInit PROVE LimitsInv
    OBVIOUS
  <1>1. LimitsTyped
    BY LimitsConstants DEF LimitsInit, LimitsTyped, HandlesTyped, RebalanceTyped, NoTelemetry, NoGrowth, NoCall, Telling,
       NobodyParts, Growing, Pressures
  <1>2. Told = {} /\ \A m \in Keys : told[m] = NoTelemetry
    BY DEF LimitsInit, Told
  <1>3. ToldAreUp /\ StepsRight /\ Fresh /\ Aware /\ Bounded /\ Planned
    BY <1>2 DEF LimitsInit, ToldAreUp, StepsRight, Sampling, Fresh, Aware, Bounded, Planned
  <1> QED BY <1>1, <1>3 DEF LimitsInv

LEMMA NoneTyped ==
    NoTelemetry \in Telling /\ NoGrowth \in Growing /\ NobodyParts \in [Keys -> Telling]
  BY DEF NoTelemetry, NobodyParts, NoGrowth, Telling, Growing

LEMMA ForgottenTyped ==
    ASSUME HandlesTyped, ToldAreUp, NEW S, Forgotten(S)
    PROVE  HandlesTyped' /\ ToldAreUp'
  BY NoneTyped DEF HandlesTyped, ToldAreUp, Forgotten

LEMMA LaunchedTyped ==
    ASSUME HandlesTyped, ToldAreUp, NEW m \in Keys, Launched(m), UNCHANGED <<growth, parting>>
    PROVE  HandlesTyped' /\ ToldAreUp'
  <1>1. HandlesTyped'
    BY NoneTyped, LimitsConstants DEF HandlesTyped, Launched
  <1>2. ToldAreUp'
    BY DEF HandlesTyped, ToldAreUp, Launched
  <1> QED BY <1>1, <1>2

LEMMA GrownTyped ==
    ASSUME HandlesTyped, NEW m \in Keys, NEW bytes \in Nat
    PROVE  Grown(m, bytes) \in Growing
  <1> DEFINE recent == IF growth[m].age < 2 THEN growth[m].bytes ELSE 0
             more == bytes - told[m].retained
  <1>1. growth[m] \in Growing /\ told[m] \in Telling
    BY DEF HandlesTyped
  <1>2. recent \in Nat /\ more \in Int /\ (bytes > told[m].retained => more \in Nat)
    BY <1>1 DEF Growing, Telling
  <1> HIDE DEF recent, more
  <1>3. bytes > told[m].retained => Max({more, recent}) \in Nat
    BY <1>2, MaxOfTwo
  <1>4. bytes > told[m].retained => [bytes |-> Max({more, recent}), age |-> 0] \in Growing
    BY <1>3 DEF Growing
  <1> QED BY <1>1, <1>4 DEF Grown, recent, more

LEMMA HandlesStep ==
    ASSUME LimitsInv, LimitsNext
    PROVE  HandlesTyped' /\ ToldAreUp'
  <1> USE DEF LimitsInv, LimitsTyped
  <1>1. ASSUME NEW m \in Keys, NEW bytes \in Retained, Telemetry(m, bytes)
        PROVE  HandlesTyped' /\ ToldAreUp'
    <2>1. bytes \in Nat /\ limit[m] \in Nat
      BY LimitsConstants DEF HandlesTyped
    <2>2. [max |-> limit[m], retained |-> bytes] \in Telling /\ Grown(m, bytes) \in Growing
      BY <2>1, GrownTyped DEF Telling
    <2>3. HandlesTyped'
      BY <1>1, <2>2 DEF HandlesTyped, Telemetry, listing
    <2>4. ToldAreUp'
      BY <1>1 DEF HandlesTyped, ToldAreUp, Telemetry
    <2> QED BY <2>3, <2>4
  <1>2. ASSUME NEW m \in Keys, HandleExit(m) PROVE HandlesTyped' /\ ToldAreUp'
    <2>1. HandlesTyped'
      BY <1>2, NoneTyped DEF HandlesTyped, HandleExit, tuning, listing
    <2>2. ToldAreUp'
      BY <1>2 DEF HandlesTyped, ToldAreUp, HandleExit
    <2> QED BY <2>1, <2>2
  <1>3. ASSUME NEW m \in Keys, ShutdownKey(m) \/ Evict(m) PROVE HandlesTyped' /\ ToldAreUp'
    BY <1>3, ForgottenTyped DEF ShutdownKey, Evict
  <1>4. CASE DropHandles
    BY <1>4, ForgottenTyped DEF DropHandles
  <1>5. ASSUME NEW m \in Keys, LoadEnds(m) PROVE HandlesTyped' /\ ToldAreUp'
    <2>1. CASE Launched(m)
      BY <1>5, <2>1, LaunchedTyped DEF LoadEnds, tuning, listing
    <2>2. CASE UNCHANGED workers
      BY <1>5, <2>2 DEF LoadEnds, HandlesTyped, ToldAreUp, workers, tuning, listing
    <2> QED BY <1>5, <2>1, <2>2 DEF LoadEnds
  <1>6. CASE Relaunched
    <2>1. command.key \in Keys
      BY <1>6 DEF Relaunched, RebalanceTyped
    <2> QED BY <1>6, <2>1, LaunchedTyped DEF Relaunched, Rebalancing, tuning, listing
  <1>7. ASSUME NEW m \in Keys, Register(m) PROVE HandlesTyped' /\ ToldAreUp'
    BY <1>7 DEF Register, HandlesTyped, ToldAreUp, tuning, listing
  <1>8. CASE Tick
    <2>1. \A m \in Keys : growth[m] \in Growing
      BY DEF HandlesTyped
    <2>2. \A g \in Growing : [g EXCEPT !.age = 1] \in Growing
      BY DEF Growing
    <2>3. growth' \in [Keys -> Growing]
      BY <1>8, <2>1, <2>2, NoneTyped DEF Tick
    <2> QED BY <1>8, <2>3 DEF Tick, HandlesTyped, ToldAreUp, workers, listing
  <1>9. CASE SetAnswered
    <2>1. command \in [key : Keys, max : Nat]
      BY <1>9 DEF SetAnswered, RebalanceTyped
    <2>2. Min({command.max, Ceiling}) \in Nat
      BY <2>1, LimitsConstants, MinOfTwo
    <2> QED BY <1>9, <2>1, <2>2 DEF SetAnswered, Rebalancing, HandlesTyped, ToldAreUp, tuning,
            listing
  <1>10. CASE UNCHANGED <<workers, growth>> /\ (parting' = parting \/ parting' = NobodyParts)
    BY <1>10, NoneTyped DEF HandlesTyped, ToldAreUp, workers
  <1>11. CASE Poll \/ Fire \/ Claim \/ Snapshot \/ Sampled \/ EvictNone \/ Evicted \/ Resampled
              \/ Done
    BY <1>10, <1>11 DEF Poll, Fire, Claim, Snapshot, Sampled, EvictNone, Evicted, Resampled, Done,
       Lists, Finished, NoList, PlanNow, Rebalancing, tuning, listing
  <1>12. CASE SetFails \/ RotationOver \/ RotationAsked \/ \E p \in plans : SetNext(p)
    BY <1>10, <1>12 DEF SetFails, Finished, NoList, RotationOver, RotationAsked, SetNext, tuning,
       listing
  <1>13. CASE \/ \E m \in Keys : LoadBegins(m)
              \/ \E free \in Levels : MemoryChanges(free)
    BY <1>10, <1>13 DEF LoadBegins, MemoryChanges, tuning, listing
  <1>14. ASSUME NEW m \in Keys, Parted(m) PROVE HandlesTyped' /\ ToldAreUp'
    BY <1>14, NoneTyped DEF Parted, HandlesTyped, ToldAreUp, workers, tuning
  <1> QED BY <1>1, <1>2, <1>3, <1>4, <1>5, <1>6, <1>7, <1>8, <1>9, <1>11, <1>12, <1>13, <1>14
          DEF LimitsNext, Proceeds
-----------------------------------------------------------------------------
(* What a step may do to a rebalance. *)
Untouched == UNCHANGED <<limit, told, growth, available>>

(* A change of the workers or the memory. *)
Disturbed ==
    /\ News /\ UNCHANGED <<pressure, plans, command>>
    /\ step' = step \/ (step = "evicting" /\ step' = "evicted")
Quiet ==
    /\ Untouched /\ UNCHANGED <<pressure, plans, command, seen, unheeded>>
    /\ \/ step' = step /\ snapshot' = snapshot /\ resident' = resident
          /\ (parting' = parting \/ parting # NobodyParts)
       \/ /\ \/ step = "sampling" /\ step' = "sampled"
             \/ step = "resampling" /\ step' = "resampled"
          /\ snapshot' = available /\ UNCHANGED <<resident, parting>>
       \/ /\ step \notin {"setting", "evicting"} /\ step' \in {"asked", "sampling", "resampling"}
          /\ step' # "asked" => resident' = Told /\ parting' = NobodyParts
GivenUp == Untouched /\ Finished(FALSE) /\ UNCHANGED <<pressure, seen>>
Planning ==
    /\ Untouched /\ step \in {"sampled", "evicting", "resampled"}
    /\ \E p \in Pressures :
          /\ PlanNow(p)
          /\ (step = "evicting" /\ p = pressure) \/ p = Classify(snapshot, pressure)
Evicting ==
    /\ Untouched /\ UNCHANGED <<plans, command, seen, unheeded, listing>>
    /\ step = "sampled" /\ step' = "evicting" /\ pressure' = "critical"
    /\ Classify(snapshot, pressure) = "critical"

LEMMA ClassifyIs ==
    ASSUME NEW free \in Nat, NEW p
    PROVE  /\ Classify(free, p) \in Pressures
           /\ Classify(free, p) = "critical" <=> free <= 8
  BY DEF Classify, Pressures

LEMMA RebalanceCases ==
    ASSUME LimitsInv, LimitsNext
    PROVE  \/ Disturbed \/ Quiet \/ GivenUp \/ Done \/ Planning \/ Evicting
           \/ Tick \/ SetAnswered \/ \E p \in plans : SetNext(p)
  <1> USE DEF LimitsInv, LimitsTyped
  <1>0. snapshot \in Nat /\ pressure \in Pressures
    BY DEF RebalanceTyped
  <1>1. ASSUME NEW m \in Keys, NEW bytes \in Retained, Telemetry(m, bytes) PROVE Disturbed
    BY <1>1 DEF Telemetry, Disturbed
  <1>2. ASSUME NEW m \in Keys, HandleExit(m) \/ ShutdownKey(m) \/ Evict(m) PROVE Disturbed
    BY <1>2 DEF HandleExit, ShutdownKey, Evict, Disturbed
  <1>3. CASE DropHandles \/ Relaunched \/ \E free \in Levels : MemoryChanges(free)
    BY <1>3 DEF DropHandles, Relaunched, MemoryChanges, Disturbed
  <1>4. ASSUME NEW m \in Keys, LoadEnds(m) PROVE Disturbed \/ Quiet
    BY <1>4 DEF LoadEnds, Disturbed, Quiet, Untouched, workers, tuning, listing
  <1>5. ASSUME NEW m \in Keys, Register(m) \/ LoadBegins(m) \/ Parted(m) PROVE Quiet
    BY <1>5 DEF Register, LoadBegins, Parted, NobodyParts, Quiet, Untouched, workers, tuning,
       listing
  <1>6. CASE Poll \/ Fire \/ RotationOver \/ RotationAsked
    BY <1>6 DEF Poll, Fire, RotationOver, RotationAsked, Quiet, Untouched, workers, tuning,
       listing, Rebalancing
  <1>7. CASE Claim \/ Evicted
    BY <1>7 DEF Claim, Evicted, Lists, Quiet, GivenUp, Untouched, workers, tuning, Rebalancing
  <1>12. CASE Snapshot
    <2>1. Untouched /\ UNCHANGED <<pressure, plans, command, seen, unheeded, resident, parting>>
      BY <1>12 DEF Snapshot, Untouched, workers, tuning, Rebalancing
    <2>2. Quiet
      BY <1>12, <2>1 DEF Snapshot, Quiet
    <2> QED BY <2>2
  <1>8. CASE Sampled
    BY <1>8, <1>0, ClassifyIs DEF Sampled, ShouldEvict, Planning, Evicting, Untouched, workers,
       tuning, listing, Rebalancing
  <1>9. CASE EvictNone
    BY <1>9, <1>0 DEF EvictNone, Planning, Untouched, workers, tuning, Rebalancing
  <1>10. CASE Resampled
    BY <1>10, <1>0, ClassifyIs DEF Resampled, Planning, Untouched, workers, tuning, Rebalancing
  <1>11. CASE SetFails
    BY <1>11 DEF SetFails, GivenUp, Untouched, workers, tuning
  <1> QED BY <1>1, <1>2, <1>3, <1>4, <1>5, <1>6, <1>7, <1>8, <1>9, <1>10, <1>11, <1>12
          DEF LimitsNext, Proceeds

LEMMA PlansTyped ==
    ASSUME LimitsTyped, NEW p, NEW says, Saying(says)
    PROVE  PlansFor(ActivePool(p, says), says)
               \subseteq [key : Keys, selected : Nat, previous : Nat]
  <1> DEFINE pool == ActivePool(p, says)
             n == Cardinality(DOMAIN says)
  <1>1. pool \in Nat /\ (DOMAIN says # {} => n \in Nat \ {0})
    BY PoolIs, SayingFinite
  <1> HIDE DEF pool, n
  <1>2. ASSUME NEW m \in DOMAIN says
        PROVE  m \in Keys /\ Selected(pool, n, m) \in Nat /\ says[m].max \in Nat
    BY <1>1, SelectedIs DEF Saying, Telling
  <1>3. PlansFor(pool, says) \subseteq [key : Keys, selected : Nat, previous : Nat]
    BY <1>2 DEF PlansFor, n
  <1> QED BY <1>3 DEF pool

(* What the listed workers say is what there is, when the list is up to date. *)
LEMMA SaidIs ==
    ASSUME LimitsTyped
    PROVE  Saying(Said) /\ (UpToDate => Said = ToldNow)
  <1>1. \A m \in Keys : told[m] \in Telling /\ parting[m] \in Telling
    BY DEF LimitsTyped, HandlesTyped
  <1>2. Saying(Said)
    BY <1>1 DEF Said, Saying, Listed, Retains
  <1>3. ASSUME UpToDate PROVE Said = ToldNow
    <2>1. \A m \in Keys : m \notin resident => Retains(m) = NoTelemetry /\ told[m] = NoTelemetry
      BY <1>3 DEF UpToDate, Retains, NobodyParts, Told
    <2>2. \A m \in Keys : Retains(m) = told[m]
      BY <2>1 DEF Retains
    <2>3. Listed = Told
      BY <2>2 DEF Listed, Told
    <2> QED BY <2>2, <2>3 DEF Said, ToldNow, Listed
  <1> QED BY <1>2, <1>3

LEMMA RebalanceStep ==
    ASSUME LimitsInv, LimitsNext
    PROVE  RebalanceTyped'
  <1> USE DEF LimitsInv, LimitsTyped
  <1>1. available' \in Nat /\ loading' \subseteq Keys /\ snapshot' \in Nat
    <2>1. available' = available \/ available' \in Levels
      BY DEF LimitsNext, Proceeds, Poll, Fire, Claim, Snapshot, Sampled, EvictNone, Evicted,
         Resampled, SetNext, Relaunched, SetAnswered, SetFails, Done, DropHandles, RotationOver,
         LoadEnds, Tick, RotationAsked, Register, LoadBegins, HandleExit, ShutdownKey, Parted,
         Evict, Telemetry, MemoryChanges, Rebalancing
    <2>2. loading' = loading \/ \E m \in Keys : loading' = loading \cup {m}
                             \/ loading' = loading \ {m}
      BY DEF LimitsNext, Proceeds, Poll, Fire, Claim, Snapshot, Sampled, EvictNone, Evicted,
         Resampled, SetNext, Relaunched, SetAnswered, SetFails, Done, DropHandles, RotationOver,
         LoadEnds, Tick, RotationAsked, Register, LoadBegins, HandleExit, ShutdownKey, Parted,
         Evict, Telemetry, MemoryChanges, Rebalancing
    <2>3. snapshot' \in {snapshot, available, 0}
      BY DEF LimitsNext, Proceeds, Poll, Fire, Claim, Snapshot, Sampled, EvictNone, Evicted,
         Resampled, SetNext, Relaunched, SetAnswered, SetFails, Done, DropHandles, RotationOver,
         LoadEnds, Tick, RotationAsked, Register, LoadBegins, HandleExit, ShutdownKey, Parted,
         Evict, Telemetry, MemoryChanges, Rebalancing,
         Forgotten, Lists, Finished, NoList, PlanNow, listing
    <2> QED BY <2>1, <2>2, <2>3, LimitsConstants DEF RebalanceTyped
  <1>2. /\ plans' \subseteq [key : Keys, selected : Nat, previous : Nat]
        /\ command' = NoCall \/ command' \in [key : Keys, max : Nat]
        /\ pressure' \in Pressures
    <2>1. CASE Disturbed \/ Quiet
      BY <2>1 DEF Disturbed, Quiet, RebalanceTyped
    <2>2. CASE GivenUp \/ Done
      BY <2>2 DEF GivenUp, Done, Finished, RebalanceTyped
    <2>3. CASE Planning
      BY <2>3, PlansTyped, SaidIs DEF Planning, PlanNow, RebalanceTyped
    <2>4. CASE Evicting \/ Tick \/ SetAnswered
      BY <2>4 DEF Evicting, Tick, SetAnswered, Rebalancing, Pressures, RebalanceTyped
    <2>5. ASSUME NEW p \in plans, SetNext(p)
          PROVE  /\ plans' \subseteq plans /\ pressure' = pressure
                 /\ command' = NoCall \/ command' \in [key : Keys, max : Nat]
      <3>1. p \in [key : Keys, selected : Nat, previous : Nat]
        BY DEF RebalanceTyped
      <3>2. [key |-> p.key, max |-> IF ShouldAdjust(p) THEN p.selected ELSE p.previous]
                \in [key : Keys, max : Nat]
        BY <3>1
      <3> QED BY <2>5, <3>2 DEF SetNext
    <2> QED BY <2>1, <2>2, <2>3, <2>4, <2>5, RebalanceCases DEF RebalanceTyped
  <1> QED BY <1>1, <1>2 DEF RebalanceTyped
(* As growth ages, the pool does not shrink. *)
LEMMA TickGrows ==
    ASSUME LimitsTyped, HandlesTyped', Tick
    PROVE  Told' = Told /\ (Told # {} => Allowed \in Nat /\ Allowed' \in Nat /\ Allowed <= Allowed')
  <1>1. Told' = Told /\ told' = told
    BY DEF Tick, Told, workers
  <1> DEFINE before(m) == Taken(told[m], growth[m])
             after(m) == Taken(told[m], growth'[m])
  <1>2. ASSUME NEW m \in Keys
        PROVE  before(m) \in Nat /\ after(m) \in Nat /\ after(m) <= before(m)
    <2> DEFINE base == Max({Resident + told[m].retained, told[m].retained})
    <2>1. told[m] \in Telling /\ growth[m] \in Growing /\ growth'[m] \in Growing
      BY DEF LimitsTyped, HandlesTyped
    <2>2. growth'[m].age < 2 => growth[m].age < 2 /\ growth'[m].bytes <= growth[m].bytes
      BY <2>1 DEF Tick, NoGrowth, Growing
    <2>3. GrowthReserve(told[m], growth'[m]) <= GrowthReserve(told[m], growth[m])
      BY <2>1, <2>2, ReserveFalls
    <2>4. GrowthReserve(told[m], growth'[m]) \in Nat /\ GrowthReserve(told[m], growth[m]) \in Nat
      BY <2>1, ReserveNat
    <2>5. told[m].retained \in Nat /\ Resident + told[m].retained \in Nat
      BY <2>1, LimitsConstants DEF Telling
    <2>6. base \in Nat
      BY <2>5, MaxOfTwo
    <2>7. /\ before(m) = base + GrowthReserve(told[m], growth[m])
          /\ after(m) = base + GrowthReserve(told[m], growth'[m])
      BY DEF Taken
    <2> HIDE DEF base
    <2> QED BY <2>3, <2>4, <2>6, <2>7
  <1> DEFINE f == [m \in Told |-> before(m)]
             g == [m \in Told |-> after(m)]
             F == SumFunctionOnSet(f, Told)
             G == SumFunctionOnSet(g, Told)
             rest(x) == 100 - OsReserve - PressureReserve("critical") - x
  <1>3. \A m \in Told : g[m] \in Nat /\ f[m] \in Nat /\ g[m] <= f[m]
    BY <1>2, ToldFinite
  <1>4. F \in Nat /\ G \in Nat /\ G <= F
    <2> HIDE DEF f, g
    <2> QED BY <1>3, ToldFinite, SumNat, SumMonotone
  <1>5. Pool = Max({0, rest(F)})
    BY DEF Pool, ActivePool, TakenByAll, ToldNow, SumFunction
  <1>6. Pool' = Max({0, rest(G)})
    BY <1>1 DEF Pool, ActivePool, TakenByAll, ToldNow, SumFunction, PressureReserve, Taken,
       GrowthReserve
  <1> HIDE DEF f, g, F, G
  <1>7. rest(F) \in Int /\ rest(G) \in Int /\ rest(F) <= rest(G)
    <2>1. PressureReserve("critical") \in Nat
      BY DEF PressureReserve
    <2> QED BY <1>4, <2>1, LimitsConstants
  <1> HIDE DEF rest
  <1>8. Pool \in Nat /\ Pool' \in Nat /\ Pool <= Pool'
    BY <1>5, <1>6, <1>7, MaxOfTwo
  <1>9. Allowed' = SafeCeiling(Pool', Cardinality(Told))
    BY <1>1 DEF Allowed, SafeCeiling
  <1> QED BY <1>1, <1>8, <1>9, ToldFinite, SafeGrows, SafeIs DEF Allowed

LEMMA StepsRightStep == ASSUME LimitsInv, LimitsNext PROVE StepsRight'
  <1> USE DEF LimitsInv
  <1>1. CASE Disturbed \/ Quiet
    BY <1>1 DEF Disturbed, News, Quiet, StepsRight
  <1>2. CASE GivenUp \/ Done
    BY <1>2 DEF GivenUp, Done, Finished, StepsRight
  <1>3. CASE Planning \/ Evicting
    BY <1>3 DEF Planning, PlanNow, UpToDate, Fresh, Sampling, Evicting, StepsRight
  <1>4. CASE Tick \/ SetAnswered
    BY <1>4 DEF Tick, SetAnswered, StepsRight
  <1>5. CASE \E p \in plans : SetNext(p)
    BY <1>5 DEF SetNext, StepsRight
  <1> QED BY <1>1, <1>2, <1>3, <1>4, <1>5, RebalanceCases

LEMMA FreshStep == ASSUME LimitsInv, LimitsNext PROVE Fresh'
  <1> USE DEF LimitsInv
  <1>1. CASE Disturbed
    BY <1>1 DEF Disturbed, News, Fresh
  <1>2. CASE Quiet
    <2>1. Told' = Told /\ available' = available /\ unheeded' = unheeded
      BY <1>2 DEF Quiet, Untouched, Told
    <2> QED BY <1>2, <2>1 DEF Quiet, Sampling, Fresh
  <1>3. CASE GivenUp \/ Done \/ Planning
    BY <1>3 DEF GivenUp, Done, Finished, Planning, PlanNow, Sampling, Fresh
  <1>4. CASE Evicting
    <2>1. Told' = Told
      BY <1>4 DEF Evicting, Untouched, Told
    <2> QED BY <1>4, <2>1 DEF Evicting, Untouched, listing, Sampling, Fresh
  <1>5. CASE Tick \/ SetAnswered \/ \E p \in plans : SetNext(p)
    <2>1. /\ Told' = Told
          /\ UNCHANGED <<step, unheeded, resident, parting, snapshot, available>>
      BY <1>5 DEF Tick, SetAnswered, SetNext, Rebalancing, workers, listing, Told
    <2> QED BY <2>1 DEF Sampling, Fresh
  <1> QED BY <1>1, <1>2, <1>3, <1>4, <1>5, RebalanceCases

LEMMA AwareStep == ASSUME LimitsInv, LimitsNext PROVE Aware'
  <1> USE DEF LimitsInv
  <1>0. available \in Nat /\ snapshot \in Nat /\ pressure \in Pressures
    BY DEF LimitsTyped, RebalanceTyped
  <1>1. CASE Disturbed
    BY <1>1 DEF Disturbed, News, Aware
  <1>2. CASE Quiet
    BY <1>2, PoolKept DEF Quiet, Untouched, Aware
  <1>3. CASE GivenUp
    BY <1>3, PoolKept DEF GivenUp, Untouched, Finished, Aware
  <1>4. CASE Done
    BY <1>4, PoolKept DEF Done, Rebalancing, workers, tuning, Finished, Aware
  <1>5. CASE Planning
    <2>1. Told' = Told /\ available' = available /\ unheeded' = unheeded
          /\ (seen' => snapshot = available)
      BY <1>5, PoolKept DEF Planning, PlanNow, Untouched, UpToDate
    <2>2. ~unheeded => snapshot = available
      BY <1>5 DEF Planning, Sampling, Fresh
    <2>3. snapshot <= 8 => pressure' = "critical"
      BY <1>5, <1>0, ClassifyIs DEF Planning, PlanNow, StepsRight
    <2> QED BY <2>1, <2>2, <2>3 DEF Aware
  <1>6. CASE Evicting
    BY <1>6 DEF Evicting, Aware
  <1>7. CASE Tick
    BY <1>7, TickGrows, HandlesStep DEF Tick, Aware
  <1>8. CASE SetAnswered
    BY <1>8 DEF SetAnswered, Rebalancing, Told, Aware
  <1>9. CASE \E p \in plans : SetNext(p)
    BY <1>9 DEF SetNext, workers, Told, Aware
  <1> QED BY <1>1, <1>2, <1>3, <1>4, <1>5, <1>6, <1>7, <1>8, <1>9, RebalanceCases

LEMMA AllowedNat == ASSUME LimitsTyped, Told # {} PROVE Allowed \in Nat
  BY PoolNat, ToldFinite, SafeIs DEF Allowed

(* The one limit a rebalance sets is within the share. *)
LEMMA AnswerFits ==
    ASSUME LimitsInv, SetAnswered, pressure = "critical", seen, command.key \in Told
    PROVE  /\ limit'[command.key] \in Nat /\ limit'[command.key] <= Allowed
           /\ \A m \in Keys : m # command.key => limit'[m] = limit[m]
           /\ Told' = Told /\ Allowed' = Allowed
  <1> USE DEF LimitsInv
  <1>1. command \in [key : Keys, max : Nat] /\ step = "setting"
    BY DEF SetAnswered, LimitsTyped, RebalanceTyped, StepsRight
  <1>2. command.max \in Nat /\ command.max <= Allowed /\ Allowed \in Nat
    BY <1>1, AllowedNat DEF Planned
  <1>3. limit' = [limit EXCEPT ![command.key] = Min({command.max, Ceiling})]
    BY DEF SetAnswered
  <1>4. Min({command.max, Ceiling}) \in Nat /\ Min({command.max, Ceiling}) <= command.max
    BY <1>2, LimitsConstants, MinOfTwo
  <1>5. limit'[command.key] = Min({command.max, Ceiling})
        /\ \A m \in Keys : m # command.key => limit'[m] = limit[m]
    BY <1>1, <1>3 DEF LimitsTyped, HandlesTyped
  <1>6. Told' = Told /\ Allowed' = Allowed
    BY PoolKept DEF SetAnswered, Rebalancing, tuning
  <1> QED BY <1>2, <1>4, <1>5, <1>6
LEMMA BoundedStep == ASSUME LimitsInv, LimitsNext PROVE Bounded'
  <1> USE DEF LimitsInv
  <1>0. available \in Nat /\ snapshot \in Nat /\ pressure \in Pressures
    BY DEF LimitsTyped, RebalanceTyped
  <1>1. CASE Disturbed
    BY <1>1 DEF Disturbed, News, Bounded
  <1>2. CASE Quiet
    BY <1>2, PoolKept DEF Quiet, Untouched, Bounded
  <1>3. CASE GivenUp
    BY <1>3, PoolKept DEF GivenUp, Untouched, Finished, Bounded
  <1>4. CASE Done
    <2>1. UNCHANGED <<limit, told, growth, pressure>> /\ unheeded' = ~seen
      BY <1>4 DEF Done, Rebalancing, workers, tuning, Finished
    <2>2. Told' = Told /\ Allowed' = Allowed
      BY <2>1, PoolKept
    <2>3. \A m \in Told : m # command.key
      BY <1>4, LimitsConstants, ToldFinite DEF Done, NoCall
    <2>4. pressure = "critical" /\ seen => \A m \in Told : limit[m] <= Allowed
      BY <1>4, <2>3 DEF Done, Planned
    <2> QED BY <2>1, <2>2, <2>4 DEF Bounded
  <1>5. CASE Planning \/ Evicting
    <2>1. UNCHANGED <<limit, told, growth, unheeded>>
      BY <1>5 DEF Planning, PlanNow, Evicting, Untouched
    <2>2. pressure' = "critical" /\ ~unheeded => available <= 8 \/ pressure = "critical"
      BY <1>0, <1>5, ClassifyIs DEF Planning, PlanNow, Evicting, Sampling, Fresh
    <2>3. pressure' = "critical" /\ ~unheeded /\ Told # {} => pressure = "critical"
      BY <2>2 DEF Aware
    <2>4. Told' = Told /\ Allowed' = Allowed
      BY <2>1, PoolKept
    <2> QED BY <2>1, <2>3, <2>4 DEF Bounded
  <1>6. CASE Tick
    <2>1. UNCHANGED <<limit, pressure, unheeded>>
      BY <1>6 DEF Tick, workers
    <2>2. Told' = Told
          /\ (Told # {} => Allowed \in Nat /\ Allowed' \in Nat /\ Allowed <= Allowed')
      BY <1>6, TickGrows, HandlesStep
    <2>3. \A m \in Told : limit[m] \in Nat
      BY ToldFinite DEF LimitsTyped, HandlesTyped
    <2> QED BY <2>1, <2>2, <2>3 DEF Bounded
  <1>7. CASE SetAnswered
    <2>1. UNCHANGED <<told, growth, pressure, seen, unheeded>> /\ command # NoCall
      BY <1>7 DEF SetAnswered, Rebalancing, tuning
    <2>2. ~unheeded => seen
      BY <2>1 DEF StepsRight
    <2>3. Told' = Told /\ Allowed' = Allowed
      BY <2>1, PoolKept
    <2>4. \A m \in Told : m \in Keys
      BY ToldFinite
    <2>5. \A m \in Keys : m # command.key => limit'[m] = limit[m]
      BY <1>7 DEF SetAnswered, LimitsTyped, HandlesTyped
    <2> QED BY <1>7, <2>1, <2>2, <2>3, <2>4, <2>5, AnswerFits DEF Bounded
  <1>8. CASE \E p \in plans : SetNext(p)
    <2>1. UNCHANGED <<limit, told, growth, pressure, unheeded>>
      BY <1>8 DEF SetNext, workers
    <2> QED BY <2>1, PoolKept DEF Bounded
  <1> QED BY <1>1, <1>2, <1>3, <1>4, <1>5, <1>6, <1>7, <1>8, RebalanceCases

LEMMA PlannedStep == ASSUME LimitsInv, LimitsNext PROVE Planned'
  <1> USE DEF LimitsInv
  <1>1. CASE Disturbed
    BY <1>1 DEF Disturbed, News, Planned
  <1>2. CASE Quiet
    BY <1>2, PoolKept DEF Quiet, Untouched, Planned
  <1>3. CASE GivenUp \/ Done
    BY <1>3 DEF GivenUp, Done, Finished, Planned
  <1>4. CASE Evicting
    BY <1>4 DEF Evicting, Planned
  <1>5. CASE Planning
    <2>1. UNCHANGED <<limit, told, growth, command>> /\ command = NoCall
      BY <1>5 DEF Planning, PlanNow, Untouched, StepsRight
    <2>2. Told' = Told /\ Allowed' = Allowed
      BY <2>1, PoolKept
    <2>3. pressure' = "critical" /\ seen' => plans' = PlansFor(Pool, ToldNow)
      BY <1>5, SaidIs DEF Planning, PlanNow, Pool
    <2>4. command.key \notin Told
      BY <2>1, LimitsConstants, ToldFinite DEF NoCall
    <2>5. /\ \A p \in PlansFor(Pool, ToldNow) : p.selected <= Allowed
          /\ \A m \in Told : \E p \in PlansFor(Pool, ToldNow) : p.key = m
      <3>1. \A m \in Told : Selected(Pool, Cardinality(Told), m) <= Allowed
        BY PoolNat, ToldFinite, SelectedIs DEF Allowed
      <3> DEFINE plan(m) == [key |-> m, selected |-> Selected(Pool, Cardinality(Told), m),
                             previous |-> ToldNow[m].max]
      <3>2. PlansFor(Pool, ToldNow) = {plan(m) : m \in Told}
        BY ToldSaying DEF PlansFor
      <3>3. \A m \in Told : plan(m).key = m /\ plan(m).selected <= Allowed
        BY <3>1
      <3> HIDE DEF plan
      <3> QED BY <3>2, <3>3
    <2>6. Told # {} => Allowed \in Nat
      BY AllowedNat
    <2> QED BY <2>1, <2>2, <2>3, <2>4, <2>5, <2>6 DEF Planned
  <1>6. CASE Tick
    <2>1. UNCHANGED <<limit, pressure, seen, step, plans, command>>
      BY <1>6 DEF Tick, workers
    <2>2. Told' = Told
          /\ (Told # {} => Allowed \in Nat /\ Allowed' \in Nat /\ Allowed <= Allowed')
      BY <1>6, TickGrows, HandlesStep
    <2>3. \A m \in Told : limit[m] \in Nat
      BY ToldFinite DEF LimitsTyped, HandlesTyped
    <2>4. \A p \in plans : p.selected \in Nat
      BY DEF LimitsTyped, RebalanceTyped
    <2>5. command.max \in Nat
      BY DEF LimitsTyped, RebalanceTyped, NoCall
    <2> SUFFICES ASSUME pressure = "critical" /\ seen /\ step = "setting"
                 PROVE  Planned'
      BY <2>1 DEF Planned
    <2>6. ASSUME NEW p \in plans, p.key \in Told PROVE p.selected <= Allowed'
      BY <2>2, <2>4, <2>6 DEF Planned
    <2>7. command.key \in Told => command.max <= Allowed'
      BY <2>2, <2>5 DEF Planned
    <2>8. ASSUME NEW m \in Told
          PROVE  limit[m] <= Allowed' \/ command.key = m \/ \E p \in plans : p.key = m
      BY <2>2, <2>3 DEF Planned
    <2> QED BY <2>1, <2>2, <2>6, <2>7, <2>8 DEF Planned
  <1>7. CASE SetAnswered
    <2>1. UNCHANGED <<told, growth, pressure, seen, step, plans>> /\ command' = NoCall
      BY <1>7 DEF SetAnswered, Rebalancing, tuning
    <2>2. Told' = Told /\ Allowed' = Allowed
      BY <2>1, PoolKept
    <2>3. command'.key \notin Told'
      BY <2>1, <2>2, LimitsConstants, ToldFinite DEF NoCall
    <2>4. \A m \in Keys : m # command.key => limit'[m] = limit[m]
      BY <1>7 DEF SetAnswered, LimitsTyped, HandlesTyped
    <2> SUFFICES ASSUME pressure = "critical" /\ seen /\ step = "setting"
                 PROVE  Planned'
      BY <2>1 DEF Planned
    <2>5. ASSUME NEW m \in Told
          PROVE  limit'[m] <= Allowed \/ \E p \in plans : p.key = m
      <3>1. CASE m = command.key
        BY <1>7, <3>1, AnswerFits
      <3>2. CASE m # command.key
        BY <2>4, <3>2, ToldFinite DEF Planned
      <3> QED BY <3>1, <3>2
    <2> QED BY <2>1, <2>2, <2>3, <2>5 DEF Planned
  <1>8. ASSUME NEW p \in plans, SetNext(p) PROVE Planned'
    <2>1. UNCHANGED <<handle, limit, told, growth, pressure, seen, step>> /\ command = NoCall
          /\ plans' = plans \ {p}
      BY <1>8 DEF SetNext, workers
    <2>2. Told' = Told /\ Allowed' = Allowed
      BY <2>1, PoolKept
    <2>3. p.selected \in Nat /\ p.previous \in Nat /\ p.key \in Keys
      BY DEF LimitsTyped, RebalanceTyped
    <2>4. command.key \notin Told
      BY <2>1, LimitsConstants, ToldFinite DEF NoCall
    <2> SUFFICES ASSUME pressure = "critical" /\ seen /\ step = "setting"
                 PROVE  Planned'
      BY <2>1 DEF Planned
    <2>5. p.key \in Told => p.selected <= Allowed /\ Allowed \in Nat
      BY AllowedNat DEF Planned
    <2>6. CASE handle[p.key] = "none"
      <3>1. command' = command /\ p.key \notin Told
        BY <1>8, <2>6 DEF SetNext, ToldAreUp, Told
      <3> QED BY <2>1, <2>2, <2>4, <3>1 DEF Planned
    <2>7. CASE handle[p.key] # "none"
      <3>1. command'.key = p.key
            /\ command'.max = IF ShouldAdjust(p) THEN p.selected ELSE p.previous
        BY <1>8, <2>7 DEF SetNext
      <3>2. ShouldAdjust(p) \/ p.previous <= p.selected
        BY <2>3 DEF ShouldAdjust
      <3>3. p.key \in Told => command'.max <= Allowed
        BY <2>3, <2>5, <3>1, <3>2
      <3>4. ASSUME NEW m \in Told
            PROVE  \/ limit[m] <= Allowed \/ p.key = m
                   \/ \E q \in plans \ {p} : q.key = m
        BY <2>4 DEF Planned
      <3> QED BY <2>1, <2>2, <3>1, <3>3, <3>4 DEF Planned
    <2> QED BY <2>6, <2>7
  <1> QED BY <1>1, <1>2, <1>3, <1>4, <1>5, <1>6, <1>7, <1>8, RebalanceCases

LEMMA LimitsInductive == LimitsInv /\ [LimitsNext]_limitVars => LimitsInv'
  <1>1. ASSUME LimitsInv, LimitsNext PROVE LimitsInv'
    BY <1>1, HandlesStep, RebalanceStep, StepsRightStep, FreshStep, AwareStep, BoundedStep, PlannedStep
       DEF LimitsInv, LimitsTyped
  <1>2. ASSUME LimitsInv, UNCHANGED limitVars PROVE LimitsInv'
    <2>1. UNCHANGED <<handle, limit, told, growth, available, pressure, step, plans, command,
                      loading, seen, unheeded, resident, parting, snapshot>>
      BY <1>2 DEF limitVars, workers, tuning, listing
    <2>2. Told' = Told /\ Allowed' = Allowed
      BY <2>1, PoolKept
    <2> QED BY <1>2, <2>1, <2>2 DEF LimitsInv, LimitsTyped, HandlesTyped, RebalanceTyped,
            ToldAreUp, StepsRight, Fresh, Sampling, Aware, Bounded, Planned
  <1> QED BY <1>1, <1>2

(* Under critical pressure what the workers may take together fits in the pool *)
(* once a rebalance has dealt with the last change (rebalanceExclusive,        *)
(* selectGlobalActiveLimits): for any number of models and any sizes.          *)
THEOREM CriticalLimitsFit == LimitsSpec => []CriticalFits
  <1>1. LimitsInv => CriticalFits
    BY BoundedFits DEF LimitsInv
  <1> QED BY <1>1, LimitsInitially, LimitsInductive, PTL DEF LimitsSpec

-----------------------------------------------------------------------------
(* What is in memory: ModelResidency. *)
USE ResidencyAssumption

-----------------------------------------------------------------------------
(* The workers are created in order, and each getOrCreate finds one left. *)
Created == {w \in Workers : worker[w].model # NoModel}
Unasked == {c \in Calls : call[c].at = "idle"}
AskedOnce == {c \in Chats : call[c].nth = 1}
Asks == 2 * Cardinality(Chats) + Cardinality(LoadCalls)
Allocated ==
    /\ Created = 1 .. Cardinality(Created)
    /\ Cardinality(Created) + Cardinality(Unasked) + Cardinality(Unasked \cap Chats)
           + Cardinality(AskedOnce) <= Asks

(* A handle, a call and a load in flight mean a worker of their model. *)
Named ==
    /\ \A m \in Models : registry[m] # NoWorker => worker[registry[m]].model = m
    /\ \A c \in Calls : call[c].at \notin {"idle", "over"} =>
          call[c].worker \in Workers /\ worker[call[c].worker].model = ModelOf[c]
    /\ \A m \in Models : job[m].stage # "none" =>
          job[m].worker \in Workers /\ worker[job[m].worker].model = m

(* Which load of a call may be where. *)
NthRight ==
    \A c \in Calls :
        /\ call[c].nth = 0 <=> call[c].at \in {"idle", "over"}
        /\ c \in LoadCalls => call[c].nth <= 1
        /\ call[c].at \in {"serving", "direct"} => call[c].nth >= 2

(* An entry counts the chats between beginUsage and finishUsage. *)
Users(m) == {c \in Chats : ModelOf[c] = m /\ call[c].nth >= 2}
UsersCounted == \A m \in Models : entry[m].active = Cardinality(Users(m))

ServingResident ==
    \A c \in Calls : call[c].at = "serving" => worker[call[c].worker].state = "resident"

RotationWaits ==
    rotation \in {"asked", "claimed", "draining"} =>
        \A c \in Chats : call[c].at \in {"idle", "over"}

(* Of the loads in flight only the holder of the mutex is past its queue. *)
OneLoads ==
    \A m \in Models :
        job[m].stage \notin {"none", "queued"} => mutex # << >> /\ Head(mutex) = m

(* While admission is not bypassed a worker loads only for a load in flight, *)
(* and what was measured to fit still does.                                   *)
LoadsAdmitted ==
    ~bypassed => \A w \in Workers : worker[w].state = "loading" =>
        \E m \in Models : job[m].stage = "performing" /\ job[m].worker = w

InMemory == Total({w \in Workers : Exists(w)})
FitsMeasured ==
    ~bypassed => \A m \in Models : job[m].stage = "measured" /\ job[m].fits =>
        InMemory + Size[m] <= Capacity

Blank ==
    \A w \in Workers : worker[w].model = NoModel => worker[w] = NewWorker(NoModel)

IInv ==
    /\ TypeOK /\ Allocated /\ Named /\ NthRight /\ UsersCounted /\ ServingResident
    /\ RotationWaits /\ OneLoads /\ LoadsAdmitted /\ FitsMeasured /\ Blank
    /\ AdmittedFit

-----------------------------------------------------------------------------
LEMMA Finite ==
    /\ IsFiniteSet(Calls) /\ IsFiniteSet(Chats) /\ IsFiniteSet(LoadCalls)
    /\ Cardinality(Chats) \in Nat /\ Cardinality(LoadCalls) \in Nat /\ Asks \in Nat
    /\ Workers = 1 .. Asks /\ IsFiniteSet(Workers) /\ NoWorker \notin Workers
    /\ \A S \in SUBSET Workers : IsFiniteSet(S) /\ Cardinality(S) \in Nat
    /\ \A S \in SUBSET Calls : IsFiniteSet(S) /\ Cardinality(S) \in Nat
  <1>1. IsFiniteSet(Calls) /\ Chats \in SUBSET Calls /\ LoadCalls \in SUBSET Calls
    BY DEF Calls
  <1>2. IsFiniteSet(Chats) /\ IsFiniteSet(LoadCalls)
    BY <1>1, FS_Subset
  <1>3. Cardinality(Chats) \in Nat /\ Cardinality(LoadCalls) \in Nat
    BY <1>2, FS_CardinalityType
  <1>4. Asks \in Nat /\ Workers = 1 .. Asks
    BY <1>3 DEF Asks, Workers
  <1>5. IsFiniteSet(Workers) /\ NoWorker \notin Workers
    BY <1>4, FS_Interval DEF NoWorker
  <1> QED BY <1>1, <1>2, <1>3, <1>4, <1>5, FS_Subset, FS_CardinalityType

LEMMA CallsSplit ==
    /\ Chats \subseteq Calls /\ LoadCalls \subseteq Calls /\ Chats \cap LoadCalls = {}
    /\ \A c \in Calls : ModelOf[c] \in Models
  BY DEF Calls

LEMMA ClosedType ==
    ASSUME NEW r \in Worker
    PROVE  Closed(r) \in Worker /\ [Closed(r) EXCEPT !.retired = TRUE] \in Worker
  <1> DEFINE n == IF r.state = "stopped" THEN r.exiting ELSE r.exiting + 1
  <1>1. r.exiting \in Nat /\ n \in Nat
    BY DEF Worker
  <1>2. Closed(r) = [r EXCEPT !.state = "stopped", !.exiting = n]
    BY DEF Worker, Closed
  <1> HIDE DEF n
  <1>3. [r EXCEPT !.state = "stopped", !.exiting = n] \in Worker
    BY <1>1 DEF Worker
  <1>4. \A q \in Worker : [q EXCEPT !.retired = TRUE] \in Worker
    BY DEF Worker
  <1> QED BY <1>2, <1>3, <1>4

(* What may happen to the workers and the registry, whatever else does. *)
ModelsKept == \A w \in Workers : worker'[w].model = worker[w].model
RegistryLeft == \A m \in Models : registry'[m] \in {registry[m], NoWorker}

(* DeleteEntry. *)
LEMMA DeleteType ==
    ASSUME TypeOK, NEW m \in Models, DeleteEntry(m)
    PROVE  /\ worker' \in [Workers -> Worker]
           /\ registry' \in [Models -> Workers \cup {NoWorker}]
           /\ entry' \in [Models -> Entry]
  <1>1. worker \in [Workers -> Worker] /\ registry \in [Models -> Workers \cup {NoWorker}]
        /\ entry \in [Models -> Entry]
    BY DEF TypeOK
  <1>2. entry' \in [Models -> Entry]
    BY <1>1 DEF DeleteEntry, NoEntry, Entry
  <1>3. registry' \in [Models -> Workers \cup {NoWorker}]
    BY <1>1 DEF DeleteEntry
  <1>4. \A r \in Worker : [Closed(r) EXCEPT !.retired = TRUE] \in Worker
    BY ClosedType
  <1>5. worker' \in [Workers -> Worker]
    BY <1>1, <1>4 DEF DeleteEntry
  <1> QED BY <1>2, <1>3, <1>5

LEMMA DeleteEffect ==
    ASSUME TypeOK, NEW m \in Models, DeleteEntry(m)
    PROVE  /\ ModelsKept /\ RegistryLeft
           /\ \A w \in Workers :
                 /\ w # registry[m] => worker'[w] = worker[w]
                 /\ worker'[w].state \in {worker[w].state, "stopped"}
                 /\ Bytes(w)' = Bytes(w)
           /\ \A v \in Models : v # m => entry'[v] = entry[v]
           /\ entry'[m] = NoEntry
  <1>1. worker \in [Workers -> Worker] /\ registry \in [Models -> Workers \cup {NoWorker}]
        /\ entry \in [Models -> Entry]
    BY DEF TypeOK
  <1>2. ASSUME NEW r \in Worker
        PROVE  LET q == [Closed(r) EXCEPT !.retired = TRUE]
               IN  /\ q.model = r.model /\ q.state = "stopped"
                   /\ q.exiting = r.exiting + (IF r.state = "stopped" THEN 0 ELSE 1)
    BY DEF Worker, Closed
  <1>3. ASSUME NEW w \in Workers
        PROVE  \/ worker'[w] = worker[w]
               \/ w = registry[m] /\ worker'[w] = [Closed(worker[w]) EXCEPT !.retired = TRUE]
    BY <1>1 DEF DeleteEntry
  <1>4. \A w \in Workers : worker[w] \in Worker
    BY <1>1
  <1>5. ASSUME NEW w \in Workers
        PROVE  /\ worker'[w].model = worker[w].model
               /\ worker'[w].state \in {worker[w].state, "stopped"}
               /\ Bytes(w)' = Bytes(w)
    <2>1. CASE worker'[w] = worker[w]
      BY <2>1 DEF Bytes
    <2>2. CASE worker'[w] = [Closed(worker[w]) EXCEPT !.retired = TRUE]
      <3>1. worker'[w].exiting + (IF worker'[w].state = "stopped" THEN 0 ELSE 1)
              = worker[w].exiting + (IF worker[w].state = "stopped" THEN 0 ELSE 1)
        BY <1>2, <1>4, <2>2 DEF Worker
      <3>2. worker'[w].model = worker[w].model /\ worker'[w].state = "stopped"
        BY <1>2, <1>4, <2>2
      <3> QED BY <3>1, <3>2 DEF Bytes
    <2> QED BY <1>3, <2>1, <2>2
  <1>6. RegistryLeft
    BY <1>1 DEF DeleteEntry, RegistryLeft
  <1>7. /\ \A v \in Models : v # m => entry'[v] = entry[v]
        /\ entry'[m] = NoEntry
    BY <1>1 DEF DeleteEntry
  <1> QED BY <1>3, <1>5, <1>6, <1>7 DEF ModelsKept

(* unload and finishUsage: the entry goes, or it is noted for later. *)
LEMMA UnloadEffect ==
    ASSUME TypeOK, NEW m \in Models, UnloadEntry(m)
    PROVE  \/ entry[m].active = 0 /\ DeleteEntry(m)
           \/ /\ UNCHANGED <<worker, registry>> /\ entry' \in [Models -> Entry]
              /\ \A v \in Models : entry'[v].active = entry[v].active
  <1>1. entry \in [Models -> Entry]
    BY DEF TypeOK
  <1>2. CASE entry[m].active > 0
    <2>1. /\ entry' = [entry EXCEPT ![m].unloading = TRUE, ![m].pinned = FALSE]
          /\ UNCHANGED <<worker, registry>>
      BY <1>2 DEF UnloadEntry
    <2>2. entry' \in [Models -> Entry]
      BY <1>1, <2>1 DEF Entry
    <2>3. \A v \in Models : entry'[v].active = entry[v].active
      BY <1>1, <2>1 DEF Entry
    <2> QED BY <2>1, <2>2, <2>3
  <1>3. CASE ~(entry[m].active > 0)
    BY <1>1, <1>3 DEF UnloadEntry, Entry
  <1> QED BY <1>2, <1>3

LEMMA UsageEffect ==
    ASSUME TypeOK, NEW m \in Models, FinishUsage(m), entry[m].active > 0
    PROVE  \/ entry[m].active = 1 /\ DeleteEntry(m)
           \/ /\ UNCHANGED <<worker, registry>> /\ entry' \in [Models -> Entry]
              /\ \A v \in Models : entry'[v].active =
                    IF v = m THEN entry[v].active - 1 ELSE entry[v].active
  <1>1. entry \in [Models -> Entry] /\ entry[m].active \in Nat
    BY DEF TypeOK, Entry
  <1>2. CASE entry[m].active = 1 /\ entry[m].unloading
    BY <1>2 DEF FinishUsage
  <1>3. CASE ~(entry[m].active = 1 /\ entry[m].unloading)
    <2>1. entry' = [entry EXCEPT ![m].active = @ - 1] /\ UNCHANGED <<worker, registry>>
      BY <1>3 DEF FinishUsage
    <2>2. entry[m].active - 1 \in Nat
      BY <1>1
    <2>3. entry' \in [Models -> Entry]
      BY <1>1, <2>1, <2>2 DEF Entry
    <2> QED BY <1>1, <2>1, <2>3 DEF Entry
  <1> QED BY <1>2, <1>3

-----------------------------------------------------------------------------
(* getOrCreate.  A model without a handle needs a worker that is left. *)
Spare == Cardinality(Created) < Asks

LEMMA NextIsBlank ==
    ASSUME TypeOK, Allocated, Blank, Spare
    PROVE  /\ NextWorker \in Workers /\ NextWorker = Cardinality(Created) + 1
           /\ worker[NextWorker] = NewWorker(NoModel)
  <1>1. Cardinality(Created) \in Nat /\ Workers = 1 .. Asks /\ Asks \in Nat
    BY Finite DEF Created
  <1>2. NextWorker = Cardinality(Created) + 1
    BY <1>1 DEF NextWorker, Created
  <1>3. NextWorker \in Workers /\ NextWorker \notin Created
    BY <1>1, <1>2 DEF Allocated, Spare
  <1> QED BY <1>2, <1>3 DEF Created, Blank

LEMMA CreateEffect ==
    ASSUME TypeOK, Allocated, Blank, Named, NEW m \in Models,
           registry[m] = NoWorker => Spare, GetOrCreate(m)
    PROVE  /\ worker' \in [Workers -> Worker]
           /\ registry' \in [Models -> Workers \cup {NoWorker}]
           /\ HandleOf(m) \in Workers /\ worker'[HandleOf(m)].model = m
           /\ registry'[m] = HandleOf(m) /\ \A v \in Models \ {m} : registry'[v] = registry[v]
           /\ \A w \in Workers : worker[w].model # NoModel => worker'[w] = worker[w]
           /\ \A w \in Workers : worker'[w] = worker[w] \/ worker'[w] = NewWorker(m)
           /\ \/ UNCHANGED worker
              \/ /\ worker[NextWorker] = NewWorker(NoModel) /\ NextWorker \in Workers
                 /\ worker' = [worker EXCEPT ![NextWorker] = NewWorker(m)]
  <1>1. worker \in [Workers -> Worker] /\ registry \in [Models -> Workers \cup {NoWorker}]
    BY DEF TypeOK
  <1>2. m # NoModel /\ NewWorker(m) \in Worker /\ NewWorker(m).model = m
    BY DEF NewWorker, Worker
  <1>3. NewWorker(NoModel).model = NoModel
    BY DEF NewWorker
  <1>4. CASE registry[m] = NoWorker
    <2>1. /\ worker' = [worker EXCEPT ![NextWorker] = NewWorker(m)]
          /\ registry' = [registry EXCEPT ![m] = NextWorker] /\ HandleOf(m) = NextWorker
      BY <1>4 DEF GetOrCreate, HandleOf
    <2>2. NextWorker \in Workers /\ worker[NextWorker] = NewWorker(NoModel)
      BY <1>4, NextIsBlank
    <2> HIDE DEF NextWorker
    <2> QED BY <1>1, <1>2, <1>3, <2>1, <2>2
  <1>5. CASE registry[m] # NoWorker
    <2>1. worker' = worker /\ HandleOf(m) = registry[m] /\ registry' = registry
      BY <1>1, <1>5 DEF GetOrCreate, HandleOf
    <2> QED BY <1>1, <1>5, <2>1 DEF Named
  <1> QED BY <1>4, <1>5

(* The calls that create have room: each of them counts for what it may ask. *)
LEMMA SpareForCall ==
    ASSUME TypeOK, Allocated, NEW c \in Calls,
           call[c].at = "idle" \/ (c \in Chats /\ call[c].nth = 1)
    PROVE  Spare
  <1>1. /\ Cardinality(Created) \in Nat /\ Asks \in Nat
        /\ Cardinality(Unasked) \in Nat /\ Cardinality(Unasked \cap Chats) \in Nat
        /\ Cardinality(AskedOnce) \in Nat
        /\ IsFiniteSet(Unasked) /\ IsFiniteSet(AskedOnce)
    <2>1. Created \in SUBSET Workers /\ Unasked \in SUBSET Calls
          /\ Unasked \cap Chats \in SUBSET Calls /\ AskedOnce \in SUBSET Calls
      BY CallsSplit DEF Created, Unasked, AskedOnce
    <2> QED BY <2>1, Finite
  <1>2. c \in Unasked \/ c \in AskedOnce
    BY DEF Unasked, AskedOnce
  <1>3. Cardinality(Unasked) # 0 \/ Cardinality(AskedOnce) # 0
    BY <1>1, <1>2, FS_EmptySet
  <1> QED BY <1>1, <1>3 DEF Allocated, Spare, Asks

-----------------------------------------------------------------------------
(* The steps. *)
LEMMA NextCases ==
    ASSUME [Next]_vars
    PROVE  \/ \E m \in Models : \/ JobMeasures(m) \/ JobLaunches(m) \/ JobPerformed(m)
                                \/ JobEvicts(m) \/ JobEvicted(m) \/ JobRejected(m)
                                \/ JobCommits(m) \/ JobUndone(m)
           \/ \E c \in Calls : \/ EnterGate(c) \/ LoadReturns(c) \/ LoadRefused(c)
                               \/ ChatUnprepared(c) \/ ChatBegins(c) \/ ChatSends(c)
                               \/ ChatLoaded(c) \/ ChatEnds(c) \/ ChatRefused(c)
                               \/ CallLoad(c) \/ StartChat(c)
           \/ \E w \in Workers : WorkerLoads(w) \/ Exit(w) \/ Crash(w)
           \/ ClaimRotation \/ Rotate \/ RotationEnds \/ ClaimRebalance \/ Plan
           \/ AdjustLoaded \/ RebalanceEnds \/ AskRotation \/ AskRebalance
           \/ \E m \in Models : RelievePressure(m) \/ Adjust(m) \/ Expire(m) \/ Unload(m)
           \/ UNCHANGED vars
  BY DEF Next, Continue, JobStep, CallStep, ExclusiveStep

(* The type invariant by the parts of the state. *)
JobsType == job \in [Models -> Job] /\ mutex \in Seq(Models)
WorkersType ==
    /\ worker \in [Workers -> Worker] /\ registry \in [Models -> Workers \cup {NoWorker}]
    /\ entry \in [Models -> Entry]
CallsType == call \in [Calls -> Call]
GateType ==
    /\ rotation \in {"idle", "asked", "claimed", "draining", "over"}
    /\ rebalance \in [at : {"idle", "asked", "claimed", "evicting", "adjusting",
                            "loading", "over"},
                      models : SUBSET Models, worker : Workers \cup {NoWorker}]
HistoryType ==
    /\ sample \in Nat \cup {NoSample}
    /\ bypassed \in BOOLEAN /\ disturbed \in 0 .. Disturbances

LEMMA TypesSplit == TypeOK <=> JobsType /\ WorkersType /\ CallsType /\ GateType /\ HistoryType
  BY DEF TypeOK, JobsType, WorkersType, CallsType, GateType, HistoryType

(* LoadOf, LoadNow. *)
LEMMA LoadOfType ==
    /\ \A w : LoadOf(w) \in {"refused", "loaded", "gate"}
    /\ \A m : LoadNow(m) \in {"refused", "loaded", "gate"}
  <1>1. \A w : LoadOf(w) \in {"refused", "loaded", "gate"}
    BY DEF LoadOf
  <1> QED BY <1>1 DEF LoadNow

LEMMA OverType == Over \in Call /\ Over.at = "over" /\ Over.nth = 0
                  /\ NotCalled \in Call /\ NotCalled.at = "idle" /\ NotCalled.nth = 0
  BY DEF Over, NotCalled, Call, NoWorker

(* The bytes in memory. *)
LEMMA BytesNat ==
    ASSUME TypeOK, NEW w \in Workers, Exists(w)
    PROVE  Bytes(w) \in Nat
  <1>1. worker[w] \in Worker /\ worker[w].model \in Models
    BY DEF TypeOK, Exists, Worker
  <1>2. Size[worker[w].model] \in Nat /\ worker[w].exiting \in Nat
    BY <1>1 DEF Worker
  <1>3. \A x, y \in Nat : x * y \in Nat
    OBVIOUS
  <1> QED BY <1>2, <1>3 DEF Bytes

LEMMA TotalNat ==
    ASSUME TypeOK, NEW S \in SUBSET {w \in Workers : Exists(w)}
    PROVE  Total(S) \in Nat
  <1> DEFINE f == [w \in S |-> Bytes(w)]
  <1>1. S \in SUBSET Workers /\ IsFiniteSet(S)
    BY Finite
  <1>2. \A w \in S : f[w] \in Nat
    BY BytesNat
  <1>3. DOMAIN f = S
    OBVIOUS
  <1> HIDE DEF f
  <1>4. SumFunctionOnSet(f, S) \in Nat
    BY <1>1, <1>2, SumNat
  <1> QED BY <1>3, <1>4 DEF Total, SumFunction, f

LEMMA InMemoryNat == ASSUME TypeOK PROVE InMemory \in Nat
  BY TotalNat DEF InMemory

LEMMA MemoryUsedNat == ASSUME TypeOK PROVE MemoryUsed \subseteq Nat
  <1> DEFINE all == {w \in Workers : Exists(w)}
  <1>1. \A u : all \ u \in SUBSET {w \in Workers : Exists(w)}
    OBVIOUS
  <1>2. \A u : Total(all \ u) \in Nat
    BY <1>1, TotalNat
  <1> HIDE DEF Total
  <1> QED BY <1>2 DEF MemoryUsed

-----------------------------------------------------------------------------
(* Types. *)
LEMMA JobsTyped ==
    ASSUME TypeOK, Named, [Next]_vars PROVE JobsType'
  <1>0. JobsType /\ CallsType /\ WorkersType
    BY TypesSplit
  <1> USE <1>0
  <1>1. ASSUME UNCHANGED <<job, mutex>> PROVE JobsType'
    BY <1>1 DEF JobsType
  <1>2. ASSUME NEW m \in Models, NEW s \in {"measured", "performing", "stabilizing",
                                            "undoing", "evicting", "queued"},
               NEW b \in BOOLEAN, NEW v \in Workers \cup {NoWorker},
               \/ job' = [job EXCEPT ![m].stage = s]
               \/ job' = [job EXCEPT ![m].stage = s, ![m].fits = b]
               \/ job' = [job EXCEPT ![m].stage = s, ![m].victim = v],
               mutex' = mutex
        PROVE  JobsType'
    <2>0. s \in {"none", "queued", "measured", "evicting", "performing", "stabilizing",
                 "undoing"}
      BY <1>2
    <2>1. \A j \in Job : /\ [j EXCEPT !.stage = s] \in Job
                         /\ [j EXCEPT !.stage = s, !.fits = b] \in Job
                         /\ [j EXCEPT !.stage = s, !.victim = v] \in Job
      BY <2>0 DEF Job
    <2>2. job[m] \in Job
      BY DEF JobsType
    <2>3. \E j \in Job : job' = [job EXCEPT ![m] = j]
      <3>1. CASE job' = [job EXCEPT ![m].stage = s]
        BY <2>1, <2>2, <3>1
      <3>2. CASE job' = [job EXCEPT ![m].stage = s, ![m].fits = b]
        <4>1. job' = [job EXCEPT ![m] = [job[m] EXCEPT !.stage = s, !.fits = b]]
          BY <3>2 DEF JobsType
        <4> QED BY <2>1, <2>2, <4>1
      <3>3. CASE job' = [job EXCEPT ![m].stage = s, ![m].victim = v]
        <4>1. job' = [job EXCEPT ![m] = [job[m] EXCEPT !.stage = s, !.victim = v]]
          BY <3>3 DEF JobsType
        <4> QED BY <2>1, <2>2, <4>1
      <3> QED BY <1>2, <3>1, <3>2, <3>3
    <2> QED BY <1>2, <2>3 DEF JobsType
  <1>3. ASSUME NEW m \in Models, JobMeasures(m) PROVE JobsType'
    <2>1. (sample' + Size[m] <= Capacity) \in BOOLEAN
      OBVIOUS
    <2> QED BY <1>2, <1>3, <2>1 DEF JobMeasures
  <1>4. ASSUME NEW m \in Models, JobLaunches(m) \/ JobPerformed(m) PROVE JobsType'
    BY <1>2, <1>4 DEF JobLaunches, JobPerformed
  <1>5. ASSUME NEW m \in Models, JobEvicts(m) PROVE JobsType'
    <2>1. PICK v \in Victims(m) :
             job' = [job EXCEPT ![m].stage = "evicting", ![m].victim = registry[v]]
      BY <1>5 DEF JobEvicts
    <2>2. registry[v] \in Workers \cup {NoWorker}
      BY DEF Victims, WorkersType
    <2> QED BY <1>2, <1>5, <2>1, <2>2 DEF JobEvicts
  <1>6. ASSUME NEW m \in Models, JobEvicted(m) PROVE JobsType'
    BY <1>2, <1>6 DEF JobEvicted
  <1>7. ASSUME NEW m \in Models, NEW at, JobEnds(m, at), mutex # << >> PROVE JobsType'
    <2>1. NoJob \in Job
      BY DEF NoJob, Job
    <2>2. Tail(mutex) \in Seq(Models)
      BY <1>7 DEF JobsType
    <2> QED BY <1>7, <2>1, <2>2 DEF JobEnds, JobsType
  <1>8. ASSUME NEW m \in Models, JobRejected(m) \/ JobCommits(m) \/ JobUndone(m)
        PROVE JobsType'
    BY <1>7, <1>8 DEF JobRejected, JobCommits, JobUndone, Owns
  <1>9. ASSUME NEW c \in Calls, EnterGate(c) PROVE JobsType'
    <2> DEFINE m == ModelOf[c]
               w == call[c].worker
    <2>1. CASE UNCHANGED <<job, mutex>>
      BY <1>1, <2>1
    <2>2. CASE /\ job' = [job EXCEPT ![m] = [NoJob EXCEPT !.stage = "queued", !.worker = w]]
               /\ mutex' = Append(mutex, m)
      <3>1. w \in Workers \cup {NoWorker} /\ m \in Models
        BY CallsSplit DEF CallsType, Call
      <3>2. [NoJob EXCEPT !.stage = "queued", !.worker = w] \in Job
        BY <3>1 DEF NoJob, Job
      <3>3. Append(mutex, m) \in Seq(Models)
        BY <3>1 DEF JobsType
      <3> QED BY <2>2, <3>2, <3>3 DEF JobsType
    <2> QED BY <1>9, <2>1, <2>2 DEF EnterGate
  <1>10. ASSUME NEW c \in Calls,
                \/ LoadReturns(c) \/ LoadRefused(c) \/ ChatUnprepared(c) \/ ChatBegins(c)
                \/ ChatSends(c) \/ ChatLoaded(c) \/ ChatEnds(c) \/ ChatRefused(c)
                \/ CallLoad(c) \/ StartChat(c)
         PROVE JobsType'
    BY <1>1, <1>10 DEF LoadReturns, LoadRefused, ChatUnprepared, ChatBegins, ChatSends,
                       ChatLoaded, ChatEnds, ChatRefused, CallLoad, StartChat
  <1>11. ASSUME NEW w \in Workers, WorkerLoads(w) \/ Exit(w) \/ Crash(w) PROVE JobsType'
    BY <1>1, <1>11 DEF WorkerLoads, Exit, Crash
  <1>12. ASSUME \/ ClaimRotation \/ Rotate \/ RotationEnds \/ ClaimRebalance \/ Plan
                \/ AdjustLoaded \/ RebalanceEnds \/ AskRotation \/ AskRebalance
                \/ UNCHANGED vars
         PROVE JobsType'
    BY <1>1, <1>12 DEF ClaimRotation, Rotate, RotationEnds, ClaimRebalance, Plan, AdjustLoaded,
                       RebalanceEnds, AskRotation, AskRebalance, vars
  <1>13. ASSUME NEW m \in Models, RelievePressure(m) \/ Adjust(m) \/ Expire(m) \/ Unload(m)
         PROVE JobsType'
    BY <1>1, <1>13 DEF RelievePressure, Adjust, Expire, Unload
  <1> QED BY <1>3, <1>4, <1>5, <1>6, <1>8, <1>9, <1>10, <1>11, <1>12, <1>13, NextCases

LEMMA LaunchType ==
    ASSUME WorkersType, NEW w \in Workers
    PROVE  /\ Launch(w) \in [Workers -> Worker]
           /\ \A v \in Workers : /\ v # w => Launch(w)[v] = worker[v]
                                 /\ Launch(w)[v].model = worker[v].model
                                 /\ Launch(w)[v].exiting = worker[v].exiting
           /\ Launch(w)[w].state = IF worker[w].state = "stopped" THEN "loading"
                                   ELSE worker[w].state
           /\ worker[w].state # "stopped" => Launch(w) = worker
  <1>1. worker[w] \in Worker
    BY DEF WorkersType
  <1>2. [worker[w] EXCEPT !.state = IF @ = "stopped" THEN "loading" ELSE @] \in Worker
    BY <1>1 DEF Worker
  <1>3. worker[w].state # "stopped" =>
           [worker[w] EXCEPT !.state = IF @ = "stopped" THEN "loading" ELSE @] = worker[w]
    BY <1>1 DEF Worker
  <1>4. Launch(w) = [worker EXCEPT ![w] =
                       [worker[w] EXCEPT !.state = IF @ = "stopped" THEN "loading" ELSE @]]
    BY DEF Launch
  <1> QED BY <1>1, <1>2, <1>3, <1>4 DEF WorkersType, Worker

LEMMA WorkersTyped ==
    ASSUME TypeOK, Allocated, Blank, Named, NthRight, UsersCounted, [Next]_vars
    PROVE  WorkersType'
  <1>0. JobsType /\ CallsType /\ WorkersType
    BY TypesSplit
  <1> USE <1>0
  <1>1. ASSUME UNCHANGED <<worker, registry, entry>> PROVE WorkersType'
    BY <1>1 DEF WorkersType
  <1>2. ASSUME NEW m \in Models, DeleteEntry(m) PROVE WorkersType'
    BY <1>2, DeleteType DEF WorkersType
  <1>3. ASSUME UNCHANGED <<registry, entry>>, worker' \in [Workers -> Worker] PROVE WorkersType'
    BY <1>3 DEF WorkersType
  <1>4. ASSUME UNCHANGED <<worker, registry>>, entry' \in [Models -> Entry] PROVE WorkersType'
    BY <1>4 DEF WorkersType
  <1>5. ASSUME NEW m \in Models, \/ JobMeasures(m) \/ JobPerformed(m) \/ JobEvicted(m)
                                 \/ JobRejected(m) \/ JobCommits(m) \/ JobUndone(m)
        PROVE WorkersType'
    BY <1>1, <1>5 DEF JobMeasures, JobPerformed, JobEvicted, JobRejected, JobCommits,
                      JobUndone, JobEnds
  <1>6. ASSUME NEW m \in Models, JobLaunches(m) PROVE WorkersType'
    <2>1. job[m].worker \in Workers
      BY <1>6 DEF JobLaunches, Owns, Named
    <2> QED BY <1>3, <1>6, <2>1, LaunchType DEF JobLaunches
  <1>7. ASSUME NEW m \in Models, JobEvicts(m) \/ RelievePressure(m) \/ Expire(m)
        PROVE WorkersType'
    BY <1>2, <1>7 DEF JobEvicts, RelievePressure, Expire, Victims
  <1>8. ASSUME NEW m \in Models, UnloadEntry(m) PROVE WorkersType'
    BY <1>2, <1>4, <1>8, UnloadEffect
  <1>9. ASSUME NEW m \in Models, Unload(m) PROVE WorkersType'
    BY <1>8, <1>9 DEF Unload
  <1>10. ASSUME NEW m \in Models, Adjust(m) PROVE WorkersType'
    <2>1. registry[m] # NoWorker => registry[m] \in Workers
      BY DEF WorkersType
    <2> QED BY <1>1, <1>3, <1>10, <2>1, LaunchType DEF Adjust, LaunchUnadmitted
  <1>11. ASSUME NEW c \in Calls,
                \/ EnterGate(c) \/ LoadReturns(c) \/ ChatUnprepared(c)
                \/ ChatLoaded(c) \/ ChatRefused(c)
         PROVE WorkersType'
    BY <1>1, <1>11 DEF EnterGate, LoadReturns, ChatUnprepared, ChatLoaded, ChatRefused
  <1>12. ASSUME NEW c \in Calls, LoadRefused(c) PROVE WorkersType'
    BY <1>1, <1>8, <1>12, CallsSplit DEF LoadRefused
  <1>13. ASSUME NEW c \in Calls, ChatSends(c) PROVE WorkersType'
    <2>1. call[c].worker \in Workers
      BY <1>13 DEF ChatSends, Named
    <2> QED BY <1>1, <1>3, <1>13, <2>1, LaunchType DEF ChatSends, LaunchUnadmitted
  <1>14. ASSUME NEW c \in Calls, ChatEnds(c) PROVE WorkersType'
    <2>1. call[c].nth >= 2 /\ c \in Chats /\ ModelOf[c] \in Models
      BY <1>14, CallsSplit DEF ChatEnds, NthRight, CallsType, Call
    <2>2. c \in Users(ModelOf[c]) /\ IsFiniteSet(Users(ModelOf[c]))
      BY <2>1, Finite, CallsSplit DEF Users
    <2>3. entry[ModelOf[c]].active > 0
      BY <2>1, <2>2, FS_EmptySet, FS_CardinalityType DEF UsersCounted
    <2>4. FinishUsage(ModelOf[c])
      BY <1>14 DEF ChatEnds
    <2> QED BY <1>2, <1>4, <2>1, <2>3, <2>4, UsageEffect
  <1>15. ASSUME NEW m \in Models, registry[m] = NoWorker => Spare, GetOrCreate(m),
                entry' \in [Models -> Entry]
         PROVE WorkersType'
    BY <1>15, CreateEffect DEF WorkersType
  <1>16. \A m \in Models : Kept(m) \in Entry /\ \A b \in BOOLEAN : [Kept(m) EXCEPT !.pinned = b] \in Entry
    BY DEF Kept, Entry, WorkersType
  <1>17. ASSUME NEW c \in Calls, CallLoad(c) PROVE WorkersType'
    <2>1. Spare /\ ModelOf[c] \in Models
      BY <1>17, SpareForCall, CallsSplit DEF CallLoad
    <2>2. entry' \in [Models -> Entry] /\ GetOrCreate(ModelOf[c])
      BY <1>16, <1>17, <2>1 DEF CallLoad, WorkersType
    <2> QED BY <1>15, <2>1, <2>2
  <1>18. ASSUME NEW c \in Calls, StartChat(c) PROVE WorkersType'
    <2>1. Spare /\ ModelOf[c] \in Models
      BY <1>18, SpareForCall, CallsSplit DEF StartChat
    <2>2. entry' \in [Models -> Entry] /\ GetOrCreate(ModelOf[c])
      BY <1>18 DEF StartChat, WorkersType
    <2> QED BY <1>15, <2>1, <2>2
  <1>19. ASSUME NEW c \in Calls, ChatBegins(c) PROVE WorkersType'
    <2>1. Spare /\ ModelOf[c] \in Models
      BY <1>19, SpareForCall, CallsSplit DEF ChatBegins
    <2>2. [Kept(ModelOf[c]) EXCEPT !.active = @ + 1] \in Entry
      <3>1. \A e \in Entry : e.active + 1 \in Nat
        BY DEF Entry
      <3>2. \A e \in Entry, n \in Nat : [e EXCEPT !.active = n] \in Entry
        BY DEF Entry
      <3> QED BY <1>16, <2>1, <3>1, <3>2
    <2>3. entry' \in [Models -> Entry] /\ GetOrCreate(ModelOf[c])
      BY <1>19, <2>1, <2>2 DEF ChatBegins, WorkersType
    <2> QED BY <1>15, <2>1, <2>3
  <1>20. ASSUME NEW w \in Workers, WorkerLoads(w) \/ Exit(w) \/ Crash(w) PROVE WorkersType'
    <2>1. worker[w] \in Worker /\ Closed(worker[w]) \in Worker
      BY ClosedType DEF WorkersType
    <2>2. /\ [worker[w] EXCEPT !.state = "resident"] \in Worker
          /\ [worker[w] EXCEPT !.state = "stopped"] \in Worker
      BY <2>1 DEF Worker
    <2>3. worker[w].exiting > 0 => [worker[w] EXCEPT !.exiting = @ - 1] \in Worker
      <3>1. worker[w].exiting \in Nat
        BY <2>1 DEF Worker
      <3>2. worker[w].exiting > 0 => worker[w].exiting - 1 \in Nat
        BY <3>1
      <3>3. \A n \in Nat : [worker[w] EXCEPT !.exiting = n] \in Worker
        BY <2>1 DEF Worker
      <3> QED BY <3>2, <3>3
    <2>4. UNCHANGED <<registry, entry>>
      BY <1>20 DEF WorkerLoads, Exit, Crash
    <2>5. \E r \in Worker : worker' = [worker EXCEPT ![w] = r]
      <3>1. CASE WorkerLoads(w)
        BY <2>1, <2>2, <3>1 DEF WorkerLoads
      <3>2. CASE Exit(w)
        BY <2>3, <3>2 DEF Exit
      <3>3. CASE Crash(w)
        BY <2>2, <3>3 DEF Crash
      <3> QED BY <1>20, <3>1, <3>2, <3>3
    <2> QED BY <1>3, <2>4, <2>5 DEF WorkersType
  <1>21. ASSUME Rotate PROVE WorkersType'
    <2>1. \A r \in Worker : Closed(r) \in Worker
      BY ClosedType
    <2>2. \A r \in Worker, b \in BOOLEAN : /\ [r EXCEPT !.old = b] \in Worker
                                           /\ [r EXCEPT !.retired = TRUE, !.old = TRUE] \in Worker
      BY DEF Worker
    <2>3. \A w \in Workers : Exists(w) \in BOOLEAN /\ worker[w] \in Worker
      BY DEF Exists, WorkersType
    <2>4. worker' \in [Workers -> Worker]
      BY <1>21, <2>1, <2>2, <2>3 DEF Rotate
    <2>5. registry' \in [Models -> Workers \cup {NoWorker}] /\ entry' = entry
      BY <1>21 DEF Rotate
    <2> QED BY <2>4, <2>5 DEF WorkersType
  <1>22. ASSUME \/ ClaimRotation \/ RotationEnds \/ ClaimRebalance \/ Plan
                \/ AdjustLoaded \/ RebalanceEnds \/ AskRotation \/ AskRebalance
                \/ UNCHANGED vars
         PROVE WorkersType'
    BY <1>1, <1>22 DEF ClaimRotation, RotationEnds, ClaimRebalance, Plan, AdjustLoaded,
                       RebalanceEnds, AskRotation, AskRebalance, vars
  <1> QED BY <1>5, <1>6, <1>7, <1>9, <1>10, <1>11, <1>12, <1>13, <1>14, <1>17, <1>18, <1>19,
             <1>20, <1>21, <1>22, NextCases

LEMMA CallsTyped ==
    ASSUME TypeOK, Allocated, Blank, Named, NthRight, [Next]_vars PROVE CallsType'
  <1>0. JobsType /\ CallsType /\ WorkersType
    BY TypesSplit
  <1> USE <1>0
  <1>1. ASSUME UNCHANGED call PROVE CallsType'
    BY <1>1 DEF CallsType
  <1>2. ASSUME NEW c \in Calls, NEW at \in {"gate", "job", "direct", "loaded", "refused",
                                            "serving"},
               call' = [call EXCEPT ![c].at = at]
        PROVE  CallsType'
    <2>1. \A r \in Call : [r EXCEPT !.at = at] \in Call
      BY DEF Call
    <2> QED BY <1>2, <2>1 DEF CallsType
  <1>4. ASSUME NEW c \in Calls, \/ LoadReturns(c) \/ LoadRefused(c) \/ ChatUnprepared(c)
                                \/ ChatEnds(c) \/ ChatRefused(c)
        PROVE CallsType'
    <2>1. call' = [call EXCEPT ![c] = Over]
      BY <1>4 DEF LoadReturns, LoadRefused, ChatUnprepared, ChatEnds, ChatRefused
    <2> QED BY <2>1, OverType DEF CallsType
  <1>5. ASSUME NEW c \in Calls, CallLoad(c) \/ StartChat(c) \/ ChatBegins(c)
        PROVE CallsType'
    <2> DEFINE m == ModelOf[c]
    <2>1. Spare /\ m \in Models /\ GetOrCreate(m)
      BY <1>5, SpareForCall, CallsSplit DEF CallLoad, StartChat, ChatBegins
    <2>2. HandleOf(m) \in Workers
      BY <2>1, CreateEffect
    <2>3. \E n \in {1, 2} :
             call' = [call EXCEPT ![c] = [at |-> LoadNow(m), nth |-> n, worker |-> HandleOf(m)]]
      BY <1>5 DEF CallLoad, StartChat, ChatBegins
    <2>4. LoadNow(m) \in {"refused", "loaded", "gate"}
      BY LoadOfType
    <2>5. \A n \in {1, 2} : [at |-> LoadNow(m), nth |-> n, worker |-> HandleOf(m)] \in Call
      BY <2>2, <2>4 DEF Call
    <2> QED BY <2>3, <2>5 DEF CallsType
  <1>6. ASSUME NEW m \in Models, JobRejected(m) \/ JobCommits(m) \/ JobUndone(m)
        PROVE CallsType'
    <2>1. PICK at \in {"loaded", "refused"} : JobEnds(m, at)
      BY <1>6 DEF JobRejected, JobCommits, JobUndone
    <2>2. call' = [c \in Calls |-> IF call[c].at = "job" /\ ModelOf[c] = m
                                   THEN [call[c] EXCEPT !.at = at] ELSE call[c]]
      BY <2>1 DEF JobEnds
    <2>3. \A r \in Call : [r EXCEPT !.at = at] \in Call
      BY DEF Call
    <2> QED BY <2>2, <2>3 DEF CallsType
  <1>7. ASSUME NEW c \in Calls, EnterGate(c) PROVE CallsType'
    <2>1. LoadOf(call[c].worker) \in {"refused", "loaded", "gate"}
      BY LoadOfType
    <2>2. \E at \in {"job", "refused", "loaded", "gate"} : call' = [call EXCEPT ![c].at = at]
      BY <1>7, <2>1 DEF EnterGate
    <2> QED BY <1>2, <2>2
  <1>8. ASSUME NEW c \in Calls, ChatSends(c) PROVE CallsType'
    <2>1. LoadOf(call[c].worker) \in {"refused", "loaded", "gate"}
      BY LoadOfType
    <2>2. CASE call' = [call EXCEPT ![c] =
                   IF LoadOf(call[c].worker) = "loaded" THEN [@ EXCEPT !.at = "serving"]
                   ELSE [@ EXCEPT !.at = LoadOf(call[c].worker), !.nth = 3]]
      <3>1. call' = [call EXCEPT ![c] = [call[c] EXCEPT !.at = "serving"]]
            \/ call' = [call EXCEPT ![c] =
                          [call[c] EXCEPT !.at = LoadOf(call[c].worker), !.nth = 3]]
        BY <2>2
      <3>2. /\ [call[c] EXCEPT !.at = "serving"] \in Call
            /\ [call[c] EXCEPT !.at = LoadOf(call[c].worker), !.nth = 3] \in Call
        <4>1. \A r \in Call : [r EXCEPT !.at = "serving"] \in Call
          BY DEF Call
        <4>2. \A r \in Call, n \in 0 .. 3, at \in {"refused", "loaded", "gate"} :
                 [r EXCEPT !.at = at, !.nth = n] \in Call
          BY DEF Call
        <4>3. call[c] \in Call /\ 3 \in 0 .. 3
          BY DEF CallsType
        <4> QED BY <2>1, <4>1, <4>2, <4>3
      <3> QED BY <3>1, <3>2 DEF CallsType
    <2>3. CASE \E at \in {"serving", "direct"} : call' = [call EXCEPT ![c].at = at]
      BY <1>2, <2>3
    <2> QED BY <1>8, <2>2, <2>3 DEF ChatSends
  <1>9. ASSUME NEW c \in Calls, ChatLoaded(c) PROVE CallsType'
    <2>1. \E at \in {"serving", "refused"} : call' = [call EXCEPT ![c].at = at]
      BY <1>9 DEF ChatLoaded
    <2> QED BY <1>2, <2>1
  <1>10. ASSUME NEW w \in Workers, WorkerLoads(w) \/ Exit(w) \/ Crash(w) PROVE CallsType'
    <2>1. CASE Crash(w)
      <3>1. call' = [c \in Calls |-> IF call[c].at = "serving" /\ call[c].worker = w
                                     THEN [call[c] EXCEPT !.at = "refused"] ELSE call[c]]
        BY <2>1 DEF Crash
      <3>2. \A r \in Call : [r EXCEPT !.at = "refused"] \in Call
        BY DEF Call
      <3> QED BY <3>1, <3>2 DEF CallsType
    <2> QED BY <1>1, <1>10, <2>1 DEF WorkerLoads, Exit
  <1>11. ASSUME NEW m \in Models,
                \/ JobMeasures(m) \/ JobLaunches(m) \/ JobPerformed(m) \/ JobEvicts(m)
                \/ JobEvicted(m) \/ RelievePressure(m) \/ Adjust(m) \/ Expire(m) \/ Unload(m)
         PROVE CallsType'
    BY <1>1, <1>11 DEF JobMeasures, JobLaunches, JobPerformed, JobEvicts, JobEvicted,
                       RelievePressure, Adjust, Expire, Unload
  <1>12. ASSUME \/ ClaimRotation \/ Rotate \/ RotationEnds \/ ClaimRebalance \/ Plan
                \/ AdjustLoaded \/ RebalanceEnds \/ AskRotation \/ AskRebalance
                \/ UNCHANGED vars
         PROVE CallsType'
    BY <1>1, <1>12 DEF ClaimRotation, Rotate, RotationEnds, ClaimRebalance, Plan, AdjustLoaded,
                       RebalanceEnds, AskRotation, AskRebalance, vars
  <1> QED BY <1>4, <1>5, <1>6, <1>7, <1>8, <1>9, <1>10, <1>11, <1>12, NextCases

LEMMA GateTyped ==
    ASSUME TypeOK, [Next]_vars PROVE GateType'
  <1>0. GateType /\ WorkersType
    BY TypesSplit
  <1> USE <1>0
  <1>1. ASSUME UNCHANGED gate PROVE GateType'
    BY <1>1 DEF GateType, gate
  <1>2. ASSUME NEW m \in Models,
               \/ JobMeasures(m) \/ JobLaunches(m) \/ JobPerformed(m) \/ JobEvicts(m)
               \/ JobEvicted(m) \/ JobRejected(m) \/ JobCommits(m) \/ JobUndone(m)
               \/ Expire(m) \/ Unload(m)
        PROVE GateType'
    BY <1>1, <1>2 DEF JobMeasures, JobLaunches, JobPerformed, JobEvicts, JobEvicted,
                      JobRejected, JobCommits, JobUndone, JobEnds, Expire, Unload
  <1>3. ASSUME NEW c \in Calls,
               \/ EnterGate(c) \/ LoadReturns(c) \/ LoadRefused(c) \/ ChatUnprepared(c)
               \/ ChatBegins(c) \/ ChatSends(c) \/ ChatLoaded(c) \/ ChatEnds(c)
               \/ ChatRefused(c) \/ CallLoad(c) \/ StartChat(c)
        PROVE GateType'
    BY <1>1, <1>3 DEF EnterGate, LoadReturns, LoadRefused, ChatUnprepared, ChatBegins,
                      ChatSends, ChatLoaded, ChatEnds, ChatRefused, CallLoad, StartChat
  <1>4. ASSUME NEW w \in Workers, WorkerLoads(w) \/ Exit(w) \/ Crash(w) PROVE GateType'
    BY <1>1, <1>4 DEF WorkerLoads, Exit, Crash
  <1>5. ASSUME ClaimRotation \/ Rotate \/ RotationEnds \/ AskRotation PROVE GateType'
    BY <1>5 DEF ClaimRotation, Rotate, RotationEnds, AskRotation, GateType
  <1>6. ASSUME NEW m \in Models, RelievePressure(m) PROVE GateType'
    <2>1. registry[m] \in Workers \cup {NoWorker}
      BY DEF WorkersType
    <2> QED BY <1>6, <2>1 DEF RelievePressure, GateType
  <1>7. ASSUME NEW m \in Models, Adjust(m) PROVE GateType'
    <2>1. registry[m] \in Workers \cup {NoWorker}
      BY DEF WorkersType
    <2>2. rebalance.models \ {m} \in SUBSET Models
      BY DEF GateType
    <2>3. rebalance' \in [at : {"idle", "asked", "claimed", "evicting", "adjusting",
                                "loading", "over"},
                          models : SUBSET Models, worker : Workers \cup {NoWorker}]
      BY <1>7, <2>1, <2>2 DEF Adjust, GateType
    <2> QED BY <1>7, <2>3 DEF Adjust, GateType
  <1>8. ASSUME ClaimRebalance \/ AskRebalance \/ RebalanceEnds \/ AdjustLoaded PROVE GateType'
    BY <1>8 DEF ClaimRebalance, AskRebalance, RebalanceEnds, AdjustLoaded, GateType, NoWorker
  <1>9. ASSUME Plan PROVE GateType'
    <2>1. Retaining \in SUBSET Models
      BY DEF Retaining
    <2> QED BY <1>9, <2>1 DEF Plan, GateType
  <1>10. ASSUME UNCHANGED vars PROVE GateType'
    BY <1>1, <1>10 DEF vars, gate
  <1> QED BY <1>2, <1>3, <1>4, <1>5, <1>6, <1>7, <1>8, <1>9, <1>10, NextCases

(* What is said of bypassing stays said. *)
LEMMA HistoryTyped ==
    ASSUME TypeOK, [Next]_vars PROVE HistoryType' /\ (bypassed => bypassed')
  <1>0. HistoryType /\ Disturbances \in Nat
    BY TypesSplit
  <1> USE <1>0
  <1> DEFINE Goal == HistoryType' /\ (bypassed => bypassed')
  <1>1. ASSUME UNCHANGED history PROVE Goal
    BY <1>1 DEF HistoryType, history
  <1>2. ASSUME UNCHANGED bypassed, Disturb PROVE Goal
    BY <1>2 DEF HistoryType, Disturb
  <1>3. ASSUME NEW w, LaunchUnadmitted(w), UNCHANGED disturbed PROVE Goal
    BY <1>3 DEF HistoryType, LaunchUnadmitted
  <1>4. ASSUME NEW m \in Models, JobMeasures(m) PROVE Goal
    <2>1. sample' \in Nat \cup {NoSample}
      BY <1>4, MemoryUsedNat DEF JobMeasures, HistoryType
    <2>2. bypassed' = bypassed
          \/ bypassed' = (bypassed \/ sample < Total({w \in Workers : Exists(w)}))
      BY <1>4 DEF JobMeasures
    <2>3. bypassed' \in BOOLEAN /\ (bypassed => bypassed')
      <3> HIDE DEF Total, Exists
      <3> QED BY <2>2, ZenonT(30) DEF HistoryType
    <2> QED BY <1>4, <2>1, <2>3 DEF JobMeasures, HistoryType
  <1>5. ASSUME NEW m \in Models,
               \/ JobLaunches(m) \/ JobPerformed(m) \/ JobEvicts(m) \/ JobEvicted(m)
               \/ Expire(m) \/ Unload(m) \/ RelievePressure(m)
        PROVE Goal
    BY <1>1, <1>5 DEF JobLaunches, JobPerformed, JobEvicts, JobEvicted, Expire, Unload,
                      RelievePressure
  <1>6. ASSUME NEW m \in Models, JobRejected(m) \/ JobCommits(m) \/ JobUndone(m) PROVE Goal
    BY <1>6 DEF JobRejected, JobCommits, JobUndone, JobEnds, HistoryType
  <1>7. ASSUME NEW c \in Calls,
               \/ EnterGate(c) \/ LoadReturns(c) \/ LoadRefused(c) \/ ChatUnprepared(c)
               \/ ChatBegins(c) \/ ChatLoaded(c) \/ ChatEnds(c)
               \/ ChatRefused(c) \/ CallLoad(c) \/ StartChat(c)
        PROVE Goal
    BY <1>1, <1>7 DEF EnterGate, LoadReturns, LoadRefused, ChatUnprepared, ChatBegins,
                      ChatLoaded, ChatEnds, ChatRefused, CallLoad, StartChat
  <1>8. ASSUME NEW c \in Calls, ChatSends(c) PROVE Goal
    BY <1>1, <1>3, <1>8 DEF ChatSends, history
  <1>9. ASSUME NEW w \in Workers, WorkerLoads(w) \/ Exit(w) \/ Crash(w) PROVE Goal
    BY <1>1, <1>2, <1>9 DEF WorkerLoads, Exit, Crash
  <1>10. ASSUME NEW m \in Models, Adjust(m) PROVE Goal
    BY <1>1, <1>3, <1>10 DEF Adjust, history
  <1>11. ASSUME \/ ClaimRotation \/ Rotate \/ RotationEnds \/ ClaimRebalance \/ Plan
                \/ AdjustLoaded \/ RebalanceEnds \/ AskRotation \/ AskRebalance
         PROVE Goal
    BY <1>1, <1>2, <1>11 DEF ClaimRotation, Rotate, RotationEnds, ClaimRebalance, Plan,
                             AdjustLoaded, RebalanceEnds, AskRotation, AskRebalance
  <1>12. ASSUME UNCHANGED vars PROVE Goal
    BY <1>1, <1>12 DEF vars, history
  <1> QED BY <1>4, <1>5, <1>6, <1>7, <1>8, <1>9, <1>10, <1>11, <1>12, NextCases

-----------------------------------------------------------------------------
(* What a step does to the workers. *)

(* A chat that has begun its usage keeps the entry of its model in use. *)
LEMMA InUse ==
    ASSUME TypeOK, UsersCounted, NEW c \in Chats, call[c].nth >= 2
    PROVE  /\ ModelOf[c] \in Models /\ c \in Users(ModelOf[c])
           /\ IsFiniteSet(Users(ModelOf[c]))
           /\ entry[ModelOf[c]].active = Cardinality(Users(ModelOf[c]))
           /\ entry[ModelOf[c]].active \in Nat /\ entry[ModelOf[c]].active > 0
  <1>1. ModelOf[c] \in Models /\ c \in Users(ModelOf[c])
    BY CallsSplit DEF Users
  <1>2. Users(ModelOf[c]) \in SUBSET Calls
    BY CallsSplit DEF Users
  <1>3. /\ IsFiniteSet(Users(ModelOf[c])) /\ Cardinality(Users(ModelOf[c])) \in Nat
        /\ Cardinality(Users(ModelOf[c])) # 0
    BY <1>1, <1>2, Finite, FS_EmptySet
  <1> QED BY <1>1, <1>3 DEF UsersCounted

Creates(c) == CallLoad(c) \/ StartChat(c) \/ ChatBegins(c)
LastUser(c) == ChatEnds(c) /\ entry[ModelOf[c]].active = 1 /\ DeleteEntry(ModelOf[c])
Launches(w) ==
    /\ worker[w].model # NoModel /\ worker' = Launch(w) /\ UNCHANGED <<registry, entry>>
    /\ \/ \E m \in Models : JobLaunches(m) /\ job[m].worker = w
       \/ bypassed' = (bypassed \/ worker[w].state = "stopped")

LEMMA WorkersCases ==
    ASSUME TypeOK, Named, NthRight, UsersCounted, [Next]_vars
    PROVE  \/ UNCHANGED <<worker, registry>>
           \/ \E m \in Models : DeleteEntry(m) /\ entry[m].active = 0
           \/ \E c \in Calls : LastUser(c)
           \/ \E c \in Calls : Creates(c)
           \/ \E w \in Workers : Launches(w)
           \/ \E w \in Workers : WorkerLoads(w) \/ Exit(w) \/ Crash(w)
           \/ Rotate
  <1> DEFINE Goal == \/ UNCHANGED <<worker, registry>>
                     \/ \E m \in Models : DeleteEntry(m) /\ entry[m].active = 0
                     \/ \E c \in Calls : LastUser(c)
                     \/ \E c \in Calls : Creates(c)
                     \/ \E w \in Workers : Launches(w)
                     \/ \E w \in Workers : WorkerLoads(w) \/ Exit(w) \/ Crash(w)
                     \/ Rotate
  <1>0. WorkersType /\ CallsType /\ \A m \in Models : m # NoModel
    BY TypesSplit
  <1> USE <1>0
  <1>1. ASSUME NEW m \in Models, \/ JobMeasures(m) \/ JobPerformed(m) \/ JobEvicted(m)
                                 \/ JobRejected(m) \/ JobCommits(m) \/ JobUndone(m)
        PROVE Goal
    BY <1>1 DEF JobMeasures, JobPerformed, JobEvicted, JobRejected, JobCommits, JobUndone,
                JobEnds
  <1>2. ASSUME NEW m \in Models, JobLaunches(m) PROVE Goal
    <2>1. Launches(job[m].worker) /\ job[m].worker \in Workers
      BY <1>2 DEF JobLaunches, Owns, Named, Launches
    <2> QED BY <2>1
  <1>3. ASSUME NEW m \in Models, JobEvicts(m) \/ RelievePressure(m) \/ Expire(m) PROVE Goal
    <2>1. \E v \in Models : DeleteEntry(v) /\ entry[v].active = 0
      BY <1>3 DEF JobEvicts, RelievePressure, Expire, Victims, Idle
    <2> QED BY <2>1
  <1>4. ASSUME NEW m \in Models, UnloadEntry(m) PROVE Goal
    BY <1>4, UnloadEffect
  <1>5. ASSUME NEW m \in Models, Unload(m) PROVE Goal
    BY <1>4, <1>5 DEF Unload
  <1>6. ASSUME NEW m \in Models, Adjust(m) PROVE Goal
    <2>1. CASE registry[m] = NoWorker \/ worker[registry[m]].state = "resident"
      BY <1>6, <2>1 DEF Adjust
    <2>2. CASE ~(registry[m] = NoWorker \/ worker[registry[m]].state = "resident")
      <3>1. registry[m] \in Workers /\ worker[registry[m]].model # NoModel
        BY <2>2 DEF WorkersType, Named
      <3>2. Launches(registry[m])
        BY <1>6, <2>2, <3>1 DEF Adjust, LaunchUnadmitted, Launches
      <3> QED BY <3>1, <3>2
    <2> QED BY <2>1, <2>2
  <1>7. ASSUME NEW c \in Calls,
               \/ EnterGate(c) \/ LoadReturns(c) \/ ChatUnprepared(c)
               \/ ChatLoaded(c) \/ ChatRefused(c)
        PROVE Goal
    BY <1>7 DEF EnterGate, LoadReturns, ChatUnprepared, ChatLoaded, ChatRefused
  <1>8. ASSUME NEW c \in Calls, LoadRefused(c) PROVE Goal
    BY <1>4, <1>8, CallsSplit DEF LoadRefused
  <1>9. ASSUME NEW c \in Calls, ChatSends(c) PROVE Goal
    <2>1. CASE UNCHANGED worker
      BY <1>9, <2>1 DEF ChatSends
    <2>2. CASE LaunchUnadmitted(call[c].worker)
      <3>1. call[c].worker \in Workers /\ worker[call[c].worker].model # NoModel
        BY <1>9, CallsSplit DEF ChatSends, Named
      <3>2. Launches(call[c].worker)
        BY <1>9, <2>2, <3>1 DEF ChatSends, LaunchUnadmitted, Launches
      <3> QED BY <3>1, <3>2
    <2> QED BY <1>9, <2>1, <2>2 DEF ChatSends
  <1>10. ASSUME NEW c \in Calls, ChatEnds(c) PROVE Goal
    <2>1. c \in Chats /\ call[c].nth >= 2
      BY <1>10 DEF ChatEnds, NthRight, CallsType, Call
    <2>2. ModelOf[c] \in Models /\ entry[ModelOf[c]].active > 0
      BY <2>1, InUse
    <2>3. FinishUsage(ModelOf[c])
      BY <1>10 DEF ChatEnds
    <2> QED BY <1>10, <2>2, <2>3, UsageEffect DEF LastUser
  <1>11. ASSUME NEW c \in Calls, CallLoad(c) \/ StartChat(c) \/ ChatBegins(c) PROVE Goal
    BY <1>11 DEF Creates
  <1>12. ASSUME \/ ClaimRotation \/ RotationEnds \/ ClaimRebalance \/ Plan
                \/ AdjustLoaded \/ RebalanceEnds \/ AskRotation \/ AskRebalance
                \/ UNCHANGED vars
         PROVE Goal
    BY <1>12 DEF ClaimRotation, RotationEnds, ClaimRebalance, Plan, AdjustLoaded,
                 RebalanceEnds, AskRotation, AskRebalance, vars
  <1> HIDE DEF Goal
  <1>13. Rotate \/ (\E w \in Workers : WorkerLoads(w) \/ Exit(w) \/ Crash(w)) => Goal
    BY DEF Goal
  <1>14. Goal
    BY <1>1, <1>2, <1>3, <1>5, <1>6, <1>7, <1>8, <1>9, <1>10, <1>11, <1>12, <1>13, NextCases
  <1> QED BY <1>14 DEF Goal

(* The processes of a worker that take memory. *)
Held(r) == r.exiting + IF r.state = "stopped" THEN 0 ELSE 1

(* A worker that was created stays what it was, takes no more memory and does *)
(* not begin to load.                                                         *)
Ages(w) ==
    /\ worker[w].model # NoModel /\ worker'[w].model = worker[w].model
    /\ Held(worker'[w]) <= Held(worker[w])
    /\ worker'[w].state = "loading" => worker[w].state = "loading"

Alike(q, r) == q.model = r.model /\ Held(q) = Held(r)

LEMMA ClosedHeld ==
    ASSUME NEW r \in Worker
    PROVE  /\ Held(r) \in Nat
           /\ Alike(Closed(r), r) /\ Closed(r).state = "stopped"
           /\ LET q == [Closed(r) EXCEPT !.retired = TRUE]
              IN  Alike(q, r) /\ q.state = "stopped"
           /\ LET q == [Closed(r) EXCEPT !.retired = TRUE, !.old = TRUE]
              IN  Alike(q, r) /\ q.state = "stopped"
           /\ \A b \in BOOLEAN : LET q == [r EXCEPT !.old = b]
                                 IN  Alike(q, r) /\ q.state = r.state
  <1>1. r.exiting \in Nat
    BY DEF Worker
  <1>2. Held(r) \in Nat
    BY <1>1 DEF Held
  <1>3. ASSUME NEW q, q.model = r.model, q.state = "stopped", q.exiting = Held(r)
        PROVE  Alike(q, r)
    BY <1>2, <1>3 DEF Held, Alike
  <1>4. LET q == Closed(r)
        IN  q.model = r.model /\ q.state = "stopped" /\ q.exiting = Held(r) /\ q \in Worker
    <2>1. Closed(r).model = r.model /\ Closed(r).state = "stopped" /\ Closed(r) \in Worker
      BY ClosedType DEF Closed, Worker
    <2>2. Closed(r).exiting = Held(r)
      BY <1>1 DEF Closed, Worker, Held
    <2> QED BY <2>1, <2>2
  <1>5. LET q == [Closed(r) EXCEPT !.retired = TRUE]
        IN  q.model = r.model /\ q.state = "stopped" /\ q.exiting = Held(r)
    BY <1>4 DEF Worker
  <1>6. LET q == [Closed(r) EXCEPT !.retired = TRUE, !.old = TRUE]
        IN  q.model = r.model /\ q.state = "stopped" /\ q.exiting = Held(r)
    BY <1>4 DEF Worker
  <1>7. \A b \in BOOLEAN : LET q == [r EXCEPT !.old = b]
                           IN  q.model = r.model /\ q.exiting = r.exiting /\ q.state = r.state
    BY DEF Worker
  <1>8. \A b \in BOOLEAN : Alike([r EXCEPT !.old = b], r)
    BY <1>7 DEF Held, Alike
  <1> QED BY <1>2, <1>3, <1>4, <1>5, <1>6, <1>7, <1>8

LEMMA WorkersMove ==
    ASSUME TypeOK, Named, NthRight, UsersCounted, Blank, [Next]_vars
    PROVE  \/ \A w \in Workers : worker'[w] = worker[w] \/ Ages(w)
           \/ \E c \in Calls : Creates(c)
           \/ \E w \in Workers : Launches(w)
  <1> DEFINE Move == \A w \in Workers : worker'[w] = worker[w] \/ Ages(w)
  <1>0. WorkersType /\ CallsType /\ \A m \in Models : m # NoModel
    BY TypesSplit
  <1> USE <1>0
  <1>1. \A w \in Workers : worker[w] \in Worker
    BY DEF WorkersType
  <1>2. ASSUME NEW m \in Models, DeleteEntry(m) PROVE Move
    <2> SUFFICES ASSUME NEW w \in Workers, worker'[w] # worker[w] PROVE Ages(w)
      OBVIOUS
    <2>1. w = registry[m] /\ worker'[w] = [Closed(worker[w]) EXCEPT !.retired = TRUE]
      BY <1>2 DEF DeleteEntry, WorkersType
    <2>2. worker[w].model # NoModel
      BY <2>1, Finite DEF Named
    <2>3. /\ worker'[w].model = worker[w].model /\ worker'[w].state = "stopped"
          /\ Held(worker'[w]) = Held(worker[w]) /\ Held(worker[w]) \in Nat
      <3>1. LET q == [Closed(worker[w]) EXCEPT !.retired = TRUE]
            IN  Alike(q, worker[w]) /\ q.state = "stopped" /\ Held(worker[w]) \in Nat
        BY <1>1, ClosedHeld
      <3> QED BY <2>1, <3>1 DEF Alike
    <2> QED BY <2>2, <2>3 DEF Ages
  <1>3. ASSUME NEW w \in Workers, WorkerLoads(w) \/ Exit(w) \/ Crash(w) PROVE Move
    <2> DEFINE r == worker[w]
    <2>1. worker[w].model # NoModel
      <3>1. NewWorker(NoModel).state = "stopped" /\ NewWorker(NoModel).exiting = 0
        BY DEF NewWorker
      <3> QED BY <1>3, <3>1 DEF WorkerLoads, Exit, Crash, Blank
    <2>2. \E q : /\ worker' = [worker EXCEPT ![w] = q]
                 /\ q.model = r.model /\ Held(q) <= Held(r)
                 /\ q.state = "loading" => r.state = "loading"
      <3>1. CASE WorkerLoads(w)
        <4>1. r.state = "loading" /\ r \in Worker
          BY <1>1, <3>1 DEF WorkerLoads
        <4>2. [r EXCEPT !.state = "resident"].model = r.model
              /\ Held([r EXCEPT !.state = "resident"]) = Held(r)
          BY <4>1 DEF Worker, Held
        <4>3. Closed(r).model = r.model /\ Held(Closed(r)) = Held(r) /\ Held(r) \in Nat
          BY <4>1, ClosedHeld DEF Alike
        <4>4. \A q \in {[r EXCEPT !.state = "resident"], Closed(r)} :
                 q.model = r.model /\ Held(q) <= Held(r)
          <5>1. Held(r) <= Held(r)
            BY <4>3
          <5> QED BY <4>2, <4>3, <5>1
        <4>5. [r EXCEPT !.state = "resident"].state # "loading" \/ r.state = "loading"
          BY <4>1
        <4> QED BY <3>1, <4>1, <4>4, <4>5 DEF WorkerLoads
      <3>2. CASE Exit(w)
        <4> DEFINE q == [r EXCEPT !.exiting = @ - 1]
        <4>1. worker' = [worker EXCEPT ![w] = q] /\ r \in Worker
          BY <1>1, <3>2 DEF Exit
        <4>2. q.model = r.model /\ q.state = r.state /\ q.exiting = r.exiting - 1
              /\ r.exiting \in Nat
          BY <4>1 DEF Worker
        <4>3. Held(q) <= Held(r)
          BY <4>2 DEF Held
        <4> QED BY <4>1, <4>2, <4>3
      <3>3. CASE Crash(w)
        <4> DEFINE q == [r EXCEPT !.state = "stopped"]
        <4>1. worker' = [worker EXCEPT ![w] = q] /\ r \in Worker
          BY <1>1, <3>3 DEF Crash
        <4>2. q.model = r.model /\ q.state = "stopped" /\ q.exiting = r.exiting
              /\ r.exiting \in Nat
          BY <4>1 DEF Worker
        <4>3. Held(q) <= Held(r)
          BY <4>2 DEF Held
        <4> QED BY <4>1, <4>2, <4>3
      <3> QED BY <1>3, <3>1, <3>2, <3>3
    <2>3. PICK q : /\ worker' = [worker EXCEPT ![w] = q]
                   /\ q.model = r.model /\ Held(q) <= Held(r)
                   /\ q.state = "loading" => r.state = "loading"
      BY <2>2
    <2>4. worker'[w] = q /\ \A v \in Workers \ {w} : worker'[v] = worker[v]
      BY <2>3 DEF WorkersType
    <2>5. Ages(w)
      BY <2>1, <2>3, <2>4 DEF Ages
    <2> QED BY <2>4, <2>5
  <1>4. ASSUME Rotate PROVE Move
    <2> SUFFICES ASSUME NEW w \in Workers, worker'[w] # worker[w] PROVE Ages(w)
      OBVIOUS
    <2> DEFINE ws == {registry[m] : m \in Models} \ {NoWorker}
    <2>1. /\ w \in ws => worker'[w] = [Closed(worker[w]) EXCEPT !.retired = TRUE, !.old = TRUE]
          /\ w \notin ws => worker'[w] = [worker[w] EXCEPT !.old = Exists(w)]
      BY <1>4 DEF Rotate
    <2>2. worker[w].model # NoModel
      <3>1. CASE w \in ws
        BY <3>1 DEF Named
      <3>2. CASE w \notin ws /\ worker[w].model = NoModel
        <4>1. worker[w] = NewWorker(NoModel) /\ Exists(w) = FALSE
          BY <3>2 DEF Blank, Exists
        <4>2. worker'[w] = worker[w]
          <5>1. \A r \in Worker : r.old = FALSE => [r EXCEPT !.old = FALSE] = r
            BY DEF Worker
          <5>2. worker[w].old = FALSE
            BY <4>1 DEF NewWorker
          <5> QED BY <1>1, <2>1, <3>2, <4>1, <5>1, <5>2
        <4> QED BY <4>2
      <3> QED BY <3>1, <3>2
    <2>3. /\ worker'[w].model = worker[w].model
          /\ worker'[w].state \in {"stopped", worker[w].state}
          /\ Held(worker'[w]) = Held(worker[w]) /\ Held(worker[w]) \in Nat
      <3>1. CASE w \in ws
        <4>1. LET q == [Closed(worker[w]) EXCEPT !.retired = TRUE, !.old = TRUE]
              IN  Alike(q, worker[w]) /\ q.state = "stopped" /\ Held(worker[w]) \in Nat
          BY <1>1, ClosedHeld
        <4> QED BY <2>1, <3>1, <4>1 DEF Alike
      <3>2. CASE w \notin ws
        <4>1. Exists(w) \in BOOLEAN
          BY DEF Exists
        <4>2. LET q == [worker[w] EXCEPT !.old = Exists(w)]
              IN  Alike(q, worker[w]) /\ q.state = worker[w].state /\ Held(worker[w]) \in Nat
          BY <1>1, <4>1, ClosedHeld
        <4> QED BY <2>1, <3>2, <4>2 DEF Alike
      <3> QED BY <3>1, <3>2
    <2> QED BY <2>2, <2>3 DEF Ages
  <1>5. (UNCHANGED worker) => Move
    OBVIOUS
  <1>6. \A c \in Calls : LastUser(c) => DeleteEntry(ModelOf[c]) /\ ModelOf[c] \in Models
    BY CallsSplit DEF LastUser
  <1> HIDE DEF Move
  <1>7. Move \/ (\E c \in Calls : Creates(c)) \/ (\E w \in Workers : Launches(w))
    BY <1>2, <1>3, <1>4, <1>5, <1>6, WorkersCases
  <1> QED BY <1>7 DEF Move

-----------------------------------------------------------------------------
(* What a step does to the calls. *)
Ends(c) ==
    LoadReturns(c) \/ LoadRefused(c) \/ ChatUnprepared(c) \/ ChatEnds(c) \/ ChatRefused(c)

GoesOn(c) ==
    /\ call[c].at \notin {"idle", "over"} /\ call'[c].at \notin {"idle", "over"}
    /\ call'[c].worker = call[c].worker
    /\ call'[c].nth = call[c].nth \/ (c \in Chats /\ call[c].nth = 2 /\ call'[c].nth = 3)
    /\ call'[c].at \in {"serving", "direct"} => call[c].nth >= 2
    /\ call'[c].at = "serving" => \/ call[c].at = "serving"
                                  \/ /\ worker[call[c].worker].state = "resident"
                                     /\ UNCHANGED worker

LEMMA EndsEffect ==
    ASSUME NEW c \in Calls, Ends(c)
    PROVE  call' = [call EXCEPT ![c] = Over] /\ call[c].at \in {"loaded", "refused", "serving"}
  BY DEF Ends, LoadReturns, LoadRefused, ChatUnprepared, ChatEnds, ChatRefused

LEMMA CreatesEffect ==
    ASSUME TypeOK, Allocated, Blank, Named, NthRight, NEW c \in Calls, Creates(c)
    PROVE  LET m == ModelOf[c]
           IN  /\ m \in Models /\ Spare /\ GetOrCreate(m)
               /\ call' = [call EXCEPT ![c] = [at |-> LoadNow(m), nth |-> call[c].nth + 1,
                                               worker |-> HandleOf(m)]]
               /\ call[c].nth \in {0, 1} /\ (call[c].nth = 1 => c \in Chats)
               /\ LoadNow(m) \in {"refused", "loaded", "gate"}
               /\ HandleOf(m) \in Workers /\ worker'[HandleOf(m)].model = m
  <1> DEFINE m == ModelOf[c]
  <1>1. m \in Models /\ GetOrCreate(m) /\ call[c] \in Call
    BY CallsSplit, TypesSplit DEF Creates, CallLoad, StartChat, ChatBegins, CallsType
  <1>2. /\ call[c].nth \in {0, 1} /\ (call[c].nth = 1 => c \in Chats)
        /\ call[c].at = "idle" \/ (c \in Chats /\ call[c].nth = 1)
        /\ call' = [call EXCEPT ![c] = [at |-> LoadNow(m), nth |-> call[c].nth + 1,
                                        worker |-> HandleOf(m)]]
    BY DEF Creates, CallLoad, StartChat, ChatBegins, NthRight
  <1>3. Spare
    BY <1>2, SpareForCall
  <1>4. HandleOf(m) \in Workers /\ worker'[HandleOf(m)].model = m
    BY <1>1, <1>3, CreateEffect
  <1> QED BY <1>1, <1>2, <1>3, <1>4, LoadOfType

LEMMA CallsMove ==
    ASSUME TypeOK, NthRight, [Next]_vars
    PROVE  \/ \A c \in Calls : call'[c] = call[c] \/ GoesOn(c)
           \/ \E c \in Calls : Ends(c)
           \/ \E c \in Calls : Creates(c)
  <1> DEFINE Move == \A c \in Calls : call'[c] = call[c] \/ GoesOn(c)
  <1>0. CallsType /\ WorkersType
    BY TypesSplit
  <1> USE <1>0
  <1>1. (UNCHANGED call) => Move
    OBVIOUS
  <1>2. ASSUME NEW c \in Calls, call[c].at \notin {"idle", "over"},
               NEW at \in {"gate", "job", "loaded", "refused", "direct", "serving"},
               call' = [call EXCEPT ![c].at = at],
               at \in {"serving", "direct"} => call[c].nth >= 2,
               at = "serving" => worker[call[c].worker].state = "resident" /\ UNCHANGED worker
        PROVE  Move
    <2>1. \A d \in Calls \ {c} : call'[d] = call[d]
      BY <1>2 DEF CallsType
    <2>2. call'[c].at = at /\ call'[c].worker = call[c].worker /\ call'[c].nth = call[c].nth
      BY <1>2 DEF CallsType, Call
    <2>3. GoesOn(c)
      BY <1>2, <2>2 DEF GoesOn
    <2> QED BY <2>1, <2>3
  <1>3. ASSUME NEW m \in Models, JobRejected(m) \/ JobCommits(m) \/ JobUndone(m)
        PROVE Move
    <2>1. PICK at \in {"loaded", "refused"} : JobEnds(m, at)
      BY <1>3 DEF JobRejected, JobCommits, JobUndone
    <2> SUFFICES ASSUME NEW c \in Calls, call'[c] # call[c] PROVE GoesOn(c)
      OBVIOUS
    <2>2. call[c].at = "job" /\ call'[c] = [call[c] EXCEPT !.at = at]
      BY <2>1 DEF JobEnds
    <2>3. call'[c].at = at /\ call'[c].worker = call[c].worker /\ call'[c].nth = call[c].nth
      BY <2>2 DEF CallsType, Call
    <2> QED BY <2>2, <2>3 DEF GoesOn
  <1>4. ASSUME NEW w \in Workers, Crash(w) PROVE Move
    <2> SUFFICES ASSUME NEW c \in Calls, call'[c] # call[c] PROVE GoesOn(c)
      OBVIOUS
    <2>2. call[c].at = "serving" /\ call'[c] = [call[c] EXCEPT !.at = "refused"]
      BY <1>4 DEF Crash
    <2>3. call'[c].at = "refused" /\ call'[c].worker = call[c].worker
          /\ call'[c].nth = call[c].nth
      BY <2>2 DEF CallsType, Call
    <2> QED BY <2>2, <2>3 DEF GoesOn
  <1>5. ASSUME NEW c \in Calls, EnterGate(c) PROVE Move
    <2>1. LoadOf(call[c].worker) \in {"refused", "loaded", "gate"}
      BY LoadOfType
    <2>2. /\ call[c].at = "gate"
          /\ \E at \in {"job", "refused", "loaded", "gate"} : call' = [call EXCEPT ![c].at = at]
      BY <1>5, <2>1 DEF EnterGate
    <2> QED BY <1>2, <2>2
  <1>6. ASSUME NEW c \in Calls, ChatSends(c) PROVE Move
    <2> DEFINE w == call[c].worker
    <2>0. c \in Chats /\ call[c].at = "loaded"
      BY <1>6 DEF ChatSends
    <2>1. LoadOf(w) \in {"refused", "loaded", "gate"}
          /\ (LoadOf(w) = "loaded" => worker[w].state = "resident")
      BY LoadOfType DEF LoadOf
    <2>2. CASE /\ call[c].nth = 2
               /\ call' = [call EXCEPT ![c] =
                   IF LoadOf(w) = "loaded" THEN [@ EXCEPT !.at = "serving"]
                   ELSE [@ EXCEPT !.at = LoadOf(w), !.nth = 3]]
               /\ UNCHANGED <<worker, sample, bypassed>>
      <3>1. CASE LoadOf(w) = "loaded"
        <4>1. call' = [call EXCEPT ![c].at = "serving"]
          BY <2>2, <3>1
        <4>2. call[c].nth >= 2 /\ worker' = worker /\ worker[w].state = "resident"
          BY <2>1, <2>2, <3>1
        <4> QED BY <1>2, <2>0, <4>1, <4>2
      <3>2. CASE LoadOf(w) # "loaded"
        <4>1. call' = [call EXCEPT ![c] = [call[c] EXCEPT !.at = LoadOf(w), !.nth = 3]]
          BY <2>2, <3>2
        <4>2. \A d \in Calls \ {c} : call'[d] = call[d]
          BY <4>1 DEF CallsType
        <4>3. call'[c].at = LoadOf(w) /\ call'[c].worker = w /\ call'[c].nth = 3
          BY <4>1 DEF CallsType, Call
        <4>4. GoesOn(c)
          BY <2>0, <2>1, <2>2, <4>3 DEF GoesOn
        <4> QED BY <4>2, <4>4
      <3> QED BY <3>1, <3>2
    <2>3. CASE /\ call[c].nth = 3 /\ worker[w].state = "resident"
               /\ call' = [call EXCEPT ![c].at = "serving"] /\ UNCHANGED <<worker, sample, bypassed>>
      <3>1. call[c].nth >= 2 /\ worker' = worker /\ worker[w].state = "resident"
        BY <2>3
      <3> QED BY <1>2, <2>0, <2>3, <3>1
    <2>4. CASE call[c].nth = 3 /\ call' = [call EXCEPT ![c].at = "direct"]
      <3>1. call[c].nth >= 2
        BY <2>4
      <3> QED BY <1>2, <2>0, <2>4, <3>1
    <2> QED BY <1>6, <2>2, <2>3, <2>4 DEF ChatSends
  <1>7. ASSUME NEW c \in Calls, ChatLoaded(c) PROVE Move
    <2>1. call[c].at = "direct" /\ call[c].nth >= 2
      BY <1>7 DEF ChatLoaded, NthRight
    <2>2. CASE worker[call[c].worker].state = "resident"
      BY <1>2, <1>7, <2>1, <2>2 DEF ChatLoaded
    <2>3. CASE worker[call[c].worker].state # "resident"
      BY <1>2, <1>7, <2>1, <2>3 DEF ChatLoaded
    <2> QED BY <2>2, <2>3
  <1> HIDE DEF Move
  <1>8. ASSUME NEW w \in Workers, WorkerLoads(w) \/ Exit(w) PROVE Move
    BY <1>1, <1>8 DEF WorkerLoads, Exit
  <1>9. ASSUME NEW m \in Models,
                \/ JobMeasures(m) \/ JobLaunches(m) \/ JobPerformed(m) \/ JobEvicts(m)
                \/ JobEvicted(m) \/ RelievePressure(m) \/ Adjust(m) \/ Expire(m) \/ Unload(m)
         PROVE Move
    BY <1>1, <1>9 DEF JobMeasures, JobLaunches, JobPerformed, JobEvicts, JobEvicted,
                       RelievePressure, Adjust, Expire, Unload
  <1>10. ASSUME \/ ClaimRotation \/ Rotate \/ RotationEnds \/ ClaimRebalance \/ Plan
                \/ AdjustLoaded \/ RebalanceEnds \/ AskRotation \/ AskRebalance
                \/ UNCHANGED vars
         PROVE Move
    BY <1>1, <1>10 DEF ClaimRotation, Rotate, RotationEnds, ClaimRebalance, Plan, AdjustLoaded,
                       RebalanceEnds, AskRotation, AskRebalance, vars
  <1>11. Move \/ (\E c \in Calls : Ends(c)) \/ (\E c \in Calls : Creates(c))
    BY <1>3, <1>4, <1>5, <1>6, <1>7, <1>8, <1>9, <1>10, NextCases DEF Ends, Creates
  <1> QED BY <1>11 DEF Move

(* Steps that create no worker leave the models of workers; all leave those of *)
(* the workers there are.                                                      *)
LEMMA NamesStay ==
    ASSUME TypeOK, Allocated, Named, NthRight, UsersCounted, Blank, [Next]_vars
    PROVE  /\ \A w \in Workers : worker[w].model # NoModel => worker'[w].model = worker[w].model
           /\ ModelsKept \/ \E c \in Calls : Creates(c)
  <1>1. ASSUME NEW c \in Calls, Creates(c)
        PROVE  \A w \in Workers : worker[w].model # NoModel => worker'[w].model = worker[w].model
    BY <1>1, CreatesEffect, CreateEffect
  <1>2. ASSUME NEW w \in Workers, Launches(w) PROVE ModelsKept
    BY <1>2, LaunchType, TypesSplit DEF Launches, ModelsKept
  <1>3. (\A w \in Workers : worker'[w] = worker[w] \/ Ages(w)) => ModelsKept
    BY DEF Ages, ModelsKept
  <1>4. ModelsKept => \A w \in Workers : worker'[w].model = worker[w].model
    BY DEF ModelsKept
  <1> QED BY <1>1, <1>2, <1>3, <1>4, WorkersMove

-----------------------------------------------------------------------------
(* The parts of the invariant about calls and workers. *)
LEMMA NthStep ==
    ASSUME TypeOK, Allocated, Blank, Named, NthRight, [Next]_vars
    PROVE  NthRight'
  <1>0. CallsType /\ Over \in Call /\ Over.at = "over" /\ Over.nth = 0
    BY TypesSplit, OverType
  <1> SUFFICES ASSUME NEW d \in Calls
               PROVE  /\ call'[d].nth = 0 <=> call'[d].at \in {"idle", "over"}
                      /\ d \in LoadCalls => call'[d].nth <= 1
                      /\ call'[d].at \in {"serving", "direct"} => call'[d].nth >= 2
    BY DEF NthRight
  <1>1. /\ call[d].nth = 0 <=> call[d].at \in {"idle", "over"}
        /\ d \in LoadCalls => call[d].nth <= 1
        /\ call[d].at \in {"serving", "direct"} => call[d].nth >= 2
        /\ call[d].nth \in 0 .. 3 /\ ~(d \in Chats /\ d \in LoadCalls)
    BY <1>0, CallsSplit DEF NthRight, CallsType, Call
  <1>2. CASE call'[d] = call[d]
    BY <1>1, <1>2
  <1>3. CASE GoesOn(d)
    BY <1>1, <1>3 DEF GoesOn
  <1>4. ASSUME NEW c \in Calls, Ends(c), c = d PROVE call'[d] = Over
    BY <1>0, <1>4, EndsEffect DEF CallsType
  <1>5. ASSUME NEW c \in Calls, Ends(c) \/ Creates(c), c # d PROVE call'[d] = call[d]
    BY <1>0, <1>5, EndsEffect, CreatesEffect DEF CallsType
  <1>6. CASE Creates(d)
    <2>1. /\ call'[d].at \in {"refused", "loaded", "gate"}
          /\ call'[d].nth = call[d].nth + 1
          /\ call[d].nth \in {0, 1} /\ (call[d].nth = 1 => d \in Chats)
      BY <1>0, <1>6, CreatesEffect DEF CallsType
    <2> QED BY <1>1, <2>1
  <1>7. CASE call'[d] = Over
    BY <1>0, <1>7
  <1> QED BY <1>2, <1>3, <1>4, <1>5, <1>6, <1>7, CallsMove

LEMMA AllocatedStep ==
    ASSUME TypeOK, Allocated, Blank, Named, NthRight, UsersCounted, [Next]_vars
    PROVE  Allocated'
  <1>0. CallsType /\ WorkersType /\ Over \in Call /\ Over.at = "over" /\ Over.nth = 0
    BY TypesSplit, OverType
  <1>1. /\ Cardinality(Created) \in Nat /\ Asks \in Nat
        /\ IsFiniteSet(Unasked) /\ IsFiniteSet(AskedOnce) /\ IsFiniteSet(Unasked \cap Chats)
        /\ Cardinality(Unasked) \in Nat /\ Cardinality(Unasked \cap Chats) \in Nat
        /\ Cardinality(AskedOnce) \in Nat
    <2>1. Created \in SUBSET Workers /\ Unasked \in SUBSET Calls
          /\ Unasked \cap Chats \in SUBSET Calls /\ AskedOnce \in SUBSET Calls
      BY CallsSplit DEF Created, Unasked, AskedOnce
    <2> QED BY <2>1, Finite
  <1>2. CASE ~\E c \in Calls : Creates(c)
    <2>1. Created' = Created
      BY <1>2, NamesStay DEF ModelsKept, Created
    <2>2. ASSUME NEW d \in Calls
          PROVE  /\ call'[d].at = "idle" => call[d].at = "idle"
                 /\ call'[d].nth = 1 => call[d].nth = 1
      <3>1. CASE call'[d] = call[d]
        BY <3>1
      <3>2. CASE GoesOn(d)
        BY <3>2 DEF GoesOn
      <3>3. ASSUME NEW c \in Calls, Ends(c)
            PROVE  call'[d] = call[d] \/ call'[d] = Over
        BY <1>0, <3>3, EndsEffect DEF CallsType
      <3>4. CASE call'[d] = Over
        BY <1>0, <3>4
      <3> QED BY <1>2, <3>1, <3>2, <3>3, <3>4, CallsMove
    <2>3. Unasked' \subseteq Unasked /\ AskedOnce' \subseteq AskedOnce
          /\ (Unasked' \cap Chats) \subseteq (Unasked \cap Chats)
      BY <2>2, CallsSplit DEF Unasked, AskedOnce
    <2>4. /\ Cardinality(Unasked') <= Cardinality(Unasked)
          /\ Cardinality(AskedOnce') <= Cardinality(AskedOnce)
          /\ Cardinality(Unasked' \cap Chats) <= Cardinality(Unasked \cap Chats)
          /\ Cardinality(Unasked') \in Nat /\ Cardinality(Unasked' \cap Chats) \in Nat
          /\ Cardinality(AskedOnce') \in Nat
      BY <1>1, <2>3, FS_Subset, FS_CardinalityType
    <2> QED BY <1>1, <2>1, <2>4 DEF Allocated
  <1>3. ASSUME NEW c \in Calls, Creates(c) PROVE Allocated'
    <2> DEFINE n == Cardinality(Created)
    <2>1. \/ Created' = Created
          \/ Created' = Created \cup {n + 1} /\ n + 1 \notin Created
      <3>1. \/ UNCHANGED worker
            \/ /\ worker[NextWorker] = NewWorker(NoModel) /\ NextWorker \in Workers
               /\ worker' = [worker EXCEPT ![NextWorker] = NewWorker(ModelOf[c])]
        BY <1>3, CreatesEffect, CreateEffect
      <3>2. NextWorker = n + 1
        BY <1>1 DEF NextWorker, Created
      <3>3. CASE UNCHANGED worker
        BY <3>3 DEF Created
      <3>4. CASE /\ worker[n + 1] = NewWorker(NoModel) /\ n + 1 \in Workers
                 /\ worker' = [worker EXCEPT ![n + 1] = NewWorker(ModelOf[c])]
        <4>1. NewWorker(NoModel).model = NoModel /\ NewWorker(ModelOf[c]).model # NoModel
          BY CallsSplit DEF NewWorker
        <4> QED BY <1>0, <3>4, <4>1 DEF Created, WorkersType
      <3> HIDE DEF n
      <3> QED BY <3>1, <3>2, <3>3, <3>4
    <2>2. /\ Created' = 1 .. Cardinality(Created')
          /\ Cardinality(Created') \in Nat /\ Cardinality(Created') <= n + 1
      <3>1. CASE Created' = Created
        BY <1>1, <3>1 DEF Allocated
      <3>2. CASE Created' = Created \cup {n + 1}
        <4>1. Created = 1 .. n
          BY DEF Allocated
        <4>2. Created' = 1 .. n + 1
          BY <1>1, <3>2, <4>1
        <4>3. Cardinality(1 .. n + 1) = n + 1
          BY <1>1, FS_Interval
        <4> QED BY <1>1, <4>2, <4>3
      <3> QED BY <2>1, <3>1, <3>2
    <2>3. \A d \in Calls \ {c} : call'[d] = call[d]
      BY <1>0, <1>3, CreatesEffect DEF CallsType
    <2>4. call'[c].at \in {"refused", "loaded", "gate"} /\ call'[c].nth = call[c].nth + 1
      BY <1>0, <1>3, CreatesEffect DEF CallsType
    <2>5. /\ Cardinality(Unasked') \in Nat /\ Cardinality(Unasked' \cap Chats) \in Nat
          /\ Cardinality(AskedOnce') \in Nat
          /\ Cardinality(Unasked') + Cardinality(Unasked' \cap Chats)
                + Cardinality(AskedOnce') + 1
             <= Cardinality(Unasked) + Cardinality(Unasked \cap Chats) + Cardinality(AskedOnce)
      <3>1. CASE CallLoad(c)
        <4>1. c \in Unasked /\ c \in LoadCalls /\ c \notin Chats
          BY <3>1, CallsSplit DEF CallLoad, Unasked
        <4>2. Unasked' = Unasked \ {c} /\ Unasked' \cap Chats = Unasked \cap Chats
              /\ AskedOnce' = AskedOnce
          BY <2>3, <2>4, <4>1, CallsSplit DEF Unasked, AskedOnce
        <4>3. Cardinality(Unasked \ {c}) = Cardinality(Unasked) - 1
          BY <1>1, <4>1, FS_RemoveElement
        <4>4. Cardinality(Unasked \ {c}) \in Nat
          BY <1>1, FS_Subset, FS_CardinalityType
        <4> QED BY <1>1, <4>2, <4>3, <4>4
      <3>2. CASE StartChat(c)
        <4>1. c \in Unasked /\ c \in Chats /\ call[c].nth = 0 /\ call'[c].nth = 1
          BY <2>4, <3>2 DEF StartChat, Unasked, NthRight
        <4>2. Unasked' = Unasked \ {c} /\ Unasked' \cap Chats = (Unasked \cap Chats) \ {c}
              /\ AskedOnce' = AskedOnce \cup {c} /\ c \notin AskedOnce
          BY <2>3, <2>4, <4>1, CallsSplit DEF Unasked, AskedOnce
        <4>3. /\ Cardinality(Unasked \ {c}) = Cardinality(Unasked) - 1
              /\ Cardinality((Unasked \cap Chats) \ {c}) = Cardinality(Unasked \cap Chats) - 1
              /\ Cardinality(AskedOnce \cup {c}) = Cardinality(AskedOnce) + 1
          BY <1>1, <4>1, <4>2, FS_RemoveElement, FS_AddElement
        <4>4. /\ Cardinality(Unasked \ {c}) \in Nat
              /\ Cardinality((Unasked \cap Chats) \ {c}) \in Nat
          BY <1>1, FS_Subset, FS_CardinalityType
        <4>5. \A x, y, z \in Nat : z + 1 \in Nat /\ (x - 1) + (y - 1) + (z + 1) + 1 <= x + y + z
          OBVIOUS
        <4>6. Cardinality(AskedOnce \cup {c}) \in Nat
          BY <1>1, <4>3
        <4>7. Cardinality(Unasked \ {c}) + Cardinality((Unasked \cap Chats) \ {c})
                + Cardinality(AskedOnce \cup {c}) + 1
              <= Cardinality(Unasked) + Cardinality(Unasked \cap Chats) + Cardinality(AskedOnce)
          BY <1>1, <4>3, <4>5
        <4> QED BY <4>2, <4>4, <4>6, <4>7
      <3>3. CASE ChatBegins(c)
        <4>1. c \in AskedOnce /\ c \notin Unasked /\ call'[c].nth = 2
          BY <2>4, <3>3 DEF ChatBegins, Unasked, AskedOnce
        <4>2. Unasked' = Unasked /\ Unasked' \cap Chats = Unasked \cap Chats
              /\ AskedOnce' = AskedOnce \ {c}
          BY <2>3, <2>4, <4>1, CallsSplit DEF Unasked, AskedOnce
        <4>3. Cardinality(AskedOnce \ {c}) = Cardinality(AskedOnce) - 1
          BY <1>1, <4>1, FS_RemoveElement
        <4>4. Cardinality(AskedOnce \ {c}) \in Nat
          BY <1>1, FS_Subset, FS_CardinalityType
        <4> QED BY <1>1, <4>2, <4>3, <4>4
      <3> QED BY <1>3, <3>1, <3>2, <3>3 DEF Creates
    <2>6. n + Cardinality(Unasked) + Cardinality(Unasked \cap Chats) + Cardinality(AskedOnce)
            <= Asks
      BY DEF Allocated
    <2>7. Cardinality(Created') + Cardinality(Unasked') + Cardinality(Unasked' \cap Chats)
            + Cardinality(AskedOnce') <= Asks
      <3>1. \A x, y, a, b, d, p, q, r, z \in Nat :
               y <= x + 1 /\ p + q + r + 1 <= a + b + d /\ x + a + b + d <= z
                 => y + p + q + r <= z
        OBVIOUS
      <3> QED BY <1>1, <2>2, <2>5, <2>6, <3>1
    <2>8. Asks' = Asks
      BY DEF Asks
    <2> QED BY <2>2, <2>7, <2>8 DEF Allocated
  <1> QED BY <1>2, <1>3

LEMMA RotationCases ==
    ASSUME [Next]_vars
    PROVE  \/ rotation' = rotation \/ AskRotation
           \/ rotation \in {"asked", "claimed", "draining"}
  <1>1. ASSUME NEW m \in Models,
               \/ JobMeasures(m) \/ JobLaunches(m) \/ JobPerformed(m) \/ JobEvicts(m)
               \/ JobEvicted(m) \/ JobRejected(m) \/ JobCommits(m) \/ JobUndone(m)
               \/ RelievePressure(m) \/ Adjust(m) \/ Expire(m) \/ Unload(m)
        PROVE rotation' = rotation
    BY <1>1 DEF JobMeasures, JobLaunches, JobPerformed, JobEvicts, JobEvicted, JobRejected,
                JobCommits, JobUndone, JobEnds, RelievePressure, Adjust, Expire, Unload, gate
  <1>2. ASSUME NEW c \in Calls,
               \/ EnterGate(c) \/ LoadReturns(c) \/ LoadRefused(c) \/ ChatUnprepared(c)
               \/ ChatBegins(c) \/ ChatSends(c) \/ ChatLoaded(c) \/ ChatEnds(c)
               \/ ChatRefused(c) \/ CallLoad(c) \/ StartChat(c)
        PROVE rotation' = rotation
    BY <1>2 DEF EnterGate, LoadReturns, LoadRefused, ChatUnprepared, ChatBegins,
                ChatSends, ChatLoaded, ChatEnds, ChatRefused, CallLoad, StartChat, gate
  <1>3. ASSUME NEW w \in Workers, WorkerLoads(w) \/ Exit(w) \/ Crash(w)
        PROVE rotation' = rotation
    BY <1>3 DEF WorkerLoads, Exit, Crash, gate
  <1>4. ASSUME \/ ClaimRebalance \/ Plan \/ AdjustLoaded \/ RebalanceEnds \/ AskRebalance
               \/ UNCHANGED vars
        PROVE rotation' = rotation
    BY <1>4 DEF ClaimRebalance, Plan, AdjustLoaded, RebalanceEnds, AskRebalance, vars
  <1>5. ASSUME ClaimRotation \/ Rotate \/ RotationEnds
        PROVE rotation \in {"asked", "claimed", "draining"}
    BY <1>5 DEF ClaimRotation, Rotate, RotationEnds
  <1> QED BY <1>1, <1>2, <1>3, <1>4, <1>5, NextCases

LEMMA RotationStep ==
    ASSUME TypeOK, NthRight, RotationWaits, [Next]_vars
    PROVE  RotationWaits'
  <1>0. CallsType /\ Over \in Call /\ Over.at = "over" /\ Over.nth = 0
    BY TypesSplit, OverType
  <1> SUFFICES ASSUME rotation' \in {"asked", "claimed", "draining"}, NEW d \in Chats
               PROVE  call'[d].at \in {"idle", "over"}
    BY DEF RotationWaits
  <1>1. CASE AskRotation
    BY <1>1 DEF AskRotation
  <1>2. CASE rotation \in {"asked", "claimed", "draining"}
    <2>1. call[d].at \in {"idle", "over"}
      BY <1>2 DEF RotationWaits
    <2>2. ASSUME NEW c \in Calls, Creates(c) PROVE call'[d] = call[d]
      <3>1. c # d
        BY <1>2, <2>1, <2>2, CallsSplit DEF Creates, CallLoad, StartChat, ChatBegins
      <3> QED BY <1>0, <2>2, <3>1, CallsSplit
          DEF Creates, CallLoad, StartChat, ChatBegins, CallsType
    <2>3. ASSUME NEW c \in Calls, Ends(c) PROVE call'[d] = call[d] \/ call'[d].at = "over"
      BY <1>0, <2>3, EndsEffect, CallsSplit DEF CallsType
    <2>4. ~GoesOn(d)
      BY <2>1 DEF GoesOn
    <2> QED BY <2>1, <2>2, <2>3, <2>4, CallsMove, CallsSplit
  <1> QED BY <1>1, <1>2, RotationCases

LEMMA BlankStep ==
    ASSUME TypeOK, Allocated, Named, NthRight, UsersCounted, Blank, [Next]_vars
    PROVE  Blank'
  <1> SUFFICES ASSUME NEW w \in Workers, worker'[w].model = NoModel
               PROVE  worker'[w] = NewWorker(NoModel)
    BY DEF Blank
  <1>1. (worker'[w] = worker[w]) => worker'[w] = NewWorker(NoModel)
    BY DEF Blank
  <1>2. ~Ages(w)
    BY DEF Ages
  <1>3. ASSUME NEW c \in Calls, Creates(c) PROVE worker'[w] = worker[w]
    <2>1. worker'[w] = worker[w] \/ worker'[w] = NewWorker(ModelOf[c])
      BY <1>3, CreatesEffect, CreateEffect
    <2>2. NewWorker(ModelOf[c]).model # NoModel
      BY CallsSplit DEF NewWorker
    <2> QED BY <2>1, <2>2
  <1>4. ASSUME NEW v \in Workers, Launches(v) PROVE worker'[w] = worker[w]
    BY <1>4, LaunchType, TypesSplit DEF Launches
  <1> QED BY <1>1, <1>2, <1>3, <1>4, WorkersMove

LEMMA RegistryMoves ==
    ASSUME TypeOK, Named, NthRight, UsersCounted, [Next]_vars
    PROVE  RegistryLeft \/ \E c \in Calls : Creates(c)
  <1>1. (UNCHANGED registry) => RegistryLeft
    BY DEF RegistryLeft
  <1>2. \A m \in Models : DeleteEntry(m) => RegistryLeft
    BY DeleteEffect
  <1>3. \A c \in Calls : LastUser(c) => DeleteEntry(ModelOf[c]) /\ ModelOf[c] \in Models
    BY CallsSplit DEF LastUser
  <1>4. \A w \in Workers : WorkerLoads(w) \/ Exit(w) \/ Crash(w) \/ Launches(w)
                             => UNCHANGED registry
    BY DEF WorkerLoads, Exit, Crash, Launches
  <1>5. Rotate => RegistryLeft
    BY DEF Rotate, RegistryLeft
  <1> QED BY <1>1, <1>2, <1>3, <1>4, <1>5, WorkersCases

(* What a step does to a load in flight. *)
Works(m) ==
    JobMeasures(m) \/ JobLaunches(m) \/ JobPerformed(m) \/ JobEvicts(m) \/ JobEvicted(m)
JobMoves(m) ==
    \/ job'[m] = job[m]
    \/ job'[m].stage = "none" /\ job[m].stage # "performing"
    \/ /\ job'[m].stage = "queued" /\ job[m].stage = "none"
       /\ \E c \in Calls : /\ ModelOf[c] = m /\ call[c].at = "gate"
                           /\ job'[m].worker = call[c].worker
    \/ /\ Works(m) /\ job[m].stage # "none" /\ job'[m].worker = job[m].worker
       /\ mutex # << >> /\ Head(mutex) = m /\ mutex' = mutex
MutexMoves ==
    \/ mutex' = mutex \/ \E v \in Models : mutex' = Append(mutex, v)
    \/ mutex # << >> /\ Head(mutex) \in Models /\ job'[Head(mutex)].stage = "none"

LEMMA JobsMove ==
    ASSUME TypeOK, [Next]_vars
    PROVE  MutexMoves /\ \A m \in Models : JobMoves(m)
  <1> DEFINE Goal == MutexMoves /\ \A m \in Models : JobMoves(m)
  <1>0. JobsType /\ CallsType
    BY TypesSplit
  <1> USE <1>0
  <1>1. (UNCHANGED <<job, mutex>>) => Goal
    BY DEF JobMoves, MutexMoves
  <1>2. ASSUME NEW m \in Models, Works(m) PROVE Goal
    <2>1. job[m].stage # "none" /\ mutex # << >> /\ Head(mutex) = m /\ mutex' = mutex
      BY <1>2 DEF Works, JobMeasures, JobLaunches, JobPerformed, JobEvicts, JobEvicted, Owns
    <2>2. \E s, f, v :
             \/ job' = [job EXCEPT ![m].stage = s]
             \/ job' = [job EXCEPT ![m].stage = s, ![m].fits = f]
             \/ job' = [job EXCEPT ![m].stage = s, ![m].victim = v]
      BY <1>2 DEF Works, JobMeasures, JobLaunches, JobPerformed, JobEvicts, JobEvicted
    <2>3. job'[m].worker = job[m].worker /\ \A v \in Models \ {m} : job'[v] = job[v]
      BY <2>2 DEF JobsType, Job
    <2> QED BY <1>2, <2>1, <2>3 DEF JobMoves, MutexMoves
  <1>3. ASSUME NEW m \in Models, NEW at, JobEnds(m, at), mutex # << >>, Head(mutex) = m,
               job[m].stage # "performing"
        PROVE  Goal
    <2>1. job'[m].stage = "none" /\ \A v \in Models \ {m} : job'[v] = job[v]
      BY <1>3 DEF JobEnds, JobsType, NoJob
    <2> QED BY <1>3, <2>1 DEF JobMoves, MutexMoves
  <1>4. ASSUME NEW m \in Models, JobRejected(m) \/ JobCommits(m) \/ JobUndone(m) PROVE Goal
    BY <1>3, <1>4 DEF JobRejected, JobCommits, JobUndone, Owns
  <1>5. ASSUME NEW c \in Calls, EnterGate(c) PROVE Goal
    <2> DEFINE m == ModelOf[c]
               j == [NoJob EXCEPT !.stage = "queued", !.worker = call[c].worker]
    <2>1. CASE UNCHANGED <<job, mutex>>
      BY <1>1, <2>1
    <2>2. CASE job[m].stage = "none" /\ job' = [job EXCEPT ![m] = j] /\ mutex' = Append(mutex, m)
      <3>1. m \in Models /\ j.stage = "queued" /\ j.worker = call[c].worker
        BY CallsSplit DEF NoJob
      <3>2. job'[m] = j /\ \A v \in Models \ {m} : job'[v] = job[v]
        BY <2>2, <3>1 DEF JobsType
      <3>3. call[c].at = "gate"
        BY <1>5 DEF EnterGate
      <3> HIDE DEF j
      <3> QED BY <2>2, <3>1, <3>2, <3>3 DEF JobMoves, MutexMoves
    <2> QED BY <1>5, <2>1, <2>2 DEF EnterGate
  <1> HIDE DEF Goal
  <1>6. ASSUME NEW c \in Calls,
                \/ LoadReturns(c) \/ LoadRefused(c) \/ ChatUnprepared(c) \/ ChatBegins(c)
                \/ ChatSends(c) \/ ChatLoaded(c) \/ ChatEnds(c) \/ ChatRefused(c)
                \/ CallLoad(c) \/ StartChat(c)
         PROVE Goal
    BY <1>1, <1>6 DEF LoadReturns, LoadRefused, ChatUnprepared, ChatBegins, ChatSends,
                       ChatLoaded, ChatEnds, ChatRefused, CallLoad, StartChat
  <1>7. ASSUME NEW w \in Workers, WorkerLoads(w) \/ Exit(w) \/ Crash(w) PROVE Goal
    BY <1>1, <1>7 DEF WorkerLoads, Exit, Crash
  <1>8. ASSUME \/ ClaimRotation \/ Rotate \/ RotationEnds \/ ClaimRebalance \/ Plan
                \/ AdjustLoaded \/ RebalanceEnds \/ AskRotation \/ AskRebalance
                \/ UNCHANGED vars
         PROVE Goal
    BY <1>1, <1>8 DEF ClaimRotation, Rotate, RotationEnds, ClaimRebalance, Plan, AdjustLoaded,
                       RebalanceEnds, AskRotation, AskRebalance, vars
  <1>9. ASSUME NEW m \in Models, RelievePressure(m) \/ Adjust(m) \/ Expire(m) \/ Unload(m)
         PROVE Goal
    BY <1>1, <1>9 DEF RelievePressure, Adjust, Expire, Unload
  <1>10. Goal
    BY <1>2, <1>4, <1>5, <1>6, <1>7, <1>8, <1>9, NextCases DEF Works
  <1> QED BY <1>10 DEF Goal

LEMMA NamedStep ==
    ASSUME TypeOK, Allocated, Named, NthRight, UsersCounted, Blank, [Next]_vars
    PROVE  Named'
  <1>0. /\ JobsType /\ CallsType /\ WorkersType
        /\ Over \in Call /\ Over.at = "over" /\ \A m \in Models : m # NoModel
    BY TypesSplit, OverType
  <1>1. \A w \in Workers, m \in Models : worker[w].model = m => worker'[w].model = m
    BY <1>0, NamesStay
  <1>2. ASSUME NEW m \in Models, registry'[m] # NoWorker PROVE worker'[registry'[m]].model = m
    <2>1. CASE RegistryLeft
      <3>1. registry'[m] = registry[m] /\ registry[m] \in Workers /\ worker[registry[m]].model = m
        BY <1>0, <1>2, <2>1 DEF RegistryLeft, WorkersType, Named
      <3> QED BY <1>1, <3>1
    <2>2. ASSUME NEW c \in Calls, Creates(c) PROVE worker'[registry'[m]].model = m
      <3>1. /\ HandleOf(ModelOf[c]) \in Workers
            /\ worker'[HandleOf(ModelOf[c])].model = ModelOf[c]
            /\ registry'[ModelOf[c]] = HandleOf(ModelOf[c])
            /\ m # ModelOf[c] => registry'[m] = registry[m]
        BY <2>2, CreatesEffect, CreateEffect
      <3>2. registry[m] # NoWorker => registry[m] \in Workers /\ worker[registry[m]].model = m
        BY <1>0 DEF WorkersType, Named
      <3> QED BY <1>1, <1>2, <3>1, <3>2
    <2> QED BY <2>1, <2>2, RegistryMoves
  <1>3. ASSUME NEW d \in Calls, call'[d].at \notin {"idle", "over"}
        PROVE  call'[d].worker \in Workers /\ worker'[call'[d].worker].model = ModelOf[d]
    <2>1. call[d].at \notin {"idle", "over"} =>
             call[d].worker \in Workers /\ worker'[call[d].worker].model = ModelOf[d]
      BY <1>1, CallsSplit DEF Named
    <2>2. CASE call'[d] = call[d]
      BY <1>3, <2>1, <2>2
    <2>3. CASE GoesOn(d)
      BY <2>1, <2>3 DEF GoesOn
    <2>4. ASSUME NEW c \in Calls, Ends(c) PROVE call'[d] = call[d]
      <3>1. c # d
        BY <1>0, <1>3, <2>4, EndsEffect DEF CallsType
      <3> QED BY <1>0, <2>4, <3>1, EndsEffect DEF CallsType
    <2>5. ASSUME NEW c \in Calls, Creates(c), c # d PROVE call'[d] = call[d]
      BY <1>0, <2>5, CreatesEffect DEF CallsType
    <2>6. CASE Creates(d)
      <3>1. call'[d].worker = HandleOf(ModelOf[d])
        BY <1>0, <2>6, CreatesEffect DEF CallsType
      <3> QED BY <2>6, <3>1, CreatesEffect
    <2> QED BY <2>2, <2>3, <2>4, <2>5, <2>6, CallsMove
  <1>4. ASSUME NEW m \in Models, job'[m].stage # "none"
        PROVE  job'[m].worker \in Workers /\ worker'[job'[m].worker].model = m
    <2>1. job[m].stage # "none" => job[m].worker \in Workers /\ worker'[job[m].worker].model = m
      BY <1>1 DEF Named
    <2>2. \A c \in Calls : ModelOf[c] = m /\ call[c].at = "gate" =>
             call[c].worker \in Workers /\ worker'[call[c].worker].model = m
      BY <1>1 DEF Named
    <2>3. \/ job[m].stage # "none" /\ job'[m].worker = job[m].worker
          \/ \E c \in Calls : /\ ModelOf[c] = m /\ call[c].at = "gate"
                              /\ job'[m].worker = call[c].worker
      <3>1. JobMoves(m)
        BY JobsMove
      <3> QED BY <1>4, <3>1 DEF JobMoves
    <2> QED BY <2>1, <2>2, <2>3
  <1> QED BY <1>2, <1>3, <1>4 DEF Named

(* Who uses an entry is what it counts. *)
LEMMA ActiveKept ==
    ASSUME TypeOK, NthRight, [Next]_vars
    PROVE  \/ \A m \in Models : entry'[m].active = entry[m].active
           \/ \E c \in Calls : ChatEnds(c) \/ ChatBegins(c)
  <1> DEFINE Same == \A m \in Models : entry'[m].active = entry[m].active
  <1>0. WorkersType
    BY TypesSplit
  <1>1. (UNCHANGED entry) => Same
    OBVIOUS
  <1>2. ASSUME NEW m \in Models, DeleteEntry(m), entry[m].active = 0 PROVE Same
    <2>1. NoEntry.active = 0
      BY DEF NoEntry
    <2> QED BY <1>2, <2>1, DeleteEffect
  <1>3. ASSUME NEW m \in Models, UnloadEntry(m) PROVE Same
    <2>1. CASE entry[m].active = 0 /\ DeleteEntry(m)
      BY <1>2, <2>1
    <2> QED BY <1>3, <2>1, UnloadEffect
  <1>4. ASSUME NEW c \in Calls, CallLoad(c) PROVE Same
    <2> DEFINE m == ModelOf[c]
    <2>1. m \in Models /\ entry[m] \in Entry /\ \E b \in BOOLEAN :
             entry' = [entry EXCEPT ![m] = [Kept(m) EXCEPT !.pinned = b]]
      BY <1>0, <1>4, CallsSplit DEF CallLoad, WorkersType
    <2>2. \A b \in BOOLEAN : [Kept(m) EXCEPT !.pinned = b].active = entry[m].active
      BY <2>1 DEF Kept, Entry
    <2> QED BY <1>0, <2>1, <2>2 DEF WorkersType
  <1> HIDE DEF Same
  <1>5. ASSUME NEW m \in Models, \/ JobMeasures(m) \/ JobPerformed(m) \/ JobEvicted(m)
                                 \/ JobRejected(m) \/ JobCommits(m) \/ JobUndone(m)
                                 \/ JobLaunches(m) \/ Adjust(m)
        PROVE Same
    BY <1>1, <1>5 DEF JobMeasures, JobPerformed, JobEvicted, JobRejected, JobCommits,
                      JobUndone, JobEnds, JobLaunches, Adjust
  <1>6. ASSUME NEW m \in Models, JobEvicts(m) \/ RelievePressure(m) \/ Expire(m) PROVE Same
    BY <1>2, <1>6 DEF JobEvicts, RelievePressure, Expire, Victims, Idle
  <1>7. ASSUME NEW m \in Models, Unload(m) PROVE Same
    BY <1>3, <1>7 DEF Unload
  <1>8. ASSUME NEW c \in Calls, LoadRefused(c) PROVE Same
    BY <1>1, <1>3, <1>8, CallsSplit DEF LoadRefused
  <1>9. ASSUME NEW c \in Calls,
               \/ EnterGate(c) \/ LoadReturns(c) \/ ChatUnprepared(c) \/ ChatSends(c)
               \/ ChatLoaded(c) \/ ChatRefused(c) \/ StartChat(c)
        PROVE Same
    BY <1>1, <1>9 DEF EnterGate, LoadReturns, ChatUnprepared, ChatSends, ChatLoaded,
                      ChatRefused, StartChat
  <1>10. ASSUME NEW w \in Workers, WorkerLoads(w) \/ Exit(w) \/ Crash(w) PROVE Same
    BY <1>1, <1>10 DEF WorkerLoads, Exit, Crash
  <1>11. ASSUME \/ ClaimRotation \/ Rotate \/ RotationEnds \/ ClaimRebalance \/ Plan
                \/ AdjustLoaded \/ RebalanceEnds \/ AskRotation \/ AskRebalance
                \/ UNCHANGED vars
         PROVE Same
    BY <1>1, <1>11 DEF ClaimRotation, Rotate, RotationEnds, ClaimRebalance, Plan, AdjustLoaded,
                       RebalanceEnds, AskRotation, AskRebalance, vars
  <1>12. Same \/ \E c \in Calls : ChatEnds(c) \/ ChatBegins(c)
    BY <1>4, <1>5, <1>6, <1>7, <1>8, <1>9, <1>10, <1>11, NextCases
  <1> QED BY <1>12 DEF Same

LEMMA UsersStep ==
    ASSUME TypeOK, Allocated, Named, NthRight, UsersCounted, Blank, [Next]_vars
    PROVE  UsersCounted'
  <1>0. /\ CallsType /\ WorkersType /\ Over \in Call /\ Over.at = "over" /\ Over.nth = 0
        /\ \A d \in Calls : call[d].nth \in 0 .. 3
    BY TypesSplit, OverType DEF CallsType, Call
  <1> SUFFICES ASSUME NEW m \in Models PROVE entry'[m].active = Cardinality(Users(m)')
    BY DEF UsersCounted
  <1>1. entry[m].active = Cardinality(Users(m)) /\ IsFiniteSet(Users(m))
        /\ Cardinality(Users(m)) \in Nat
    <2>1. Users(m) \in SUBSET Calls
      BY CallsSplit DEF Users
    <2> QED BY <2>1, Finite DEF UsersCounted
  <1>2. ASSUME NEW c \in Calls, ChatEnds(c) PROVE entry'[m].active = Cardinality(Users(m)')
    <2>1. c \in Chats /\ call[c].nth >= 2 /\ FinishUsage(ModelOf[c])
          /\ call' = [call EXCEPT ![c] = Over]
      BY <1>0, <1>2 DEF ChatEnds, NthRight
    <2>2. call'[c].nth = 0 /\ \A d \in Calls \ {c} : call'[d] = call[d]
      BY <1>0, <2>1 DEF CallsType
    <2>3. Users(m)' = Users(m) \ {c}
      BY <2>2, CallsSplit DEF Users
    <2>4. ModelOf[c] \in Models /\ entry[ModelOf[c]].active > 0
      BY <2>1, InUse
    <2>5. entry'[m].active = IF m = ModelOf[c] THEN entry[m].active - 1 ELSE entry[m].active
      <3>1. NoEntry.active = 0
        BY DEF NoEntry
      <3>2. CASE entry[ModelOf[c]].active = 1 /\ DeleteEntry(ModelOf[c])
        BY <2>4, <3>1, <3>2, DeleteEffect
      <3> QED BY <2>1, <2>4, <3>2, UsageEffect
    <2>6. CASE m = ModelOf[c]
      <3>1. c \in Users(m)
        BY <2>1, <2>6 DEF Users
      <3>2. Cardinality(Users(m) \ {c}) = Cardinality(Users(m)) - 1
        BY <1>1, <3>1, FS_RemoveElement
      <3> QED BY <1>1, <2>3, <2>5, <2>6, <3>2
    <2>7. CASE m # ModelOf[c]
      <3>1. Users(m) \ {c} = Users(m)
        BY <2>7 DEF Users
      <3> QED BY <1>1, <2>3, <2>5, <2>7, <3>1
    <2> QED BY <2>6, <2>7
  <1>3. ASSUME NEW c \in Calls, ChatBegins(c) PROVE entry'[m].active = Cardinality(Users(m)')
    <2>1. c \in Chats /\ call[c].nth = 1 /\ ModelOf[c] \in Models
          /\ entry' = [entry EXCEPT ![ModelOf[c]] = [Kept(ModelOf[c]) EXCEPT !.active = @ + 1]]
      BY <1>3, CallsSplit DEF ChatBegins
    <2>2. call'[c].nth = 2 /\ \A d \in Calls \ {c} : call'[d] = call[d]
      BY <1>0, <1>3 DEF ChatBegins, CallsType
    <2>3. entry'[m].active = IF m = ModelOf[c] THEN entry[m].active + 1 ELSE entry[m].active
      <3>1. \A e \in Entry : [[e EXCEPT !.present = TRUE, !.unloading = FALSE]
                                EXCEPT !.active = @ + 1].active = e.active + 1
        BY DEF Entry
      <3>2. [Kept(ModelOf[c]) EXCEPT !.active = @ + 1].active = entry[ModelOf[c]].active + 1
        BY <1>0, <2>1, <3>1 DEF Kept, WorkersType
      <3> QED BY <1>0, <2>1, <3>2 DEF WorkersType
    <2>4. CASE m = ModelOf[c]
      <3>1. Users(m)' = Users(m) \cup {c} /\ c \notin Users(m)
        BY <2>1, <2>2, <2>4, CallsSplit DEF Users
      <3>2. Cardinality(Users(m) \cup {c}) = Cardinality(Users(m)) + 1
        BY <1>1, <3>1, FS_AddElement
      <3> QED BY <1>1, <2>3, <2>4, <3>1, <3>2
    <2>5. CASE m # ModelOf[c]
      <3>1. Users(m)' = Users(m)
        BY <2>2, <2>5, CallsSplit DEF Users
      <3> QED BY <1>1, <2>3, <2>5, <3>1
    <2> QED BY <2>4, <2>5
  <1>4. CASE ~\E c \in Calls : ChatEnds(c) \/ ChatBegins(c)
    <2>1. entry'[m].active = entry[m].active
      BY <1>4, ActiveKept
    <2>2. ASSUME NEW d \in Chats PROVE call'[d].nth >= 2 <=> call[d].nth >= 2
      <3>0. d \in Calls /\ call[d].nth \in 0 .. 3 /\ d \notin LoadCalls
        BY <1>0, CallsSplit
      <3>1. CASE call'[d] = call[d]
        BY <3>1
      <3>2. CASE GoesOn(d)
        BY <3>0, <3>2 DEF GoesOn
      <3>3. ASSUME NEW c \in Calls, Ends(c) PROVE call'[d].nth >= 2 <=> call[d].nth >= 2
        <4>1. CASE c = d
          <5>1. call[d].nth = 1 /\ call'[d] = Over
            BY <1>0, <1>4, <3>0, <3>3, <4>1, EndsEffect
            DEF Ends, LoadReturns, LoadRefused, ChatUnprepared, ChatRefused, CallsType
          <5> QED BY <1>0, <5>1
        <4>2. CASE c # d
          BY <1>0, <3>0, <3>3, <4>2, EndsEffect DEF CallsType
        <4> QED BY <4>1, <4>2
      <3>4. ASSUME NEW c \in Calls, Creates(c) PROVE call'[d].nth >= 2 <=> call[d].nth >= 2
        <4>1. CASE c = d
          <5>1. StartChat(d)
            BY <1>4, <3>0, <3>4, <4>1 DEF Creates, CallLoad
          <5>2. call[d].nth = 0 /\ call'[d].nth = 1
            BY <1>0, <3>0, <5>1 DEF StartChat, NthRight, CallsType
          <5> QED BY <5>2
        <4>2. CASE c # d
          BY <1>0, <3>0, <3>4, <4>2, CreatesEffect DEF CallsType
        <4> QED BY <4>1, <4>2
      <3> QED BY <3>0, <3>1, <3>2, <3>3, <3>4, CallsMove
    <2>3. Users(m)' = Users(m)
      BY <2>2 DEF Users
    <2> QED BY <1>1, <2>1, <2>3
  <1> QED BY <1>2, <1>3, <1>4

(* A chat in service keeps its worker. *)
LEMMA Served ==
    ASSUME TypeOK, Allocated, Named, NthRight, UsersCounted, ServingResident, RotationWaits,
           Blank, [Next]_vars,
           NEW d \in Calls, call[d].at = "serving", call'[d].at = "serving"
    PROVE  LET w == call[d].worker
           IN  w \in Workers /\ worker'[w].state = "resident"
               /\ worker'[w].exiting <= worker[w].exiting
  <1> DEFINE w == call[d].worker
             Goal == worker'[w].state = "resident" /\ worker'[w].exiting <= worker[w].exiting
  <1>0. /\ CallsType /\ WorkersType /\ Over \in Call /\ Over.at = "over"
        /\ \A m \in Models : m # NoModel
    BY TypesSplit, OverType
  <1>1. /\ w \in Workers /\ worker[w].model = ModelOf[d] /\ worker[w].state = "resident"
        /\ worker[w] \in Worker /\ worker[w].exiting \in Nat
        /\ call[d].nth >= 2 /\ d \in Chats /\ ModelOf[d] \in Models /\ call[d].nth \in 0 .. 3
    BY <1>0, CallsSplit DEF Named, NthRight, ServingResident, CallsType, Call, WorkersType,
                            Worker, Calls
  <1> HIDE DEF w
  <1>2. ASSUME worker'[w] = worker[w] PROVE Goal
    BY <1>1, <1>2
  <1>3. ASSUME NEW m \in Models, DeleteEntry(m), w # registry[m] PROVE Goal
    BY <1>1, <1>2, <1>3, DeleteEffect
  <1>4. ASSUME NEW m \in Models, w = registry[m]
        PROVE  ModelOf[d] = m /\ d \in Users(m) /\ entry[m].active > 0
               /\ entry[m].active = Cardinality(Users(m)) /\ IsFiniteSet(Users(m))
    <2>1. ModelOf[d] = m
      BY <1>1, <1>4, Finite DEF Named
    <2> QED BY <1>1, <2>1, InUse
  <1>5. ASSUME NEW m \in Models, DeleteEntry(m), entry[m].active = 0 PROVE Goal
    BY <1>3, <1>4, <1>5
  <1>6. ASSUME NEW c \in Calls, LastUser(c) PROVE Goal
    <2> DEFINE m == ModelOf[c]
    <2>1. /\ m \in Models /\ DeleteEntry(m) /\ entry[m].active = 1
          /\ call'[c].at = "over" /\ c \in Chats /\ call[c].nth >= 2
      BY <1>0, <1>6, CallsSplit DEF LastUser, ChatEnds, CallsType, NthRight, Call
    <2>2. CASE w = registry[m]
      <3>1. d \in Users(m) /\ c \in Users(m) /\ Cardinality(Users(m)) = 1 /\ IsFiniteSet(Users(m))
        BY <1>4, <2>1, <2>2 DEF Users
      <3>2. Cardinality(Users(m) \ {c}) = 0 /\ IsFiniteSet(Users(m) \ {c})
        BY <3>1, FS_RemoveElement
      <3>3. Users(m) \ {c} = {}
        BY <3>2, FS_EmptySet
      <3> QED BY <2>1, <3>1, <3>3
    <2> QED BY <1>3, <2>1, <2>2
  <1>7. ASSUME NEW c \in Calls, Creates(c) PROVE Goal
    BY <1>0, <1>1, <1>2, <1>7, CreatesEffect, CreateEffect
  <1>8. ASSUME NEW v \in Workers, Launches(v) PROVE Goal
    BY <1>0, <1>1, <1>2, <1>8, LaunchType DEF Launches
  <1>9. ASSUME NEW v \in Workers, WorkerLoads(v) \/ Exit(v) \/ Crash(v) PROVE Goal
    <2>1. CASE v # w
      <3>1. \E q : worker' = [worker EXCEPT ![v] = q]
        BY <1>9 DEF WorkerLoads, Exit, Crash
      <3>2. worker'[w] = worker[w]
        BY <1>0, <1>1, <2>1, <3>1 DEF WorkersType
      <3> QED BY <1>2, <3>2
    <2>2. CASE v = w
      <3>1. ~WorkerLoads(w) /\ ~Crash(w)
        <4>1. ~WorkerLoads(w)
          BY <1>1 DEF WorkerLoads
        <4>2. Crash(w) => call'[d] = [call[d] EXCEPT !.at = "refused"]
          BY DEF Crash, w
        <4>3. [call[d] EXCEPT !.at = "refused"].at = "refused"
          BY <1>0 DEF CallsType, Call
        <4> QED BY <4>1, <4>2, <4>3
      <3>2. worker' = [worker EXCEPT ![w].exiting = @ - 1]
        BY <1>9, <2>2, <3>1 DEF Exit
      <3>3. worker'[w].state = worker[w].state /\ worker'[w].exiting = worker[w].exiting - 1
        BY <1>0, <1>1, <3>2 DEF WorkersType, Worker
      <3> QED BY <1>1, <3>3
    <2> QED BY <2>1, <2>2
  <1>10. ~Rotate
    <2>1. Rotate => rotation = "claimed"
      BY DEF Rotate
    <2> QED BY <1>1, <2>1 DEF RotationWaits
  <1> HIDE DEF Goal
  <1>11. (worker' = worker) => Goal
    BY <1>2
  <1>12. Goal
    BY <1>5, <1>6, <1>7, <1>8, <1>9, <1>10, <1>11, WorkersCases
  <1> QED BY <1>1, <1>12 DEF Goal, w

LEMMA ServingStep ==
    ASSUME TypeOK, Allocated, Named, NthRight, UsersCounted, ServingResident, RotationWaits,
           Blank, [Next]_vars
    PROVE  ServingResident'
  <1>0. CallsType /\ Over \in Call /\ Over.at = "over"
    BY TypesSplit, OverType
  <1> SUFFICES ASSUME NEW d \in Calls, call'[d].at = "serving"
               PROVE  worker'[call'[d].worker].state = "resident"
    BY DEF ServingResident
  <1>1. CASE call'[d] = call[d]
    BY <1>1, Served
  <1>2. CASE GoesOn(d)
    <2>1. CASE call[d].at = "serving"
      BY <1>2, <2>1, Served DEF GoesOn
    <2>2. CASE call[d].at # "serving"
      BY <1>2, <2>2 DEF GoesOn
    <2> QED BY <2>1, <2>2
  <1>3. ASSUME NEW c \in Calls, Ends(c) PROVE call'[d] = call[d]
    <2>1. c # d
      BY <1>0, <1>3, EndsEffect DEF CallsType
    <2> QED BY <1>0, <1>3, <2>1, EndsEffect DEF CallsType
  <1>4. ASSUME NEW c \in Calls, Creates(c) PROVE call'[d] = call[d]
    <2>1. c # d
      BY <1>0, <1>4, CreatesEffect DEF CallsType
    <2> QED BY <1>0, <1>4, <2>1, CreatesEffect DEF CallsType
  <1> QED BY <1>1, <1>2, <1>3, <1>4, CallsMove

-----------------------------------------------------------------------------
(* The parts of the invariant about the loads in flight. *)
LEMMA OneLoadsStep ==
    ASSUME TypeOK, OneLoads, [Next]_vars
    PROVE  OneLoads'
  <1> SUFFICES ASSUME NEW m \in Models, job'[m].stage \notin {"none", "queued"}
               PROVE  mutex' # << >> /\ Head(mutex') = m
    BY DEF OneLoads
  <1>1. mutex # << >> /\ Head(mutex) = m
    <2>1. JobMoves(m)
      BY JobsMove
    <2> QED BY <2>1 DEF JobMoves, OneLoads
  <1>2. mutex' = mutex \/ \E v \in Models : mutex' = Append(mutex, v)
    <2>1. MutexMoves
      BY JobsMove
    <2> QED BY <1>1, <2>1 DEF MutexMoves
  <1>3. mutex \in Seq(Models)
    BY DEF TypeOK
  <1> QED BY <1>1, <1>2, <1>3

LEMMA LoadsStep ==
    ASSUME TypeOK, Allocated, Named, NthRight, UsersCounted, Blank, LoadsAdmitted, [Next]_vars
    PROVE  LoadsAdmitted'
  <1>0. WorkersType /\ JobsType
    BY TypesSplit
  <1> SUFFICES ASSUME ~bypassed', NEW w \in Workers, worker'[w].state = "loading"
               PROVE  \E m \in Models : job'[m].stage = "performing" /\ job'[m].worker = w
    BY DEF LoadsAdmitted
  <1>1. ~bypassed
    BY HistoryTyped
  <1>2. ASSUME worker[w].state = "loading"
        PROVE  \E m \in Models : job'[m].stage = "performing" /\ job'[m].worker = w
    <2>1. PICK m \in Models : job[m].stage = "performing" /\ job[m].worker = w
      BY <1>1, <1>2 DEF LoadsAdmitted
    <2>2. ~Works(m)
      BY <1>2, <2>1 DEF Works, JobMeasures, JobLaunches, JobPerformed, JobEvicts, JobEvicted, Owns
    <2>3. JobMoves(m)
      BY JobsMove
    <2>4. job'[m] = job[m]
      BY <2>1, <2>2, <2>3 DEF JobMoves
    <2> QED BY <2>1, <2>4
  <1>3. CASE worker'[w] = worker[w] \/ Ages(w)
    BY <1>2, <1>3 DEF Ages
  <1>4. ASSUME NEW c \in Calls, Creates(c)
        PROVE  \E m \in Models : job'[m].stage = "performing" /\ job'[m].worker = w
    <2>1. worker'[w] = worker[w] \/ worker'[w] = NewWorker(ModelOf[c])
      BY <1>4, CreatesEffect, CreateEffect
    <2>2. NewWorker(ModelOf[c]).state = "stopped"
      BY DEF NewWorker
    <2> QED BY <1>2, <2>1, <2>2
  <1>5. ASSUME NEW v \in Workers, Launches(v)
        PROVE  \E m \in Models : job'[m].stage = "performing" /\ job'[m].worker = w
    <2>1. CASE v # w \/ worker[v].state # "stopped"
      <3>1. worker'[w] = worker[w]
        BY <1>0, <1>5, <2>1, LaunchType DEF Launches
      <3> QED BY <1>2, <3>1
    <2>2. CASE v = w /\ worker[v].state = "stopped"
      <3>1. PICK m \in Models : JobLaunches(m) /\ job[m].worker = w
        BY <1>5, <2>2 DEF Launches
      <3>2. job' = [job EXCEPT ![m].stage = "performing"]
        BY <3>1 DEF JobLaunches
      <3>3. job'[m].stage = "performing" /\ job'[m].worker = job[m].worker
        BY <1>0, <3>2 DEF JobsType, Job
      <3> QED BY <3>1, <3>3
    <2> QED BY <2>1, <2>2
  <1> QED BY <1>3, <1>4, <1>5, WorkersMove

-----------------------------------------------------------------------------
(* The bytes in memory, of any state of the workers. *)
There(k) == {w \in Workers : k[w].model # NoModel}
Load(k) == [w \in There(k) |-> Size[k[w].model] * Held(k[w])]
Memory(k) == SumFunctionOnSet(Load(k), There(k))
States == [Workers -> Worker]

LEMMA MemoryIs == InMemory = Memory(worker) /\ InMemory' = Memory(worker')
  <1>1. {w \in Workers : Exists(w)} = There(worker)
        /\ {w \in Workers : Exists(w)}' = There(worker')
    BY DEF Exists, There
  <1>2. /\ [w \in {w \in Workers : Exists(w)} |-> Bytes(w)] = Load(worker)
        /\ [w \in {w \in Workers : Exists(w)} |-> Bytes(w)]' = Load(worker')
    BY DEF Exists, There, Load, Bytes, Held
  <1>3. \A k : DOMAIN Load(k) = There(k)
    BY DEF Load
  <1> QED BY <1>1, <1>2, <1>3 DEF InMemory, Total, SumFunction, Memory

LEMMA LoadNat ==
    ASSUME NEW k \in States
    PROVE  /\ There(k) \in SUBSET Workers /\ IsFiniteSet(There(k))
           /\ \A w \in There(k) : /\ Load(k)[w] = Size[k[w].model] * Held(k[w])
                                  /\ Size[k[w].model] \in Nat /\ Held(k[w]) \in Nat
                                  /\ Load(k)[w] \in Nat
  <1>1. There(k) \in SUBSET Workers /\ IsFiniteSet(There(k))
    BY Finite DEF There
  <1>2. ASSUME NEW w \in There(k)
        PROVE  Size[k[w].model] \in Nat /\ Held(k[w]) \in Nat
    <2>1. k[w] \in Worker /\ k[w].model \in Models
      BY DEF There, States, Worker
    <2> QED BY <2>1, ClosedHeld
  <1>3. \A x, y \in Nat : x * y \in Nat
    OBVIOUS
  <1>4. \A w \in There(k) : Load(k)[w] = Size[k[w].model] * Held(k[w])
    BY DEF Load
  <1> QED BY <1>1, <1>2, <1>3, <1>4

LEMMA MemoryNat == \A k \in States : Memory(k) \in Nat
  <1> SUFFICES ASSUME NEW k \in States PROVE Memory(k) \in Nat
    OBVIOUS
  <1> QED BY LoadNat, SumNat DEF Memory

LEMMA MemoryFalls ==
    ASSUME NEW k \in States, NEW l \in States,
           \A w \in Workers : \/ l[w] = k[w]
                              \/ /\ k[w].model # NoModel /\ l[w].model = k[w].model
                                 /\ Held(l[w]) <= Held(k[w])
    PROVE  Memory(l) <= Memory(k)
  <1>1. There(l) = There(k)
    BY DEF There
  <1>2. \A x, a, b \in Nat : a <= b => x * a <= x * b
    OBVIOUS
  <1>3. \A w \in There(k) : Load(l)[w] \in Nat /\ Load(k)[w] \in Nat /\ Load(l)[w] <= Load(k)[w]
    <2> SUFFICES ASSUME NEW w \in There(k) PROVE Load(l)[w] <= Load(k)[w]
      BY <1>1, LoadNat
    <2>1. w \in Workers /\ w \in There(l)
      BY <1>1, LoadNat
    <2>2. l[w].model = k[w].model /\ Held(l[w]) \in Nat /\ Held(k[w]) \in Nat
      BY <2>1, LoadNat
    <2>3. Held(l[w]) <= Held(k[w])
      BY <2>1, <2>2
    <2>4. Size[k[w].model] * Held(l[w]) <= Size[k[w].model] * Held(k[w])
      BY <1>2, <2>2, <2>3, LoadNat
    <2> QED BY <2>1, <2>2, <2>4, LoadNat
  <1> QED BY <1>1, <1>3, LoadNat, SumMonotone DEF Memory

(* One worker and the others. *)
LEMMA MemoryWithout ==
    ASSUME NEW k \in States, NEW n \in There(k)
    PROVE  Memory(k) = Load(k)[n] + SumFunctionOnSet(Load(k), There(k) \ {n})
  <1> DEFINE f == Load(k)
             S == There(k)
  <1>1. IsFiniteSet(S) /\ \A w \in S : f[w] \in Nat
    BY LoadNat
  <1> HIDE DEF f, S
  <1>2. n \in S
    BY DEF S
  <1>3. SumFunctionOnSet(f, S) = f[n] + SumFunctionOnSet(f, S \ {n})
    BY <1>1, <1>2, SumWithout
  <1> QED BY <1>3 DEF f, S, Memory

(* A worker that is created takes nothing yet. *)
LEMMA MemoryBorn ==
    ASSUME NEW k \in States, NEW l \in States, NEW n \in Workers, NEW m \in Models,
           k[n].model = NoModel, l = [k EXCEPT ![n] = NewWorker(m)]
    PROVE  Memory(l) = Memory(k)
  <1>1. l[n] = NewWorker(m) /\ \A w \in Workers \ {n} : l[w] = k[w]
    BY DEF States
  <1>2. NewWorker(m).model = m /\ m # NoModel /\ Held(NewWorker(m)) = 0
    BY DEF NewWorker, Held
  <1>3. There(l) = There(k) \cup {n} /\ n \notin There(k)
    BY <1>1, <1>2 DEF There
  <1>4. There(l) \ {n} = There(k) /\ n \in There(l)
    BY <1>3
  <1>5. Load(l)[n] = 0
    <2>1. \A x \in Nat : x * 0 = 0
      OBVIOUS
    <2> QED BY <1>1, <1>2, <1>4, <2>1 DEF Load
  <1>6. \A w \in There(k) : Load(l)[w] = Load(k)[w]
    <2> SUFFICES ASSUME NEW w \in There(k) PROVE Load(l)[w] = Load(k)[w]
      OBVIOUS
    <2>1. l[w] = k[w] /\ w \in There(l)
      BY <1>1, <1>3, LoadNat
    <2> QED BY <2>1 DEF Load
  <1>7. SumFunctionOnSet(Load(l), There(l))
          = Load(l)[n] + SumFunctionOnSet(Load(l), There(l) \ {n})
    BY <1>4, MemoryWithout DEF Memory
  <1>8. SumFunctionOnSet(Load(l), There(k)) = SumFunctionOnSet(Load(k), There(k))
    BY <1>6, LoadNat, SumEqual
  <1>9. Memory(l) = 0 + Memory(k)
    BY <1>4, <1>5, <1>7, <1>8 DEF Memory
  <1> QED BY <1>9, MemoryNat

(* A worker that is launched takes the bytes of its model. *)
LEMMA MemoryGrows ==
    ASSUME NEW k \in States, NEW l \in States, NEW n \in Workers, NEW m \in Models,
           k[n].model = m, k[n].state = "stopped", l[n].model = m,
           Held(l[n]) = Held(k[n]) + 1, \A w \in Workers \ {n} : l[w] = k[w]
    PROVE  Memory(l) = Memory(k) + Size[m]
  <1>1. There(l) = There(k) /\ n \in There(k)
    BY DEF There
  <1>2. Load(l)[n] = Load(k)[n] + Size[m]
    <2>1. \A x, a \in Nat : x * (a + 1) = x * a + x
      OBVIOUS
    <2>2. Load(l)[n] = Size[m] * (Held(k[n]) + 1) /\ Load(k)[n] = Size[m] * Held(k[n])
      BY <1>1, LoadNat
    <2> QED BY <1>1, <2>1, <2>2, LoadNat
  <1>3. \A w \in There(k) \ {n} : Load(l)[w] = Load(k)[w]
    <2> SUFFICES ASSUME NEW w \in There(k) \ {n} PROVE Load(l)[w] = Load(k)[w]
      OBVIOUS
    <2>1. l[w] = k[w] /\ w \in There(l)
      BY <1>1, LoadNat
    <2> QED BY <2>1 DEF Load
  <1>4. /\ Memory(l) = Load(l)[n] + SumFunctionOnSet(Load(l), There(k) \ {n})
        /\ Memory(k) = Load(k)[n] + SumFunctionOnSet(Load(k), There(k) \ {n})
    BY <1>1, MemoryWithout
  <1>5. SumFunctionOnSet(Load(l), There(k) \ {n}) = SumFunctionOnSet(Load(k), There(k) \ {n})
    <2>1. IsFiniteSet(There(k) \ {n})
      BY LoadNat, FS_Subset
    <2> QED BY <1>3, <2>1, SumEqual
  <1>6. SumFunctionOnSet(Load(k), There(k) \ {n}) \in Nat
    <2>1. IsFiniteSet(There(k) \ {n}) /\ \A w \in There(k) \ {n} : Load(k)[w] \in Nat
      BY LoadNat, FS_Subset
    <2> QED BY <2>1, SumNat
  <1> QED BY <1>1, <1>2, <1>4, <1>5, <1>6, LoadNat

-----------------------------------------------------------------------------
(* Without an unadmitted launch memory grows only by the load of a model that *)
(* was measured to fit.                                                       *)
LEMMA MemoryStep ==
    ASSUME TypeOK, Allocated, Named, NthRight, UsersCounted, Blank, [Next]_vars, ~bypassed'
    PROVE  /\ InMemory \in Nat /\ InMemory' \in Nat
           /\ \/ InMemory' <= InMemory
              \/ \E m \in Models : JobLaunches(m) /\ InMemory' = InMemory + Size[m]
  <1>0. WorkersType /\ worker \in States /\ worker' \in States
    BY TypesSplit, WorkersTyped DEF WorkersType, States
  <1>1. InMemory \in Nat /\ InMemory' \in Nat
    BY <1>0, MemoryIs, MemoryNat
  <1>2. CASE \A w \in Workers : worker'[w] = worker[w] \/ Ages(w)
    <2>1. Memory(worker') <= Memory(worker)
      BY <1>0, <1>2, MemoryFalls DEF Ages
    <2> QED BY <1>1, <2>1, MemoryIs
  <1>3. ASSUME NEW c \in Calls, Creates(c) PROVE InMemory' <= InMemory
    <2>1. /\ ModelOf[c] \in Models
          /\ \/ UNCHANGED worker
             \/ /\ worker[NextWorker] = NewWorker(NoModel) /\ NextWorker \in Workers
                /\ worker' = [worker EXCEPT ![NextWorker] = NewWorker(ModelOf[c])]
      BY <1>3, CreatesEffect, CreateEffect
    <2>2. NewWorker(NoModel).model = NoModel
      BY DEF NewWorker
    <2>3. Memory(worker') = Memory(worker)
      BY <1>0, <2>1, <2>2, MemoryBorn
    <2> QED BY <1>1, <2>3, MemoryIs
  <1>4. ASSUME NEW v \in Workers, Launches(v)
        PROVE  \/ InMemory' <= InMemory
               \/ \E m \in Models : JobLaunches(m) /\ InMemory' = InMemory + Size[m]
    <2>1. CASE worker[v].state # "stopped"
      <3>1. worker' = worker
        BY <1>0, <1>4, <2>1, LaunchType DEF Launches
      <3> QED BY <1>1, <3>1, MemoryIs
    <2>2. CASE worker[v].state = "stopped"
      <3>1. PICK m \in Models : JobLaunches(m) /\ job[m].worker = v
        BY <1>4, <2>2 DEF Launches
      <3>2. worker[v].model = m
        BY <3>1 DEF JobLaunches, Owns, Named
      <3>3. /\ worker'[v].model = m /\ worker'[v].exiting = worker[v].exiting
            /\ worker'[v].state = "loading" /\ worker[v].exiting \in Nat
            /\ \A w \in Workers \ {v} : worker'[w] = worker[w]
        BY <1>0, <1>4, <2>2, <3>2, LaunchType DEF Launches, States, Worker
      <3>4. Held(worker'[v]) = Held(worker[v]) + 1
        BY <2>2, <3>3 DEF Held
      <3>5. Memory(worker') = Memory(worker) + Size[m]
        BY <1>0, <2>2, <3>2, <3>3, <3>4, MemoryGrows
      <3> QED BY <3>1, <3>5, MemoryIs
    <2> QED BY <2>1, <2>2
  <1> QED BY <1>1, <1>2, <1>3, <1>4, WorkersMove

(* What is measured while no worker loads is what there is. *)
LEMMA MeasuredRight ==
    ASSUME TypeOK, OneLoads, LoadsAdmitted, NEW m \in Models, JobMeasures(m), ~bypassed'
    PROVE  InMemory <= sample' /\ sample' \in Nat /\ UNCHANGED worker
  <1>1. ~bypassed
    BY DEF JobMeasures
  <1>2. \A w \in Workers : worker[w].state # "loading"
    <2>1. \A n \in Models : job[n].stage # "performing"
      BY DEF JobMeasures, Owns, OneLoads
    <2> QED BY <1>1, <2>1 DEF LoadsAdmitted
  <1>3. {w \in Workers : worker[w].state = "loading"} = {}
    BY <1>2
  <1>4. MemoryUsed = {InMemory}
    <2>1. SUBSET {w \in Workers : worker[w].state = "loading"} = {{}}
      BY <1>3
    <2>2. {w \in Workers : Exists(w)} \ {} = {w \in Workers : Exists(w)}
      OBVIOUS
    <2>3. MemoryUsed = {Total({w \in Workers : Exists(w)} \ unseen) : unseen \in {{}}}
      BY <2>1 DEF MemoryUsed
    <2> QED BY <2>2, <2>3 DEF InMemory
  <1>5. InMemory \in Nat
    BY InMemoryNat
  <1>6. CASE sample' \in MemoryUsed
    BY <1>4, <1>5, <1>6 DEF JobMeasures
  <1>7. CASE sample # NoSample /\ sample' = sample /\ ~(sample < InMemory)
    <2>1. sample \in Nat
      BY <1>7 DEF TypeOK
    <2> QED BY <1>5, <1>7, <2>1 DEF JobMeasures
  <1> QED BY <1>6, <1>7 DEF JobMeasures, InMemory

LEMMA FitsStep ==
    ASSUME TypeOK, Allocated, Named, NthRight, UsersCounted, Blank, OneLoads, LoadsAdmitted,
           FitsMeasured, [Next]_vars
    PROVE  FitsMeasured'
  <1>0. JobsType /\ bypassed \in BOOLEAN
    BY TypesSplit DEF HistoryType
  <1> SUFFICES ASSUME ~bypassed', NEW m \in Models, job'[m].stage = "measured", job'[m].fits
               PROVE  InMemory' + Size[m] <= Capacity
    BY DEF FitsMeasured
  <1>1. ~bypassed /\ JobMoves(m) /\ Size[m] \in Nat
    BY HistoryTyped, JobsMove
  <1>2. /\ InMemory \in Nat /\ InMemory' \in Nat
        /\ \/ InMemory' <= InMemory
           \/ \E n \in Models : JobLaunches(n)
    BY MemoryStep
  <1>3. CASE JobMeasures(m)
    <2>1. job' = [job EXCEPT ![m].stage = "measured", ![m].fits = sample' + Size[m] <= Capacity]
      BY <1>3 DEF JobMeasures
    <2>2. sample' + Size[m] <= Capacity
      <3> SUFFICES ASSUME ~(sample' + Size[m] <= Capacity) PROVE FALSE
        OBVIOUS
      <3>1. job' = [job EXCEPT ![m].stage = "measured", ![m].fits = FALSE]
        BY <2>1
      <3>2. job'[m].fits = FALSE
        BY <1>0, <3>1 DEF JobsType, Job
      <3> QED BY <3>2
    <2>3. InMemory <= sample' /\ sample' \in Nat /\ UNCHANGED worker
      BY <1>3, MeasuredRight
    <2>4. InMemory' = InMemory
      BY <2>3, MemoryIs
    <2> QED BY <1>1, <1>2, <2>2, <2>3, <2>4
  <1>4. CASE ~JobMeasures(m)
    <2>1. job'[m] = job[m]
      <3>1. ASSUME Works(m) PROVE FALSE
        <4>1. \E s \in {"performing", "stabilizing", "undoing", "evicting", "queued"} : \E v :
                 \/ job' = [job EXCEPT ![m].stage = s]
                 \/ job' = [job EXCEPT ![m].stage = s, ![m].victim = v]
          BY <1>4, <3>1 DEF Works, JobLaunches, JobPerformed, JobEvicts, JobEvicted
        <4>2. job'[m].stage # "measured"
          BY <1>0, <4>1 DEF JobsType, Job
        <4> QED BY <4>2
      <3> QED BY <1>1, <3>1 DEF JobMoves
    <2>2. InMemory + Size[m] <= Capacity /\ Head(mutex) = m
      BY <1>1, <2>1 DEF FitsMeasured, OneLoads
    <2>3. ASSUME NEW n \in Models, JobLaunches(n) PROVE FALSE
      <3>1. n = m
        BY <2>2, <2>3 DEF JobLaunches, Owns
      <3>2. job'[m].stage = "performing"
        BY <1>0, <2>3, <3>1 DEF JobLaunches, JobsType, Job
      <3> QED BY <3>2
    <2> QED BY <1>1, <1>2, <2>2, <2>3
  <1> QED BY <1>3, <1>4

LEMMA AdmittedStep ==
    ASSUME TypeOK, Allocated, Named, NthRight, UsersCounted, Blank, FitsMeasured, AdmittedFit,
           [Next]_vars
    PROVE  AdmittedFit'
  <1>1. SUFFICES ASSUME ~bypassed' PROVE InMemory' <= Capacity
    BY DEF AdmittedFit, InMemory
  <1>2. ~bypassed /\ InMemory <= Capacity
    BY <1>1, HistoryTyped DEF AdmittedFit, InMemory
  <1>3. CASE InMemory' <= InMemory
    BY <1>1, <1>2, <1>3, MemoryStep
  <1>4. ASSUME NEW m \in Models, JobLaunches(m), InMemory' = InMemory + Size[m]
        PROVE  InMemory' <= Capacity
    BY <1>2, <1>4 DEF JobLaunches, Owns, FitsMeasured
  <1> QED BY <1>1, <1>3, <1>4, MemoryStep

-----------------------------------------------------------------------------
LEMMA Initially ==
    ASSUME Init
    PROVE  IInv
  <1>1. /\ \A m : NewWorker(m).model = m /\ NewWorker(m).state = "stopped"
        /\ NewWorker(NoModel) \in Worker
        /\ NoEntry \in Entry /\ NoEntry.active = 0
        /\ NoJob \in Job /\ NoJob.stage = "none"
        /\ NotCalled \in Call /\ NotCalled.at = "idle" /\ NotCalled.nth = 0
    BY OverType DEF NewWorker, Worker, NoEntry, Entry, NoJob, Job, NoWorker
  <1>2. TypeOK
    <2>1. Disturbances \in Nat /\ << >> \in Seq(Models) /\ 0 \in 0 .. Disturbances
      OBVIOUS
    <2> QED BY <1>1, <2>1 DEF Init, TypeOK, NoSample
  <1>3. Created = {} /\ Unasked = Calls /\ Unasked \cap Chats = Chats /\ AskedOnce = {}
    BY <1>1, CallsSplit DEF Init, Created, Unasked, AskedOnce
  <1>4. Allocated
    <2>1. Cardinality({}) = 0 /\ 1 .. 0 = {}
      BY FS_EmptySet
    <2>2. Cardinality(Calls) = Cardinality(Chats) + Cardinality(LoadCalls)
      <3>1. Chats \cap LoadCalls = {}
        OBVIOUS
      <3>2. Cardinality(Chats \cup LoadCalls)
              = Cardinality(Chats) + Cardinality(LoadCalls) - Cardinality(Chats \cap LoadCalls)
        BY Finite, FS_Union
      <3>3. Cardinality(Chats \cap LoadCalls) = 0
        BY <2>1, <3>1
      <3> QED BY <3>2, <3>3, Finite DEF Calls
    <2>3. \A x, y \in Nat : 0 + (x + y) + x + 0 <= 2 * x + y
      OBVIOUS
    <2>4. Cardinality({}) + Cardinality(Calls) + Cardinality(Chats) + Cardinality({}) <= Asks
      BY <2>1, <2>2, <2>3, Finite DEF Asks
    <2> QED BY <1>3, <2>1, <2>4 DEF Allocated
  <1>5. Named
    BY <1>1 DEF Init, Named
  <1>6. NthRight
    BY <1>1 DEF Init, NthRight
  <1>7. UsersCounted
    <2>1. \A m \in Models : Users(m) = {}
      BY <1>1, CallsSplit DEF Init, Users
    <2> QED BY <1>1, <2>1, FS_EmptySet DEF Init, UsersCounted
  <1>8. ServingResident /\ RotationWaits
    BY <1>1 DEF Init, ServingResident, RotationWaits
  <1>9. OneLoads /\ LoadsAdmitted /\ FitsMeasured /\ Blank
    BY <1>1 DEF Init, OneLoads, LoadsAdmitted, FitsMeasured, Blank
  <1>10. InMemory = 0
    <2>1. There(worker) = {}
      BY <1>1 DEF Init, There
    <2> QED BY <2>1, MemoryIs, SumEmpty DEF Memory
  <1>11. AdmittedFit
    BY <1>10 DEF AdmittedFit, InMemory
  <1> QED BY <1>2, <1>4, <1>5, <1>6, <1>7, <1>8, <1>9, <1>11 DEF IInv

LEMMA Inductive ==
    ASSUME IInv, [Next]_vars
    PROVE  IInv'
  <1> USE DEF IInv
  <1>1. TypeOK'
    <2>1. JobsType' /\ WorkersType' /\ CallsType' /\ GateType' /\ HistoryType'
      BY JobsTyped, WorkersTyped, CallsTyped, GateTyped, HistoryTyped
    <2> QED BY <2>1 DEF TypeOK, JobsType, WorkersType, CallsType, GateType, HistoryType
  <1>2. Allocated' /\ Named' /\ NthRight' /\ UsersCounted'
    BY AllocatedStep, NamedStep, NthStep, UsersStep
  <1>3. ServingResident' /\ RotationWaits' /\ OneLoads'
    BY ServingStep, RotationStep, OneLoadsStep
  <1>4. LoadsAdmitted' /\ FitsMeasured' /\ Blank' /\ AdmittedFit'
    BY LoadsStep, FitsStep, BlankStep, AdmittedStep
  <1> QED BY <1>1, <1>2, <1>3, <1>4

LEMMA Invariant == Spec => []IInv
  <1>1. Init => IInv
    BY Initially
  <1>2. IInv /\ [Next]_vars => IInv'
    BY Inductive
  <1> QED BY <1>1, <1>2, PTL DEF Spec

(* The variables have their types, whatever the calls and the disturbances. *)
THEOREM TypeCorrect == Spec => []TypeOK
  <1>1. IInv => TypeOK
    BY DEF IInv
  <1> QED BY <1>1, Invariant, PTL

(* What was admitted fits: as long as every launch went through admission and *)
(* no load was measured by a sample lower than what there is, the workers, the *)
(* loading ones and the processes on their way out fit the capacity together,  *)
(* whatever expires, is unloaded, evicted or rotated between the awaits.       *)
THEOREM AdmittedFits == Spec => []AdmittedFit
  <1>1. IInv => AdmittedFit
    BY DEF IInv
  <1> QED BY <1>1, Invariant, PTL

(* No step tells the worker of a chat that is served to exit: the entry counts *)
(* the chats of its model, and an entry in use is not deleted; a rotation has  *)
(* waited for every chat.                                                      *)
THEOREM ChatsKeepTheirWorker == Spec => ServedNotShut
  <1>1. ASSUME IInv, [Next]_vars
        PROVE  [\A w \in Workers : worker'[w].exiting > worker[w].exiting
                  => ~\E c \in Chats : /\ call[c].at = "serving" /\ call'[c].at = "serving"
                                       /\ call[c].worker = w]_vars
    <2> SUFFICES ASSUME NEW w \in Workers, worker'[w].exiting > worker[w].exiting,
                        NEW c \in Chats, call[c].at = "serving", call'[c].at = "serving",
                        call[c].worker = w
                 PROVE  FALSE
      OBVIOUS
    <2>1. worker'[w].exiting <= worker[w].exiting
      BY <1>1, Served, CallsSplit DEF IInv
    <2>2. worker[w].exiting \in Nat /\ worker'[w].exiting \in Nat
      <3>1. worker \in [Workers -> Worker] /\ worker' \in [Workers -> Worker]
        BY <1>1, Inductive DEF IInv, TypeOK
      <3> QED BY <3>1 DEF Worker
    <2> QED BY <2>1, <2>2
  <1> QED BY <1>1, Invariant, PTL DEF Spec, ServedNotShut
=============================================================================
