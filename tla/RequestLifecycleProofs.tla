----------------------- MODULE RequestLifecycleProofs -----------------------
(***************************************************************************)
(* A request gives back what it holds by whichever exit it leaves, and a   *)
(* rotation never runs beside one that is queued or served, for any number *)
(* of requests and rotations, any limit and any queue depth.  The proofs   *)
(* compose those of the barrier and of the limiter.  What the observer of  *)
(* these requests tells of them, RequestMetrics, is proved of first.       *)
(***************************************************************************)
EXTENDS RequestLifecycle, RequestMetrics, FiniteSetTheorems, SequenceTheorems, TLAPS

-----------------------------------------------------------------------------
(* What the server tells of its requests: the totals of an epoch add up, and  *)
(* the log holds the newest events.  The first lemmas are about sets and       *)
(* sequences only; those on sequences go by induction, as the well-founded     *)
(* order of the natural numbers.                                               *)

(* Of finite sets one contains no other. *)
LEMMA MinimalSet ==
    ASSUME NEW F, F # {}, \A A \in F : IsFiniteSet(A)
    PROVE  \E A \in F : \A B \in F : B \subseteq A => B = A
  <1> DEFINE S == UNION F
  <1>1. F \subseteq FiniteSubsetsOf(S)
    BY DEF FiniteSubsetsOf
  <1> HIDE DEF S
  <1>2. PICK A \in F : \A B \in F : ~ (<<B, A>> \in StrictSubsetOrdering(S))
    BY <1>1, FS_StrictSubsetOrderingWellFounded, WFMin
  <1>3. ASSUME NEW B \in F, B \subseteq A, B # A
        PROVE  <<B, A>> \in StrictSubsetOrdering(S)
    BY <1>1, <1>3 DEF StrictSubsetOrdering, FiniteSubsetsOf
  <1>4. ASSUME NEW B \in F, B \subseteq A PROVE B = A
    BY <1>2, <1>3, <1>4
  <1> QED BY <1>4

(* A set of natural numbers has a least one. *)
LEMMA LeastNat ==
    ASSUME NEW T \in SUBSET Nat, T # {}
    PROVE  \E n \in T : \A k \in T : n <= k
  <1> DEFINE F == {0 .. n : n \in T}
  <1>1. F # {}
    OBVIOUS
  <1>2. ASSUME NEW n \in T PROVE IsFiniteSet(0 .. n)
    BY FS_Interval
  <1>3. \A A \in F : IsFiniteSet(A)
    BY <1>2
  <1> HIDE DEF F
  <1>4. PICK A \in F : \A B \in F : B \subseteq A => B = A
    BY <1>1, <1>3, MinimalSet
  <1> USE DEF F
  <1>5. PICK n \in T : A = 0 .. n
    BY <1>4
  <1>6. ASSUME NEW k \in T, k < n PROVE FALSE
    <2>1. 0 .. k \in F /\ 0 .. k \subseteq 0 .. n
      BY <1>6
    <2>2. 0 .. k = 0 .. n
      BY <2>1, <1>4, <1>5
    <2> QED BY <2>2, <1>6
  <1> QED BY <1>6

(* Induction over the sequences of elements of S. *)
LEMMA SequencesIn ==
    ASSUME NEW S, NEW G, << >> \in G,
           \A s \in Seq(S), x \in S : s \in G => Append(s, x) \in G
    PROVE  Seq(S) \subseteq G
  <1> SUFFICES ASSUME Seq(S) \ G # {} PROVE FALSE
    OBVIOUS
  <1> DEFINE T == {Len(s) : s \in Seq(S) \ G}
  <1>1. T \in SUBSET Nat /\ T # {}
    BY LenProperties
  <1> HIDE DEF T
  <1>2. PICK n \in T : \A k \in T : n <= k
    BY <1>1, LeastNat
  <1> USE DEF T
  <1>3. PICK s \in Seq(S) \ G : n = Len(s)
    BY <1>2
  <1>4. PICK t \in Seq(S), x \in S : s = Append(t, x)
    BY <1>3, SequenceEmptyOrAppend
  <1>5. t \in G
    <2>1. Len(t) \in Nat /\ Len(s) = Len(t) + 1
      BY <1>4, AppendProperties, LenProperties
    <2> QED BY <2>1, <1>2, <1>3
  <1> QED BY <1>3, <1>4, <1>5

-----------------------------------------------------------------------------
(* FlattenSeq: the recursion it is defined by has one solution. *)
Flattens(f, seqs) ==
    f = [i \in 1 .. Len(seqs) |-> IF i = 1 THEN seqs[i] ELSE f[i - 1] \o seqs[i]]

LEMMA FlattensAt ==
    ASSUME NEW s, NEW f, Flattens(f, s), NEW i \in 1 .. Len(s)
    PROVE  f[i] = IF i = 1 THEN s[i] ELSE f[i - 1] \o s[i]
  <1> DEFINE Value(j) == IF j = 1 THEN s[j] ELSE f[j - 1] \o s[j]
  <1>1. f = [j \in 1 .. Len(s) |-> Value(j)]
    BY DEF Flattens
  <1> HIDE DEF Value
  <1>2. f[i] = Value(i)
    BY <1>1
  <1> QED BY <1>2 DEF Value

LEMMA FlattensOne ==
    ASSUME NEW s, NEW t, NEW f, NEW g, NEW n \in Nat,
           Len(s) \in Nat, Len(t) \in Nat, n <= Len(s), n <= Len(t),
           \A i \in 1 .. n : s[i] = t[i], Flattens(f, s), Flattens(g, t)
    PROVE  \A i \in 1 .. n : f[i] = g[i]
  <1> SUFFICES ASSUME {i \in 1 .. n : f[i] # g[i]} # {} PROVE FALSE
    OBVIOUS
  <1>1. PICK i \in 1 .. n : f[i] # g[i] /\ \A j \in 1 .. n : f[j] # g[j] => i <= j
    <2>1. {i \in 1 .. n : f[i] # g[i]} \in SUBSET Nat
      OBVIOUS
    <2> QED BY <2>1, LeastNat
  <1>2. f[i] = IF i = 1 THEN s[i] ELSE f[i - 1] \o s[i]
    <2>1. i \in 1 .. Len(s)
      OBVIOUS
    <2> QED BY <2>1, FlattensAt
  <1>3. g[i] = IF i = 1 THEN t[i] ELSE g[i - 1] \o t[i]
    <2>1. i \in 1 .. Len(t)
      OBVIOUS
    <2> QED BY <2>1, FlattensAt
  <1>4. s[i] = t[i]
    OBVIOUS
  <1>5. i # 1 => f[i - 1] = g[i - 1]
    BY <1>1
  <1> QED BY <1>1, <1>2, <1>3, <1>4, <1>5

LEMMA FlattensExists ==
    ASSUME NEW S, NEW s \in Seq(S)
    PROVE  \E f : Flattens(f, s)
  <1> DEFINE G == {t \in Seq(S) : \E f : Flattens(f, t)}
  <1>1. << >> \in G
    <2>1. << >> \in Seq(S) /\ Len(<< >>) = 0
      BY EmptySeq
    <2>2. Flattens([i \in 1 .. 0 |-> i], << >>)
      BY <2>1 DEF Flattens
    <2> QED BY <2>1, <2>2
  <1>2. ASSUME NEW t \in Seq(S), NEW x \in S, t \in G
        PROVE  Append(t, x) \in G
    <2>1. PICK f : Flattens(f, t)
      BY <1>2
    <2> DEFINE a == Append(t, x)
               n == Len(t)
               g == [i \in 1 .. n + 1 |-> IF i <= n THEN f[i]
                                          ELSE IF i = 1 THEN x ELSE f[i - 1] \o x]
    <2>2. /\ a \in Seq(S) /\ Len(a) = n + 1 /\ n \in Nat
          /\ \A i \in 1 .. n : a[i] = t[i]
          /\ a[n + 1] = x
      BY AppendProperties, LenProperties
    <2>3. ASSUME NEW i \in 1 .. n + 1
          PROVE  g[i] = IF i = 1 THEN a[i] ELSE g[i - 1] \o a[i]
      <3>1. CASE i <= n
        <4>1. f[i] = IF i = 1 THEN t[i] ELSE f[i - 1] \o t[i]
          BY <2>1, <2>2, <3>1, FlattensAt
        <4>2. g[i] = f[i] /\ a[i] = t[i] /\ (i # 1 => g[i - 1] = f[i - 1])
          BY <2>2, <3>1
        <4> HIDE DEF g, a
        <4> QED BY <4>1, <4>2
      <3>2. CASE ~ (i <= n)
        <4>1. i = n + 1 /\ a[i] = x
          BY <2>2, <3>2
        <4>2. g[i] = IF i = 1 THEN x ELSE f[i - 1] \o x
          BY <2>2, <3>2
        <4>3. i # 1 => g[i - 1] = f[i - 1]
          BY <2>2, <4>1
        <4> HIDE DEF g, a
        <4> QED BY <4>1, <4>2, <4>3
      <3> QED BY <3>1, <3>2
    <2>4. g = [i \in 1 .. Len(a) |-> IF i = 1 THEN a[i] ELSE g[i - 1] \o a[i]]
      <3>1. g = [i \in 1 .. Len(a) |-> g[i]]
        BY <2>2
      <3> HIDE DEF g, a
      <3> QED BY <2>2, <2>3, <3>1
    <2>5. Flattens(g, a)
      BY <2>4 DEF Flattens
    <2> QED BY <2>2, <2>5
  <1> HIDE DEF G
  <1>3. Seq(S) \subseteq G
    BY <1>1, <1>2, SequencesIn
  <1> QED BY <1>3 DEF G

LEMMA FlattenEmpty == FlattenSeq(<< >>) = << >>
  BY DEF FlattenSeq

LEMMA FlattenIs ==
    ASSUME NEW S, NEW s \in Seq(S), s # << >>
    PROVE  \E f : Flattens(f, s) /\ FlattenSeq(s) = f[Len(s)]
  <1> DEFINE f == CHOOSE f : Flattens(f, s)
  <1>1. Flattens(f, s)
    BY FlattensExists
  <1>2. Len(s) # 0
    BY EmptySeq
  <1>3. FlattenSeq(s) = f[Len(s)]
    BY <1>2 DEF FlattenSeq, Flattens
  <1> QED BY <1>1, <1>3

LEMMA FlattenAppend ==
    ASSUME NEW S, NEW s \in Seq(Seq(S)), NEW x \in Seq(S)
    PROVE  FlattenSeq(Append(s, x)) = FlattenSeq(s) \o x
  <1> DEFINE T == Seq(S)
             n == Len(s)
  <1>1. PICK a : a = Append(s, x)
    OBVIOUS
  <1>2. /\ s \in Seq(T) /\ a \in Seq(T) /\ a # << >> /\ Len(a) = n + 1 /\ n \in Nat
        /\ \A i \in 1 .. n : a[i] = s[i]
        /\ a[n + 1] = x
    BY <1>1, AppendProperties, LenProperties
  <1>3. PICK g : Flattens(g, a) /\ FlattenSeq(a) = g[Len(a)]
    BY <1>2, FlattenIs
  <1>4. PICK k : k = n + 1
    OBVIOUS
  <1>5. g[k] = IF k = 1 THEN a[k] ELSE g[k - 1] \o a[k]
    <2>1. k \in 1 .. Len(a)
      BY <1>2, <1>4
    <2> QED BY <1>3, <2>1, FlattensAt
  <1>6. CASE s = << >>
    <2>1. n = 0
      BY <1>6, EmptySeq
    <2>2. FlattenSeq(a) = x
      BY <1>2, <1>3, <1>4, <1>5, <2>1
    <2> QED BY <1>1, <2>2, <1>6, FlattenEmpty, ConcatEmptySeq
  <1>7. CASE s # << >>
    <2>1. n # 0
      BY <1>7, EmptySeq
    <2>2. PICK f : Flattens(f, s) /\ FlattenSeq(s) = f[n]
      BY <1>2, <1>7, FlattenIs
    <2>3. \A i \in 1 .. n : f[i] = g[i]
      <3>1. /\ n <= Len(s) /\ n <= Len(a) /\ n \in Nat /\ Len(s) \in Nat /\ Len(a) \in Nat
            /\ \A i \in 1 .. n : s[i] = a[i]
        BY <1>2
      <3> HIDE DEF n, T
      <3> QED BY <1>3, <2>2, <3>1, FlattensOne
    <2>4. f[n] = g[n]
      BY <2>1, <2>3, <1>2
    <2>5. k # 1 /\ k - 1 = n
      BY <2>1, <1>2, <1>4
    <2> QED BY <1>1, <1>2, <1>3, <1>4, <1>5, <2>2, <2>4, <2>5
  <1> QED BY <1>6, <1>7

LEMMA FlattenType ==
    ASSUME NEW S, NEW s \in Seq(Seq(S))
    PROVE  FlattenSeq(s) \in Seq(S)
  <1> DEFINE G == {t \in Seq(Seq(S)) : FlattenSeq(t) \in Seq(S)}
  <1>1. << >> \in G
    BY FlattenEmpty, EmptySeq
  <1>2. ASSUME NEW t \in Seq(Seq(S)), NEW x \in Seq(S), t \in G
        PROVE  Append(t, x) \in G
    BY <1>2, FlattenAppend, AppendProperties, ConcatProperties
  <1> HIDE DEF G
  <1>3. Seq(Seq(S)) \subseteq G
    BY <1>1, <1>2, SequencesIn
  <1> QED BY <1>3 DEF G
-----------------------------------------------------------------------------
(* Suffixes. *)
Ends(s, t) == \E u \in Seq(Events) : t = u \o s

LEMMA ReverseType ==
    ASSUME NEW S, NEW s \in Seq(S)
    PROVE  /\ Reverse(s) \in Seq(S) /\ Len(Reverse(s)) = Len(s)
           /\ \A i \in 1 .. Len(s) : Reverse(s)[i] = s[Len(s) - i + 1]
  <1> DEFINE n == Len(s)
             Value(i) == s[(n - i) + 1]
  <1>1. n \in Nat /\ \A i \in 1 .. n : s[i] \in S
    BY LenProperties, ElementOfSeq
  <1> HIDE DEF n
  <1>2. \A i \in 1 .. n : Value(i) \in S
    BY <1>1
  <1> HIDE DEF Value
  <1>3. [i \in 1 .. n |-> Value(i)] \in Seq(S)
    BY <1>1, <1>2, IsASeq
  <1>4. Reverse(s) = [i \in 1 .. n |-> Value(i)]
    BY DEF Reverse, n, Value
  <1>5. Len([i \in 1 .. n |-> Value(i)]) = n
    BY <1>1
  <1>6. \A i \in 1 .. n : Reverse(s)[i] = Value(i)
    BY <1>4
  <1> QED BY <1>3, <1>4, <1>5, <1>6 DEF n, Value

LEMMA EndsIsSuffix ==
    ASSUME NEW S, NEW s \in Seq(S), NEW u \in Seq(S)
    PROVE  IsSuffix(s, u \o s)
  <1> DEFINE t == u \o s
             a == Reverse(s)
             b == Reverse(t)
  <1>1. /\ t \in Seq(S) /\ Len(t) = Len(u) + Len(s)
        /\ \A i \in 1 .. Len(u) + Len(s) :
               t[i] = IF i <= Len(u) THEN u[i] ELSE s[i - Len(u)]
    BY ConcatProperties
  <1>2. Len(s) \in Nat /\ Len(u) \in Nat
    BY LenProperties
  <1>3. /\ a \in Seq(S) /\ Len(a) = Len(s)
        /\ \A i \in 1 .. Len(s) : a[i] = s[Len(s) - i + 1]
    BY ReverseType
  <1>4. /\ b \in Seq(S) /\ Len(b) = Len(t)
        /\ \A i \in 1 .. Len(t) : b[i] = t[Len(t) - i + 1]
    <2> HIDE DEF t
    <2> QED BY <1>1, ReverseType
  <1> HIDE DEF a, b, t
  <1>5. \A i \in 1 .. Len(a) : a[i] = b[i]
    <2> SUFFICES ASSUME NEW i \in 1 .. Len(a) PROVE a[i] = b[i]
      OBVIOUS
    <2>1. i \in Nat /\ i >= 1 /\ i <= Len(s) /\ i \in 1 .. Len(s) /\ i \in 1 .. Len(t)
      BY <1>1, <1>2, <1>3
    <2>2. PICK j : j = Len(t) - i + 1
      OBVIOUS
    <2>3. /\ j \in 1 .. Len(u) + Len(s) /\ ~ (j <= Len(u))
          /\ j - Len(u) = Len(s) - i + 1
      BY <1>1, <1>2, <2>1, <2>2
    <2>4. t[j] = s[j - Len(u)]
      BY <1>1, <2>3
    <2>5. b[i] = t[j]
      BY <1>4, <2>1, <2>2
    <2>6. a[i] = s[Len(s) - i + 1]
      BY <1>3, <2>1
    <2> QED BY <2>3, <2>4, <2>5, <2>6
  <1>6. Len(a) <= Len(b)
    BY <1>1, <1>2, <1>3, <1>4
  <1>7. SubSeq(a, 1, Len(a)) = SubSeq(b, 1, Len(a))
    <2> DEFINE c == SubSeq(a, 1, Len(a))
               d == SubSeq(b, 1, Len(a))
               n == Len(a)
    <2>1. n \in Nat /\ \A i \in 1 .. n : a[i] \in S /\ b[i] \in S
      BY <1>2, <1>3, <1>5, ElementOfSeq
    <2>2. c \in Seq(S) /\ Len(c) = n /\ \A i \in 1 .. n : c[i] = a[i]
      BY <2>1, SubSeqProperties
    <2>3. d \in Seq(S) /\ Len(d) = n /\ \A i \in 1 .. n : d[i] = b[i]
      BY <2>1, SubSeqProperties
    <2> HIDE DEF c, d, n
    <2>4. \A i \in 1 .. n : a[i] = b[i]
      BY <1>5 DEF n
    <2>5. c = d
      BY <2>2, <2>3, <2>4, SeqEqual
    <2> QED BY <2>5 DEF c, d, n
  <1>8. IsPrefix(a, b)
    BY <1>6, <1>7 DEF IsPrefix
  <1> QED BY <1>8 DEF IsSuffix, a, b, t

LEMMA EventsRegroup ==
    ASSUME NEW x \in Seq(Events), NEW y \in Seq(Events), NEW z \in Seq(Events)
    PROVE  (x \o y) \o z = x \o (y \o z)
  BY ConcatAssociative

LEMMA EndsTransitive ==
    ASSUME NEW s \in Seq(Events), NEW t \in Seq(Events), NEW v \in Seq(Events),
           Ends(s, t), Ends(t, v)
    PROVE  Ends(s, v)
  <1>1. PICK u \in Seq(Events) : t = u \o s
    BY DEF Ends
  <1>2. PICK w \in Seq(Events) : v = w \o t
    BY DEF Ends
  <1>3. (w \o u) \o s = w \o (u \o s)
    BY EventsRegroup
  <1>5. w \o u \in Seq(Events)
    BY ConcatProperties
  <1>4. v = (w \o u) \o s
    BY <1>1, <1>2, <1>3
  <1> QED BY <1>4, <1>5 DEF Ends

LEMMA EndsItself ==
    ASSUME NEW s \in Seq(Events)
    PROVE  Ends(s, s)
  BY ConcatEmptySeq, EmptySeq DEF Ends

LEMMA EndsLonger ==
    ASSUME NEW s \in Seq(Events), NEW t \in Seq(Events), NEW x \in Seq(Events), Ends(s, t)
    PROVE  Ends(s \o x, t \o x)
  <1>1. PICK u \in Seq(Events) : t = u \o s
    BY DEF Ends
  <1>2. t \o x = u \o (s \o x)
    BY <1>1, ConcatAssociative
  <1> QED BY <1>2 DEF Ends

-----------------------------------------------------------------------------
(* What of a segment is read: any set T of events has the lines LinesOf(T). *)
LinesOf(T) == T \cup {Torn, Malformed}

LEMMA KindsDiffer ==
    /\ \A e \in Events : e.kind = "event" /\ e.at \in Nat /\ e # Torn
    /\ Torn.kind # "event" /\ Malformed.kind # "event"
  BY DEF Events, Torn, Malformed

LEMMA FunctionIsSeq ==
    ASSUME NEW S, NEW n \in Nat, NEW f \in [1 .. n -> S]
    PROVE  f \in Seq(S) /\ Len(f) = n
  <1>1. f \in Seq(S)
    BY SeqDef
  <1>2. DOMAIN f = 1 .. n /\ DOMAIN f = 1 .. Len(f) /\ Len(f) \in Nat
    BY <1>1, LenProperties
  <1> QED BY <1>1, <1>2

LEMMA FreshEmpty ==
    ASSUME NEW c
    PROVE  Fresh(<< >>, c) = << >>
  <1>1. << >> \in Seq({}) /\ Len(<< >>) = 0
    BY EmptySeq
  <1> DEFINE F == [i \in DOMAIN << >> |->
                     OnlyIf(<< >>[i].kind = "event" /\ << >>[i].at >= c, << >>[i])]
  <1>2. DOMAIN << >> = 1 .. 0
    BY <1>1, LenProperties
  <1>3. F \in Seq({}) /\ Len(F) = 0
    BY <1>2
  <1>4. F = << >>
    BY <1>3, EmptySeq
  <1> QED BY <1>4, FlattenEmpty DEF Fresh

(* What flattening parts gives, when one more is appended. *)
PartsGrow(V, s, l) ==
    FlattenSeq([i \in DOMAIN Append(s, l) |-> V[Append(s, l)[i]]])
        = FlattenSeq([i \in DOMAIN s |-> V[s[i]]]) \o V[l]

LEMMA PartsAppend ==
    ASSUME NEW T, NEW V, NEW s \in Seq(T), NEW l \in T,
           NEW S, \A x \in T : V[x] \in Seq(S)
    PROVE  PartsGrow(V, s, l)
  <1> DEFINE n == Len(s)
  <1>1. PICK a : a = Append(s, l)
    OBVIOUS
  <1>2. /\ a \in Seq(T) /\ Len(a) = n + 1 /\ n \in Nat
        /\ \A i \in 1 .. n : a[i] = s[i] /\ s[i] \in T
        /\ a[n + 1] = l /\ DOMAIN s = 1 .. n /\ DOMAIN a = 1 .. n + 1
    BY <1>1, AppendProperties, LenProperties, ElementOfSeq
  <1> HIDE DEF n
  <1> DEFINE F == [i \in 1 .. n |-> V[s[i]]]
             G == [i \in 1 .. n + 1 |-> V[a[i]]]
  <1>3. F \in Seq(Seq(S)) /\ Len(F) = n /\ V[l] \in Seq(S)
    <2>1. F \in [1 .. n -> Seq(S)]
      BY <1>2
    <2> HIDE DEF F
    <2>2. F \in Seq(Seq(S)) /\ Len(F) = n
      BY <2>1, <1>2, FunctionIsSeq
    <2> QED BY <2>2
  <1>4. G = Append(F, V[l])
    <2>1. /\ Append(F, V[l]) \in Seq(Seq(S)) /\ Len(Append(F, V[l])) = n + 1
          /\ \A i \in 1 .. n : Append(F, V[l])[i] = F[i]
          /\ Append(F, V[l])[n + 1] = V[l]
      <3> HIDE DEF F
      <3> QED BY <1>3, AppendProperties
    <2>2. Append(F, V[l]) = [i \in 1 .. n + 1 |-> Append(F, V[l])[i]]
      <3> HIDE DEF F
      <3> QED BY <2>1, LenProperties
    <2>3. \A i \in 1 .. n + 1 : Append(F, V[l])[i] = V[a[i]]
      <3>1. \A i \in 1 .. n : F[i] = V[a[i]]
        BY <1>2
      <3> HIDE DEF F
      <3> QED BY <2>1, <3>1, <1>2
    <2> HIDE DEF F
    <2> QED BY <2>2, <2>3
  <1>5. FlattenSeq(G) = FlattenSeq(F) \o V[l]
    <2> HIDE DEF F, G
    <2> QED BY <1>3, <1>4, FlattenAppend
  <1> QED BY <1>1, <1>2, <1>5 DEF PartsGrow

LEMMA FreshAppend ==
    ASSUME NEW T, NEW s \in Seq(T), NEW l \in T, NEW c
    PROVE  Fresh(Append(s, l), c)
               = Fresh(s, c) \o OnlyIf(l.kind = "event" /\ l.at >= c, l)
  <1> DEFINE V == [x \in T |-> OnlyIf(x.kind = "event" /\ x.at >= c, x)]
  <1>1. \A x \in T : V[x] \in Seq(T)
    BY EmptySeq DEF OnlyIf
  <1>2. ASSUME NEW x \in Seq(T)
        PROVE  Fresh(x, c) = FlattenSeq([i \in DOMAIN x |-> V[x[i]]])
    <2>1. \A i \in DOMAIN x : x[i] \in T
      BY LenProperties, ElementOfSeq
    <2>2. [i \in DOMAIN x |-> V[x[i]]]
              = [i \in DOMAIN x |-> OnlyIf(x[i].kind = "event" /\ x[i].at >= c, x[i])]
      BY <2>1
    <2> QED BY <2>2 DEF Fresh
  <1>3. V[l] = OnlyIf(l.kind = "event" /\ l.at >= c, l)
    OBVIOUS
  <1>4. Append(s, l) \in Seq(T)
    BY AppendProperties
  <1> HIDE DEF V
  <1>5. FlattenSeq([i \in DOMAIN Append(s, l) |-> V[Append(s, l)[i]]])
            = FlattenSeq([i \in DOMAIN s |-> V[s[i]]]) \o V[l]
    <2>1. PartsGrow(V, s, l)
      BY <1>1, PartsAppend
    <2> QED BY <2>1 DEF PartsGrow
  <1> QED BY <1>2, <1>3, <1>4, <1>5

LEMMA OnlyIfType ==
    ASSUME NEW T \in SUBSET Events, NEW l \in LinesOf(T), NEW c
    PROVE  OnlyIf(l.kind = "event" /\ l.at >= c, l) \in Seq(T)
  BY KindsDiffer, EmptySeq DEF OnlyIf, LinesOf

LEMMA FreshType ==
    ASSUME NEW T \in SUBSET Events, NEW s \in Seq(LinesOf(T)), NEW c
    PROVE  Fresh(s, c) \in Seq(T)
  <1> DEFINE L == LinesOf(T)
             G == {t \in Seq(L) : Fresh(t, c) \in Seq(T)}
  <1>1. << >> \in G
    BY FreshEmpty, EmptySeq
  <1>2. ASSUME NEW t \in Seq(L), NEW l \in L, t \in G
        PROVE  Append(t, l) \in G
    <2>1. Fresh(Append(t, l), c) = Fresh(t, c) \o OnlyIf(l.kind = "event" /\ l.at >= c, l)
      <3> HIDE DEF L
      <3> QED BY FreshAppend
    <2>2. Append(t, l) \in Seq(L)
      BY AppendProperties
    <2>3. OnlyIf(l.kind = "event" /\ l.at >= c, l) \in Seq(T)
      BY OnlyIfType
    <2>4. Fresh(t, c) \in Seq(T)
      BY <1>2
    <2>5. Fresh(Append(t, l), c) \in Seq(T)
      BY <2>1, <2>3, <2>4, ConcatProperties
    <2> QED BY <2>2, <2>5
  <1> HIDE DEF G, L
  <1>3. Seq(L) \subseteq G
    BY <1>1, <1>2, SequencesIn
  <1> QED BY <1>3 DEF G, L

LEMMA FreshConcat ==
    ASSUME NEW s \in Seq(Lines), NEW t \in Seq(Lines), NEW c
    PROVE  Fresh(s \o t, c) = Fresh(s, c) \o Fresh(t, c)
  <1>0. LinesOf(Events) = Lines
    BY DEF LinesOf, Lines
  <1>1. \A x \in Seq(Lines) : Fresh(x, c) \in Seq(Events)
    BY <1>0, FreshType
  <1> DEFINE G == {x \in Seq(Lines) : Fresh(s \o x, c) = Fresh(s, c) \o Fresh(x, c)}
  <1>2. << >> \in G
    BY <1>1, FreshEmpty, EmptySeq, ConcatEmptySeq
  <1>3. ASSUME NEW x \in Seq(Lines), NEW l \in Lines, x \in G
        PROVE  Append(x, l) \in G
    <2> DEFINE v == OnlyIf(l.kind = "event" /\ l.at >= c, l)
    <2>1. s \o x \in Seq(Lines) /\ Append(x, l) \in Seq(Lines)
      BY ConcatProperties, AppendProperties
    <2>2. s \o Append(x, l) = Append(s \o x, l)
      <3>1. <<l>> \in Seq(Lines)
        OBVIOUS
      <3> QED BY <2>1, <3>1, AppendIsConcat, ConcatAssociative
    <2>3. Fresh(Append(s \o x, l), c) = Fresh(s \o x, c) \o v
      BY <2>1, FreshAppend
    <2>4. Fresh(Append(x, l), c) = Fresh(x, c) \o v
      BY FreshAppend
    <2>5. v \in Seq(Events)
      BY <1>0, OnlyIfType
    <2> HIDE DEF v
    <2>6. (Fresh(s, c) \o Fresh(x, c)) \o v = Fresh(s, c) \o (Fresh(x, c) \o v)
      <3>1. Fresh(s, c) \in Seq(Events) /\ Fresh(x, c) \in Seq(Events)
        BY <1>1
      <3> QED BY <2>5, <3>1, EventsRegroup
    <2> QED BY <1>3, <2>1, <2>2, <2>3, <2>4, <2>6
  <1> HIDE DEF G
  <1>4. Seq(Lines) \subseteq G
    BY <1>2, <1>3, SequencesIn
  <1> QED BY <1>4 DEF G

(* Read again later, of what was read the part that is fresh then remains. *)
LEMMA FreshTwice ==
    ASSUME NEW s \in Seq(Lines), NEW c \in Int, NEW d \in Int, c <= d
    PROVE  Fresh(Fresh(s, c), d) = Fresh(s, d)
  <1>0. LinesOf(Events) = Lines /\ Events \subseteq Lines
    BY DEF LinesOf, Lines
  <1>1. \A x \in Seq(Lines) : \A e \in Int : Fresh(x, e) \in Seq(Events)
    BY <1>0, FreshType
  <1> DEFINE G == {x \in Seq(Lines) : Fresh(Fresh(x, c), d) = Fresh(x, d)}
             Value(l, e) == OnlyIf(l.kind = "event" /\ l.at >= e, l)
  <1>2. << >> \in G
    BY FreshEmpty, EmptySeq
  <1>3. ASSUME NEW x \in Seq(Lines), NEW l \in Lines, x \in G
        PROVE  Append(x, l) \in G
    <2>1. Append(x, l) \in Seq(Lines)
      BY AppendProperties
    <2>2. Fresh(Append(x, l), c) = Fresh(x, c) \o Value(l, c)
      BY FreshAppend
    <2>3. Fresh(Append(x, l), d) = Fresh(x, d) \o Value(l, d)
      BY FreshAppend
    <2>4. /\ Value(l, c) \in Seq(Lines) /\ Fresh(x, c) \in Seq(Lines)
          /\ Fresh(x, d) \in Seq(Events)
      BY <1>0, <1>1, OnlyIfType, SeqMonotonic
    <2>5. Fresh(Fresh(x, c) \o Value(l, c), d) = Fresh(x, d) \o Fresh(Value(l, c), d)
      <3>1. PICK v : v = Value(l, c)
        OBVIOUS
      <3>2. PICK y : y = Fresh(x, c)
        OBVIOUS
      <3>3. y \in Seq(Lines) /\ v \in Seq(Lines) /\ Fresh(y, d) = Fresh(x, d)
        BY <1>3, <2>4, <3>1, <3>2
      <3> HIDE DEF Value, G
      <3>4. Fresh(y \o v, d) = Fresh(y, d) \o Fresh(v, d)
        <4>1. y \in Seq(Lines) /\ v \in Seq(Lines)
          BY <3>3
        <4> DEFINE Splits(a, b, e) == Fresh(a \o b, e) = Fresh(a, e) \o Fresh(b, e)
        <4>2. \A a, b \in Seq(Lines) : \A e : Splits(a, b, e)
          BY FreshConcat
        <4>3. Splits(y, v, d)
          <5> HIDE DEF Splits
          <5> QED BY <4>1, <4>2
        <4> QED BY <4>3
      <3> QED BY <3>1, <3>2, <3>3, <3>4
    <2>6. Fresh(Value(l, c), d) = Value(l, d)
      <3>1. CASE l.kind = "event" /\ l.at >= c
        <4>1. Value(l, c) = Append(<< >>, l) /\ << >> \in Seq(Lines)
          BY <3>1, EmptySeq DEF OnlyIf
        <4>2. Fresh(Append(<< >>, l), d) = << >> \o Value(l, d)
          <5>1. << >> \in Seq(Lines) /\ Fresh(<< >>, d) = << >>
            BY EmptySeq, FreshEmpty
          <5>2. Fresh(Append(<< >>, l), d)
                    = Fresh(<< >>, d) \o OnlyIf(l.kind = "event" /\ l.at >= d, l)
            BY <5>1, FreshAppend
          <5> QED BY <5>1, <5>2
        <4>3. << >> \o Value(l, d) = Value(l, d)
          BY <1>0, OnlyIfType, ConcatEmptySeq
        <4> QED BY <4>1, <4>2, <4>3
      <3>2. CASE ~ (l.kind = "event" /\ l.at >= c)
        <4>1. ~ (l.kind = "event" /\ l.at >= d)
          BY <3>2, <1>0, KindsDiffer DEF Lines
        <4>2. Value(l, c) = << >> /\ Value(l, d) = << >>
          BY <3>2, <4>1 DEF OnlyIf
        <4> QED BY <4>2, FreshEmpty
      <3> QED BY <3>1, <3>2
    <2> QED BY <2>1, <2>2, <2>3, <2>5, <2>6
  <1> HIDE DEF G
  <1>4. Seq(Lines) \subseteq G
    BY <1>2, <1>3, SequencesIn
  <1> QED BY <1>4 DEF G

(* Of lines that are too old nothing is read. *)
LEMMA FreshOld ==
    ASSUME NEW c \in Int, NEW s \in Seq({l \in Lines : l.kind = "event" => ~ (l.at >= c)})
    PROVE  Fresh(s, c) = << >>
  <1> DEFINE L == {l \in Lines : l.kind = "event" => ~ (l.at >= c)}
             G == {x \in Seq(L) : Fresh(x, c) = << >>}
  <1>1. << >> \in G
    BY FreshEmpty, EmptySeq
  <1>2. ASSUME NEW x \in Seq(L), NEW l \in L, x \in G
        PROVE  Append(x, l) \in G
    <2>1. Fresh(Append(x, l), c) = Fresh(x, c) \o OnlyIf(l.kind = "event" /\ l.at >= c, l)
      <3> HIDE DEF L
      <3> QED BY FreshAppend
    <2>2. OnlyIf(l.kind = "event" /\ l.at >= c, l) = << >>
      BY DEF OnlyIf
    <2>3. << >> \o << >> = << >>
      BY EmptySeq, ConcatEmptySeq
    <2>4. Append(x, l) \in Seq(L)
      BY AppendProperties
    <2> QED BY <1>2, <2>1, <2>2, <2>3, <2>4
  <1> HIDE DEF G, L
  <1>3. Seq(L) \subseteq G
    BY <1>1, <1>2, SequencesIn
  <1> QED BY <1>3 DEF G, L
-----------------------------------------------------------------------------
(* The files. *)
SegmentsOf(T) == [lines : Seq(LinesOf(T)), mtime : Nat]

(* Written at most at t, and not before any of its events. *)
Dated(t) ==
    {s \in Segments : /\ s.mtime <= t
                      /\ \A i \in 1 .. Len(s.lines) :
                            s.lines[i].kind = "event" => s.lines[i].at <= s.mtime}

LEMMA ReadEmpty ==
    ASSUME NEW c
    PROVE  ReadFrom(<< >>, c) = << >> /\ Young(<< >>, c) = << >>
  <1>1. << >> \in Seq({}) /\ Len(<< >>) = 0
    BY EmptySeq
  <1> DEFINE F == [i \in DOMAIN << >> |-> Fresh(<< >>[i].lines, c)]
             G == [i \in DOMAIN << >> |-> OnlyIf(<< >>[i].mtime >= c, << >>[i])]
  <1>2. DOMAIN << >> = 1 .. 0
    BY <1>1, LenProperties
  <1>3. F \in Seq({}) /\ Len(F) = 0
    BY <1>2
  <1>4. G \in Seq({}) /\ Len(G) = 0
    BY <1>2
  <1>5. F = << >> /\ G = << >>
    BY <1>3, <1>4, EmptySeq
  <1> QED BY <1>5, FlattenEmpty DEF ReadFrom, Young

LEMMA PartsRead ==
    ASSUME NEW A, NEW B, NEW s \in Seq(A), NEW g \in A, NEW c,
           \A x \in A : Fresh(x.lines, c) \in Seq(B)
    PROVE  ReadFrom(Append(s, g), c) = ReadFrom(s, c) \o Fresh(g.lines, c)
  <1> DEFINE V == [x \in A |-> Fresh(x.lines, c)]
  <1>1. \A x \in A : V[x] \in Seq(B)
    OBVIOUS
  <1>2. Append(s, g) \in Seq(A)
    BY AppendProperties
  <1>3. ASSUME NEW x \in Seq(A)
        PROVE  ReadFrom(x, c) = FlattenSeq([i \in DOMAIN x |-> V[x[i]]])
    <2>1. \A i \in DOMAIN x : x[i] \in A
      BY LenProperties, ElementOfSeq
    <2>2. [i \in DOMAIN x |-> V[x[i]]] = [i \in DOMAIN x |-> Fresh(x[i].lines, c)]
      BY <2>1
    <2> QED BY <2>2 DEF ReadFrom
  <1>4. V[g] = Fresh(g.lines, c)
    OBVIOUS
  <1> HIDE DEF V
  <1>5. FlattenSeq([i \in DOMAIN Append(s, g) |-> V[Append(s, g)[i]]])
            = FlattenSeq([i \in DOMAIN s |-> V[s[i]]]) \o V[g]
    <2>1. PartsGrow(V, s, g)
      BY <1>1, PartsAppend
    <2> QED BY <2>1 DEF PartsGrow
  <1> QED BY <1>2, <1>3, <1>4, <1>5

LEMMA ReadAppend ==
    ASSUME NEW T \in SUBSET Events, NEW s \in Seq(SegmentsOf(T)), NEW g \in SegmentsOf(T),
           NEW c
    PROVE  /\ ReadFrom(Append(s, g), c) = ReadFrom(s, c) \o Fresh(g.lines, c)
           /\ Fresh(g.lines, c) \in Seq(T)
  <1>1. \A x \in SegmentsOf(T) : Fresh(x.lines, c) \in Seq(T)
    BY FreshType DEF SegmentsOf
  <1> QED BY <1>1, PartsRead

LEMMA YoungAppend ==
    ASSUME NEW S, NEW s \in Seq(S), NEW g \in S, NEW c
    PROVE  Young(Append(s, g), c) = Young(s, c) \o OnlyIf(g.mtime >= c, g)
  <1> DEFINE V == [x \in S |-> OnlyIf(x.mtime >= c, x)]
  <1>2. \A x \in S : V[x] \in Seq(S)
    BY EmptySeq DEF OnlyIf
  <1>3. Append(s, g) \in Seq(S)
    BY AppendProperties
  <1>4. ASSUME NEW x \in Seq(S)
        PROVE  Young(x, c) = FlattenSeq([i \in DOMAIN x |-> V[x[i]]])
    <2>1. \A i \in DOMAIN x : x[i] \in S
      BY LenProperties, ElementOfSeq
    <2>2. [i \in DOMAIN x |-> V[x[i]]] = [i \in DOMAIN x |-> OnlyIf(x[i].mtime >= c, x[i])]
      BY <2>1
    <2> QED BY <2>2 DEF Young
  <1>5. V[g] = OnlyIf(g.mtime >= c, g)
    OBVIOUS
  <1> HIDE DEF V
  <1>6. FlattenSeq([i \in DOMAIN Append(s, g) |-> V[Append(s, g)[i]]])
            = FlattenSeq([i \in DOMAIN s |-> V[s[i]]]) \o V[g]
    <2>1. PartsGrow(V, s, g)
      BY <1>2, PartsAppend
    <2> QED BY <2>1 DEF PartsGrow
  <1> QED BY <1>3, <1>4, <1>5, <1>6

LEMMA YoungType ==
    ASSUME NEW S, NEW s \in Seq(S), NEW c
    PROVE  Young(s, c) \in Seq(S)
  <1> DEFINE G == {t \in Seq(S) : Young(t, c) \in Seq(S)}
  <1>1. << >> \in G
    BY ReadEmpty, EmptySeq
  <1>2. ASSUME NEW t \in Seq(S), NEW g \in S, t \in G
        PROVE  Append(t, g) \in G
    <2>1. Young(Append(t, g), c) = Young(t, c) \o OnlyIf(g.mtime >= c, g)
      BY YoungAppend
    <2>2. OnlyIf(g.mtime >= c, g) \in Seq(S)
      BY EmptySeq DEF OnlyIf
    <2>3. Young(Append(t, g), c) \in Seq(S)
      BY <1>2, <2>1, <2>2, ConcatProperties
    <2> QED BY <2>3, AppendProperties
  <1> HIDE DEF G
  <1>3. Seq(S) \subseteq G
    BY <1>1, <1>2, SequencesIn
  <1> QED BY <1>3 DEF G

LEMMA ReadType ==
    ASSUME NEW T \in SUBSET Events, NEW s \in Seq(SegmentsOf(T)), NEW c
    PROVE  ReadFrom(s, c) \in Seq(T)
  <1> DEFINE S == SegmentsOf(T)
             G == {t \in Seq(S) : ReadFrom(t, c) \in Seq(T)}
  <1>1. << >> \in G
    BY ReadEmpty, EmptySeq
  <1>2. ASSUME NEW t \in Seq(S), NEW g \in S, t \in G
        PROVE  Append(t, g) \in G
    <2>1. /\ ReadFrom(Append(t, g), c) = ReadFrom(t, c) \o Fresh(g.lines, c)
          /\ Fresh(g.lines, c) \in Seq(T)
      BY ReadAppend
    <2>2. ReadFrom(Append(t, g), c) \in Seq(T)
      BY <1>2, <2>1, ConcatProperties
    <2> QED BY <2>2, AppendProperties
  <1> HIDE DEF G, S
  <1>3. Seq(S) \subseteq G
    BY <1>1, <1>2, SequencesIn
  <1> QED BY <1>3 DEF G, S

LEMMA AllSegments ==
    /\ LinesOf(Events) = Lines /\ SegmentsOf(Events) = Segments
    /\ \A s \in Seq(Segments) : \A c : ReadFrom(s, c) \in Seq(Events)
    /\ \A s \in Seq(Lines) : \A c : Fresh(s, c) \in Seq(Events)
  <1>1. LinesOf(Events) = Lines
    BY DEF LinesOf, Lines
  <1>2. SegmentsOf(Events) = Segments
    BY <1>1 DEF SegmentsOf, Segments
  <1> QED BY <1>1, <1>2, ReadType, FreshType

LEMMA ReadConcat ==
    ASSUME NEW s \in Seq(Segments), NEW t \in Seq(Segments), NEW c
    PROVE  ReadFrom(s \o t, c) = ReadFrom(s, c) \o ReadFrom(t, c)
  <1> DEFINE G == {x \in Seq(Segments) :
                      ReadFrom(s \o x, c) = ReadFrom(s, c) \o ReadFrom(x, c)}
  <1>2. << >> \in G
    BY AllSegments, ReadEmpty, EmptySeq, ConcatEmptySeq
  <1>3. ASSUME NEW x \in Seq(Segments), NEW g \in Segments, x \in G
        PROVE  Append(x, g) \in G
    <2>1. s \o x \in Seq(Segments) /\ Append(x, g) \in Seq(Segments)
      BY ConcatProperties, AppendProperties
    <2>2. s \o Append(x, g) = Append(s \o x, g)
      <3>1. <<g>> \in Seq(Segments)
        OBVIOUS
      <3> QED BY <2>1, <3>1, AppendIsConcat, ConcatAssociative
    <2>3. /\ ReadFrom(Append(s \o x, g), c) = ReadFrom(s \o x, c) \o Fresh(g.lines, c)
          /\ ReadFrom(Append(x, g), c) = ReadFrom(x, c) \o Fresh(g.lines, c)
          /\ Fresh(g.lines, c) \in Seq(Events)
      BY <2>1, AllSegments, ReadAppend
    <2>4. /\ ReadFrom(s, c) \in Seq(Events) /\ ReadFrom(x, c) \in Seq(Events)
      BY AllSegments
    <2>5. (ReadFrom(s, c) \o ReadFrom(x, c)) \o Fresh(g.lines, c)
              = ReadFrom(s, c) \o (ReadFrom(x, c) \o Fresh(g.lines, c))
      BY <2>3, <2>4, EventsRegroup
    <2>6. ReadFrom(s \o x, c) = ReadFrom(s, c) \o ReadFrom(x, c)
      BY <1>3
    <2> QED BY <2>1, <2>2, <2>3, <2>5, <2>6
  <1> HIDE DEF G
  <1>4. Seq(Segments) \subseteq G
    BY <1>2, <1>3, SequencesIn
  <1> QED BY <1>4 DEF G

LEMMA ReadLater ==
    ASSUME NEW s \in Seq(Segments), NEW c \in Int, NEW d \in Int, c <= d
    PROVE  Fresh(ReadFrom(s, c), d) = ReadFrom(s, d)
  <1> DEFINE G == {x \in Seq(Segments) : Fresh(ReadFrom(x, c), d) = ReadFrom(x, d)}
  <1>2. << >> \in G
    BY ReadEmpty, FreshEmpty, EmptySeq
  <1>3. ASSUME NEW x \in Seq(Segments), NEW g \in Segments, x \in G
        PROVE  Append(x, g) \in G
    <2>1. /\ ReadFrom(Append(x, g), c) = ReadFrom(x, c) \o Fresh(g.lines, c)
          /\ ReadFrom(Append(x, g), d) = ReadFrom(x, d) \o Fresh(g.lines, d)
      BY AllSegments, ReadAppend
    <2>2. ReadFrom(x, c) \in Seq(Lines) /\ Fresh(g.lines, c) \in Seq(Lines)
      <3>1. g.lines \in Seq(Lines) /\ Events \subseteq Lines
        BY DEF Segments, Lines
      <3>2. ReadFrom(x, c) \in Seq(Events) /\ Fresh(g.lines, c) \in Seq(Events)
        BY <3>1, AllSegments
      <3> QED BY <3>1, <3>2, SeqMonotonic
    <2>3. Fresh(ReadFrom(x, c) \o Fresh(g.lines, c), d)
              = Fresh(ReadFrom(x, c), d) \o Fresh(Fresh(g.lines, c), d)
      BY <2>2, FreshConcat
    <2>4. Fresh(Fresh(g.lines, c), d) = Fresh(g.lines, d)
      BY FreshTwice DEF Segments
    <2>5. Fresh(ReadFrom(x, c), d) = ReadFrom(x, d)
      BY <1>3
    <2>6. Append(x, g) \in Seq(Segments)
      BY AppendProperties
    <2> QED BY <2>1, <2>3, <2>4, <2>5, <2>6
  <1> HIDE DEF G
  <1>4. Seq(Segments) \subseteq G
    BY <1>2, <1>3, SequencesIn
  <1> QED BY <1>4 DEF G

(* What is in a segment that is too old is too old itself. *)
LEMMA ReadYoung ==
    ASSUME NEW t \in Nat, NEW s \in Seq(Dated(t)), NEW c \in Int
    PROVE  ReadFrom(Young(s, c), c) = ReadFrom(s, c)
  <1> DEFINE D == Dated(t)
             G == {x \in Seq(D) : ReadFrom(Young(x, c), c) = ReadFrom(x, c)}
  <1>1. D \subseteq Segments /\ \A x \in Seq(D) : x \in Seq(Segments)
    BY SeqMonotonic DEF Dated
  <1>2. << >> \in G
    BY ReadEmpty, EmptySeq
  <1>3. ASSUME NEW x \in Seq(D), NEW g \in D, x \in G
        PROVE  Append(x, g) \in G
    <2>1. Young(Append(x, g), c) = Young(x, c) \o OnlyIf(g.mtime >= c, g)
      <3> HIDE DEF D
      <3> QED BY YoungAppend
    <2>2. g \in Segments /\ x \in Seq(Segments) /\ Young(x, c) \in Seq(Segments)
      BY <1>1, YoungType
    <2>3. ReadFrom(Append(x, g), c) = ReadFrom(x, c) \o Fresh(g.lines, c)
      BY <2>2, AllSegments, ReadAppend
    <2>4. /\ Fresh(g.lines, c) \in Seq(Events) /\ g.lines \in Seq(Lines)
          /\ ReadFrom(x, c) \in Seq(Events)
      BY <2>2, AllSegments DEF Segments
    <2>5. ReadFrom(OnlyIf(g.mtime >= c, g), c) = Fresh(g.lines, c)
      <3>1. CASE g.mtime >= c
        <4>1. OnlyIf(g.mtime >= c, g) = Append(<< >>, g) /\ << >> \in Seq(Segments)
          BY <3>1, EmptySeq DEF OnlyIf
        <4>2. ReadFrom(Append(<< >>, g), c) = ReadFrom(<< >>, c) \o Fresh(g.lines, c)
          BY <2>2, <4>1, AllSegments, ReadAppend
        <4> QED BY <2>4, <4>1, <4>2, ReadEmpty, ConcatEmptySeq
      <3>2. CASE ~ (g.mtime >= c)
        <4> DEFINE L == {l \in Lines : l.kind = "event" => ~ (l.at >= c)}
                   n == Len(g.lines)
        <4>1. n \in Nat /\ g.lines \in [1 .. n -> Lines] /\ g.mtime \in Nat
          BY <2>2, <2>4, LenProperties DEF Segments
        <4>2. \A i \in 1 .. n : g.lines[i].kind = "event" => g.lines[i].at <= g.mtime
          BY DEF Dated
        <4>3. ASSUME NEW i \in 1 .. n PROVE g.lines[i] \in L
          <5>1. g.lines[i] \in Lines
            BY <4>1
          <5>2. g.lines[i].kind = "event" => g.lines[i].at \in Nat
            BY <5>1, KindsDiffer DEF Lines
          <5> QED BY <5>1, <5>2, <4>1, <4>2, <3>2
        <4> HIDE DEF L
        <4>4. g.lines \in [1 .. n -> L]
          BY <4>1, <4>3
        <4>5. g.lines \in Seq(L)
          BY <4>1, <4>4, FunctionIsSeq
        <4>6. Fresh(g.lines, c) = << >>
          BY <4>5, FreshOld DEF L
        <4>7. OnlyIf(g.mtime >= c, g) = << >>
          BY <3>2 DEF OnlyIf
        <4> QED BY <4>6, <4>7, ReadEmpty
      <3> QED BY <3>1, <3>2
    <2>6. ReadFrom(Young(x, c) \o OnlyIf(g.mtime >= c, g), c)
              = ReadFrom(Young(x, c), c) \o ReadFrom(OnlyIf(g.mtime >= c, g), c)
      <3>1. OnlyIf(g.mtime >= c, g) \in Seq(Segments)
        BY <2>2, EmptySeq DEF OnlyIf
      <3> QED BY <2>2, <3>1, ReadConcat
    <2>7. ReadFrom(Young(x, c), c) = ReadFrom(x, c)
      BY <1>3
    <2>8. Append(x, g) \in Seq(D)
      <3> HIDE DEF D
      <3> QED BY AppendProperties
    <2> QED BY <2>1, <2>3, <2>5, <2>6, <2>7, <2>8
  <1> HIDE DEF G, D
  <1>4. Seq(D) \subseteq G
    BY <1>2, <1>3, SequencesIn
  <1> QED BY <1>4 DEF G, D
-----------------------------------------------------------------------------
(* What the event store does to its files, of which d is a state. *)
Disks(S) == Seq(S) \X S
Files(d) == Append(d[1], d[2])
Until(t) == {e \in Events : e.at <= t}

LEMMA SplitSeq ==
    ASSUME NEW S, NEW s \in Seq(S), NEW n \in 0 .. Len(s)
    PROVE  /\ Take(s, n) \in Seq(S) /\ Drop(s, n) \in Seq(S) /\ s = Take(s, n) \o Drop(s, n)
           /\ Len(Take(s, n)) = n /\ \A i \in 1 .. n : Take(s, n)[i] = s[i]
           /\ Len(Drop(s, n)) = Len(s) - n
           /\ \A i \in 1 .. Len(s) - n : Drop(s, n)[i] = s[n + i]
  <1>1. Len(s) \in Nat /\ \A i \in 1 .. Len(s) : s[i] \in S
    BY LenProperties, ElementOfSeq
  <1>2. /\ Take(s, n) \in Seq(S) /\ Len(Take(s, n)) = n
        /\ \A i \in 1 .. n : Take(s, n)[i] = s[i]
    <2>1. \A i \in 1 .. n : s[i] \in S
      BY <1>1
    <2>2. /\ SubSeq(s, 1, n) \in Seq(S)
          /\ Len(SubSeq(s, 1, n)) = IF 1 <= n THEN n - 1 + 1 ELSE 0
          /\ \A i \in 1 .. n - 1 + 1 : SubSeq(s, 1, n)[i] = s[1 + i - 1]
      BY <2>1, SubSeqProperties
    <2> QED BY <2>2, <1>1 DEF Take
  <1>3. /\ Drop(s, n) \in Seq(S) /\ Len(Drop(s, n)) = Len(s) - n
        /\ \A i \in 1 .. Len(s) - n : Drop(s, n)[i] = s[n + i]
    <2> DEFINE m == n + 1
               k == Len(s)
    <2>1. m \in Int /\ k \in Int /\ \A i \in m .. k : s[i] \in S
      BY <1>1
    <2> HIDE DEF m, k
    <2>2. /\ SubSeq(s, m, k) \in Seq(S)
          /\ Len(SubSeq(s, m, k)) = IF m <= k THEN k - m + 1 ELSE 0
          /\ \A i \in 1 .. k - m + 1 : SubSeq(s, m, k)[i] = s[m + i - 1]
      BY <2>1, SubSeqProperties
    <2>3. \A i \in 1 .. k - n : i \in 1 .. k - m + 1 /\ m + i - 1 = n + i
      BY <1>1 DEF m, k
    <2> QED BY <2>2, <2>3, <1>1 DEF Drop, m, k
  <1>4. s = Take(s, n) \o Drop(s, n)
    <2>1. /\ Take(s, n) \o Drop(s, n) \in Seq(S)
          /\ Len(Take(s, n) \o Drop(s, n)) = n + (Len(s) - n)
          /\ \A i \in 1 .. n + (Len(s) - n) : (Take(s, n) \o Drop(s, n))[i] =
                 IF i <= n THEN Take(s, n)[i] ELSE Drop(s, n)[i - n]
      BY <1>2, <1>3, ConcatProperties
    <2>2. \A i \in 1 .. Len(s) : (Take(s, n) \o Drop(s, n))[i] = s[i]
      <3> SUFFICES ASSUME NEW i \in 1 .. Len(s)
                   PROVE  (Take(s, n) \o Drop(s, n))[i] = s[i]
        OBVIOUS
      <3>1. i \in 1 .. n + (Len(s) - n)
        BY <1>1
      <3>2. CASE i <= n
        BY <3>1, <3>2, <1>1, <1>2, <2>1
      <3>3. CASE ~ (i <= n)
        <4>1. i - n \in 1 .. Len(s) - n /\ n + (i - n) = i
          BY <3>3, <1>1
        <4> QED BY <3>1, <3>3, <4>1, <1>3, <2>1
      <3> QED BY <3>2, <3>3
    <2>3. PICK v : v = Take(s, n) \o Drop(s, n)
      OBVIOUS
    <2>4. v \in Seq(S) /\ Len(v) = Len(s) /\ \A i \in 1 .. Len(s) : s[i] = v[i]
      BY <2>1, <2>2, <2>3, <1>1
    <2>5. s = v
      BY <2>4, SeqEqual
    <2> QED BY <2>3, <2>5
  <1> QED BY <1>2, <1>3, <1>4

LEMMA DatedAre ==
    ASSUME NEW t \in Nat
    PROVE  /\ \A s \in SegmentsOf(Until(t)) : s.mtime = t => s \in Dated(t)
           /\ Dated(t) \subseteq SegmentsOf(Until(t))
           /\ Dated(t) \subseteq Segments
           /\ NoSegment \in Dated(t)
  <1>1. ASSUME NEW s \in SegmentsOf(Until(t)), s.mtime = t PROVE s \in Dated(t)
    <2>1. s.lines \in Seq(LinesOf(Until(t)))
      BY DEF SegmentsOf
    <2>2. LinesOf(Until(t)) \subseteq Lines
      BY DEF LinesOf, Until, Lines
    <2>3. s \in Segments
      BY <2>1, <2>2, SeqMonotonic DEF SegmentsOf, Segments
    <2>4. \A i \in 1 .. Len(s.lines) : s.lines[i] \in LinesOf(Until(t))
      BY <2>1, ElementOfSeq
    <2>5. \A i \in 1 .. Len(s.lines) : s.lines[i].kind = "event" => s.lines[i].at <= t
      BY <2>4, KindsDiffer DEF LinesOf, Until
    <2> QED BY <1>1, <2>3, <2>5 DEF Dated
  <1>2. ASSUME NEW s \in Dated(t) PROVE s \in SegmentsOf(Until(t))
    <2>1. s \in Segments /\ s.lines \in Seq(Lines) /\ s.mtime \in Nat /\ s.mtime <= t
      BY DEF Dated, Segments
    <2>2. Len(s.lines) \in Nat /\ s.lines \in [1 .. Len(s.lines) -> Lines]
      BY <2>1, LenProperties
    <2>3. ASSUME NEW i \in 1 .. Len(s.lines) PROVE s.lines[i] \in LinesOf(Until(t))
      <3>1. s.lines[i] \in Lines
        BY <2>2
      <3>2. s.lines[i].kind = "event" => s.lines[i].at <= s.mtime
        BY DEF Dated
      <3>3. CASE s.lines[i] \in Events
        <4>1. s.lines[i].kind = "event" /\ s.lines[i].at \in Nat
          BY <3>3, KindsDiffer
        <4>2. s.lines[i].at <= t
          BY <4>1, <3>2, <2>1
        <4> QED BY <3>3, <4>2 DEF LinesOf, Until
      <3>4. CASE s.lines[i] \notin Events
        BY <3>1, <3>4 DEF Lines, LinesOf
      <3> QED BY <3>3, <3>4
    <2>4. s.lines \in Seq(LinesOf(Until(t)))
      <3>1. s.lines \in [1 .. Len(s.lines) -> LinesOf(Until(t))]
        BY <2>2, <2>3
      <3> QED BY <2>2, <3>1, FunctionIsSeq
    <2> QED BY <2>1, <2>4 DEF SegmentsOf, Segments
  <1>3. NoSegment \in Dated(t)
    <2>1. << >> \in Seq(Lines) /\ Len(<< >>) = 0
      BY EmptySeq
    <2> QED BY <2>1 DEF Dated, NoSegment, Segment, Segments
  <1>4. Dated(t) \subseteq Segments
    BY DEF Dated
  <1> QED BY <1>1, <1>2, <1>3, <1>4

LEMMA RotatedType ==
    ASSUME NEW S, NoSegment \in S, NEW d \in Disks(S)
    PROVE  RotatedFirst(d) \in Disks(S)
  <1>1. d[1] \in Seq(S) /\ d[2] \in S
    BY DEF Disks
  <1>2. Append(d[1], d[2]) \in Seq(S)
    BY <1>1, AppendProperties
  <1> QED BY <1>2 DEF RotatedFirst, Disks

LEMMA WrittenType ==
    ASSUME NEW T \in SUBSET Events, NEW S, NEW d, d[1] \in Seq(S), d[2] \in SegmentsOf(T),
           NEW l \in LinesOf(T), now \in Nat
    PROVE  /\ Written(d, l) = <<d[1], Written(d, l)[2]>>
           /\ Written(d, l)[2] \in SegmentsOf(T) /\ Written(d, l)[2].mtime = now
  <1> DEFINE L == d[2].lines
             joined == IF l = Torn THEN Torn ELSE Malformed
             open == L # << >> /\ Last(L) = Torn
             M == IF open THEN Append(Front(L), joined) ELSE Append(L, l)
  <1>1. L \in Seq(LinesOf(T)) /\ joined \in LinesOf(T)
    BY DEF SegmentsOf, LinesOf
  <1>2. M \in Seq(LinesOf(T))
    <2>1. CASE open
      <3>1. Len(L) \in Nat /\ Len(L) # 0
        BY <1>1, <2>1, EmptySeq
      <3>2. Front(L) = Take(L, Len(L) - 1) /\ Len(L) - 1 \in 0 .. Len(L)
        BY <3>1 DEF Front, Take
      <3>3. Front(L) \in Seq(LinesOf(T))
        BY <1>1, <3>2, SplitSeq
      <3>4. Append(Front(L), joined) \in Seq(LinesOf(T))
        BY <1>1, <3>3, AppendProperties
      <3> QED BY <2>1, <3>4
    <2>2. CASE ~ open
      <3>1. Append(L, l) \in Seq(LinesOf(T))
        BY <1>1, AppendProperties
      <3> QED BY <2>2, <3>1
    <2> QED BY <2>1, <2>2
  <1>3. Written(d, l) = <<d[1], Segment(M, now)>>
    BY DEF Written
  <1> HIDE DEF M
  <1>4. Segment(M, now) \in SegmentsOf(T) /\ Segment(M, now).mtime = now
    BY <1>2 DEF Segment, SegmentsOf
  <1> QED BY <1>3, <1>4

LEMMA TrimmedType ==
    ASSUME NEW T \in SUBSET Events, NEW s \in SegmentsOf(T), NEW limit \in Nat, now \in Nat
    PROVE  /\ Trimmed(s, limit) \in SegmentsOf(T) /\ Trimmed(s, limit).mtime = now
           /\ \A c : Ends(Fresh(Trimmed(s, limit).lines, c), Fresh(s.lines, c))
           /\ (\A i \in 1 .. Len(s.lines) : s.lines[i].kind = "event")
                => \A i \in 1 .. Len(Trimmed(s, limit).lines) :
                       Trimmed(s, limit).lines[i].kind = "event"
  <1> DEFINE L == s.lines
             n == IF Len(L) > limit THEN Len(L) - limit ELSE 0
             kept == Drop(L, n)
             M == [i \in DOMAIN kept |-> IF kept[i] = Torn THEN Malformed ELSE kept[i]]
             m == Len(kept)
  <1>1. L \in Seq(LinesOf(T)) /\ Len(L) \in Nat
    BY LenProperties DEF SegmentsOf
  <1>2. n \in 0 .. Len(L)
    BY <1>1
  <1>3. /\ Take(L, n) \in Seq(LinesOf(T)) /\ kept \in Seq(LinesOf(T))
        /\ L = Take(L, n) \o kept
        /\ m = Len(L) - n /\ \A i \in 1 .. Len(L) - n : kept[i] = L[n + i]
    <2>1. PICK S : S = LinesOf(T)
      OBVIOUS
    <2> HIDE DEF n, L
    <2>2. L \in Seq(S) /\ n \in 0 .. Len(L)
      BY <1>1, <1>2, <2>1
    <2>3. /\ Take(L, n) \in Seq(S) /\ Drop(L, n) \in Seq(S) /\ L = Take(L, n) \o Drop(L, n)
          /\ Len(Drop(L, n)) = Len(L) - n
          /\ \A i \in 1 .. Len(L) - n : Drop(L, n)[i] = L[n + i]
      BY <2>2, SplitSeq
    <2> QED BY <2>1, <2>3
  <1>4. m \in Nat /\ DOMAIN kept = 1 .. m /\ \A i \in 1 .. m : kept[i] \in LinesOf(T)
    <2> HIDE DEF kept
    <2> QED BY <1>3, LenProperties, ElementOfSeq
  <1>5. Trimmed(s, limit) = Segment(M, now)
    BY DEF Trimmed
  <1> HIDE DEF kept, m, n
  <1>6. \A i \in 1 .. m : M[i] = IF kept[i] = Torn THEN Malformed ELSE kept[i]
    BY <1>4
  <1>7. M \in Seq(LinesOf(T)) /\ Len(M) = m /\ DOMAIN M = 1 .. m
    <2>1. M \in [1 .. m -> LinesOf(T)]
      BY <1>4 DEF LinesOf
    <2> HIDE DEF M
    <2> QED BY <1>4, <2>1, FunctionIsSeq
  <1> HIDE DEF M
  <1>8. Segment(M, now) \in SegmentsOf(T) /\ Segment(M, now).mtime = now
        /\ Segment(M, now).lines = M
    BY <1>7 DEF Segment, SegmentsOf
  <1>9. ASSUME NEW c PROVE Ends(Fresh(M, c), Fresh(L, c))
    <2>1. LinesOf(T) \subseteq Lines
      BY DEF LinesOf, Lines
    <2>2. Take(L, n) \in Seq(Lines) /\ kept \in Seq(Lines) /\ M \in Seq(Lines)
      BY <1>3, <1>7, <2>1, SeqMonotonic
    <2>3. Fresh(L, c) = Fresh(Take(L, n), c) \o Fresh(kept, c)
      <3>1. PICK a : a = Take(L, n)
        OBVIOUS
      <3>2. Fresh(a \o kept, c) = Fresh(a, c) \o Fresh(kept, c)
        BY <2>2, <3>1, FreshConcat
      <3> QED BY <1>3, <3>1, <3>2
    <2>4. Fresh(M, c) = Fresh(kept, c)
      <3>1. ASSUME NEW i \in 1 .. m
            PROVE  OnlyIf(M[i].kind = "event" /\ M[i].at >= c, M[i])
                       = OnlyIf(kept[i].kind = "event" /\ kept[i].at >= c, kept[i])
        <4>1. CASE kept[i] = Torn
          <5>1. M[i] = Malformed
            BY <1>6, <4>1
          <5> QED BY <4>1, <5>1, KindsDiffer DEF OnlyIf
        <4>2. CASE kept[i] # Torn
          BY <1>6, <4>2
        <4> QED BY <4>1, <4>2
      <3>2. [i \in 1 .. m |-> OnlyIf(M[i].kind = "event" /\ M[i].at >= c, M[i])]
              = [i \in 1 .. m |-> OnlyIf(kept[i].kind = "event" /\ kept[i].at >= c, kept[i])]
        BY <3>1
      <3> QED BY <1>4, <1>7, <3>2 DEF Fresh
    <2>5. Fresh(Take(L, n), c) \in Seq(Events)
      BY <2>2, AllSegments
    <2> QED BY <2>3, <2>4, <2>5 DEF Ends
  <1>10. ASSUME \A i \in 1 .. Len(L) : L[i].kind = "event"
         PROVE  \A i \in 1 .. Len(M) : M[i].kind = "event"
    <2> SUFFICES ASSUME NEW i \in 1 .. m PROVE M[i].kind = "event"
      BY <1>7
    <2>1. kept[i] = L[n + i] /\ n + i \in 1 .. Len(L)
      BY <1>1, <1>2, <1>3, <1>4
    <2>2. kept[i].kind = "event"
      BY <1>10, <2>1
    <2> QED BY <1>6, <2>2, KindsDiffer
  <1> QED BY <1>5, <1>8, <1>9, <1>10

LEMMA RetainedIs ==
    ASSUME NEW S, NEW d \in Disks(S), NEW limit
    PROVE  LET young == Young(d[1], now - MaxAge)
           IN  \E n \in 0 .. Len(young) :
                  \/ Retained(d, limit) = <<Drop(young, n), d[2]>>
                  \/ /\ n = Len(young)
                     /\ Retained(d, limit) = <<Drop(young, n), Trimmed(d[2], limit)>>
  <1> DEFINE young == Young(d[1], now - MaxAge)
             Fits(n) == Size(Drop(young, n)) + Len(d[2].lines) <= limit
             Ok(n) == /\ n = Len(young) \/ Fits(n)
                      /\ \A m \in 0 .. n - 1 : ~ Fits(m)
             N == {n \in 0 .. Len(young) : n = Len(young) \/ Fits(n)}
             k == CHOOSE n \in 0 .. Len(young) : Ok(n)
  <1>1. Len(young) \in Nat
    BY YoungType, LenProperties DEF Disks
  <1>2. Retained(d, limit) = <<Drop(young, k), IF Fits(k) THEN d[2] ELSE Trimmed(d[2], limit)>>
    BY DEF Retained
  <1> HIDE DEF young, Fits
  <1>3. \E n \in 0 .. Len(young) : Ok(n)
    <2>1. N \in SUBSET Nat /\ N # {}
      BY <1>1
    <2>2. PICK n \in N : \A m \in N : n <= m
      BY <2>1, LeastNat
    <2>3. n \in 0 .. Len(young)
      BY <2>2
    <2>4. ASSUME NEW m \in 0 .. n - 1, Fits(m) PROVE FALSE
      <3>1. m \in N /\ m < n
        BY <1>1, <2>3, <2>4
      <3> QED BY <2>2, <2>3, <3>1
    <2> QED BY <2>2, <2>3, <2>4
  <1>4. k \in 0 .. Len(young) /\ Ok(k)
    BY <1>3
  <1> HIDE DEF k
  <1> QED BY <1>2, <1>4 DEF young
LEMMA SegmentsIn ==
    ASSUME NEW T \in SUBSET Events
    PROVE  /\ SegmentsOf(T) \subseteq Segments /\ NoSegment \in SegmentsOf(T)
           /\ Seq(SegmentsOf(T)) \subseteq Seq(Segments)
  <1>1. LinesOf(T) \subseteq Lines
    BY DEF LinesOf, Lines
  <1>2. SegmentsOf(T) \subseteq Segments
    BY <1>1, SeqMonotonic DEF SegmentsOf, Segments
  <1>3. NoSegment \in SegmentsOf(T)
    BY EmptySeq DEF NoSegment, Segment, SegmentsOf
  <1> QED BY <1>2, <1>3, SeqMonotonic

LEMMA FilesRead ==
    ASSUME NEW d \in Disks(Segments), NEW c
    PROVE  /\ ReadFrom(Files(d), c) = ReadFrom(d[1], c) \o Fresh(d[2].lines, c)
           /\ ReadFrom(d[1], c) \in Seq(Events) /\ Fresh(d[2].lines, c) \in Seq(Events)
           /\ ReadFrom(Files(d), c) \in Seq(Events)
  <1>1. d[1] \in Seq(Segments) /\ d[2] \in Segments
    BY DEF Disks
  <1>2. /\ ReadFrom(Append(d[1], d[2]), c) = ReadFrom(d[1], c) \o Fresh(d[2].lines, c)
        /\ Fresh(d[2].lines, c) \in Seq(Events)
    BY <1>1, AllSegments, ReadAppend
  <1>3. ReadFrom(d[1], c) \in Seq(Events)
    BY <1>1, AllSegments
  <1> QED BY <1>2, <1>3, ConcatProperties DEF Files

LEMMA RotatedReads ==
    ASSUME NEW d \in Disks(Segments), NEW c
    PROVE  ReadFrom(Files(RotatedFirst(d)), c) = ReadFrom(Files(d), c)
  <1>1. CASE RotatedFirst(d) = <<Append(d[1], d[2]), NoSegment>>
    <2>1. d[1] \in Seq(Segments) /\ d[2] \in Segments /\ NoSegment \in Segments
      BY AllSegments, SegmentsIn DEF Disks
    <2>2. Append(d[1], d[2]) \in Seq(Segments)
      BY <2>1, AppendProperties
    <2>3. ReadFrom(Append(Append(d[1], d[2]), NoSegment), c)
              = ReadFrom(Append(d[1], d[2]), c) \o Fresh(NoSegment.lines, c)
      BY <2>1, <2>2, AllSegments, ReadAppend
    <2>4. Fresh(NoSegment.lines, c) = << >>
      BY FreshEmpty DEF NoSegment, Segment
    <2>5. ReadFrom(Append(d[1], d[2]), c) \in Seq(Events)
      BY <2>2, AllSegments
    <2>6. Files(RotatedFirst(d)) = Append(Append(d[1], d[2]), NoSegment)
      BY <1>1 DEF Files
    <2> QED BY <2>3, <2>4, <2>5, <2>6, ConcatEmptySeq DEF Files
  <1>2. CASE RotatedFirst(d) = d
    BY <1>2
  <1> QED BY <1>1, <1>2 DEF RotatedFirst

LEMMA RetainedType ==
    ASSUME NEW T \in SUBSET Events, NEW d \in Disks(SegmentsOf(T)), NEW limit \in Nat,
           now \in Nat
    PROVE  /\ Retained(d, limit) \in Disks(SegmentsOf(T))
           /\ (d \in Disks(Dated(now)) => Retained(d, limit) \in Disks(Dated(now)))
           /\ (\A i \in 1 .. Len(d[2].lines) : d[2].lines[i].kind = "event")
                => \A i \in 1 .. Len(Retained(d, limit)[2].lines) :
                       Retained(d, limit)[2].lines[i].kind = "event"
  <1> DEFINE young == Young(d[1], now - MaxAge)
             R == Retained(d, limit)
  <1>1. PICK n \in 0 .. Len(young) :
            R = <<Drop(young, n), d[2]>> \/ R = <<Drop(young, n), Trimmed(d[2], limit)>>
    BY RetainedIs
  <1>2. d[1] \in Seq(SegmentsOf(T)) /\ d[2] \in SegmentsOf(T)
    BY DEF Disks
  <1>3. young \in Seq(SegmentsOf(T))
    BY <1>2, YoungType
  <1>4. Drop(young, n) \in Seq(SegmentsOf(T))
    <2> HIDE DEF young
    <2> QED BY <1>3, SplitSeq
  <1>5. /\ Trimmed(d[2], limit) \in SegmentsOf(T) /\ Trimmed(d[2], limit).mtime = now
        /\ (\A i \in 1 .. Len(d[2].lines) : d[2].lines[i].kind = "event")
                => \A i \in 1 .. Len(Trimmed(d[2], limit).lines) :
                       Trimmed(d[2], limit).lines[i].kind = "event"
    BY <1>2, TrimmedType
  <1>6. ASSUME d \in Disks(Dated(now)) PROVE R \in Disks(Dated(now))
    <2>1. d[1] \in Seq(Dated(now)) /\ d[2] \in Dated(now)
      BY <1>6 DEF Disks
    <2>2. young \in Seq(Dated(now))
      BY <2>1, YoungType
    <2>3. Drop(young, n) \in Seq(Dated(now))
      <3> HIDE DEF young
      <3> QED BY <2>2, SplitSeq
    <2>4. Trimmed(d[2], limit) \in Dated(now)
      <3>1. d[2] \in SegmentsOf(Until(now)) /\ Until(now) \in SUBSET Events
        BY <2>1, DatedAre DEF Until
      <3>2. /\ Trimmed(d[2], limit) \in SegmentsOf(Until(now))
            /\ Trimmed(d[2], limit).mtime = now
        BY <3>1, TrimmedType
      <3> QED BY <3>2, DatedAre
    <2> HIDE DEF young, R
    <2> QED BY <1>1, <2>1, <2>3, <2>4 DEF Disks
  <1>7. R \in Disks(SegmentsOf(T))
    <2> HIDE DEF young, R
    <2> QED BY <1>1, <1>2, <1>4, <1>5 DEF Disks
  <1>8. R[2] = d[2] \/ R[2] = Trimmed(d[2], limit)
    <2> HIDE DEF young, R
    <2> QED BY <1>1
  <1> HIDE DEF R
  <1> QED BY <1>5, <1>6, <1>7, <1>8 DEF R

(* Retention takes only from the beginning. *)
LEMMA RetainedReads ==
    ASSUME NEW d \in Disks(Dated(now)), NEW limit \in Nat, now \in Nat
    PROVE  Ends(ReadFrom(Files(Retained(d, limit)), now - MaxAge),
                ReadFrom(Files(d), now - MaxAge))
  <1> DEFINE young == Young(d[1], now - MaxAge)
             R == Retained(d, limit)
             c == now - MaxAge
  <1>0. c \in Int
    BY MetricsAssumption DEF MetricsAssumption
  <1>1. PICK n \in 0 .. Len(young) :
            \/ R = <<Drop(young, n), d[2]>>
            \/ n = Len(young) /\ R = <<Drop(young, n), Trimmed(d[2], limit)>>
    BY RetainedIs
  <1>2. /\ d[1] \in Seq(Dated(now)) /\ d[2] \in Dated(now)
        /\ d[1] \in Seq(Segments) /\ d[2] \in Segments
    BY DatedAre, SeqMonotonic DEF Disks
  <1>3. young \in Seq(Segments)
    BY <1>2, YoungType
  <1>4. ReadFrom(young, c) = ReadFrom(d[1], c)
    BY <1>0, <1>2, ReadYoung
  <1> HIDE DEF young, R, c
  <1>5. /\ Take(young, n) \in Seq(Segments) /\ Drop(young, n) \in Seq(Segments)
        /\ young = Take(young, n) \o Drop(young, n)
        /\ Len(Drop(young, n)) = Len(young) - n
    BY <1>3, SplitSeq
  <1>6. /\ ReadFrom(young, c) = ReadFrom(Take(young, n), c) \o ReadFrom(Drop(young, n), c)
        /\ ReadFrom(Take(young, n), c) \in Seq(Events)
        /\ ReadFrom(Drop(young, n), c) \in Seq(Events)
    <2>1. PICK a, b : a = Take(young, n) /\ b = Drop(young, n)
      OBVIOUS
    <2>2. ReadFrom(a \o b, c) = ReadFrom(a, c) \o ReadFrom(b, c)
      BY <1>5, <2>1, ReadConcat
    <2>3. young = a \o b
      BY <1>5, <2>1
    <2>4. ReadFrom(a, c) \in Seq(Events) /\ ReadFrom(b, c) \in Seq(Events)
      BY <1>5, <2>1, AllSegments
    <2> QED BY <2>1, <2>2, <2>3, <2>4
  <1>7. /\ ReadFrom(Files(d), c) = ReadFrom(d[1], c) \o Fresh(d[2].lines, c)
        /\ Fresh(d[2].lines, c) \in Seq(Events) /\ ReadFrom(Files(d), c) \in Seq(Events)
    BY <1>2, FilesRead DEF Disks
  <1>8. CASE R = <<Drop(young, n), d[2]>>
    <2>1. R[1] = Drop(young, n) /\ R[2] = d[2] /\ R \in Disks(Segments)
      BY <1>2, <1>5, <1>8 DEF Disks
    <2>2. ReadFrom(Files(R), c) = ReadFrom(Drop(young, n), c) \o Fresh(d[2].lines, c)
      BY <2>1, FilesRead
    <2>3. ReadFrom(Files(d), c)
              = ReadFrom(Take(young, n), c) \o (ReadFrom(Drop(young, n), c)
                                                    \o Fresh(d[2].lines, c))
      <3>1. PICK x, y, z : /\ x = ReadFrom(Take(young, n), c)
                           /\ y = ReadFrom(Drop(young, n), c)
                           /\ z = Fresh(d[2].lines, c)
        OBVIOUS
      <3>2. x \in Seq(Events) /\ y \in Seq(Events) /\ z \in Seq(Events)
        BY <1>6, <1>7, <3>1
      <3>3. (x \o y) \o z = x \o (y \o z)
        BY <3>2, EventsRegroup
      <3> QED BY <1>4, <1>6, <1>7, <3>1, <3>3
    <2> QED BY <1>6, <2>2, <2>3 DEF Ends, R, c
  <1>9. CASE n = Len(young) /\ R = <<Drop(young, n), Trimmed(d[2], limit)>>
    <2>1. d[2] \in SegmentsOf(Events)
      BY <1>2, AllSegments
    <2>2. /\ Trimmed(d[2], limit) \in Segments
          /\ Ends(Fresh(Trimmed(d[2], limit).lines, c), Fresh(d[2].lines, c))
      BY <2>1, AllSegments, TrimmedType
    <2>3. Drop(young, n) = << >>
      <3>1. Len(young) \in Nat
        BY <1>3, LenProperties
      <3> QED BY <1>5, <1>9, <3>1, EmptySeq
    <2>4. R[1] = << >> /\ R[2] = Trimmed(d[2], limit) /\ R \in Disks(Segments)
      BY <1>9, <2>2, <2>3, EmptySeq DEF Disks
    <2>5. /\ ReadFrom(Files(R), c) = << >> \o Fresh(Trimmed(d[2], limit).lines, c)
          /\ Fresh(Trimmed(d[2], limit).lines, c) \in Seq(Events)
      BY <2>4, FilesRead, ReadEmpty
    <2>6. ReadFrom(Files(R), c) = Fresh(Trimmed(d[2], limit).lines, c)
      BY <2>5, ConcatEmptySeq
    <2>7. Ends(Fresh(d[2].lines, c), ReadFrom(Files(d), c))
      BY <1>4, <1>6, <1>7, ConcatProperties DEF Ends
    <2> QED BY <1>7, <2>2, <2>5, <2>6, <2>7, EndsTransitive DEF R, c
  <1> QED BY <1>1, <1>8, <1>9

-----------------------------------------------------------------------------
(* A segment of which at most the last line is torn. *)
WholeLines(L) == \A i \in 1 .. Len(L) : L[i].kind = "event"
WholeBut(L) == \A i \in 1 .. Len(L) : L[i].kind = "event" \/ (i = Len(L) /\ L[i] = Torn)

LEMMA RecoveredIs ==
    ASSUME NEW d, d[2].lines \in Seq(Lines)
    PROVE  LET L == d[2].lines
           IN  \E n \in 0 .. Len(L) :
                  /\ \A i \in 1 .. n : L[i].kind = "event"
                  /\ n < Len(L) => L[n + 1].kind # "event"
                  /\ Recovered(d) = IF n = Len(L) THEN d
                                    ELSE <<d[1], Segment(Take(L, n), now)>>
  <1> DEFINE L == d[2].lines
             Ok(n) == /\ \A i \in 1 .. n : L[i].kind = "event"
                      /\ n < Len(L) => L[n + 1].kind # "event"
             N == {n \in 0 .. Len(L) : n < Len(L) => L[n + 1].kind # "event"}
             k == CHOOSE n \in 0 .. Len(L) : Ok(n)
  <1>1. Len(L) \in Nat
    BY LenProperties
  <1>2. Recovered(d) = IF k = Len(L) THEN d ELSE <<d[1], Segment(Take(L, k), now)>>
    BY DEF Recovered
  <1>3. \E n \in 0 .. Len(L) : Ok(n)
    <2>1. N \in SUBSET Nat /\ N # {}
      BY <1>1
    <2>2. PICK n \in N : \A m \in N : n <= m
      BY <2>1, LeastNat
    <2>3. n \in 0 .. Len(L) /\ n \in Nat
      BY <2>2
    <2>4. ASSUME NEW i \in 1 .. n PROVE L[i].kind = "event"
      <3>1. i - 1 \in 0 .. Len(L) /\ i - 1 < Len(L) /\ (i - 1) + 1 = i /\ ~ (n <= i - 1)
        BY <1>1, <2>3
      <3>2. i - 1 \notin N
        BY <2>2, <3>1
      <3> QED BY <3>1, <3>2
    <2> QED BY <2>2, <2>3, <2>4
  <1>4. k \in 0 .. Len(L) /\ Ok(k)
    BY <1>3
  <1> HIDE DEF k
  <1> QED BY <1>2, <1>4

LEMMA RecoveredType ==
    ASSUME NEW T \in SUBSET Events, NEW d \in Disks(SegmentsOf(T)), now \in Nat
    PROVE  /\ Recovered(d) \in Disks(SegmentsOf(T))
           /\ (d \in Disks(Dated(now)) => Recovered(d) \in Disks(Dated(now)))
           /\ WholeLines(Recovered(d)[2].lines)
           /\ WholeBut(d[2].lines)
                 => \A c : ReadFrom(Files(Recovered(d)), c) = ReadFrom(Files(d), c)
  <1> DEFINE L == d[2].lines
             R == Recovered(d)
  <1>1. d[1] \in Seq(SegmentsOf(T)) /\ d[2] \in SegmentsOf(T) /\ L \in Seq(LinesOf(T))
    BY DEF Disks, SegmentsOf
  <1>2. L \in Seq(Lines) /\ d[1] \in Seq(Segments) /\ d[2] \in Segments
    BY <1>1, SegmentsIn DEF Segments
  <1>3. PICK n \in 0 .. Len(L) :
            /\ \A i \in 1 .. n : L[i].kind = "event"
            /\ n < Len(L) => L[n + 1].kind # "event"
            /\ R = IF n = Len(L) THEN d ELSE <<d[1], Segment(Take(L, n), now)>>
    BY <1>2, RecoveredIs
  <1>4. CASE n = Len(L)
    <2>1. R = d
      BY <1>3, <1>4
    <2>2. WholeLines(L)
      BY <1>3, <1>4 DEF WholeLines
    <2> QED BY <2>1, <2>2
  <1>5. CASE n # Len(L)
    <2> DEFINE kept == Take(L, n)
    <2>1. /\ kept \in Seq(LinesOf(T)) /\ Drop(L, n) \in Seq(LinesOf(T))
          /\ Len(kept) = n /\ L = kept \o Drop(L, n) /\ Len(Drop(L, n)) = Len(L) - n
          /\ \A i \in 1 .. n : kept[i] = L[i]
          /\ \A i \in 1 .. Len(L) - n : Drop(L, n)[i] = L[n + i]
      <3>1. PICK s : s = L
        OBVIOUS
      <3>2. s \in Seq(LinesOf(T)) /\ n \in 0 .. Len(s)
        BY <1>1, <3>1
      <3>3. /\ Take(s, n) \in Seq(LinesOf(T)) /\ Drop(s, n) \in Seq(LinesOf(T))
            /\ s = Take(s, n) \o Drop(s, n) /\ Len(Take(s, n)) = n
            /\ \A i \in 1 .. n : Take(s, n)[i] = s[i]
            /\ Len(Drop(s, n)) = Len(s) - n
            /\ \A i \in 1 .. Len(s) - n : Drop(s, n)[i] = s[n + i]
        BY <3>2, SplitSeq
      <3> QED BY <3>1, <3>3
    <2>2. R = <<d[1], Segment(kept, now)>>
      BY <1>3, <1>5
    <2> HIDE DEF R, kept
    <2>3. R[1] = d[1] /\ R[2] = Segment(kept, now) /\ R[2].lines = kept /\ R[2].mtime = now
      BY <2>2 DEF Segment
    <2>4. R[2] \in SegmentsOf(T)
      BY <2>1, <2>3 DEF Segment, SegmentsOf
    <2>5. R \in Disks(SegmentsOf(T))
      BY <1>1, <2>2, <2>3, <2>4 DEF Disks
    <2>6. ASSUME d \in Disks(Dated(now)) PROVE R \in Disks(Dated(now))
      <3>1. d[1] \in Seq(Dated(now)) /\ d[2] \in Dated(now)
        BY <2>6 DEF Disks
      <3>2. L \in Seq(LinesOf(Until(now)))
        BY <3>1, DatedAre DEF SegmentsOf
      <3>3. kept \in Seq(LinesOf(Until(now)))
        BY <3>2, SplitSeq DEF kept
      <3>4. R[2] \in SegmentsOf(Until(now))
        BY <2>3, <3>3 DEF Segment, SegmentsOf
      <3>5. R[2] \in Dated(now)
        BY <2>3, <3>4, DatedAre
      <3> QED BY <2>2, <2>3, <3>1, <3>5 DEF Disks
    <2>7. WholeLines(kept)
      BY <1>3, <2>1 DEF WholeLines
    <2>8. ASSUME WholeBut(L), NEW c
          PROVE  ReadFrom(Files(R), c) = ReadFrom(Files(d), c)
      <3>1. Len(L) \in Nat /\ n < Len(L) /\ n + 1 \in 1 .. Len(L)
        BY <1>2, <1>5, LenProperties
      <3>2. n + 1 = Len(L) /\ L[n + 1] = Torn
        BY <1>3, <2>8, <3>1 DEF WholeBut
      <3>3. L = Append(kept, Torn)
        <4>1. Len(Drop(L, n)) = 1 /\ Drop(L, n)[1] = Torn
          BY <2>1, <3>1, <3>2
        <4>2. Drop(L, n) = <<Torn>>
          <5>1. PICK v : v = Drop(L, n)
            OBVIOUS
          <5>2. v \in Seq(LinesOf(T)) /\ Len(v) = 1 /\ v[1] = Torn
            BY <2>1, <4>1, <5>1
          <5>3. v = <<Torn>>
            BY <5>2
          <5> QED BY <5>1, <5>3
        <4>3. Torn \in LinesOf(T)
          BY DEF LinesOf
        <4>4. Append(kept, Torn) = kept \o <<Torn>>
          BY <2>1, <4>3, AppendIsConcat
        <4> QED BY <2>1, <4>2, <4>4
      <3>4. Torn \in LinesOf(T)
        BY DEF LinesOf
      <3>5. Fresh(Append(kept, Torn), c)
                = Fresh(kept, c) \o OnlyIf(Torn.kind = "event" /\ Torn.at >= c, Torn)
        BY <2>1, <3>4, FreshAppend
      <3>6. OnlyIf(Torn.kind = "event" /\ Torn.at >= c, Torn) = << >>
        BY KindsDiffer DEF OnlyIf
      <3>7. Fresh(kept, c) \in Seq(T)
        BY <2>1, FreshType
      <3>8. Fresh(L, c) = Fresh(kept, c)
        BY <3>3, <3>5, <3>6, <3>7, ConcatEmptySeq
      <3>9. d \in Disks(Segments) /\ R \in Disks(Segments)
        BY <1>2, <2>2, <2>3, <2>4, SegmentsIn DEF Disks
      <3>10. /\ ReadFrom(Files(R), c) = ReadFrom(R[1], c) \o Fresh(R[2].lines, c)
             /\ ReadFrom(Files(d), c) = ReadFrom(d[1], c) \o Fresh(d[2].lines, c)
        BY <3>9, FilesRead
      <3> QED BY <2>3, <3>8, <3>10
    <2> QED BY <2>3, <2>5, <2>6, <2>7, <2>8 DEF R
  <1> QED BY <1>4, <1>5

(* A line, and a part of one, written where no line is torn but the last. *)
LEMMA LineWritten ==
    ASSUME NEW d \in Disks(Segments), WholeLines(d[2].lines), NEW e \in Events, now \in Nat
    PROVE  /\ WholeLines(Written(d, e)[2].lines)
           /\ \A c : ReadFrom(Files(Written(d, e)), c)
                         = ReadFrom(Files(d), c) \o OnlyIf(e.kind = "event" /\ e.at >= c, e)
  <1> DEFINE L == d[2].lines
             W == Written(d, e)
  <1>1. /\ d[1] \in Seq(Segments) /\ d[2] \in Segments /\ L \in Seq(Lines) /\ Len(L) \in Nat
        /\ e \in Lines
    BY LenProperties DEF Disks, Segments, Lines
  <1>2. ~ (L # << >> /\ Last(L) = Torn)
    <2> SUFFICES ASSUME L # << >> PROVE Last(L) # Torn
      OBVIOUS
    <2>1. Len(L) \in 1 .. Len(L)
      BY <1>1, EmptySeq
    <2> QED BY <2>1, KindsDiffer DEF WholeLines, Last
  <1>3. W = <<d[1], Segment(Append(L, e), now)>>
    BY <1>2 DEF Written
  <1>4. /\ Append(L, e) \in Seq(Lines) /\ Len(Append(L, e)) = Len(L) + 1
        /\ \A i \in 1 .. Len(L) : Append(L, e)[i] = L[i]
        /\ Append(L, e)[Len(L) + 1] = e
    BY <1>1, AppendProperties
  <1>5. WholeLines(Append(L, e))
    BY <1>1, <1>4, KindsDiffer DEF WholeLines
  <1> HIDE DEF W
  <1>6. W[1] = d[1] /\ W[2] = Segment(Append(L, e), now) /\ W[2].lines = Append(L, e)
    BY <1>3 DEF Segment
  <1>7. W \in Disks(Segments)
    BY <1>1, <1>3, <1>4 DEF Disks, Segments, Segment
  <1>8. ASSUME NEW c
        PROVE  ReadFrom(Files(W), c)
                   = ReadFrom(Files(d), c) \o OnlyIf(e.kind = "event" /\ e.at >= c, e)
    <2>1. ReadFrom(Files(W), c) = ReadFrom(d[1], c) \o Fresh(Append(L, e), c)
      BY <1>6, <1>7, FilesRead
    <2>2. Fresh(Append(L, e), c) = Fresh(L, c) \o OnlyIf(e.kind = "event" /\ e.at >= c, e)
      BY <1>1, FreshAppend
    <2>3. OnlyIf(e.kind = "event" /\ e.at >= c, e) \in Seq(Events)
      BY EmptySeq DEF OnlyIf
    <2>4. /\ ReadFrom(Files(d), c) = ReadFrom(d[1], c) \o Fresh(L, c)
          /\ ReadFrom(d[1], c) \in Seq(Events) /\ Fresh(L, c) \in Seq(Events)
      BY FilesRead
    <2>5. PICK x, y, z : /\ x = ReadFrom(d[1], c) /\ y = Fresh(L, c)
                         /\ z = OnlyIf(e.kind = "event" /\ e.at >= c, e)
      OBVIOUS
    <2>6. (x \o y) \o z = x \o (y \o z)
      <3>1. x \in Seq(Events) /\ y \in Seq(Events) /\ z \in Seq(Events)
        BY <2>3, <2>4, <2>5
      <3> QED BY <3>1, EventsRegroup
    <2> QED BY <2>1, <2>2, <2>4, <2>5, <2>6
  <1> QED BY <1>5, <1>6, <1>8 DEF W

LEMMA PartWritten ==
    ASSUME NEW d \in Disks(Segments), WholeBut(d[2].lines), now \in Nat
    PROVE  /\ WholeBut(Written(d, Torn)[2].lines)
           /\ \A c : ReadFrom(Files(Written(d, Torn)), c) = ReadFrom(Files(d), c)
  <1> DEFINE L == d[2].lines
             W == Written(d, Torn)
             M == W[2].lines
  <1>1. /\ d[1] \in Seq(Segments) /\ d[2] \in Segments /\ L \in Seq(Lines) /\ Len(L) \in Nat
        /\ Torn \in Lines
    BY LenProperties DEF Disks, Segments, Lines
  <1>2. CASE L # << >> /\ Last(L) = Torn
    <2>1. Len(L) # 0
      BY <1>1, <1>2, EmptySeq
    <2>2. L = Append(Front(L), Torn)
      <3>1. PICK s \in Seq(Lines), x \in Lines : L = Append(s, x)
        BY <1>1, <1>2, SequenceEmptyOrAppend
      <3>2. /\ Len(L) = Len(s) + 1 /\ Len(s) \in Nat /\ L[Len(s) + 1] = x
            /\ \A i \in 1 .. Len(s) : L[i] = s[i]
        BY <3>1, AppendProperties, LenProperties
      <3>3. x = Torn
        BY <1>2, <3>2 DEF Last
      <3>4. /\ Front(L) \in Seq(Lines) /\ Len(Front(L)) = Len(s)
            /\ \A i \in 1 .. Len(s) : Front(L)[i] = L[i]
        <4>1. Front(L) = Take(L, Len(s)) /\ Len(s) \in 0 .. Len(L)
          BY <3>2 DEF Front, Take
        <4>2. PICK m : m = Len(s)
          OBVIOUS
        <4>3. /\ Take(L, m) \in Seq(Lines) /\ Len(Take(L, m)) = m
              /\ \A i \in 1 .. m : Take(L, m)[i] = L[i]
          BY <1>1, <4>1, <4>2, SplitSeq
        <4> QED BY <4>1, <4>2, <4>3
      <3>5. Front(L) = s
        BY <3>2, <3>4, SeqEqual
      <3> QED BY <3>1, <3>3, <3>5
    <2>3. W = <<d[1], Segment(L, now)>>
      BY <1>2, <2>2 DEF Written
    <2> HIDE DEF W
    <2>4. W[1] = d[1] /\ M = L /\ W \in Disks(Segments)
      BY <1>1, <2>3 DEF Segment, Disks, Segments
    <2>5. \A c : ReadFrom(Files(W), c) = ReadFrom(Files(d), c)
      BY <2>4, FilesRead
    <2> QED BY <2>4, <2>5 DEF W
  <1>3. CASE ~ (L # << >> /\ Last(L) = Torn)
    <2>1. W = <<d[1], Segment(Append(L, Torn), now)>>
      BY <1>3 DEF Written
    <2>2. /\ Append(L, Torn) \in Seq(Lines) /\ Len(Append(L, Torn)) = Len(L) + 1
          /\ \A i \in 1 .. Len(L) : Append(L, Torn)[i] = L[i]
          /\ Append(L, Torn)[Len(L) + 1] = Torn
      BY <1>1, AppendProperties
    <2> HIDE DEF W
    <2>3. W[1] = d[1] /\ M = Append(L, Torn) /\ W \in Disks(Segments)
      BY <1>1, <2>1, <2>2 DEF Segment, Disks, Segments
    <2>4. \A i \in 1 .. Len(L) : L[i].kind = "event"
      <3> SUFFICES ASSUME NEW i \in 1 .. Len(L), L[i].kind # "event" PROVE FALSE
        OBVIOUS
      <3>1. i = Len(L) /\ L[i] = Torn
        BY DEF WholeBut
      <3>2. L # << >>
        BY <1>1, <3>1, EmptySeq
      <3> QED BY <1>3, <3>1, <3>2 DEF Last
    <2>5. WholeBut(M)
      BY <1>1, <2>2, <2>3, <2>4 DEF WholeBut
    <2>6. ASSUME NEW c PROVE ReadFrom(Files(W), c) = ReadFrom(Files(d), c)
      <3>1. Fresh(Append(L, Torn), c)
                = Fresh(L, c) \o OnlyIf(Torn.kind = "event" /\ Torn.at >= c, Torn)
        BY <1>1, FreshAppend
      <3>2. OnlyIf(Torn.kind = "event" /\ Torn.at >= c, Torn) = << >>
        BY KindsDiffer DEF OnlyIf
      <3>3. /\ ReadFrom(Files(d), c) = ReadFrom(d[1], c) \o Fresh(L, c)
            /\ Fresh(L, c) \in Seq(Events)
            /\ ReadFrom(Files(W), c) = ReadFrom(d[1], c) \o Fresh(Append(L, Torn), c)
        BY <2>3, FilesRead
      <3> QED BY <3>1, <3>2, <3>3, ConcatEmptySeq
    <2> QED BY <2>5, <2>6 DEF W
  <1> QED BY <1>2, <1>3
-----------------------------------------------------------------------------
(* The inductive invariant of the metrics. *)

Ours == {r \in Observed : state[r] # "new" /\ born[r] = resets}
OurEvents == [kind : {"event"}, request : Ours, at : Nat]
Counted == {r \in intent : state[r] = "finished" /\ Current(r)}
Ended == totals.ok + totals.error + totals.cancelled

(* A handle that still counts is of this epoch of the dashboard. *)
HandlesInv ==
    /\ \A r \in Observed : state[r] \in {"active", "finished", "lost"}
                             => generation[r] <= resetGeneration
    /\ \A r \in Observed : state[r] = "active" /\ Current(r) => born[r] = resets

TotalsInv ==
    /\ totals.requests = Ended + Cardinality(InEpoch("active"))
    /\ Ended = totals.hits + totals.misses + totals.notEligible + Cardinality(InEpoch("lost"))
    /\ totals.hits <= totals.physicalHits /\ totals.misses <= totals.physicalMisses
    /\ totals.hits + totals.misses <= Cardinality(Counted)

RecordedInv == history \in Seq(Ours) /\ disk \in Disks(SegmentsOf(OurEvents))

LogInv ==
    /\ disk \in Disks(Dated(now))
    /\ tail # "spoilt" =>
          /\ Ends(ReadFrom(Files(disk), now - MaxAge), Fresh(stored, now - MaxAge))
          /\ WholeBut(currentSegment.lines)
          /\ tail = "whole" => WholeLines(currentSegment.lines)

MetricsInv == MetricsTypeOK /\ HandlesInv /\ TotalsInv /\ RecordedInv /\ LogInv

LEMMA DiskTyped ==
    ASSUME MetricsTypeOK
    PROVE  /\ disk \in Disks(Segments) /\ disk[1] = rotated /\ disk[2] = currentSegment
           /\ disk \in Disks(SegmentsOf(Events))
           /\ now \in Nat /\ maxBytes \in Nat /\ now - MaxAge \in Int
           /\ OurEvents \in SUBSET Events /\ Ours \in SUBSET Observed
  <1>1. disk \in Disks(Segments) /\ disk[1] = rotated /\ disk[2] = currentSegment
    BY DEF MetricsTypeOK, disk, Disks
  <1>2. now \in Nat /\ maxBytes \in Nat /\ now - MaxAge \in Int
    BY MetricsAssumption DEF MetricsAssumption, MetricsTypeOK
  <1>3. OurEvents \in SUBSET Events /\ Ours \in SUBSET Observed
    BY DEF OurEvents, Ours, Events
  <1> QED BY <1>1, <1>2, <1>3, AllSegments

-----------------------------------------------------------------------------
(* The handles and the totals. *)

LEMMA SetsCounted ==
    ASSUME MetricsTypeOK
    PROVE  /\ IsFiniteSet(InEpoch("active")) /\ IsFiniteSet(InEpoch("lost"))
           /\ IsFiniteSet(Counted)
           /\ Cardinality(InEpoch("active")) \in Nat /\ Cardinality(InEpoch("lost")) \in Nat
           /\ Cardinality(Counted) \in Nat
  <1>1. InEpoch("active") \subseteq Observed /\ InEpoch("lost") \subseteq Observed
        /\ Counted \subseteq Observed
    BY DEF InEpoch, Counted, MetricsTypeOK
  <1>2. /\ IsFiniteSet(InEpoch("active")) /\ IsFiniteSet(InEpoch("lost"))
        /\ IsFiniteSet(Counted)
    BY <1>1, MetricsAssumption, FS_Subset DEF MetricsAssumption
  <1> QED BY <1>2, FS_CardinalityType

LEMMA TotalsTyped ==
    ASSUME MetricsTypeOK
    PROVE  \A f \in Fields : totals[f] \in Nat
  BY DEF MetricsTypeOK

LEMMA PlusIs ==
    ASSUME NEW t \in [Fields -> Nat], NEW F
    PROVE  /\ Plus(t, F) \in [Fields -> Nat]
           /\ \A f \in Fields : Plus(t, F)[f] = IF f \in F THEN t[f] + 1 ELSE t[f]
  BY DEF Plus

LEMMA TotalsKept ==
    ASSUME TotalsInv, totals' = totals, InEpoch("active")' = InEpoch("active"),
           InEpoch("lost")' = InEpoch("lost"), Counted' = Counted
    PROVE  TotalsInv'
  BY DEF TotalsInv, Ended

LEMMA StartCounts ==
    ASSUME MetricsTypeOK, HandlesInv, TotalsInv, NEW r \in Observed, StartRequest(r)
    PROVE  HandlesInv' /\ TotalsInv'
  <1>1. HandlesInv'
    BY DEF HandlesInv, StartRequest, MetricsTypeOK, Current
  <1>2. /\ InEpoch("active")' = InEpoch("active") \cup {r} /\ r \notin InEpoch("active")
        /\ InEpoch("lost")' = InEpoch("lost") /\ Counted' = Counted
    BY DEF StartRequest, MetricsTypeOK, Current, InEpoch, Counted
  <1>3. Cardinality(InEpoch("active")') = Cardinality(InEpoch("active")) + 1
    BY <1>2, SetsCounted, FS_AddElement
  <1>4. /\ totals'.requests = totals.requests + 1
        /\ \A f \in Fields \ {"requests"} : totals'[f] = totals[f]
    BY DEF StartRequest, MetricsTypeOK, Fields
  <1>5. TotalsInv'
    BY <1>2, <1>3, <1>4, TotalsTyped, SetsCounted DEF TotalsInv, Ended, Fields
  <1> QED BY <1>1, <1>5

LEMMA StaleCounts ==
    ASSUME MetricsTypeOK, HandlesInv, TotalsInv, NEW r \in Observed, FinishStale(r)
    PROVE  HandlesInv' /\ TotalsInv'
  <1>1. HandlesInv'
    BY DEF HandlesInv, FinishStale, MetricsTypeOK, Current
  <1>2. /\ InEpoch("active")' = InEpoch("active") /\ InEpoch("lost")' = InEpoch("lost")
        /\ Counted' = Counted
    BY DEF FinishStale, MetricsTypeOK, Current, InEpoch, Counted
  <1> QED BY <1>1, <1>2, TotalsKept DEF FinishStale

LEMMA FinishCounts ==
    ASSUME MetricsTypeOK, HandlesInv, TotalsInv, NEW r \in Observed, Finish(r)
    PROVE  HandlesInv' /\ TotalsInv'
  <1>0. /\ state[r] = "active" /\ Current(r) /\ state' = [state EXCEPT ![r] = "finished"]
        /\ UNCHANGED <<generation, intent, resetGeneration, born, resets>>
    BY DEF Finish
  <1>1. HandlesInv'
    BY <1>0 DEF HandlesInv, MetricsTypeOK, Current
  <1>2. /\ InEpoch("active")' = InEpoch("active") \ {r} /\ r \in InEpoch("active")
        /\ InEpoch("lost")' = InEpoch("lost") /\ r \notin Counted
        /\ Counted' = IF r \in intent THEN Counted \cup {r} ELSE Counted
    BY <1>0 DEF MetricsTypeOK, Current, InEpoch, Counted
  <1>3. Cardinality(InEpoch("active")') = Cardinality(InEpoch("active")) - 1
    BY <1>2, SetsCounted, FS_RemoveElement
  <1>4. Cardinality(Counted') = IF r \in intent THEN Cardinality(Counted) + 1
                                ELSE Cardinality(Counted)
    BY <1>2, SetsCounted, FS_AddElement
  <1>5. PICK result \in Results :
            totals' = Plus(totals, {result.status} \cup CacheFields(r, result))
    BY DEF Finish
  <1> DEFINE F == {result.status} \cup CacheFields(r, result)
  <1>6. \A f \in Fields : totals'[f] = IF f \in F THEN totals[f] + 1 ELSE totals[f]
    <2>1. totals \in [Fields -> Nat]
      BY DEF MetricsTypeOK
    <2> HIDE DEF F
    <2> QED BY <1>5, <2>1, PlusIs DEF F
  <1>7. result.status \in {"ok", "error", "cancelled"} /\ result.hit \in {"yes", "no", "none"}
    BY MetricsAssumption DEF MetricsAssumption
  <1>8. CacheFields(r, result) =
            IF result.hit = "yes" THEN IF r \in intent THEN {"physicalHits", "hits"}
                                       ELSE {"physicalHits", "notEligible"}
            ELSE IF result.hit = "no" THEN IF r \in intent THEN {"physicalMisses", "misses"}
                                           ELSE {"physicalMisses", "notEligible"}
            ELSE {"notEligible"}
    BY <1>7 DEF CacheFields
  <1>9. /\ totals'.requests = totals.requests
        /\ Ended' = Ended + 1
    BY <1>6, <1>7, <1>8, TotalsTyped DEF Ended, Fields
  <1>10. \/ /\ result.hit = "yes" /\ r \in intent
            /\ totals'.hits = totals.hits + 1 /\ totals'.physicalHits = totals.physicalHits + 1
            /\ totals'.misses = totals.misses /\ totals'.notEligible = totals.notEligible
            /\ totals'.physicalMisses = totals.physicalMisses
         \/ /\ result.hit = "no" /\ r \in intent
            /\ totals'.hits = totals.hits /\ totals'.physicalHits = totals.physicalHits
            /\ totals'.misses = totals.misses + 1 /\ totals'.notEligible = totals.notEligible
            /\ totals'.physicalMisses = totals.physicalMisses + 1
         \/ /\ totals'.hits = totals.hits /\ totals'.misses = totals.misses
            /\ totals'.notEligible = totals.notEligible + 1
            /\ totals'.physicalHits \in {totals.physicalHits, totals.physicalHits + 1}
            /\ totals'.physicalMisses \in {totals.physicalMisses, totals.physicalMisses + 1}
    <2>1. CASE result.hit = "yes" /\ r \in intent
      BY <1>6, <1>7, <1>8, <2>1, TotalsTyped DEF Fields
    <2>2. CASE result.hit = "no" /\ r \in intent
      BY <1>6, <1>7, <1>8, <2>2, TotalsTyped DEF Fields
    <2>3. CASE result.hit = "none" \/ r \notin intent
      BY <1>6, <1>7, <1>8, <2>3, TotalsTyped DEF Fields
    <2> QED BY <1>7, <2>1, <2>2, <2>3
  <1>11. /\ totals.hits \in Nat /\ totals.misses \in Nat /\ totals.notEligible \in Nat
         /\ totals.physicalHits \in Nat /\ totals.physicalMisses \in Nat /\ Ended \in Nat
         /\ totals.requests \in Nat
    BY TotalsTyped DEF Fields, Ended
  <1>12. TotalsInv'
    BY <1>2, <1>3, <1>4, <1>9, <1>10, <1>11, SetsCounted DEF TotalsInv
  <1> QED BY <1>1, <1>12

LEMMA ThrowCounts ==
    ASSUME MetricsTypeOK, HandlesInv, TotalsInv, NEW r \in Observed, FinishThrows(r)
    PROVE  HandlesInv' /\ TotalsInv'
  <1>0. /\ state[r] = "active" /\ Current(r) /\ state' = [state EXCEPT ![r] = "lost"]
        /\ UNCHANGED <<generation, intent, resetGeneration, born, resets>>
    BY DEF FinishThrows
  <1>1. HandlesInv'
    BY <1>0 DEF HandlesInv, MetricsTypeOK, Current
  <1>2. /\ InEpoch("active")' = InEpoch("active") \ {r} /\ r \in InEpoch("active")
        /\ InEpoch("lost")' = InEpoch("lost") \cup {r} /\ r \notin InEpoch("lost")
        /\ Counted' = Counted
    BY <1>0 DEF MetricsTypeOK, Current, InEpoch, Counted
  <1>3. /\ Cardinality(InEpoch("active")') = Cardinality(InEpoch("active")) - 1
        /\ Cardinality(InEpoch("lost")') = Cardinality(InEpoch("lost")) + 1
    <2>1. Cardinality(InEpoch("active")') = Cardinality(InEpoch("active")) - 1
      BY <1>2, SetsCounted, FS_RemoveElement
    <2>2. Cardinality(InEpoch("lost")') = Cardinality(InEpoch("lost")) + 1
      BY <1>2, SetsCounted, FS_AddElement
    <2> QED BY <2>1, <2>2
  <1>4. PICK result \in Results : totals' = Plus(totals, {result.status})
    BY DEF FinishThrows
  <1>5. \A f \in Fields : totals'[f] = IF f \in {result.status} THEN totals[f] + 1 ELSE totals[f]
    <2>1. totals \in [Fields -> Nat]
      BY DEF MetricsTypeOK
    <2>2. PICK F : F = {result.status}
      OBVIOUS
    <2>3. \A f \in Fields : totals'[f] = IF f \in F THEN totals[f] + 1 ELSE totals[f]
      BY <1>4, <2>1, <2>2, PlusIs
    <2> QED BY <2>2, <2>3
  <1>6. result.status \in {"ok", "error", "cancelled"}
    BY MetricsAssumption DEF MetricsAssumption
  <1>7. /\ Ended' = Ended + 1 /\ totals'.requests = totals.requests
        /\ totals'.hits = totals.hits /\ totals'.misses = totals.misses
        /\ totals'.notEligible = totals.notEligible
        /\ totals'.physicalHits = totals.physicalHits
        /\ totals'.physicalMisses = totals.physicalMisses
    BY <1>5, <1>6, TotalsTyped DEF Ended, Fields
  <1>8. /\ totals.hits \in Nat /\ totals.misses \in Nat /\ totals.notEligible \in Nat
        /\ totals.requests \in Nat /\ Ended \in Nat
    BY TotalsTyped DEF Fields, Ended
  <1>9. TotalsInv'
    BY <1>2, <1>3, <1>7, <1>8, SetsCounted DEF TotalsInv
  <1> QED BY <1>1, <1>9

(* An epoch begins with nothing counted. *)
LEMMA NothingCounted ==
    ASSUME totals' = NoTotals, InEpoch("active")' = {}, InEpoch("lost")' = {}, Counted' = {}
    PROVE  TotalsInv'
  <1>1. Cardinality({}) = 0
    BY FS_EmptySet
  <1>2. \A f \in Fields : totals'[f] = 0
    BY DEF NoTotals
  <1> QED BY <1>1, <1>2 DEF TotalsInv, Ended, Fields

LEMMA ResetCounts ==
    ASSUME MetricsTypeOK, HandlesInv, TotalsInv, Reset
    PROVE  HandlesInv' /\ TotalsInv'
  <1>0. /\ resetGeneration' = resetGeneration + 1
        /\ UNCHANGED <<state, generation, intent, born>>
    BY DEF Reset
  <1>1. \A r \in Observed : state[r] \in {"active", "finished", "lost"}
                               => ~ Current(r)' /\ generation[r] <= resetGeneration + 1
    BY <1>0 DEF HandlesInv, Current, MetricsTypeOK
  <1>2. HandlesInv'
    BY <1>0, <1>1 DEF HandlesInv
  <1>3. InEpoch("active")' = {} /\ InEpoch("lost")' = {} /\ Counted' = {}
    BY <1>0, <1>1 DEF InEpoch, Counted, MetricsTypeOK
  <1> QED BY <1>2, <1>3, NothingCounted DEF Reset

LEMMA RestartCounts ==
    ASSUME MetricsTypeOK, Restart
    PROVE  HandlesInv' /\ TotalsInv'
  <1>1. /\ \A r \in Observed : state'[r] \in {"new", "gone"}
        /\ intent' \subseteq Observed
    BY DEF Restart, MetricsTypeOK
  <1>2. HandlesInv'
    BY <1>1 DEF HandlesInv
  <1>3. InEpoch("active")' = {} /\ InEpoch("lost")' = {} /\ Counted' = {}
    BY <1>1 DEF InEpoch, Counted
  <1> QED BY <1>2, <1>3, NothingCounted DEF Restart

LEMMA OthersCount ==
    ASSUME HandlesInv, TotalsInv,
           UNCHANGED <<state, generation, intent, resetGeneration, totals, born, resets>>
    PROVE  HandlesInv' /\ TotalsInv'
  BY DEF HandlesInv, TotalsInv, Ended, InEpoch, Counted, Current
-----------------------------------------------------------------------------
(* What each action makes of the files. *)

LEMMA PairIs ==
    ASSUME NEW S, NEW d \in Disks(S)
    PROVE  d = <<d[1], d[2]>>
  BY DEF Disks

LEMMA Appended ==
    ASSUME MetricsTypeOK, NEW T \in SUBSET Events, disk \in Disks(SegmentsOf(T)),
           NEW l \in LinesOf(T)
    PROVE  /\ RotatedFirst(disk) \in Disks(SegmentsOf(T))
           /\ Written(RotatedFirst(disk), l) \in Disks(SegmentsOf(T))
  <1>1. RotatedFirst(disk) \in Disks(SegmentsOf(T))
    BY SegmentsIn, RotatedType
  <1>2. PICK b : b = RotatedFirst(disk)
    OBVIOUS
  <1>3. b \in Disks(SegmentsOf(T)) /\ b[1] \in Seq(SegmentsOf(T)) /\ b[2] \in SegmentsOf(T)
    BY <1>1, <1>2 DEF Disks
  <1>4. /\ Written(b, l) = <<b[1], Written(b, l)[2]>>
        /\ Written(b, l)[2] \in SegmentsOf(T)
    BY <1>3, DiskTyped, WrittenType
  <1>5. Written(b, l) \in Disks(SegmentsOf(T))
    BY <1>3, <1>4 DEF Disks
  <1> QED BY <1>1, <1>2, <1>5

LEMMA AppendedDated ==
    ASSUME MetricsTypeOK, disk \in Disks(Dated(now)), NEW l \in LinesOf(Until(now))
    PROVE  /\ RotatedFirst(disk) \in Disks(Dated(now))
           /\ Written(RotatedFirst(disk), l) \in Disks(Dated(now))
  <1>0. now \in Nat /\ Until(now) \in SUBSET Events
    BY DiskTyped DEF Until
  <1>1. RotatedFirst(disk) \in Disks(Dated(now))
    BY <1>0, DatedAre, RotatedType
  <1>2. PICK b : b = RotatedFirst(disk)
    OBVIOUS
  <1>3. b \in Disks(Dated(now)) /\ b[1] \in Seq(Dated(now)) /\ b[2] \in SegmentsOf(Until(now))
    BY <1>0, <1>1, <1>2, DatedAre DEF Disks
  <1>4. /\ Written(b, l) = <<b[1], Written(b, l)[2]>>
        /\ Written(b, l)[2] \in SegmentsOf(Until(now)) /\ Written(b, l)[2].mtime = now
    BY <1>0, <1>3, WrittenType
  <1>5. Written(b, l)[2] \in Dated(now)
    BY <1>0, <1>4, DatedAre
  <1>6. Written(b, l) \in Disks(Dated(now))
    BY <1>3, <1>4, <1>5 DEF Disks
  <1> QED BY <1>1, <1>2, <1>6

LEMMA EventIn ==
    ASSUME MetricsTypeOK, NEW r \in Observed
    PROVE  /\ Event(r, now) \in Events /\ Event(r, now) \in LinesOf(Events)
           /\ Event(r, now) \in LinesOf(Until(now))
           /\ Torn \in LinesOf(Events) /\ Torn \in LinesOf(Until(now))
           /\ r \in Ours => Event(r, now) \in LinesOf(OurEvents)
           /\ Torn \in LinesOf(OurEvents)
  <1>1. now \in Nat
    BY DiskTyped
  <1>2. Event(r, now) \in Events /\ Event(r, now).at = now
    BY <1>1 DEF Event, Events
  <1>3. Event(r, now) \in Until(now)
    BY <1>1, <1>2 DEF Until
  <1>4. r \in Ours => Event(r, now) \in OurEvents
    BY <1>1 DEF Event, OurEvents
  <1> QED BY <1>2, <1>3, <1>4 DEF LinesOf

(* finish *)
FinishedDisk(r) == Retained(Written(RotatedFirst(disk), Event(r, now)), maxBytes)

LEMMA FinishDisk ==
    ASSUME MetricsTypeOK, NEW r \in Observed, Finish(r)
    PROVE  disk' = FinishedDisk(r)
  <1>1. Written(RotatedFirst(disk), Event(r, now)) \in Disks(SegmentsOf(Events))
    BY DiskTyped, EventIn, Appended
  <1>2. FinishedDisk(r) \in Disks(SegmentsOf(Events))
    BY <1>1, DiskTyped, RetainedType DEF FinishedDisk
  <1>3. rotated' = FinishedDisk(r)[1] /\ currentSegment' = FinishedDisk(r)[2]
    BY DEF Finish, FinishedDisk
  <1> QED BY <1>2, <1>3, PairIs DEF disk

(* finish, where append throws *)
ThrownDisk(r, written) ==
    CASE written = "nothing" -> RotatedFirst(disk)
      [] written = "part"    -> Written(RotatedFirst(disk), Torn)
      [] written = "line"    -> Written(RotatedFirst(disk), Event(r, now))

LEMMA ThrowsDisk ==
    ASSUME MetricsTypeOK, NEW r \in Observed, FinishThrows(r)
    PROVE  \E written \in {"nothing", "part", "line"} :
              /\ disk' = ThrownDisk(r, written)
              /\ stored' = IF written = "line" THEN Append(stored, Event(r, now)) ELSE stored
              /\ tail' = TailAfter(RotatedFirst(disk), written)
  <1>1. PICK written \in {"nothing", "part", "line"} :
              /\ rotated' = ThrownDisk(r, written)[1]
              /\ currentSegment' = ThrownDisk(r, written)[2]
              /\ stored' = IF written = "line" THEN Append(stored, Event(r, now)) ELSE stored
              /\ tail' = TailAfter(RotatedFirst(disk), written)
    BY DEF FinishThrows, ThrownDisk
  <1>2. ThrownDisk(r, written) \in Disks(SegmentsOf(Events))
    BY DiskTyped, EventIn, Appended DEF ThrownDisk
  <1>3. disk' = ThrownDisk(r, written)
    BY <1>1, <1>2, PairIs DEF disk
  <1> QED BY <1>1, <1>3

(* The server starts. *)
LEMMA RestartDisk ==
    ASSUME MetricsTypeOK, Restart
    PROVE  /\ maxBytes' \in Nat
           /\ \E left \in {disk, Written(RotatedFirst(disk), Torn)} :
                 disk' = Retained(Recovered(left), maxBytes')
  <1>1. maxBytes' \in Nat
    BY MetricsAssumption DEF MetricsAssumption, Restart
  <1>2. PICK left \in {disk, Written(RotatedFirst(disk), Torn)} :
            /\ rotated' = Retained(Recovered(left), maxBytes')[1]
            /\ currentSegment' = Retained(Recovered(left), maxBytes')[2]
    BY DEF Restart
  <1>3. left \in Disks(SegmentsOf(Events))
    <2>1. Torn \in LinesOf(Events)
      BY DEF LinesOf
    <2> QED BY <2>1, DiskTyped, Appended
  <1>4. Recovered(left) \in Disks(SegmentsOf(Events))
    BY <1>3, DiskTyped, RecoveredType
  <1>5. Retained(Recovered(left), maxBytes') \in Disks(SegmentsOf(Events))
    BY <1>1, <1>4, DiskTyped, RetainedType
  <1>6. disk' = Retained(Recovered(left), maxBytes')
    BY <1>2, <1>5, PairIs DEF disk
  <1> QED BY <1>1, <1>6

LEMMA DropDisk ==
    ASSUME MetricsTypeOK, ResetThrows
    PROVE  \E n \in 1 .. Len(rotated) : disk' = <<Drop(rotated, n), currentSegment>>
  BY DEF ResetThrows, disk

(* The files of T, whatever an action does to them, hold events of T. *)
LEMMA FilesOf ==
    ASSUME MetricsTypeOK, NEW T \in SUBSET Events, disk \in Disks(SegmentsOf(T))
    PROVE  /\ \A r \in Observed : Finish(r) /\ Event(r, now) \in LinesOf(T)
                                    => disk' \in Disks(SegmentsOf(T))
           /\ \A r \in Observed : FinishThrows(r) /\ Event(r, now) \in LinesOf(T)
                                    => disk' \in Disks(SegmentsOf(T))
           /\ Restart => disk' \in Disks(SegmentsOf(T))
           /\ ResetThrows => disk' \in Disks(SegmentsOf(T))
           /\ Reset => disk' \in Disks(SegmentsOf(T))
  <1>0. Torn \in LinesOf(T)
    BY DEF LinesOf
  <1>1. ASSUME NEW r \in Observed, Finish(r), Event(r, now) \in LinesOf(T)
        PROVE  disk' \in Disks(SegmentsOf(T))
    <2>1. Written(RotatedFirst(disk), Event(r, now)) \in Disks(SegmentsOf(T))
      BY <1>1, Appended
    <2>2. FinishedDisk(r) \in Disks(SegmentsOf(T))
      BY <2>1, DiskTyped, RetainedType DEF FinishedDisk
    <2> QED BY <1>1, <2>2, FinishDisk
  <1>2. ASSUME NEW r \in Observed, FinishThrows(r), Event(r, now) \in LinesOf(T)
        PROVE  disk' \in Disks(SegmentsOf(T))
    <2>1. PICK written \in {"nothing", "part", "line"} : disk' = ThrownDisk(r, written)
      BY <1>2, ThrowsDisk
    <2>2. ThrownDisk(r, written) \in Disks(SegmentsOf(T))
      BY <1>0, <1>2, Appended DEF ThrownDisk
    <2> QED BY <2>1, <2>2
  <1>3. ASSUME Restart PROVE disk' \in Disks(SegmentsOf(T))
    <2>1. PICK left \in {disk, Written(RotatedFirst(disk), Torn)} :
              maxBytes' \in Nat /\ disk' = Retained(Recovered(left), maxBytes')
      BY <1>3, RestartDisk
    <2>2. left \in Disks(SegmentsOf(T))
      BY <1>0, Appended
    <2>3. Recovered(left) \in Disks(SegmentsOf(T))
      BY <2>2, DiskTyped, RecoveredType
    <2> QED BY <2>1, <2>3, DiskTyped, RetainedType
  <1>4. ASSUME ResetThrows PROVE disk' \in Disks(SegmentsOf(T))
    <2>1. rotated \in Seq(SegmentsOf(T)) /\ currentSegment \in SegmentsOf(T)
      BY DiskTyped DEF Disks
    <2>2. PICK n \in 1 .. Len(rotated) : disk' = <<Drop(rotated, n), currentSegment>>
      BY <1>4, DropDisk
    <2>3. n \in 0 .. Len(rotated)
      BY <2>1, LenProperties
    <2>4. Drop(rotated, n) \in Seq(SegmentsOf(T))
      BY <2>1, <2>3, SplitSeq
    <2> QED BY <2>1, <2>2, <2>4 DEF Disks
  <1>5. ASSUME Reset PROVE disk' \in Disks(SegmentsOf(T))
    BY <1>5, SegmentsIn, EmptySeq DEF Reset, disk, Disks
  <1> QED BY <1>1, <1>2, <1>3, <1>4, <1>5

-----------------------------------------------------------------------------
(* The types, and that the records are of this epoch. *)

LEMMA HistoryTyped ==
    ASSUME NEW S, NEW r \in S, history \in Seq(S), Remembers(r)
    PROVE  history' \in Seq(S)
  <1>1. Append(history, r) \in Seq(S) /\ Append(history, r) # << >>
    BY AppendProperties
  <1>2. Tail(Append(history, r)) \in Seq(S)
    BY <1>1, HeadTailProperties
  <1> QED BY <1>1, <1>2 DEF Remembers

LEMMA TailTyped ==
    ASSUME tail \in {"whole", "torn", "spoilt"}, NEW d, NEW w
    PROVE  /\ TailAfter(d, w) \in {"whole", "torn", "spoilt"}
           /\ TailAfter(d, w) # "spoilt" =>
                /\ tail # "spoilt"
                /\ w = "line" => /\ TailAfter(d, w) = "whole"
                                 /\ ~ (tail = "torn" /\ d[2] = currentSegment)
                /\ w = "part" => TailAfter(d, w) = "torn"
                /\ w = "nothing" /\ TailAfter(d, w) = "whole"
                      => ~ (tail = "torn" /\ d[2] = currentSegment)
  <1> DEFINE joins == tail = "torn" /\ d[2] = currentSegment
  <1>1. CASE tail = "spoilt"
    BY <1>1 DEF TailAfter
  <1>2. CASE tail # "spoilt" /\ w = "line" /\ joins
    BY <1>2 DEF TailAfter
  <1>3. CASE tail # "spoilt" /\ w = "line" /\ ~ joins
    BY <1>3 DEF TailAfter
  <1>4. CASE tail # "spoilt" /\ w = "part"
    BY <1>4 DEF TailAfter
  <1>5. CASE tail # "spoilt" /\ w \notin {"line", "part"}
    BY <1>5 DEF TailAfter
  <1> QED BY <1>1, <1>2, <1>3, <1>4, <1>5

LEMMA StepTyped ==
    ASSUME MetricsTypeOK, MetricsNext
    PROVE  MetricsTypeOK'
  <1> USE DEF MetricsTypeOK
  <1>0. /\ disk \in Disks(SegmentsOf(Events)) /\ Events \in SUBSET Events
        /\ SegmentsOf(Events) = Segments
    BY DiskTyped, AllSegments
  <1>1. disk' \in Disks(Segments) => rotated' \in Seq(Segments) /\ currentSegment' \in Segments
    BY DEF Disks, disk
  <1>2. ASSUME NEW r \in Observed, StartRequest(r) PROVE MetricsTypeOK'
    <2>1. intent' \subseteq Observed /\ byId' \subseteq Observed
      BY <1>2 DEF StartRequest
    <2>3. totals' \in [Fields -> Nat]
      <3>1. "requests" \in Fields /\ totals \in [Fields -> Nat]
        BY DEF Fields
      <3>2. totals' = [totals EXCEPT !["requests"] = totals["requests"] + 1]
        BY <1>2 DEF StartRequest
      <3> HIDE DEF MetricsTypeOK
      <3> QED BY <3>1, <3>2
    <2>2. /\ state' \in [Observed -> {"new", "active", "finished", "lost", "gone"}]
          /\ generation' \in [Observed -> Nat] /\ born' \in [Observed -> Nat]
          /\ UNCHANGED <<resetGeneration, history, rotated, currentSegment, maxBytes, now,
                         resets, stored, tail, failures, starts>>
      BY <1>2 DEF StartRequest, disk
    <2> QED BY <2>1, <2>2, <2>3
  <1>3. ASSUME NEW r \in Observed, FinishStale(r) PROVE MetricsTypeOK'
    BY <1>3 DEF FinishStale, disk
  <1>4. ASSUME NEW r \in Observed, Finish(r) PROVE MetricsTypeOK'
    <2>1. disk' \in Disks(Segments)
      BY <1>0, <1>4, FilesOf, EventIn
    <2>2. totals' \in [Fields -> Nat]
      <3>1. PICK F : totals' = Plus(totals, F)
        BY <1>4 DEF Finish
      <3>2. totals \in [Fields -> Nat]
        OBVIOUS
      <3> QED BY <3>1, <3>2, PlusIs
    <2>3. history' \in Seq(Observed)
      BY <1>4, HistoryTyped DEF Finish
    <2>4. byId' \subseteq Observed
      BY <1>4 DEF Finish, Remembers, Forgets
    <2>5. stored' \in Seq(Events)
      BY <1>4, EventIn, AppendProperties DEF Finish
    <2>6. tail' \in {"whole", "torn", "spoilt"}
      BY <1>4, TailTyped DEF Finish
    <2>7. /\ state' \in [Observed -> {"new", "active", "finished", "lost", "gone"}]
          /\ UNCHANGED <<generation, intent, resetGeneration, maxBytes, now, born, resets,
                         failures, starts>>
      BY <1>4 DEF Finish
    <2> QED BY <1>1, <2>1, <2>2, <2>3, <2>4, <2>5, <2>6, <2>7
  <1>5. ASSUME NEW r \in Observed, FinishThrows(r) PROVE MetricsTypeOK'
    <2>1. disk' \in Disks(Segments)
      BY <1>0, <1>5, FilesOf, EventIn
    <2>2. totals' \in [Fields -> Nat]
      <3>1. PICK F : totals' = Plus(totals, F)
        BY <1>5 DEF FinishThrows
      <3>2. totals \in [Fields -> Nat]
        OBVIOUS
      <3> QED BY <3>1, <3>2, PlusIs
    <2>3. stored' \in Seq(Events) /\ tail' \in {"whole", "torn", "spoilt"}
      <3>1. PICK written \in {"nothing", "part", "line"} :
              /\ stored' = IF written = "line" THEN Append(stored, Event(r, now)) ELSE stored
              /\ tail' = TailAfter(RotatedFirst(disk), written)
        BY <1>5, ThrowsDisk
      <3>2. Append(stored, Event(r, now)) \in Seq(Events)
        BY EventIn, AppendProperties
      <3> QED BY <3>1, <3>2, TailTyped
    <2>4. /\ state' \in [Observed -> {"new", "active", "finished", "lost", "gone"}]
          /\ failures' \in Nat
          /\ UNCHANGED <<generation, intent, resetGeneration, history, byId, maxBytes, now,
                         born, resets, starts>>
      BY <1>5 DEF FinishThrows
    <2> QED BY <1>1, <2>1, <2>2, <2>3, <2>4
  <1>6. ASSUME Reset PROVE MetricsTypeOK'
    <2>1. disk' \in Disks(Segments)
      BY <1>0, <1>6, FilesOf
    <2>2. history' \in Seq(Observed) /\ stored' \in Seq(Events)
      BY <1>6, EmptySeq DEF Reset
    <2> QED BY <1>1, <1>6, <2>1, <2>2 DEF Reset, NoTotals
  <1>7. ASSUME ResetThrows PROVE MetricsTypeOK'
    <2>1. disk' \in Disks(Segments)
      BY <1>0, <1>7, FilesOf
    <2> QED BY <1>1, <1>7, <2>1 DEF ResetThrows, memory
  <1>8. ASSUME Restart PROVE MetricsTypeOK'
    <2>1. disk' \in Disks(Segments)
      BY <1>0, <1>8, FilesOf
    <2>2. history' \in Seq(Observed)
      BY <1>8, EmptySeq DEF Restart
    <2>3. maxBytes' \in Limits /\ tail' \in {"whole", "torn", "spoilt"}
          /\ state' \in [Observed -> {"new", "active", "finished", "lost", "gone"}]
          /\ resetGeneration' \in Nat /\ byId' \subseteq Observed /\ starts' \in Nat
          /\ totals' \in [Fields -> Nat]
          /\ UNCHANGED <<generation, intent, now, born, resets, stored, failures>>
      BY <1>8 DEF Restart, NoTotals
    <2> QED BY <1>1, <2>1, <2>2, <2>3
  <1>9. ASSUME Tick PROVE MetricsTypeOK'
    BY <1>9 DEF Tick, memory, disk
  <1> QED BY <1>2, <1>3, <1>4, <1>5, <1>6, <1>7, <1>8, <1>9 DEF MetricsNext

LEMMA RecordsGrow ==
    ASSUME Ours \subseteq Ours', history' \in Seq(Ours), disk' \in Disks(SegmentsOf(OurEvents))
    PROVE  RecordedInv'
  <1>1. OurEvents \subseteq OurEvents'
    BY DEF OurEvents
  <1>2. LinesOf(OurEvents) \subseteq LinesOf(OurEvents')
    BY <1>1 DEF LinesOf
  <1>3. SegmentsOf(OurEvents) \subseteq SegmentsOf(OurEvents')
    BY <1>2, SeqMonotonic DEF SegmentsOf
  <1>4. disk' \in Disks(SegmentsOf(OurEvents'))
    BY <1>3, SeqMonotonic DEF Disks
  <1>5. history' \in Seq(Ours')
    BY SeqMonotonic
  <1> QED BY <1>4, <1>5 DEF RecordedInv

LEMMA StepRecords ==
    ASSUME MetricsTypeOK, HandlesInv, RecordedInv, MetricsNext
    PROVE  RecordedInv'
  <1> USE DEF MetricsTypeOK
  <1>0. /\ disk \in Disks(SegmentsOf(OurEvents)) /\ OurEvents \in SUBSET Events
        /\ history \in Seq(Ours)
    BY DiskTyped DEF RecordedInv
  <1>1. ASSUME NEW r \in Observed, StartRequest(r) PROVE RecordedInv'
    <2>1. Ours \subseteq Ours' /\ history' = history /\ disk' = disk
      BY <1>1 DEF StartRequest, Ours
    <2> QED BY <1>0, <2>1, RecordsGrow
  <1>2. ASSUME NEW r \in Observed, FinishStale(r) PROVE RecordedInv'
    <2>1. Ours \subseteq Ours' /\ history' = history /\ disk' = disk
      BY <1>2 DEF FinishStale, Ours
    <2> QED BY <1>0, <2>1, RecordsGrow
  <1>3. ASSUME NEW r \in Observed, state[r] = "active", Current(r)
        PROVE  r \in Ours /\ Event(r, now) \in LinesOf(OurEvents)
    BY <1>3, EventIn DEF Ours, HandlesInv
  <1>4. ASSUME NEW r \in Observed, Finish(r) PROVE RecordedInv'
    <2>1. r \in Ours /\ Event(r, now) \in LinesOf(OurEvents) /\ Remembers(r)
      BY <1>3, <1>4 DEF Finish
    <2>2. Ours \subseteq Ours'
      BY <1>4 DEF Finish, Ours
    <2>3. history' \in Seq(Ours)
      BY <1>0, <2>1, HistoryTyped
    <2>4. disk' \in Disks(SegmentsOf(OurEvents))
      BY <1>0, <1>4, <2>1, FilesOf
    <2> QED BY <2>2, <2>3, <2>4, RecordsGrow
  <1>5. ASSUME NEW r \in Observed, FinishThrows(r) PROVE RecordedInv'
    <2>1. Event(r, now) \in LinesOf(OurEvents)
      BY <1>3, <1>5 DEF FinishThrows
    <2>2. Ours \subseteq Ours' /\ history' = history
      BY <1>5 DEF FinishThrows, Ours
    <2>3. disk' \in Disks(SegmentsOf(OurEvents))
      BY <1>0, <1>5, <2>1, FilesOf
    <2> QED BY <1>0, <2>2, <2>3, RecordsGrow
  <1>6. ASSUME Reset PROVE RecordedInv'
    <2>1. history' = << >> /\ disk' = <<<< >>, NoSegment>>
      BY <1>6 DEF Reset, disk
    <2>2. OurEvents' \in SUBSET Events
      BY <1>6 DEF OurEvents, Ours, Events, Reset
    <2>3. disk' \in Disks(SegmentsOf(OurEvents'))
      BY <2>1, <2>2, SegmentsIn, EmptySeq DEF Disks
    <2> QED BY <2>1, <2>3, EmptySeq DEF RecordedInv
  <1>7. ASSUME ResetThrows PROVE RecordedInv'
    <2>1. Ours \subseteq Ours' /\ history' = history
      BY <1>7 DEF ResetThrows, Ours, memory
    <2>2. disk' \in Disks(SegmentsOf(OurEvents))
      BY <1>0, <1>7, FilesOf
    <2> QED BY <1>0, <2>1, <2>2, RecordsGrow
  <1>8. ASSUME Restart PROVE RecordedInv'
    <2>1. Ours \subseteq Ours' /\ history' \in Seq(Ours)
      BY <1>8, EmptySeq DEF Restart, Ours
    <2>2. disk' \in Disks(SegmentsOf(OurEvents))
      BY <1>0, <1>8, FilesOf
    <2> QED BY <2>1, <2>2, RecordsGrow
  <1>9. ASSUME Tick PROVE RecordedInv'
    <2>1. Ours \subseteq Ours' /\ history' = history /\ disk' = disk
      BY <1>9 DEF Tick, Ours, memory
    <2> QED BY <1>0, <2>1, RecordsGrow
  <1> QED BY <1>1, <1>2, <1>4, <1>5, <1>6, <1>7, <1>8, <1>9 DEF MetricsNext
-----------------------------------------------------------------------------
(* The log is the newest part of what was stored. *)

LEMMA RotatedWhole ==
    ASSUME MetricsTypeOK, LogInv, tail # "spoilt"
    PROVE  /\ WholeBut(RotatedFirst(disk)[2].lines)
           /\ ~ (tail = "torn" /\ RotatedFirst(disk)[2] = currentSegment)
                 => WholeLines(RotatedFirst(disk)[2].lines)
  <1>1. WholeBut(NoSegment.lines) /\ WholeLines(NoSegment.lines)
    BY EmptySeq DEF WholeBut, WholeLines, NoSegment, Segment
  <1>2. disk[2] = currentSegment /\ WholeBut(currentSegment.lines)
        /\ (tail = "whole" => WholeLines(currentSegment.lines))
    BY DiskTyped DEF LogInv
  <1>3. tail \in {"whole", "torn"}
    BY DEF MetricsTypeOK
  <1>4. RotatedFirst(disk)[2] \in {NoSegment, disk[2]}
    BY DEF RotatedFirst
  <1> QED BY <1>1, <1>2, <1>3, <1>4

LEMMA FreshStored ==
    ASSUME MetricsTypeOK
    PROVE  /\ \A c : Fresh(stored, c) \in Seq(Events)
           /\ \A e \in Events : \A c :
                 /\ Fresh(Append(stored, e), c)
                        = Fresh(stored, c) \o OnlyIf(e.kind = "event" /\ e.at >= c, e)
                 /\ OnlyIf(e.kind = "event" /\ e.at >= c, e) \in Seq(Events)
  <1>1. stored \in Seq(Events) /\ stored \in Seq(Lines)
    BY SeqMonotonic DEF MetricsTypeOK, Lines
  <1>2. ASSUME NEW e \in Events, NEW c
        PROVE  /\ Fresh(Append(stored, e), c)
                      = Fresh(stored, c) \o OnlyIf(e.kind = "event" /\ e.at >= c, e)
               /\ OnlyIf(e.kind = "event" /\ e.at >= c, e) \in Seq(Events)
    BY <1>1, FreshAppend, EmptySeq DEF OnlyIf
  <1> QED BY <1>1, <1>2, AllSegments

(* A line written behind whole lines. *)
LEMMA LineLogged ==
    ASSUME MetricsTypeOK, LogInv, NEW r \in Observed,
           TailAfter(RotatedFirst(disk), "line") # "spoilt"
    PROVE  LET w == Written(RotatedFirst(disk), Event(r, now))
               c == now - MaxAge
           IN  /\ WholeLines(w[2].lines) /\ w \in Disks(Dated(now))
               /\ Ends(ReadFrom(Files(w), c), Fresh(Append(stored, Event(r, now)), c))
  <1> DEFINE c == now - MaxAge
             e == Event(r, now)
  <1>1. PICK b : b = RotatedFirst(disk)
    OBVIOUS
  <1>2. tail # "spoilt" /\ ~ (tail = "torn" /\ b[2] = currentSegment)
    BY <1>1, TailTyped DEF MetricsTypeOK
  <1>3. WholeLines(b[2].lines)
    BY <1>1, <1>2, RotatedWhole
  <1>4. /\ b \in Disks(Segments) /\ e \in Events /\ now \in Nat
        /\ disk \in Disks(Segments)
    BY <1>1, AllSegments, EventIn, DiskTyped, Appended
  <1>5. Written(b, e) \in Disks(Dated(now))
    BY <1>1, EventIn, AppendedDated DEF LogInv
  <1> HIDE DEF e
  <1>6. /\ WholeLines(Written(b, e)[2].lines)
        /\ ReadFrom(Files(Written(b, e)), c)
               = ReadFrom(Files(b), c) \o OnlyIf(e.kind = "event" /\ e.at >= c, e)
    BY <1>3, <1>4, LineWritten
  <1>7. ReadFrom(Files(b), c) = ReadFrom(Files(disk), c)
    BY <1>1, <1>4, RotatedReads
  <1>8. Ends(ReadFrom(Files(disk), c), Fresh(stored, c))
    BY <1>2 DEF LogInv
  <1>9. /\ Fresh(Append(stored, e), c)
               = Fresh(stored, c) \o OnlyIf(e.kind = "event" /\ e.at >= c, e)
        /\ Fresh(stored, c) \in Seq(Events)
        /\ OnlyIf(e.kind = "event" /\ e.at >= c, e) \in Seq(Events)
    BY <1>4, FreshStored
  <1>10. ReadFrom(Files(disk), c) \in Seq(Events)
    BY <1>4, FilesRead
  <1>11. Ends(ReadFrom(Files(disk), c) \o OnlyIf(e.kind = "event" /\ e.at >= c, e),
              Fresh(stored, c) \o OnlyIf(e.kind = "event" /\ e.at >= c, e))
    <2>1. PICK x, y, z : /\ x = ReadFrom(Files(disk), c) /\ y = Fresh(stored, c)
                         /\ z = OnlyIf(e.kind = "event" /\ e.at >= c, e)
      OBVIOUS
    <2>2. x \in Seq(Events) /\ y \in Seq(Events) /\ z \in Seq(Events) /\ Ends(x, y)
      BY <1>8, <1>9, <1>10, <2>1
    <2>3. Ends(x \o z, y \o z)
      BY <2>2, EndsLonger
    <2> QED BY <2>1, <2>3
  <1>12. Ends(ReadFrom(Files(Written(b, e)), c), Fresh(Append(stored, e), c))
    BY <1>6, <1>7, <1>9, <1>11
  <1> QED BY <1>1, <1>5, <1>6, <1>12 DEF e

LEMMA FinishLogged ==
    ASSUME MetricsTypeOK, LogInv, NEW r \in Observed, Finish(r)
    PROVE  LogInv'
  <1>1. PICK w : w = Written(RotatedFirst(disk), Event(r, now))
    OBVIOUS
  <1>2. /\ disk' = Retained(w, maxBytes) /\ now' = now
        /\ stored' = Append(stored, Event(r, now))
        /\ tail' = TailAfter(RotatedFirst(disk), "line")
    BY <1>1, FinishDisk DEF Finish, FinishedDisk
  <1>3. /\ w \in Disks(Dated(now)) /\ w \in Disks(SegmentsOf(Events))
        /\ now \in Nat /\ maxBytes \in Nat /\ Events \in SUBSET Events
    BY <1>1, EventIn, Appended, AppendedDated, DiskTyped DEF LogInv
  <1>4. disk' \in Disks(Dated(now))
    BY <1>2, <1>3, RetainedType
  <1>5. ASSUME tail' # "spoilt"
        PROVE  /\ Ends(ReadFrom(Files(disk'), now - MaxAge), Fresh(stored', now - MaxAge))
               /\ WholeLines(disk'[2].lines)
    <2>1. /\ WholeLines(w[2].lines)
          /\ Ends(ReadFrom(Files(w), now - MaxAge), Fresh(stored', now - MaxAge))
      BY <1>1, <1>2, <1>5, LineLogged
    <2>2. WholeLines(disk'[2].lines)
      BY <1>2, <1>3, <2>1, RetainedType DEF WholeLines
    <2>3. Ends(ReadFrom(Files(disk'), now - MaxAge), ReadFrom(Files(w), now - MaxAge))
      BY <1>2, <1>3, RetainedReads
    <2>4. /\ ReadFrom(Files(disk'), now - MaxAge) \in Seq(Events)
          /\ ReadFrom(Files(w), now - MaxAge) \in Seq(Events)
          /\ Fresh(stored', now - MaxAge) \in Seq(Events)
      <3>1. w \in Disks(Segments) /\ disk' \in Disks(Segments)
        BY <1>2, <1>3, RetainedType, AllSegments
      <3>2. Event(r, now) \in Events
        BY EventIn
      <3>3. Fresh(Append(stored, Event(r, now)), now - MaxAge) \in Seq(Events)
        <4>1. PICK e : e = Event(r, now)
          OBVIOUS
        <4>2. Fresh(Append(stored, e), now - MaxAge) \in Seq(Events)
          <5>1. Append(stored, e) \in Seq(Events)
            BY <3>2, <4>1, AppendProperties DEF MetricsTypeOK
          <5>2. Append(stored, e) \in Seq(Lines)
            BY <5>1, SeqMonotonic DEF Lines
          <5> QED BY <5>2, AllSegments
        <4> QED BY <4>1, <4>2
      <3> QED BY <1>2, <3>1, <3>3, FilesRead
    <2> QED BY <2>1, <2>2, <2>3, <2>4, EndsTransitive
  <1>6. disk'[2] = currentSegment'
    BY DEF disk
  <1>7. WholeLines(currentSegment'.lines) => WholeBut(currentSegment'.lines)
    BY DEF WholeLines, WholeBut
  <1> QED BY <1>2, <1>4, <1>5, <1>6, <1>7 DEF LogInv, Dated

LEMMA ThrowLogged ==
    ASSUME MetricsTypeOK, LogInv, NEW r \in Observed, FinishThrows(r)
    PROVE  LogInv'
  <1>1. PICK written \in {"nothing", "part", "line"} :
              /\ disk' = ThrownDisk(r, written)
              /\ stored' = IF written = "line" THEN Append(stored, Event(r, now)) ELSE stored
              /\ tail' = TailAfter(RotatedFirst(disk), written)
    BY ThrowsDisk
  <1>2. now' = now /\ disk'[2] = currentSegment' /\ now \in Nat /\ disk \in Disks(Segments)
    BY DiskTyped DEF FinishThrows, disk
  <1>3. PICK b : b = RotatedFirst(disk)
    OBVIOUS
  <1>4. /\ b \in Disks(Segments) /\ b \in Disks(Dated(now))
        /\ Written(b, Torn) \in Disks(Dated(now))
        /\ Written(b, Event(r, now)) \in Disks(Dated(now))
    BY <1>3, AllSegments, EventIn, DiskTyped, Appended, AppendedDated DEF LogInv
  <1>5. disk' \in Disks(Dated(now))
    BY <1>1, <1>3, <1>4 DEF ThrownDisk
  <1>6. ASSUME tail' # "spoilt"
        PROVE  /\ Ends(ReadFrom(Files(disk'), now - MaxAge), Fresh(stored', now - MaxAge))
               /\ WholeBut(disk'[2].lines)
               /\ tail' = "whole" => WholeLines(disk'[2].lines)
    <2>1. /\ tail # "spoilt"
          /\ written = "part" => tail' = "torn"
          /\ written = "nothing" /\ tail' = "whole"
                => ~ (tail = "torn" /\ b[2] = currentSegment)
      BY <1>1, <1>3, <1>6, TailTyped DEF MetricsTypeOK
    <2>2. /\ WholeBut(b[2].lines)
          /\ ~ (tail = "torn" /\ b[2] = currentSegment) => WholeLines(b[2].lines)
      BY <1>3, <2>1, RotatedWhole
    <2>3. Ends(ReadFrom(Files(b), now - MaxAge), Fresh(stored, now - MaxAge))
      BY <1>2, <1>3, <2>1, RotatedReads DEF LogInv
    <2>4. CASE written = "nothing"
      <3>1. disk' = b /\ stored' = stored
        BY <1>1, <1>3, <2>4 DEF ThrownDisk
      <3> QED BY <3>1, <2>1, <2>2, <2>3, <2>4
    <2>5. CASE written = "part"
      <3>1. disk' = Written(b, Torn) /\ stored' = stored
        BY <1>1, <1>3, <2>5 DEF ThrownDisk
      <3>2. /\ WholeBut(Written(b, Torn)[2].lines)
            /\ ReadFrom(Files(Written(b, Torn)), now - MaxAge)
                   = ReadFrom(Files(b), now - MaxAge)
        BY <1>2, <1>4, <2>2, PartWritten
      <3> QED BY <3>1, <3>2, <2>1, <2>3, <2>5
    <2>6. CASE written = "line"
      <3>1. disk' = Written(b, Event(r, now)) /\ stored' = Append(stored, Event(r, now))
        BY <1>1, <1>3, <2>6 DEF ThrownDisk
      <3>2. /\ WholeLines(disk'[2].lines)
            /\ Ends(ReadFrom(Files(disk'), now - MaxAge), Fresh(stored', now - MaxAge))
        BY <1>1, <1>3, <1>6, <2>6, <3>1, LineLogged
      <3> QED BY <3>2 DEF WholeLines, WholeBut
    <2> QED BY <2>4, <2>5, <2>6
  <1> QED BY <1>2, <1>5, <1>6 DEF LogInv, Dated

LEMMA RestartLogged ==
    ASSUME MetricsTypeOK, LogInv, Restart
    PROVE  LogInv'
  <1> DEFINE c == now - MaxAge
  <1>1. PICK left \in {disk, Written(RotatedFirst(disk), Torn)} :
            maxBytes' \in Nat /\ disk' = Retained(Recovered(left), maxBytes')
    BY RestartDisk
  <1>2. /\ now' = now /\ stored' = stored /\ disk'[2] = currentSegment' /\ now \in Nat
        /\ tail' = IF tail = "torn" THEN "whole" ELSE tail
    BY DiskTyped DEF Restart, disk
  <1>3. disk \in Disks(Segments) /\ disk \in Disks(SegmentsOf(Events))
        /\ Events \in SUBSET Events /\ c \in Int
    BY DiskTyped
  <1>4. left \in Disks(Dated(now)) /\ left \in Disks(SegmentsOf(Events))
    <2>1. Torn \in LinesOf(Events) /\ Torn \in LinesOf(Until(now))
      BY DEF LinesOf
    <2> QED BY <1>3, <2>1, Appended, AppendedDated DEF LogInv
  <1>5. PICK m : m = Recovered(left)
    OBVIOUS
  <1>6. /\ m \in Disks(SegmentsOf(Events)) /\ m \in Disks(Dated(now))
        /\ WholeLines(m[2].lines)
        /\ WholeBut(left[2].lines) => ReadFrom(Files(m), c) = ReadFrom(Files(left), c)
    BY <1>2, <1>3, <1>4, <1>5, RecoveredType
  <1>7. /\ disk' \in Disks(SegmentsOf(Events)) /\ disk' \in Disks(Dated(now))
        /\ WholeLines(disk'[2].lines)
    BY <1>1, <1>2, <1>3, <1>5, <1>6, RetainedType DEF WholeLines
  <1>8. ASSUME tail # "spoilt"
        PROVE  Ends(ReadFrom(Files(disk'), c), Fresh(stored, c))
    <2>1. WholeBut(left[2].lines) /\ ReadFrom(Files(left), c) = ReadFrom(Files(disk), c)
      <3>1. CASE left = disk
        BY <1>3, <1>8, <3>1, DiskTyped DEF LogInv
      <3>2. CASE left = Written(RotatedFirst(disk), Torn)
        <4>1. PICK b : b = RotatedFirst(disk)
          OBVIOUS
        <4>2. b \in Disks(Segments)
          <5>1. Torn \in LinesOf(Events)
            BY DEF LinesOf
          <5> QED BY <1>3, <4>1, <5>1, Appended, AllSegments
        <4>3. WholeBut(b[2].lines)
          BY <1>8, <4>1, RotatedWhole
        <4>4. /\ WholeBut(Written(b, Torn)[2].lines)
              /\ ReadFrom(Files(Written(b, Torn)), c) = ReadFrom(Files(b), c)
          BY <1>2, <4>2, <4>3, PartWritten
        <4>5. ReadFrom(Files(b), c) = ReadFrom(Files(disk), c)
          BY <1>3, <4>1, RotatedReads
        <4> QED BY <3>2, <4>1, <4>4, <4>5
      <3> QED BY <3>1, <3>2
    <2>2. Ends(ReadFrom(Files(disk'), c), ReadFrom(Files(m), c))
      BY <1>1, <1>2, <1>5, <1>6, RetainedReads
    <2>3. ReadFrom(Files(m), c) = ReadFrom(Files(disk), c)
      BY <1>6, <2>1
    <2>4. Ends(ReadFrom(Files(disk), c), Fresh(stored, c))
      BY <1>8 DEF LogInv
    <2>5. /\ ReadFrom(Files(disk'), c) \in Seq(Events)
          /\ ReadFrom(Files(disk), c) \in Seq(Events)
          /\ Fresh(stored, c) \in Seq(Events)
      BY <1>3, <1>7, AllSegments, FilesRead, FreshStored
    <2> QED BY <2>2, <2>3, <2>4, <2>5, EndsTransitive
  <1>9. WholeLines(disk'[2].lines) => WholeBut(disk'[2].lines)
    BY DEF WholeLines, WholeBut
  <1> QED BY <1>2, <1>7, <1>8, <1>9 DEF LogInv, Dated

LEMMA TickLogged ==
    ASSUME MetricsTypeOK, LogInv, Tick
    PROVE  LogInv'
  <1> DEFINE c == now - MaxAge
             d == now + 1 - MaxAge
  <1>1. /\ now' = now + 1 /\ UNCHANGED <<disk, stored, tail, currentSegment>>
        /\ now \in Nat /\ disk \in Disks(Segments) /\ MaxAge \in Nat
    BY DiskTyped, MetricsAssumption DEF Tick, disk, MetricsAssumption
  <1>2. c \in Int /\ d \in Int /\ c <= d
    BY <1>1
  <1>3. Dated(now) \subseteq Dated(now')
    <2>1. ASSUME NEW s \in Dated(now) PROVE s \in Dated(now')
      BY <1>1 DEF Dated, Segments
    <2> QED BY <2>1
  <1>4. disk \in Disks(Dated(now'))
    BY <1>3, SeqMonotonic DEF LogInv, Disks
  <1> HIDE DEF c, d
  <1>5. ASSUME Ends(ReadFrom(Files(disk), c), Fresh(stored, c))
        PROVE  Ends(ReadFrom(Files(disk), d), Fresh(stored, d))
    <2>1. PICK x, y : x = ReadFrom(Files(disk), c) /\ y = Fresh(stored, c)
      OBVIOUS
    <2>2. Files(disk) \in Seq(Segments)
      BY <1>1, AppendProperties DEF Files, Disks
    <2>3. stored \in Seq(Lines) /\ Events \subseteq Lines
      BY SeqMonotonic DEF MetricsTypeOK, Lines
    <2>4. x \in Seq(Events) /\ y \in Seq(Events)
      BY <2>1, <2>2, <2>3, AllSegments
    <2>5. PICK u \in Seq(Events) : y = u \o x
      BY <1>5, <2>1 DEF Ends
    <2>6. u \in Seq(Lines) /\ x \in Seq(Lines)
      BY <2>3, <2>4, SeqMonotonic
    <2>7. Fresh(y, d) = Fresh(u, d) \o Fresh(x, d) /\ Fresh(u, d) \in Seq(Events)
      BY <2>5, <2>6, FreshConcat, AllSegments
    <2>8. Fresh(x, d) = ReadFrom(Files(disk), d)
      BY <1>2, <2>1, <2>2, ReadLater
    <2>9. Fresh(y, d) = Fresh(stored, d)
      BY <1>2, <2>1, <2>3, FreshTwice
    <2> QED BY <2>7, <2>8, <2>9 DEF Ends
  <1> QED BY <1>1, <1>4, <1>5 DEF LogInv, c, d, Dated

LEMMA ResetLogged ==
    ASSUME MetricsTypeOK, LogInv, Reset
    PROVE  LogInv'
  <1>1. /\ now' = now /\ stored' = << >> /\ tail' = "whole" /\ now \in Nat
        /\ disk' = <<<< >>, NoSegment>> /\ currentSegment' = NoSegment
    BY DiskTyped DEF Reset, disk
  <1>2. disk' \in Disks(Dated(now)) /\ disk' \in Disks(Segments)
    BY <1>1, DatedAre, EmptySeq DEF Disks
  <1>3. ASSUME NEW c PROVE Ends(ReadFrom(Files(disk'), c), Fresh(<< >>, c))
    <2>1. ReadFrom(Files(disk'), c) = ReadFrom(disk'[1], c) \o Fresh(disk'[2].lines, c)
      BY <1>2, FilesRead
    <2>2. disk'[1] = << >> /\ disk'[2].lines = << >>
      BY <1>1 DEF NoSegment, Segment
    <2>3. << >> \in Seq(Events) /\ << >> \o << >> = << >>
      BY EmptySeq, ConcatEmptySeq
    <2>4. ReadFrom(Files(disk'), c) = << >>
      BY <2>1, <2>2, <2>3, ReadEmpty, FreshEmpty
    <2> QED BY <2>3, <2>4, FreshEmpty, EndsItself
  <1>4. WholeBut(NoSegment.lines) /\ WholeLines(NoSegment.lines)
    BY EmptySeq DEF WholeBut, WholeLines, NoSegment, Segment
  <1> QED BY <1>1, <1>2, <1>3, <1>4 DEF LogInv, Dated

LEMMA DropLogged ==
    ASSUME MetricsTypeOK, LogInv, ResetThrows
    PROVE  LogInv'
  <1> DEFINE c == now - MaxAge
  <1>1. UNCHANGED <<now, stored, tail, currentSegment>>
    BY DEF ResetThrows
  <1>2. PICK n \in 1 .. Len(rotated) : disk' = <<Drop(rotated, n), currentSegment>>
    BY DropDisk
  <1>3. /\ rotated \in Seq(Segments) /\ rotated \in Seq(Dated(now)) /\ n \in 0 .. Len(rotated)
        /\ currentSegment \in Segments /\ currentSegment \in Dated(now)
        /\ disk[1] = rotated /\ disk[2] = currentSegment /\ disk \in Disks(Segments)
    BY DiskTyped, LenProperties DEF LogInv, Disks
  <1>4. PICK a, b : a = Take(rotated, n) /\ b = Drop(rotated, n)
    OBVIOUS
  <1>5. /\ a \in Seq(Segments) /\ b \in Seq(Segments) /\ b \in Seq(Dated(now))
        /\ rotated = a \o b
    <2>1. PICK s : s = rotated
      OBVIOUS
    <2>2. s \in Seq(Segments) /\ s \in Seq(Dated(now)) /\ n \in 0 .. Len(s)
      BY <1>3, <2>1
    <2>3. /\ Take(s, n) \in Seq(Segments) /\ Drop(s, n) \in Seq(Segments)
          /\ s = Take(s, n) \o Drop(s, n)
      BY <2>2, SplitSeq
    <2>4. Drop(s, n) \in Seq(Dated(now))
      <3>1. PICK S : S = Dated(now)
        OBVIOUS
      <3>2. Drop(s, n) \in Seq(S)
        BY <2>2, <3>1, SplitSeq
      <3> QED BY <3>1, <3>2
    <2> QED BY <1>4, <2>1, <2>3, <2>4
  <1>6. disk' = <<b, currentSegment>>
    BY <1>2, <1>4
  <1>7. disk' \in Disks(Dated(now)) /\ disk' \in Disks(Segments)
        /\ disk'[1] = b /\ disk'[2] = currentSegment
    BY <1>3, <1>5, <1>6 DEF Disks
  <1>8. Ends(ReadFrom(Files(disk'), c), ReadFrom(Files(disk), c))
    <2>1. PICK x, y, z : /\ x = ReadFrom(a, c) /\ y = ReadFrom(b, c)
                         /\ z = Fresh(currentSegment.lines, c)
      OBVIOUS
    <2>2. x \in Seq(Events) /\ y \in Seq(Events) /\ z \in Seq(Events)
      BY <1>3, <1>5, <2>1, AllSegments DEF Segments
    <2>3. ReadFrom(rotated, c) = x \o y
      BY <1>5, <2>1, ReadConcat
    <2>4. ReadFrom(Files(disk), c) = (x \o y) \o z
      BY <1>3, <2>1, <2>3, FilesRead
    <2>5. ReadFrom(Files(disk'), c) = y \o z
      BY <1>7, <2>1, FilesRead
    <2>6. ReadFrom(Files(disk), c) = x \o (y \o z)
      <3>1. (x \o y) \o z = x \o (y \o z)
        BY <2>2, EventsRegroup
      <3> QED BY <2>4, <3>1
    <2> QED BY <2>2, <2>5, <2>6 DEF Ends
  <1>9. ASSUME Ends(ReadFrom(Files(disk), c), Fresh(stored, c))
        PROVE  Ends(ReadFrom(Files(disk'), c), Fresh(stored, c))
    BY <1>3, <1>7, <1>8, <1>9, FilesRead, FreshStored, EndsTransitive
  <1> QED BY <1>1, <1>7, <1>9 DEF LogInv, Dated

LEMMA StepLogged ==
    ASSUME MetricsTypeOK, LogInv, MetricsNext
    PROVE  LogInv'
  <1>1. ASSUME NEW r \in Observed, StartRequest(r) \/ FinishStale(r) PROVE LogInv'
    <2>1. UNCHANGED <<disk, currentSegment, now, stored, tail>>
      BY <1>1 DEF StartRequest, FinishStale, disk
    <2> QED BY <2>1 DEF LogInv, Dated
  <1> QED BY <1>1, FinishLogged, ThrowLogged, RestartLogged, TickLogged, ResetLogged,
             DropLogged DEF MetricsNext

-----------------------------------------------------------------------------
LEMMA NothingCountedYet ==
    ASSUME totals = NoTotals, InEpoch("active") = {}, InEpoch("lost") = {}, Counted = {}
    PROVE  TotalsInv
  <1>1. Cardinality({}) = 0
    BY FS_EmptySet
  <1>2. \A f \in Fields : totals[f] = 0
    BY DEF NoTotals
  <1> QED BY <1>1, <1>2 DEF TotalsInv, Ended, Fields

LEMMA InitMetricsInv == MetricsInit => MetricsInv
  <1> SUFFICES ASSUME MetricsInit PROVE MetricsInv
    OBVIOUS
  <1> USE DEF MetricsInit
  <1>1. << >> \in Seq(Observed) /\ << >> \in Seq(Events) /\ << >> \in Seq(Segments)
    BY EmptySeq
  <1>2. NoSegment \in Segments
    BY AllSegments, SegmentsIn
  <1>3. totals \in [Fields -> Nat]
    BY DEF NoTotals
  <1>4. MetricsTypeOK
    BY <1>1, <1>2, <1>3 DEF MetricsTypeOK
  <1>5. HandlesInv
    BY DEF HandlesInv
  <1>6. InEpoch("active") = {} /\ InEpoch("lost") = {} /\ Counted = {}
    BY DEF InEpoch, Counted
  <1>7. TotalsInv
    BY <1>6, NothingCountedYet
  <1>8. RecordedInv
    <2>1. OurEvents \in SUBSET Events
      BY <1>4, DiskTyped
    <2>2. disk = <<<< >>, NoSegment>>
      BY DEF disk
    <2> QED BY <2>1, <2>2, SegmentsIn, EmptySeq DEF RecordedInv, Disks
  <1>9. LogInv
    <2>1. disk = <<<< >>, NoSegment>> /\ now \in Nat
      BY DEF disk
    <2>2. disk \in Disks(Dated(now)) /\ disk \in Disks(Segments)
      BY <1>2, <2>1, DatedAre, EmptySeq DEF Disks
    <2>3. ASSUME NEW c PROVE Ends(ReadFrom(Files(disk), c), Fresh(<< >>, c))
      <3>1. ReadFrom(Files(disk), c) = ReadFrom(disk[1], c) \o Fresh(disk[2].lines, c)
        BY <2>2, FilesRead
      <3>2. disk[1] = << >> /\ disk[2].lines = << >>
        BY <2>1 DEF NoSegment, Segment
      <3>3. << >> \in Seq(Events) /\ << >> \o << >> = << >>
        BY EmptySeq, ConcatEmptySeq
      <3>4. ReadFrom(Files(disk), c) = << >>
        BY <3>1, <3>2, <3>3, ReadEmpty, FreshEmpty
      <3> QED BY <3>3, <3>4, FreshEmpty, EndsItself
    <2>4. WholeBut(NoSegment.lines) /\ WholeLines(NoSegment.lines)
      BY EmptySeq DEF WholeBut, WholeLines, NoSegment, Segment
    <2> QED BY <2>2, <2>3, <2>4 DEF LogInv
  <1> QED BY <1>4, <1>5, <1>7, <1>8, <1>9 DEF MetricsInv

LEMMA StepMetricsInv == MetricsInv /\ [MetricsNext]_metricsVars => MetricsInv'
  <1> SUFFICES ASSUME MetricsInv, [MetricsNext]_metricsVars PROVE MetricsInv'
    OBVIOUS
  <1>0. MetricsTypeOK /\ HandlesInv /\ TotalsInv /\ RecordedInv /\ LogInv
    BY DEF MetricsInv
  <1>1. CASE MetricsNext
    <2>1. MetricsTypeOK'
      BY <1>0, <1>1, StepTyped
    <2>2. HandlesInv' /\ TotalsInv'
      <3>1. ASSUME ResetThrows \/ Tick PROVE HandlesInv' /\ TotalsInv'
        <4>1. UNCHANGED <<state, generation, intent, resetGeneration, totals, born, resets>>
          BY <3>1 DEF ResetThrows, Tick, memory
        <4> QED BY <1>0, <4>1, OthersCount
      <3> QED BY <1>0, <1>1, <3>1, StartCounts, StaleCounts, FinishCounts, ThrowCounts,
                 ResetCounts, RestartCounts DEF MetricsNext
    <2>3. RecordedInv'
      BY <1>0, <1>1, StepRecords
    <2>4. LogInv'
      BY <1>0, <1>1, StepLogged
    <2> QED BY <2>1, <2>2, <2>3, <2>4 DEF MetricsInv
  <1>2. CASE UNCHANGED metricsVars
    <2>1. /\ UNCHANGED <<state, generation, intent, resetGeneration, history, byId, totals>>
          /\ UNCHANGED <<rotated, currentSegment, disk>>
          /\ UNCHANGED <<maxBytes, now, born, resets, stored, tail, failures, starts>>
      BY <1>2 DEF metricsVars, memory, disk
    <2>2. MetricsTypeOK'
      BY <1>0, <2>1 DEF MetricsTypeOK
    <2>3. HandlesInv' /\ TotalsInv'
      BY <1>0, <2>1, OthersCount
    <2>4. RecordedInv'
      BY <1>0, <2>1 DEF RecordedInv, OurEvents, Ours
    <2>5. LogInv'
      BY <1>0, <2>1 DEF LogInv, Dated
    <2> QED BY <2>2, <2>3, <2>4, <2>5 DEF MetricsInv
  <1> QED BY <1>1, <1>2

(* Every variable of the metrics keeps its type. *)
THEOREM MetricsTyped == MetricsSpec => []MetricsTypeOK
  <1>1. MetricsInv => MetricsTypeOK
    BY DEF MetricsInv
  <1> QED BY <1>1, InitMetricsInv, StepMetricsInv, PTL DEF MetricsSpec

(* However many requests begin, end in any way and are overtaken by resets,   *)
(* failed appends and restarts, the totals of an epoch add up, and nothing of  *)
(* an earlier epoch is in the history or in the log.                           *)
THEOREM EpochsBalance == MetricsSpec => []EpochBalances
  <1>1. ASSUME MetricsInv PROVE EpochBalances
    <2>1. MetricsTypeOK /\ TotalsInv /\ RecordedInv
      BY <1>1 DEF MetricsInv
    <2>2. totals.hits + totals.misses <= Cardinality({r \in intent : Current(r)})
      <3>1. Counted \subseteq {r \in intent : Current(r)}
        BY DEF Counted
      <3>2. IsFiniteSet({r \in intent : Current(r)})
        BY <2>1, MetricsAssumption, FS_Subset DEF MetricsAssumption, MetricsTypeOK
      <3>3. Cardinality(Counted) <= Cardinality({r \in intent : Current(r)})
        BY <3>1, <3>2, FS_Subset
      <3>4. Cardinality({r \in intent : Current(r)}) \in Nat /\ Cardinality(Counted) \in Nat
        BY <2>1, <3>2, FS_CardinalityType, SetsCounted
      <3>5. totals.hits \in Nat /\ totals.misses \in Nat
        BY <2>1, TotalsTyped DEF Fields
      <3> QED BY <2>1, <3>3, <3>4, <3>5 DEF TotalsInv
    <2>3. \A i \in DOMAIN history : born[history[i]] = resets
      BY <2>1, LenProperties DEF RecordedInv, Ours
    <2>4. \A i \in DOMAIN Readable : born[Readable[i].request] = resets
      <3>1. Readable = ReadFrom(Files(disk), now - MaxAge)
        BY DEF Readable, Files, disk
      <3>2. OurEvents \in SUBSET Events
        BY <2>1, DiskTyped
      <3>3. Files(disk) \in Seq(SegmentsOf(OurEvents))
        BY <2>1, AppendProperties DEF RecordedInv, Files, Disks
      <3>4. Readable \in Seq(OurEvents)
        BY <3>1, <3>2, <3>3, ReadType
      <3> HIDE DEF Readable
      <3>5. \A i \in DOMAIN Readable : Readable[i] \in OurEvents
        BY <3>4, LenProperties, ElementOfSeq
      <3> QED BY <3>5 DEF OurEvents, Ours
    <2> QED BY <2>1, <2>2, <2>3, <2>4 DEF EpochBalances, TotalsInv, Ended
  <1> QED BY <1>1, InitMetricsInv, StepMetricsInv, PTL DEF MetricsSpec

(* However appends fail, segments are rotated and dropped and the server is    *)
(* killed and started again, what can be read of the log is the newest part    *)
(* of what was stored and is not too old.                                      *)
THEOREM LogKeepsNewest == MetricsSpec => []LogIsNewest
  <1>1. ASSUME MetricsInv PROVE LogIsNewest
    <2>1. MetricsTypeOK /\ LogInv
      BY <1>1 DEF MetricsInv
    <2>2. Readable = ReadFrom(Files(disk), now - MaxAge)
      BY DEF Readable, Files, disk
    <2>3. Readable \in Seq(Events)
      BY <2>1, <2>2, DiskTyped, FilesRead
    <2>4. ASSUME tail # "spoilt" PROVE IsSuffix(Readable, Fresh(stored, now - MaxAge))
      <3>1. PICK u \in Seq(Events) : Fresh(stored, now - MaxAge) = u \o Readable
        BY <2>1, <2>2, <2>4 DEF LogInv, Ends
      <3> QED BY <2>3, <3>1, EndsIsSuffix
    <2> QED BY <2>4 DEF LogIsNewest
  <1> QED BY <1>1, InitMetricsInv, StepMetricsInv, PTL DEF MetricsSpec

-----------------------------------------------------------------------------
(* The requests themselves. *)

LP == INSTANCE FairLimiterProofs

USE BarrierAssumption, SystemAssumption

-----------------------------------------------------------------------------
(* The barrier: it keeps rotations and leases apart and forgets no waiter.  *)

Inside == In(Readers, {"loading", "leased"})
PendingWriters == In(Writers, {"waiting", "woken"})
RotatingWriters == In(Writers, {"writing", "draining"})

(* What a waiter waits for is still there. *)
WaitersBlocked ==
    /\ \A r \in Readers : stage[r] = "waiting" => ReaderBlocked
    /\ \A w \in Writers : stage[w] = "waiting" => WriterBlocked

(* The inductive invariant. *)
BInv ==
    /\ TypeOK /\ TasksCounted /\ RotationAlone
    /\ WaitersBlocked /\ LeasesCurrent


LEMMA InitBInv == Init => BInv
  <1> SUFFICES ASSUME Init PROVE BInv
    OBVIOUS
  <1>1. Inside = {} /\ PendingWriters = {} /\ RotatingWriters = {}
    BY DEF Init, Inside, PendingWriters, RotatingWriters, In, Tasks
  <1>2. TypeOK
    <2>1. /\ activeReaders \in Nat /\ pendingWriters \in Nat
          /\ current \in Nat /\ durable \in Nat
          /\ secret \in [Readers -> Nat]
      BY SMT DEF Init, NoSecret
    <2>3. writerActive \in BOOLEAN
      BY DEF Init
    <2>2. stage = [t \in Tasks |-> "idle"]
      BY DEF Init
    <2> QED BY <2>1, <2>2, <2>3 DEF TypeOK, ReaderStages, WriterStages, Tasks
  <1>3. TasksCounted
    BY <1>1, FS_EmptySet DEF Init, TasksCounted, Inside, PendingWriters
  <1>4. RotationAlone
    BY <1>1 DEF Init, RotationAlone, RotatingWriters
  <1>5. WaitersBlocked /\ LeasesCurrent
    BY DEF Init, WaitersBlocked, LeasesCurrent, In, Tasks
  <1> QED BY <1>2, <1>3, <1>4, <1>5 DEF BInv

LEMMA SetsFinite ==
    IsFiniteSet(Inside) /\ IsFiniteSet(PendingWriters)
  BY FS_Subset DEF Inside, PendingWriters, In

(* The counters, where a step moves no task in or out of the sets counted. *)
LEMMA CountsKept ==
    ASSUME TasksCounted, Inside' = Inside, PendingWriters' = PendingWriters,
           UNCHANGED <<activeReaders, pendingWriters>>
    PROVE  TasksCounted'
  BY DEF TasksCounted, Inside, PendingWriters

-----------------------------------------------------------------------------
LEMMA ReaderWaitsKeeps ==
    ASSUME BInv, NEW r \in Readers, ReaderWaits(r)
    PROVE  BInv'
  <1> USE DEF BInv, ReaderWaits
  <1>1. TypeOK'
    BY DEF TypeOK, ReaderStages, WriterStages, Tasks
  <1>2. /\ Inside' = Inside /\ PendingWriters' = PendingWriters
        /\ RotatingWriters' = RotatingWriters
    BY DEF TypeOK, Tasks, Inside, PendingWriters, RotatingWriters, In
  <1>3. TasksCounted'
    BY <1>2, CountsKept
  <1>4. RotationAlone'
    BY <1>2 DEF RotationAlone, RotatingWriters, Inside
  <1>5. WaitersBlocked'
    BY DEF WaitersBlocked, ReaderBlocked, WriterBlocked, TypeOK, Tasks
  <1>6. LeasesCurrent'
    BY DEF LeasesCurrent, In, TypeOK, Tasks
  <1> QED BY <1>1, <1>3, <1>4, <1>5, <1>6

LEMMA ReaderEntersKeeps ==
    ASSUME BInv, NEW r \in Readers, ReaderEnters(r)
    PROVE  BInv'
  <1> USE DEF BInv, ReaderEnters
  <1>1. TypeOK'
    BY DEF TypeOK, ReaderStages, WriterStages, Tasks
  <1>2. /\ Inside' = Inside \cup {r} /\ r \notin Inside
        /\ PendingWriters' = PendingWriters /\ RotatingWriters' = RotatingWriters
    BY DEF TypeOK, Tasks, Inside, PendingWriters, RotatingWriters, In
  <1>3. Cardinality(Inside') = Cardinality(Inside) + 1
    BY <1>2, SetsFinite, FS_AddElement
  <1>4. TasksCounted'
    BY <1>2, <1>3 DEF TasksCounted, Inside, PendingWriters
  <1>5. RotationAlone'
    BY <1>2 DEF RotationAlone, RotatingWriters, Inside, ReaderBlocked
  <1>6. WaitersBlocked'
    BY DEF WaitersBlocked, ReaderBlocked, WriterBlocked, TypeOK, Tasks
  <1>7. LeasesCurrent'
    BY DEF LeasesCurrent, In, TypeOK, Tasks
  <1> QED BY <1>1, <1>4, <1>5, <1>6, <1>7

LEMMA GetsSecretKeeps ==
    ASSUME BInv, NEW r \in Readers, GetsSecret(r)
    PROVE  BInv'
  <1> USE DEF BInv, GetsSecret
  <1>1. Stored \in Nat \ {0}
    BY DEF TypeOK, Stored, NoSecret
  <1>2. TypeOK'
    BY <1>1 DEF TypeOK, ReaderStages, WriterStages, Tasks
  <1>3. /\ Inside' = Inside /\ PendingWriters' = PendingWriters
        /\ RotatingWriters' = RotatingWriters
    BY DEF TypeOK, Tasks, Inside, PendingWriters, RotatingWriters, In
  <1>4. TasksCounted'
    BY <1>3, CountsKept
  <1>5. RotationAlone'
    BY <1>3 DEF RotationAlone, RotatingWriters, Inside
  <1>6. WaitersBlocked'
    BY DEF WaitersBlocked, ReaderBlocked, WriterBlocked, TypeOK, Tasks
  <1>7. LeasesCurrent'
    BY <1>1 DEF LeasesCurrent, In, TypeOK, Tasks, NoSecret
  <1> QED BY <1>2, <1>4, <1>5, <1>6, <1>7

LEMMA LeaveReaderKeeps ==
    ASSUME BInv, NEW r \in Inside, LeaveReader(r)
    PROVE  BInv'
  <1> USE DEF BInv, LeaveReader, Notified
  <1>1. r \in Readers /\ stage[r] \in {"loading", "leased"}
    BY DEF Inside, In
  <1>2. /\ Inside' = Inside \ {r}
        /\ PendingWriters' = PendingWriters /\ RotatingWriters' = RotatingWriters
    BY <1>1 DEF TypeOK, Tasks, Inside, PendingWriters, RotatingWriters, In
  <1>3. /\ Cardinality(Inside') = Cardinality(Inside) - 1
        /\ Cardinality(Inside') \in Nat
    BY <1>2, SetsFinite, FS_RemoveElement, FS_CardinalityType
  <1>4. activeReaders' = Cardinality(Inside')
    BY <1>3 DEF TasksCounted, Inside
  <1>5. TypeOK'
    BY <1>1, <1>3, <1>4 DEF TypeOK, ReaderStages, WriterStages, Tasks, NoSecret
  <1>6. TasksCounted'
    BY <1>2, <1>4 DEF TasksCounted, Inside, PendingWriters
  <1>7. RotationAlone'
    BY <1>2 DEF RotationAlone, RotatingWriters, Inside
  <1>8. WaitersBlocked'
    BY <1>1 DEF WaitersBlocked, TypeOK, Tasks
  <1>9. LeasesCurrent'
    BY <1>1 DEF LeasesCurrent, In, TypeOK, Tasks
  <1> QED BY <1>5, <1>6, <1>7, <1>8, <1>9

-----------------------------------------------------------------------------
LEMMA WriterWaitsKeeps ==
    ASSUME BInv, NEW w \in Writers, WriterWaits(w)
    PROVE  BInv'
  <1> USE DEF BInv, WriterWaits
  <1>1. TypeOK'
    BY DEF TypeOK, ReaderStages, WriterStages, Tasks
  <1>2. /\ Inside' = Inside /\ RotatingWriters' = RotatingWriters
        /\ PendingWriters' = PendingWriters \cup {w}
        /\ w \in PendingWriters <=> stage[w] = "woken"
    BY DEF TypeOK, Tasks, Inside, PendingWriters, RotatingWriters, In
  <1>3. pendingWriters' = Cardinality(PendingWriters')
    <2>1. Cardinality(PendingWriters')
             = IF stage[w] = "woken" THEN Cardinality(PendingWriters)
               ELSE Cardinality(PendingWriters) + 1
      BY <1>2, SetsFinite, FS_AddElement
    <2>2. pendingWriters = Cardinality(PendingWriters)
      BY DEF TasksCounted, PendingWriters
    <2>3. stage[w] = "idle" <=> stage[w] # "woken"
      OBVIOUS
    <2> QED BY <2>1, <2>2, <2>3
  <1>4. TasksCounted'
    BY <1>2, <1>3 DEF TasksCounted, Inside, PendingWriters
  <1>5. RotationAlone'
    BY <1>2 DEF RotationAlone, RotatingWriters, Inside
  <1>6. WaitersBlocked'
    BY DEF WaitersBlocked, ReaderBlocked, WriterBlocked, TypeOK, Tasks
  <1>7. LeasesCurrent'
    BY DEF LeasesCurrent, In, TypeOK, Tasks
  <1> QED BY <1>1, <1>4, <1>5, <1>6, <1>7

LEMMA WriterEntersKeeps ==
    ASSUME BInv, NEW w \in Writers, WriterEnters(w)
    PROVE  BInv'
  <1> USE DEF BInv, WriterEnters
  <1>1. /\ Inside' = Inside /\ PendingWriters' = PendingWriters \ {w}
        /\ w \in PendingWriters <=> stage[w] = "woken"
        /\ RotatingWriters' = RotatingWriters \cup {w}
    BY DEF TypeOK, Tasks, Inside, PendingWriters, RotatingWriters, In
  <1>2. /\ pendingWriters' = Cardinality(PendingWriters')
        /\ Cardinality(PendingWriters') \in Nat
    BY <1>1, SetsFinite, FS_RemoveElement, FS_CardinalityType
       DEF TasksCounted, PendingWriters, TypeOK
  <1>3. TypeOK'
    BY <1>2 DEF TypeOK, ReaderStages, WriterStages, Tasks
  <1>4. TasksCounted'
    BY <1>1, <1>2 DEF TasksCounted, Inside, PendingWriters
  <1>5. Inside = {} /\ RotatingWriters = {}
    <2>1. Cardinality(Inside) = 0
      BY DEF WriterBlocked, TasksCounted, Inside, TypeOK
    <2>2. Inside = {}
      BY <2>1, SetsFinite, FS_EmptySet
    <2> QED BY <2>2 DEF WriterBlocked, RotationAlone, RotatingWriters
  <1>6. RotationAlone'
    BY <1>1, <1>5 DEF RotationAlone, RotatingWriters, Inside
  <1>7. WaitersBlocked'
    BY DEF WaitersBlocked, ReaderBlocked, WriterBlocked, TypeOK, Tasks
  <1>8. LeasesCurrent'
    BY DEF LeasesCurrent, In, TypeOK, Tasks
  <1> QED BY <1>3, <1>4, <1>6, <1>7, <1>8

LEMMA PersistKeeps ==
    ASSUME BInv, NEW w \in Writers, Persist(w)
    PROVE  BInv'
  <1> USE DEF BInv, Persist
  <1>1. TypeOK'
    BY DEF TypeOK, ReaderStages, WriterStages, Tasks, Stored
  <1>2. /\ Inside' = Inside /\ PendingWriters' = PendingWriters
        /\ RotatingWriters' = RotatingWriters /\ w \in RotatingWriters
    BY DEF TypeOK, Tasks, Inside, PendingWriters, RotatingWriters, In
  <1>3. TasksCounted'
    BY <1>2, CountsKept
  <1>4. RotationAlone'
    BY <1>2 DEF RotationAlone, RotatingWriters, Inside
  <1>5. WaitersBlocked'
    BY DEF WaitersBlocked, ReaderBlocked, WriterBlocked, TypeOK, Tasks
  <1>6. LeasesCurrent'
    <2>1. Inside = {}
      BY <1>2 DEF RotationAlone, RotatingWriters, Inside
    <2>2. In(Readers, {"leased"})' = {}
      BY <1>2, <2>1 DEF Inside, In
    <2> QED BY <2>2 DEF LeasesCurrent
  <1> QED BY <1>1, <1>3, <1>4, <1>5, <1>6

LEMMA LeaveWriterKeeps ==
    ASSUME BInv, NEW w \in RotatingWriters, LeaveWriter(w), durable' \in Nat
    PROVE  BInv'
  <1> USE DEF BInv, LeaveWriter, Notified
  <1>1. w \in Writers /\ stage[w] \in {"writing", "draining"}
    BY DEF RotatingWriters, In
  <1>2. TypeOK'
    BY <1>1 DEF TypeOK, ReaderStages, WriterStages, Tasks
  <1>3. /\ Inside' = Inside /\ PendingWriters' = PendingWriters
        /\ RotatingWriters' = RotatingWriters \ {w}
    BY <1>1 DEF TypeOK, Tasks, Inside, PendingWriters, RotatingWriters, In
  <1>4. TasksCounted'
    BY <1>3, CountsKept
  <1>5. RotatingWriters' = {}
    BY <1>3 DEF RotationAlone, RotatingWriters
  <1>6. RotationAlone'
    BY <1>5 DEF RotationAlone, RotatingWriters
  <1>7. WaitersBlocked'
    BY <1>1 DEF WaitersBlocked, TypeOK, Tasks
  <1>8. LeasesCurrent'
    BY <1>1 DEF LeasesCurrent, In, TypeOK, Tasks
  <1> QED BY <1>2, <1>4, <1>6, <1>7, <1>8

-----------------------------------------------------------------------------
LEMMA StepKeeps == BInv /\ [Next]_vars => BInv'
  <1> SUFFICES ASSUME BInv, [Next]_vars PROVE BInv'
    OBVIOUS
  <1>1. CASE UNCHANGED vars
    BY <1>1 DEF vars, BInv, TypeOK, TasksCounted, RotationAlone, WaitersBlocked,
                ReaderBlocked, WriterBlocked, LeasesCurrent, In
  <1>2. ASSUME NEW r \in Readers, ReaderStep(r) PROVE BInv'
    <2>1. CASE ReaderWaits(r)
      BY <2>1, ReaderWaitsKeeps
    <2>2. CASE ReaderEnters(r)
      BY <2>2, ReaderEntersKeeps
    <2>3. CASE GetsSecret(r)
      BY <2>3, GetsSecretKeeps
    <2>4. CASE LoadFails(r) \/ ReleaseLease(r)
      <3>1. r \in Inside /\ LeaveReader(r)
        BY <2>4 DEF LoadFails, ReleaseLease, Inside, In
      <3> QED BY <3>1, LeaveReaderKeeps
    <2> QED BY <1>2, <2>1, <2>2, <2>3, <2>4 DEF ReaderStep
  <1>3. ASSUME NEW w \in Writers, WriterStep(w) PROVE BInv'
    <2>1. CASE WriterWaits(w)
      BY <2>1, WriterWaitsKeeps
    <2>2. CASE WriterEnters(w)
      BY <2>2, WriterEntersKeeps
    <2>3. CASE Persist(w)
      BY <2>3, PersistKeeps
    <2>4. CASE RotationFails(w) \/ RotationUnsynced(w) \/ RotationEnds(w)
      <3>1. w \in RotatingWriters /\ LeaveWriter(w)
        BY <2>4 DEF RotationFails, RotationUnsynced, RotationEnds, RotatingWriters, In
      <3>2. durable' \in Nat
        BY <2>4 DEF RotationFails, RotationUnsynced, RotationEnds, BInv, TypeOK, Stored
      <3> QED BY <3>1, <3>2, LeaveWriterKeeps
    <2> QED BY <1>3, <2>1, <2>2, <2>3, <2>4 DEF WriterStep
  <1> QED BY <1>1, <1>2, <1>3 DEF Next

LEMMA Invariance == Spec => []BInv
  BY InitBInv, StepKeeps, PTL DEF Spec

(* Type correctness: in particular no counter becomes negative. *)
THEOREM TypeCorrect == Spec => []TypeOK
  <1>1. BInv => TypeOK
    BY DEF BInv
  <1> QED BY <1>1, Invariance, PTL

(* The counters of the barrier are exact along every exit of a task. *)
THEOREM TasksAreCounted == Spec => []TasksCounted
  <1>1. BInv => TasksCounted
    BY DEF BInv
  <1> QED BY <1>1, Invariance, PTL

(* A rotation runs alone and while nobody derives an identity. *)
THEOREM RotationsRunAlone == Spec => []RotationAlone
  <1>1. BInv => RotationAlone
    BY DEF BInv
  <1> QED BY <1>1, Invariance, PTL

(* A lease never outlives the secret it was issued for. *)
THEOREM LeasesStayCurrent == Spec => []LeasesCurrent
  <1>1. BInv => LeasesCurrent
    BY DEF BInv
  <1> QED BY <1>1, Invariance, PTL

(* No task waits for a notify that nobody is left to send: a waiting reader *)
(* is kept out by a writer, active or pending, and a pending one waits for  *)
(* a writer or for readers, or has been woken.                             *)
THEOREM NoWakeupIsLost == Spec => []NoLostWakeup
  <1>1. BInv => NoLostWakeup
    <2> SUFFICES ASSUME BInv, NEW t \in Tasks, stage[t] = "waiting"
                 PROVE  \/ writerActive \/ activeReaders > 0
                        \/ In(Writers, {"woken"}) # {}
      BY DEF NoLostWakeup, In
    <2>1. ASSUME NEW w \in Writers, stage[w] = "waiting"
          PROVE  writerActive \/ activeReaders > 0
      BY <2>1 DEF BInv, WaitersBlocked, WriterBlocked
    <2>2. CASE t \in Writers
      BY <2>1, <2>2
    <2>3. CASE t \in Readers
      <3>1. writerActive \/ pendingWriters > 0
        BY <2>3 DEF BInv, WaitersBlocked, ReaderBlocked
      <3>2. ASSUME pendingWriters > 0
            PROVE  \E w \in Writers : stage[w] \in {"waiting", "woken"}
        <4>1. Cardinality(PendingWriters) # 0
          BY <3>2 DEF BInv, TasksCounted, PendingWriters, TypeOK
        <4>2. PendingWriters # {}
          BY <4>1, FS_EmptySet
        <4> QED BY <4>2 DEF PendingWriters, In
      <3> QED BY <2>1, <3>1, <3>2 DEF In
    <2> QED BY <2>2, <2>3 DEF Tasks
  <1> QED BY <1>1, Invariance, PTL

-----------------------------------------------------------------------------
(* The calls of the limiter, and the lemmas about them in this composition. *)

Acquires(r) ==
    \/ Limiter!AcquireNow(r) \/ Limiter!AcquireRefused(r)
    \/ Limiter!AcquireAborted(r) \/ Limiter!AcquireQueued(r)

Returns(r) == Limiter!Release(r) \/ Limiter!Leave(r)

LEMMA LimiterConstants ==
    /\ LP!LimiterAssumption /\ LP!IsFiniteSet(Requests)
    /\ PriorityOf \in [Requests -> LP!Priorities]
  <1>1. LP!IsFiniteSet(Requests)
    BY DEF LP!IsFiniteSet, IsFiniteSet, Requests
  <1>2. PriorityOf \in [Requests -> LP!Priorities]
    BY DEF LP!Priorities, Limiter!Priorities
  <1> QED BY <1>1, <1>2 DEF LP!LimiterAssumption

LEMMA DispatchSame ==
    ASSUME NEW q, NEW h, NEW promises, Limiter!Dispatch(q, h, promises)
    PROVE  LP!Dispatch(q, h, promises)
  BY DEF Limiter!Dispatch, LP!Dispatch, Limiter!Priorities, LP!Priorities,
         Limiter!PassedOver, LP!PassedOver, Limiter!NextOffset, LP!NextOffset,
         Limiter!ClassAt, LP!ClassAt, Limiter!Cycle, LP!Cycle,
         Limiter!Best, LP!Best, Limiter!Admit, LP!Admit, Limiter!Moved, LP!Moved,
         Limiter!RemoveAt, LP!RemoveAt

LEMMA AcquiresSame ==
    ASSUME NEW r \in Requests, Acquires(r)
    PROVE  \/ LP!AcquireNow(r) \/ LP!AcquireRefused(r)
           \/ LP!AcquireAborted(r) \/ LP!AcquireQueued(r)
  <1>1. CASE Limiter!AcquireNow(r)
    BY <1>1 DEF Limiter!AcquireNow, LP!AcquireNow, Limiter!Queued, LP!Queued,
                Limiter!Admit, LP!Admit, Limiter!Moved, LP!Moved
  <1>2. CASE Limiter!AcquireRefused(r) \/ Limiter!AcquireAborted(r)
    BY <1>2 DEF Limiter!AcquireRefused, LP!AcquireRefused,
                Limiter!AcquireAborted, LP!AcquireAborted,
                Limiter!MustWait, LP!MustWait, Limiter!Queued, LP!Queued
  <1>3. CASE Limiter!AcquireQueued(r)
    BY <1>3, DispatchSame
       DEF Limiter!AcquireQueued, LP!AcquireQueued,
           Limiter!MustWait, LP!MustWait, Limiter!Queued, LP!Queued
  <1> QED BY <1>1, <1>2, <1>3 DEF Acquires

LEMMA ReturnsSame ==
    ASSUME NEW r \in Requests, Returns(r)
    PROVE  LP!Release(r) \/ LP!Leave(r)
  BY DispatchSame DEF Returns, Limiter!Release, LP!Release, Limiter!Return,
     LP!Return, Limiter!Moved, LP!Moved, Limiter!Leave, LP!Leave

LEMMA AbortSame ==
    ASSUME NEW r \in Requests, Limiter!Abort(r)
    PROVE  LP!Abort(r)
  BY DEF Limiter!Abort, LP!Abort, Limiter!PassedOver, LP!PassedOver,
         Limiter!Priorities, LP!Priorities, Limiter!RemoveAt, LP!RemoveAt

-----------------------------------------------------------------------------
(* Every step of the server is one of the barrier, or leaves it alone. *)

LEMMA BarrierStep == [SystemNext]_systemVars => [Next]_vars
  <1> SUFFICES ASSUME SystemNext PROVE Next \/ UNCHANGED vars
    BY DEF systemVars, barrierVars
  <1>1. ASSUME NEW r \in Requests, Start(r) \/ Abort(r) \/ Proceeds(r)
        PROVE  ReaderStep(r) \/ UNCHANGED vars
    <2>1. CASE Start(r) \/ Abort(r) \/ ResolveFails(r) \/ Acquire(r)
      BY <2>1 DEF Start, Abort, ResolveFails, Acquire, barrierVars
    <2>2. CASE AsksSecret(r) \/ TakesSecret(r) \/ SecretFails(r) \/ IdentityFails(r)
      BY <2>2 DEF AsksSecret, TakesSecret, SecretFails, IdentityFails, ReaderStep
    <2>3. CASE Refused(r) \/ Dropped(r) \/ Served(r)
      BY <2>3 DEF Refused, Dropped, Served, ReaderStep
    <2> QED BY <1>1, <2>1, <2>2, <2>3 DEF Proceeds
  <1>2. ASSUME NEW w \in Writers, Rotate(w)
        PROVE  WriterStep(w)
    BY <1>2 DEF Rotate
  <1> QED BY <1>1, <1>2 DEF SystemNext, Next, Requests

(* The server implements the barrier: what is proved of rotations and      *)
(* leases there holds of the requests here.                                *)
THEOREM ServerImplementsBarrier == SystemSpec => Spec
  <1>1. SystemInit => Init
    BY DEF SystemInit
  <1> QED BY <1>1, BarrierStep, PTL DEF SystemSpec, Spec

-----------------------------------------------------------------------------
(* The inductive invariant. *)

(* What a request holds at each point of its way: a lease from the barrier *)
(* on, a promise of the limiter from acquire on.                           *)
Places == {"gone", "resolving", "identity", "admission"}

HoldsAt(r) ==
    /\ at[r] = "gone" => r \notin registered
    /\ at[r] \in {"gone", "resolving"} => stage[r] = "idle"
    /\ at[r] = "admission" => stage[r] = "leased"
    /\ at[r] = "admission" <=> promise[r] # "none"

Holds ==
    /\ at \in [Requests -> Places]
    /\ unsettled \subseteq Requests /\ registered \subseteq Requests
    /\ \A r \in Requests : HoldsAt(r)

SInv == BInv /\ LP!LInv /\ Holds

LEMMA InitSInv == ASSUME SystemInit PROVE SInv
  <1>1. BInv
    BY InitBInv DEF SystemInit
  <1>2. LP!LInv
    <2>1. LP!Init
      BY DEF SystemInit, Limiter!Init, LP!Init, Limiter!Priorities, LP!Priorities
    <2> QED BY <2>1, LP!InitLInv, LimiterConstants DEF LP!LimiterAssumption
  <1>3. Holds
    BY DEF SystemInit, Init, Limiter!Init, Holds, HoldsAt, Places, Requests, Tasks
  <1> QED BY <1>1, <1>2, <1>3 DEF SInv

-----------------------------------------------------------------------------
(* What a step of one task does to the others. *)

(* A stage is kept, or its task is woken. *)
KeptOrWoken(s) ==
    stage'[s] = stage[s] \/ (stage[s] = "waiting" /\ stage'[s] = "woken")

LEMMA OthersOnlyWoken ==
    ASSUME BInv, NEW t \in Tasks,
           \/ t \in Readers /\ ReaderStep(t)
           \/ t \in Writers /\ WriterStep(t)
    PROVE  \A s \in Tasks \ {t} : KeptOrWoken(s)
  <1>1. stage = [s \in Tasks |-> stage[s]]
    BY DEF BInv, TypeOK
  <1>2. CASE t \in Readers /\ ReaderStep(t)
    BY <1>1, <1>2 DEF ReaderStep, ReaderWaits, ReaderEnters, GetsSecret,
       LoadFails, ReleaseLease, LeaveReader, Notified, KeptOrWoken
  <1>3. CASE t \in Writers /\ WriterStep(t)
    BY <1>1, <1>3 DEF WriterStep, WriterWaits, WriterEnters, Persist,
       RotationFails, RotationUnsynced, RotationEnds, LeaveWriter, Notified,
       KeptOrWoken
  <1> QED BY <1>2, <1>3

Others(r) ==
    \A s \in Requests \ {r} : KeptOrWoken(s) /\ LP!KeptOrServed(promise, s)

(* A step of r keeps the invariant of all if it restores that of r.        *)
LEMMA HoldsKept ==
    ASSUME Holds, NEW r \in Requests, NEW place \in Places,
           at' = [at EXCEPT ![r] = place],
           unsettled' \in {unsettled, unsettled \cup {r}, unsettled \ {r}},
           registered' \in {registered, registered \cup {r}, registered \ {r}},
           Others(r), HoldsAt(r)'
    PROVE  Holds'
  <1>1. at' \in [Requests -> Places]
    BY DEF Holds
  <1>2. ASSUME NEW s \in Requests \ {r} PROVE HoldsAt(s)'
    <2>1. at'[s] = at[s] /\ (s \in registered' <=> s \in registered)
      BY DEF Holds
    <2>2. HoldsAt(s) /\ KeptOrWoken(s) /\ LP!KeptOrServed(promise, s)
      BY DEF Holds, Others
    <2> QED BY <2>1, <2>2 DEF HoldsAt, KeptOrWoken, LP!KeptOrServed
  <1> QED BY <1>1, <1>2 DEF Holds

(* The limiter is left alone, but for the signal of a request that leaves. *)
LimiterAlone(r) ==
    /\ aborted' \in {aborted, aborted \ {r}}
    /\ UNCHANGED <<held, waiters, scheduleIndex, promise, passed>>

LEMMA LimiterAloneKeeps ==
    ASSUME SInv, NEW r \in Requests, at[r] # "admission", LimiterAlone(r)
    PROVE  LP!LInv' /\ \A s \in Requests : LP!KeptOrServed(promise, s)
  <1>1. promise[r] = "none"
    BY DEF SInv, Holds, HoldsAt
  <1>2. promise \in [Requests -> LP!Promises]
    BY DEF SInv, LP!LInv
  <1>3. promise' = [promise EXCEPT ![r] = "none"]
    BY <1>1, <1>2 DEF LimiterAlone
  <1>4. "none" \in LP!Promises \ {"granted"}
    BY DEF LP!Promises
  <1>5. LP!LInv'
    BY <1>1, <1>3, <1>4, LP!PromiseMoves, LimiterConstants
       DEF SInv, LimiterAlone, LP!LimiterAssumption
  <1> QED BY <1>5 DEF LimiterAlone, LP!KeptOrServed

LEMMA LimiterCallKeeps ==
    ASSUME LP!LInv, NEW r \in Requests,
           \/ LP!AcquireNow(r) \/ LP!AcquireRefused(r) \/ LP!AcquireAborted(r)
           \/ LP!AcquireQueued(r) \/ LP!Release(r) \/ LP!Abort(r) \/ LP!Leave(r)
    PROVE  LP!LInv'
  BY LP!StepKeeps, LimiterConstants DEF LP!Next, LP!LimiterAssumption

-----------------------------------------------------------------------------
(* Every step keeps the invariant. *)

LEMMA StartKeeps ==
    ASSUME SInv, NEW r \in Requests, Start(r)
    PROVE  LP!LInv' /\ Holds'
  <1> USE DEF Start, barrierVars, vars, limiterVars
  <1>1. LP!LInv' /\ \A s \in Requests : LP!KeptOrServed(promise, s)
    BY LimiterAloneKeeps DEF LimiterAlone, SInv, Holds, HoldsAt
  <1>2. Others(r)
    BY <1>1 DEF Others, KeptOrWoken
  <1>3. HoldsAt(r)'
    BY DEF SInv, Holds, HoldsAt
  <1>4. "resolving" \in Places
    BY DEF Places
  <1> QED BY <1>1, <1>2, <1>3, <1>4, HoldsKept DEF SInv

LEMMA AbortKeeps ==
    ASSUME SInv, NEW r \in Requests, Abort(r)
    PROVE  LP!LInv' /\ Holds'
  <1> USE DEF Abort, requestVars, barrierVars, vars
  <1>1. LP!Abort(r)
    BY AbortSame
  <1>2. LP!LInv'
    BY <1>1, LimiterCallKeeps DEF SInv
  <1>3. /\ promise'[r] = "none" <=> promise[r] = "none"
        /\ \A s \in Requests \ {r} : LP!KeptOrServed(promise, s)
    BY <1>1, LP!AbortPromises, LimiterConstants DEF SInv, LP!LimiterAssumption
  <1>4. Others(r)
    BY <1>3 DEF Others, KeptOrWoken
  <1>5. HoldsAt(r)'
    BY <1>3 DEF SInv, Holds, HoldsAt
  <1>6. at' = [at EXCEPT ![r] = at[r]] /\ at[r] \in Places
    BY DEF SInv, Holds
  <1> QED BY <1>2, <1>4, <1>5, <1>6, HoldsKept DEF SInv

(* A request leaves from before the limiter, its lease given back or none. *)
LEMMA LeavesEarlyKeeps ==
    ASSUME SInv, NEW r \in Requests, at[r] \in {"resolving", "identity"},
           LeavesEarly(r), stage'[r] = "idle",
           \A s \in Requests \ {r} : KeptOrWoken(s)
    PROVE  LP!LInv' /\ Holds'
  <1> USE DEF LeavesEarly, Leaves, Settles
  <1>1. LP!LInv' /\ \A s \in Requests : LP!KeptOrServed(promise, s)
    BY LimiterAloneKeeps DEF LimiterAlone
  <1>2. Others(r)
    BY <1>1 DEF Others
  <1>3. at'[r] = "gone" /\ r \notin registered' /\ promise'[r] = "none"
    BY DEF SInv, Holds, HoldsAt
  <1>4. HoldsAt(r)' /\ "gone" \in Places
    BY <1>3 DEF HoldsAt, Places
  <1> QED BY <1>1, <1>2, <1>4, HoldsKept DEF SInv

LEMMA ReadersAreTasks == Requests = Readers /\ Requests \subseteq Tasks
  BY DEF Requests, Tasks

LEMMA EndsEarlyKeeps ==
    ASSUME SInv, NEW r \in Requests,
           ResolveFails(r) \/ SecretFails(r) \/ IdentityFails(r)
    PROVE  LP!LInv' /\ Holds'
  <1>1. CASE ResolveFails(r)
    <2>1. /\ at[r] = "resolving" /\ LeavesEarly(r) /\ UNCHANGED stage
      BY <1>1 DEF ResolveFails, barrierVars, vars
    <2>2. stage'[r] = "idle"
      BY <2>1 DEF SInv, Holds, HoldsAt
    <2> QED BY <2>1, <2>2, LeavesEarlyKeeps DEF KeptOrWoken
  <1>2. CASE SecretFails(r) \/ IdentityFails(r)
    <2>1. /\ at[r] = "identity" /\ LeavesEarly(r)
          /\ LoadFails(r) \/ ReleaseLease(r)
      BY <1>2 DEF SecretFails, IdentityFails
    <2>2. stage'[r] = "idle"
      BY <2>1, ReadersAreTasks
         DEF LoadFails, ReleaseLease, LeaveReader, Notified, SInv, BInv, TypeOK
    <2>3. \A s \in Requests \ {r} : KeptOrWoken(s)
      BY <2>1, OthersOnlyWoken, ReadersAreTasks DEF ReaderStep, SInv
    <2> QED BY <2>1, <2>2, <2>3, LeavesEarlyKeeps
  <1> QED BY <1>1, <1>2

LEMMA SecretKeeps ==
    ASSUME SInv, NEW r \in Requests, AsksSecret(r) \/ TakesSecret(r)
    PROVE  LP!LInv' /\ Holds'
  <1>1. /\ at[r] \in {"resolving", "identity"}
        /\ at' = [at EXCEPT ![r] = "identity"]
        /\ ReaderStep(r)
        /\ UNCHANGED <<unsettled, registered, limiterVars>>
    BY DEF AsksSecret, TakesSecret, ReaderStep, requestVars, SInv, Holds
  <1>2. LP!LInv' /\ \A s \in Requests : LP!KeptOrServed(promise, s)
    BY <1>1, LimiterAloneKeeps DEF LimiterAlone, limiterVars
  <1>3. Others(r)
    BY <1>1, <1>2, OthersOnlyWoken, ReadersAreTasks DEF Others, SInv
  <1>4. at'[r] = "identity" /\ promise'[r] = "none"
    BY <1>1 DEF SInv, Holds, HoldsAt, limiterVars
  <1>5. HoldsAt(r)' /\ "identity" \in Places
    BY <1>4 DEF HoldsAt, Places
  <1> QED BY <1>1, <1>2, <1>3, <1>5, HoldsKept DEF SInv

LEMMA AcquireKeeps ==
    ASSUME SInv, NEW r \in Requests, Acquire(r)
    PROVE  LP!LInv' /\ Holds'
  <1>1. /\ at' = [at EXCEPT ![r] = "admission"] /\ stage[r] = "leased"
        /\ UNCHANGED <<unsettled, registered, stage>> /\ Acquires(r)
    BY DEF Acquire, Acquires, barrierVars, vars
  <1>2. \/ LP!AcquireNow(r) \/ LP!AcquireRefused(r)
        \/ LP!AcquireAborted(r) \/ LP!AcquireQueued(r)
    BY <1>1, AcquiresSame
  <1>3. LP!LInv'
    BY <1>2, LimiterCallKeeps DEF SInv
  <1>4. /\ promise'[r] # "none"
        /\ \A s \in Requests \ {r} : LP!KeptOrServed(promise, s)
    BY <1>2, LP!AcquirePromises, LimiterConstants DEF SInv, LP!LimiterAssumption
  <1>5. Others(r)
    BY <1>1, <1>4 DEF Others, KeptOrWoken
  <1>6. at'[r] = "admission" /\ stage'[r] = "leased"
    BY <1>1 DEF SInv, Holds
  <1>7. HoldsAt(r)' /\ "admission" \in Places
    BY <1>4, <1>6 DEF HoldsAt, Places
  <1> QED BY <1>1, <1>3, <1>5, <1>7, HoldsKept DEF SInv

(* A request leaves the limiter, and gives its lease back.                 *)
LEMMA AnsweredKeeps ==
    ASSUME SInv, NEW r \in Requests, Refused(r) \/ Dropped(r) \/ Served(r)
    PROVE  LP!LInv' /\ Holds'
  <1>1. /\ at' = [at EXCEPT ![r] = "gone"] /\ registered' = registered \ {r}
        /\ unsettled' \in {unsettled, unsettled \ {r}}
        /\ ReleaseLease(r) /\ Returns(r)
    BY DEF Refused, Dropped, Served, Leaves, Settles, Returns
  <1>2. LP!Release(r) \/ LP!Leave(r)
    BY <1>1, ReturnsSame
  <1>3. LP!LInv'
    BY <1>2, LimiterCallKeeps DEF SInv
  <1>4. /\ promise'[r] = "none"
        /\ \A s \in Requests \ {r} : LP!KeptOrServed(promise, s)
    BY <1>2, LP!ReturnPromises, LimiterConstants DEF SInv, LP!LimiterAssumption
  <1>5. Others(r)
    BY <1>1, <1>4, OthersOnlyWoken, ReadersAreTasks DEF Others, ReaderStep, SInv
  <1>6. at'[r] = "gone" /\ r \notin registered'
    BY <1>1 DEF SInv, Holds
  <1>7. stage'[r] = "idle"
    BY <1>1, ReadersAreTasks
       DEF ReleaseLease, LeaveReader, Notified, SInv, BInv, TypeOK
  <1>8. HoldsAt(r)' /\ "gone" \in Places
    BY <1>4, <1>6, <1>7 DEF HoldsAt, Places
  <1> QED BY <1>1, <1>3, <1>5, <1>8, HoldsKept DEF SInv

LEMMA RotateKeeps ==
    ASSUME SInv, NEW w \in Writers, Rotate(w)
    PROVE  LP!LInv' /\ Holds'
  <1>1. WriterStep(w) /\ UNCHANGED <<requestVars, limiterVars>>
    BY DEF Rotate
  <1>2. \A s \in Requests : KeptOrWoken(s)
    BY <1>1, OthersOnlyWoken, BarrierAssumption DEF Requests, Tasks, SInv
  <1>3. LP!LInv'
    BY <1>1, LP!StepKeeps, LimiterConstants
       DEF SInv, limiterVars, LP!vars, LP!LimiterAssumption
  <1>4. ASSUME NEW s \in Requests PROVE HoldsAt(s)'
    BY <1>1, <1>2 DEF HoldsAt, SInv, Holds, KeptOrWoken, requestVars, limiterVars
  <1> QED BY <1>1, <1>3, <1>4 DEF SInv, Holds, requestVars

LEMMA ServerStepKeeps == SInv /\ [SystemNext]_systemVars => SInv'
  <1> SUFFICES ASSUME SInv, [SystemNext]_systemVars PROVE SInv'
    OBVIOUS
  <1>1. BInv'
    BY BarrierStep, StepKeeps DEF SInv
  <1>2. CASE UNCHANGED systemVars
    <2>1. LP!LInv'
      BY <1>2, LP!StepKeeps, LimiterConstants
         DEF SInv, systemVars, limiterVars, LP!vars, LP!LimiterAssumption
    <2>2. Holds'
      BY <1>2 DEF SInv, Holds, HoldsAt, systemVars, limiterVars, requestVars,
                  barrierVars, vars
    <2> QED BY <1>1, <2>1, <2>2 DEF SInv
  <1>3. ASSUME NEW r \in Requests, Start(r) \/ Abort(r) \/ Proceeds(r)
        PROVE  LP!LInv' /\ Holds'
    BY <1>3, StartKeeps, AbortKeeps, EndsEarlyKeeps, SecretKeeps, AcquireKeeps,
       AnsweredKeeps DEF Proceeds
  <1> QED BY <1>1, <1>2, <1>3, RotateKeeps DEF SystemNext, SInv

LEMMA ServerInvariance == SystemSpec => []SInv
  BY InitSInv, ServerStepKeeps, PTL DEF SystemSpec

-----------------------------------------------------------------------------
(* The theorems. *)

(* The state of the server always has its type.                            *)
THEOREM SystemTypeCorrect == SystemSpec => []SystemTypeOK
  <1>1. SInv => SystemTypeOK
    <2>1. LP!LInv => Limiter!TypeOK
      BY DEF LP!LInv, LP!QueuesOK, LP!CountersOK, LP!Counters, LP!Priorities,
             LP!Promises, Limiter!TypeOK, Limiter!Priorities, Limiter!Promises,
             Limiter!Cycle
    <2> QED BY <2>1 DEF SInv, BInv, Holds, Places, SystemTypeOK
  <1> QED BY <1>1, ServerInvariance, PTL

(* By whichever exit of index.ts a request leaves, it keeps no lease, no   *)
(* slot, no place in a queue and no registry entry.                        *)
THEOREM RequestsReturnAll == SystemSpec => []ResourcesReturned
  <1>1. SInv => ResourcesReturned
    BY DEF SInv, Holds, HoldsAt, ResourcesReturned
  <1> QED BY <1>1, ServerInvariance, PTL

(* While a rotation replaces the secret and drains the residents, no        *)
(* request is queued for a slot or holds one.                               *)
THEOREM RotationsMeetNoRequest == SystemSpec => []RotationWaitsForRequests
  <1>1. SInv => RotationWaitsForRequests
    <2> SUFFICES ASSUME SInv, writerActive, NEW r \in Requests,
                        promise[r] \in {"granted", "pending"}
                 PROVE  FALSE
      BY DEF RotationWaitsForRequests
    <2>1. stage[r] = "leased"
      BY DEF SInv, Holds, HoldsAt
    <2> QED BY <2>1 DEF SInv, BInv, RotationAlone, In, Requests
  <1> QED BY <1>1, ServerInvariance, PTL

(* The slots of the limiter are those of the requests being served, also   *)
(* when requests come and go as index.ts makes them: every slot is given    *)
(* back once.                                                               *)
THEOREM ServerKeepsSlots == SystemSpec => []Limiter!SlotsAccounted
  <1>1. SInv => Limiter!SlotsAccounted
    <2>1. Limiter!Granted = LP!Holders(promise)
      BY DEF Limiter!Granted, LP!Holders
    <2>2. \A S : LP!Cardinality(S) = Limiter!Cardinality(S)
      BY DEF LP!Cardinality, Limiter!Cardinality
    <2> QED BY <2>1, <2>2
            DEF SInv, LP!LInv, LP!CountersOK, LP!Count,
                Limiter!SlotsAccounted, LP!Priorities, Limiter!Priorities
  <1> QED BY <1>1, ServerInvariance, PTL
=============================================================================
