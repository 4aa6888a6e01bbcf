-------------------------- MODULE Generation_proofs --------------------------
(***************************************************************************)
(* Proofs about the extractor and the generator: Resolver, Extraction and  *)
(* Generation, for every workspace (ProgramsAssumption) and MaxDepth.      *)
(*                                                                         *)
(* From the bottom up: induction over Nat, recursive functions, sequences  *)
(* and what flattening and choosing among their elements gives; what the   *)
(* resolver answers; what lowering a type, a field, a declaration and an   *)
(* endpoint results in (TypeOk, DeclTyped, EndpointTyped: every reference  *)
(* is enqueued; FieldMade, DeclMade, EndpointMade: without a diagnostic    *)
(* nothing is dropped); what every step of a round keeps (WellFormed, then *)
(* RoundInv); and last what follows for the contract, for the package and  *)
(* for what it accepts on the wire.                                        *)
(***************************************************************************)
EXTENDS Generation, SequenceTheorems, FiniteSetTheorems, WellFoundedInduction, TLAPS

-----------------------------------------------------------------------------
(* Sets of numbers have a least element, so there is induction.            *)
Lesser == {p \in Nat \X Nat : p[1] < p[2]}

LEMMA Least ==
  ASSUME NEW S \in SUBSET Nat, S # {}
  PROVE  \E m \in S : \A n \in S : m <= n
<1>1. OpToRel(<, Nat) = Lesser
  BY DEF OpToRel, Lesser
<1>2. IsWellFoundedOn(Lesser, Nat)
  BY <1>1, NatLessThanWellFounded
<1>3. PICK m \in S : \A n \in S : <<n, m>> \notin Lesser
  BY <1>2, WFMin
<1>4. ASSUME NEW n \in S, n < m PROVE FALSE
  <2>1. <<n, m>> \in Nat \X Nat /\ <<n, m>>[1] = n /\ <<n, m>>[2] = m
    OBVIOUS
  <2> QED
    BY <1>3, <1>4, <2>1 DEF Lesser
<1> QED
  BY <1>4

LEMMA Induction ==
  ASSUME NEW S \in SUBSET Nat, 0 \in S, \A n \in S : n + 1 \in S
  PROVE  S = Nat
<1> SUFFICES ASSUME Nat \ S # {} PROVE FALSE
  OBVIOUS
<1>1. PICK m \in Nat \ S : \A n \in Nat \ S : m <= n
  BY Least
<1>2. m # 0 /\ m - 1 \in Nat
  OBVIOUS
<1> QED
  BY <1>1, <1>2

LEMMA InductionUpto ==
  ASSUME NEW n \in Nat, NEW S, 0 \in S, \A i \in Nat : i < n /\ i \in S => i + 1 \in S
  PROVE  n \in S
<1> DEFINE T == {i \in Nat : i <= n => i \in S}
<1>1. 0 \in T
  OBVIOUS
<1>2. ASSUME NEW i \in T PROVE i + 1 \in T
  OBVIOUS
<1>3. T = Nat
  <2> HIDE DEF T
  <2>1. T \in SUBSET Nat
    BY DEF T
  <2> QED
    BY <1>1, <1>2, <2>1, Induction
<1> QED
  BY <1>3

-----------------------------------------------------------------------------
(* Recursive functions over Nat or over 0..k: one exists, and what its     *)
(* first value and its steps keep, all its values have.                    *)
Segment(D) == D = Nat \/ \E k \in Nat : D = 0..k

Iterates(f, D, b, G) == f = [n \in D |-> IF n = 0 THEN b ELSE G[n][f[n - 1]]]

LEMMA SegmentIs ==
  ASSUME NEW D, Segment(D)
  PROVE  /\ D \subseteq Nat /\ 0 \in D
         /\ \A n \in Nat : n + 1 \in D => n \in D
         /\ \A n \in D : n # 0 => n - 1 \in D /\ n - 1 \in Nat
  BY DEF Segment

LEMMA Kept ==
  ASSUME NEW D, Segment(D), NEW f, NEW V, f[0] \in V,
         \A n \in Nat : n + 1 \in D /\ f[n] \in V => f[n + 1] \in V
  PROVE  \A n \in D : f[n] \in V
<1> DEFINE S == {n \in Nat : n \in D => f[n] \in V}
<1>1. 0 \in S
  OBVIOUS
<1>2. ASSUME NEW n \in S PROVE n + 1 \in S
  BY SegmentIs
<1>3. S = Nat
  <2> HIDE DEF S
  <2>1. S \in SUBSET Nat
    BY DEF S
  <2> QED
    BY <1>1, <1>2, <2>1, Induction
<1> QED
  BY <1>3, SegmentIs

LEMMA Upto ==
  ASSUME NEW V, NEW b \in V, NEW G, G \in [Nat -> [V -> V]], NEW n \in Nat
  PROVE  \E f \in [0..n -> V] : Iterates(f, 0..n, b, G)
<1> DEFINE S == {k \in Nat : \E f \in [0..k -> V] : Iterates(f, 0..k, b, G)}
<1>1. 0 \in S
  <2> DEFINE f == [i \in 0..0 |-> b]
  <2>1. f \in [0..0 -> V] /\ Iterates(f, 0..0, b, G)
    BY DEF Iterates
  <2> QED
    BY <2>1
<1>2. ASSUME NEW k \in S PROVE k + 1 \in S
  <2>1. PICK f \in [0..k -> V] : Iterates(f, 0..k, b, G)
    OBVIOUS
  <2>2. PICK v \in V : v = G[k + 1][f[k]]
    OBVIOUS
  <2> DEFINE g == [i \in 0..(k + 1) |-> IF i = k + 1 THEN v ELSE f[i]]
  <2>3. ASSUME NEW i \in 0..(k + 1) PROVE g[i] = IF i = 0 THEN b ELSE G[i][g[i - 1]]
    <3>1. CASE i = k + 1
      <4>1. i - 1 = k /\ k \in 0..(k + 1) /\ k # k + 1 /\ i # 0
        BY <3>1
      <4>2. g[k + 1] = v /\ g[k] = f[k]
        BY <4>1
      <4> QED
        BY <2>2, <3>1, <4>1, <4>2
    <3>2. CASE i \in 0..k
      <4>1. g[i] = f[i] /\ f[i] = IF i = 0 THEN b ELSE G[i][f[i - 1]]
        BY <2>1, <3>2 DEF Iterates
      <4>2. i # 0 => g[i - 1] = f[i - 1]
        BY <3>2
      <4> QED
        BY <4>1, <4>2
    <3> QED
      BY <3>1, <3>2
  <2>4. g \in [0..(k + 1) -> V]
    OBVIOUS
  <2> HIDE DEF g
  <2>5. g = [i \in 0..(k + 1) |-> g[i]]
    BY DEF g
  <2>6. Iterates(g, 0..(k + 1), b, G)
    BY <2>3, <2>5 DEF Iterates
  <2> QED
    BY <2>4, <2>6
<1>3. S = Nat
  <2> HIDE DEF S
  <2>1. S \in SUBSET Nat
    BY DEF S
  <2> QED
    BY <1>1, <1>2, <2>1, Induction
<1> QED
  BY <1>3

LEMMA SameUpto ==
  ASSUME NEW n \in Nat, NEW m \in Nat, NEW b, NEW G, NEW f, NEW g,
         Iterates(f, 0..n, b, G), Iterates(g, 0..m, b, G)
  PROVE  \A i \in Nat : i <= n /\ i <= m => f[i] = g[i]
<1> DEFINE S == {i \in Nat : i <= n /\ i <= m => f[i] = g[i]}
<1>1. 0 \in S
  BY DEF Iterates
<1>2. ASSUME NEW i \in S PROVE i + 1 \in S
  <2> SUFFICES ASSUME i + 1 <= n, i + 1 <= m PROVE f[i + 1] = g[i + 1]
    OBVIOUS
  <2>1. i + 1 \in 0..n /\ i + 1 \in 0..m /\ i + 1 # 0 /\ (i + 1) - 1 = i /\ f[i] = g[i]
    OBVIOUS
  <2> QED
    BY <2>1 DEF Iterates
<1>3. S = Nat
  <2> HIDE DEF S
  <2>1. S \in SUBSET Nat
    BY DEF S
  <2> QED
    BY <1>1, <1>2, <2>1, Induction
<1> QED
  BY <1>3

LEMMA Recursion ==
  ASSUME NEW V, NEW b \in V, NEW G, G \in [Nat -> [V -> V]], NEW D, Segment(D)
  PROVE  \E f \in [D -> V] : Iterates(f, D, b, G)
<1> DEFINE upto(n) == CHOOSE f \in [0..n -> V] : Iterates(f, 0..n, b, G)
<1>1. ASSUME NEW n \in Nat PROVE upto(n) \in [0..n -> V] /\ Iterates(upto(n), 0..n, b, G)
  BY Upto
<1> DEFINE f == [n \in D |-> upto(n)[n]]
<1> HIDE DEF upto
<1>2. f \in [D -> V]
  BY <1>1, SegmentIs
<1>3. ASSUME NEW n \in D PROVE f[n] = IF n = 0 THEN b ELSE G[n][f[n - 1]]
  <2>1. n \in Nat /\ n \in 0..n
    BY SegmentIs
  <2>2. f[n] = upto(n)[n] /\ upto(n)[n] = IF n = 0 THEN b ELSE G[n][upto(n)[n - 1]]
    BY <1>1, <2>1 DEF Iterates
  <2>3. CASE n # 0
    <3>1. PICK m \in Nat : m = n - 1 /\ m \in D /\ m <= n /\ m <= m
      BY <2>1, <2>3, SegmentIs
    <3>2. upto(n)[m] = upto(m)[m]
      BY <1>1, <2>1, <3>1, SameUpto
    <3> QED
      BY <2>2, <2>3, <3>1, <3>2
  <2> QED
    BY <2>2, <2>3
<1> HIDE DEF f
<1>4. f = [n \in D |-> f[n]]
  BY <1>2
<1>5. Iterates(f, D, b, G)
  BY <1>3, <1>4 DEF Iterates
<1> QED
  BY <1>2, <1>5
-----------------------------------------------------------------------------
(* Concatenation, by what it satisfies rather than position by position.   *)
a ++ b == a \o b

LEMMA Typed ==
  ASSUME NEW X, NEW a, NEW b, a \in Seq(X), b \in Seq(X)
  PROVE  a ++ b \in Seq(X)
  BY ConcatProperties DEF ++

LEMMA Associative ==
  ASSUME NEW X, NEW a, NEW b, NEW c, a \in Seq(X), b \in Seq(X), c \in Seq(X)
  PROVE  (a ++ b) ++ c = a ++ (b ++ c)
  BY ConcatAssociative DEF ++

LEMMA Neutral ==
  ASSUME NEW X, NEW a, a \in Seq(X)
  PROVE  a ++ <<>> = a /\ <<>> ++ a = a
  BY ConcatEmptySeq DEF ++

LEMMA Positions ==
  ASSUME NEW X, NEW a, NEW b, a \in Seq(X), b \in Seq(X)
  PROVE  /\ a ++ b \in Seq(X) /\ Len(a ++ b) = Len(a) + Len(b)
         /\ Len(a) \in Nat /\ Len(b) \in Nat
         /\ \A i \in 1..Len(a) : (a ++ b)[i] = a[i]
         /\ \A i \in 1..Len(b) : (a ++ b)[Len(a) + i] = b[i]
  BY ConcatProperties DEF ++

LEMMA RangeIs ==
  ASSUME NEW X, NEW a, a \in Seq(X)
  PROVE  /\ DOMAIN a = 1..Len(a) /\ Len(a) \in Nat
         /\ Range(a) \subseteq X
         /\ \A i \in 1..Len(a) : a[i] \in Range(a)
         /\ \A x \in Range(a) : \E i \in 1..Len(a) : x = a[i]
  BY DEF Range

LEMMA RangeOfBoth ==
  ASSUME NEW X, NEW a, NEW b, a \in Seq(X), b \in Seq(X)
  PROVE  Range(a ++ b) = Range(a) \cup Range(b)
<1>1. PICK c, m, n : c = a ++ b /\ m = Len(a) /\ n = Len(b)
  OBVIOUS
<1>2. /\ c \in Seq(X) /\ Len(c) = m + n /\ m \in Nat /\ n \in Nat
      /\ \A i \in 1..m : c[i] = a[i]
      /\ \A i \in 1..n : c[m + i] = b[i]
  BY <1>1, Positions
<1>3. ASSUME NEW x \in Range(c) PROVE x \in Range(a) \cup Range(b)
  <2>1. PICK i \in 1..(m + n) : x = c[i]
    BY <1>2, RangeIs
  <2>2. CASE i \in 1..m
    BY <1>1, <1>2, <2>1, <2>2, RangeIs
  <2>3. CASE i - m \in 1..n
    <3>1. PICK k \in 1..n : k = i - m /\ i = m + k
      BY <1>2, <2>1, <2>3
    <3>2. x = b[k]
      BY <1>2, <2>1, <3>1
    <3>3. b[k] \in Range(b)
      BY <1>1, RangeIs
    <3> QED
      BY <3>2, <3>3
  <2> QED
    BY <1>2, <2>2, <2>3
<1>4. ASSUME NEW x \in Range(a) PROVE x \in Range(c)
  <2>1. PICK i \in 1..m : x = a[i]
    BY <1>1, RangeIs
  <2>2. i \in 1..(m + n)
    BY <1>2
  <2> QED
    BY <1>2, <2>1, <2>2, RangeIs
<1>5. ASSUME NEW x \in Range(b) PROVE x \in Range(c)
  <2>1. PICK i \in 1..n : x = b[i]
    BY <1>1, RangeIs
  <2>2. m + i \in 1..(m + n)
    BY <1>2
  <2> QED
    BY <1>2, <2>1, <2>2, RangeIs
<1> QED
  BY <1>1, <1>3, <1>4, <1>5

LEMMA RangeOfNone == Range(<<>>) = {}
  BY DEF Range

LEMMA Single ==
  ASSUME NEW X, NEW e, e \in X
  PROVE  <<e>> \in Seq(X) /\ Len(<<e>>) = 1 /\ <<e>>[1] = e /\ Range(<<e>>) = {e}
<1>1. <<e>> \in Seq(X) /\ Len(<<e>>) = 1 /\ <<e>>[1] = e /\ DOMAIN <<e>> = 1..1
  OBVIOUS
<1>2. 1..1 = {1}
  OBVIOUS
<1>3. Range(<<e>>) = {e}
  BY <1>1, <1>2 DEF Range
<1> QED
  BY <1>1, <1>3

LEMMA Appended ==
  ASSUME NEW X, NEW s, NEW e, s \in Seq(X), e \in X
  PROVE  Append(s, e) \in Seq(X) /\ Range(Append(s, e)) = Range(s) \cup {e}
<1>1. PICK t, n : t = Append(s, e) /\ n = Len(s)
  OBVIOUS
<1>2. /\ t \in Seq(X) /\ n \in Nat /\ Len(t) = n + 1 /\ t[n + 1] = e
      /\ \A i \in 1..n : t[i] = s[i]
  BY <1>1, AppendProperties
<1>3. ASSUME NEW x \in Range(t) PROVE x \in Range(s) \cup {e}
  <2>1. PICK i \in 1..(n + 1) : x = t[i]
    BY <1>2, RangeIs
  <2>2. CASE i \in 1..n
    BY <1>1, <1>2, <2>1, <2>2, RangeIs
  <2> QED
    BY <1>2, <2>1, <2>2
<1>4. ASSUME NEW x \in Range(s) PROVE x \in Range(t)
  <2>1. PICK i \in 1..n : x = s[i]
    BY <1>1, RangeIs
  <2>2. i \in 1..(n + 1)
    BY <1>2
  <2> QED
    BY <1>2, <2>1, <2>2, RangeIs
<1>5. e \in Range(t)
  <2>1. n + 1 \in 1..(n + 1)
    BY <1>2
  <2> QED
    BY <1>2, <2>1, RangeIs
<1> QED
  BY <1>1, <1>2, <1>3, <1>4, <1>5

-----------------------------------------------------------------------------
(* Flattening.                                                             *)
Flattens(f, s) ==
  /\ f[0] = <<>>
  /\ \A i \in 1..Len(s) : f[i] = f[i - 1] ++ s[i]
  /\ FlattenSeq(s) = f[Len(s)]

Unrolls(g, s) == g = [i \in 1..Len(s) |-> IF i = 1 THEN s[i] ELSE g[i - 1] \o s[i]]

LEMMA Flattened ==
  ASSUME NEW X, NEW s, s \in Seq(Seq(X))
  PROVE  \E f \in [0..Len(s) -> Seq(X)] : Flattens(f, s)
<1>1. PICK n \in Nat : n = Len(s)
  BY LenProperties
<1>2. \A i \in 1..n : s[i] \in Seq(X)
  BY <1>1
<1> DEFINE G == [i \in Nat |-> [v \in Seq(X) |-> IF i \in 1..n THEN v ++ s[i] ELSE v]]
<1>3. G \in [Nat -> [Seq(X) -> Seq(X)]]
  BY <1>2, Typed
<1>4. \A i \in 1..n : \A v \in Seq(X) : G[i][v] = v ++ s[i]
  OBVIOUS
<1> HIDE DEF G
<1>5. Segment(0..n) /\ <<>> \in Seq(X)
  BY EmptySeq DEF Segment
<1>6. PICK f \in [0..n -> Seq(X)] : Iterates(f, 0..n, <<>>, G)
  BY <1>3, <1>5, Recursion
<1>7. f[0] = <<>> /\ \A i \in 1..n : f[i] = f[i - 1] ++ s[i]
  <2>1. 0 \in 0..n
    OBVIOUS
  <2>2. ASSUME NEW i \in 1..n PROVE f[i] = f[i - 1] ++ s[i]
    <3>1. i \in 0..n /\ i # 0 /\ i - 1 \in 0..n
      OBVIOUS
    <3>2. f[i] = G[i][f[i - 1]] /\ f[i - 1] \in Seq(X)
      BY <1>6, <3>1 DEF Iterates
    <3> QED
      BY <1>4, <3>2
  <2> QED
    BY <1>6, <2>1, <2>2 DEF Iterates
<1>8. CASE n = 0
  <2>1. s = <<>> /\ FlattenSeq(s) = s
    BY <1>1, <1>8, EmptySeq DEF FlattenSeq
  <2>2. Flattens(f, s)
    BY <1>1, <1>7, <1>8, <2>1 DEF Flattens
  <2> QED
    BY <1>1, <2>2
<1>9. CASE n # 0
  <2> DEFINE h == [i \in 1..n |-> f[i]]
  <2>1. \A i \in 1..n : h[i] = IF i = 1 THEN s[i] ELSE h[i - 1] \o s[i]
    <3> SUFFICES ASSUME NEW i \in 1..n PROVE h[i] = IF i = 1 THEN s[i] ELSE h[i - 1] \o s[i]
      OBVIOUS
    <3>1. CASE i = 1
      <4>1. <<>> ++ s[i] = s[i]
        BY <1>2, Neutral
      <4> QED
        BY <1>7, <3>1, <4>1
    <3>2. CASE i # 1
      <4>1. i - 1 \in 1..n
        BY <3>2
      <4>2. h[i] = f[i] /\ h[i - 1] = f[i - 1]
        BY <4>1
      <4> QED
        BY <1>7, <3>2, <4>2 DEF ++
    <3> QED
      BY <3>1, <3>2
  <2> HIDE DEF h
  <2>2. h = [i \in 1..n |-> h[i]]
    BY DEF h
  <2>3. Unrolls(h, s)
    BY <1>1, <2>1, <2>2 DEF Unrolls
  <2>4. PICK g : Unrolls(g, s) /\ FlattenSeq(s) = g[n]
    <3>1. Unrolls(CHOOSE g : Unrolls(g, s), s)
      BY <2>3
    <3>2. FlattenSeq(s) = (CHOOSE g : Unrolls(g, s))[n]
      BY <1>1, <1>9 DEF FlattenSeq, Unrolls
    <3> QED
      BY <3>1, <3>2
  <2> DEFINE S == {i \in Nat : i + 1 <= n => g[i + 1] = f[i + 1]}
  <2>5. g[1] = f[1]
    <3>1. g[1] = s[1]
      BY <1>1, <1>9, <2>4 DEF Unrolls
    <3>2. f[1] = f[0] ++ s[1] /\ s[1] \in Seq(X)
      BY <1>2, <1>7, <1>9
    <3>3. <<>> ++ s[1] = s[1]
      BY <3>2, Neutral
    <3> QED
      BY <1>7, <3>1, <3>2, <3>3
  <2>6. 0 \in S
    BY <2>5
  <2>7. ASSUME NEW i \in S PROVE i + 1 \in S
    <3> SUFFICES ASSUME (i + 1) + 1 <= n PROVE g[(i + 1) + 1] = f[(i + 1) + 1]
      OBVIOUS
    <3>1. PICK j \in 1..n : j = (i + 1) + 1 /\ j # 1 /\ j - 1 = i + 1 /\ g[j - 1] = f[j - 1]
      OBVIOUS
    <3>2. g[j] = g[j - 1] \o s[j]
      BY <1>1, <2>4, <3>1 DEF Unrolls
    <3>3. f[j] = f[j - 1] ++ s[j]
      BY <1>7
    <3> QED
      BY <3>1, <3>2, <3>3 DEF ++
  <2>8. S = Nat
    <3> HIDE DEF S
    <3>1. S \in SUBSET Nat
      BY DEF S
    <3> QED
      BY <2>6, <2>7, <3>1, Induction
  <2>9. n - 1 \in Nat /\ (n - 1) + 1 = n
    BY <1>9
  <2>10. g[n] = f[n]
    <3>1. PICK k \in Nat : k = n - 1 /\ k + 1 = n
      BY <2>9
    <3>2. k \in S
      BY <2>8
    <3> QED
      BY <3>1, <3>2
  <2> QED
    BY <1>1, <1>7, <2>4, <2>10 DEF Flattens
<1> QED
  BY <1>1, <1>6, <1>8, <1>9
FlattenSteps(f, n, s, X) ==
  /\ n = Len(s) /\ f[0] = <<>> /\ FlattenSeq(s) = f[n]
  /\ \A i \in 1..n : s[i] \in Seq(X) /\ f[i - 1] \in Seq(X) /\ f[i] = f[i - 1] ++ s[i]
  /\ \A i \in 0..n : f[i] \in Seq(X)

LEMMA FlattenedSteps ==
  ASSUME NEW X, NEW s, s \in Seq(Seq(X))
  PROVE  \E n \in Nat : \E f : FlattenSteps(f, n, s, X)
<1>1. PICK f \in [0..Len(s) -> Seq(X)] : Flattens(f, s)
  BY Flattened
<1>2. PICK n \in Nat : n = Len(s)
  BY LenProperties
<1>3. \A i \in 1..n : s[i] \in Seq(X)
  BY <1>2
<1>4. \A i \in 0..n : f[i] \in Seq(X)
  BY <1>2
<1>5. \A i \in 1..n : i - 1 \in 0..n
  OBVIOUS
<1>6. f[0] = <<>> /\ FlattenSeq(s) = f[n] /\ \A i \in 1..n : f[i] = f[i - 1] ++ s[i]
  BY <1>1, <1>2 DEF Flattens
<1>7. FlattenSteps(f, n, s, X)
  BY <1>2, <1>3, <1>4, <1>5, <1>6 DEF FlattenSteps
<1> QED
  BY <1>7

LEMMA FlatType ==
  ASSUME NEW X, NEW s, s \in Seq(Seq(X))
  PROVE  FlattenSeq(s) \in Seq(X)
<1>1. PICK n \in Nat : \E f : FlattenSteps(f, n, s, X)
  BY FlattenedSteps
<1> QED
  BY <1>1 DEF FlattenSteps

LEMMA FlatRange ==
  ASSUME NEW X, NEW s, s \in Seq(Seq(X))
  PROVE  \A x : x \in Range(FlattenSeq(s)) <=> \E i \in 1..Len(s) : x \in Range(s[i])
<1>1. PICK n \in Nat : \E f : FlattenSteps(f, n, s, X)
  BY FlattenedSteps
<1>2. PICK f : FlattenSteps(f, n, s, X)
  BY <1>1
<1>3. \A i \in 1..n : s[i] \in Seq(X) /\ f[i - 1] \in Seq(X) /\ f[i] = f[i - 1] ++ s[i]
  BY <1>2 DEF FlattenSteps
<1> DEFINE S == {i \in 0..n : \A x : x \in Range(f[i]) <=> \E k \in 1..i : x \in Range(s[k])}
<1>4. 0 \in S
  BY <1>2, RangeOfNone DEF FlattenSteps
<1>5. ASSUME NEW i \in Nat, i < n, i \in S PROVE i + 1 \in S
  <2>1. i + 1 \in 1..n /\ (i + 1) - 1 = i
    BY <1>5
  <2>2. Range(f[i + 1]) = Range(f[i]) \cup Range(s[i + 1])
    BY <1>3, <2>1, RangeOfBoth
  <2>3. \A x : (\E k \in 1..(i + 1) : x \in Range(s[k]))
                 <=> (\E k \in 1..i : x \in Range(s[k])) \/ x \in Range(s[i + 1])
    OBVIOUS
  <2> QED
    BY <1>5, <2>1, <2>2, <2>3
<1> HIDE DEF S
<1>6. n \in S
  BY <1>4, <1>5, InductionUpto
<1> QED
  BY <1>2, <1>6 DEF S, FlattenSteps

(* What comes before a place in the flattened sequence.                    *)
Ahead(t, p, x) == \E q \in 1..(p - 1) : t[q] = x

Placed(t, p, s, k, j) ==
  /\ t[p] = s[k][j]
  /\ \A l \in 1..(k - 1) : \A x \in Range(s[l]) : Ahead(t, p, x)
  /\ \A l \in 1..(j - 1) : Ahead(t, p, s[k][l])

LEMMA FlatPlaces ==
  ASSUME NEW X, NEW s, s \in Seq(Seq(X)), NEW p \in DOMAIN FlattenSeq(s)
  PROVE  \E k \in 1..Len(s) : \E j \in 1..Len(s[k]) : Placed(FlattenSeq(s), p, s, k, j)
<1>1. PICK n \in Nat : \E f : FlattenSteps(f, n, s, X)
  BY FlattenedSteps
<1>2. PICK f : FlattenSteps(f, n, s, X)
  BY <1>1
<1>3. /\ \A i \in 1..n : s[i] \in Seq(X) /\ f[i] = f[i - 1] ++ s[i]
      /\ \A i \in 0..n : f[i] \in Seq(X)
  BY <1>2 DEF FlattenSteps
<1> DEFINE Good(i) ==
      /\ \A k \in 1..i : \A x \in Range(s[k]) : x \in Range(f[i])
      /\ \A q \in 1..Len(f[i]) : \E k \in 1..i : \E j \in 1..Len(s[k]) : Placed(f[i], q, s, k, j)
<1> DEFINE S == {i \in 0..n : Good(i)}
<1>4. 0 \in S
  BY <1>2 DEF FlattenSteps
<1>5. ASSUME NEW i \in Nat, i < n, i \in S PROVE i + 1 \in S
  <2>1. i + 1 \in 1..n /\ (i + 1) - 1 = i /\ i \in 0..n /\ i + 1 \in 0..n
    BY <1>5
  <2>2. PICK t, a, b : t = f[i + 1] /\ a = f[i] /\ b = s[i + 1]
    OBVIOUS
  <2>3. a \in Seq(X) /\ b \in Seq(X) /\ t = a ++ b
    BY <1>3, <2>1, <2>2
  <2>4. PICK la \in Nat, lb \in Nat : la = Len(a) /\ lb = Len(b)
    BY <2>3, LenProperties
  <2>5. /\ Len(t) = la + lb
        /\ \A q \in 1..la : t[q] = a[q]
        /\ \A q \in 1..lb : t[la + q] = b[q]
    BY <2>3, <2>4, Positions
  <2>6. Range(t) = Range(a) \cup Range(b)
    BY <2>3, RangeOfBoth
  <2>7. Good(i)
    BY <1>5
  <2>8. \A k \in 1..(i + 1) : \A x \in Range(s[k]) : x \in Range(t)
    <3>1. SUFFICES ASSUME NEW k \in 1..(i + 1), NEW x \in Range(s[k]) PROVE x \in Range(t)
      OBVIOUS
    <3>2. CASE k \in 1..i
      BY <2>2, <2>6, <2>7, <3>2
    <3>3. CASE k = i + 1
      BY <2>2, <2>6, <3>3
    <3> QED
      BY <3>2, <3>3
  <2>9. ASSUME NEW q \in 1..Len(t)
        PROVE  \E k \in 1..(i + 1) : \E j \in 1..Len(s[k]) : Placed(t, q, s, k, j)
    <3>1. CASE q \in 1..la
      <4>0. PICK k \in 1..i : \E j \in 1..Len(s[k]) : Placed(a, q, s, k, j)
        BY <2>2, <2>4, <2>7, <3>1
      <4>1. PICK j \in 1..Len(s[k]) : Placed(a, q, s, k, j)
        BY <4>0
      <4>2. \A x : Ahead(a, q, x) => Ahead(t, q, x)
        <5>1. SUFFICES ASSUME NEW x, NEW r \in 1..(q - 1), a[r] = x PROVE Ahead(t, q, x)
          BY DEF Ahead
        <5>2. r \in 1..la
          BY <3>1
        <5>3. t[r] = x
          BY <2>5, <5>1, <5>2
        <5> QED
          BY <5>3 DEF Ahead
      <4>3. t[q] = a[q]
        BY <2>5, <3>1
      <4>4. Placed(t, q, s, k, j)
        BY <4>1, <4>2, <4>3 DEF Placed
      <4> QED
        BY <4>1, <4>4
    <3>2. CASE q - la \in 1..lb
      <4>0. q \in 1..(la + lb)
        BY <2>5
      <4>1. PICK j \in 1..lb : j = q - la /\ q = la + j
        BY <3>2, <4>0
      <4>2. t[q] = b[j]
        BY <2>5, <4>1
      <4>3. ASSUME NEW l \in 1..i, NEW x \in Range(s[l]) PROVE Ahead(t, q, x)
        <5>1. x \in Range(a)
          BY <2>2, <2>7
        <5>2. PICK r \in 1..la : a[r] = x
          BY <2>3, <2>4, <5>1, RangeIs
        <5>3. t[r] = x
          BY <2>5, <5>2
        <5>4. r \in 1..(q - 1)
          BY <4>1
        <5> QED
          BY <5>3, <5>4 DEF Ahead
      <4>4. ASSUME NEW l \in 1..(j - 1) PROVE Ahead(t, q, b[l])
        <5>1. l \in 1..lb
          OBVIOUS
        <5>2. t[la + l] = b[l]
          BY <2>5, <5>1
        <5>3. la + l \in 1..(q - 1)
          BY <4>1
        <5> QED
          BY <5>2, <5>3 DEF Ahead
      <4>5. PICK k \in 1..(i + 1) : k = i + 1 /\ k - 1 = i /\ s[k] = b
        BY <2>2
      <4>6. Placed(t, q, s, k, j)
        BY <4>2, <4>3, <4>4, <4>5 DEF Placed
      <4> QED
        BY <2>4, <4>5, <4>6
    <3> QED
      BY <2>4, <2>5, <3>1, <3>2
  <2> QED
    BY <2>1, <2>2, <2>8, <2>9
<1> HIDE DEF S
<1>6. n \in S
  BY <1>4, <1>5, InductionUpto
<1>7. Good(n)
  BY <1>6 DEF S
<1>8. p \in 1..Len(f[n]) /\ FlattenSeq(s) = f[n]
  <2>1. f[n] \in Seq(X) /\ FlattenSeq(s) = f[n]
    BY <1>2, <1>3 DEF FlattenSteps
  <2> QED
    BY <2>1
<1> QED
  BY <1>2, <1>7, <1>8 DEF FlattenSteps

(* Pieces of one element each.                                             *)
LEMMA FlatSingles ==
  ASSUME NEW X, NEW s, s \in Seq(Seq(X)), \A i \in 1..Len(s) : Len(s[i]) = 1
  PROVE  Len(FlattenSeq(s)) = Len(s) /\ \A i \in 1..Len(s) : FlattenSeq(s)[i] = s[i][1]
<1>1. PICK n \in Nat : \E f : FlattenSteps(f, n, s, X)
  BY FlattenedSteps
<1>2. PICK f : FlattenSteps(f, n, s, X)
  BY <1>1
<1>3. /\ \A i \in 1..n : s[i] \in Seq(X) /\ f[i] = f[i - 1] ++ s[i] /\ Len(s[i]) = 1
      /\ \A i \in 0..n : f[i] \in Seq(X)
  BY <1>2 DEF FlattenSteps
<1> DEFINE Good(i) == Len(f[i]) = i /\ \A k \in 1..i : f[i][k] = s[k][1]
<1> DEFINE S == {i \in 0..n : Good(i)}
<1>4. 0 \in S
  BY <1>2 DEF FlattenSteps
<1>5. ASSUME NEW i \in Nat, i < n, i \in S PROVE i + 1 \in S
  <2>1. i + 1 \in 1..n /\ (i + 1) - 1 = i /\ i \in 0..n /\ i + 1 \in 0..n
    BY <1>5
  <2>2. PICK t, a, b : t = f[i + 1] /\ a = f[i] /\ b = s[i + 1]
    OBVIOUS
  <2>3. a \in Seq(X) /\ b \in Seq(X) /\ t = a ++ b /\ Len(b) = 1 /\ Len(a) = i
    BY <1>3, <1>5, <2>1, <2>2
  <2>4. /\ Len(t) = Len(a) + Len(b)
        /\ \A q \in 1..Len(a) : t[q] = a[q]
        /\ \A q \in 1..Len(b) : t[Len(a) + q] = b[q]
    <3>1. a \in Seq(X) /\ b \in Seq(X) /\ t = a ++ b
      BY <2>3
    <3> QED
      BY ONLY <3>1, Positions
  <2>5. Len(t) = i + 1 /\ t[i + 1] = b[1] /\ \A q \in 1..i : t[q] = a[q]
    BY <2>3, <2>4
  <2>6. \A k \in 1..(i + 1) : t[k] = s[k][1]
    BY <1>5, <2>2, <2>5
  <2> QED
    BY <2>1, <2>2, <2>5, <2>6
<1> HIDE DEF S
<1>6. n \in S
  BY <1>4, <1>5, InductionUpto
<1> QED
  BY <1>2, <1>6 DEF S, FlattenSteps
LEMMA FlatCount ==
  ASSUME NEW X, NEW s, s \in Seq(Seq(X)), NEW w, w \in [1..Len(s) -> {0, 1}],
         \A i \in 1..Len(s) : Len(s[i]) = w[i]
  PROVE  Len(FlattenSeq(s)) = Cardinality({i \in 1..Len(s) : w[i] = 1})
<1>1. PICK n \in Nat : \E f : FlattenSteps(f, n, s, X)
  BY FlattenedSteps
<1>2. PICK f : FlattenSteps(f, n, s, X)
  BY <1>1
<1>3. /\ n = Len(s)
      /\ \A i \in 1..n : s[i] \in Seq(X) /\ f[i] = f[i - 1] ++ s[i] /\ Len(s[i]) = w[i]
      /\ \A i \in 0..n : f[i] \in Seq(X)
  BY <1>2 DEF FlattenSteps
<1>w. \A i \in 1..n : w[i] \in {0, 1}
  BY <1>3
<1>len. PICK len : len = [i \in 0..n |-> Len(f[i])]
  OBVIOUS
<1>sum. \A i \in 1..n : len[i - 1] \in Nat /\ len[i] = len[i - 1] + w[i]
  <2> SUFFICES ASSUME NEW i \in 1..n PROVE len[i - 1] \in Nat /\ len[i] = len[i - 1] + w[i]
    OBVIOUS
  <2>1. i - 1 \in 0..n /\ i \in 0..n
    OBVIOUS
  <2>2. f[i - 1] \in Seq(X) /\ s[i] \in Seq(X) /\ f[i] = f[i - 1] ++ s[i] /\ Len(s[i]) = w[i]
    BY <1>3, <2>1
  <2>3. Len(f[i - 1] ++ s[i]) = Len(f[i - 1]) + Len(s[i]) /\ Len(f[i - 1]) \in Nat
    BY <2>2, Positions
  <2>4. len[i] = Len(f[i]) /\ len[i - 1] = Len(f[i - 1])
    BY <1>len, <2>1
  <2> QED
    BY <2>2, <2>3, <2>4
<1>zero. len[0] = 0
  BY <1>2, <1>len DEF FlattenSteps
<1> DEFINE Ones(i) == {k \in 1..i : w[k] = 1}
<1> DEFINE S == {i \in 0..n : len[i] = Cardinality(Ones(i))}
<1>4. 0 \in S
  <2>1. Ones(0) = {}
    OBVIOUS
  <2> QED
    BY <1>zero, <2>1, FS_EmptySet
<1>5. ASSUME NEW i \in Nat, i < n, i \in S PROVE i + 1 \in S
  <2>1. i + 1 \in 1..n /\ (i + 1) - 1 = i /\ i \in 0..n /\ i + 1 \in 0..n
    BY <1>5
  <2>2. len[i] \in Nat /\ len[i + 1] = len[i] + w[i + 1] /\ len[i] = Cardinality(Ones(i))
    BY <1>sum, <1>5, <2>1
  <2>3. IsFiniteSet(Ones(i))
    <3>1. Ones(i) \in SUBSET (1..i) /\ IsFiniteSet(1..i)
      BY FS_Interval
    <3> QED
      BY <3>1, FS_Subset
  <2>4. CASE w[i + 1] = 1
    <3>1. Ones(i + 1) = Ones(i) \cup {i + 1} /\ i + 1 \notin Ones(i)
      BY <2>4
    <3>2. Cardinality(Ones(i + 1)) = Cardinality(Ones(i)) + 1
      BY <2>3, <3>1, FS_AddElement
    <3> QED
      BY <2>1, <2>2, <2>4, <3>2
  <2>5. CASE w[i + 1] = 0
    <3>1. Ones(i + 1) = Ones(i)
      BY <2>5
    <3>2. len[i + 1] = len[i]
      BY <2>2, <2>5
    <3>3. len[i + 1] = Cardinality(Ones(i + 1))
      BY <2>2, <3>1, <3>2
    <3> QED
      BY <2>1, <3>3
  <2> QED
    BY <1>w, <2>1, <2>4, <2>5
<1> HIDE DEF S
<1>6. n \in S
  BY <1>4, <1>5, InductionUpto
<1>7. len[n] = Cardinality(Ones(n)) /\ len[n] = Len(f[n])
  BY <1>6, <1>len DEF S
<1>8. FlattenSeq(s) = f[n]
  BY <1>2 DEF FlattenSteps
<1> QED
  BY <1>3, <1>7, <1>8

-----------------------------------------------------------------------------
(* Those elements of a sequence that are in a set.                         *)
Pieces(s, T) == [i \in DOMAIN s |-> IF s[i] \in T THEN <<s[i]>> ELSE <<>>]

LEMMA PiecesType ==
  ASSUME NEW X, NEW s, s \in Seq(X), NEW T
  PROVE  /\ Pieces(s, T) \in Seq(Seq(X)) /\ Len(Pieces(s, T)) = Len(s) /\ Len(s) \in Nat
         /\ \A i \in 1..Len(s) : Pieces(s, T)[i] = IF s[i] \in T THEN <<s[i]>> ELSE <<>>
<1>1. PICK n \in Nat : n = Len(s)
  BY LenProperties
<1>2. DOMAIN s = 1..n /\ \A i \in 1..n : s[i] \in X
  BY <1>1
<1>3. \A i \in 1..n : <<s[i]>> \in Seq(X)
  BY <1>2
<1>4. <<>> \in Seq(X)
  BY EmptySeq
<1>5. PICK p : p = Pieces(s, T)
  OBVIOUS
<1>6. /\ DOMAIN p = 1..n
      /\ \A i \in 1..n : p[i] = IF s[i] \in T THEN <<s[i]>> ELSE <<>>
      /\ p = [i \in 1..n |-> p[i]]
  BY <1>2, <1>5 DEF Pieces
<1>7. \A i \in 1..n : p[i] \in Seq(X)
  BY ONLY <1>3, <1>4, <1>6
<1>8. p \in Seq(Seq(X)) /\ Len(p) = n
  BY ONLY <1>6, <1>7, n \in Nat, IsASeq
<1> QED
  BY <1>1, <1>5, <1>6, <1>8

LEMMA Picked ==
  ASSUME NEW X, NEW s, s \in Seq(X), NEW T
  PROVE  /\ FlattenSeq(Pieces(s, T)) \in Seq(X)
         /\ Range(FlattenSeq(Pieces(s, T))) = Range(s) \cap T
<1>1. PICK p, n : p = Pieces(s, T) /\ n = Len(s)
  OBVIOUS
<1>2. /\ p \in Seq(Seq(X)) /\ Len(p) = n /\ n \in Nat
      /\ \A i \in 1..n : p[i] = IF s[i] \in T THEN <<s[i]>> ELSE <<>>
  BY <1>1, PiecesType
<1>3. \A i \in 1..n : Range(p[i]) = IF s[i] \in T THEN {s[i]} ELSE {}
  <2>1. \A e : Range(<<e>>) = {e}
    BY DEF Range
  <2> QED
    BY <1>2, <2>1, RangeOfNone
<1>4. \A x : x \in Range(FlattenSeq(p)) <=> \E i \in 1..n : x \in Range(p[i])
  BY <1>2, FlatRange
<1>5. \A x : x \in Range(s) <=> \E i \in 1..n : x = s[i]
  BY <1>1, RangeIs
<1>6. FlattenSeq(p) \in Seq(X)
  BY <1>2, FlatType
<1>7. \A x : x \in Range(FlattenSeq(p)) <=> x \in Range(s) /\ x \in T
  <2> TAKE x
  <2>1. x \in Range(FlattenSeq(p)) <=> \E i \in 1..n : s[i] \in T /\ x = s[i]
    BY <1>3, <1>4
  <2> QED
    BY <1>5, <2>1
<1>8. Range(FlattenSeq(p)) = Range(s) \cap T
  BY ONLY <1>7
<1> QED
  BY <1>1, <1>6, <1>8

LEMMA PickedAll ==
  ASSUME NEW X, NEW s, s \in Seq(X), NEW T, Range(s) \subseteq T
  PROVE  FlattenSeq(Pieces(s, T)) = s
<1>1. PICK p, n : p = Pieces(s, T) /\ n = Len(s)
  OBVIOUS
<1>2. /\ p \in Seq(Seq(X)) /\ Len(p) = n /\ n \in Nat
      /\ \A i \in 1..n : p[i] = IF s[i] \in T THEN <<s[i]>> ELSE <<>>
  BY <1>1, PiecesType
<1>3. \A i \in 1..n : s[i] \in T
  BY <1>1, RangeIs
<1>4. \A i \in 1..n : p[i] = <<s[i]>>
  BY <1>2, <1>3
<1>5. \A i \in 1..n : Len(p[i]) = 1 /\ p[i][1] = s[i]
  <2>1. \A i \in 1..n : s[i] \in X
    BY <1>1, <1>2
  <2> QED
    BY <1>4, <2>1, Single
<1>6. Len(FlattenSeq(p)) = n /\ \A i \in 1..n : FlattenSeq(p)[i] = s[i]
  BY <1>2, <1>5, FlatSingles
<1>7. FlattenSeq(p) \in Seq(X)
  BY <1>2, FlatType
<1> QED
  BY <1>1, <1>2, <1>6, <1>7, SeqEqual

LEMMA PickedCount ==
  ASSUME NEW X, NEW s, s \in Seq(X), NEW T
  PROVE  Len(FlattenSeq(Pieces(s, T))) = Cardinality({i \in 1..Len(s) : s[i] \in T})
<1>1. PICK p, n : p = Pieces(s, T) /\ n = Len(s)
  OBVIOUS
<1>2. /\ p \in Seq(Seq(X)) /\ Len(p) = n /\ n \in Nat
      /\ \A i \in 1..n : p[i] = IF s[i] \in T THEN <<s[i]>> ELSE <<>>
  BY <1>1, PiecesType
<1> DEFINE w == [i \in 1..n |-> IF s[i] \in T THEN 1 ELSE 0]
<1>3. w \in [1..n -> {0, 1}] /\ \A i \in 1..n : w[i] = IF s[i] \in T THEN 1 ELSE 0
  OBVIOUS
<1> HIDE DEF w
<1>4. \A i \in 1..n : Len(p[i]) = w[i]
  <2>1. \A i \in 1..n : s[i] \in X
    BY <1>1, <1>2
  <2>2. Len(<<>>) = 0
    OBVIOUS
  <2> QED
    BY <1>2, <1>3, <2>1, <2>2, Single
<1>5. Len(FlattenSeq(p)) = Cardinality({i \in 1..Len(p) : w[i] = 1})
  <2>1. Len(p) = n /\ p \in Seq(Seq(X))
    BY <1>2
  <2>2. w \in [1..Len(p) -> {0, 1}] /\ \A i \in 1..Len(p) : Len(p[i]) = w[i]
    BY <1>3, <1>4, <2>1
  <2> QED
    BY ONLY <2>1, <2>2, FlatCount
<1>6. {i \in 1..Len(p) : w[i] = 1} = {i \in 1..n : s[i] \in T}
  <2>1. \A i \in 1..n : w[i] = 1 <=> s[i] \in T
    BY <1>3
  <2>2. Len(p) = n
    BY <1>2
  <2> QED
    BY ONLY <2>1, <2>2
<1> QED
  BY <1>1, <1>5, <1>6

-----------------------------------------------------------------------------
(* The elements of a finite set in some order.                             *)
LEMMA SetToSeqIs ==
  ASSUME NEW S, IsFiniteSet(S)
  PROVE  /\ SetToSeq(S) \in Seq(S) /\ Range(SetToSeq(S)) = S
         /\ Len(SetToSeq(S)) = Cardinality(S)
         /\ \A i, j \in 1..Len(SetToSeq(S)) : SetToSeq(S)[i] = SetToSeq(S)[j] => i = j
<1>1. PICK n \in Nat : n = Cardinality(S) /\ ExistsBijection(1..n, S)
  BY FS_CardinalityType
<1>2. PICK b \in Bijection(1..n, S) : TRUE
  BY <1>1 DEF ExistsBijection
<1>3. b \in [1..n -> S] /\ IsInjective(b)
  BY <1>2 DEF Bijection, Injection
<1>4. PICK f : f = SetToSeq(S) /\ f \in [1..n -> S] /\ IsInjective(f)
  BY <1>1, <1>3 DEF SetToSeq
<1>5. f \in Injection(1..n, S)
  BY <1>4 DEF Injection
<1>6. Cardinality(1..n) = n
  BY FS_Interval
<1>7. f \in Surjection(1..n, S)
  BY <1>1, <1>5, <1>6, FS_Injection
<1>8. Range(f) = S
  BY <1>4, <1>7 DEF Surjection, Range
<1>9. f \in Seq(S) /\ Len(f) = n
  BY <1>4
<1> QED
  BY <1>1, <1>4, <1>8, <1>9 DEF IsInjective

-----------------------------------------------------------------------------
(* Modules as the extractor has them.                                      *)
Items == DeclItems \cup EndpointFns \cup RouterFns

IsModule(data) ==
  /\ data.items \in Seq(Items)
  /\ \A i \in Range(data.items) : i.name # NoName /\ (i \in DeclItems => OneOf(i))
  /\ \A i, j \in DOMAIN data.items : data.items[i].name = data.items[j].name => i = j
  /\ data.mods \subseteq Identifier
  /\ DOMAIN data.uses \subseteq Identifier /\ \A n \in DOMAIN data.uses : data.uses[n] \in Path
  /\ data.globs \in Seq(Path)

IsTab(tab) ==
  /\ IsFiniteSet(DOMAIN tab) /\ DOMAIN tab \subseteq Key
  /\ \A m \in DOMAIN tab : IsModule(tab[m])

Entities(tab) ==
  {r \in [e : {"unknown", "module", "item", "external", "crate"}, at : Path, name : Identifier] :
     /\ r.e = "module" => r.at \in Key
     /\ r.e = "crate" => r.at \in Key
     /\ r.e = "item" => r.at \in DOMAIN tab /\ DeclaresItem(tab[r.at], r.name)}

LEMMA NamesAndPaths ==
  /\ <<>> \in Identifier /\ <<>> \in Path /\ Key \subseteq Path
  /\ \A n \in Identifier : <<n>> \in Key
  /\ \A m \in Key : m[1] \in Identifier /\ <<m[1]>> \in Key
  /\ \A m \in Key, n \in Identifier : Append(m, n) \in Key
  /\ \A m \in Key : ~(Len(m) < 2) => Front(m) \in Key
  /\ \A p \in Path : p # <<>> => Head(p) \in Identifier /\ Tail(p) \in Path /\ p \in Key
  /\ \A c \in Identifier, p \in Path : <<c>> \o p \in Path
<1>1. PICK I : I = Identifier /\ Path = Seq(I)
  BY DEF Path
<1>2. \A n \in I : <<n>> \in Seq(I) \ {<<>>}
  OBVIOUS
<1>3. \A m \in Seq(I) \ {<<>>} : m[1] \in I
  OBVIOUS
<1>4. \A m \in Seq(I) \ {<<>>}, n \in I : Append(m, n) \in Seq(I) \ {<<>>}
  OBVIOUS
<1>5. ASSUME NEW m \in Seq(I) \ {<<>>}, ~(Len(m) < 2) PROVE Front(m) \in Seq(I) \ {<<>>}
  <2>1. PICK k \in Nat : k = Len(m) - 1 /\ k >= 1 /\ k <= Len(m)
    BY <1>5, SMTT(30)
  <2>2. SubSeq(m, 1, k) \in Seq(I) /\ Len(SubSeq(m, 1, k)) = k
    BY <2>1, SubSeqProperties
  <2>3. PICK s : s = SubSeq(m, 1, k)
    OBVIOUS
  <2>4. s \in Seq(I) /\ Len(s) = k
    BY <2>2, <2>3, Zenon
  <2>5. Front(m) = s
    BY <2>1, <2>3 DEF Front
  <2> QED
    BY ONLY <2>1, <2>4, <2>5
<1>6. \A p \in Seq(I) : p # <<>> => Head(p) \in I /\ Tail(p) \in Seq(I)
  OBVIOUS
<1>7. \A c \in I, p \in Seq(I) : <<c>> \o p \in Seq(I)
  OBVIOUS
<1>8. <<>> \in Identifier /\ <<>> \in Seq(I)
  BY EmptySeq DEF Identifier
<1> QED
  BY <1>1, <1>2, <1>3, <1>4, <1>5, <1>6, <1>7, <1>8 DEF Key

LEMMA EntitiesAre ==
  ASSUME NEW tab
  PROVE  /\ Unknown \in Entities(tab)
         /\ \A k \in Key : Mod(k) \in Entities(tab)
         /\ \A p \in Path : External(p) \in Entities(tab)
         /\ \A c \in Identifier : ExternalCrate(c) \in Entities(tab)
         /\ \A k \in DOMAIN tab, n \in Identifier :
              k \in Path /\ DeclaresItem(tab[k], n) => Item(k, n) \in Entities(tab)
         /\ \A r \in Entities(tab) : r.at \in Path /\ (r.e \in {"module", "crate"} => r.at \in Key)
  BY NamesAndPaths DEF Entities, Unknown, Mod, External, ExternalCrate, Item

LEMMA QuestionsAre ==
  /\ \A m \in Key, p \in Path : PathFrom(m, p) \in Questions /\ Below(m, p) \in Questions
  /\ \A m \in Key, n \in Identifier : NameIn(m, n) \in Questions
  /\ \A q \in Questions : q.m \in Key /\ q.segs \in Path /\ (q.of = "name" => q.segs[1] \in Identifier)
                          /\ q.of \in {"path", "below", "name"}
<1>1. ASSUME NEW n \in Identifier PROVE <<n>> \in Path \ {<<>>}
  BY NamesAndPaths DEF Key
<1>2. ASSUME NEW p \in Path \ {<<>>} PROVE p[1] \in Identifier
  BY NamesAndPaths DEF Key
<1> QED
  BY <1>1, <1>2 DEF Questions, PathFrom, Below, NameIn

LEMMA CratesType == ASSUME NEW tab, IsTab(tab) PROVE Crates(tab) \subseteq Identifier
  BY NamesAndPaths DEF Crates, IsTab

Asks(tab, ask) == IsTab(tab) /\ \A q \in Questions : ask[q] \in Entities(tab)

LEMMA FollowType ==
  ASSUME NEW tab, NEW ask, Asks(tab, ask), NEW found \in Entities(tab), NEW rest \in Path
  PROVE  Follow(ask, found, rest) \in Entities(tab)
<1>1. found.e = "module" => ask[Below(found.at, rest)] \in Entities(tab)
  BY EntitiesAre, QuestionsAre DEF Asks
<1>2. found.e = "crate" => InExternal(found.at[1], rest) \in Entities(tab)
  <2> SUFFICES ASSUME found.e = "crate" PROVE InExternal(found.at[1], rest) \in Entities(tab)
    OBVIOUS
  <2>1. found.at \in Key
    BY EntitiesAre
  <2>2. PICK c \in Identifier : c = found.at[1]
    BY <2>1, NamesAndPaths
  <2>3. <<c>> \o rest \in Path
    BY NamesAndPaths
  <2> QED
    BY <2>2, <2>3, EntitiesAre DEF InExternal
<1> QED
  BY <1>1, <1>2, EntitiesAre DEF Follow

LEMMA PathInnerType ==
  ASSUME NEW tab, NEW ask, Asks(tab, ask), NEW m \in Key, NEW segs \in Path
  PROVE  PathInner(tab, ask, m, segs) \in Entities(tab)
<1>1. CASE segs = <<>>
  BY <1>1, EntitiesAre DEF PathInner
<1>2. CASE segs # <<>>
  <2>1. PICK first \in Identifier, rest \in Path : first = Head(segs) /\ rest = Tail(segs)
    BY <1>2, NamesAndPaths
  <2>2. ~(Len(m) < 2) => ask[PathFrom(Front(m), rest)] \in Entities(tab)
    BY NamesAndPaths, QuestionsAre DEF Asks
  <2>3. ask[Below(IF first = Self THEN m ELSE <<m[1]>>, rest)] \in Entities(tab)
    BY NamesAndPaths, QuestionsAre DEF Asks
  <2>4. ask[NameIn(m, first)] \in Entities(tab)
    BY QuestionsAre DEF Asks
  <2>5. ask[Below(<<first>>, rest)] \in Entities(tab)
    BY NamesAndPaths, QuestionsAre DEF Asks
  <2>6. Follow(ask, ask[NameIn(m, first)], rest) \in Entities(tab)
    BY <2>4, FollowType
  <2>7. External(segs) \in Entities(tab) /\ Unknown \in Entities(tab)
    BY EntitiesAre
  <2> QED
    BY <1>2, <2>1, <2>2, <2>3, <2>4, <2>5, <2>6, <2>7 DEF PathInner
<1> QED
  BY <1>1, <1>2

LEMMA FromModuleType ==
  ASSUME NEW tab, NEW ask, Asks(tab, ask), NEW m \in Key, NEW segs \in Path
  PROVE  FromModule(ask, m, segs) \in Entities(tab)
<1>1. CASE segs = <<>>
  BY <1>1, EntitiesAre DEF FromModule
<1>2. CASE segs # <<>>
  <2>1. PICK first \in Identifier, rest \in Path : first = Head(segs) /\ rest = Tail(segs)
    BY <1>2, NamesAndPaths
  <2>2. ~(Len(m) < 2) => ask[Below(Front(m), rest)] \in Entities(tab)
    BY NamesAndPaths, QuestionsAre DEF Asks
  <2>3. ask[Below(m, rest)] \in Entities(tab)
    BY QuestionsAre DEF Asks
  <2>4. ask[NameIn(m, first)] \in Entities(tab)
    BY QuestionsAre DEF Asks
  <2>5. Follow(ask, ask[NameIn(m, first)], rest) \in Entities(tab)
    BY <2>4, FollowType
  <2>6. Unknown \in Entities(tab)
    BY EntitiesAre
  <2> QED
    BY <1>2, <2>1, <2>2, <2>3, <2>5, <2>6 DEF FromModule
<1> QED
  BY <1>1, <1>2

LEMMA FromGlobsType ==
  ASSUME NEW tab, NEW ask, Asks(tab, ask), NEW m \in Key, NEW globs \in Seq(Path), NEW n \in Identifier
  PROVE  FromGlobs(ask, m, globs, n) \in Entities(tab)
<1>1. PICK k \in Nat : k = Len(globs)
  BY LenProperties
<1>2. ASSUME NEW i \in 1..k PROVE InGlob(ask, m, globs[k + 1 - i], n) \in Entities(tab)
  <2>1. k + 1 - i \in 1..k
    OBVIOUS
  <2>2. PICK glob \in Path : glob = globs[k + 1 - i]
    BY <1>1, <2>1
  <2>3. PICK target \in Entities(tab) : target = ask[PathFrom(m, glob)]
    BY QuestionsAre DEF Asks
  <2>4. target.e = "module" => ask[NameIn(target.at, n)] \in Entities(tab)
    BY QuestionsAre, EntitiesAre DEF Asks
  <2> QED
    BY <2>2, <2>3, <2>4, EntitiesAre DEF InGlob
<1> DEFINE hit(i) == InGlob(ask, m, globs[k + 1 - i], n)
<1> DEFINE G == [i \in Nat |-> [v \in Entities(tab) |-> IF i \in 1..k THEN OrElse(hit(i), v) ELSE v]]
<1>3. ASSUME NEW i \in 1..k, NEW v \in Entities(tab) PROVE OrElse(hit(i), v) \in Entities(tab)
  BY <1>2 DEF OrElse
<1> HIDE DEF hit
<1>4. G \in [Nat -> [Entities(tab) -> Entities(tab)]]
  BY <1>3
<1>5. \A i \in 1..k : \A v \in Entities(tab) : G[i][v] = OrElse(hit(i), v)
  OBVIOUS
<1> HIDE DEF G
<1>6. Segment(0..k) /\ Unknown \in Entities(tab)
  BY EntitiesAre DEF Segment
<1>7. PICK f \in [0..k -> Entities(tab)] : Iterates(f, 0..k, Unknown, G)
  BY <1>4, <1>6, Recursion
<1> DEFINE Is(g) == g = [i \in 0..k |-> IF i = 0 THEN Unknown ELSE OrElse(hit(i), g[i - 1])]
<1>8. Is(f)
  <2>1. ASSUME NEW i \in 0..k PROVE f[i] = IF i = 0 THEN Unknown ELSE OrElse(hit(i), f[i - 1])
    <3>1. f[i] = IF i = 0 THEN Unknown ELSE G[i][f[i - 1]]
      BY <1>7 DEF Iterates
    <3>2. i # 0 => i \in 1..k /\ f[i - 1] \in Entities(tab)
      OBVIOUS
    <3> QED
      BY <1>5, <3>1, <3>2
  <2>2. f = [i \in 0..k |-> f[i]]
    OBVIOUS
  <2> QED
    BY <2>1, <2>2
<1>9. PICK g : Is(g) /\ FromGlobs(ask, m, globs, n) = g[k]
  <2>1. Is(CHOOSE g : Is(g))
    BY <1>8
  <2>2. FromGlobs(ask, m, globs, n) = (CHOOSE g : Is(g))[k]
    BY <1>1 DEF FromGlobs, hit
  <2> QED
    BY <2>1, <2>2
<1>10. g[0] = Unknown /\ \A i \in Nat : i + 1 \in 0..k => g[i + 1] = OrElse(hit(i + 1), g[i])
  <2>1. \A i \in 0..k : g[i] = IF i = 0 THEN Unknown ELSE OrElse(hit(i), g[i - 1])
    BY <1>9
  <2>2. ASSUME NEW i \in Nat, i + 1 \in 0..k PROVE g[i + 1] = OrElse(hit(i + 1), g[i])
    <3>1. i + 1 # 0 /\ (i + 1) - 1 = i
      OBVIOUS
    <3> QED
      BY <2>1, <2>2, <3>1
  <2> QED
    BY <2>1, <2>2
<1>11. \A i \in Nat : i + 1 \in 0..k /\ g[i] \in Entities(tab) => g[i + 1] \in Entities(tab)
  <2>1. \A i \in Nat : i + 1 \in 0..k => i + 1 \in 1..k
    OBVIOUS
  <2> QED
    BY <1>3, <1>10, <2>1 DEF hit
<1>12. g[0] \in Entities(tab)
  BY <1>6, <1>10
<1>13. \A i \in 0..k : g[i] \in Entities(tab)
  BY <1>6, <1>11, <1>12, Kept
<1> QED
  BY <1>9, <1>13

LEMMA ResolveNameType ==
  ASSUME NEW tab, NEW ask, Asks(tab, ask), NEW m \in Key, NEW n \in Identifier
  PROVE  ResolveName(tab, ask, m, n) \in Entities(tab)
<1>1. CASE m \notin DOMAIN tab
  BY <1>1, EntitiesAre DEF ResolveName
<1>2. CASE m \in DOMAIN tab
  <2>1. IsModule(tab[m]) /\ IsTab(tab)
    BY <1>2 DEF Asks, IsTab
  <2>2. Mod(Append(m, n)) \in Entities(tab) /\ Mod(<<n>>) \in Entities(tab)
    BY NamesAndPaths, EntitiesAre
  <2>3. DeclaresItem(tab[m], n) => Item(m, n) \in Entities(tab)
    BY <1>2, NamesAndPaths, EntitiesAre
  <2>4. n \in DOMAIN tab[m].uses => ask[PathFrom(m, tab[m].uses[n])] \in Entities(tab)
    BY <2>1, QuestionsAre DEF IsModule, Asks
  <2>5. FromGlobs(ask, m, tab[m].globs, n) \in Entities(tab)
    BY <2>1, FromGlobsType DEF IsModule
  <2>6. (IF n \in ExternalCrates THEN ExternalCrate(n)
         ELSE IF n \in Crates(tab) THEN Mod(<<n>>)
         ELSE Unknown) \in Entities(tab)
    BY <2>2, EntitiesAre
  <2> QED
    BY <1>2, <2>2, <2>3, <2>4, <2>5, <2>6 DEF ResolveName, OrElse
<1> QED
  BY <1>1, <1>2

LEMMA AnswerType ==
  ASSUME NEW tab, NEW ask, Asks(tab, ask), NEW q \in Questions
  PROVE  Answer(tab, ask, q) \in Entities(tab)
<1>1. q.m \in Key /\ q.segs \in Path /\ (q.of = "name" => q.segs[1] \in Identifier)
      /\ q.of \in {"path", "below", "name"}
  BY QuestionsAre
<1>2. CASE q.of = "path"
  BY <1>1, <1>2, PathInnerType DEF Answer
<1>3. CASE q.of = "below"
  BY <1>1, <1>3, FromModuleType DEF Answer
<1>4. CASE q.of = "name"
  BY <1>1, <1>4, ResolveNameType DEF Answer
<1> QED
  BY <1>1, <1>2, <1>3, <1>4

LEMMA ResolvePathType ==
  ASSUME NEW tab, IsTab(tab), NEW m \in Key, NEW segs \in Path
  PROVE  ResolvePath(tab, m, segs) \in Entities(tab)
<1> DEFINE V == [Questions -> Entities(tab)]
           b == [q \in Questions |-> Unknown]
           G == [n \in Nat |-> [v \in V |-> [q \in Questions |-> Answer(tab, v, q)]]]
<1>1. b \in V
  BY EntitiesAre
<1>2. ASSUME NEW v \in V, NEW q \in Questions PROVE Answer(tab, v, q) \in Entities(tab)
  BY AnswerType DEF Asks
<1>3. G \in [Nat -> [V -> V]]
  BY <1>2
<1>4. \A n \in Nat, v \in V : G[n][v] = [q \in Questions |-> Answer(tab, v, q)]
  OBVIOUS
<1>5. Segment(Nat)
  BY DEF Segment
<1> HIDE DEF V, b, G
<1>6. PICK f \in [Nat -> V] : Iterates(f, Nat, b, G)
  BY <1>1, <1>3, <1>5, Recursion
<1> DEFINE Is(g) == g = [n \in Nat |->
                          [q \in Questions |-> IF n = 0 THEN Unknown ELSE Answer(tab, g[n - 1], q)]]
<1>7. Is(f)
  <2>1. ASSUME NEW n \in Nat
        PROVE  f[n] = [q \in Questions |-> IF n = 0 THEN Unknown ELSE Answer(tab, f[n - 1], q)]
    <3>1. f[n] = IF n = 0 THEN b ELSE G[n][f[n - 1]]
      BY <1>6 DEF Iterates
    <3>2. CASE n = 0
      BY <3>1, <3>2 DEF b
    <3>3. CASE n # 0
      <4>1. n - 1 \in Nat /\ f[n - 1] \in V
        BY <3>3
      <4>2. f[n] = [q \in Questions |-> Answer(tab, f[n - 1], q)]
        BY <1>4, <3>1, <3>3, <4>1
      <4> QED
        BY <3>3, <4>2
    <3> QED
      BY <3>2, <3>3
  <2>2. f = [n \in Nat |-> f[n]]
    BY <1>6
  <2> QED
    BY <2>1, <2>2
<1>8. PICK g : Is(g) /\ ResolvePath(tab, m, segs) = g[MaxDepth + 1][PathFrom(m, segs)]
  <2>1. Is(CHOOSE g : Is(g))
    BY <1>7
  <2> QED
    BY <2>1 DEF ResolvePath
<1>9. \A n \in Nat : g[n] = [q \in Questions |-> IF n = 0 THEN Unknown ELSE Answer(tab, g[n - 1], q)]
  BY <1>8
<1>10. g[0] \in V
  BY <1>1, <1>9 DEF V, b
<1>11. ASSUME NEW n \in Nat, g[n] \in V PROVE g[n + 1] \in V
  <2>1. n + 1 # 0 /\ (n + 1) - 1 = n /\ n + 1 \in Nat
    OBVIOUS
  <2>2. g[n + 1] = [q \in Questions |-> Answer(tab, g[n], q)]
    BY <1>9, <2>1
  <2> QED
    BY <1>2, <1>11, <2>2 DEF V
<1>12. \A n \in Nat : g[n] \in V
  BY <1>5, <1>10, <1>11, Kept
<1>13. MaxDepth + 1 \in Nat
  BY DepthAssumption
<1> QED
  BY <1>8, <1>12, <1>13, QuestionsAre DEF V

(* A finite set of numbers that is not empty has a greatest.               *)
LEMMA Greatest ==
  ASSUME NEW n \in Nat, NEW S \in SUBSET (1..n), S # {}
  PROVE  \E m \in S : \A i \in S : i <= m
<1> DEFINE T == {t \in Nat : \E i \in S : t = n - i}
<1>1. T \in SUBSET Nat /\ T # {}
  <2>1. PICK i \in S : TRUE
    OBVIOUS
  <2>2. n - i \in Nat
    OBVIOUS
  <2> QED
    BY <2>2
<1>2. PICK k \in T : \A i \in T : k <= i
  <2> HIDE DEF T
  <2> QED
    BY <1>1, Least
<1>3. PICK m \in S : k = n - m
  OBVIOUS
<1>4. \A i \in S : n - i \in T /\ n - m <= n - i
  BY <1>2, <1>3
<1>5. \A i \in S : i <= m
  BY <1>4
<1> QED
  BY <1>5

LEMMA Element ==
  ASSUME NEW X, NEW s, s \in Seq(X), NEW i \in DOMAIN s
  PROVE  s[i] \in X
  OBVIOUS

LEMMA WalkedIs ==
  ASSUME NEW p, IsWorkspace(p)
  PROVE  Walked(p) \subseteq DOMAIN p.mods /\ IsFiniteSet(Walked(p)) /\ Walked(p) \subseteq Key
<1>1. Walked(p) \subseteq DOMAIN p.mods
  BY DEF Walked
<1> QED
  BY <1>1, FS_Subset DEF IsWorkspace

LEMMA ModuleDataType ==
  ASSUME NEW p, IsWorkspace(p), NEW k \in DOMAIN p.mods
  PROVE  IsModule(ModuleData(p, k)) /\ ModuleData(p, k).items = p.mods[k].items
<1>1. PICK m \in Sources : m = p.mods[k]
  BY DEF IsWorkspace
<1>2. ModuleData(p, k).items = m.items
  BY <1>1 DEF ModuleData
<1>3. m.items \in Seq(Items)
  BY DEF Sources, Items
<1>4. /\ \A i \in Range(m.items) : i.name # NoName /\ (i \in DeclItems => OneOf(i))
      /\ \A i, j \in DOMAIN m.items : m.items[i].name = m.items[j].name => i = j
  BY <1>1 DEF IsWorkspace
<1>5. ModuleData(p, k).mods \subseteq Identifier
  <2>1. ASSUME NEW c \in DOMAIN p.mods PROVE Last(c) \in Identifier
    <3>1. PICK I : I = Identifier
      OBVIOUS
    <3>2. c \in Seq(I) \ {<<>>}
      BY <3>1 DEF IsWorkspace, Key, Path
    <3>3. Last(c) \in I
      BY <3>2 DEF Last
    <3> QED
      BY <3>1, <3>3
  <2>2. ModuleData(p, k).mods = {Last(c) : c \in {d \in DOMAIN p.mods : Len(d) = Len(k) + 1 /\ IsPrefix(k, d)
                                                          /\ Declared(p, d)}}
    BY DEF ModuleData
  <2> QED
    BY <2>1, <2>2
<1>6. PICK uses, globs : uses = m.uses /\ globs = m.globs
  OBVIOUS
<1>7. uses \in Seq([name : Identifier, path : Path, pub : BOOLEAN]) /\ globs \in Seq([path : Path, pub : BOOLEAN])
  BY <1>6 DEF Sources
<1>8. ModuleData(p, k).globs \in Seq(Path)
  <2>1. ModuleData(p, k).globs = [i \in DOMAIN globs |-> globs[i].path]
    BY <1>1, <1>6 DEF ModuleData
  <2>2. PICK n \in Nat : n = Len(globs) /\ DOMAIN globs = 1..n
    BY <1>7, LenProperties
  <2>3. ASSUME NEW i \in 1..n PROVE globs[i].path \in Path
    <3>1. PICK R : R = [path : Path, pub : BOOLEAN]
      OBVIOUS
    <3>2. globs \in Seq(R)
      BY <1>7, <3>1, Zenon
    <3>3. globs[i] \in R
      BY ONLY <2>2, <3>2, i \in 1..n, Element
    <3> QED
      BY <3>1, <3>3
  <2> QED
    BY <2>1, <2>2, <2>3
<1>9. /\ DOMAIN ModuleData(p, k).uses = {uses[i].name : i \in DOMAIN uses}
      /\ \A n \in DOMAIN ModuleData(p, k).uses :
           ModuleData(p, k).uses[n]
             = uses[CHOOSE i \in DOMAIN uses : uses[i].name = n /\ \A j \in DOMAIN uses : uses[j].name = n => j <= i].path
  BY <1>1, <1>6 DEF ModuleData
<1>10. ASSUME NEW i \in DOMAIN uses PROVE uses[i].name \in Identifier /\ uses[i].path \in Path
  <2>1. PICK R : R = [name : Identifier, path : Path, pub : BOOLEAN]
    OBVIOUS
  <2>2. uses \in Seq(R)
    BY <1>7, <2>1, Zenon
  <2>3. uses[i] \in R
    BY ONLY <2>2, i \in DOMAIN uses, Element
  <2> QED
    BY <2>1, <2>3
<1>11. DOMAIN ModuleData(p, k).uses \subseteq Identifier
  BY <1>9, <1>10
<1>12. ASSUME NEW n \in DOMAIN ModuleData(p, k).uses PROVE ModuleData(p, k).uses[n] \in Path
  <2> DEFINE Name(i) == uses[i].name
  <2>1. \E i \in DOMAIN uses : Name(i) = n
    BY <1>9
  <2>2. (CHOOSE i \in DOMAIN uses : Name(i) = n /\ \A j \in DOMAIN uses : Name(j) = n => j <= i) \in DOMAIN uses
    <3>1. PICK t \in Nat : t = Len(uses) /\ DOMAIN uses = 1..t
      BY <1>7, LenProperties
    <3> DEFINE S == {i \in 1..t : Name(i) = n}
    <3>2. \E s \in S : \A i \in S : i <= s
      <4>1. S \in SUBSET (1..t) /\ S # {}
        BY <2>1, <3>1
      <4> HIDE DEF S
      <4> QED
        BY <4>1, Greatest
    <3>3. \E i \in 1..t : Name(i) = n /\ \A j \in 1..t : Name(j) = n => j <= i
      BY <3>2
    <3> HIDE DEF Name
    <3> QED
      BY <3>1, <3>3
  <2> QED
    BY <1>9, <1>10, <2>2
<1> QED
  BY <1>1, <1>2, <1>3, <1>4, <1>5, <1>8, <1>11, <1>12 DEF IsModule

LEMMA TabOf ==
  ASSUME NEW p, IsWorkspace(p)
  PROVE  IsTab(ModuleMap(p)) /\ DOMAIN ModuleMap(p) = Walked(p)
         /\ \A m \in Walked(p) : ModuleMap(p)[m].items = p.mods[m].items
<1>1. DOMAIN ModuleMap(p) = Walked(p) /\ \A m \in Walked(p) : ModuleMap(p)[m] = ModuleData(p, m)
  BY DEF ModuleMap
<1> QED
  BY <1>1, WalkedIs, ModuleDataType DEF IsTab

-----------------------------------------------------------------------------
(* The item of a name.                                                     *)
LEMMA FindItemIs ==
  ASSUME NEW tab, IsTab(tab), NEW m \in DOMAIN tab, NEW i \in Range(tab[m].items)
  PROVE  /\ FindItem(tab, m, i.name) = i
         /\ i \in Items /\ i.name # NoName /\ (i \in DeclItems => OneOf(i))
<1>1. PICK items : items = tab[m].items
  OBVIOUS
<1>2. IsModule(tab[m])
  BY DEF IsTab
<1>3. items \in Seq(Items) /\ \A x, y \in DOMAIN items : items[x].name = items[y].name => x = y
  BY <1>1, <1>2 DEF IsModule
<1>4. i \in Items /\ i.name # NoName /\ (i \in DeclItems => OneOf(i))
  BY <1>1, <1>2, <1>3, RangeIs DEF IsModule
<1>5. \A x, y \in Range(items) : x.name = y.name => x = y
  BY <1>3, RangeIs
<1>6. FindItem(tab, m, i.name) = CHOOSE x \in Range(items) : x.name = i.name
  BY <1>1 DEF FindItem
<1> QED
  BY <1>1, <1>4, <1>5, <1>6

LEMMA FoundItem ==
  ASSUME NEW tab, IsTab(tab), NEW m \in DOMAIN tab, NEW n, DeclaresItem(tab[m], n)
  PROVE  /\ FindItem(tab, m, n) \in Range(tab[m].items)
         /\ FindItem(tab, m, n).name = n
<1>1. PICK j \in DOMAIN tab[m].items : tab[m].items[j].name = n
  BY DEF DeclaresItem
<1>2. tab[m].items[j] \in Range(tab[m].items)
  BY DEF Range
<1> QED
  BY <1>1, <1>2, FindItemIs

LEMMA ItemDeclared ==
  ASSUME NEW tab, NEW m, NEW i \in Range(tab[m].items)
  PROVE  DeclaresItem(tab[m], i.name)
  BY DEF DeclaresItem, Range

-----------------------------------------------------------------------------
(* Results of lowering.  A reference to a declaration is always enqueued,  *)
(* and where there is no type there is an error.                           *)
TypeRecs == [wraps : Seq(STRING), kind : {"none", "primitive", "external", "type", "error"},
             at : Path, name : Identifier \cup {StringType}]

Codes == {"alias-cycle", "imprecise-int", "invalid-api-item", "invalid-datetime", "invalid-error-type",
          "invalid-map-key", "invalid-param-type", "missing-api-derive", "unresolved-type"}
Reports == {Err(c) : c \in Codes} \cup {Warn(c) : c \in Codes}

ItemAt(tab, k) == FindItem(tab, k.at, k.name)

Keys(tab) == {k \in Entities(tab) : k.e = "item" /\ ApiItemKind(ItemAt(tab, k)) # "none"}

Error(ds) == \E d \in ds : d.error

Refers(tab, ty, line) ==
  ty.kind \in {"type", "error"} =>
    Item(ty.at, ty.name) \in Range(line) /\ ApiItemKind(FindItem(tab, ty.at, ty.name)) = ty.kind

Result(tab, r) ==
  /\ r = [ty |-> r.ty, queue |-> r.queue, diags |-> r.diags]
  /\ r.ty \in TypeRecs /\ r.queue \in Seq(Keys(tab)) /\ r.diags \subseteq Reports
  /\ r.ty.kind = "none" <=> r.ty = NoType
  /\ r.ty = NoType => Error(r.diags)
  /\ Refers(tab, r.ty, r.queue)

LEMMA NoTypeIs == NoType \in TypeRecs /\ NoType.kind = "none"
<1>1. <<>> \in Seq(STRING)
  BY EmptySeq
<1> QED
  BY <1>1, NamesAndPaths DEF NoType, TypeRecs

LEMMA ResultIs ==
  ASSUME NEW tab, NEW ty \in TypeRecs, NEW line \in Seq(Keys(tab)), NEW ds \in SUBSET Reports,
         ty.kind = "none" <=> ty = NoType, ty = NoType => Error(ds), Refers(tab, ty, line)
  PROVE  Result(tab, [ty |-> ty, queue |-> line, diags |-> ds])
  BY DEF Result

LEMMA FailedResult ==
  ASSUME NEW tab, NEW code \in Codes
  PROVE  Result(tab, Failed(code)) /\ Failed(code).ty = NoType /\ Failed(code).queue = <<>>
<1>1. <<>> \in Seq(Keys(tab))
  BY EmptySeq
<1>2. Error({Err(code)}) /\ {Err(code)} \in SUBSET Reports
  BY DEF Err, Error, Reports
<1>3. Failed(code) = [ty |-> NoType, queue |-> <<>>, diags |-> {Err(code)}]
  BY DEF Failed
<1>4. Refers(tab, NoType, <<>>)
  BY NoTypeIs DEF Refers
<1>5. Result(tab, [ty |-> NoType, queue |-> <<>>, diags |-> {Err(code)}])
  BY <1>1, <1>2, <1>4, NoTypeIs, ResultIs
<1> QED
  BY <1>3, <1>5

\* What has been lowered to a type without wrappers.
LEMMA LoweredIs ==
  ASSUME NEW kind, NEW at, NEW name, NEW t, t = [wraps |-> <<>>, kind |-> kind, at |-> at, name |-> name]
  PROVE  /\ Lowered(kind, at, name) = [ty |-> t, queue |-> <<>>, diags |-> {}]
         /\ \A ds : [Lowered(kind, at, name) EXCEPT !.diags = ds] = [ty |-> t, queue |-> <<>>, diags |-> ds]
         /\ \A q : [Lowered(kind, at, name) EXCEPT !.queue = q] = [ty |-> t, queue |-> q, diags |-> {}]
<1>1. Lowered(kind, at, name) = [ty |-> t, queue |-> <<>>, diags |-> {}]
  BY DEF Lowered
<1>2. PICK L, none : L = Lowered(kind, at, name) /\ none = {}
  OBVIOUS
<1>3. L = [ty |-> t, queue |-> <<>>, diags |-> none]
  BY <1>1, <1>2
<1>4. \A ds : [L EXCEPT !.diags = ds] = [ty |-> t, queue |-> <<>>, diags |-> ds]
  BY <1>3, Z3
<1>5. \A q : [L EXCEPT !.queue = q] = [ty |-> t, queue |-> q, diags |-> none]
  BY <1>3
<1> QED
  BY <1>1, <1>2, <1>4, <1>5, Zenon

LEMMA OutsideResult ==
  ASSUME NEW tab, NEW kind \in {"primitive", "external"}, NEW at \in Path,
         NEW name \in Identifier \cup {StringType}
  PROVE  /\ Result(tab, Lowered(kind, at, name))
         /\ \A ds \in SUBSET Reports : Result(tab, [Lowered(kind, at, name) EXCEPT !.diags = ds])
<1>1. <<>> \in Seq(Keys(tab)) /\ <<>> \in Seq(STRING)
  BY EmptySeq
<1>2. PICK t : t = [wraps |-> <<>>, kind |-> kind, at |-> at, name |-> name]
  OBVIOUS
<1>3. t \in TypeRecs /\ t.kind # "none" /\ t # NoType /\ t.kind \notin {"type", "error"}
  BY <1>1, <1>2, NoTypeIs DEF TypeRecs
<1>4. ASSUME NEW ds \in SUBSET Reports PROVE Result(tab, [ty |-> t, queue |-> <<>>, diags |-> ds])
  BY <1>1, <1>3, ResultIs DEF Refers
<1>5. {} \in SUBSET Reports
  OBVIOUS
<1> QED
  BY <1>2, <1>4, <1>5, LoweredIs

LEMMA ItemResult ==
  ASSUME NEW tab, IsTab(tab), NEW k \in Entities(tab), k.e = "item"
  PROVE  Result(tab, LowerItem(k.at, ItemAt(tab, k)))
<1>1. k.at \in DOMAIN tab /\ DeclaresItem(tab[k.at], k.name) /\ k.at \in Path /\ k.name \in Identifier
  BY DEF Entities
<1>2. PICK item : item = ItemAt(tab, k)
  OBVIOUS
<1>3. item.name = k.name
  BY <1>1, <1>2, FoundItem DEF ItemAt
<1>4. k = Item(k.at, k.name)
  BY DEF Entities, Item
<1>5. ApiItemKind(item) \in {"type", "error", "none"}
  BY DEF ApiItemKind
<1>6. ApiItemKind(item) # "none" =>
        Result(tab, [Lowered(ApiItemKind(item), k.at, item.name) EXCEPT !.queue = <<Item(k.at, item.name)>>])
  <2> SUFFICES ASSUME ApiItemKind(item) # "none"
               PROVE  Result(tab, [Lowered(ApiItemKind(item), k.at, item.name) EXCEPT
                                     !.queue = <<Item(k.at, item.name)>>])
    OBVIOUS
  <2>1. k \in Keys(tab)
    BY <1>2 DEF Keys
  <2>2. <<k>> \in Seq(Keys(tab)) /\ Range(<<k>>) = {k}
    BY <2>1, Single
  <2>3. PICK kind \in {"type", "error"} : kind = ApiItemKind(item)
    BY <1>5
  <2>4. PICK t : t = [wraps |-> <<>>, kind |-> kind, at |-> k.at, name |-> k.name]
    OBVIOUS
  <2>5. t \in TypeRecs /\ t.kind = kind /\ t.at = k.at /\ t.name = k.name
    BY <1>1, <2>4, EmptySeq DEF TypeRecs
  <2>6. t.kind # "none" /\ t # NoType
    BY <2>3, <2>5, NoTypeIs
  <2>7. Refers(tab, t, <<k>>)
    BY <1>2, <1>4, <2>2, <2>3, <2>5 DEF Refers, ItemAt
  <2>8. Result(tab, [ty |-> t, queue |-> <<k>>, diags |-> {}])
    BY <2>2, <2>5, <2>6, <2>7, ResultIs
  <2>9. [Lowered(kind, k.at, k.name) EXCEPT !.queue = <<k>>] = [ty |-> t, queue |-> <<k>>, diags |-> {}]
    BY <2>4, LoweredIs
  <2> QED
    BY <1>3, <1>4, <2>3, <2>8, <2>9
<1>7. Result(tab, Failed("alias-cycle")) /\ Result(tab, Failed("missing-api-derive"))
  BY FailedResult DEF Codes
<1> QED
  BY <1>2, <1>6, <1>7 DEF LowerItem

Written(tab) == [via : Entities(tab), m : Key, ty : TypeTexts]

LEMMA PathResult ==
  ASSUME NEW tab, IsTab(tab), NEW link \in Written(tab)
  PROVE  Result(tab, LowerPath(tab, link))
<1>1. link.m \in Key /\ link.ty.path \in Path
  BY DEF Written, TypeTexts
<1>2. PICK resolved \in Entities(tab) : resolved = Resolved(tab, link)
  BY <1>1, ResolvePathType DEF Resolved
<1>3. PICK path \in Path : path = link.ty.path
  BY <1>1
<1>4. IsPrimitive(path) =>
        Result(tab, [Lowered("primitive", <<>>, path[1]) EXCEPT
                       !.diags = IF path[1] = U64 THEN {Warn("imprecise-int")} ELSE {}])
  <2> SUFFICES ASSUME IsPrimitive(path)
               PROVE  Result(tab, [Lowered("primitive", <<>>, path[1]) EXCEPT
                                     !.diags = IF path[1] = U64 THEN {Warn("imprecise-int")} ELSE {}])
    OBVIOUS
  <2>1. path # <<>>
    BY DEF IsPrimitive
  <2>2. PICK name \in Identifier : name = path[1]
    BY <2>1, NamesAndPaths DEF Key
  <2>3. (IF name = U64 THEN {Warn("imprecise-int")} ELSE {}) \in SUBSET Reports
    BY DEF Reports, Codes
  <2> QED
    BY <2>2, <2>3, OutsideResult, NamesAndPaths
<1>6. Result(tab, Lowered("external", resolved.at, <<>>))
  BY OutsideResult, NamesAndPaths, EntitiesAre
<1>7. Result(tab, Lowered("primitive", <<>>, StringType))
  BY OutsideResult, NamesAndPaths
<1>8. resolved.e = "item" => Result(tab, LowerItem(resolved.at, FindItem(tab, resolved.at, resolved.name)))
  BY ItemResult DEF ItemAt
<1>9. Result(tab, Failed("unresolved-type"))
  BY FailedResult DEF Codes
<1> QED
  BY <1>2, <1>3, <1>4, <1>6, <1>7, <1>8, <1>9 DEF LowerPath

LEMMA WrapperResult ==
  ASSUME NEW tab, NEW wrapper \in STRING, NEW resolved \in Entities(tab), NEW inner, Result(tab, inner)
  PROVE  Result(tab, LowerWrapper(wrapper, resolved, inner))
<1>1. Result(tab, Failed("invalid-map-key")) /\ Result(tab, Failed("unresolved-type"))
      /\ Result(tab, Failed("invalid-datetime"))
  BY FailedResult DEF Codes
<1>2. Result(tab, Lowered("external", resolved.at, <<>>))
  BY OutsideResult, NamesAndPaths, EntitiesAre
<1>3. inner.ty # NoType => Result(tab, [inner EXCEPT !.ty.wraps = <<wrapper>> \o @])
  <2> SUFFICES ASSUME inner.ty # NoType PROVE Result(tab, [inner EXCEPT !.ty.wraps = <<wrapper>> \o @])
    OBVIOUS
  <2>1. PICK t \in TypeRecs, q \in Seq(Keys(tab)), ds \in SUBSET Reports :
          inner = [ty |-> t, queue |-> q, diags |-> ds]
    BY DEF Result
  <2>2. PICK kind, at, name, old : t = [wraps |-> old, kind |-> kind, at |-> at, name |-> name]
    BY DEF TypeRecs
  <2>3. PICK w : w = <<wrapper>> \o old
    OBVIOUS
  <2>4. w \in Seq(STRING)
    BY <2>2, <2>3 DEF TypeRecs
  <2>5. kind # "none" /\ Refers(tab, t, q)
    BY <2>1, <2>2 DEF Result
  <2>6. PICK u : u = [wraps |-> w, kind |-> kind, at |-> at, name |-> name]
    OBVIOUS
  <2>7. [inner EXCEPT !.ty.wraps = <<wrapper>> \o @] = [ty |-> u, queue |-> q, diags |-> ds]
    <3>1. [inner EXCEPT !.ty.wraps = w] = [ty |-> u, queue |-> q, diags |-> ds]
      BY ONLY <2>1, <2>2, <2>6
    <3>2. inner.ty.wraps = old
      BY <2>1, <2>2
    <3> QED
      BY <2>3, <3>1, <3>2, Zenon
  <2>8. u \in TypeRecs /\ u.kind = kind /\ u.at = t.at /\ u.name = t.name /\ u.kind = t.kind
    BY <2>2, <2>4, <2>6 DEF TypeRecs
  <2>9. Refers(tab, u, q) /\ u # NoType
    BY <2>5, <2>8, NoTypeIs DEF Refers
  <2>10. Result(tab, [ty |-> u, queue |-> q, diags |-> ds])
    BY <2>5, <2>8, <2>9, ResultIs
  <2> QED
    BY <2>7, <2>10
<1> QED
  BY <1>1, <1>2, <1>3 DEF LowerWrapper

-----------------------------------------------------------------------------
(* There are finitely many items.                                          *)
LEMMA FiniteImage ==
  ASSUME NEW S, IsFiniteSet(S), NEW f, f = [x \in S |-> f[x]]
  PROVE  IsFiniteSet({f[x] : x \in S})
<1>1. PICK T : T = {f[x] : x \in S}
  OBVIOUS
<1>2. f \in [S -> T] /\ \A t \in T : \E x \in S : f[x] = t
  BY <1>1
<1>3. f \in Surjection(S, T)
  BY <1>2 DEF Surjection
<1> QED
  BY <1>1, <1>3, FS_Surjection

LEMMA FiniteRange ==
  ASSUME NEW X, NEW s, s \in Seq(X)
  PROVE  IsFiniteSet(Range(s))
<1>1. PICK n \in Nat : n = Len(s)
  BY LenProperties
<1>2. IsFiniteSet(1..n)
  BY FS_Interval
<1>3. IsFiniteSet({s[i] : i \in 1..n})
  <2>1. s = [i \in 1..n |-> s[i]]
    BY <1>1
  <2> QED
    BY <1>2, <2>1, FiniteImage
<1>4. Range(s) = {s[i] : i \in 1..n}
  BY <1>1 DEF Range
<1> QED
  BY <1>3, <1>4

DeclaredIn(tab, m) == {Item(m, i.name) : i \in Range(tab[m].items)}
Declarables(tab) == UNION {DeclaredIn(tab, m) : m \in DOMAIN tab}

LEMMA DeclarablesFinite ==
  ASSUME NEW tab, IsFiniteSet(DOMAIN tab), \A m \in DOMAIN tab : tab[m].items \in Seq(Items)
  PROVE  IsFiniteSet(Declarables(tab))
<1>1. ASSUME NEW m \in DOMAIN tab PROVE IsFiniteSet(DeclaredIn(tab, m))
  <2>1. IsFiniteSet(Range(tab[m].items))
    BY FiniteRange
  <2>2. PICK S : S = Range(tab[m].items)
    OBVIOUS
  <2> DEFINE f == [i \in S |-> Item(m, i.name)]
  <2>3. f = [i \in S |-> f[i]] /\ {f[i] : i \in S} = {Item(m, i.name) : i \in S}
    OBVIOUS
  <2> HIDE DEF f
  <2>4. IsFiniteSet({f[i] : i \in S})
    BY <2>1, <2>2, <2>3, FiniteImage
  <2> QED
    BY <2>2, <2>3, <2>4 DEF DeclaredIn
<1> DEFINE f == [m \in DOMAIN tab |-> DeclaredIn(tab, m)]
<1>2. f = [m \in DOMAIN tab |-> f[m]] /\ {f[m] : m \in DOMAIN tab} = {DeclaredIn(tab, m) : m \in DOMAIN tab}
  OBVIOUS
<1> HIDE DEF f
<1>3. IsFiniteSet({DeclaredIn(tab, m) : m \in DOMAIN tab})
  <2>1. IsFiniteSet({f[m] : m \in DOMAIN tab})
    BY <1>2, FiniteImage
  <2> QED
    BY <1>2, <2>1
<1>4. \A T \in {DeclaredIn(tab, m) : m \in DOMAIN tab} : IsFiniteSet(T)
  BY <1>1
<1> QED
  BY <1>3, <1>4, FS_UNION DEF Declarables

LEMMA AliasesFinite ==
  ASSUME NEW tab, IsTab(tab)
  PROVE  IsFiniteSet(Aliases(tab)) /\ Cardinality(Aliases(tab)) \in Nat
<1>1. Aliases(tab) \subseteq Declarables(tab)
  BY DEF Aliases, Declarables, DeclaredIn
<1>2. IsFiniteSet(Declarables(tab))
  BY DeclarablesFinite DEF IsTab, IsModule
<1> QED
  BY <1>1, <1>2, FS_Subset, FS_CardinalityType

-----------------------------------------------------------------------------
(* The links of a type.                                                    *)
Chains(tab) == Seq(Written(tab)) \ {<<>>}

LEMMA LastOf ==
  ASSUME NEW X, NEW s \in Seq(X) \ {<<>>}
  PROVE  Last(s) \in X /\ \A x \in X : Append(s, x) \in Seq(X) \ {<<>>} /\ Last(Append(s, x)) = x
  BY DEF Last

LEMMA AliasLink ==
  ASSUME NEW tab, IsTab(tab), NEW r \in Entities(tab), r.e = "item", ItemAt(tab, r).kind = "alias"
  PROVE  ForAlias(r, ItemAt(tab, r)) \in Written(tab)
<1>1. r.at \in DOMAIN tab /\ DeclaresItem(tab[r.at], r.name)
  BY DEF Entities
<1>2. PICK item \in Range(tab[r.at].items) : item = ItemAt(tab, r)
  BY <1>1, FoundItem DEF ItemAt
<1>3. item \in Items /\ (item \in DeclItems => OneOf(item))
  BY <1>1, <1>2, FindItemIs
<1>4. item \in DeclItems
  BY <1>2, <1>3 DEF Items, EndpointFns, RouterFns
<1>5. Len(item.variants) = 1 /\ Len(item.variants[1].fields) = 1
  BY <1>2, <1>3, <1>4 DEF OneOf
<1>6. item.variants \in Seq(VariantItems)
  BY <1>4 DEF DeclItems
<1>7. item.variants[1] \in VariantItems
  BY <1>5, <1>6
<1>8. item.variants[1].fields \in Seq(FieldItems)
  BY <1>7 DEF VariantItems
<1>9. item.variants[1].fields[1] \in FieldItems
  BY <1>5, <1>8
<1>10. item.variants[1].fields[1].ty \in TypeTexts
  BY <1>9 DEF FieldItems
<1>11. r.at \in Key
  BY <1>1 DEF IsTab
<1> QED
  BY <1>2, <1>10, <1>11 DEF ForAlias, Written

LEMMA FollowAliasType ==
  ASSUME NEW tab, IsTab(tab), NEW links \in Chains(tab)
  PROVE  FollowAlias(tab, links) \in Chains(tab)
<1>1. Last(links) \in Written(tab)
  BY LastOf DEF Chains
<1>2. PICK r \in Entities(tab) : r = Resolved(tab, Last(links))
  BY <1>1, ResolvePathType DEF Resolved, Written, TypeTexts
<1>3. r.e = "item" /\ ItemAt(tab, r).kind = "alias" => Append(links, ForAlias(r, ItemAt(tab, r))) \in Chains(tab)
  BY AliasLink, LastOf DEF Chains
<1> QED
  BY <1>2, <1>3 DEF FollowAlias, ItemAt

Linked(g, tab, first) ==
  /\ g[0] = <<first>>
  /\ \A n \in Nat : g[n] \in Chains(tab) /\ g[n + 1] = FollowAlias(tab, g[n])

LEMMA LinksAre ==
  ASSUME NEW tab, IsTab(tab), NEW m \in Key, NEW ty \in TypeTexts
  PROVE  \E g : /\ Linked(g, tab, [via |-> Unknown, m |-> m, ty |-> ty])
                /\ Links(tab, m, ty) = g[Cardinality(Aliases(tab))]
<1> DEFINE first == [via |-> Unknown, m |-> m, ty |-> ty]
           V == Chains(tab)
           G == [n \in Nat |-> [v \in V |-> FollowAlias(tab, v)]]
<1>1. <<first>> \in V
  <2>1. first \in Written(tab)
    BY EntitiesAre DEF Written
  <2> QED
    BY <2>1, Single DEF Chains
<1>2. \A v \in V : FollowAlias(tab, v) \in V
  BY FollowAliasType
<1>3. G \in [Nat -> [V -> V]]
  BY <1>2
<1>4. \A n \in Nat, v \in V : G[n][v] = FollowAlias(tab, v)
  OBVIOUS
<1>5. Segment(Nat)
  BY DEF Segment
<1> HIDE DEF first, V, G
<1>6. PICK f \in [Nat -> V] : Iterates(f, Nat, <<first>>, G)
  BY <1>1, <1>3, <1>5, Recursion
<1> DEFINE Is(g) == g = [n \in Nat |-> IF n = 0 THEN <<first>> ELSE FollowAlias(tab, g[n - 1])]
<1>7. Is(f)
  <2>1. ASSUME NEW n \in Nat
        PROVE  f[n] = IF n = 0 THEN <<first>> ELSE FollowAlias(tab, f[n - 1])
    <3>1. f[n] = IF n = 0 THEN <<first>> ELSE G[n][f[n - 1]]
      BY <1>6 DEF Iterates
    <3>2. n # 0 => n - 1 \in Nat /\ f[n - 1] \in V
      OBVIOUS
    <3> QED
      BY <1>4, <3>1, <3>2
  <2>2. f = [n \in Nat |-> f[n]]
    BY <1>6
  <2> QED
    BY <2>1, <2>2
<1>8. PICK g : Is(g) /\ Links(tab, m, ty) = g[Cardinality(Aliases(tab))]
  <2>1. Is(CHOOSE g : Is(g))
    BY <1>7
  <2> QED
    BY <2>1 DEF Links, first
<1>9. \A n \in Nat : g[n] = IF n = 0 THEN <<first>> ELSE FollowAlias(tab, g[n - 1])
  BY <1>8
<1>10. g[0] = <<first>> /\ \A n \in Nat : g[n + 1] = FollowAlias(tab, g[n])
  <2>1. \A n \in Nat : n + 1 \in Nat /\ n + 1 # 0 /\ (n + 1) - 1 = n
    OBVIOUS
  <2> QED
    BY <1>9, <2>1
<1>11. g[0] \in V /\ \A n \in Nat : n + 1 \in Nat /\ g[n] \in V => g[n + 1] \in V
  BY <1>1, <1>2, <1>10
<1>12. \A n \in Nat : g[n] \in V
  BY <1>5, <1>11, Kept
<1> QED
  BY <1>8, <1>10, <1>12 DEF Linked, V, first

LEMMA LinksType ==
  ASSUME NEW tab, IsTab(tab), NEW m \in Key, NEW ty \in TypeTexts
  PROVE  Links(tab, m, ty) \in Chains(tab)
  BY LinksAre, AliasesFinite DEF Linked

-----------------------------------------------------------------------------
(* Layers around what is within.                                           *)
LayerRecs(tab) == [wrapper : STRING, resolved : Entities(tab)]

LEMMA LayersType ==
  ASSUME NEW tab, IsTab(tab), NEW link \in Written(tab)
  PROVE  Layers(tab, link) \in Seq(LayerRecs(tab)) /\ Len(Layers(tab, link)) = Len(link.ty.wraps)
<1>1. PICK w, r : w = link.ty.wraps /\ r = Resolved(tab, link)
  OBVIOUS
<1>2. w \in Seq(STRING) /\ r \in Entities(tab)
  BY <1>1, ResolvePathType DEF Resolved, Written, TypeTexts
<1>3. PICK n \in Nat : n = Len(w) /\ DOMAIN w = 1..n
  BY <1>2, LenProperties
<1>4. \A i \in 1..n : [wrapper |-> w[i], resolved |-> r] \in LayerRecs(tab)
  BY <1>2, <1>3 DEF LayerRecs
<1>5. Layers(tab, link) = [i \in 1..n |-> [wrapper |-> w[i], resolved |-> r]]
  BY <1>1, <1>3 DEF Layers
<1> QED
  BY <1>1, <1>3, <1>4, <1>5

Surrounds(f, k, layers, innermost) ==
  /\ f[0] = innermost
  /\ \A i \in 1..k : f[i] = LowerWrapper(layers[k + 1 - i].wrapper, layers[k + 1 - i].resolved, f[i - 1])
  /\ Around(layers, innermost) = f[k]

LEMMA AroundIs ==
  ASSUME NEW tab, NEW layers, layers \in Seq(LayerRecs(tab)), NEW innermost, Result(tab, innermost),
         NEW k \in Nat, k = Len(layers)
  PROVE  \E f : Surrounds(f, k, layers, innermost) /\ \A i \in 0..k : Result(tab, f[i])
<1> DEFINE wrap(i, r) == LowerWrapper(layers[k + 1 - i].wrapper, layers[k + 1 - i].resolved, r)
           V == {r \in [ty : TypeRecs, queue : Seq(Keys(tab)), diags : SUBSET Reports] : Result(tab, r)}
           G == [i \in Nat |-> [r \in V |-> IF i \in 1..k THEN wrap(i, r) ELSE r]]
<1>1. \A r : r \in V <=> Result(tab, r)
  BY DEF Result
<1>2. ASSUME NEW i \in 1..k, NEW r, Result(tab, r) PROVE Result(tab, wrap(i, r))
  <2>1. k + 1 - i \in 1..k
    OBVIOUS
  <2>2. PICK l \in LayerRecs(tab) : l = layers[k + 1 - i]
    BY <2>1, Element
  <2> QED
    BY <1>2, <2>2, WrapperResult DEF LayerRecs
<1> HIDE DEF wrap
<1>3. \A i \in 1..k, r \in V : G[i][r] = wrap(i, r)
  OBVIOUS
<1>4. G \in [Nat -> [V -> V]]
  <2>1. \A i \in Nat, r \in V : (IF i \in 1..k THEN wrap(i, r) ELSE r) \in V
    BY <1>1, <1>2
  <2> HIDE DEF V
  <2> QED
    BY <2>1
<1>5. Segment(0..k) /\ innermost \in V
  BY <1>1 DEF Segment
<1> HIDE DEF V, G
<1>6. PICK f \in [0..k -> V] : Iterates(f, 0..k, innermost, G)
  BY <1>4, <1>5, Recursion
<1> DEFINE Is(g) == g = [i \in 0..k |-> IF i = 0 THEN innermost ELSE wrap(i, g[i - 1])]
<1>7. Is(f)
  <2>1. ASSUME NEW i \in 0..k PROVE f[i] = IF i = 0 THEN innermost ELSE wrap(i, f[i - 1])
    <3>1. f[i] = IF i = 0 THEN innermost ELSE G[i][f[i - 1]]
      BY <1>6 DEF Iterates
    <3>2. i # 0 => i \in 1..k /\ f[i - 1] \in V
      OBVIOUS
    <3> QED
      BY <1>3, <3>1, <3>2
  <2>2. f = [i \in 0..k |-> f[i]]
    OBVIOUS
  <2> QED
    BY <2>1, <2>2
<1>8. PICK g : Is(g) /\ Around(layers, innermost) = g[k]
  <2>1. Is(CHOOSE g : Is(g))
    BY <1>7
  <2> QED
    BY <2>1, ZenonT(60) DEF Around, wrap
<1>9. \A i \in 0..k : g[i] = IF i = 0 THEN innermost ELSE wrap(i, g[i - 1])
  BY <1>8
<1>10. g[0] = innermost /\ \A i \in 1..k : g[i] = wrap(i, g[i - 1])
  <2>1. \A i \in 1..k : i \in 0..k /\ i # 0
    OBVIOUS
  <2> QED
    BY <1>9, <2>1
<1>11. ASSUME NEW i \in Nat, i + 1 \in 0..k, g[i] \in V PROVE g[i + 1] \in V
  <2>1. i + 1 \in 1..k /\ (i + 1) - 1 = i
    BY <1>11
  <2> QED
    BY <1>1, <1>2, <1>10, <1>11, <2>1
<1>12. \A i \in 0..k : g[i] \in V
  BY <1>5, <1>10, <1>11, Kept
<1> QED
  BY <1>1, <1>8, <1>10, <1>12 DEF Surrounds, wrap

LEMMA AroundType ==
  ASSUME NEW tab, NEW layers, layers \in Seq(LayerRecs(tab)), NEW innermost, Result(tab, innermost)
  PROVE  Result(tab, Around(layers, innermost))
<1>1. PICK k \in Nat : k = Len(layers)
  BY LenProperties
<1> QED
  BY <1>1, AroundIs DEF Surrounds

LayersOf(tab, links) == FlattenSeq([i \in DOMAIN links |-> Layers(tab, links[i])])

LEMMA LayersOfType ==
  ASSUME NEW tab, IsTab(tab), NEW links \in Seq(Written(tab))
  PROVE  LayersOf(tab, links) \in Seq(LayerRecs(tab))
<1>1. PICK n \in Nat : n = Len(links) /\ DOMAIN links = 1..n
  BY LenProperties
<1>2. \A i \in 1..n : Layers(tab, links[i]) \in Seq(LayerRecs(tab))
  BY <1>1, LayersType
<1>3. [i \in DOMAIN links |-> Layers(tab, links[i])] \in Seq(Seq(LayerRecs(tab)))
  BY <1>1, <1>2
<1> QED
  BY <1>3, FlatType DEF LayersOf

LEMMA TypeOfType ==
  ASSUME NEW tab, IsTab(tab), NEW m \in Key, NEW ty \in TypeTexts
  PROVE  Result(tab, TypeOf(tab, m, ty))
<1>1. PICK links \in Chains(tab) : links = Links(tab, m, ty)
  BY LinksType
<1>2. LayersOf(tab, links) \in Seq(LayerRecs(tab))
  BY LayersOfType DEF Chains
<1>3. Result(tab, LowerPath(tab, Last(links)))
  BY PathResult, LastOf DEF Chains
<1>4. TypeOf(tab, m, ty) = Around(LayersOf(tab, links), LowerPath(tab, Last(links)))
  BY <1>1 DEF TypeOf, LayersOf
<1> QED
  BY <1>2, <1>3, <1>4, AroundType

-----------------------------------------------------------------------------
(* Sequences of results.                                                   *)
IsSeq(s) == s \in Seq(Range(s))

LEMMA SeqIs ==
  ASSUME NEW n \in Nat, NEW s, s = [i \in 1..n |-> s[i]]
  PROVE  IsSeq(s) /\ Len(s) = n /\ DOMAIN s = 1..n
<1>1. \A i \in 1..n : s[i] \in Range(s)
  BY DEF Range
<1>2. s \in [1..n -> Range(s)]
  BY <1>1
<1>3. PICK R : R = Range(s)
  OBVIOUS
<1>4. s \in [1..n -> R]
  BY <1>2, <1>3
<1>5. s \in Seq(R) /\ Len(s) = n
  BY ONLY <1>4, n \in Nat
<1> QED
  BY <1>3, <1>4, <1>5 DEF IsSeq

LEMMA IsSeqOf == ASSUME NEW X, NEW s \in Seq(X) PROVE IsSeq(s)
<1>1. PICK n \in Nat : n = Len(s) /\ DOMAIN s = 1..n
  BY LenProperties
<1>2. s = [i \in 1..n |-> s[i]]
  BY <1>1
<1> QED
  BY <1>2, SeqIs

LEMMA QueuedIs ==
  ASSUME NEW K, NEW n \in Nat, NEW rs, DOMAIN rs = 1..n, \A i \in 1..n : rs[i].queue \in Seq(K)
  PROVE  /\ Queued(rs) \in Seq(K)
         /\ \A i \in 1..n : \A x \in Range(rs[i].queue) : x \in Range(Queued(rs))
<1> DEFINE s == [i \in DOMAIN rs |-> rs[i].queue]
<1>1. s \in Seq(Seq(K)) /\ Len(s) = n /\ \A i \in 1..n : s[i] = rs[i].queue
  OBVIOUS
<1> HIDE DEF s
<1>2. FlattenSeq(s) \in Seq(K) /\ \A x : x \in Range(FlattenSeq(s)) <=> \E i \in 1..Len(s) : x \in Range(s[i])
  BY <1>1, FlatType, FlatRange
<1> QED
  BY <1>1, <1>2 DEF Queued, s

LEMMA ReportedIs ==
  ASSUME NEW rs
  PROVE  Error(Reported(rs)) <=> \E i \in DOMAIN rs : Error(rs[i].diags)
  BY DEF Error, Reported

-----------------------------------------------------------------------------
(* Fields.                                                                 *)
TypeOk(tab, ty, line) == ty \in TypeRecs /\ ty # NoType /\ ty.kind # "none" /\ Refers(tab, ty, line)

LEMMA ResultOk ==
  ASSUME NEW tab, NEW r, Result(tab, r)
  PROVE  /\ r.ty # NoType => TypeOk(tab, r.ty, r.queue)
         /\ r.ty = NoType => Error(r.diags)
         /\ r.queue \in Seq(Keys(tab))
  BY DEF Result, TypeOk

LEMMA MoreOk ==
  ASSUME NEW tab, NEW ty, NEW line, NEW more, TypeOk(tab, ty, line),
         \A x \in Range(line) : x \in Range(more)
  PROVE  TypeOk(tab, ty, more)
  BY DEF TypeOk, Refers

LEMMA InnerText ==
  ASSUME NEW ty \in TypeTexts, NEW a
  PROVE  FieldWireShape(ty, a).inner \in TypeTexts
<1>1. PICK w \in Seq(STRING), p \in Path : ty = [wraps |-> w, path |-> p]
  BY DEF TypeTexts
<1>2. w # <<>> => [ty EXCEPT !.wraps = Tail(@)] \in TypeTexts
  <2> SUFFICES ASSUME w # <<>> PROVE [ty EXCEPT !.wraps = Tail(@)] \in TypeTexts
    OBVIOUS
  <2>1. PICK t : t = Tail(w)
    OBVIOUS
  <2>2. t \in Seq(STRING)
    BY <2>1
  <2>3. [ty EXCEPT !.wraps = t] \in TypeTexts
    BY <1>1, <2>2 DEF TypeTexts
  <2> QED
    BY <1>1, <2>1, <2>3
<1> QED
  BY <1>1, <1>2 DEF FieldWireShape, IsOption

FieldValid(f) == FromAttrs(f.attrs) /\ ValidField(f.attrs) /\ FieldWireShape(f.ty, f.attrs).ok

LEMMA LowerFieldIs ==
  ASSUME NEW tab, IsTab(tab), NEW m \in Key, NEW f \in FieldItems
  PROVE  /\ Result(tab, LowerField(tab, m, f))
         /\ ~Error(LowerField(tab, m, f).diags) =>
              FieldValid(f) /\ LowerField(tab, m, f) = TypeOf(tab, m, FieldWireShape(f.ty, f.attrs).inner)
<1>1. Result(tab, TypeOf(tab, m, FieldWireShape(f.ty, f.attrs).inner))
  BY InnerText, TypeOfType DEF FieldItems
<1>2. Result(tab, Failed("invalid-api-item")) /\ Failed("invalid-api-item").ty = NoType
  BY FailedResult DEF Codes
<1>3. Error(Failed("invalid-api-item").diags)
  BY <1>2, ResultOk
<1> QED
  BY <1>1, <1>2, <1>3 DEF LowerField, FieldValid

GivenField(tab, m, f, rule) ==
  [name |-> f.name, ty |-> TypeOf(tab, m, FieldWireShape(f.ty, f.attrs).inner).ty,
   wire |-> WireName(f.name, f.attrs, rule), optionality |-> FieldWireShape(f.ty, f.attrs).optionality]

FieldsTyped(tab, fields, line) == IsSeq(fields) /\ \A f \in Range(fields) : TypeOk(tab, f.ty, line)

FieldsWhole(tab, m, given, fields, rule) ==
  /\ Len(fields) = Len(given)
  /\ \A i \in 1..Len(given) : FieldValid(given[i]) /\ fields[i] = GivenField(tab, m, given[i], rule)

LEMMA LowerFieldsIs ==
  ASSUME NEW tab, IsTab(tab), NEW m \in Key, NEW given \in Seq(FieldItems), NEW rule
  PROVE  LET r == LowerFields(tab, m, given, rule)
         IN /\ r.queue \in Seq(Keys(tab))
            /\ FieldsTyped(tab, r.fields, r.queue)
            /\ ~Error(r.diags) => FieldsWhole(tab, m, given, r.fields, rule)
<1>1. PICK n \in Nat : n = Len(given) /\ DOMAIN given = 1..n
  BY LenProperties
<1> DEFINE rs == [i \in 1..n |-> LowerField(tab, m, given[i])]
           field(i) == [name |-> given[i].name, ty |-> rs[i].ty,
                        wire |-> WireName(given[i].name, given[i].attrs, rule),
                        optionality |-> FieldWireShape(given[i].ty, given[i].attrs).optionality]
           all == [i \in 1..n |-> field(i)]
           T == {f \in Range(all) : f.ty # NoType}
           r == LowerFields(tab, m, given, rule)
<1>2. \A i \in 1..n : Result(tab, rs[i]) /\ given[i] \in FieldItems
  BY <1>1, LowerFieldIs, Element
<1>3. r.fields = FlattenSeq(Pieces(all, T)) /\ r.queue = Queued(rs) /\ r.diags = Reported(rs)
  <2>1. Mapped(LAMBDA f : LowerField(tab, m, f), given) = rs
    BY <1>1 DEF Mapped
  <2>2. r = FieldsOf(given, rule, rs)
    BY <2>1 DEF LowerFields
  <2>3. [i \in DOMAIN given |-> field(i)] = all
    BY <1>1
  <2>4. Those(all, LAMBDA f : f.ty # NoType) = FlattenSeq(Pieces(all, T))
    <3>1. [i \in DOMAIN all |-> IF all[i].ty # NoType THEN <<all[i]>> ELSE <<>>] = Pieces(all, T)
      <4>1. \A i \in DOMAIN all : all[i].ty # NoType <=> all[i] \in T
        BY DEF Range
      <4> HIDE DEF all, T
      <4> QED
        BY <4>1 DEF Pieces
    <3> QED
      BY <3>1 DEF Those
  <2> HIDE DEF r, all, T, rs
  <2> QED
    BY <2>2, <2>3, <2>4 DEF FieldsOf
<1>4. DOMAIN rs = 1..n /\ all = [i \in 1..n |-> all[i]]
  OBVIOUS
<1>5. \A i \in 1..n : all[i] = field(i) /\ all[i].ty = rs[i].ty
  OBVIOUS
<1>6. \A f \in T : f \in Range(all) /\ f.ty # NoType
  OBVIOUS
<1>7. (\A f \in Range(all) : f.ty # NoType) => Range(all) \subseteq T
  OBVIOUS
<1> HIDE DEF rs, all, T, r
<1>8. r.queue \in Seq(Keys(tab)) /\ \A i \in 1..n : \A x \in Range(rs[i].queue) : x \in Range(r.queue)
  BY <1>2, <1>3, <1>4, ResultOk, QueuedIs
<1>9. IsSeq(all) /\ Len(all) = n /\ DOMAIN all = 1..n
  BY <1>4, SeqIs
<1>10. r.fields \in Seq(Range(all)) /\ Range(r.fields) = Range(all) \cap T
  BY <1>3, <1>9, Picked DEF IsSeq
<1>11. FieldsTyped(tab, r.fields, r.queue)
  <2>1. ASSUME NEW f \in Range(r.fields) PROVE TypeOk(tab, f.ty, r.queue)
    <3>1. f \in Range(all) /\ f.ty # NoType
      BY <1>6, <1>10
    <3>2. PICK i \in 1..n : f = all[i]
      BY <1>9, <3>1, RangeIs DEF IsSeq
    <3>3. f.ty = rs[i].ty
      BY <1>5, <3>2
    <3>4. TypeOk(tab, rs[i].ty, rs[i].queue)
      BY <1>2, <3>1, <3>3, ResultOk
    <3> QED
      BY <1>8, <3>3, <3>4, MoreOk
  <2> QED
    BY <1>10, <2>1, IsSeqOf DEF FieldsTyped
<1>12. ASSUME ~Error(r.diags) PROVE FieldsWhole(tab, m, given, r.fields, rule)
  <2>1. ASSUME NEW i \in 1..n
        PROVE  FieldValid(given[i]) /\ rs[i] = TypeOf(tab, m, FieldWireShape(given[i].ty, given[i].attrs).inner)
               /\ rs[i].ty # NoType
    <3>1. ~Error(rs[i].diags)
      BY <1>3, <1>4, <1>12, ReportedIs
    <3>2. rs[i] = LowerField(tab, m, given[i])
      BY DEF rs
    <3> QED
      BY <1>2, <3>1, <3>2, LowerFieldIs, ResultOk
  <2>2. \A f \in Range(all) : f.ty # NoType
    <3> SUFFICES ASSUME NEW f \in Range(all) PROVE f.ty # NoType
      OBVIOUS
    <3>1. PICK i \in 1..n : f = all[i]
      BY <1>9, RangeIs DEF IsSeq
    <3> QED
      BY <1>5, <2>1, <3>1
  <2>3. r.fields = all
    BY <1>3, <1>7, <1>9, <2>2, PickedAll DEF IsSeq
  <2>4. \A i \in 1..n : all[i] = GivenField(tab, m, given[i], rule)
    BY <1>5, <2>1 DEF GivenField
  <2> QED
    BY <1>1, <1>9, <2>1, <2>3, <2>4 DEF FieldsWhole
<1> QED
  BY <1>8, <1>11, <1>12 DEF r

-----------------------------------------------------------------------------
(* Variants and declarations.                                              *)
LEMMA PartsAre ==
  ASSUME NEW n \in Nat, NEW p, p = [i \in 1..n |-> p[i]], \A i \in 1..n : IsSeq(p[i])
  PROVE  /\ IsSeq(FlattenSeq(p))
         /\ \A x : x \in Range(FlattenSeq(p)) <=> \E i \in 1..n : x \in Range(p[i])
         /\ (\A i \in 1..n : Len(p[i]) = 1) =>
              Len(FlattenSeq(p)) = n /\ \A i \in 1..n : FlattenSeq(p)[i] = p[i][1]
<1> DEFINE X == UNION {Range(p[i]) : i \in 1..n}
<1>1. ASSUME NEW i \in 1..n PROVE p[i] \in Seq(X)
  <2>1. p[i] \in Seq(Range(p[i])) /\ Range(p[i]) \subseteq X
    BY DEF IsSeq
  <2>2. PICK R, s : R = Range(p[i]) /\ s = p[i]
    OBVIOUS
  <2>3. s \in Seq(R) /\ R \subseteq X
    BY <2>1, <2>2
  <2> HIDE DEF X
  <2>4. s \in Seq(X)
    BY ONLY <2>3
  <2> QED
    BY <2>2, <2>4
<1>2. p \in Seq(Seq(X)) /\ Len(p) = n
  <2> HIDE DEF X
  <2>1. \A i \in 1..n : p[i] \in Seq(X)
    BY <1>1
  <2>2. PICK Y : Y = Seq(X)
    OBVIOUS
  <2>3. p \in [1..n -> Y]
    BY <2>1, <2>2
  <2>4. p \in Seq(Y) /\ Len(p) = n
    BY ONLY <2>3, n \in Nat
  <2> QED
    BY <2>2, <2>4
<1> HIDE DEF X
<1>3. FlattenSeq(p) \in Seq(X)
  BY <1>2, FlatType
<1>4. \A x : x \in Range(FlattenSeq(p)) <=> \E i \in 1..n : x \in Range(p[i])
  BY <1>2, FlatRange
<1>5. (\A i \in 1..n : Len(p[i]) = 1) =>
        Len(FlattenSeq(p)) = n /\ \A i \in 1..n : FlattenSeq(p)[i] = p[i][1]
  BY <1>2, FlatSingles, ZenonT(60)
<1> QED
  BY <1>3, <1>4, <1>5, IsSeqOf

DeclTyped(tab, d, line) ==
  IsSeq(d.variants) /\ \A v \in Range(d.variants) : FieldsTyped(tab, v.fields, line)

VariantWhole(tab, m, v, x, attrs) ==
  /\ x.name = v.name /\ x.wire = WireName(v.name, v.attrs, attrs.all)
  /\ FieldsWhole(tab, m, v.fields, x.fields, FieldRule(v.attrs, attrs))

LEMMA MoreFields ==
  ASSUME NEW tab, NEW fields, NEW line, NEW more, FieldsTyped(tab, fields, line),
         \A x \in Range(line) : x \in Range(more)
  PROVE  FieldsTyped(tab, fields, more)
  BY MoreOk DEF FieldsTyped

LEMMA LowerVariantIs ==
  ASSUME NEW tab, IsTab(tab), NEW m \in Key, NEW v \in VariantItems, NEW attrs, NEW is_error
  PROVE  LET r == LowerVariant(tab, m, v, attrs, is_error)
         IN /\ r.queue \in Seq(Keys(tab)) /\ IsSeq(r.variant)
            /\ \A x \in Range(r.variant) : FieldsTyped(tab, x.fields, r.queue)
            /\ ~Error(r.diags) => Len(r.variant) = 1 /\ VariantWhole(tab, m, v, r.variant[1], attrs)
<1> DEFINE r == LowerVariant(tab, m, v, attrs, is_error)
           fs == LowerFields(tab, m, v.fields, FieldRule(v.attrs, attrs))
           refused == [variant |-> <<>>, queue |-> <<>>, diags |-> {Err("invalid-api-item")}]
           x == [name |-> v.name, wire |-> WireName(v.name, v.attrs, attrs.all), fields |-> fs.fields]
<1>1. CASE r = refused
  <2>1. r.queue = <<>> /\ r.variant = <<>> /\ Error(r.diags)
    <3> HIDE DEF r
    <3>1. r.queue = <<>> /\ r.variant = <<>> /\ r.diags = {Err("invalid-api-item")}
      BY <1>1
    <3> QED
      BY <3>1 DEF Error, Err
  <2>2. <<>> \in Seq(Keys(tab)) /\ IsSeq(<<>>) /\ Range(<<>>) = {}
    BY EmptySeq, RangeOfNone DEF IsSeq
  <2> QED
    BY <2>1, <2>2
<1>2. CASE r = VariantOf(v, attrs.all, fs)
  <2>1. r.variant = <<x>> /\ r.queue = fs.queue /\ r.diags = fs.diags
    BY <1>2 DEF VariantOf
  <2>2. v.fields \in Seq(FieldItems)
    BY DEF VariantItems
  <2>3. /\ fs.queue \in Seq(Keys(tab)) /\ FieldsTyped(tab, fs.fields, fs.queue)
        /\ ~Error(fs.diags) => FieldsWhole(tab, m, v.fields, fs.fields, FieldRule(v.attrs, attrs))
    BY <2>2, LowerFieldsIs
  <2>4. x.fields = fs.fields /\ x.name = v.name /\ x.wire = WireName(v.name, v.attrs, attrs.all)
    OBVIOUS
  <2> HIDE DEF x, r, fs
  <2>5. PICK X : X = {x}
    OBVIOUS
  <2>6. <<x>> \in Seq(X) /\ Len(<<x>>) = 1 /\ <<x>>[1] = x /\ Range(<<x>>) = {x}
    BY <2>5, Single
  <2>7. IsSeq(<<x>>)
    BY <2>5, <2>6 DEF IsSeq
  <2> QED
    BY <2>1, <2>3, <2>4, <2>6, <2>7 DEF VariantWhole, r
<1> QED
  BY <1>1, <1>2 DEF LowerVariant

EnumWhole(tab, m, item, d) ==
  /\ Len(d.variants) = Len(item.variants)
  /\ \A i \in 1..Len(item.variants) : VariantWhole(tab, m, item.variants[i], d.variants[i], item.attrs)

StructWhole(tab, m, item, d) ==
  LET given == item.variants[1].fields
  IN /\ Len(d.variants) = 1
     /\ FieldsWhole(tab, m, given, d.variants[1].fields, item.attrs.all)

NewtypeWhole(tab, m, item, d) ==
  LET given == item.variants[1].fields
      fields == d.variants[1].fields
  IN /\ Len(d.variants) = 1 /\ Len(given) = 1 /\ Len(fields) = 1
     /\ fields[1].ty = TypeOf(tab, m, given[1].ty).ty /\ fields[1].optionality = "required"

DeclMade(tab, m, item, d) ==
  /\ d.shape \in {"struct", "newtype", "type", "error"}
  /\ d.shape \in {"type", "error"} => /\ item.kind \in {"enum", "error"}
                                      /\ EnumWhole(tab, m, item, d)
  /\ d.shape \in {"struct", "newtype"} => /\ item.kind \in {"struct", "newtype"}
                                          /\ Len(item.variants) = 1
  /\ d.shape = "struct" => StructWhole(tab, m, item, d)
  /\ d.shape = "newtype" => NewtypeWhole(tab, m, item, d)

DeclResult(tab, m, item, id, r) ==
  /\ r.decl.id = id
  /\ r.queue \in Seq(Keys(tab))
  /\ DeclTyped(tab, r.decl, r.queue)
  /\ ~Error(r.diags) => DeclMade(tab, m, item, r.decl)

LEMMA NoVariants == IsSeq(<<>>) /\ Range(<<>>) = {}
  BY EmptySeq, RangeOfNone DEF IsSeq

LEMMA RefusedResult ==
  ASSUME NEW tab, NEW m, NEW item, NEW id
  PROVE  DeclResult(tab, m, item, id, Refused(id))
<1>1. /\ Refused(id).decl.id = id /\ Refused(id).decl.variants = <<>>
      /\ Refused(id).queue = <<>> /\ Error(Refused(id).diags)
  BY DEF Refused, Placeholder, Error, Err
<1>2. <<>> \in Seq(Keys(tab))
  BY EmptySeq
<1> QED
  BY <1>1, <1>2, NoVariants DEF DeclResult, DeclTyped

LEMMA EnumResult ==
  ASSUME NEW tab, IsTab(tab), NEW m \in Key, NEW item \in DeclItems, NEW id,
         item.kind \in {"enum", "error"}, id.ns \in {"type", "error"}
  PROVE  DeclResult(tab, m, item, id, LowerEnum(tab, m, item, id))
<1>1. PICK given : given = item.variants
  OBVIOUS
<1>2. PICK n \in Nat : n = Len(given) /\ DOMAIN given = 1..n
  <2>1. given \in Seq(VariantItems)
    BY <1>1 DEF DeclItems
  <2> QED
    BY <2>1, LenProperties
<1> DEFINE rs == [i \in 1..n |-> LowerVariant(tab, m, given[i], item.attrs, id.ns = "error")]
           parts == [i \in 1..n |-> rs[i].variant]
           r == EnumOf(id, rs)
<1>3. ASSUME NEW i \in 1..n
      PROVE  /\ rs[i].queue \in Seq(Keys(tab)) /\ IsSeq(rs[i].variant)
             /\ \A x \in Range(rs[i].variant) : FieldsTyped(tab, x.fields, rs[i].queue)
             /\ ~Error(rs[i].diags) =>
                  Len(rs[i].variant) = 1 /\ VariantWhole(tab, m, given[i], rs[i].variant[1], item.attrs)
  <2>1. given[i] \in VariantItems
    <3>1. given \in Seq(VariantItems)
      BY <1>1 DEF DeclItems
    <3> QED
      BY <1>2, <3>1, Element
  <2> QED
    BY <2>1, LowerVariantIs
<1>4. LowerEnum(tab, m, item, id) = IF ~ValidEnum(item.attrs) THEN Refused(id) ELSE r
  <2>1. Mapped(LAMBDA v : LowerVariant(tab, m, v, item.attrs, id.ns = "error"), item.variants) = rs
    BY <1>1, <1>2 DEF Mapped
  <2> HIDE DEF rs
  <2> QED
    BY <2>1 DEF LowerEnum
<1>5. /\ r.decl.id = id /\ r.decl.shape = id.ns /\ r.decl.variants = FlattenSeq(parts)
      /\ r.queue = Queued(rs) /\ r.diags = Reported(rs)
  <2>1. [i \in DOMAIN rs |-> rs[i].variant] = parts
    OBVIOUS
  <2> HIDE DEF rs, parts
  <2> QED
    BY <2>1 DEF EnumOf
<1>6. DOMAIN rs = 1..n /\ parts = [i \in 1..n |-> parts[i]] /\ \A i \in 1..n : parts[i] = rs[i].variant
  OBVIOUS
<1> HIDE DEF rs, parts, r
<1>7. r.queue \in Seq(Keys(tab)) /\ \A i \in 1..n : \A x \in Range(rs[i].queue) : x \in Range(r.queue)
  BY <1>3, <1>5, <1>6, QueuedIs
<1>8. /\ IsSeq(FlattenSeq(parts))
      /\ \A x : x \in Range(FlattenSeq(parts)) <=> \E i \in 1..n : x \in Range(parts[i])
      /\ (\A i \in 1..n : Len(parts[i]) = 1) =>
           Len(FlattenSeq(parts)) = n /\ \A i \in 1..n : FlattenSeq(parts)[i] = parts[i][1]
  BY <1>3, <1>6, PartsAre, ZenonT(60)
<1>9. DeclTyped(tab, r.decl, r.queue)
  <2>1. ASSUME NEW x \in Range(FlattenSeq(parts)) PROVE FieldsTyped(tab, x.fields, r.queue)
    <3>1. PICK i \in 1..n : x \in Range(rs[i].variant)
      BY <1>6, <1>8
    <3>2. FieldsTyped(tab, x.fields, rs[i].queue)
      BY <1>3, <3>1
    <3> QED
      BY <1>7, <3>2, MoreFields
  <2> QED
    BY <1>5, <1>8, <2>1 DEF DeclTyped
<1>10. ASSUME ~Error(r.diags) PROVE DeclMade(tab, m, item, r.decl)
  <2>1. ASSUME NEW i \in 1..n
        PROVE  Len(parts[i]) = 1 /\ VariantWhole(tab, m, given[i], parts[i][1], item.attrs)
    <3>1. ~Error(rs[i].diags)
      BY <1>5, <1>6, <1>10, ReportedIs
    <3> QED
      BY <1>3, <1>6, <3>1
  <2>2. Len(r.decl.variants) = n /\ \A i \in 1..n : r.decl.variants[i] = parts[i][1]
    BY <1>5, <1>8, <2>1
  <2>3. EnumWhole(tab, m, item, r.decl)
    BY <1>1, <1>2, <2>1, <2>2 DEF EnumWhole
  <2> QED
    BY <1>5, <2>3 DEF DeclMade
<1>11. DeclResult(tab, m, item, id, r)
  BY <1>5, <1>7, <1>9, <1>10 DEF DeclResult
<1> QED
  BY <1>4, <1>11, RefusedResult

LEMMA StructResult ==
  ASSUME NEW tab, IsTab(tab), NEW m \in Key, NEW item \in DeclItems, NEW id,
         item.kind \in {"struct", "newtype", "tuple"}, OneOf(item)
  PROVE  DeclResult(tab, m, item, id, LowerStruct(tab, m, item, id))
<1>1. PICK given : given = item.variants[1].fields
  OBVIOUS
<1>2. Len(item.variants) = 1 /\ given \in Seq(FieldItems)
  <2>1. Len(item.variants) = 1 /\ item.variants \in Seq(VariantItems)
    BY DEF OneOf, DeclItems
  <2>2. item.variants[1] \in VariantItems
    BY <2>1
  <2> QED
    BY <1>1, <2>1, <2>2 DEF VariantItems
<1> DEFINE transparent == "transparent" \in item.attrs.flags
           sr == StructOf(id, LowerFields(tab, m, given, item.attrs.all))
           nr == NewtypeOf(id, TypeOf(tab, m, given[1].ty))
<1>3. /\ item.kind = "newtype" \/ transparent => Len(given) = 1 \/ LowerStruct(tab, m, item, id) = Refused(id)
      /\ LowerStruct(tab, m, item, id) \in {Refused(id), nr, sr}
      /\ LowerStruct(tab, m, item, id) = nr => LowerStruct(tab, m, item, id) \in {Refused(id), sr} \/ Len(given) = 1
      /\ item.kind = "tuple" => LowerStruct(tab, m, item, id) = Refused(id)
  <2>1. item.kind = "newtype" => Len(given) = 1
    BY <1>1 DEF OneOf
  <2> HIDE DEF nr, sr
  <2> QED
    BY <1>1, <2>1 DEF LowerStruct, LowerNewtype, nr, sr
<1> HIDE DEF transparent
<1>4. ASSUME item.kind # "tuple" PROVE DeclResult(tab, m, item, id, sr)
  <2> DEFINE fs == LowerFields(tab, m, given, item.attrs.all)
             x == [name |-> NoName, wire |-> NoName, fields |-> fs.fields]
  <2>1. /\ sr.decl.id = id /\ sr.decl.shape = "struct" /\ sr.decl.variants = <<x>>
        /\ sr.queue = fs.queue /\ sr.diags = fs.diags
    BY DEF StructOf
  <2>2. /\ fs.queue \in Seq(Keys(tab)) /\ FieldsTyped(tab, fs.fields, fs.queue)
        /\ ~Error(fs.diags) => FieldsWhole(tab, m, given, fs.fields, item.attrs.all)
    BY <1>2, LowerFieldsIs
  <2>3. x.fields = fs.fields
    OBVIOUS
  <2> HIDE DEF sr, fs, x
  <2>4. PICK X : X = {x}
    OBVIOUS
  <2>5. <<x>> \in Seq(X) /\ Len(<<x>>) = 1 /\ <<x>>[1] = x /\ Range(<<x>>) = {x}
    BY <2>4, Single
  <2>6. IsSeq(<<x>>)
    BY <2>4, <2>5 DEF IsSeq
  <2>7. DeclTyped(tab, sr.decl, sr.queue)
    BY <2>1, <2>2, <2>3, <2>5, <2>6 DEF DeclTyped
  <2>8. ~Error(sr.diags) => StructWhole(tab, m, item, sr.decl)
    BY <1>1, <2>1, <2>2, <2>3, <2>5 DEF StructWhole
  <2>9. ~Error(sr.diags) => DeclMade(tab, m, item, sr.decl)
    BY <1>2, <1>4, <2>1, <2>8 DEF DeclMade
  <2> QED
    BY <2>1, <2>2, <2>7, <2>9 DEF DeclResult
<1>5. ASSUME Len(given) = 1, item.kind # "tuple" PROVE DeclResult(tab, m, item, id, nr)
  <2> DEFINE t == TypeOf(tab, m, given[1].ty)
             f == [name |-> NoName, wire |-> NoName, ty |-> t.ty, optionality |-> "required"]
             x == [name |-> NoName, wire |-> NoName, fields |-> <<f>>]
  <2>1. Result(tab, t)
    <3>1. given[1] \in FieldItems
      BY <1>2, <1>5
    <3> QED
      BY <3>1, TypeOfType DEF FieldItems
  <2>2. /\ nr.decl.id = id /\ nr.queue = t.queue /\ nr.diags = t.diags
        /\ t.ty = NoType => nr.decl.variants = <<>>
        /\ t.ty # NoType => nr.decl.shape = "newtype" /\ nr.decl.variants = <<x>>
    BY DEF NewtypeOf, Placeholder
  <2>3. x.fields = <<f>> /\ f.ty = t.ty /\ f.optionality = "required"
    OBVIOUS
  <2> HIDE DEF nr, t, f, x
  <2>4. nr.queue \in Seq(Keys(tab)) /\ (t.ty # NoType => TypeOk(tab, t.ty, t.queue))
        /\ (t.ty = NoType => Error(t.diags))
    BY <2>1, <2>2, ResultOk
  <2>5. CASE t.ty = NoType
    BY <2>2, <2>4, <2>5, NoVariants DEF DeclResult, DeclTyped
  <2>6. CASE t.ty # NoType
    <3>1. PICK X, F : X = {x} /\ F = {f}
      OBVIOUS
    <3>2. /\ <<x>> \in Seq(X) /\ Len(<<x>>) = 1 /\ <<x>>[1] = x /\ Range(<<x>>) = {x}
          /\ <<f>> \in Seq(F) /\ Len(<<f>>) = 1 /\ <<f>>[1] = f /\ Range(<<f>>) = {f}
      BY <3>1, Single
    <3>3. IsSeq(<<x>>) /\ IsSeq(<<f>>)
      BY <3>1, <3>2 DEF IsSeq
    <3>4. FieldsTyped(tab, <<f>>, nr.queue)
      BY <2>2, <2>3, <2>4, <2>6, <3>2, <3>3 DEF FieldsTyped
    <3>5. DeclTyped(tab, nr.decl, nr.queue)
      BY <2>2, <2>3, <2>6, <3>2, <3>3, <3>4 DEF DeclTyped
    <3>6. NewtypeWhole(tab, m, item, nr.decl)
      BY <1>1, <1>5, <2>2, <2>3, <2>6, <3>2 DEF NewtypeWhole, t
    <3>7. DeclMade(tab, m, item, nr.decl)
      BY <1>2, <1>5, <2>2, <2>6, <3>6 DEF DeclMade
    <3> QED
      BY <2>2, <2>4, <3>5, <3>7 DEF DeclResult
  <2> QED
    BY <2>5, <2>6
<1> HIDE DEF nr, sr
<1> QED
  BY <1>3, <1>4, <1>5, RefusedResult

LEMMA LowerDeclIs ==
  ASSUME NEW tab, IsTab(tab), NEW m \in DOMAIN tab, NEW item \in Range(tab[m].items),
         ApiItemKind(item) # "none", item.kind # "error struct"
  PROVE  DeclResult(tab, m, item, Id(ApiItemKind(item), m, item.name), LowerDecl(tab, m, item))
<1>1. m \in Key /\ item \in Items /\ (item \in DeclItems => OneOf(item))
  BY FindItemIs DEF IsTab
<1>2. item.kind \in {"struct", "newtype", "tuple", "enum", "error"}
  BY DEF ApiItemKind
<1>3. item \in DeclItems
  BY <1>1, <1>2 DEF Items, EndpointFns, RouterFns
<1>4. PICK id : id = Id(ApiItemKind(item), m, item.name)
  OBVIOUS
<1>5. id.ns \in {"type", "error"}
  BY <1>4 DEF Id, ApiItemKind
<1>6. DeclResult(tab, m, item, id, Refused(id))
  BY RefusedResult
<1>7. ASSUME item.kind \in {"enum", "error"}
      PROVE  DeclResult(tab, m, item, id, LowerEnum(tab, m, item, id))
  BY ONLY <1>1, <1>3, <1>5, <1>7, IsTab(tab), EnumResult
<1>8. ASSUME item.kind \notin {"enum", "error"}
      PROVE  DeclResult(tab, m, item, id, LowerStruct(tab, m, item, id))
  <2>1. item.kind \in {"struct", "newtype", "tuple"}
    BY <1>2, <1>8
  <2> QED
    BY ONLY <1>1, <1>3, <2>1, IsTab(tab), StructResult
<1> QED
  BY <1>4, <1>6, <1>7, <1>8 DEF LowerDecl

-----------------------------------------------------------------------------
(* Parameters.                                                             *)
ScalarType(ty) == ty.wraps = <<>> /\ ty.kind \in {"primitive", "external"}

LEMMA ScalarIs ==
  ASSUME NEW tab, NEW r, Result(tab, r)
  PROVE  Result(tab, Scalar(r)) /\ (Scalar(r).ty # NoType => ScalarType(Scalar(r).ty))
<1>a. PICK code : code = Err("invalid-param-type")
  OBVIOUS
<1>b. code \in Reports /\ code.error
  BY <1>a DEF Reports, Codes, Err
<1> DEFINE bad == [ty |-> NoType, queue |-> r.queue, diags |-> r.diags \cup {code}]
<1>1. r.queue \in Seq(Keys(tab)) /\ r.diags \subseteq Reports
  BY DEF Result
<1>3. r.diags \cup {code} \in SUBSET Reports /\ Error(r.diags \cup {code})
  BY <1>1, <1>b DEF Error
<1>4. Refers(tab, NoType, r.queue)
  BY NoTypeIs DEF Refers
<1>5. Result(tab, bad) /\ bad.ty = NoType
  BY <1>1, <1>3, <1>4, NoTypeIs, ResultIs
<1> HIDE DEF bad
<1>6. Scalar(r) \in {r, bad} /\ (Scalar(r) = bad \/ r.ty = NoType \/ ScalarType(r.ty))
  BY <1>a DEF Scalar, bad, ScalarType
<1> QED
  BY <1>5, <1>6

LEMMA LowerScalarIs ==
  ASSUME NEW tab, IsTab(tab), NEW m \in Key, NEW ty \in TypeTexts
  PROVE  /\ Result(tab, LowerScalar(tab, m, ty))
         /\ LowerScalar(tab, m, ty).ty # NoType => ScalarType(LowerScalar(tab, m, ty).ty)
  BY TypeOfType, ScalarIs DEF LowerScalar

ParamsTyped(params) == IsSeq(params) /\ \A p \in Range(params) : ScalarType(p.ty)

ParamResult(tab, r) == r.queue \in Seq(Keys(tab)) /\ ParamsTyped(r.params)

LEMMA NoParamsResult ==
  ASSUME NEW tab, NEW code
  PROVE  ParamResult(tab, NoParams(code)) /\ Error(NoParams(code).diags)
<1>1. <<>> \in Seq(Keys(tab))
  BY EmptySeq
<1> QED
  BY <1>1, NoVariants DEF NoParams, ParamResult, ParamsTyped, Error, Err

LEMMA ParamOfIs ==
  ASSUME NEW tab, NEW name, NEW required, NEW r, Result(tab, r), r.ty # NoType => ScalarType(r.ty)
  PROVE  /\ ParamResult(tab, ParamOf(name, required, r))
         /\ ~Error(ParamOf(name, required, r).diags) => Len(ParamOf(name, required, r).params) = 1
<1> DEFINE p == [name |-> name, ty |-> r.ty, required |-> required]
<1>1. /\ ParamOf(name, required, r).queue = r.queue /\ ParamOf(name, required, r).diags = r.diags
      /\ ParamOf(name, required, r).params = IF r.ty = NoType THEN <<>> ELSE <<p>>
  BY DEF ParamOf
<1>2. p.ty = r.ty
  OBVIOUS
<1> HIDE DEF p
<1>3. PICK X : X = {p}
  OBVIOUS
<1>4. <<p>> \in Seq(X) /\ Len(<<p>>) = 1 /\ Range(<<p>>) = {p}
  BY <1>3, Single
<1>5. IsSeq(<<p>>)
  BY <1>3, <1>4 DEF IsSeq
<1>6. r.queue \in Seq(Keys(tab)) /\ (r.ty = NoType => Error(r.diags))
  BY ResultOk
<1> QED
  BY <1>1, <1>2, <1>4, <1>5, <1>6, NoVariants DEF ParamResult, ParamsTyped

LEMMA QueryFieldIs ==
  ASSUME NEW tab, IsTab(tab), NEW m \in Key, NEW f \in FieldItems, NEW rule
  PROVE  ParamResult(tab, LowerQueryField(tab, m, f, rule))
<1>1. FieldWireShape(f.ty, f.attrs).inner \in TypeTexts
  BY InnerText DEF FieldItems
<1>2. PICK r : r = LowerScalar(tab, m, FieldWireShape(f.ty, f.attrs).inner)
  OBVIOUS
<1>3. Result(tab, r) /\ (r.ty # NoType => ScalarType(r.ty))
  BY <1>1, <1>2, LowerScalarIs
<1>4. \A name, required : ParamResult(tab, ParamOf(name, required, r))
  BY <1>3, ParamOfIs
<1>5. ParamResult(tab, NoParams("invalid-api-item"))
  BY NoParamsResult
<1> QED
  BY <1>2, <1>4, <1>5 DEF LowerQueryField

LEMMA QueryOfIs ==
  ASSUME NEW tab, NEW n \in Nat, NEW rs, DOMAIN rs = 1..n, \A i \in 1..n : ParamResult(tab, rs[i])
  PROVE  ParamResult(tab, QueryOf(rs))
<1> DEFINE parts == [i \in 1..n |-> rs[i].params]
<1>1. QueryOf(rs).params = FlattenSeq(parts) /\ QueryOf(rs).queue = Queued(rs)
  BY DEF QueryOf
<1>2. parts = [i \in 1..n |-> parts[i]] /\ \A i \in 1..n : parts[i] = rs[i].params
  OBVIOUS
<1> HIDE DEF parts
<1>3. \A i \in 1..n : IsSeq(parts[i]) /\ \A p \in Range(parts[i]) : ScalarType(p.ty)
  BY <1>2 DEF ParamResult, ParamsTyped
<1>4. IsSeq(FlattenSeq(parts)) /\ \A x : x \in Range(FlattenSeq(parts)) <=> \E i \in 1..n : x \in Range(parts[i])
  BY <1>2, <1>3, PartsAre
<1>5. \A i \in 1..n : rs[i].queue \in Seq(Keys(tab))
  BY DEF ParamResult
<1>6. Queued(rs) \in Seq(Keys(tab))
  BY <1>5, QueuedIs
<1> QED
  BY <1>1, <1>3, <1>4, <1>6 DEF ParamResult, ParamsTyped

LEMMA QueryItemIs ==
  ASSUME NEW tab, IsTab(tab), NEW m \in Key, NEW item \in Items, item \in DeclItems => OneOf(item)
  PROVE  ParamResult(tab, LowerQueryItem(tab, m, item))
<1>1. ASSUME item.kind \in {"struct", "plain", "error struct"}
      PROVE  ParamResult(tab, QueryOf(Mapped(LAMBDA f : LowerQueryField(tab, m, f, item.attrs.all),
                                             item.variants[1].fields)))
  <2>1. item \in DeclItems
    BY <1>1 DEF Items, EndpointFns, RouterFns
  <2>2. Len(item.variants) = 1 /\ item.variants \in Seq(VariantItems)
    BY <1>1, <2>1 DEF OneOf, DeclItems
  <2>3. item.variants[1] \in VariantItems
    BY <2>2
  <2>4. PICK given : given = item.variants[1].fields
    OBVIOUS
  <2>5. given \in Seq(FieldItems)
    BY <2>3, <2>4 DEF VariantItems
  <2>6. PICK n \in Nat : n = Len(given) /\ DOMAIN given = 1..n
    BY <2>5, LenProperties
  <2> DEFINE rs == [i \in 1..n |-> LowerQueryField(tab, m, given[i], item.attrs.all)]
  <2>7. Mapped(LAMBDA f : LowerQueryField(tab, m, f, item.attrs.all), given) = rs
    BY <2>6 DEF Mapped
  <2>8. DOMAIN rs = 1..n /\ \A i \in 1..n : ParamResult(tab, rs[i])
    BY <2>5, <2>6, QueryFieldIs, Element
  <2> HIDE DEF rs
  <2>9. ParamResult(tab, QueryOf(rs))
    BY <2>8, QueryOfIs
  <2> QED
    BY <2>4, <2>7, <2>9
<1> QED
  BY <1>1, NoParamsResult DEF LowerQueryItem

LEMMA ResolveNamedIs ==
  ASSUME NEW tab, IsTab(tab), NEW m \in Key, NEW ty \in TypeTexts
  PROVE  LET at == ResolveNamed(tab, m, ty)
         IN at # Unknown =>
              /\ at \in Entities(tab) /\ at.e = "item" /\ at.at \in Key
              /\ ItemAt(tab, at) \in Items /\ (ItemAt(tab, at) \in DeclItems => OneOf(ItemAt(tab, at)))
<1>1. ResolvePath(tab, m, ty.path) \in Entities(tab)
  BY ResolvePathType DEF TypeTexts
<1>2. PICK at : at = ResolveNamed(tab, m, ty)
  OBVIOUS
<1>3. at # Unknown => at \in Entities(tab) /\ at.e = "item"
  BY <1>1, <1>2 DEF ResolveNamed, ItemOnly
<1>4. ASSUME at # Unknown
      PROVE  at.at \in Key /\ ItemAt(tab, at) \in Items /\ (ItemAt(tab, at) \in DeclItems => OneOf(ItemAt(tab, at)))
  <2>1. at.at \in DOMAIN tab /\ DeclaresItem(tab[at.at], at.name)
    BY <1>3, <1>4 DEF Entities
  <2>2. ItemAt(tab, at) \in Range(tab[at.at].items)
    BY <2>1, FoundItem DEF ItemAt
  <2> QED
    BY <2>1, <2>2, FindItemIs DEF IsTab
<1> QED
  BY <1>2, <1>3, <1>4

LEMMA QueryStructIs ==
  ASSUME NEW tab, IsTab(tab), NEW m \in Key, NEW ty \in TypeTexts
  PROVE  ParamResult(tab, LowerQueryStruct(tab, ResolveNamed(tab, m, ty)))
<1>1. PICK at : at = ResolveNamed(tab, m, ty)
  OBVIOUS
<1>2. at # Unknown => ParamResult(tab, LowerQueryItem(tab, at.at, ItemAt(tab, at)))
  BY <1>1, ResolveNamedIs, QueryItemIs
<1> QED
  BY <1>1, <1>2, NoParamsResult DEF LowerQueryStruct, ItemAt

LEMMA ErrorRefIs ==
  ASSUME NEW tab, IsTab(tab), NEW m \in Key, NEW ty \in TypeTexts
  PROVE  LET r == LowerErrorRef(tab, ResolveNamed(tab, m, ty))
         IN Result(tab, r) /\ r.ty.kind \in {"none", "error"}
<1>1. PICK at : at = ResolveNamed(tab, m, ty)
  OBVIOUS
<1>2. Result(tab, Failed("unresolved-type")) /\ Result(tab, Failed("invalid-error-type"))
      /\ Failed("unresolved-type").ty.kind = "none" /\ Failed("invalid-error-type").ty.kind = "none"
  BY FailedResult, NoTypeIs DEF Codes
<1>3. ASSUME at # Unknown, ApiItemKind(ItemAt(tab, at)) = "error"
      PROVE  LET r == [Lowered("error", at.at, at.name) EXCEPT !.queue = <<at>>]
             IN Result(tab, r) /\ r.ty.kind = "error"
  <2>1. at \in Entities(tab) /\ at.e = "item"
    BY <1>1, <1>3, ResolveNamedIs
  <2>2. at \in Keys(tab) /\ at = Item(at.at, at.name) /\ at.at \in Path /\ at.name \in Identifier
    BY <1>3, <2>1 DEF Keys, Entities, Item
  <2>3. <<at>> \in Seq(Keys(tab)) /\ Range(<<at>>) = {at}
    BY <2>2, Single
  <2>4. PICK t : t = [wraps |-> <<>>, kind |-> "error", at |-> at.at, name |-> at.name]
    OBVIOUS
  <2>5. t \in TypeRecs /\ t.kind = "error" /\ t.at = at.at /\ t.name = at.name
    BY <2>2, <2>4, EmptySeq DEF TypeRecs
  <2>6. t # NoType
    BY <2>5, NoTypeIs
  <2>7. Refers(tab, t, <<at>>)
    BY <1>3, <2>2, <2>3, <2>5 DEF Refers, ItemAt
  <2>8. Result(tab, [ty |-> t, queue |-> <<at>>, diags |-> {}])
    BY <2>3, <2>5, <2>6, <2>7, ResultIs
  <2>9. [Lowered("error", at.at, at.name) EXCEPT !.queue = <<at>>] = [ty |-> t, queue |-> <<at>>, diags |-> {}]
    BY <2>4, LoweredIs
  <2> QED
    BY <2>5, <2>8, <2>9
<1> QED
  BY <1>1, <1>2, <1>3 DEF LowerErrorRef, ItemAt

-----------------------------------------------------------------------------
(* Endpoints.                                                              *)
LEMMA PartsCount ==
  ASSUME NEW n \in Nat, NEW p, p = [i \in 1..n |-> p[i]], NEW w, w \in [1..n -> {0, 1}],
         \A i \in 1..n : IsSeq(p[i]) /\ Len(p[i]) = w[i]
  PROVE  Len(FlattenSeq(p)) = Cardinality({i \in 1..n : w[i] = 1})
<1> DEFINE X == UNION {Range(p[i]) : i \in 1..n}
<1>1. ASSUME NEW i \in 1..n PROVE p[i] \in Seq(X)
  <2>1. p[i] \in Seq(Range(p[i])) /\ Range(p[i]) \subseteq X
    BY DEF IsSeq
  <2>2. PICK R, s : R = Range(p[i]) /\ s = p[i]
    OBVIOUS
  <2>3. s \in Seq(R) /\ R \subseteq X
    BY <2>1, <2>2
  <2> HIDE DEF X
  <2>4. s \in Seq(X)
    BY ONLY <2>3
  <2> QED
    BY <2>2, <2>4
<1>2. p \in Seq(Seq(X)) /\ Len(p) = n
  <2> HIDE DEF X
  <2>1. \A i \in 1..n : p[i] \in Seq(X)
    BY <1>1
  <2>2. PICK Y : Y = Seq(X)
    OBVIOUS
  <2>3. p \in [1..n -> Y]
    BY <2>1, <2>2
  <2>4. p \in Seq(Y) /\ Len(p) = n
    BY ONLY <2>3, n \in Nat
  <2> QED
    BY <2>2, <2>4
<1> HIDE DEF X
<1> QED
  BY <1>2, FlatCount, SMTT(30)

LEMMA OfKinds ==
  ASSUME NEW s \in Seq(ParamItems), NEW kinds
  PROVE  Len(Those(s, LAMBDA p : p.kind \in kinds)) = Cardinality({i \in 1..Len(s) : s[i].kind \in kinds})
<1> DEFINE T == {p \in ParamItems : p.kind \in kinds}
<1>1. \A i \in DOMAIN s : s[i].kind \in kinds <=> s[i] \in T
  BY Element
<1>2. DOMAIN s = 1..Len(s)
  BY LenProperties
<1>3. [i \in DOMAIN s |-> IF s[i].kind \in kinds THEN <<s[i]>> ELSE <<>>] = Pieces(s, T)
  <2> HIDE DEF T
  <2> QED
    BY <1>1 DEF Pieces
<1>4. {i \in 1..Len(s) : s[i] \in T} = {i \in 1..Len(s) : s[i].kind \in kinds}
  <2> HIDE DEF T
  <2> QED
    BY <1>1, <1>2
<1> HIDE DEF T
<1> QED
  BY <1>3, <1>4, PickedCount DEF Those

LEMMA OfKind ==
  ASSUME NEW s \in Seq(ParamItems), NEW kind
  PROVE  Len(Those(s, LAMBDA p : p.kind = kind)) = Cardinality({i \in 1..Len(s) : s[i].kind = kind})
<1> DEFINE T == {p \in ParamItems : p.kind = kind}
<1>1. \A i \in DOMAIN s : s[i].kind = kind <=> s[i] \in T
  BY Element
<1>2. DOMAIN s = 1..Len(s)
  BY LenProperties
<1>3. [i \in DOMAIN s |-> IF s[i].kind = kind THEN <<s[i]>> ELSE <<>>] = Pieces(s, T)
  <2> HIDE DEF T
  <2> QED
    BY <1>1 DEF Pieces
<1>4. {i \in 1..Len(s) : s[i] \in T} = {i \in 1..Len(s) : s[i].kind = kind}
  <2> HIDE DEF T
  <2> QED
    BY <1>1, <1>2
<1> HIDE DEF T
<1> QED
  BY <1>3, <1>4, PickedCount DEF Those

\* At most one parameter is of a body.
LEMMA OneBody ==
  ASSUME NEW e \in EndpointFns, ValidParams(e), NEW i \in DOMAIN e.params, NEW j \in DOMAIN e.params,
         e.params[i].kind \in Bodies, e.params[j].kind \in Bodies
  PROVE  i = j
<1> DEFINE S == {k \in 1..Len(e.params) : e.params[k].kind \in Bodies}
<1>1. e.params \in Seq(ParamItems)
  BY DEF EndpointFns
<1>2. Len(e.params) \in Nat /\ DOMAIN e.params = 1..Len(e.params)
  BY <1>1, LenProperties
<1>3. Cardinality(S) <= 1
  BY <1>1, OfKinds DEF ValidParams
<1>4. IsFiniteSet(S) /\ i \in S /\ j \in S
  <2>1. IsFiniteSet(1..Len(e.params))
    BY <1>2, FS_Interval
  <2>2. S \subseteq 1..Len(e.params)
    OBVIOUS
  <2>3. IsFiniteSet(S)
    BY <2>1, <2>2, FS_Subset
  <2> QED
    BY <1>2, <2>3
<1> HIDE DEF S
<1>5. ASSUME i # j PROVE FALSE
  <2>1. Cardinality({i, j}) = 2
    <3>1. Cardinality({i}) = 1 /\ IsFiniteSet({i})
      BY FS_Singleton
    <3>2. PICK T : T = {i} /\ IsFiniteSet(T) /\ Cardinality(T) = 1
      BY <3>1
    <3>3. j \notin T
      BY <1>5, <3>2
    <3>4. Cardinality(T \cup {j}) = Cardinality(T) + 1
      BY <3>2, <3>3, FS_AddElement
    <3>5. T \cup {j} = {i, j}
      BY <3>2
    <3> QED
      BY <3>2, <3>4, <3>5
  <2>2. {i, j} \subseteq S
    BY <1>4
  <2>3. Cardinality({i, j}) <= Cardinality(S) /\ Cardinality(S) \in Nat
    BY <1>4, <2>2, FS_Subset, FS_CardinalityType
  <2> QED
    BY <1>3, <2>1, <2>3
<1> QED
  BY <1>5
LEMMA LowerParamIs ==
  ASSUME NEW tab, IsTab(tab), NEW m \in Key, NEW p \in ParamItems
  PROVE  LET r == LowerParam(tab, m, p)
         IN /\ r.queue \in Seq(Keys(tab))
            /\ p.kind \in {"path", "query"} => ParamsTyped(r.params)
            /\ p.kind = "path" /\ ~Error(r.diags) => Len(r.params) = 1
            /\ p.kind = "body" => Result(tab, r)
<1>1. p.ty \in TypeTexts
  BY DEF ParamItems
<1>2. CASE p.kind = "query"
  <2>1. LowerParam(tab, m, p) = LowerQueryStruct(tab, ResolveNamed(tab, m, p.ty))
    BY <1>2 DEF LowerParam
  <2>2. ParamResult(tab, LowerQueryStruct(tab, ResolveNamed(tab, m, p.ty)))
    BY <1>1, QueryStructIs
  <2> QED
    BY <1>2, <2>1, <2>2 DEF ParamResult
<1>3. CASE p.kind = "path"
  <2>1. LowerParam(tab, m, p) = ParamOf(p.name, TRUE, LowerScalar(tab, m, p.ty))
    BY <1>3 DEF LowerParam
  <2>2. PICK r : r = LowerScalar(tab, m, p.ty)
    OBVIOUS
  <2>3. Result(tab, r) /\ (r.ty # NoType => ScalarType(r.ty))
    BY <1>1, <2>2, LowerScalarIs
  <2>4. ParamResult(tab, ParamOf(p.name, TRUE, r))
        /\ (~Error(ParamOf(p.name, TRUE, r).diags) => Len(ParamOf(p.name, TRUE, r).params) = 1)
    BY <2>3, ParamOfIs
  <2> QED
    BY <1>3, <2>1, <2>2, <2>4 DEF ParamResult
<1>4. CASE p.kind = "body"
  <2>1. LowerParam(tab, m, p) = TypeOf(tab, m, p.ty)
    BY <1>4 DEF LowerParam
  <2>2. Result(tab, TypeOf(tab, m, p.ty))
    BY <1>1, TypeOfType
  <2> QED
    BY <1>4, <2>1, <2>2, ResultOk
<1>5. CASE p.kind \notin {"query", "path", "body"}
  <2>1. LowerParam(tab, m, p).queue = <<>>
    BY <1>5 DEF LowerParam, Nothing
  <2>2. <<>> \in Seq(Keys(tab))
    BY EmptySeq
  <2> QED
    BY <1>5, <2>1, <2>2
<1> QED
  BY <1>2, <1>3, <1>4, <1>5

\* What is in an endpoint that has been lowered, whatever was reported.
SomeType(tab, ty, line) == ty = NoType \/ TypeOk(tab, ty, line)

EndpointTyped(tab, x, line) ==
  /\ ParamsTyped(x.path_params) /\ ParamsTyped(x.query_params)
  /\ x.body_ty # NoType <=> x.body = "json"
  /\ SomeType(tab, x.body_ty, line) /\ SomeType(tab, x.success_ty, line)
  /\ SomeType(tab, x.error, line) /\ x.error.kind \in {"none", "error"}

\* What is in it where nothing was.
EndpointMade(e, x) ==
  LET given == Range(Kinds(e.params))
  IN /\ Len(x.path_params) = Len(Those(e.params, LAMBDA p : p.kind = "path"))
     /\ (x.body # "none") = (given \cap Bodies # {})
     /\ (x.body_ty # NoType) = ("body" \in given)
     /\ (x.success_ty # NoType) = (e.ret.kind \in {"json", "created", "sse"})
     /\ (x.error # NoType) = (e.err.kind = "type")

EndpointRec(x) ==
  [at |-> x.at, rust_name |-> x.rust_name, ts_name |-> x.ts_name, ts_module |-> x.ts_module,
   route |-> x.route, method |-> x.method, path_params |-> x.path_params,
   query_params |-> x.query_params, body |-> x.body, body_ty |-> x.body_ty,
   transport |-> x.transport, success_ty |-> x.success_ty, error |-> x.error,
   mounts |-> x.mounts, allow_unused |-> x.allow_unused]

NamedAfter(m, e, x) ==
  /\ x = EndpointRec(x)
  /\ x.at = m /\ x.rust_name = e.name /\ x.ts_name = ToCamelCase(e.name)

\* The results of lowering the parameters of an endpoint.
ParamsLowered(tab, e, n, rs) ==
  /\ n \in Nat /\ DOMAIN rs = 1..n /\ rs = [i \in 1..n |-> rs[i]]
  /\ e.params \in Seq(ParamItems) /\ Len(e.params) = n
  /\ \A i \in 1..n :
       /\ rs[i].queue \in Seq(Keys(tab))
       /\ e.params[i].kind \in {"path", "query"} => ParamsTyped(rs[i].params)
       /\ e.params[i].kind = "path" /\ ~Error(rs[i].diags) => Len(rs[i].params) = 1
       /\ e.params[i].kind = "body" => Result(tab, rs[i])
OfParams(e, rs, kind) ==
  FlattenSeq([i \in DOMAIN rs |-> IF e.params[i].kind = kind THEN rs[i].params ELSE <<>>])

LEMMA ParamsOfKind ==
  ASSUME NEW tab, NEW e, NEW n, NEW rs, ParamsLowered(tab, e, n, rs)
  PROVE  /\ \A kind \in {"path", "query"} : ParamsTyped(OfParams(e, rs, kind))
         /\ (\A i \in 1..n : ~Error(rs[i].diags)) =>
              Len(OfParams(e, rs, "path")) = Len(Those(e.params, LAMBDA p : p.kind = "path"))
<1>1. n \in Nat /\ DOMAIN rs = 1..n
  BY DEF ParamsLowered
<1>2. ASSUME NEW kind \in {"path", "query"}
      PROVE  ParamsTyped(OfParams(e, rs, kind))
  <2> DEFINE p == [i \in 1..n |-> IF e.params[i].kind = kind THEN rs[i].params ELSE <<>>]
  <2>1. p = [i \in 1..n |-> p[i]] /\ \A i \in 1..n : p[i] = IF e.params[i].kind = kind THEN rs[i].params ELSE <<>>
    OBVIOUS
  <2>2. OfParams(e, rs, kind) = FlattenSeq(p)
    BY <1>1 DEF OfParams
  <2> HIDE DEF p
  <2>3. \A i \in 1..n : ParamsTyped(p[i])
    <3>1. ParamsTyped(<<>>)
      BY NoVariants DEF ParamsTyped
    <3> QED
      BY <2>1, <3>1 DEF ParamsLowered
  <2>4. /\ IsSeq(FlattenSeq(p))
        /\ \A x : x \in Range(FlattenSeq(p)) <=> \E i \in 1..n : x \in Range(p[i])
    BY <1>1, <2>1, <2>3, PartsAre DEF ParamsTyped
  <2> QED
    BY <2>2, <2>3, <2>4 DEF ParamsTyped
<1>3. ASSUME \A i \in 1..n : ~Error(rs[i].diags)
      PROVE  Len(OfParams(e, rs, "path")) = Len(Those(e.params, LAMBDA p : p.kind = "path"))
  <2> DEFINE p == [i \in 1..n |-> IF e.params[i].kind = "path" THEN rs[i].params ELSE <<>>]
             w == [i \in 1..n |-> IF e.params[i].kind = "path" THEN 1 ELSE 0]
  <2>1. /\ p = [i \in 1..n |-> p[i]] /\ \A i \in 1..n : p[i] = IF e.params[i].kind = "path" THEN rs[i].params ELSE <<>>
        /\ w \in [1..n -> {0, 1}] /\ \A i \in 1..n : w[i] = IF e.params[i].kind = "path" THEN 1 ELSE 0
    OBVIOUS
  <2>2. OfParams(e, rs, "path") = FlattenSeq(p)
    BY <1>1 DEF OfParams
  <2> HIDE DEF p, w
  <2>3. IsSeq(<<>>) /\ Len(<<>>) = 0
    BY NoVariants
  <2>4. ASSUME NEW i \in 1..n PROVE IsSeq(p[i]) /\ Len(p[i]) = w[i]
    <3>1. CASE e.params[i].kind = "path"
      <4>1. ParamsTyped(rs[i].params) /\ Len(rs[i].params) = 1
        BY <1>3, <3>1 DEF ParamsLowered
      <4> QED
        BY <2>1, <3>1, <4>1 DEF ParamsTyped
    <3>2. CASE e.params[i].kind # "path"
      BY <2>1, <2>3, <3>2
    <3> QED
      BY <3>1, <3>2
  <2>5. Len(FlattenSeq(p)) = Cardinality({i \in 1..n : w[i] = 1})
    BY <1>1, <2>1, <2>4, PartsCount, SMTT(30)
  <2>6. {i \in 1..n : w[i] = 1} = {i \in 1..n : e.params[i].kind = "path"}
    BY <2>1
  <2>7. Len(Those(e.params, LAMBDA q : q.kind = "path")) = Cardinality({i \in 1..n : e.params[i].kind = "path"})
    <3>1. e.params \in Seq(ParamItems) /\ Len(e.params) = n
      BY DEF ParamsLowered
    <3> QED
      BY <3>1, OfKind
  <2> QED
    BY <2>2, <2>5, <2>6, <2>7
<1> QED
  BY <1>2, <1>3

LEMMA KindsAre ==
  ASSUME NEW e, NEW n \in Nat, e.params \in Seq(ParamItems), Len(e.params) = n
  PROVE  \A kind : kind \in Range(Kinds(e.params)) <=> \E i \in 1..n : e.params[i].kind = kind
<1>1. DOMAIN e.params = 1..n
  BY LenProperties
<1> QED
  BY <1>1 DEF Kinds, Range

BodyAt(e, rs) == {i \in DOMAIN rs : e.params[i].kind = "body" /\ rs[i].ty # NoType}

LEMMA BodiesAre ==
  ASSUME NEW tab, NEW e \in EndpointFns, NEW n, NEW rs, ParamsLowered(tab, e, n, rs), ValidParams(e)
  PROVE  /\ "binary" \in Range(Kinds(e.params)) => BodyAt(e, rs) = {}
         /\ (\A i \in 1..n : ~Error(rs[i].diags)) =>
              (BodyAt(e, rs) # {} <=> "body" \in Range(Kinds(e.params)))
<1>1. n \in Nat /\ DOMAIN rs = 1..n /\ e.params \in Seq(ParamItems) /\ Len(e.params) = n
  BY DEF ParamsLowered
<1>2. \A kind : kind \in Range(Kinds(e.params)) <=> \E i \in 1..n : e.params[i].kind = kind
  BY <1>1, KindsAre
<1>3. DOMAIN e.params = 1..n
  BY <1>1, LenProperties
<1>4. ASSUME "binary" \in Range(Kinds(e.params)) PROVE BodyAt(e, rs) = {}
  <2>1. PICK i \in 1..n : e.params[i].kind = "binary"
    BY <1>2, <1>4
  <2>2. ASSUME NEW j \in BodyAt(e, rs) PROVE FALSE
    <3>1. j \in 1..n /\ e.params[j].kind = "body"
      BY <1>1 DEF BodyAt
    <3>2. i = j
      BY <1>3, <2>1, <3>1, OneBody DEF Bodies
    <3> QED
      BY <2>1, <3>1, <3>2
  <2> QED
    BY <2>2
<1>5. ASSUME \A i \in 1..n : ~Error(rs[i].diags)
      PROVE  BodyAt(e, rs) # {} <=> "body" \in Range(Kinds(e.params))
  <2>1. ASSUME NEW i \in 1..n, e.params[i].kind = "body" PROVE rs[i].ty # NoType
    <3>1. Result(tab, rs[i])
      BY <2>1 DEF ParamsLowered
    <3> QED
      BY <1>5, <3>1, ResultOk
  <2> QED
    BY <1>1, <1>2, <2>1 DEF BodyAt
<1> QED
  BY <1>4, <1>5
LEMMA TwoMore ==
  ASSUME NEW n \in Nat, NEW s, s = [i \in 1..n |-> s[i]], NEW a, NEW b
  PROVE  LET t == Append(Append(s, a), b)
         IN /\ DOMAIN t = 1..(n + 2) /\ \A i \in 1..n : t[i] = s[i]
            /\ t[n + 1] = a /\ t[n + 2] = b
<1>1. PICK X : X = Range(s) \cup {a, b}
  OBVIOUS
<1>2. s \in Seq(X) /\ Len(s) = n /\ a \in X /\ b \in X
  <2>1. s \in Seq(Range(s)) /\ Len(s) = n
    BY SeqIs DEF IsSeq
  <2>2. PICK R : R = Range(s)
    OBVIOUS
  <2>3. s \in Seq(R) /\ R \subseteq X
    BY <1>1, <2>1, <2>2
  <2>4. s \in Seq(X)
    BY ONLY <2>3
  <2> QED
    BY <1>1, <2>1, <2>4
<1> QED
  BY ONLY <1>2, n \in Nat

EndpointResult(tab, m, e, r) ==
  /\ r.queue \in Seq(Keys(tab)) /\ IsSeq(r.endpoint)
  /\ \A x \in Range(r.endpoint) : NamedAfter(m, e, x) /\ EndpointTyped(tab, x, r.queue)
  /\ ~Error(r.diags) => Range(r.endpoint) # {} /\ \A x \in Range(r.endpoint) : EndpointMade(e, x)

\* What was lowered for a part of an endpoint that may be missing.
Given(tab, present, r) ==
  /\ present => Result(tab, r)
  /\ ~present => r = Nothing

LEMMA GivenIs ==
  ASSUME NEW tab, NEW present, NEW r, Given(tab, present, r)
  PROVE  /\ r.queue \in Seq(Keys(tab)) /\ SomeType(tab, r.ty, r.queue)
         /\ ~Error(r.diags) => (r.ty # NoType <=> present)
<1>1. CASE present
  BY <1>1, ResultOk DEF Given, SomeType
<1>2. CASE ~present
  <2>1. r.queue = <<>> /\ r.ty = NoType
    BY <1>2 DEF Given, Nothing
  <2>2. <<>> \in Seq(Keys(tab))
    BY EmptySeq
  <2> QED
    BY <1>2, <2>1, <2>2 DEF SomeType
<1> QED
  BY <1>1, <1>2

LEMMA MoreSome ==
  ASSUME NEW tab, NEW ty, NEW line, NEW more, SomeType(tab, ty, line),
         \A x \in Range(line) : x \in Range(more)
  PROVE  SomeType(tab, ty, more)
BY MoreOk DEF SomeType

LEMMA EndpointOfParts ==
  ASSUME NEW m, NEW e, NEW rs, NEW success, NEW error
  PROVE  LET all == Append(Append(rs, success), error)
             binary == "binary" \in Range(Kinds(e.params))
             bodies == BodyAt(e, rs)
         IN \E y :
              /\ EndpointOf(m, e, rs, success, error) =
                   [endpoint |-> <<y>>, queue |-> Queued(all), diags |-> Reported(all)]
              /\ NamedAfter(m, e, y)
              /\ y.path_params = OfParams(e, rs, "path") /\ y.query_params = OfParams(e, rs, "query")
              /\ y.body = IF binary THEN "binary" ELSE IF bodies # {} THEN "json" ELSE "none"
              /\ y.body_ty = IF bodies = {} THEN NoType ELSE rs[CHOOSE i \in bodies : TRUE].ty
              /\ y.success_ty = success.ty /\ y.error = error.ty
<1> DEFINE binary == "binary" \in Range(Kinds(e.params))
           bodies == BodyAt(e, rs)
<1>1. PICK pp : pp = OfParams(e, rs, "path")
  OBVIOUS
<1>2. PICK qp : qp = OfParams(e, rs, "query")
  OBVIOUS
<1>3. PICK body : body = IF binary THEN "binary" ELSE IF bodies # {} THEN "json" ELSE "none"
  OBVIOUS
<1>4. PICK body_ty : body_ty = IF bodies = {} THEN NoType ELSE rs[CHOOSE i \in bodies : TRUE].ty
  OBVIOUS
<1>5. PICK transport : transport = IF binary THEN "upload"
                         ELSE CASE e.ret.kind = "sse" -> "sse"
                                [] e.ret.kind = "binary" -> "download"
                                [] OTHER -> "unary"
  OBVIOUS
<1>6. PICK y : y = [at |-> m, rust_name |-> e.name, ts_name |-> ToCamelCase(e.name),
           ts_module |-> DefaultTsModule(e.route), route |-> e.route, method |-> HttpMethod(e.method),
           path_params |-> pp, query_params |-> qp, body |-> body, body_ty |-> body_ty,
           transport |-> transport, success_ty |-> success.ty, error |-> error.ty,
           mounts |-> 0, allow_unused |-> e.allow_unused]
  OBVIOUS
<1>7. EndpointOf(m, e, rs, success, error) =
        [endpoint |-> <<y>>, queue |-> Queued(Append(Append(rs, success), error)),
         diags |-> Reported(Append(Append(rs, success), error))]
  BY <1>1, <1>2, <1>3, <1>4, <1>5, <1>6, SMT DEF EndpointOf, OfParams, BodyAt
<1>8. NamedAfter(m, e, y)
  BY <1>6 DEF NamedAfter, EndpointRec
<1>9. /\ y.path_params = pp /\ y.query_params = qp /\ y.body = body /\ y.body_ty = body_ty
      /\ y.success_ty = success.ty /\ y.error = error.ty
  BY <1>6
<1> QED
  BY <1>1, <1>2, <1>3, <1>4, <1>7, <1>8, <1>9

LEMMA EndpointOfIs ==
  ASSUME NEW tab, NEW m, NEW e \in EndpointFns, NEW n, NEW rs, ParamsLowered(tab, e, n, rs),
         ValidParams(e), NEW success, NEW error,
         Given(tab, e.ret.kind \in {"json", "created", "sse"}, success),
         Given(tab, e.err.kind = "type", error), error.ty.kind \in {"none", "error"}
  PROVE  EndpointResult(tab, m, e, EndpointOf(m, e, rs, success, error))
<1> DEFINE r == EndpointOf(m, e, rs, success, error)
           binary == "binary" \in Range(Kinds(e.params))
           bodies == BodyAt(e, rs)
           all == Append(Append(rs, success), error)
           x == r.endpoint[1]
<1>1. /\ r.endpoint = <<x>> /\ r.queue = Queued(all) /\ r.diags = Reported(all)
      /\ NamedAfter(m, e, x)
      /\ x.path_params = OfParams(e, rs, "path") /\ x.query_params = OfParams(e, rs, "query")
      /\ x.body = IF binary THEN "binary" ELSE IF bodies # {} THEN "json" ELSE "none"
      /\ x.body_ty = IF bodies = {} THEN NoType ELSE rs[CHOOSE i \in bodies : TRUE].ty
      /\ x.success_ty = success.ty /\ x.error = error.ty
  <2>1. PICK y :
        /\ r = [endpoint |-> <<y>>, queue |-> Queued(all), diags |-> Reported(all)]
        /\ NamedAfter(m, e, y)
        /\ y.path_params = OfParams(e, rs, "path") /\ y.query_params = OfParams(e, rs, "query")
        /\ y.body = IF binary THEN "binary" ELSE IF bodies # {} THEN "json" ELSE "none"
        /\ y.body_ty = IF bodies = {} THEN NoType ELSE rs[CHOOSE i \in bodies : TRUE].ty
        /\ y.success_ty = success.ty /\ y.error = error.ty
    BY EndpointOfParts
  <2>2. PICK one : one = <<y>>
    OBVIOUS
  <2>3. one[1] = y
    BY ONLY <2>2
  <2> HIDE DEF r
  <2>4. r.endpoint = one /\ r.queue = Queued(all) /\ r.diags = Reported(all)
    BY <2>1, <2>2
  <2>5. x = y
    BY <2>3, <2>4
  <2> HIDE DEF x, all, binary, bodies
  <2> QED
    BY <2>1, <2>2, <2>4, <2>5
<1> HIDE DEF r, x
<1>2. n \in Nat /\ DOMAIN rs = 1..n /\ rs = [i \in 1..n |-> rs[i]]
  BY DEF ParamsLowered
<1>3. /\ DOMAIN all = 1..(n + 2) /\ \A i \in 1..n : all[i] = rs[i]
      /\ all[n + 1] = success /\ all[n + 2] = error
  BY <1>2, TwoMore
<1> HIDE DEF all
<1>4. \A i \in 1..(n + 2) : i \in 1..n \/ i = n + 1 \/ i = n + 2
  BY <1>2
<1>5. \A i \in 1..(n + 2) : all[i].queue \in Seq(Keys(tab))
  BY <1>3, <1>4, GivenIs DEF ParamsLowered
<1>6. /\ r.queue \in Seq(Keys(tab))
      /\ \A i \in 1..(n + 2) : \A k \in Range(all[i].queue) : k \in Range(r.queue)
  <2>1. PICK k : k = n + 2
    OBVIOUS
  <2>2. k \in Nat /\ DOMAIN all = 1..k /\ \A i \in 1..k : all[i].queue \in Seq(Keys(tab))
    BY <1>2, <1>3, <1>5, <2>1
  <2>3. /\ Queued(all) \in Seq(Keys(tab))
        /\ \A i \in 1..k : \A x0 \in Range(all[i].queue) : x0 \in Range(Queued(all))
    BY <2>2, QueuedIs
  <2> QED
    BY <1>1, <2>1, <2>3
<1>7. /\ \A i \in 1..n : \A k \in Range(rs[i].queue) : k \in Range(r.queue)
      /\ \A k \in Range(success.queue) : k \in Range(r.queue)
      /\ \A k \in Range(error.queue) : k \in Range(r.queue)
  <2>1. 1..n \subseteq 1..(n + 2) /\ n + 1 \in 1..(n + 2) /\ n + 2 \in 1..(n + 2)
    BY <1>2
  <2> QED
    BY <1>3, <1>6, <2>1
<1>8. bodies # {} => TypeOk(tab, x.body_ty, r.queue)
  <2> SUFFICES ASSUME bodies # {} PROVE TypeOk(tab, x.body_ty, r.queue)
    OBVIOUS
  <2>1. PICK i \in bodies : x.body_ty = rs[i].ty
    BY <1>1
  <2>2. i \in 1..n /\ e.params[i].kind = "body" /\ rs[i].ty # NoType
    BY <1>2 DEF BodyAt
  <2>3. Result(tab, rs[i])
    BY <2>2 DEF ParamsLowered
  <2>4. TypeOk(tab, rs[i].ty, rs[i].queue)
    BY <2>2, <2>3, ResultOk
  <2> QED
    BY <1>7, <2>1, <2>2, <2>4, MoreOk
<1>9. /\ binary => bodies = {}
      /\ (\A i \in 1..n : ~Error(rs[i].diags)) => (bodies # {} <=> "body" \in Range(Kinds(e.params)))
  BY BodiesAre
<1> HIDE DEF bodies, binary
<1>10. EndpointTyped(tab, x, r.queue)
  <2>1. ParamsTyped(x.path_params) /\ ParamsTyped(x.query_params)
    BY <1>1, ParamsOfKind
  <2>2. (x.body_ty # NoType <=> x.body = "json") /\ SomeType(tab, x.body_ty, r.queue)
    <3>1. TypeOk(tab, x.body_ty, r.queue) => x.body_ty # NoType
      BY DEF TypeOk
    <3> QED
      BY <1>1, <1>8, <1>9, <3>1 DEF SomeType
  <2>3. SomeType(tab, x.success_ty, r.queue) /\ SomeType(tab, x.error, r.queue)
    BY <1>1, <1>7, GivenIs, MoreSome
  <2> QED
    BY <1>1, <2>1, <2>2, <2>3 DEF EndpointTyped
<1>11. ASSUME ~Error(r.diags) PROVE EndpointMade(e, x)
  <2>1. ~Error(Reported(all))
    BY <1>1, <1>11
  <2>2. \A i \in 1..(n + 2) : ~Error(all[i].diags)
    BY <1>3, <2>1, ReportedIs
  <2>3. (\A i \in 1..n : ~Error(rs[i].diags)) /\ ~Error(success.diags) /\ ~Error(error.diags)
    <3>1. 1..n \subseteq 1..(n + 2) /\ n + 1 \in 1..(n + 2) /\ n + 2 \in 1..(n + 2)
      BY <1>2
    <3> QED
      BY <1>3, <2>2, <3>1
  <2>4. Len(x.path_params) = Len(Those(e.params, LAMBDA p : p.kind = "path"))
    BY <1>1, <2>3, ParamsOfKind
  <2>5. Bodies = {"body", "binary"}
    BY DEF Bodies
  <2>6. (x.body_ty # NoType) <=> bodies # {}
    <3>1. TypeOk(tab, x.body_ty, r.queue) => x.body_ty # NoType
      BY DEF TypeOk
    <3> QED
      BY <1>1, <1>8, <3>1
  <2>7. (x.body # "none") <=> (Range(Kinds(e.params)) \cap Bodies # {})
    BY <1>1, <1>9, <2>3, <2>5 DEF binary
  <2>8. ((x.success_ty # NoType) <=> (e.ret.kind \in {"json", "created", "sse"}))
        /\ ((x.error # NoType) <=> (e.err.kind = "type"))
    <3>1. (success.ty # NoType) <=> (e.ret.kind \in {"json", "created", "sse"})
      BY <2>3, ResultOk DEF Given, Nothing
    <3>2. (error.ty # NoType) <=> (e.err.kind = "type")
      BY <2>3, ResultOk DEF Given, Nothing
    <3> QED
      BY <1>1, <3>1, <3>2
  <2> QED
    BY <1>9, <2>3, <2>4, <2>6, <2>7, <2>8 DEF EndpointMade
<1>12. IsSeq(r.endpoint) /\ Range(r.endpoint) = {x}
  <2>1. PICK X : X = {x}
    OBVIOUS
  <2>2. <<x>> \in Seq(X) /\ Range(<<x>>) = {x}
    BY <2>1, Single
  <2> QED
    BY <1>1, <2>2, IsSeqOf
<1> QED
  <2>1. EndpointResult(tab, m, e, r)
    BY <1>1, <1>6, <1>10, <1>11, <1>12 DEF EndpointResult
  <2> QED
    BY <2>1 DEF r
LEMMA LowerEndpointIs ==
  ASSUME NEW tab, IsTab(tab), NEW m \in Key, NEW e \in EndpointFns
  PROVE  EndpointResult(tab, m, e, LowerEndpoint(tab, m, e))
<1> DEFINE refused == [endpoint |-> <<>>, queue |-> <<>>, diags |-> {Err("invalid-api-item")}]
<1>1. EndpointResult(tab, m, e, refused)
  <2>1. <<>> \in Seq(Keys(tab))
    BY EmptySeq
  <2>2. Error({Err("invalid-api-item")})
    BY DEF Error, Err
  <2> QED
    BY <2>1, <2>2, NoVariants DEF EndpointResult
<1>2. PICK n \in Nat : e.params \in Seq(ParamItems) /\ n = Len(e.params) /\ DOMAIN e.params = 1..n
  <2>1. e.params \in Seq(ParamItems)
    BY DEF EndpointFns
  <2> QED
    BY <2>1, LenProperties
<1> DEFINE rs == [i \in 1..n |-> LowerParam(tab, m, e.params[i])]
           success == IF e.ret.kind \in {"json", "created", "sse"} THEN TypeOf(tab, m, e.ret.ty) ELSE Nothing
           error == IF e.err.kind = "type" THEN LowerErrorRef(tab, ResolveNamed(tab, m, e.err.ty)) ELSE Nothing
<1>3. Mapped(LAMBDA p : LowerParam(tab, m, p), e.params) = rs
  BY <1>2 DEF Mapped
<1>4. ParamsLowered(tab, e, n, rs)
  <2>1. DOMAIN rs = 1..n /\ rs = [i \in 1..n |-> rs[i]]
    OBVIOUS
  <2>2. ASSUME NEW i \in 1..n
        PROVE  /\ rs[i].queue \in Seq(Keys(tab))
               /\ e.params[i].kind \in {"path", "query"} => ParamsTyped(rs[i].params)
               /\ e.params[i].kind = "path" /\ ~Error(rs[i].diags) => Len(rs[i].params) = 1
               /\ e.params[i].kind = "body" => Result(tab, rs[i])
    <3>1. e.params[i] \in ParamItems
      BY <1>2, Element
    <3>2. rs[i] = LowerParam(tab, m, e.params[i])
      OBVIOUS
    <3> QED
      BY <3>1, <3>2, LowerParamIs
  <2> HIDE DEF rs
  <2> QED
    BY <1>2, <2>1, <2>2 DEF ParamsLowered
<1>5. e.ret.ty \in TypeTexts /\ e.err.ty \in TypeTexts
  BY DEF EndpointFns, Types
<1>6. Given(tab, e.ret.kind \in {"json", "created", "sse"}, success)
  BY <1>5, TypeOfType DEF Given
<1>7. Given(tab, e.err.kind = "type", error) /\ error.ty.kind \in {"none", "error"}
  <2>1. CASE e.err.kind = "type"
    <3>1. error = LowerErrorRef(tab, ResolveNamed(tab, m, e.err.ty))
      BY <2>1
    <3> QED
      BY <1>5, <2>1, <3>1, ErrorRefIs DEF Given
  <2>2. CASE e.err.kind # "type"
    <3>1. error = Nothing /\ Nothing.ty.kind = "none"
      BY <2>2, NoTypeIs DEF Nothing
    <3> QED
      BY <2>2, <3>1 DEF Given
  <2> QED
    BY <2>1, <2>2
<1> HIDE DEF rs, success, error
<1>8. ValidParams(e) => EndpointResult(tab, m, e, EndpointOf(m, e, rs, success, error))
  BY <1>4, <1>6, <1>7, EndpointOfIs
<1>9. LowerEndpoint(tab, m, e) = IF ~e.attr_ok \/ ~AnalyzeEndpoint(e) THEN refused
                                 ELSE EndpointOf(m, e, rs, success, error)
  BY <1>3 DEF LowerEndpoint, success, error
<1>10. AnalyzeEndpoint(e) => ValidParams(e)
  BY DEF AnalyzeEndpoint
<1> HIDE DEF refused
<1> QED
  BY <1>1, <1>8, <1>9, <1>10

\* The endpoints of a module.
EndpointFnsIn(tab, m) == {i \in Range(tab[m].items) : i.kind = "endpoint"}
LoweredEndpoints(tab, m) ==
  Mapped(LAMBDA e : LowerEndpoint(tab, m, e), Those(tab[m].items, LAMBDA i : i.kind = "endpoint"))
EndpointsIn(rs) == UNION {Range(rs[i].endpoint) : i \in DOMAIN rs}

LEMMA EndpointsOf ==
  ASSUME NEW tab, IsTab(tab), NEW m \in DOMAIN tab
  PROVE  LET es == Those(tab[m].items, LAMBDA i : i.kind = "endpoint")
         IN es \in Seq(EndpointFns) /\ Range(es) = EndpointFnsIn(tab, m)
<1> DEFINE T == {i \in Items : i.kind = "endpoint"}
           items == tab[m].items
<1>1. items \in Seq(Items)
  BY DEF IsTab, IsModule
<1>2. T \subseteq EndpointFns
  BY DEF Items, DeclItems, RouterFns
<1>3. \A i \in DOMAIN items : items[i].kind = "endpoint" <=> items[i] \in T
  BY <1>1, Element
<1>4. Range(items) \cap T = EndpointFnsIn(tab, m)
  <2>1. Range(items) \subseteq Items
    BY <1>1, RangeIs
  <2> QED
    BY <2>1 DEF EndpointFnsIn
<1> HIDE DEF T, items
<1>5. [i \in DOMAIN items |-> IF items[i].kind = "endpoint" THEN <<items[i]>> ELSE <<>>] = Pieces(items, T)
  BY <1>3 DEF Pieces
<1>6. PICK es : es = FlattenSeq(Pieces(items, T))
  OBVIOUS
<1>7. es \in Seq(Items) /\ Range(es) = EndpointFnsIn(tab, m)
  BY <1>1, <1>4, <1>6, Picked
<1>8. es \in Seq(EndpointFns)
  <2>1. Range(es) \subseteq EndpointFns
    <3>1. Range(es) \subseteq T
      BY <1>1, <1>6, Picked
    <3> QED
      BY <1>2, <3>1
  <2>2. DOMAIN es = 1..Len(es) /\ Len(es) \in Nat /\ \A i \in 1..Len(es) : es[i] \in Range(es)
    BY <1>7, RangeIs
  <2>3. es = [i \in 1..Len(es) |-> es[i]]
    <3>1. PICK X : X = Items
      OBVIOUS
    <3>2. es \in Seq(X)
      BY <1>7, <3>1
    <3> QED
      BY ONLY <3>2
  <2>4. PICK Y : Y = EndpointFns
    OBVIOUS
  <2>5. \A i \in 1..Len(es) : es[i] \in Y
    BY <2>1, <2>2, <2>4
  <2>6. es \in Seq(Y)
    BY ONLY <2>2, <2>3, <2>5
  <2> QED
    BY <2>4, <2>6
<1>9. Those(items, LAMBDA i : i.kind = "endpoint") = es
  BY <1>5, <1>6 DEF Those
<1> QED
  BY <1>7, <1>8, <1>9 DEF items

LEMMA LowerEndpointsIs ==
  ASSUME NEW tab, IsTab(tab), NEW m \in DOMAIN tab
  PROVE  LET rs == LoweredEndpoints(tab, m)
         IN /\ Queued(rs) \in Seq(Keys(tab)) /\ IsFiniteSet(EndpointsIn(rs))
            /\ \A x \in EndpointsIn(rs) : \E e \in EndpointFnsIn(tab, m) :
                 /\ NamedAfter(m, e, x) /\ EndpointTyped(tab, x, Queued(rs))
                 /\ ~Error(Reported(rs)) => EndpointMade(e, x)
            /\ ~Error(Reported(rs)) =>
                 \A e \in EndpointFnsIn(tab, m) : \E x \in EndpointsIn(rs) : NamedAfter(m, e, x)
<1>1. PICK es : /\ es = Those(tab[m].items, LAMBDA i : i.kind = "endpoint")
                /\ es \in Seq(EndpointFns) /\ Range(es) = EndpointFnsIn(tab, m)
  BY EndpointsOf
<1>2. PICK n \in Nat : n = Len(es) /\ DOMAIN es = 1..n
  BY <1>1, LenProperties
<1> DEFINE rs == [i \in 1..n |-> LowerEndpoint(tab, m, es[i])]
<1>3. LoweredEndpoints(tab, m) = rs
  BY <1>1, <1>2 DEF LoweredEndpoints, Mapped
<1>4. DOMAIN rs = 1..n /\ rs = [i \in 1..n |-> rs[i]]
  OBVIOUS
<1>5. \A i \in 1..n : EndpointResult(tab, m, es[i], rs[i]) /\ es[i] \in Range(es)
  <2>1. m \in Key
    BY DEF IsTab
  <2>2. \A i \in 1..n : es[i] \in EndpointFns
    BY <1>1, <1>2, Element
  <2>3. \A i \in 1..n : es[i] \in Range(es)
    BY <1>2 DEF Range
  <2> QED
    BY <2>1, <2>2, <2>3, LowerEndpointIs
<1> HIDE DEF rs
<1>6. /\ Queued(rs) \in Seq(Keys(tab))
      /\ \A i \in 1..n : \A x \in Range(rs[i].queue) : x \in Range(Queued(rs))
  BY <1>4, <1>5, QueuedIs DEF EndpointResult
<1>7. IsFiniteSet(EndpointsIn(rs))
  <2>1. \A i \in 1..n : IsFiniteSet(Range(rs[i].endpoint))
    BY <1>5, FiniteRange DEF EndpointResult, IsSeq
  <2> DEFINE f == [i \in 1..n |-> Range(rs[i].endpoint)]
  <2>2. IsFiniteSet({f[i] : i \in 1..n})
    <3>1. IsFiniteSet(1..n) /\ f = [i \in 1..n |-> f[i]]
      BY FS_Interval
    <3> HIDE DEF f
    <3> QED
      BY <3>1, FiniteImage
  <2>3. EndpointsIn(rs) = UNION {f[i] : i \in 1..n}
    BY <1>4 DEF EndpointsIn
  <2>4. \A S \in {f[i] : i \in 1..n} : IsFiniteSet(S)
    BY <2>1
  <2> HIDE DEF f
  <2> QED
    BY <2>2, <2>3, <2>4, FS_UNION
<1>8. ASSUME NEW x \in EndpointsIn(rs)
      PROVE  \E e \in EndpointFnsIn(tab, m) :
                 /\ NamedAfter(m, e, x) /\ EndpointTyped(tab, x, Queued(rs))
                 /\ ~Error(Reported(rs)) => EndpointMade(e, x)
  <2>1. PICK i \in 1..n : x \in Range(rs[i].endpoint)
    BY <1>4 DEF EndpointsIn
  <2>2. NamedAfter(m, es[i], x) /\ EndpointTyped(tab, x, rs[i].queue)
    BY <1>5, <2>1 DEF EndpointResult
  <2>3. EndpointTyped(tab, x, Queued(rs))
    BY <1>6, <2>2, MoreSome DEF EndpointTyped
  <2>4. ~Error(Reported(rs)) => EndpointMade(es[i], x)
    BY <1>4, <1>5, <2>1, ReportedIs DEF EndpointResult
  <2> QED
    BY <1>1, <1>5, <2>2, <2>3, <2>4
<1>9. ASSUME ~Error(Reported(rs)), NEW e \in EndpointFnsIn(tab, m)
      PROVE  \E x \in EndpointsIn(rs) : NamedAfter(m, e, x)
  <2>1. PICK i \in 1..n : e = es[i]
    BY <1>1, <1>2, <1>9 DEF Range
  <2>2. ~Error(rs[i].diags)
    BY <1>4, <1>9, ReportedIs
  <2>3. PICK x \in Range(rs[i].endpoint) : NamedAfter(m, e, x)
    BY <1>5, <2>1, <2>2 DEF EndpointResult
  <2> QED
    BY <1>4, <2>3 DEF EndpointsIn
<1> QED
  BY <1>3, <1>6, <1>7, <1>8, <1>9

-----------------------------------------------------------------------------
(* The state of a round.                                                   *)
KeyId(tab, k) == Id(ApiItemKind(ItemAt(tab, k)), k.at, k.name)

Phases == {"start", "refused", "decls", "endpoints", "extracted", "skipped", "written"}

\* A declaration is entered under the id of the item it is of.
Entries ==
  /\ IsFiniteSet(DOMAIN types)
  /\ \A id \in DOMAIN types :
       /\ Item(id.at, id.name) \in Keys(modules)
       /\ id = KeyId(modules, Item(id.at, id.name))
       /\ types[id].id = id

WellFormed ==
  /\ src \in Programs /\ phase \in Phases
  /\ modules = IF phase \in {"start", "refused"} THEN <<>> ELSE ModuleMap(src)
  /\ phase \in {"start", "refused"} => queue = <<>> /\ DOMAIN types = {} /\ endpoints = {}
  /\ decls \in Seq(Keys(modules)) /\ queue \in Seq(Keys(modules))
  /\ unvisited \subseteq DOMAIN modules
  /\ Entries

LEMMA KeyItem ==
  ASSUME NEW tab, IsTab(tab), NEW k \in Keys(tab)
  PROVE  /\ k = Item(k.at, k.name) /\ k.at \in DOMAIN tab /\ k.at \in Key /\ k.name \in Identifier
         /\ ItemAt(tab, k) \in Range(tab[k.at].items) /\ ItemAt(tab, k).name = k.name
         /\ ApiItemKind(ItemAt(tab, k)) \in {"type", "error"}
<1>1. k \in Entities(tab) /\ k.e = "item" /\ ApiItemKind(ItemAt(tab, k)) # "none"
  BY DEF Keys
<1>2. k.at \in DOMAIN tab /\ DeclaresItem(tab[k.at], k.name) /\ k.name \in Identifier /\ k = Item(k.at, k.name)
  BY <1>1 DEF Entities, Item
<1>3. ItemAt(tab, k) \in Range(tab[k.at].items) /\ ItemAt(tab, k).name = k.name
  BY <1>2, FoundItem DEF ItemAt
<1>4. ApiItemKind(ItemAt(tab, k)) \in {"type", "error", "none"}
  BY DEF ApiItemKind
<1> QED
  BY <1>1, <1>2, <1>3, <1>4 DEF IsTab

LEMMA ItemKey ==
  ASSUME NEW tab, IsTab(tab), NEW m \in DOMAIN tab, NEW i \in Range(tab[m].items), ApiItemKind(i) # "none"
  PROVE  Item(m, i.name) \in Keys(tab) /\ ItemAt(tab, Item(m, i.name)) = i
<1>1. FindItem(tab, m, i.name) = i /\ i \in Items
  BY FindItemIs
<1>2. ApiItemKind(i) = "none" \/ i.kind \in {"struct", "newtype", "tuple", "enum", "error", "error struct"}
  BY DEF ApiItemKind
<1>3. i \in DeclItems
  BY <1>1, <1>2 DEF Items, EndpointFns, RouterFns
<1>4. i.name \in Identifier /\ m \in Path
  BY <1>3 DEF DeclItems, IsTab, Key
<1>5. Item(m, i.name) \in Entities(tab)
  BY <1>4, ItemDeclared, EntitiesAre
<1>6. Item(m, i.name).at = m /\ Item(m, i.name).name = i.name /\ Item(m, i.name).e = "item"
  BY DEF Item
<1> QED
  BY <1>1, <1>5, <1>6 DEF Keys, ItemAt

LEMMA NoModules == IsTab(<<>>) /\ DOMAIN <<>> = {}
<1>1. DOMAIN <<>> = {}
  BY EmptySeq
<1> QED
  BY <1>1, FS_EmptySet DEF IsTab

LEMMA ModulesTab ==
  ASSUME WellFormed
  PROVE  /\ IsTab(modules) /\ IsWorkspace(src)
         /\ phase \notin {"start", "refused"} =>
              DOMAIN modules = Walked(src) /\ \A m \in DOMAIN modules : modules[m].items = src.mods[m].items
<1>1. IsWorkspace(src)
  BY ProgramsAssumption DEF WellFormed
<1>2. CASE phase \in {"start", "refused"}
  BY <1>1, <1>2, NoModules DEF WellFormed
<1>3. CASE phase \notin {"start", "refused"}
  <2>1. modules = ModuleMap(src)
    BY <1>3 DEF WellFormed
  <2> QED
    BY <1>1, <1>3, <2>1, TabOf
<1> QED
  BY <1>2, <1>3

\* What a named declaration adds: nothing, or itself with what it refers to.
Adds(key, r) ==
  LET item == ItemAt(modules, key)
      id == KeyId(modules, key)
  IN \/ /\ item.kind = "error struct" \/ id \in DOMAIN types
        /\ r.types = types /\ r.queue = <<>> /\ r.diags = {}
     \/ /\ item.kind # "error struct" /\ id \notin DOMAIN types
        /\ DOMAIN r.types = DOMAIN types \cup {id}
        /\ \A x \in DOMAIN types : r.types[x] = types[x]
        /\ DeclResult(modules, key.at, item, id,
                      [decl |-> r.types[id], queue |-> r.queue, diags |-> r.diags])

LEMMA NamedDecl ==
  ASSUME IsTab(modules), NEW key \in Keys(modules)
  PROVE  Adds(key, LowerNamedDecl(key)) /\ LowerNamedDecl(key).queue \in Seq(Keys(modules))
<1> DEFINE item == ItemAt(modules, key)
           id == KeyId(modules, key)
           seen == item.kind = "error struct" \/ id \in DOMAIN types
<1>1. LowerNamedDecl(key) = IF seen THEN [types |-> types, queue |-> <<>>, diags |-> {}]
                            ELSE Entered(id, LowerDecl(modules, key.at, item), types)
  BY DEF LowerNamedDecl, ItemAt, KeyId
<1>2. CASE seen
  <2>1. <<>> \in Seq(Keys(modules))
    BY EmptySeq
  <2>2. PICK r : r = LowerNamedDecl(key)
    OBVIOUS
  <2>3. r.types = types /\ r.queue = <<>> /\ r.diags = {}
    <3>1. LowerNamedDecl(key) = [types |-> types, queue |-> <<>>, diags |-> {}]
      BY <1>1, <1>2, Zenon
    <3> QED
      BY <2>2, <3>1
  <2>4. Adds(key, r)
    BY <1>2, <2>3 DEF Adds
  <2> QED
    BY <2>1, <2>2, <2>3, <2>4
<1>3. CASE ~seen
  <2>1. PICK l : l = LowerDecl(modules, key.at, item)
    OBVIOUS
  <2>2. LowerNamedDecl(key) = Entered(id, l, types)
    BY <1>1, <1>3, <2>1
  <2>3. DeclResult(modules, key.at, item, id, l)
    <3>1. /\ key.at \in DOMAIN modules /\ item \in Range(modules[key.at].items) /\ item.name = key.name
          /\ ApiItemKind(item) # "none" /\ item.kind # "error struct"
      BY <1>3, KeyItem
    <3>2. id = Id(ApiItemKind(item), key.at, item.name)
      BY <3>1 DEF KeyId
    <3> QED
      BY <2>1, <3>1, <3>2, LowerDeclIs
  <2>4. PICK r : r = LowerNamedDecl(key)
    OBVIOUS
  <2>5. /\ DOMAIN r.types = DOMAIN types \cup {id} /\ r.types[id] = l.decl
        /\ \A x \in DOMAIN types : r.types[x] = types[x]
        /\ r.queue = l.queue /\ r.diags = l.diags
    <3>1. id \notin DOMAIN types
      BY <1>3
    <3> HIDE DEF id, seen, item
    <3>2. PICK more : more = [x \in DOMAIN types \cup {id} |-> IF x \in DOMAIN types THEN types[x] ELSE l.decl]
      OBVIOUS
    <3>3. r = [types |-> more, queue |-> l.queue, diags |-> l.diags]
      BY <2>2, <2>4, <3>2 DEF Entered
    <3>4. DOMAIN more = DOMAIN types \cup {id} /\ more[id] = l.decl /\ \A x \in DOMAIN types : more[x] = types[x]
      BY <3>1, <3>2
    <3> QED
      BY <3>3, <3>4
  <2>6. DeclResult(modules, key.at, item, id, [decl |-> r.types[id], queue |-> r.queue, diags |-> r.diags])
    BY <2>3, <2>5 DEF DeclResult
  <2>7. r.queue \in Seq(Keys(modules))
    BY <2>3, <2>5 DEF DeclResult
  <2> QED
    BY <1>3, <2>4, <2>5, <2>6, <2>7 DEF Adds
<1> QED
  BY <1>2, <1>3

\* The declarations that the walk queues.
WalkedDecls(p) ==
  UNION {{Item(m, i.name) : i \in {x \in Range(p.mods[m].items) : ApiItemKind(x) # "none"}} : m \in Walked(p)}

LEMMA SourceItems ==
  ASSUME NEW p, IsWorkspace(p)
  PROVE  /\ IsFiniteSet(Declarables(p.mods))
         /\ Walked(p) \subseteq DOMAIN p.mods
<1>1. IsFiniteSet(DOMAIN p.mods)
  BY DEF IsWorkspace
<1>2. \A m \in DOMAIN p.mods : p.mods[m].items \in Seq(Items)
  BY DEF IsWorkspace, Sources, Items
<1> QED
  BY <1>1, <1>2, DeclarablesFinite, WalkedIs

LEMMA WalkQueues ==
  ASSUME NEW p, IsWorkspace(p)
  PROVE  SetToSeq(WalkedDecls(p)) \in Seq(Keys(ModuleMap(p)))
<1> DEFINE D == WalkedDecls(p)
<1>1. IsFiniteSet(D)
  <2>1. D \subseteq Declarables(p.mods)
    <3>1. ASSUME NEW m \in Walked(p), NEW i \in Range(p.mods[m].items)
          PROVE  Item(m, i.name) \in Declarables(p.mods)
      <4>1. m \in DOMAIN p.mods /\ Item(m, i.name) \in DeclaredIn(p.mods, m)
        BY SourceItems DEF DeclaredIn
      <4> QED
        BY <4>1 DEF Declarables
    <3> QED
      BY <3>1 DEF WalkedDecls
  <2> QED
    BY <2>1, SourceItems, FS_Subset
<1>2. D \subseteq Keys(ModuleMap(p))
  <2>1. PICK tab : tab = ModuleMap(p)
    OBVIOUS
  <2>2. IsTab(tab) /\ DOMAIN tab = Walked(p) /\ \A m \in Walked(p) : tab[m].items = p.mods[m].items
    BY <2>1, TabOf
  <2>3. ASSUME NEW m \in Walked(p), NEW i \in Range(p.mods[m].items), ApiItemKind(i) # "none"
        PROVE  Item(m, i.name) \in Keys(tab)
    BY <2>2, <2>3, ItemKey
  <2> QED
    BY <2>1, <2>3 DEF WalkedDecls
<1> HIDE DEF D
<1>3. SetToSeq(D) \in Seq(D)
  BY <1>1, SetToSeqIs
<1>4. PICK K, s : K = Keys(ModuleMap(p)) /\ s = SetToSeq(D)
  OBVIOUS
<1>5. s \in Seq(K)
  <2>1. s \in Seq(D) /\ D \subseteq K
    BY <1>2, <1>3, <1>4
  <2> QED
    BY ONLY <2>1
<1> QED
  BY <1>4, <1>5 DEF D

LEMMA WellFormedInit == Init => WellFormed
<1> SUFFICES ASSUME Init PROVE WellFormed
  OBVIOUS
<1>1. Entries
  <2>1. IsFiniteSet({}) /\ DOMAIN <<>> = {}
    BY NoModules, FS_EmptySet
  <2> QED
    BY <2>1 DEF Entries, Init
<1>2. <<>> \in Seq(Keys(modules))
  BY EmptySeq
<1> QED
  BY <1>1, <1>2, NoModules DEF Init, WellFormed, Phases

LEMMA HeadAndTail ==
  ASSUME NEW X, NEW s \in Seq(X), s # <<>>
  PROVE  /\ Head(s) \in X /\ Tail(s) \in Seq(X) /\ Len(Tail(s)) = Len(s) - 1 /\ Len(s) \in Nat /\ Len(s) > 0
         /\ \A x \in Range(s) : x = Head(s) \/ x \in Range(Tail(s))
<1>1. Head(s) \in X /\ Tail(s) \in Seq(X) /\ Len(Tail(s)) = Len(s) - 1 /\ Len(s) \in Nat /\ Len(s) > 0
  OBVIOUS
<1>2. ASSUME NEW x \in Range(s) PROVE x = Head(s) \/ x \in Range(Tail(s))
  <2>1. PICK i \in 1..Len(s) : x = s[i]
    BY RangeIs
  <2>2. CASE i = 1
    BY <2>1, <2>2
  <2>3. CASE i # 1
    <3>1. i - 1 \in 1..Len(Tail(s)) /\ Tail(s)[i - 1] = s[i]
      BY <1>1, <2>3
    <3> QED
      BY <1>1, <2>1, <3>1, RangeIs
  <2> QED
    BY <2>2, <2>3
<1> QED
  BY <1>1, <1>2

\* Entering one more declaration keeps the entries.
LEMMA EntriesGrow ==
  ASSUME WellFormed, NEW key \in Keys(modules), NEW r, Adds(key, r), types' = r.types, modules' = modules
  PROVE  Entries'
<1>1. CASE r.types = types
  BY <1>1 DEF WellFormed, Entries
<1>2. CASE r.types # types
  <2> DEFINE id == KeyId(modules, key)
  <2>1. /\ DOMAIN types' = DOMAIN types \cup {id} /\ \A x \in DOMAIN types : types'[x] = types[x]
        /\ types'[id].id = id
    BY <1>2 DEF Adds, DeclResult
  <2>2. IsTab(modules)
    BY ModulesTab
  <2>3. id.at = key.at /\ id.name = key.name /\ key = Item(key.at, key.name)
    BY <2>2, KeyItem DEF KeyId, Id
  <2>4. IsFiniteSet(DOMAIN types')
    <3>1. IsFiniteSet(DOMAIN types)
      BY DEF WellFormed, Entries
    <3> HIDE DEF id
    <3>2. IsFiniteSet(DOMAIN types \cup {id})
      BY <3>1, FS_AddElement
    <3> QED
      BY <2>1, <3>2
  <2> HIDE DEF id
  <2>5. id = KeyId(modules, Item(id.at, id.name)) /\ Item(id.at, id.name) \in Keys(modules)
    BY <2>3 DEF id
  <2> QED
    BY <2>1, <2>4, <2>5 DEF WellFormed, Entries
<1> QED
  BY <1>1, <1>2

LEMMA Joined ==
  ASSUME NEW X, NEW a \in Seq(X), NEW b \in Seq(X)
  PROVE  /\ a \o b \in Seq(X) /\ Len(a \o b) = Len(a) + Len(b) /\ Len(a) \in Nat /\ Len(b) \in Nat
         /\ Range(a \o b) = Range(a) \cup Range(b)
BY Positions, RangeOfBoth DEF ++

LEMMA WellFormedStep == WellFormed /\ [Next]_vars => WellFormed'
<1> SUFFICES ASSUME WellFormed, [Next]_vars PROVE WellFormed'
  OBVIOUS
<1>0. IsTab(modules) /\ IsWorkspace(src) /\ (phase \notin {"start", "refused"} => DOMAIN modules = Walked(src))
  BY ModulesTab
<1>1. CASE Walk
  <2>1. CASE src.target \in src.members
    <3>1. /\ phase' = "decls" /\ modules' = ModuleMap(src) /\ decls' = SetToSeq(WalkedDecls(src))
          /\ unvisited' = Walked(src) /\ UNCHANGED <<src, queue, types>>
      BY <1>1, <2>1 DEF Walk, WalkedDecls
    <3>2. decls' \in Seq(Keys(modules'))
      BY <1>0, <3>1, WalkQueues
    <3>3. DOMAIN types = {} /\ queue = <<>>
      <4>1. phase = "start"
        BY <1>1 DEF Walk
      <4> QED
        BY <4>1 DEF WellFormed
    <3>4. Entries'
      BY <3>1, <3>3, FS_EmptySet DEF Entries
    <3>5. queue' \in Seq(Keys(modules'))
      BY <3>1, <3>3, EmptySeq
    <3>6. unvisited' \subseteq DOMAIN modules'
      BY <1>0, <3>1, TabOf
    <3> QED
      BY <3>1, <3>2, <3>4, <3>5, <3>6 DEF WellFormed, Phases
  <2>2. CASE ~(src.target \in src.members)
    BY <1>1, <2>2 DEF Walk, WellFormed, Entries, Phases
  <2> QED
    BY <2>1, <2>2
<1>2. CASE LowerAllDecls
  <2>1. Head(decls) \in Keys(modules) /\ Tail(decls) \in Seq(Keys(modules))
    BY <1>2, HeadAndTail DEF LowerAllDecls, WellFormed
  <2>2. PICK r : r = LowerNamedDecl(Head(decls))
    OBVIOUS
  <2>3. Adds(Head(decls), r) /\ r.queue \in Seq(Keys(modules))
    BY <1>0, <2>1, <2>2, NamedDecl
  <2>4. /\ types' = r.types /\ queue' = queue \o r.queue /\ decls' = Tail(decls)
        /\ UNCHANGED <<src, phase, modules, unvisited>> /\ phase = "decls"
    BY <1>2, <2>2 DEF LowerAllDecls, Add
  <2>5. queue' \in Seq(Keys(modules))
    BY <2>3, <2>4, Joined DEF WellFormed
  <2>6. Entries'
    BY <2>1, <2>3, <2>4, EntriesGrow
  <2> QED
    BY <2>1, <2>4, <2>5, <2>6 DEF WellFormed
<1>3. CASE DrainTypeQueue
  <2>1. Head(queue) \in Keys(modules) /\ Tail(queue) \in Seq(Keys(modules))
    BY <1>3, HeadAndTail DEF DrainTypeQueue, WellFormed
  <2>2. PICK r : r = LowerNamedDecl(Head(queue))
    OBVIOUS
  <2>3. Adds(Head(queue), r) /\ r.queue \in Seq(Keys(modules))
    BY <1>0, <2>1, <2>2, NamedDecl
  <2>4. /\ types' = r.types /\ queue' = Tail(queue) \o r.queue
        /\ UNCHANGED <<src, phase, modules, unvisited, decls>> /\ phase \in {"decls", "endpoints"}
    BY <1>3, <2>2 DEF DrainTypeQueue, Add
  <2>5. queue' \in Seq(Keys(modules))
    BY <2>1, <2>3, <2>4, Joined
  <2>6. Entries'
    BY <2>1, <2>3, <2>4, EntriesGrow
  <2> QED
    BY <2>4, <2>5, <2>6 DEF WellFormed
<1>4. CASE DeclsLowered
  BY <1>4 DEF DeclsLowered, WellFormed, Entries, Phases
<1>5. ASSUME NEW m \in unvisited, LowerEndpoints(m) PROVE WellFormed'
  <2>1. m \in DOMAIN modules
    BY DEF WellFormed
  <2>2. PICK rs : rs = LoweredEndpoints(modules, m)
    OBVIOUS
  <2>3. Queued(rs) \in Seq(Keys(modules))
    BY <1>0, <2>1, <2>2, LowerEndpointsIs
  <2>4. /\ queue' = queue \o Queued(rs) /\ unvisited' = unvisited \ {m}
        /\ UNCHANGED <<src, phase, modules, decls, types>> /\ phase = "endpoints"
    BY <1>5, <2>2 DEF LowerEndpoints, AddEndpoints, LoweredEndpoints
  <2>5. queue' \in Seq(Keys(modules))
    BY <2>3, <2>4, Joined DEF WellFormed
  <2> QED
    BY <2>4, <2>5 DEF WellFormed, Entries
<1>6. CASE Extract
  BY <1>6 DEF Extract, WellFormed, Entries, Phases
<1>7. CASE Generate
  <2>1. phase = "extracted" /\ phase' \in {"skipped", "written"}
        /\ UNCHANGED <<src, modules, decls, unvisited, queue, types>>
    BY <1>7 DEF Generate
  <2> QED
    BY <2>1 DEF WellFormed, Entries, Phases
<1>8. CASE UNCHANGED vars
  BY <1>8 DEF vars, WellFormed, Entries
<1> QED
  BY <1>1, <1>2, <1>3, <1>4, <1>5, <1>6, <1>7, <1>8 DEF Next, Done

-----------------------------------------------------------------------------
(* A round ends.                                                           *)
LEMMA LessAt ==
  ASSUME NEW a1, NEW a2, NEW a3, NEW a4, NEW a5, NEW b1, NEW b2, NEW b3, NEW b4, NEW b5,
         \/ a1 < b1
         \/ a1 = b1 /\ a2 < b2
         \/ a1 = b1 /\ a2 = b2 /\ a3 < b3
         \/ a1 = b1 /\ a2 = b2 /\ a3 = b3 /\ a4 < b4
         \/ a1 = b1 /\ a2 = b2 /\ a3 = b3 /\ a4 = b4 /\ a5 < b5
  PROVE  Less(<<a1, a2, a3, a4, a5>>, <<b1, b2, b3, b4, b5>>)
<1>1. PICK a, b : a = <<a1, a2, a3, a4, a5>> /\ b = <<b1, b2, b3, b4, b5>>
  OBVIOUS
<1>2. /\ DOMAIN a = 1..5 /\ a[1] = a1 /\ a[2] = a2 /\ a[3] = a3 /\ a[4] = a4 /\ a[5] = a5
      /\ b[1] = b1 /\ b[2] = b2 /\ b[3] = b3 /\ b[4] = b4 /\ b[5] = b5
  BY <1>1
<1>3. \E i \in 1..5 : a[i] < b[i] /\ \A j \in 1..(i - 1) : a[j] = b[j]
  <2>1. CASE a1 < b1
    BY ONLY <1>2, <2>1
  <2>2. CASE a1 = b1 /\ a2 < b2
    <3>1. \A j \in 1..(2 - 1) : j = 1
      OBVIOUS
    <3> QED
      BY <1>2, <2>2, <3>1
  <2>3. CASE a1 = b1 /\ a2 = b2 /\ a3 < b3
    <3>1. \A j \in 1..(3 - 1) : j = 1 \/ j = 2
      OBVIOUS
    <3> QED
      BY <1>2, <2>3, <3>1
  <2>4. CASE a1 = b1 /\ a2 = b2 /\ a3 = b3 /\ a4 < b4
    <3>1. \A j \in 1..(4 - 1) : j = 1 \/ j = 2 \/ j = 3
      OBVIOUS
    <3> QED
      BY <1>2, <2>4, <3>1
  <2>5. CASE a1 = b1 /\ a2 = b2 /\ a3 = b3 /\ a4 = b4 /\ a5 < b5
    <3>1. \A j \in 1..(5 - 1) : j = 1 \/ j = 2 \/ j = 3 \/ j = 4
      OBVIOUS
    <3> QED
      BY <1>2, <2>5, <3>1
  <2> QED
    BY <2>1, <2>2, <2>3, <2>4, <2>5
<1>4. Less(a, b)
  BY <1>2, <1>3 DEF Less
<1> QED
  BY <1>1, <1>4

LEMMA DeclarableIs == Declarable = Declarables(src.mods)
BY DEF Declarable, Declarables, DeclaredIn

\* There are no more entries than items.
LEMMA EntriesBounded ==
  ASSUME WellFormed
  PROVE  /\ Cardinality(Declarable) \in Nat /\ Cardinality(DOMAIN types) \in Nat
         /\ Cardinality(DOMAIN types) <= Cardinality(Declarable)
<1>1. IsFiniteSet(Declarable) /\ IsTab(modules)
  BY ModulesTab, SourceItems, DeclarableIs
<1>2. IsFiniteSet(DOMAIN types)
  BY DEF WellFormed, Entries
<1> DEFINE f == [id \in DOMAIN types |-> Item(id.at, id.name)]
<1>3. ASSUME NEW id \in DOMAIN types PROVE f[id] \in Declarable
  <2>1. f[id] \in Keys(modules) /\ f[id].at = id.at /\ f[id].name = id.name
    BY DEF WellFormed, Entries, Item
  <2>2. PICK i : i \in Range(modules[id.at].items) /\ i.name = id.name
    BY <1>1, <2>1, KeyItem
  <2>3. id.at \in DOMAIN modules
    BY <1>1, <2>1, KeyItem
  <2>4. phase \notin {"start", "refused"}
    BY DEF WellFormed
  <2>5. id.at \in DOMAIN src.mods /\ modules[id.at].items = src.mods[id.at].items
    BY <2>3, <2>4, ModulesTab, SourceItems
  <2>6. Item(id.at, id.name) \in DeclaredIn(src.mods, id.at)
    BY <2>2, <2>5 DEF DeclaredIn
  <2> QED
    BY <2>5, <2>6, DeclarableIs DEF Declarables
<1>4. ASSUME NEW x \in DOMAIN types, NEW y \in DOMAIN types, f[x] = f[y] PROVE x = y
  <2>1. Item(x.at, x.name) = Item(y.at, y.name)
    BY <1>4
  <2> QED
    BY <2>1 DEF WellFormed, Entries
<1>5. f \in Injection(DOMAIN types, Declarable)
  BY <1>3, <1>4 DEF Injection, IsInjective
<1> QED
  BY <1>1, <1>2, <1>5, FS_Injection, FS_CardinalityType

LEMMA UnvisitedFinite ==
  ASSUME WellFormed
  PROVE  IsFiniteSet(unvisited) /\ Cardinality(unvisited) \in Nat
<1>1. IsFiniteSet(DOMAIN modules)
  BY ModulesTab DEF IsTab
<1> QED
  BY <1>1, FS_Subset, FS_CardinalityType DEF WellFormed

LEMMA StagesAre ==
  ASSUME NEW p \in Phases
  PROVE  /\ StagesLeft[p] \in Nat
         /\ StagesLeft["start"] = 4 /\ StagesLeft["decls"] = 3 /\ StagesLeft["endpoints"] = 2
         /\ StagesLeft["extracted"] = 1 /\ StagesLeft["refused"] = 0 /\ StagesLeft["skipped"] = 0
         /\ StagesLeft["written"] = 0
BY DEF StagesLeft, Phases

\* The declaration at the head of a queue is known, or one more is known than was.
LEMMA KnownOrNew ==
  ASSUME WellFormed, NEW key \in Keys(modules), NEW r, Adds(key, r)
  PROVE  \/ r.types = types /\ r.queue = <<>>
         \/ Cardinality(DOMAIN r.types) = Cardinality(DOMAIN types) + 1
<1> SUFFICES ASSUME r.types # types \/ r.queue # <<>>
             PROVE  Cardinality(DOMAIN r.types) = Cardinality(DOMAIN types) + 1
  OBVIOUS
<1>1. PICK id : id \notin DOMAIN types /\ DOMAIN r.types = DOMAIN types \cup {id}
  BY DEF Adds
<1>2. IsFiniteSet(DOMAIN types)
  BY DEF WellFormed, Entries
<1> QED
  BY <1>1, <1>2, FS_AddElement

LEMMA EndsStep == WellFormed /\ [Next]_vars => [Less(Left', Left)]_vars
<1> SUFFICES ASSUME WellFormed, Next PROVE Less(Left', Left) \/ UNCHANGED vars
  OBVIOUS
<1>0. IsTab(modules)
  BY ModulesTab
<1>1. /\ phase \in Phases /\ phase' \in Phases
  BY WellFormedStep DEF WellFormed
<1>2. /\ Cardinality(unvisited) \in Nat /\ Len(decls) \in Nat /\ Len(queue) \in Nat
      /\ Cardinality(DOMAIN types) \in Nat /\ Cardinality(Declarable) \in Nat
  <2>1. decls \in Seq(Keys(modules)) /\ queue \in Seq(Keys(modules))
    BY DEF WellFormed
  <2>2. Len(decls) \in Nat /\ Len(queue) \in Nat
    BY <2>1, LenProperties
  <2> QED
    BY <2>2, EntriesBounded, UnvisitedFinite
<1>3. ASSUME StagesLeft[phase'] < StagesLeft[phase] PROVE Less(Left', Left)
  BY <1>3, LessAt DEF Left
<1>4. CASE Walk
  BY <1>1, <1>3, <1>4, StagesAre DEF Walk
<1>5. CASE LowerAllDecls
  <2>1. Len(decls') < Len(decls)
    BY <1>5, HeadAndTail DEF LowerAllDecls, WellFormed
  <2>2. phase' = phase /\ unvisited' = unvisited
    BY <1>5 DEF LowerAllDecls
  <2> QED
    BY <2>1, <2>2, LessAt DEF Left
<1>6. CASE DrainTypeQueue
  <2>1. Head(queue) \in Keys(modules) /\ Tail(queue) \in Seq(Keys(modules)) /\ Len(Tail(queue)) = Len(queue) - 1
    BY <1>6, HeadAndTail DEF DrainTypeQueue, WellFormed
  <2>2. PICK r : r = LowerNamedDecl(Head(queue))
    OBVIOUS
  <2>3. Adds(Head(queue), r)
    BY <1>0, <2>1, <2>2, NamedDecl
  <2>4. /\ types' = r.types /\ queue' = Tail(queue) \o r.queue
        /\ phase' = phase /\ unvisited' = unvisited /\ decls' = decls /\ src' = src
    BY <1>6, <2>2 DEF DrainTypeQueue, Add
  <2>5. Declarable' = Declarable
    BY <2>4 DEF Declarable
  <2>6. CASE r.types = types /\ r.queue = <<>>
    <3>1. queue' = Tail(queue)
      BY <2>1, <2>4, <2>6, Neutral DEF ++
    <3>2. Len(queue') < Len(queue)
      BY <1>2, <2>1, <3>1
    <3> QED
      BY <2>4, <2>5, <2>6, <3>2, LessAt DEF Left
  <2>7. CASE Cardinality(DOMAIN r.types) = Cardinality(DOMAIN types) + 1
    <3>1. Cardinality(Declarable) - Cardinality(DOMAIN types') < Cardinality(Declarable) - Cardinality(DOMAIN types)
      BY <1>2, <2>4, <2>7
    <3> QED
      BY <2>4, <2>5, <3>1, LessAt DEF Left
  <2> QED
    BY <2>1, <2>3, <2>6, <2>7, KnownOrNew
<1>7. CASE DeclsLowered
  BY <1>1, <1>3, <1>7, StagesAre DEF DeclsLowered
<1>8. ASSUME NEW m \in unvisited, LowerEndpoints(m) PROVE Less(Left', Left)
  <2>1. phase' = phase /\ unvisited' = unvisited \ {m}
    BY <1>8 DEF LowerEndpoints
  <2>2. Cardinality(unvisited') < Cardinality(unvisited)
    <3>1. IsFiniteSet(unvisited)
      BY UnvisitedFinite
    <3>2. Cardinality(unvisited \ {m}) = Cardinality(unvisited) - 1
      BY <3>1, FS_RemoveElement
    <3> QED
      BY <1>2, <2>1, <3>2
  <2> QED
    BY <2>1, <2>2, LessAt DEF Left
<1>9. CASE Extract
  BY <1>1, <1>3, <1>9, StagesAre DEF Extract
<1>10. CASE Generate
  <2>1. phase = "extracted" /\ phase' \in {"skipped", "written"}
    BY <1>10 DEF Generate
  <2> QED
    BY <1>1, <1>3, <2>1, StagesAre
<1> QED
  BY <1>4, <1>5, <1>6, <1>7, <1>8, <1>9, <1>10 DEF Next, Done

\* Between two steps the state of a round is well formed: what is queued is declared, and what is
\* known was declared under its name, once.
THEOREM RoundsWellFormed == Spec => []WellFormed
<1> QED BY WellFormedInit, WellFormedStep, PTL DEF Spec

\* Every step leaves less to do.
THEOREM GenerationEndsAlways == Spec => GenerationEnds
<1> QED BY RoundsWellFormed, EndsStep, PTL DEF Spec, GenerationEnds

\* What is left is counted in natural numbers, so that it cannot become less for ever.
LeftBounded == Left \in Nat \X Nat \X Nat \X Nat \X Nat

THEOREM LeftIsBounded == Spec => []LeftBounded
<1>1. WellFormed => LeftBounded
  <2> SUFFICES ASSUME WellFormed PROVE LeftBounded
    OBVIOUS
  <2>1. decls \in Seq(Keys(modules)) /\ queue \in Seq(Keys(modules)) /\ phase \in Phases
    BY DEF WellFormed
  <2>2. Len(decls) \in Nat /\ Len(queue) \in Nat /\ StagesLeft[phase] \in Nat
    BY <2>1, LenProperties, StagesAre
  <2>3. Cardinality(unvisited) \in Nat /\ Cardinality(Declarable) - Cardinality(DOMAIN types) \in Nat
    BY EntriesBounded, UnvisitedFinite
  <2> QED
    BY <2>2, <2>3 DEF LeftBounded, Left
<1> QED
  BY <1>1, RoundsWellFormed, PTL

-----------------------------------------------------------------------------
(* What has been lowered, and where it came from.                          *)

\* A declaration that is referred to is known, or waits for its turn, or is passed over.
Met(k) ==
  \/ k \in Range(queue)
  \/ ItemAt(modules, k).kind = "error struct"
  \/ KeyId(modules, k) \in DOMAIN types

HasType(ty) ==
  /\ ty \in TypeRecs /\ ty # NoType /\ ty.kind # "none"
  /\ ty.kind \in {"type", "error"} =>
       Met(Item(ty.at, ty.name)) /\ ApiItemKind(FindItem(modules, ty.at, ty.name)) = ty.kind
MayHave(ty) == ty = NoType \/ HasType(ty)

DeclHas(d) ==
  /\ IsSeq(d.variants)
  /\ \A v \in Range(d.variants) : IsSeq(v.fields) /\ \A f \in Range(v.fields) : HasType(f.ty)

EndpointHas(x) ==
  /\ x = EndpointRec(x) /\ x.ts_name = ToCamelCase(x.rust_name)
  /\ x.at \in DOMAIN modules
  /\ Of(x) \in EndpointFnsIn(modules, x.at) /\ Of(x).name = x.rust_name
  /\ ParamsTyped(x.path_params) /\ ParamsTyped(x.query_params)
  /\ x.body_ty # NoType <=> x.body = "json"
  /\ MayHave(x.body_ty) /\ MayHave(x.success_ty) /\ MayHave(x.error)
  /\ x.error.kind \in {"none", "error"}

AllTyped ==
  /\ \A id \in DOMAIN types : DeclHas(types[id])
  /\ IsFiniteSet(endpoints) /\ \A x \in endpoints : EndpointHas(x)

\* Where nothing was reported, nothing was dropped.
AllMade ==
  ~HasErrors =>
    /\ \A id \in DOMAIN types : DeclMade(modules, id.at, FindItem(modules, id.at, id.name), types[id])
    /\ \A x \in endpoints : EndpointMade(Of(x), x)
    /\ \A m \in DOMAIN modules \ unvisited : \A i \in EndpointFnsIn(modules, m) :
         \E x \in endpoints : x.at = m /\ x.rust_name = i.name

Reached == {types[id] : id \in ReachableIds(endpoints, types) \cap DOMAIN types}

Contracted ==
  phase \in {"extracted", "skipped", "written"} =>
    /\ queue = <<>> /\ unvisited = {}
    /\ contract = [endpoints |-> endpoints, types |-> NsDecls(Reached, "type"),
                   errors |-> NsDecls(Reached, "error")]
    /\ ~HasErrors => NameCollisions(endpoints, Reached) = {}

Packaged ==
  phase = "written" =>
    /\ ~HasErrors /\ GenerationDiagnostics(contract) = {}
    /\ package = LowerPackage(contract)

RoundInv == WellFormed /\ AllTyped /\ AllMade /\ Contracted /\ Packaged

LEMMA ErrorsStay == ASSUME diags \subseteq diags', HasErrors PROVE HasErrors'
BY DEF HasErrors

LEMMA TypeStays ==
  ASSUME modules' = modules, \A k : Met(k) => Met(k)'
  PROVE  /\ \A ty : HasType(ty) => HasType(ty)'
         /\ \A ty : MayHave(ty) => MayHave(ty)'
         /\ \A d : DeclHas(d) => DeclHas(d)'
         /\ \A x : EndpointHas(x) => EndpointHas(x)'
<1>1. \A ty : HasType(ty) => HasType(ty)'
  BY DEF HasType
<1>2. \A ty : MayHave(ty) => MayHave(ty)'
  BY <1>1 DEF MayHave
<1>3. \A d : DeclHas(d) => DeclHas(d)'
  BY <1>1 DEF DeclHas
<1>4. \A x : EndpointHas(x) => EndpointHas(x)'
  BY <1>2 DEF EndpointHas, Of, SourceItem
<1> QED
  BY <1>1, <1>2, <1>3, <1>4

\* A type whose references are in a queue that is met from now on.
LEMMA NowTyped ==
  ASSUME modules' = modules, NEW q, \A k \in Range(q) : Met(k)'
  PROVE  /\ \A ty : TypeOk(modules, ty, q) => HasType(ty)'
         /\ \A ty : SomeType(modules, ty, q) => MayHave(ty)'
<1>1. \A ty : TypeOk(modules, ty, q) => HasType(ty)'
  BY DEF TypeOk, HasType, Refers
<1> QED
  BY <1>1 DEF SomeType, MayHave

LEMMA DeclNowTyped ==
  ASSUME modules' = modules, NEW q, \A k \in Range(q) : Met(k)', NEW d, DeclTyped(modules, d, q)
  PROVE  DeclHas(d)'
BY NowTyped DEF DeclTyped, FieldsTyped, DeclHas

LEMMA EndpointNowTyped ==
  ASSUME modules' = modules, IsTab(modules), NEW q, \A k \in Range(q) : Met(k)',
         NEW m \in DOMAIN modules, NEW e \in EndpointFnsIn(modules, m), NEW x,
         NamedAfter(m, e, x), EndpointTyped(modules, x, q)
  PROVE  EndpointHas(x)' /\ Of(x) = e
<1>1. x.at = m /\ x.rust_name = e.name /\ x = EndpointRec(x) /\ x.ts_name = ToCamelCase(e.name)
  BY DEF NamedAfter
<1>2. e \in Range(modules[m].items)
  BY DEF EndpointFnsIn
<1>3. FindItem(modules, m, e.name) = e
  BY <1>2, FindItemIs
<1>4. Of(x) = e /\ Of(x)' = e
  BY <1>1, <1>3 DEF Of, SourceItem
<1>5. MayHave(x.body_ty)' /\ MayHave(x.success_ty)' /\ MayHave(x.error)'
  BY NowTyped DEF EndpointTyped
<1> QED
  BY <1>1, <1>4, <1>5 DEF EndpointTyped, EndpointHas

\* The head of a queue has been lowered: what was met still is.
LEMMA AddsMet ==
  ASSUME WellFormed, NEW key \in Keys(modules), NEW r, Adds(key, r), types' = r.types, modules' = modules,
         \A k \in Range(queue) : k = key \/ k \in Range(queue'), NEW k, Met(k)
  PROVE  Met(k)'
<1>1. CASE k \in Range(queue')
  BY <1>1 DEF Met
<1>2. CASE ItemAt(modules, k).kind = "error struct"
  BY <1>2 DEF Met, ItemAt
<1>3. DOMAIN types \subseteq DOMAIN types'
  BY DEF Adds
<1>4. CASE KeyId(modules, k) \in DOMAIN types
  BY <1>3, <1>4 DEF Met, KeyId, ItemAt
<1>5. CASE k = key
  <2>1. ItemAt(modules, key).kind = "error struct" \/ KeyId(modules, key) \in DOMAIN types'
    BY DEF Adds
  <2> QED
    BY <1>5, <2>1 DEF Met, KeyId, ItemAt
<1> QED
  BY <1>1, <1>2, <1>4, <1>5 DEF Met

LEMMA AddsKept ==
  ASSUME WellFormed, AllTyped, AllMade, NEW key \in Keys(modules), NEW r, Adds(key, r), types' = r.types,
         diags' = diags \cup r.diags, UNCHANGED <<modules, unvisited, endpoints>>,
         \A k \in Range(queue) : k = key \/ k \in Range(queue'),
         \A k \in Range(r.queue) : k \in Range(queue')
  PROVE  AllTyped' /\ AllMade'
<1> DEFINE id == KeyId(modules, key)
<1>1. \A k : Met(k) => Met(k)'
  BY AddsMet
<1>2. \A k \in Range(r.queue) : Met(k)'
  BY DEF Met
<1>3. /\ r.types = types
      \/ /\ DOMAIN types' = DOMAIN types \cup {id} /\ \A x \in DOMAIN types : types'[x] = types[x]
         /\ id \notin DOMAIN types
         /\ DeclResult(modules, key.at, ItemAt(modules, key), id,
                       [decl |-> types'[id], queue |-> r.queue, diags |-> r.diags])
  BY DEF Adds
<1>4. id.at = key.at /\ id.name = key.name
  BY DEF KeyId, Id
<1>5. FindItem(modules, id.at, id.name) = ItemAt(modules, key)
  BY <1>4 DEF ItemAt
<1> HIDE DEF id
<1>6. ASSUME NEW x \in DOMAIN types' PROVE DeclHas(types[x])'
  <2>1. PICK d : d = types'[x]
    OBVIOUS
  <2>2. DeclHas(d)'
    <3>1. CASE x \in DOMAIN types
      <4>1. DeclHas(d)
        BY <1>3, <2>1, <3>1 DEF AllTyped
      <4> QED
        BY <1>1, <4>1, TypeStays
    <3>2. CASE x \notin DOMAIN types
      <4>1. x = id /\ DeclTyped(modules, d, r.queue)
        BY <1>3, <2>1, <3>2 DEF DeclResult
      <4> QED
        BY <1>2, <4>1, DeclNowTyped
    <3> QED
      BY <3>1, <3>2
  <2> QED
    BY <2>1, <2>2
<1>7. AllTyped'
  <2>1. \A x \in endpoints : EndpointHas(x)'
    BY <1>1, TypeStays DEF AllTyped
  <2> QED
    BY <1>6, <2>1 DEF AllTyped
<1>8. ASSUME ~HasErrors' PROVE ~HasErrors /\ ~Error(r.diags)
  BY <1>8 DEF HasErrors, Error
<1>9. ASSUME ~HasErrors', NEW x \in DOMAIN types'
      PROVE  DeclMade(modules, x.at, FindItem(modules, x.at, x.name), types'[x])
  <2>1. CASE x \in DOMAIN types
    BY <1>3, <1>8, <1>9, <2>1 DEF AllMade
  <2>2. CASE x \notin DOMAIN types
    <3>1. x = id /\ DeclMade(modules, key.at, ItemAt(modules, key), types'[id])
      BY <1>3, <1>8, <1>9, <2>2 DEF DeclResult
    <3> QED
      BY <1>4, <1>5, <3>1
  <2> QED
    BY <2>1, <2>2
<1> QED
  BY <1>7, <1>8, <1>9 DEF AllMade, Of, SourceItem
LEMMA EndpointsKept ==
  ASSUME WellFormed, AllTyped, AllMade, phase = "endpoints", NEW m \in unvisited, LowerEndpoints(m)
  PROVE  AllTyped' /\ AllMade'
<1>0. IsTab(modules) /\ m \in DOMAIN modules
  BY ModulesTab DEF WellFormed
<1>1. PICK rs : rs = LoweredEndpoints(modules, m)
  OBVIOUS
<1>2. /\ IsFiniteSet(EndpointsIn(rs))
      /\ \A x \in EndpointsIn(rs) : \E e \in EndpointFnsIn(modules, m) :
           /\ NamedAfter(m, e, x) /\ EndpointTyped(modules, x, Queued(rs))
           /\ ~Error(Reported(rs)) => EndpointMade(e, x)
      /\ ~Error(Reported(rs)) =>
           \A e \in EndpointFnsIn(modules, m) : \E x \in EndpointsIn(rs) : NamedAfter(m, e, x)
      /\ Queued(rs) \in Seq(Keys(modules))
  BY <1>0, <1>1, LowerEndpointsIs
<1>3. /\ queue' = queue \o Queued(rs) /\ unvisited' = unvisited \ {m} /\ diags' = diags \cup Reported(rs)
      /\ endpoints' = endpoints \cup EndpointsIn(rs) /\ UNCHANGED <<modules, types>>
  BY <1>1 DEF LowerEndpoints, AddEndpoints, LoweredEndpoints, EndpointsIn
<1>4. Range(queue') = Range(queue) \cup Range(Queued(rs))
  BY <1>2, <1>3, Joined DEF WellFormed
<1>5. /\ \A k : Met(k) => Met(k)'
      /\ \A k \in Range(Queued(rs)) : Met(k)'
  BY <1>3, <1>4 DEF Met, ItemAt, KeyId
<1>6. ASSUME NEW x \in endpoints' PROVE EndpointHas(x)'
  <2>1. CASE x \in endpoints
    BY <1>3, <1>5, <2>1, TypeStays DEF AllTyped
  <2>2. CASE x \in EndpointsIn(rs)
    BY <1>0, <1>2, <1>3, <1>5, <2>2, EndpointNowTyped
  <2> QED
    BY <1>3, <2>1, <2>2
<1>7. ASSUME NEW id \in DOMAIN types' PROVE DeclHas(types[id])'
  <2>1. PICK d : d = types[id] /\ d = types'[id]
    BY <1>3
  <2>2. DeclHas(d)
    BY <1>3, <2>1 DEF AllTyped
  <2>3. DeclHas(d)'
    BY <1>3, <1>5, <2>2, TypeStays
  <2> QED
    BY <2>1, <2>3
<1>8. IsFiniteSet(endpoints')
  BY <1>2, <1>3, FS_Union DEF AllTyped
<1>9. ASSUME ~HasErrors' PROVE ~HasErrors /\ ~Error(Reported(rs))
  BY <1>3, <1>9 DEF HasErrors, Error
<1>10. ASSUME ~HasErrors', NEW x \in endpoints' PROVE EndpointMade(Of(x), x)
  <2>1. CASE x \in endpoints
    BY <1>9, <1>10, <2>1 DEF AllMade
  <2>2. CASE x \in EndpointsIn(rs)
    <3>1. PICK e \in EndpointFnsIn(modules, m) :
            NamedAfter(m, e, x) /\ EndpointTyped(modules, x, Queued(rs)) /\ EndpointMade(e, x)
      BY <1>2, <1>9, <1>10, <2>2
    <3>2. Of(x) = e
      BY <1>0, <1>3, <1>5, <3>1, EndpointNowTyped
    <3> QED
      BY <3>1, <3>2
  <2> QED
    BY <1>3, <2>1, <2>2
<1>11. ASSUME ~HasErrors', NEW n \in DOMAIN modules \ unvisited', NEW i \in EndpointFnsIn(modules, n)
       PROVE  \E x \in endpoints' : x.at = n /\ x.rust_name = i.name
  <2>1. CASE n \in unvisited
    <3>1. n = m
      BY <1>3, <1>11, <2>1
    <3>2. PICK x \in EndpointsIn(rs) : NamedAfter(m, i, x)
      BY <1>2, <1>9, <1>11, <3>1
    <3> QED
      BY <1>3, <3>1, <3>2 DEF NamedAfter
  <2>2. CASE n \notin unvisited
    BY <1>3, <1>9, <1>11, <2>2 DEF AllMade
  <2> QED
    BY <2>1, <2>2
<1> QED
  <2>1. AllTyped'
    BY <1>6, <1>7, <1>8 DEF AllTyped
  <2>2. AllMade'
    BY <1>3, <1>9, <1>10, <1>11 DEF AllMade, Of, SourceItem
  <2> QED
    BY <2>1, <2>2

\* A step that leaves what was lowered as it was.
LEMMA SameKept ==
  ASSUME AllTyped, AllMade, UNCHANGED <<modules, types, endpoints, unvisited, queue>>, diags \subseteq diags'
  PROVE  AllTyped' /\ AllMade'
<1>1. HasErrors => HasErrors'
  BY DEF HasErrors
<1>2. AllTyped'
  BY ZenonT(60) DEF AllTyped, EndpointHas, DeclHas, MayHave, HasType, Met, ItemAt, KeyId, Of, SourceItem
<1>3. AllMade'
  BY <1>1 DEF AllMade, Of, SourceItem
<1> QED
  BY <1>2, <1>3

\* Mounting an endpoint changes its route and how often it is mounted.
Mounts(x, y) ==
  /\ y = EndpointRec(y)
  /\ y.at = x.at /\ y.rust_name = x.rust_name /\ y.ts_name = x.ts_name /\ y.ts_module = x.ts_module
  /\ y.path_params = x.path_params /\ y.query_params = x.query_params
  /\ y.body = x.body /\ y.body_ty = x.body_ty /\ y.transport = x.transport
  /\ y.success_ty = x.success_ty /\ y.error = x.error

LEMMA ApplyMountsIs ==
  ASSUME NEW x, x = EndpointRec(x), NEW mounted
  PROVE  Mounts(x, ApplyMounts(x, mounted).endpoint)
<1>1. Mounts(x, x)
  BY DEF Mounts
<1>2. ASSUME NEW route, NEW n PROVE Mounts(x, [x EXCEPT !.route = route, !.mounts = n])
  <2>1. PICK y : y = [x EXCEPT !.route = route]
    OBVIOUS
  <2>2. x = [at |-> x.at, rust_name |-> x.rust_name, ts_name |-> x.ts_name,
              ts_module |-> x.ts_module, route |-> x.route, method |-> x.method,
              path_params |-> x.path_params, query_params |-> x.query_params, body |-> x.body,
              body_ty |-> x.body_ty, transport |-> x.transport, success_ty |-> x.success_ty,
              error |-> x.error, mounts |-> x.mounts, allow_unused |-> x.allow_unused]
    BY DEF EndpointRec
  <2>3. y = [at |-> x.at, rust_name |-> x.rust_name, ts_name |-> x.ts_name,
              ts_module |-> x.ts_module, route |-> route, method |-> x.method,
              path_params |-> x.path_params, query_params |-> x.query_params, body |-> x.body,
              body_ty |-> x.body_ty, transport |-> x.transport, success_ty |-> x.success_ty,
              error |-> x.error, mounts |-> x.mounts, allow_unused |-> x.allow_unused]
    BY <2>1, <2>2
  <2>4. PICK z : z = [y EXCEPT !.mounts = n]
    OBVIOUS
  <2>5. z = [at |-> x.at, rust_name |-> x.rust_name, ts_name |-> x.ts_name,
              ts_module |-> x.ts_module, route |-> route, method |-> x.method,
              path_params |-> x.path_params, query_params |-> x.query_params, body |-> x.body,
              body_ty |-> x.body_ty, transport |-> x.transport, success_ty |-> x.success_ty,
              error |-> x.error, mounts |-> n, allow_unused |-> x.allow_unused]
    BY <2>3, <2>4
  <2>6. [x EXCEPT !.route = route, !.mounts = n] = z
    BY <2>1, <2>4
  <2>7. Mounts(x, z)
    BY <2>5 DEF Mounts, EndpointRec
  <2> QED
    BY <2>6, <2>7
<1> QED
  BY <1>1, <1>2 DEF ApplyMounts

LEMMA FiniteOf ==
  ASSUME NEW S, IsFiniteSet(S), NEW mounted
  PROVE  IsFiniteSet({ApplyMounts(e, mounted).endpoint : e \in S})
<1> DEFINE f == [e \in S |-> ApplyMounts(e, mounted).endpoint]
<1>1. {ApplyMounts(e, mounted).endpoint : e \in S} = {f[e] : e \in S}
  OBVIOUS
<1>2. f = [e \in S |-> f[e]]
  OBVIOUS
<1> HIDE DEF f
<1> QED
  BY <1>1, <1>2, FiniteImage

LEMMA MountedHas ==
  ASSUME UNCHANGED <<modules, types, queue>>, NEW x, EndpointHas(x), NEW y, Mounts(x, y)
  PROVE  EndpointHas(y)' /\ Of(y) = Of(x)
<1>1. Of(y) = Of(x)
  BY DEF Mounts, Of
<1>2. \A ty : MayHave(ty) => MayHave(ty)'
  BY DEF MayHave, HasType, Met, ItemAt, KeyId
<1> QED
  BY <1>1, <1>2 DEF EndpointHas, Mounts, Of, SourceItem

LEMMA Collided ==
  ASSUME NEW es, NEW ds
  PROVE  \A d \in NameCollisions(es, ds) : d.error
<1>1. NameCollisions(es, ds) = {Err("name-collision")} \/ NameCollisions(es, ds) = {}
  <2>1. ASSUME NEW s, NEW p \in BOOLEAN, s = IF p THEN {Err("name-collision")} ELSE {}
        PROVE  s = {Err("name-collision")} \/ s = {}
    BY <2>1
  <2> QED
    BY ZenonT(20) DEF NameCollisions
<1>2. Err("name-collision").error
  BY DEF Err
<1> HIDE DEF NameCollisions
<1> QED
  BY <1>1, <1>2

LEMMA ExtractKept ==
  ASSUME RoundInv, Extract
  PROVE  AllTyped' /\ AllMade' /\ Contracted' /\ Packaged'
<1>1. PICK mounted : mounted = Mounted(Routers(modules))
  OBVIOUS
<1> DEFINE eps == {ApplyMounts(e, mounted).endpoint : e \in endpoints}
           reached == {types[id] : id \in ReachableIds(eps, types) \cap DOMAIN types}
<1>2. /\ endpoints' = eps /\ NameCollisions(eps, reached) \subseteq diags' /\ diags \subseteq diags'
      /\ contract' = [endpoints |-> eps, types |-> NsDecls(reached, "type"), errors |-> NsDecls(reached, "error")]
      /\ phase' = "extracted" /\ queue = <<>> /\ unvisited = {}
      /\ UNCHANGED <<src, modules, decls, unvisited, queue, types, package>>
  BY <1>1 DEF Extract
<1>3. HasErrors => HasErrors'
  BY <1>2, ErrorsStay
<1>4. \A e \in endpoints : EndpointHas(e) /\ Mounts(e, ApplyMounts(e, mounted).endpoint)
  <2>1. ASSUME NEW e \in endpoints PROVE EndpointHas(e) /\ e = EndpointRec(e)
    BY DEF RoundInv, AllTyped, EndpointHas
  <2> QED
    BY <2>1, ApplyMountsIs
<1>5. AllTyped'
  <2>1. IsFiniteSet(endpoints')
    BY <1>2, FiniteOf DEF RoundInv, AllTyped
  <2>2. \A y \in endpoints' : EndpointHas(y)'
    BY <1>2, <1>4, MountedHas
  <2>3. \A d : DeclHas(d) => DeclHas(d)'
    BY <1>2 DEF DeclHas, HasType, Met, ItemAt, KeyId
  <2>4. \A id \in DOMAIN types : DeclHas(types[id])
    BY DEF RoundInv, AllTyped
  <2>5. ASSUME NEW id \in DOMAIN types' PROVE DeclHas(types[id])'
    <3>1. PICK d : d = types[id] /\ d = types'[id]
      BY <1>2
    <3>2. DeclHas(d)'
      BY <1>2, <2>3, <2>4, <3>1
    <3> QED
      BY <3>1, <3>2
  <2> QED
    BY <2>1, <2>2, <2>5 DEF AllTyped
<1>6. AllMade'
  <2> SUFFICES ASSUME ~HasErrors' PROVE AllMade'
    BY DEF AllMade
  <2>1. /\ \A id \in DOMAIN types : DeclMade(modules, id.at, FindItem(modules, id.at, id.name), types[id])
        /\ \A x \in endpoints : EndpointMade(Of(x), x)
        /\ \A m \in DOMAIN modules \ unvisited : \A i \in EndpointFnsIn(modules, m) :
             \E x \in endpoints : x.at = m /\ x.rust_name = i.name
    BY <1>3 DEF RoundInv, AllMade
  <2>2. ASSUME NEW y \in endpoints' PROVE EndpointMade(Of(y), y)
    <3>1. PICK x \in endpoints : y = ApplyMounts(x, mounted).endpoint
      BY <1>2
    <3>2. Mounts(x, y) /\ EndpointMade(Of(x), x) /\ Of(y) = Of(x)
      BY <1>2, <1>4, <2>1, <3>1, MountedHas
    <3> QED
      BY <3>2 DEF Mounts, EndpointMade
  <2>3. ASSUME NEW m \in DOMAIN modules \ unvisited, NEW i \in EndpointFnsIn(modules, m)
        PROVE  \E y \in endpoints' : y.at = m /\ y.rust_name = i.name
    <3>1. PICK x \in endpoints : x.at = m /\ x.rust_name = i.name
      BY <2>1
    <3>2. Mounts(x, ApplyMounts(x, mounted).endpoint) /\ ApplyMounts(x, mounted).endpoint \in endpoints'
      BY <1>2, <1>4
    <3> QED
      BY <3>1, <3>2 DEF Mounts
  <2> QED
    BY <1>2, <2>1, <2>2, <2>3 DEF AllMade, Of, SourceItem
<1>7. reached = Reached'
  BY <1>2 DEF Reached
<1>8. ~HasErrors' => NameCollisions(eps, reached) = {}
  <2>1. \A d \in NameCollisions(eps, reached) : d.error
    BY Collided
  <2> HIDE DEF eps, reached
  <2> QED
    BY <1>2, <2>1 DEF HasErrors
<1> HIDE DEF eps, reached
<1>9. Contracted' /\ Packaged'
  BY <1>2, <1>7, <1>8 DEF Contracted, Packaged
<1> QED
  BY <1>5, <1>6, <1>9

LEMMA GenerateKept ==
  ASSUME RoundInv, Generate
  PROVE  AllTyped' /\ AllMade' /\ Contracted' /\ Packaged'
<1>1. phase = "extracted" /\ phase' \in {"skipped", "written"}
      /\ UNCHANGED <<src, modules, decls, unvisited, queue, types, endpoints, contract>> /\ diags \subseteq diags'
  BY DEF Generate
<1>2. HasErrors => HasErrors'
  BY <1>1, ErrorsStay
<1>3. AllTyped' /\ AllMade'
  BY <1>1, SameKept DEF RoundInv
<1>4. Reached' = Reached
  BY <1>1 DEF Reached
<1>5. Contracted'
  BY <1>1, <1>2, <1>4 DEF RoundInv, Contracted
<1>6. ASSUME phase' = "written"
      PROVE  ~HasErrors' /\ GenerationDiagnostics(contract) = {} /\ package' = LowerPackage(contract)
  <2>1. PICK found : found = GenerationDiagnostics(contract)
    OBVIOUS
  <2>2. \A d \in found : d.error
    BY <2>1 DEF GenerationDiagnostics, Err
  <2>3. ~HasErrors /\ diags' = diags \cup found /\ (~\E d \in found : d.error) /\ package' = LowerPackage(contract)
    BY <1>6, <2>1 DEF Generate
  <2>4. found = {}
    BY <2>2, <2>3
  <2> QED
    BY <2>1, <2>3, <2>4 DEF HasErrors
<1>7. Packaged'
  BY <1>1, <1>6 DEF Packaged
<1> QED
  BY <1>3, <1>5, <1>7

LEMMA RoundInit == Init => RoundInv
<1> SUFFICES ASSUME Init PROVE RoundInv
  OBVIOUS
<1>1. DOMAIN types = {} /\ endpoints = {} /\ phase = "start" /\ DOMAIN modules = {}
  BY NoModules DEF Init
<1>2. IsFiniteSet(endpoints)
  BY <1>1, FS_EmptySet
<1> QED
  BY <1>1, <1>2, WellFormedInit DEF RoundInv, AllTyped, AllMade, Contracted, Packaged

LEMMA RoundStep == RoundInv /\ [Next]_vars => RoundInv'
<1> SUFFICES ASSUME RoundInv, [Next]_vars PROVE RoundInv'
  OBVIOUS
<1>0. WellFormed' /\ WellFormed
  BY WellFormedStep DEF RoundInv
<1>1. IsTab(modules)
  BY <1>0, ModulesTab
<1>2. ASSUME AllTyped' /\ AllMade', phase' \in Phases \ {"extracted", "skipped", "written"} PROVE RoundInv'
  BY <1>0, <1>2 DEF RoundInv, Contracted, Packaged
<1>3. CASE Walk
  <2>1. phase = "start" /\ phase' \in {"decls", "refused"} /\ UNCHANGED <<types, endpoints>>
    BY <1>3 DEF Walk
  <2>2. DOMAIN types = {} /\ endpoints = {}
    BY <1>0, <2>1 DEF WellFormed
  <2>3. AllTyped'
    BY <2>1, <2>2, FS_EmptySet DEF AllTyped
  <2>4. DOMAIN modules' \ unvisited' = {}
    <3>1. CASE src.target \in src.members
      <4>1. modules' = ModuleMap(src) /\ unvisited' = Walked(src)
        BY <1>3, <3>1 DEF Walk
      <4> QED
        BY <1>0, <4>1, ModulesTab, TabOf
    <3>2. CASE ~(src.target \in src.members)
      <4>1. modules' = modules /\ modules = <<>>
        BY <1>0, <1>3, <2>1, <3>2 DEF Walk, WellFormed
      <4> QED
        BY <4>1, NoModules
    <3> QED
      BY <3>1, <3>2
  <2>5. AllMade'
    BY <2>1, <2>2, <2>4 DEF AllMade
  <2> QED
    BY <1>2, <2>1, <2>3, <2>5 DEF Phases
<1>4. CASE LowerAllDecls
  <2>1. decls \in Seq(Keys(modules)) /\ Head(decls) \in Keys(modules)
    BY <1>0, <1>4, HeadAndTail DEF LowerAllDecls, WellFormed
  <2>2. PICK r : r = LowerNamedDecl(Head(decls))
    OBVIOUS
  <2>3. Adds(Head(decls), r) /\ r.queue \in Seq(Keys(modules))
    BY <1>1, <2>1, <2>2, NamedDecl
  <2>4. /\ types' = r.types /\ queue' = queue \o r.queue /\ diags' = diags \cup r.diags
        /\ UNCHANGED <<modules, unvisited, endpoints>> /\ phase' = "decls"
    BY <1>4, <2>2 DEF LowerAllDecls, Add
  <2>5. Range(queue') = Range(queue) \cup Range(r.queue)
    BY <1>0, <2>3, <2>4, Joined DEF WellFormed
  <2>6. AllTyped' /\ AllMade'
    BY <1>0, <2>1, <2>3, <2>4, <2>5, AddsKept DEF RoundInv
  <2> QED
    BY <1>2, <2>4, <2>6 DEF Phases
<1>5. CASE DrainTypeQueue
  <2>1. /\ Head(queue) \in Keys(modules) /\ Tail(queue) \in Seq(Keys(modules))
        /\ \A x \in Range(queue) : x = Head(queue) \/ x \in Range(Tail(queue))
    BY <1>0, <1>5, HeadAndTail DEF DrainTypeQueue, WellFormed
  <2>2. PICK r : r = LowerNamedDecl(Head(queue))
    OBVIOUS
  <2>3. Adds(Head(queue), r) /\ r.queue \in Seq(Keys(modules))
    BY <1>1, <2>1, <2>2, NamedDecl
  <2>4. /\ types' = r.types /\ queue' = Tail(queue) \o r.queue /\ diags' = diags \cup r.diags
        /\ UNCHANGED <<modules, unvisited, endpoints>> /\ phase' \in {"decls", "endpoints"}
    BY <1>5, <2>2 DEF DrainTypeQueue, Add
  <2>5. Range(queue') = Range(Tail(queue)) \cup Range(r.queue)
    BY <2>1, <2>3, <2>4, Joined
  <2>6. AllTyped' /\ AllMade'
    BY <1>0, <2>1, <2>3, <2>4, <2>5, AddsKept DEF RoundInv
  <2> QED
    BY <1>2, <2>4, <2>6 DEF Phases
<1>6. CASE DeclsLowered
  <2>1. phase' = "endpoints" /\ UNCHANGED <<modules, types, endpoints, unvisited, queue, diags>>
    BY <1>6 DEF DeclsLowered
  <2>2. AllTyped' /\ AllMade'
    BY <2>1, SameKept DEF RoundInv
  <2> QED
    BY <1>2, <2>1, <2>2 DEF Phases
<1>7. ASSUME NEW m \in unvisited, LowerEndpoints(m) PROVE RoundInv'
  <2>1. phase = "endpoints" /\ phase' = "endpoints"
    BY <1>7 DEF LowerEndpoints
  <2>2. AllTyped' /\ AllMade'
    BY <1>0, <1>7, <2>1, EndpointsKept DEF RoundInv
  <2> QED
    BY <1>2, <2>1, <2>2 DEF Phases
<1>8. CASE Extract
  BY <1>0, <1>8, ExtractKept DEF RoundInv
<1>9. CASE Generate
  BY <1>0, <1>9, GenerateKept DEF RoundInv
<1>10. CASE UNCHANGED vars
  <2>1. UNCHANGED <<phase, modules, types, endpoints, unvisited, queue, diags, contract, package>>
    BY <1>10 DEF vars
  <2>2. AllTyped' /\ AllMade'
    BY <2>1, SameKept DEF RoundInv
  <2>3. Contracted' /\ Packaged'
    BY <2>1 DEF RoundInv, Contracted, Packaged, Reached, HasErrors
  <2> QED
    BY <1>0, <2>2, <2>3 DEF RoundInv
<1> QED
  BY <1>3, <1>4, <1>5, <1>6, <1>7, <1>8, <1>9, <1>10 DEF Next, Done

\* What a round has lowered is typed: what it refers to is known, queued or passed over in silence.
\* Where nothing was reported nothing was dropped, the contract is made of what was lowered, and a
\* package is written only of a contract without errors.
THEOREM RoundsKeepInv == Spec => []RoundInv
<1> QED BY RoundInit, RoundStep, PTL DEF Spec

-----------------------------------------------------------------------------
(* What the endpoints reach: closed under references, and the least such.  *)
Grows(g, eps, known) ==
  /\ g[0] = UNION {EndpointRefs(e) : e \in eps}
  /\ \A n \in Nat : g[n + 1] = g[n] \cup UNION {DeclRefs(known[id]) : id \in g[n] \cap DOMAIN known}

LEMMA GrowsIs ==
  ASSUME NEW eps, NEW known
  PROVE  \E g : Grows(g, eps, known) /\ ReachableIds(eps, known) = g[Cardinality(DOMAIN known)]
<1> DEFINE first == UNION {EndpointRefs(e) : e \in eps}
           D == DOMAIN known
           more(v) == UNION {DeclRefs(known[id]) : id \in v \cap D}
           V == SUBSET (first \cup more(D))
           G == [n \in Nat |-> [v \in V |-> v \cup more(v)]]
<1>1. first \in V /\ \A v \in V : v \cup more(v) \in V
  <2>1. \A v : more(v) \subseteq more(D)
    OBVIOUS
  <2> HIDE DEF more
  <2> QED
    BY <2>1
<1>2. G \in [Nat -> [V -> V]]
  BY <1>1
<1>3. \A n \in Nat, v \in V : G[n][v] = v \cup more(v)
  OBVIOUS
<1>4. Segment(Nat)
  BY DEF Segment
<1> HIDE DEF first, V, G, more
<1>5. PICK f \in [Nat -> V] : Iterates(f, Nat, first, G)
  BY <1>1, <1>2, <1>4, Recursion
<1> DEFINE Is(g) == g = [n \in Nat |-> IF n = 0 THEN first ELSE g[n - 1] \cup more(g[n - 1])]
<1>6. Is(f)
  <2>1. ASSUME NEW n \in Nat
        PROVE  f[n] = IF n = 0 THEN first ELSE f[n - 1] \cup more(f[n - 1])
    <3>1. f[n] = IF n = 0 THEN first ELSE G[n][f[n - 1]]
      BY <1>5 DEF Iterates
    <3>2. n # 0 => n - 1 \in Nat /\ f[n - 1] \in V
      OBVIOUS
    <3> QED
      BY <1>3, <3>1, <3>2
  <2>2. f = [n \in Nat |-> f[n]]
    BY <1>5
  <2> QED
    BY <2>1, <2>2
<1>7. PICK g : Is(g) /\ ReachableIds(eps, known) = g[Cardinality(D)]
  <2>1. Is(CHOOSE g : Is(g))
    BY <1>6
  <2> QED
    BY <2>1 DEF ReachableIds, first, more
<1>8. \A n \in Nat : g[n] = IF n = 0 THEN first ELSE g[n - 1] \cup more(g[n - 1])
  BY <1>7
<1>9. \A n \in Nat : n + 1 \in Nat /\ n + 1 # 0 /\ (n + 1) - 1 = n
  OBVIOUS
<1>10. g[0] = first /\ \A n \in Nat : g[n + 1] = g[n] \cup more(g[n])
  BY <1>8, <1>9
<1> QED
  BY <1>7, <1>10 DEF Grows, first, more

\* Within as many steps as there are declarations nothing more is reached.
LEMMA ReachedClosed ==
  ASSUME NEW eps, NEW known, IsFiniteSet(DOMAIN known)
  PROVE  /\ UNION {EndpointRefs(e) : e \in eps} \subseteq ReachableIds(eps, known)
         /\ \A id \in ReachableIds(eps, known) \cap DOMAIN known :
              DeclRefs(known[id]) \cap DOMAIN known \subseteq ReachableIds(eps, known)
<1> DEFINE D == DOMAIN known
           N == Cardinality(D)
<1>1. PICK g : Grows(g, eps, known) /\ ReachableIds(eps, known) = g[N]
  BY GrowsIs
<1>2. N \in Nat
  BY FS_CardinalityType
<1> DEFINE stable(n) == g[n + 1] \cap D = g[n] \cap D
           c == [n \in Nat |-> Cardinality(g[n] \cap D)]
           S == {n \in Nat : stable(n) \/ c[n + 1] >= n + 1}
<1>3. ASSUME NEW n \in Nat PROVE g[n] \subseteq g[n + 1] /\ (stable(n) => stable(n + 1))
  <2>1. n + 1 \in Nat
    OBVIOUS
  <2> QED
    BY <1>1, <2>1 DEF Grows
<1>5. c \in [Nat -> Nat]
  <2>1. ASSUME NEW n \in Nat PROVE Cardinality(g[n] \cap D) \in Nat
    <3>1. IsFiniteSet(g[n] \cap D)
      BY FS_Subset
    <3> QED
      BY <3>1, FS_CardinalityType
  <2> QED
    BY <2>1
<1>4. ASSUME NEW n \in Nat, ~stable(n) PROVE c[n + 1] >= c[n] + 1
  <2>1. IsFiniteSet(g[n + 1] \cap D)
    BY FS_Subset
  <2>2. g[n] \cap D \subseteq g[n + 1] \cap D /\ g[n] \cap D # g[n + 1] \cap D
    BY <1>3, <1>4
  <2>3. PICK a, b : a = g[n] \cap D /\ b = g[n + 1] \cap D
    OBVIOUS
  <2>4. IsFiniteSet(b) /\ a \in SUBSET b /\ a # b
    BY <2>1, <2>2, <2>3
  <2>5. Cardinality(a) <= Cardinality(b) /\ Cardinality(a) # Cardinality(b)
    BY <2>4, FS_Subset
  <2>6. c[n] = Cardinality(a) /\ c[n + 1] = Cardinality(b) /\ c[n] \in Nat /\ c[n + 1] \in Nat
    BY <1>5, <2>3
  <2> QED
    BY <2>5, <2>6
<1>11. Cardinality(g[N + 1] \cap D) = c[N + 1]
  BY <1>2
<1> HIDE DEF c, stable
<1>6. 0 \in S
  <2>1. 0 + 1 \in Nat /\ c[0] >= 0 /\ c[0 + 1] \in Nat /\ c[0] \in Nat
    BY <1>5
  <2> QED
    BY <1>4, <2>1
<1>7. ASSUME NEW n \in S PROVE n + 1 \in S
  <2>1. n \in Nat /\ n + 1 \in Nat /\ (n + 1) + 1 \in Nat /\ c[n + 1] \in Nat /\ c[(n + 1) + 1] \in Nat
    BY <1>5
  <2>2. CASE stable(n)
    BY <1>3, <2>1, <2>2
  <2>3. CASE ~stable(n) /\ ~stable(n + 1)
    BY <1>4, <1>5, <2>1, <2>3
  <2> QED
    BY <2>1, <2>2, <2>3
<1>8. S = Nat
  <2> HIDE DEF S
  <2>1. S \in SUBSET Nat
    BY DEF S
  <2> QED
    BY <1>6, <1>7, <2>1, Induction
<1>9. stable(N)
  <2>1. N \in S /\ N + 1 \in Nat
    BY <1>2, <1>8
  <2>2. c[N + 1] <= N
    <3>1. g[N + 1] \cap D \in SUBSET D
      OBVIOUS
    <3> QED
      BY <1>11, <3>1, FS_Subset
  <2> QED
    BY <1>2, <1>5, <2>1, <2>2
<1>10. \A n \in Nat : g[0] \subseteq g[n]
  <2> DEFINE T == {n \in Nat : g[0] \subseteq g[n]}
  <2>1. 0 \in T /\ \A n \in T : n + 1 \in T
    BY <1>3
  <2>2. T = Nat
    <3> HIDE DEF T
    <3>1. T \in SUBSET Nat
      BY DEF T
    <3> QED
      BY <2>1, <3>1, Induction
  <2> QED
    BY <2>2
<1> QED
  BY <1>1, <1>2, <1>9, <1>10 DEF Grows, stable
-----------------------------------------------------------------------------
(* The contract is exact.                                                  *)
LEMMA RefsAre ==
  ASSUME NEW e, IsSeq(e.path_params), IsSeq(e.query_params)
  PROVE  EndpointRefs(e) = Mentioned(TypesIn(e))
<1>1. PICK X, p, q : p = e.path_params /\ q = e.query_params /\ X = Range(p) \cup Range(q)
  OBVIOUS
<1>2. p \in Seq(X) /\ q \in Seq(X)
  <2>1. PICK P, Q : P = Range(p) /\ Q = Range(q) /\ p \in Seq(P) /\ q \in Seq(Q) /\ X = P \cup Q
    BY <1>1 DEF IsSeq
  <2> QED
    BY ONLY <2>1
<1>3. Range(p ++ q) = X
  BY <1>1, <1>2, RangeOfBoth
<1>4. Range(e.path_params \o e.query_params) = Range(e.path_params) \cup Range(e.query_params)
  BY <1>1, <1>3 DEF ++
<1> QED
  BY <1>4 DEF EndpointRefs, Mentioned, TypesIn, IdOf

LEMMA DeclRefsAre == ASSUME NEW d PROVE DeclRefs(d) = Mentioned(FieldTypesIn(d))
BY DEF DeclRefs, Mentioned, FieldTypesIn, IdOf

\* What an item of a declaration kind is known as.
LEMMA HeldIs ==
  ASSUME WellFormed, queue = <<>>, NEW ty, HasType(ty), ty.kind \in {"type", "error"}
  PROVE  \/ SourceItem(ty.at, ty.name).kind = "error struct"
         \/ Id(ty.kind, ty.at, ty.name) \in DOMAIN types
<1>1. Met(Item(ty.at, ty.name)) /\ ApiItemKind(FindItem(modules, ty.at, ty.name)) = ty.kind
  BY DEF HasType
<1>2. Item(ty.at, ty.name).at = ty.at /\ Item(ty.at, ty.name).name = ty.name
  BY DEF Item
<1>3. Range(queue) = {}
  BY RangeOfNone
<1> QED
  BY <1>1, <1>2, <1>3 DEF Met, SourceItem, ItemAt, KeyId

LEMMA EntryIs ==
  ASSUME WellFormed, NEW id \in DOMAIN types
  PROVE  types[id].id = id /\ id.ns \in {"type", "error"} /\ id = Id(id.ns, id.at, id.name)
<1>1. Item(id.at, id.name) \in Keys(modules) /\ id = KeyId(modules, Item(id.at, id.name)) /\ types[id].id = id
  BY DEF WellFormed, Entries
<1>2. ApiItemKind(ItemAt(modules, Item(id.at, id.name))) \in {"type", "error"}
  BY <1>1, ModulesTab, KeyItem
<1> QED
  BY <1>1, <1>2 DEF KeyId, Id, Item

LEMMA DeclsAre ==
  ASSUME RoundInv, phase \in {"extracted", "skipped", "written"}
  PROVE  contract.types \cup contract.errors = Reached /\ contract.endpoints = endpoints
<1>1. contract.types = NsDecls(Reached, "type") /\ contract.errors = NsDecls(Reached, "error")
      /\ contract.endpoints = endpoints
  BY DEF RoundInv, Contracted
<1>2. \A d \in Reached : d.id.ns \in {"type", "error"}
  BY EntryIs DEF RoundInv, Reached
<1> QED
  BY <1>1, <1>2 DEF NsDecls

LEMMA WholeIs ==
  ASSUME RoundInv, ~HasErrors, NEW id \in DOMAIN types
  PROVE  DeclWhole(types[id]) /\ SourceItem(id.at, id.name).kind # "error struct"
<1>1. PICK d, item : /\ d = types[id] /\ d.id = id /\ item = FindItem(modules, id.at, id.name)
                     /\ DeclMade(modules, id.at, item, d)
  BY EntryIs DEF RoundInv, AllMade
<1>2. SourceItem(d.id.at, d.id.name) = item
  BY <1>1 DEF SourceItem
<1>3. item.kind \in {"enum", "error", "struct", "newtype"}
  BY <1>1 DEF DeclMade
<1>4. item \in DeclItems
  <2>1. Item(id.at, id.name) \in Keys(modules)
    BY DEF RoundInv, WellFormed, Entries
  <2>2. Item(id.at, id.name).at = id.at /\ Item(id.at, id.name).name = id.name
    BY DEF Item
  <2>3. IsTab(modules)
    BY ModulesTab DEF RoundInv
  <2>4. item \in Range(modules[id.at].items) /\ id.at \in DOMAIN modules
    BY <1>1, <2>1, <2>2, <2>3, KeyItem DEF ItemAt
  <2>5. item \in Items
    BY <2>3, <2>4, FindItemIs, FoundItem
  <2> QED
    BY <1>3, <2>5 DEF Items, EndpointFns, RouterFns
<1>5. DOMAIN item.variants = 1..Len(item.variants)
  <2>1. PICK X, s : X = VariantItems /\ s = item.variants
    OBVIOUS
  <2>2. s \in Seq(X)
    BY <1>4, <2>1 DEF DeclItems
  <2> QED
    BY <2>1, <2>2
<1>6. /\ Len(d.variants) = Len(item.variants)
      /\ \A i \in 1..Len(item.variants) : Len(d.variants[i].fields) = Len(item.variants[i].fields)
  <2>1. CASE d.shape \in {"type", "error"}
    BY <1>1, <2>1 DEF DeclMade, EnumWhole, VariantWhole, FieldsWhole
  <2>2. CASE d.shape \in {"struct", "newtype"}
    <3>1. Len(item.variants) = 1 /\ Len(d.variants) = 1
          /\ Len(d.variants[1].fields) = Len(item.variants[1].fields)
      BY <1>1, <2>2 DEF DeclMade, StructWhole, NewtypeWhole, FieldsWhole
    <3> QED
      BY <3>1
  <2> QED
    BY <1>1, <2>1, <2>2 DEF DeclMade
<1> QED
  BY <1>1, <1>2, <1>3, <1>5, <1>6 DEF DeclWhole, SourceItem
LEMMA RoundIsExact == ASSUME RoundInv PROVE ContractExact
<1> SUFFICES ASSUME phase = "extracted", ~HasErrors PROVE ContractExact
  BY DEF ContractExact
<1> DEFINE ds == contract.types \cup contract.errors
           ids(s) == {d.id : d \in s}
           structs == {id \in Mentioned((UNION {TypesIn(e) : e \in contract.endpoints})
                                           \cup UNION {FieldTypesIn(d) : d \in ds}) :
                         SourceItem(id.at, id.name).kind = "error struct"}
           holds(s) ==
             /\ \A e \in contract.endpoints : Mentioned(TypesIn(e)) \ structs \subseteq ids(s)
             /\ \A d \in s : Mentioned(FieldTypesIn(d)) \ structs \subseteq ids(s)
           R == ReachableIds(endpoints, types)
<1>1. ds = Reached /\ contract.endpoints = endpoints
  BY DeclsAre
<1>2. /\ WellFormed /\ queue = <<>> /\ unvisited = {}
      /\ \A id \in DOMAIN types : DeclHas(types[id])
      /\ \A e \in endpoints : EndpointHas(e)
      /\ \A e \in endpoints : EndpointMade(Of(e), e)
      /\ \A m \in DOMAIN modules \ unvisited : \A i \in EndpointFnsIn(modules, m) :
             \E x \in endpoints : x.at = m /\ x.rust_name = i.name
  BY DEF RoundInv, Contracted, AllTyped, AllMade
<1>3. \A m \in DOMAIN modules : \A i \in Range(src.mods[m].items) :
         i.kind = "endpoint" => \E e \in endpoints : e.at = m /\ e.rust_name = i.name
  BY <1>2, ModulesTab DEF EndpointFnsIn
<1>4. \A e \in endpoints : EndpointWhole(e)
  BY <1>2 DEF EndpointMade, EndpointWhole
<1>5. \A d \in Reached : DeclWhole(d)
  BY WholeIs DEF Reached
<1>6. /\ UNION {EndpointRefs(e) : e \in endpoints} \subseteq R
      /\ \A id \in R \cap DOMAIN types : DeclRefs(types[id]) \cap DOMAIN types \subseteq R
  BY <1>2, ReachedClosed DEF WellFormed, Entries
<1>7. \A e \in endpoints : EndpointRefs(e) = Mentioned(TypesIn(e))
  BY <1>2, RefsAre DEF EndpointHas, ParamsTyped
<1>8. \A d : DeclRefs(d) = Mentioned(FieldTypesIn(d))
  BY DeclRefsAre
<1>9. \A id \in DOMAIN types : types[id].id = id
  BY <1>2, EntryIs
<1>10. \A id \in R \cap DOMAIN types : id \in ids(Reached)
  BY <1>9 DEF Reached
<1>11. ASSUME NEW e \in endpoints, NEW id \in Mentioned(TypesIn(e))
       PROVE  SourceItem(id.at, id.name).kind = "error struct" \/ id \in DOMAIN types
  <2>1. PICK ty \in TypesIn(e) : ty.kind \in {"type", "error"} /\ id = Id(ty.kind, ty.at, ty.name)
    BY DEF Mentioned
  <2>2. HasType(ty)
    <3>1. ScalarType(ty) => ty.kind \notin {"type", "error"}
      BY DEF ScalarType
    <3>2. NoType.kind = "none"
      BY NoTypeIs
    <3>3. MayHave(ty) \/ ScalarType(ty)
      BY <1>2 DEF EndpointHas, ParamsTyped, TypesIn
    <3> QED
      BY <2>1, <3>1, <3>2, <3>3 DEF MayHave
  <2> QED
    BY <1>2, <2>1, <2>2, HeldIs DEF Id
<1>12. ASSUME NEW d \in Reached, NEW id \in Mentioned(FieldTypesIn(d))
       PROVE  SourceItem(id.at, id.name).kind = "error struct" \/ id \in DOMAIN types
  <2>1. PICK ty \in FieldTypesIn(d) : ty.kind \in {"type", "error"} /\ id = Id(ty.kind, ty.at, ty.name)
    BY DEF Mentioned
  <2>2. HasType(ty)
    BY <1>2 DEF Reached, DeclHas, FieldTypesIn
  <2> QED
    BY <1>2, <2>1, <2>2, HeldIs DEF Id
<1> DEFINE tys == (UNION {TypesIn(e) : e \in contract.endpoints}) \cup UNION {FieldTypesIn(d) : d \in ds}
<1>15. \A a, b : a \subseteq b => Mentioned(a) \subseteq Mentioned(b)
  BY DEF Mentioned
<1>16. \A e \in endpoints : TypesIn(e) \subseteq tys
  <2> HIDE DEF ds
  <2> QED
    BY <1>1
<1>17. \A d \in Reached : FieldTypesIn(d) \subseteq tys
  <2> HIDE DEF ds
  <2> QED
    BY <1>1
<1>18. structs = {id \in Mentioned(tys) : SourceItem(id.at, id.name).kind = "error struct"}
  OBVIOUS
<1>13. holds(Reached)
  <2>1. ASSUME NEW e \in endpoints, NEW id \in Mentioned(TypesIn(e)), id \notin structs PROVE id \in ids(Reached)
    <3>1. id \in DOMAIN types
      <4>1. id \in Mentioned(tys)
        BY <1>15, <1>16
      <4> HIDE DEF structs, tys
      <4> QED
        BY <1>11, <1>18, <2>1, <4>1
    <3>2. id \in R
      BY <1>6, <1>7
    <3> QED
      BY <1>10, <3>1, <3>2
  <2>2. ASSUME NEW d \in Reached, NEW id \in Mentioned(FieldTypesIn(d)), id \notin structs PROVE id \in ids(Reached)
    <3>1. id \in DOMAIN types
      <4>1. id \in Mentioned(tys)
        BY <1>15, <1>17
      <4> HIDE DEF structs, tys
      <4> QED
        BY <1>12, <1>18, <2>2, <4>1
    <3>2. PICK x \in R \cap DOMAIN types : d = types[x]
      BY DEF Reached
    <3>3. id \in R
      BY <1>6, <1>8, <3>1, <3>2
    <3> QED
      BY <1>10, <3>1, <3>3
  <2> QED
    BY <1>1, <2>1, <2>2
<1>14. ASSUME NEW s \in SUBSET Reached, holds(s) PROVE s = Reached
  <2>1. ASSUME NEW id \in DOMAIN types, id \in ids(s) PROVE types[id] \in s
    BY <1>9, <2>1 DEF Reached
  <2>2. \A id \in DOMAIN types : id \notin structs
    BY WholeIs
  <2>3. PICK g : Grows(g, endpoints, types) /\ R = g[Cardinality(DOMAIN types)]
    BY GrowsIs
  <2> DEFINE T == {n \in Nat : \A id \in g[n] \cap DOMAIN types : types[id] \in s}
  <2> HIDE DEF R, structs
  <2>4. 0 \in T
    BY <1>1, <1>7, <1>14, <2>1, <2>2, <2>3 DEF Grows
  <2>5. ASSUME NEW n \in T PROVE n + 1 \in T
    BY <1>1, <1>8, <1>14, <2>1, <2>2, <2>3 DEF Grows
  <2>6. T = Nat
    <3> HIDE DEF T
    <3>1. T \in SUBSET Nat
      BY DEF T
    <3> QED
      BY <2>4, <2>5, <3>1, Induction
  <2>7. Cardinality(DOMAIN types) \in Nat
    BY <1>2, FS_CardinalityType DEF WellFormed, Entries
  <2>8. \A id \in R \cap DOMAIN types : types[id] \in s
    BY <2>3, <2>6, <2>7
  <2> QED
    BY <2>8 DEF Reached, R
<1> QED
  BY <1>1, <1>3, <1>4, <1>5, <1>13, <1>14, ZenonT(30) DEF ContractExact

\* An extraction without errors drops nothing: whatever is written in the sources is in the
\* contract, and no declaration is that nothing reaches.
THEOREM ContractIsExact == Spec => []ContractExact
<1> QED BY RoundsKeepInv, RoundIsExact, PTL

-----------------------------------------------------------------------------
(* The declarations in an order in which each follows what it refers to.   *)
Visits(ts) == [Sortings(ts) -> [ts -> Sortings(ts)]]
IdsOf(ts) == {d.id : d \in ts}
RefsIn(ts, d) == DeclRefs(d) \cap IdsOf(ts)

LEMMA DeclsByIdIs ==
  ASSUME NEW ts
  PROVE  /\ DOMAIN DeclsById(ts) = IdsOf(ts)
         /\ \A id \in IdsOf(ts) : DeclsById(ts)[id] \in ts /\ DeclsById(ts)[id].id = id
BY DEF DeclsById, IdsOf

LEMMA SortingIs ==
  ASSUME NEW ts, NEW st \in Sortings(ts)
  PROVE  /\ st.sorted \in Seq(ts) /\ st.visiting \in SUBSET ts /\ st.cyclic \in BOOLEAN
         /\ st = [sorted |-> st.sorted, visiting |-> st.visiting, cyclic |-> st.cyclic]
BY DEF Sortings

LEMMA SortingOf ==
  ASSUME NEW ts, NEW s \in Seq(ts), NEW v \in SUBSET ts, NEW c \in BOOLEAN
  PROVE  [sorted |-> s, visiting |-> v, cyclic |-> c] \in Sortings(ts)
BY DEF Sortings

RefOrder(ts, d) == SetToSeq(DeclRefs(d) \cap DOMAIN DeclsById(ts))

LEMMA RefOrderIs ==
  ASSUME NEW ts, IsFiniteSet(ts), NEW d
  PROVE  /\ RefOrder(ts, d) \in Seq(IdsOf(ts)) /\ Range(RefOrder(ts, d)) = RefsIn(ts, d)
         /\ Len(RefOrder(ts, d)) \in Nat
<1>1. IsFiniteSet(IdsOf(ts))
  <2> DEFINE f == [d1 \in ts |-> d1.id]
  <2>1. IdsOf(ts) = {f[d1] : d1 \in ts} /\ f = [d1 \in ts |-> f[d1]]
    BY DEF IdsOf
  <2> HIDE DEF f
  <2> QED
    BY <2>1, FiniteImage
<1>2. IsFiniteSet(RefsIn(ts, d))
  BY <1>1, FS_Subset DEF RefsIn
<1>3. RefOrder(ts, d) = SetToSeq(RefsIn(ts, d))
  BY DeclsByIdIs DEF RefOrder, RefsIn
<1>4. PICK R, N, s : R = RefsIn(ts, d) /\ N = IdsOf(ts) /\ s = RefOrder(ts, d)
  OBVIOUS
<1>5. s \in Seq(R) /\ Range(s) = R /\ R \subseteq N
  BY <1>2, <1>3, <1>4, SetToSeqIs DEF RefsIn
<1>6. s \in Seq(N) /\ Len(s) \in Nat
  BY ONLY <1>5
<1> QED
  BY <1>4, <1>5, <1>6

RefsVisited(f, ts, visit, st, d) ==
  /\ f[0] = [sorted |-> st.sorted, visiting |-> st.visiting \cup {d}, cyclic |-> st.cyclic]
  /\ \A i \in 1..Len(RefOrder(ts, d)) : f[i] = visit[f[i - 1]][DeclsById(ts)[RefOrder(ts, d)[i]]]
  /\ \A i \in 0..Len(RefOrder(ts, d)) : f[i] \in Sortings(ts)

Finishing(ts, r, st, d) ==
  [sorted |-> Append(r.sorted, d), visiting |-> st.visiting, cyclic |-> r.cyclic]

\* A visit of one that is neither sorted nor being visited.
LEMMA VisitIs ==
  ASSUME NEW ts, IsFiniteSet(ts), NEW visit \in Visits(ts), NEW st \in Sortings(ts), NEW d \in ts,
         d \notin Range(st.sorted), d \notin st.visiting
  PROVE  \E f : /\ RefsVisited(f, ts, visit, st, d)
                /\ Visit(DeclsById(ts), visit, st, d) = Finishing(ts, f[Len(RefOrder(ts, d))], st, d)
<1> DEFINE first == [sorted |-> st.sorted, visiting |-> st.visiting \cup {d}, cyclic |-> st.cyclic]
           V == Sortings(ts)
           refs == RefOrder(ts, d)
           at(i) == DeclsById(ts)[refs[i]]
<1>1. PICK k \in Nat : k = Len(refs)
  BY RefOrderIs
<1>2. first \in V
  BY SortingIs, SortingOf
<1>3. ASSUME NEW i \in 1..k PROVE at(i) \in ts
  <2>1. PICK s, N : s = refs /\ N = IdsOf(ts) /\ s \in Seq(N) /\ Len(s) = k
    BY <1>1, RefOrderIs
  <2>2. s[i] \in N
    BY <2>1
  <2> QED
    BY <2>1, <2>2, DeclsByIdIs
<1> DEFINE G == [i \in Nat |-> [r \in V |-> IF i \in 1..k THEN visit[r][at(i)] ELSE r]]
<1> HIDE DEF refs, at, first
<1>4. \A i \in 1..k, r \in V : visit[r][at(i)] \in V
  BY <1>3 DEF Visits
<1>5. G \in [Nat -> [V -> V]] /\ \A i \in 1..k, r \in V : G[i][r] = visit[r][at(i)]
  <2> HIDE DEF V
  <2> QED
    BY <1>4
<1>6. Segment(0..k)
  BY DEF Segment
<1> HIDE DEF V, G
<1>7. PICK f \in [0..k -> V] : Iterates(f, 0..k, first, G)
  BY <1>2, <1>5, <1>6, Recursion
<1> DEFINE Is(g) == g = [i \in 0..k |-> IF i = 0 THEN first ELSE visit[g[i - 1]][at(i)]]
<1>8. Is(f)
  <2>1. ASSUME NEW i \in 0..k PROVE f[i] = IF i = 0 THEN first ELSE visit[f[i - 1]][at(i)]
    <3>1. f[i] = IF i = 0 THEN first ELSE G[i][f[i - 1]]
      BY <1>7 DEF Iterates
    <3>2. i # 0 => i \in 1..k /\ f[i - 1] \in V
      OBVIOUS
    <3> QED
      BY <1>5, <3>1, <3>2
  <2>2. f = [i \in 0..k |-> f[i]]
    OBVIOUS
  <2> QED
    BY <2>1, <2>2
<1> DEFINE last(r) == [r EXCEPT !.sorted = Append(@, d), !.visiting = st.visiting]
<1>9. PICK g : Is(g) /\ Visit(DeclsById(ts), visit, st, d) = last(g[k])
  <2>1. Is(CHOOSE g : Is(g))
    BY <1>8
  <2>2. [st EXCEPT !.visiting = @ \cup {d}] = first
    BY SortingIs DEF first
  <2>3. Visit(DeclsById(ts), visit, st, d) = last((CHOOSE g : Is(g))[k])
    BY <1>1, <2>2, ZenonT(60) DEF Visit, RefOrder, refs, at
  <2> QED
    BY <2>1, <2>3
<1>10. \A i \in 0..k : g[i] = IF i = 0 THEN first ELSE visit[g[i - 1]][at(i)]
  BY <1>9
<1>11. g[0] = first /\ \A i \in 1..k : g[i] = visit[g[i - 1]][at(i)]
  <2>1. \A i \in 1..k : i \in 0..k /\ i # 0
    OBVIOUS
  <2> QED
    BY <1>10, <2>1
<1>12. ASSUME NEW i \in Nat, i + 1 \in 0..k, g[i] \in V PROVE g[i + 1] \in V
  <2>1. i + 1 \in 1..k /\ (i + 1) - 1 = i
    BY <1>12
  <2> QED
    BY <1>4, <1>11, <1>12, <2>1
<1>13. \A i \in 0..k : g[i] \in V
  BY <1>2, <1>6, <1>11, <1>12, Kept
<1>14. last(g[k]) = Finishing(ts, g[k], st, d)
  <2>1. g[k] \in V /\ k \in 0..k
    BY <1>1, <1>13
  <2>2. PICK r : r = g[k] /\ r = [sorted |-> r.sorted, visiting |-> r.visiting, cyclic |-> r.cyclic]
    BY <2>1, SortingIs DEF V
  <2>3. PICK x : x = [r EXCEPT !.sorted = Append(r.sorted, d)]
    OBVIOUS
  <2>4. last(r) = [x EXCEPT !.visiting = st.visiting]
    BY <2>3
  <2>5. PICK s, v, w, c : s = Append(r.sorted, d) /\ v = st.visiting /\ w = r.visiting /\ c = r.cyclic
    OBVIOUS
  <2>6. x = [sorted |-> s, visiting |-> w, cyclic |-> c]
    BY ONLY <2>2, <2>3, <2>5
  <2>7. [x EXCEPT !.visiting = v] = [sorted |-> s, visiting |-> v, cyclic |-> c]
    BY ONLY <2>6
  <2> QED
    BY <2>2, <2>4, <2>5, <2>7 DEF Finishing
<1>15. RefsVisited(g, ts, visit, st, d)
  BY <1>1, <1>11, <1>13 DEF RefsVisited, refs, at, first, V
<1> QED
  BY <1>1, <1>9, <1>14, <1>15 DEF refs
LEMMA VisitType ==
  ASSUME NEW ts, IsFiniteSet(ts), NEW visit \in Visits(ts), NEW st \in Sortings(ts), NEW d \in ts
  PROVE  Visit(DeclsById(ts), visit, st, d) \in Sortings(ts)
<1>1. CASE d \in Range(st.sorted)
  BY <1>1 DEF Visit
<1>2. CASE d \notin Range(st.sorted) /\ d \in st.visiting
  <2>1. PICK x, s, v, c : /\ x = st /\ x = [sorted |-> s, visiting |-> v, cyclic |-> c]
                          /\ s \in Seq(ts) /\ v \in SUBSET ts
    BY SortingIs
  <2>4. PICK b : b \in BOOLEAN /\ b = TRUE
    OBVIOUS
  <2>2. Visit(DeclsById(ts), visit, st, d) = [x EXCEPT !.cyclic = b]
    BY <1>2, <2>1, <2>4, Zenon DEF Visit
  <2>3. [x EXCEPT !.cyclic = b] = [sorted |-> s, visiting |-> v, cyclic |-> b]
    <3>1. x = [sorted |-> s, visiting |-> v, cyclic |-> c]
      BY <2>1
    <3> QED
      BY ONLY <3>1
  <2>5. [sorted |-> s, visiting |-> v, cyclic |-> b] \in Sortings(ts)
    BY <2>1, <2>4, SortingOf
  <2> QED
    BY <2>2, <2>3, <2>5, Zenon
<1>3. CASE d \notin Range(st.sorted) /\ d \notin st.visiting
  <2>1. PICK f : /\ RefsVisited(f, ts, visit, st, d)
                 /\ Visit(DeclsById(ts), visit, st, d) = Finishing(ts, f[Len(RefOrder(ts, d))], st, d)
    BY <1>3, VisitIs
  <2>2. PICK k \in Nat : k = Len(RefOrder(ts, d)) /\ k \in 0..k
    BY RefOrderIs
  <2>3. PICK r \in Sortings(ts) : r = f[k]
    BY <2>1, <2>2 DEF RefsVisited
  <2>4. PICK s : s = r.sorted /\ s \in Seq(ts) /\ Append(s, d) \in Seq(ts)
    BY SortingIs
  <2>5. Finishing(ts, r, st, d) \in Sortings(ts)
    BY <2>4, SortingIs, SortingOf DEF Finishing
  <2> QED
    BY <2>1, <2>2, <2>3, <2>5
<1> QED
  BY <1>1, <1>2, <1>3

VisitsBy(visit, ts) ==
  /\ \A st \in Sortings(ts), d \in ts : visit[0][st][d] = st
  /\ \A n \in Nat : visit[n] \in Visits(ts)
  /\ \A n \in Nat, st \in Sortings(ts), d \in ts :
       visit[n + 1][st][d] = Visit(DeclsById(ts), visit[n], st, d)

Start == [sorted |-> <<>>, visiting |-> {}, cyclic |-> FALSE]

SortedBy(g, visit, ts) ==
  LET order == SetToSeq(ts)
  IN /\ g[0] = Start
     /\ \A i \in 1..Len(order) : g[i] = visit[Cardinality(ts) + 1][g[i - 1]][order[i]]

LEMMA TopoSortedIs ==
  ASSUME NEW ts, IsFiniteSet(ts)
  PROVE  \E g, visit : /\ VisitsBy(visit, ts) /\ SortedBy(g, visit, ts)
                       /\ TopoSortedTypes(ts) = g[Len(SetToSeq(ts))]
<1> DEFINE V == Visits(ts)
           W == Sortings(ts)
           by_id == DeclsById(ts)
           first == [st \in W |-> [d \in ts |-> st]]
           next(v) == [st \in W |-> [d \in ts |-> Visit(by_id, v, st, d)]]
           G == [n \in Nat |-> [v \in V |-> next(v)]]
           order == SetToSeq(ts)
           N == Cardinality(ts)
           IsVisit(visit) == visit = [n \in Nat |-> [st \in Sortings(ts) |-> [d \in ts |->
                            IF n = 0 THEN st ELSE Visit(DeclsById(ts), visit[n - 1], st, d)]]]
           IsAfter(after, visit) == after = [i \in 0..Len(order) |->
              IF i = 0 THEN [sorted |-> <<>>, visiting |-> {}, cyclic |-> FALSE]
              ELSE visit[Cardinality(ts) + 1][after[i - 1]][order[i]]]
<1>1. first \in V
  BY DEF Visits
<1>2. \A v \in V, st \in W, d \in ts : Visit(by_id, v, st, d) \in W
  BY VisitType
<1>23. \A v \in V : next(v) \in V
  <2>1. V = [W -> [ts -> W]]
    BY DEF Visits
  <2> HIDE DEF by_id, W, V
  <2> QED
    BY <1>2, <2>1
<1>3. G \in [Nat -> [V -> V]] /\ \A n \in Nat, v \in V : G[n][v] = next(v)
  <2> HIDE DEF next, V
  <2> QED
    BY <1>23
<1>4. Segment(Nat)
  BY DEF Segment
<1> HIDE DEF V, G, first
<1>5. PICK f \in [Nat -> V] : Iterates(f, Nat, first, G)
  BY <1>1, <1>3, <1>4, Recursion
<1>6. ASSUME NEW n \in Nat PROVE f[n] = [st \in W |-> [d \in ts |-> IF n = 0 THEN st ELSE Visit(by_id, f[n - 1], st, d)]]
  <2>1. f[n] = IF n = 0 THEN first ELSE G[n][f[n - 1]]
    BY <1>5 DEF Iterates
  <2>2. CASE n = 0
    BY <2>1, <2>2 DEF first
  <2>3. CASE n # 0
    <3>1. n - 1 \in Nat /\ f[n - 1] \in V
      BY <2>3
    <3>2. f[n] = [st \in W |-> [d \in ts |-> Visit(by_id, f[n - 1], st, d)]]
      BY <1>3, <2>1, <2>3, <3>1
    <3> QED
      BY <2>3, <3>2
  <2> QED
    BY <2>2, <2>3
<1>7. IsVisit(f)
  <2>1. f = [n \in Nat |-> f[n]]
    BY <1>5
  <2> QED
    BY <1>6, <2>1
<1>8. PICK visit, after0 : /\ IsVisit(visit)
                           /\ TopoSortedTypes(ts) = after0[Len(order)]
                           /\ after0 = CHOOSE after : IsAfter(after, visit)
  <2> DEFINE v0 == CHOOSE visit : IsVisit(visit)
             a0 == CHOOSE after : IsAfter(after, v0)
  <2>1. IsVisit(v0)
    BY <1>7
  <2>2. TopoSortedTypes(ts) = a0[Len(order)]
    BY DEF TopoSortedTypes
  <2>3. a0 = CHOOSE after : IsAfter(after, v0)
    OBVIOUS
  <2> HIDE DEF v0, a0
  <2> QED
    BY <2>1, <2>2, <2>3, ZenonT(30)
<1>9. \A n \in Nat : visit[n] = [st \in W |-> [d \in ts |-> IF n = 0 THEN st ELSE Visit(by_id, visit[n - 1], st, d)]]
  BY <1>8
<1>10. visit[0] = first /\ \A n \in Nat : visit[n + 1] = next(visit[n])
  <2>1. \A n \in Nat : n + 1 \in Nat /\ n + 1 # 0 /\ (n + 1) - 1 = n
    OBVIOUS
  <2> QED
    BY <1>9, <2>1 DEF first
<1>11. \A n \in Nat : visit[n] \in V
  <2> HIDE DEF next
  <2>1. \A n \in Nat : n + 1 \in Nat /\ visit[n] \in V => visit[n + 1] \in V
    BY <1>10, <1>23
  <2> QED
    BY <1>1, <1>4, <1>10, <2>1, Kept
<1>12. VisitsBy(visit, ts)
  <2>1. \A st \in W, d \in ts : visit[0][st][d] = st
    BY <1>10 DEF first
  <2>2. \A n \in Nat, st \in W, d \in ts : visit[n + 1][st][d] = Visit(by_id, visit[n], st, d)
    <3>1. ASSUME NEW n \in Nat, NEW st \in W, NEW d \in ts PROVE next(visit[n])[st][d] = Visit(by_id, visit[n], st, d)
      OBVIOUS
    <3> HIDE DEF next
    <3> QED
      BY <1>10, <3>1
  <2> QED
    BY <1>11, <2>1, <2>2 DEF VisitsBy, V
<1>13. N \in Nat /\ order \in Seq(ts) /\ Len(order) \in Nat
  BY SetToSeqIs, FS_CardinalityType
<1> HIDE DEF order, N, IsVisit, W
<1> DEFINE k == Len(order)
           H == [i \in Nat |-> [st \in W |-> IF i \in 1..k THEN visit[N + 1][st][order[i]] ELSE st]]
<1>14. Start \in W
  BY EmptySeq, SortingOf DEF W, Start
<1>15. \A i \in 1..k, st \in W : visit[N + 1][st][order[i]] \in W
  <2>1. \A i \in 1..k : order[i] \in ts
    BY <1>13
  <2>2. PICK w : w = visit[N + 1] /\ w \in [W -> [ts -> W]]
    BY <1>11, <1>13, SMTT(30) DEF V, Visits, W
  <2>3. \A i \in 1..k, st \in W : w[st][order[i]] \in W
    BY ONLY <2>1, <2>2
  <2> QED
    BY <2>2, <2>3
<1>16. H \in [Nat -> [W -> W]] /\ \A i \in 1..k, st \in W : H[i][st] = visit[N + 1][st][order[i]]
  BY <1>15
<1>17. Segment(0..k)
  BY <1>13 DEF Segment
<1> HIDE DEF H
<1>18. PICK h \in [0..k -> W] : Iterates(h, 0..k, Start, H)
  BY <1>14, <1>16, <1>17, Recursion
<1>19. IsAfter(h, visit)
  <2>1. ASSUME NEW i \in 0..k PROVE h[i] = IF i = 0 THEN Start ELSE visit[N + 1][h[i - 1]][order[i]]
    <3>1. h[i] = IF i = 0 THEN Start ELSE H[i][h[i - 1]]
      BY <1>18 DEF Iterates
    <3>2. i # 0 => i \in 1..k /\ h[i - 1] \in W
      BY <1>13
    <3> QED
      BY <1>16, <3>1, <3>2
  <2>2. h = [i \in 0..k |-> h[i]]
    OBVIOUS
  <2> QED
    BY <2>1, <2>2 DEF Start, N
<1>20. IsAfter(after0, visit)
  BY <1>8, <1>19
<1>21. \A i \in 0..k : after0[i] = IF i = 0 THEN Start ELSE visit[N + 1][after0[i - 1]][order[i]]
  BY <1>20 DEF Start, N
<1>22. SortedBy(after0, visit, ts)
  <2>1. 0 \in 0..k /\ \A i \in 1..k : i \in 0..k /\ i # 0
    BY <1>13
  <2> QED
    BY <1>21, <2>1 DEF SortedBy, order, N
<1> QED
  BY <1>8, <1>12, <1>22 DEF order
\* Each follows what it refers to.
Ordered(ts, s) ==
  \A p \in DOMAIN s : \A id \in RefsIn(ts, s[p]) : \E q \in 1..(p - 1) : s[q] = DeclsById(ts)[id]

LEMMA OrderedMore ==
  ASSUME NEW ts, NEW s \in Seq(ts), NEW d \in ts, Ordered(ts, s),
         \A id \in RefsIn(ts, d) : DeclsById(ts)[id] \in Range(s)
  PROVE  Ordered(ts, Append(s, d))
<1>1. PICK n, t : n = Len(s) /\ t = Append(s, d) /\ n \in Nat /\ DOMAIN s = 1..n
  BY LenProperties
<1>2. DOMAIN t = 1..(n + 1) /\ t[n + 1] = d /\ \A i \in 1..n : t[i] = s[i]
  BY <1>1, AppendProperties
<1>3. ASSUME NEW p \in 1..(n + 1), NEW id \in RefsIn(ts, t[p]) PROVE \E q \in 1..(p - 1) : t[q] = DeclsById(ts)[id]
  <2>1. CASE p = n + 1
    <3>1. DeclsById(ts)[id] \in Range(s) /\ s \in Seq(ts)
      BY <1>2, <1>3, <2>1
    <3>2. PICK q \in 1..n : s[q] = DeclsById(ts)[id]
      BY <1>1, <3>1, RangeIs
    <3> QED
      BY <1>1, <1>2, <2>1, <3>2
  <2>2. CASE p \in 1..n
    <3>1. PICK q \in 1..(p - 1) : s[q] = DeclsById(ts)[id]
      BY <1>1, <1>2, <1>3, <2>2 DEF Ordered
    <3> QED
      BY <1>1, <1>2, <2>2, <3>1
  <2> QED
    BY <1>1, <2>1, <2>2
<1> QED
  BY <1>1, <1>2, <1>3 DEF Ordered

\* What a visit leads to.
Visited(ts, st, d, r) ==
  /\ r \in Sortings(ts)
  /\ r.visiting = st.visiting /\ Range(st.sorted) \subseteq Range(r.sorted)
  /\ ~r.cyclic => ~st.cyclic /\ d \in Range(r.sorted)
  /\ ~r.cyclic /\ Ordered(ts, st.sorted) => Ordered(ts, r.sorted)

LEMMA VisitedOnce ==
  ASSUME NEW ts, IsFiniteSet(ts), NEW visit \in Visits(ts), NEW n \in Nat,
         \A st \in Sortings(ts), d \in ts :
            Cardinality(ts \ st.visiting) < n => Visited(ts, st, d, visit[st][d]),
         NEW st \in Sortings(ts), NEW d \in ts, Cardinality(ts \ st.visiting) < n + 1
  PROVE  Visited(ts, st, d, Visit(DeclsById(ts), visit, st, d))
<1>0. PICK r : r = Visit(DeclsById(ts), visit, st, d) /\ r \in Sortings(ts)
  BY VisitType
<1>1. CASE d \in Range(st.sorted)
  <2>1. r = st
    BY <1>0, <1>1 DEF Visit
  <2> QED
    BY <1>0, <1>1, <2>1 DEF Visited, Sortings
<1>2. CASE d \notin Range(st.sorted) /\ d \in st.visiting
  <2>1. r = [st EXCEPT !.cyclic = TRUE]
    BY <1>0, <1>2 DEF Visit
  <2>2. r.cyclic /\ r.visiting = st.visiting /\ r.sorted = st.sorted
    BY <2>1, SortingIs
  <2> QED
    BY <1>0, <2>2 DEF Visited
<1>3. CASE d \notin Range(st.sorted) /\ d \notin st.visiting
  <2>1. PICK f : RefsVisited(f, ts, visit, st, d) /\ r = Finishing(ts, f[Len(RefOrder(ts, d))], st, d)
    BY <1>0, <1>3, VisitIs
  <2>2. PICK refs, k, N : /\ refs = RefOrder(ts, d) /\ k = Len(refs) /\ k \in Nat /\ N = IdsOf(ts)
                          /\ refs \in Seq(N) /\ Range(refs) = RefsIn(ts, d)
    BY RefOrderIs
  <2>3. /\ f[0] = [sorted |-> st.sorted, visiting |-> st.visiting \cup {d}, cyclic |-> st.cyclic]
        /\ \A i \in 1..k : f[i] = visit[f[i - 1]][DeclsById(ts)[refs[i]]]
        /\ \A i \in 0..k : f[i] \in Sortings(ts)
    BY <2>1, <2>2 DEF RefsVisited
  <2>4. \A i \in 1..k : refs[i] \in N /\ refs[i] \in Range(refs)
    BY <2>2, RangeIs
  <2>5. Cardinality(ts \ (st.visiting \cup {d})) < n
    <3>1. PICK a : a = ts \ st.visiting /\ d \in a /\ IsFiniteSet(a)
      BY <1>3, FS_Subset
    <3>2. ts \ (st.visiting \cup {d}) = a \ {d}
      BY <3>1
    <3>3. Cardinality(a \ {d}) = Cardinality(a) - 1 /\ Cardinality(a) \in Nat
      BY <3>1, FS_RemoveElement, FS_CardinalityType
    <3>4. Cardinality(a) < n + 1
      BY <3>1
    <3>5. PICK c, x : c = ts \ (st.visiting \cup {d}) /\ x = a \ {d} /\ c = x
      BY <3>2
    <3>6. Cardinality(x) < n
      BY <3>3, <3>4, <3>5
    <3> QED
      BY <3>5, <3>6
  <2> DEFINE Mid(i) ==
        /\ f[i].visiting = st.visiting \cup {d} /\ Range(st.sorted) \subseteq Range(f[i].sorted)
        /\ ~f[i].cyclic => /\ ~st.cyclic
                           /\ \A j \in 1..i : DeclsById(ts)[refs[j]] \in Range(f[i].sorted)
        /\ ~f[i].cyclic /\ Ordered(ts, st.sorted) => Ordered(ts, f[i].sorted)
      S == {i \in Nat : i <= k => Mid(i)}
  <2>6. 0 \in S
    BY <2>3
  <2>7. ASSUME NEW i \in S PROVE i + 1 \in S
    <3> SUFFICES ASSUME i + 1 <= k PROVE Mid(i + 1)
      OBVIOUS
    <3>1. i \in 0..k /\ i + 1 \in 1..k /\ i + 1 \in 0..k /\ (i + 1) - 1 = i /\ Mid(i)
      BY <2>2
    <3>2. PICK x : x = DeclsById(ts)[refs[i + 1]] /\ x \in ts
      BY <2>2, <2>4, <3>1, DeclsByIdIs
    <3>3. PICK a, b : a = f[i] /\ b = f[i + 1] /\ b = visit[a][x] /\ a \in Sortings(ts)
      BY <2>3, <3>1, <3>2
    <3>4. Visited(ts, a, x, b)
      BY <2>5, <3>1, <3>2, <3>3
    <3>5. \A j \in 1..(i + 1) : j = i + 1 \/ j \in 1..i
      BY <3>1
    <3> QED
      BY <3>1, <3>2, <3>3, <3>4, <3>5 DEF Visited
  <2>8. Mid(k)
    <3> HIDE DEF Mid
    <3>1. S = Nat
      <4> HIDE DEF S
      <4>1. S \in SUBSET Nat
        BY DEF S
      <4> QED
        BY <2>6, <2>7, <4>1, Induction
    <3> QED
      BY <2>2, <3>1
  <2>9. PICK m, s : m = f[k] /\ s = m.sorted /\ s \in Seq(ts)
    BY <2>2, <2>3, SortingIs
  <2>10. r.sorted = Append(s, d) /\ r.visiting = st.visiting /\ r.cyclic = m.cyclic
    BY <2>1, <2>2, <2>9 DEF Finishing
  <2>11. Range(Append(s, d)) = Range(s) \cup {d}
    BY <2>9, Appended
  <2>12. ASSUME ~m.cyclic, NEW id \in RefsIn(ts, d) PROVE DeclsById(ts)[id] \in Range(s)
    <3>1. PICK j \in 1..k : id = refs[j]
      BY <2>2, RangeIs
    <3> QED
      BY <2>8, <2>9, <2>12, <3>1
  <2>13. ~m.cyclic /\ Ordered(ts, s) => Ordered(ts, Append(s, d))
    BY <2>9, <2>12, OrderedMore
  <2> QED
    BY <1>0, <2>8, <2>9, <2>10, <2>11, <2>13 DEF Visited
<1> QED
  BY <1>0, <1>1, <1>2, <1>3

\* Without a cycle every declaration is there, after those it refers to.
LEMMA TopoSortedOrder ==
  ASSUME NEW ts, IsFiniteSet(ts)
  PROVE  LET t == TopoSortedTypes(ts)
         IN /\ t \in Sortings(ts)
            /\ ~t.cyclic => Range(t.sorted) = ts /\ Ordered(ts, t.sorted)
<1>1. PICK g, visit : /\ VisitsBy(visit, ts) /\ SortedBy(g, visit, ts)
                      /\ TopoSortedTypes(ts) = g[Len(SetToSeq(ts))]
  BY TopoSortedIs
<1> DEFINE P(n) == \A st \in Sortings(ts), d \in ts :
                     Cardinality(ts \ st.visiting) < n => Visited(ts, st, d, visit[n][st][d])
           S == {n \in Nat : P(n)}
<1>2. 0 \in S
  <2>1. ASSUME NEW st \in Sortings(ts) PROVE ~(Cardinality(ts \ st.visiting) < 0)
    <3>1. IsFiniteSet(ts \ st.visiting)
      BY FS_Subset
    <3>2. Cardinality(ts \ st.visiting) \in Nat
      BY <3>1, FS_CardinalityType
    <3> QED
      BY <3>2
  <2> QED
    BY <2>1
<1>3. ASSUME NEW n \in S PROVE n + 1 \in S
  <2>1. PICK v \in Visits(ts) : v = visit[n]
    BY <1>1 DEF VisitsBy
  <2>2. \A st \in Sortings(ts), d \in ts : Cardinality(ts \ st.visiting) < n => Visited(ts, st, d, v[st][d])
    BY <2>1
  <2>3. \A st \in Sortings(ts), d \in ts : visit[n + 1][st][d] = Visit(DeclsById(ts), v, st, d)
    BY <1>1, <2>1 DEF VisitsBy
  <2>4. ASSUME NEW st \in Sortings(ts), NEW d \in ts, Cardinality(ts \ st.visiting) < n + 1
        PROVE  Visited(ts, st, d, visit[n + 1][st][d])
    BY <2>2, <2>3, <2>4, VisitedOnce
  <2> QED
    BY <2>4
<1>4. S = Nat
  <2> HIDE DEF S
  <2>1. S \in SUBSET Nat
    BY DEF S
  <2> QED
    BY <1>2, <1>3, <2>1, Induction
<1>5. PICK order, k, N : /\ order = SetToSeq(ts) /\ k = Len(order) /\ N = Cardinality(ts)
                         /\ order \in Seq(ts) /\ Range(order) = ts /\ k \in Nat /\ N \in Nat
  BY SetToSeqIs, FS_CardinalityType
<1>6. \A i \in 1..k : order[i] \in ts
  BY <1>5
<1>7. g[0] = Start /\ \A i \in 1..k : g[i] = visit[N + 1][g[i - 1]][order[i]]
  BY <1>1, <1>5 DEF SortedBy
<1> DEFINE Mid(i) ==
      /\ g[i] \in Sortings(ts) /\ g[i].visiting = {}
      /\ ~g[i].cyclic => /\ Ordered(ts, g[i].sorted)
                         /\ \A j \in 1..i : order[j] \in Range(g[i].sorted)
    T == {i \in Nat : i <= k => Mid(i)}
<1>8. 0 \in T
  <2>1. Start \in Sortings(ts) /\ Start.visiting = {} /\ Start.sorted = <<>>
    BY EmptySeq, SortingOf DEF Start
  <2>2. Ordered(ts, <<>>)
    BY DEF Ordered
  <2> QED
    BY <1>7, <2>1, <2>2
<1>9. ASSUME NEW i \in T PROVE i + 1 \in T
  <2> SUFFICES ASSUME i + 1 <= k PROVE Mid(i + 1)
    OBVIOUS
  <2>1. i + 1 \in 1..k /\ (i + 1) - 1 = i /\ Mid(i)
    BY <1>5
  <2>2. PICK a, b, d : /\ a = g[i] /\ b = g[i + 1] /\ d = order[i + 1] /\ b = visit[N + 1][a][d]
                       /\ a \in Sortings(ts) /\ d \in ts
    BY <1>6, <1>7, <2>1
  <2>3. Cardinality(ts \ a.visiting) < N + 1
    <3>1. PICK c : c = ts \ a.visiting /\ c = ts
      BY <2>1, <2>2
    <3>2. Cardinality(c) = N /\ N < N + 1
      <4>1. N = Cardinality(ts) /\ c = ts
        BY <1>5, <3>1
      <4>2. Cardinality(c) = N
        BY <4>1, Zenon
      <4> QED
        BY <1>5, <4>2
    <3> QED
      BY <3>1, <3>2
  <2>4. Visited(ts, a, d, b)
    <3>1. N + 1 \in S
      BY <1>4, <1>5
    <3> QED
      BY <2>2, <2>3, <3>1
  <2>5. \A j \in 1..(i + 1) : j = i + 1 \/ j \in 1..i
    BY <2>1
  <2> HIDE DEF S
  <2> QED
    BY <2>1, <2>2, <2>4, <2>5 DEF Visited
<1>10. Mid(k)
  <2> HIDE DEF Mid
  <2>1. T = Nat
    <3> HIDE DEF T
    <3>1. T \in SUBSET Nat
      BY DEF T
    <3> QED
      BY <1>8, <1>9, <3>1, Induction
  <2> QED
    BY <1>5, <2>1
<1>11. PICK t : t = TopoSortedTypes(ts) /\ t = g[k]
  BY <1>1, <1>5
<1>12. Range(t.sorted) \subseteq ts
  BY <1>10, <1>11, SortingIs, RangeIs
<1>13. ~t.cyclic => ts \subseteq Range(t.sorted)
  <2>1. \A x \in ts : \E j \in 1..k : x = order[j]
    BY <1>5, RangeIs
  <2> QED
    BY <1>10, <1>11, <2>1
<1> QED
  BY <1>10, <1>11, <1>12, <1>13

-----------------------------------------------------------------------------
(* The entries of a file.                                                  *)
IsEntry(x) ==
  x = [name |-> x.name, spaces |-> x.spaces, of |-> x.of, role |-> x.role, uses |-> x.uses,
       eager |-> x.eager, parses |-> x.parses]

LEMMA EntryFields ==
  ASSUME NEW name, NEW spaces, NEW uses, NEW eager
  PROVE  LET x == Entry(name, spaces, uses, eager)
         IN /\ IsEntry(x) /\ x.name = name /\ x.uses = uses /\ x.eager = eager
            /\ x.role = "symbol" /\ x.parses
<1>1. PICK x : x = Entry(name, spaces, uses, eager)
  OBVIOUS
<1>2. PICK b : b \in BOOLEAN /\ b = TRUE
  OBVIOUS
<1>3. x = [name |-> name, spaces |-> spaces, of |-> Unknown, role |-> "symbol", uses |-> uses,
           eager |-> eager, parses |-> b]
  BY <1>1, <1>2, Zenon DEF Entry
<1>4. /\ x.name = name /\ x.spaces = spaces /\ x.of = Unknown /\ x.role = "symbol" /\ x.uses = uses
      /\ x.eager = eager /\ x.parses = b
  BY <1>3
<1>5. x.parses
  BY ONLY <1>2, <1>4
<1> QED
  BY <1>1, <1>3, <1>4, <1>5 DEF IsEntry

LEMMA MarkedEntry ==
  ASSUME NEW a, IsEntry(a), NEW of, NEW role
  PROVE  LET x == [a EXCEPT !.of = of, !.role = role]
         IN /\ x.name = a.name /\ x.uses = a.uses /\ x.eager = a.eager /\ x.parses = a.parses
            /\ x.of = of /\ x.role = role
<1>1. PICK n, s, o, r, u, e, b :
        /\ a = [name |-> n, spaces |-> s, of |-> o, role |-> r, uses |-> u, eager |-> e, parses |-> b]
        /\ a.name = n /\ a.uses = u /\ a.eager = e /\ a.parses = b
  BY DEF IsEntry
<1>2. PICK y : y = [a EXCEPT !.of = of]
  OBVIOUS
<1>3. y = [name |-> n, spaces |-> s, of |-> of, role |-> r, uses |-> u, eager |-> e, parses |-> b]
  BY ONLY <1>1, <1>2
<1>4. PICK x : x = [y EXCEPT !.role = role]
  OBVIOUS
<1>5. x = [name |-> n, spaces |-> s, of |-> of, role |-> role, uses |-> u, eager |-> e, parses |-> b]
  BY ONLY <1>3, <1>4
<1>6. x.name = n /\ x.uses = u /\ x.eager = e /\ x.parses = b /\ x.of = of /\ x.role = role
  BY ONLY <1>5
<1>7. [a EXCEPT !.of = of, !.role = role] = x
  BY <1>2, <1>4
<1> QED
  BY <1>1, <1>6, <1>7

SameEntry(x, a, of, role) ==
  /\ x.name = a.name /\ x.uses = a.uses /\ x.eager = a.eager /\ x.parses = a.parses
  /\ x.of = of /\ x.role = role

LEMMA MarkedIs ==
  ASSUME NEW n \in Nat, NEW es, DOMAIN es = 1..n, \A i \in 1..n : IsEntry(es[i]), NEW of, NEW role
  PROVE  LET m == Marked(es, of, role)
         IN /\ IsSeq(m) /\ Len(m) = n /\ DOMAIN m = 1..n
            /\ \A i \in 1..n : SameEntry(m[i], es[i], of, role)
<1>1. PICK m : m = Marked(es, of, role)
  OBVIOUS
<1>2. m = [i \in 1..n |-> [es[i] EXCEPT !.of = of, !.role = role]]
  BY <1>1 DEF Marked
<1>3. m = [i \in 1..n |-> m[i]]
  BY <1>2
<1>4. ASSUME NEW i \in 1..n PROVE SameEntry(m[i], es[i], of, role)
  <2>1. m[i] = [es[i] EXCEPT !.of = of, !.role = role]
    BY <1>2
  <2>2. PICK a : a = es[i] /\ IsEntry(a)
    OBVIOUS
  <2>3. m[i] = [a EXCEPT !.of = of, !.role = role]
    BY <2>1, <2>2, Zenon
  <2> QED
    BY <2>2, <2>3, MarkedEntry DEF SameEntry
<1> QED
  BY <1>1, <1>3, <1>4, SeqIs

LEMMA OneMarked ==
  ASSUME NEW a, IsEntry(a), NEW of, NEW role
  PROVE  LET m == Marked(<<a>>, of, role)
         IN IsSeq(m) /\ Len(m) = 1 /\ DOMAIN m = 1..1 /\ SameEntry(m[1], a, of, role)
<1>1. PICK es : es = <<a>>
  OBVIOUS
<1>2. DOMAIN es = 1..1 /\ es[1] = a /\ \A i \in 1..1 : i = 1
  BY ONLY <1>1
<1>3. \A i \in 1..1 : IsEntry(es[i])
  BY <1>2
<1>4. PICK m : m = Marked(es, of, role)
  OBVIOUS
<1>5. IsSeq(m) /\ Len(m) = 1 /\ DOMAIN m = 1..1 /\ \A i \in 1..1 : SameEntry(m[i], es[i], of, role)
  <2>1. PICK n \in Nat : n = 1
    OBVIOUS
  <2>2. DOMAIN es = 1..n /\ \A i \in 1..n : IsEntry(es[i])
    BY <1>2, <1>3, <2>1
  <2>3. /\ IsSeq(m) /\ Len(m) = n /\ DOMAIN m = 1..n
        /\ \A i \in 1..n : SameEntry(m[i], es[i], of, role)
    BY <1>4, <2>2, MarkedIs
  <2> QED
    BY <2>1, <2>3
<1>6. SameEntry(m[1], a, of, role)
  BY <1>2, <1>5
<1>7. Marked(<<a>>, of, role) = m
  BY <1>1, <1>4, Zenon
<1> QED
  BY <1>5, <1>6, <1>7, Zenon

LEMMA TwoMarked ==
  ASSUME NEW a, IsEntry(a), NEW b, IsEntry(b), NEW of, NEW role
  PROVE  LET m == Marked(<<a, b>>, of, role)
         IN /\ IsSeq(m) /\ Len(m) = 2 /\ DOMAIN m = 1..2
            /\ SameEntry(m[1], a, of, role) /\ SameEntry(m[2], b, of, role)
<1>1. PICK es : es = <<a, b>>
  OBVIOUS
<1>2. DOMAIN es = 1..2 /\ es[1] = a /\ es[2] = b /\ \A i \in 1..2 : i = 1 \/ i = 2
  BY ONLY <1>1
<1>3. \A i \in 1..2 : IsEntry(es[i])
  BY <1>2
<1>4. PICK m : m = Marked(es, of, role)
  OBVIOUS
<1>5. IsSeq(m) /\ Len(m) = 2 /\ DOMAIN m = 1..2 /\ \A i \in 1..2 : SameEntry(m[i], es[i], of, role)
  <2>1. PICK n \in Nat : n = 2
    OBVIOUS
  <2>2. DOMAIN es = 1..n /\ \A i \in 1..n : IsEntry(es[i])
    BY <1>2, <1>3, <2>1
  <2>3. /\ IsSeq(m) /\ Len(m) = n /\ DOMAIN m = 1..n
        /\ \A i \in 1..n : SameEntry(m[i], es[i], of, role)
    BY <1>4, <2>2, MarkedIs
  <2> QED
    BY <2>1, <2>3
<1>6. SameEntry(m[1], a, of, role) /\ SameEntry(m[2], b, of, role)
  BY <1>2, <1>5
<1>7. Marked(<<a, b>>, of, role) = m
  BY <1>1, <1>4, Zenon
<1> QED
  BY <1>5, <1>6, <1>7, Zenon

LEMMA SeqRange ==
  ASSUME NEW s, IsSeq(s)
  PROVE  /\ DOMAIN s = 1..Len(s) /\ Len(s) \in Nat
         /\ \A i \in 1..Len(s) : s[i] \in Range(s)
         /\ \A x \in Range(s) : \E i \in 1..Len(s) : x = s[i]
  BY RangeIs DEF IsSeq

\* One sequence after another.
LEMMA BothParts ==
  ASSUME NEW a, NEW b, IsSeq(a), IsSeq(b)
  PROVE  /\ IsSeq(a \o b) /\ Len(a \o b) = Len(a) + Len(b) /\ Range(a \o b) = Range(a) \cup Range(b)
         /\ \A i \in 1..Len(a) : (a \o b)[i] = a[i]
         /\ \A i \in 1..Len(b) : (a \o b)[Len(a) + i] = b[i]
<1>1. PICK A, B, X : A = Range(a) /\ B = Range(b) /\ X = A \cup B
  OBVIOUS
<1>2. a \in Seq(A) /\ b \in Seq(B)
  BY <1>1 DEF IsSeq
<1>3. a \in Seq(X) /\ b \in Seq(X)
  BY ONLY <1>1, <1>2
<1>4. PICK c : c = a ++ b
  OBVIOUS
<1>5. a \o b = c
  BY <1>4 DEF ++
<1>6. /\ c \in Seq(X) /\ Len(c) = Len(a) + Len(b)
      /\ \A i \in 1..Len(a) : c[i] = a[i]
      /\ \A i \in 1..Len(b) : c[Len(a) + i] = b[i]
  BY <1>3, <1>4, Positions
<1>7. Range(c) = Range(a) \cup Range(b)
  BY <1>3, <1>4, RangeOfBoth
<1>8. IsSeq(c)
  BY <1>6, IsSeqOf
<1> QED
  BY <1>5, <1>6, <1>7, <1>8

-----------------------------------------------------------------------------
(* The entries of a declaration in schemas.ts.                             *)
NamesIn(es) == {x.name : x \in Range(es)}
Mentions(d) == UNION {Named(ty) : ty \in FieldTypesIn(d)}
HasSeqs(d) == IsSeq(d.variants) /\ \A v \in Range(d.variants) : IsSeq(v.fields)
Members(d) == d.shape # "struct" => d.variants # <<>>

LEMMA UnionTypeFields ==
  ASSUME NEW name, NEW members
  PROVE  LET x == UnionType(name, members)
         IN /\ IsEntry(x) /\ x.name = name /\ x.uses = members /\ x.eager = {}
            /\ members # {} => x.parses
<1>1. PICK b : b \in BOOLEAN /\ (b <=> members # {}) /\ b = (members # {})
  OBVIOUS
<1>2. PICK a : a = Interface(name, members)
  OBVIOUS
<1>3. PICK s, o, r, u, e, p : /\ a = [name |-> name, spaces |-> s, of |-> o, role |-> r, uses |-> u, eager |-> e, parses |-> p]
                              /\ u = members /\ e = {}
  <2>1. IsEntry(a) /\ a.name = name /\ a.uses = members /\ a.eager = {}
    BY <1>2, EntryFields DEF Interface
  <2> QED
    BY <2>1 DEF IsEntry
<1>4. PICK x : x = UnionType(name, members)
  OBVIOUS
<1>5. x = [a EXCEPT !.parses = b]
  BY <1>1, <1>2, <1>4, Zenon DEF UnionType
<1>6. x = [name |-> name, spaces |-> s, of |-> o, role |-> r, uses |-> u, eager |-> e, parses |-> b]
  BY ONLY <1>3, <1>5
<1>7. /\ x.name = name /\ x.spaces = s /\ x.of = o /\ x.role = r /\ x.uses = u /\ x.eager = e
      /\ x.parses = b
  BY ONLY <1>6
<1>8. IsEntry(x)
  BY ONLY <1>6, <1>7 DEF IsEntry
<1>9. members # {} => x.parses
  BY ONLY <1>1, <1>7
<1> QED
  BY <1>3, <1>4, <1>7, <1>8, <1>9

LEMMA ExprNames ==
  ASSUME NEW ty
  PROVE  Named(ty) \subseteq SchemaExpr(ty) /\ SchemaExpr(ty) \subseteq {Schema} \cup Named(ty)
BY DEF SchemaExpr

LEMMA FieldNames ==
  ASSUME NEW d, NEW fields, \A f \in Range(fields) : f.ty \in FieldTypesIn(d)
  PROVE  /\ FieldTypes(fields) \subseteq Mentions(d)
         /\ FieldsObject(fields) \subseteq {Schema} \cup Mentions(d)
<1>1. \A f \in Range(fields) : Named(f.ty) \subseteq Mentions(d)
  BY DEF Mentions
<1>2. \A f \in Range(fields) : SchemaExpr(f.ty) \subseteq {Schema} \cup Mentions(d)
  BY <1>1, ExprNames
<1> QED
  BY <1>1, <1>2 DEF FieldTypes, FieldsObject

SchemaMade(d, es) ==
  /\ IsSeq(es) /\ TsName(d) \in NamesIn(es)
  /\ \A x \in Range(es) :
       /\ x.uses \subseteq {Schema} \cup Mentions(d) \cup NamesIn(es)
       /\ x.eager \subseteq {Schema} \cup Mentions(d)
       /\ Members(d) => x.parses
       /\ x.role = "symbol" => x.of = d.id /\ x.name = TsName(d)

LEMMA PairMade ==
  ASSUME NEW d, NEW uses, uses \subseteq Mentions(d), NEW eager, eager \subseteq {Schema} \cup Mentions(d)
  PROVE  SchemaMade(d, Marked(<<Interface(TsName(d), uses), Const(TsName(d), eager)>>, d.id, "symbol"))
<1>1. PICK a : a = Interface(TsName(d), uses) /\ IsEntry(a) /\ a.name = TsName(d) /\ a.uses = uses
               /\ a.eager = {} /\ a.parses
  BY EntryFields DEF Interface
<1>2. PICK b : b = Const(TsName(d), eager) /\ IsEntry(b) /\ b.name = TsName(d) /\ b.uses = eager
               /\ b.eager = eager /\ b.parses
  BY EntryFields DEF Const
<1>3. PICK m : m = Marked(<<a, b>>, d.id, "symbol")
  OBVIOUS
<1>4. /\ IsSeq(m) /\ Len(m) = 2 /\ DOMAIN m = 1..2
      /\ SameEntry(m[1], a, d.id, "symbol") /\ SameEntry(m[2], b, d.id, "symbol")
  BY <1>1, <1>2, <1>3, TwoMarked
<1>5. Range(m) = {m[1], m[2]}
  BY <1>4 DEF Range
<1>6. SchemaMade(d, m)
  BY <1>1, <1>2, <1>4, <1>5, ZenonT(60) DEF SchemaMade, SameEntry, NamesIn
<1> QED
  BY <1>1, <1>2, <1>3, <1>6, Zenon

LEMMA SchemaItemsAre ==
  ASSUME NEW d, HasSeqs(d), d.shape \in {"struct", "newtype"} => Len(d.variants) = 1,
         d.shape = "newtype" => Len(d.variants[1].fields) = 1
  PROVE  SchemaMade(d, SchemaItems(d))
<1>0. PICK n : n = Len(d.variants) /\ n \in Nat /\ DOMAIN d.variants = 1..n
               /\ \A i \in 1..n : d.variants[i] \in Range(d.variants)
  BY SeqRange DEF HasSeqs
<1>1. ASSUME NEW i \in 1..n PROVE \A f \in Range(d.variants[i].fields) : f.ty \in FieldTypesIn(d)
  BY <1>0 DEF FieldTypesIn
<1>2. CASE d.shape = "struct"
  <2>1. /\ FieldTypes(d.variants[1].fields) \subseteq Mentions(d)
        /\ FieldsObject(d.variants[1].fields) \subseteq {Schema} \cup Mentions(d)
    <3>1. d.shape \in {"struct", "newtype"}
      BY <1>2
    <3>2. n = 1
      BY <1>0, <3>1
    <3>3. 1 \in 1..n
      BY <3>2
    <3> QED
      BY <1>1, <3>3, FieldNames
  <2> QED
    BY <1>2, <2>1, PairMade DEF SchemaItems
<1>3. CASE d.shape = "newtype"
  <2>1. PICK ty : ty = d.variants[1].fields[1].ty
    OBVIOUS
  <2>2. n = 1 /\ IsSeq(d.variants[1].fields) /\ Len(d.variants[1].fields) = 1
    BY <1>0, <1>3 DEF HasSeqs
  <2>3. d.variants[1].fields[1] \in Range(d.variants[1].fields)
    BY <2>2, SeqRange
  <2>4. ty \in FieldTypesIn(d)
    BY <1>1, <2>1, <2>2, <2>3
  <2>5. SchemaExpr(ty) \subseteq {Schema} \cup Mentions(d)
    BY <2>4, ExprNames DEF Mentions
  <2>6. FieldTypes(d.variants[1].fields) \subseteq Mentions(d)
    BY <1>1, <2>2, FieldNames
  <2> QED
    BY <1>3, <2>1, <2>5, <2>6, PairMade DEF SchemaItems
<1>4. CASE d.shape \notin {"struct", "newtype"}
  <2> DEFINE vs == [i \in DOMAIN d.variants |->
                      Interface(TsName(d) \o d.variants[i].name, FieldTypes(d.variants[i].fields))]
             ms == {vs[i].name : i \in DOMAIN vs}
             all == FlattenSeq([i \in DOMAIN d.variants |-> d.variants[i].fields])
  <2>1. PICK v : v = vs
    OBVIOUS
  <2>2. /\ DOMAIN v = 1..n
        /\ \A i \in 1..n : IsEntry(v[i]) /\ v[i].uses \subseteq Mentions(d) /\ v[i].eager = {} /\ v[i].parses
    <3>1. DOMAIN v = 1..n
      BY <1>0, <2>1
    <3>2. ASSUME NEW i \in 1..n
          PROVE  IsEntry(v[i]) /\ v[i].uses \subseteq Mentions(d) /\ v[i].eager = {} /\ v[i].parses
      <4>1. v[i] = Interface(TsName(d) \o d.variants[i].name, FieldTypes(d.variants[i].fields))
        BY <1>0, <2>1
      <4>2. FieldTypes(d.variants[i].fields) \subseteq Mentions(d)
        BY <1>1, FieldNames
      <4> QED
        BY <4>1, <4>2, EntryFields DEF Interface
    <3> QED
      BY <3>1, <3>2
  <2>3. PICK u, M : /\ M = ms /\ u = UnionType(TsName(d), M) /\ IsEntry(u) /\ u.name = TsName(d)
                    /\ u.uses = M /\ u.eager = {} /\ (M # {} => u.parses)
    <3>1. PICK M : M = ms
      OBVIOUS
    <3> QED
      BY <3>1, UnionTypeFields
  <2>4. FieldsObject(all) \subseteq {Schema} \cup Mentions(d)
    <3>1. PICK p : p = [i \in DOMAIN d.variants |-> d.variants[i].fields]
      OBVIOUS
    <3>2. p = [i \in 1..n |-> p[i]] /\ \A i \in 1..n : p[i] = d.variants[i].fields
      BY <1>0, <3>1
    <3>3. \A i \in 1..n : IsSeq(p[i])
      BY <1>0, <3>2 DEF HasSeqs
    <3>4. \A x : x \in Range(FlattenSeq(p)) <=> \E i \in 1..n : x \in Range(p[i])
      BY <1>0, <3>2, <3>3, PartsAre
    <3>5. \A f \in Range(FlattenSeq(p)) : f.ty \in FieldTypesIn(d)
      BY <1>1, <3>2, <3>4
    <3> QED
      BY <3>1, <3>5, FieldNames
  <2>5. PICK c : c = Const(TsName(d), FieldsObject(all)) /\ IsEntry(c) /\ c.name = TsName(d)
                 /\ c.uses = FieldsObject(all) /\ c.eager = FieldsObject(all) /\ c.parses
    BY EntryFields DEF Const
  <2>6. PICK a : a = Marked(v, d.id, "derived")
    OBVIOUS
  <2>7. IsSeq(a) /\ Len(a) = n /\ DOMAIN a = 1..n /\ \A i \in 1..n : SameEntry(a[i], v[i], d.id, "derived")
    BY <1>0, <2>2, <2>6, MarkedIs
  <2>8. PICK b : b = Marked(<<u, c>>, d.id, "symbol")
    OBVIOUS
  <2>9. /\ IsSeq(b) /\ Len(b) = 2 /\ DOMAIN b = 1..2
        /\ SameEntry(b[1], u, d.id, "symbol") /\ SameEntry(b[2], c, d.id, "symbol")
    <3>1. IsEntry(u) /\ IsEntry(c)
      BY <2>3, <2>5
    <3> QED
      BY <2>8, <3>1, TwoMarked
  <2>10. SchemaItems(d) = a \o b
    <3>1. u = UnionType(TsName(d), ms) /\ c = Const(TsName(d), FieldsObject(all))
      BY <2>3, <2>5
    <3>2. SchemaItems(d) = Marked(vs, d.id, "derived")
            \o Marked(<<UnionType(TsName(d), ms), Const(TsName(d), FieldsObject(all))>>, d.id, "symbol")
      BY <1>4 DEF SchemaItems
    <3> QED
      BY <2>1, <2>6, <2>8, <3>1, <3>2, Zenon
  <2>11. Range(b) = {b[1], b[2]} /\ Range(a) = {a[i] : i \in 1..n}
    BY <2>7, <2>9 DEF Range
  <2>12. M = {v[i].name : i \in 1..n}
    BY <2>1, <2>2, <2>3
  <2>13. Members(d) => M # {}
    <3>1. d.variants # <<>> => n # 0
      BY <1>0, EmptySeq, SeqRange DEF HasSeqs, IsSeq
    <3>2. n # 0 => 1 \in 1..n
      BY <1>0
    <3> QED
      BY <1>4, <2>12, <3>1, <3>2 DEF Members
  <2> HIDE DEF vs, ms, all
  <2>14. IsSeq(a \o b) /\ Range(a \o b) = Range(a) \cup Range(b)
    BY <2>7, <2>9, BothParts
  <2>15. \A i \in 1..n : v[i].name \in NamesIn(a \o b)
    <3>1. ASSUME NEW i \in 1..n PROVE v[i].name \in NamesIn(a \o b)
      <4>1. a[i] \in Range(a \o b) /\ a[i].name = v[i].name
        BY <2>7, <2>11, <2>14 DEF SameEntry
      <4> QED
        BY <4>1 DEF NamesIn
    <3> QED
      BY <3>1
  <2>16. TsName(d) \in NamesIn(a \o b)
    BY <2>3, <2>9, <2>11, <2>14 DEF SameEntry, NamesIn
  <2>17. ASSUME NEW x \in Range(a \o b)
         PROVE  /\ x.uses \subseteq {Schema} \cup Mentions(d) \cup NamesIn(a \o b)
                /\ x.eager \subseteq {Schema} \cup Mentions(d)
                /\ Members(d) => x.parses
                /\ x.role = "symbol" => x.of = d.id /\ x.name = TsName(d)
    <3>1. CASE x \in Range(a)
      <4>1. PICK i \in 1..n : x = a[i]
        BY <2>11, <3>1
      <4> QED
        BY <2>2, <2>7, <4>1 DEF SameEntry
    <3>2. CASE x = b[1]
      <4>1. x.uses = M /\ x.eager = {} /\ (M # {} => x.parses) /\ x.of = d.id /\ x.name = TsName(d)
        BY <2>3, <2>9, <3>2 DEF SameEntry
      <4>2. M \subseteq NamesIn(a \o b)
        BY <2>12, <2>15
      <4> QED
        BY <2>13, <4>1, <4>2
    <3>3. CASE x = b[2]
      <4>1. /\ x.uses = FieldsObject(all) /\ x.eager = FieldsObject(all) /\ x.parses
            /\ x.of = d.id /\ x.name = TsName(d)
        BY <2>5, <2>9, <3>3 DEF SameEntry
      <4> QED
        BY <2>4, <4>1
    <3> QED
      BY <2>11, <2>14, <3>1, <3>2, <3>3
  <2>18. SchemaMade(d, a \o b)
    BY <2>14, <2>16, <2>17 DEF SchemaMade
  <2> QED
    BY <2>10, <2>18
<1> QED
  BY <1>2, <1>3, <1>4

-----------------------------------------------------------------------------
(* The entries of an error in errors.ts.                                   *)
LEMMA WithParses ==
  ASSUME NEW a, IsEntry(a), NEW b
  PROVE  LET x == [a EXCEPT !.parses = b]
         IN /\ IsEntry(x) /\ x.name = a.name /\ x.uses = a.uses /\ x.eager = a.eager
            /\ x.of = a.of /\ x.role = a.role /\ x.parses = b
<1>1. PICK n, s, o, r, u, e, p :
        /\ a = [name |-> n, spaces |-> s, of |-> o, role |-> r, uses |-> u, eager |-> e, parses |-> p]
        /\ a.name = n /\ a.uses = u /\ a.eager = e /\ a.of = o /\ a.role = r
  BY DEF IsEntry
<1>2. PICK x : x = [a EXCEPT !.parses = b]
  OBVIOUS
<1>3. x = [name |-> n, spaces |-> s, of |-> o, role |-> r, uses |-> u, eager |-> e, parses |-> b]
  BY ONLY <1>1, <1>2
<1>4. /\ x.name = n /\ x.spaces = s /\ x.of = o /\ x.role = r /\ x.uses = u /\ x.eager = e
      /\ x.parses = b
  BY ONLY <1>3
<1>5. IsEntry(x)
  BY ONLY <1>3, <1>4 DEF IsEntry
<1> QED
  BY <1>1, <1>2, <1>4, <1>5

LEMMA WithOf ==
  ASSUME NEW a, IsEntry(a), NEW of
  PROVE  LET x == [a EXCEPT !.of = of]
         IN /\ IsEntry(x) /\ x.name = a.name /\ x.uses = a.uses /\ x.eager = a.eager
            /\ x.of = of /\ x.role = a.role
<1>1. PICK n, s, o, r, u, e, p :
        /\ a = [name |-> n, spaces |-> s, of |-> o, role |-> r, uses |-> u, eager |-> e, parses |-> p]
        /\ a.name = n /\ a.uses = u /\ a.eager = e /\ a.role = r
  BY DEF IsEntry
<1>2. PICK x : x = [a EXCEPT !.of = of]
  OBVIOUS
<1>3. x = [name |-> n, spaces |-> s, of |-> of, role |-> r, uses |-> u, eager |-> e, parses |-> p]
  BY ONLY <1>1, <1>2
<1>4. /\ x.name = n /\ x.spaces = s /\ x.of = of /\ x.role = r /\ x.uses = u /\ x.eager = e
      /\ x.parses = p
  BY ONLY <1>3
<1>5. IsEntry(x)
  BY ONLY <1>3, <1>4 DEF IsEntry
<1> QED
  BY <1>1, <1>2, <1>4, <1>5

BeforeIn(es, p) == {es[q].name : q \in 1..(p - 1)}
Decoding == {Effect, ApiClientError, DecodeWithSchema}
Tags(d) == {v.wire : v \in Range(d.variants)}
Printed(d) == d.variants # <<>> /\ \A v \in Range(d.variants) : IsIdentifier(v.wire)

ErrorEntry(d, es, p) ==
  LET x == es[p]
  IN /\ x.uses \subseteq {Schema} \cup Decoding \cup Mentions(d) \cup NamesIn(es)
     /\ x.eager \subseteq {Schema} \cup Mentions(d) \cup BeforeIn(es, p)
     /\ Printed(d) => x.parses
     /\ x.role = "symbol" =>
          \/ x.of = d.id /\ x.name = TsName(d)
          \/ \E v \in Range(d.variants) : x.of = VariantId(d, v) /\ x.name = v.wire

ErrorMade(d, es) ==
  /\ IsSeq(es) /\ TsName(d) \in NamesIn(es) /\ DecoderName(TsName(d)) \in NamesIn(es)
  /\ \A p \in DOMAIN es : ErrorEntry(d, es, p)

LEMMA ClassEntry ==
  ASSUME NEW d, NEW v \in Range(d.variants)
  PROVE  LET x == [Class(v.wire, FieldsObject(v.fields)) EXCEPT
                     !.of = VariantId(d, v), !.parses = IsIdentifier(v.wire)]
         IN /\ x.name = v.wire /\ x.of = VariantId(d, v)
            /\ x.uses \subseteq {Schema} \cup Mentions(d) /\ x.eager \subseteq {Schema} \cup Mentions(d)
            /\ IsIdentifier(v.wire) => x.parses
<1>1. PICK a : a = Class(v.wire, FieldsObject(v.fields)) /\ IsEntry(a) /\ a.name = v.wire
               /\ a.uses = FieldsObject(v.fields) /\ a.eager = FieldsObject(v.fields)
  BY EntryFields DEF Class
<1>2. PICK b : b \in BOOLEAN /\ (b <=> IsIdentifier(v.wire)) /\ b = IsIdentifier(v.wire)
  BY DEF IsIdentifier
<1>3. PICK y : y = [a EXCEPT !.of = VariantId(d, v)]
  OBVIOUS
<1>4. /\ IsEntry(y) /\ y.name = a.name /\ y.uses = a.uses /\ y.eager = a.eager
      /\ y.of = VariantId(d, v)
  BY <1>1, <1>3, WithOf
<1>5. PICK x : x = [y EXCEPT !.parses = b]
  OBVIOUS
<1>6. /\ x.name = y.name /\ x.uses = y.uses /\ x.eager = y.eager /\ x.of = y.of /\ x.parses = b
  BY <1>4, <1>5, WithParses
<1>7. [a EXCEPT !.of = VariantId(d, v), !.parses = b] = x
  BY <1>3, <1>5
<1>8. [Class(v.wire, FieldsObject(v.fields)) EXCEPT
         !.of = VariantId(d, v), !.parses = IsIdentifier(v.wire)] = x
  BY <1>1, <1>2, <1>7, Zenon
<1>9. FieldsObject(v.fields) \subseteq {Schema} \cup Mentions(d)
  <2>1. \A f \in Range(v.fields) : f.ty \in FieldTypesIn(d)
    BY DEF FieldTypesIn
  <2> QED
    BY <2>1, FieldNames
<1>10. IsIdentifier(v.wire) => x.parses
  BY ONLY <1>2, <1>6
<1>11. /\ x.name = v.wire /\ x.of = VariantId(d, v)
       /\ x.uses \subseteq {Schema} \cup Mentions(d) /\ x.eager \subseteq {Schema} \cup Mentions(d)
  BY <1>1, <1>4, <1>6, <1>9
<1> QED
  BY <1>8, <1>10, <1>11

LEMMA DecoderEntry ==
  ASSUME NEW d, NEW of
  PROVE  LET x == [FnConst(DecoderName(TsName(d)), {Effect, ApiClientError, DecodeWithSchema, TsName(d)})
                     EXCEPT !.parses = Tags(d) # {}]
             m == Marked(<<x>>, of, "derived")
         IN /\ IsSeq(m) /\ Len(m) = 1 /\ DOMAIN m = 1..1
            /\ m[1].name = DecoderName(TsName(d)) /\ m[1].uses = Decoding \cup {TsName(d)}
            /\ m[1].eager = {} /\ m[1].role = "derived"
            /\ Tags(d) # {} => m[1].parses
<1>1. PICK uses : uses = {Effect, ApiClientError, DecodeWithSchema, TsName(d)}
  OBVIOUS
<1>2. PICK a : a = FnConst(DecoderName(TsName(d)), uses) /\ IsEntry(a)
               /\ a.name = DecoderName(TsName(d)) /\ a.uses = uses /\ a.eager = {}
  BY EntryFields DEF FnConst
<1>3. PICK b : b \in BOOLEAN /\ (b <=> Tags(d) # {}) /\ b = (Tags(d) # {})
  OBVIOUS
<1>4. PICK x : x = [a EXCEPT !.parses = b]
  OBVIOUS
<1>5. IsEntry(x) /\ x.name = a.name /\ x.uses = a.uses /\ x.eager = a.eager /\ x.parses = b
  BY <1>2, <1>4, WithParses
<1>6. x = [FnConst(DecoderName(TsName(d)), {Effect, ApiClientError, DecodeWithSchema, TsName(d)})
             EXCEPT !.parses = Tags(d) # {}]
  BY <1>1, <1>2, <1>3, <1>4, Zenon
<1>7. PICK m : m = Marked(<<x>>, of, "derived")
  OBVIOUS
<1>8. IsSeq(m) /\ Len(m) = 1 /\ DOMAIN m = 1..1 /\ SameEntry(m[1], x, of, "derived")
  BY <1>5, <1>7, OneMarked
<1>9. /\ m[1].name = DecoderName(TsName(d)) /\ m[1].uses = Decoding \cup {TsName(d)}
      /\ m[1].eager = {} /\ m[1].role = "derived"
  BY <1>1, <1>2, <1>5, <1>8 DEF SameEntry, Decoding
<1>10. Tags(d) # {} => m[1].parses
  BY <1>3, <1>5, <1>8 DEF SameEntry
<1>11. m = Marked(<<[FnConst(DecoderName(TsName(d)), {Effect, ApiClientError, DecodeWithSchema, TsName(d)})
                       EXCEPT !.parses = Tags(d) # {}]>>, of, "derived")
  BY <1>6, <1>7, Zenon
<1> HIDE <1>6, <1>7
<1> QED
  BY <1>8, <1>9, <1>10, <1>11, Zenon

LEMMA ErrorItemsAre ==
  ASSUME NEW d, HasSeqs(d)
  PROVE  ErrorMade(d, ErrorItems(d))
<1>0. PICK n : n = Len(d.variants) /\ n \in Nat /\ DOMAIN d.variants = 1..n
               /\ \A i \in 1..n : d.variants[i] \in Range(d.variants)
  BY SeqRange DEF HasSeqs
<1> DEFINE class(v) == [Class(v.wire, FieldsObject(v.fields)) EXCEPT
                          !.of = VariantId(d, v), !.parses = IsIdentifier(v.wire)]
           decoder == [FnConst(DecoderName(TsName(d)), {Effect, ApiClientError, DecodeWithSchema, TsName(d)})
                         EXCEPT !.parses = Tags(d) # {}]
<1>1. PICK a : a = [i \in DOMAIN d.variants |-> class(d.variants[i])]
  OBVIOUS
<1>2. PICK T : T = Tags(d)
  OBVIOUS
<1>3. PICK u : u = UnionType(TsName(d), T) /\ IsEntry(u) /\ u.name = TsName(d) /\ u.uses = T
               /\ u.eager = {} /\ (T # {} => u.parses)
  BY UnionTypeFields
<1>4. PICK c : c = Const(TsName(d), {Schema} \cup T) /\ IsEntry(c) /\ c.name = TsName(d)
               /\ c.uses = {Schema} \cup T /\ c.eager = {Schema} \cup T /\ c.parses
  BY EntryFields DEF Const
<1>5. PICK b : b = Marked(<<u, c>>, d.id, "symbol")
  OBVIOUS
<1>6. /\ IsSeq(b) /\ Len(b) = 2 /\ DOMAIN b = 1..2
      /\ SameEntry(b[1], u, d.id, "symbol") /\ SameEntry(b[2], c, d.id, "symbol")
  <2>1. IsEntry(u) /\ IsEntry(c)
    BY <1>3, <1>4
  <2> QED
    BY <1>5, <2>1, TwoMarked
<1>7. PICK e : e = Marked(<<decoder>>, d.id, "derived")
  OBVIOUS
<1>8. /\ IsSeq(e) /\ Len(e) = 1 /\ DOMAIN e = 1..1
      /\ e[1].name = DecoderName(TsName(d)) /\ e[1].uses = Decoding \cup {TsName(d)}
      /\ e[1].eager = {} /\ e[1].role = "derived" /\ (T # {} => e[1].parses)
  BY <1>2, <1>7, DecoderEntry
<1>9. ErrorItems(d) = (a \o b) \o e
  <2>1. Tags(d) = {v.wire : v \in Range(d.variants)}
    BY DEF Tags
  <2>2. ErrorItems(d) =
          ([i \in DOMAIN d.variants |-> class(d.variants[i])]
             \o Marked(<<UnionType(TsName(d), Tags(d)), Const(TsName(d), {Schema} \cup Tags(d))>>, d.id, "symbol"))
             \o Marked(<<decoder>>, d.id, "derived")
    BY <2>1, Zenon DEF ErrorItems
  <2> QED
    BY <1>1, <1>2, <1>3, <1>4, <1>5, <1>7, <2>2, Zenon
<1>10. /\ IsSeq(a) /\ Len(a) = n /\ DOMAIN a = 1..n
       /\ \A i \in 1..n : LET v == d.variants[i] IN
            /\ a[i].name = v.wire /\ a[i].of = VariantId(d, v)
            /\ a[i].uses \subseteq {Schema} \cup Mentions(d) /\ a[i].eager \subseteq {Schema} \cup Mentions(d)
            /\ IsIdentifier(v.wire) => a[i].parses
  <2>1. a = [i \in 1..n |-> class(d.variants[i])]
    BY <1>0, <1>1
  <2>2. a = [i \in 1..n |-> a[i]] /\ DOMAIN a = 1..n
    BY <2>1
  <2>3. ASSUME NEW i \in 1..n
        PROVE  LET v == d.variants[i] IN
               /\ a[i].name = v.wire /\ a[i].of = VariantId(d, v)
               /\ a[i].uses \subseteq {Schema} \cup Mentions(d) /\ a[i].eager \subseteq {Schema} \cup Mentions(d)
               /\ IsIdentifier(v.wire) => a[i].parses
    <3>1. PICK v \in Range(d.variants) : v = d.variants[i]
      BY <1>0
    <3>2. a[i] = class(v)
      BY <2>1, <3>1
    <3>3. /\ a[i].name = v.wire /\ a[i].of = VariantId(d, v)
          /\ a[i].uses \subseteq {Schema} \cup Mentions(d) /\ a[i].eager \subseteq {Schema} \cup Mentions(d)
          /\ IsIdentifier(v.wire) => a[i].parses
      BY <3>2, ClassEntry
    <3> QED
      BY <3>1, <3>3
  <2> QED
    BY <1>0, <2>2, <2>3, SeqIs
<1> HIDE DEF class, decoder
<1>11. PICK g : g = a \o b /\ IsSeq(g) /\ Len(g) = n + 2 /\ Range(g) = Range(a) \cup Range(b)
                /\ (\A i \in 1..n : g[i] = a[i]) /\ g[n + 1] = b[1] /\ g[n + 2] = b[2]
  <2>0. IsSeq(a) /\ IsSeq(b)
    BY <1>6, <1>10
  <2>1. /\ IsSeq(a \o b) /\ Len(a \o b) = Len(a) + Len(b) /\ Range(a \o b) = Range(a) \cup Range(b)
        /\ \A i \in 1..Len(a) : (a \o b)[i] = a[i]
        /\ \A i \in 1..Len(b) : (a \o b)[Len(a) + i] = b[i]
    BY <2>0, BothParts
  <2>2. PICK g : g = a \o b
    OBVIOUS
  <2>3. /\ IsSeq(g) /\ Len(g) = n + 2 /\ Range(g) = Range(a) \cup Range(b)
        /\ \A i \in 1..n : g[i] = a[i]
        /\ \A i \in 1..2 : g[n + i] = b[i]
    BY <1>6, <1>10, <2>1, <2>2
  <2>4. g[n + 1] = b[1] /\ g[n + 2] = b[2]
    <3>1. 1 \in 1..2 /\ 2 \in 1..2
      OBVIOUS
    <3> QED
      BY <2>3, <3>1
  <2> QED
    BY <2>2, <2>3, <2>4
<1>12. PICK h : /\ h = g \o e /\ IsSeq(h) /\ Len(h) = n + 3 /\ DOMAIN h = 1..(n + 3)
                /\ \A i \in 1..n : h[i] = a[i]
                /\ h[n + 1] = b[1] /\ h[n + 2] = b[2] /\ h[n + 3] = e[1]
  <2>0. IsSeq(g) /\ IsSeq(e)
    BY <1>8, <1>11
  <2>1. /\ IsSeq(g \o e) /\ Len(g \o e) = Len(g) + Len(e)
        /\ \A i \in 1..Len(g) : (g \o e)[i] = g[i]
        /\ \A i \in 1..Len(e) : (g \o e)[Len(g) + i] = e[i]
    BY <2>0, BothParts
  <2>2. PICK h : h = g \o e
    OBVIOUS
  <2>3. /\ IsSeq(h) /\ Len(h) = n + 3
        /\ \A i \in 1..(n + 2) : h[i] = g[i]
        /\ \A i \in 1..1 : h[(n + 2) + i] = e[i]
    BY <1>0, <1>8, <1>11, <2>1, <2>2
  <2>4. h[n + 3] = e[1] /\ h[n + 1] = g[n + 1] /\ h[n + 2] = g[n + 2] /\ \A i \in 1..n : h[i] = g[i]
    BY <1>0, <2>3
  <2>5. DOMAIN h = 1..(n + 3)
    BY <2>3, SeqRange
  <2> QED
    BY <1>11, <2>2, <2>3, <2>4, <2>5, ZenonT(30)
<1>13. \A p \in 1..(n + 3) : h[p].name \in NamesIn(h)
  BY <1>12, SeqRange DEF NamesIn
<1>14. T = {d.variants[i].wire : i \in 1..n}
  <2>1. \A v \in Range(d.variants) : \E i \in 1..n : v = d.variants[i]
    BY <1>0, SeqRange DEF HasSeqs
  <2>2. ASSUME NEW t \in T PROVE \E i \in 1..n : t = d.variants[i].wire
    <3>1. PICK v \in Range(d.variants) : t = v.wire
      BY <1>2 DEF Tags
    <3> QED
      BY <2>1, <3>1
  <2>3. ASSUME NEW i \in 1..n PROVE d.variants[i].wire \in T
    <3>1. d.variants[i] \in Range(d.variants)
      BY <1>0
    <3> QED
      BY <1>2, <3>1 DEF Tags
  <2> QED
    BY <2>2, <2>3
<1>15. /\ b[1].name = TsName(d) /\ b[1].uses = T /\ b[1].eager = {} /\ (T # {} => b[1].parses) /\ b[1].of = d.id
       /\ b[2].name = TsName(d) /\ b[2].uses = {Schema} \cup T /\ b[2].eager = {Schema} \cup T
       /\ b[2].parses /\ b[2].of = d.id
  BY <1>3, <1>4, <1>6 DEF SameEntry
<1>16. TsName(d) \in NamesIn(h) /\ DecoderName(TsName(d)) \in NamesIn(h) /\ T \subseteq NamesIn(h)
  <2>1. n + 1 \in 1..(n + 3) /\ n + 3 \in 1..(n + 3) /\ \A i \in 1..n : i \in 1..(n + 3)
    BY <1>0
  <2>2. TsName(d) \in NamesIn(h)
    BY <1>12, <1>13, <1>15, <2>1
  <2>3. DecoderName(TsName(d)) \in NamesIn(h)
    BY <1>8, <1>12, <1>13, <2>1
  <2>4. \A i \in 1..n : d.variants[i].wire \in NamesIn(h)
    <3>1. \A i \in 1..n : h[i].name = d.variants[i].wire
      BY <1>10, <1>12
    <3> QED
      BY <1>13, <2>1, <3>1
  <2> QED
    BY <1>14, <2>2, <2>3, <2>4
<1>17. Printed(d) => T # {} /\ \A i \in 1..n : IsIdentifier(d.variants[i].wire)
  <2>1. d.variants # <<>> => n # 0
    BY <1>0, EmptySeq, SeqRange DEF HasSeqs, IsSeq
  <2>2. n # 0 => 1 \in 1..n
    BY <1>0
  <2> QED
    BY <1>0, <1>14, <2>1, <2>2 DEF Printed
<1>18. ASSUME NEW p \in 1..(n + 3) PROVE ErrorEntry(d, h, p)
  <2>1. CASE p \in 1..n
    BY <1>0, <1>10, <1>12, <1>17, <2>1, ZenonT(30) DEF ErrorEntry
  <2>2. CASE p = n + 1
    BY <1>12, <1>15, <1>16, <1>17, <2>2 DEF ErrorEntry
  <2>3. CASE p = n + 2
    <3>1. T \subseteq BeforeIn(h, p)
      <4>1. ASSUME NEW i \in 1..n PROVE d.variants[i].wire \in BeforeIn(h, p)
        <5>1. n \in Nat
          BY <1>0
        <5>2. i \in 1..(p - 1)
          BY ONLY <2>3, <5>1, i \in 1..n
        <5>3. h[i] = a[i]
          BY <1>12
        <5>4. h[i].name = d.variants[i].wire
          BY <1>10, <5>3
        <5> QED
          BY <5>2, <5>4 DEF BeforeIn
      <4> QED
        BY <1>14, <4>1
    <3> QED
      BY <1>12, <1>15, <1>16, <2>3, <3>1 DEF ErrorEntry
  <2>4. CASE p = n + 3
    BY <1>8, <1>12, <1>16, <1>17, <2>4 DEF ErrorEntry
  <2> QED
    BY <1>0, <2>1, <2>2, <2>3, <2>4
<1>19. ErrorMade(d, h)
  BY <1>12, <1>16, <1>18 DEF ErrorMade
<1> QED
  BY <1>9, <1>11, <1>12, <1>19, Zenon

-----------------------------------------------------------------------------
(* The entries of an endpoint.                                             *)
Accessed(e) == AccessorUses(e) \cup (IF HasArgs(e) THEN ArgsUses(e) ELSE {})

EndpointEntry(e, x) ==
  /\ x.uses \subseteq Accessed(e) /\ x.eager = {} /\ x.parses
  /\ x.role = "symbol" => x.of = EndpointId(e) /\ x.name = e.ts_name

EndpointPrinted(e, es) ==
  /\ IsSeq(es) /\ (HasArgs(e) => ArgsName(e) \in NamesIn(es))
  /\ \A x \in Range(es) : EndpointEntry(e, x)

LEMMA EndpointPart ==
  ASSUME NEW e, NEW a, IsEntry(a), a.uses \subseteq Accessed(e), a.eager = {}, a.parses, NEW role,
         role = "symbol" => a.name = e.ts_name
  PROVE  LET m == Marked(<<a>>, EndpointId(e), role)
         IN IsSeq(m) /\ NamesIn(m) = {a.name} /\ \A x \in Range(m) : EndpointEntry(e, x)
<1>1. PICK m : m = Marked(<<a>>, EndpointId(e), role)
  OBVIOUS
<1>2. IsSeq(m) /\ Len(m) = 1 /\ DOMAIN m = 1..1 /\ SameEntry(m[1], a, EndpointId(e), role)
  BY <1>1, OneMarked
<1>3. Range(m) = {m[1]}
  BY <1>2 DEF Range
<1>4. NamesIn(m) = {a.name}
  BY <1>2, <1>3 DEF NamesIn, SameEntry
<1>5. EndpointEntry(e, m[1])
  BY <1>2 DEF EndpointEntry, SameEntry
<1> QED
  BY <1>1, <1>2, <1>3, <1>4, <1>5, Zenon

LEMMA EndpointItemsAre == ASSUME NEW e PROVE EndpointPrinted(e, EndpointItems(e))
<1>1. PICK i : i = Interface(ArgsName(e), ArgsUses(e)) /\ IsEntry(i) /\ i.name = ArgsName(e)
               /\ i.uses = ArgsUses(e) /\ i.eager = {} /\ i.parses
  BY EntryFields DEF Interface
<1>2. PICK r : r = Const(RouteName(e), {}) /\ IsEntry(r) /\ r.uses = {} /\ r.eager = {} /\ r.parses
  BY EntryFields DEF Const
<1>3. PICK f : f = FnConst(e.ts_name, AccessorUses(e)) /\ IsEntry(f) /\ f.name = e.ts_name
               /\ f.uses = AccessorUses(e) /\ f.eager = {} /\ f.parses
  BY EntryFields DEF FnConst
<1>4. PICK a : a = IF HasArgs(e) THEN Marked(<<i>>, EndpointId(e), "derived") ELSE <<>>
  OBVIOUS
<1>5. IsSeq(a) /\ (HasArgs(e) => ArgsName(e) \in NamesIn(a)) /\ \A x \in Range(a) : EndpointEntry(e, x)
  <2>1. CASE HasArgs(e)
    <3>1. a = Marked(<<i>>, EndpointId(e), "derived")
      BY <1>4, <2>1
    <3>2. i.uses \subseteq Accessed(e)
      BY <1>1, <2>1 DEF Accessed
    <3>3. IsSeq(a) /\ NamesIn(a) = {i.name} /\ \A x \in Range(a) : EndpointEntry(e, x)
      <4>1. PICK role : role = "derived"
        OBVIOUS
      <4>2. role # "symbol"
        BY <4>1
      <4> QED
        BY <1>1, <3>1, <3>2, <4>1, <4>2, EndpointPart
    <3> QED
      BY <1>1, <3>3
  <2>2. CASE ~HasArgs(e)
    <3>1. a = <<>> /\ IsSeq(<<>>) /\ Range(<<>>) = {}
      BY <1>4, <2>2, NoVariants
    <3> QED
      BY <2>2, <3>1
  <2> QED
    BY <2>1, <2>2
<1>6. PICK b : b = Marked(<<r>>, EndpointId(e), "route") /\ IsSeq(b) /\ \A x \in Range(b) : EndpointEntry(e, x)
  <2>1. PICK role : role = "route"
    OBVIOUS
  <2>2. role # "symbol" /\ r.uses \subseteq Accessed(e)
    BY <1>2, <2>1
  <2> QED
    BY <1>2, <2>1, <2>2, EndpointPart
<1>7. PICK c : c = Marked(<<f>>, EndpointId(e), "symbol") /\ IsSeq(c) /\ \A x \in Range(c) : EndpointEntry(e, x)
  <2>1. f.uses \subseteq Accessed(e)
    BY <1>3 DEF Accessed
  <2> QED
    BY <1>3, <2>1, EndpointPart
<1>8. EndpointItems(e) = (a \o b) \o c
  BY <1>1, <1>2, <1>3, <1>4, <1>6, <1>7, Zenon DEF EndpointItems
<1>9. IsSeq(a \o b) /\ Range(a \o b) = Range(a) \cup Range(b)
  BY <1>5, <1>6, BothParts
<1>10. PICK g : g = a \o b
  OBVIOUS
<1>11. IsSeq(g) /\ Range(g) = Range(a) \cup Range(b)
  BY <1>9, <1>10
<1>12. IsSeq(g \o c) /\ Range(g \o c) = Range(g) \cup Range(c)
  BY <1>7, <1>11, BothParts
<1>13. PICK h : h = g \o c
  OBVIOUS
<1>14. IsSeq(h) /\ Range(h) = (Range(a) \cup Range(b)) \cup Range(c)
  BY <1>11, <1>12, <1>13
<1>15. HasArgs(e) => ArgsName(e) \in NamesIn(h)
  BY <1>5, <1>14 DEF NamesIn
<1>16. \A x \in Range(h) : EndpointEntry(e, x)
  BY <1>5, <1>6, <1>7, <1>14
<1>17. EndpointPrinted(e, h)
  BY <1>14, <1>15, <1>16 DEF EndpointPrinted
<1> QED
  BY <1>8, <1>10, <1>13, <1>17, Zenon

-----------------------------------------------------------------------------
(* A file of entries, part after part.                                     *)
InFile(f, p, n, q) ==
  \E i \in 1..n : \E j \in 1..Len(p[i]) :
    /\ f[q] = p[i][j]
    /\ \A l \in 1..(i - 1) : NamesIn(p[l]) \subseteq BeforeIn(f, q)
    /\ BeforeIn(p[i], j) \subseteq BeforeIn(f, q)

LEMMA FileOf ==
  ASSUME NEW n \in Nat, NEW p, p = [i \in 1..n |-> p[i]], \A i \in 1..n : IsSeq(p[i])
  PROVE  LET f == FlattenSeq(p)
         IN /\ IsSeq(f)
            /\ \A x : x \in Range(f) <=> \E i \in 1..n : x \in Range(p[i])
            /\ \A i \in 1..n : NamesIn(p[i]) \subseteq NamesIn(f)
            /\ \A q \in DOMAIN f : InFile(f, p, n, q)
<1>1. PICK f : f = FlattenSeq(p)
  OBVIOUS
<1>2. IsSeq(f) /\ \A x : x \in Range(f) <=> \E i \in 1..n : x \in Range(p[i])
  BY <1>1, PartsAre
<1>3. \A i \in 1..n : NamesIn(p[i]) \subseteq NamesIn(f)
  BY <1>2 DEF NamesIn
<1> DEFINE X == UNION {Range(p[i]) : i \in 1..n}
<1>4. ASSUME NEW i \in 1..n PROVE p[i] \in Seq(X)
  <2>1. p[i] \in Seq(Range(p[i])) /\ Range(p[i]) \subseteq X
    BY DEF IsSeq
  <2>2. PICK R, s : R = Range(p[i]) /\ s = p[i]
    OBVIOUS
  <2>3. s \in Seq(R) /\ R \subseteq X
    BY <2>1, <2>2
  <2> HIDE DEF X
  <2>4. s \in Seq(X)
    BY ONLY <2>3
  <2> QED
    BY <2>2, <2>4
<1>5. p \in Seq(Seq(X)) /\ Len(p) = n
  <2> HIDE DEF X
  <2>1. \A i \in 1..n : p[i] \in Seq(X)
    BY <1>4
  <2>2. PICK Y : Y = Seq(X)
    OBVIOUS
  <2>3. p \in [1..n -> Y]
    BY <2>1, <2>2
  <2>4. p \in Seq(Y) /\ Len(p) = n
    BY ONLY <2>3, n \in Nat
  <2> QED
    BY <2>2, <2>4
<1> HIDE DEF X
<1>6. ASSUME NEW q \in DOMAIN f PROVE InFile(f, p, n, q)
  <2>1. PICK i \in 1..n : \E j \in 1..Len(p[i]) : Placed(f, q, p, i, j)
    BY <1>1, <1>5, FlatPlaces
  <2>2. PICK j \in 1..Len(p[i]) : Placed(f, q, p, i, j)
    BY <2>1
  <2>3. \A x : Ahead(f, q, x) => x.name \in BeforeIn(f, q)
    BY DEF Ahead, BeforeIn
  <2>4. ASSUME NEW l \in 1..(i - 1) PROVE NamesIn(p[l]) \subseteq BeforeIn(f, q)
    BY <2>2, <2>3 DEF Placed, NamesIn
  <2>5. BeforeIn(p[i], j) \subseteq BeforeIn(f, q)
    BY <2>2, <2>3 DEF Placed, BeforeIn
  <2> QED
    BY <2>2, <2>4, <2>5 DEF Placed, InFile
<1> QED
  BY <1>1, <1>2, <1>3, <1>6

-----------------------------------------------------------------------------
(* A package that has been written.                                        *)
HasPackage == RoundInv /\ phase = "written"
SchemaNames == {TsName(d) : d \in contract.types}
ErrorNames == {TsName(d) : d \in contract.errors} \cup {DecoderName(TsName(d)) : d \in contract.errors}

LEMMA HasPackageIs ==
  ASSUME HasPackage
  PROVE  /\ ~HasErrors /\ package = LowerPackage(contract)
         /\ ~TopoSortedTypes(contract.types).cyclic
         /\ \A d \in contract.errors : d.id \notin SchemaRefs(contract)
         /\ contract.endpoints = endpoints /\ contract.types \cup contract.errors = Reached
         /\ contract.types = NsDecls(Reached, "type") /\ contract.errors = NsDecls(Reached, "error")
<1>1. ~HasErrors /\ GenerationDiagnostics(contract) = {} /\ package = LowerPackage(contract)
  BY DEF HasPackage, RoundInv, Packaged
<1>2. contract.types = NsDecls(Reached, "type") /\ contract.errors = NsDecls(Reached, "error")
  BY DEF HasPackage, RoundInv, Contracted
<1>3. contract.endpoints = endpoints /\ contract.types \cup contract.errors = Reached
  BY DeclsAre DEF HasPackage
<1>4. ~TopoSortedTypes(contract.types).cyclic
  <2>1. Err("recursive-type") \in {Err("recursive-type")}
    OBVIOUS
  <2> QED
    BY <1>1, <2>1 DEF GenerationDiagnostics
<1>5. ~ \E d \in contract.errors : d.id \in SchemaRefs(contract)
  <2>1. Err("error-as-type") \in {Err("error-as-type")}
    OBVIOUS
  <2> QED
    BY <1>1, <2>1 DEF GenerationDiagnostics
<1> QED
  BY <1>1, <1>2, <1>3, <1>4, <1>5

LEMMA DeclIs ==
  ASSUME HasPackage, NEW d \in contract.types \cup contract.errors
  PROVE  /\ d.id \in DOMAIN types /\ types[d.id] = d /\ HasSeqs(d)
         /\ DeclMade(modules, d.id.at, FindItem(modules, d.id.at, d.id.name), d)
         /\ d.id = Id(d.id.ns, d.id.at, d.id.name) /\ d.id.ns \in {"type", "error"}
         /\ ApiItemKind(FindItem(modules, d.id.at, d.id.name)) = d.id.ns
         /\ FindItem(modules, d.id.at, d.id.name) \in DeclItems
<1>1. PICK id \in DOMAIN types : d = types[id]
  BY HasPackageIs DEF Reached
<1>2. d.id = id /\ id.ns \in {"type", "error"} /\ id = Id(id.ns, id.at, id.name)
  BY <1>1, EntryIs DEF HasPackage, RoundInv
<1>3. HasSeqs(d)
  BY <1>1 DEF HasPackage, RoundInv, AllTyped, DeclHas, HasSeqs
<1>4. DeclMade(modules, d.id.at, FindItem(modules, d.id.at, d.id.name), d)
  BY <1>1, <1>2, HasPackageIs DEF HasPackage, RoundInv, AllMade
<1>5. /\ Item(id.at, id.name) \in Keys(modules) /\ id = KeyId(modules, Item(id.at, id.name))
      /\ Item(id.at, id.name).at = id.at /\ Item(id.at, id.name).name = id.name
  BY DEF HasPackage, RoundInv, WellFormed, Entries, Item
<1>6. ApiItemKind(FindItem(modules, id.at, id.name)) = id.ns
  <2>1. KeyId(modules, Item(id.at, id.name)).ns = ApiItemKind(FindItem(modules, id.at, id.name))
    BY <1>5 DEF KeyId, Id, ItemAt
  <2> QED
    BY <1>5, <2>1
<1>7. FindItem(modules, id.at, id.name) \in DeclItems
  <2>1. IsTab(modules)
    BY ModulesTab DEF HasPackage, RoundInv
  <2>2. PICK item : item = FindItem(modules, id.at, id.name)
    OBVIOUS
  <2>3. item \in Range(modules[id.at].items) /\ id.at \in DOMAIN modules
    BY <1>5, <2>1, <2>2, KeyItem DEF ItemAt
  <2>4. item \in Items
    BY <2>1, <2>2, <2>3, FindItemIs, FoundItem
  <2>5. item.kind \in {"enum", "error", "struct", "newtype"}
    BY <1>2, <1>4, <2>2 DEF DeclMade
  <2> QED
    BY <2>2, <2>4, <2>5 DEF Items, EndpointFns, RouterFns
<1> QED
  BY <1>1, <1>2, <1>3, <1>4, <1>6, <1>7

LEMMA DeclShapes ==
  ASSUME HasPackage, NEW d \in contract.types \cup contract.errors
  PROVE  /\ d.shape \in {"struct", "newtype"} => Len(d.variants) = 1
         /\ d.shape = "newtype" => Len(d.variants[1].fields) = 1
         /\ d \in contract.errors => d.shape # "struct"
<1>1. PICK item : item = FindItem(modules, d.id.at, d.id.name) /\ DeclMade(modules, d.id.at, item, d)
                  /\ ApiItemKind(item) = d.id.ns
  BY DeclIs
<1>2. /\ d.shape \in {"struct", "newtype"} => Len(d.variants) = 1
      /\ d.shape = "newtype" => Len(d.variants[1].fields) = 1
  BY <1>1 DEF DeclMade, StructWhole, NewtypeWhole
<1>3. ASSUME d \in contract.errors PROVE d.shape # "struct"
  <2>1. d.id.ns = "error"
    BY <1>3, HasPackageIs DEF NsDecls
  <2>2. item.kind \notin {"struct", "newtype"}
    <3>1. "error" # "type"
      OBVIOUS
    <3> QED
      BY <1>1, <2>1, <3>1 DEF ApiItemKind
  <2> QED
    BY <1>1, <2>2 DEF DeclMade
<1> QED
  BY <1>2, <1>3

\* A schema expression names declarations of schemas.ts.
LEMMA SchemaRefIs ==
  ASSUME HasPackage, Printable(contract), NEW ty, IdOf(ty) \subseteq SchemaRefs(contract),
         IdOf(ty) \subseteq {d.id : d \in contract.types \cup contract.errors}
  PROVE  /\ Named(ty) \subseteq SchemaNames
         /\ \A id \in IdOf(ty) : id.name \in Named(ty) /\ id \in {d.id : d \in contract.types}
<1>1. CASE ty.kind \in {"type", "error"}
  <2>1. PICK id : id = Id(ty.kind, ty.at, ty.name) /\ IdOf(ty) = {id} /\ Named(ty) = {ty.name} /\ id.name = ty.name
    BY <1>1 DEF IdOf, Named, Id
  <2>2. PICK d \in contract.types \cup contract.errors : d.id = id
    BY <2>1
  <2>3. d \in contract.types
    BY <2>1, <2>2, HasPackageIs
  <2>4. TsName(d) = ty.name
    BY <2>1, <2>2 DEF TsName
  <2> QED
    BY <2>1, <2>2, <2>3, <2>4 DEF SchemaNames
<1>2. CASE ty.kind \notin {"type", "error"}
  BY <1>2 DEF IdOf, Named
<1> QED
  BY <1>1, <1>2

LEMMA FieldsNamed ==
  ASSUME HasPackage, Printable(contract), NEW d \in contract.types \cup contract.errors
  PROVE  /\ Mentions(d) \subseteq SchemaNames
         /\ \A n \in Mentions(d) : \E x \in contract.types : x.id \in DeclRefs(d) /\ TsName(x) = n
<1>1. DeclRefs(d) \subseteq SchemaRefs(contract)
  BY DEF SchemaRefs
<1>2. DeclRefs(d) \subseteq {x.id : x \in contract.types \cup contract.errors}
  BY DEF Printable
<1>3. ASSUME NEW ty \in FieldTypesIn(d) PROVE IdOf(ty) \subseteq DeclRefs(d)
  BY DEF FieldTypesIn, DeclRefs
<1>4. ASSUME NEW n \in Mentions(d)
      PROVE  n \in SchemaNames /\ \E x \in contract.types : x.id \in DeclRefs(d) /\ TsName(x) = n
  <2>1. PICK ty \in FieldTypesIn(d) : n \in Named(ty)
    BY DEF Mentions
  <2>2. IdOf(ty) \subseteq DeclRefs(d)
    BY <1>3
  <2>3. /\ Named(ty) \subseteq SchemaNames
        /\ \A id \in IdOf(ty) : id.name \in Named(ty) /\ id \in {x.id : x \in contract.types}
    BY <1>1, <1>2, <2>2, SchemaRefIs
  <2>4. ty.kind \in {"type", "error"} /\ n = ty.name
    BY <2>1 DEF Named
  <2>5. PICK id \in IdOf(ty) : id.name = n
    BY <2>4 DEF IdOf, Id
  <2>6. PICK x \in contract.types : x.id = id
    BY <2>3, <2>5
  <2> QED
    BY <2>1, <2>2, <2>3, <2>5, <2>6 DEF TsName
<1> QED
  BY <1>4

LEMMA FiniteDecls ==
  ASSUME HasPackage
  PROVE  IsFiniteSet(contract.types) /\ IsFiniteSet(contract.errors) /\ IsFiniteSet(contract.endpoints)
<1>1. IsFiniteSet(DOMAIN types)
  BY DEF HasPackage, RoundInv, WellFormed, Entries
<1> DEFINE f == [id \in DOMAIN types |-> types[id]]
<1>2. IsFiniteSet({f[id] : id \in DOMAIN types})
  <2>1. f = [id \in DOMAIN types |-> f[id]]
    OBVIOUS
  <2> HIDE DEF f
  <2> QED
    BY <1>1, <2>1, FiniteImage
<1>3. Reached \subseteq {f[id] : id \in DOMAIN types}
  BY DEF Reached
<1> HIDE DEF f
<1>4. contract.types \subseteq {f[id] : id \in DOMAIN types} /\ contract.errors \subseteq {f[id] : id \in DOMAIN types}
  BY <1>3, HasPackageIs
<1>5. IsFiniteSet(contract.types) /\ IsFiniteSet(contract.errors)
  BY <1>2, <1>4, FS_Subset
<1>6. IsFiniteSet(contract.endpoints)
  BY HasPackageIs DEF HasPackage, RoundInv, AllTyped
<1> QED
  BY <1>5, <1>6

-----------------------------------------------------------------------------
(* A file that loads, part by part.                                        *)
Imported(file) == {i.name : i \in file.imports}

LoadsFrom(p, file) ==
  \A i \in file.imports : /\ i.from = "schemas" => i.name \in NamesOf(p.schemas)
                          /\ i.from = "errors" => i.name \in NamesOf(p.errors)
                          /\ i.from = "client" => i.name \in NamesOf(p.client)

LoadsAt(file, q) ==
  /\ file.entries[q].parses
  /\ file.entries[q].uses \subseteq Imported(file) \cup NamesOf(file)
  /\ file.entries[q].eager \subseteq Imported(file) \cup BeforeIn(file.entries, q)

LEMMA LoadsIs ==
  ASSUME NEW p, NEW file, LoadsFrom(p, file), \A q \in DOMAIN file.entries : LoadsAt(file, q)
  PROVE  Loads(p, file)
<1>1. PICK own : own = [schemas |-> p.schemas, errors |-> p.errors, client |-> p.client]
  OBVIOUS
<1>2. DOMAIN own = {"schemas", "errors", "client"}
  BY <1>1
<1>3. own["schemas"] = p.schemas /\ own["errors"] = p.errors /\ own["client"] = p.client
  BY <1>1
<1>4. ASSUME NEW i \in file.imports, i.from \in DOMAIN own PROVE i.name \in NamesOf(own[i.from])
  <2>1. CASE i.from = "schemas"
    BY <1>3, <2>1 DEF LoadsFrom
  <2>2. CASE i.from = "errors"
    BY <1>3, <2>2 DEF LoadsFrom
  <2>3. CASE i.from = "client"
    BY <1>3, <2>3 DEF LoadsFrom
  <2> QED
    BY <1>2, <1>4, <2>1, <2>2, <2>3
<1>5. ASSUME NEW n \in DOMAIN file.entries
      PROVE  /\ file.entries[n].parses
             /\ file.entries[n].uses \subseteq {i.name : i \in file.imports} \cup NamesOf(file)
             /\ file.entries[n].eager \subseteq {i.name : i \in file.imports}
                                                  \cup {file.entries[k].name : k \in 1..(n - 1)}
  BY DEF LoadsAt, Imported, BeforeIn
<1> QED
  BY <1>1, <1>4, <1>5 DEF Loads

LEMMA ImportIs ==
  ASSUME NEW from, NEW names
  PROVE  /\ \A i \in Import(from, names) : i.from = from /\ i.name \in names
         /\ {i.name : i \in Import(from, names)} = names
<1>1. ASSUME NEW i \in Import(from, names) PROVE i.from = from /\ i.name \in names
  <2>1. PICK n \in names : i = [from |-> from, name |-> n]
    BY DEF Import
  <2> QED
    BY <2>1
<1>2. ASSUME NEW n \in names PROVE \E i \in Import(from, names) : i.name = n
  <2>1. PICK i : i = [from |-> from, name |-> n]
    OBVIOUS
  <2>2. i.name = n
    BY <2>1
  <2> QED
    BY <2>1, <2>2 DEF Import
<1> QED
  BY <1>1, <1>2

LEMMA FileNames == ASSUME NEW file PROVE NamesOf(file) = NamesIn(file.entries)
BY DEF NamesOf, NamesIn

LEMMA PackageIs ==
  ASSUME HasPackage
  PROVE  /\ package.schemas = SchemasFile(TopoSortedTypes(contract.types).sorted)
         /\ package.errors = ErrorsFile(contract.errors) /\ package.client = ClientFile
         /\ \A file \in Files(package) :
              \/ file \in {package.schemas, package.errors, package.client}
              \/ \E m : file = EndpointFile({e \in contract.endpoints : e.ts_module = m})
<1>1. PICK N : N = {e.ts_module : e \in contract.endpoints}
  OBVIOUS
<1>2. PICK ms : ms = [m \in N |-> EndpointFile({e \in contract.endpoints : e.ts_module = m})]
  OBVIOUS
<1>3. PICK s, e, c : /\ s = SchemasFile(TopoSortedTypes(contract.types).sorted)
                     /\ e = ErrorsFile(contract.errors) /\ c = ClientFile
  OBVIOUS
<1>4. package = LowerPackage(contract)
  BY HasPackageIs
<1>5. package = [schemas |-> s, errors |-> e, client |-> c, modules |-> ms]
  BY <1>1, <1>2, <1>3, <1>4, Zenon DEF LowerPackage
<1>6. package.schemas = s /\ package.errors = e /\ package.client = c /\ package.modules = ms
  BY <1>5
<1>7. \A m \in DOMAIN package.modules : package.modules[m] = EndpointFile({x \in contract.endpoints : x.ts_module = m})
  BY <1>2, <1>6
<1> QED
  BY <1>3, <1>6, <1>7 DEF Files

-----------------------------------------------------------------------------
(* schemas.ts.                                                             *)
LEMMA SchemasEntries ==
  ASSUME HasPackage
  PROVE  LET sorted == TopoSortedTypes(contract.types).sorted
             p == [i \in DOMAIN sorted |-> SchemaItems(sorted[i])]
             n == Len(sorted)
         IN /\ Range(sorted) = contract.types /\ Ordered(contract.types, sorted) /\ DOMAIN sorted = 1..n
            /\ n \in Nat /\ p = [i \in 1..n |-> p[i]] /\ \A i \in 1..n : IsSeq(p[i])
            /\ \A i \in 1..n : sorted[i] \in contract.types /\ SchemaMade(sorted[i], p[i])
            /\ package.schemas.imports = Import("compat", {Schema})
            /\ package.schemas.entries = FlattenSeq(p)
<1>1. PICK sorted : sorted = TopoSortedTypes(contract.types).sorted
  OBVIOUS
<1>2. /\ sorted \in Seq(contract.types) /\ Range(sorted) = contract.types
      /\ Ordered(contract.types, sorted)
  BY <1>1, HasPackageIs, FiniteDecls, TopoSortedOrder, SortingIs
<1>3. PICK n \in Nat : n = Len(sorted) /\ DOMAIN sorted = 1..n /\ \A i \in 1..n : sorted[i] \in contract.types
  BY <1>2, RangeIs
<1>4. PICK p : p = [i \in DOMAIN sorted |-> SchemaItems(sorted[i])]
  OBVIOUS
<1>5. p = [i \in 1..n |-> p[i]] /\ \A i \in 1..n : p[i] = SchemaItems(sorted[i])
  BY <1>3, <1>4
<1>6. ASSUME NEW i \in 1..n PROVE SchemaMade(sorted[i], p[i])
  <2>1. PICK d : d = sorted[i] /\ d \in contract.types \cup contract.errors
    BY <1>3
  <2>2. HasSeqs(d) /\ (d.shape \in {"struct", "newtype"} => Len(d.variants) = 1)
        /\ (d.shape = "newtype" => Len(d.variants[1].fields) = 1)
    BY <2>1, DeclIs, DeclShapes
  <2>3. SchemaMade(d, SchemaItems(d))
    BY <2>2, SchemaItemsAre
  <2> QED
    BY <1>5, <2>1, <2>3
<1>7. \A i \in 1..n : IsSeq(p[i])
  BY <1>6 DEF SchemaMade
<1>8. package.schemas.imports = Import("compat", {Schema}) /\ package.schemas.entries = FlattenSeq(p)
  BY <1>1, <1>4, PackageIs DEF SchemasFile
<1> QED
  BY <1>1, <1>2, <1>3, <1>4, <1>5, <1>6, <1>7, <1>8

LEMMA SchemasLoad ==
  ASSUME HasPackage, Printable(contract)
  PROVE  SchemaNames \subseteq NamesOf(package.schemas) /\ Loads(package, package.schemas)
<1>1. PICK sorted, p, n, f : /\ sorted = TopoSortedTypes(contract.types).sorted
                             /\ p = [i \in DOMAIN sorted |-> SchemaItems(sorted[i])]
                             /\ n = Len(sorted) /\ f = FlattenSeq(p)
  OBVIOUS
<1>2. /\ Range(sorted) = contract.types /\ Ordered(contract.types, sorted) /\ DOMAIN sorted = 1..n
      /\ n \in Nat /\ p = [i \in 1..n |-> p[i]] /\ \A i \in 1..n : IsSeq(p[i])
      /\ \A i \in 1..n : sorted[i] \in contract.types /\ SchemaMade(sorted[i], p[i])
      /\ package.schemas.imports = Import("compat", {Schema})
      /\ package.schemas.entries = f
  BY <1>1, SchemasEntries
<1>3. /\ \A i \in 1..n : NamesIn(p[i]) \subseteq NamesIn(f)
      /\ \A q \in DOMAIN f : InFile(f, p, n, q)
  BY <1>1, <1>2, FileOf
<1>4. NamesOf(package.schemas) = NamesIn(f)
  BY <1>2, FileNames
<1>5. \A d \in contract.types : \E i \in 1..n : d = sorted[i]
  BY <1>2 DEF Range
<1>6. SchemaNames \subseteq NamesOf(package.schemas)
  <2>1. ASSUME NEW d \in contract.types PROVE TsName(d) \in NamesIn(f)
    <3>1. PICK i \in 1..n : d = sorted[i]
      BY <1>5
    <3> QED
      BY <1>2, <1>3, <3>1 DEF SchemaMade
  <2> QED
    BY <1>4, <2>1 DEF SchemaNames
<1>7. Imported(package.schemas) = {Schema}
  BY <1>2, ImportIs DEF Imported
<1>8. ASSUME NEW q \in DOMAIN f PROVE LoadsAt(package.schemas, q)
  <2>0. PICK i \in 1..n : \E j \in 1..Len(p[i]) :
          /\ f[q] = p[i][j]
          /\ \A l \in 1..(i - 1) : NamesIn(p[l]) \subseteq BeforeIn(f, q)
          /\ BeforeIn(p[i], j) \subseteq BeforeIn(f, q)
    BY <1>3 DEF InFile
  <2>1. PICK j \in 1..Len(p[i]) :
          /\ f[q] = p[i][j]
          /\ \A l \in 1..(i - 1) : NamesIn(p[l]) \subseteq BeforeIn(f, q)
          /\ BeforeIn(p[i], j) \subseteq BeforeIn(f, q)
    BY <2>0
  <2>2. PICK d, x : d = sorted[i] /\ x = f[q] /\ d \in contract.types /\ x = p[i][j] /\ x \in Range(p[i])
    BY <1>2, <2>1, SeqRange
  <2>3. /\ x.uses \subseteq {Schema} \cup Mentions(d) \cup NamesIn(p[i])
        /\ x.eager \subseteq {Schema} \cup Mentions(d)
        /\ Members(d) => x.parses
    BY <1>2, <2>2 DEF SchemaMade
  <2>4. Members(d)
    BY <2>2 DEF Members, Printable
  <2>5. Mentions(d) \subseteq SchemaNames
    BY <2>2, FieldsNamed
  <2>6. ASSUME NEW m \in Mentions(d) PROVE m \in BeforeIn(f, q)
    <3>1. PICK y \in contract.types : y.id \in DeclRefs(d) /\ TsName(y) = m
      BY <2>2, FieldsNamed
    <3>2. y.id \in RefsIn(contract.types, sorted[i])
      BY <2>2, <3>1 DEF RefsIn, IdsOf
    <3>3. PICK l \in 1..(i - 1) : sorted[l] = DeclsById(contract.types)[y.id]
      BY <1>2, <3>2 DEF Ordered
    <3>4. DeclsById(contract.types)[y.id] = y
      <4>1. PICK z : z = DeclsById(contract.types)[y.id] /\ z \in contract.types /\ z.id = y.id
        <5>1. y.id \in IdsOf(contract.types)
          BY DEF IdsOf
        <5>2. DeclsById(contract.types)[y.id] \in contract.types /\ DeclsById(contract.types)[y.id].id = y.id
          BY <5>1, DeclsByIdIs
        <5> QED
          BY <5>2
      <4>2. types[z.id] = z /\ types[y.id] = y
        BY <4>1, DeclIs
      <4> QED
        BY <4>1, <4>2
    <3>5. l \in 1..n /\ TsName(sorted[l]) = m
      BY <1>2, <3>1, <3>3, <3>4
    <3>6. m \in NamesIn(p[l])
      BY <1>2, <3>5 DEF SchemaMade
    <3> QED
      BY <2>1, <3>6
  <2>7. x.uses \subseteq {Schema} \cup NamesIn(f)
    BY <1>3, <1>4, <1>6, <2>3, <2>5
  <2> QED
    BY <1>2, <1>4, <1>7, <2>2, <2>3, <2>4, <2>6, <2>7 DEF LoadsAt
<1>9. LoadsFrom(package, package.schemas)
  <2>1. \A i \in package.schemas.imports : i.from = "compat"
    BY <1>2, ImportIs
  <2> QED
    BY <2>1 DEF LoadsFrom
<1> QED
  BY <1>2, <1>6, <1>8, <1>9, LoadsIs

-----------------------------------------------------------------------------
(* errors.ts and client.ts.                                                *)
LEMMA ErrorsNamed ==
  ASSUME HasPackage, Printable(contract), NEW S, S = UNION {Named(f.ty) : f \in ErrorFields(contract.errors)}
  PROVE  S \subseteq SchemaNames /\ \A d \in contract.errors : Mentions(d) \subseteq S
<1>1. \A d \in contract.errors : Mentions(d) \subseteq S
  BY DEF Mentions, FieldTypesIn, ErrorFields
<1>2. ASSUME NEW n \in S PROVE n \in SchemaNames
  <2>1. PICK f \in ErrorFields(contract.errors) : n \in Named(f.ty)
    OBVIOUS
  <2>2. PICK d \in contract.errors : f \in UNION {Range(v.fields) : v \in Range(d.variants)}
    BY <2>1 DEF ErrorFields
  <2>3. n \in Mentions(d)
    BY <2>1, <2>2 DEF Mentions, FieldTypesIn
  <2> QED
    BY <2>3, FieldsNamed
<1> QED
  BY <1>1, <1>2

LEMMA ErrorsEntries ==
  ASSUME HasPackage
  PROVE  LET order == SetToSeq(contract.errors)
             p == [i \in DOMAIN order |-> ErrorItems(order[i])]
             n == Len(order)
         IN /\ n \in Nat /\ p = [i \in 1..n |-> p[i]] /\ \A i \in 1..n : IsSeq(p[i])
            /\ \A i \in 1..n : order[i] \in contract.errors /\ ErrorMade(order[i], p[i])
            /\ \A d \in contract.errors : \E i \in 1..n : d = order[i]
            /\ package.errors.imports =
                 Import("runtime", {ApiClientError, DecodeWithSchema}) \cup Import("compat", {Effect, Schema})
                 \cup Import("schemas", UNION {Named(f.ty) : f \in ErrorFields(contract.errors)})
            /\ package.errors.entries = FlattenSeq(p)
<1>1. PICK order : order = SetToSeq(contract.errors)
  OBVIOUS
<1>2. order \in Seq(contract.errors) /\ Range(order) = contract.errors
  BY <1>1, FiniteDecls, SetToSeqIs
<1>3. PICK n \in Nat : n = Len(order) /\ DOMAIN order = 1..n /\ \A i \in 1..n : order[i] \in contract.errors
  BY <1>2, RangeIs
<1>4. PICK p : p = [i \in DOMAIN order |-> ErrorItems(order[i])]
  OBVIOUS
<1>5. p = [i \in 1..n |-> p[i]] /\ \A i \in 1..n : p[i] = ErrorItems(order[i])
  BY <1>3, <1>4
<1>6. ASSUME NEW i \in 1..n PROVE ErrorMade(order[i], p[i])
  <2>1. PICK d : d = order[i] /\ d \in contract.types \cup contract.errors
    BY <1>3
  <2>2. ErrorMade(d, ErrorItems(d))
    BY <2>1, DeclIs, ErrorItemsAre
  <2> QED
    BY <1>5, <2>1, <2>2
<1>7. \A i \in 1..n : IsSeq(p[i])
  BY <1>6 DEF ErrorMade
<1>8. \A d \in contract.errors : \E i \in 1..n : d = order[i]
  BY <1>2, <1>3, RangeIs
<1>9. /\ package.errors.imports =
           Import("runtime", {ApiClientError, DecodeWithSchema}) \cup Import("compat", {Effect, Schema})
           \cup Import("schemas", UNION {Named(f.ty) : f \in ErrorFields(contract.errors)})
      /\ package.errors.entries = FlattenSeq(p)
  <2>1. PICK I, X :
          /\ I = Import("runtime", {ApiClientError, DecodeWithSchema}) \cup Import("compat", {Effect, Schema})
                 \cup Import("schemas", UNION {Named(f.ty) : f \in ErrorFields(contract.errors)})
          /\ X = FlattenSeq(p)
    OBVIOUS
  <2>2. ErrorsFile(contract.errors) = [imports |-> I, entries |-> X]
    BY <1>1, <1>4, <2>1, Zenon DEF ErrorsFile
  <2>3. package.errors = [imports |-> I, entries |-> X]
    BY <2>2, PackageIs
  <2>4. package.errors.imports = I /\ package.errors.entries = X
    BY <2>3
  <2> QED
    BY <2>1, <2>4
<1> QED
  BY <1>1, <1>3, <1>4, <1>5, <1>6, <1>7, <1>8, <1>9

LEMMA ErrorsLoad ==
  ASSUME HasPackage, Printable(contract)
  PROVE  ErrorNames \subseteq NamesOf(package.errors) /\ Loads(package, package.errors)
<1>1. PICK order, p, n, f, S :
        /\ order = SetToSeq(contract.errors) /\ p = [i \in DOMAIN order |-> ErrorItems(order[i])]
        /\ n = Len(order) /\ f = FlattenSeq(p)
        /\ S = UNION {Named(g.ty) : g \in ErrorFields(contract.errors)}
  OBVIOUS
<1>2. /\ n \in Nat /\ p = [i \in 1..n |-> p[i]] /\ \A i \in 1..n : IsSeq(p[i])
      /\ \A i \in 1..n : order[i] \in contract.errors /\ ErrorMade(order[i], p[i])
      /\ \A d \in contract.errors : \E i \in 1..n : d = order[i]
      /\ package.errors.imports =
           Import("runtime", {ApiClientError, DecodeWithSchema}) \cup Import("compat", {Effect, Schema})
           \cup Import("schemas", S)
      /\ package.errors.entries = f
  BY <1>1, ErrorsEntries
<1>3. /\ \A i \in 1..n : NamesIn(p[i]) \subseteq NamesIn(f)
      /\ \A q \in DOMAIN f : InFile(f, p, n, q)
  <2>1. n \in Nat /\ p = [i \in 1..n |-> p[i]] /\ \A i \in 1..n : IsSeq(p[i])
    BY <1>2
  <2>2. f = FlattenSeq(p)
    BY <1>1
  <2> HIDE <1>1, <1>2
  <2> QED
    BY <2>1, <2>2, FileOf
<1>4. NamesOf(package.errors) = NamesIn(f)
  BY <1>2, FileNames
<1>5. ErrorNames \subseteq NamesOf(package.errors)
  <2>1. ASSUME NEW d \in contract.errors
        PROVE  TsName(d) \in NamesIn(f) /\ DecoderName(TsName(d)) \in NamesIn(f)
    <3>1. PICK i \in 1..n : d = order[i]
      BY <1>2
    <3> QED
      BY <1>2, <1>3, <3>1 DEF ErrorMade
  <2> QED
    BY <1>4, <2>1 DEF ErrorNames
<1>6. S \subseteq SchemaNames /\ \A d \in contract.errors : Mentions(d) \subseteq S
  BY <1>1, ErrorsNamed
<1>7. Imported(package.errors) = ({ApiClientError, DecodeWithSchema} \cup {Effect, Schema}) \cup S
  BY <1>2, ImportIs, SMTT(30) DEF Imported
<1>8. ASSUME NEW q \in DOMAIN f PROVE LoadsAt(package.errors, q)
  <2>0. PICK i \in 1..n : \E j \in 1..Len(p[i]) :
          /\ f[q] = p[i][j]
          /\ \A l \in 1..(i - 1) : NamesIn(p[l]) \subseteq BeforeIn(f, q)
          /\ BeforeIn(p[i], j) \subseteq BeforeIn(f, q)
    BY <1>3 DEF InFile
  <2>1. PICK j \in 1..Len(p[i]) : f[q] = p[i][j] /\ BeforeIn(p[i], j) \subseteq BeforeIn(f, q)
    BY <2>0
  <2>2. PICK d, x : d = order[i] /\ x = f[q] /\ d \in contract.errors /\ x = p[i][j] /\ j \in DOMAIN p[i]
    BY <1>2, <2>1, SeqRange
  <2>3. /\ x.uses \subseteq {Schema} \cup Decoding \cup Mentions(d) \cup NamesIn(p[i])
        /\ x.eager \subseteq {Schema} \cup Mentions(d) \cup BeforeIn(p[i], j)
        /\ Printed(d) => x.parses
    BY <1>2, <2>2 DEF ErrorMade, ErrorEntry
  <2>4. Printed(d)
    BY <2>2, DeclShapes DEF Printed, Printable
  <2>5. Mentions(d) \subseteq S
    BY <1>6, <2>2
  <2> QED
    BY <1>2, <1>3, <1>4, <1>7, <2>1, <2>2, <2>3, <2>4, <2>5 DEF LoadsAt, Decoding
<1>9. LoadsFrom(package, package.errors)
  <2>1. ASSUME NEW i \in package.errors.imports
        PROVE  i.from \in {"runtime", "compat"} \/ (i.from = "schemas" /\ i.name \in S)
    BY <1>2, ImportIs
  <2>2. S \subseteq NamesOf(package.schemas)
    BY <1>6, SchemasLoad
  <2> QED
    BY <2>1, <2>2 DEF LoadsFrom
<1> QED
  BY <1>2, <1>5, <1>8, <1>9, LoadsIs

LEMMA ClientLoads ==
  ASSUME HasPackage
  PROVE  ApiConfig \in NamesOf(package.client) /\ Loads(package, package.client)
<1>1. PICK a : a = Class(ApiConfig, {ContextName}) /\ IsEntry(a) /\ a.name = ApiConfig
               /\ a.uses = {ContextName} /\ a.eager = {ContextName} /\ a.parses
  BY EntryFields DEF Class
<1>2. PICK b : b = FnConst(LayerFn, {FetchClientConfig, LayerName, ApiConfig}) /\ IsEntry(b)
               /\ b.uses = {FetchClientConfig, LayerName, ApiConfig} /\ b.eager = {} /\ b.parses
  BY EntryFields DEF FnConst
<1>3. PICK m : m = Marked(<<a, b>>, Unknown, "client")
  OBVIOUS
<1>4. /\ IsSeq(m) /\ Len(m) = 2 /\ DOMAIN m = 1..2
      /\ SameEntry(m[1], a, Unknown, "client") /\ SameEntry(m[2], b, Unknown, "client")
  BY <1>1, <1>2, <1>3, TwoMarked
<1>5. /\ package.client.entries = m
      /\ package.client.imports = Import("runtime", {FetchClientConfig})
                                  \cup Import("compat", {ContextName, LayerName})
  <2>1. package.client = ClientFile
    BY PackageIs
  <2>2. m = Marked(<<Class(ApiConfig, {ContextName}),
                     FnConst(LayerFn, {FetchClientConfig, LayerName, ApiConfig})>>, Unknown, "client")
    BY <1>1, <1>2, <1>3, Zenon
  <2> QED
    BY <2>1, <2>2 DEF ClientFile
<1>6. Imported(package.client) = {FetchClientConfig} \cup {ContextName, LayerName}
  BY <1>5, ImportIs DEF Imported
<1>7. ApiConfig \in NamesOf(package.client)
  <2>1. m[1] \in Range(m) /\ m[1].name = ApiConfig
    <3>1. 1 \in 1..2
      OBVIOUS
    <3> QED
      BY <1>1, <1>4, <3>1 DEF SameEntry, Range
  <2> QED
    BY <1>5, <2>1 DEF NamesOf
<1>8. ASSUME NEW q \in DOMAIN m PROVE LoadsAt(package.client, q)
  <2>1. q = 1 \/ q = 2
    BY <1>4
  <2>2. CASE q = 1
    BY <1>1, <1>4, <1>5, <1>6, <2>2 DEF SameEntry, LoadsAt
  <2>3. CASE q = 2
    BY <1>2, <1>4, <1>5, <1>6, <1>7, <2>3 DEF SameEntry, LoadsAt
  <2> QED
    BY <2>1, <2>2, <2>3
<1>9. LoadsFrom(package, package.client)
  <2>1. ASSUME NEW i \in package.client.imports PROVE i.from \in {"runtime", "compat"}
    BY <1>5, ImportIs
  <2> QED
    BY <2>1 DEF LoadsFrom
<1> QED
  BY <1>5, <1>7, <1>8, <1>9, LoadsIs

LEMMA EndpointFileIs ==
  ASSUME NEW eps
  PROVE  LET order == SetToSeq(eps)
         IN /\ EndpointFile(eps).imports =
                 Import("runtime", UNION {EndpointImports(e).runtime \cup EndpointImports(e).runtime_types : e \in eps})
                 \cup Import("compat", UNION {EndpointImports(e).compat : e \in eps})
                 \cup Import("client", {ApiConfig})
                 \cup Import("schemas", UNION {EndpointImports(e).schemas : e \in eps})
                 \cup Import("errors", UNION {EndpointImports(e).errors : e \in eps})
            /\ EndpointFile(eps).entries = FlattenSeq([i \in DOMAIN order |-> EndpointItems(order[i])])
BY DEF EndpointFile

-----------------------------------------------------------------------------
(* endpoints/<module>.ts.                                                  *)
Runtime(e) == EndpointImports(e).runtime \cup EndpointImports(e).runtime_types

LEMMA ImportsAre ==
  ASSUME NEW e
  PROVE  /\ Runtime(e) = ({Factory(e)} \cup (IF e.body = "json" THEN {EncodeWithSchema} ELSE {})
                          \cup (IF Decodes(e) THEN {DecodeWithSchema} ELSE {}))
                         \cup ({ApiClientError} \cup (IF e.body = "binary" THEN {BinaryRequestBody} ELSE {}))
         /\ EndpointImports(e).compat =
              {Effect} \cup (IF Streams(e) THEN {Stream} ELSE {})
                       \cup (IF \A ty \in Encoded(e) : PlainName(ty) THEN {} ELSE {Schema})
         /\ EndpointImports(e).schemas =
              (UNION {Named(p.ty) : p \in Params(e)}) \cup (UNION {Named(ty) : ty \in Encoded(e)})
         /\ EndpointImports(e).errors =
              IF e.error = NoType THEN {} ELSE {e.error.name, DecoderName(e.error.name)}
BY DEF EndpointImports, Runtime

LEMMA SchemasImported ==
  ASSUME NEW e, NEW n
  PROVE  n \in EndpointImports(e).schemas <=> \/ \E p \in Params(e) : n \in Named(p.ty)
                                              \/ \E ty \in Encoded(e) : n \in Named(ty)
<1>1. PICK X : X = (UNION {Named(p.ty) : p \in Params(e)}) \cup (UNION {Named(ty) : ty \in Encoded(e)})
  OBVIOUS
<1>2. n \in X <=> \/ \E p \in Params(e) : n \in Named(p.ty)
                  \/ \E ty \in Encoded(e) : n \in Named(ty)
  BY <1>1
<1>3. EndpointImports(e).schemas = X
  BY <1>1, ImportsAre, Zenon
<1> QED
  BY <1>2, <1>3

LEMMA EndpointIs ==
  ASSUME HasPackage, Printable(contract), NEW e \in contract.endpoints
  PROVE  /\ EndpointHas(e)
         /\ EndpointImports(e).schemas \subseteq SchemaNames
         /\ EndpointImports(e).errors \subseteq ErrorNames
<1>1. EndpointHas(e)
  BY HasPackageIs DEF HasPackage, RoundInv, AllTyped
<1>2. IsSeq(e.path_params) /\ IsSeq(e.query_params)
      /\ \A p \in Range(e.path_params) \cup Range(e.query_params) : ScalarType(p.ty)
  BY <1>1 DEF EndpointHas, ParamsTyped
<1>3. Params(e) = Range(e.path_params) \cup Range(e.query_params)
  BY <1>2, BothParts DEF Params
<1>4. \A p \in Params(e) : Named(p.ty) = {}
  BY <1>2, <1>3 DEF ScalarType, Named
<1>5. EndpointRefs(e) \subseteq {d.id : d \in contract.types \cup contract.errors}
  BY DEF Printable
<1>6. ASSUME NEW ty \in Encoded(e) PROVE Named(ty) \subseteq SchemaNames
  <2>1. IdOf(ty) \subseteq SchemaRefs(contract)
    BY DEF SchemaRefs
  <2>2. ty = e.body_ty \/ ty = e.success_ty
    BY DEF Encoded
  <2>3. IdOf(ty) \subseteq EndpointRefs(e)
    BY <2>2 DEF EndpointRefs
  <2> QED
    BY <1>5, <2>1, <2>3, SchemaRefIs
<1>7. EndpointImports(e).schemas \subseteq SchemaNames
  BY <1>4, <1>6, SchemasImported
<1>8. ASSUME e.error # NoType PROVE {e.error.name, DecoderName(e.error.name)} \subseteq ErrorNames
  <2>1. e.error.kind = "error"
    BY <1>1, <1>8 DEF EndpointHas, MayHave, HasType
  <2>0. IdOf(e.error) \subseteq EndpointRefs(e)
    BY DEF EndpointRefs
  <2>2. PICK id : id = Id("error", e.error.at, e.error.name) /\ id \in EndpointRefs(e) /\ id.ns = "error"
                  /\ id.name = e.error.name
    BY <2>0, <2>1 DEF IdOf, Id
  <2>3. PICK d \in contract.types \cup contract.errors : d.id = id
    BY <1>5, <2>2
  <2>4. d \in contract.errors
    BY <2>2, <2>3, HasPackageIs DEF NsDecls
  <2> QED
    BY <2>2, <2>3, <2>4 DEF ErrorNames, TsName
<1>9. EndpointImports(e).errors \subseteq ErrorNames
  <2>1. EndpointImports(e).errors = IF e.error = NoType THEN {} ELSE {e.error.name, DecoderName(e.error.name)}
    BY ImportsAre, Zenon
  <2> QED
    BY <1>8, <2>1
<1> QED
  BY <1>1, <1>7, <1>9

LEMMA SchemaExprIs ==
  ASSUME NEW e, NEW ty \in Encoded(e)
  PROVE  SchemaExpr(ty) \subseteq EndpointImports(e).schemas \cup EndpointImports(e).compat
<1>1. Named(ty) \subseteq EndpointImports(e).schemas
  BY SchemasImported
<1>2. ~PlainName(ty) => Schema \in EndpointImports(e).compat
  BY ImportsAre
<1> QED
  BY <1>1, <1>2 DEF SchemaExpr

\* What the text of an endpoint mentions is imported for it.
LEMMA AccessedIs ==
  ASSUME NEW e, e.body_ty # NoType <=> e.body = "json"
  PROVE  Accessed(e) \subseteq Runtime(e) \cup EndpointImports(e).compat \cup EndpointImports(e).schemas
                               \cup EndpointImports(e).errors \cup {ApiConfig}
                               \cup (IF HasArgs(e) THEN {ArgsName(e)} ELSE {})
<1>1. PICK I : I = Runtime(e) \cup EndpointImports(e).compat \cup EndpointImports(e).schemas
                   \cup EndpointImports(e).errors \cup {ApiConfig}
                   \cup (IF HasArgs(e) THEN {ArgsName(e)} ELSE {})
  OBVIOUS
<1>2. {ApiConfig, ApiClientError, Factory(e), IF Streams(e) THEN Stream ELSE Effect, Effect} \subseteq I
  BY <1>1, ImportsAre
<1>3. (IF HasArgs(e) THEN {ArgsName(e)} ELSE {}) \subseteq I
  BY <1>1
<1>4. (IF Decodes(e) THEN {DecodeWithSchema} \cup SchemaExpr(e.success_ty) ELSE {}) \subseteq I
  <2> SUFFICES ASSUME Decodes(e) PROVE {DecodeWithSchema} \cup SchemaExpr(e.success_ty) \subseteq I
    OBVIOUS
  <2>1. e.success_ty \in Encoded(e)
    BY DEF Encoded
  <2>2. DecodeWithSchema \in Runtime(e)
    BY ImportsAre
  <2> QED
    BY <1>1, <2>1, <2>2, SchemaExprIs
<1>5. (IF e.body = "json" THEN {EncodeWithSchema} \cup SchemaExpr(e.body_ty) ELSE {}) \subseteq I
  <2> SUFFICES ASSUME e.body = "json" PROVE {EncodeWithSchema} \cup SchemaExpr(e.body_ty) \subseteq I
    OBVIOUS
  <2>1. e.body_ty \in Encoded(e)
    BY DEF Encoded
  <2>2. EncodeWithSchema \in Runtime(e)
    BY ImportsAre
  <2> QED
    BY <1>1, <2>1, <2>2, SchemaExprIs
<1>6. (IF e.error = NoType THEN {} ELSE {e.error.name, DecoderName(e.error.name)}) \subseteq I
  BY <1>1, ImportsAre
<1>7. ArgsUses(e) \subseteq I
  <2>1. (UNION {Named(p.ty) : p \in Params(e)}) \subseteq I
    BY <1>1, SchemasImported
  <2>2. Named(e.body_ty) \subseteq I
    <3>1. CASE e.body = "json"
      <4>1. e.body_ty \in Encoded(e)
        BY <3>1 DEF Encoded
      <4> QED
        BY <1>1, <4>1, SchemasImported
    <3>2. CASE e.body # "json"
      <4>1. e.body_ty = NoType
        BY <3>2
      <4> QED
        BY <4>1 DEF Named, NoType
    <3> QED
      BY <3>1, <3>2
  <2>3. (IF e.body = "binary" THEN {BinaryRequestBody} ELSE {}) \subseteq I
    BY <1>1, ImportsAre
  <2> QED
    BY <2>1, <2>2, <2>3 DEF ArgsUses
<1>8. AccessorUses(e) \subseteq I
  BY <1>2, <1>3, <1>4, <1>5, <1>6 DEF AccessorUses
<1> QED
  BY <1>1, <1>7, <1>8 DEF Accessed

LEMMA EndpointEntries ==
  ASSUME NEW eps, IsFiniteSet(eps)
  PROVE  LET order == SetToSeq(eps)
             p == [i \in DOMAIN order |-> EndpointItems(order[i])]
             n == Len(order)
         IN /\ n \in Nat /\ p = [i \in 1..n |-> p[i]] /\ \A i \in 1..n : IsSeq(p[i])
            /\ \A i \in 1..n : order[i] \in eps /\ EndpointPrinted(order[i], p[i])
<1>1. PICK order : order = SetToSeq(eps)
  OBVIOUS
<1>2. order \in Seq(eps) /\ Range(order) = eps
  BY <1>1, SetToSeqIs
<1>3. PICK n \in Nat : n = Len(order) /\ DOMAIN order = 1..n /\ \A i \in 1..n : order[i] \in eps
  BY <1>2, RangeIs
<1>4. PICK p : p = [i \in DOMAIN order |-> EndpointItems(order[i])]
  OBVIOUS
<1>5. p = [i \in 1..n |-> p[i]] /\ \A i \in 1..n : p[i] = EndpointItems(order[i])
  BY <1>3, <1>4
<1>6. \A i \in 1..n : EndpointPrinted(order[i], p[i])
  BY <1>5, EndpointItemsAre
<1>7. \A i \in 1..n : IsSeq(p[i])
  BY <1>6 DEF EndpointPrinted
<1> QED
  BY <1>1, <1>3, <1>4, <1>5, <1>6, <1>7

LEMMA EndpointsLoad ==
  ASSUME HasPackage, Printable(contract), NEW eps, eps \subseteq contract.endpoints
  PROVE  Loads(package, EndpointFile(eps))
<1>0. IsFiniteSet(eps)
  BY FiniteDecls, FS_Subset
<1>1. PICK order, p, n, f, file :
        /\ order = SetToSeq(eps) /\ p = [i \in DOMAIN order |-> EndpointItems(order[i])]
        /\ n = Len(order) /\ f = FlattenSeq(p) /\ file = EndpointFile(eps)
  OBVIOUS
<1>2. n \in Nat /\ p = [i \in 1..n |-> p[i]] /\ \A i \in 1..n : IsSeq(p[i])
  BY <1>0, <1>1, EndpointEntries
<1>3. \A i \in 1..n : order[i] \in eps /\ EndpointPrinted(order[i], p[i])
  BY <1>0, <1>1, EndpointEntries
<1>4. PICK R, C, S, E :
        /\ R = UNION {EndpointImports(e).runtime \cup EndpointImports(e).runtime_types : e \in eps}
        /\ C = UNION {EndpointImports(e).compat : e \in eps}
        /\ S = UNION {EndpointImports(e).schemas : e \in eps}
        /\ E = UNION {EndpointImports(e).errors : e \in eps}
  OBVIOUS
<1>5. /\ file.imports = Import("runtime", R) \cup Import("compat", C) \cup Import("client", {ApiConfig})
                        \cup Import("schemas", S) \cup Import("errors", E)
      /\ file.entries = f
  BY <1>1, <1>4, EndpointFileIs
<1>6. \A e \in eps : /\ Runtime(e) \subseteq R /\ EndpointImports(e).compat \subseteq C
                     /\ EndpointImports(e).schemas \subseteq S /\ EndpointImports(e).errors \subseteq E
  BY <1>4 DEF Runtime
<1>7. S \subseteq SchemaNames /\ E \subseteq ErrorNames
  BY <1>4, EndpointIs
<1>8. Imported(file) = ((((R \cup C) \cup {ApiConfig}) \cup S) \cup E)
  BY <1>5, ImportIs DEF Imported
<1>9. /\ \A i \in 1..n : NamesIn(p[i]) \subseteq NamesIn(f)
      /\ \A q \in DOMAIN f : InFile(f, p, n, q)
  BY <1>1, <1>2, FileOf
<1>10. NamesOf(file) = NamesIn(f)
  BY <1>5, FileNames
<1>11. ASSUME NEW q \in DOMAIN f PROVE LoadsAt(file, q)
  <2>1. PICK i \in 1..n : \E j \in 1..Len(p[i]) : f[q] = p[i][j]
    BY <1>9 DEF InFile
  <2>2. PICK j \in 1..Len(p[i]) : f[q] = p[i][j]
    BY <2>1
  <2>3. PICK e, x : e = order[i] /\ x = f[q] /\ e \in eps /\ x \in Range(p[i]) /\ EndpointPrinted(e, p[i])
    BY <1>2, <1>3, <2>2, SeqRange
  <2>4. x.uses \subseteq Accessed(e) /\ x.eager = {} /\ x.parses
    BY <2>3 DEF EndpointPrinted, EndpointEntry
  <2>5. e.body_ty # NoType <=> e.body = "json"
    BY <2>3, EndpointIs DEF EndpointHas
  <2>6. Accessed(e) \subseteq Imported(file) \cup (IF HasArgs(e) THEN {ArgsName(e)} ELSE {})
    BY <1>6, <1>8, <2>3, <2>5, AccessedIs
  <2>7. HasArgs(e) => ArgsName(e) \in NamesOf(file)
    BY <1>9, <1>10, <2>3 DEF EndpointPrinted
  <2>8. x.uses \subseteq Imported(file) \cup NamesOf(file)
    BY <2>4, <2>6, <2>7
  <2> QED
    BY <1>5, <2>3, <2>4, <2>8 DEF LoadsAt
<1>12. LoadsFrom(package, file)
  <2>1. ASSUME NEW i \in file.imports
        PROVE  \/ i.from \in {"runtime", "compat"}
               \/ i.from = "client" /\ i.name = ApiConfig
               \/ i.from = "schemas" /\ i.name \in S
               \/ i.from = "errors" /\ i.name \in E
    BY <1>5, ImportIs
  <2>2. /\ S \subseteq NamesOf(package.schemas) /\ E \subseteq NamesOf(package.errors)
        /\ ApiConfig \in NamesOf(package.client)
    BY <1>7, SchemasLoad, ErrorsLoad, ClientLoads
  <2> QED
    BY <2>1, <2>2 DEF LoadsFrom
<1> QED
  BY <1>1, <1>5, <1>11, <1>12, LoadsIs

LEMMA RoundLoads == ASSUME RoundInv PROVE FilesLoad
<1> SUFFICES ASSUME phase = "written", Printable(contract), NEW file \in Files(package)
             PROVE  Loads(package, file)
  BY DEF FilesLoad
<1>1. HasPackage
  BY DEF HasPackage
<1>2. CASE file \in {package.schemas, package.errors, package.client}
  BY <1>1, <1>2, SchemasLoad, ErrorsLoad, ClientLoads
<1>3. ASSUME NEW m, file = EndpointFile({e \in contract.endpoints : e.ts_module = m})
      PROVE  Loads(package, file)
  <2>1. PICK eps : eps = {e \in contract.endpoints : e.ts_module = m}
    OBVIOUS
  <2>2. eps \subseteq contract.endpoints /\ file = EndpointFile(eps)
    BY <1>3, <2>1
  <2> QED
    BY <1>1, <2>2, EndpointsLoad
<1> QED
  BY <1>1, <1>2, <1>3, PackageIs

\* Where nothing unprintable was written, every file of the package loads: what the text of a
\* declaration, an error or an endpoint mentions is declared in its file or imported from one that
\* declares it, and a schema is evaluated after those it is made of.
THEOREM FilesLoadAlways == Spec => []FilesLoad
<1> QED BY RoundsKeepInv, RoundLoads, PTL

-----------------------------------------------------------------------------
(* The names of a package.                                                 *)
LEMMA SplitIs ==
  ASSUME NEW name \in Identifier
  PROVE  IsSeq(SplitWords(name))
<1>1. PICK n \in Nat : n = Len(name) /\ DOMAIN name = 1..n
  BY LenProperties DEF Identifier
<1>2. PICK p : p = [i \in DOMAIN name |-> IF name[i][1] # "sep" THEN <<name[i]>> ELSE <<>>]
  OBVIOUS
<1>3. p = [i \in 1..n |-> p[i]]
  BY <1>1, <1>2
<1>4. ASSUME NEW i \in 1..n PROVE IsSeq(p[i])
  <2>1. p[i] = <<name[i]>> \/ p[i] = <<>>
    BY <1>1, <1>2
  <2>2. CASE p[i] = <<>>
    BY <2>2, NoVariants
  <2>3. CASE p[i] = <<name[i]>>
    <3>1. PICK X, x : X = {x} /\ x = name[i]
      OBVIOUS
    <3>2. <<x>> \in Seq(X)
      BY ONLY <3>1
    <3> QED
      BY <2>3, <3>1, <3>2, IsSeqOf
  <2> QED
    BY <2>1, <2>2, <2>3
<1>5. PICK words : words = FlattenSeq(p)
  OBVIOUS
<1>6. IsSeq(words)
  BY <1>3, <1>4, <1>5, PartsAre
<1>7. PICK m \in Nat : m = Len(words) /\ DOMAIN words = 1..m
  BY <1>6, SeqRange
<1>8. PICK s : s = [i \in DOMAIN words |-> words[i][2]]
  OBVIOUS
<1>9. s = [i \in 1..m |-> s[i]]
  BY <1>7, <1>8
<1>10. SplitWords(name) = s
  BY <1>2, <1>5, <1>8 DEF SplitWords, Those
<1> QED
  BY <1>9, <1>10, SeqIs

LEMMA PascalIs ==
  ASSUME NEW words, IsSeq(words)
  PROVE  /\ IsSeq(Pascal(words)) /\ Len(Pascal(words)) = Len(words)
         /\ words # <<>> => Pascal(words)[1] = Cap(words[1])
<1>1. PICK n \in Nat : n = Len(words) /\ DOMAIN words = 1..n
  BY SeqRange
<1>2. PICK s : s = Pascal(words)
  OBVIOUS
<1>3. s = [i \in 1..n |-> Cap(words[i])]
  BY <1>1, <1>2 DEF Pascal, Each
<1>4. s = [i \in 1..n |-> s[i]]
  BY <1>3
<1>5. words # <<>> => 1 \in 1..n
  <2>1. PICK R, w : R = Range(words) /\ w = words /\ w \in Seq(R)
    BY DEF IsSeq
  <2>2. w # <<>> => Len(w) # 0
    BY ONLY <2>1
  <2> QED
    BY <1>1, <2>1, <2>2
<1>6. IsSeq(s) /\ Len(s) = n
  BY <1>4, SeqIs
<1> QED
  BY <1>1, <1>2, <1>3, <1>5, <1>6

LEMMA TailIs ==
  ASSUME NEW words, IsSeq(words), words # <<>>
  PROVE  IsSeq(Tail(words))
<1>1. PICK R, w : R = Range(words) /\ w = words /\ w \in Seq(R)
  BY DEF IsSeq
<1>2. Tail(w) \in Seq(R)
  BY ONLY <1>1, words # <<>>
<1>3. PICK t : t = Tail(words)
  OBVIOUS
<1> QED
  BY <1>1, <1>2, <1>3, IsSeqOf

\* An accessor is not spelt like a type.
LEMMA CamelIs ==
  ASSUME NEW name \in Identifier, NEW type \in Identifier, type # NoName, UsualVariant(type)
  PROVE  ToCamelCase(name) # type
<1>1. PICK words, ws : words = SplitWords(name) /\ ws = SplitWords(type) /\ IsSeq(words) /\ IsSeq(ws)
  BY SplitIs
<1>2. type = Pascal(ws)
  BY <1>1 DEF UsualVariant
<1>3. ws # <<>>
  <2> SUFFICES ASSUME ws = <<>> PROVE FALSE
    OBVIOUS
  <2>1. Len(Pascal(ws)) = 0 /\ IsSeq(Pascal(ws))
    <3>1. Len(ws) = 0
      BY EmptySeq
    <3> QED
      BY <1>1, <3>1, PascalIs
  <2>2. PICK R : R = Range(type) /\ type \in Seq(R)
    BY <1>2, <2>1 DEF IsSeq
  <2>3. type = <<>>
    BY <1>2, <2>1, <2>2
  <2> QED
    BY <2>3 DEF NoName
<1>4. type[1] = Cap(ws[1])
  BY <1>1, <1>2, <1>3, PascalIs
<1>5. CASE words = <<>>
  BY <1>1, <1>5 DEF ToCamelCase, Camel, NoName
<1>6. CASE words # <<>>
  <2>1. PICK a, b : a = <<Low(Head(words))>> /\ b = Pascal(Tail(words))
    OBVIOUS
  <2>2. IsSeq(b)
    BY <1>1, <1>6, <2>1, TailIs, PascalIs
  <2>3. IsSeq(a) /\ Len(a) = 1 /\ a[1] = Low(Head(words))
    <3>1. PICK x, X : x = Low(Head(words)) /\ X = {x}
      OBVIOUS
    <3>2. <<x>> \in Seq(X) /\ Len(<<x>>) = 1 /\ <<x>>[1] = x
      BY ONLY <3>1
    <3> QED
      BY <2>1, <3>1, <3>2, IsSeqOf
  <2>4. (a \o b)[1] = a[1]
    <3>1. 1 \in 1..Len(a)
      BY <2>3
    <3> QED
      BY <2>2, <2>3, <3>1, BothParts
  <2>5. ToCamelCase(name) = a \o b
    BY <1>1, <1>6, <2>1 DEF ToCamelCase, Camel
  <2>6. ToCamelCase(name)[1] = Low(Head(words))
    BY <2>3, <2>4, <2>5
  <2>7. Low(Head(words)) # Cap(ws[1])
    BY DEF Low, Cap
  <2> QED
    BY <1>4, <2>6, <2>7
<1> QED
  BY <1>5, <1>6

-----------------------------------------------------------------------------
(* What the check for collisions leaves.                                   *)
LEMMA Apart ==
  ASSUME HasPackage
  PROVE  /\ \A d, x \in contract.types \cup contract.errors : d # x => TsName(d) # TsName(x)
         /\ \A d, x \in contract.errors : \A i \in DOMAIN d.variants : \A j \in DOMAIN x.variants :
              d.id # x.id \/ i # j => d.variants[i].wire # x.variants[j].wire
         /\ \A d \in contract.errors : \A i \in DOMAIN d.variants :
              \A x \in contract.types \cup contract.errors : d.variants[i].wire # TsName(x)
         /\ \A e, x \in contract.endpoints : e # x => e.ts_module # x.ts_module \/ e.ts_name # x.ts_name
<1>1. NameCollisions(endpoints, Reached) = {}
  BY HasPackageIs DEF HasPackage, RoundInv, Contracted
<1> DEFINE ts == contract.types
           es == contract.errors
           tags == UNION {{[of |-> d.id, at |-> i, wire |-> d.variants[i].wire] :
                             i \in DOMAIN d.variants} : d \in es}
<1>2. PICK T : T = tags
  OBVIOUS
<1>3. /\ ts = NsDecls(Reached, "type") /\ es = NsDecls(Reached, "error") /\ ts \cup es = Reached
      /\ contract.endpoints = endpoints
  BY HasPackageIs
<1>4. /\ \A d, x \in ts : d # x => TsName(d) # TsName(x)
      /\ \A d, x \in es : d # x => TsName(d) # TsName(x)
      /\ \A d, x \in T : d # x => d.wire # x.wire
      /\ \A e, x \in endpoints : e # x => <<e.ts_module, e.ts_name>> # <<x.ts_module, x.ts_name>>
      /\ \A t \in ts, e \in es : TsName(t) # TsName(e)
      /\ \A t \in T, d \in Reached : t.wire # TsName(d)
  <2>1. Err("name-collision") \in {Err("name-collision")}
    OBVIOUS
  <2>2. ~ (\/ Clash(ts, TsName) \/ Clash(es, TsName) \/ Clash(T, LAMBDA t : t.wire)
           \/ Clash(endpoints, LAMBDA e : <<e.ts_module, e.ts_name>>)
           \/ \E t \in ts, e \in es : TsName(t) = TsName(e)
           \/ \E t \in T, d \in Reached : t.wire = TsName(d))
    BY <1>1, <1>2, <1>3, <2>1 DEF NameCollisions
  <2> QED
    BY <2>2 DEF Clash
<1>5. ASSUME NEW d \in es, NEW i \in DOMAIN d.variants
      PROVE  /\ [of |-> d.id, at |-> i, wire |-> d.variants[i].wire] \in T
  BY <1>2
<1>6. ASSUME NEW d \in es, NEW x \in es, NEW i \in DOMAIN d.variants, NEW j \in DOMAIN x.variants,
             d.id # x.id \/ i # j
      PROVE  d.variants[i].wire # x.variants[j].wire
  <2>1. PICK t, u : /\ t = [of |-> d.id, at |-> i, wire |-> d.variants[i].wire]
                    /\ u = [of |-> x.id, at |-> j, wire |-> x.variants[j].wire]
    OBVIOUS
  <2>2. t.of = d.id /\ t.at = i /\ t.wire = d.variants[i].wire /\ u.of = x.id /\ u.at = j /\ u.wire = x.variants[j].wire
    BY <2>1
  <2>3. t # u
    BY <1>6, <2>2
  <2> QED
    BY <1>4, <1>5, <2>1, <2>2, <2>3
<1>7. ASSUME NEW d \in es, NEW i \in DOMAIN d.variants, NEW x \in ts \cup es
      PROVE  d.variants[i].wire # TsName(x)
  <2>1. PICK t : t = [of |-> d.id, at |-> i, wire |-> d.variants[i].wire]
    OBVIOUS
  <2>2. t.wire = d.variants[i].wire
    BY <2>1
  <2> QED
    BY <1>3, <1>4, <1>5, <2>1, <2>2
<1>8. ASSUME NEW e \in endpoints, NEW x \in endpoints, e # x
      PROVE  e.ts_module # x.ts_module \/ e.ts_name # x.ts_name
  BY <1>4, <1>8
<1> QED
  BY <1>3, <1>4, <1>6, <1>7, <1>8

-----------------------------------------------------------------------------
Own(file) == {x \in Range(file.entries) : x.role = "symbol"}
Distinct(xs) == \A x, y \in xs : x.of # y.of => x.name # y.name
Lent(file) == {i.name : i \in {j \in file.imports : j.from \in {"schemas", "errors"}}}
                \ {DecoderName(TsName(d)) : d \in contract.errors}

OfDecl(x, d) == x.of = d.id /\ x.name = TsName(d)
OfTag(x, d, i) == x.of = VariantId(d, d.variants[i]) /\ x.name = d.variants[i].wire

LEMMA SchemaSymbols ==
  ASSUME HasPackage, NEW x \in Own(package.schemas)
  PROVE  \E d \in contract.types : OfDecl(x, d)
<1>1. PICK sorted, p, n, f : /\ sorted = TopoSortedTypes(contract.types).sorted
                             /\ p = [i \in DOMAIN sorted |-> SchemaItems(sorted[i])]
                             /\ n = Len(sorted) /\ f = FlattenSeq(p)
  OBVIOUS
<1>2. n \in Nat /\ p = [i \in 1..n |-> p[i]] /\ \A i \in 1..n : IsSeq(p[i])
  BY <1>1, SchemasEntries
<1>3. \A i \in 1..n : sorted[i] \in contract.types /\ SchemaMade(sorted[i], p[i])
  BY <1>1, SchemasEntries
<1>4. package.schemas.entries = f
  BY <1>1, SchemasEntries
<1>5. \A y : y \in Range(f) <=> \E i \in 1..n : y \in Range(p[i])
  <2>1. f = FlattenSeq(p)
    BY <1>1
  <2> HIDE <1>1
  <2> QED
    BY <1>2, <2>1, PartsAre
<1>6. PICK i \in 1..n : x \in Range(p[i]) /\ x.role = "symbol"
  BY <1>4, <1>5 DEF Own
<1>7. x.of = sorted[i].id /\ x.name = TsName(sorted[i])
  BY <1>3, <1>6 DEF SchemaMade
<1> QED
  BY <1>3, <1>7 DEF OfDecl

LEMMA ErrorSymbols ==
  ASSUME HasPackage, NEW x \in Own(package.errors)
  PROVE  \E d \in contract.errors : OfDecl(x, d) \/ \E i \in DOMAIN d.variants : OfTag(x, d, i)
<1>1. PICK order, p, n, f : /\ order = SetToSeq(contract.errors)
                            /\ p = [i \in DOMAIN order |-> ErrorItems(order[i])]
                            /\ n = Len(order) /\ f = FlattenSeq(p)
  OBVIOUS
<1>2. n \in Nat /\ p = [i \in 1..n |-> p[i]] /\ \A i \in 1..n : IsSeq(p[i])
  BY <1>1, ErrorsEntries
<1>3. \A i \in 1..n : order[i] \in contract.errors /\ ErrorMade(order[i], p[i])
  BY <1>1, ErrorsEntries
<1>4. package.errors.entries = f
  BY <1>1, ErrorsEntries
<1>5. \A y : y \in Range(f) <=> \E i \in 1..n : y \in Range(p[i])
  <2>1. f = FlattenSeq(p)
    BY <1>1
  <2> HIDE <1>1
  <2> QED
    BY <1>2, <2>1, PartsAre
<1>6. PICK i \in 1..n : x \in Range(p[i]) /\ x.role = "symbol"
  BY <1>4, <1>5 DEF Own
<1>7. PICK q \in DOMAIN p[i] : x = p[i][q]
  BY <1>2, <1>6, SeqRange
<1>8. PICK d \in contract.errors : d = order[i] /\ ErrorEntry(d, p[i], q)
  BY <1>3, <1>7 DEF ErrorMade
<1>9. \/ x.of = d.id /\ x.name = TsName(d)
      \/ \E v \in Range(d.variants) : x.of = VariantId(d, v) /\ x.name = v.wire
  BY <1>6, <1>7, <1>8 DEF ErrorEntry
<1>10. ASSUME NEW v \in Range(d.variants), x.of = VariantId(d, v), x.name = v.wire
       PROVE  \E k \in DOMAIN d.variants : OfTag(x, d, k)
  <2>1. PICK k \in DOMAIN d.variants : v = d.variants[k]
    BY DEF Range
  <2> QED
    BY <1>10, <2>1 DEF OfTag
<1> QED
  BY <1>9, <1>10 DEF OfDecl

LEMMA ClientSymbols == ASSUME HasPackage PROVE Own(package.client) = {} /\ Lent(package.client) = {}
<1>1. PICK a : a = Class(ApiConfig, {ContextName}) /\ IsEntry(a)
  BY EntryFields DEF Class
<1>2. PICK b : b = FnConst(LayerFn, {FetchClientConfig, LayerName, ApiConfig}) /\ IsEntry(b)
  BY EntryFields DEF FnConst
<1>3. PICK m : m = Marked(<<a, b>>, Unknown, "client")
  OBVIOUS
<1>4. /\ DOMAIN m = 1..2
      /\ SameEntry(m[1], a, Unknown, "client") /\ SameEntry(m[2], b, Unknown, "client")
  BY <1>1, <1>2, <1>3, TwoMarked
<1>5. /\ package.client.entries = m
      /\ package.client.imports = Import("runtime", {FetchClientConfig})
                                  \cup Import("compat", {ContextName, LayerName})
  <2>1. package.client = ClientFile
    BY PackageIs
  <2>2. m = Marked(<<Class(ApiConfig, {ContextName}),
                     FnConst(LayerFn, {FetchClientConfig, LayerName, ApiConfig})>>, Unknown, "client")
    BY <1>1, <1>2, <1>3, Zenon
  <2> QED
    BY <2>1, <2>2 DEF ClientFile
<1>6. ASSUME NEW x \in Own(package.client) PROVE FALSE
  <2>1. PICK q \in 1..2 : x = m[q] /\ x.role = "symbol"
    BY <1>4, <1>5 DEF Own, Range
  <2>2. x.role = "client"
    <3>1. q = 1 \/ q = 2
      OBVIOUS
    <3> QED
      BY <1>4, <2>1, <3>1 DEF SameEntry
  <2> QED
    BY <2>1, <2>2
<1>7. \A i \in package.client.imports : i.from \in {"runtime", "compat"}
  BY <1>5, ImportIs
<1> QED
  BY <1>6, <1>7 DEF Lent

LEMMA EndpointSymbols ==
  ASSUME HasPackage, NEW eps, eps \subseteq contract.endpoints, NEW x \in Own(EndpointFile(eps))
  PROVE  \E e \in eps : x.of = EndpointId(e) /\ x.name = e.ts_name
<1>0. IsFiniteSet(eps)
  BY FiniteDecls, FS_Subset
<1>1. PICK order, p, n, f :
        /\ order = SetToSeq(eps) /\ p = [i \in DOMAIN order |-> EndpointItems(order[i])]
        /\ n = Len(order) /\ f = FlattenSeq(p)
  OBVIOUS
<1>2. n \in Nat /\ p = [i \in 1..n |-> p[i]] /\ \A i \in 1..n : IsSeq(p[i])
  BY <1>0, <1>1, EndpointEntries
<1>3. \A i \in 1..n : order[i] \in eps /\ EndpointPrinted(order[i], p[i])
  BY <1>0, <1>1, EndpointEntries
<1>4. EndpointFile(eps).entries = f
  BY <1>1, EndpointFileIs
<1>5. \A y : y \in Range(f) <=> \E i \in 1..n : y \in Range(p[i])
  <2>1. f = FlattenSeq(p)
    BY <1>1
  <2> HIDE <1>1
  <2> QED
    BY <1>2, <2>1, PartsAre
<1>6. PICK i \in 1..n : x \in Range(p[i]) /\ x.role = "symbol"
  BY <1>4, <1>5 DEF Own
<1> QED
  BY <1>3, <1>6 DEF EndpointPrinted, EndpointEntry

\* The symbols of the declarations are apart, also in the index.
LEMMA DeclsApart ==
  ASSUME HasPackage
  PROVE  Distinct(Own(package.schemas) \cup Own(package.errors))
<1> SUFFICES ASSUME NEW x \in Own(package.schemas) \cup Own(package.errors),
                    NEW y \in Own(package.schemas) \cup Own(package.errors), x.of # y.of
             PROVE  x.name # y.name
  BY DEF Distinct
<1> DEFINE ds == contract.types \cup contract.errors
           IsDecl(z) == \E d \in ds : OfDecl(z, d)
           IsTag(z) == \E d \in contract.errors : \E i \in DOMAIN d.variants : OfTag(z, d, i)
<1>1. (IsDecl(x) \/ IsTag(x)) /\ (IsDecl(y) \/ IsTag(y))
  BY SchemaSymbols, ErrorSymbols
<1>2. ASSUME IsDecl(x), IsDecl(y) PROVE x.name # y.name
  <2>1. PICK d \in ds : OfDecl(x, d)
    BY <1>2
  <2>2. PICK e \in ds : OfDecl(y, e)
    BY <1>2
  <2>3. d # e
    BY <2>1, <2>2 DEF OfDecl
  <2> QED
    BY <2>1, <2>2, <2>3, Apart DEF OfDecl
<1>3. ASSUME NEW z, NEW w, IsTag(z), IsDecl(w) PROVE z.name # w.name
  <2>1. PICK d \in contract.errors : \E i \in DOMAIN d.variants : OfTag(z, d, i)
    BY <1>3
  <2>2. PICK i \in DOMAIN d.variants : OfTag(z, d, i)
    BY <2>1
  <2>3. PICK e \in ds : OfDecl(w, e)
    BY <1>3
  <2>4. d.variants[i].wire # TsName(e)
    BY Apart
  <2> QED
    BY <2>2, <2>3, <2>4 DEF OfTag, OfDecl
<1>4. ASSUME IsTag(x), IsTag(y) PROVE x.name # y.name
  <2>1. PICK d \in contract.errors : \E i \in DOMAIN d.variants : OfTag(x, d, i)
    BY <1>4
  <2>2. PICK i \in DOMAIN d.variants : OfTag(x, d, i)
    BY <2>1
  <2>3. PICK e \in contract.errors : \E j \in DOMAIN e.variants : OfTag(y, e, j)
    BY <1>4
  <2>4. PICK j \in DOMAIN e.variants : OfTag(y, e, j)
    BY <2>3
  <2>5. CASE d.id # e.id \/ i # j
    <3>1. d.variants[i].wire # e.variants[j].wire
      BY <2>5, Apart
    <3> QED
      BY <2>2, <2>4, <3>1 DEF OfTag
  <2>6. CASE d.id = e.id /\ i = j
    <3>1. types[d.id] = d /\ types[e.id] = e
      BY DeclIs
    <3>2. d = e
      BY <2>6, <3>1
    <3> QED
      BY <2>2, <2>4, <2>6, <3>2 DEF OfTag
  <2> QED
    BY <2>5, <2>6
<1> QED
  BY <1>1, <1>2, <1>3, <1>4

LEMMA AccessorsApart ==
  ASSUME HasPackage, NEW m
  PROVE  Distinct(Own(EndpointFile({e \in contract.endpoints : e.ts_module = m})))
<1>1. PICK eps : eps = {e \in contract.endpoints : e.ts_module = m}
  OBVIOUS
<1>2. ASSUME NEW x \in Own(EndpointFile(eps)), NEW y \in Own(EndpointFile(eps)), x.of # y.of
      PROVE  x.name # y.name
  <2>1. eps \subseteq contract.endpoints
    BY <1>1
  <2>2. PICK e \in eps : x.of = EndpointId(e) /\ x.name = e.ts_name
    BY <2>1, EndpointSymbols
  <2>3. PICK g \in eps : y.of = EndpointId(g) /\ y.name = g.ts_name
    BY <2>1, EndpointSymbols
  <2>4. e # g
    BY <1>2, <2>2, <2>3
  <2>5. e.ts_module = g.ts_module
    BY <1>1
  <2> QED
    BY <2>1, <2>2, <2>3, <2>4, <2>5, Apart
<1> QED
  BY <1>1, <1>2 DEF Distinct

LEMMA TypeNames ==
  ASSUME HasPackage, NEW d \in contract.types \cup contract.errors
  PROVE  TsName(d) \in Identifier /\ TsName(d) # NoName
<1>1. PICK id \in DOMAIN types : id = d.id
  BY DeclIs
<1>2. PICK k : k = Item(id.at, id.name) /\ k \in Keys(modules) /\ k.at = id.at /\ k.name = id.name
  <2>1. Item(id.at, id.name) \in Keys(modules)
    BY DEF HasPackage, RoundInv, WellFormed, Entries
  <2>2. Item(id.at, id.name).at = id.at /\ Item(id.at, id.name).name = id.name
    BY DEF Item
  <2> QED
    BY <2>1, <2>2
<1>3. IsTab(modules)
  BY ModulesTab DEF HasPackage, RoundInv
<1>4. PICK i : i = ItemAt(modules, k) /\ i \in Range(modules[k.at].items) /\ i.name = k.name
               /\ k.at \in DOMAIN modules /\ k.name \in Identifier
  BY <1>2, <1>3, KeyItem
<1>5. i.name # NoName
  BY <1>3, <1>4, FindItemIs
<1> QED
  BY <1>1, <1>2, <1>4, <1>5 DEF TsName

LEMMA AccessorNames ==
  ASSUME HasPackage, NEW e \in contract.endpoints
  PROVE  e.rust_name \in Identifier /\ e.ts_name = ToCamelCase(e.rust_name)
<1>1. EndpointHas(e)
  BY HasPackageIs DEF HasPackage, RoundInv, AllTyped
<1>2. IsTab(modules)
  BY ModulesTab DEF HasPackage, RoundInv
<1>3. PICK i : i = Of(e) /\ i \in Range(modules[e.at].items) /\ i.kind = "endpoint" /\ i.name = e.rust_name
               /\ e.at \in DOMAIN modules
  BY <1>1 DEF EndpointHas, EndpointFnsIn
<1>4. i \in Items
  BY <1>2, <1>3, FindItemIs
<1>5. i \in EndpointFns
  BY <1>3, <1>4 DEF Items, DeclItems, RouterFns
<1> QED
  BY <1>1, <1>3, <1>5 DEF EndpointHas, EndpointFns

LEMMA LentSchemas == ASSUME HasPackage PROVE Lent(package.schemas) = {}
<1>1. package.schemas.imports = Import("compat", {Schema})
  BY SchemasEntries
<1>2. \A i \in package.schemas.imports : i.from = "compat"
  BY <1>1, ImportIs
<1> QED
  BY <1>2 DEF Lent

LEMMA LentErrors == ASSUME HasPackage, Printable(contract) PROVE Lent(package.errors) \subseteq SchemaNames
<1>1. PICK S : S = UNION {Named(g.ty) : g \in ErrorFields(contract.errors)}
  OBVIOUS
<1>2. package.errors.imports =
        Import("runtime", {ApiClientError, DecodeWithSchema}) \cup Import("compat", {Effect, Schema})
        \cup Import("schemas", S)
  BY <1>1, ErrorsEntries
<1>3. S \subseteq SchemaNames
  BY <1>1, ErrorsNamed
<1>4. \A i \in package.errors.imports : i.from \in {"runtime", "compat"} \/ i.name \in S
  BY <1>2, ImportIs
<1> QED
  BY <1>3, <1>4 DEF Lent

LEMMA LentEndpoints ==
  ASSUME HasPackage, Printable(contract), NEW eps, eps \subseteq contract.endpoints
  PROVE  \A n \in Lent(EndpointFile(eps)) : \E d \in contract.types \cup contract.errors : n = TsName(d)
<1>1. PICK R, C, S, E, file :
        /\ R = UNION {EndpointImports(e).runtime \cup EndpointImports(e).runtime_types : e \in eps}
        /\ C = UNION {EndpointImports(e).compat : e \in eps}
        /\ S = UNION {EndpointImports(e).schemas : e \in eps}
        /\ E = UNION {EndpointImports(e).errors : e \in eps}
        /\ file = EndpointFile(eps)
  OBVIOUS
<1>2. file.imports = Import("runtime", R) \cup Import("compat", C) \cup Import("client", {ApiConfig})
                     \cup Import("schemas", S) \cup Import("errors", E)
  BY <1>1, EndpointFileIs
<1>3. S \subseteq SchemaNames /\ E \subseteq ErrorNames
  BY <1>1, EndpointIs
<1>4. ASSUME NEW i \in file.imports
      PROVE  i.from \in {"runtime", "compat", "client"} \/ i.name \in S \cup E
  BY <1>2, ImportIs
<1>5. ASSUME NEW n \in Lent(file) PROVE \E d \in contract.types \cup contract.errors : n = TsName(d)
  <2>1. n \notin {DecoderName(TsName(d)) : d \in contract.errors} /\ n \in S \cup E
    BY <1>4 DEF Lent
  <2> QED
    BY <1>3, <2>1 DEF SchemaNames, ErrorNames
<1> QED
  BY <1>1, <1>5

LEMMA RoundNames == ASSUME RoundInv PROVE NamesUniqueUnlessDerived
<1> SUFFICES ASSUME HasPackage PROVE NamesUniqueUnlessDerived
  BY DEF HasPackage, NamesUniqueUnlessDerived
<1> DEFINE ds == contract.types \cup contract.errors
<1>1. \A file \in Files(package) :
        \/ file \in {package.schemas, package.errors, package.client}
        \/ \E m : file = EndpointFile({e \in contract.endpoints : e.ts_module = m})
  BY PackageIs
<1>2. ASSUME NEW file \in Files(package) PROVE Distinct(Own(file))
  <2>1. CASE file \in {package.schemas, package.errors, package.client}
    BY <2>1, DeclsApart, ClientSymbols DEF Distinct
  <2>2. ASSUME NEW m, file = EndpointFile({e \in contract.endpoints : e.ts_module = m})
        PROVE  Distinct(Own(file))
    BY <2>2, AccessorsApart
  <2> QED
    BY <1>1, <2>1, <2>2
<1>3. ASSUME Printable(contract), \A d \in ds : UsualVariant(TsName(d)), NEW file \in Files(package),
             NEW x \in Own(file)
      PROVE  x.name \notin Lent(file)
  <2>1. CASE file = package.schemas
    BY <2>1, LentSchemas
  <2>2. CASE file = package.errors
    <3>1. PICK d \in contract.errors : OfDecl(x, d) \/ \E i \in DOMAIN d.variants : OfTag(x, d, i)
      BY <2>2, ErrorSymbols
    <3>2. ASSUME NEW t \in contract.types PROVE x.name # TsName(t)
      <4>1. CASE OfDecl(x, d)
        <5>1. d.id.ns = "error" /\ t.id.ns = "type"
          BY HasPackageIs DEF NsDecls
        <5>2. d # t
          BY <5>1
        <5> QED
          BY <4>1, <5>2, Apart DEF OfDecl
      <4>2. ASSUME NEW i \in DOMAIN d.variants, OfTag(x, d, i) PROVE x.name # TsName(t)
        <5>1. d.variants[i].wire # TsName(t)
          BY Apart
        <5> QED
          BY <4>2, <5>1 DEF OfTag
      <4> QED
        BY <3>1, <4>1, <4>2
    <3>3. Lent(file) \subseteq SchemaNames
      BY <1>3, <2>2, LentErrors
    <3> QED
      BY <3>2, <3>3 DEF SchemaNames
  <2>3. CASE file = package.client
    BY <2>3, ClientSymbols
  <2>4. ASSUME NEW m, file = EndpointFile({e \in contract.endpoints : e.ts_module = m})
        PROVE  x.name \notin Lent(file)
    <3>1. PICK eps : eps = {e \in contract.endpoints : e.ts_module = m} /\ eps \subseteq contract.endpoints
                     /\ file = EndpointFile(eps)
      BY <2>4
    <3>2. PICK e \in eps : x.name = e.ts_name
      BY <3>1, EndpointSymbols
    <3>3. e.rust_name \in Identifier /\ x.name = ToCamelCase(e.rust_name)
      BY <3>1, <3>2, AccessorNames
    <3>4. ASSUME NEW d \in ds PROVE x.name # TsName(d)
      <4>1. TsName(d) \in Identifier /\ TsName(d) # NoName /\ UsualVariant(TsName(d))
        BY <1>3, TypeNames
      <4> QED
        BY <3>3, <4>1, CamelIs
    <3>5. \A n \in Lent(file) : \E d \in ds : n = TsName(d)
      BY <1>3, <3>1, LentEndpoints
    <3> QED
      BY <3>4, <3>5
  <2> QED
    BY <1>1, <2>1, <2>2, <2>3, <2>4
<1>4. Distinct(Own(package.schemas) \cup Own(package.errors))
  BY DeclsApart
<1> QED
  BY <1>2, <1>3, <1>4 DEF NamesUniqueUnlessDerived, Own, Distinct, Lent

\* Names that come straight from Rust never meet, in a file or in the index, and none of them is
\* spelt like one its file imports from schemas.ts or errors.ts: the check for collisions and the
\* case rules leave no room for it, whatever the workspace.
THEOREM NamesAreUnique == Spec => []NamesUniqueUnlessDerived
<1> QED BY RoundsKeepInv, RoundNames, PTL

-----------------------------------------------------------------------------
(* Spelling.  Words in one case, joined by a separator or not.             *)
Spelt(case, words) == [i \in DOMAIN words |-> <<case, words[i]>>]

LEMMA SpeltIs ==
  ASSUME NEW words, IsSeq(words), NEW case
  PROVE  /\ IsSeq(Spelt(case, words)) /\ Len(Spelt(case, words)) = Len(words)
         /\ \A i \in 1..Len(words) : Spelt(case, words)[i] = <<case, words[i]>>
<1>1. PICK n \in Nat : n = Len(words) /\ DOMAIN words = 1..n
  BY SeqRange
<1>2. PICK s : s = Spelt(case, words)
  OBVIOUS
<1>3. s = [i \in 1..n |-> <<case, words[i]>>]
  BY <1>1, <1>2 DEF Spelt
<1>4. s = [i \in 1..n |-> s[i]]
  BY <1>3
<1>5. IsSeq(s) /\ Len(s) = n
  BY <1>4, SeqIs
<1> QED
  BY <1>1, <1>2, <1>3, <1>5

LEMMA CasesAre ==
  ASSUME NEW words
  PROVE  /\ Each(words, Low) = Spelt("low", words) /\ Each(words, Up) = Spelt("up", words)
         /\ Pascal(words) = Spelt("cap", words) /\ Snake(words) = Join(Spelt("low", words), Underscore)
<1>1. Each(words, Low) = Spelt("low", words) /\ Each(words, Up) = Spelt("up", words)
      /\ Each(words, Cap) = Spelt("cap", words)
  BY DEF Each, Spelt, Low, Up, Cap
<1> QED
  BY <1>1 DEF Pascal, Snake

\* Positions in a sequence with separators in between.
LEMMA HalfOf ==
  ASSUME NEW n \in Nat, NEW i \in 1..(2 * n - 1)
  PROVE  i % 2 = 1 => (i + 1) \div 2 \in 1..n
  OBVIOUS

LEMMA JoinIs ==
  ASSUME NEW tokens, IsSeq(tokens), NEW sep, NEW n \in Nat, n = Len(tokens)
  PROVE  /\ n = 0 => tokens = <<>> /\ Join(tokens, sep) = <<>>
         /\ n # 0 => Join(tokens, sep) =
              [i \in 1..(2 * n - 1) |-> IF i % 2 = 1 THEN tokens[(i + 1) \div 2] ELSE sep]
<1>1. PICK R, s : R = Range(tokens) /\ s = tokens /\ s \in Seq(R)
  BY DEF IsSeq
<1>2. n = 0 <=> s = <<>>
  BY ONLY <1>1, n = Len(tokens)
<1> QED
  BY <1>1, <1>2 DEF Join

\* What serde does token by token to a name with separators.
LEMMA Recased ==
  ASSUME NEW words, IsSeq(words), NEW old, old # "sep", NEW new, NEW sep,
         NEW name, name = Join(Spelt(old, words), Underscore)
  PROVE  [i \in DOMAIN name |-> IF name[i][1] = "sep" THEN sep ELSE <<new, name[i][2]>>]
           = Join(Spelt(new, words), sep)
<1>1. PICK n \in Nat : n = Len(words)
  BY SeqRange
<1>2. PICK a, b : a = Spelt(old, words) /\ b = Spelt(new, words)
  OBVIOUS
<1>3. /\ IsSeq(a) /\ Len(a) = n /\ \A i \in 1..n : a[i] = <<old, words[i]>>
      /\ IsSeq(b) /\ Len(b) = n /\ \A i \in 1..n : b[i] = <<new, words[i]>>
  BY <1>1, <1>2, SpeltIs
<1>4. CASE n = 0
  <2>1. name = <<>> /\ Join(b, sep) = <<>>
    BY <1>2, <1>3, <1>4, JoinIs
  <2>2. DOMAIN name = {}
    BY <2>1
  <2>3. [i \in DOMAIN name |-> IF name[i][1] = "sep" THEN sep ELSE <<new, name[i][2]>>] = <<>>
    BY <2>2
  <2> QED
    BY <1>2, <2>1, <2>3
<1>5. CASE n # 0
  <2>1. name = [i \in 1..(2 * n - 1) |-> IF i % 2 = 1 THEN a[(i + 1) \div 2] ELSE Underscore]
    BY <1>2, <1>3, <1>5, JoinIs
  <2>2. Join(b, sep) = [i \in 1..(2 * n - 1) |-> IF i % 2 = 1 THEN b[(i + 1) \div 2] ELSE sep]
    BY <1>3, <1>5, JoinIs
  <2>3. ASSUME NEW i \in 1..(2 * n - 1)
        PROVE  (IF name[i][1] = "sep" THEN sep ELSE <<new, name[i][2]>>)
                 = IF i % 2 = 1 THEN b[(i + 1) \div 2] ELSE sep
    <3>1. CASE i % 2 = 1
      <4>1. PICK k \in 1..n : k = (i + 1) \div 2
        BY <3>1, HalfOf
      <4>2. name[i] = <<old, words[k]>> /\ b[k] = <<new, words[k]>>
        BY <1>3, <2>1, <3>1, <4>1
      <4> QED
        BY <3>1, <4>1, <4>2
    <3>2. CASE i % 2 # 1
      <4>1. name[i] = Underscore
        BY <2>1, <3>2
      <4>2. name[i][1] = "sep"
        <5>1. Underscore[1] = "sep"
          BY DEF Underscore
        <5> QED
          BY <4>1, <5>1
      <4> QED
        BY <3>2, <4>2, Zenon
    <3> QED
      BY <3>1, <3>2
  <2>4. DOMAIN name = 1..(2 * n - 1)
    BY <2>1
  <2> QED
    BY <1>2, <2>2, <2>3, <2>4
<1> QED
  BY <1>4, <1>5

\* A field spelt as usual is under serde's name whatever the rule.
LEMMA FieldNamed ==
  ASSUME NEW name \in Identifier, UsualField(name), NEW rule \in Rules
  PROVE  ApplyRenameRule(name, rule) = SerdeField(name, rule)
<1>1. PICK words : words = SplitWords(name) /\ IsSeq(words)
  BY SplitIs
<1>2. name = Snake(words) /\ Unraw(name) = name
  BY <1>1 DEF UsualField, Unraw
<1>3. name = Join(Spelt("low", words), Underscore)
  BY <1>2, CasesAre
<1>4. Recase(name, Low, Dash) = Join(Each(words, Low), Dash)
  <2>1. [i \in DOMAIN name |-> IF name[i][1] = "sep" THEN Dash ELSE <<"low", name[i][2]>>]
          = Join(Spelt("low", words), Dash)
    BY <1>1, <1>3, Recased
  <2>2. Recase(name, Low, Dash) = [i \in DOMAIN name |-> IF name[i][1] = "sep" THEN Dash ELSE <<"low", name[i][2]>>]
    BY DEF Recase, Low
  <2> QED
    BY <2>1, <2>2, CasesAre
<1>5. Recase(name, Up, Underscore) = Join(Each(words, Up), Underscore)
  <2>1. [i \in DOMAIN name |-> IF name[i][1] = "sep" THEN Underscore ELSE <<"up", name[i][2]>>]
          = Join(Spelt("up", words), Underscore)
    BY <1>1, <1>3, Recased
  <2>2. Recase(name, Up, Underscore) = [i \in DOMAIN name |-> IF name[i][1] = "sep" THEN Underscore ELSE <<"up", name[i][2]>>]
    BY DEF Recase, Up
  <2> QED
    BY <2>1, <2>2, CasesAre
<1>6. CASE rule \in {"none", "snake_case"}
  <2>1. SerdeField(name, rule) = name
    BY <1>2, <1>6 DEF SerdeField
  <2>2. ApplyRenameRule(name, rule) = IF rule = "none" THEN name ELSE Snake(words)
    BY <1>1, <1>6 DEF ApplyRenameRule
  <2> QED
    BY <1>2, <2>1, <2>2, Zenon
<1>7. CASE rule = "camelCase"
  BY <1>1, <1>2, <1>7 DEF SerdeField, ApplyRenameRule
<1>8. CASE rule = "PascalCase"
  BY <1>1, <1>2, <1>8 DEF SerdeField, ApplyRenameRule
<1>9. CASE rule = "kebab-case"
  BY <1>1, <1>2, <1>4, <1>9 DEF SerdeField, ApplyRenameRule
<1>10. CASE rule = "SCREAMING_SNAKE_CASE"
  BY <1>1, <1>2, <1>5, <1>10 DEF SerdeField, ApplyRenameRule
<1> QED
  BY <1>6, <1>7, <1>8, <1>9, <1>10 DEF Rules

\* Serde puts a separator before each capital but the first.
LEMMA CutIs ==
  ASSUME NEW words, IsSeq(words), NEW name, name = Spelt("cap", words)
  PROVE  FlattenSeq([i \in DOMAIN name |-> IF i > 1 /\ name[i][1] = "cap"
                                             THEN <<Underscore, name[i]>> ELSE <<name[i]>>])
           = Join(name, Underscore)
<1>1. /\ IsSeq(name) /\ Len(name) = Len(words)
      /\ \A i \in 1..Len(words) : name[i] = <<"cap", words[i]>>
  BY SpeltIs
<1>2. PICK n \in Nat : n = Len(name) /\ DOMAIN name = 1..n
  BY <1>1, SeqRange
<1>3. PICK s : s = [i \in DOMAIN name |-> IF i > 1 /\ name[i][1] = "cap"
                                             THEN <<Underscore, name[i]>> ELSE <<name[i]>>]
  OBVIOUS
<1>4. s = [i \in 1..n |-> IF i > 1 THEN <<Underscore, name[i]>> ELSE <<name[i]>>]
  <2>1. ASSUME NEW i \in 1..n
        PROVE  s[i] = IF i > 1 THEN <<Underscore, name[i]>> ELSE <<name[i]>>
    <3>1. name[i][1] = "cap"
      BY <1>1, <1>2
    <3> QED
      BY <1>2, <1>3, <3>1
  <2>2. s = [i \in 1..n |-> s[i]]
    BY <1>2, <1>3
  <2> QED
    BY <2>1, <2>2
<1>5. PICK X : X = Range(name) \cup {Underscore}
  OBVIOUS
<1>6. \A i \in 1..n : name[i] \in X
  BY <1>1, <1>2, <1>5, SeqRange
<1>7. s \in Seq(Seq(X)) /\ Len(s) = n
  <2>1. ASSUME NEW i \in 1..n PROVE s[i] \in Seq(X)
    <3>1. PICK u, x : u = Underscore /\ x = name[i] /\ u \in X /\ x \in X
      BY <1>5, <1>6
    <3>2. <<u, x>> \in Seq(X) /\ <<x>> \in Seq(X)
      BY ONLY <3>1
    <3> QED
      BY <1>4, <3>1, <3>2
  <2>2. PICK Y : Y = Seq(X)
    OBVIOUS
  <2>3. s \in [1..n -> Y]
    BY <1>4, <2>1, <2>2
  <2>4. s \in Seq(Y) /\ Len(s) = n
    BY ONLY <2>3, n \in Nat
  <2> QED
    BY <2>2, <2>4
<1>8. PICK k \in Nat : \E g : FlattenSteps(g, k, s, X)
  BY <1>7, FlattenedSteps
<1>9. PICK f : FlattenSteps(f, n, s, X)
  BY <1>7, <1>8 DEF FlattenSteps
<1> DEFINE Cut(i) == /\ Len(f[i]) = (IF i = 0 THEN 0 ELSE 2 * i - 1)
                     /\ \A j \in 1..(2 * i - 1) :
                          f[i][j] = IF j % 2 = 1 THEN name[(j + 1) \div 2] ELSE Underscore
           S == {i \in 0..n : Cut(i)}
<1>10. 0 \in S
  <2>1. f[0] = <<>> /\ Len(f[0]) = 0
    BY <1>9, EmptySeq DEF FlattenSteps
  <2>2. 1..(2 * 0 - 1) = {}
    OBVIOUS
  <2> QED
    BY <2>1, <2>2
<1>11. ASSUME NEW i \in Nat, i < n, i \in S PROVE i + 1 \in S
  <2>1. PICK a, b, c : a = f[i] /\ b = s[i + 1] /\ c = f[i + 1]
    OBVIOUS
  <2>2. i + 1 \in 1..n /\ (i + 1) - 1 = i
    BY <1>11
  <2>3. a \in Seq(X) /\ b \in Seq(X) /\ c = a ++ b
    BY <1>9, <2>1, <2>2 DEF FlattenSteps
  <2>4. /\ Len(c) = Len(a) + Len(b)
        /\ \A j \in 1..Len(a) : c[j] = a[j]
        /\ \A j \in 1..Len(b) : c[Len(a) + j] = b[j]
    BY <2>3, Positions
  <2>5. PICK x : x = name[i + 1]
    OBVIOUS
  <2>6. CASE i = 0
    <3>1. b = <<x>> /\ Len(a) = 0
      BY <1>4, <1>11, <2>1, <2>2, <2>5, <2>6
    <3>2. Len(c) = 1 /\ c[1] = x
      <4>1. Len(b) = 1 /\ b[1] = x
        BY <3>1
      <4> HIDE <3>1
      <4>2. 1 \in 1..Len(b) /\ Len(a) + 1 = 1
        BY <3>1, <4>1
      <4> QED
        BY <2>4, <3>1, <4>1, <4>2
    <3>3. 2 * (i + 1) - 1 = 1 /\ i + 1 = 1 /\ 1 % 2 = 1 /\ (1 + 1) \div 2 = 1 /\ i + 1 # 0
      BY <2>6
    <3>4. \A j \in 1..(2 * (i + 1) - 1) : j = 1
      BY <3>3
    <3>5. Cut(i + 1)
      BY <2>1, <2>5, <3>2, <3>3, <3>4
    <3> QED
      BY <2>2, <3>5
  <2>7. CASE i # 0
    <3>1. b = <<Underscore, x>> /\ Len(a) = 2 * i - 1
      BY <1>4, <1>11, <2>1, <2>2, <2>5, <2>7
    <3>2. Len(b) = 2 /\ b[1] = Underscore /\ b[2] = x
      BY <3>1
    <3>3. /\ Len(c) = 2 * (i + 1) - 1 /\ c[2 * i] = Underscore /\ c[2 * i + 1] = x
          /\ \A j \in 1..(2 * i - 1) : c[j] = a[j]
      <4>1. 1 \in 1..Len(b) /\ 2 \in 1..Len(b) /\ Len(a) + 1 = 2 * i /\ Len(a) + 2 = 2 * i + 1
            /\ Len(a) + 2 = 2 * (i + 1) - 1
        BY <3>1, <3>2
      <4>2. c[Len(a) + 1] = b[1] /\ c[Len(a) + 2] = b[2]
        BY <2>4, <4>1
      <4> QED
        BY <2>4, <3>1, <3>2, <4>1, <4>2
    <3>4. ASSUME NEW j \in 1..(2 * (i + 1) - 1)
          PROVE  c[j] = IF j % 2 = 1 THEN name[(j + 1) \div 2] ELSE Underscore
      <4>1. CASE j \in 1..(2 * i - 1)
        BY <1>11, <2>1, <3>3, <4>1
      <4>2. CASE j = 2 * i
        <5>1. j % 2 # 1
          BY <4>2
        <5> QED
          BY <3>3, <4>2, <5>1
      <4>3. CASE j = 2 * i + 1
        <5>1. j % 2 = 1 /\ (j + 1) \div 2 = i + 1
          BY <4>3
        <5> QED
          BY <2>5, <3>3, <4>3, <5>1
      <4> QED
        BY <4>1, <4>2, <4>3
    <3>5. Cut(i + 1)
      BY <2>1, <2>2, <3>3, <3>4
    <3> QED
      BY <2>2, <3>5
  <2> QED
    BY <2>6, <2>7
<1> HIDE DEF S
<1>12. n \in S
  BY <1>10, <1>11, InductionUpto
<1>13. PICK t : t = FlattenSeq(s) /\ t = f[n] /\ t \in Seq(X) /\ Cut(n)
  BY <1>9, <1>12 DEF FlattenSteps, S
<1>14. CASE n = 0
  <2>1. t = <<>>
    BY <1>13, <1>14
  <2> QED
    BY <1>1, <1>2, <1>3, <1>13, <1>14, <2>1, JoinIs
<1>15. CASE n # 0
  <2>1. DOMAIN t = 1..(2 * n - 1) /\ t = [j \in DOMAIN t |-> t[j]]
    <3>1. Len(t) = 2 * n - 1
      BY <1>13, <1>15
    <3> QED
      BY <1>13, <3>1
  <2>2. t = [j \in 1..(2 * n - 1) |-> IF j % 2 = 1 THEN name[(j + 1) \div 2] ELSE Underscore]
    BY <1>13, <2>1
  <2>3. Join(name, Underscore) =
          [j \in 1..(2 * n - 1) |-> IF j % 2 = 1 THEN name[(j + 1) \div 2] ELSE Underscore]
    BY <1>1, <1>2, <1>15, JoinIs
  <2> QED
    BY <1>3, <1>13, <2>2, <2>3
<1> QED
  BY <1>14, <1>15

LEMMA NotEmpty ==
  ASSUME NEW s, IsSeq(s)
  PROVE  s # <<>> <=> Len(s) # 0
<1>1. PICK R, t : R = Range(s) /\ t = s /\ t \in Seq(R)
  BY DEF IsSeq
<1> QED
  BY ONLY <1>1

\* A variant spelt as usual is under serde's name whatever the rule.
LEMMA VariantNamed ==
  ASSUME NEW name \in Identifier, name # NoName, UsualVariant(name), NEW rule \in Rules
  PROVE  ApplyRenameRule(name, rule) = SerdeVariant(name, rule)
<1>1. PICK words : words = SplitWords(name) /\ IsSeq(words)
  BY SplitIs
<1>2. name = Pascal(words) /\ name = Spelt("cap", words)
  BY <1>1, CasesAre DEF UsualVariant
<1>3. PICK n \in Nat : n = Len(words) /\ Len(name) = n /\ IsSeq(name) /\ \A i \in 1..n : name[i] = <<"cap", words[i]>>
  BY <1>1, <1>2, SpeltIs, SeqRange
<1>4. n # 0 /\ words # <<>>
  BY <1>1, <1>3, NotEmpty DEF NoName
<1>5. PICK cut : cut = FlattenSeq([i \in DOMAIN name |-> IF i > 1 /\ name[i][1] = "cap"
                                                           THEN <<Underscore, name[i]>> ELSE <<name[i]>>])
                 /\ cut = Join(Spelt("cap", words), Underscore)
  BY <1>1, <1>2, CutIs
<1>6. "cap" # "sep" /\ cut = Join(Spelt("cap", words), Underscore) /\ IsSeq(words)
  BY <1>1, <1>5
<1>7. Recase(cut, Low, Underscore) = Snake(words) /\ Recase(cut, Low, Dash) = Join(Each(words, Low), Dash)
  <2>1. ASSUME NEW sep
        PROVE  [i \in DOMAIN cut |-> IF cut[i][1] = "sep" THEN sep ELSE <<"low", cut[i][2]>>]
                 = Join(Spelt("low", words), sep)
    BY ONLY <1>6, Recased
  <2>2. ASSUME NEW sep
        PROVE  Recase(cut, Low, sep) = [i \in DOMAIN cut |-> IF cut[i][1] = "sep" THEN sep ELSE <<"low", cut[i][2]>>]
    BY DEF Recase, Low
  <2>3. \A sep : Recase(cut, Low, sep) = Join(Spelt("low", words), sep)
    BY <2>1, <2>2
  <2> QED
    BY <2>3, CasesAre
<1>8. Recase(cut, Up, Underscore) = Join(Each(words, Up), Underscore)
  <2>1. [i \in DOMAIN cut |-> IF cut[i][1] = "sep" THEN Underscore ELSE <<"up", cut[i][2]>>]
          = Join(Spelt("up", words), Underscore)
    BY ONLY <1>6, Recased
  <2>2. Recase(cut, Up, Underscore) = [i \in DOMAIN cut |-> IF cut[i][1] = "sep" THEN Underscore ELSE <<"up", cut[i][2]>>]
    BY DEF Recase, Up
  <2> QED
    BY <2>1, <2>2, CasesAre
<1>9. Camel(words) = <<Low(name[1][2])>> \o Tail(name)
  <2>1. Head(words) = words[1] /\ name[1][2] = words[1]
    <3>1. 1 \in 1..n
      BY <1>4
    <3>2. name[1] = <<"cap", words[1]>>
      BY <1>3, <3>1
    <3> QED
      BY <3>2 DEF Head
  <2>2. PICK t : t = Tail(words) /\ IsSeq(t)
    BY <1>1, <1>4, TailIs
  <2>3. /\ Tail(words) = [i \in 1..(n - 1) |-> words[i + 1]]
        /\ Tail(name) = [i \in 1..(n - 1) |-> name[i + 1]]
    <3>1. ASSUME NEW s, IsSeq(s), Len(s) = n PROVE Tail(s) = [i \in 1..(n - 1) |-> s[i + 1]]
      <4>1. PICK R, u : R = Range(s) /\ u = s /\ u \in Seq(R)
        BY <3>1 DEF IsSeq
      <4>2. u # <<>> /\ Len(u) = n
        BY <1>4, <3>1, <4>1, NotEmpty
      <4>3. PICK v : v = Tail(u)
        OBVIOUS
      <4>4. v \in Seq(R) /\ Len(v) = n - 1 /\ \A i \in 1..Len(v) : v[i] = u[i + 1]
        BY <4>1, <4>2, <4>3, HeadTailProperties
      <4>5. v = [i \in 1..(n - 1) |-> u[i + 1]]
        BY <4>4
      <4> QED
        BY <4>1, <4>3, <4>5
    <3> QED
      BY <1>1, <1>3, <3>1
  <2>4. DOMAIN t = 1..(n - 1)
    BY <2>2, <2>3
  <2>5. Pascal(t) = [i \in 1..(n - 1) |-> <<"cap", t[i]>>]
    BY <2>4, CasesAre DEF Spelt
  <2>6. ASSUME NEW i \in 1..(n - 1) PROVE <<"cap", t[i]>> = name[i + 1]
    <3>1. i + 1 \in 1..n
      OBVIOUS
    <3> QED
      BY <1>3, <2>2, <2>3, <3>1
  <2>7. Pascal(t) = Tail(name)
    BY <2>3, <2>5, <2>6
  <2> QED
    BY <1>4, <2>1, <2>2, <2>7, Zenon DEF Camel
<1>10. CASE rule \in {"none", "PascalCase"}
  <2>1. SerdeVariant(name, rule) = name
    BY <1>10 DEF SerdeVariant
  <2>2. ApplyRenameRule(name, rule) = IF rule = "none" THEN name ELSE Pascal(words)
    BY <1>1, <1>10 DEF ApplyRenameRule
  <2> QED
    BY <1>2, <2>1, <2>2, Zenon
<1>11. CASE rule = "camelCase"
  <2>1. SerdeVariant(name, rule) = <<Low(name[1][2])>> \o Tail(name)
    BY <1>11 DEF SerdeVariant
  <2>2. ApplyRenameRule(name, rule) = Camel(words)
    BY <1>1, <1>11 DEF ApplyRenameRule
  <2> QED
    BY <1>9, <2>1, <2>2, Zenon
<1>12. CASE rule = "snake_case"
  <2>1. SerdeVariant(name, rule) = Recase(cut, Low, Underscore)
    BY <1>5, <1>12 DEF SerdeVariant
  <2>2. ApplyRenameRule(name, rule) = Snake(words)
    BY <1>1, <1>12 DEF ApplyRenameRule
  <2> QED
    BY <1>7, <2>1, <2>2, Zenon
<1>13. CASE rule = "kebab-case"
  <2>1. SerdeVariant(name, rule) = Recase(cut, Low, Dash)
    BY <1>5, <1>13 DEF SerdeVariant
  <2>2. ApplyRenameRule(name, rule) = Join(Each(words, Low), Dash)
    BY <1>1, <1>13 DEF ApplyRenameRule
  <2> QED
    BY <1>7, <2>1, <2>2, Zenon
<1>14. CASE rule = "SCREAMING_SNAKE_CASE"
  <2>1. SerdeVariant(name, rule) = Recase(cut, Up, Underscore)
    BY <1>5, <1>14 DEF SerdeVariant
  <2>2. ApplyRenameRule(name, rule) = Join(Each(words, Up), Underscore)
    BY <1>1, <1>14 DEF ApplyRenameRule
  <2> QED
    BY <1>8, <2>1, <2>2, Zenon
<1> QED
  BY <1>10, <1>11, <1>12, <1>13, <1>14 DEF Rules

-----------------------------------------------------------------------------
(* An option around a type.                                                *)
WithoutFirst(ty) == [wraps |-> Tail(ty.wraps), path |-> ty.path]

LEMMA InnerOf ==
  ASSUME NEW ty \in TypeTexts, IsOption(ty)
  PROVE  /\ [ty EXCEPT !.wraps = Tail(@)] = WithoutFirst(ty)
         /\ WithoutFirst(ty) \in TypeTexts
<1>1. PICK w \in Seq(STRING), p \in Path : ty = [wraps |-> w, path |-> p]
  BY DEF TypeTexts
<1>2. PICK t : t = Tail(w)
  OBVIOUS
<1>3. t \in Seq(STRING)
  BY <1>1, <1>2 DEF IsOption
<1>4. WithoutFirst(ty) = [wraps |-> t, path |-> p]
  BY <1>1, <1>2 DEF WithoutFirst
<1>5. [ty EXCEPT !.wraps = t] = [wraps |-> t, path |-> p]
  BY <1>1
<1> QED
  BY <1>1, <1>2, <1>3, <1>4, <1>5 DEF TypeTexts

\* One more element in front of the first part is one in front of the whole.
LEMMA FlatOneMore ==
  ASSUME NEW X, NEW x \in X, NEW p, NEW q, p \in Seq(Seq(X)), q \in Seq(Seq(X)), Len(p) = Len(q), Len(p) # 0,
         p[1] = <<x>> ++ q[1], \A i \in 2..Len(p) : p[i] = q[i]
  PROVE  FlattenSeq(p) = <<x>> ++ FlattenSeq(q)
<1>1. PICK n \in Nat : n = Len(p)
  BY LenProperties
<1>2. PICK f : FlattenSteps(f, n, p, X)
  <2>1. PICK k \in Nat : \E f : FlattenSteps(f, k, p, X)
    BY FlattenedSteps
  <2> QED
    BY <1>1, <2>1 DEF FlattenSteps
<1>3. PICK g : FlattenSteps(g, n, q, X)
  <2>1. PICK k \in Nat : \E g : FlattenSteps(g, k, q, X)
    BY FlattenedSteps
  <2>2. PICK g : FlattenSteps(g, k, q, X)
    BY <2>1
  <2>3. k = n
    BY <1>1, <2>2 DEF FlattenSteps
  <2> QED
    BY <2>2, <2>3
<1>4. PICK y : y = <<x>> /\ y \in Seq(X)
  BY Single
<1>5. /\ \A i \in 1..n : p[i] \in Seq(X) /\ q[i] \in Seq(X) /\ f[i] = f[i - 1] ++ p[i] /\ g[i] = g[i - 1] ++ q[i]
      /\ \A i \in 0..n : f[i] \in Seq(X) /\ g[i] \in Seq(X)
      /\ f[0] = <<>> /\ g[0] = <<>> /\ FlattenSeq(p) = f[n] /\ FlattenSeq(q) = g[n]
  BY <1>2, <1>3 DEF FlattenSteps
<1> DEFINE S == {i \in 0..n : i # 0 => f[i] = y ++ g[i]}
<1>6. 0 \in S
  BY <1>1
<1>7. ASSUME NEW i \in Nat, i < n, i \in S PROVE i + 1 \in S
  <2>1. i + 1 \in 1..n /\ (i + 1) - 1 = i /\ i \in 0..n
    BY <1>7
  <2>2. f[i + 1] = f[i] ++ p[i + 1] /\ g[i + 1] = g[i] ++ q[i + 1] /\ p[i + 1] \in Seq(X) /\ q[i + 1] \in Seq(X)
        /\ f[i] \in Seq(X) /\ g[i] \in Seq(X)
    BY <1>5, <2>1
  <2>3. CASE i = 0
    <3>1. f[1] = p[1] /\ g[1] = q[1]
      <4>1. f[1] = <<>> ++ p[1] /\ g[1] = <<>> ++ q[1] /\ p[1] \in Seq(X) /\ q[1] \in Seq(X)
        BY <1>5, <2>1, <2>2, <2>3
      <4> QED
        BY <4>1, Neutral
    <3>2. f[1] = y ++ g[1]
      BY <1>4, <3>1
    <3> QED
      BY <2>1, <2>3, <3>2
  <2>4. CASE i # 0
    <3>1. p[i + 1] = q[i + 1] /\ f[i] = y ++ g[i]
      BY <1>1, <1>7, <2>1, <2>4
    <3>2. (y ++ g[i]) ++ q[i + 1] = y ++ (g[i] ++ q[i + 1])
      <4>1. PICK b, c : b = g[i] /\ c = q[i + 1] /\ b \in Seq(X) /\ c \in Seq(X)
        BY <2>2
      <4>2. y \in Seq(X) /\ b \in Seq(X) /\ c \in Seq(X)
        BY <1>4, <4>1
      <4>3. (y ++ b) ++ c = y ++ (b ++ c)
        BY ONLY <4>2, Associative
      <4> QED
        BY <4>1, <4>3
    <3>3. f[i + 1] = y ++ g[i + 1]
      BY <2>2, <3>1, <3>2
    <3> QED
      BY <2>1, <3>3
  <2> QED
    BY <2>3, <2>4
<1> HIDE DEF S
<1>8. n \in S
  BY <1>6, <1>7, InductionUpto
<1> QED
  BY <1>1, <1>4, <1>5, <1>8 DEF S

\* A layer more is a wrapper more.
LEMMA OneLayerMore ==
  ASSUME NEW tab, NEW layers, layers \in Seq(LayerRecs(tab)), NEW innermost, Result(tab, innermost),
         NEW l \in LayerRecs(tab), NEW more, more = <<l>> ++ layers
  PROVE  Around(more, innermost) = LowerWrapper(l.wrapper, l.resolved, Around(layers, innermost))
<1>1. PICK k \in Nat : k = Len(layers)
  BY LenProperties
<1>2. PICK one : one = <<l>> /\ one \in Seq(LayerRecs(tab)) /\ Len(one) = 1 /\ one[1] = l
  BY Single
<1>3. /\ more \in Seq(LayerRecs(tab)) /\ Len(more) = k + 1 /\ more[1] = l
      /\ \A i \in 1..k : more[1 + i] = layers[i]
  <2>1. more = one ++ layers /\ 1 \in 1..1
    BY <1>2
  <2>2. PICK Y : Y = LayerRecs(tab)
    OBVIOUS
  <2>3. layers \in Seq(Y) /\ one \in Seq(Y)
    BY <1>2, <2>2
  <2>4. /\ one ++ layers \in Seq(Y) /\ Len(one ++ layers) = Len(one) + Len(layers)
        /\ \A i \in 1..Len(one) : (one ++ layers)[i] = one[i]
        /\ \A i \in 1..Len(layers) : (one ++ layers)[Len(one) + i] = layers[i]
    BY ONLY <2>3, Positions
  <2> QED
    BY <1>1, <1>2, <2>1, <2>2, <2>4
<1>4. PICK g : Surrounds(g, k, layers, innermost)
  BY <1>1, AroundIs
<1>5. PICK f : Surrounds(f, k + 1, more, innermost)
  BY <1>3, AroundIs
<1> DEFINE wrap(x, r) == LowerWrapper(x.wrapper, x.resolved, r)
<1>6. /\ f[0] = innermost /\ g[0] = innermost /\ Around(more, innermost) = f[k + 1] /\ Around(layers, innermost) = g[k]
      /\ \A i \in 1..k : g[i] = wrap(layers[k + 1 - i], g[i - 1])
      /\ \A i \in 1..(k + 1) : f[i] = wrap(more[(k + 1) + 1 - i], f[i - 1])
  BY <1>4, <1>5 DEF Surrounds
<1> HIDE DEF wrap
<1> DEFINE S == {i \in 0..k : f[i] = g[i]}
<1>7. 0 \in S
  BY <1>1, <1>6
<1>8. ASSUME NEW i \in Nat, i < k, i \in S PROVE i + 1 \in S
  <2>1. i + 1 \in 1..k /\ i + 1 \in 1..(k + 1) /\ (i + 1) - 1 = i /\ k + 1 - (i + 1) \in 1..k
        /\ (k + 1) + 1 - (i + 1) = 1 + (k + 1 - (i + 1))
    BY <1>8
  <2>2. more[(k + 1) + 1 - (i + 1)] = layers[k + 1 - (i + 1)]
    BY <1>3, <2>1
  <2>3. g[i + 1] = wrap(layers[k + 1 - (i + 1)], g[i]) /\ f[i + 1] = wrap(more[(k + 1) + 1 - (i + 1)], f[i])
    BY <1>6, <2>1
  <2> QED
    BY <1>8, <2>1, <2>2, <2>3
<1> HIDE DEF S
<1>9. k \in S
  BY <1>7, <1>8, InductionUpto
<1>10. f[k + 1] = wrap(more[1], f[k])
  <2>1. k + 1 \in 1..(k + 1) /\ (k + 1) + 1 - (k + 1) = 1 /\ (k + 1) - 1 = k
    OBVIOUS
  <2> QED
    BY <1>6, <2>1
<1> QED
  BY <1>3, <1>6, <1>9, <1>10 DEF S, wrap

LEMMA OptionAround ==
  ASSUME NEW tab, NEW resolved, NEW inner, Result(tab, inner), inner.ty # NoType
  PROVE  IsOption(LowerWrapper("option", resolved, inner).ty)
<1>1. PICK t, q, ds : inner = [ty |-> t, queue |-> q, diags |-> ds] /\ t \in TypeRecs
  BY DEF Result
<1>2. PICK old, kind, at, name : t = [wraps |-> old, kind |-> kind, at |-> at, name |-> name] /\ old \in Seq(STRING)
  BY <1>1 DEF TypeRecs
<1>3. PICK w : w = <<"option">> \o old
  OBVIOUS
<1>4. w # <<>> /\ Head(w) = "option"
  <2>1. PICK x, X : x = "option" /\ X = {x} \cup Range(old)
    OBVIOUS
  <2>2. PICK a : a = <<x>> /\ IsSeq(a) /\ Len(a) = 1 /\ a[1] = x
    <3>1. PICK Y : Y = {x}
      OBVIOUS
    <3> QED
      BY <3>1, Single, IsSeqOf
  <2>3. IsSeq(old) /\ Len(old) \in Nat
    BY <1>2, IsSeqOf, SeqRange
  <2>4. w = a \o old
    BY <1>3, <2>1, <2>2
  <2>5. IsSeq(w) /\ Len(w) = 1 + Len(old) /\ w[1] = x
    <3>1. 1 \in 1..1
      OBVIOUS
    <3> QED
      BY <2>2, <2>3, <2>4, <3>1, BothParts
  <2>6. w # <<>>
    BY <2>3, <2>5, NotEmpty
  <2> QED
    BY <2>1, <2>5, <2>6 DEF Head
<1>5. LowerWrapper("option", resolved, inner) = [inner EXCEPT !.ty.wraps = <<"option">> \o @]
  BY DEF LowerWrapper
<1>6. PICK u : u = [wraps |-> w, kind |-> kind, at |-> at, name |-> name]
  OBVIOUS
<1>7. [inner EXCEPT !.ty.wraps = w] = [ty |-> u, queue |-> q, diags |-> ds]
  BY ONLY <1>1, <1>2, <1>6
<1>8. inner.ty.wraps = old
  BY <1>1, <1>2
<1>9. LowerWrapper("option", resolved, inner) = [ty |-> u, queue |-> q, diags |-> ds]
  BY <1>3, <1>5, <1>7, <1>8, Zenon
<1>10. LowerWrapper("option", resolved, inner).ty.wraps = w
  BY <1>6, <1>9
<1> QED
  BY <1>4, <1>10 DEF IsOption

\* Links that differ only in the wrappers of the first.
Parallel(tab, a, b, ty, inner) ==
  /\ a \in Chains(tab) /\ b \in Chains(tab) /\ Len(a) = Len(b)
  /\ a[1].ty = ty /\ b[1].ty = inner /\ a[1].m = b[1].m /\ a[1].via = b[1].via
  /\ \A i \in 2..Len(a) : a[i] = b[i]

Vias(links) == {links[i].via : i \in DOMAIN links}

LEMMA LastAt ==
  ASSUME NEW tab, NEW a \in Chains(tab)
  PROVE  Len(a) \in Nat /\ Len(a) # 0 /\ Last(a) = a[Len(a)]
<1>1. PICK X : X = Written(tab)
  OBVIOUS
<1>2. a \in Seq(X) /\ a # <<>>
  BY <1>1 DEF Chains
<1>3. Len(a) \in Nat /\ Len(a) # 0
  BY ONLY <1>2
<1> QED
  BY <1>3 DEF Last

LEMMA ParallelLast ==
  ASSUME NEW tab, NEW ty, NEW inner, ty.path = inner.path, NEW a, NEW b, Parallel(tab, a, b, ty, inner)
  PROVE  /\ Resolved(tab, Last(a)) = Resolved(tab, Last(b)) /\ Last(a).ty.path = Last(b).ty.path
         /\ Vias(a) = Vias(b)
<1>1. PICK n \in Nat : n = Len(a) /\ n = Len(b) /\ n # 0 /\ Last(a) = a[n] /\ Last(b) = b[n]
  BY LastAt DEF Parallel
<1>2. DOMAIN a = 1..n /\ DOMAIN b = 1..n
  BY <1>1, LenProperties DEF Parallel, Chains
<1>3. \A i \in 1..n : a[i].via = b[i].via /\ a[i].m = b[i].m /\ a[i].ty.path = b[i].ty.path
  <2>1. ASSUME NEW i \in 1..n PROVE i = 1 \/ i \in 2..n
    OBVIOUS
  <2> QED
    BY <1>1, <2>1 DEF Parallel
<1>4. n \in 1..n
  BY <1>1
<1> QED
  BY <1>1, <1>2, <1>3, <1>4 DEF Resolved, Vias

LEMMA ParallelStep ==
  ASSUME NEW tab, IsTab(tab), NEW ty, NEW inner, ty.path = inner.path, NEW a, NEW b, Parallel(tab, a, b, ty, inner)
  PROVE  Parallel(tab, FollowAlias(tab, a), FollowAlias(tab, b), ty, inner)
<1>0. /\ Resolved(tab, Last(a)) = Resolved(tab, Last(b)) /\ Last(a).ty.path = Last(b).ty.path
      /\ Vias(a) = Vias(b)
  BY ParallelLast
<1>1. PICK r : r = Resolved(tab, Last(a)) /\ r = Resolved(tab, Last(b))
  BY <1>0
<1>2. PICK item, x : item = FindItem(tab, r.at, r.name) /\ x = ForAlias(r, item)
  OBVIOUS
<1>3. PICK stop \in BOOLEAN : stop <=> \/ IsPrimitive(Last(a).ty.path) \/ r.e # "item"
                                     \/ item.kind # "alias" \/ r \in Vias(a)
  OBVIOUS
<1>4. /\ FollowAlias(tab, a) = IF stop THEN a ELSE Append(a, x)
      /\ FollowAlias(tab, b) = IF stop THEN b ELSE Append(b, x)
  <2>1. FollowAlias(tab, a) = IF stop THEN a ELSE Append(a, x)
    BY <1>1, <1>2, <1>3 DEF FollowAlias, Vias
  <2>2. stop <=> \/ IsPrimitive(Last(b).ty.path) \/ r.e # "item"
                 \/ item.kind # "alias" \/ r \in Vias(b)
    BY <1>0, <1>3
  <2>3. FollowAlias(tab, b) = IF stop THEN b ELSE Append(b, x)
    BY <1>1, <1>2, <2>2 DEF FollowAlias, Vias
  <2> QED
    BY <2>1, <2>3
<1>5. CASE stop
  BY <1>4, <1>5
<1>6. CASE ~stop
  <2>1. PICK s, t : s = Append(a, x) /\ t = Append(b, x)
    OBVIOUS
  <2>2. s \in Chains(tab) /\ t \in Chains(tab)
    <3>1. FollowAlias(tab, a) \in Chains(tab) /\ FollowAlias(tab, b) \in Chains(tab)
      BY FollowAliasType DEF Parallel
    <3> QED
      BY <1>4, <1>6, <2>1, <3>1
  <2>3. PICK n \in Nat : n = Len(a) /\ n = Len(b) /\ n # 0
    BY LastAt DEF Parallel
  <2>4. ASSUME NEW c \in Chains(tab), Len(c) = n
        PROVE  Len(Append(c, x)) = n + 1 /\ Append(c, x)[n + 1] = x /\ \A i \in 1..n : Append(c, x)[i] = c[i]
    <3>1. PICK X : X = Written(tab) \cup {x}
      OBVIOUS
    <3>2. c \in Seq(X) /\ x \in X
      BY <3>1 DEF Chains
    <3> QED
      BY ONLY <2>4, <3>2, n \in Nat, AppendProperties
  <2>5. /\ Len(s) = n + 1 /\ s[n + 1] = x /\ \A i \in 1..n : s[i] = a[i]
        /\ Len(t) = n + 1 /\ t[n + 1] = x /\ \A i \in 1..n : t[i] = b[i]
    BY <2>1, <2>3, <2>4 DEF Parallel
  <2>6. 1 \in 1..n /\ \A i \in 2..(n + 1) : i = n + 1 \/ (i \in 1..n /\ i \in 2..n)
    BY <2>3
  <2>7. \A i \in 2..(n + 1) : s[i] = t[i]
    BY <2>3, <2>5, <2>6 DEF Parallel
  <2>8. Parallel(tab, s, t, ty, inner)
    BY <2>2, <2>5, <2>6, <2>7 DEF Parallel
  <2> QED
    BY <1>4, <1>6, <2>1, <2>8
<1> QED
  BY <1>5, <1>6

LEMMA ParallelLinks ==
  ASSUME NEW tab, IsTab(tab), NEW m \in Key, NEW ty \in TypeTexts, NEW inner \in TypeTexts, ty.path = inner.path
  PROVE  Parallel(tab, Links(tab, m, ty), Links(tab, m, inner), ty, inner)
<1>1. PICK x, y : x = [via |-> Unknown, m |-> m, ty |-> ty] /\ y = [via |-> Unknown, m |-> m, ty |-> inner]
  OBVIOUS
<1>2. PICK f : Linked(f, tab, x) /\ Links(tab, m, ty) = f[Cardinality(Aliases(tab))]
  BY <1>1, LinksAre
<1>3. PICK g : Linked(g, tab, y) /\ Links(tab, m, inner) = g[Cardinality(Aliases(tab))]
  BY <1>1, LinksAre
<1> DEFINE S == {n \in Nat : Parallel(tab, f[n], g[n], ty, inner)}
<1>4. 0 \in S
  <2>1. PICK a, b : a = <<x>> /\ b = <<y>>
    OBVIOUS
  <2>2. Len(a) = 1 /\ Len(b) = 1 /\ a[1] = x /\ b[1] = y
    BY <2>1
  <2>3. f[0] = a /\ g[0] = b /\ a \in Chains(tab) /\ b \in Chains(tab)
    BY <1>2, <1>3, <2>1 DEF Linked
  <2>4. 2..1 = {}
    OBVIOUS
  <2>5. Parallel(tab, a, b, ty, inner)
    BY <1>1, <2>2, <2>3, <2>4 DEF Parallel
  <2> QED
    BY <2>3, <2>5
<1>5. ASSUME NEW n \in S PROVE n + 1 \in S
  <2>1. n \in Nat /\ f[n + 1] = FollowAlias(tab, f[n]) /\ g[n + 1] = FollowAlias(tab, g[n])
    BY <1>2, <1>3 DEF Linked
  <2>2. Parallel(tab, f[n + 1], g[n + 1], ty, inner)
    BY <2>1, ParallelStep
  <2> QED
    BY <2>1, <2>2
<1>6. S = Nat
  <2> HIDE DEF S
  <2>1. S \in SUBSET Nat
    BY DEF S
  <2> QED
    BY <1>4, <1>5, <2>1, Induction
<1>7. Cardinality(Aliases(tab)) \in S
  BY <1>6, AliasesFinite
<1> QED
  BY <1>2, <1>3, <1>7

LEMMA FirstLayer ==
  ASSUME NEW tab, IsTab(tab), NEW a \in Written(tab), NEW b \in Written(tab), IsOption(a.ty),
         b.ty = WithoutFirst(a.ty), a.m = b.m
  PROVE  \E l \in LayerRecs(tab) : l.wrapper = "option" /\ Layers(tab, a) = <<l>> ++ Layers(tab, b)
<1>1. PICK r : r = Resolved(tab, a) /\ r = Resolved(tab, b)
  <2>1. a.ty.path = b.ty.path
    BY DEF WithoutFirst
  <2> QED
    BY <2>1 DEF Resolved
<1>2. PICK w, t : w = a.ty.wraps /\ t = b.ty.wraps
  OBVIOUS
<1>3. w \in Seq(STRING) /\ t \in Seq(STRING) /\ t = Tail(w) /\ w # <<>> /\ Head(w) = "option"
  <2>1. PICK x, y : x = a.ty /\ y = b.ty /\ x \in TypeTexts /\ y \in TypeTexts /\ IsOption(x) /\ y = WithoutFirst(x)
    BY DEF Written
  <2>2. w = x.wraps /\ t = y.wraps
    BY <1>2, <2>1
  <2>3. w \in Seq(STRING) /\ t \in Seq(STRING)
    BY <2>1, <2>2 DEF TypeTexts
  <2>4. t = Tail(w)
    BY <2>1, <2>2 DEF WithoutFirst
  <2>5. w # <<>> /\ Head(w) = "option"
    BY <2>1, <2>2 DEF IsOption
  <2> QED
    BY <2>3, <2>4, <2>5
<1>4. PICK n \in Nat : n = Len(w) /\ n # 0 /\ DOMAIN w = 1..n
  BY <1>3, LenProperties
<1>5. w[1] = "option" /\ Len(t) = n - 1 /\ DOMAIN t = 1..(n - 1) /\ \A i \in 1..(n - 1) : t[i] = w[i + 1]
  <2>1. Len(t) = n - 1 /\ \A i \in 1..Len(t) : t[i] = w[i + 1]
    BY <1>3, <1>4, HeadTailProperties
  <2> QED
    BY <1>3, <2>1, LenProperties DEF Head
<1>6. PICK l : l = [wrapper |-> "option", resolved |-> r]
  OBVIOUS
<1>7. PICK A, B : A = Layers(tab, a) /\ B = Layers(tab, b)
  OBVIOUS
<1>8. A = [i \in 1..n |-> [wrapper |-> w[i], resolved |-> r]] /\ B = [i \in 1..(n - 1) |-> [wrapper |-> t[i], resolved |-> r]]
  BY <1>1, <1>2, <1>4, <1>5, <1>7 DEF Layers
<1>9. A \in Seq(LayerRecs(tab)) /\ B \in Seq(LayerRecs(tab)) /\ Len(A) = n /\ Len(B) = n - 1
  BY <1>2, <1>4, <1>5, <1>7, LayersType
<1>10. l = A[1] /\ l \in LayerRecs(tab)
  <2>1. 1 \in 1..n
    BY <1>4
  <2>2. l = A[1]
    BY <1>5, <1>6, <1>8, <2>1
  <2> QED
    BY <1>9, <2>1, <2>2, LenProperties, Element
<1>11. PICK c, one : c = one ++ B /\ one = <<l>>
  OBVIOUS
<1>12. /\ Len(c) = n /\ c[1] = l /\ IsSeq(c)
       /\ \A i \in 1..(n - 1) : c[i + 1] = B[i]
  <2>1. PICK X : X = LayerRecs(tab)
    OBVIOUS
  <2>2. one \in Seq(X) /\ B \in Seq(X) /\ Len(one) = 1 /\ one[1] = l
    BY <1>9, <1>10, <1>11, <2>1, Single
  <2>3. /\ one ++ B \in Seq(X) /\ Len(one ++ B) = Len(one) + Len(B)
        /\ \A i \in 1..Len(one) : (one ++ B)[i] = one[i]
        /\ \A i \in 1..Len(B) : (one ++ B)[Len(one) + i] = B[i]
    <3>1. one \in Seq(X) /\ B \in Seq(X)
      BY <2>2
    <3> QED
      BY ONLY <3>1, Positions
  <2>4. IsSeq(c)
    BY <1>11, <2>3, IsSeqOf
  <2>5. 1 \in 1..1 /\ \A i \in 1..(n - 1) : 1 + i = i + 1
    OBVIOUS
  <2> QED
    BY <1>4, <1>9, <1>11, <2>2, <2>3, <2>4, <2>5
<1>13. ASSUME NEW i \in 1..n PROVE c[i] = A[i]
  <2>1. CASE i = 1
    BY <1>10, <1>12, <2>1
  <2>2. CASE i # 1
    <3>1. PICK j \in 1..(n - 1) : i = j + 1
      <4>1. i - 1 \in 1..(n - 1) /\ i = (i - 1) + 1
        BY <2>2
      <4> QED
        BY <4>1
    <3>2. A[i] = [wrapper |-> w[i], resolved |-> r] /\ B[j] = [wrapper |-> t[j], resolved |-> r]
      BY <1>8, <3>1
    <3> QED
      BY <1>5, <1>12, <3>1, <3>2
  <2> QED
    BY <2>1, <2>2
<1>14. c = A
  <2>1. c = [i \in 1..n |-> c[i]] /\ A = [i \in 1..n |-> A[i]]
    <3>1. DOMAIN c = 1..n
      BY <1>12, SeqRange
    <3>2. c = [i \in DOMAIN c |-> c[i]]
      <4>1. PICK R : R = Range(c) /\ c \in Seq(R)
        BY <1>12 DEF IsSeq
      <4> QED
        BY ONLY <4>1
    <3> QED
      BY <1>8, <3>1, <3>2
  <2> QED
    BY <1>13, <2>1
<1> QED
  BY <1>6, <1>7, <1>10, <1>11, <1>14

\* A type is an option if it is written as one, and what is inside has a type.
LEMMA OptionOf ==
  ASSUME NEW tab, IsTab(tab), NEW m \in Key, NEW ty \in TypeTexts, IsOption(ty),
         TypeOf(tab, m, WithoutFirst(ty)).ty # NoType
  PROVE  IsOption(TypeOf(tab, m, ty).ty)
<1>1. PICK inner : inner = WithoutFirst(ty) /\ inner \in TypeTexts /\ ty.path = inner.path
  BY InnerOf DEF WithoutFirst
<1>2. PICK a, b : a = Links(tab, m, ty) /\ b = Links(tab, m, inner)
  OBVIOUS
<1>3. Parallel(tab, a, b, ty, inner)
  BY <1>1, <1>2, ParallelLinks
<1>4. PICK x : x = LowerPath(tab, Last(a)) /\ x = LowerPath(tab, Last(b)) /\ Result(tab, x)
  <2>1. Resolved(tab, Last(a)) = Resolved(tab, Last(b)) /\ Last(a).ty.path = Last(b).ty.path
    BY <1>1, <1>3, ParallelLast
  <2>2. LowerPath(tab, Last(a)) = LowerPath(tab, Last(b))
    BY <2>1 DEF LowerPath
  <2>3. Result(tab, LowerPath(tab, Last(a)))
    BY <1>3, PathResult, LastOf DEF Parallel, Chains
  <2> QED
    BY <2>2, <2>3
<1>5. PICK n \in Nat : n = Len(a) /\ n = Len(b) /\ n # 0 /\ DOMAIN a = 1..n /\ DOMAIN b = 1..n
  BY <1>3, LastAt, LenProperties DEF Parallel, Chains
<1>6. \A i \in 1..n : a[i] \in Written(tab) /\ b[i] \in Written(tab)
  BY <1>3, <1>5, Element DEF Parallel, Chains
<1>7. PICK l \in LayerRecs(tab) : l.wrapper = "option" /\ Layers(tab, a[1]) = <<l>> ++ Layers(tab, b[1])
  <2>1. 1 \in 1..n
    BY <1>5
  <2>2. a[1] \in Written(tab) /\ b[1] \in Written(tab) /\ a[1].ty = ty /\ b[1].ty = WithoutFirst(ty) /\ a[1].m = b[1].m
    BY <1>1, <1>3, <1>6, <2>1 DEF Parallel
  <2> QED
    BY <2>2, FirstLayer
<1>8. PICK p, q : p = [i \in DOMAIN a |-> Layers(tab, a[i])] /\ q = [i \in DOMAIN b |-> Layers(tab, b[i])]
  OBVIOUS
<1>9. PICK X : X = LayerRecs(tab)
  OBVIOUS
<1>10. /\ p \in Seq(Seq(X)) /\ q \in Seq(Seq(X)) /\ Len(p) = n /\ Len(q) = n
       /\ \A i \in 1..n : p[i] = Layers(tab, a[i]) /\ q[i] = Layers(tab, b[i])
  <2>1. \A i \in 1..n : Layers(tab, a[i]) \in Seq(X) /\ Layers(tab, b[i]) \in Seq(X)
    BY <1>6, <1>9, LayersType
  <2>2. PICK Y : Y = Seq(X)
    OBVIOUS
  <2>3. /\ p \in [1..n -> Y] /\ q \in [1..n -> Y]
        /\ \A i \in 1..n : p[i] = Layers(tab, a[i]) /\ q[i] = Layers(tab, b[i])
    BY <1>5, <1>8, <2>1, <2>2
  <2>4. p \in Seq(Y) /\ q \in Seq(Y) /\ Len(p) = n /\ Len(q) = n
    BY ONLY <2>3, n \in Nat
  <2> QED
    BY <2>2, <2>3, <2>4
<1>11. p[1] = <<l>> ++ q[1] /\ \A i \in 2..n : p[i] = q[i]
  <2>1. 1 \in 1..n /\ \A i \in 2..n : i \in 1..n
    BY <1>5
  <2> QED
    BY <1>3, <1>5, <1>7, <1>10, <2>1 DEF Parallel
<1>12. FlattenSeq(p) = <<l>> ++ FlattenSeq(q)
  <2>1. l \in X /\ p \in Seq(Seq(X)) /\ q \in Seq(Seq(X)) /\ Len(p) = Len(q) /\ Len(p) # 0
        /\ \A i \in 2..Len(p) : p[i] = q[i]
    BY <1>5, <1>9, <1>10, <1>11
  <2> QED
    BY ONLY <1>11, <2>1, FlatOneMore
<1>13. FlattenSeq(p) = LayersOf(tab, a) /\ FlattenSeq(q) = LayersOf(tab, b)
  BY <1>8 DEF LayersOf
<1>14. LayersOf(tab, b) \in Seq(LayerRecs(tab))
  BY <1>3, LayersOfType DEF Parallel, Chains
<1>15. /\ TypeOf(tab, m, ty) = Around(LayersOf(tab, a), x)
       /\ TypeOf(tab, m, inner) = Around(LayersOf(tab, b), x)
  BY <1>2, <1>4 DEF TypeOf, LayersOf
<1>16. Around(LayersOf(tab, a), x) = LowerWrapper(l.wrapper, l.resolved, Around(LayersOf(tab, b), x))
  <2>1. PICK s, t : s = LayersOf(tab, b) /\ t = LayersOf(tab, a) /\ t = <<l>> ++ s
    BY <1>12, <1>13
  <2> QED
    BY <1>4, <1>14, <2>1, OneLayerMore
<1>17. TypeOf(tab, m, ty) = LowerWrapper("option", l.resolved, TypeOf(tab, m, inner))
  BY <1>7, <1>15, <1>16
<1>18. Result(tab, TypeOf(tab, m, inner))
  BY <1>1, TypeOfType
<1> QED
  BY <1>1, <1>17, <1>18, OptionAround

-----------------------------------------------------------------------------
(* A declaration on the wire.                                              *)
LEMMA GivenParts ==
  ASSUME NEW item \in DeclItems
  PROVE  /\ DOMAIN item.variants = 1..Len(item.variants) /\ item.attrs \in AttrSets
         /\ \A i \in 1..Len(item.variants) :
              LET v == item.variants[i]
              IN v \in VariantItems /\ v \in Range(item.variants) /\ v.fields \in Seq(FieldItems)
<1>1. PICK s, n : s = item.variants /\ s \in Seq(VariantItems) /\ n = Len(s) /\ DOMAIN s = 1..n
  BY LenProperties DEF DeclItems
<1>2. \A i \in 1..n : s[i] \in VariantItems /\ s[i] \in Range(s)
  BY <1>1, RangeIs
<1>3. \A v \in VariantItems : v.fields \in Seq(FieldItems)
  BY DEF VariantItems
<1>4. item.attrs \in AttrSets
  BY DEF DeclItems
<1> QED
  BY <1>1, <1>2, <1>3, <1>4

LEMMA FieldsNamedAsSerde ==
  ASSUME NEW tab, NEW m, NEW given \in Seq(FieldItems), NEW fields, NEW rule \in Rules,
         FieldsWhole(tab, m, given, fields, rule)
  PROVE  FieldsKept(fields, given, rule, TRUE)
<1>1. PICK n \in Nat : n = Len(given) /\ DOMAIN given = 1..n
  BY LenProperties
<1>2. ASSUME NEW i \in 1..n, UsualField(given[i].name)
      PROVE  fields[i].wire = SerdeName(given[i].attrs, SerdeField(given[i].name, rule))
  <2>1. PICK g \in FieldItems : g = given[i]
    BY <1>1, Element
  <2>2. fields[i] = GivenField(tab, m, g, rule)
    BY <1>1, <2>1 DEF FieldsWhole
  <2>3. fields[i].wire = WireName(g.name, g.attrs, rule)
    BY <2>2 DEF GivenField
  <2>4. ApplyRenameRule(g.name, rule) = SerdeField(g.name, rule)
    <3>1. g.name \in Identifier
      BY DEF FieldItems
    <3> QED
      BY <1>2, <2>1, <3>1, FieldNamed
  <2>5. WireName(g.name, g.attrs, rule) = SerdeName(g.attrs, SerdeField(g.name, rule))
    BY <2>4 DEF WireName, SerdeName
  <2> QED
    BY <2>1, <2>3, <2>5
<1> QED
  BY <1>1, <1>2 DEF FieldsKept

LEMMA FieldPresent ==
  ASSUME NEW tab, IsTab(tab), NEW m \in Key, NEW g \in FieldItems, FieldValid(g), NEW rule,
         NEW f, f = GivenField(tab, m, g, rule), f.ty # NoType
  PROVE  LET nullable == IsOption(TypeOf(tab, m, g.ty).ty)
         IN /\ Emits(nullable, g.attrs) \subseteq Allows(f.optionality, f.ty)
            /\ Allows(f.optionality, f.ty) \subseteq Takes(nullable, g.attrs)
<1>1. PICK nullable : nullable \in BOOLEAN /\ (nullable <=> IsOption(TypeOf(tab, m, g.ty).ty))
                      /\ nullable = IsOption(TypeOf(tab, m, g.ty).ty)
  BY DEF IsOption
<1>2. g.ty \in TypeTexts
  BY DEF FieldItems
<1>3. f.ty = TypeOf(tab, m, FieldWireShape(g.ty, g.attrs).inner).ty
      /\ f.optionality = FieldWireShape(g.ty, g.attrs).optionality
  BY DEF GivenField
<1>4. "skip if none" \in g.attrs.flags => IsOption(g.ty)
  BY DEF FieldValid, FieldWireShape
<1>5. CASE IsOption(g.ty)
  <2>1. FieldWireShape(g.ty, g.attrs).inner = WithoutFirst(g.ty)
    BY <1>2, <1>5, InnerOf DEF FieldWireShape
  <2>2. nullable
    BY <1>1, <1>2, <1>3, <1>5, <2>1, OptionOf
  <2>3. f.optionality = IF "skip if none" \in g.attrs.flags \/ "default" \in g.attrs.flags
                        THEN "optional nullable" ELSE "nullable"
    BY <1>3, <1>5 DEF FieldWireShape
  <2>4. /\ Emits(nullable, g.attrs) \subseteq Allows(f.optionality, f.ty)
        /\ Allows(f.optionality, f.ty) \subseteq Takes(nullable, g.attrs)
    BY <2>2, <2>3 DEF Emits, Allows, Takes
  <2> QED
    BY <1>1, <2>4, Zenon
<1>6. CASE ~IsOption(g.ty)
  <2>1. FieldWireShape(g.ty, g.attrs).inner = g.ty
    BY <1>6 DEF FieldWireShape
  <2>2. nullable <=> IsOption(f.ty)
    BY <1>1, <1>3, <2>1
  <2>3. f.optionality = IF "default" \in g.attrs.flags THEN "optional" ELSE "required"
    BY <1>3, <1>4, <1>6 DEF FieldWireShape
  <2>4. /\ Emits(nullable, g.attrs) \subseteq Allows(f.optionality, f.ty)
        /\ Allows(f.optionality, f.ty) \subseteq Takes(nullable, g.attrs)
    BY <1>4, <1>6, <2>2, <2>3 DEF Emits, Allows, Takes
  <2> QED
    BY <1>1, <2>4, Zenon
<1> QED
  BY <1>5, <1>6

\* Serde does not look at the attributes of a newtype's field.
LEMMA NewtypePresent ==
  ASSUME NEW ty, NEW f, f.ty = ty, f.optionality = "required"
  PROVE  LET nullable == IsOption(ty)
         IN /\ Emits(nullable, NoAttrs) \subseteq Allows(f.optionality, f.ty)
            /\ Allows(f.optionality, f.ty) \subseteq Takes(nullable, NoAttrs)
<1>1. NoAttrs.flags = {}
  BY DEF NoAttrs
<1>2. "required" \notin {"optional", "optional nullable"} /\ "required" \notin {"nullable", "optional nullable"}
  OBVIOUS
<1>3. PICK nullable : nullable \in BOOLEAN /\ (nullable <=> IsOption(ty)) /\ nullable = IsOption(ty)
  BY DEF IsOption
<1>4. /\ Emits(nullable, NoAttrs) \subseteq Allows(f.optionality, f.ty)
      /\ Allows(f.optionality, f.ty) \subseteq Takes(nullable, NoAttrs)
  BY <1>1, <1>2, <1>3 DEF Emits, Allows, Takes
<1> QED
  BY <1>3, <1>4, Zenon

LEMMA WireDecl ==
  ASSUME HasPackage, NEW d \in contract.types \cup contract.errors,
         NEW item, item = SourceItem(d.id.at, d.id.name)
  PROVE  /\ IsTab(modules) /\ d.id.at \in Key
         /\ item \in DeclItems /\ OneOf(item) /\ DeclMade(modules, d.id.at, item, d)
         /\ IsSeq(d.variants)
         /\ \A v \in Range(d.variants) : IsSeq(v.fields) /\ \A f \in Range(v.fields) : f.ty # NoType
<1>1. /\ d.id \in DOMAIN types /\ types[d.id] = d
      /\ DeclMade(modules, d.id.at, item, d) /\ item \in DeclItems
      /\ item = FindItem(modules, d.id.at, d.id.name)
  BY DeclIs DEF SourceItem
<1>2. IsTab(modules)
  BY ModulesTab DEF HasPackage, RoundInv
<1>3. /\ Item(d.id.at, d.id.name) \in Keys(modules)
      /\ Item(d.id.at, d.id.name).at = d.id.at /\ Item(d.id.at, d.id.name).name = d.id.name
  BY <1>1 DEF HasPackage, RoundInv, WellFormed, Entries, Item
<1>4. item \in Range(modules[d.id.at].items) /\ d.id.at \in DOMAIN modules
  BY <1>1, <1>2, <1>3, KeyItem DEF ItemAt
<1>5. OneOf(item) /\ d.id.at \in Key
  BY <1>1, <1>2, <1>4, FindItemIs DEF IsTab
<1>6. DeclHas(d)
  BY <1>1 DEF HasPackage, RoundInv, AllTyped
<1> QED
  BY <1>1, <1>2, <1>5, <1>6 DEF DeclHas, HasType

LEMMA DeclNamed ==
  ASSUME HasPackage, NEW d \in contract.types \cup contract.errors
  PROVE  NamesKept(d, TRUE)
<1>1. PICK item : item = SourceItem(d.id.at, d.id.name)
  OBVIOUS
<1>2. /\ IsTab(modules) /\ item \in DeclItems /\ OneOf(item) /\ DeclMade(modules, d.id.at, item, d)
  BY <1>1, WireDecl
<1>3. PICK n : n = Len(item.variants) /\ DOMAIN item.variants = 1..n /\ item.attrs \in AttrSets
  BY <1>2, GivenParts
<1>4. item.attrs.all \in Rules /\ item.attrs.fields \in Rules
  BY <1>3 DEF AttrSets
<1>5. CASE d.shape = "struct"
  <2>1. /\ Len(item.variants) = 1 /\ Len(d.variants) = 1
        /\ FieldsWhole(modules, d.id.at, item.variants[1].fields, d.variants[1].fields, item.attrs.all)
    BY <1>2, <1>5 DEF DeclMade, StructWhole
  <2>2. item.variants[1].fields \in Seq(FieldItems)
    <3>1. 1 \in 1..Len(item.variants)
      BY <2>1
    <3> QED
      BY <1>2, <3>1, GivenParts
  <2>3. FieldsKept(d.variants[1].fields, item.variants[1].fields, item.attrs.all, TRUE)
    BY <1>4, <2>1, <2>2, FieldsNamedAsSerde
  <2>4. IsSeq(d.variants)
    BY <1>1, WireDecl
  <2>5. \A i \in DOMAIN d.variants : i = 1
    BY <2>1, <2>4, SeqRange
  <2> QED
    BY <1>1, <1>5, <2>3, <2>5 DEF NamesKept
<1>6. CASE d.shape \in {"type", "error"}
  <2>1. item.kind \in {"enum", "error"} /\ EnumWhole(modules, d.id.at, item, d)
    BY <1>2, <1>6 DEF DeclMade
  <2>2. DOMAIN d.variants = 1..n
    <3>1. IsSeq(d.variants)
      BY <1>1, WireDecl
    <3> QED
      BY <1>3, <2>1, <3>1, SeqRange DEF EnumWhole
  <2>3. ASSUME NEW i \in 1..n
        PROVE  LET v == item.variants[i]
                   rule == IF v.attrs.all # "none" THEN v.attrs.all ELSE item.attrs.fields
               IN /\ FieldsKept(d.variants[i].fields, v.fields, rule, TRUE)
                  /\ UsualVariant(v.name) =>
                       d.variants[i].wire = SerdeName(v.attrs, SerdeVariant(v.name, item.attrs.all))
    <3>1. PICK v, x : v = item.variants[i] /\ x = d.variants[i]
      OBVIOUS
    <3>2. v \in VariantItems /\ v \in Range(item.variants) /\ v.fields \in Seq(FieldItems)
      BY <1>2, <1>3, <3>1, GivenParts
    <3>3. VariantWhole(modules, d.id.at, v, x, item.attrs)
      BY <1>3, <2>1, <3>1 DEF EnumWhole
    <3>4. PICK rule : rule = IF v.attrs.all # "none" THEN v.attrs.all ELSE item.attrs.fields
      OBVIOUS
    <3>5. rule \in Rules
      <4>1. v.attrs.all \in Rules
        BY <3>2 DEF VariantItems, AttrSets
      <4> QED
        BY <1>4, <3>4, <4>1
    <3>6. FieldsKept(x.fields, v.fields, rule, TRUE)
      <4>1. FieldsWhole(modules, d.id.at, v.fields, x.fields, rule)
        BY <3>3, <3>4 DEF VariantWhole, FieldRule
      <4> QED
        BY <3>2, <3>5, <4>1, FieldsNamedAsSerde
    <3>7. ASSUME UsualVariant(v.name)
          PROVE  x.wire = SerdeName(v.attrs, SerdeVariant(v.name, item.attrs.all))
      <4>1. x.wire = WireName(v.name, v.attrs, item.attrs.all)
        BY <3>3 DEF VariantWhole
      <4>2. v.name # NoName /\ v.name \in Identifier
        BY <1>2, <2>1, <3>2 DEF OneOf, VariantItems
      <4>3. ApplyRenameRule(v.name, item.attrs.all) = SerdeVariant(v.name, item.attrs.all)
        BY <1>4, <3>7, <4>2, VariantNamed
      <4> QED
        BY <4>1, <4>3 DEF WireName, SerdeName
    <3> QED
      BY <3>1, <3>4, <3>6, <3>7
  <2>4. d.shape # "struct"
    BY <1>6
  <2> QED
    BY <1>1, <2>2, <2>3, <2>4 DEF NamesKept
<1>7. CASE d.shape = "newtype"
  BY <1>7 DEF NamesKept
<1> QED
  BY <1>2, <1>5, <1>6, <1>7 DEF DeclMade

LEMMA DeclPresent ==
  ASSUME HasPackage, NEW d \in contract.types \cup contract.errors
  PROVE  PresenceKept(d)
<1>1. PICK item : item = SourceItem(d.id.at, d.id.name)
  OBVIOUS
<1>2. PICK m \in Key : m = d.id.at /\ IsTab(modules) /\ item \in DeclItems /\ DeclMade(modules, m, item, d)
  BY <1>1, WireDecl
<1>3. PICK n : n = Len(item.variants) /\ DOMAIN item.variants = 1..n
  BY <1>2, GivenParts
<1>4. ASSUME NEW i \in 1..n, NEW j \in DOMAIN item.variants[i].fields
      PROVE  LET g == item.variants[i].fields[j]
                 f == d.variants[i].fields[j]
                 attrs == IF d.shape = "newtype" THEN NoAttrs ELSE g.attrs
                 nullable == IsOption(TypeOf(modules, m, g.ty).ty)
             IN /\ Emits(nullable, attrs) \subseteq Allows(f.optionality, f.ty)
                /\ Allows(f.optionality, f.ty) \subseteq Takes(nullable, attrs)
  <2>1. PICK v, x : v = item.variants[i] /\ x = d.variants[i]
    OBVIOUS
  <2>2. PICK g, f : g = v.fields[j] /\ f = x.fields[j]
    OBVIOUS
  <2>3. PICK k \in Nat : k = Len(v.fields) /\ j \in 1..k /\ g \in FieldItems
    <3>1. v.fields \in Seq(FieldItems)
      BY <1>2, <1>3, <2>1, GivenParts
    <3> QED
      BY <1>4, <2>1, <2>2, <3>1, LenProperties, Element
  <2>4. CASE d.shape = "newtype"
    <3>1. Len(item.variants) = 1 /\ NewtypeWhole(modules, m, item, d)
      BY <1>2, <2>4 DEF DeclMade
    <3>2. i = 1
      BY <1>3, <3>1
    <3>3. k = 1 /\ f.ty = TypeOf(modules, m, g.ty).ty /\ f.optionality = "required"
      <4>1. k = 1
        BY <2>1, <2>3, <3>1, <3>2 DEF NewtypeWhole
      <4>2. j = 1
        BY <2>3, <4>1
      <4> QED
        BY <2>1, <2>2, <3>1, <3>2, <4>1, <4>2 DEF NewtypeWhole
    <3>4. PICK ty : ty = TypeOf(modules, m, g.ty).ty
      OBVIOUS
    <3>5. /\ Emits(IsOption(ty), NoAttrs) \subseteq Allows(f.optionality, f.ty)
          /\ Allows(f.optionality, f.ty) \subseteq Takes(IsOption(ty), NoAttrs)
      BY <3>3, <3>4, NewtypePresent
    <3> QED
      BY <2>1, <2>2, <2>4, <3>4, <3>5
  <2>5. CASE d.shape # "newtype"
    <3>1. PICK rule : FieldsWhole(modules, m, v.fields, x.fields, rule) /\ i \in 1..Len(d.variants)
      <4>1. CASE d.shape = "struct"
        <5>1. Len(item.variants) = 1 /\ StructWhole(modules, m, item, d)
          BY <1>2, <4>1 DEF DeclMade
        <5>2. i = 1
          BY <1>3, <5>1
        <5>3. FieldsWhole(modules, m, v.fields, x.fields, item.attrs.all) /\ i \in 1..Len(d.variants)
          BY <2>1, <5>1, <5>2 DEF StructWhole
        <5> QED
          BY <5>3
      <4>2. CASE d.shape \in {"type", "error"}
        <5>1. EnumWhole(modules, m, item, d)
          BY <1>2, <4>2 DEF DeclMade
        <5>2. VariantWhole(modules, m, v, x, item.attrs) /\ i \in 1..Len(d.variants)
          BY <1>3, <2>1, <5>1 DEF EnumWhole
        <5> QED
          BY <5>2 DEF VariantWhole
      <4> QED
        BY <1>2, <2>5, <4>1, <4>2 DEF DeclMade
    <3>2. FieldValid(g) /\ f = GivenField(modules, m, g, rule) /\ j \in 1..Len(x.fields)
      BY <2>2, <2>3, <3>1 DEF FieldsWhole
    <3>3. f.ty # NoType
      <4>1. /\ IsSeq(d.variants)
            /\ \A y \in Range(d.variants) : IsSeq(y.fields) /\ \A e \in Range(y.fields) : e.ty # NoType
        BY <1>1, WireDecl
      <4>2. x \in Range(d.variants)
        BY <2>1, <3>1, <4>1, SeqRange
      <4>3. f \in Range(x.fields)
        BY <2>2, <3>2, <4>1, <4>2, SeqRange
      <4> QED
        BY <4>1, <4>2, <4>3
    <3>4. LET nullable == IsOption(TypeOf(modules, m, g.ty).ty)
          IN /\ Emits(nullable, g.attrs) \subseteq Allows(f.optionality, f.ty)
             /\ Allows(f.optionality, f.ty) \subseteq Takes(nullable, g.attrs)
      BY <1>2, <2>3, <3>2, <3>3, FieldPresent
    <3> QED
      BY <2>1, <2>2, <2>5, <3>4
  <2> QED
    BY <2>4, <2>5
<1> QED
  BY <1>1, <1>2, <1>3, <1>4 DEF PresenceKept

LEMMA RoundWire == ASSUME RoundInv PROVE WireAgrees
  BY DeclNamed, DeclPresent DEF WireAgrees, HasPackage

\* The schemas of every package that is written accept what serde writes and allow what serde reads:
\* fields and variants under serde's names, for fields in small letters with one underscore between
\* words and variants of capitalised words, and missing or null only where serde says so.
THEOREM WireAlwaysAgrees == Spec => []WireAgrees
<1> QED BY RoundsKeepInv, RoundWire, PTL
=============================================================================
