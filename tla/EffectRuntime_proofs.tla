------------------------- MODULE EffectRuntime_proofs -------------------------
(***************************************************************************)
(* Proofs about EffectRuntime, for streams and chunks of any length.       *)
(*                                                                         *)
(* What a call ends with and what it leaves behind depends on the stages   *)
(* of the call, the generator, the timer and the abort controller, not on  *)
(* what a stream says: the invariant keeps those four in step.             *)
(*                                                                         *)
(* What a consumer is given is about what the stream says: the bytes read  *)
(* are in the decoder, the buffer and the frames, in parts that the        *)
(* lemmas about SseFrames tell of (ChunkRead, DoneRead, ReferenceIs).      *)
(* These come first: what concatenating pieces, splitting and decoding do  *)
(* to a text that comes in parts.                                          *)
(*                                                                         *)
(* Induction is over sets of numbers (a set that has 0 and the successors  *)
(* of its elements is Nat), which follows from Nat being well-founded; the *)
(* definitions that are recursive functions are unfolded once (JoinedStep, *)
(* SplitStep), and nothing else looks into them.                           *)
(***************************************************************************)
EXTENDS EffectRuntime, SequenceTheorems, WellFoundedInduction, TLAPS

-----------------------------------------------------------------------------
(* Sets of numbers have a least element, so there is induction.            *)
Below == {p \in Nat \X Nat : p[1] < p[2]}

LEMMA Least ==
  ASSUME NEW S \in SUBSET Nat, S # {}
  PROVE  \E m \in S : \A n \in S : m <= n
<1>1. OpToRel(<, Nat) = Below
  BY DEF OpToRel, Below
<1>2. IsWellFoundedOn(Below, Nat)
  BY <1>1, NatLessThanWellFounded
<1>3. PICK m \in S : \A n \in S : <<n, m>> \notin Below
  BY <1>2, WFMin
<1>4. ASSUME NEW n \in S, n < m PROVE FALSE
  <2>1. <<n, m>> \in Nat \X Nat /\ <<n, m>>[1] = n /\ <<n, m>>[2] = m
    OBVIOUS
  <2> QED
    BY <1>3, <1>4, <2>1 DEF Below
<1> QED
  BY <1>4

LEMMA Induction ==
  ASSUME NEW S \in SUBSET Nat, 0 \in S, \A n \in S : n + 1 \in S
  PROVE  S = Nat
<1> SUFFICES ASSUME Nat \ S # {} PROVE FALSE
  OBVIOUS
<1>1. PICK m \in Nat \ S : \A n \in Nat \ S : m <= n
  BY Least
<1>2. m # 0 /\ m - 1 \in Nat
  OBVIOUS
<1> QED
  BY <1>1, <1>2

-----------------------------------------------------------------------------
(* Concatenation, by what it satisfies rather than position by position.   *)
a ++ b == a \o b

LEMMA Typed ==
  ASSUME NEW X, NEW a, NEW b, a \in Seq(X), b \in Seq(X)
  PROVE  a ++ b \in Seq(X)
  BY ConcatProperties DEF ++

LEMMA Associative ==
  ASSUME NEW X, NEW a, NEW b, NEW c, a \in Seq(X), b \in Seq(X), c \in Seq(X)
  PROVE  (a ++ b) ++ c = a ++ (b ++ c)
  BY ConcatAssociative DEF ++

LEMMA Neutral ==
  ASSUME NEW X, NEW a, a \in Seq(X)
  PROVE  a ++ <<>> = a /\ <<>> ++ a = a
  BY ConcatEmptySeq DEF ++

LEMMA NotEmpty ==
  ASSUME NEW X, NEW a, NEW b, a \in Seq(X), b \in Seq(X), b # <<>>
  PROVE  a ++ b # <<>>
  BY ConcatEqualIffEmpty DEF ++

LEMMA Positions ==
  ASSUME NEW X, NEW a, NEW b, a \in Seq(X), b \in Seq(X)
  PROVE  /\ a ++ b \in Seq(X) /\ Len(a ++ b) = Len(a) + Len(b)
         /\ Len(a) \in Nat /\ Len(b) \in Nat
         /\ \A i \in 1..Len(a) : (a ++ b)[i] = a[i]
         /\ \A i \in 1..Len(b) : (a ++ b)[Len(a) + i] = b[i]
  BY ConcatProperties DEF ++

(* c is a followed by b, position by position.                             *)
Follows(c, a, b) ==
  /\ Len(c) = Len(a) + Len(b) /\ Len(a) \in Nat /\ Len(b) \in Nat
  /\ \A i \in 1..Len(a) : c[i] = a[i]
  /\ \A i \in 1..Len(b) : c[Len(a) + i] = b[i]

LEMMA Following ==
  ASSUME NEW X, NEW a, NEW b, a \in Seq(X), b \in Seq(X)
  PROVE  a ++ b \in Seq(X) /\ Follows(a ++ b, a, b)
  BY Positions DEF Follows

-----------------------------------------------------------------------------
(* Concatenating pieces.                                                   *)
Sums(n, pieces, f) == f = [i \in 0..n |-> IF i = 0 THEN <<>> ELSE f[i - 1] \o pieces[i]]

LEMMA SumsAgree ==
  ASSUME NEW n \in Nat, NEW m \in 0..n, NEW p, NEW f, NEW g, Sums(n, p, f), Sums(m, p, g)
  PROVE  \A i \in 0..m : f[i] = g[i]
<1> DEFINE S == {i \in Nat : i <= m => f[i] = g[i]}
<1>1. 0 \in S
  BY DEF Sums
<1>2. \A i \in S : i + 1 \in S
  <2> SUFFICES ASSUME NEW i \in S, i + 1 <= m PROVE f[i + 1] = g[i + 1]
    OBVIOUS
  <2>1. i + 1 \in 0..m /\ i + 1 \in 0..n /\ i + 1 # 0 /\ (i + 1) - 1 = i /\ f[i] = g[i]
    OBVIOUS
  <2> QED
    BY <2>1 DEF Sums
<1>3. S = Nat
  BY <1>1, <1>2, Induction
<1> QED
  BY <1>3

LEMMA SumsExist == ASSUME NEW p, NEW n \in Nat PROVE \E f : Sums(n, p, f)
<1> DEFINE S == {k \in Nat : \E f : Sums(k, p, f)}
<1>1. 0 \in S
  <2> DEFINE f == [i \in 0..0 |-> <<>>]
  <2>1. Sums(0, p, f)
    BY DEF Sums
  <2> QED
    BY <2>1
<1>2. ASSUME NEW k \in S PROVE k + 1 \in S
  <2>1. PICK f : Sums(k, p, f)
    OBVIOUS
  <2> DEFINE g == [i \in 0..(k + 1) |-> IF i = k + 1 THEN f[k] \o p[k + 1] ELSE f[i]]
  <2>2. ASSUME NEW i \in 0..(k + 1) PROVE g[i] = IF i = 0 THEN <<>> ELSE g[i - 1] \o p[i]
    <3>1. CASE i = k + 1
      <4>1. i - 1 = k /\ k \in 0..(k + 1) /\ k # k + 1 /\ i # 0
        BY <3>1
      <4>3. g[k + 1] = f[k] \o p[k + 1]
        OBVIOUS
      <4>2. g[k] = f[k]
        BY <4>1
      <4> QED
        BY <3>1, <4>1, <4>2, <4>3
    <3>2. CASE i \in 0..k
      <4>1. g[i] = f[i] /\ f[i] = IF i = 0 THEN <<>> ELSE f[i - 1] \o p[i]
        BY <2>1, <3>2 DEF Sums
      <4>2. i # 0 => g[i - 1] = f[i - 1]
        BY <3>2
      <4> QED
        BY <4>1, <4>2
    <3> QED
      BY <3>1, <3>2
  <2> HIDE DEF g
  <2>3. DOMAIN g = 0..(k + 1) /\ g = [i \in 0..(k + 1) |-> g[i]]
    BY DEF g
  <2>4. Sums(k + 1, p, g)
    BY <2>2, <2>3 DEF Sums
  <2> QED
    BY <2>4
<1>3. S = Nat
  <2> HIDE DEF S
  <2>1. S \in SUBSET Nat
    BY DEF S
  <2> QED
    BY <1>1, <1>2, <2>1, Induction
<1> QED
  BY <1>3

LEMMA JoinedStep ==
  ASSUME NEW p
  PROVE  /\ Joined(0, p) = <<>>
         /\ \A n \in Nat : Joined(n + 1, p) = Joined(n, p) ++ p[n + 1]
<1>1. ASSUME NEW n \in Nat
      PROVE  \E f : Sums(n, p, f) /\ Joined(n, p) = f[n]
  <2>1. Sums(n, p, CHOOSE f : Sums(n, p, f))
    BY SumsExist
  <2>2. Joined(n, p) = (CHOOSE f : Sums(n, p, f))[n]
    BY DEF Joined, Sums
  <2> QED
    BY <2>1, <2>2
<1>2. Joined(0, p) = <<>>
  <2>1. PICK f : Sums(0, p, f) /\ Joined(0, p) = f[0]
    BY <1>1
  <2> QED
    BY <2>1 DEF Sums
<1>3. ASSUME NEW n \in Nat PROVE Joined(n + 1, p) = Joined(n, p) ++ p[n + 1]
  <2>1. PICK f : Sums(n, p, f) /\ Joined(n, p) = f[n]
    BY <1>1
  <2>2. PICK g : Sums(n + 1, p, g) /\ Joined(n + 1, p) = g[n + 1]
    BY <1>1
  <2>3. g[n] = f[n]
    BY <2>1, <2>2, SumsAgree
  <2>4. n + 1 \in 0..(n + 1) /\ n + 1 # 0 /\ (n + 1) - 1 = n
    OBVIOUS
  <2>5. g[n + 1] = g[n] \o p[n + 1]
    BY <2>2, <2>4 DEF Sums
  <2> QED
    BY <2>1, <2>2, <2>3, <2>5 DEF ++
<1> QED
  BY <1>2, <1>3

(* Only the n pieces count; they come in two parts; and what they are      *)
(* sequences of, their concatenation is a sequence of.                     *)
LEMMA JoinedSame ==
  ASSUME NEW n \in Nat, NEW p, NEW q, \A i \in 1..n : p[i] = q[i]
  PROVE  Joined(n, p) = Joined(n, q)
<1> DEFINE S == {k \in Nat : k <= n => Joined(k, p) = Joined(k, q)}
<1>1. 0 \in S
  BY JoinedStep
<1>2. ASSUME NEW k \in S PROVE k + 1 \in S
  <2> SUFFICES ASSUME k + 1 <= n PROVE Joined(k + 1, p) = Joined(k + 1, q)
    OBVIOUS
  <2>1. Joined(k, p) = Joined(k, q) /\ p[k + 1] = q[k + 1]
    OBVIOUS
  <2> QED
    BY <2>1, JoinedStep
<1>3. S = Nat
  BY <1>1, <1>2, Induction
<1> QED
  BY <1>3

LEMMA JoinedType ==
  ASSUME NEW n \in Nat, NEW p, NEW X, \A i \in 1..n : p[i] \in Seq(X)
  PROVE  Joined(n, p) \in Seq(X)
<1> DEFINE S == {k \in Nat : k <= n => Joined(k, p) \in Seq(X)}
<1>1. 0 \in S
  <2>1. <<>> \in Seq(X)
    BY EmptySeq
  <2> QED
    BY <2>1, JoinedStep
<1>2. ASSUME NEW k \in S PROVE k + 1 \in S
  <2> SUFFICES ASSUME k + 1 <= n PROVE Joined(k + 1, p) \in Seq(X)
    OBVIOUS
  <2>1. Joined(k, p) \in Seq(X) /\ p[k + 1] \in Seq(X)
    OBVIOUS
  <2>2. Joined(k, p) ++ p[k + 1] \in Seq(X)
    BY <2>1, Typed
  <2> QED
    BY <2>2, JoinedStep
<1>3. S = Nat
  BY <1>1, <1>2, Induction
<1> QED
  BY <1>3

InTwo(k, m, n, p, q, X) ==
  /\ m \in Nat /\ n \in Nat /\ k = m + n
  /\ \A i \in 1..k : p[i] \in Seq(X)
  /\ \A i \in 1..n : q[i] = p[m + i]

LEMMA JoinedParts ==
  ASSUME NEW all, NEW m, NEW n, NEW p, NEW q, NEW X, InTwo(all, m, n, p, q, X)
  PROVE  Joined(all, p) = Joined(m, p) ++ Joined(n, q)
<1> SUFFICES ASSUME m \in Nat, n \in Nat,
                    \A i \in 1..(m + n) : p[i] \in Seq(X),
                    \A i \in 1..n : q[i] = p[m + i]
             PROVE  Joined(m + n, p) = Joined(m, p) ++ Joined(n, q)
  BY DEF InTwo
<1> DEFINE S == {k \in Nat : k <= n => Joined(m + k, p) = Joined(m, p) ++ Joined(k, q)}
<1>1. Joined(m, p) \in Seq(X)
  BY JoinedType
<1>2. 0 \in S
  <2>1. Joined(m, p) ++ <<>> = Joined(m, p) /\ m + 0 = m
    BY <1>1, Neutral
  <2> QED
    BY <2>1, JoinedStep
<1>3. ASSUME NEW k \in S PROVE k + 1 \in S
  <2> SUFFICES ASSUME k + 1 <= n PROVE Joined(m + (k + 1), p) = Joined(m, p) ++ Joined(k + 1, q)
    OBVIOUS
  <2>1. Joined(m + k, p) = Joined(m, p) ++ Joined(k, q)
    OBVIOUS
  <2>2. m + (k + 1) = (m + k) + 1 /\ m + k \in Nat /\ q[k + 1] = p[(m + k) + 1]
    OBVIOUS
  <2>3. Joined(m + (k + 1), p) = (Joined(m, p) ++ Joined(k, q)) ++ q[k + 1]
    BY <2>1, <2>2, JoinedStep
  <2>4. \A i \in 1..k : q[i] \in Seq(X)
    OBVIOUS
  <2>5. Joined(k, q) \in Seq(X) /\ q[k + 1] \in Seq(X)
    BY <2>2, <2>4, JoinedType
  <2>6. Joined(k + 1, q) = Joined(k, q) ++ q[k + 1]
    BY JoinedStep
  <2>7. (Joined(m, p) ++ Joined(k, q)) ++ q[k + 1] = Joined(m, p) ++ (Joined(k, q) ++ q[k + 1])
    BY <1>1, <2>5, Associative
  <2> QED
    BY <2>3, <2>6, <2>7
<1>4. S = Nat
  BY <1>2, <1>3, Induction
<1> QED
  BY <1>4

-----------------------------------------------------------------------------
(* Finding and splitting.                                                  *)
LEMMA FirstIsLeast ==
  ASSUME NEW at \in SUBSET (Nat \ {0})
  PROVE  /\ at = {} => First(at) = 0
         /\ at # {} => First(at) \in at /\ \A i \in at : First(at) <= i
<1>1. ASSUME at # {} PROVE Min(at) \in at /\ \A i \in at : Min(at) <= i
  <2>1. \E m \in at : \A i \in at : m <= i
    BY <1>1, Least
  <2> QED
    BY <2>1 DEF Min
<1> QED
  BY <1>1 DEF First

LEMMA SubSeqOf ==
  ASSUME NEW X, NEW s \in Seq(X), NEW i \in 1..(Len(s) + 1), NEW j \in (i - 1)..Len(s)
  PROVE  /\ SubSeq(s, i, j) \in Seq(X) /\ Len(SubSeq(s, i, j)) = j - i + 1
         /\ \A k \in 1..(j - i + 1) : SubSeq(s, i, j)[k] = s[i + k - 1]
<1>1. Len(s) \in Nat /\ i \in Int /\ j \in Int
  OBVIOUS
<1>2. \A k \in i..j : s[k] \in X
  BY <1>1, ElementOfSeq
<1> QED
  BY <1>1, <1>2, SubSeqProperties

LEMMA OneOrTwoFeeds ==
  ASSUME NEW X, NEW s \in Seq(X)
  PROVE  /\ Len(s) = 1 => (s = <<"LF">> <=> s[1] = "LF")
         /\ Len(s) = 2 => (s = <<"LF", "LF">> <=> s[1] = "LF" /\ s[2] = "LF")
<1>1. s \in [1..Len(s) -> X] /\ Len(s) \in Nat
  BY LenProperties
<1>2. ASSUME Len(s) = 1, s[1] = "LF" PROVE s = <<"LF">>
  <2>1. "LF" \in X /\ <<"LF">> \in Seq(X) /\ Len(<<"LF">>) = 1 /\ <<"LF">>[1] = "LF"
    BY <1>1, <1>2
  <2> QED
    BY <1>2, <2>1, SeqEqual
<1>3. ASSUME Len(s) = 2, s[1] = "LF", s[2] = "LF" PROVE s = <<"LF", "LF">>
  <2> DEFINE t == <<"LF", "LF">>
  <2>1. "LF" \in X
    BY <1>1, <1>3
  <2>2. t \in Seq(X) /\ Len(t) = 2 /\ t[1] = "LF" /\ t[2] = "LF"
    BY <2>1
  <2> HIDE DEF t
  <2>3. \A k \in 1..2 : s[k] = t[k]
    BY <1>3, <2>2
  <2>4. s = t
    BY <1>3, <2>2, <2>3, SeqEqual
  <2> QED
    BY <2>4 DEF t
<1>4. s = <<"LF">> => s[1] = "LF"
  OBVIOUS
<1>5. s = <<"LF", "LF">> => s[1] = "LF" /\ s[2] = "LF"
  OBVIOUS
<1> QED
  BY <1>2, <1>3, <1>4, <1>5

(* Where a separator of one or two line feeds stands.                      *)
Feed == <<"LF">>
Feeds == <<"LF", "LF">>
Stands(s, i, sep) ==
  IF sep = Feed THEN i \in 1..Len(s) /\ s[i] = "LF"
  ELSE i \in 1..(Len(s) - 1) /\ s[i] = "LF" /\ s[i + 1] = "LF"

LEMMA FindIsFirst ==
  ASSUME NEW X, NEW s \in Seq(X), NEW sep \in {Feed, Feeds}
  PROVE  \/ Find(s, sep) = 0 /\ \A i \in Nat : ~Stands(s, i, sep)
         \/ /\ Find(s, sep) \in 1..(Len(s) - Len(sep) + 1) /\ Stands(s, Find(s, sep), sep)
            /\ SubSeq(s, Find(s, sep), Find(s, sep) + Len(sep) - 1) = sep
            /\ \A i \in Nat : Stands(s, i, sep) => Find(s, sep) <= i
<1> DEFINE at == {i \in 1..(Len(s) - Len(sep) + 1) : SubSeq(s, i, i + Len(sep) - 1) = sep}
<1>1. Len(s) \in Nat /\ Feed # Feeds /\ Len(Feed) = 1 /\ Len(Feeds) = 2
  BY DEF Feed, Feeds
<1>2. \A i : i \in at <=> Stands(s, i, sep)
  <2>1. CASE sep = Feed
    <3>1. ASSUME NEW i \in 1..Len(s) PROVE SubSeq(s, i, i) = Feed <=> s[i] = "LF"
      <4>1. i \in 1..(Len(s) + 1) /\ i \in (i - 1)..Len(s) /\ i - i + 1 = 1 /\ i + 1 - 1 = i
        BY <1>1
      <4>2. /\ SubSeq(s, i, i) \in Seq(X) /\ Len(SubSeq(s, i, i)) = 1
            /\ \A k \in 1..1 : SubSeq(s, i, i)[k] = s[i + k - 1]
        BY <4>1, SubSeqOf
      <4>3. SubSeq(s, i, i)[1] = s[i]
        BY <4>1, <4>2
      <4> QED
        BY <4>2, <4>3, OneOrTwoFeeds DEF Feed
    <3>2. at = {i \in 1..Len(s) : SubSeq(s, i, i) = Feed}
      <4>1. Len(s) - 1 + 1 = Len(s) /\ \A i \in 1..Len(s) : i + 1 - 1 = i
        BY <1>1
      <4> QED
        BY <1>1, <2>1, <4>1
    <3> QED
      BY <2>1, <3>1, <3>2 DEF Stands
  <2>2. CASE sep = Feeds
    <3>1. ASSUME NEW i \in 1..(Len(s) - 1)
          PROVE  SubSeq(s, i, i + 1) = Feeds <=> s[i] = "LF" /\ s[i + 1] = "LF"
      <4>1. i \in 1..(Len(s) + 1) /\ i + 1 \in (i - 1)..Len(s) /\ (i + 1) - i + 1 = 2
            /\ i + 1 - 1 = i /\ i + 2 - 1 = i + 1
        BY <1>1
      <4>2. /\ SubSeq(s, i, i + 1) \in Seq(X) /\ Len(SubSeq(s, i, i + 1)) = 2
            /\ \A k \in 1..2 : SubSeq(s, i, i + 1)[k] = s[i + k - 1]
        BY <4>1, SubSeqOf
      <4>3. SubSeq(s, i, i + 1)[1] = s[i] /\ SubSeq(s, i, i + 1)[2] = s[i + 1]
        BY <4>1, <4>2
      <4> QED
        BY <4>2, <4>3, OneOrTwoFeeds DEF Feeds
    <3>2. at = {i \in 1..(Len(s) - 1) : SubSeq(s, i, i + 1) = Feeds}
      <4>1. Len(s) - 2 + 1 = Len(s) - 1 /\ \A i \in 1..(Len(s) - 1) : i + 2 - 1 = i + 1
        BY <1>1
      <4> QED
        BY <1>1, <2>2, <4>1
    <3> QED
      BY <1>1, <2>2, <3>1, <3>2 DEF Stands
  <2> QED
    BY <2>1, <2>2
<1>3. at \in SUBSET (Nat \ {0})
  BY <1>1
<1>4. Find(s, sep) = First(at)
  BY DEF Find
<1> HIDE DEF at
<1>5. \A i : Stands(s, i, sep) => i \in Nat
  BY <1>1 DEF Stands
<1>6. /\ at \subseteq 1..(Len(s) - Len(sep) + 1)
      /\ \A i \in at : SubSeq(s, i, i + Len(sep) - 1) = sep
  BY DEF at
<1>7. CASE at = {}
  BY <1>2, <1>3, <1>4, <1>5, <1>7, FirstIsLeast
<1>8. CASE at # {}
  <2>1. First(at) \in at /\ \A i \in at : First(at) <= i
    BY <1>3, <1>8, FirstIsLeast
  <2> QED
    BY <1>2, <1>4, <1>6, <2>1
<1> QED
  BY <1>7, <1>8

(* The same for sequences, from the shorter to the longer.                 *)
LEMMA LengthInduction ==
  ASSUME NEW X, NEW S \in SUBSET Seq(X),
         \A s \in Seq(X) : (\A t \in Seq(X) : Len(t) < Len(s) => t \in S) => s \in S
  PROVE  S = Seq(X)
<1> SUFFICES ASSUME NEW r \in Seq(X), r \notin S PROVE FALSE
  OBVIOUS
<1> DEFINE L == {Len(s) : s \in Seq(X) \ S}
<1>0. \A s \in Seq(X) : Len(s) \in Nat
  BY LenProperties
<1>1. L \in SUBSET Nat /\ Len(r) \in L
  BY <1>0
<1> HIDE DEF L
<1>2. PICK m \in L : \A n \in L : m <= n
  BY <1>1, Least
<1>3. PICK s \in Seq(X) \ S : m = Len(s)
  BY DEF L
<1>4. PICK t \in Seq(X) : Len(t) < Len(s) /\ t \notin S
  BY <1>3
<1>5. Len(t) \in L /\ Len(t) \in Nat /\ Len(s) \in Nat
  BY <1>1, <1>4, LenProperties DEF L
<1> QED
  BY <1>2, <1>3, <1>4, <1>5

LEMMA SeqInduction ==
  ASSUME NEW X, NEW S \in SUBSET Seq(X), <<>> \in S,
         \A s \in S, e \in X : s ++ <<e>> \in S
  PROVE  S = Seq(X)
<1>1. ASSUME NEW s \in Seq(X), \A t \in Seq(X) : Len(t) < Len(s) => t \in S
      PROVE  s \in S
  <2>1. CASE s = <<>>
    BY <2>1
  <2>2. CASE s # <<>>
    <3>1. PICK t \in Seq(X), e \in X : s = Append(t, e)
      BY <2>2, SequenceEmptyOrAppend
    <3>2. Len(s) = Len(t) + 1 /\ Len(t) \in Nat
      BY <3>1, AppendProperties, LenProperties
    <3>3. s = t ++ <<e>>
      BY <3>1, AppendIsConcat DEF ++
    <3>4. t \in S
      BY <1>1, <3>2
    <3> QED
      BY <3>3, <3>4
  <2> QED
    BY <2>1, <2>2
<1> QED
  BY <1>1, LengthInduction

-----------------------------------------------------------------------------
(* Splitting, unfolded once.  It is a function on every sequence of tokens,*)
(* since what is left after a separator is shorter.                        *)
Cut(f, r, sep) ==
  IF Find(r, sep) = 0 THEN <<r>>
  ELSE <<SubSeq(r, 1, Find(r, sep) - 1)>> \o f[SubSeq(r, Find(r, sep) + Len(sep), Len(r))]

UpTo(n) == {r \in Seq(Tokens) : Len(r) <= n}
Splits(n, sep, f) == f = [r \in UpTo(n) |-> Cut(f, r, sep)]

LEMMA RestShorter ==
  ASSUME NEW r \in Seq(Tokens), NEW sep \in {Feed, Feeds}, Find(r, sep) # 0
  PROVE  /\ SubSeq(r, Find(r, sep) + Len(sep), Len(r)) \in Seq(Tokens)
         /\ Len(SubSeq(r, Find(r, sep) + Len(sep), Len(r))) < Len(r)
         /\ Len(SubSeq(r, Find(r, sep) + Len(sep), Len(r))) \in Nat
<1> DEFINE i == Find(r, sep)
<1>1. Len(r) \in Nat /\ Len(sep) \in {1, 2}
  BY LenProperties DEF Feed, Feeds
<1>2. i \in 1..(Len(r) - Len(sep) + 1)
  BY FindIsFirst
<1> HIDE DEF i
<1>3. i + Len(sep) \in 1..(Len(r) + 1) /\ Len(r) \in (i + Len(sep) - 1)..Len(r)
  BY <1>1, <1>2
<1>4. /\ SubSeq(r, i + Len(sep), Len(r)) \in Seq(Tokens)
      /\ Len(SubSeq(r, i + Len(sep), Len(r))) = Len(r) - (i + Len(sep)) + 1
  BY <1>3, SubSeqOf
<1>5. Len(r) - (i + Len(sep)) + 1 < Len(r) /\ Len(r) - (i + Len(sep)) + 1 \in Nat
  <2>1. PICK n, w, k : n = Len(r) /\ w = Len(sep) /\ k = i
    OBVIOUS
  <2>2. n \in Nat /\ (w = 1 \/ w = 2) /\ k \in Int /\ 1 <= k /\ k <= n - w + 1
    BY <1>1, <1>2, <2>1
  <2>3. n - (k + w) + 1 < n /\ n - (k + w) + 1 \in Nat
    BY <2>2
  <2> QED
    BY <2>1, <2>3
<1> QED
  BY <1>4, <1>5 DEF i

LEMMA SplitsExist ==
  ASSUME NEW sep \in {Feed, Feeds}, NEW n \in Nat
  PROVE  \E f : Splits(n, sep, f)
<1> DEFINE S == {k \in Nat : \E f : Splits(k, sep, f)}
<1>1. 0 \in S
  <2> DEFINE f == [r \in UpTo(0) |-> <<r>>]
  <2>1. ASSUME NEW r \in UpTo(0) PROVE Find(r, sep) = 0
    BY RestShorter, LenProperties DEF UpTo
  <2>2. ASSUME NEW r \in UpTo(0) PROVE Cut(f, r, sep) = <<r>>
    BY <2>1 DEF Cut
  <2>3. Splits(0, sep, f)
    BY <2>2 DEF Splits
  <2> QED
    BY <2>3
<1>2. ASSUME NEW k \in S PROVE k + 1 \in S
  <2>1. PICK f : Splits(k, sep, f)
    OBVIOUS
  <2> DEFINE g == [r \in UpTo(k + 1) |-> Cut(f, r, sep)]
  <2>2. ASSUME NEW r \in UpTo(k + 1) PROVE Cut(g, r, sep) = Cut(f, r, sep)
    <3>1. CASE Find(r, sep) = 0
      BY <3>1 DEF Cut
    <3>2. CASE Find(r, sep) # 0
      <4> DEFINE t == SubSeq(r, Find(r, sep) + Len(sep), Len(r))
      <4>1. t \in UpTo(k) /\ t \in UpTo(k + 1)
        BY <3>2, RestShorter, LenProperties DEF UpTo
      <4>2. g[t] = Cut(f, t, sep) /\ f[t] = Cut(f, t, sep)
        BY <2>1, <4>1 DEF Splits
      <4>3. g[t] = f[t]
        BY <4>2
      <4> HIDE DEF g
      <4> QED
        BY <4>3 DEF Cut
    <3> QED
      BY <3>1, <3>2
  <2>3. Splits(k + 1, sep, g)
    BY <2>2 DEF Splits
  <2> QED
    BY <2>3
<1>3. S \in SUBSET Nat
  OBVIOUS
<1> HIDE DEF S
<1>4. S = Nat
  BY <1>1, <1>2, <1>3, Induction
<1> QED
  BY <1>4 DEF S

LEMMA SplitsAgree ==
  ASSUME NEW sep \in {Feed, Feeds}, NEW m \in Nat, NEW n \in Nat, m <= n,
         NEW f, NEW g, Splits(m, sep, f), Splits(n, sep, g)
  PROVE  \A r \in UpTo(m) : f[r] = g[r]
<1> DEFINE S == {k \in Nat : k <= m => \A r \in UpTo(k) : f[r] = g[r]}
<1>0. ASSUME NEW k \in Nat, k <= m, NEW r \in UpTo(k)
      PROVE  f[r] = Cut(f, r, sep) /\ g[r] = Cut(g, r, sep)
  <2>1. r \in UpTo(m) /\ r \in UpTo(n)
    BY <1>0, LenProperties DEF UpTo
  <2> QED
    BY <2>1 DEF Splits
<1>1. 0 \in S
  <2> SUFFICES ASSUME NEW r \in UpTo(0) PROVE f[r] = g[r]
    OBVIOUS
  <2>1. Find(r, sep) = 0
    BY RestShorter, LenProperties DEF UpTo
  <2>2. f[r] = Cut(f, r, sep) /\ g[r] = Cut(g, r, sep)
    BY <1>0
  <2> QED
    BY <2>1, <2>2 DEF Cut
<1>2. ASSUME NEW k \in S PROVE k + 1 \in S
  <2> SUFFICES ASSUME k + 1 <= m, NEW r \in UpTo(k + 1) PROVE f[r] = g[r]
    OBVIOUS
  <2>1. f[r] = Cut(f, r, sep) /\ g[r] = Cut(g, r, sep)
    BY <1>0
  <2>2. CASE Find(r, sep) = 0
    BY <2>1, <2>2 DEF Cut
  <2>3. CASE Find(r, sep) # 0
    <3> DEFINE t == SubSeq(r, Find(r, sep) + Len(sep), Len(r))
    <3>1. t \in UpTo(k)
      BY <2>3, RestShorter, LenProperties DEF UpTo
    <3>2. f[t] = g[t]
      BY <3>1
    <3> HIDE DEF S
    <3> QED
      BY <2>1, <3>2 DEF Cut
  <2> QED
    BY <2>2, <2>3
<1>3. S \in SUBSET Nat
  OBVIOUS
<1> HIDE DEF S
<1>4. S = Nat
  BY <1>1, <1>2, <1>3, Induction
<1> QED
  BY <1>4 DEF S

LEMMA SplitExists ==
  ASSUME NEW sep \in {Feed, Feeds}
  PROVE  \E f : f = [r \in Seq(Tokens) |-> Cut(f, r, sep)]
<1> DEFINE F(n) == CHOOSE f : Splits(n, sep, f)
           h == [r \in Seq(Tokens) |-> F(Len(r))[r]]
<1>1. ASSUME NEW n \in Nat PROVE Splits(n, sep, F(n))
  BY SplitsExist
<1> HIDE DEF F
<1>2. ASSUME NEW r \in Seq(Tokens) PROVE h[r] = Cut(h, r, sep)
  <2>0. Len(r) \in Nat /\ r \in UpTo(Len(r))
    BY LenProperties DEF UpTo
  <2>1. F(Len(r))[r] = Cut(F(Len(r)), r, sep)
    BY <1>1, <2>0 DEF Splits
  <2>2. CASE Find(r, sep) = 0
    BY <2>1, <2>2 DEF Cut
  <2>3. CASE Find(r, sep) # 0
    <3> DEFINE t == SubSeq(r, Find(r, sep) + Len(sep), Len(r))
    <3>1. t \in Seq(Tokens) /\ Len(t) \in Nat /\ Len(t) <= Len(r) /\ t \in UpTo(Len(t))
      BY <2>0, <2>3, RestShorter DEF UpTo
    <3>2. F(Len(t))[t] = F(Len(r))[t]
      BY <1>1, <2>0, <3>1, SplitsAgree
    <3>3. h[t] = F(Len(r))[t] /\ h[r] = F(Len(r))[r]
      BY <3>1, <3>2
    <3> HIDE DEF h
    <3> QED
      BY <2>1, <3>3 DEF Cut
  <2> QED
    BY <2>2, <2>3
<1>3. h = [r \in Seq(Tokens) |-> Cut(h, r, sep)]
  BY <1>2
<1> QED
  BY <1>3

LEMMA SplitStep ==
  ASSUME NEW r \in Seq(Tokens), NEW sep \in {Feed, Feeds}
  PROVE  Split(r, sep) =
           IF Find(r, sep) = 0 THEN <<r>>
           ELSE <<SubSeq(r, 1, Find(r, sep) - 1)>>
                ++ Split(SubSeq(r, Find(r, sep) + Len(sep), Len(r)), sep)
<1> DEFINE h == CHOOSE f : f = [s \in Seq(Tokens) |-> Cut(f, s, sep)]
<1>1. h = [s \in Seq(Tokens) |-> Cut(h, s, sep)]
  BY SplitExists
<1>2. \A s : Split(s, sep) = h[s]
  BY DEF Split, Cut
<1> HIDE DEF h
<1>3. h[r] = Cut(h, r, sep)
  BY <1>1
<1> QED
  BY <1>2, <1>3 DEF Cut, ++

(* The last element and what is before it.                                 *)
LEMMA FrontLast ==
  ASSUME NEW X, NEW a \in Seq(X), NEW x \in X
  PROVE  /\ Front(a ++ <<x>>) = a /\ Last(a ++ <<x>>) = x
         /\ a ++ <<x>> \in Seq(X) /\ a ++ <<x>> # <<>>
<1>1. <<x>> \in Seq(X) /\ Len(<<x>>) = 1 /\ <<x>>[1] = x
  OBVIOUS
<1>2. Len(a) \in Nat
  BY LenProperties
<1>3. /\ a ++ <<x>> \in Seq(X) /\ Len(a ++ <<x>>) = Len(a) + 1
      /\ \A i \in 1..Len(a) : (a ++ <<x>>)[i] = a[i]
      /\ (a ++ <<x>>)[Len(a) + 1] = x
  <2>1. PICK one : one = <<x>>
    OBVIOUS
  <2>2. one \in Seq(X) /\ Len(one) = 1 /\ one[1] = x
    BY <1>1, <2>1
  <2>3. /\ a ++ one \in Seq(X) /\ Len(a ++ one) = Len(a) + Len(one)
        /\ \A i \in 1..Len(a) : (a ++ one)[i] = a[i]
        /\ \A i \in 1..Len(one) : (a ++ one)[Len(a) + i] = one[i]
    <3>1. one \in Seq(X)
      BY <2>2
    <3> QED
      BY ONLY <3>1, Positions
  <2> QED
    BY <2>1, <2>2, <2>3
<1>4. Last(a ++ <<x>>) = x
  BY <1>3 DEF Last
<1> DEFINE b == a ++ <<x>>
<1> HIDE DEF b
<1>5. b \in Seq(X) /\ Len(b) = Len(a) + 1 /\ \A i \in 1..Len(a) : b[i] = a[i]
  BY <1>3 DEF b
<1>6. 1 \in 1..(Len(b) + 1) /\ Len(a) \in (1 - 1)..Len(b) /\ Len(a) - 1 + 1 = Len(a)
  BY <1>2, <1>5
<1>7. /\ SubSeq(b, 1, Len(a)) \in Seq(X) /\ Len(SubSeq(b, 1, Len(a))) = Len(a)
      /\ \A k \in 1..Len(a) : SubSeq(b, 1, Len(a))[k] = b[1 + k - 1]
  BY <1>5, <1>6, SubSeqOf
<1>8. \A k \in 1..Len(a) : SubSeq(b, 1, Len(a))[k] = a[k]
  <2> SUFFICES ASSUME NEW k \in 1..Len(a) PROVE SubSeq(b, 1, Len(a))[k] = a[k]
    OBVIOUS
  <2>1. 1 + k - 1 = k
    BY <1>2
  <2> QED
    BY <1>5, <1>7, <2>1
<1>9. SubSeq(b, 1, Len(a)) = a
  BY <1>7, <1>8, SeqEqual
<1>10. Front(b) = SubSeq(b, 1, Len(a))
  <2>1. Len(b) - 1 = Len(a)
    BY <1>2, <1>5
  <2> QED
    BY <2>1 DEF Front
<1>11. b # <<>>
  BY <1>2, <1>5
<1> QED
  BY <1>3, <1>4, <1>9, <1>10, <1>11 DEF b

LEMMA FrontAndLast ==
  ASSUME NEW X, NEW s \in Seq(X), s # <<>>
  PROVE  Front(s) \in Seq(X) /\ Last(s) \in X /\ s = Front(s) ++ <<Last(s)>>
<1>1. PICK a \in Seq(X), x \in X : s = Append(a, x)
  BY SequenceEmptyOrAppend
<1>2. s = a ++ <<x>>
  BY <1>1, AppendIsConcat DEF ++
<1> QED
  BY <1>2, FrontLast

LEMMA FrontOfConcat ==
  ASSUME NEW X, NEW a \in Seq(X), NEW c \in Seq(X), c # <<>>
  PROVE  Front(a ++ c) = a ++ Front(c) /\ Last(a ++ c) = Last(c)
<1>1. PICK d, x : d = Front(c) /\ x = Last(c)
  OBVIOUS
<1>2. d \in Seq(X) /\ x \in X /\ c = d ++ <<x>> /\ <<x>> \in Seq(X)
  <2>1. d \in Seq(X) /\ x \in X /\ c = d ++ <<x>>
    BY <1>1, FrontAndLast
  <2> QED
    BY <2>1
<1>3. (a ++ d) ++ <<x>> = a ++ (d ++ <<x>>)
  <2>1. PICK one : one = <<x>>
    OBVIOUS
  <2>2. (a ++ d) ++ one = a ++ (d ++ one)
    <3>1. one \in Seq(X) /\ d \in Seq(X)
      BY <1>2, <2>1
    <3> QED
      BY ONLY <3>1, Associative
  <2> QED
    BY <2>1, <2>2
<1>4. a ++ d \in Seq(X)
  BY <1>2, Typed
<1>5. Front((a ++ d) ++ <<x>>) = a ++ d /\ Last((a ++ d) ++ <<x>>) = x
  BY <1>2, <1>4, FrontLast
<1> QED
  BY <1>1, <1>2, <1>3, <1>5

-----------------------------------------------------------------------------
(* No separator in h; none in h and what follows it before that ends.      *)
Whole(h, sep) == \A i \in Nat : ~Stands(h, i, sep)
Ended(h, sep) == \A i \in 1..Len(h) : ~Stands(h ++ sep, i, sep)

LEMMA SepType ==
  ASSUME NEW sep \in {Feed, Feeds}
  PROVE  /\ sep \in Seq(Tokens) /\ Len(sep) \in {1, 2} /\ sep[1] = "LF"
         /\ sep = Feed => Len(sep) = 1 
         /\ sep # Feed => Len(sep) = 2 /\ sep[2] = "LF"
<1>1. "LF" \in Tokens
  BY DEF Tokens
<1>2. Feed \in Seq(Tokens) /\ Len(Feed) = 1 /\ Feed[1] = "LF"
  BY <1>1 DEF Feed
<1>3. Feeds \in Seq(Tokens) /\ Len(Feeds) = 2 /\ Feeds[1] = "LF" /\ Feeds[2] = "LF"
  BY <1>1 DEF Feeds
<1> QED
  BY <1>2, <1>3

(* What that says of s, which is h, a separator, and t.                    *)
Parted(s, h, sep, t) ==
  /\ s \in Seq(Tokens) /\ Len(s) = Len(h) + Len(sep) + Len(t)
  /\ SubSeq(s, 1, Len(h)) = h
  /\ SubSeq(s, Len(h) + Len(sep) + 1, Len(s)) = t
  /\ Stands(s, Len(h) + 1, sep)
  /\ \A i \in 1..Len(h) : Stands(s, i, sep) <=> Stands(h ++ sep, i, sep)

LEMMA Around ==
  ASSUME NEW h, h \in Seq(Tokens), NEW t, t \in Seq(Tokens), NEW sep \in {Feed, Feeds},
         NEW s, s = (h ++ sep) ++ t
  PROVE  Parted(s, h, sep, t)
<1>1. PICK m \in Nat, n \in Nat, w \in Nat : m = Len(h) /\ n = Len(t) /\ w = Len(sep)
  BY LenProperties, SepType
<1>2. w = 1 \/ w = 2
  BY <1>1, SepType
<1>3. PICK u : u = h ++ sep
  OBVIOUS
<1>4. /\ u \in Seq(Tokens) /\ Len(u) = m + w
      /\ \A i \in 1..m : u[i] = h[i] /\ u[m + 1] = "LF"
      /\ sep # Feed => u[m + 2] = "LF"
      /\ u[m + 1] = "LF"
  <2>1. /\ h ++ sep \in Seq(Tokens) /\ Len(h ++ sep) = Len(h) + Len(sep)
        /\ \A i \in 1..Len(h) : (h ++ sep)[i] = h[i]
        /\ \A i \in 1..Len(sep) : (h ++ sep)[Len(h) + i] = sep[i]
    BY SepType, Positions
  <2> QED
    BY <1>1, <1>2, <1>3, <2>1, SepType
<1>5. /\ s \in Seq(Tokens) /\ Len(s) = m + w + n
      /\ \A i \in 1..(m + w) : s[i] = u[i]
      /\ \A i \in 1..n : s[m + w + i] = t[i]
  <2>1. s = u ++ t
    BY <1>3
  <2> QED
    <3>0. u \in Seq(Tokens) /\ t \in Seq(Tokens)
      BY <1>4
    <3>1. /\ u ++ t \in Seq(Tokens) /\ Len(u ++ t) = Len(u) + Len(t)
          /\ \A i \in 1..Len(u) : (u ++ t)[i] = u[i]
          /\ \A i \in 1..Len(t) : (u ++ t)[Len(u) + i] = t[i]
      BY ONLY <3>0, Positions
    <3> QED
      BY ONLY <1>1, <1>4, <2>1, <3>1
<1>6. SubSeq(s, 1, m) = h
  <2>1. 1 \in 1..(Len(s) + 1) /\ m \in (1 - 1)..Len(s) /\ m - 1 + 1 = m
    BY <1>2, <1>5
  <2>2. /\ SubSeq(s, 1, m) \in Seq(Tokens) /\ Len(SubSeq(s, 1, m)) = m
        /\ \A k \in 1..m : SubSeq(s, 1, m)[k] = s[1 + k - 1]
    BY <1>5, <2>1, SubSeqOf
  <2>3. ASSUME NEW k \in 1..m PROVE SubSeq(s, 1, m)[k] = h[k]
    <3>1. 1 + k - 1 = k /\ k \in 1..(m + w)
      BY <1>2
    <3> QED
      BY <1>4, <1>5, <2>2, <3>1
  <2> QED
    BY <1>1, <2>2, <2>3, SeqEqual
<1>7. SubSeq(s, m + w + 1, Len(s)) = t
  <2>1. PICK z : z = SubSeq(s, m + w + 1, Len(s))
    OBVIOUS
  <2>2. PICK i \in Nat, j \in Nat : i = m + w + 1 /\ j = m + w + n
    OBVIOUS
  <2>3. j = Len(s) /\ i \in 1..(j + 1) /\ j \in (i - 1)..j /\ j - i + 1 = n
    <3>1. Len(s) = m + w + n
      BY <1>5
    <3> QED
      BY ONLY <1>2, <2>2, <3>1
  <2>4. /\ SubSeq(s, i, j) \in Seq(Tokens) /\ Len(SubSeq(s, i, j)) = j - i + 1
        /\ \A k \in 1..(j - i + 1) : SubSeq(s, i, j)[k] = s[i + k - 1]
    BY <1>5, <2>3, SubSeqOf
  <2>5. z = SubSeq(s, i, j)
    BY <2>1, <2>2, <2>3
  <2>6. ASSUME NEW k \in 1..n PROVE z[k] = t[k]
    <3>1. i + k - 1 = m + w + k
      BY <1>2, <2>2
    <3> QED
      BY <1>5, <2>3, <2>4, <2>5, <3>1
  <2> QED
    BY <1>1, <2>1, <2>3, <2>4, <2>5, <2>6, SeqEqual
<1>8. Stands(s, m + 1, sep)
  <2>1. m + 1 \in 1..(m + w) /\ s[m + 1] = "LF"
    BY <1>2, <1>4, <1>5
  <2>2. CASE sep = Feed
    BY <1>2, <1>5, <2>1, <2>2 DEF Stands
  <2>3. CASE sep # Feed
    <3>1. w = 2
      BY <1>1, <2>3, SepType
    <3>2. m + 2 \in 1..(m + w) /\ m + 1 + 1 = m + 2 /\ m + 1 \in 1..(Len(s) - 1)
      BY <1>2, <1>5, <3>1
    <3>3. s[m + 1 + 1] = "LF"
      BY <1>4, <1>5, <2>3, <3>2
    <3> QED
      BY <2>1, <2>3, <3>2, <3>3 DEF Stands
  <2> QED
    BY <2>2, <2>3
<1>9. ASSUME NEW i \in 1..m PROVE Stands(s, i, sep) <=> Stands(u, i, sep)
  <2>1. i \in 1..(m + w) /\ i + 1 \in 1..(m + w) /\ i \in 1..Len(s) /\ i \in 1..Len(u)
    BY <1>2, <1>4, <1>5
  <2>2. i \in 1..(Len(s) - 1) /\ i \in 1..(Len(u) - 1)
    BY <1>2, <1>4, <1>5
  <2>3. s[i] = u[i] /\ s[i + 1] = u[i + 1]
    BY <1>5, <2>1
  <2> QED
    BY <2>1, <2>2, <2>3 DEF Stands
<1> QED
  BY <1>1, <1>3, <1>5, <1>6, <1>7, <1>8, <1>9 DEF Parted

(* So a sequence without separators is one part, and another one is its    *)
(* first part, a separator, and what remains to be split.                  *)
LEMMA SplitWhole ==
  ASSUME NEW s \in Seq(Tokens), NEW sep \in {Feed, Feeds}, Whole(s, sep)
  PROVE  Split(s, sep) = <<s>>
<1>1. Find(s, sep) = 0
  <2>1. ~(Find(s, sep) \in Nat /\ Stands(s, Find(s, sep), sep))
    BY DEF Whole
  <2>2. Find(s, sep) = 0 \/ (Find(s, sep) \in Nat /\ Stands(s, Find(s, sep), sep))
    BY FindIsFirst
  <2> QED
    BY <2>1, <2>2
<1> QED
  BY <1>1, SplitStep

LEMMA SplitCut ==
  ASSUME NEW h \in Seq(Tokens), NEW t \in Seq(Tokens), NEW sep \in {Feed, Feeds},
         Ended(h, sep)
  PROVE  Split((h ++ sep) ++ t, sep) = <<h>> ++ Split(t, sep)
<1>1. PICK s : s = (h ++ sep) ++ t
  OBVIOUS
<1>2. PICK m \in Nat, w \in Nat : m = Len(h) /\ w = Len(sep)
  BY LenProperties, SepType
<1>3. /\ s \in Seq(Tokens)
      /\ SubSeq(s, 1, m) = h /\ SubSeq(s, m + w + 1, Len(s)) = t /\ Stands(s, m + 1, sep)
      /\ \A i \in 1..m : Stands(s, i, sep) <=> Stands(h ++ sep, i, sep)
  <2>1. /\ s \in Seq(Tokens)
        /\ SubSeq(s, 1, Len(h)) = h
        /\ SubSeq(s, Len(h) + Len(sep) + 1, Len(s)) = t
        /\ Stands(s, Len(h) + 1, sep)
        /\ \A i \in 1..Len(h) : Stands(s, i, sep) <=> Stands(h ++ sep, i, sep)
    <3>1. Parted(s, h, sep, t)
      BY <1>1, Around
    <3> QED
      BY <3>1 DEF Parted
  <2> QED
    BY ONLY <1>2, <2>1
<1>4. \A i \in 1..m : ~Stands(s, i, sep)
  BY <1>2, <1>3 DEF Ended
<1>5. Find(s, sep) = m + 1
  <2>1. PICK k \in Nat : k = Find(s, sep) /\ k # 0 /\ Stands(s, k, sep) /\ k <= m + 1
    <3>1. m + 1 \in Nat
      OBVIOUS
    <3> QED
      BY <1>3, <3>1, FindIsFirst
  <2>2. k \notin 1..m
    BY <1>4, <2>1
  <2> QED
    BY <2>1, <2>2
<1>6. Find(s, sep) - 1 = m /\ Find(s, sep) + Len(sep) = m + w + 1 /\ Find(s, sep) # 0
  BY <1>2, <1>5
<1>7. Split(s, sep) = <<h>> ++ Split(t, sep)
  BY <1>3, <1>6, SplitStep, ZenonT(60)
<1> QED
  BY <1>1, <1>7

LEMMA CutExists ==
  ASSUME NEW s \in Seq(Tokens), NEW sep \in {Feed, Feeds}, ~Whole(s, sep)
  PROVE  \E h, t \in Seq(Tokens) :
           s = (h ++ sep) ++ t /\ Ended(h, sep) /\ Len(t) < Len(s)
<1>1. Find(s, sep) # 0
  <2>1. PICK i \in Nat : Stands(s, i, sep)
    BY DEF Whole
  <2>2. CASE Find(s, sep) = 0 /\ \A j \in Nat : ~Stands(s, j, sep)
    BY <2>1, <2>2
  <2>3. CASE Find(s, sep) \in 1..(Len(s) - Len(sep) + 1)
    BY <2>3
  <2> QED
    BY <2>2, <2>3, FindIsFirst
<1>2. PICK n \in Nat, w \in Nat, k \in Nat : n = Len(s) /\ w = Len(sep) /\ k = Find(s, sep)
  <2>1. Len(s) \in Nat /\ Len(sep) \in Nat
    BY LenProperties, SepType
  <2>2. Find(s, sep) \in Nat
    BY <1>1, FindIsFirst
  <2> QED
    BY <2>1, <2>2
<1>3. /\ k \in 1..(n - w + 1) /\ SubSeq(s, k, k + w - 1) = sep
      /\ \A i \in Nat : Stands(s, i, sep) => k <= i
  BY <1>1, <1>2, FindIsFirst
<1>4. w = 1 \/ w = 2
  BY <1>2, SepType
<1>5. PICK m \in Nat, u \in Nat : m = k - 1 /\ u = m + w
  BY <1>3
<1>6. m + 1 = k /\ k + w - 1 = u /\ k + w = u + 1 /\ m <= u /\ u <= n /\ m < n /\ k >= 1
  BY <1>3, <1>4, <1>5
<1>7. PICK h, t : h = SubSeq(s, 1, m) /\ t = SubSeq(s, u + 1, n)
  OBVIOUS
<1>8. h \in Seq(Tokens) /\ Len(h) = m
  <2>1. 1 \in 1..(n + 1) /\ m \in (1 - 1)..n /\ m - 1 + 1 = m
    BY <1>6
  <2> QED
    BY <1>2, <1>7, <2>1, SubSeqOf
<1>9. t \in Seq(Tokens) /\ Len(t) < n
  <2>1. u + 1 \in 1..(n + 1) /\ n \in (u + 1 - 1)..n /\ n - (u + 1) + 1 < n
    BY <1>4, <1>5, <1>6
  <2> QED
    BY <1>2, <1>7, <2>1, SubSeqOf
<1>10. h ++ sep = SubSeq(s, 1, u)
  <2>1. 1 \in 1..(n + 1) /\ m \in (1 - 1)..n /\ u \in m..n
    BY <1>6
  <2>2. SubSeq(s, 1, m) ++ SubSeq(s, m + 1, u) = SubSeq(s, 1, u)
    BY <1>2, <2>1, ConcatAdjacentSubSeq DEF ++
  <2> QED
    BY <1>3, <1>6, <1>7, <2>2
<1>11. (h ++ sep) ++ t = s
  <2>1. 1 \in 1..(n + 1) /\ u \in (1 - 1)..n /\ n \in u..n
    BY <1>6
  <2>2. SubSeq(s, 1, u) ++ SubSeq(s, u + 1, n) = SubSeq(s, 1, n)
    BY <1>2, <2>1, ConcatAdjacentSubSeq DEF ++
  <2>3. SubSeq(s, 1, n) = s
    BY <1>2, SubSeqFull
  <2> QED
    BY <1>7, <1>10, <2>2, <2>3
<1>12. Ended(h, sep)
  <2>1. \A i \in 1..Len(h) : Stands(s, i, sep) <=> Stands(h ++ sep, i, sep)
    <3>1. h \in Seq(Tokens) /\ t \in Seq(Tokens) /\ s = (h ++ sep) ++ t
      BY <1>8, <1>9, <1>11
    <3>2. Parted(s, h, sep, t)
      BY <3>1, Around
    <3> QED
      BY <3>2 DEF Parted
  <2>2. ASSUME NEW i \in 1..m PROVE ~Stands(s, i, sep)
    BY <1>3, <1>6
  <2> QED
    BY <1>8, <2>1, <2>2 DEF Ended
<1> QED
  BY <1>2, <1>8, <1>9, <1>11, <1>12

(* The parts are sequences of tokens, and the last one has no separator.   *)
LEMMA SplitType ==
  ASSUME NEW s \in Seq(Tokens), NEW sep \in {Feed, Feeds}
  PROVE  /\ Split(s, sep) \in Seq(Seq(Tokens)) /\ Split(s, sep) # <<>>
         /\ Last(Split(s, sep)) \in Seq(Tokens) /\ Whole(Last(Split(s, sep)), sep)
<1> DEFINE S == {r \in Seq(Tokens) : /\ Split(r, sep) \in Seq(Seq(Tokens))
                                     /\ Split(r, sep) # <<>> /\ Whole(Last(Split(r, sep)), sep)}
<1>1. ASSUME NEW r \in Seq(Tokens), \A t \in Seq(Tokens) : Len(t) < Len(r) => t \in S
      PROVE  r \in S
  <2>1. CASE Whole(r, sep)
    <3>1. Split(r, sep) = <<r>>
      BY <2>1, SplitWhole
    <3>2. <<r>> \in Seq(Seq(Tokens)) /\ <<r>> # <<>> /\ Last(<<r>>) = r
      BY DEF Last
    <3> QED
      BY <2>1, <3>1, <3>2
  <2>2. CASE ~Whole(r, sep)
    <3>1. PICK h \in Seq(Tokens), t \in Seq(Tokens) :
            r = (h ++ sep) ++ t /\ Ended(h, sep) /\ Len(t) < Len(r)
      BY <2>2, CutExists
    <3>2. t \in S
      BY <1>1, <3>1
    <3>3. PICK c : c = Split(t, sep)
      OBVIOUS
    <3>4. c \in Seq(Seq(Tokens)) /\ c # <<>> /\ Whole(Last(c), sep)
      BY <3>2, <3>3
    <3>5. Split(r, sep) = <<h>> ++ c
      BY <3>1, <3>3, SplitCut
    <3>6. <<h>> \in Seq(Seq(Tokens))
      OBVIOUS
    <3>7. <<h>> ++ c \in Seq(Seq(Tokens)) /\ Last(<<h>> ++ c) = Last(c)
      BY ONLY <3>4, <3>6, Typed, FrontOfConcat
    <3>8. <<h>> ++ c # <<>>
      BY ONLY <3>4, <3>6, NotEmpty
    <3> QED
      BY <3>4, <3>5, <3>7, <3>8
  <2> QED
    BY <2>1, <2>2
<1>2. S \in SUBSET Seq(Tokens)
  OBVIOUS
<1> HIDE DEF S
<1>3. S = Seq(Tokens)
  BY <1>1, <1>2, LengthInduction
<1>4. Split(s, sep) \in Seq(Seq(Tokens)) /\ Split(s, sep) # <<>>
      /\ Whole(Last(Split(s, sep)), sep)
  BY <1>3 DEF S
<1>5. Last(Split(s, sep)) \in Seq(Tokens)
  BY ONLY <1>4, FrontAndLast
<1> QED
  BY <1>4, <1>5

(* A longer sequence has the same parts, but for the last one, which goes  *)
(* on: what a buffer that keeps the last part relies on.                   *)
LEMMA SplitExtends ==
  ASSUME NEW s \in Seq(Tokens), NEW y \in Seq(Tokens), NEW sep \in {Feed, Feeds}
  PROVE  Split(s ++ y, sep) = Front(Split(s, sep)) ++ Split(Last(Split(s, sep)) ++ y, sep)
<1> DEFINE S == {r \in Seq(Tokens) :
             Split(r ++ y, sep) = Front(Split(r, sep)) ++ Split(Last(Split(r, sep)) ++ y, sep)}
<1>1. ASSUME NEW r \in Seq(Tokens), \A t \in Seq(Tokens) : Len(t) < Len(r) => t \in S
      PROVE  r \in S
  <2>1. CASE Whole(r, sep)
    <3>1. Split(r, sep) = <<r>>
      BY <2>1, SplitWhole
    <3>2. Front(<<r>>) = <<>> /\ Last(<<r>>) = r
      BY DEF Last, Front
    <3>3. r ++ y \in Seq(Tokens)
      BY Typed
    <3>4. Split(r ++ y, sep) \in Seq(Seq(Tokens))
      BY <3>3, SplitType
    <3>5. Split(r ++ y, sep) = <<>> ++ Split(r ++ y, sep)
      BY ONLY <3>4, Neutral
    <3> QED
      BY <3>1, <3>2, <3>5
  <2>2. CASE ~Whole(r, sep)
    <3>1. PICK h \in Seq(Tokens), t \in Seq(Tokens) :
            r = (h ++ sep) ++ t /\ Ended(h, sep) /\ Len(t) < Len(r)
      BY <2>2, CutExists
    <3>2. t \in S
      BY <1>1, <3>1
    <3>3. PICK c, d : c = Split(t, sep) /\ d = Split(Last(c) ++ y, sep)
      OBVIOUS
    <3>4. c \in Seq(Seq(Tokens)) /\ c # <<>> /\ Last(c) \in Seq(Tokens)
      BY <3>3, SplitType
    <3>5. Split(t ++ y, sep) = Front(c) ++ d
      BY <3>2, <3>3
    <3>6. h ++ sep \in Seq(Tokens) /\ t ++ y \in Seq(Tokens) /\ Last(c) ++ y \in Seq(Tokens)
      BY <3>4, SepType, Typed
    <3>7. r ++ y = (h ++ sep) ++ (t ++ y)
      <4>1. PICK a : a = h ++ sep
        OBVIOUS
      <4>2. a \in Seq(Tokens)
        BY <3>6, <4>1
      <4>3. (a ++ t) ++ y = a ++ (t ++ y)
        BY ONLY <4>2, Associative
      <4> QED
        BY <3>1, <4>1, <4>3
    <3>8. Split(r ++ y, sep) = <<h>> ++ (Front(c) ++ d)
      BY <3>1, <3>5, <3>6, <3>7, SplitCut
    <3>9. <<h>> \in Seq(Seq(Tokens)) /\ Front(c) \in Seq(Seq(Tokens)) /\ d \in Seq(Seq(Tokens))
      <4>1. <<h>> \in Seq(Seq(Tokens))
        OBVIOUS
      <4>2. Front(c) \in Seq(Seq(Tokens))
        BY ONLY <3>4, FrontAndLast
      <4>3. d \in Seq(Seq(Tokens))
        BY <3>3, <3>6, SplitType
      <4> QED
        BY <4>1, <4>2, <4>3
    <3>10. Front(<<h>> ++ c) = <<h>> ++ Front(c) /\ Last(<<h>> ++ c) = Last(c)
      BY ONLY <3>4, <3>9, FrontOfConcat
    <3>11. Split(r, sep) = <<h>> ++ c
      BY <3>1, <3>3, SplitCut
    <3>12. (<<h>> ++ Front(c)) ++ d = <<h>> ++ (Front(c) ++ d)
      <4>1. PICK a, b : a = <<h>> /\ b = Front(c)
        OBVIOUS
      <4>2. a \in Seq(Seq(Tokens)) /\ b \in Seq(Seq(Tokens)) /\ d \in Seq(Seq(Tokens))
        BY <3>9, <4>1
      <4>3. (a ++ b) ++ d = a ++ (b ++ d)
        BY ONLY <4>2, Associative
      <4> QED
        BY <4>1, <4>3
    <3> QED
      BY <3>3, <3>8, <3>10, <3>11, <3>12
  <2> QED
    BY <2>1, <2>2
<1>2. S \in SUBSET Seq(Tokens)
  OBVIOUS
<1> HIDE DEF S
<1>3. S = Seq(Tokens)
  BY <1>1, <1>2, LengthInduction
<1> QED
  BY <1>3 DEF S

-----------------------------------------------------------------------------
(* The lines of a text in parts, and where they may be blank.              *)
LEMMA Feeding ==
  /\ Feed \in Seq(Tokens) /\ Feeds \in Seq(Tokens) /\ Feeds = Feed ++ Feed /\ Feed # Feeds
  /\ \A s : Lines(s) = Split(s, Feed) /\ Blocks(s) = Split(s, Feeds)
<1>1. Feed \in Seq(Tokens) /\ Feeds \in Seq(Tokens)
  BY SepType
<1>2. Feeds = Feed ++ Feed /\ Feed # Feeds
  BY DEF Feed, Feeds, ++
<1>3. \A s : Lines(s) = Split(s, Feed) /\ Blocks(s) = Split(s, Feeds)
  BY DEF Lines, Blocks, Feed, Feeds
<1> QED
  BY <1>1, <1>2, <1>3

LEMMA WholeLine ==
  ASSUME NEW s \in Seq(Tokens), Whole(s, Feed)
  PROVE  Ended(s, Feed)
<1> SUFFICES ASSUME NEW i \in 1..Len(s), Stands(s ++ Feed, i, Feed) PROVE FALSE
  BY DEF Ended
<1>1. Len(s) \in Nat /\ (s ++ Feed)[i] = s[i]
  BY Positions, Feeding
<1>2. Stands(s, i, Feed)
  BY <1>1 DEF Stands
<1> QED
  BY <1>1, <1>2 DEF Whole

LEMMA LinesParts ==
  ASSUME NEW h \in Seq(Tokens), NEW t \in Seq(Tokens)
  PROVE  Lines((h ++ Feed) ++ t) = Lines(h) ++ Lines(t)
<1>1. PICK f, l, r : f = Front(Lines(h)) /\ l = Last(Lines(h)) /\ r = Lines(t)
  OBVIOUS
<1>2. Lines(h) \in Seq(Seq(Tokens)) /\ Lines(h) # <<>> /\ l \in Seq(Tokens) /\ Whole(l, Feed)
  BY <1>1, SplitType, Feeding
<1>3. f \in Seq(Seq(Tokens)) /\ Lines(h) = f ++ <<l>>
  <2>1. Front(Lines(h)) \in Seq(Seq(Tokens)) /\ Lines(h) = Front(Lines(h)) ++ <<Last(Lines(h))>>
    BY ONLY <1>2, FrontAndLast
  <2> QED
    BY <1>1, <2>1
<1>4. (h ++ Feed) ++ t = h ++ (Feed ++ t) /\ (l ++ Feed) ++ t = l ++ (Feed ++ t)
      /\ Feed ++ t \in Seq(Tokens)
  BY <1>2, Associative, Typed, Feeding
<1>5. Lines(h ++ (Feed ++ t)) = f ++ Lines(l ++ (Feed ++ t))
  BY <1>1, <1>4, SplitExtends, Feeding
<1>6. Lines((l ++ Feed) ++ t) = <<l>> ++ r
  BY <1>1, <1>2, WholeLine, SplitCut, Feeding
<1>7. (f ++ <<l>>) ++ r = f ++ (<<l>> ++ r)
  <2>1. PICK one : one = <<l>>
    OBVIOUS
  <2>2. one \in Seq(Seq(Tokens)) /\ r \in Seq(Seq(Tokens)) /\ f \in Seq(Seq(Tokens))
    BY <1>1, <1>2, <1>3, <2>1, SplitType, Feeding
  <2>3. (f ++ one) ++ r = f ++ (one ++ r)
    BY ONLY <2>2, Associative
  <2> QED
    BY <2>1, <2>3
<1> QED
  BY <1>1, <1>3, <1>4, <1>5, <1>6, <1>7

Blank == <<>>

LEMMA NoLine == Lines(<<>>) = <<Blank>> /\ <<>> \in Seq(Tokens) /\ <<Blank>> \in Seq(Seq(Tokens))
<1>1. <<>> \in Seq(Tokens) /\ Whole(<<>>, Feed)
  BY DEF Whole, Stands
<1>2. Split(<<>>, Feed) = <<<<>>>>
  BY <1>1, SplitWhole
<1>3. <<<<>>>> \in Seq(Seq(Tokens))
  <2>1. PICK e : e = <<>>
    OBVIOUS
  <2>2. e \in Seq(Tokens)
    BY <1>1, <2>1
  <2>3. <<e>> \in Seq(Seq(Tokens))
    BY <2>2
  <2> QED
    BY <2>1, <2>3
<1> QED
  BY <1>1, <1>2, <1>3, Feeding DEF Blank

LEMMA LinesBlocks ==
  ASSUME NEW h \in Seq(Tokens), NEW t \in Seq(Tokens)
  PROVE  Lines((h ++ Feeds) ++ t) = (Lines(h) ++ <<Blank>>) ++ Lines(t)
<1>1. h ++ Feed \in Seq(Tokens) /\ Feed ++ t \in Seq(Tokens)
  BY Typed, Feeding
<1>2. (h ++ Feeds) ++ t = ((h ++ Feed) ++ Feed) ++ t
  BY Associative, Feeding
<1>3. ((h ++ Feed) ++ Feed) ++ t = (h ++ Feed) ++ (Feed ++ t)
  BY <1>1, Associative, Feeding
<1>4. Feed ++ t = (<<>> ++ Feed) ++ t
  BY Neutral, Feeding
<1>5. Lines(Feed ++ t) = <<Blank>> ++ Lines(t)
  BY <1>4, LinesParts, NoLine
<1>6. Lines((h ++ Feed) ++ (Feed ++ t)) = Lines(h) ++ (<<Blank>> ++ Lines(t))
  BY <1>1, <1>5, LinesParts
<1>7. (Lines(h) ++ <<Blank>>) ++ Lines(t) = Lines(h) ++ (<<Blank>> ++ Lines(t))
  <2>1. PICK a, b, c : a = Lines(h) /\ b = <<Blank>> /\ c = Lines(t)
    OBVIOUS
  <2>2. a \in Seq(Seq(Tokens)) /\ b \in Seq(Seq(Tokens)) /\ c \in Seq(Seq(Tokens))
    BY <2>1, NoLine, SplitType, Feeding
  <2>3. (a ++ b) ++ c = a ++ (b ++ c)
    BY ONLY <2>2, Associative
  <2> QED
    BY <2>1, <2>3
<1> QED
  BY <1>2, <1>3, <1>6, <1>7

(* Without two line feeds in a row, only the last line is blank, and the   *)
(* first one if the text starts with a line feed.                          *)
OnlyLast(given) == \A i \in 1..(Len(given) - 1) : given[i] # Blank

LEMMA SuffixWhole ==
  ASSUME NEW h \in Seq(Tokens), NEW t \in Seq(Tokens), Whole((h ++ Feed) ++ t, Feeds)
  PROVE  Whole(t, Feeds) /\ (t # <<>> => t[1] # "LF")
<1>1. PICK s, u : u = h ++ Feed /\ s = u ++ t
  OBVIOUS
<1>2. PICK m \in Nat, n \in Nat : m = Len(h) /\ n = Len(t)
  BY LenProperties
<1>3. u \in Seq(Tokens) /\ Len(u) = m + 1 /\ u[m + 1] = "LF"
  <2>1. Len(Feed) = 1 /\ Feed[1] = "LF"
    BY DEF Feed
  <2>2. /\ h ++ Feed \in Seq(Tokens) /\ Len(h ++ Feed) = Len(h) + Len(Feed)
        /\ \A i \in 1..Len(Feed) : (h ++ Feed)[Len(h) + i] = Feed[i]
    BY Positions, Feeding
  <2> QED
    BY <1>1, <1>2, <2>1, <2>2
<1>4. /\ Len(s) = m + 1 + n /\ \A i \in 1..n : s[m + 1 + i] = t[i]
      /\ s[m + 1] = "LF"
  <2>1. u \in Seq(Tokens)
    BY <1>3
  <2>2. /\ Len(u ++ t) = Len(u) + Len(t)
        /\ \A i \in 1..Len(u) : (u ++ t)[i] = u[i]
        /\ \A i \in 1..Len(t) : (u ++ t)[Len(u) + i] = t[i]
    BY ONLY <2>1, Positions
  <2> QED
    BY <1>1, <1>2, <1>3, <2>2
<1>5. \A k \in 1..(m + n) : ~(s[k] = "LF" /\ s[k + 1] = "LF")
  <2>1. \A k \in Nat : ~Stands(s, k, Feeds)
    BY <1>1 DEF Whole
  <2>2. Len(s) - 1 = m + n
    BY <1>4
  <2> QED
    BY <2>1, <2>2, Feeding DEF Stands
<1>6. ASSUME NEW i \in Nat, Stands(t, i, Feeds) PROVE FALSE
  <2>1. i \in 1..(n - 1) /\ t[i] = "LF" /\ t[i + 1] = "LF"
    BY <1>2, <1>6, Feeding DEF Stands
  <2>2. m + 1 + i \in 1..(m + n) /\ m + 1 + (i + 1) = m + 1 + i + 1 /\ i \in 1..n /\ i + 1 \in 1..n
    BY <2>1
  <2>3. s[m + 1 + i] = "LF" /\ s[m + 1 + i + 1] = "LF"
    BY <1>4, <2>1, <2>2
  <2> QED
    BY <1>5, <2>2, <2>3
<1>7. ASSUME t # <<>>, t[1] = "LF" PROVE FALSE
  <2>1. n >= 1
    BY <1>2, <1>7, EmptySeq
  <2>2. m + 1 \in 1..(m + n) /\ 1 \in 1..n
    BY <2>1
  <2>3. s[m + 1 + 1] = "LF"
    BY <1>4, <1>7, <2>2
  <2> QED
    BY <1>4, <1>5, <2>2, <2>3
<1> QED
  BY <1>6, <1>7 DEF Whole

LEMMA LinesWhole ==
  ASSUME NEW s \in Seq(Tokens), Whole(s, Feeds), s = <<>> \/ s[1] # "LF"
  PROVE  OnlyLast(Lines(s))
<1> DEFINE S == {r \in Seq(Tokens) :
                   Whole(r, Feeds) /\ (r = <<>> \/ r[1] # "LF") => OnlyLast(Lines(r))}
<1>1. ASSUME NEW r \in Seq(Tokens), \A t \in Seq(Tokens) : Len(t) < Len(r) => t \in S
      PROVE  r \in S
  <2> SUFFICES ASSUME Whole(r, Feeds), r = <<>> \/ r[1] # "LF" PROVE OnlyLast(Lines(r))
    OBVIOUS
  <2>1. CASE Whole(r, Feed)
    <3>1. Lines(r) = <<r>>
      BY <2>1, SplitWhole, Feeding
    <3> QED
      BY <3>1 DEF OnlyLast
  <2>2. CASE ~Whole(r, Feed)
    <3>1. PICK h \in Seq(Tokens), t \in Seq(Tokens) :
            r = (h ++ Feed) ++ t /\ Ended(h, Feed) /\ Len(t) < Len(r)
      BY <2>2, CutExists
    <3>2. Whole(t, Feeds) /\ (t = <<>> \/ t[1] # "LF")
      BY <3>1, SuffixWhole
    <3>3. OnlyLast(Lines(t))
      BY <1>1, <3>1, <3>2
    <3>4. h # Blank
      <4> SUFFICES ASSUME h = <<>> PROVE FALSE
        BY DEF Blank
      <4>1. r = Feed ++ t
        BY <3>1, Neutral, Feeding
      <4>2. Len(Feed) = 1 /\ Feed[1] = "LF"
        BY DEF Feed
      <4>3. Len(Feed ++ t) = Len(Feed) + Len(t) /\ \A i \in 1..Len(Feed) : (Feed ++ t)[i] = Feed[i]
        BY Positions, Feeding
      <4>4. r[1] = "LF" /\ Len(r) = 1 + Len(t) /\ Len(t) \in Nat
        BY <4>1, <4>2, <4>3, LenProperties
      <4>5. Len(r) # 0
        BY <4>4
      <4>6. r # <<>>
        BY <4>5
      <4> QED
        BY <4>4, <4>6
    <3>5. PICK one, c : one = <<h>> /\ c = Lines(t)
      OBVIOUS
    <3>6. Lines(r) = one ++ c
      BY <3>1, <3>5, SplitCut, Feeding
    <3>7. one \in Seq(Seq(Tokens)) /\ c \in Seq(Seq(Tokens)) /\ Len(one) = 1 /\ one[1] = h
      BY <3>5, SplitType, Feeding
    <3>8. /\ Len(one ++ c) = Len(one) + Len(c) /\ Len(c) \in Nat
          /\ \A i \in 1..Len(one) : (one ++ c)[i] = one[i]
          /\ \A i \in 1..Len(c) : (one ++ c)[Len(one) + i] = c[i]
      <4>1. one \in Seq(Seq(Tokens)) /\ c \in Seq(Seq(Tokens))
        BY <3>7
      <4> QED
        BY ONLY <4>1, Positions
    <3>9. ASSUME NEW i \in 1..(Len(one ++ c) - 1) PROVE (one ++ c)[i] # Blank
      <4>1. CASE i = 1
        BY <3>4, <3>7, <3>8, <4>1
      <4>2. CASE i # 1
        <5>1. i - 1 \in 1..(Len(c) - 1) /\ 1 + (i - 1) = i
          BY <3>7, <3>8, <4>2
        <5>2. c[i - 1] # Blank
          BY <3>3, <3>5, <5>1 DEF OnlyLast
        <5>3. i - 1 \in 1..Len(c)
          BY <3>8, <5>1
        <5>4. (one ++ c)[1 + (i - 1)] = c[i - 1]
          BY <3>7, <3>8, <5>3
        <5> QED
          BY <5>1, <5>2, <5>4
      <4> QED
        BY <4>1, <4>2
    <3> QED
      BY <3>6, <3>9 DEF OnlyLast
  <2> QED
    BY <2>1, <2>2
<1>2. S \in SUBSET Seq(Tokens)
  OBVIOUS
<1> HIDE DEF S
<1>3. S = Seq(Tokens)
  BY <1>1, <1>2, LengthInduction
<1> QED
  BY <1>3 DEF S

-----------------------------------------------------------------------------
(* The runs of lines, in two parts.                                        *)
LEMMA MinIs ==
  ASSUME NEW S, S \subseteq Nat, NEW m \in S, \A n \in S : m <= n
  PROVE  Min(S) = m
<1>1. ASSUME NEW x \in S, \A n \in S : x <= n PROVE x = m
  BY <1>1
<1> QED
  BY <1>1 DEF Min

LEMMA MinLeast ==
  ASSUME NEW S, S \subseteq Nat, S # {}
  PROVE  Min(S) \in S /\ Min(S) \in Nat /\ \A n \in S : Min(S) <= n
<1>1. PICK m \in S : \A n \in S : m <= n
  BY Least
<1> QED
  BY <1>1, MinIs

After(S, i) == {j \in S : j > i}

(* T is S up to c; T is S from c on.                                       *)
AgreeUpTo(S, T, c) ==
  S \subseteq Nat /\ T \subseteq Nat /\ c \in Nat /\ c \in T /\ \A x \in 0..c : x \in S <=> x \in T
AgreeFrom(S, T, c) ==
  S \subseteq Nat /\ T \subseteq Nat /\ c \in Nat /\ \A x \in Nat : c + x \in S <=> x \in T
SameAfter(S, T, i, c) ==
  /\ After(S, i) # {} /\ After(T, i) # {}
  /\ Min(After(S, i)) = Min(After(T, i))
  /\ Min(After(S, i)) \in (i + 1)..c
MovedAfter(S, T, k, c) ==
  /\ After(S, c + k) = {} <=> After(T, k) = {}
  /\ After(T, k) # {} => /\ Min(After(S, c + k)) = c + Min(After(T, k))
                         /\ Min(After(T, k)) \in T /\ Min(After(T, k)) \in Nat
                         /\ Min(After(T, k)) > k

LEMMA AfterLeft ==
  ASSUME NEW S, NEW T, NEW c, AgreeUpTo(S, T, c), NEW i, i \in Nat, i < c
  PROVE  SameAfter(S, T, i, c)
<1> USE DEF AgreeUpTo
<1>1. After(S, i) \subseteq Nat /\ After(T, i) \subseteq Nat
  BY DEF After
<1>2. c \in After(S, i) /\ c \in After(T, i)
  BY DEF After
<1>3. PICK m \in Nat : m = Min(After(T, i)) /\ m \in After(T, i) /\ \A n \in After(T, i) : m <= n
  BY <1>1, <1>2, MinLeast
<1>4. m \in (i + 1)..c
  BY <1>2, <1>3 DEF After
<1>5. m \in After(S, i)
  BY <1>3, <1>4 DEF After
<1>6. ASSUME NEW n \in After(S, i) PROVE m <= n
  <2>1. n \in Nat /\ n > i /\ n \in S
    BY <1>1 DEF After
  <2>2. CASE n <= c
    <3>1. n \in After(T, i)
      BY <2>1, <2>2 DEF After
    <3> QED
      BY <1>3, <3>1
  <2>3. CASE n > c
    BY <1>4, <2>1, <2>3
  <2> QED
    BY <2>1, <2>2, <2>3
<1>7. Min(After(S, i)) = m
  BY <1>1, <1>5, <1>6, MinIs
<1> QED
  BY <1>2, <1>3, <1>4, <1>7 DEF SameAfter

LEMMA AfterRight ==
  ASSUME NEW S, NEW T, NEW c, AgreeFrom(S, T, c), NEW k, k \in Nat
  PROVE  MovedAfter(S, T, k, c)
<1> USE DEF AgreeFrom
<1>1. After(S, c + k) \subseteq Nat /\ After(T, k) \subseteq Nat
  BY DEF After
<1>2. ASSUME NEW x \in Nat PROVE c + x \in After(S, c + k) <=> x \in After(T, k)
  BY DEF After
<1>3. ASSUME NEW y \in After(S, c + k) PROVE \E x \in After(T, k) : y = c + x
  <2>1. y \in Nat /\ y > c + k
    BY <1>1 DEF After
  <2>2. y - c \in Nat /\ y = c + (y - c)
    BY <2>1
  <2> QED
    BY <1>2, <2>2
<1>4. After(S, c + k) = {} <=> After(T, k) = {}
  BY <1>1, <1>2, <1>3
<1>5. ASSUME After(T, k) # {}
      PROVE  /\ Min(After(S, c + k)) = c + Min(After(T, k))
             /\ Min(After(T, k)) \in T /\ Min(After(T, k)) \in Nat
             /\ Min(After(T, k)) > k
  <2>1. PICK m \in Nat : m = Min(After(T, k)) /\ m \in After(T, k) /\ \A n \in After(T, k) : m <= n
    BY <1>1, <1>5, MinLeast
  <2>2. c + m \in After(S, c + k)
    BY <1>2, <2>1
  <2>3. ASSUME NEW y \in After(S, c + k) PROVE c + m <= y
    <3>1. PICK x \in After(T, k) : y = c + x
      BY <1>3
    <3>2. m <= x /\ x \in Nat
      BY <1>1, <2>1
    <3> QED
      BY <3>1, <3>2
  <2>4. Min(After(S, c + k)) = c + m
    BY <1>1, <2>2, <2>3, MinIs
  <2> QED
    BY <2>1, <2>4 DEF After
<1> QED
  BY <1>4, <1>5 DEF MovedAfter

(* The i-th to the j-th of s, which has that many.                         *)
Part(s, i, j) == SubSeq(s, i, j)
Within(s, i, j) ==
  i \in Nat /\ j \in Nat /\ Len(s) \in Nat /\ 1 <= i /\ i <= j + 1 /\ j <= Len(s)
IsPart(p, s, i, j, X) ==
  p \in Seq(X) /\ Len(p) = j - i + 1 /\ \A k \in 1..(j - i + 1) : p[k] = s[i + k - 1]

LEMMA PartIs ==
  ASSUME NEW X, NEW s, s \in Seq(X), NEW i, NEW j, Within(s, i, j)
  PROVE  IsPart(Part(s, i, j), s, i, j, X)
<1>1. i \in 1..(Len(s) + 1) /\ j \in (i - 1)..Len(s)
  BY DEF Within
<1> QED
  BY <1>1, SubSeqOf DEF Part, IsPart

LEMMA PartSame ==
  ASSUME NEW X, NEW p, NEW q, NEW s, NEW t, NEW i, NEW j, NEW u, NEW v,
         IsPart(p, s, i, j, X), IsPart(q, t, u, v, X),
         i \in Nat, j \in Nat, u \in Nat, v \in Nat, v - u = j - i,
         \A k \in 1..(j - i + 1) : s[i + k - 1] = t[u + k - 1]
  PROVE  p = q
<1>1. p \in Seq(X) /\ q \in Seq(X) /\ Len(p) = Len(q) /\ \A k \in 1..Len(p) : p[k] = q[k]
  BY DEF IsPart
<1> QED
  BY ONLY <1>1, SeqEqual

LEMMA PartLeft ==
  ASSUME NEW X, NEW a, a \in Seq(X), NEW b, b \in Seq(X), NEW i, NEW j, Within(a, i, j)
  PROVE  Part(a ++ b, i, j) = Part(a, i, j)
<1>1. PICK c : c = a ++ b
  OBVIOUS
<1>2. c \in Seq(X) /\ Follows(c, a, b)
  BY <1>1, Following
<1>3. Within(c, i, j)
  BY <1>2 DEF Follows, Within
<1>4. IsPart(Part(a, i, j), a, i, j, X)
  BY PartIs
<1>5. IsPart(Part(c, i, j), c, i, j, X)
  BY <1>2, <1>3, PartIs
<1>6. ASSUME NEW k \in 1..(j - i + 1) PROVE c[i + k - 1] = a[i + k - 1]
  <2>1. i + k - 1 \in 1..Len(a)
    BY DEF Within
  <2> QED
    BY <1>2, <2>1 DEF Follows
<1>7. i \in Nat /\ j \in Nat /\ j - i = j - i
  BY DEF Within
<1>8. Part(c, i, j) = Part(a, i, j)
  BY ONLY <1>4, <1>5, <1>6, <1>7, PartSame
<1> QED
  BY <1>1, <1>8

LEMMA PartRight ==
  ASSUME NEW X, NEW a, a \in Seq(X), NEW b, b \in Seq(X), NEW m, m = Len(a),
         NEW i, NEW j, Within(b, i, j)
  PROVE  Part(a ++ b, m + i, m + j) = Part(b, i, j)
<1>1. PICK c : c = a ++ b
  OBVIOUS
<1>2. c \in Seq(X) /\ Follows(c, a, b)
  BY <1>1, Following
<1>3. m \in Nat /\ i \in Nat /\ j \in Nat
  BY <1>2 DEF Follows, Within
<1>4. PICK u \in Nat, v \in Nat : u = m + i /\ v = m + j
  BY <1>3
<1>5. Within(c, u, v)
  BY <1>2, <1>4 DEF Follows, Within
<1>6. IsPart(Part(b, i, j), b, i, j, X)
  BY PartIs
<1>7. IsPart(Part(c, u, v), c, u, v, X)
  BY <1>2, <1>5, PartIs
<1>8. v - u = j - i
  BY <1>3, <1>4
<1>9. ASSUME NEW k \in 1..(v - u + 1) PROVE c[u + k - 1] = b[i + k - 1]
  <2>1. i + k - 1 \in 1..Len(b) /\ u + k - 1 = Len(a) + (i + k - 1)
    BY <1>3, <1>4 DEF Within
  <2> QED
    BY <1>2, <2>1 DEF Follows
<1>10. Part(c, u, v) = Part(b, i, j)
  <2>1. i - j = u - v /\ j - i = v - u
    BY <1>3, <1>4
  <2> QED
    BY ONLY <1>3, <1>4, <1>6, <1>7, <2>1, <1>9, PartSame
<1> QED
  BY <1>1, <1>4, <1>10

(* Where runs begin and end, and the run that begins after line i.         *)
Blanks(given, whole) ==
  {0} \cup {i \in 1..Len(given) : given[i] = <<>> /\ (i < Len(given) \/ whole)}
      \cup (IF whole THEN {Len(given) + 1} ELSE {})
RunAt(given, S, i) ==
  IF i \in S /\ After(S, i) # {} THEN Part(given, i + 1, Min(After(S, i)) - 1) ELSE <<>>

LEMMA RunsAt ==
  ASSUME NEW given, NEW whole
  PROVE  Runs(given, whole) =
           [i \in 1..(Len(given) + 1) |-> RunAt(given, Blanks(given, whole), i - 1)]
  BY DEF Runs, RunAt, After, Blanks, Part

LEMMA BlanksNat ==
  ASSUME NEW given, given \in Seq(Seq(Tokens)), NEW whole \in BOOLEAN
  PROVE  /\ Blanks(given, whole) \subseteq Nat
         /\ \A x \in Blanks(given, whole) : x <= Len(given) + 1
         /\ Len(given) \in Nat
<1>1. Len(given) \in Nat
  BY LenProperties
<1> QED
  BY <1>1 DEF Blanks

LEMMA BlanksAre ==
  ASSUME NEW given, NEW whole \in BOOLEAN, Len(given) \in Nat
  PROVE  /\ 0 \in Blanks(given, whole)
         /\ Len(given) + 1 \in Blanks(given, whole) <=> whole
         /\ \A i \in 1..Len(given) :
              i \in Blanks(given, whole) <=> given[i] = <<>> /\ (i < Len(given) \/ whole)
  BY DEF Blanks

LEMMA RunType ==
  ASSUME NEW given, given \in Seq(Seq(Tokens)), NEW whole \in BOOLEAN, NEW i \in Nat
  PROVE  RunAt(given, Blanks(given, whole), i) \in Seq(Seq(Tokens))
<1>1. PICK S : S = Blanks(given, whole)
  OBVIOUS
<1>2. S \subseteq Nat /\ Len(given) \in Nat /\ \A x \in S : x <= Len(given) + 1
  BY <1>1, BlanksNat
<1>3. CASE After(S, i) # {}
  <2>1. After(S, i) \subseteq Nat
    BY <1>2 DEF After
  <2>2. PICK m \in Nat : m = Min(After(S, i)) /\ m \in After(S, i)
    BY <1>3, <2>1, MinLeast
  <2>3. i < m /\ m <= Len(given) + 1
    BY <1>2, <2>2 DEF After
  <2>4. Within(given, i + 1, m - 1)
    BY <1>2, <2>3 DEF Within
  <2>5. Part(given, i + 1, m - 1) \in Seq(Seq(Tokens))
    BY <2>4, PartIs DEF IsPart
  <2>6. <<>> \in Seq(Seq(Tokens))
    BY EmptySeq
  <2> QED
    BY <1>1, <2>2, <2>5, <2>6 DEF RunAt
<1>4. CASE After(S, i) = {}
  <2>1. <<>> \in Seq(Seq(Tokens))
    BY EmptySeq
  <2> QED
    BY <1>1, <1>4, <2>1 DEF RunAt
<1> QED
  BY <1>3, <1>4

LEMMA RunsType ==
  ASSUME NEW given, given \in Seq(Seq(Tokens)), NEW whole \in BOOLEAN
  PROVE  /\ Runs(given, whole) \in Seq(Seq(Seq(Tokens)))
         /\ Len(Runs(given, whole)) = Len(given) + 1 /\ Len(given) \in Nat
         /\ \A i \in 1..(Len(given) + 1) :
              Runs(given, whole)[i] = RunAt(given, Blanks(given, whole), i - 1)
<1>1. PICK n \in Nat : n = Len(given) + 1 /\ Len(given) \in Nat
  BY LenProperties
<1>2. \A i \in 1..n : RunAt(given, Blanks(given, whole), i - 1) \in Seq(Seq(Tokens))
  BY RunType
<1>3. Runs(given, whole) = [i \in 1..n |-> RunAt(given, Blanks(given, whole), i - 1)]
  BY <1>1, RunsAt
<1>4. Runs(given, whole) \in [1..n -> Seq(Seq(Tokens))]
  BY <1>2, <1>3
<1> QED
  BY <1>1, <1>3, <1>4

(* L is the lines A, a blank one, and the lines B.                         *)
Separated(L, A, B) ==
  /\ Len(L) = Len(A) + 1 + Len(B)
  /\ \A i \in 1..Len(A) : L[i] = A[i]
  /\ L[Len(A) + 1] = <<>>
  /\ \A i \in 1..Len(B) : L[Len(A) + 1 + i] = B[i]

LEMMA SeparatedBy ==
  ASSUME NEW A, A \in Seq(Seq(Tokens)), NEW B, B \in Seq(Seq(Tokens)),
         NEW one, one = <<Blank>>
  PROVE  Separated((A ++ one) ++ B, A, B)
<1>1. one \in Seq(Seq(Tokens)) /\ Len(one) = 1 /\ one[1] = <<>>
  <2>1. one \in Seq(Seq(Tokens))
    BY NoLine
  <2> QED
    BY <2>1 DEF Blank
<1>2. PICK C, L : C = A ++ one /\ L = C ++ B
  OBVIOUS
<1>3. C \in Seq(Seq(Tokens)) /\ Follows(C, A, one)
  BY <1>1, <1>2, Following
<1>4. Follows(L, C, B)
  BY <1>2, <1>3, Following
<1>5. Separated(L, A, B)
  BY ONLY <1>1, <1>3, <1>4 DEF Separated, Follows
<1> QED
  BY <1>2, <1>5

LEMMA BlanksLeft ==
  ASSUME NEW L, NEW A, NEW B, NEW whole \in BOOLEAN, Separated(L, A, B),
         Len(A) \in Nat, Len(B) \in Nat, whole \/ Len(B) >= 1
  PROVE  \A i \in 0..(Len(A) + 1) : i \in Blanks(L, whole) <=> i \in Blanks(A, TRUE)
<1> SUFFICES ASSUME NEW i \in 0..(Len(A) + 1)
             PROVE  i \in Blanks(L, whole) <=> i \in Blanks(A, TRUE)
  OBVIOUS
<1>1. PICK a \in Nat, b \in Nat : a = Len(A) /\ b = Len(B) /\ Len(L) = a + 1 + b
  BY DEF Separated
<1>2. /\ 0 \in Blanks(L, whole)
      /\ \A k \in 1..Len(L) :
           k \in Blanks(L, whole) <=> L[k] = <<>> /\ (k < Len(L) \/ whole)
  BY <1>1, BlanksAre
<1>3. /\ 0 \in Blanks(A, TRUE)
      /\ Len(A) + 1 \in Blanks(A, TRUE)
      /\ \A k \in 1..Len(A) : k \in Blanks(A, TRUE) <=> A[k] = <<>>
  BY BlanksAre
<1>4. CASE i = 0
  BY <1>2, <1>3, <1>4
<1>5. CASE i \in 1..a
  <2>1. i \in 1..Len(L) /\ i < Len(L) /\ L[i] = A[i]
    BY <1>1, <1>5 DEF Separated
  <2> QED
    BY <1>1, <1>2, <1>3, <1>5, <2>1
<1>6. CASE i = a + 1
  <2>1. i \in 1..Len(L) /\ (i < Len(L) \/ whole) /\ L[i] = <<>>
    BY <1>1, <1>6 DEF Separated
  <2> QED
    BY <1>1, <1>2, <1>3, <1>6, <2>1
<1>7. i = 0 \/ i \in 1..a \/ i = a + 1
  BY <1>1
<1> QED
  BY <1>4, <1>5, <1>6, <1>7

LEMMA BlanksRight ==
  ASSUME NEW L, NEW A, NEW B, NEW whole \in BOOLEAN, Separated(L, A, B),
         Len(A) \in Nat, Len(B) \in Nat, whole \/ Len(B) >= 1,
         \A x \in Blanks(L, whole) : x <= Len(L) + 1,
         \A x \in Blanks(B, whole) : x <= Len(B) + 1
  PROVE  \A k \in Nat : (Len(A) + 1) + k \in Blanks(L, whole) <=> k \in Blanks(B, whole)
<1> SUFFICES ASSUME NEW k \in Nat
             PROVE  (Len(A) + 1) + k \in Blanks(L, whole) <=> k \in Blanks(B, whole)
  OBVIOUS
<1>1. PICK a \in Nat, b \in Nat : a = Len(A) /\ b = Len(B) /\ Len(L) = a + 1 + b
  BY DEF Separated
<1>2. /\ Len(L) + 1 \in Blanks(L, whole) <=> whole
      /\ \A i \in 1..Len(L) :
           i \in Blanks(L, whole) <=> L[i] = <<>> /\ (i < Len(L) \/ whole)
  BY <1>1, BlanksAre
<1>3. /\ 0 \in Blanks(B, whole)
      /\ Len(B) + 1 \in Blanks(B, whole) <=> whole
      /\ \A i \in 1..Len(B) : i \in Blanks(B, whole) <=> B[i] = <<>> /\ (i < Len(B) \/ whole)
  BY BlanksAre
<1>4. CASE k = 0
  <2>1. a + 1 \in 1..Len(L) /\ (a + 1 < Len(L) \/ whole) /\ L[a + 1] = <<>>
    BY <1>1 DEF Separated
  <2>2. (Len(A) + 1) + k = a + 1
    BY <1>1, <1>4
  <2>3. a + 1 \in Blanks(L, whole)
    BY <1>2, <2>1
  <2>4. k \in Blanks(B, whole)
    BY <1>3, <1>4
  <2> QED
    BY <2>2, <2>3, <2>4
<1>5. CASE k \in 1..b
  <2>1. L[Len(A) + 1 + k] = B[k]
    BY <1>1, <1>5 DEF Separated
  <2>2. PICK n \in Nat : n = (Len(A) + 1) + k
    BY <1>1
  <2>3. n \in 1..Len(L) /\ (n < Len(L) <=> k < Len(B)) /\ L[n] = B[k]
    BY <1>1, <1>5, <2>1, <2>2
  <2>4. n \in Blanks(L, whole) <=> B[k] = <<>> /\ (k < Len(B) \/ whole)
    BY <1>2, <2>3
  <2>5. k \in Blanks(B, whole) <=> B[k] = <<>> /\ (k < Len(B) \/ whole)
    BY <1>1, <1>3, <1>5
  <2> QED
    BY <2>2, <2>4, <2>5
<1>6. CASE k = b + 1
  <2>1. a + 1 + k = Len(L) + 1
    BY <1>1, <1>6
  <2> QED
    BY <1>1, <1>2, <1>3, <1>6, <2>1
<1>7. CASE k > b + 1
  <2>1. ~(a + 1 + k <= Len(L) + 1) /\ ~(k <= Len(B) + 1)
    BY <1>1, <1>7
  <2> QED
    BY <1>1, <2>1
<1> QED
  BY <1>1, <1>4, <1>5, <1>6, <1>7

LEMMA RunsParts ==
  ASSUME NEW A, A \in Seq(Seq(Tokens)), NEW B, B \in Seq(Seq(Tokens)), NEW whole \in BOOLEAN,
         whole \/ B # <<>>
  PROVE  Runs((A ++ <<Blank>>) ++ B, whole) = Runs(A, TRUE) ++ Runs(B, whole)
<1>1. PICK one, C, D, L : one = <<Blank>> /\ C = A ++ one /\ D = one ++ B /\ L = C ++ B
  OBVIOUS
<1>2. /\ one \in Seq(Seq(Tokens)) /\ C \in Seq(Seq(Tokens)) /\ D \in Seq(Seq(Tokens))
      /\ L \in Seq(Seq(Tokens)) /\ L = A ++ D
  <2>1. one \in Seq(Seq(Tokens))
    BY <1>1, NoLine
  <2>2. C \in Seq(Seq(Tokens)) /\ D \in Seq(Seq(Tokens))
    BY <1>1, <2>1, Typed
  <2>3. L \in Seq(Seq(Tokens))
    BY <1>1, <2>2, Typed
  <2>4. (A ++ one) ++ B = A ++ (one ++ B)
    BY <2>1, Associative
  <2> QED
    BY <1>1, <2>1, <2>2, <2>3, <2>4
<1>3. Separated(L, A, B)
  BY <1>1, SeparatedBy
<1>4. PICK a \in Nat, b \in Nat :
        a = Len(A) /\ b = Len(B) /\ Len(L) = a + 1 + b /\ (whole \/ b >= 1) /\ Len(C) = a + 1
  <2>1. Len(A) \in Nat /\ Len(B) \in Nat /\ (B # <<>> => Len(B) >= 1)
    BY LenProperties, EmptySeq
  <2>2. Len(L) = Len(A) + 1 + Len(B)
    BY <1>3 DEF Separated
  <2>3. Len(L) = Len(C) + Len(B)
    <3>1. Follows(C ++ B, C, B)
      BY <1>2, Following
    <3> QED
      BY <1>1, <3>1 DEF Follows
  <2>4. Len(C) \in Nat
    BY <1>2, LenProperties
  <2> QED
    BY <2>1, <2>2, <2>3, <2>4
<1>5. PICK S, T, U : S = Blanks(L, whole) /\ T = Blanks(A, TRUE) /\ U = Blanks(B, whole)
  OBVIOUS
<1>6. /\ S \subseteq Nat /\ T \subseteq Nat /\ U \subseteq Nat
      /\ \A x \in S : x <= Len(L) + 1
      /\ \A x \in U : x <= Len(B) + 1
  BY <1>2, <1>5, BlanksNat
<1>7. a + 1 \in T
  BY <1>4, <1>5, BlanksAre
<1>8. \A i \in 0..(a + 1) : i \in S <=> i \in T
  BY <1>3, <1>4, <1>5, BlanksLeft
<1>9. \A k \in Nat : (a + 1) + k \in S <=> k \in U
  <2>1. Len(A) \in Nat /\ Len(B) \in Nat /\ (whole \/ Len(B) >= 1)
    BY <1>4
  <2>2. \A k \in Nat : (Len(A) + 1) + k \in Blanks(L, whole) <=> k \in Blanks(B, whole)
    BY <1>3, <1>5, <1>6, <2>1, BlanksRight
  <2> QED
    BY <1>4, <1>5, <2>2
<1>10. ASSUME NEW i \in 0..a PROVE RunAt(L, S, i) = RunAt(A, T, i)
  <2>1. SameAfter(S, T, i, a + 1)
    <3>1. AgreeUpTo(S, T, a + 1)
      BY <1>6, <1>7, <1>8 DEF AgreeUpTo
    <3>2. i \in Nat /\ i < a + 1
      OBVIOUS
    <3> QED
      BY ONLY <3>1, <3>2, AfterLeft
  <2>2. i \in S <=> i \in T
    BY <1>8
  <2>3. PICK m \in Nat : m = Min(After(S, i)) /\ i + 1 <= m /\ m <= a + 1
    BY <2>1 DEF SameAfter
  <2>4. Part(L, i + 1, m - 1) = Part(A, i + 1, m - 1)
    <3>1. Within(A, i + 1, m - 1)
      BY <1>4, <2>3 DEF Within
    <3> QED
      BY ONLY <3>1, <1>2, A \in Seq(Seq(Tokens)), PartLeft
  <2> QED
    BY ONLY <2>1, <2>2, <2>3, <2>4 DEF RunAt, SameAfter
<1>11. ASSUME NEW k \in 0..b PROVE RunAt(L, S, (a + 1) + k) = RunAt(B, U, k)
  <2>1. MovedAfter(S, U, k, a + 1)
    <3>1. AgreeFrom(S, U, a + 1)
      <4>1. PICK d \in Nat : d = a + 1
        OBVIOUS
      <4>2. \A x \in Nat : d + x \in S <=> x \in U
        BY <1>9, <4>1
      <4>3. AgreeFrom(S, U, d)
        BY ONLY <1>6, <4>2, d \in Nat DEF AgreeFrom
      <4> QED
        BY <4>1, <4>3
    <3>2. k \in Nat
      OBVIOUS
    <3> QED
      BY ONLY <3>1, <3>2, AfterRight
  <2>2. (a + 1) + k \in S <=> k \in U
    BY <1>9
  <2>3. CASE After(U, k) = {}
    BY ONLY <2>1, <2>3 DEF RunAt, MovedAfter
  <2>4. CASE After(U, k) # {}
    <3>1. PICK m \in Nat : m = Min(After(U, k)) /\ m > k /\ m <= b + 1
      BY <1>4, <1>6, <2>1, <2>4 DEF MovedAfter
    <3>2. Part(L, (a + 1) + (k + 1), (a + 1) + (m - 1)) = Part(B, k + 1, m - 1)
      <4>1. Within(B, k + 1, m - 1)
        BY <1>4, <3>1 DEF Within
      <4>2. Part(C ++ B, (a + 1) + (k + 1), (a + 1) + (m - 1)) = Part(B, k + 1, m - 1)
        <5>1. PICK d, u, v : d = a + 1 /\ u = k + 1 /\ v = m - 1
          OBVIOUS
        <5>2. d = Len(C) /\ Within(B, u, v)
          BY <1>4, <4>1, <5>1
        <5>3. Part(C ++ B, d + u, d + v) = Part(B, u, v)
          BY ONLY <1>2, <5>2, B \in Seq(Seq(Tokens)), PartRight
        <5> QED
          BY <5>1, <5>3
      <4> QED
        BY <1>1, <4>2
    <3>3. (a + 1) + (k + 1) = (a + 1) + k + 1 /\ (a + 1) + (m - 1) = (a + 1) + m - 1
      BY <3>1
    <3>4. Part(L, (a + 1) + k + 1, (a + 1) + m - 1) = Part(B, k + 1, m - 1)
      BY ONLY <3>2, <3>3
    <3>5. Min(After(S, (a + 1) + k)) = (a + 1) + m /\ After(S, (a + 1) + k) # {}
      BY <2>1, <2>4, <3>1 DEF MovedAfter
    <3>6. RunAt(L, S, (a + 1) + k) =
            IF (a + 1) + k \in S THEN Part(L, (a + 1) + k + 1, (a + 1) + m - 1) ELSE <<>>
      BY ONLY <3>5 DEF RunAt
    <3>7. RunAt(B, U, k) = IF k \in U THEN Part(B, k + 1, m - 1) ELSE <<>>
      BY ONLY <2>4, <3>1 DEF RunAt
    <3> QED
      BY ONLY <2>2, <3>4, <3>6, <3>7
  <2> QED
    BY <2>3, <2>4
<1>12. PICK P, Q, R : P = Runs(A, TRUE) /\ Q = Runs(B, whole) /\ R = Runs(L, whole)
  OBVIOUS
<1>13. /\ P \in Seq(Seq(Seq(Tokens))) /\ Len(P) = a + 1
       /\ \A i \in 1..(a + 1) : P[i] = RunAt(A, T, i - 1)
  BY <1>4, <1>5, <1>12, RunsType
<1>14. /\ Q \in Seq(Seq(Seq(Tokens))) /\ Len(Q) = b + 1
       /\ \A i \in 1..(b + 1) : Q[i] = RunAt(B, U, i - 1)
  BY <1>4, <1>5, <1>12, RunsType
<1>15. /\ R \in Seq(Seq(Seq(Tokens))) /\ Len(R) = a + 1 + b + 1
       /\ \A i \in 1..(a + 1 + b + 1) : R[i] = RunAt(L, S, i - 1)
  BY <1>2, <1>4, <1>5, <1>12, RunsType
<1>16. /\ P ++ Q \in Seq(Seq(Seq(Tokens))) /\ Len(P ++ Q) = Len(P) + Len(Q)
       /\ \A i \in 1..Len(P) : (P ++ Q)[i] = P[i]
       /\ \A i \in 1..Len(Q) : (P ++ Q)[Len(P) + i] = Q[i]
  <2>1. P \in Seq(Seq(Seq(Tokens))) /\ Q \in Seq(Seq(Seq(Tokens)))
    BY <1>13, <1>14
  <2> QED
    BY ONLY <2>1, Positions
<1>17. ASSUME NEW i \in 1..(a + 1 + b + 1) PROVE R[i] = (P ++ Q)[i]
  <2>1. CASE i <= a + 1
    <3>1. i - 1 \in 0..a /\ i \in 1..(a + 1)
      BY <2>1
    <3>2. R[i] = RunAt(L, S, i - 1) /\ P[i] = RunAt(A, T, i - 1)
      BY ONLY <1>13, <1>15, <3>1, i \in 1..(a + 1 + b + 1)
    <3>3. (P ++ Q)[i] = P[i]
      BY ONLY <1>13, <1>16, <3>1
    <3> QED
      BY <1>10, <3>1, <3>2, <3>3
  <2>2. CASE i > a + 1
    <3>1. PICK k \in 0..b : i = a + 1 + (k + 1)
      <4>1. i - (a + 2) \in 0..b /\ i = a + 1 + (i - (a + 2) + 1)
        BY <2>2
      <4> QED
        BY <4>1
    <3>2. i - 1 = (a + 1) + k /\ k + 1 \in 1..(b + 1) /\ k + 1 - 1 = k
      BY <3>1
    <3>3. R[i] = RunAt(L, S, (a + 1) + k)
      BY ONLY <1>15, <3>2, i \in 1..(a + 1 + b + 1)
    <3>4. Q[k + 1] = RunAt(B, U, k)
      BY ONLY <1>14, <3>2
    <3>5. (P ++ Q)[i] = Q[k + 1]
      BY ONLY <1>13, <1>14, <1>16, <3>1, <3>2
    <3> QED
      BY <1>11, <3>3, <3>4, <3>5
  <2> QED
    BY <2>1, <2>2
<1>18. Len(R) = Len(P ++ Q) /\ Len(R) = a + 1 + b + 1
  BY ONLY <1>13, <1>14, <1>15, <1>16
<1>19. R = P ++ Q
  <2>1. \A i \in 1..Len(R) : R[i] = (P ++ Q)[i]
    BY <1>17, <1>18
  <2>2. R \in Seq(Seq(Seq(Tokens))) /\ P ++ Q \in Seq(Seq(Seq(Tokens))) /\ Len(R) = Len(P ++ Q)
    BY <1>15, <1>16, <1>18
  <2> QED
    BY ONLY <2>1, <2>2, SeqEqual
<1> QED
  BY <1>1, <1>12, <1>19

-----------------------------------------------------------------------------
(* The images of the elements of s under f, one after the other.           *)
Images(s, f) == Joined(Len(s), [i \in DOMAIN s |-> f[s[i]]])

LEMMA ImagesType ==
  ASSUME NEW X, NEW Y, NEW f, f \in [X -> Seq(Y)], NEW s, s \in Seq(X)
  PROVE  Images(s, f) \in Seq(Y)
<1>1. PICK p : p = [i \in DOMAIN s |-> f[s[i]]]
  OBVIOUS
<1>2. PICK n \in Nat : n = Len(s) /\ DOMAIN s = 1..n
  BY LenProperties
<1>3. ASSUME NEW i \in 1..n PROVE p[i] \in Seq(Y)
  <2>1. s[i] \in X
    BY <1>2, ElementOfSeq
  <2> QED
    BY <1>1, <1>2, <2>1
<1>4. Joined(n, p) \in Seq(Y)
  BY ONLY <1>3, n \in Nat, JoinedType
<1> QED
  BY <1>1, <1>2, <1>4 DEF Images

LEMMA ImagesParts ==
  ASSUME NEW X, NEW Y, NEW f, f \in [X -> Seq(Y)], NEW a, a \in Seq(X), NEW b, b \in Seq(X)
  PROVE  Images(a ++ b, f) = Images(a, f) ++ Images(b, f)
<1>1. PICK c : c = a ++ b
  OBVIOUS
<1>2. c \in Seq(X) /\ Follows(c, a, b)
  BY <1>1, Following
<1>3. PICK m \in Nat, n \in Nat : m = Len(a) /\ n = Len(b) /\ Len(c) = m + n
  BY <1>2 DEF Follows
<1>4. DOMAIN a = 1..m /\ DOMAIN b = 1..n /\ DOMAIN c = 1..(m + n)
  BY <1>2, <1>3, LenProperties
<1>5. /\ \A i \in 1..m : c[i] = a[i]
      /\ \A i \in 1..n : c[m + i] = b[i]
  BY <1>2, <1>3 DEF Follows
<1>6. PICK p, q, r : /\ p = [i \in 1..m |-> f[a[i]]] /\ q = [i \in 1..n |-> f[b[i]]]
                     /\ r = [i \in 1..(m + n) |-> f[c[i]]]
  OBVIOUS
<1>7. ASSUME NEW i \in 1..(m + n) PROVE r[i] \in Seq(Y)
  <2>1. c[i] \in X
    BY <1>2, <1>3, ElementOfSeq
  <2> QED
    BY <1>6, <2>1
<1>8. ASSUME NEW i \in 1..n PROVE q[i] = r[m + i]
  <2>1. m + i \in 1..(m + n)
    OBVIOUS
  <2> QED
    BY <1>5, <1>6, <2>1
<1>9. Joined(m + n, r) = Joined(m, r) ++ Joined(n, q)
  <2>1. PICK k : k = m + n
    OBVIOUS
  <2>2. InTwo(k, m, n, r, q, Y)
    BY <1>7, <1>8, <2>1 DEF InTwo
  <2>3. Joined(k, r) = Joined(m, r) ++ Joined(n, q)
    BY ONLY <2>2, JoinedParts
  <2> QED
    BY <2>1, <2>3
<1>10. ASSUME NEW i \in 1..m PROVE r[i] = p[i]
  <2>1. i \in 1..(m + n)
    OBVIOUS
  <2> QED
    BY <1>5, <1>6, <2>1
<1>11. Joined(m, r) = Joined(m, p)
  BY ONLY <1>10, m \in Nat, JoinedSame
<1>12. Images(c, f) = Joined(m + n, r) /\ Images(a, f) = Joined(m, p) /\ Images(b, f) = Joined(n, q)
  BY <1>3, <1>4, <1>6 DEF Images
<1> QED
  BY <1>1, <1>9, <1>11, <1>12

LEMMA ImagesNone ==
  ASSUME NEW X, NEW f, NEW s, s \in Seq(X), \A i \in 1..Len(s) : f[s[i]] = <<>>
  PROVE  Images(s, f) = <<>>
<1>1. PICK p : p = [i \in DOMAIN s |-> f[s[i]]]
  OBVIOUS
<1>2. PICK n \in Nat : n = Len(s) /\ DOMAIN s = 1..n
  BY LenProperties
<1>3. \A i \in 1..n : p[i] = <<>>
  BY <1>1, <1>2
<1> DEFINE S == {k \in Nat : k <= n => Joined(k, p) = <<>>}
<1>4. 0 \in S
  BY JoinedStep
<1>5. ASSUME NEW k \in S PROVE k + 1 \in S
  <2> SUFFICES ASSUME k + 1 <= n PROVE Joined(k + 1, p) = <<>>
    OBVIOUS
  <2>1. Joined(k, p) = <<>> /\ p[k + 1] = <<>>
    BY <1>3
  <2>2. Joined(k + 1, p) = <<>> ++ <<>>
    BY <2>1, JoinedStep
  <2>3. <<>> \in Seq(X)
    BY EmptySeq
  <2>4. <<>> ++ <<>> = <<>>
    BY ONLY <2>3, Neutral
  <2> QED
    BY <2>2, <2>4
<1>6. S = Nat
  BY <1>4, <1>5, Induction
<1>7. Joined(n, p) = <<>>
  BY <1>6
<1> QED
  BY <1>1, <1>2, <1>7 DEF Images

LEMMA ImagesOne ==
  ASSUME NEW X, NEW Y, NEW f, f \in [X -> Seq(Y)], NEW e, e \in X, NEW one, one = <<e>>
  PROVE  Images(one, f) = f[e]
<1>1. Len(one) = 1 /\ DOMAIN one = 1..1 /\ one[1] = e
  OBVIOUS
<1>2. PICK p : p = [i \in DOMAIN one |-> f[one[i]]]
  OBVIOUS
<1>3. p[1] = f[e] /\ f[e] \in Seq(Y)
  BY <1>1, <1>2
<1>4. Joined(0 + 1, p) = Joined(0, p) ++ p[0 + 1] /\ Joined(0, p) = <<>>
  BY JoinedStep
<1>5. <<>> ++ f[e] = f[e]
  BY <1>3, Neutral
<1>6. Joined(1, p) = f[e]
  BY <1>3, <1>4, <1>5
<1> QED
  BY <1>1, <1>2, <1>6 DEF Images

LEMMA ImagesEmpty == ASSUME NEW f PROVE Images(<<>>, f) = <<>>
  BY JoinedStep DEF Images

LEMMA ImagesSame ==
  ASSUME NEW X, NEW s, s \in Seq(X), NEW f, NEW p, NEW n, n = Len(s),
         \A i \in 1..Len(s) : p[i] = f[s[i]]
  PROVE  Joined(n, p) = Images(s, f)
<1>1. PICK q : q = [i \in DOMAIN s |-> f[s[i]]]
  OBVIOUS
<1>2. n \in Nat /\ DOMAIN s = 1..n
  BY LenProperties
<1>3. \A i \in 1..n : p[i] = q[i]
  BY <1>1, <1>2
<1>4. Joined(n, p) = Joined(n, q)
  BY <1>2, <1>3, JoinedSame
<1> QED
  BY <1>1, <1>4 DEF Images

(* What is kept of the images of s under g.                                *)
Chosen(X, g, good) == [x \in X |-> IF g[x] \in good THEN <<g[x]>> ELSE <<>>]

LEMMA ChosenType ==
  ASSUME NEW X, NEW g, NEW good
  PROVE  Chosen(X, g, good) \in [X -> Seq(good)]
<1>1. ASSUME NEW x \in X PROVE Chosen(X, g, good)[x] \in Seq(good)
  <2>1. <<>> \in Seq(good)
    BY EmptySeq
  <2>2. g[x] \in good => <<g[x]>> \in Seq(good)
    OBVIOUS
  <2> QED
    BY <2>1, <2>2 DEF Chosen
<1> QED
  BY <1>1 DEF Chosen

LEMMA KeptImages ==
  ASSUME NEW X, NEW s, s \in Seq(X), NEW g, NEW good, NEW t, t = [i \in DOMAIN s |-> g[s[i]]]
  PROVE  Kept(t, good) = Images(s, Chosen(X, g, good))
<1>1. PICK n \in Nat : n = Len(s) /\ DOMAIN s = 1..n
  BY LenProperties
<1>2. t = [i \in 1..n |-> g[s[i]]]
  BY <1>1
<1>3. Len(t) = n /\ DOMAIN t = 1..n
  BY <1>2
<1>4. PICK p : p = [i \in DOMAIN t |-> IF t[i] \in good THEN <<t[i]>> ELSE <<>>]
  OBVIOUS
<1>5. ASSUME NEW i \in 1..Len(s) PROVE p[i] = Chosen(X, g, good)[s[i]]
  <2>1. s[i] \in X
    BY ElementOfSeq
  <2> QED
    BY <1>1, <1>2, <1>3, <1>4, <2>1 DEF Chosen
<1>6. Kept(t, good) = Joined(n, p)
  BY <1>3, <1>4 DEF Kept
<1>7. Joined(n, p) = Images(s, Chosen(X, g, good))
  BY <1>1, <1>5, ImagesSame
<1> QED
  BY <1>6, <1>7

LEMMA KeptChosen ==
  ASSUME NEW X, NEW s, s \in Seq(X), NEW good, NEW id, id = [x \in X |-> x]
  PROVE  Kept(s, good) = Images(s, Chosen(X, id, good))
<1>1. \A i \in 1..Len(s) : s[i] \in X
  BY ElementOfSeq
<1>2. s = [i \in DOMAIN s |-> id[s[i]]]
  BY <1>1, LenProperties
<1> QED
  BY <1>2, KeptImages

LEMMA KeptParts ==
  ASSUME NEW X, NEW a, a \in Seq(X), NEW b, b \in Seq(X), NEW good
  PROVE  Kept(a ++ b, good) = Kept(a, good) ++ Kept(b, good)
<1>1. PICK id : id = [x \in X |-> x]
  OBVIOUS
<1>2. PICK f : f = Chosen(X, id, good) /\ f \in [X -> Seq(good)]
  BY ChosenType
<1>3. \A s \in Seq(X) : Kept(s, good) = Images(s, f)
  BY <1>1, <1>2, KeptChosen
<1>4. a ++ b \in Seq(X)
  BY Typed
<1>5. Images(a ++ b, f) = Images(a, f) ++ Images(b, f)
  BY <1>2, ImagesParts, SMTT(30)
<1> QED
  BY <1>3, <1>4, <1>5

LEMMA KeptType ==
  ASSUME NEW X, NEW s, s \in Seq(X), NEW good
  PROVE  Kept(s, good) \in Seq(good)
<1>1. PICK id : id = [x \in X |-> x]
  OBVIOUS
<1>2. PICK f : f = Chosen(X, id, good) /\ f \in [X -> Seq(good)]
  BY ChosenType
<1>3. Kept(s, good) = Images(s, f)
  BY <1>1, <1>2, KeptChosen
<1> QED
  BY <1>2, <1>3, ImagesType

LEMMA KeptOne ==
  ASSUME NEW x, NEW good, NEW one, one = <<x>>
  PROVE  Kept(one, good) = IF x \in good THEN one ELSE <<>>
<1>1. PICK X, id : X = {x} /\ id = [y \in X |-> y]
  OBVIOUS
<1>2. one \in Seq(X) /\ x \in X
  BY <1>1
<1>3. Kept(one, good) = Images(one, Chosen(X, id, good))
  BY <1>1, <1>2, KeptChosen
<1>4. Images(one, Chosen(X, id, good)) = Chosen(X, id, good)[x]
  BY <1>2, ChosenType, ImagesOne
<1>5. Chosen(X, id, good)[x] = IF x \in good THEN <<x>> ELSE <<>>
  BY <1>1, <1>2 DEF Chosen
<1> QED
  BY <1>3, <1>4, <1>5

LEMMA KeptEmpty == ASSUME NEW good PROVE Kept(<<>>, good) = <<>>
  BY JoinedStep DEF Kept

LEMMA KeptAll ==
  ASSUME NEW X, NEW s, s \in Seq(X), NEW good, X \subseteq good
  PROVE  Kept(s, good) = s
<1> DEFINE S == {r \in Seq(X) : Kept(r, good) = r}
<1>1. <<>> \in S
  BY KeptEmpty, EmptySeq
<1>2. ASSUME NEW r \in S, NEW e \in X PROVE r ++ <<e>> \in S
  <2>1. PICK one : one = <<e>>
    OBVIOUS
  <2>2. one \in Seq(X) /\ r \in Seq(X)
    BY <2>1
  <2>3. Kept(r ++ one, good) = Kept(r, good) ++ Kept(one, good)
    BY <2>2, KeptParts
  <2>4. Kept(one, good) = one
    BY <2>1, KeptOne
  <2>5. r ++ one \in Seq(X)
    BY <2>2, Typed
  <2> QED
    BY <2>1, <2>3, <2>4, <2>5
<1>3. S \in SUBSET Seq(X)
  OBVIOUS
<1> HIDE DEF S
<1>4. S = Seq(X)
  BY <1>1, <1>2, <1>3, SeqInduction
<1> QED
  BY <1>4 DEF S

LEMMA KeptAgain ==
  ASSUME NEW X, NEW s, s \in Seq(X), NEW more, NEW good, good \subseteq more
  PROVE  Kept(Kept(s, more), good) = Kept(s, good)
<1> DEFINE S == {r \in Seq(X) : Kept(Kept(r, more), good) = Kept(r, good)}
<1>1. <<>> \in S
  BY KeptEmpty, EmptySeq
<1>2. ASSUME NEW r \in S, NEW e \in X PROVE r ++ <<e>> \in S
  <2>1. PICK one : one = <<e>>
    OBVIOUS
  <2>2. one \in Seq(X) /\ r \in Seq(X)
    BY <2>1
  <2>3. /\ Kept(r ++ one, good) = Kept(r, good) ++ Kept(one, good)
        /\ Kept(r ++ one, more) = Kept(r, more) ++ Kept(one, more)
    BY <2>2, KeptParts
  <2>4. Kept(r, more) \in Seq(more) /\ Kept(one, more) \in Seq(more)
    BY <2>2, KeptType
  <2>5. Kept(Kept(r, more) ++ Kept(one, more), good)
          = Kept(Kept(r, more), good) ++ Kept(Kept(one, more), good)
    BY <2>4, KeptParts
  <2>6. Kept(Kept(one, more), good) = Kept(one, good)
    <3>1. CASE e \in more
      BY <2>1, <3>1, KeptOne
    <3>2. CASE e \notin more
      <4>1. Kept(one, more) = <<>> /\ Kept(one, good) = <<>>
        BY <2>1, <3>2, KeptOne
      <4> QED
        BY <4>1, KeptEmpty
    <3> QED
      BY <3>1, <3>2
  <2>7. r ++ one \in Seq(X)
    BY <2>2, Typed
  <2> QED
    BY <2>1, <2>3, <2>5, <2>6, <2>7
<1>3. S \in SUBSET Seq(X)
  OBVIOUS
<1> HIDE DEF S
<1>4. S = Seq(X)
  BY <1>1, <1>2, <1>3, SeqInduction
<1> QED
  BY <1>4 DEF S

-----------------------------------------------------------------------------
(* Frames.  A blank line adds nothing to one; no line makes none.          *)
LEMMA FrameSame ==
  ASSUME NEW a, a \in Seq(Seq(Tokens)), NEW b, b \in Seq(Seq(Tokens)),
         Kept(a, DataLines) = Kept(b, DataLines), Kept(a, EventLines) = Kept(b, EventLines)
  PROVE  FrameOf[a] = FrameOf[b]
<1>1. PICK data, events : data = Kept(a, DataLines) /\ events = Kept(a, EventLines)
  OBVIOUS
<1>2. data = Kept(b, DataLines) /\ events = Kept(b, EventLines)
  BY <1>1
<1> QED
  BY <1>1, <1>2 DEF FrameOf

LEMMA KeptBlank ==
  ASSUME NEW fields, NEW one, one = <<Blank>>
  PROVE  Kept(one, Naming(fields)) = <<>>
<1>1. Blank \notin Naming(fields)
  BY DEF Blank, Naming
<1> QED
  BY <1>1, KeptOne

LEMMA FrameBlank ==
  ASSUME NEW a, a \in Seq(Seq(Tokens)), NEW one, one = <<Blank>>
  PROVE  FrameOf[one ++ a] = FrameOf[a] /\ FrameOf[a ++ one] = FrameOf[a]
<1>1. one \in Seq(Seq(Tokens))
  BY NoLine
<1>2. ASSUME NEW fields
      PROVE  Kept(one ++ a, Naming(fields)) = Kept(a, Naming(fields))
             /\ Kept(a ++ one, Naming(fields)) = Kept(a, Naming(fields))
  <2>1. PICK good, k : good = Naming(fields) /\ k = Kept(a, good)
    OBVIOUS
  <2>2. Kept(one, good) = <<>>
    BY <2>1, KeptBlank
  <2>3. Kept(one ++ a, good) = Kept(one, good) ++ k /\ Kept(a ++ one, good) = k ++ Kept(one, good)
    <3>1. /\ Kept(one ++ a, good) = Kept(one, good) ++ Kept(a, good)
          /\ Kept(a ++ one, good) = Kept(a, good) ++ Kept(one, good)
      BY ONLY <1>1, a \in Seq(Seq(Tokens)), KeptParts
    <3> QED
      BY <2>1, <3>1
  <2>4. k \in Seq(good)
    BY <2>1, KeptType
  <2>5. k ++ <<>> = k /\ <<>> ++ k = k
    BY ONLY <2>4, Neutral
  <2> QED
    BY <2>1, <2>2, <2>3, <2>5
<1>3. one ++ a \in Seq(Seq(Tokens)) /\ a ++ one \in Seq(Seq(Tokens))
  BY <1>1, Typed
<1> QED
  BY <1>2, <1>3, FrameSame DEF DataLines, EventLines

(* The frames that count, of runs of lines and of blocks.                  *)
CountOf == Chosen(Seq(Seq(Tokens)), FrameOf, Counting)
BlockFrame == [b \in Seq(Tokens) |-> FrameOf[Lines(b)]]
CountBlock == Chosen(Seq(Tokens), BlockFrame, Counting)

LEMMA CountType ==
  CountOf \in [Seq(Seq(Tokens)) -> Seq(Counting)] /\ CountBlock \in [Seq(Tokens) -> Seq(Counting)]
  BY ChosenType DEF CountOf, CountBlock

LEMMA LinesType ==
  ASSUME NEW s, s \in Seq(Tokens)
  PROVE  /\ Lines(s) \in Seq(Seq(Tokens)) /\ Lines(s) # <<>>
         /\ Blocks(s) \in Seq(Seq(Tokens)) /\ Blocks(s) # <<>>
         /\ Last(Blocks(s)) \in Seq(Tokens) /\ Whole(Last(Blocks(s)), Feeds)
  BY SplitType, Feeding

LEMMA CountBlockIs ==
  ASSUME NEW b, b \in Seq(Tokens)
  PROVE  CountBlock[b] = CountOf[Lines(b)]
<1>1. Lines(b) \in Seq(Seq(Tokens))
  BY LinesType
<1> QED
  BY <1>1 DEF CountBlock, CountOf, Chosen, BlockFrame

LEMMA CountSame ==
  ASSUME NEW a, a \in Seq(Seq(Tokens)), NEW b, b \in Seq(Seq(Tokens)), FrameOf[a] = FrameOf[b]
  PROVE  CountOf[a] = CountOf[b]
  BY DEF CountOf, Chosen

LEMMA CountNothing == CountOf[<<>>] = <<>> /\ <<>> \in Seq(Seq(Tokens)) /\ NoFrame \notin Counting
<1>1. <<>> \in Seq(Seq(Tokens))
  BY EmptySeq
<1>2. Kept(<<>>, DataLines) = <<>>
  BY KeptEmpty
<1>3. FrameOf[<<>>] = NoFrame
  BY <1>1, <1>2 DEF FrameOf
<1>4. NoFrame \notin Counting
  BY DEF Counting, FrameResult, NoFrame
<1> QED
  BY <1>1, <1>3, <1>4 DEF CountOf, Chosen

-----------------------------------------------------------------------------
(* A text without a blank line between two others is one frame, if it has  *)
(* ended, and none before that.                                            *)
LEMMA AllRunsEmpty ==
  ASSUME NEW given, given \in Seq(Seq(Tokens)), NEW whole \in BOOLEAN,
         \A i \in 0..Len(given) : RunAt(given, Blanks(given, whole), i) = <<>>
  PROVE  Images(Runs(given, whole), CountOf) = <<>>
<1>1. PICK runs : runs = Runs(given, whole)
  OBVIOUS
<1>2. /\ runs \in Seq(Seq(Seq(Tokens))) /\ Len(runs) = Len(given) + 1 /\ Len(given) \in Nat
      /\ \A i \in 1..(Len(given) + 1) : runs[i] = RunAt(given, Blanks(given, whole), i - 1)
  BY <1>1, RunsType
<1>3. ASSUME NEW i \in 1..Len(runs) PROVE CountOf[runs[i]] = <<>>
  <2>1. i - 1 \in 0..Len(given) /\ i \in 1..(Len(given) + 1)
    BY <1>2
  <2>2. runs[i] = <<>>
    BY <1>2, <2>1
  <2> QED
    BY <2>2, CountNothing
<1>4. Images(runs, CountOf) = <<>>
  BY <1>2, <1>3, ImagesNone
<1> QED
  BY <1>1, <1>4

LEMMA OneRun ==
  ASSUME NEW given, given \in Seq(Seq(Tokens)), NEW frame \in Seq(Counting),
         CountOf[RunAt(given, Blanks(given, TRUE), 0)] = frame,
         \A i \in 1..Len(given) : RunAt(given, Blanks(given, TRUE), i) = <<>>
  PROVE  Images(Runs(given, TRUE), CountOf) = frame
<1>1. PICK runs : runs = Runs(given, TRUE)
  OBVIOUS
<1>2. /\ runs \in Seq(Seq(Seq(Tokens))) /\ Len(runs) = Len(given) + 1 /\ Len(given) \in Nat
      /\ \A i \in 1..(Len(given) + 1) : runs[i] = RunAt(given, Blanks(given, TRUE), i - 1)
  BY <1>1, RunsType
<1>3. PICK n \in Nat : n = Len(given)
  BY <1>2
<1>4. PICK p, none : /\ p = [i \in 1..(n + 1) |-> CountOf[runs[i]]]
                     /\ none = [i \in 1..n |-> <<>>]
  OBVIOUS
<1>5. p[1] = frame
  <2>1. 1 \in 1..(n + 1) /\ 1 - 1 = 0
    OBVIOUS
  <2>2. runs[1] = RunAt(given, Blanks(given, TRUE), 0)
    BY <1>2, <1>3, <2>1
  <2> QED
    BY <1>4, <2>1, <2>2
<1>6. ASSUME NEW i \in 1..n PROVE p[1 + i] = <<>>
  <2>1. 1 + i \in 1..(n + 1) /\ (1 + i) - 1 = i
    OBVIOUS
  <2>2. runs[1 + i] = RunAt(given, Blanks(given, TRUE), i)
    BY <1>2, <1>3, <2>1
  <2>3. runs[1 + i] = <<>>
    BY <1>3, <2>2
  <2> QED
    BY <1>4, <2>1, <2>3, CountNothing
<1>7. \A i \in 1..(n + 1) : p[i] \in Seq(Counting)
  <2> SUFFICES ASSUME NEW i \in 1..(n + 1) PROVE p[i] \in Seq(Counting)
    OBVIOUS
  <2>1. CASE i = 1
    BY <1>5, <2>1
  <2>2. CASE i # 1
    <3>1. i - 1 \in 1..n /\ 1 + (i - 1) = i
      BY <2>2
    <3>2. p[i] = <<>>
      BY <1>6, <3>1
    <3> QED
      BY <3>2, EmptySeq
  <2> QED
    BY <2>1, <2>2
<1>8. Joined(n + 1, p) = Joined(1, p) ++ Joined(n, none)
  <2>1. PICK all : all = n + 1
    OBVIOUS
  <2>2. InTwo(all, 1, n, p, none, Counting)
    <3>1. all = 1 + n /\ \A i \in 1..all : p[i] \in Seq(Counting)
      BY <1>7, <2>1
    <3>2. \A i \in 1..n : none[i] = p[1 + i]
      BY <1>4, <1>6
    <3> QED
      BY ONLY <3>1, <3>2, n \in Nat DEF InTwo
  <2>3. Joined(all, p) = Joined(1, p) ++ Joined(n, none)
    BY ONLY <2>2, JoinedParts
  <2> QED
    BY <2>1, <2>3
<1>9. Joined(1, p) = frame
  <2>1. Joined(0 + 1, p) = Joined(0, p) ++ p[0 + 1] /\ Joined(0, p) = <<>>
    BY JoinedStep
  <2>2. <<>> ++ frame = frame
    BY Neutral
  <2> QED
    BY <1>5, <2>1, <2>2
<1>10. Joined(n, none) = <<>>
  <2>1. PICK f : f = [x \in {<<>>} |-> <<>>]
    OBVIOUS
  <2>2. none \in Seq({<<>>}) /\ Len(none) = n
    BY <1>4
  <2>3. \A i \in 1..Len(none) : f[none[i]] = <<>>
    BY <1>4, <2>1, <2>2
  <2>4. Images(none, f) = <<>>
    BY <2>2, <2>3, ImagesNone
  <2>5. \A i \in 1..Len(none) : none[i] = f[none[i]]
    BY <1>4, <2>1, <2>2
  <2>6. Joined(n, none) = Images(none, f)
    BY <2>2, <2>5, ImagesSame
  <2> QED
    BY <2>4, <2>6
<1>11. frame ++ <<>> = frame
  BY Neutral
<1>12. Images(runs, CountOf) = Joined(n + 1, p)
  <2>1. Len(runs) = n + 1 /\ \A i \in 1..Len(runs) : p[i] = CountOf[runs[i]]
    BY <1>2, <1>3, <1>4
  <2> QED
    BY <1>2, <2>1, ImagesSame
<1> QED
  BY <1>1, <1>8, <1>9, <1>10, <1>11, <1>12

(* The first run goes up to the first blank.                               *)
LEMMA RunFrom ==
  ASSUME NEW given, NEW S, S \subseteq Nat, NEW i, i \in S, NEW m, m \in S, m > i,
         \A j \in S : j > i => m <= j
  PROVE  RunAt(given, S, i) = Part(given, i + 1, m - 1)
<1>1. After(S, i) \subseteq Nat /\ m \in After(S, i) /\ \A j \in After(S, i) : m <= j
  BY DEF After
<1>2. Min(After(S, i)) = m
  BY <1>1, MinIs
<1> QED
  BY <1>1, <1>2 DEF RunAt

LEMMA NoPart ==
  ASSUME NEW s, s \in Seq(Seq(Tokens)), NEW n, n = Len(s)
  PROVE  Part(s, n + 1, n) = <<>>
<1>1. n \in Nat
  BY LenProperties
<1>2. PICK m : m = n + 1
  OBVIOUS
<1>3. Within(s, m, n)
  BY <1>1, <1>2 DEF Within
<1>4. IsPart(Part(s, m, n), s, m, n, Seq(Tokens))
  BY <1>3, PartIs
<1>5. Len(Part(s, m, n)) = 0 /\ Part(s, m, n) \in Seq(Seq(Tokens))
  BY <1>1, <1>2, <1>4 DEF IsPart
<1>6. Part(s, m, n) = <<>>
  BY <1>5, EmptySeq
<1> QED
  BY <1>2, <1>6

LEMMA AllPart ==
  ASSUME NEW s, s \in Seq(Seq(Tokens)), NEW n, n = Len(s)
  PROVE  Part(s, 1, n) = s
<1>1. n \in Nat
  BY LenProperties
<1>2. Within(s, 1, n)
  BY <1>1 DEF Within
<1>3. IsPart(Part(s, 1, n), s, 1, n, Seq(Tokens))
  BY <1>2, PartIs
<1>4. /\ Part(s, 1, n) \in Seq(Seq(Tokens)) /\ Len(Part(s, 1, n)) = n
      /\ \A k \in 1..n : Part(s, 1, n)[k] = s[k]
  BY <1>1, <1>3 DEF IsPart
<1> QED
  BY <1>4, SeqEqual

LEMMA OneFrame ==
  ASSUME NEW given, given \in Seq(Seq(Tokens)), given # <<>>, OnlyLast(given)
  PROVE  /\ Images(Runs(given, TRUE), CountOf) = CountOf[given]
         /\ Images(Runs(given, FALSE), CountOf) = <<>>
<1>1. PICK n \in Nat : n = Len(given) /\ n >= 1
  BY LenProperties, EmptySeq
<1>2. \A i \in 1..(n - 1) : given[i] # <<>>
  BY <1>1 DEF OnlyLast, Blank
<1>3. Images(Runs(given, FALSE), CountOf) = <<>>
  <2>1. PICK S : S = Blanks(given, FALSE)
    OBVIOUS
  <2>2. S \subseteq Nat /\ \A i \in S : i <= n + 1
    BY <1>1, <2>1, BlanksNat
  <2>3. /\ ~(n + 1 \in S)
        /\ \A i \in 1..n : i \in S <=> given[i] = <<>> /\ i < n
    BY <1>1, <2>1, BlanksAre
  <2>4. ASSUME NEW i \in S PROVE i = 0
    <3>1. i \in Nat /\ i <= n + 1
      BY <2>2
    <3>2. i \in 1..n => FALSE
      BY <1>2, <2>3
    <3> QED
      BY <2>3, <3>1, <3>2
  <2>5. ASSUME NEW i \in 0..n PROVE RunAt(given, S, i) = <<>>
    <3>1. After(S, i) = {}
      BY <2>4 DEF After
    <3> QED
      BY <3>1 DEF RunAt
  <2>6. \A i \in 0..Len(given) : RunAt(given, Blanks(given, FALSE), i) = <<>>
    BY <1>1, <2>1, <2>5
  <2> QED
    BY <2>6, AllRunsEmpty
<1>4. PICK S : S = Blanks(given, TRUE)
  OBVIOUS
<1>5. S \subseteq Nat /\ \A i \in S : i <= n + 1
  BY <1>1, <1>4, BlanksNat
<1>6. /\ 0 \in S /\ n + 1 \in S
      /\ \A i \in 1..n : i \in S <=> given[i] = <<>>
  BY <1>1, <1>4, BlanksAre
<1>7. ASSUME NEW i \in S PROVE i = 0 \/ i = n \/ i = n + 1
  <2>1. i \in Nat /\ i <= n + 1
    BY <1>5
  <2>2. ~(i \in 1..(n - 1))
    BY <1>2, <1>6
  <2> QED
    BY <1>1, <2>1, <2>2
<1>8. CountOf[given] \in Seq(Counting)
  BY CountType
<1>9. CASE given[n] = <<>>
  <2>1. n \in S
    BY <1>1, <1>6, <1>9
  <2>2. RunAt(given, S, 0) = Part(given, 1, n - 1)
    <3>1. n > 0 /\ \A j \in S : j > 0 => n <= j
      BY <1>1, <1>7
    <3>2. RunAt(given, S, 0) = Part(given, 0 + 1, n - 1)
      BY <1>5, <1>6, <2>1, <3>1, RunFrom
    <3> QED
      BY <3>2
  <2>3. Front(given) = Part(given, 1, n - 1)
    BY <1>1 DEF Front, Part
  <2>4. CountOf[Front(given)] = CountOf[given]
    <3>1. Last(given) = Blank
      BY <1>1, <1>9 DEF Last, Blank
    <3>2. Front(given) \in Seq(Seq(Tokens)) /\ given = Front(given) ++ <<Last(given)>>
      BY FrontAndLast
    <3>3. PICK one, front : one = <<Blank>> /\ front = Front(given)
      OBVIOUS
    <3>4. front \in Seq(Seq(Tokens)) /\ given = front ++ one
      BY <3>1, <3>2, <3>3
    <3>5. FrameOf[given] = FrameOf[front]
      BY <3>3, <3>4, FrameBlank
    <3>6. CountOf[given] = CountOf[front]
      BY <3>4, <3>5, CountSame
    <3> QED
      BY <3>3, <3>6
  <2>5. ASSUME NEW i \in 1..n PROVE RunAt(given, S, i) = <<>>
    <3>1. CASE i < n
      <4>1. i \notin S
        BY <1>1, <1>7, <3>1, SMTT(30)
      <4> QED
        BY <4>1 DEF RunAt
    <3>2. CASE i = n
      <4>1. RunAt(given, S, n) = Part(given, n + 1, (n + 1) - 1)
        <5>1. PICK m : m = n + 1
          OBVIOUS
        <5>2. m \in S /\ m > n /\ \A j \in S : j > n => m <= j
          BY <1>1, <1>6, <1>7, <5>1
        <5>3. RunAt(given, S, n) = Part(given, n + 1, m - 1)
          BY <1>5, <2>1, <5>2, RunFrom
        <5> QED
          BY <5>1, <5>3
      <4>2. (n + 1) - 1 = n
        OBVIOUS
      <4>3. Part(given, n + 1, n) = <<>>
        BY <1>1, NoPart
      <4> QED
        BY <3>2, <4>1, <4>2, <4>3
    <3> QED
      BY <3>1, <3>2
  <2>6. CountOf[RunAt(given, Blanks(given, TRUE), 0)] = CountOf[given]
    BY ONLY <1>4, <2>2, <2>3, <2>4
  <2>7. \A i \in 1..Len(given) : RunAt(given, Blanks(given, TRUE), i) = <<>>
    BY <1>1, <1>4, <2>5
  <2> QED
    BY <1>3, <1>8, <2>6, <2>7, OneRun
<1>10. CASE given[n] # <<>>
  <2>1. n \notin S
    BY <1>1, <1>6, <1>10
  <2>2. RunAt(given, S, 0) = given
    <3>1. PICK m : m = n + 1
      OBVIOUS
    <3>2. m \in S /\ m > 0 /\ \A j \in S : j > 0 => m <= j
      BY <1>1, <1>6, <1>7, <2>1, <3>1
    <3>3. RunAt(given, S, 0) = Part(given, 0 + 1, m - 1)
      BY <1>5, <1>6, <3>2, RunFrom
    <3>4. m - 1 = n
      BY <3>1
    <3>5. Part(given, 1, n) = given
      BY <1>1, AllPart
    <3> QED
      BY <3>3, <3>4, <3>5
  <2>3. ASSUME NEW i \in 1..n PROVE RunAt(given, S, i) = <<>>
    <3>1. i \notin S
      BY <1>1, <1>7, <2>1
    <3> QED
      BY <3>1 DEF RunAt
  <2>4. CountOf[RunAt(given, Blanks(given, TRUE), 0)] = CountOf[given]
    BY <1>4, <2>2
  <2>5. \A i \in 1..Len(given) : RunAt(given, Blanks(given, TRUE), i) = <<>>
    BY <1>1, <1>4, <2>3
  <2> QED
    BY <1>3, <1>8, <2>4, <2>5, OneRun
<1> QED
  BY <1>9, <1>10

-----------------------------------------------------------------------------
(* The counting frames of the runs of a text are those of its blocks.      *)
LEMMA CountBlockParts ==
  ASSUME NEW a, a \in Seq(Seq(Tokens)), NEW b, b \in Seq(Seq(Tokens))
  PROVE  /\ Images(a ++ b, CountBlock) = Images(a, CountBlock) ++ Images(b, CountBlock)
         /\ Images(a, CountBlock) \in Seq(Counting)
<1>1. PICK f, X, Y : f = CountBlock /\ X = Seq(Tokens) /\ Y = Counting
  OBVIOUS
<1>2. f \in [X -> Seq(Y)]
  BY <1>1, CountType
<1>3. a \in Seq(X) /\ b \in Seq(X)
  BY <1>1
<1>4. Images(a ++ b, f) = Images(a, f) ++ Images(b, f)
  BY ONLY <1>2, <1>3, ImagesParts
<1>5. Images(a, f) \in Seq(Y)
  BY ONLY <1>2, <1>3, ImagesType
<1> QED
  BY <1>1, <1>4, <1>5

LEMMA CountBlockOne ==
  ASSUME NEW b, b \in Seq(Tokens), NEW one, one = <<b>>
  PROVE  Images(one, CountBlock) = CountBlock[b]
<1>1. PICK f, X, Y : f = CountBlock /\ X = Seq(Tokens) /\ Y = Counting
  OBVIOUS
<1>2. f \in [X -> Seq(Y)] /\ b \in X
  BY <1>1, CountType
<1>3. Images(one, f) = f[b]
  BY ONLY <1>2, one = <<b>>, ImagesOne
<1> QED
  BY <1>1, <1>3

(* A block is one frame.                                                   *)
RunFrames(given, whole) == Images(Runs(given, whole), CountOf)

LEMMA RunFramesParts ==
  ASSUME NEW A, A \in Seq(Seq(Tokens)), NEW B, B \in Seq(Seq(Tokens)), NEW whole \in BOOLEAN,
         whole \/ B # <<>>
  PROVE  RunFrames((A ++ <<Blank>>) ++ B, whole) = RunFrames(A, TRUE) ++ RunFrames(B, whole)
<1>1. Runs((A ++ <<Blank>>) ++ B, whole) = Runs(A, TRUE) ++ Runs(B, whole)
  BY RunsParts
<1>2. PICK P, Q : P = Runs(A, TRUE) /\ Q = Runs(B, whole)
  OBVIOUS
<1>3. P \in Seq(Seq(Seq(Tokens))) /\ Q \in Seq(Seq(Seq(Tokens)))
  BY <1>2, RunsType
<1>4. Images(P ++ Q, CountOf) = Images(P, CountOf) ++ Images(Q, CountOf)
  <2>1. PICK f, X : f = CountOf /\ X = Seq(Seq(Tokens)) /\ f \in [X -> Seq(Counting)]
    BY CountType
  <2>2. P \in Seq(X) /\ Q \in Seq(X)
    BY <1>3, <2>1
  <2>3. Images(P ++ Q, f) = Images(P, f) ++ Images(Q, f)
    BY ONLY <2>1, <2>2, ImagesParts, SMTT(30)
  <2> QED
    BY <2>1, <2>3
<1> QED
  BY <1>1, <1>2, <1>4 DEF RunFrames

LEMMA RunFramesOne ==
  ASSUME NEW s, s \in Seq(Tokens), Whole(s, Feeds), s = <<>> \/ s[1] # "LF"
  PROVE  RunFrames(Lines(s), TRUE) = CountOf[Lines(s)] /\ RunFrames(Lines(s), FALSE) = <<>>
  BY LinesType, LinesWhole, OneFrame DEF RunFrames

LEMMA NoLines == RunFrames(<<>>, TRUE) = <<>>
<1>1. PICK none : none = <<>> /\ none \in Seq(Seq(Tokens)) /\ Len(none) = 0
  BY EmptySeq
<1>2. none \in Seq(Seq(Tokens)) /\ Len(none) = 0
  BY <1>1
<1>3. PICK S : S = Blanks(none, TRUE)
  OBVIOUS
<1>4. S \subseteq Nat /\ \A j \in S : j <= Len(none) + 1
  BY ONLY <1>2, <1>3, BlanksNat
<1>5. 0 \in S /\ Len(none) + 1 \in S
  <2>1. Len(none) \in Nat
    BY <1>2
  <2> QED
    BY ONLY <1>3, <2>1, BlanksAre
<1>6. PICK m : m = 1
  OBVIOUS
<1>7. m \in S /\ m > 0 /\ \A j \in S : j > 0 => m <= j
  BY <1>2, <1>4, <1>5, <1>6
<1>8. RunAt(none, S, 0) = Part(none, 0 + 1, m - 1)
  BY ONLY <1>4, <1>5, <1>7, RunFrom
<1>9. PICK n : n = 0 /\ n = Len(none)
  BY <1>2
<1>10. Part(none, n + 1, n) = <<>>
  BY ONLY <1>2, <1>9, NoPart
<1>11. m - 1 = n /\ 0 + 1 = n + 1
  BY ONLY <1>6, <1>9
<1>12. RunAt(none, S, 0) = <<>>
  BY ONLY <1>8, <1>10, <1>11
<1>13. ASSUME NEW i \in 0..Len(none) PROVE RunAt(none, Blanks(none, TRUE), i) = <<>>
  <2>1. i = 0
    BY <1>2
  <2> QED
    BY ONLY <1>3, <1>12, <2>1
<1>14. Images(Runs(none, TRUE), CountOf) = <<>>
  BY ONLY <1>2, <1>13, AllRunsEmpty
<1> QED
  BY ONLY <1>1, <1>14 DEF RunFrames

LEMMA StartsWithFeed ==
  ASSUME NEW s, s \in Seq(Tokens), s # <<>>, s[1] = "LF"
  PROVE  \E t \in Seq(Tokens) : s = Feed ++ t
<1>1. Head(s) = s[1] /\ Tail(s) \in Seq(Tokens) /\ s = <<Head(s)>> \o Tail(s)
  BY HeadTailProperties
<1> QED
  BY <1>1 DEF Feed, ++

LEMMA BlockFrames ==
  ASSUME NEW s, s \in Seq(Tokens), Whole(s, Feeds)
  PROVE  RunFrames(Lines(s), TRUE) = CountBlock[s] /\ RunFrames(Lines(s), FALSE) = <<>>
<1>1. CASE s = <<>> \/ s[1] # "LF"
  BY <1>1, RunFramesOne, CountBlockIs
<1>2. CASE s # <<>> /\ s[1] = "LF"
  <2>1. PICK t \in Seq(Tokens) : s = Feed ++ t
    BY <1>2, StartsWithFeed
  <2>2. PICK none : none = <<>> /\ none \in Seq(Tokens)
    BY EmptySeq
  <2>3. s = (none ++ Feed) ++ t
    BY <2>1, <2>2, Neutral, Feeding
  <2>4. Whole(t, Feeds) /\ (t = <<>> \/ t[1] # "LF")
    BY <2>2, <2>3, SuffixWhole
  <2>5. PICK one, L : one = <<Blank>> /\ L = Lines(t)
    OBVIOUS
  <2>6. L \in Seq(Seq(Tokens)) /\ L # <<>> /\ one \in Seq(Seq(Tokens)) /\ Lines(none) = one
    BY <2>2, <2>5, LinesType, NoLine
  <2>7. Lines(s) = one ++ L
    BY <2>2, <2>3, <2>5, <2>6, LinesParts
  <2>8. RunFrames(L, TRUE) = CountOf[L] /\ RunFrames(L, FALSE) = <<>>
    BY <2>4, <2>5, RunFramesOne
  <2>9. ASSUME NEW whole \in BOOLEAN PROVE RunFrames(one ++ L, whole) = RunFrames(L, whole)
    <3>1. PICK A : A = <<>> /\ A \in Seq(Seq(Tokens)) /\ RunFrames(A, TRUE) = <<>>
      BY NoLines, EmptySeq
    <3>2. RunFrames((A ++ one) ++ L, whole) = RunFrames(A, TRUE) ++ RunFrames(L, whole)
      <4>1. A \in Seq(Seq(Tokens)) /\ L \in Seq(Seq(Tokens)) /\ (whole \/ L # <<>>)
        BY <2>6, <3>1
      <4>2. one = <<Blank>>
        BY <2>5
      <4>3. RunFrames((A ++ <<Blank>>) ++ L, whole) = RunFrames(A, TRUE) ++ RunFrames(L, whole)
        BY <4>1, RunFramesParts
      <4> QED
        BY ONLY <4>2, <4>3
    <3>3. A ++ one = one
      BY ONLY <2>6, <3>1, Neutral
    <3>4. RunFrames(L, whole) \in Seq(Counting)
      BY <2>6, RunsType, CountType, ImagesType DEF RunFrames
    <3>5. <<>> ++ RunFrames(L, whole) = RunFrames(L, whole)
      BY ONLY <3>4, Neutral
    <3> QED
      BY <3>1, <3>2, <3>3, <3>5
  <2>10. CountOf[one ++ L] = CountOf[L]
    <3>1. FrameOf[one ++ L] = FrameOf[L]
      BY <2>5, <2>6, FrameBlank
    <3>2. one ++ L \in Seq(Seq(Tokens))
      BY <2>6, Typed
    <3> QED
      BY <2>6, <3>1, <3>2, CountSame
  <2> QED
    BY <2>7, <2>8, <2>9, <2>10, CountBlockIs
<1> QED
  BY <1>1, <1>2

(* The frames of a text are those of its blocks; the last block is one     *)
(* only when the text has ended.                                           *)
FramesAreBlocks(s) ==
  /\ RunFrames(Lines(s), TRUE) = Images(Blocks(s), CountBlock)
  /\ RunFrames(Lines(s), FALSE) = Images(Front(Blocks(s)), CountBlock)

LEMMA EndedIsWhole ==
  ASSUME NEW h, h \in Seq(Tokens), Ended(h, Feeds)
  PROVE  Whole(h, Feeds)
<1>1. ASSUME NEW i \in Nat, Stands(h, i, Feeds) PROVE FALSE
  <2>1. PICK m \in Nat : m = Len(h)
    BY LenProperties
  <2>2. i \in 1..(m - 1) /\ h[i] = "LF" /\ h[i + 1] = "LF"
    BY <1>1, <2>1, Feeding DEF Stands
  <2>3. Follows(h ++ Feeds, h, Feeds)
    BY Feeding, Following
  <2>4. Len(Feeds) = 2
    BY DEF Feeds
  <2>5. PICK c : c = h ++ Feeds
    OBVIOUS
  <2>6. Len(c) = m + 2 /\ \A k \in 1..m : c[k] = h[k]
    BY <2>1, <2>3, <2>4, <2>5 DEF Follows
  <2>7. i \in 1..m /\ i + 1 \in 1..m
    BY <2>2
  <2>8. c[i] = "LF" /\ c[i + 1] = "LF" /\ i \in 1..(Len(c) - 1)
    BY <2>2, <2>6, <2>7
  <2>9. Stands(c, i, Feeds)
    BY <2>8, Feeding DEF Stands
  <2> QED
    BY <2>1, <2>5, <2>7, <2>9 DEF Ended
<1> QED
  BY <1>1 DEF Whole

LEMMA TextFrames ==
  ASSUME NEW s, s \in Seq(Tokens)
  PROVE  FramesAreBlocks(s)
<1> DEFINE S == {r \in Seq(Tokens) : FramesAreBlocks(r)}
<1>1. ASSUME NEW r \in Seq(Tokens), \A t \in Seq(Tokens) : Len(t) < Len(r) => t \in S
      PROVE  r \in S
  <2>1. CASE Whole(r, Feeds)
    <3>1. PICK one : one = <<r>>
      OBVIOUS
    <3>2. Blocks(r) = one
      BY <2>1, <3>1, SplitWhole, Feeding
    <3>3. Images(one, CountBlock) = CountBlock[r]
      BY <3>1, CountBlockOne
    <3>4. Front(one) = <<>>
      BY <3>1 DEF Front
    <3>5. Images(<<>>, CountBlock) = <<>>
      BY ImagesEmpty
    <3> QED
      BY <2>1, <3>2, <3>3, <3>4, <3>5, BlockFrames DEF FramesAreBlocks
  <2>2. CASE ~Whole(r, Feeds)
    <3>1. PICK h \in Seq(Tokens), t \in Seq(Tokens) :
            r = (h ++ Feeds) ++ t /\ Ended(h, Feeds) /\ Len(t) < Len(r)
      BY <2>2, CutExists
    <3>2. FramesAreBlocks(t)
      BY <1>1, <3>1
    <3>3. Whole(h, Feeds)
      BY <3>1, EndedIsWhole
    <3>4. PICK one, H, L, B : one = <<h>> /\ H = Lines(h) /\ L = Lines(t) /\ B = Blocks(t)
      OBVIOUS
    <3>5. /\ one \in Seq(Seq(Tokens)) /\ H \in Seq(Seq(Tokens))
          /\ L \in Seq(Seq(Tokens)) /\ L # <<>>
          /\ B \in Seq(Seq(Tokens)) /\ B # <<>> /\ Front(B) \in Seq(Seq(Tokens))
      <4>1. B \in Seq(Seq(Tokens)) /\ B # <<>>
        BY <3>4, LinesType
      <4>2. Front(B) \in Seq(Seq(Tokens))
        BY ONLY <4>1, FrontAndLast
      <4>3. one \in Seq(Seq(Tokens))
        BY <3>4
      <4>4. H \in Seq(Seq(Tokens)) /\ L \in Seq(Seq(Tokens)) /\ L # <<>>
        BY <3>4, LinesType
      <4> QED
        BY <4>1, <4>2, <4>3, <4>4
    <3>6. Lines(r) = (H ++ <<Blank>>) ++ L
      BY <3>1, <3>4, LinesBlocks
    <3>7. Blocks(r) = one ++ B
      BY <3>1, <3>4, SplitCut, Feeding
    <3>8. Front(one ++ B) = one ++ Front(B)
      BY ONLY <3>5, FrontOfConcat
    <3>9. Images(one, CountBlock) = RunFrames(H, TRUE)
      <4>1. RunFrames(H, TRUE) = CountBlock[h]
        BY <3>3, <3>4, BlockFrames
      <4>2. Images(one, CountBlock) = CountBlock[h]
        BY <3>4, CountBlockOne
      <4> QED
        BY <4>1, <4>2
    <3>10. ASSUME NEW c \in Seq(Seq(Tokens))
           PROVE  Images(one ++ c, CountBlock) = RunFrames(H, TRUE) ++ Images(c, CountBlock)
      <4>1. Images(one ++ c, CountBlock) = Images(one, CountBlock) ++ Images(c, CountBlock)
        BY <3>5, CountBlockParts
      <4> QED
        BY <3>9, <4>1
    <3>11. \A whole \in BOOLEAN :
             RunFrames((H ++ <<Blank>>) ++ L, whole) = RunFrames(H, TRUE) ++ RunFrames(L, whole)
      BY ONLY <3>5, RunFramesParts
    <3>12. RunFrames(Lines(r), TRUE) = Images(Blocks(r), CountBlock)
      <4>1. RunFrames(L, TRUE) = Images(B, CountBlock)
        BY <3>2, <3>4 DEF FramesAreBlocks
      <4> QED
        BY <3>5, <3>6, <3>7, <3>10, <3>11, <4>1
    <3>13. RunFrames(Lines(r), FALSE) = Images(Front(Blocks(r)), CountBlock)
      <4>1. RunFrames(L, FALSE) = Images(Front(B), CountBlock)
        BY <3>2, <3>4 DEF FramesAreBlocks
      <4> QED
        BY <3>5, <3>6, <3>7, <3>8, <3>10, <3>11, <4>1
    <3> QED
      BY <3>12, <3>13 DEF FramesAreBlocks
  <2> QED
    BY <2>1, <2>2
<1>2. S \in SUBSET Seq(Tokens)
  OBVIOUS
<1> HIDE DEF S
<1>3. S = Seq(Tokens)
  BY <1>1, <1>2, LengthInduction
<1> QED
  BY <1>3 DEF S

-----------------------------------------------------------------------------
(* Bytes to characters, and line ends.  Where a first half stands before   *)
(* its second and a CR before LF, only the end of a text is open: the rest *)
(* becomes, token by token, what SubstOf and CleanOf say.                  *)
Plain == Tokens \ {"CR"}
SubstOf == [t \in Tokens |-> IF t = "d1" THEN <<>> ELSE IF t = "d2" THEN <<"data">> ELSE <<t>>]
CleanOf == [t \in Tokens |-> IF t = "CR" THEN <<>> ELSE SubstOf[t]]

HalvesPaired(z) ==
  \A i \in 1..Len(z) : /\ z[i] = "d1" => i = Len(z) \/ z[i + 1] = "d2"
                       /\ z[i] = "d2" => i > 1 /\ z[i - 1] = "d1"
EndsPaired(z) == \A i \in 1..Len(z) : z[i] = "CR" => i = Len(z) \/ z[i + 1] = "LF"

EndsCR(c) == c # <<>> /\ Last(c) = "CR"
OpenEnd(c) == IF EndsCR(c) THEN <<"CR">> ELSE <<>>
Lost(z) == IF Held(z) = <<>> THEN <<>> ELSE <<"?">>

LEMMA SubstType ==
  /\ SubstOf \in [Tokens -> Seq(Tokens)] /\ CleanOf \in [Tokens -> Seq(Plain)]
  /\ Seq(Plain) \subseteq Seq(Tokens)
<1>1. ASSUME NEW t \in Tokens PROVE SubstOf[t] \in Seq(Tokens) /\ CleanOf[t] \in Seq(Plain)
  <2>1. "data" \in Plain /\ "data" \in Tokens
    BY DEF Plain, Tokens, Fields
  <2>2. <<>> \in Seq(Tokens) /\ <<>> \in Seq(Plain)
    BY EmptySeq
  <2>3. CASE t = "CR"
    BY <2>2, <2>3 DEF SubstOf, CleanOf
  <2>4. CASE t = "d1"
    BY <2>2, <2>4 DEF SubstOf, CleanOf
  <2>5. CASE t = "d2"
    BY <2>1, <2>5 DEF SubstOf, CleanOf
  <2>6. CASE t \notin {"CR", "d1", "d2"}
    <3>1. t \in Plain
      BY <2>6 DEF Plain
    <3> QED
      BY <2>6, <3>1 DEF SubstOf, CleanOf
  <2> QED
    BY <2>3, <2>4, <2>5, <2>6
<1>2. Seq(Plain) \subseteq Seq(Tokens)
  BY SeqMonotonic DEF Plain
<1> QED
  BY <1>1, <1>2 DEF SubstOf, CleanOf

LEMMA SubstCases ==
  ASSUME NEW t \in Tokens
  PROVE  /\ t = "d1" => SubstOf[t] = <<>> /\ CleanOf[t] = <<>>
         /\ t = "CR" => SubstOf[t] = <<"CR">> /\ CleanOf[t] = <<>>
         /\ t \notin {"d1", "CR"} => \E x \in Tokens :
              /\ x # "CR" /\ (x = "LF" <=> t = "LF")
              /\ SubstOf[t] = <<x>> /\ CleanOf[t] = <<x>>
<1>1. CASE t \in {"d1", "CR"}
  BY <1>1 DEF SubstOf, CleanOf
<1>2. CASE t = "d2"
  <2>1. "data" \in Tokens
    BY DEF Tokens, Fields
  <2>2. SubstOf[t] = <<"data">> /\ CleanOf[t] = <<"data">>
    BY <1>2 DEF SubstOf, CleanOf
  <2> QED
    BY <1>2, <2>1, <2>2
<1>3. CASE t \notin {"d1", "CR", "d2"}
  <2>1. SubstOf[t] = <<t>> /\ CleanOf[t] = <<t>>
    BY <1>3 DEF SubstOf, CleanOf
  <2> QED
    BY <1>3, <2>1
<1> QED
  BY <1>1, <1>2, <1>3

LEMMA CharsAre ==
  ASSUME NEW z, z \in Seq(Tokens), HalvesPaired(z)
  PROVE  Chars(z) = Images(z, SubstOf) ++ Lost(z)
<1>1. PICK n \in Nat : n = Len(z) /\ DOMAIN z = 1..n
  BY LenProperties
<1> DEFINE Char(i) == IF Pair(z, i, "d1", "d2") THEN <<>>
                      ELSE IF Pair(z, i - 1, "d1", "d2") THEN <<"data">>
                      ELSE IF z[i] \in {"d1", "d2"} THEN <<"?">> ELSE <<z[i]>>
<1>2. PICK p : p = [i \in 1..n |-> Char(i)]
  OBVIOUS
<1>3. PICK q : q = [i \in 1..n |-> SubstOf[z[i]]]
  OBVIOUS
<1>4. Chars(z) = Joined(n, p) /\ Images(z, SubstOf) = Joined(n, q)
  BY <1>1, <1>2, <1>3 DEF Chars, Images
<1>5. ASSUME NEW i \in 1..n PROVE z[i] \in Tokens
  BY <1>1, ElementOfSeq
<1>6. ASSUME NEW i \in 1..n, ~(i = n /\ z[i] = "d1") PROVE p[i] = q[i]
  <2>1. p[i] = Char(i) /\ q[i] = SubstOf[z[i]] /\ z[i] \in Tokens
    BY <1>2, <1>3, <1>5
  <2>2. CASE z[i] = "d1"
    <3>1. i \in 1..(Len(z) - 1) /\ z[i + 1] = "d2"
      BY <1>1, <1>6, <2>2 DEF HalvesPaired
    <3>2. Pair(z, i, "d1", "d2")
      BY <2>2, <3>1 DEF Pair
    <3> QED
      BY <2>1, <2>2, <3>2 DEF SubstOf
  <2>3. CASE z[i] = "d2"
    <3>1. i > 1 /\ z[i - 1] = "d1"
      BY <1>1, <2>3 DEF HalvesPaired
    <3>2. i - 1 \in 1..(Len(z) - 1) /\ (i - 1) + 1 = i
      BY <1>1, <3>1
    <3>3. Pair(z, i - 1, "d1", "d2") /\ ~Pair(z, i, "d1", "d2")
      BY <2>3, <3>1, <3>2 DEF Pair
    <3> QED
      BY <2>1, <2>3, <3>3 DEF SubstOf
  <2>4. CASE z[i] \notin {"d1", "d2"}
    <3>1. ~Pair(z, i - 1, "d1", "d2")
      <4>1. (i - 1) + 1 = i
        OBVIOUS
      <4> QED
        BY <2>4, <4>1 DEF Pair
    <3>2. ~Pair(z, i, "d1", "d2")
      BY <2>4 DEF Pair
    <3> QED
      BY <2>1, <2>4, <3>1, <3>2 DEF SubstOf
  <2> QED
    BY <2>2, <2>3, <2>4
<1>7. \A i \in 1..n : q[i] \in Seq(Tokens)
  BY <1>3, <1>5, SubstType
<1>8. Joined(n, q) \in Seq(Tokens)
  BY <1>7, JoinedType
<1>9. CASE n = 0 \/ z[n] # "d1"
  <2>1. \A i \in 1..n : p[i] = q[i]
    BY <1>6, <1>9
  <2>2. Joined(n, p) = Joined(n, q)
    BY <2>1, JoinedSame
  <2>3. Lost(z) = <<>>
    <3>1. z = <<>> \/ Last(z) # "d1"
      BY <1>1, <1>9, EmptySeq DEF Last
    <3> QED
      BY <3>1 DEF Lost, Held
  <2>4. Joined(n, q) ++ <<>> = Joined(n, q)
    BY ONLY <1>8, Neutral
  <2> QED
    BY <1>4, <2>2, <2>3, <2>4
<1>10. CASE n # 0 /\ z[n] = "d1"
  <2>1. PICK m \in Nat : n = m + 1
    <3>1. n - 1 \in Nat /\ n = (n - 1) + 1
      BY <1>10
    <3> QED
      BY <3>1
  <2>2. \A i \in 1..m : p[i] = q[i]
    BY <1>6, <2>1
  <2>3. Joined(m, p) = Joined(m, q)
    BY <2>2, JoinedSame
  <2>4. q[n] = <<>> /\ p[n] = <<"?">>
    <3>1. n \in 1..n
      BY <1>10
    <3>2. q[n] = SubstOf["d1"] /\ "d1" \in Tokens
      BY <1>3, <1>5, <1>10, <3>1
    <3>3. ~Pair(z, n, "d1", "d2")
      BY <1>1 DEF Pair
    <3>4. ~Pair(z, n - 1, "d1", "d2")
      <4>1. (n - 1) + 1 = n
        OBVIOUS
      <4> QED
        BY <1>10, <4>1 DEF Pair
    <3>5. p[n] = Char(n)
      BY <1>2, <3>1
    <3> QED
      BY <1>10, <3>2, <3>3, <3>4, <3>5 DEF SubstOf
  <2>5. Joined(n, p) = Joined(m, p) ++ <<"?">> /\ Joined(n, q) = Joined(m, q) ++ <<>>
    BY <2>1, <2>4, JoinedStep
  <2>6. Joined(m, q) \in Seq(Tokens)
    BY <1>7, <2>1, JoinedType
  <2>7. Joined(m, q) ++ <<>> = Joined(m, q)
    BY ONLY <2>6, Neutral
  <2>8. Lost(z) = <<"?">>
    <3>1. z # <<>> /\ Last(z) = "d1"
      BY <1>1, <1>10 DEF Last
    <3> QED
      BY <3>1 DEF Lost, Held
  <2> QED
    BY <1>4, <2>3, <2>5, <2>7, <2>8
<1> QED
  BY <1>9, <1>10

-----------------------------------------------------------------------------
(* Normal, one character at a time.                                        *)
Kind(c, i) == IF Pair(c, i, "CR", "LF") THEN <<>> ELSE <<c[i]>>
KindsOf(c) == [i \in DOMAIN c |-> Kind(c, i)]

LEMMA NormalIs ==
  ASSUME NEW c, c \in Seq(Tokens), NEW n, n = Len(c)
  PROVE  /\ n \in Nat /\ Normal(c) = Joined(n, KindsOf(c))
         /\ \A i \in 1..n : KindsOf(c)[i] = Kind(c, i) /\ Kind(c, i) \in Seq(Tokens)
<1>1. n \in Nat /\ DOMAIN c = 1..n
  BY LenProperties
<1>2. Normal(c) = Joined(n, KindsOf(c))
  BY <1>1 DEF Normal, KindsOf, Kind
<1>3. ASSUME NEW i \in 1..n PROVE Kind(c, i) \in Seq(Tokens)
  <2>1. c[i] \in Tokens
    BY <1>1, ElementOfSeq
  <2>2. <<>> \in Seq(Tokens)
    BY EmptySeq
  <2> QED
    BY <2>1, <2>2 DEF Kind
<1> QED
  BY <1>1, <1>2, <1>3 DEF KindsOf

LEMMA NormalType ==
  ASSUME NEW c, c \in Seq(Tokens)
  PROVE  Normal(c) \in Seq(Tokens)
<1>1. PICK n \in Nat : n = Len(c) /\ Normal(c) = Joined(n, KindsOf(c))
                       /\ \A i \in 1..n : KindsOf(c)[i] \in Seq(Tokens)
  BY NormalIs
<1>2. Joined(n, KindsOf(c)) \in Seq(Tokens)
  BY ONLY <1>1, n \in Nat, JoinedType
<1> QED
  BY <1>1, <1>2

(* d is c with e after it.                                                 *)
Longer(d, c, e, n) ==
  /\ n \in Nat /\ n = Len(c) /\ d \in Seq(Tokens) /\ Len(d) = n + 1
  /\ d[n + 1] = e /\ \A i \in 1..n : d[i] = c[i]

LEMMA LongerBy ==
  ASSUME NEW c, c \in Seq(Tokens), NEW e, e \in Tokens, NEW d, d = c ++ <<e>>
  PROVE  \E n \in Nat : Longer(d, c, e, n)
<1>1. PICK one : one = <<e>> /\ d = c ++ one
  OBVIOUS
<1>2. one \in Seq(Tokens) /\ Len(one) = 1 /\ one[1] = e
  BY <1>1
<1>3. c ++ one \in Seq(Tokens) /\ Follows(c ++ one, c, one)
  BY ONLY c \in Seq(Tokens), <1>2, Following
<1>4. PICK n : n = Len(c)
  OBVIOUS
<1>5. d \in Seq(Tokens) /\ Follows(d, c, one)
  BY ONLY <1>1, <1>3
<1>6. Longer(d, c, e, n)
  BY ONLY <1>2, <1>4, <1>5 DEF Follows, Longer
<1> QED
  BY <1>6 DEF Longer

KindsAfter(d, c, e, n) ==
  /\ Kind(d, n + 1) = <<e>>
  /\ \A i \in 1..n : (i < n \/ ~(c[n] = "CR" /\ e = "LF")) => Kind(d, i) = Kind(c, i)
  /\ n # 0 /\ c[n] = "CR" => Kind(c, n) = <<"CR">>
  /\ n # 0 /\ c[n] = "CR" /\ e = "LF" => Kind(d, n) = <<>>

LEMMA KindsStep ==
  ASSUME NEW d, NEW c, NEW e, NEW n, Longer(d, c, e, n)
  PROVE  KindsAfter(d, c, e, n)
<1>4. n \in Nat /\ Len(d) = n + 1 /\ d[n + 1] = e /\ (\A i \in 1..n : d[i] = c[i]) /\ n = Len(c)
  BY DEF Longer
<1>5. Kind(d, n + 1) = <<e>>
  <2>1. ~(n + 1 \in 1..(Len(d) - 1))
    BY <1>4
  <2> QED
    BY <1>4, <2>1 DEF Kind, Pair
<1>6. ASSUME NEW i \in 1..n, i < n \/ ~(c[n] = "CR" /\ e = "LF") PROVE Kind(d, i) = Kind(c, i)
  <2>1. d[i] = c[i]
    BY <1>4
  <2>2. Pair(d, i, "CR", "LF") <=> Pair(c, i, "CR", "LF")
    <3>1. CASE i < n
      <4>1. i \in 1..(Len(d) - 1) /\ i \in 1..(Len(c) - 1) /\ i + 1 \in 1..n
        BY <1>4, <3>1
      <4>2. d[i + 1] = c[i + 1]
        BY <1>4, <4>1
      <4> QED
        BY <2>1, <4>1, <4>2 DEF Pair
    <3>2. CASE i = n
      <4>1. d[i + 1] = e /\ ~(i \in 1..(Len(c) - 1))
        BY <1>4, <3>2
      <4> QED
        BY <1>6, <2>1, <3>2, <4>1 DEF Pair
    <3> QED
      BY <1>4, <3>1, <3>2
  <2> QED
    BY <2>1, <2>2 DEF Kind
<1>7. ASSUME n # 0, c[n] = "CR" PROVE Kind(c, n) = <<"CR">> /\ (e = "LF" => Kind(d, n) = <<>>)
  <2>1. n \in 1..n /\ n \in 1..(Len(d) - 1) /\ ~(n \in 1..(Len(c) - 1))
    BY <1>4, <1>7
  <2>2. Kind(c, n) = <<"CR">>
    BY <1>7, <2>1 DEF Kind, Pair
  <2>3. ASSUME e = "LF" PROVE Kind(d, n) = <<>>
    <3>1. d[n] = "CR" /\ d[n + 1] = "LF"
      BY <1>4, <1>7, <2>1, <2>3
    <3> QED
      BY <2>1, <3>1 DEF Kind, Pair
  <2> QED
    BY <2>2, <2>3
<1> QED
  BY <1>5, <1>6, <1>7 DEF KindsAfter

LEMMA NormalStep ==
  ASSUME NEW c, c \in Seq(Tokens), NEW e, e \in Tokens, ~(EndsCR(c) /\ e = "LF")
  PROVE  Normal(c ++ <<e>>) = Normal(c) ++ <<e>>
<1>1. PICK d : d = c ++ <<e>>
  OBVIOUS
<1>2. PICK n \in Nat : Longer(d, c, e, n)
  BY <1>1, LongerBy
<1>3. d \in Seq(Tokens) /\ n = Len(c) /\ Len(d) = n + 1 /\ KindsAfter(d, c, e, n)
  BY <1>2, KindsStep DEF Longer
<1>4. n # 0 => ~(c[n] = "CR" /\ e = "LF")
  BY <1>3 DEF EndsCR, Last
<1>5. /\ Normal(c) = Joined(n, KindsOf(c))
      /\ \A i \in 1..n : KindsOf(c)[i] = Kind(c, i)
  BY <1>3, NormalIs
<1>6. /\ Normal(d) = Joined(n + 1, KindsOf(d))
      /\ \A i \in 1..(n + 1) : KindsOf(d)[i] = Kind(d, i)
  BY <1>3, NormalIs
<1>7. \A i \in 1..n : KindsOf(d)[i] = KindsOf(c)[i]
  BY <1>3, <1>4, <1>5, <1>6 DEF KindsAfter
<1>8. Joined(n, KindsOf(d)) = Joined(n, KindsOf(c))
  BY <1>3, <1>7, JoinedSame
<1>9. Joined(n + 1, KindsOf(d)) = Joined(n, KindsOf(d)) ++ KindsOf(d)[n + 1]
  BY <1>3, JoinedStep
<1>10. KindsOf(d)[n + 1] = <<e>>
  BY <1>3, <1>6 DEF KindsAfter
<1> QED
  BY <1>1, <1>5, <1>6, <1>8, <1>9, <1>10

LEMMA NormalPair ==
  ASSUME NEW c, c \in Seq(Tokens), EndsCR(c)
  PROVE  \E m \in Seq(Tokens) : /\ Normal(c) = m ++ <<"CR">>
                                /\ Normal(c ++ <<"LF">>) = m ++ <<"LF">>
<1>1. PICK d, e : e = "LF" /\ d = c ++ <<e>>
  OBVIOUS
<1>2. e \in Tokens
  BY <1>1 DEF Tokens
<1>3. PICK n \in Nat : Longer(d, c, e, n)
  BY <1>1, <1>2, LongerBy
<1>4. n = Len(c) /\ n # 0 /\ c[n] = "CR"
  BY <1>3, EmptySeq DEF EndsCR, Last, Longer
<1>5. /\ n \in Nat /\ d \in Seq(Tokens) /\ Len(d) = n + 1
      /\ Kind(d, n + 1) = <<e>> /\ Kind(c, n) = <<"CR">> /\ Kind(d, n) = <<>>
      /\ \A i \in 1..n : i < n => Kind(d, i) = Kind(c, i)
  <2>1. KindsAfter(d, c, e, n)
    BY <1>3, KindsStep
  <2> QED
    BY <1>1, <1>3, <1>4, <2>1 DEF KindsAfter, Longer
<1>6. PICK k \in Nat : n = k + 1
  <2>1. n - 1 \in Nat /\ n = (n - 1) + 1
    BY <1>4, <1>5
  <2> QED
    BY <2>1
<1>7. /\ Normal(c) = Joined(n, KindsOf(c))
      /\ \A i \in 1..n : KindsOf(c)[i] = Kind(c, i) /\ Kind(c, i) \in Seq(Tokens)
  BY <1>4, NormalIs
<1>8. /\ Normal(d) = Joined(n + 1, KindsOf(d))
      /\ \A i \in 1..(n + 1) : KindsOf(d)[i] = Kind(d, i)
  BY <1>5, NormalIs
<1>9. \A i \in 1..k : KindsOf(d)[i] = KindsOf(c)[i]
  <2> SUFFICES ASSUME NEW i \in 1..k PROVE KindsOf(d)[i] = KindsOf(c)[i]
    OBVIOUS
  <2>1. i \in 1..n /\ i < n /\ i \in 1..(n + 1)
    BY <1>6
  <2> QED
    BY <1>5, <1>7, <1>8, <2>1
<1>10. PICK m : m = Joined(k, KindsOf(c))
  OBVIOUS
<1>11. m \in Seq(Tokens)
  <2>1. \A i \in 1..k : KindsOf(c)[i] \in Seq(Tokens)
    BY <1>6, <1>7
  <2> QED
    BY <1>10, <2>1, JoinedType
<1>12. Joined(k, KindsOf(d)) = m
  BY <1>9, <1>10, JoinedSame
<1>13. Normal(c) = m ++ <<"CR">>
  <2>1. n \in 1..n
    BY <1>4, <1>5
  <2>2. KindsOf(c)[k + 1] = <<"CR">>
    BY <1>5, <1>6, <1>7, <2>1
  <2>3. Joined(k + 1, KindsOf(c)) = Joined(k, KindsOf(c)) ++ KindsOf(c)[k + 1]
    BY JoinedStep
  <2> QED
    BY <1>6, <1>7, <1>10, <2>2, <2>3
<1>14. Normal(d) = m ++ <<"LF">>
  <2>1. n \in 1..(n + 1) /\ n + 1 \in 1..(n + 1)
    BY <1>4, <1>5
  <2>2. KindsOf(d)[k + 1] = <<>> /\ KindsOf(d)[n + 1] = <<"LF">>
    BY <1>1, <1>5, <1>6, <1>8, <2>1
  <2>3. Joined(k + 1, KindsOf(d)) = Joined(k, KindsOf(d)) ++ KindsOf(d)[k + 1]
    BY JoinedStep
  <2>4. Joined(n + 1, KindsOf(d)) = Joined(n, KindsOf(d)) ++ KindsOf(d)[n + 1]
    BY <1>5, JoinedStep
  <2>5. m ++ <<>> = m
    BY <1>11, Neutral
  <2>6. Joined(n, KindsOf(d)) = m
    BY <1>6, <1>12, <2>2, <2>3, <2>5
  <2> QED
    BY <1>8, <2>2, <2>4, <2>6
<1> QED
  BY <1>1, <1>11, <1>13, <1>14

-----------------------------------------------------------------------------
(* What characters and normal characters a text becomes, with w before it. *)
Clean(z) == Images(z, CleanOf)
Subst(z) == Images(z, SubstOf)

LEMMA CleanParts ==
  ASSUME NEW a, a \in Seq(Tokens), NEW b, b \in Seq(Tokens)
  PROVE  Clean(a ++ b) = Clean(a) ++ Clean(b) /\ Clean(a) \in Seq(Plain) /\ Clean(a) \in Seq(Tokens)
<1>1. PICK f, X, Y : f = CleanOf /\ X = Tokens /\ Y = Plain
  OBVIOUS
<1>2. f \in [X -> Seq(Y)] /\ a \in Seq(X) /\ b \in Seq(X)
  BY <1>1, SubstType
<1>3. Images(a ++ b, f) = Images(a, f) ++ Images(b, f)
  BY ONLY <1>2, ImagesParts
<1>4. Images(a, f) \in Seq(Y)
  BY ONLY <1>2, ImagesType
<1> QED
  BY <1>1, <1>3, <1>4, SubstType DEF Clean

LEMMA SubstParts ==
  ASSUME NEW a, a \in Seq(Tokens), NEW b, b \in Seq(Tokens)
  PROVE  Subst(a ++ b) = Subst(a) ++ Subst(b) /\ Subst(a) \in Seq(Tokens)
<1>1. PICK f, X : f = SubstOf /\ X = Tokens
  OBVIOUS
<1>2. f \in [X -> Seq(X)] /\ a \in Seq(X) /\ b \in Seq(X)
  BY <1>1, SubstType
<1>3. Images(a ++ b, f) = Images(a, f) ++ Images(b, f)
  BY ONLY <1>2, ImagesParts
<1>4. Images(a, f) \in Seq(X)
  BY ONLY <1>2, ImagesType
<1> QED
  BY <1>1, <1>3, <1>4 DEF Subst

LEMMA TokenOne ==
  ASSUME NEW e, e \in Tokens, NEW one, one = <<e>>
  PROVE  one \in Seq(Tokens) /\ Clean(one) = CleanOf[e] /\ Subst(one) = SubstOf[e]
<1>1. PICK f, g, X, Y : f = CleanOf /\ g = SubstOf /\ X = Tokens /\ Y = Plain
  OBVIOUS
<1>2. f \in [X -> Seq(Y)] /\ g \in [X -> Seq(X)] /\ e \in X
  BY <1>1, SubstType
<1>3. Images(one, f) = f[e] /\ Images(one, g) = g[e]
  <2>1. Images(one, f) = f[e]
    <3>1. f \in [X -> Seq(Y)] /\ e \in X
      BY <1>2
    <3> QED
      BY ONLY <3>1, one = <<e>>, ImagesOne, ZenonT(60)
  <2>2. Images(one, g) = g[e]
    BY ONLY <1>2, one = <<e>>, ImagesOne
  <2> QED
    BY <2>1, <2>2
<1>4. one \in Seq(Tokens)
  OBVIOUS
<1> QED
  BY <1>1, <1>3, <1>4 DEF Clean, Subst

LEMMA EndsWith ==
  ASSUME NEW c, c \in Seq(Tokens), NEW e, e \in Tokens
  PROVE  EndsCR(c ++ <<e>>) <=> e = "CR"
<1>1. Last(c ++ <<e>>) = e /\ c ++ <<e>> # <<>>
  BY FrontLast
<1> QED
  BY <1>1 DEF EndsCR

LEMMA PlainNormal ==
  ASSUME NEW w, w \in Seq(Plain)
  PROVE  Normal(w) = w /\ ~EndsCR(w) /\ w \in Seq(Tokens)
<1> DEFINE S == {c \in Seq(Plain) : Normal(c) = c /\ ~EndsCR(c)}
<1>1. <<>> \in S
  <2>1. Normal(<<>>) = <<>>
    BY JoinedStep DEF Normal
  <2> QED
    BY <2>1, EmptySeq DEF EndsCR
<1>2. ASSUME NEW c \in S, NEW e \in Plain PROVE c ++ <<e>> \in S
  <2>1. c \in Seq(Tokens) /\ e \in Tokens /\ e # "CR" /\ c \in Seq(Plain)
    BY SubstType DEF Plain
  <2>2. Normal(c ++ <<e>>) = Normal(c) ++ <<e>>
    BY <2>1, NormalStep
  <2>3. ~EndsCR(c ++ <<e>>)
    BY <2>1, EndsWith
  <2>4. c ++ <<e>> \in Seq(Plain)
    <3>1. PICK one : one = <<e>>
      OBVIOUS
    <3>2. one \in Seq(Plain)
      BY <3>1
    <3>3. c ++ one \in Seq(Plain)
      BY ONLY <2>1, <3>2, Typed
    <3> QED
      BY <3>1, <3>3
  <2> QED
    BY <2>2, <2>3, <2>4
<1>3. S \in SUBSET Seq(Plain)
  OBVIOUS
<1> HIDE DEF S
<1>4. S = Seq(Plain)
  BY <1>1, <1>2, <1>3, SeqInduction
<1>5. w \in S
  BY <1>4
<1> QED
  BY <1>5, SubstType DEF S

LEMMA EndsPairedStep ==
  ASSUME NEW y, y \in Seq(Tokens), NEW e, e \in Tokens, EndsPaired(y ++ <<e>>)
  PROVE  EndsPaired(y) /\ (EndsCR(y) => e = "LF")
<1>0. PICK d : d = y ++ <<e>>
  OBVIOUS
<1>1. PICK n \in Nat : Longer(d, y, e, n)
  BY <1>0, LongerBy
<1>2. /\ n = Len(y) /\ Len(d) = n + 1 /\ d[n + 1] = e /\ \A i \in 1..n : d[i] = y[i]
      /\ \A i \in 1..Len(d) : d[i] = "CR" => i = Len(d) \/ d[i + 1] = "LF"
  BY <1>0, <1>1 DEF Longer, EndsPaired
<1>3. ASSUME NEW i \in 1..n, y[i] = "CR" PROVE i = n \/ y[i + 1] = "LF"
  <2>1. i \in 1..Len(d) /\ i # Len(d) /\ d[i] = "CR"
    BY <1>2, <1>3
  <2>2. d[i + 1] = "LF"
    BY <1>2, <2>1
  <2>3. CASE i < n
    <3>1. i + 1 \in 1..n
      BY <2>3
    <3> QED
      BY <1>2, <2>2, <3>1
  <2> QED
    BY <2>3
<1>4. ASSUME EndsCR(y) PROVE e = "LF"
  <2>1. y # <<>> /\ y[n] = "CR"
    BY <1>2, <1>4 DEF EndsCR, Last
  <2>2. n \in 1..n
    BY <1>2, <2>1, EmptySeq
  <2>3. n \in 1..Len(d) /\ n # Len(d) /\ d[n] = "CR"
    BY <1>2, <2>1, <2>2
  <2> QED
    BY <1>2, <2>3
<1> QED
  BY <1>2, <1>3, <1>4 DEF EndsPaired

(* What is left of w, plain, and the characters of z.                      *)
Normalized(w, z) ==
  /\ Normal(w ++ Subst(z)) = (w ++ Clean(z)) ++ OpenEnd(z)
  /\ EndsCR(w ++ Subst(z)) <=> EndsCR(z)

LEMMA NormalEmpty ==
  ASSUME NEW w, w \in Seq(Plain)
  PROVE  Normalized(w, <<>>)
<1>1. Subst(<<>>) = <<>> /\ Clean(<<>>) = <<>>
  BY ImagesEmpty DEF Subst, Clean
<1>2. OpenEnd(<<>>) = <<>> /\ ~EndsCR(<<>>)
  BY DEF OpenEnd, EndsCR
<1>3. w ++ <<>> = w
  BY Neutral
<1> QED
  BY <1>1, <1>2, <1>3, PlainNormal DEF Normalized

LEMMA NormalToken ==
  ASSUME NEW w, w \in Seq(Plain), NEW y, y \in Seq(Tokens), Normalized(w, y),
         NEW e, e \in Tokens, EndsCR(y) => e = "LF"
  PROVE  Normalized(w, y ++ <<e>>)
<1>1. PICK one, z : one = <<e>> /\ z = y ++ one
  OBVIOUS
<1>2. one \in Seq(Tokens) /\ z \in Seq(Tokens)
  <2>1. one \in Seq(Tokens)
    BY <1>1, TokenOne
  <2> QED
    BY <1>1, <2>1, Typed
<1>3. PICK u, v : u = w ++ Subst(y) /\ v = w ++ Clean(y)
  OBVIOUS
<1>4. u \in Seq(Tokens) /\ v \in Seq(Tokens)
  <2>1. w \in Seq(Tokens) /\ Subst(y) \in Seq(Tokens) /\ Clean(y) \in Seq(Tokens)
    BY SubstParts, CleanParts, PlainNormal
  <2> QED
    BY <1>3, <2>1, Typed
<1>5. Normal(u) = v ++ OpenEnd(y) /\ (EndsCR(u) <=> EndsCR(y))
  BY <1>3 DEF Normalized
<1>6. w ++ Subst(z) = u ++ SubstOf[e] /\ w ++ Clean(z) = v ++ CleanOf[e]
  <2>1. Subst(z) = Subst(y) ++ SubstOf[e] /\ Clean(z) = Clean(y) ++ CleanOf[e]
    <3>1. Subst(z) = Subst(y) ++ Subst(one) /\ Clean(z) = Clean(y) ++ Clean(one)
      BY <1>1, <1>2, SubstParts, CleanParts
    <3> QED
      BY <1>1, <3>1, TokenOne
  <2>2. /\ w \in Seq(Tokens) /\ Subst(y) \in Seq(Tokens) /\ Clean(y) \in Seq(Tokens)
        /\ SubstOf[e] \in Seq(Tokens) /\ CleanOf[e] \in Seq(Tokens)
    BY SubstParts, CleanParts, PlainNormal, SubstType
  <2>3. /\ w ++ (Subst(y) ++ SubstOf[e]) = (w ++ Subst(y)) ++ SubstOf[e]
        /\ w ++ (Clean(y) ++ CleanOf[e]) = (w ++ Clean(y)) ++ CleanOf[e]
    BY ONLY <2>2, Associative
  <2> QED
    BY <1>3, <2>1, <2>3
<1>7. EndsCR(z) <=> e = "CR"
  BY <1>1, EndsWith
<1>8. u ++ <<>> = u /\ v ++ <<>> = v
  <2>1. u ++ <<>> = u
    BY ONLY <1>4, Neutral
  <2>2. v ++ <<>> = v
    BY ONLY <1>4, Neutral
  <2> QED
    BY <2>1, <2>2
<1>9. CASE e = "d1"
  <2>1. SubstOf[e] = <<>> /\ CleanOf[e] = <<>>
    BY <1>9, SubstCases
  <2>2. ~EndsCR(y) /\ OpenEnd(y) = <<>> /\ OpenEnd(z) = <<>> /\ ~EndsCR(z)
    BY <1>7, <1>9 DEF OpenEnd
  <2> QED
    BY <1>1, <1>5, <1>6, <1>8, <2>1, <2>2 DEF Normalized
<1>10. CASE e = "CR"
  <2>1. SubstOf[e] = <<"CR">> /\ CleanOf[e] = <<>>
    BY <1>10, SubstCases
  <2>2. ~EndsCR(y) /\ OpenEnd(y) = <<>> /\ OpenEnd(z) = <<"CR">> /\ EndsCR(z)
    BY <1>7, <1>10 DEF OpenEnd
  <2>3. Normal(u ++ <<e>>) = Normal(u) ++ <<e>>
    BY <1>4, <1>10, NormalStep
  <2>4. EndsCR(u ++ <<e>>)
    BY <1>4, <1>10, EndsWith
  <2>5. w ++ Subst(z) = u ++ <<e>> /\ w ++ Clean(z) = v
    BY <1>6, <1>8, <1>10, <2>1
  <2>6. Normal(u ++ <<e>>) = v ++ <<e>>
    BY <1>5, <1>8, <2>2, <2>3
  <2> QED
    BY <1>1, <1>10, <2>2, <2>4, <2>5, <2>6 DEF Normalized
<1>11. CASE e \notin {"d1", "CR"}
  <2>1. PICK x \in Tokens : /\ x # "CR" /\ (x = "LF" <=> e = "LF")
                            /\ SubstOf[e] = <<x>> /\ CleanOf[e] = <<x>>
    BY <1>11, SubstCases
  <2>2. ~EndsCR(u ++ <<x>>) /\ ~EndsCR(z) /\ OpenEnd(z) = <<>>
    BY <1>4, <1>7, <1>11, <2>1, EndsWith DEF OpenEnd
  <2>3. Normal(u ++ <<x>>) = v ++ <<x>>
    <3>1. CASE EndsCR(y)
      <4>1. x = "LF" /\ EndsCR(u)
        BY <1>5, <2>1, <3>1
      <4>2. PICK m \in Seq(Tokens) :
              Normal(u) = m ++ <<"CR">> /\ Normal(u ++ <<"LF">>) = m ++ <<"LF">>
        BY <1>4, <4>1, NormalPair
      <4>3. Normal(u) = v ++ <<"CR">>
        BY <1>5, <3>1 DEF OpenEnd
      <4>4. "CR" \in Tokens
        BY DEF Tokens
      <4>5. Front(m ++ <<"CR">>) = m /\ Front(v ++ <<"CR">>) = v
        BY <1>4, <4>4, FrontLast
      <4> QED
        BY <4>1, <4>2, <4>3, <4>5
    <3>2. CASE ~EndsCR(y)
      <4>1. Normal(u ++ <<x>>) = Normal(u) ++ <<x>>
        BY <1>4, <1>5, <3>2, NormalStep
      <4>2. OpenEnd(y) = <<>>
        BY <3>2 DEF OpenEnd
      <4> QED
        BY <1>5, <1>8, <4>1, <4>2
    <3> QED
      BY <3>1, <3>2
  <2>4. w ++ Subst(z) = u ++ <<x>> /\ w ++ Clean(z) = v ++ <<x>>
    BY <1>6, <2>1
  <2>5. (v ++ <<x>>) ++ <<>> = v ++ <<x>>
    <3>1. PICK t : t = v ++ <<x>>
      OBVIOUS
    <3>2. t \in Seq(Tokens)
      BY <1>4, <3>1, FrontLast
    <3>3. t ++ <<>> = t
      BY ONLY <3>2, Neutral
    <3> QED
      BY <3>1, <3>3
  <2> QED
    BY <1>1, <2>2, <2>3, <2>4, <2>5 DEF Normalized
<1> QED
  BY <1>9, <1>10, <1>11

LEMMA NormalOf ==
  ASSUME NEW w, w \in Seq(Plain), NEW z, z \in Seq(Tokens), EndsPaired(z)
  PROVE  Normalized(w, z)
<1> DEFINE S == {y \in Seq(Tokens) : EndsPaired(y) => Normalized(w, y)}
<1>1. <<>> \in S
  BY NormalEmpty, EmptySeq
<1>2. ASSUME NEW y \in S, NEW e \in Tokens PROVE y ++ <<e>> \in S
  <2>1. y \in Seq(Tokens) /\ e \in Tokens
    OBVIOUS
  <2>2. y ++ <<e>> \in Seq(Tokens)
    BY <2>1, FrontLast
  <2>3. ASSUME EndsPaired(y ++ <<e>>) PROVE Normalized(w, y ++ <<e>>)
    <3>1. EndsPaired(y) /\ (EndsCR(y) => e = "LF")
      BY <2>1, <2>3, EndsPairedStep
    <3>2. Normalized(w, y)
      BY <3>1
    <3> QED
      BY <2>1, <3>1, <3>2, NormalToken
  <2> QED
    BY <2>2, <2>3
<1>3. S \in SUBSET Seq(Tokens)
  OBVIOUS
<1> HIDE DEF S
<1>4. S = Seq(Tokens)
  BY <1>1, <1>2, <1>3, SeqInduction
<1>5. z \in S
  BY <1>4
<1> QED
  BY <1>5 DEF S

-----------------------------------------------------------------------------
(* What was received: the beginning of a stream of lines.                  *)
Received(p) == p \in Seq(Tokens) /\ HalvesPaired(p) /\ EndsPaired(p)

LEMMA PairedParts ==
  ASSUME NEW a, a \in Seq(Tokens), NEW b, b \in Seq(Tokens), Received(a ++ b)
  PROVE  Received(a) /\ EndsPaired(b) /\ (Held(a) = <<>> => HalvesPaired(b))
<1>1. PICK c : c = a ++ b
  OBVIOUS
<1>2. PICK m \in Nat, n \in Nat : m = Len(a) /\ n = Len(b)
  BY LenProperties
<1>3. /\ Len(c) = m + n /\ \A i \in 1..m : c[i] = a[i]
      /\ \A i \in 1..n : c[m + i] = b[i]
  <2>1. Follows(c, a, b)
    BY <1>1, Following
  <2> QED
    BY <1>2, <2>1 DEF Follows
<1>4. \A i \in 1..(m + n) : /\ c[i] = "d1" => i = m + n \/ c[i + 1] = "d2"
                            /\ c[i] = "d2" => i > 1 /\ c[i - 1] = "d1"
                            /\ c[i] = "CR" => i = m + n \/ c[i + 1] = "LF"
  BY <1>1, <1>3 DEF Received, HalvesPaired, EndsPaired
<1>5. ASSUME NEW i \in 1..m
      PROVE  /\ a[i] = "d1" => i = m \/ a[i + 1] = "d2"
             /\ a[i] = "d2" => i > 1 /\ a[i - 1] = "d1"
             /\ a[i] = "CR" => i = m \/ a[i + 1] = "LF"
  <2>1. i \in 1..(m + n) /\ c[i] = a[i] /\ (i < m => i # m + n /\ i + 1 \in 1..m)
        /\ (i > 1 => i - 1 \in 1..m)
    BY <1>3
  <2>2. i < m => c[i + 1] = a[i + 1] /\ i # m + n
    BY <1>3, <2>1
  <2>3. i > 1 => c[i - 1] = a[i - 1]
    BY <1>3, <2>1
  <2>4. i = m \/ i < m
    OBVIOUS
  <2> QED
    BY <1>4, <2>1, <2>2, <2>3, <2>4
<1>6. ASSUME NEW i \in 1..n
      PROVE  /\ b[i] = "d1" => i = n \/ b[i + 1] = "d2"
             /\ b[i] = "d2" /\ i > 1 => b[i - 1] = "d1"
             /\ b[i] = "CR" => i = n \/ b[i + 1] = "LF"
  <2>1. m + i \in 1..(m + n) /\ c[m + i] = b[i] /\ (i < n => m + i # m + n)
    BY <1>3
  <2>2. i < n => c[m + i + 1] = b[i + 1]
    <3>1. i < n => i + 1 \in 1..n /\ m + (i + 1) = m + i + 1
      OBVIOUS
    <3> QED
      BY <1>3, <3>1
  <2>3. i > 1 => c[m + i - 1] = b[i - 1]
    <3>1. i > 1 => i - 1 \in 1..n /\ m + (i - 1) = m + i - 1
      OBVIOUS
    <3> QED
      BY <1>3, <3>1
  <2>4. i = n \/ i < n
    OBVIOUS
  <2> QED
    BY <1>4, <2>1, <2>2, <2>3, <2>4
<1>7. Received(a)
  BY <1>2, <1>5 DEF Received, HalvesPaired, EndsPaired
<1>8. EndsPaired(b)
  BY <1>2, <1>6 DEF EndsPaired
<1>9. ASSUME Held(a) = <<>> PROVE HalvesPaired(b)
  <2>1. ASSUME n # 0, b[1] = "d2" PROVE FALSE
    <3>1. 1 \in 1..n /\ m + 1 \in 1..(m + n) /\ (m + 1) - 1 = m
      BY <2>1
    <3>2. c[m + 1] = "d2"
      BY <1>3, <2>1, <3>1
    <3>3. m > 0 /\ c[m] = "d1"
      BY <1>4, <3>1, <3>2
    <3>4. m \in 1..m
      BY <3>3
    <3>5. a[m] = "d1" /\ a # <<>>
      BY <1>2, <1>3, <3>3, <3>4
    <3>6. Held(a) = <<"d1">>
      BY <1>2, <3>5 DEF Held, Last
    <3> QED
      BY <1>9, <3>6
  <2>2. ASSUME NEW i \in 1..n, b[i] = "d2" PROVE i > 1 /\ b[i - 1] = "d1"
    <3>1. CASE i = 1
      BY <2>1, <2>2, <3>1
    <3>2. CASE i > 1
      BY <1>6, <2>2, <3>2
    <3> QED
      BY <3>1, <3>2
  <2> QED
    BY <1>2, <1>6, <2>2 DEF HalvesPaired
<1> QED
  BY <1>7, <1>8, <1>9

(* Where the last one is a first half, none is before it.                  *)
LEMMA HeldIs ==
  ASSUME NEW p, p \in Seq(Tokens)
  PROVE  /\ Held(p) \in Seq(Tokens) /\ Clean(Held(p)) = <<>>
         /\ Held(p) = <<>> \/ Held(p) = <<"d1">>
         /\ Held(p) = <<"d1">> => p # <<>> /\ p = Front(p) ++ <<"d1">> /\ ~EndsCR(p)
<1>1. "d1" \in Tokens
  BY DEF Tokens
<1>2. <<>> \in Seq(Tokens) /\ Clean(<<>>) = <<>>
  BY EmptySeq, ImagesEmpty DEF Clean
<1>3. <<"d1">> \in Seq(Tokens) /\ Clean(<<"d1">>) = <<>>
  BY <1>1, TokenOne, SubstCases
<1>4. Held(p) = <<>> \/ Held(p) = <<"d1">>
  BY DEF Held
<1>5. ASSUME Held(p) = <<"d1">> PROVE p # <<>> /\ p = Front(p) ++ <<"d1">> /\ ~EndsCR(p)
  <2>1. p # <<>> /\ Last(p) = "d1"
    BY <1>5 DEF Held
  <2>2. p = Front(p) ++ <<Last(p)>>
    BY <2>1, FrontAndLast
  <2> QED
    BY <2>1, <2>2 DEF EndsCR
<1> QED
  BY <1>2, <1>3, <1>4, <1>5

LEMMA OneHalf ==
  ASSUME NEW q, q \in Seq(Tokens), NEW h, h = <<"d1">>, Received(q ++ h)
  PROVE  Held(q) = <<>> /\ ~EndsCR(q)
<1>1. PICK e : e = "d1"
  OBVIOUS
<1>2. e \in Tokens /\ h = <<e>>
  BY <1>1 DEF Tokens
<1>3. EndsPaired(q ++ <<e>>) /\ HalvesPaired(q ++ <<e>>)
  BY <1>2 DEF Received
<1>4. ~EndsCR(q)
  BY <1>1, <1>2, <1>3, EndsPairedStep
<1>5. PICK d : d = q ++ <<e>>
  OBVIOUS
<1>6. PICK n \in Nat : Longer(d, q, e, n)
  BY <1>2, <1>5, LongerBy
<1>7. n = Len(q) /\ Len(d) = n + 1 /\ d[n + 1] = e /\ \A i \in 1..n : d[i] = q[i]
  BY <1>6 DEF Longer
<1>8. ASSUME q # <<>>, Last(q) = "d1" PROVE FALSE
  <2>1. n \in 1..n
    BY <1>7, <1>8, EmptySeq
  <2>2. n \in 1..Len(d) /\ d[n] = "d1" /\ n # Len(d)
    BY <1>7, <1>8, <2>1 DEF Last
  <2>3. d[n + 1] = "d2"
    BY <1>3, <1>5, <2>2 DEF HalvesPaired
  <2> QED
    BY <1>1, <1>7, <2>3
<1> QED
  BY <1>4, <1>8 DEF Held

-----------------------------------------------------------------------------
(* Blocks of plain text, and what one more token at the end changes.       *)
LEMMA PlainParts ==
  ASSUME NEW a, a \in Seq(Tokens), NEW b, b \in Seq(Tokens), a ++ b \in Seq(Plain)
  PROVE  a \in Seq(Plain) /\ b \in Seq(Plain)
<1>1. PICK c : c = a ++ b
  OBVIOUS
<1>2. PICK m \in Nat, n \in Nat : m = Len(a) /\ n = Len(b)
  BY LenProperties
<1>3. /\ Len(c) = m + n /\ \A i \in 1..m : c[i] = a[i]
      /\ \A i \in 1..n : c[m + i] = b[i]
  <2>1. Follows(c, a, b)
    BY <1>1, Following
  <2> QED
    BY <1>2, <2>1 DEF Follows
<1>4. ASSUME NEW i \in 1..(m + n) PROVE c[i] \in Plain
  BY <1>1, <1>3, ElementOfSeq
<1>5. ASSUME NEW i \in 1..m PROVE a[i] \in Plain
  <2>1. i \in 1..(m + n)
    OBVIOUS
  <2> QED
    BY <1>3, <1>4, <2>1
<1>6. ASSUME NEW i \in 1..n PROVE b[i] \in Plain
  <2>1. m + i \in 1..(m + n)
    OBVIOUS
  <2> QED
    BY <1>3, <1>4, <2>1
<1>7. a = [i \in 1..m |-> a[i]] /\ b = [i \in 1..n |-> b[i]]
  BY <1>2
<1>8. a \in [1..m -> Plain] /\ b \in [1..n -> Plain]
  BY <1>5, <1>6, <1>7
<1> QED
  BY <1>8

LEMMA PlainBlocks ==
  ASSUME NEW s, s \in Seq(Plain)
  PROVE  Blocks(s) \in Seq(Seq(Plain))
<1> DEFINE S == {r \in Seq(Tokens) : r \in Seq(Plain) => Blocks(r) \in Seq(Seq(Plain))}
<1>1. ASSUME NEW r \in Seq(Tokens), \A t \in Seq(Tokens) : Len(t) < Len(r) => t \in S
      PROVE  r \in S
  <2> SUFFICES ASSUME r \in Seq(Plain) PROVE Blocks(r) \in Seq(Seq(Plain))
    OBVIOUS
  <2>1. CASE Whole(r, Feeds)
    <3>1. Blocks(r) = <<r>>
      BY <2>1, SplitWhole, Feeding
    <3> QED
      BY <3>1
  <2>2. CASE ~Whole(r, Feeds)
    <3>1. PICK h \in Seq(Tokens), t \in Seq(Tokens) :
            r = (h ++ Feeds) ++ t /\ Ended(h, Feeds) /\ Len(t) < Len(r)
      BY <2>2, CutExists
    <3>2. h ++ Feeds \in Seq(Tokens) /\ Feeds \in Seq(Tokens)
      BY Typed, Feeding
    <3>3. h ++ Feeds \in Seq(Plain) /\ t \in Seq(Plain)
      <4>1. (h ++ Feeds) ++ t \in Seq(Plain)
        BY <3>1
      <4> QED
        BY ONLY <3>2, t \in Seq(Tokens), <4>1, PlainParts
    <3>4. h \in Seq(Plain)
      BY ONLY <3>2, <3>3, h \in Seq(Tokens), PlainParts
    <3>5. PICK one, B : one = <<h>> /\ B = Blocks(t)
      OBVIOUS
    <3>6. one \in Seq(Seq(Plain)) /\ B \in Seq(Seq(Plain))
      BY <1>1, <3>1, <3>3, <3>4, <3>5
    <3>7. Blocks(r) = one ++ B
      BY <3>1, <3>5, SplitCut, Feeding
    <3>8. one ++ B \in Seq(Seq(Plain))
      BY ONLY <3>6, Typed
    <3> QED
      BY <3>7, <3>8
  <2> QED
    BY <2>1, <2>2
<1>2. S \in SUBSET Seq(Tokens)
  OBVIOUS
<1> HIDE DEF S
<1>3. S = Seq(Tokens)
  BY <1>1, <1>2, LengthInduction
<1>4. s \in S
  BY <1>3, SubstType
<1> QED
  BY <1>4 DEF S

LEMMA WholeToken ==
  ASSUME NEW r, r \in Seq(Tokens), Whole(r, Feeds), NEW e, e \in Tokens, e # "LF"
  PROVE  Whole(r ++ <<e>>, Feeds)
<1>1. PICK d : d = r ++ <<e>>
  OBVIOUS
<1>2. PICK n \in Nat : Longer(d, r, e, n)
  BY <1>1, LongerBy
<1>3. n = Len(r) /\ Len(d) = n + 1 /\ d[n + 1] = e /\ \A i \in 1..n : d[i] = r[i]
  BY <1>2 DEF Longer
<1>4. ASSUME NEW i \in Nat, Stands(d, i, Feeds) PROVE FALSE
  <2>1. i \in 1..(Len(d) - 1) /\ d[i] = "LF" /\ d[i + 1] = "LF"
    BY <1>4, Feeding DEF Stands
  <2>2. i \in 1..n /\ i + 1 \in 1..(n + 1) /\ i # n
    BY <1>3, <2>1
  <2>3. i \in 1..(n - 1) /\ i + 1 \in 1..n
    BY <2>2
  <2>4. r[i] = "LF" /\ r[i + 1] = "LF"
    BY <1>3, <2>1, <2>3
  <2>5. Stands(r, i, Feeds)
    BY <1>3, <2>3, <2>4, Feeding DEF Stands
  <2> QED
    BY <2>5 DEF Whole
<1> QED
  BY <1>1, <1>4 DEF Whole

LEMMA BlocksMore ==
  ASSUME NEW s, s \in Seq(Tokens), NEW y, y \in Seq(Tokens)
  PROVE  /\ Blocks(s ++ y) = Front(Blocks(s)) ++ Blocks(Last(Blocks(s)) ++ y)
         /\ Front(Blocks(s)) \in Seq(Seq(Tokens))
  <1>1. Front(Blocks(s)) \in Seq(Seq(Tokens))
    BY LinesType, FrontAndLast
  <1> QED
    BY <1>1, SplitExtends, Feeding

(* Nothing, or one token that ends no line.                                *)
Tailing(tail) == tail = <<>> \/ \E e \in Tokens : e # "LF" /\ tail = <<e>>

LEMMA TailingType ==
  ASSUME NEW tail, Tailing(tail)
  PROVE  tail \in Seq(Tokens)
<1>1. CASE tail = <<>>
  BY <1>1, EmptySeq
<1>2. CASE \E e \in Tokens : e # "LF" /\ tail = <<e>>
  BY <1>2
<1> QED
  BY <1>1, <1>2 DEF Tailing

LEMMA BlocksTail ==
  ASSUME NEW s, s \in Seq(Tokens), NEW tail, Tailing(tail)
  PROVE  Blocks(s ++ tail) = Front(Blocks(s)) ++ <<Last(Blocks(s)) ++ tail>>
<1>1. PICK r, f : r = Last(Blocks(s)) /\ f = Front(Blocks(s))
  OBVIOUS
<1>2. r \in Seq(Tokens) /\ Whole(r, Feeds) /\ f \in Seq(Seq(Tokens))
  BY <1>1, LinesType, BlocksMore, EmptySeq
<1>3. tail \in Seq(Tokens)
  BY TailingType
<1>4. r ++ tail \in Seq(Tokens) /\ Whole(r ++ tail, Feeds)
  <2>1. CASE tail = <<>>
    BY <1>2, <2>1, Neutral
  <2>2. CASE tail # <<>>
    BY <1>2, <1>3, <2>2, WholeToken, Typed DEF Tailing
  <2> QED
    BY <2>1, <2>2
<1>5. Blocks(r ++ tail) = <<r ++ tail>>
  BY <1>4, SplitWhole, Feeding
<1> QED
  BY <1>1, <1>3, <1>5, BlocksMore

LEMMA NormalTail ==
  ASSUME NEW w, w \in Seq(Plain), NEW tail, Tailing(tail)
  PROVE  Normal(w ++ tail) = w ++ tail
<1>1. w \in Seq(Tokens) /\ Normal(w) = w
  BY PlainNormal
<1>2. CASE tail = <<>>
  BY <1>1, <1>2, Neutral
<1>3. ASSUME NEW e \in Tokens, e # "LF", tail = <<e>> PROVE Normal(w ++ tail) = w ++ tail
  BY <1>1, <1>3, NormalStep
<1> QED
  BY <1>2, <1>3 DEF Tailing

(* The end of a text that is open.                                         *)
OpenTail(p) == OpenEnd(p) ++ Lost(p)

LEMMA OpenEndIs ==
  ASSUME NEW p, p \in Seq(Tokens)
  PROVE  /\ OpenEnd(p) \in Seq(Tokens) /\ Tailing(OpenEnd(p)) /\ Tailing(OpenTail(p))
         /\ Lost(p) \in Seq(Tokens)
         /\ Held(p) = <<>> => Lost(p) = <<>> /\ OpenTail(p) = OpenEnd(p)
         /\ Held(p) # <<>> => Lost(p) = <<"?">> /\ OpenEnd(p) = <<>> /\ OpenTail(p) = <<"?">>
<1>1. "CR" \in Tokens /\ "?" \in Tokens
  BY DEF Tokens
<1>2. OpenEnd(p) = <<>> \/ OpenEnd(p) = <<"CR">>
  BY DEF OpenEnd
<1>3. Tailing(OpenEnd(p))
  BY <1>1, <1>2 DEF Tailing
<1>4. OpenEnd(p) \in Seq(Tokens)
  BY <1>3, TailingType
<1>5. CASE Held(p) = <<>>
  <2>1. Lost(p) = <<>>
    BY <1>5 DEF Lost
  <2>2. OpenEnd(p) ++ <<>> = OpenEnd(p)
    BY <1>4, Neutral
  <2>3. OpenTail(p) = OpenEnd(p)
    BY <2>1, <2>2 DEF OpenTail
  <2> QED
    BY <1>3, <1>4, <1>5, <2>1, <2>3, EmptySeq
<1>6. CASE Held(p) # <<>>
  <2>1. Lost(p) = <<"?">> /\ OpenEnd(p) = <<>>
    BY <1>6, HeldIs DEF Lost, OpenEnd
  <2>2. PICK lost : lost = <<"?">>
    OBVIOUS
  <2>3. lost \in Seq(Tokens) /\ Tailing(lost)
    BY <1>1, <2>2 DEF Tailing
  <2>4. <<>> ++ lost = lost
    BY ONLY <2>3, Neutral
  <2>5. OpenTail(p) = lost
    BY <2>1, <2>2, <2>4 DEF OpenTail
  <2> QED
    BY <1>3, <1>4, <1>6, <2>1, <2>2, <2>3, <2>5
<1> QED
  BY <1>5, <1>6

LEMMA BytesNormal ==
  ASSUME NEW p, Received(p)
  PROVE  Normal(Chars(p)) = Clean(p) ++ OpenTail(p)
<1>1. PICK none : none = <<>> /\ none \in Seq(Plain) /\ none \in Seq(Tokens)
  BY EmptySeq
<1>2. p \in Seq(Tokens) /\ HalvesPaired(p) /\ EndsPaired(p)
  BY DEF Received
<1>3. Chars(p) = Subst(p) ++ Lost(p)
  BY <1>2, CharsAre DEF Subst
<1>4. Subst(p) \in Seq(Tokens) /\ Clean(p) \in Seq(Tokens)
  BY <1>2, SubstParts, CleanParts
<1>5. Normal(Subst(p)) = Clean(p) ++ OpenEnd(p) /\ (EndsCR(Subst(p)) <=> EndsCR(p))
  <2>1. Normalized(none, p)
    BY <1>1, <1>2, NormalOf
  <2>2. none ++ Subst(p) = Subst(p) /\ none ++ Clean(p) = Clean(p)
    BY <1>1, <1>4, Neutral
  <2> QED
    BY <2>1, <2>2 DEF Normalized
<1>6. CASE Held(p) = <<>>
  <2>1. Lost(p) = <<>> /\ OpenTail(p) = OpenEnd(p)
    BY <1>2, <1>6, OpenEndIs
  <2>2. Subst(p) ++ <<>> = Subst(p)
    BY <1>4, Neutral
  <2> QED
    BY <1>3, <1>5, <2>1, <2>2
<1>7. CASE Held(p) # <<>>
  <2>1. Lost(p) = <<"?">> /\ OpenEnd(p) = <<>> /\ OpenTail(p) = <<"?">> /\ ~EndsCR(p)
    BY <1>2, <1>7, OpenEndIs, HeldIs
  <2>2. PICK e \in Tokens : e = "?"
    BY DEF Tokens
  <2>3. Normal(Subst(p) ++ <<e>>) = Normal(Subst(p)) ++ <<e>>
    BY <1>4, <1>5, <2>1, NormalStep
  <2>4. Clean(p) ++ <<>> = Clean(p)
    BY <1>4, Neutral
  <2> QED
    BY <1>3, <1>5, <2>1, <2>2, <2>3, <2>4
<1> QED
  BY <1>6, <1>7

-----------------------------------------------------------------------------
(* The frames of parts that need no normalizing.                           *)
LEMMA FramesOfParts ==
  ASSUME NEW parts, parts \in Seq(Seq(Tokens)), \A i \in 1..Len(parts) : Normal(parts[i]) = parts[i]
  PROVE  /\ FramesOf(parts) \in Seq(Frame \ {NoFrame})
         /\ Kept(FramesOf(parts), Counting) = Images(parts, CountBlock)
<1>1. PICK n \in Nat : n = Len(parts) /\ DOMAIN parts = 1..n
  BY LenProperties
<1>2. ASSUME NEW i \in 1..n PROVE parts[i] \in Seq(Tokens) /\ Normal(parts[i]) = parts[i]
  BY <1>1, ElementOfSeq
<1>3. PICK t : t = [i \in DOMAIN parts |-> ParseSseFrame(parts[i])]
  OBVIOUS
<1>4. ASSUME NEW i \in 1..n PROVE ParseSseFrame(parts[i]) = BlockFrame[parts[i]]
  BY <1>2 DEF ParseSseFrame, BlockFrame
<1>5. t = [i \in DOMAIN parts |-> BlockFrame[parts[i]]]
  BY <1>1, <1>3, <1>4
<1>6. Kept(t, Counting) = Images(parts, CountBlock)
  BY <1>5, KeptImages DEF CountBlock
<1>7. PICK X : X = {t[i] : i \in 1..n}
  OBVIOUS
<1>8. t \in Seq(X)
  BY <1>1, <1>3, <1>7
<1>9. Counting \subseteq Frame \ {NoFrame}
  BY CountNothing DEF Counting
<1>10. Kept(Kept(t, Frame \ {NoFrame}), Counting) = Kept(t, Counting)
  BY ONLY <1>8, <1>9, KeptAgain
<1>11. Kept(t, Frame \ {NoFrame}) \in Seq(Frame \ {NoFrame})
  BY ONLY <1>8, KeptType
<1>12. FramesOf(parts) = Kept(t, Frame \ {NoFrame})
  BY <1>3 DEF FramesOf
<1> QED
  BY <1>6, <1>10, <1>11, <1>12

-----------------------------------------------------------------------------
(* A chunk X after the bytes P: Y of its bytes, and of a half held before, *)
(* become characters, h is held.                                           *)
Chunk(P, X, Y, h) ==
  /\ Y \in Seq(Tokens) /\ h \in Seq(Tokens)
  /\ h = Held(P ++ X) /\ h = Held(Held(P) ++ X) /\ Held(P) ++ X = Y ++ h
  /\ HalvesPaired(Y) /\ Held(Y) = <<>> /\ Clean(Y) = Clean(X)
  /\ EndsPaired(OpenEnd(P) ++ Y) /\ OpenEnd(OpenEnd(P) ++ Y) = OpenEnd(P ++ X)

LEMMA HeldOfEnd ==
  ASSUME NEW a, a \in Seq(Tokens), NEW b, b \in Seq(Tokens), b # <<>>
  PROVE  Held(a ++ b) = Held(b) /\ OpenEnd(a ++ b) = OpenEnd(b)
<1>1. PICK c : c = a ++ b
  OBVIOUS
<1>2. Last(c) = Last(b) /\ c # <<>>
  BY ONLY <1>1, a \in Seq(Tokens), b \in Seq(Tokens), b # <<>>, FrontOfConcat, NotEmpty
<1>3. Held(c) = Held(b) /\ OpenEnd(c) = OpenEnd(b)
  BY <1>2, b # <<>> DEF Held, OpenEnd, EndsCR
<1> QED
  BY <1>1, <1>3

(* What is held is at the end of what is read.                             *)
LEMMA HeldParts ==
  ASSUME NEW p, p \in Seq(Tokens)
  PROVE  \E q \in Seq(Tokens) : p = q ++ Held(p)
<1>1. CASE Held(p) = <<>>
  BY <1>1, Neutral
<1>2. CASE Held(p) = <<"d1">>
  <2>1. Front(p) \in Seq(Tokens)
    BY <1>2, HeldIs, FrontAndLast
  <2> QED
    BY <1>2, <2>1, HeldIs
<1> QED
  BY <1>1, <1>2, HeldIs

LEMMA OpenParts ==
  ASSUME NEW p, p \in Seq(Tokens)
  PROVE  \E r \in Seq(Tokens) : p = r ++ OpenEnd(p)
<1>1. CASE ~EndsCR(p)
  BY <1>1, Neutral DEF OpenEnd
<1>2. CASE EndsCR(p)
  <2>1. p # <<>> /\ Last(p) = "CR" /\ OpenEnd(p) = <<"CR">>
    BY <1>2 DEF EndsCR, OpenEnd
  <2>2. Front(p) \in Seq(Tokens) /\ p = Front(p) ++ <<Last(p)>>
    BY <2>1, FrontAndLast
  <2> QED
    BY <2>1, <2>2
<1> QED
  BY <1>1, <1>2

LEMMA OpenOrHeld ==
  ASSUME NEW p, p \in Seq(Tokens)
  PROVE  OpenEnd(p) = <<>> \/ Held(p) = <<>>
  BY HeldIs DEF OpenEnd

LEMMA OpenClean ==
  ASSUME NEW p, p \in Seq(Tokens)
  PROVE  Clean(OpenEnd(p)) = <<>> /\ Subst(OpenEnd(p)) = OpenEnd(p)
<1>1. Clean(<<>>) = <<>> /\ Subst(<<>>) = <<>>
  BY ImagesEmpty DEF Clean, Subst
<1>2. PICK e \in Tokens : e = "CR"
  BY DEF Tokens
<1>3. PICK one : one = <<e>>
  OBVIOUS
<1>4. Clean(one) = <<>> /\ Subst(one) = <<"CR">>
  BY <1>2, <1>3, TokenOne, SubstCases
<1> QED
  BY <1>1, <1>2, <1>3, <1>4 DEF OpenEnd

(* The bytes b, of a half g held before and the chunk, cut before a half h.*)
CutIn(P, X, g, b, Y, h) ==
  /\ P \in Seq(Tokens) /\ X \in Seq(Tokens) /\ Y \in Seq(Tokens) /\ h \in Seq(Tokens)
  /\ g = Held(P) /\ b = g ++ X /\ b = Y ++ h /\ h = Held(b)

LEMMA ChunkPaired ==
  ASSUME NEW P, NEW X, NEW g, NEW b, NEW Y, NEW h, CutIn(P, X, g, b, Y, h), Received(P ++ X)
  PROVE  HalvesPaired(Y) /\ Held(Y) = <<>>
<1>0. /\ P \in Seq(Tokens) /\ X \in Seq(Tokens) /\ Y \in Seq(Tokens) /\ h \in Seq(Tokens)
      /\ g = Held(P) /\ b = g ++ X /\ b = Y ++ h /\ h = Held(b)
  BY DEF CutIn
<1>1. g \in Seq(Tokens) /\ (g = <<>> \/ g = <<"d1">>)
  BY <1>0, HeldIs
<1>2. PICK q \in Seq(Tokens) : P = q ++ g
  BY <1>0, <1>1, HeldParts
<1>3. Received(P)
  BY ONLY <1>0, Received(P ++ X), PairedParts
<1>4. Held(q) = <<>>
  <2>1. CASE g = <<>>
    <3>1. P = q
      BY <1>2, <2>1, Neutral
    <3> QED
      BY <1>0, <2>1, <3>1
  <2>2. CASE g = <<"d1">>
    BY ONLY <1>2, <1>3, <2>2, q \in Seq(Tokens), OneHalf
  <2> QED
    BY <1>1, <2>1, <2>2
<1>5. b \in Seq(Tokens)
  BY ONLY <1>0, <1>1, Typed
<1>6. P ++ X = q ++ b
  <2>1. (q ++ g) ++ X = q ++ (g ++ X)
    <3>1. X \in Seq(Tokens) /\ g \in Seq(Tokens)
      BY <1>0, <1>1
    <3> QED
      BY ONLY <3>1, q \in Seq(Tokens), Associative
  <2> QED
    BY ONLY <1>0, <1>2, <2>1
<1>7. EndsPaired(b) /\ HalvesPaired(b)
  BY ONLY <1>4, <1>5, <1>6, Received(P ++ X), q \in Seq(Tokens), PairedParts
<1>8. Received(Y ++ h) /\ (h = <<>> \/ h = <<"d1">>)
  BY <1>0, <1>5, <1>7, HeldIs DEF Received
<1>9. HalvesPaired(Y)
  <2>1. Received(Y)
    BY ONLY <1>0, <1>8, PairedParts
  <2> QED
    BY <2>1 DEF Received
<1>10. Held(Y) = <<>>
  <2>1. CASE h = <<>>
    <3>1. Y ++ h = Y
      BY <1>0, <2>1, Neutral
    <3> QED
      BY <1>0, <2>1, <3>1
  <2>2. CASE h = <<"d1">>
    BY ONLY <1>0, <1>8, <2>2, OneHalf
  <2> QED
    BY <1>8, <2>1, <2>2
<1> QED
  BY <1>9, <1>10

LEMMA ChunkOpen ==
  ASSUME NEW P, P \in Seq(Tokens), NEW X, X \in Seq(Tokens), X # <<>>, Received(P ++ X),
         NEW Y, Y \in Seq(Tokens), NEW h, h \in Seq(Tokens),
         h = <<>> \/ h = <<"d1">>, h = Held(P ++ X), Held(P) ++ X = Y ++ h
  PROVE  EndsPaired(OpenEnd(P) ++ Y) /\ OpenEnd(OpenEnd(P) ++ Y) = OpenEnd(P ++ X)
<1>1. PICK g : g = Held(P) /\ g \in Seq(Tokens)
  BY HeldIs
<1>2. PICK o : o = OpenEnd(P) /\ o \in Seq(Tokens)
  BY OpenEndIs
<1>3. PICK r \in Seq(Tokens) : P ++ X = r ++ (o ++ (g ++ X))
  <2>1. CASE o = <<>>
    <3>1. PICK q \in Seq(Tokens) : P = q ++ g
      BY <1>1, HeldParts
    <3>2. P ++ X = q ++ (g ++ X)
      BY ONLY <1>1, <3>1, q \in Seq(Tokens), X \in Seq(Tokens), Associative
    <3>3. o ++ (g ++ X) = g ++ X
      BY <1>1, <2>1, Typed, Neutral
    <3> QED
      BY <3>2, <3>3
  <2>2. CASE o # <<>>
    <3>1. g = <<>>
      BY <1>1, <1>2, <2>2, OpenOrHeld
    <3>2. PICK r \in Seq(Tokens) : P = r ++ o
      BY <1>2, OpenParts
    <3>3. P ++ X = r ++ (o ++ X)
      BY ONLY <1>2, <3>2, r \in Seq(Tokens), X \in Seq(Tokens), Associative
    <3>4. g ++ X = X
      BY <3>1, Neutral
    <3> QED
      BY <3>3, <3>4
  <2> QED
    BY <2>1, <2>2
<1>4. PICK z : z = o ++ Y /\ z \in Seq(Tokens)
  BY <1>2, Typed
<1>5. o ++ (g ++ X) = z ++ h
  <2>1. g ++ X = Y ++ h
    BY <1>1
  <2>2. o ++ (Y ++ h) = (o ++ Y) ++ h
    BY ONLY <1>2, Y \in Seq(Tokens), h \in Seq(Tokens), Associative
  <2> QED
    BY <1>4, <2>1, <2>2
<1>6. PICK b : b = z ++ h /\ b \in Seq(Tokens) /\ P ++ X = r ++ b
  BY <1>3, <1>4, <1>5, Typed
<1>7. EndsPaired(b)
  BY ONLY <1>6, Received(P ++ X), r \in Seq(Tokens), PairedParts
<1>8. b # <<>>
  <2>1. g ++ X # <<>> /\ g ++ X \in Seq(Tokens)
    BY ONLY <1>1, X \in Seq(Tokens), X # <<>>, NotEmpty, Typed
  <2>2. o ++ (g ++ X) # <<>>
    BY ONLY <1>2, <2>1, NotEmpty
  <2> QED
    BY <1>5, <1>6, <2>2
<1>9. OpenEnd(P ++ X) = OpenEnd(b) /\ Held(P ++ X) = Held(b)
  BY ONLY <1>6, <1>8, r \in Seq(Tokens), HeldOfEnd
<1>10. CASE h = <<>>
  <2>1. b = z
    BY <1>4, <1>6, <1>10, Neutral
  <2> QED
    BY <1>2, <1>4, <1>7, <1>9, <2>1
<1>11. CASE h = <<"d1">>
  <2>1. PICK e \in Tokens : e = "d1" /\ h = <<e>>
    BY <1>11 DEF Tokens
  <2>2. EndsPaired(z ++ <<e>>) /\ ~EndsCR(z ++ <<e>>)
    BY <1>4, <1>6, <1>7, <2>1, EndsWith
  <2>3. EndsPaired(z) /\ ~EndsCR(z)
    BY <1>4, <2>1, <2>2, EndsPairedStep
  <2> QED
    BY <1>2, <1>4, <1>6, <1>9, <2>1, <2>2, <2>3 DEF OpenEnd
<1> QED
  BY <1>10, <1>11

LEMMA ChunkExists ==
  ASSUME NEW P, P \in Seq(Tokens), NEW X, X \in Seq(Tokens), X # <<>>, Received(P ++ X)
  PROVE  \E Y, h : Chunk(P, X, Y, h)
<1>1. PICK g : g = Held(P) /\ g \in Seq(Tokens) /\ Clean(g) = <<>>
  BY HeldIs
<1>2. PICK b : b = g ++ X /\ b \in Seq(Tokens) /\ b # <<>>
  BY <1>1, Typed, NotEmpty
<1>3. PICK h : h = Held(b) /\ h \in Seq(Tokens) /\ (h = <<>> \/ h = <<"d1">>) /\ Clean(h) = <<>>
  BY <1>2, HeldIs
<1>4. PICK Y \in Seq(Tokens) : b = Y ++ h
  BY <1>2, <1>3, HeldParts
<1>5. PICK q \in Seq(Tokens) : P = q ++ g
  BY <1>1, HeldParts
<1>6. P ++ X = q ++ b
  BY ONLY <1>1, <1>2, <1>5, q \in Seq(Tokens), X \in Seq(Tokens), Associative
<1>7. h = Held(P ++ X)
  BY ONLY <1>2, <1>3, <1>6, q \in Seq(Tokens), HeldOfEnd
<1>8. HalvesPaired(Y) /\ Held(Y) = <<>>
  <2>1. CutIn(P, X, g, b, Y, h)
    BY <1>1, <1>2, <1>3, <1>4 DEF CutIn
  <2> QED
    BY ONLY <2>1, Received(P ++ X), ChunkPaired
<1>9. EndsPaired(OpenEnd(P) ++ Y) /\ OpenEnd(OpenEnd(P) ++ Y) = OpenEnd(P ++ X)
  BY <1>1, <1>2, <1>3, <1>4, <1>7, ChunkOpen
<1>10. Clean(Y) = Clean(X)
  <2>1. Clean(b) = <<>> ++ Clean(X) /\ Clean(X) \in Seq(Tokens)
    BY ONLY <1>1, <1>2, X \in Seq(Tokens), CleanParts
  <2>2. Clean(b) = Clean(Y) ++ <<>> /\ Clean(Y) \in Seq(Tokens)
    BY ONLY <1>3, <1>4, Y \in Seq(Tokens), CleanParts
  <2>3. <<>> ++ Clean(X) = Clean(X) /\ Clean(Y) ++ <<>> = Clean(Y)
    BY <2>1, <2>2, Neutral
  <2> QED
    BY <2>1, <2>2, <2>3
<1>11. Chunk(P, X, Y, h)
  BY <1>1, <1>2, <1>3, <1>4, <1>7, <1>8, <1>9, <1>10 DEF Chunk
<1> QED
  BY <1>11

LEMMA DecodedIs ==
  ASSUME NEW P, P \in Seq(Tokens), NEW X, X \in Seq(Tokens), NEW Y, NEW h, Chunk(P, X, Y, h)
  PROVE  /\ Decoded(Held(P), X).chars = Subst(Y) /\ Decoded(Held(P), X).held = h
         /\ Subst(Y) \in Seq(Tokens)
<1>1. Y \in Seq(Tokens) /\ h \in Seq(Tokens) /\ HalvesPaired(Y) /\ Held(Y) = <<>>
  BY DEF Chunk
<1>2. PICK b : b = Held(P) ++ X
  OBVIOUS
<1>3. b = Y ++ h /\ h = Held(b)
  BY <1>2 DEF Chunk
<1>4. PICK n \in Nat : n = Len(Y)
  BY <1>1, LenProperties
<1>5. n = Len(b) - Len(h)
  <2>1. Follows(b, Y, h)
    BY <1>1, <1>3, Following
  <2> QED
    BY <1>4, <2>1 DEF Follows
<1>6. Part(b, 1, n) = Y
  <2>1. Within(Y, 1, n)
    BY <1>4 DEF Within
  <2>2. PICK p : p = Part(Y, 1, n)
    OBVIOUS
  <2>3. Part(b, 1, n) = p
    BY ONLY <1>1, <1>3, <2>1, <2>2, PartLeft
  <2>4. IsPart(p, Y, 1, n, Tokens)
    BY ONLY <1>1, <2>1, <2>2, PartIs
  <2>5. IsPart(Y, Y, 1, n, Tokens)
    BY <1>1, <1>4 DEF IsPart
  <2>6. p = Y
    BY ONLY <2>4, <2>5, n \in Nat, PartSame
  <2> QED
    BY <2>3, <2>6
<1>7. Chars(Y) = Subst(Y) /\ Subst(Y) \in Seq(Tokens)
  <2>1. Chars(Y) = Subst(Y) ++ <<>>
    BY <1>1, CharsAre DEF Subst, Lost
  <2>2. Subst(Y) \in Seq(Tokens)
    BY <1>1, SubstParts
  <2> QED
    BY <2>1, <2>2, Neutral
<1>8. Decoded(Held(P), X) = [chars |-> Chars(Part(b, 1, Len(b) - Len(h))), held |-> h]
  BY <1>2, <1>3 DEF Decoded, ++, Part
<1> QED
  BY <1>5, <1>6, <1>7, <1>8

-----------------------------------------------------------------------------
(* What is in the buffer after the bytes p, what it makes of their end     *)
(* when there are no more, and the counting frames of p: of whole frames,  *)
(* and with the rest.                                                      *)
Rest(p) == Last(Blocks(Clean(p))) ++ OpenEnd(p)
WholeFrames(p) == Images(Front(Blocks(Clean(p))), CountBlock)
AllFrames(p) == Images(Blocks(Clean(p) ++ OpenTail(p)), CountBlock)

LEMMA PlainIn ==
  ASSUME NEW t, t \in Seq(Seq(Plain)), NEW i \in 1..Len(t)
  PROVE  t[i] \in Seq(Tokens) /\ Normal(t[i]) = t[i]
<1>1. t[i] \in Seq(Plain)
  BY ElementOfSeq
<1> QED
  BY <1>1, PlainNormal

LEMMA PlainFrames ==
  ASSUME NEW t, t \in Seq(Seq(Plain))
  PROVE  /\ FramesOf(t) \in Seq(Frame \ {NoFrame})
         /\ Kept(FramesOf(t), Counting) = Images(t, CountBlock)
<1>1. Seq(Plain) \subseteq Seq(Tokens)
  BY SubstType
<1>2. t \in Seq(Seq(Tokens))
  BY <1>1
<1> QED
  BY <1>2, PlainIn, FramesOfParts

LEMMA BlocksPlain ==
  ASSUME NEW s, s \in Seq(Plain)
  PROVE  /\ s \in Seq(Tokens) /\ Blocks(s) \in Seq(Seq(Plain)) /\ Blocks(s) # <<>>
         /\ Front(Blocks(s)) \in Seq(Seq(Plain)) /\ Last(Blocks(s)) \in Seq(Plain)
         /\ Front(Blocks(s)) \in Seq(Seq(Tokens)) /\ Last(Blocks(s)) \in Seq(Tokens)
<1>1. s \in Seq(Tokens)
  BY PlainNormal
<1>2. Blocks(s) \in Seq(Seq(Plain)) /\ Blocks(s) # <<>> /\ Blocks(s) \in Seq(Seq(Tokens))
  BY <1>1, PlainBlocks, LinesType
<1>3. Front(Blocks(s)) \in Seq(Seq(Plain)) /\ Last(Blocks(s)) \in Seq(Plain)
  BY <1>2, FrontAndLast
<1>4. Front(Blocks(s)) \in Seq(Seq(Tokens)) /\ Last(Blocks(s)) \in Seq(Tokens)
  BY <1>2, FrontAndLast
<1> QED
  BY <1>1, <1>2, <1>3, <1>4

(* Plain text and a tail: the frames of what is whole, and the rest.       *)
LEMMA DrainPlain ==
  ASSUME NEW s, s \in Seq(Plain), NEW tail, Tailing(tail), NEW c, Normal(c) = s ++ tail
  PROVE  /\ DrainSseFrames(c).frames \in Seq(Frame \ {NoFrame})
         /\ Kept(DrainSseFrames(c).frames, Counting) = Images(Front(Blocks(s)), CountBlock)
         /\ DrainSseFrames(c).remainder = Last(Blocks(s)) ++ tail
<1>1. PICK f, l : f = Front(Blocks(s)) /\ l = Last(Blocks(s)) ++ tail
  OBVIOUS
<1>2. f \in Seq(Seq(Plain)) /\ f \in Seq(Seq(Tokens)) /\ s \in Seq(Tokens)
  BY <1>1, BlocksPlain
<1>3. l \in Seq(Tokens)
  BY <1>1, BlocksPlain, TailingType, Typed
<1>4. Blocks(s ++ tail) = f ++ <<l>>
  BY <1>1, <1>2, BlocksTail
<1>5. Front(f ++ <<l>>) = f /\ Last(f ++ <<l>>) = l
  BY ONLY <1>2, <1>3, FrontLast
<1>6. PICK parts : parts = Blocks(Normal(c)) /\ Front(parts) = f /\ Last(parts) = l
  BY <1>4, <1>5
<1>7. DrainSseFrames(c) = [frames |-> FramesOf(f), remainder |-> l]
  BY <1>6 DEF DrainSseFrames
<1> QED
  BY <1>1, <1>2, <1>7, PlainFrames

LEMMA Buffered ==
  ASSUME NEW P, P \in Seq(Tokens), NEW X, X \in Seq(Tokens), NEW Y, NEW h, Chunk(P, X, Y, h)
  PROVE  \E s \in Seq(Plain) :
           /\ s = Last(Blocks(Clean(P))) ++ Clean(X)
           /\ Normal(Rest(P) ++ Subst(Y)) = s ++ OpenEnd(P ++ X)
<1>1. Y \in Seq(Tokens) /\ Clean(Y) = Clean(X)
  BY DEF Chunk
<1>2. PICK o : o = OpenEnd(P) /\ o \in Seq(Tokens) /\ Clean(o) = <<>> /\ Subst(o) = o
  BY OpenEndIs, OpenClean
<1>3. PICK w : w = Last(Blocks(Clean(P))) /\ w \in Seq(Plain) /\ w \in Seq(Tokens)
  BY CleanParts, BlocksPlain
<1>4. PICK z : z = o ++ Y /\ z \in Seq(Tokens)
  BY <1>1, <1>2, Typed
<1>5. EndsPaired(z) /\ OpenEnd(z) = OpenEnd(P ++ X)
  BY <1>2, <1>4 DEF Chunk
<1>6. Normal(w ++ Subst(z)) = (w ++ Clean(z)) ++ OpenEnd(z)
  BY ONLY <1>3, <1>4, <1>5, NormalOf DEF Normalized
<1>7. Clean(z) = Clean(X)
  <2>1. Clean(z) = <<>> ++ Clean(Y) /\ Clean(Y) \in Seq(Tokens)
    BY ONLY <1>1, <1>2, <1>4, CleanParts
  <2>2. <<>> ++ Clean(Y) = Clean(Y)
    BY <2>1, Neutral
  <2> QED
    BY <1>1, <2>1, <2>2
<1>8. w ++ Subst(z) = Rest(P) ++ Subst(Y)
  <2>1. Subst(z) = o ++ Subst(Y) /\ Subst(Y) \in Seq(Tokens)
    BY ONLY <1>1, <1>2, <1>4, SubstParts
  <2>2. PICK u : u = Subst(Y)
    OBVIOUS
  <2>3. w ++ (o ++ u) = (w ++ o) ++ u
    BY ONLY <1>2, <1>3, <2>1, <2>2, Associative
  <2>4. Rest(P) = w ++ o
    BY <1>2, <1>3 DEF Rest
  <2> QED
    BY <2>1, <2>2, <2>3, <2>4
<1>9. Clean(X) \in Seq(Plain)
  BY CleanParts
<1>10. w ++ Clean(X) \in Seq(Plain)
  BY <1>3, <1>9, Typed
<1> QED
  BY <1>3, <1>5, <1>6, <1>7, <1>8, <1>10

(* A chunk moves the buffer and the frames on.                             *)
Moved(P, X, decoded, drained) ==
  /\ decoded.held = Held(P ++ X)
  /\ drained.remainder = Rest(P ++ X)
  /\ drained.frames \in Seq(Frame \ {NoFrame})
  /\ WholeFrames(P ++ X) = WholeFrames(P) ++ Kept(drained.frames, Counting)

LEMMA ChunkRead ==
  ASSUME NEW P, P \in Seq(Tokens), NEW X, X \in Seq(Tokens), X # <<>>, Received(P ++ X),
         NEW decoded, decoded = Decoded(Held(P), X),
         NEW drained, drained = DrainSseFrames(Rest(P) \o decoded.chars)
  PROVE  Moved(P, X, decoded, drained)
<1>1. PICK Y, h : Chunk(P, X, Y, h)
  BY ChunkExists
<1>2. decoded.chars = Subst(Y) /\ decoded.held = h
  BY <1>1, DecodedIs
<1>3. PICK s \in Seq(Plain) : /\ s = Last(Blocks(Clean(P))) ++ Clean(X)
                              /\ Normal(Rest(P) ++ Subst(Y)) = s ++ OpenEnd(P ++ X)
  BY <1>1, Buffered
<1>4. PICK f, r : f = Front(Blocks(Clean(P))) /\ r = Last(Blocks(Clean(P)))
  OBVIOUS
<1>5. /\ Clean(P) \in Seq(Tokens) /\ Clean(P) \in Seq(Plain) /\ Clean(X) \in Seq(Tokens)
      /\ Clean(P ++ X) = Clean(P) ++ Clean(X)
  BY CleanParts
<1>6. Blocks(Clean(P) ++ Clean(X)) = f ++ Blocks(s) /\ f \in Seq(Seq(Tokens))
  BY <1>3, <1>4, <1>5, BlocksMore
<1>7. PICK B, F, l : B = Blocks(s) /\ F = Front(B) /\ l = Last(B)
  OBVIOUS
<1>8. B \in Seq(Seq(Tokens)) /\ B # <<>> /\ F \in Seq(Seq(Tokens))
  BY <1>3, <1>7, BlocksPlain, LinesType
<1>9. Front(f ++ B) = f ++ F /\ Last(f ++ B) = l
  BY ONLY <1>6, <1>7, <1>8, FrontOfConcat
<1>10. PICK tail : tail = OpenEnd(P ++ X) /\ Tailing(tail)
  BY Typed, OpenEndIs
<1>11. PICK c : c = Rest(P) ++ Subst(Y) /\ drained = DrainSseFrames(c) /\ Normal(c) = s ++ tail
  BY <1>2, <1>3, <1>10 DEF ++
<1>12. /\ drained.frames \in Seq(Frame \ {NoFrame})
       /\ Kept(drained.frames, Counting) = Images(F, CountBlock)
       /\ drained.remainder = l ++ tail
  BY ONLY <1>7, <1>10, <1>11, s \in Seq(Plain), DrainPlain
<1>13. Images(f ++ F, CountBlock) = Images(f, CountBlock) ++ Images(F, CountBlock)
  BY ONLY <1>6, <1>8, CountBlockParts
<1>14. WholeFrames(P ++ X) = WholeFrames(P) ++ Kept(drained.frames, Counting)
  BY <1>4, <1>5, <1>6, <1>7, <1>9, <1>12, <1>13 DEF WholeFrames
<1>15. drained.remainder = Rest(P ++ X)
  BY <1>5, <1>6, <1>7, <1>9, <1>10, <1>12 DEF Rest
<1>16. decoded.held = Held(P ++ X)
  BY <1>1, <1>2 DEF Chunk
<1> QED
  BY <1>12, <1>14, <1>15, <1>16 DEF Moved

(* The end of the body does too.                                           *)
Ends(P, last) ==
  /\ last \in Seq(Frame \ {NoFrame})
  /\ AllFrames(P) = WholeFrames(P) ++ Kept(last, Counting)

LEMMA DoneRead ==
  ASSUME NEW P, P \in Seq(Tokens), NEW last, last = FramesOf(<<Rest(P) \o Lost(P)>>)
  PROVE  Ends(P, last)
<1>1. PICK s : s = Clean(P) /\ s \in Seq(Plain) /\ s \in Seq(Tokens)
  BY CleanParts
<1>2. PICK f, r : /\ f = Front(Blocks(s)) /\ r = Last(Blocks(s))
                  /\ f \in Seq(Seq(Tokens)) /\ r \in Seq(Plain) /\ r \in Seq(Tokens)
  BY <1>1, BlocksPlain
<1>3. PICK tail : tail = OpenTail(P) /\ Tailing(tail) /\ tail \in Seq(Tokens)
  BY OpenEndIs, TailingType
<1>4. PICK l : l = r ++ tail /\ l \in Seq(Tokens) /\ Normal(l) = l
  BY <1>2, <1>3, NormalTail, Typed
<1>5. Blocks(s ++ tail) = f ++ <<l>>
  BY <1>1, <1>2, <1>3, <1>4, BlocksTail
<1>6. Rest(P) ++ Lost(P) = l
  <2>1. PICK o, m : /\ o = OpenEnd(P) /\ m = Lost(P)
                    /\ o \in Seq(Tokens) /\ m \in Seq(Tokens)
    BY OpenEndIs
  <2>2. (r ++ o) ++ m = r ++ (o ++ m)
    BY ONLY <1>2, <2>1, Associative
  <2> QED
    BY <1>1, <1>2, <1>3, <1>4, <2>1, <2>2 DEF Rest, OpenTail
<1>7. PICK one : one = <<l>> /\ last = FramesOf(one)
  BY <1>6 DEF ++
<1>8. one \in Seq(Seq(Tokens)) /\ \A i \in 1..Len(one) : Normal(one[i]) = one[i]
  BY <1>4, <1>7
<1>9. last \in Seq(Frame \ {NoFrame}) /\ Kept(last, Counting) = Images(one, CountBlock)
  BY <1>7, <1>8, FramesOfParts
<1>10. Images(f ++ one, CountBlock) = Images(f, CountBlock) ++ Images(one, CountBlock)
  BY ONLY <1>2, <1>8, CountBlockParts
<1> QED
  BY <1>1, <1>2, <1>3, <1>5, <1>7, <1>9, <1>10 DEF Ends, AllFrames, WholeFrames

-----------------------------------------------------------------------------
(* The reference counts the same frames.                                   *)
LEMMA FramesTyped ==
  ASSUME NEW p, Received(p)
  PROVE  AllFrames(p) \in Seq(Counting) /\ WholeFrames(p) \in Seq(Counting)
<1>1. Clean(p) \in Seq(Tokens) /\ Tailing(OpenTail(p))
  BY CleanParts, OpenEndIs DEF Received
<1>2. Clean(p) ++ OpenTail(p) \in Seq(Tokens)
  BY <1>1, TailingType, Typed
<1>3. Front(Blocks(Clean(p))) \in Seq(Seq(Tokens))
  BY <1>1, BlocksMore
<1>4. Blocks(Clean(p) ++ OpenTail(p)) \in Seq(Seq(Tokens))
  BY <1>2, LinesType
<1> QED
  BY <1>3, <1>4, CountBlockParts DEF AllFrames, WholeFrames

LEMMA ReferenceIs ==
  ASSUME NEW p, Received(p)
  PROVE  Reference(p, TRUE) = Results(AllFrames(p)) /\ Reference(p, FALSE) = Results(WholeFrames(p))
<1>1. PICK s, tail : s = Clean(p) /\ tail = OpenTail(p)
  OBVIOUS
<1>2. s \in Seq(Tokens) /\ Tailing(tail) /\ tail \in Seq(Tokens)
  BY <1>1, CleanParts, OpenEndIs, TailingType DEF Received
<1>3. PICK c : c = s ++ tail /\ c \in Seq(Tokens) /\ Normal(Chars(p)) = c
  BY <1>1, <1>2, BytesNormal, Typed
<1>4. Front(Blocks(c)) = Front(Blocks(s))
  <2>1. PICK f, l : f = Front(Blocks(s)) /\ l = Last(Blocks(s)) ++ tail
    OBVIOUS
  <2>2. f \in Seq(Seq(Tokens)) /\ l \in Seq(Tokens)
    BY <1>2, <2>1, BlocksMore, LinesType, Typed
  <2>3. Blocks(c) = f ++ <<l>>
    BY <1>2, <1>3, <2>1, BlocksTail
  <2>4. Front(f ++ <<l>>) = f
    BY ONLY <2>2, FrontLast
  <2> QED
    BY <2>1, <2>3, <2>4
<1>5. PICK L : L = Lines(c) /\ L \in Seq(Seq(Tokens))
  BY <1>3, LinesType
<1>6. /\ RunFrames(L, TRUE) = Images(Blocks(c), CountBlock)
      /\ RunFrames(L, FALSE) = Images(Front(Blocks(c)), CountBlock)
  BY <1>3, <1>5, TextFrames DEF FramesAreBlocks
<1>7. ASSUME NEW whole \in BOOLEAN
      PROVE  Reference(p, whole) = Results(RunFrames(L, whole))
  <2>1. PICK runs : runs = Runs(L, whole) /\ runs \in Seq(Seq(Seq(Tokens)))
    BY <1>5, RunsType
  <2>2. PICK t : t = [i \in DOMAIN runs |-> FrameOf[runs[i]]]
    OBVIOUS
  <2>3. Kept(t, Counting) = Images(runs, CountOf)
    <3>1. PICK X, g, good : X = Seq(Seq(Tokens)) /\ g = FrameOf /\ good = Counting
      OBVIOUS
    <3>2. runs \in Seq(X) /\ t = [i \in DOMAIN runs |-> g[runs[i]]]
      BY <2>1, <2>2, <3>1
    <3>3. Kept(t, good) = Images(runs, Chosen(X, g, good))
      BY ONLY <3>2, KeptImages
    <3> QED
      BY <3>1, <3>3 DEF CountOf
  <2>4. Reference(p, whole) = Results(Kept(t, Counting))
    BY <1>3, <1>5, <2>1, <2>2 DEF Reference
  <2> QED
    BY <2>1, <2>3, <2>4 DEF RunFrames
<1> QED
  BY <1>1, <1>3, <1>4, <1>6, <1>7 DEF AllFrames, WholeFrames

-----------------------------------------------------------------------------
(* What a sequence of frames comes to.                                     *)
AllItems(fs) == \A i \in 1..Len(fs) : FrameResult(fs[i]) = "item"

LEMMA ResultKinds ==
  ASSUME NEW f, FrameResult(f) # "nothing"
  PROVE  FrameResult(f) = "item" \/ FrameResult(f) \in Errors
  BY DEF FrameResult, Errors

LEMMA ItemsAll ==
  ASSUME NEW X, NEW F, F \in Seq(X), AllItems(F)
  PROVE  Results(F).items = F /\ Results(F).end = "success"
<1>1. PICK at : at = {i \in DOMAIN F : FrameResult(F[i]) \in Errors}
  OBVIOUS
<1>2. DOMAIN F = 1..Len(F)
  BY LenProperties
<1>3. at = {}
  BY <1>1, <1>2 DEF AllItems, Errors
<1>4. First(at) = 0
  BY <1>3 DEF First
<1> QED
  BY <1>1, <1>4 DEF Results

LEMMA ItemsUntil ==
  ASSUME NEW X, NEW d, d \in Seq(X), NEW f, f \in X, NEW r, r \in Seq(X),
         AllItems(d), FrameResult(f) \in Errors, NEW F, F = (d ++ <<f>>) ++ r
  PROVE  Results(F).items = d /\ Results(F).end = FrameResult(f)
<1>1. PICK one, e : one = <<f>> /\ e = d ++ one /\ one \in Seq(X) /\ e \in Seq(X) /\ F = e ++ r
  <2>0. PICK one : one = <<f>>
    OBVIOUS
  <2>1. one = <<f>> /\ one \in Seq(X)
    BY ONLY <2>0, f \in X
  <2>2. PICK e : e = d ++ one
    OBVIOUS
  <2>3. e \in Seq(X)
    BY ONLY <2>1, <2>2, d \in Seq(X), Typed
  <2>4. F = e ++ r
    BY <2>1, <2>2
  <2> QED
    BY <2>1, <2>2, <2>3, <2>4
<1>2. PICK n \in Nat, m \in Nat : n = Len(d) /\ m = Len(r)
  BY LenProperties
<1>3. Len(e) = n + 1 /\ e[n + 1] = f /\ \A i \in 1..n : e[i] = d[i]
  <2>1. Follows(e, d, one)
    BY <1>1, Following
  <2>2. Len(one) = 1 /\ one[1] = f
    BY <1>1
  <2> QED
    BY <1>2, <2>1, <2>2 DEF Follows
<1>4. F \in Seq(X) /\ Len(F) = n + 1 + m /\ \A i \in 1..(n + 1) : F[i] = e[i]
  <2>1. Follows(F, e, r) /\ F \in Seq(X)
    BY <1>1, Following
  <2> QED
    BY <1>2, <1>3, <2>1 DEF Follows
<1>5. F[n + 1] = f /\ \A i \in 1..n : F[i] = d[i]
  BY <1>3, <1>4
<1>6. PICK at : at = {i \in DOMAIN F : FrameResult(F[i]) \in Errors}
  OBVIOUS
<1>7. at \in SUBSET (Nat \ {0}) /\ n + 1 \in at
  BY <1>4, <1>5, <1>6
<1>8. ASSUME NEW i \in at PROVE n + 1 <= i
  <2>1. i \in Nat \ {0} /\ FrameResult(F[i]) \in Errors
    BY <1>6, <1>7
  <2>2. CASE i <= n
    <3>1. FrameResult(F[i]) = "item"
      BY <1>2, <1>5, <2>1, <2>2 DEF AllItems
    <3> QED
      BY <2>1, <3>1 DEF Errors
  <2> QED
    BY <2>1, <2>2
<1>9. First(at) = n + 1
  <2>1. PICK m1 : m1 = First(at)
    OBVIOUS
  <2>2. m1 \in at /\ m1 <= n + 1
    BY <1>7, <2>1, FirstIsLeast
  <2>3. m1 \in Nat /\ n + 1 <= m1
    BY <1>7, <1>8, <2>2
  <2> QED
    BY <2>1, <2>2, <2>3
<1>10. Results(F).items = SubSeq(F, 1, n) /\ Results(F).end = FrameResult(f)
  <2>1. PICK k : k = n + 1 /\ k = First(at) /\ k # 0 /\ k - 1 = n
    BY <1>9
  <2>2. Results(F) = [items |-> SubSeq(F, 1, k - 1), end |-> FrameResult(F[k])]
    BY ONLY <1>6, <2>1 DEF Results
  <2>3. F[k] = f
    BY <1>5, <2>1
  <2> QED
    BY <2>1, <2>2, <2>3
<1>11. Part(F, 1, n) = d
  <2>1. Within(F, 1, n) /\ Within(d, 1, n)
    BY <1>2, <1>4 DEF Within
  <2>2. IsPart(Part(F, 1, n), F, 1, n, X) /\ IsPart(d, d, 1, n, X)
    <3>1. IsPart(Part(F, 1, n), F, 1, n, X)
      BY ONLY <1>4, <2>1, PartIs
    <3>2. IsPart(d, d, 1, n, X)
      BY <1>2 DEF IsPart
    <3> QED
      BY <3>1, <3>2
  <2>3. \A k \in 1..(n - 1 + 1) : F[1 + k - 1] = d[1 + k - 1]
    BY <1>5
  <2>4. PICK q : q = Part(F, 1, n)
    OBVIOUS
  <2>5. q = d
    BY ONLY <2>2, <2>3, <2>4, n \in Nat, PartSame
  <2> QED
    BY <2>4, <2>5
<1> QED
  BY <1>10, <1>11 DEF Part

-----------------------------------------------------------------------------
(* The call.  The stages of the call and of the generator.                 *)
Stages ==
  /\ request \in Requests
  /\ call \in {"new", "fetching", "reading", "streaming", "settled"}
  /\ gen \in {"new", "reading", "decoding", "yielded", "closing", "closed"}
  /\ call \in {"new", "fetching", "reading"} => gen = "new"
  /\ gen = "closed" => call = "settled"
  /\ call = "settled" => gen \in {"new", "closed"}

(* The generator fails with what it read, never with a timeout.            *)
FailuresRead == failure \in {"none", "NetworkError"} \cup Errors

(* The timer, the controller and the outcome.                              *)
Timing ==
  /\ timer \in {"off", "armed", "fired"} /\ reason \in {"none", "timeout", "caller"}
  /\ call = "new" => timer = "off" /\ reason = "none"
  /\ reason = "caller" => outcome = "interrupted"
  /\ outcome # "interrupted" => (reason = "timeout" <=> timer = "fired")
  /\ call # "settled" => outcome \in {"none", "interrupted"}
  /\ call \in {"reading", "streaming"} /\ outcome # "interrupted" => timer # "fired"

(* The lock on the body.                                                   *)
Locking ==
  /\ gen = "new" => body = "unread"
  /\ gen \notin {"new", "closed"} => body = "locked"

Inv == Stages /\ FailuresRead /\ Timing /\ Locking /\ TimeoutIsFinal /\ NothingLeftBehind

USE DEF Stages, FailuresRead, Timing, Locking, TimeoutIsFinal, NothingLeftBehind, Errors,
        requestVars, callVars, serverVars, readVars, streamVars

-----------------------------------------------------------------------------
LEMMA InitInv == Init => Inv
  BY DEF Init, Inv

(* Fetching, and reading a body.                                           *)
LEMMA StartInv == Inv /\ Start => Inv'
<1> SUFFICES ASSUME Inv, Start PROVE Inv'
  OBVIOUS
<1>1. request \in Requests
  BY DEF Inv
<1>2. CASE request \in {"unencodable", "no fetch"}
  BY <1>2 DEF Inv, Start, Refused, SettledWith
<1>3. CASE request \in {"misfit", "unbuildable"}
  BY <1>3 DEF Inv, Start, RefusedLate, SettledWith, Cleared, Armed
<1>4. CASE request = "good"
  BY <1>4 DEF Inv, Start, Armed
<1> QED
  BY <1>1, <1>2, <1>3, <1>4 DEF Requests

LEMMA FetchInv == Inv /\ Fetch => Inv'
<1> SUFFICES ASSUME Inv, Fetch PROVE Inv'
  OBVIOUS
<1>1. CASE FetchRejects
  BY <1>1 DEF Inv, FetchRejects, SettledWith, Clear, Cleared, TimedOut
<1>2. ASSUME NEW r \in Responses, FetchResponds(r) PROVE Inv'
  BY <1>2 DEF Inv, FetchResponds, SettledWith, Clear, Cleared, TimedOut
<1> QED
  BY <1>1, <1>2 DEF Fetch

LEMMA BodyNoTimeout ==
  ASSUME NEW k, NEW r
  PROVE  BodyOutcome(k, r) \notin {"TimeoutError", "interrupted"}
  BY DEF BodyOutcome, FailedOutcome

LEMMA ReadBodyInv == Inv /\ (ReadBody \/ InterruptRead) => Inv'
  BY BodyNoTimeout DEF Inv, ReadBody, InterruptRead, SettledWith

(* Aborting.                                                               *)
LEMMA AbortInv == Inv /\ (TimerFires \/ InterruptFetch) => Inv'
<1> SUFFICES ASSUME Inv, TimerFires \/ InterruptFetch PROVE Inv'
  OBVIOUS
<1>1. CASE TimerFires
  BY <1>1 DEF Inv, TimerFires, Aborted, AbortReason, AfterAbort
<1>2. CASE InterruptFetch
  BY <1>2 DEF Inv, InterruptFetch, Aborted, AbortReason, AfterAbort, Cleared
<1> QED
  BY <1>1, <1>2

(* Streaming.                                                              *)
LEMMA PullInv == Inv /\ Pull => Inv'
  BY DEF Inv, Pull

LEMMA ReadInv == Inv /\ (ReadChunk \/ ReadDone \/ ReadFails \/ FramesDone) => Inv'
<1> SUFFICES ASSUME Inv, ReadChunk \/ ReadDone \/ ReadFails \/ FramesDone PROVE Inv'
  OBVIOUS
<1>1. /\ gen \in {"reading", "decoding"} /\ gen' \in {"reading", "decoding", "closing"}
      /\ UNCHANGED <<request, callVars, body>>
      /\ failure' \in {failure, "NetworkError"}
  BY DEF Inv, ReadChunk, ReadDone, ReadFails, FramesDone
<1> QED
  BY <1>1 DEF Inv

LEMMA DecodeInv == Inv /\ DecodeFrame => Inv'
<1> SUFFICES ASSUME Inv, DecodeFrame PROVE Inv'
  OBVIOUS
<1>1. /\ gen = "decoding" /\ gen' \in {"decoding", "closing", "yielded"}
      /\ UNCHANGED <<request, callVars, body>>
      /\ failure' = failure \/ failure' \in Errors
  BY DEF Inv, DecodeFrame, AfterYield
<1> QED
  BY <1>1 DEF Inv

LEMMA FinallyInv == Inv /\ Finally => Inv'
  BY DEF Inv, Finally, LetGo, SettledWith

LEMMA StopInv == Inv /\ Stop => Inv'
  BY DEF Inv, Stop

LEMMA StepInv == Inv /\ [Next]_vars => Inv'
<1> SUFFICES ASSUME Inv, [Next]_vars PROVE Inv'
  OBVIOUS
<1>1. CASE Rests \/ UNCHANGED vars
  BY <1>1 DEF Inv, Rests, vars
<1>2. ASSUME NEW line \in LineKinds, ServerSends(line) PROVE Inv'
  BY <1>2 DEF Inv, ServerSends
<1> QED
  BY <1>1, <1>2, StartInv, FetchInv, ReadBodyInv, AbortInv, PullInv, ReadInv, DecodeInv,
     FinallyInv, StopInv DEF Next, Generate, ReadEnds, GeneratorGoesOn

LEMMA InvAlways == FairSpec => []Inv
  BY InitInv, StepInv, PTL DEF FairSpec

(* A call ends as a timeout exactly when its timer fired, whatever races   *)
(* with it: the response, its body, the caller (makeTimeoutSignal, clear). *)
THEOREM TimeoutsFinal == FairSpec => []TimeoutIsFinal
<1>1. Inv => TimeoutIsFinal
  BY DEF Inv
<1> QED
  BY <1>1, InvAlways, PTL

(* No timer, listener or lock survives the call (fetchResponse,            *)
(* decodeSseStream and their finally blocks).                              *)
THEOREM NothingLeft == FairSpec => []NothingLeftBehind
<1>1. Inv => NothingLeftBehind
  BY DEF Inv
<1> QED
  BY <1>1, InvAlways, PTL

HIDE DEF Stages, FailuresRead, Timing, Locking, TimeoutIsFinal, NothingLeftBehind, Errors,
        requestVars, callVars, serverVars, readVars, streamVars

-----------------------------------------------------------------------------
(* How far the frames of what was read have got: all were items and were   *)
(* given; some were given and the others are still to be decoded; some     *)
(* were given and the next was the failure.                                *)
Given(total, items) ==
  total \in Seq(Counting) /\ AllItems(total) /\ items = Data(total)

Left(total, done, left) ==
  done \in Seq(Counting) /\ left \in Seq(Counting) /\ total = done ++ left /\ AllItems(done)

Going(total, pending, items) ==
  /\ pending \in Seq(Frame \ {NoFrame})
  /\ \E done : Left(total, done, Kept(pending, Counting)) /\ items = Data(done)

Failed(total, items, error) ==
  \E done, f, left : /\ Left(total, done, <<f>> ++ left) /\ f \in Counting
                     /\ left \in Seq(Counting)
                     /\ items = Data(done) /\ error = FrameResult(f) /\ error \in Errors

LEMMA DataMore ==
  ASSUME NEW d, d \in Seq(Counting), NEW f, f \in Counting
  PROVE  Data(d ++ <<f>>) = Append(Data(d), f.data)
<1>1. PICK one : one = <<f>>
  OBVIOUS
<1>2. one \in Seq(Counting) /\ Len(one) = 1 /\ one[1] = f
  BY ONLY <1>1, f \in Counting
<1>3. PICK e : e = d ++ one
  OBVIOUS
<1>4. PICK n \in Nat : n = Len(d) /\ DOMAIN d = 1..n
  BY LenProperties
<1>5. e \in Seq(Counting) /\ Len(e) = n + 1 /\ e[n + 1] = f /\ \A i \in 1..n : e[i] = d[i]
  <2>1. Follows(e, d, one) /\ e \in Seq(Counting)
    BY <1>2, <1>3, Following
  <2> QED
    BY <1>2, <1>4, <2>1 DEF Follows
<1>6. DOMAIN e = 1..(n + 1)
  BY <1>5
<1>7. PICK p : p = Data(d)
  OBVIOUS
<1>8. p = [i \in 1..n |-> d[i].data]
  BY <1>4, <1>7 DEF Data
<1>9. p \in Seq({d[i].data : i \in 1..n}) /\ Len(p) = n
  BY <1>8
<1>10. Append(p, f.data) = [i \in 1..(n + 1) |-> IF i = n + 1 THEN f.data ELSE p[i]]
  BY <1>9
<1>11. Data(e) = [i \in 1..(n + 1) |-> e[i].data]
  BY <1>6 DEF Data
<1>12. Data(e) = Append(p, f.data)
  BY <1>5, <1>8, <1>10, <1>11
<1> QED
  BY <1>1, <1>3, <1>7, <1>12

LEMMA NothingGiven == Given(<<>>, <<>>)
<1>1. <<>> \in Seq(Counting) /\ AllItems(<<>>) /\ Data(<<>>) = <<>>
  BY EmptySeq DEF AllItems, Data
<1> QED
  BY <1>1 DEF Given

(* More is read.                                                           *)
LEMMA GivenMore ==
  ASSUME NEW total, NEW items, Given(total, items),
         NEW pending, pending \in Seq(Frame \ {NoFrame}),
         NEW all, all = total ++ Kept(pending, Counting)
  PROVE  Going(all, pending, items)
<1>1. Kept(pending, Counting) \in Seq(Counting)
  BY KeptType
<1>2. Left(all, total, Kept(pending, Counting)) /\ items = Data(total)
  BY <1>1 DEF Given, Left
<1> QED
  BY <1>2 DEF Going

(* Nothing is left to decode.                                              *)
LEMMA GoingDone ==
  ASSUME NEW total, NEW items, Going(total, <<>>, items)
  PROVE  Given(total, items)
<1>1. PICK done : Left(total, done, Kept(<<>>, Counting)) /\ items = Data(done)
  BY DEF Going
<1>2. done \in Seq(Counting) /\ total = done ++ <<>> /\ AllItems(done)
  BY <1>1, KeptEmpty DEF Left
<1>3. total = done
  BY <1>2, Neutral
<1> QED
  BY <1>1, <1>2, <1>3 DEF Given

LEMMA KeptNext ==
  ASSUME NEW X, NEW s, s \in Seq(X), s # <<>>
  PROVE  /\ Head(s) \in X /\ Tail(s) \in Seq(X)
         /\ Kept(s, Counting) = IF Head(s) \in Counting THEN <<Head(s)>> ++ Kept(Tail(s), Counting)
                                ELSE Kept(Tail(s), Counting)
<1>1. PICK f, t : f = Head(s) /\ t = Tail(s)
  OBVIOUS
<1>2. f \in X /\ t \in Seq(X)
  BY <1>1, HeadTailProperties
<1>3. PICK one : one = <<f>> 
  OBVIOUS
<1>4. one \in Seq(X)
  BY ONLY <1>2, <1>3
<1>5. s = one ++ t
  BY <1>1, <1>2, <1>3 DEF ++
<1>6. Kept(s, Counting) = Kept(one, Counting) ++ Kept(t, Counting)
  BY ONLY <1>2, <1>4, <1>5, KeptParts
<1>7. Kept(one, Counting) = IF f \in Counting THEN one ELSE <<>>
  BY <1>3, KeptOne
<1>8. Kept(t, Counting) \in Seq(Counting)
  BY ONLY <1>2, KeptType
<1>9. <<>> ++ Kept(t, Counting) = Kept(t, Counting)
  BY <1>8, Neutral
<1> QED
  BY <1>1, <1>2, <1>3, <1>6, <1>7, <1>9

(* A frame is decoded.                                                     *)
LEMMA GoingNext ==
  ASSUME NEW total, NEW pending, NEW items, Going(total, pending, items), pending # <<>>,
         NEW f, f = Head(pending)
  PROVE  /\ FrameResult(f) = "nothing" => Going(total, Tail(pending), items)
         /\ FrameResult(f) = "item" => Going(total, Tail(pending), Append(items, f.data))
         /\ FrameResult(f) \in Errors => Failed(total, items, FrameResult(f))
<1>1. PICK t, k : t = Tail(pending) /\ k = Kept(t, Counting)
  OBVIOUS
<1>2. /\ pending \in Seq(Frame \ {NoFrame}) /\ f \in Frame \ {NoFrame}
      /\ t \in Seq(Frame \ {NoFrame})
      /\ Kept(pending, Counting) = IF f \in Counting THEN <<f>> ++ k ELSE k
  BY <1>1, KeptNext DEF Going
<1>3. k \in Seq(Counting)
  BY <1>1, <1>2, KeptType
<1>4. PICK done : Left(total, done, Kept(pending, Counting)) /\ items = Data(done)
  BY DEF Going
<1>5. done \in Seq(Counting) /\ AllItems(done) /\ total = done ++ Kept(pending, Counting)
  BY <1>4 DEF Left
<1>6. f \in Counting <=> FrameResult(f) # "nothing"
  BY <1>2 DEF Counting
<1>7. ASSUME FrameResult(f) = "nothing" PROVE Going(total, t, items)
  <2>1. Left(total, done, k)
    BY <1>2, <1>4, <1>6, <1>7
  <2> QED
    BY <1>1, <1>2, <1>4, <2>1 DEF Going
<1>8. ASSUME FrameResult(f) # "nothing"
      PROVE  f \in Counting /\ Left(total, done, <<f>> ++ k)
  BY <1>2, <1>4, <1>6, <1>8
<1>9. ASSUME FrameResult(f) = "item" PROVE Going(total, t, Append(items, f.data))
  <2>1. f \in Counting
    BY <1>8, <1>9
  <2>2. PICK one, more : one = <<f>> /\ more = done ++ one
    OBVIOUS
  <2>3. one \in Seq(Counting) /\ Len(one) = 1 /\ one[1] = f
    BY ONLY <2>1, <2>2
  <2>4. more \in Seq(Counting) /\ Follows(more, done, one)
    BY ONLY <1>5, <2>2, <2>3, Following
  <2>5. (done ++ one) ++ k = done ++ (one ++ k)
    BY ONLY <1>3, <1>5, <2>3, Associative
  <2>6. total = more ++ k
    BY <1>2, <1>5, <2>1, <2>2, <2>5
  <2>7. AllItems(more)
    <3>1. PICK n \in Nat : n = Len(done)
      BY <1>5, LenProperties
    <3>2. Len(more) = n + 1 /\ more[n + 1] = f /\ \A i \in 1..n : more[i] = done[i]
      BY <2>3, <2>4, <3>1 DEF Follows
    <3>3. \A i \in 1..n : FrameResult(done[i]) = "item"
      BY <1>5, <3>1 DEF AllItems
    <3> QED
      BY <1>9, <3>2, <3>3 DEF AllItems
  <2>8. Data(more) = Append(Data(done), f.data)
    BY ONLY <1>5, <2>1, <2>2, DataMore
  <2>9. Left(total, more, k)
    BY <1>3, <2>4, <2>6, <2>7 DEF Left
  <2> QED
    BY <1>1, <1>2, <1>4, <2>8, <2>9 DEF Going
<1>10. ASSUME FrameResult(f) \in Errors PROVE Failed(total, items, FrameResult(f))
  <2>1. FrameResult(f) # "nothing"
    BY <1>10 DEF Errors
  <2> QED
    BY <1>3, <1>4, <1>8, <1>10, <2>1 DEF Failed
<1> QED
  BY <1>1, <1>7, <1>9, <1>10

(* And what the reference makes of all of them.                            *)
LEMMA GivenResults ==
  ASSUME NEW total, NEW items, Given(total, items)
  PROVE  items = Data(Results(total).items) /\ Results(total).end = "success"
  BY ItemsAll DEF Given

LEMMA FailedResults ==
  ASSUME NEW total, NEW items, NEW error, Failed(total, items, error)
  PROVE  items = Data(Results(total).items) /\ Results(total).end = error
<1>1. PICK done, f, left : /\ Left(total, done, <<f>> ++ left) /\ f \in Counting
                           /\ left \in Seq(Counting)
                           /\ items = Data(done) /\ error = FrameResult(f) /\ error \in Errors
  BY DEF Failed
<1>2. done \in Seq(Counting) /\ AllItems(done) /\ total = done ++ (<<f>> ++ left)
  BY <1>1 DEF Left
<1>3. PICK one : one = <<f>>
  OBVIOUS
<1>4. one \in Seq(Counting)
  BY ONLY <1>1, <1>3
<1>5. (done ++ one) ++ left = done ++ (one ++ left)
  BY ONLY <1>1, <1>2, <1>4, Associative
<1>6. total = (done ++ <<f>>) ++ left
  BY <1>2, <1>3, <1>5
<1>7. FrameResult(f) \in Errors
  BY <1>1
<1>8. Results(total).items = done /\ Results(total).end = FrameResult(f)
  BY ONLY <1>1, <1>2, <1>6, <1>7, ItemsUntil
<1> QED
  BY <1>1, <1>8

-----------------------------------------------------------------------------
(* What a server sends is complete after every line, and well formed       *)
(* wherever it is cut.                                                     *)
Complete(t) == Received(t) /\ Held(t) = <<>> /\ ~EndsCR(t)

LEMMA ReceivedStep ==
  ASSUME NEW y, Received(y), NEW e, e \in Tokens,
         e = "d2" <=> Held(y) # <<>>, EndsCR(y) => e = "LF", NEW d, d = y ++ <<e>>
  PROVE  Received(d) /\ (Held(d) # <<>> <=> e = "d1") /\ (EndsCR(d) <=> e = "CR")
<1>1. y \in Seq(Tokens) /\ HalvesPaired(y) /\ EndsPaired(y)
  BY DEF Received
<1>2. PICK n \in Nat : Longer(d, y, e, n)
  BY <1>1, LongerBy
<1>3. /\ n = Len(y) /\ d \in Seq(Tokens) /\ Len(d) = n + 1 /\ d[n + 1] = e
      /\ \A i \in 1..n : d[i] = y[i]
  BY <1>2 DEF Longer
<1>4. Held(y) # <<>> <=> n # 0 /\ y[n] = "d1"
  BY <1>1, <1>3 DEF Held, Last
<1>5. EndsCR(y) <=> n # 0 /\ y[n] = "CR"
  BY <1>1, <1>3 DEF EndsCR, Last
<1>6. HalvesPaired(d)
  <2> SUFFICES ASSUME NEW i \in 1..(n + 1)
               PROVE  /\ d[i] = "d1" => i = n + 1 \/ d[i + 1] = "d2"
                      /\ d[i] = "d2" => i > 1 /\ d[i - 1] = "d1"
    BY <1>3 DEF HalvesPaired
  <2>1. CASE i = n + 1
    <3>1. ASSUME e = "d2" PROVE n # 0 /\ d[n] = "d1"
      BY <1>3, <1>4, <3>1
    <3> QED
      BY <1>3, <2>1, <3>1
  <2>2. CASE i # n + 1
    <3>1. i \in 1..n /\ d[i] = y[i]
      BY <1>3, <2>2
    <3>2. y[i] = "d1" => i = n \/ y[i + 1] = "d2"
      BY <1>1, <1>3, <3>1 DEF HalvesPaired
    <3>3. y[i] = "d2" => i > 1 /\ y[i - 1] = "d1"
      BY <1>1, <1>3, <3>1 DEF HalvesPaired
    <3>4. y[i] = "d1" => d[i + 1] = "d2"
      <4>1. CASE i = n
        BY <1>3, <1>4, <3>1, <4>1
      <4>2. CASE i # n
        BY <1>3, <3>1, <3>2, <4>2
      <4> QED
        BY <4>1, <4>2
    <3>5. y[i] = "d2" => i > 1 /\ d[i - 1] = "d1"
      BY <1>3, <3>1, <3>3
    <3> QED
      BY <3>1, <3>4, <3>5
  <2> QED
    BY <2>1, <2>2
<1>7. EndsPaired(d)
  <2> SUFFICES ASSUME NEW i \in 1..(n + 1), d[i] = "CR"
               PROVE  i = n + 1 \/ d[i + 1] = "LF"
    BY <1>3 DEF EndsPaired
  <2>1. CASE i # n + 1
    <3>1. i \in 1..n /\ y[i] = "CR"
      BY <1>3, <2>1
    <3>2. i = n \/ y[i + 1] = "LF"
      BY <1>1, <1>3, <3>1 DEF EndsPaired
    <3>3. CASE i = n
      BY <1>3, <1>5, <3>1, <3>3
    <3>4. CASE i # n
      BY <1>3, <3>1, <3>2, <3>4
    <3> QED
      BY <3>3, <3>4
  <2> QED
    BY <2>1
<1>8. d # <<>> /\ Last(d) = e
  BY <1>3 DEF Last
<1>9. (Held(d) # <<>> <=> e = "d1") /\ (EndsCR(d) <=> e = "CR")
  BY <1>8 DEF Held, EndsCR
<1> QED
  BY <1>3, <1>6, <1>7, <1>9 DEF Received

LEMMA CompleteToken ==
  ASSUME NEW t, Complete(t), NEW e, e \in Tokens \ {"d1", "d2", "CR"}, NEW d, d = t ++ <<e>>
  PROVE  Complete(d)
<1>1. Received(t) /\ Held(t) = <<>> /\ ~EndsCR(t)
  BY DEF Complete
<1>2. Received(d) /\ (Held(d) # <<>> <=> e = "d1") /\ (EndsCR(d) <=> e = "CR")
  BY <1>1, ReceivedStep
<1> QED
  BY <1>2 DEF Complete

LEMMA CompletePair ==
  ASSUME NEW t, Complete(t), NEW pair, pair \in {<<"d1", "d2">>, <<"CR", "LF">>}
  PROVE  Complete(t ++ pair)
<1>1. PICK e \in Tokens, f \in Tokens :
        pair = <<e, f>> /\ ((e = "d1" /\ f = "d2") \/ (e = "CR" /\ f = "LF"))
  <2>1. {"d1", "d2", "CR", "LF"} \subseteq Tokens
    BY DEF Tokens
  <2>2. CASE pair = <<"d1", "d2">>
    BY <2>1, <2>2
  <2>3. CASE pair = <<"CR", "LF">>
    BY <2>1, <2>3
  <2> QED
    BY <2>2, <2>3
<1>2. Received(t) /\ Held(t) = <<>> /\ ~EndsCR(t) /\ t \in Seq(Tokens)
  BY DEF Complete, Received
<1>3. PICK one, two : one = <<e>> /\ two = <<f>>
  OBVIOUS
<1>4. one \in Seq(Tokens) /\ two \in Seq(Tokens) /\ pair = one ++ two
  <2>1. one \in Seq(Tokens) /\ two \in Seq(Tokens)
    BY ONLY <1>3, e \in Tokens, f \in Tokens
  <2>2. CASE pair = <<"d1", "d2">>
    <3>1. one = <<"d1">> /\ two = <<"d2">>
      BY <1>1, <1>3, <2>2
    <3> QED
      BY ONLY <2>1, <2>2, <3>1 DEF ++
  <2>3. CASE pair = <<"CR", "LF">>
    <3>1. one = <<"CR">> /\ two = <<"LF">>
      BY <1>1, <1>3, <2>3
    <3> QED
      BY ONLY <2>1, <2>3, <3>1 DEF ++
  <2> QED
    BY <2>2, <2>3
<1>5. PICK c : c = t ++ one
  OBVIOUS
<1>6. Received(c) /\ (Held(c) # <<>> <=> e = "d1") /\ (EndsCR(c) <=> e = "CR")
  BY <1>1, <1>2, <1>3, <1>5, ReceivedStep
<1>7. PICK d : d = c ++ two
  OBVIOUS
<1>8. Received(d) /\ (Held(d) # <<>> <=> f = "d1") /\ (EndsCR(d) <=> f = "CR")
  BY <1>1, <1>3, <1>6, <1>7, ReceivedStep
<1>9. Complete(d)
  BY <1>1, <1>8 DEF Complete
<1>10. (t ++ one) ++ two = t ++ (one ++ two)
  BY ONLY <1>2, <1>4, Associative
<1> QED
  BY <1>4, <1>5, <1>7, <1>9, <1>10

LEMMA LineSent ==
  ASSUME NEW t, Complete(t), NEW line, line \in LineKinds, NEW end, end \in LineEnds
  PROVE  Complete((t ++ Spelled(line)) ++ end)
<1>1. PICK c : c = t ++ Spelled(line)
  OBVIOUS
<1>2. t \in Seq(Tokens)
  BY DEF Complete, Received
<1>3. Complete(c)
  <2>1. CASE line = "data"
    <3>1. Spelled(line) = <<"d1", "d2">>
      BY <2>1 DEF Spelled
    <3> QED
      BY <1>1, <3>1, CompletePair
  <2>2. CASE line = "blank"
    <3>1. Spelled(line) = <<>>
      BY <2>2 DEF Spelled
    <3>2. c = t
      BY <1>1, <1>2, <3>1, Neutral
    <3> QED
      BY <3>2
  <2>3. CASE line \notin {"data", "blank"}
    <3>1. line \in Tokens \ {"d1", "d2", "CR"} /\ Spelled(line) = <<line>>
      BY <2>3 DEF Spelled, LineKinds, Fields, Tokens
    <3> QED
      BY <1>1, <3>1, CompleteToken
  <2> QED
    BY <2>1, <2>2, <2>3
<1>4. CASE end = <<"LF">>
  <2>1. PICK e : e = "LF" /\ e \in Tokens \ {"d1", "d2", "CR"} /\ end = <<e>>
    BY <1>4 DEF Tokens
  <2> QED
    BY <1>1, <1>3, <2>1, CompleteToken
<1>5. CASE end = <<"CR", "LF">>
  BY <1>1, <1>3, <1>5, CompletePair
<1> QED
  BY <1>4, <1>5 DEF LineEnds

LEMMA PartsJoin ==
  ASSUME NEW X, NEW s, s \in Seq(X), NEW m, m \in Nat, NEW n, n \in Nat, m <= n, n <= Len(s)
  PROVE  /\ Part(s, 1, n) = Part(s, 1, m) ++ Part(s, m + 1, n)
         /\ Part(s, 1, m) \in Seq(X) /\ Part(s, m + 1, n) \in Seq(X)
         /\ m < n => Part(s, m + 1, n) # <<>>
<1>1. PICK k : k = m + 1 /\ k \in Nat
  OBVIOUS
<1>2. PICK a, b, c : a = Part(s, 1, m) /\ b = Part(s, k, n) /\ c = Part(s, 1, n)
  OBVIOUS
<1>3. Len(s) \in Nat
  BY LenProperties
<1>4. Within(s, 1, m) /\ Within(s, k, n) /\ Within(s, 1, n)
  BY <1>1, <1>3 DEF Within
<1>5. IsPart(a, s, 1, m, X) /\ IsPart(b, s, k, n, X) /\ IsPart(c, s, 1, n, X)
  BY ONLY <1>2, <1>4, s \in Seq(X), PartIs
<1>6. a \in Seq(X) /\ Len(a) = m /\ \A i \in 1..m : a[i] = s[i]
  BY <1>5 DEF IsPart
<1>7. b \in Seq(X) /\ Len(b) = n - m /\ \A i \in 1..(n - m) : b[i] = s[m + i]
  BY <1>1, <1>5 DEF IsPart
<1>8. c \in Seq(X) /\ Len(c) = n /\ \A i \in 1..n : c[i] = s[i]
  BY <1>5 DEF IsPart
<1>9. PICK d : d = a ++ b
  OBVIOUS
<1>10. d \in Seq(X) /\ Follows(d, a, b)
  BY ONLY <1>6, <1>7, <1>9, Following
<1>11. /\ Len(d) = n /\ \A i \in 1..m : d[i] = s[i]
       /\ \A i \in 1..(n - m) : d[m + i] = s[m + i]
  <2>1. PICK j \in Nat : j = n - m /\ m + j = n
    <3>1. n - m \in Nat /\ m + (n - m) = n
      OBVIOUS
    <3> QED
      BY <3>1
  <2>2. Len(b) = j /\ \A i \in 1..j : b[i] = s[m + i]
    BY ONLY <1>7, <2>1
  <2>3. /\ Len(d) = Len(a) + Len(b) /\ \A i \in 1..Len(a) : d[i] = a[i]
        /\ \A i \in 1..Len(b) : d[Len(a) + i] = b[i]
    BY ONLY <1>10 DEF Follows
  <2>4. \A i \in 1..j : d[m + i] = s[m + i]
    BY ONLY <1>6, <2>2, <2>3
  <2>5. Len(d) = n /\ \A i \in 1..m : d[i] = s[i]
    BY ONLY <1>6, <2>1, <2>2, <2>3
  <2> QED
    BY ONLY <2>1, <2>4, <2>5
<1>12. ASSUME NEW i \in 1..n PROVE c[i] = d[i]
  <2>1. CASE i <= m
    BY <1>8, <1>11, <2>1
  <2>2. CASE i > m
    <3>1. PICK j \in 1..(n - m) : i = m + j
      <4>1. i - m \in 1..(n - m) /\ i = m + (i - m)
        BY <2>2
      <4> QED
        BY <4>1
    <3> QED
      BY <1>8, <1>11, <3>1
  <2> QED
    BY <2>1, <2>2
<1>13. c = [i \in 1..n |-> c[i]] /\ d = [i \in 1..n |-> d[i]]
  BY <1>8, <1>10, <1>11
<1>14. c = d
  BY <1>12, <1>13
<1>15. m < n => b # <<>>
  BY <1>7
<1> QED
  BY <1>1, <1>2, <1>6, <1>7, <1>9, <1>14, <1>15

LEMMA Prefix ==
  ASSUME NEW t, Received(t), NEW n, n \in 0..Len(t)
  PROVE  Part(t, 1, n) \in Seq(Tokens) /\ Received(Part(t, 1, n))
<1>1. t \in Seq(Tokens) /\ Len(t) \in Nat /\ n \in Nat
  BY LenProperties DEF Received
<1>2. PICK l : l = Len(t)
  OBVIOUS
<1>3. PICK a, b : a = Part(t, 1, n) /\ b = Part(t, n + 1, l)
  OBVIOUS
<1>4. Part(t, 1, l) = a ++ b /\ a \in Seq(Tokens) /\ b \in Seq(Tokens)
  BY <1>1, <1>2, <1>3, PartsJoin
<1>5. Part(t, 1, l) = t
  <2>1. Within(t, 1, l)
    BY <1>1, <1>2 DEF Within
  <2>2. PICK p : p = Part(t, 1, l)
    OBVIOUS
  <2>3. IsPart(p, t, 1, l, Tokens)
    BY ONLY <1>1, <2>1, <2>2, PartIs
  <2>4. IsPart(t, t, 1, l, Tokens)
    BY <1>1, <1>2 DEF IsPart
  <2>5. p = t
    BY ONLY <1>1, <1>2, <2>3, <2>4, PartSame
  <2> QED
    BY <2>2, <2>5
<1>6. Received(a ++ b)
  BY <1>4, <1>5
<1> QED
  BY ONLY <1>3, <1>4, <1>6, PairedParts

-----------------------------------------------------------------------------
(* The bytes read so far, and the counting frames they hold.               *)
Bytes == SubSeq(text, 1, sent)
Total == IF completed THEN AllFrames(Bytes) ELSE WholeFrames(Bytes)

(* What the server sent is complete, and what was read of it is in the     *)
(* decoder, the buffer and the frames.                                     *)
Sending == Complete(text) /\ lineEnd \in LineEnds /\ sent \in 0..Len(text)
Buffering ==
  IF completed THEN held = <<>> /\ buffer = <<>> ELSE held = Held(Bytes) /\ buffer = Rest(Bytes)

(* The frames are with the consumer, or on their way there.                *)
Over ==
  \/ failure = "NetworkError" \/ returning
  \/ failure = "none" /\ completed /\ Given(Total, delivered)
  \/ Failed(Total, delivered, failure)

Handing ==
  /\ completed \in BOOLEAN
  /\ gen \in {"new", "reading"} => ~completed /\ failure = "none" /\ Given(Total, delivered)
  /\ gen \in {"decoding", "yielded"} => failure = "none" /\ Going(Total, frames, delivered)
  /\ gen \in {"closing", "closed"} => Over

Ending ==
  /\ returning => outcome = "interrupted"
  /\ gen = "closed" => outcome \in {"interrupted", IF failure = "none" THEN "success" ELSE failure}

StreamInv == Sending /\ Buffering /\ Handing /\ Ending

LEMMA ReceivedBytes == Sending => Received(Bytes) /\ Bytes \in Seq(Tokens)
<1> SUFFICES ASSUME Sending PROVE Received(Bytes) /\ Bytes \in Seq(Tokens)
  OBVIOUS
<1>1. Received(text) /\ sent \in 0..Len(text)
  BY DEF Sending, Complete
<1> QED
  BY <1>1, Prefix DEF Bytes, Part

LEMMA NoBytes ==
  ASSUME NEW p, p = <<>>
  PROVE  /\ p \in Seq(Tokens) /\ Complete(p) /\ Held(p) = <<>> /\ Rest(p) = <<>>
         /\ WholeFrames(p) = <<>>
<1>1. p \in Seq(Tokens) /\ Len(p) = 0
  BY EmptySeq
<1>2. HalvesPaired(p) /\ EndsPaired(p)
  BY <1>1 DEF HalvesPaired, EndsPaired
<1>3. Held(p) = <<>> /\ ~EndsCR(p) /\ OpenEnd(p) = <<>>
  BY DEF Held, EndsCR, OpenEnd
<1>4. Clean(p) = <<>>
  BY ImagesEmpty DEF Clean
<1>5. Blocks(p) = <<p>>
  <2>1. Whole(p, Feeds)
    BY <1>1, Feeding DEF Whole, Stands
  <2> QED
    BY <1>1, <2>1, SplitWhole, Feeding
<1>6. Front(<<p>>) = <<>> /\ Last(<<p>>) = p
  BY DEF Front, Last
<1>7. Rest(p) = <<>>
  <2>1. <<>> ++ <<>> = <<>>
    BY <1>1, Neutral
  <2> QED
    BY <1>3, <1>4, <1>5, <1>6, <2>1 DEF Rest
<1>8. WholeFrames(p) = <<>>
  BY <1>4, <1>5, <1>6, ImagesEmpty DEF WholeFrames
<1> QED
  BY <1>1, <1>2, <1>3, <1>7, <1>8 DEF Complete, Received

LEMMA InitStream == Init => StreamInv
<1> SUFFICES ASSUME Init PROVE StreamInv
  OBVIOUS
<1>1. /\ lineEnd \in LineEnds /\ text = <<>> /\ sent = 0 /\ held = <<>> /\ buffer = <<>>
      /\ gen = "new" /\ completed = FALSE /\ failure = "none" /\ returning = FALSE
      /\ delivered = <<>>
  BY DEF Init
<1>2. Bytes = <<>> /\ Len(text) = 0
  BY <1>1 DEF Bytes
<1>3. Complete(text) /\ Held(Bytes) = <<>> /\ Rest(Bytes) = <<>> /\ WholeFrames(Bytes) = <<>>
  BY <1>1, <1>2, NoBytes
<1>4. Sending
  BY <1>1, <1>2, <1>3 DEF Sending
<1>5. Buffering
  BY <1>1, <1>3 DEF Buffering
<1>6. Handing
  BY <1>1, <1>3, NothingGiven DEF Handing, Total
<1>7. Ending
  BY <1>1 DEF Ending
<1> QED
  BY <1>4, <1>5, <1>6, <1>7 DEF StreamInv

(* What does not touch the stream.                                         *)
LEMMA OutsideStream ==
  ASSUME Inv, StreamInv, UNCHANGED streamVars,
         outcome = "interrupted" => outcome' = "interrupted",
         gen = "closed" => outcome' = outcome
  PROVE  StreamInv'
<1>1. UNCHANGED <<lineEnd, text, sent, held, buffer, frames, gen, completed, failure, returning,
                  delivered>>
  BY DEF streamVars, serverVars, readVars
<1>2. Bytes' = Bytes
  BY <1>1 DEF Bytes
<1>3. Total' = Total
  BY <1>1, <1>2 DEF Total
<1>4. Sending'
  BY <1>1 DEF StreamInv, Sending
<1>5. Buffering'
  BY <1>1, <1>2 DEF StreamInv, Buffering
<1>6. Handing'
  BY <1>1, <1>3 DEF StreamInv, Handing, Over
<1>7. Ending'
  BY <1>1 DEF StreamInv, Ending
<1> QED
  BY <1>4, <1>5, <1>6, <1>7 DEF StreamInv

LEMMA CallStream ==
  ASSUME Inv, StreamInv, Start \/ Fetch \/ ReadBody \/ TimerFires \/ InterruptFetch \/ InterruptRead
  PROVE  StreamInv'
<1>1. gen = "closed" => call = "settled" /\ timer # "armed"
  BY DEF Inv, Stages, NothingLeftBehind
<1>2. CASE Start
  <2>1. UNCHANGED streamVars /\ call = "new"
    BY <1>2 DEF Start
  <2>2. outcome = "interrupted" => outcome' = "interrupted"
    <3>1. request \in Requests
      BY DEF Inv, Stages
    <3> QED
      BY <1>2, <3>1 DEF Start, Refused, RefusedLate, SettledWith, Requests
  <2> QED
    BY <1>1, <2>1, <2>2, OutsideStream
<1>3. CASE Fetch
  <2>1. UNCHANGED streamVars /\ call = "fetching"
    BY <1>3 DEF Fetch, FetchRejects, FetchResponds, streamVars
  <2>2. outcome = "interrupted" => outcome' = "interrupted"
    BY <1>3 DEF Fetch, FetchRejects, FetchResponds, SettledWith
  <2> QED
    BY <1>1, <2>1, <2>2, OutsideStream
<1>4. CASE ReadBody \/ InterruptRead
  <2>1. UNCHANGED streamVars /\ call = "reading"
    BY <1>4 DEF ReadBody, InterruptRead
  <2>2. outcome = "interrupted" => outcome' = "interrupted"
    BY <1>4 DEF ReadBody, InterruptRead, SettledWith
  <2> QED
    BY <1>1, <2>1, <2>2, OutsideStream
<1>5. CASE TimerFires \/ InterruptFetch
  <2>1. UNCHANGED streamVars /\ (timer = "armed" \/ call = "fetching")
    BY <1>5 DEF TimerFires, InterruptFetch
  <2>2. outcome = "interrupted" => outcome' = "interrupted"
    BY <1>5 DEF TimerFires, InterruptFetch, Aborted, AfterAbort
  <2> QED
    BY <1>1, <2>1, <2>2, OutsideStream
<1> QED
  BY <1>2, <1>3, <1>4, <1>5

(* What moves the generator, and no bytes.                                 *)
LEMMA SameBytes ==
  ASSUME StreamInv, UNCHANGED <<serverVars, readVars, completed>>
  PROVE  Sending' /\ Buffering' /\ Bytes' = Bytes /\ Total' = Total
<1>1. UNCHANGED <<lineEnd, text, sent, held, buffer, completed>>
  BY DEF serverVars, readVars
<1>2. Bytes' = Bytes
  BY <1>1 DEF Bytes
<1>3. Total' = Total
  BY <1>1, <1>2 DEF Total
<1>4. Sending'
  BY <1>1 DEF StreamInv, Sending
<1>5. Buffering'
  BY <1>1, <1>2 DEF StreamInv, Buffering
<1> QED
  BY <1>2, <1>3, <1>4, <1>5

LEMMA LineType ==
  ASSUME NEW line, line \in LineKinds, NEW end, end \in LineEnds
  PROVE  Spelled(line) \in Seq(Tokens) /\ end \in Seq(Tokens)
<1>1. {"d1", "d2", "CR", "LF"} \cup Fields \subseteq Tokens
  BY DEF Tokens
<1>2. \A x, y \in Tokens : <<x>> \in Seq(Tokens) /\ <<x, y>> \in Seq(Tokens)
  OBVIOUS
<1>3. <<>> \in Seq(Tokens)
  BY EmptySeq
<1>4. Spelled(line) \in Seq(Tokens)
  BY <1>1, <1>2, <1>3 DEF Spelled, LineKinds
<1>5. end \in Seq(Tokens)
  BY <1>1, <1>2 DEF LineEnds
<1> QED
  BY <1>4, <1>5

LEMMA SendStream ==
  ASSUME StreamInv, NEW line \in LineKinds, ServerSends(line)
  PROVE  StreamInv'
<1>1. /\ UNCHANGED <<callVars, lineEnd, readVars, frames, gen, completed, failure, returning,
                      delivered>>
      /\ text' = (text ++ Spelled(line)) ++ lineEnd
  BY DEF ServerSends, ++
<1>2. UNCHANGED <<lineEnd, sent, held, buffer, frames, gen, completed, failure, returning,
                  delivered, outcome>>
  BY <1>1 DEF callVars, readVars
<1>3. /\ Complete(text) /\ lineEnd \in LineEnds /\ sent \in 0..Len(text)
      /\ text \in Seq(Tokens)
  BY DEF StreamInv, Sending, Complete, Received
<1>4. Complete(text')
  BY <1>1, <1>3, LineSent
<1>5. PICK a, b, more : a = Spelled(line) /\ b = lineEnd /\ more = a ++ b
  OBVIOUS
<1>12. a \in Seq(Tokens) /\ b \in Seq(Tokens) /\ more \in Seq(Tokens)
  BY <1>3, <1>5, LineType, Typed
<1>6. text' = text ++ more
  <2>1. (text ++ a) ++ b = text ++ (a ++ b)
    BY ONLY <1>3, <1>12, Associative
  <2> QED
    BY <1>1, <1>5, <2>1
<1>7. Bytes' = Bytes /\ sent' \in 0..Len(text')
  <2>1. PICK t : t = text'
    OBVIOUS
  <2>2. t = text ++ more
    BY <1>6, <2>1
  <2>3. Follows(t, text, more)
    BY ONLY <1>3, <1>12, <2>2, Following
  <2>4. Within(text, 1, sent) /\ sent \in 0..Len(t)
    <3>1. Len(t) = Len(text) + Len(more) /\ Len(text) \in Nat /\ Len(more) \in Nat
      BY <2>3 DEF Follows
    <3> QED
      BY <1>3, <3>1 DEF Within
  <2>5. Part(t, 1, sent) = Part(text, 1, sent)
    BY ONLY <1>3, <1>12, <2>2, <2>4, PartLeft
  <2> QED
    BY <1>2, <2>1, <2>4, <2>5 DEF Bytes, Part
<1>8. Total' = Total
  BY <1>2, <1>7 DEF Total
<1>9. Sending'
  BY <1>2, <1>3, <1>4, <1>7 DEF Sending
<1>10. Buffering'
  BY <1>2, <1>7 DEF StreamInv, Buffering
<1>11. Handing' /\ Ending'
  BY <1>2, <1>8 DEF StreamInv, Handing, Over, Ending
<1> QED
  BY <1>9, <1>10, <1>11 DEF StreamInv

(* Reading, decoding, ending.                                              *)
LEMMA ChunkStream ==
  ASSUME Inv, StreamInv, ReadChunk
  PROVE  StreamInv'
<1>1. PICK n \in 1..MaxChunk :
        /\ sent + n <= Len(text)
        /\ LET read == ReadText(SubSeq(text, sent + 1, sent + n))
           IN  held' = read.held /\ buffer' = read.buffer /\ frames' = read.frames
        /\ sent' = sent + n
  BY DEF ReadChunk
<1>2. /\ gen = "reading" /\ gen' = "decoding"
      /\ UNCHANGED <<callVars, serverVars, completed, failure, returning, delivered>>
  BY DEF ReadChunk
<1>3. UNCHANGED <<outcome, lineEnd, text>>
  BY <1>2 DEF callVars, serverVars
<1>4. /\ ~completed /\ failure = "none" /\ Given(Total, delivered)
      /\ held = Held(Bytes) /\ buffer = Rest(Bytes)
  BY <1>2 DEF StreamInv, Handing, Buffering
<1>5. /\ Sending /\ Received(text) /\ text \in Seq(Tokens)
      /\ sent \in 0..Len(text) /\ Len(text) \in Nat
  BY LenProperties DEF StreamInv, Sending, Complete, Received
<1>6. PICK m : m = sent + n /\ m \in Nat /\ sent \in Nat /\ sent < m /\ m <= Len(text)
  BY <1>1, <1>5
<1>7. PICK P, X, Q : P = Part(text, 1, sent) /\ X = Part(text, sent + 1, m) /\ Q = Part(text, 1, m)
  OBVIOUS
<1>8. Q = P ++ X /\ P \in Seq(Tokens) /\ X \in Seq(Tokens) /\ X # <<>>
  BY <1>5, <1>6, <1>7, PartsJoin
<1>9. Received(P ++ X)
  BY <1>5, <1>6, <1>7, <1>8, Prefix
<1>10. Bytes = P /\ Bytes' = P ++ X
  BY <1>1, <1>3, <1>6, <1>7, <1>8 DEF Bytes, Part
<1>11. PICK decoded, drained : /\ decoded = Decoded(Held(P), X)
                               /\ drained = DrainSseFrames(Rest(P) \o decoded.chars)
  OBVIOUS
<1>12. held' = decoded.held /\ buffer' = drained.remainder /\ frames' = drained.frames
  <2>1. X = SubSeq(text, sent + 1, sent + n) /\ held = Held(P) /\ buffer = Rest(P)
    BY <1>4, <1>6, <1>7, <1>10 DEF Part
  <2>2. ReadText(X) =
          [held |-> decoded.held, frames |-> drained.frames, buffer |-> drained.remainder]
    BY <1>11, <2>1 DEF ReadText
  <2> QED
    BY <1>1, <2>1, <2>2
<1>13. Moved(P, X, decoded, drained)
  BY ONLY <1>8, <1>9, <1>11, ChunkRead
<1>14. /\ held' = Held(Bytes') /\ buffer' = Rest(Bytes')
       /\ frames' \in Seq(Frame \ {NoFrame})
       /\ WholeFrames(Bytes') = WholeFrames(Bytes) ++ Kept(frames', Counting)
  BY <1>10, <1>12, <1>13 DEF Moved
<1>15. Total = WholeFrames(Bytes) /\ Total' = WholeFrames(Bytes')
  BY <1>2, <1>4 DEF Total
<1>16. Going(Total', frames', delivered)
  BY <1>4, <1>14, <1>15, GivenMore
<1>17. Sending'
  BY <1>1, <1>3, <1>5, <1>6 DEF Sending
<1>18. Buffering'
  BY <1>2, <1>4, <1>14 DEF Buffering
<1>19. Handing'
  BY <1>2, <1>4, <1>16 DEF StreamInv, Handing
<1>20. Ending'
  BY <1>2, <1>3 DEF StreamInv, Ending
<1> QED
  BY <1>17, <1>18, <1>19, <1>20 DEF StreamInv

LEMMA DoneStream ==
  ASSUME Inv, StreamInv, ReadDone
  PROVE  StreamInv'
<1>1. /\ gen = "reading" /\ gen' = "decoding" /\ completed' = TRUE
      /\ frames' = FramesOf(<<buffer \o Flushed(held)>>)
      /\ UNCHANGED <<callVars, serverVars, sent, failure, returning, delivered>>
  BY DEF ReadDone
<1>2. UNCHANGED <<outcome, lineEnd, text>>
  BY <1>1 DEF callVars, serverVars
<1>3. /\ ~completed /\ failure = "none" /\ Given(Total, delivered)
      /\ held = Held(Bytes) /\ buffer = Rest(Bytes)
  BY <1>1 DEF StreamInv, Handing, Buffering
<1>4. Bytes' = Bytes
  BY <1>1, <1>2 DEF Bytes
<1>5. Flushed(held) = Lost(Bytes)
  BY <1>3 DEF Flushed, Lost
<1>6. PICK P, last : P = Bytes /\ last = frames'
  OBVIOUS
<1>7. P \in Seq(Tokens) /\ last = FramesOf(<<Rest(P) \o Lost(P)>>)
  BY <1>1, <1>3, <1>5, <1>6, ReceivedBytes DEF StreamInv
<1>8. Ends(P, last)
  BY ONLY <1>7, DoneRead
<1>9. Total = WholeFrames(P) /\ Total' = AllFrames(P)
  BY <1>1, <1>3, <1>4, <1>6 DEF Total
<1>10. Going(Total', frames', delivered)
  BY <1>3, <1>6, <1>8, <1>9, GivenMore DEF Ends
<1>11. Sending'
  BY <1>1, <1>2 DEF StreamInv, Sending
<1>12. Buffering' /\ Handing'
  <2>1. held' = <<>> /\ buffer' = <<>>
    BY DEF ReadDone
  <2> QED
    BY <1>1, <1>3, <1>10, <2>1 DEF Buffering, Handing
<1>13. Ending'
  BY <1>1, <1>2 DEF StreamInv, Ending
<1> QED
  BY <1>11, <1>12, <1>13 DEF StreamInv

LEMMA PullStream ==
  ASSUME Inv, StreamInv, Pull
  PROVE  StreamInv'
<1>1. /\ gen \in {"new", "yielded"} /\ gen' = IF gen = "new" THEN "reading" ELSE "decoding"
      /\ UNCHANGED <<callVars, serverVars, readVars, frames, completed, failure, returning,
                      delivered>>
  BY DEF Pull
<1>2. Sending' /\ Buffering' /\ Bytes' = Bytes /\ Total' = Total
  BY <1>1, SameBytes
<1>3. Handing'
  BY <1>1, <1>2 DEF StreamInv, Handing
<1>4. Ending'
  BY <1>1 DEF StreamInv, Ending, callVars
<1> QED
  BY <1>2, <1>3, <1>4 DEF StreamInv

LEMMA FailsStream ==
  ASSUME Inv, StreamInv, ReadFails
  PROVE  StreamInv'
<1>1. /\ gen' = "closing" /\ failure' = "NetworkError"
      /\ UNCHANGED <<callVars, serverVars, readVars, completed, returning>>
  BY DEF ReadFails
<1>2. Sending' /\ Buffering'
  BY <1>1, SameBytes
<1>3. Handing'
  BY <1>1 DEF StreamInv, Handing, Over
<1>4. Ending'
  BY <1>1 DEF StreamInv, Ending, callVars
<1> QED
  BY <1>2, <1>3, <1>4 DEF StreamInv

LEMMA DecodeStream ==
  ASSUME Inv, StreamInv, DecodeFrame
  PROVE  StreamInv'
<1>1. PICK f, result : f = Head(frames) /\ result = FrameResult(f)
  OBVIOUS
<1>2. /\ gen = "decoding" /\ frames # <<>> /\ frames' = Tail(frames)
      /\ gen' = IF result = "nothing" THEN "decoding"
                ELSE IF result = "item" THEN AfterYield ELSE "closing"
      /\ failure' = IF result \in Errors THEN result ELSE failure
      /\ delivered' = IF result = "item" THEN Append(delivered, f.data) ELSE delivered
      /\ UNCHANGED <<callVars, serverVars, readVars, completed, returning>>
  BY <1>1 DEF DecodeFrame
<1>3. Sending' /\ Buffering' /\ Bytes' = Bytes /\ Total' = Total
  BY <1>2, SameBytes
<1>4. failure = "none" /\ Going(Total, frames, delivered) /\ completed' \in BOOLEAN
  BY <1>2 DEF StreamInv, Handing
<1>5. /\ result = "nothing" => Going(Total, frames', delivered)
      /\ result = "item" => Going(Total, frames', Append(delivered, f.data))
      /\ result \in Errors => Failed(Total, delivered, result)
  BY <1>1, <1>2, <1>4, GoingNext
<1>6. result \in {"nothing", "item"} \cup Errors
  BY <1>1, ResultKinds
<1>7. Handing'
  <2>1. CASE result = "nothing"
    BY <1>2, <1>3, <1>4, <1>5, <2>1 DEF Handing, Errors
  <2>2. CASE result = "item"
    BY <1>2, <1>3, <1>4, <1>5, <2>2 DEF Handing, Errors, AfterYield, Over
  <2>3. CASE result \in Errors
    BY <1>2, <1>3, <1>4, <1>5, <2>3 DEF Handing, Errors, Over
  <2> QED
    BY <1>6, <2>1, <2>2, <2>3
<1>8. gen' # "closed"
  BY <1>2 DEF AfterYield
<1>9. Ending'
  BY <1>2, <1>8 DEF StreamInv, Ending, callVars
<1> QED
  BY <1>3, <1>7, <1>9 DEF StreamInv

LEMMA FramesDoneStream ==
  ASSUME Inv, StreamInv, FramesDone
  PROVE  StreamInv'
<1>1. /\ gen = "decoding" /\ frames = <<>> /\ gen' = IF completed THEN "closing" ELSE "reading"
      /\ UNCHANGED <<callVars, serverVars, readVars, frames, completed, failure, returning,
                      delivered>>
  BY DEF FramesDone
<1>2. Sending' /\ Buffering' /\ Bytes' = Bytes /\ Total' = Total
  BY <1>1, SameBytes
<1>3. failure = "none" /\ Given(Total, delivered) /\ completed \in BOOLEAN
  BY <1>1, GoingDone DEF StreamInv, Handing
<1>4. Handing'
  BY <1>1, <1>2, <1>3 DEF Handing, Over
<1>5. Ending'
  BY <1>1 DEF StreamInv, Ending, callVars
<1> QED
  BY <1>2, <1>4, <1>5 DEF StreamInv

LEMMA FinallyStream ==
  ASSUME Inv, StreamInv, Finally
  PROVE  StreamInv'
<1>1. /\ gen = "closing" /\ gen' = "closed"
      /\ outcome' = IF outcome = "interrupted" THEN outcome
                    ELSE IF failure # "none" THEN failure ELSE "success"
      /\ UNCHANGED <<serverVars, readVars, completed, failure, returning, delivered>>
  BY DEF Finally, SettledWith
<1>2. Sending' /\ Buffering' /\ Bytes' = Bytes /\ Total' = Total
  BY <1>1, SameBytes
<1>3. Handing'
  BY <1>1, <1>2 DEF StreamInv, Handing, Over
<1>4. Ending'
  BY <1>1 DEF StreamInv, Ending
<1> QED
  BY <1>2, <1>3, <1>4 DEF StreamInv

LEMMA StopStream ==
  ASSUME Inv, StreamInv, Stop
  PROVE  StreamInv'
<1>1. /\ gen # "closed" /\ outcome' = "interrupted" /\ returning' = TRUE
      /\ gen' = IF gen = "new" THEN "closed" ELSE IF gen = "yielded" THEN "closing" ELSE gen
      /\ UNCHANGED <<serverVars, readVars, frames, completed, failure, delivered>>
  BY DEF Stop
<1>2. Sending' /\ Buffering' /\ Bytes' = Bytes /\ Total' = Total
  BY <1>1, SameBytes
<1>3. Handing'
  BY <1>1, <1>2 DEF StreamInv, Handing, Over
<1>4. Ending'
  BY <1>1 DEF Ending
<1> QED
  BY <1>2, <1>3, <1>4 DEF StreamInv

LEMMA StepStream == Inv /\ StreamInv /\ [Next]_vars => StreamInv'
<1> SUFFICES ASSUME Inv, StreamInv, [Next]_vars PROVE StreamInv'
  OBVIOUS
<1>1. CASE Rests \/ UNCHANGED vars
  <2>1. UNCHANGED <<streamVars, outcome>>
    BY <1>1 DEF Rests, vars, callVars
  <2> QED
    BY <2>1, OutsideStream
<1> QED
  BY <1>1, CallStream, SendStream, ChunkStream, DoneStream, PullStream, FailsStream, DecodeStream,
     FramesDoneStream, FinallyStream, StopStream DEF Next, Generate, ReadEnds, GeneratorGoesOn

LEMMA StreamInvAlways == FairSpec => []StreamInv
  BY InitStream, StepStream, InvAlways, PTL DEF FairSpec

LEMMA DecodedByInv == Inv /\ StreamInv => FramesDecoded
<1> SUFFICES ASSUME Inv, StreamInv PROVE FramesDecoded
  OBVIOUS
<1>1. PICK P : P = Bytes /\ Received(P) /\ P = SubSeq(text, 1, sent)
  BY ReceivedBytes DEF StreamInv, Bytes
<1>2. Reference(P, TRUE) = Results(AllFrames(P)) /\ Reference(P, FALSE) = Results(WholeFrames(P))
  BY ONLY <1>1, ReferenceIs
<1>3. completed \in BOOLEAN
  BY DEF StreamInv, Handing
<1>4. Total = (IF completed THEN AllFrames(P) ELSE WholeFrames(P))
      /\ Reference(P, completed) = Results(Total)
  BY <1>1, <1>2, <1>3 DEF Total
<1>5. ASSUME gen = "closed", outcome \notin {"interrupted", "NetworkError"}
      PROVE  delivered = Data(Results(Total).items) /\ outcome = Results(Total).end
  <2>1. Over /\ ~returning /\ outcome = IF failure = "none" THEN "success" ELSE failure
    BY <1>5 DEF StreamInv, Handing, Ending
  <2>2. failure # "NetworkError"
    BY <1>5, <2>1
  <2>3. CASE failure = "none" /\ Given(Total, delivered)
    BY <2>1, <2>3, GivenResults
  <2>4. CASE Failed(Total, delivered, failure)
    <3>1. failure # "none"
      BY <2>4 DEF Failed, Errors
    <3>2. delivered = Data(Results(Total).items) /\ Results(Total).end = failure
      BY <2>4, FailedResults
    <3> QED
      BY <2>1, <3>1, <3>2
  <2> QED
    BY <2>1, <2>2, <2>3, <2>4 DEF Over
<1>6. ASSUME gen = "reading" PROVE delivered = Data(Results(WholeFrames(P)).items)
  <2>1. ~completed /\ Given(Total, delivered)
    BY <1>6 DEF StreamInv, Handing
  <2> QED
    BY <1>4, <2>1, GivenResults
<1> QED
  BY <1>1, <1>2, <1>4, <1>5, <1>6 DEF FramesDecoded

-----------------------------------------------------------------------------
(* The buffer holds no whole frame between two reads.                      *)
LEMMA BufferTyped ==
  ASSUME StreamInv
  PROVE  /\ sent \in 0..Len(text) /\ held \in {<<>>, <<"d1">>}
         /\ Len(Blocks(Normal(buffer))) = 1
<1>1. sent \in 0..Len(text) /\ completed \in BOOLEAN
  BY DEF StreamInv, Sending, Handing
<1>2. PICK b : b = buffer
  OBVIOUS
<1>3. b \in Seq(Tokens) /\ Whole(b, Feeds) /\ Normal(b) = b
  <2>1. CASE completed
    <3>1. b = <<>>
      BY <1>2, <2>1 DEF StreamInv, Buffering
    <3>2. Len(b) = 0 /\ b \in Seq(Tokens) /\ b \in Seq(Plain)
      BY <3>1, EmptySeq
    <3>3. Whole(b, Feeds)
      BY <3>2, Feeding DEF Whole, Stands
    <3> QED
      BY <3>2, <3>3, PlainNormal
  <2>2. CASE ~completed
    <3>1. PICK P : P = Bytes /\ P \in Seq(Tokens) /\ b = Rest(P)
      BY <1>2, <2>2, ReceivedBytes DEF StreamInv, Buffering
    <3>2. PICK w, o : w = Last(Blocks(Clean(P))) /\ o = OpenEnd(P)
      OBVIOUS
    <3>3. /\ w \in Seq(Plain) /\ w \in Seq(Tokens) /\ Whole(w, Feeds)
          /\ Tailing(o) /\ o \in Seq(Tokens)
      BY <3>1, <3>2, CleanParts, BlocksPlain, LinesType, OpenEndIs
    <3>4. b = w ++ o
      BY <3>1, <3>2 DEF Rest
    <3>5. b \in Seq(Tokens) /\ Normal(b) = b
      BY <3>3, <3>4, NormalTail, Typed
    <3>6. Whole(b, Feeds)
      <4>1. CASE o = <<>>
        BY <3>3, <3>4, <4>1, Neutral
      <4>2. CASE o # <<>>
        BY <3>3, <3>4, <4>2, WholeToken DEF Tailing
      <4> QED
        BY <4>1, <4>2
    <3> QED
      BY <3>5, <3>6
  <2> QED
    BY <1>1, <2>1, <2>2
<1>4. Blocks(b) = <<b>>
  BY <1>3, SplitWhole, Feeding
<1>5. Len(Blocks(Normal(buffer))) = 1
  BY <1>2, <1>3, <1>4
<1>6. held \in {<<>>, <<"d1">>}
  <2>1. CASE completed
    BY <2>1 DEF StreamInv, Buffering
  <2>2. CASE ~completed
    BY <2>2, ReceivedBytes, HeldIs DEF StreamInv, Buffering
  <2> QED
    BY <1>1, <2>1, <2>2
<1> QED
  BY <1>1, <1>5, <1>6

(* What the other variables range over.                                    *)
Ranges ==
  /\ kind \in Kinds /\ timed \in BOOLEAN /\ honours \in BOOLEAN
  /\ response \in Responses /\ outcome \in Outcomes
  /\ listening \in BOOLEAN /\ completed \in BOOLEAN /\ returning \in BOOLEAN
  /\ body \in {"unread", "locked", "released", "cancelled"}

LEMMA OutcomesAre ==
  ASSUME NEW k, NEW r
  PROVE  BodyOutcome(k, r) \in Outcomes
  BY DEF BodyOutcome, FailedOutcome, Outcomes, Failures

LEMMA StepRanges == Inv /\ Ranges /\ [Next]_vars => Ranges'
<1> SUFFICES ASSUME Inv, Ranges, [Next]_vars PROVE Ranges'
  OBVIOUS
<1> USE DEF Ranges, requestVars, callVars, serverVars, readVars, streamVars
<1>1. CASE Rests \/ UNCHANGED vars
  BY <1>1 DEF Rests, vars
<1>2. CASE Start
  <2>1. request \in Requests
    BY DEF Inv, Stages
  <2> QED
    BY <1>2, <2>1, ZenonT(30) DEF Start, Refused, RefusedLate, SettledWith, Requests, Outcomes, Failures
<1>3. CASE FetchRejects
  BY <1>3 DEF FetchRejects, SettledWith, Clear, Outcomes, Failures
<1>4. ASSUME NEW r \in Responses, FetchResponds(r) PROVE Ranges'
  BY <1>4 DEF FetchResponds, SettledWith, Clear, Outcomes, Failures
<1>5. CASE ReadBody \/ InterruptRead
  BY <1>5, OutcomesAre DEF ReadBody, InterruptRead, SettledWith, Outcomes
<1>6. CASE TimerFires \/ InterruptFetch
  BY <1>6 DEF TimerFires, InterruptFetch, Aborted, AfterAbort, Outcomes, Failures
<1>7. ASSUME NEW line \in LineKinds, ServerSends(line) PROVE Ranges'
  BY <1>7 DEF ServerSends
<1>8. CASE Pull \/ ReadChunk \/ ReadDone \/ ReadFails
  BY <1>8 DEF Pull, ReadChunk, ReadDone, ReadFails
<1>9. CASE DecodeFrame \/ FramesDone
  BY <1>9 DEF DecodeFrame, FramesDone
<1>10. CASE Finally
  <2>1. failure \in Outcomes \cup {"none"}
    BY DEF Inv, FailuresRead, Errors, Outcomes, Failures
  <2> QED
    BY <1>10, <2>1 DEF Finally, SettledWith, LetGo, Outcomes
<1>11. CASE Stop
  BY <1>11 DEF Stop, Outcomes
<1> QED
  BY <1>1, <1>2, <1>3, <1>4, <1>5, <1>6, <1>7, <1>8, <1>9, <1>10, <1>11
     DEF Next, Fetch, Generate, ReadEnds, GeneratorGoesOn

(* The types; and after every read a half character is held back and the   *)
(* buffer has no whole frame (decodeSseStream, drainSseFrames).            *)
THEOREM TypeCorrect == FairSpec => []TypeOK
<1>1. Init => Ranges
  <2>1. NoResponse \in Responses
    BY DEF NoResponse, Responses
  <2> QED
    BY <2>1 DEF Init, Ranges, Outcomes
<1>2. Inv /\ Ranges /\ StreamInv => TypeOK
  BY BufferTyped
     DEF Inv, Ranges, TypeOK, Stages, Timing, FailuresRead, Errors, Failures
<1> QED
  BY <1>1, <1>2, StepRanges, InvAlways, StreamInvAlways, PTL DEF FairSpec

(* However a stream is cut into chunks, also inside CRLF or a character:   *)
(* what decodeSseStream yields and ends with is what a reading of all its  *)
(* bytes gives, and no item whose frame is complete waits for more.        *)
THEOREM FramesAreDecoded == FairSpec => []FramesDecoded
  BY DecodedByInv, InvAlways, StreamInvAlways, PTL
=============================================================================
