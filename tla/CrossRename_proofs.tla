-------------------------- MODULE CrossRename_proofs --------------------------
(***************************************************************************)
(* Proofs about CrossRename, for any number of symbols, plugin instances,  *)
(* files, names and events.                                                *)
(*                                                                         *)
(* NeverGarbled and SavedTogether are about the edits in flight: Fitting   *)
(* says what they were computed on, Whole where they are in the files.     *)
(* OnlyGivenUnlessMisread follows each new name from the text to the files *)
(* (Given).  That both languages agree in the end is Tracked: for each     *)
(* symbol the names in Rust, in the edits in flight and in the reports, in *)
(* that order, are the one tsserver still has and then, from some point    *)
(* on, the one of the text, and the last of them is on its way or done.    *)
(***************************************************************************)
EXTENDS CrossRename, SequenceTheorems, TLAPS

Injected == ToSet(injected_renames)
Saving == ToSet(pending_saves)
Edits == Injected \cup Saving

(* Symbols do not overlap in a text.                                       *)
Spaced(text) ==
  \A s, t \in Symbols : s < t => text.starts[s] + text.names[s] <= text.starts[t]
TextsSpaced == Spaced(ts) /\ \A f \in Files : Spaced(rust[f])

TypeInv == TypeOK /\ TextsSpaced

(* An edit is of a version of each file that is not later than the file's, *)
(* and of the file as it is if it is of its version.                       *)
Versioned ==
  \A e \in Edits, f \in Files :
    /\ e.of[f].version <= rust[f].version
    /\ e.of[f].version = rust[f].version => e.of[f] = rust[f]

(* While renames do not overlap there is one edit at most, and one that    *)
(* rust-analyzer computes fits the closed files.                           *)
Fitting ==
  "overlapping" \notin upsets =>
    /\ Len(injected_renames) + Len(pending_saves) <= 1
    /\ \A e \in Injected, f \in Files \ open : e.of[f] = rust[f]

(* A watch that has not moved looks at its symbol, and every name on its   *)
(* way to Rust was given by the user.                                      *)
WatchesPlaced == \A i \in Watching : ts.starts[pending[i].symbol] = pending[i].start
TextGiven == \A s \in Symbols : ts.names[s] \in given[s]
ReportsGiven == \A k \in 1..Len(reports) : reports[k].newName \in given[reports[k].symbol]
EditsGiven == \A e \in Edits : e.new \in given[e.symbol]

Given ==
  ~Misread =>
    WatchesPlaced /\ TextGiven /\ ReportsGiven /\ EditsGiven /\ OnlyGiven

Alike(texts) == \A f \in Files : texts[f].names = texts[Decl].names

(* Unless something divides the Rust half: an edit is of all files; those  *)
(* that have it to come are as it found them, and the closed files have it *)
(* when it waits for the editor.                                           *)
OfAllFiles == \A e \in Edits : e.files = Files /\ Alike(e.of)
OpenAsFound == \A e \in Edits, f \in open : e.of[f] = rust[f]
ClosedHaveIt ==
  \A e \in Saving, f \in Files \ open :
    rust[f].names = [e.of[f].names EXCEPT ![e.symbol] = e.new]

Whole ==
  ~Divided =>
    OfAllFiles /\ OpenAsFound /\ ClosedHaveIt /\ (pending_saves = <<>> => Alike(rust))

(* The names of s in the order they reach Rust, without any mishap: once   *)
(* one is the text's all that follow are, the others are tsserver's.       *)
Declared(s) == rust[Decl].names[s]
Two(s, name) == name \in {program[s], ts.names[s]}

ReportsSettled(s) ==
  \A k \in 1..Len(reports) : reports[k].symbol = s => reports[k].newName = ts.names[s]

ReportsInOrder(s) ==
  \A j, k \in 1..Len(reports) : reports[j].symbol = s /\ reports[k].symbol = s =>
    /\ Two(s, reports[j].newName)
    /\ j < k /\ reports[j].newName = ts.names[s] => reports[k].newName = ts.names[s]
EditsInOrder(s) ==
  \A e \in Edits : e.symbol = s =>
    Two(s, e.new) /\ (e.new = ts.names[s] => ReportsSettled(s))
DeclaredInOrder(s) ==
  /\ Two(s, Declared(s))
  /\ Declared(s) = ts.names[s] =>
       ReportsSettled(s) /\ \A e \in Edits : e.symbol = s => e.new = ts.names[s]

(* The name in the text is watched for, reported, in an edit or there.     *)
Landing(s) == \E i \in Watching : pending[i].symbol = s /\ Landed(pending[i])
ReportComing(s) ==
  \E k \in 1..Len(reports) : reports[k].symbol = s /\ reports[k].newName = ts.names[s]
EditComing(s) == \E e \in Edits : e.symbol = s /\ e.new = ts.names[s]
OnItsWay(s) == Landing(s) \/ ReportComing(s) \/ EditComing(s) \/ Declared(s) = ts.names[s]

Unsaved ==
  /\ dirty \subseteq {"ts"}
  /\ dirty # {} => InFlight \/ \E s \in Symbols : Declared(s) # ts.names[s]

InStep ==
  /\ contract = rust[Decl].names
  /\ asked # 0 => program[asked] = ts.names[asked]
  /\ \A s \in Symbols :
       ReportsInOrder(s) /\ EditsInOrder(s) /\ DeclaredInOrder(s) /\ OnItsWay(s)
  /\ Unsaved

Tracked == upsets = {} => InStep

-----------------------------------------------------------------------------
(* Sequences lose an element in the middle or at the head, or gain one.    *)
LEMMA WithoutOne ==
  ASSUME NEW T, NEW seq \in Seq(T), NEW k \in 1..Len(seq)
  PROVE  /\ RemoveAt(seq, k) \in Seq(T) /\ Len(RemoveAt(seq, k)) = Len(seq) - 1
         /\ \A j \in 1..(Len(seq) - 1) :
              RemoveAt(seq, k)[j] = IF j < k THEN seq[j] ELSE seq[j + 1]
<1> DEFINE front == SubSeq(seq, 1, k - 1)
           back == SubSeq(seq, k + 1, Len(seq))
<1>1. front \in Seq(T) /\ Len(front) = k - 1 /\ \A j \in 1..(k - 1) : front[j] = seq[j]
  OBVIOUS
<1>2. /\ back \in Seq(T) /\ Len(back) = Len(seq) - k
      /\ \A j \in 1..(Len(seq) - k) : back[j] = seq[k + j]
  OBVIOUS
<1>3. RemoveAt(seq, k) = front \o back BY DEF RemoveAt
<1> HIDE DEF front, back
<1>4. /\ front \o back \in Seq(T) /\ Len(front \o back) = Len(front) + Len(back)
      /\ \A j \in 1..(Len(front) + Len(back)) :
           (front \o back)[j] = IF j <= Len(front) THEN front[j] ELSE back[j - Len(front)]
  BY <1>1, <1>2, ConcatProperties, ZenonT(30)
<1>5. ASSUME NEW j \in 1..(Len(seq) - 1)
      PROVE  (front \o back)[j] = IF j < k THEN seq[j] ELSE seq[j + 1]
  <2>1. CASE j < k BY <2>1, <1>1, <1>2, <1>4
  <2>2. CASE ~(j < k)
    <3>1. j - (k - 1) \in 1..(Len(seq) - k) /\ k + (j - (k - 1)) = j + 1 BY <2>2
    <3>2. j \in 1..(Len(front) + Len(back)) /\ ~(j <= Len(front)) BY <2>2, <1>1, <1>2
    <3>3. (front \o back)[j] = back[j - Len(front)] BY <3>2, <1>4
    <3>4. back[j - (k - 1)] = seq[j + 1] BY <3>1, <1>2
    <3>5. Len(front) = k - 1 BY <1>1
    <3> QED BY <2>2, <3>3, <3>4, <3>5
  <2> QED BY <2>1, <2>2
<1> QED BY <1>1, <1>2, <1>3, <1>4, <1>5

LEMMA WithoutHead ==
  ASSUME NEW T, NEW seq \in Seq(T), seq # <<>>
  PROVE  /\ Tail(seq) \in Seq(T) /\ Len(Tail(seq)) = Len(seq) - 1 /\ Len(seq) > 0
         /\ Head(seq) \in T /\ Head(seq) = seq[1]
         /\ \A j \in 1..(Len(seq) - 1) : Tail(seq)[j] = seq[j + 1]
  OBVIOUS

LEMMA WithOneMore ==
  ASSUME NEW T, NEW seq \in Seq(T), NEW x \in T
  PROVE  /\ Append(seq, x) \in Seq(T) /\ Len(Append(seq, x)) = Len(seq) + 1
         /\ \A j \in 1..Len(seq) : Append(seq, x)[j] = seq[j]
         /\ Append(seq, x)[Len(seq) + 1] = x
  OBVIOUS

LEMMA ElementsWithoutOne ==
  ASSUME NEW T, NEW seq \in Seq(T), NEW k \in 1..Len(seq)
  PROVE  ToSet(seq) = ToSet(RemoveAt(seq, k)) \cup {seq[k]}
<1> DEFINE rest == RemoveAt(seq, k)
<1>1. /\ rest \in Seq(T) /\ Len(rest) = Len(seq) - 1
      /\ \A j \in 1..(Len(seq) - 1) : rest[j] = IF j < k THEN seq[j] ELSE seq[j + 1]
  BY WithoutOne
<1> HIDE DEF rest
<1>2. ASSUME NEW j \in 1..Len(seq) PROVE seq[j] \in ToSet(rest) \cup {seq[k]}
  <2>1. CASE j = k BY <2>1
  <2>2. CASE j < k
    <3>1. j \in 1..Len(rest) /\ rest[j] = seq[j] BY <2>2, <1>1
    <3> QED BY <3>1, <1>1 DEF ToSet
  <2>3. CASE j > k
    <3>1. j - 1 \in 1..Len(rest) /\ rest[j - 1] = seq[j] BY <2>3, <1>1
    <3> QED BY <3>1, <1>1 DEF ToSet
  <2> QED BY <2>1, <2>2, <2>3
<1>3. ASSUME NEW j \in 1..Len(rest) PROVE rest[j] \in ToSet(seq)
  <2>1. CASE j < k BY <2>1, <1>1 DEF ToSet
  <2>2. CASE ~(j < k)
    <3>1. j + 1 \in 1..Len(seq) /\ rest[j] = seq[j + 1] BY <2>2, <1>1
    <3> QED BY <3>1 DEF ToSet
  <2> QED BY <2>1, <2>2
<1>4. ToSet(seq) \subseteq ToSet(rest) \cup {seq[k]} BY <1>2 DEF ToSet
<1>5. ToSet(rest) \subseteq ToSet(seq) BY <1>1, <1>3 DEF ToSet
<1>6. seq[k] \in ToSet(seq) BY DEF ToSet
<1> QED BY <1>4, <1>5, <1>6 DEF rest

LEMMA ElementsWithoutHead ==
  ASSUME NEW T, NEW seq \in Seq(T), seq # <<>>
  PROVE  ToSet(seq) = ToSet(Tail(seq)) \cup {Head(seq)}
<1> DEFINE rest == Tail(seq)
<1>1. /\ rest \in Seq(T) /\ Len(rest) = Len(seq) - 1 /\ Len(seq) > 0 /\ Head(seq) = seq[1]
      /\ \A j \in 1..(Len(seq) - 1) : rest[j] = seq[j + 1]
  BY WithoutHead
<1> HIDE DEF rest
<1>2. ASSUME NEW j \in 1..Len(seq) PROVE seq[j] \in ToSet(rest) \cup {Head(seq)}
  <2>1. CASE j = 1 BY <2>1, <1>1
  <2>2. CASE j > 1
    <3>1. j - 1 \in 1..Len(rest) /\ rest[j - 1] = seq[j] BY <2>2, <1>1
    <3> QED BY <3>1, <1>1 DEF ToSet
  <2> QED BY <2>1, <2>2
<1>3. ASSUME NEW j \in 1..Len(rest) PROVE rest[j] \in ToSet(seq)
  <2>1. j + 1 \in 1..Len(seq) /\ rest[j] = seq[j + 1] BY <1>1
  <2> QED BY <2>1 DEF ToSet
<1>4. ToSet(seq) \subseteq ToSet(rest) \cup {Head(seq)} BY <1>2 DEF ToSet
<1>5. ToSet(rest) \subseteq ToSet(seq) BY <1>1, <1>3 DEF ToSet
<1>6. Head(seq) \in ToSet(seq) BY <1>1 DEF ToSet
<1> QED BY <1>4, <1>5, <1>6 DEF rest

LEMMA ElementsWithOneMore ==
  ASSUME NEW T, NEW seq \in Seq(T), NEW x \in T
  PROVE  ToSet(Append(seq, x)) = ToSet(seq) \cup {x}
<1> DEFINE longer == Append(seq, x)
<1>1. /\ longer \in Seq(T) /\ Len(longer) = Len(seq) + 1
      /\ \A j \in 1..Len(seq) : longer[j] = seq[j]
      /\ longer[Len(seq) + 1] = x
  BY WithOneMore
<1> HIDE DEF longer
<1>2. ASSUME NEW j \in 1..Len(longer) PROVE longer[j] \in ToSet(seq) \cup {x}
  <2>1. CASE j = Len(seq) + 1 BY <2>1, <1>1
  <2>2. CASE j \in 1..Len(seq) BY <2>2, <1>1 DEF ToSet
  <2> QED BY <2>1, <2>2, <1>1
<1>3. ASSUME NEW j \in 1..Len(seq) PROVE seq[j] \in ToSet(longer)
  BY <1>1 DEF ToSet
<1>4. x \in ToSet(longer) BY <1>1 DEF ToSet
<1>5. ToSet(longer) \subseteq ToSet(seq) \cup {x} BY <1>1, <1>2 DEF ToSet
<1>6. ToSet(seq) \subseteq ToSet(longer) BY <1>3 DEF ToSet
<1> QED BY <1>4, <1>5, <1>6 DEF longer

USE NamesAssumption, FilesAssumption, BoundAssumption

(* A symbol spelt anew, or something typed above, leaves room for all.     *)
LEMMA RespeltSpaced ==
  ASSUME NEW text, text.starts \in [Symbols -> Nat], text.names \in [Symbols -> Spellings],
         Spaced(text), NEW s \in Symbols, NEW name \in Spellings
  PROVE  /\ Moved(text, s, name - text.names[s]) \in [Symbols -> Nat]
         /\ [text.names EXCEPT ![s] = name] \in [Symbols -> Spellings]
         /\ \A t, u \in Symbols : t < u =>
              Moved(text, s, name - text.names[s])[t] + [text.names EXCEPT ![s] = name][t]
                <= Moved(text, s, name - text.names[s])[u]
<1> DEFINE m == Moved(text, s, name - text.names[s])
           n == [text.names EXCEPT ![s] = name]
<1>1. Symbols \subseteq Nat /\ Spellings \subseteq Nat BY DEF Symbols, Spellings
<1>2. \A t \in Symbols : text.starts[t] \in Nat /\ text.names[t] \in Nat BY <1>1
<1>3. name \in Nat /\ s \in Nat BY <1>1
<1>4. \A t \in Symbols : m[t] = IF t > s THEN text.starts[t] + (name - text.names[s])
                                         ELSE text.starts[t]
  BY DEF Moved
<1>5. \A t \in Symbols : n[t] = IF t = s THEN name ELSE text.names[t] OBVIOUS
<1>6. \A t, u \in Symbols : t < u => text.starts[t] + text.names[t] <= text.starts[u]
  BY DEF Spaced
<1>7. \A t \in Symbols : m[t] \in Nat BY <1>1, <1>2, <1>3, <1>4, <1>6
<1>8. m \in [Symbols -> Nat] BY <1>7 DEF Moved
<1>9. ASSUME NEW t \in Symbols, NEW u \in Symbols, t < u PROVE m[t] + n[t] <= m[u]
  <2>1. t \in Nat /\ u \in Nat BY <1>1
  <2> HIDE DEF m, n
  <2>2. CASE t = s BY <2>1, <2>2, <1>2, <1>3, <1>4, <1>5, <1>6, <1>9
  <2>3. CASE t > s BY <2>1, <2>3, <1>2, <1>3, <1>4, <1>5, <1>6, <1>9
  <2>4. CASE t < s
    <3>1. CASE u > s
      <4>1. text.starts[t] + text.names[t] <= text.starts[s] BY <2>1, <2>4, <1>3, <1>6
      <4>2. text.starts[s] + text.names[s] <= text.starts[u] BY <2>1, <3>1, <1>3, <1>6
      <4> QED BY <2>1, <2>4, <3>1, <4>1, <4>2, <1>2, <1>3, <1>4, <1>5
    <3>2. CASE ~(u > s) BY <2>1, <2>4, <3>2, <1>2, <1>3, <1>4, <1>5, <1>6, <1>9
    <3> QED BY <3>1, <3>2
  <2> QED BY <2>1, <1>3, <2>2, <2>3, <2>4
<1> QED BY <1>8, <1>9

LEMMA RespeltText ==
  ASSUME NEW text \in Text, Spaced(text), NEW s \in Symbols, NEW name \in Spellings
  PROVE  /\ Respelt(text, s, name) \in Text /\ Spaced(Respelt(text, s, name))
         /\ Respelt(text, s, name).names = [text.names EXCEPT ![s] = name]
         /\ \A t \in Symbols : ~(t > s) => Respelt(text, s, name).starts[t] = text.starts[t]
<1> DEFINE m == Moved(text, s, name - text.names[s])
<1>a. Respelt(text, s, name) = [text EXCEPT !.names[s] = name, !.starts = m] BY DEF Respelt
<1> HIDE DEF m
<1>b. Respelt(text, s, name) = [starts |-> m, names |-> [text.names EXCEPT ![s] = name]]
  BY <1>a DEF Text
<1> USE DEF m
<1>1. /\ Respelt(text, s, name).names = [text.names EXCEPT ![s] = name]
      /\ Respelt(text, s, name).starts = Moved(text, s, name - text.names[s])
      /\ Respelt(text, s, name) =
           [starts |-> Moved(text, s, name - text.names[s]),
            names |-> [text.names EXCEPT ![s] = name]]
  BY <1>b
<1>2. text.starts \in [Symbols -> Nat] /\ text.names \in [Symbols -> Spellings] BY DEF Text
<1>3. Respelt(text, s, name) \in Text BY <1>1, <1>2, RespeltSpaced DEF Text
<1>4. Spaced(Respelt(text, s, name)) BY <1>1, <1>2, RespeltSpaced DEF Spaced
<1> QED BY <1>1, <1>3, <1>4 DEF Moved

LEMMA TypedText ==
  ASSUME NEW text \in Text, Spaced(text)
  PROVE  /\ TypedAbove(text) \in Text /\ Spaced(TypedAbove(text))
         /\ TypedAbove(text).names = text.names
<1>1. TypedAbove(text) = [starts |-> Moved(text, 0, 1), names |-> text.names]
  BY DEF TypedAbove, Text
<1>2. text.starts \in [Symbols -> Nat] /\ text.names \in [Symbols -> Nat]
  BY DEF Text, Spellings
<1>3. \A t \in Symbols : Moved(text, 0, 1)[t] = text.starts[t] + 1 BY DEF Moved, Symbols
<1>4. Moved(text, 0, 1) \in [Symbols -> Nat] BY <1>2, <1>3 DEF Moved
<1>5. Spaced(TypedAbove(text))
  <2> SUFFICES ASSUME NEW t \in Symbols, NEW u \in Symbols, t < u
               PROVE  Moved(text, 0, 1)[t] + text.names[t] <= Moved(text, 0, 1)[u]
    BY <1>1 DEF Spaced
  <2>1. text.starts[t] + text.names[t] <= text.starts[u] BY DEF Spaced
  <2> QED BY <2>1, <1>2, <1>3
<1> QED BY <1>1, <1>4, <1>5 DEF Text

LEMMA TypedRust ==
  ASSUME NEW text \in RustText, Spaced(text)
  PROVE  LET after == [TypedAbove(text) EXCEPT !.version = @ + 1]
         IN  /\ after \in RustText /\ Spaced(after) /\ after.names = text.names
             /\ after.version = text.version + 1 /\ after.garbled = text.garbled
<1> DEFINE m == Moved(text, 0, 1)
           after == [TypedAbove(text) EXCEPT !.version = @ + 1]
<1>1. /\ text.starts \in [Symbols -> Nat] /\ text.names \in [Symbols -> Spellings]
      /\ text.version \in Nat /\ text.garbled \in BOOLEAN
  BY DEF RustText
<1>2. text.names \in [Symbols -> Nat] BY <1>1 DEF Spellings
<1>3. \A t \in Symbols : m[t] = text.starts[t] + 1 BY DEF Moved, Symbols
<1>4. m \in [Symbols -> Nat] BY <1>1, <1>3 DEF Moved
<1>5. TypedAbove(text) = [text EXCEPT !.starts = m] BY DEF TypedAbove
<1>6. \A t, u \in Symbols : t < u => m[t] + text.names[t] <= m[u]
  <2> SUFFICES ASSUME NEW t \in Symbols, NEW u \in Symbols, t < u
               PROVE  m[t] + text.names[t] <= m[u]
    OBVIOUS
  <2>1. text.starts[t] + text.names[t] <= text.starts[u] BY DEF Spaced
  <2> QED BY <2>1, <1>1, <1>2, <1>3
<1> HIDE DEF m
<1>7. after = [starts |-> m, names |-> text.names, version |-> text.version + 1,
               garbled |-> text.garbled]
  <2>1. TypedAbove(text) = [starts |-> m, names |-> text.names, version |-> text.version,
                            garbled |-> text.garbled]
    BY <1>5 DEF RustText
  <2> QED BY <2>1
<1> HIDE DEF after
<1>8. after \in RustText /\ Spaced(after) BY <1>1, <1>4, <1>6, <1>7 DEF RustText, Spaced
<1>9. /\ after.names = text.names /\ after.version = text.version + 1
      /\ after.garbled = text.garbled
  BY <1>7
<1> USE DEF after
<1> QED BY <1>8, <1>9

LEMMA EditFields ==
  ASSUME NEW e \in Edit
  PROVE  /\ e.symbol \in Symbols /\ e.new \in Spellings /\ e.files \subseteq Files
         /\ e.of \in [Files -> RustText]
  BY DEF Edit

LEMMA ReplacedText ==
  ASSUME NEW text \in RustText, Spaced(text), NEW e \in Edit, NEW before
  PROVE  /\ Replaced(text, e, before) \in RustText /\ Spaced(Replaced(text, e, before))
         /\ Replaced(text, e, before).names = [text.names EXCEPT ![e.symbol] = e.new]
         /\ Replaced(text, e, before).version = text.version + 1
         /\ text = before => Replaced(text, e, before).garbled = text.garbled
<1> DEFINE m == Moved(text, e.symbol, e.new - text.names[e.symbol])
           n == [text.names EXCEPT ![e.symbol] = e.new]
           g == \/ text.garbled
                \/ text.starts[e.symbol] # before.starts[e.symbol]
                \/ text.names[e.symbol] # before.names[e.symbol]
           after == Replaced(text, e, before)
<1>1. /\ text.starts \in [Symbols -> Nat] /\ text.names \in [Symbols -> Spellings]
      /\ text.version \in Nat /\ text.garbled \in BOOLEAN
  BY DEF RustText
<1>2. e.symbol \in Symbols /\ e.new \in Spellings BY EditFields
<1>3. /\ m \in [Symbols -> Nat] /\ n \in [Symbols -> Spellings]
      /\ \A t, u \in Symbols : t < u => m[t] + n[t] <= m[u]
  BY <1>1, <1>2, RespeltSpaced
<1> DEFINE r == Respelt(text, e.symbol, e.new)
<1>4. r = [text EXCEPT !.names[e.symbol] = e.new, !.starts = m] BY DEF Respelt
<1>5. after = [r EXCEPT !.version = r.version + 1,
                        !.garbled = r.garbled \/ text.starts[e.symbol] # before.starts[e.symbol]
                                              \/ text.names[e.symbol] # before.names[e.symbol]]
  BY DEF Replaced
<1> HIDE DEF m, after, r
<1>6. r = [starts |-> m, names |-> n, version |-> text.version, garbled |-> text.garbled]
  BY <1>4 DEF RustText
<1>7. after = [starts |-> m, names |-> n, version |-> text.version + 1, garbled |-> g]
  <2>1. r.version = text.version /\ r.garbled = text.garbled BY <1>6
  <2>2. after = [r EXCEPT !.version = text.version + 1, !.garbled = g] BY <1>5, <2>1, Zenon
  <2> HIDE DEF g
  <2> QED BY <2>2, <1>6
<1>8. g \in BOOLEAN OBVIOUS
<1>9. text = before => g = text.garbled BY <1>1
<1> HIDE DEF n, g
<1>10. after \in RustText BY <1>1, <1>3, <1>7, <1>8 DEF RustText
<1>11. Spaced(after) BY <1>3, <1>7 DEF Spaced
<1>12. after.names = n /\ after.version = text.version + 1 /\ after.garbled = g BY <1>7
<1> QED BY <1>9, <1>10, <1>11, <1>12 DEF after, n

(* What an edit makes of the files it is applied to.                       *)
LEMMA Replacing ==
  ASSUME TypeInv, NEW files, NEW e \in Edit, NEW f \in Files
  PROVE  /\ Replace(files, e) \in [Files -> RustText]
         /\ Spaced(Replace(files, e)[f])
         /\ f \in files \cap e.files =>
              /\ Replace(files, e)[f].names = [rust[f].names EXCEPT ![e.symbol] = e.new]
              /\ Replace(files, e)[f].version = rust[f].version + 1
              /\ rust[f] = e.of[f] => Replace(files, e)[f].garbled = rust[f].garbled
         /\ f \notin files \cap e.files => Replace(files, e)[f] = rust[f]
<1>1. rust \in [Files -> RustText] /\ \A h \in Files : Spaced(rust[h])
  BY DEF TypeInv, TypeOK, TextsSpaced
<1>2. \A h \in Files : Replaced(rust[h], e, e.of[h]) \in RustText
  BY <1>1, ReplacedText
<1>3. Replace(files, e) \in [Files -> RustText] BY <1>1, <1>2 DEF Replace
<1>4. CASE f \in files \cap e.files
  <2>1. Replace(files, e)[f] = Replaced(rust[f], e, e.of[f]) BY <1>4 DEF Replace
  <2>2. rust[f] \in RustText /\ Spaced(rust[f]) BY <1>1
  <2> QED BY <1>3, <1>4, <2>1, <2>2, ReplacedText
<1>5. CASE f \notin files \cap e.files
  <2>1. Replace(files, e)[f] = rust[f] BY <1>5 DEF Replace
  <2> QED BY <1>1, <1>3, <1>5, <2>1
<1> QED BY <1>4, <1>5

LEMMA FreshFits ==
  ASSUME contract \in Contract, NEW texts \in [Files -> RustText]
  PROVE  Fresh(texts) \in Contract
  BY DEF Fresh, Contract, RustText

LEMMA ComplementFits ==
  ASSUME TypeInv, NEW e \in Edit, ApplyRustComplement(e)
  PROVE  /\ rust' \in [Files -> RustText] /\ \A f \in Files : Spaced(rust'[f])
         /\ contract' \in Contract /\ dirty' \subseteq Files \cup {"ts"}
         /\ pending_saves' \in Seq(Edit)
<1>1. contract \in Contract /\ dirty \subseteq Files \cup {"ts"} /\ pending_saves \in Seq(Edit)
  BY DEF TypeInv, TypeOK
<1>2. rust' = Replace(Files \ open, e) BY DEF ApplyRustComplement
<1>3. rust' \in [Files -> RustText] /\ \A f \in Files : Spaced(rust'[f])
  BY <1>2, Replacing, FilesAssumption
<1>4. contract' = Fresh(rust') BY DEF ApplyRustComplement
<1>5. contract' \in Contract BY <1>1, <1>3, <1>4, FreshFits
<1>6. /\ dirty' = dirty \/ dirty' = dirty \ {"ts"}
      /\ pending_saves' = pending_saves \/ pending_saves' = Append(pending_saves, e)
  BY DEF ApplyRustComplement
<1>7. dirty' \subseteq Files \cup {"ts"} BY <1>1, <1>6
<1>8. pending_saves' \in Seq(Edit) BY <1>1, <1>6, WithOneMore
<1> QED BY <1>3, <1>5, <1>7, <1>8

-----------------------------------------------------------------------------
(* Types, and that the symbols of a text leave room for each other.        *)
LEMMA InitTypes == Init => TypeInv
<1> SUFFICES ASSUME Init PROVE TypeInv OBVIOUS
<1> PICK name \in Names \ Clumsy :
      LET names == [s \in Symbols |-> name]
          starts == [s \in Symbols |-> (s - 1) * name]
      IN  /\ contract = names /\ ts = [starts |-> starts, names |-> names]
          /\ rust = [f \in Files |-> [starts |-> starts, names |-> names,
                                      version |-> 0, garbled |-> FALSE]]
          /\ given = [s \in Symbols |-> {name}]
  BY DEF Init
<1> DEFINE names == [s \in Symbols |-> name]
           starts == [s \in Symbols |-> (s - 1) * name]
<1>1. name \in Nat /\ name \in Spellings /\ name \in Names BY DEF Spellings
<1>2. \A s \in Symbols : s - 1 \in Nat /\ (s - 1) * name \in Nat BY <1>1 DEF Symbols
<1>3. starts \in [Symbols -> Nat] BY <1>2
<1>4. names \in [Symbols -> Spellings] BY <1>1
<1>5. \A s, t \in Symbols : s < t => starts[s] + names[s] <= starts[t]
  <2> SUFFICES ASSUME NEW s \in Symbols, NEW t \in Symbols, s < t
               PROVE  (s - 1) * name + name <= (t - 1) * name
    OBVIOUS
  <2>1. s \in Int /\ t \in Int BY DEF Symbols
  <2>2. t - 1 - s \in Nat /\ (t - 1 - s) * name \in Nat BY <2>1, <1>1
  <2>3. (t - 1 - s) * name = (t - 1) * name - ((s - 1) * name + name) BY <2>1, <1>1
  <2>4. (s - 1) * name \in Int /\ (t - 1) * name \in Int BY <2>1, <1>1
  <2> QED BY <2>2, <2>3, <2>4, <1>1
<1> HIDE DEF names, starts
<1>6. /\ contract = names /\ ts = [starts |-> starts, names |-> names]
      /\ rust = [f \in Files |-> [starts |-> starts, names |-> names,
                                  version |-> 0, garbled |-> FALSE]]
  BY DEF names, starts
<1>7. ts \in Text /\ rust \in [Files -> RustText] BY <1>3, <1>4, <1>6 DEF Text, RustText
<1>8. contract \in Contract BY <1>4, <1>6 DEF Contract
<1>9. Spaced(ts) /\ \A f \in Files : Spaced(rust[f]) BY <1>5, <1>6 DEF Spaced
<1>10. given \in [Symbols -> SUBSET Names] BY <1>1
<1>11. /\ snapshot \in [Instances -> Contract \cup {None}]
       /\ pending \in [Instances -> Watch \cup {None}]
  BY DEF Init
<1>12. reports \in Seq(Report) /\ injected_renames \in Seq(Edit) /\ pending_saves \in Seq(Edit)
  BY DEF Init
<1>13. program \in Contract BY <1>8 DEF Init
<1>14. /\ open \subseteq Files /\ dirty \subseteq Files \cup {"ts"} /\ asked \in Symbols \cup {0}
       /\ connected \subseteq Instances /\ child \in BOOLEAN /\ upsets \subseteq Upsets
       /\ events \in 0..MaxEvents
  BY DEF Init
<1>15. TypeOK BY <1>7, <1>8, <1>10, <1>11, <1>12, <1>13, <1>14 DEF TypeOK
<1> QED BY <1>9, <1>15 DEF TypeInv, TextsSpaced

LEMMA UpsetsFit ==
  ASSUME upsets \subseteq Upsets, NEW what \in Upsets, NEW when, Upset(what, when)
  PROVE  upsets' \subseteq Upsets
  BY DEF Upset

LEMMA NextTypes == TypeInv /\ [Next]_vars => TypeInv'
<1> SUFFICES ASSUME TypeInv, [Next]_vars PROVE TypeInv' OBVIOUS
<1>t. TypeOK /\ Spaced(ts) /\ \A f \in Files : Spaced(rust[f]) BY DEF TypeInv, TextsSpaced
<1> SUFFICES TypeOK' /\ Spaced(ts') /\ \A f \in Files : Spaced(rust'[f])
  BY DEF TypeInv, TextsSpaced, Spaced
<1>e. Event => events' \in 0..MaxEvents BY <1>t DEF Event, TypeOK
<1>1. ASSUME NEW i \in Instances, Connect(i)
      PROVE  TypeOK' /\ Spaced(ts') /\ \A f \in Files : Spaced(rust'[f])
  BY <1>1, <1>t DEF Connect, TypeOK, textVars, proxyVars
<1>2. ASSUME NEW i \in Instances, Disconnect(i)
      PROVE  TypeOK' /\ Spaced(ts') /\ \A f \in Files : Spaced(rust'[f])
  BY <1>2, <1>t, <1>e DEF Disconnect, TypeOK, textVars, proxyVars
<1>3. ASSUME NEW i \in Instances, OnMessage(i)
      PROVE  TypeOK' /\ Spaced(ts') /\ \A f \in Files : Spaced(rust'[f])
  BY <1>3, <1>t DEF OnMessage, TypeOK, textVars, proxyVars
<1>4. ASSUME ReadsGenerated
      PROVE  TypeOK' /\ Spaced(ts') /\ \A f \in Files : Spaced(rust'[f])
  BY <1>4, <1>t DEF ReadsGenerated, TypeOK, textVars, proxyVars
<1>5. ASSUME NEW s \in Symbols, AskRename(s)
      PROVE  TypeOK' /\ Spaced(ts') /\ \A f \in Files : Spaced(rust'[f])
  <2>1. \A i \in Instances : Marked(i, s) => WatchRename(i, s) \in Watch
    <3> SUFFICES ASSUME NEW i \in Instances, Marked(i, s) PROVE WatchRename(i, s) \in Watch
      OBVIOUS
    <3>1. snapshot[i] \in Contract BY <1>t DEF Marked, TypeOK
    <3>2. snapshot[i][s] \in Spellings BY <3>1 DEF Contract
    <3>3. ts.names[s] \in Spellings /\ ts.starts[s] \in Nat BY <1>t DEF TypeOK, Text
    <3> QED BY <3>2, <3>3 DEF WatchRename, Watch
  <2>2. pending' \in [Instances -> Watch \cup {None}] BY <1>5, <1>t, <2>1 DEF AskRename, TypeOK
  <2>3. upsets' \subseteq Upsets BY <1>5, <1>t, UpsetsFit DEF AskRename, TypeOK, Upsets
  <2> QED BY <1>5, <1>t, <1>e, <2>2, <2>3 DEF AskRename, TypeOK, proxyVars
<1>6. ASSUME NEW new \in Names, EditorRenames(new)
      PROVE  TypeOK' /\ Spaced(ts') /\ \A f \in Files : Spaced(rust'[f])
  <2>1. asked \in Symbols /\ new \in Spellings /\ ts \in Text /\ given \in [Symbols -> SUBSET Names]
    BY <1>6, <1>t DEF EditorRenames, TypeOK, Spellings
  <2>2. ts' \in Text /\ Spaced(ts') BY <1>6, <1>t, <2>1, RespeltText DEF EditorRenames
  <2>3. given' \in [Symbols -> SUBSET Names] BY <1>6, <2>1 DEF EditorRenames
  <2>4. upsets' \subseteq Upsets BY <1>6, <1>t DEF EditorRenames, TypeOK, Upsets
  <2>5. dirty' \subseteq Files \cup {"ts"} /\ asked' = 0 BY <1>6, <1>t DEF EditorRenames, TypeOK
  <2> QED BY <1>6, <1>t, <2>2, <2>3, <2>4, <2>5 DEF EditorRenames, TypeOK, pluginVars, proxyVars
<1>7. ASSUME UserTypes
      PROVE  TypeOK' /\ Spaced(ts') /\ \A f \in Files : Spaced(rust'[f])
  <2>1. ts \in Text BY <1>t DEF TypeOK
  <2>2. ts' \in Text /\ Spaced(ts') BY <1>7, <1>t, <2>1, TypedText DEF UserTypes
  <2>3. upsets' \subseteq Upsets BY <1>7, <1>t, UpsetsFit DEF UserTypes, TypeOK, Upsets
  <2> QED BY <1>7, <1>t, <1>e, <2>2, <2>3 DEF UserTypes, TypeOK, pluginVars, proxyVars
<1>8. ASSUME NEW i \in Instances, CheckPendingRename(i)
      PROVE  TypeOK' /\ Spaced(ts') /\ \A f \in Files : Spaced(rust'[f])
  <2>1. pending[i] \in Watch BY <1>8, <1>t DEF CheckPendingRename, TypeOK
  <2>2. Found(pending[i]) \subseteq Spellings
    <3>1. SpeltAt(pending[i].start) \subseteq Spellings BY <1>t DEF SpeltAt, TypeOK, Text
    <3>2. {Stray, pending[i].oldName} \subseteq Spellings BY <2>1 DEF Spellings, Watch
    <3> QED BY <3>1, <3>2 DEF Found
  <2>3. reports' \in Seq(Report)
    <3>1. PICK name \in Found(pending[i]) :
            reports' = IF i \in connected
                       THEN Append(reports, [symbol |-> pending[i].symbol, id |-> pending[i].id,
                                             newName |-> name])
                       ELSE reports
      BY <1>8 DEF CheckPendingRename
    <3>2. [symbol |-> pending[i].symbol, id |-> pending[i].id, newName |-> name] \in Report
      BY <2>1, <2>2 DEF Watch, Report
    <3>3. reports \in Seq(Report) BY <1>t DEF TypeOK
    <3> QED BY <3>1, <3>2, <3>3, WithOneMore
  <2>4. upsets' \subseteq Upsets BY <1>8, <1>t DEF CheckPendingRename, TypeOK, Upsets
  <2>6. events' \in 0..MaxEvents BY <1>8, <1>t, <1>e DEF CheckPendingRename, TypeOK
  <2>5. pending' \in [Instances -> Watch \cup {None}] BY <1>8, <1>t DEF CheckPendingRename, TypeOK
  <2> QED BY <1>8, <1>t, <2>3, <2>4, <2>5, <2>6 DEF CheckPendingRename, TypeOK, textVars, proxyVars
<1>9. ASSUME NEW i \in Instances, WatchExpires(i)
      PROVE  TypeOK' /\ Spaced(ts') /\ \A f \in Files : Spaced(rust'[f])
  <2>1. upsets' \subseteq Upsets
    BY <1>9, <1>t, UpsetsFit DEF WatchExpires, Mishap, TypeOK, Upsets
  <2>2. events' \in 0..MaxEvents BY <1>9, <1>t, <1>e DEF WatchExpires, Mishap, TypeOK
  <2> QED BY <1>9, <1>t, <2>1, <2>2 DEF WatchExpires, TypeOK, textVars, proxyVars
<1>10. ASSUME OnPluginEvent
      PROVE  TypeOK' /\ Spaced(ts') /\ \A f \in Files : Spaced(rust'[f])
  <2> DEFINE r == Head(reports)
             e == [symbol |-> r.symbol, new |-> r.newName, files |-> Files, of |-> rust]
             fallback == IF r.symbol \in Endpoints THEN e ELSE [e EXCEPT !.files = {Decl}]
  <2>1. reports \in Seq(Report) /\ reports # <<>> BY <1>10, <1>t DEF OnPluginEvent, TypeOK
  <2>2. r \in Report /\ reports' \in Seq(Report)
    BY <1>10, <2>1, WithoutHead DEF OnPluginEvent
  <2>3. rust \in [Files -> RustText] /\ contract \in Contract BY <1>t DEF TypeOK
  <2>4. e \in Edit /\ fallback \in Edit
    <3> HIDE DEF r
    <3>1. r.symbol \in Symbols /\ r.newName \in Spellings BY <2>2 DEF Report
    <3>2. [e EXCEPT !.files = {Decl}] =
            [symbol |-> r.symbol, new |-> r.newName, files |-> {Decl}, of |-> rust]
      OBVIOUS
    <3> QED BY <3>1, <3>2, <2>3 DEF Edit
  <2>5. /\ ts' = ts /\ open' = open /\ asked' = asked /\ UNCHANGED pluginVars /\ child' = child
        /\ given' = given /\ events' = events
    BY <1>10 DEF OnPluginEvent
  <2>6. CASE /\ contract' = Fresh(rust) /\ \E when : Upset("unmapped", when)
             /\ UNCHANGED <<rust, dirty, injected_renames, pending_saves>>
    <3>1. upsets' \subseteq Upsets BY <2>6, <1>t, UpsetsFit DEF TypeOK, Upsets
    <3>2. contract' \in Contract BY <2>6, <2>3, FreshFits
    <3> QED BY <1>t, <2>2, <2>5, <2>6, <3>1, <3>2 DEF TypeOK, pluginVars
  <2>7. CASE /\ contract' = Fresh(rust)
             /\ injected_renames' = Append(injected_renames, e)
             /\ Upset("overlapping", InFlight)
             /\ UNCHANGED <<rust, dirty, pending_saves>>
    <3>1. upsets' \subseteq Upsets BY <2>7, <1>t, UpsetsFit DEF TypeOK, Upsets
    <3>2. contract' \in Contract BY <2>7, <2>3, FreshFits
    <3>3. injected_renames' \in Seq(Edit) BY <2>7, <1>t, <2>4, WithOneMore DEF TypeOK
    <3> QED BY <1>t, <2>2, <2>5, <2>7, <3>1, <3>2, <3>3 DEF TypeOK, pluginVars
  <2>8. CASE /\ ApplyRustComplement(fallback)
             /\ upsets' = upsets \cup (IF InFlight THEN {"overlapping"} ELSE {})
                                 \cup (IF r.symbol \in Endpoints THEN {} ELSE {"degraded"})
             /\ UNCHANGED injected_renames
    <3> HIDE DEF fallback, r
    <3>1. /\ rust' \in [Files -> RustText] /\ \A f \in Files : Spaced(rust'[f])
          /\ contract' \in Contract /\ dirty' \subseteq Files \cup {"ts"}
          /\ pending_saves' \in Seq(Edit)
      BY <2>4, <2>8, ComplementFits
    <3>2. upsets' \subseteq Upsets BY <2>8, <1>t DEF TypeOK, Upsets
    <3> QED BY <1>t, <2>2, <2>5, <2>8, <3>1, <3>2 DEF TypeOK, pluginVars
  <2> QED BY <1>10, <2>6, <2>7, <2>8 DEF OnPluginEvent
<1>11. ASSUME NEW k \in DOMAIN injected_renames, RenameResponse(k)
      PROVE  TypeOK' /\ Spaced(ts') /\ \A f \in Files : Spaced(rust'[f])
  <2> DEFINE e == injected_renames[k]
             anew == [e EXCEPT !.of = rust]
  <2>1. injected_renames \in Seq(Edit) /\ rust \in [Files -> RustText] BY <1>t DEF TypeOK
  <2>2. k \in 1..Len(injected_renames) /\ e \in Edit BY <2>1, <1>11
  <2>3. injected_renames' \in Seq(Edit) BY <1>11, <2>1, <2>2, WithoutOne DEF RenameResponse
  <2>4. anew \in Edit
    <3> HIDE DEF e
    <3> QED BY <2>1, <2>2 DEF Edit
  <2>5. /\ ts' = ts /\ open' = open /\ asked' = asked /\ UNCHANGED pluginVars /\ child' = child
        /\ given' = given /\ reports' = reports
    BY <1>11 DEF RenameResponse
  <2>6. CASE \E d \in {e, anew} : ApplyRustComplement(d) /\ UNCHANGED <<upsets, events>>
    <3> PICK d \in {e, anew} : ApplyRustComplement(d) /\ UNCHANGED <<upsets, events>> BY <2>6
    <3>1. /\ rust' \in [Files -> RustText] /\ \A f \in Files : Spaced(rust'[f])
          /\ contract' \in Contract /\ dirty' \subseteq Files \cup {"ts"}
          /\ pending_saves' \in Seq(Edit)
      BY <2>2, <2>4, ComplementFits
    <3> QED BY <1>t, <2>3, <2>5, <3>1 DEF TypeOK, pluginVars
  <2>7. CASE Event /\ Upset("failed", TRUE) /\ UNCHANGED <<rust, dirty, contract, pending_saves>>
    <3>1. upsets' \subseteq Upsets BY <2>7, <1>t, UpsetsFit DEF TypeOK, Upsets
    <3> QED BY <1>t, <1>e, <2>3, <2>5, <2>7, <3>1 DEF TypeOK, pluginVars
  <2> QED BY <1>11, <2>6, <2>7 DEF RenameResponse
<1>12. ASSUME OnRaExit
      PROVE  TypeOK' /\ Spaced(ts') /\ \A f \in Files : Spaced(rust'[f])
  <2>1. upsets' \subseteq Upsets BY <1>12, <1>t, UpsetsFit DEF OnRaExit, TypeOK, Upsets
  <2>2. <<>> \in Seq(Edit) OBVIOUS
  <2> QED BY <1>12, <1>t, <1>e, <2>1, <2>2 DEF OnRaExit, TypeOK, textVars, pluginVars
<1>13. ASSUME EditorApplies
      PROVE  TypeOK' /\ Spaced(ts') /\ \A f \in Files : Spaced(rust'[f])
  <2> DEFINE e == Head(pending_saves)
  <2>1. pending_saves \in Seq(Edit) /\ pending_saves # <<>>
    BY <1>13, <1>t DEF EditorApplies, TypeOK
  <2>2. e \in Edit /\ pending_saves' \in Seq(Edit)
    BY <1>13, <2>1, WithoutHead DEF EditorApplies
  <2>3. /\ ts' = ts /\ open' = open /\ asked' = asked /\ UNCHANGED pluginVars /\ child' = child
        /\ given' = given /\ reports' = reports /\ injected_renames' = injected_renames
        /\ upsets' = upsets /\ events' = events
    BY <1>13 DEF EditorApplies
  <2>4. CASE /\ rust' = Replace(open, e) /\ contract' = Fresh(rust')
             /\ dirty' = (dirty \cup Touched(e)) \ Saved(e)
    <3> HIDE DEF e
    <3>1. rust' \in [Files -> RustText] /\ \A f \in Files : Spaced(rust'[f])
      BY <2>2, <2>4, Replacing, FilesAssumption
    <3>2. contract' \in Contract BY <1>t, <2>4, <3>1, FreshFits DEF TypeOK
    <3>3. dirty' \subseteq Files \cup {"ts"}
      BY <1>t, <2>2, <2>4, EditFields DEF TypeOK, Touched
    <3> QED BY <1>t, <2>2, <2>3, <3>1, <3>2, <3>3 DEF TypeOK, pluginVars
  <2>5. CASE UNCHANGED <<rust, contract, dirty>>
    BY <1>t, <2>2, <2>3, <2>5 DEF TypeOK, pluginVars
  <2> QED BY <1>13, <2>4, <2>5 DEF EditorApplies
<1>14. ASSUME NEW f \in Files, UserEditsRust(f)
      PROVE  TypeOK' /\ Spaced(ts') /\ \A h \in Files : Spaced(rust'[h])
  <2>1. rust[f] \in RustText /\ Spaced(rust[f]) /\ rust \in [Files -> RustText]
    BY <1>t DEF TypeOK
  <2> DEFINE after == [TypedAbove(rust[f]) EXCEPT !.version = @ + 1]
  <2>a. rust' = [rust EXCEPT ![f] = after] BY <1>14 DEF UserEditsRust
  <2>b. after \in RustText /\ Spaced(after) BY <2>1, TypedRust
  <2> HIDE DEF after
  <2>2. rust' \in [Files -> RustText] /\ \A h \in Files : Spaced(rust'[h])
    BY <1>t, <2>1, <2>a, <2>b
  <2>3. upsets' \subseteq Upsets BY <1>14, <1>t, UpsetsFit DEF UserEditsRust, TypeOK, Upsets
  <2> QED BY <1>14, <1>t, <1>e, <2>2, <2>3 DEF UserEditsRust, TypeOK, pluginVars, proxyVars
<1>15. CASE UNCHANGED vars
  BY <1>15, <1>t DEF vars, TypeOK, textVars, pluginVars, proxyVars
<1> QED
  BY <1>1, <1>2, <1>3, <1>4, <1>5, <1>6, <1>7, <1>8, <1>9, <1>10, <1>11, <1>12, <1>13, <1>14, <1>15
  DEF Next, Handled

(* Texts, messages and edits are what the code makes of them: symbols      *)
(* never overlap, no position is negative.                                 *)
THEOREM TypeCorrect == Spec => []TypeOK
<1>1. Spec => []TypeInv BY InitTypes, NextTypes, PTL DEF Spec
<1>2. TypeInv => TypeOK BY DEF TypeInv
<1> QED BY <1>1, <1>2, PTL

-----------------------------------------------------------------------------
(* What the steps do to the edits and to the files they are made for.      *)
LEMMA UpsetsGrow == [Next]_vars => upsets \subseteq upsets'
  BY DEF Next, Handled, OnPluginEvent, EditorApplies, ReadsGenerated, RenameResponse, OnMessage,
         CheckPendingRename, OnRaExit, UserTypes, Connect, Disconnect, WatchExpires, AskRename,
         EditorRenames, UserEditsRust, Upset, Mishap, vars

LEMMA OpenStays == [Next]_vars => open' = open
  BY DEF Next, Handled, OnPluginEvent, EditorApplies, ReadsGenerated, RenameResponse, OnMessage,
         CheckPendingRename, OnRaExit, UserTypes, Connect, Disconnect, WatchExpires, AskRename,
         EditorRenames, UserEditsRust, vars, textVars

LEMMA EditsAreEdits == TypeInv => Injected \subseteq Edit /\ Saving \subseteq Edit
  BY DEF TypeInv, TypeOK, Injected, Saving, ToSet

(* The steps that leave the edits and the Rust files alone.                *)
Aside ==
  \/ \E i \in Instances : \/ Connect(i) \/ Disconnect(i) \/ OnMessage(i)
                          \/ CheckPendingRename(i) \/ WatchExpires(i)
  \/ ReadsGenerated \/ UserTypes
  \/ \E s \in Symbols : AskRename(s)
  \/ \E new \in Names : EditorRenames(new)
  \/ UNCHANGED vars

LEMMA StandsAside ==
  ASSUME Aside
  PROVE  UNCHANGED <<rust, open, contract, child, injected_renames, pending_saves>>
  BY DEF Aside, ReadsGenerated, OnMessage, CheckPendingRename, UserTypes, Connect, Disconnect,
         WatchExpires, AskRename, EditorRenames, vars, textVars, proxyVars

LEMMA ByAction ==
  [Next]_vars =>
    \/ Aside \/ OnPluginEvent \/ EditorApplies \/ OnRaExit
    \/ \E k \in DOMAIN injected_renames : RenameResponse(k)
    \/ \E f \in Files : UserEditsRust(f)
  BY DEF Next, Handled, Aside

(* The report at the head, the edit asked of rust-analyzer for it, and the *)
(* edit the proxy makes without it.                                        *)
Asked(r) == [symbol |-> r.symbol, new |-> r.newName, files |-> Files, of |-> rust]
Fallback(r) == IF r.symbol \in Endpoints THEN Asked(r) ELSE [Asked(r) EXCEPT !.files = {Decl}]

LEMMA AskedEdits ==
  ASSUME TypeInv, NEW r \in Report
  PROVE  /\ Asked(r) \in Edit /\ Fallback(r) \in Edit
         /\ Asked(r).of = rust /\ Asked(r).symbol = r.symbol /\ Asked(r).new = r.newName
         /\ Asked(r).files = Files
         /\ Fallback(r).of = rust /\ Fallback(r).symbol = r.symbol /\ Fallback(r).new = r.newName
         /\ r.symbol \in Endpoints => Fallback(r).files = Files
<1>1. r.symbol \in Symbols /\ r.newName \in Spellings /\ rust \in [Files -> RustText]
  BY DEF Report, TypeInv, TypeOK
<1>2. [Asked(r) EXCEPT !.files = {Decl}] =
        [symbol |-> r.symbol, new |-> r.newName, files |-> {Decl}, of |-> rust]
  BY DEF Asked
<1>3. Fallback(r) \in {Asked(r), [Asked(r) EXCEPT !.files = {Decl}]} BY DEF Fallback
<1>4. Asked(r) \in Edit BY <1>1 DEF Asked, Edit
<1>5. [Asked(r) EXCEPT !.files = {Decl}] \in Edit BY <1>1, <1>2 DEF Edit
<1>6. /\ Asked(r).of = rust /\ Asked(r).symbol = r.symbol /\ Asked(r).new = r.newName
      /\ Asked(r).files = Files
  BY DEF Asked
<1>7. Fallback(r).of = rust /\ Fallback(r).symbol = r.symbol /\ Fallback(r).new = r.newName
  BY <1>2, <1>3, <1>6
<1>8. r.symbol \in Endpoints => Fallback(r) = Asked(r) BY DEF Fallback
<1> QED BY <1>3, <1>4, <1>5, <1>6, <1>7, <1>8

LEMMA PluginEvent ==
  ASSUME TypeInv, OnPluginEvent
  PROVE  LET r == Head(reports)
         IN  /\ reports # <<>> /\ reports' = Tail(reports) /\ r \in Report
             /\ ts' = ts /\ asked' = asked /\ child' = child /\ UNCHANGED pluginVars
             /\ given' = given
             /\ \/ /\ ~RustComplement(r) /\ contract' = Fresh(rust)
                   /\ Upset("unmapped", contract'[r.symbol] # r.newName)
                   /\ UNCHANGED <<rust, dirty, injected_renames, pending_saves>>
                \/ /\ RustComplement(r) /\ contract' = Fresh(rust)
                   /\ injected_renames' = Append(injected_renames, Asked(r))
                   /\ Upset("overlapping", InFlight)
                   /\ UNCHANGED <<rust, dirty, pending_saves>>
                \/ /\ RustComplement(r) /\ ApplyRustComplement(Fallback(r))
                   /\ upsets' = upsets \cup (IF InFlight THEN {"overlapping"} ELSE {})
                                       \cup (IF r.symbol \in Endpoints THEN {} ELSE {"degraded"})
                   /\ UNCHANGED injected_renames
<1>1. reports # <<>> /\ reports \in Seq(Report) BY DEF OnPluginEvent, TypeInv, TypeOK
<1>2. Head(reports) \in Report BY <1>1, WithoutHead
<1> QED BY <1>1, <1>2 DEF OnPluginEvent, Asked, Fallback

LEMMA Response ==
  ASSUME TypeInv, NEW k \in DOMAIN injected_renames, RenameResponse(k)
  PROVE  LET e == injected_renames[k]
             anew == [e EXCEPT !.of = rust]
         IN  /\ injected_renames \in Seq(Edit) /\ k \in 1..Len(injected_renames)
             /\ e \in Injected /\ e \in Edit /\ anew \in Edit
             /\ anew = [symbol |-> e.symbol, new |-> e.new, files |-> e.files, of |-> rust]
             /\ Injected = Injected' \cup {e}
             /\ Len(injected_renames') = Len(injected_renames) - 1
             /\ UNCHANGED <<ts, asked, pluginVars, reports, child, given>>
             /\ \/ ApplyRustComplement(e) /\ upsets' = upsets
                \/ ApplyRustComplement(anew) /\ upsets' = upsets
                \/ Upset("failed", TRUE) /\ UNCHANGED <<rust, dirty, contract, pending_saves>>
<1> DEFINE e == injected_renames[k]
           anew == [e EXCEPT !.of = rust]
<1>1. injected_renames \in Seq(Edit) /\ rust \in [Files -> RustText] BY DEF TypeInv, TypeOK
<1>2. k \in 1..Len(injected_renames) /\ e \in Edit /\ e \in Injected
  BY <1>1 DEF Injected, ToSet
<1>3. injected_renames' = RemoveAt(injected_renames, k) BY DEF RenameResponse
<1>4. Injected = Injected' \cup {e} BY <1>1, <1>2, <1>3, ElementsWithoutOne DEF Injected
<1>5. Len(injected_renames') = Len(injected_renames) - 1 BY <1>1, <1>2, <1>3, WithoutOne
<1>6. anew \in Edit /\ anew = [symbol |-> e.symbol, new |-> e.new, files |-> e.files, of |-> rust]
  <2> HIDE DEF e
  <2> QED BY <1>1, <1>2 DEF Edit
<1> QED BY <1>1, <1>2, <1>4, <1>5, <1>6 DEF RenameResponse

LEMMA Complement ==
  ASSUME TypeInv, NEW e \in Edit, ApplyRustComplement(e)
  PROVE  /\ \A f \in Files :
              /\ f \in open \/ f \notin e.files => rust'[f] = rust[f]
              /\ f \notin open /\ f \in e.files =>
                   /\ rust'[f].names = [rust[f].names EXCEPT ![e.symbol] = e.new]
                   /\ rust'[f].version = rust[f].version + 1
                   /\ rust[f] = e.of[f] => rust'[f].garbled = rust[f].garbled
         /\ contract' = Fresh(rust')
         /\ Touched(e) = {} =>
              Saving' = Saving /\ pending_saves' = pending_saves /\ dirty' = dirty \ {"ts"}
         /\ Touched(e) # {} =>
              /\ Saving' = Saving \cup {e} /\ Len(pending_saves') = Len(pending_saves) + 1
              /\ pending_saves' # <<>> /\ dirty' = dirty
<1>1. rust' = Replace(Files \ open, e) /\ contract' = Fresh(rust') BY DEF ApplyRustComplement
<1>2. pending_saves \in Seq(Edit) BY DEF TypeInv, TypeOK
<1>3. CASE Touched(e) = {}
  <2>1. pending_saves' = pending_saves /\ dirty' = dirty \ {"ts"}
    BY <1>3 DEF ApplyRustComplement
  <2> QED BY <1>1, <1>3, <2>1, Replacing DEF Saving
<1>4. CASE Touched(e) # {}
  <2>1. pending_saves' = Append(pending_saves, e) /\ dirty' = dirty
    BY <1>4 DEF ApplyRustComplement
  <2>2. Saving' = Saving \cup {e} BY <2>1, <1>2, ElementsWithOneMore DEF Saving
  <2>3. Len(pending_saves') = Len(pending_saves) + 1 /\ pending_saves' # <<>>
    BY <2>1, <1>2, WithOneMore
  <2> QED BY <1>1, <1>4, <2>1, <2>2, <2>3, Replacing
<1> QED BY <1>3, <1>4

LEMMA OneMoreSaved ==
  ASSUME TypeInv, NEW e \in Edit, ApplyRustComplement(e)
  PROVE  Len(pending_saves') <= Len(pending_saves) + 1
<1>1. Len(pending_saves) \in Nat BY DEF TypeInv, TypeOK
<1>2. pending_saves' = pending_saves \/ Len(pending_saves') = Len(pending_saves) + 1
  BY Complement
<1> QED BY <1>1, <1>2

LEMMA Applies ==
  ASSUME TypeInv, EditorApplies
  PROVE  LET e == Head(pending_saves)
         IN  /\ pending_saves # <<>> /\ e \in Edit /\ e \in Saving
             /\ Saving = Saving' \cup {e} /\ Len(pending_saves') = Len(pending_saves) - 1
             /\ UNCHANGED <<ts, asked, pluginVars, reports, child, injected_renames, upsets, given>>
             /\ Injected' = Injected
             /\ ~Current(e) => UNCHANGED <<rust, contract, dirty>>
             /\ Current(e) =>
                  /\ contract' = Fresh(rust') /\ dirty' = (dirty \cup Touched(e)) \ Saved(e)
                  /\ \A f \in Files :
                       /\ f \notin open \/ f \notin e.files => rust'[f] = rust[f]
                       /\ f \in open /\ f \in e.files =>
                            /\ rust'[f].names = [rust[f].names EXCEPT ![e.symbol] = e.new]
                            /\ rust'[f].version = rust[f].version + 1
                            /\ rust[f].version = e.of[f].version
                            /\ rust[f] = e.of[f] => rust'[f].garbled = rust[f].garbled
<1> DEFINE e == Head(pending_saves)
<1>1. pending_saves \in Seq(Edit) /\ pending_saves # <<>> /\ pending_saves' = Tail(pending_saves)
  BY DEF TypeInv, TypeOK, EditorApplies
<1>2. /\ e \in Edit /\ Saving = Saving' \cup {e} /\ e \in Saving
      /\ Len(pending_saves') = Len(pending_saves) - 1
  BY <1>1, WithoutHead, ElementsWithoutHead DEF Saving
<1>3. /\ UNCHANGED <<ts, asked, pluginVars, reports, child, injected_renames, upsets, given>>
      /\ Injected' = Injected
  BY DEF EditorApplies, Injected
<1>4. ~Current(e) => UNCHANGED <<rust, contract, dirty>> BY DEF EditorApplies
<1>5. Current(e) => /\ rust' = Replace(open, e) /\ contract' = Fresh(rust')
                    /\ dirty' = (dirty \cup Touched(e)) \ Saved(e)
  BY DEF EditorApplies
<1>6. Current(e) => \A f \in open \cap e.files : rust[f].version = e.of[f].version
  BY DEF Current, Touched
<1> HIDE DEF e
<1>7. Current(e) =>
        \A f \in Files :
          /\ f \notin open \/ f \notin e.files => rust'[f] = rust[f]
          /\ f \in open /\ f \in e.files =>
               /\ rust'[f].names = [rust[f].names EXCEPT ![e.symbol] = e.new]
               /\ rust'[f].version = rust[f].version + 1
               /\ rust[f].version = e.of[f].version
               /\ rust[f] = e.of[f] => rust'[f].garbled = rust[f].garbled
  BY <1>2, <1>5, <1>6, Replacing
<1> USE DEF e
<1> QED BY <1>1, <1>2, <1>3, <1>4, <1>5, <1>7

LEMMA UserEdits ==
  ASSUME TypeInv, NEW f \in Files, UserEditsRust(f)
  PROVE  /\ f \in open /\ Upset("rust edited", InFlight)
         /\ rust'[f].names = rust[f].names /\ rust'[f].version = rust[f].version + 1
         /\ rust'[f].garbled = rust[f].garbled
         /\ \A h \in Files \ {f} : rust'[h] = rust[h]
         /\ UNCHANGED <<ts, dirty, asked, contract, pluginVars, reports, proxyVars, given>>
         /\ Injected' = Injected /\ Saving' = Saving
<1> DEFINE after == [TypedAbove(rust[f]) EXCEPT !.version = @ + 1]
<1>1. rust \in [Files -> RustText] /\ Spaced(rust[f]) BY DEF TypeInv, TypeOK, TextsSpaced
<1>2. rust' = [rust EXCEPT ![f] = after] BY DEF UserEditsRust
<1>3. /\ after.names = rust[f].names /\ after.version = rust[f].version + 1
      /\ after.garbled = rust[f].garbled
  BY <1>1, TypedRust
<1> HIDE DEF after
<1>4. /\ f \in open /\ Upset("rust edited", InFlight)
      /\ UNCHANGED <<ts, dirty, asked, contract, pluginVars, reports, proxyVars, given>>
      /\ Injected' = Injected /\ Saving' = Saving
  BY DEF UserEditsRust, proxyVars, Injected, Saving
<1> QED BY <1>1, <1>2, <1>3, <1>4

-----------------------------------------------------------------------------
(* Versions only grow, and the same version is the same text.              *)
LEMMA VersionsGrow ==
  ASSUME TypeInv, [Next]_vars, NEW f \in Files
  PROVE  /\ rust[f].version \in Nat /\ rust'[f].version \in Nat
         /\ rust[f].version <= rust'[f].version
         /\ rust'[f].version = rust[f].version => rust'[f] = rust[f]
<1>1. rust \in [Files -> RustText] BY DEF TypeInv, TypeOK
<1>2. rust[f].version \in Nat BY <1>1 DEF RustText
<1>3. rust'[f] = rust[f] \/ rust'[f].version = rust[f].version + 1
  <2>1. CASE Aside BY <2>1, StandsAside
  <2>2. CASE OnRaExit BY <2>2 DEF OnRaExit, textVars
  <2>3. CASE OnPluginEvent
    <3> DEFINE r == Head(reports)
    <3>1. r \in Report /\ (rust' = rust \/ ApplyRustComplement(Fallback(r)))
      BY <2>3, PluginEvent
    <3>2. Fallback(r) \in Edit BY <3>1, AskedEdits
    <3> HIDE DEF r
    <3> QED BY <3>1, <3>2, Complement
  <2>4. CASE EditorApplies BY <2>4, Applies
  <2>5. ASSUME NEW k \in DOMAIN injected_renames, RenameResponse(k)
        PROVE  rust'[f] = rust[f] \/ rust'[f].version = rust[f].version + 1
    <3>1. rust' = rust \/ \E e \in Edit : ApplyRustComplement(e) BY <2>5, Response
    <3> QED BY <3>1, Complement
  <2>6. ASSUME NEW h \in Files, UserEditsRust(h)
        PROVE  rust'[f] = rust[f] \/ rust'[f].version = rust[f].version + 1
    BY <2>6, UserEdits
  <2> QED BY <2>1, <2>2, <2>3, <2>4, <2>5, <2>6, ByAction
<1> QED BY <1>2, <1>3

(* An edit is one that was there, perhaps computed anew, or has just been  *)
(* made; either is of the texts as they are.                               *)
LEMMA EditsStep ==
  ASSUME TypeInv, [Next]_vars, NEW e \in Edits'
  PROVE  e \in Edits \/ e.of = rust
<1>1. CASE Aside BY <1>1, StandsAside DEF Edits, Injected, Saving
<1>2. CASE OnRaExit
  <2>1. Injected' = {} /\ Saving' = Saving BY <1>2 DEF OnRaExit, Injected, Saving, ToSet
  <2> QED BY <2>1 DEF Edits
<1>3. CASE OnPluginEvent
  <2> DEFINE r == Head(reports)
  <2>1. r \in Report BY <1>3, PluginEvent
  <2>2. /\ Asked(r) \in Edit /\ Fallback(r) \in Edit
        /\ Asked(r).of = rust /\ Fallback(r).of = rust
    BY <2>1, AskedEdits
  <2>3. CASE UNCHANGED <<injected_renames, pending_saves>>
    BY <2>3 DEF Edits, Injected, Saving
  <2>4. CASE injected_renames' = Append(injected_renames, Asked(r)) /\ pending_saves' = pending_saves
    <3>1. injected_renames \in Seq(Edit) BY DEF TypeInv, TypeOK
    <3>2. Injected' = Injected \cup {Asked(r)}
      BY <2>2, <2>4, <3>1, ElementsWithOneMore DEF Injected
    <3>3. Saving' = Saving BY <2>4 DEF Saving
    <3> QED BY <3>2, <3>3, <2>2 DEF Edits
  <2>5. CASE ApplyRustComplement(Fallback(r)) /\ injected_renames' = injected_renames
    <3>1. Saving' \subseteq Saving \cup {Fallback(r)} BY <2>2, <2>5, Complement
    <3>2. Injected' = Injected BY <2>5 DEF Injected
    <3> QED BY <3>1, <3>2, <2>2 DEF Edits
  <2> QED BY <1>3, <2>3, <2>4, <2>5, PluginEvent
<1>4. CASE EditorApplies BY <1>4, Applies DEF Edits
<1>5. ASSUME NEW k \in DOMAIN injected_renames, RenameResponse(k)
      PROVE  e \in Edits \/ e.of = rust
  <2> DEFINE d == injected_renames[k]
             anew == [d EXCEPT !.of = rust]
  <2>1. d \in Injected /\ d \in Edit /\ anew \in Edit /\ Injected' \subseteq Injected
    BY <1>5, Response
  <2>2. anew.of = rust BY <1>5, Response
  <2>3. CASE pending_saves' = pending_saves BY <2>1, <2>3 DEF Edits, Saving
  <2>4. ASSUME NEW x \in {d, anew}, ApplyRustComplement(x) PROVE e \in Edits \/ e.of = rust
    <3>1. Saving' \subseteq Saving \cup {x} BY <2>1, <2>4, Complement
    <3> QED BY <3>1, <2>1, <2>2 DEF Edits
  <2> QED BY <1>5, <2>3, <2>4, Response
<1>6. ASSUME NEW f \in Files, UserEditsRust(f) PROVE e \in Edits \/ e.of = rust
  BY <1>6, UserEdits DEF Edits
<1> QED BY <1>1, <1>2, <1>3, <1>4, <1>5, <1>6, ByAction

LEMMA VersionedStep == TypeInv /\ Versioned /\ [Next]_vars => Versioned'
<1> SUFFICES ASSUME TypeInv, Versioned, [Next]_vars, NEW e \in Edits', NEW f \in Files
             PROVE  /\ e.of[f].version <= rust'[f].version
                    /\ e.of[f].version = rust'[f].version => e.of[f] = rust'[f]
  BY DEF Versioned
<1>1. TypeInv' BY NextTypes
<1>2. e \in Edit BY <1>1 DEF Edits, Injected, Saving, ToSet, TypeInv, TypeOK
<1>3. e.of[f].version \in Nat BY <1>2 DEF Edit, RustText
<1>4. /\ e.of[f].version <= rust[f].version
      /\ e.of[f].version = rust[f].version => e.of[f] = rust[f]
  <2>1. CASE e \in Edits BY <2>1 DEF Versioned
  <2>2. CASE e.of = rust BY <2>2, VersionsGrow
  <2> QED BY <2>1, <2>2, EditsStep
<1> QED BY <1>3, <1>4, VersionsGrow

(* Renames that do not overlap come one after the other.                   *)
LEMMA FittingStep == TypeInv /\ Fitting /\ [Next]_vars => Fitting'
<1> SUFFICES ASSUME TypeInv, Fitting, [Next]_vars, "overlapping" \notin upsets'
             PROVE  /\ Len(injected_renames') + Len(pending_saves') <= 1
                    /\ \A e \in Injected', f \in Files \ open' : e.of[f] = rust'[f]
  BY DEF Fitting
<1>1. open' = open BY OpenStays
<1>2. /\ Len(injected_renames) + Len(pending_saves) <= 1
      /\ \A e \in Injected, f \in Files \ open : e.of[f] = rust[f]
  BY UpsetsGrow DEF Fitting
<1>3. Len(injected_renames) \in Nat /\ Len(pending_saves) \in Nat BY DEF TypeInv, TypeOK
<1> DEFINE Goal == /\ Len(injected_renames') + Len(pending_saves') <= 1
                   /\ \A e \in Injected', f \in Files \ open : e.of[f] = rust'[f]
<1>4. CASE Aside BY <1>2, <1>4, StandsAside DEF Injected
<1>5. CASE OnRaExit
  <2>1. Injected' = {} /\ injected_renames' = <<>> /\ pending_saves' = pending_saves
    BY <1>5 DEF OnRaExit, Injected, ToSet
  <2> QED BY <2>1, <1>1, <1>2, <1>3
<1>6. CASE OnPluginEvent
  <2> DEFINE r == Head(reports)
  <2>1. r \in Report BY <1>6, PluginEvent
  <2>2. Asked(r) \in Edit /\ Fallback(r) \in Edit /\ Asked(r).of = rust
    BY <2>1, AskedEdits
  <2>3. ~InFlight => /\ injected_renames = <<>> /\ pending_saves = <<>> /\ Injected = {}
                     /\ Len(injected_renames) = 0 /\ Len(pending_saves) = 0
    BY DEF InFlight, Injected, ToSet
  <2>4. CASE UNCHANGED <<rust, injected_renames, pending_saves>>
    BY <1>1, <1>2, <2>4 DEF Injected
  <2>5. CASE /\ injected_renames' = Append(injected_renames, Asked(r))
             /\ Upset("overlapping", InFlight) /\ UNCHANGED <<rust, pending_saves>>
    <3>1. ~InFlight BY <2>5 DEF Upset
    <3>2. injected_renames \in Seq(Edit) BY DEF TypeInv, TypeOK
    <3>3. Injected' = Injected \cup {Asked(r)} /\ Len(injected_renames') = Len(injected_renames) + 1
      BY <2>2, <2>5, <3>2, ElementsWithOneMore, WithOneMore DEF Injected
    <3> HIDE DEF r
    <3> QED BY <3>1, <3>3, <2>2, <2>3, <2>5, <1>1
  <2>6. CASE /\ ApplyRustComplement(Fallback(r)) /\ injected_renames' = injected_renames
             /\ upsets' = upsets \cup (IF InFlight THEN {"overlapping"} ELSE {})
                                 \cup (IF r.symbol \in Endpoints THEN {} ELSE {"degraded"})
    <3>1. ~InFlight BY <2>6
    <3>2. Injected' = {} BY <3>1, <2>3, <2>6 DEF Injected
    <3>3. Len(pending_saves') <= 1 BY <3>1, <2>2, <2>3, <2>6, OneMoreSaved
    <3> QED BY <3>1, <3>2, <3>3, <2>3, <2>6
  <2> QED BY <1>6, <2>4, <2>5, <2>6, PluginEvent
<1>7. CASE EditorApplies
  <2> DEFINE d == Head(pending_saves)
  <2>1. /\ d \in Edit /\ Len(pending_saves') = Len(pending_saves) - 1
        /\ injected_renames' = injected_renames /\ Injected' = Injected
    BY <1>7, Applies
  <2>2. \A f \in Files \ open : rust'[f] = rust[f] BY <1>7, Applies
  <2> QED BY <2>1, <2>2, <1>1, <1>2, <1>3
<1>8. ASSUME NEW k \in DOMAIN injected_renames, RenameResponse(k)
      PROVE  Len(injected_renames') + Len(pending_saves') <= 1 /\ Injected' = {}
  <2> DEFINE d == injected_renames[k]
             anew == [d EXCEPT !.of = rust]
  <2>1. /\ d \in Edit /\ anew \in Edit /\ k \in 1..Len(injected_renames)
        /\ Len(injected_renames') = Len(injected_renames) - 1
        /\ \/ ApplyRustComplement(d)
           \/ ApplyRustComplement(anew)
           \/ pending_saves' = pending_saves
    BY <1>8, Response
  <2>2. Len(injected_renames) = 1 /\ Len(injected_renames') = 0 /\ Len(pending_saves) = 0
    BY <2>1, <1>2, <1>3
  <2>3. Injected' = {} BY <2>2 DEF Injected, ToSet
  <2>4. Len(pending_saves') <= 1
    <3>1. CASE pending_saves' = pending_saves BY <3>1, <2>2
    <3>2. ASSUME NEW x \in Edit, ApplyRustComplement(x) PROVE Len(pending_saves') <= 1
      BY <3>2, <2>2, OneMoreSaved
    <3> QED BY <3>1, <3>2, <2>1
  <2> QED BY <2>2, <2>3, <2>4, <1>3
<1>9. ASSUME NEW f \in Files, UserEditsRust(f)
      PROVE  Goal
  <2>1. /\ f \in open /\ \A h \in Files \ {f} : rust'[h] = rust[h]
        /\ injected_renames' = injected_renames /\ pending_saves' = pending_saves
        /\ Injected' = Injected
    BY <1>9, UserEdits DEF proxyVars
  <2> QED BY <2>1, <1>2
<1> QED BY <1>1, <1>4, <1>5, <1>6, <1>7, <1>8, <1>9, ByAction

LEMMA GarbledStep ==
  TypeInv /\ Versioned /\ Fitting /\ NeverGarbled /\ [Next]_vars => NeverGarbled'
<1> SUFFICES ASSUME TypeInv, Versioned, Fitting, NeverGarbled, [Next]_vars,
                    NEW f \in Files, rust'[f].garbled
             PROVE  f \notin open' /\ "overlapping" \in upsets'
  BY DEF NeverGarbled
<1>1. open' = open /\ upsets \subseteq upsets' BY OpenStays, UpsetsGrow
<1>2. rust[f].garbled => f \notin open' /\ "overlapping" \in upsets' BY <1>1 DEF NeverGarbled
<1>3. CASE Aside BY <1>2, <1>3, StandsAside
<1>4. CASE OnRaExit BY <1>2, <1>4 DEF OnRaExit, textVars
<1>5. CASE OnPluginEvent
  <2> DEFINE r == Head(reports)
  <2>1. r \in Report /\ (rust' = rust \/ ApplyRustComplement(Fallback(r))) BY <1>5, PluginEvent
  <2>2. Fallback(r) \in Edit /\ Fallback(r).of = rust BY <2>1, AskedEdits
  <2> HIDE DEF r
  <2> QED BY <1>2, <2>1, <2>2, Complement
<1>6. CASE EditorApplies
  <2> DEFINE d == Head(pending_saves)
  <2>1. d \in Edit /\ d \in Saving BY <1>6, Applies
  <2>2. \/ rust'[f] = rust[f]
        \/ /\ rust[f].version = d.of[f].version
           /\ rust[f] = d.of[f] => rust'[f].garbled = rust[f].garbled
    BY <1>6, Applies
  <2> HIDE DEF d
  <2>3. rust[f].version = d.of[f].version => rust[f] = d.of[f]
    BY <2>1 DEF Versioned, Edits
  <2> QED BY <1>2, <2>2, <2>3
<1>7. ASSUME NEW k \in DOMAIN injected_renames, RenameResponse(k)
      PROVE  f \notin open' /\ "overlapping" \in upsets'
  <2> DEFINE d == injected_renames[k]
             anew == [d EXCEPT !.of = rust]
  <2>1. d \in Injected /\ d \in Edit /\ anew \in Edit /\ anew.of = rust BY <1>7, Response
  <2>2. \/ rust' = rust
        \/ ApplyRustComplement(d)
        \/ ApplyRustComplement(anew)
    BY <1>7, Response
  <2> HIDE DEF d, anew
  <2>3. CASE rust' = rust BY <2>3, <1>2
  <2>4. CASE ApplyRustComplement(anew) BY <1>2, <2>1, <2>4, Complement
  <2>5. CASE ApplyRustComplement(d)
    <3>1. f \in open => rust'[f] = rust[f] BY <2>1, <2>5, Complement
    <3>2. f \notin open /\ "overlapping" \notin upsets => d.of[f] = rust[f]
      BY <2>1 DEF Fitting
    <3> QED BY <1>1, <1>2, <2>1, <2>5, <3>1, <3>2, Complement
  <2> QED BY <2>2, <2>3, <2>4, <2>5
<1>8. ASSUME NEW h \in Files, UserEditsRust(h)
      PROVE  f \notin open' /\ "overlapping" \in upsets'
  <2>1. rust'[f].garbled = rust[f].garbled BY <1>8, UserEdits
  <2> QED BY <1>2, <2>1
<1> QED BY <1>3, <1>4, <1>5, <1>6, <1>7, <1>8, ByAction

LEMMA InitEmpty ==
  ASSUME Init
  PROVE  Injected = {} /\ Saving = {} /\ Edits = {} /\ injected_renames = <<>> /\ pending_saves = <<>>
  BY DEF Init, Edits, Injected, Saving, ToSet

GarbleInv == TypeInv /\ Versioned /\ Fitting /\ NeverGarbled

LEMMA GarbleInductive == Spec => []GarbleInv
<1>1. Init => GarbleInv
  <2> SUFFICES ASSUME Init PROVE GarbleInv OBVIOUS
  <2>1. TypeInv BY InitTypes
  <2>2. Versioned /\ Fitting BY InitEmpty DEF Versioned, Fitting
  <2>3. NeverGarbled BY DEF Init, NeverGarbled
  <2> QED BY <2>1, <2>2, <2>3 DEF GarbleInv
<1>2. GarbleInv /\ [Next]_vars => GarbleInv'
  BY NextTypes, VersionedStep, FittingStep, GarbledStep DEF GarbleInv
<1> QED BY <1>1, <1>2, PTL DEF Spec

(* No part of a rename lands on a text it was not computed for: open files *)
(* are kept by their versions, closed ones by there being one rename at a  *)
(* time.                                                                   *)
THEOREM EditsFit == Spec => []NeverGarbled
<1>1. GarbleInv => NeverGarbled BY DEF GarbleInv
<1> QED BY <1>1, GarbleInductive, PTL

-----------------------------------------------------------------------------
(* Where the names in Rust come from: the edits in flight, and the report  *)
(* that is handled.                                                        *)
Incoming(s, name) ==
  \/ \E e \in Edits : e.symbol = s /\ e.new = name
  \/ reports # <<>> /\ Head(reports).symbol = s /\ Head(reports).newName = name

LEMMA EditsIncoming ==
  ASSUME TypeInv, [Next]_vars
  PROVE  \A e \in Edits' : Incoming(e.symbol, e.new)
<1>1. \A e \in Edits : Incoming(e.symbol, e.new) BY DEF Incoming
<1>2. CASE Aside BY <1>1, <1>2, StandsAside DEF Edits, Injected, Saving
<1>3. CASE OnRaExit
  <2>1. Injected' = {} /\ Saving' = Saving BY <1>3 DEF OnRaExit, Injected, Saving, ToSet
  <2> QED BY <1>1, <2>1 DEF Edits
<1>4. CASE OnPluginEvent
  <2> DEFINE r == Head(reports)
  <2>1. r \in Report /\ reports # <<>> BY <1>4, PluginEvent
  <2>2. /\ Asked(r) \in Edit /\ Fallback(r) \in Edit
        /\ Incoming(Asked(r).symbol, Asked(r).new) /\ Incoming(Fallback(r).symbol, Fallback(r).new)
    BY <2>1, AskedEdits DEF Incoming
  <2>3. CASE UNCHANGED <<injected_renames, pending_saves>>
    BY <1>1, <2>3 DEF Edits, Injected, Saving
  <2>4. CASE injected_renames' = Append(injected_renames, Asked(r)) /\ pending_saves' = pending_saves
    <3>1. injected_renames \in Seq(Edit) BY DEF TypeInv, TypeOK
    <3>2. Injected' = Injected \cup {Asked(r)}
      BY <2>2, <2>4, <3>1, ElementsWithOneMore DEF Injected
    <3>3. Saving' = Saving BY <2>4 DEF Saving
    <3> QED BY <1>1, <3>2, <3>3, <2>2 DEF Edits
  <2>5. CASE ApplyRustComplement(Fallback(r)) /\ injected_renames' = injected_renames
    <3>1. Saving' \subseteq Saving \cup {Fallback(r)} BY <2>2, <2>5, Complement
    <3>2. Injected' = Injected BY <2>5 DEF Injected
    <3> QED BY <1>1, <3>1, <3>2, <2>2 DEF Edits
  <2> QED BY <1>4, <2>3, <2>4, <2>5, PluginEvent
<1>5. CASE EditorApplies BY <1>1, <1>5, Applies DEF Edits
<1>6. ASSUME NEW k \in DOMAIN injected_renames, RenameResponse(k)
      PROVE  \A e \in Edits' : Incoming(e.symbol, e.new)
  <2> DEFINE d == injected_renames[k]
             anew == [d EXCEPT !.of = rust]
  <2>1. /\ d \in Injected /\ d \in Edit /\ anew \in Edit /\ Injected' \subseteq Injected
        /\ anew.symbol = d.symbol /\ anew.new = d.new
    BY <1>6, Response
  <2>2. CASE pending_saves' = pending_saves BY <1>1, <2>1, <2>2 DEF Edits, Saving
  <2>3. ASSUME NEW x \in {d, anew}, ApplyRustComplement(x)
        PROVE  \A e \in Edits' : Incoming(e.symbol, e.new)
    <3>1. Saving' \subseteq Saving \cup {x} BY <2>1, <2>3, Complement
    <3>2. Incoming(x.symbol, x.new) BY <1>1, <2>1 DEF Edits
    <3> QED BY <3>1, <3>2, <1>1, <2>1 DEF Edits
  <2> QED BY <1>6, <2>2, <2>3, Response
<1>7. ASSUME NEW f \in Files, UserEditsRust(f)
      PROVE  \A e \in Edits' : Incoming(e.symbol, e.new)
  BY <1>1, <1>7, UserEdits DEF Edits
<1> QED BY <1>2, <1>3, <1>4, <1>5, <1>6, <1>7, ByAction

LEMMA NamesIncoming ==
  ASSUME TypeInv, [Next]_vars, NEW f \in Files, NEW s \in Symbols
  PROVE  rust'[f].names[s] = rust[f].names[s] \/ Incoming(s, rust'[f].names[s])
<1> DEFINE Goal == rust'[f].names[s] = rust[f].names[s] \/ Incoming(s, rust'[f].names[s])
<1>1. rust[f].names \in [Symbols -> Spellings] BY DEF TypeInv, TypeOK, RustText
<1>2. ASSUME NEW e \in Edit, Incoming(e.symbol, e.new),
             rust'[f].names = [rust[f].names EXCEPT ![e.symbol] = e.new]
      PROVE  Goal
  <2>1. CASE s = e.symbol BY <2>1, <1>1, <1>2
  <2>2. CASE s # e.symbol BY <2>2, <1>1, <1>2
  <2> QED BY <2>1, <2>2
<1>3. CASE rust' = rust BY <1>3
<1>4. CASE OnPluginEvent
  <2> DEFINE r == Head(reports)
  <2>1. /\ r \in Report /\ reports # <<>>
        /\ rust' = rust \/ ApplyRustComplement(Fallback(r))
    BY <1>4, PluginEvent
  <2>2. Fallback(r) \in Edit /\ Incoming(Fallback(r).symbol, Fallback(r).new)
    BY <2>1, AskedEdits DEF Incoming
  <2> HIDE DEF r, Goal
  <2>3. CASE ApplyRustComplement(Fallback(r))
    <3>1. \/ rust'[f] = rust[f]
          \/ rust'[f].names = [rust[f].names EXCEPT ![Fallback(r).symbol] = Fallback(r).new]
      BY <2>2, <2>3, Complement
    <3> QED BY <3>1, <2>2, <1>2 DEF Goal
  <2> QED BY <2>1, <2>3, <1>3
<1>5. CASE EditorApplies
  <2> DEFINE d == Head(pending_saves)
  <2>1. d \in Edit /\ d \in Saving BY <1>5, Applies
  <2>2. \/ rust'[f] = rust[f]
        \/ rust'[f].names = [rust[f].names EXCEPT ![d.symbol] = d.new]
    BY <1>5, Applies
  <2> HIDE DEF d
  <2>3. Incoming(d.symbol, d.new) BY <2>1 DEF Incoming, Edits
  <2> QED BY <1>2, <2>1, <2>2, <2>3
<1>6. ASSUME NEW k \in DOMAIN injected_renames, RenameResponse(k) PROVE Goal
  <2> DEFINE d == injected_renames[k]
             anew == [d EXCEPT !.of = rust]
  <2>1. /\ d \in Injected /\ d \in Edit /\ anew \in Edit
        /\ anew.symbol = d.symbol /\ anew.new = d.new
        /\ rust' = rust \/ ApplyRustComplement(d) \/ ApplyRustComplement(anew)
    BY <1>6, Response
  <2> HIDE DEF d, anew, Goal
  <2>2. ASSUME NEW x \in {d, anew}, ApplyRustComplement(x) PROVE Goal
    <3>1. x \in Edit /\ Incoming(x.symbol, x.new) BY <2>1 DEF Incoming, Edits
    <3>2. \/ rust'[f] = rust[f]
          \/ rust'[f].names = [rust[f].names EXCEPT ![x.symbol] = x.new]
      BY <2>2, <3>1, Complement
    <3> QED BY <3>1, <3>2, <1>2 DEF Goal
  <2> QED BY <2>1, <2>2, <1>3 DEF Goal
<1>7. ASSUME NEW h \in Files, UserEditsRust(h) PROVE Goal
  BY <1>7, UserEdits
<1>8. CASE Aside BY <1>8, <1>3, StandsAside
<1>9. CASE OnRaExit BY <1>9, <1>3 DEF OnRaExit, textVars
<1> QED BY <1>4, <1>5, <1>6, <1>7, <1>8, <1>9, ByAction

(* The user gives names and takes none back.                               *)
LEMMA GivenGrows ==
  ASSUME TypeInv, [Next]_vars, NEW s \in Symbols
  PROVE  given[s] \subseteq given'[s]
<1>1. given' = given \/ \E new \in Names : EditorRenames(new)
  BY DEF Next, Handled, OnPluginEvent, EditorApplies, ReadsGenerated, RenameResponse, OnMessage,
         CheckPendingRename, OnRaExit, UserTypes, Connect, Disconnect, WatchExpires, AskRename,
         UserEditsRust, vars
<1>2. given \in [Symbols -> SUBSET Names] BY DEF TypeInv, TypeOK
<1>3. (\E new \in Names : EditorRenames(new)) =>
        \E new \in Names : given' = [given EXCEPT ![asked] = @ \cup {new}]
  BY DEF EditorRenames
<1> QED BY <1>1, <1>2, <1>3

(* Symbols stand at different places.                                      *)
LEMMA Apart ==
  ASSUME TypeInv, NEW s \in Symbols, NEW t \in Symbols, ts.starts[s] = ts.starts[t]
  PROVE  s = t
<1>1. s \in Nat /\ t \in Nat BY DEF Symbols
<1>2. /\ ts.starts[s] \in Nat /\ ts.starts[t] \in Nat
      /\ ts.names[s] \in Nat \ {0} /\ ts.names[t] \in Nat \ {0}
  BY DEF TypeInv, TypeOK, Text, Spellings
<1>3. \A x, y \in Symbols : x < y => ts.starts[x] + ts.names[x] <= ts.starts[y]
  BY DEF TypeInv, TextsSpaced, Spaced
<1>4. ~(s < t) BY <1>2, <1>3
<1>5. ~(t < s) BY <1>2, <1>3
<1> QED BY <1>1, <1>4, <1>5

LEMMA FoundWhereWatched ==
  ASSUME TypeInv, NEW w \in Watch, ts.starts[w.symbol] = w.start, ~CutAt(w.start)
  PROVE  Found(w) = {ts.names[w.symbol]}
<1>1. w.symbol \in Symbols BY DEF Watch
<1>2. \A t \in Symbols : ts.starts[t] = w.start => t = w.symbol BY <1>1, Apart
<1>3. SpeltAt(w.start) = {ts.names[w.symbol]} BY <1>1, <1>2 DEF SpeltAt
<1> QED BY <1>3 DEF Found

LEMMA WatchesPlacedStep ==
  ASSUME TypeInv, [Next]_vars, WatchesPlaced, "moved" \notin upsets'
  PROVE  WatchesPlaced'
<1> SUFFICES ASSUME NEW i \in Instances, pending'[i] # None
             PROVE  ts'.starts[pending'[i].symbol] = pending'[i].start
  BY DEF WatchesPlaced, Watching
<1>1. pending[i] # None => ts.starts[pending[i].symbol] = pending[i].start
  BY DEF WatchesPlaced, Watching
<1>2. pending \in [Instances -> Watch \cup {None}] BY DEF TypeInv, TypeOK
<1>3. CASE ts' = ts /\ (pending' = pending \/ \E h \in Instances : pending' = [pending EXCEPT ![h] = None])
  BY <1>1, <1>2, <1>3
<1>4. ASSUME NEW s \in Symbols, AskRename(s)
      PROVE  ts'.starts[pending'[i].symbol] = pending'[i].start
  <2>1. ts' = ts /\ (pending'[i] = pending[i] \/ pending'[i] = WatchRename(i, s))
    BY <1>4 DEF AskRename
  <2>2. WatchRename(i, s).symbol = s /\ WatchRename(i, s).start = ts.starts[s]
    BY DEF WatchRename
  <2> QED BY <1>1, <2>1, <2>2
<1>5. ASSUME NEW new \in Names, EditorRenames(new)
      PROVE  ts'.starts[pending'[i].symbol] = pending'[i].start
  <2>1. /\ pending' = pending /\ ts' = Respelt(ts, asked, new)
        /\ ~\E h \in Watching : pending[h].symbol > asked
    BY <1>5 DEF EditorRenames, pluginVars
  <2>2. /\ ts \in Text /\ Spaced(ts) /\ asked \in Symbols /\ new \in Spellings
    BY <1>5 DEF TypeInv, TypeOK, TextsSpaced, EditorRenames, Spellings
  <2>3. pending[i] \in Watch /\ pending[i].symbol \in Symbols /\ ~(pending[i].symbol > asked)
    BY <1>2, <2>1 DEF Watching, Watch
  <2>a. \A t \in Symbols : ~(t > asked) => Respelt(ts, asked, new).starts[t] = ts.starts[t]
    BY <2>2, RespeltText
  <2>4. ts'.starts[pending[i].symbol] = ts.starts[pending[i].symbol] BY <2>1, <2>3, <2>a
  <2> QED BY <1>1, <2>1, <2>4
<1>6. CASE UserTypes
  <2>1. Watching = {} /\ pending' = pending BY <1>6 DEF UserTypes, Upset, pluginVars
  <2> QED BY <2>1 DEF Watching
<1>7. \/ ts' = ts /\ (pending' = pending \/ \E h \in Instances : pending' = [pending EXCEPT ![h] = None])
      \/ UserTypes \/ (\E s \in Symbols : AskRename(s)) \/ (\E new \in Names : EditorRenames(new))
  BY DEF Next, Handled, OnPluginEvent, EditorApplies, ReadsGenerated, RenameResponse, OnMessage,
         CheckPendingRename, OnRaExit, Connect, Disconnect, WatchExpires, UserEditsRust, vars,
         textVars, pluginVars
<1> QED BY <1>3, <1>4, <1>5, <1>6, <1>7

LEMMA TextGivenStep ==
  ASSUME TypeInv, [Next]_vars, TextGiven
  PROVE  TextGiven'
<1> SUFFICES ASSUME NEW s \in Symbols PROVE ts'.names[s] \in given'[s] BY DEF TextGiven
<1>1. ts.names[s] \in given'[s] BY GivenGrows DEF TextGiven
<1>2. ts \in Text /\ Spaced(ts) BY DEF TypeInv, TypeOK, TextsSpaced
<1>3. ASSUME NEW new \in Names, EditorRenames(new) PROVE ts'.names[s] \in given'[s]
  <2>1. /\ asked \in Symbols /\ new \in Spellings /\ given \in [Symbols -> SUBSET Names]
        /\ ts.names \in [Symbols -> Spellings]
    BY <1>2, <1>3 DEF TypeInv, TypeOK, EditorRenames, Spellings, Text
  <2>a. Respelt(ts, asked, new).names = [ts.names EXCEPT ![asked] = new]
    BY <1>2, <2>1, RespeltText
  <2>2. ts'.names = [ts.names EXCEPT ![asked] = new] BY <1>3, <2>a DEF EditorRenames
  <2>3. given' = [given EXCEPT ![asked] = @ \cup {new}] BY <1>3 DEF EditorRenames
  <2>4. CASE s = asked BY <2>1, <2>2, <2>3, <2>4
  <2>5. CASE s # asked BY <1>1, <2>1, <2>2, <2>5
  <2> QED BY <2>4, <2>5
<1>4. CASE UserTypes BY <1>1, <1>2, <1>4, TypedText DEF UserTypes
<1>5. ts' = ts \/ UserTypes \/ \E new \in Names : EditorRenames(new)
  BY DEF Next, Handled, OnPluginEvent, EditorApplies, ReadsGenerated, RenameResponse, OnMessage,
         CheckPendingRename, OnRaExit, Connect, Disconnect, WatchExpires, AskRename,
         UserEditsRust, vars, textVars
<1> QED BY <1>1, <1>3, <1>4, <1>5

LEMMA ReportsGivenStep ==
  ASSUME TypeInv, [Next]_vars, WatchesPlaced, TextGiven, ReportsGiven, "cut" \notin upsets'
  PROVE  ReportsGiven'
<1> SUFFICES ASSUME NEW k \in 1..Len(reports')
             PROVE  reports'[k].newName \in given'[reports'[k].symbol]
  BY DEF ReportsGiven
<1>1. reports \in Seq(Report) BY DEF TypeInv, TypeOK
<1>2. \A j \in 1..Len(reports) :
        reports[j] \in Report /\ reports[j].symbol \in Symbols
        /\ reports[j].newName \in given'[reports[j].symbol]
  <2> TAKE j \in 1..Len(reports)
  <2>1. reports[j] \in Report BY <1>1
  <2>2. reports[j].symbol \in Symbols BY <2>1 DEF Report
  <2> QED BY <2>1, <2>2, GivenGrows DEF ReportsGiven
<1>3. CASE reports' = reports BY <1>2, <1>3
<1>4. ASSUME NEW i \in Instances, CheckPendingRename(i)
      PROVE  reports'[k].newName \in given'[reports'[k].symbol]
  <2> DEFINE w == pending[i]
  <2>1. w \in Watch /\ ts.starts[w.symbol] = w.start
    BY <1>4 DEF CheckPendingRename, TypeInv, TypeOK, WatchesPlaced, Watching
  <2>2. w.symbol \in Symbols /\ w.id \in Spellings BY <2>1 DEF Watch
  <2>3. PICK name \in Found(w) :
          reports' = IF i \in connected
                     THEN Append(reports, [symbol |-> w.symbol, id |-> w.id, newName |-> name])
                     ELSE reports
    BY <1>4 DEF CheckPendingRename
  <2> HIDE DEF w
  <2>a. ~CutAt(w.start) BY <1>4 DEF CheckPendingRename, w
  <2>4. name = ts.names[w.symbol] BY <2>1, <2>3, <2>a, FoundWhereWatched
  <2>5. name \in given'[w.symbol] BY <2>2, <2>4, GivenGrows DEF TextGiven
  <2>6. name \in Spellings BY <2>2, <2>4 DEF TypeInv, TypeOK, Text
  <2> DEFINE r == [symbol |-> w.symbol, id |-> w.id, newName |-> name]
  <2>7. r \in Report /\ r.symbol = w.symbol /\ r.newName = name BY <2>2, <2>6 DEF Report
  <2> HIDE DEF r
  <2>8. reports' = reports \/ reports' = Append(reports, r) BY <2>3 DEF r
  <2>9. CASE reports' = Append(reports, r)
    <3>1. /\ Len(reports') = Len(reports) + 1 /\ \A j \in 1..Len(reports) : reports'[j] = reports[j]
          /\ reports'[Len(reports) + 1] = r
      BY <2>9, <1>1, <2>7, WithOneMore
    <3>2. CASE k = Len(reports) + 1 BY <3>1, <3>2, <2>5, <2>7
    <3>3. CASE k \in 1..Len(reports) BY <3>1, <3>3, <1>2
    <3>4. Len(reports) \in Nat BY <1>1
    <3> QED BY <3>1, <3>2, <3>3, <3>4
  <2> QED BY <2>8, <2>9, <1>3
<1>5. CASE OnPluginEvent
  <2>1. reports # <<>> /\ reports' = Tail(reports) BY <1>5 DEF OnPluginEvent
  <2>2. Len(reports') = Len(reports) - 1 /\ \A j \in 1..(Len(reports) - 1) : reports'[j] = reports[j + 1]
    BY <1>1, <2>1, WithoutHead
  <2>3. k + 1 \in 1..Len(reports) /\ reports'[k] = reports[k + 1] BY <2>2, <1>1
  <2> QED BY <1>2, <2>3
<1>6. reports' = reports \/ OnPluginEvent \/ \E i \in Instances : CheckPendingRename(i)
  BY DEF Next, Handled, EditorApplies, ReadsGenerated, RenameResponse, OnMessage, UserTypes,
         OnRaExit, Connect, Disconnect, WatchExpires, AskRename, EditorRenames,
         UserEditsRust, vars
<1> QED BY <1>3, <1>4, <1>5, <1>6

LEMMA IncomingGiven ==
  ASSUME TypeInv, [Next]_vars, ReportsGiven, EditsGiven,
         NEW s \in Symbols, NEW name, Incoming(s, name)
  PROVE  name \in given'[s]
<1>1. reports # <<>> => Len(reports) > 0 /\ Head(reports) = reports[1]
  BY WithoutHead DEF TypeInv, TypeOK
<1>2. reports # <<>> => 1 \in 1..Len(reports) BY <1>1 DEF TypeInv, TypeOK
<1>3. name \in given[s] BY <1>1, <1>2 DEF Incoming, ReportsGiven, EditsGiven
<1> QED BY <1>3, GivenGrows

LEMMA GivenStep == TypeInv /\ Given /\ [Next]_vars => Given'
<1> SUFFICES ASSUME TypeInv, Given, [Next]_vars, "moved" \notin upsets', "cut" \notin upsets'
             PROVE  (WatchesPlaced /\ TextGiven /\ ReportsGiven /\ EditsGiven /\ OnlyGiven)'
  BY DEF Given, Misread
<1>1. WatchesPlaced /\ TextGiven /\ ReportsGiven /\ EditsGiven /\ OnlyGiven
  BY UpsetsGrow DEF Given, Misread
<1>2. WatchesPlaced' BY <1>1, WatchesPlacedStep
<1>3. TextGiven' BY <1>1, TextGivenStep
<1>4. ReportsGiven' BY <1>1, ReportsGivenStep
<1>5. EditsGiven'
  <2> SUFFICES ASSUME NEW e \in Edits' PROVE e.new \in given'[e.symbol] BY DEF EditsGiven
  <2>1. e \in Edit
    BY NextTypes DEF Edits, Injected, Saving, ToSet, TypeInv, TypeOK
  <2>2. e.symbol \in Symbols BY <2>1, EditFields
  <2> QED BY <1>1, <2>2, EditsIncoming, IncomingGiven
<1>6. OnlyGiven'
  <2> SUFFICES ASSUME NEW f \in Files, NEW s \in Symbols
               PROVE  rust'[f].names[s] \in given'[s]
    BY DEF OnlyGiven
  <2>1. rust[f].names[s] \in given'[s] BY <1>1, GivenGrows DEF OnlyGiven
  <2> QED BY <1>1, <2>1, NamesIncoming, IncomingGiven
<1> QED BY <1>2, <1>3, <1>4, <1>5, <1>6

LEMMA GivenInductive == Spec => [](TypeInv /\ Given)
<1>1. Init => Given
  <2> SUFFICES ASSUME Init PROVE Given OBVIOUS
  <2> PICK name \in Names \ Clumsy :
        LET names == [s \in Symbols |-> name]
            starts == [s \in Symbols |-> (s - 1) * name]
        IN  /\ contract = names /\ ts = [starts |-> starts, names |-> names]
            /\ rust = [f \in Files |-> [starts |-> starts, names |-> names,
                                        version |-> 0, garbled |-> FALSE]]
            /\ given = [s \in Symbols |-> {name}]
    BY DEF Init
  <2>1. Edits = {} BY InitEmpty
  <2>2. WatchesPlaced BY DEF Init, WatchesPlaced, Watching
  <2>3. ReportsGiven BY DEF Init, ReportsGiven
  <2>4. TextGiven BY DEF TextGiven
  <2>5. OnlyGiven BY DEF OnlyGiven
  <2> QED BY <2>1, <2>2, <2>3, <2>4, <2>5 DEF Given, EditsGiven
<1> QED BY <1>1, InitTypes, NextTypes, GivenStep, PTL DEF Spec

(* A Rust symbol only ever gets a name the user gave it, as long as the    *)
(* text under a watch does not move and no name that is not all ASCII is   *)
(* read where one is watched: checkPendingRename.                          *)
THEOREM NamesAreGiven == Spec => []OnlyGivenUnlessMisread
<1>1. Given => OnlyGivenUnlessMisread BY DEF Given, OnlyGivenUnlessMisread
<1> QED BY <1>1, GivenInductive, PTL

-----------------------------------------------------------------------------
(* The Rust half is in all of its files or in none.                        *)
LEMMA StaysWhole == [Next]_vars /\ ~Divided' => ~Divided
  BY UpsetsGrow DEF Divided

(* The edit is applied to the closed files and sent to the editor, if it   *)
(* has any of them open.                                                   *)
LEMMA WholeComplement ==
  ASSUME TypeInv, NEW e \in Edit, ApplyRustComplement(e), e.files = Files,
         \A f \in Files : e.of[f] = rust[f], Alike(rust), open' = open,
         pending_saves = <<>>, Injected' = {}
  PROVE  (OfAllFiles /\ OpenAsFound /\ ClosedHaveIt /\ (pending_saves = <<>> => Alike(rust)))'
<1>1. Saving = {} BY DEF Saving, ToSet
<1>2. \A f \in Files :
        /\ f \in open => rust'[f] = rust[f]
        /\ f \notin open => rust'[f].names = [rust[f].names EXCEPT ![e.symbol] = e.new]
  BY Complement
<1>3. CASE Touched(e) = {}
  <2>a. Saving' = Saving BY <1>3, Complement
  <2>1. Edits' = {} /\ Saving' = {} BY <1>1, <2>a DEF Edits
  <2>2. open \cap Files = {} BY <1>3 DEF Touched
  <2>b. \A f \in Files : /\ rust[f].names = rust[Decl].names
                         /\ rust'[f].names = [rust[f].names EXCEPT ![e.symbol] = e.new]
    BY <1>2, <2>2 DEF Alike
  <2>c. \A f \in Files : rust'[f].names = [rust[Decl].names EXCEPT ![e.symbol] = e.new]
    <3> TAKE f \in Files
    <3>1. /\ rust[f].names = rust[Decl].names
          /\ rust'[f].names = [rust[f].names EXCEPT ![e.symbol] = e.new]
      BY <2>b
    <3> QED BY <3>1
  <2>3. Alike(rust') BY <2>c, FilesAssumption DEF Alike
  <2> QED BY <2>1, <2>3 DEF OfAllFiles, OpenAsFound, ClosedHaveIt, Alike
<1>4. CASE Touched(e) # {}
  <2>1. Saving' = {e} /\ Edits' = {e} /\ pending_saves' # <<>>
    BY <1>1, <1>4, Complement DEF Edits
  <2>2. Alike(e.of) BY FilesAssumption DEF Alike
  <2>3. OfAllFiles' BY <2>1, <2>2 DEF OfAllFiles
  <2>4. open \subseteq Files BY DEF TypeInv, TypeOK
  <2>5. OpenAsFound' BY <1>2, <2>1, <2>4 DEF OpenAsFound
  <2>6. ClosedHaveIt' BY <1>2, <2>1 DEF ClosedHaveIt
  <2> QED BY <2>1, <2>3, <2>5, <2>6
<1> QED BY <1>3, <1>4

LEMMA Alone ==
  ASSUME TypeInv, Fitting, ~Divided
  PROVE  /\ injected_renames # <<>> =>
              Len(injected_renames) = 1 /\ pending_saves = <<>> /\ Saving = {}
         /\ pending_saves # <<>> =>
              Len(pending_saves) = 1 /\ injected_renames = <<>> /\ Injected = {}
         /\ \A e \in Injected, f \in Files \ open : e.of[f] = rust[f]
<1>1. /\ Len(injected_renames) + Len(pending_saves) <= 1
      /\ \A e \in Injected, f \in Files \ open : e.of[f] = rust[f]
  BY DEF Fitting, Divided
<1>2. injected_renames \in Seq(Edit) /\ pending_saves \in Seq(Edit) BY DEF TypeInv, TypeOK
<1>3. injected_renames # <<>> => Len(injected_renames) > 0 BY <1>2, WithoutHead
<1>4. pending_saves # <<>> => Len(pending_saves) > 0 BY <1>2, WithoutHead
<1>s. Len(injected_renames) + Len(pending_saves) <= 1 BY <1>1
<1>n. Len(injected_renames) \in Nat /\ Len(pending_saves) \in Nat BY <1>2
<1> DEFINE l == Len(injected_renames)
           m == Len(pending_saves)
<1>a. l \in Nat /\ m \in Nat /\ l + m <= 1 BY <1>s, <1>n
<1> HIDE DEF l, m
<1>b. l > 0 => l = 1 /\ ~(m > 0) BY <1>a
<1>c. m > 0 => m = 1 /\ ~(l > 0) BY <1>a
<1>5. injected_renames # <<>> => Len(injected_renames) = 1 /\ pending_saves = <<>>
  BY <1>b, <1>3, <1>4, Zenon DEF l, m
<1>6. pending_saves # <<>> => Len(pending_saves) = 1 /\ injected_renames = <<>>
  BY <1>c, <1>3, <1>4, Zenon DEF l, m
<1>7. /\ injected_renames = <<>> => Injected = {}
      /\ pending_saves = <<>> => Saving = {}
  BY DEF Injected, Saving, ToSet
<1> QED BY <1>1, <1>5, <1>6, <1>7

LEMMA WholeStep == TypeInv /\ Fitting /\ Whole /\ [Next]_vars => Whole'
<1> DEFINE Goal == /\ OfAllFiles /\ OpenAsFound /\ ClosedHaveIt
                   /\ pending_saves = <<>> => Alike(rust)
<1> SUFFICES ASSUME TypeInv, Fitting, Whole, [Next]_vars, ~Divided' PROVE Goal'
  BY DEF Whole
<1>1. ~Divided /\ OfAllFiles /\ OpenAsFound /\ ClosedHaveIt /\ (pending_saves = <<>> => Alike(rust))
  BY StaysWhole DEF Whole
<1>2. open' = open BY OpenStays
<1>3. ~InFlight => /\ injected_renames = <<>> /\ pending_saves = <<>>
                   /\ Injected = {} /\ Saving = {} /\ Edits = {}
  BY DEF InFlight, Injected, Saving, Edits, ToSet
<1>4. ASSUME Saving' = Saving, Injected' \subseteq Injected, rust' = rust,
             pending_saves' = pending_saves
      PROVE  Goal'
  <2>1. Edits' \subseteq Edits BY <1>4 DEF Edits
  <2> QED BY <1>1, <1>2, <1>4, <2>1 DEF OfAllFiles, OpenAsFound, ClosedHaveIt, Alike
<1>5. CASE Aside BY <1>4, <1>5, StandsAside DEF Injected, Saving
<1>6. CASE OnRaExit
  <2>1. Injected' = {} /\ Saving' = Saving /\ rust' = rust /\ pending_saves' = pending_saves
    BY <1>6 DEF OnRaExit, Injected, Saving, ToSet, textVars
  <2> QED BY <1>4, <2>1
<1>7. CASE OnPluginEvent
  <2> DEFINE r == Head(reports)
  <2>1. r \in Report BY <1>7, PluginEvent
  <2>2. /\ Asked(r) \in Edit /\ Asked(r).of = rust /\ Asked(r).files = Files
        /\ Fallback(r) \in Edit /\ Fallback(r).of = rust
        /\ r.symbol \in Endpoints => Fallback(r).files = Files
    BY <2>1, AskedEdits
  <2>3. CASE UNCHANGED <<rust, injected_renames, pending_saves>>
    BY <1>4, <2>3 DEF Injected, Saving
  <2>4. CASE /\ injected_renames' = Append(injected_renames, Asked(r))
             /\ Upset("overlapping", InFlight) /\ UNCHANGED <<rust, pending_saves>>
    <3>1. ~InFlight BY <2>4 DEF Upset, Divided
    <3>2. injected_renames \in Seq(Edit) BY DEF TypeInv, TypeOK
    <3>3. Injected' = Injected \cup {Asked(r)}
      BY <2>2, <2>4, <3>2, ElementsWithOneMore DEF Injected
    <3>4. Saving' = {} /\ Edits' = {Asked(r)} BY <1>3, <2>4, <3>1, <3>3 DEF Edits, Saving
    <3>5. Alike(rust) BY <1>1, <1>3, <3>1
    <3> QED BY <1>2, <2>2, <2>4, <3>4, <3>5 DEF OfAllFiles, OpenAsFound, ClosedHaveIt, Alike
  <2>5. CASE /\ ApplyRustComplement(Fallback(r)) /\ injected_renames' = injected_renames
             /\ upsets' = upsets \cup (IF InFlight THEN {"overlapping"} ELSE {})
                                 \cup (IF r.symbol \in Endpoints THEN {} ELSE {"degraded"})
    <3>1. ~InFlight /\ r.symbol \in Endpoints BY <2>5 DEF Divided
    <3>2. Injected' = {} BY <1>3, <2>5, <3>1 DEF Injected
    <3> HIDE DEF r
    <3>3. \A f \in Files : Fallback(r).of[f] = rust[f] BY <2>2
    <3> QED BY <1>1, <1>2, <1>3, <2>2, <2>5, <3>1, <3>2, <3>3, WholeComplement
  <2> QED BY <1>7, <2>3, <2>4, <2>5, PluginEvent
<1>8. CASE EditorApplies
  <2> DEFINE e == Head(pending_saves)
  <2>1. /\ pending_saves # <<>> /\ e \in Edit /\ e \in Saving
        /\ Len(pending_saves') = Len(pending_saves) - 1 /\ Injected' = Injected
    BY <1>8, Applies
  <2>2. Len(pending_saves) = 1 /\ Injected = {} BY <1>1, <2>1, Alone
  <2>3. Saving' = {} /\ Edits' = {} BY <2>1, <2>2 DEF Edits, Saving, ToSet
  <2>4. Touched(e) \subseteq open BY DEF Touched
  <2>5. Current(e) /\ e \in Edits BY <1>1, <2>1, <2>4 DEF Current, OpenAsFound, Edits
  <2>6. \A f \in Files :
          /\ f \notin open \/ f \notin e.files => rust'[f] = rust[f]
          /\ f \in open /\ f \in e.files =>
               rust'[f].names = [rust[f].names EXCEPT ![e.symbol] = e.new]
    BY <1>8, <2>5, Applies
  <2> HIDE DEF e
  <2>7. e.files = Files /\ Alike(e.of) BY <1>1, <2>5 DEF OfAllFiles
  <2>8. \A f \in Files : rust'[f].names = [e.of[f].names EXCEPT ![e.symbol] = e.new]
    <3> TAKE f \in Files
    <3>1. CASE f \in open BY <1>1, <2>5, <2>6, <2>7, <3>1 DEF OpenAsFound
    <3>2. CASE f \notin open BY <1>1, <2>1, <2>6, <3>2 DEF ClosedHaveIt
    <3> QED BY <3>1, <3>2
  <2>9. Alike(rust') BY <2>7, <2>8, FilesAssumption DEF Alike
  <2> QED BY <2>3, <2>9 DEF OfAllFiles, OpenAsFound, ClosedHaveIt, Alike
<1>9. ASSUME NEW k \in DOMAIN injected_renames, RenameResponse(k) PROVE Goal'
  <2> DEFINE d == injected_renames[k]
             anew == [d EXCEPT !.of = rust]
  <2>1. /\ d \in Injected /\ d \in Edit /\ anew \in Edit /\ injected_renames \in Seq(Edit)
        /\ k \in 1..Len(injected_renames) /\ Len(injected_renames') = Len(injected_renames) - 1
        /\ Injected' \subseteq Injected
        /\ anew.files = d.files /\ anew.of = rust
        /\ \/ ApplyRustComplement(d)
           \/ ApplyRustComplement(anew)
           \/ UNCHANGED <<rust, pending_saves>>
    BY <1>9, Response
  <2>2. injected_renames # <<>> BY <2>1
  <2>3. Len(injected_renames) = 1 /\ pending_saves = <<>> /\ Saving = {} BY <1>1, <2>2, Alone
  <2>4. Injected' = {} BY <2>1, <2>3 DEF Injected, ToSet
  <2>5. d \in Edits /\ d.files = Files BY <1>1, <2>1 DEF Edits, OfAllFiles
  <2>6. \A f \in Files : d.of[f] = rust[f]
    <3> TAKE f \in Files
    <3>1. CASE f \in open BY <1>1, <2>5, <3>1 DEF OpenAsFound
    <3>2. CASE f \notin open BY <1>1, <2>1, <3>2, Alone
    <3> QED BY <3>1, <3>2
  <2> HIDE DEF d, anew
  <2>7. CASE ApplyRustComplement(d)
    BY <1>1, <1>2, <2>1, <2>3, <2>4, <2>5, <2>6, <2>7, WholeComplement
  <2>8. CASE ApplyRustComplement(anew)
    BY <1>1, <1>2, <2>1, <2>3, <2>4, <2>5, <2>8, WholeComplement
  <2>9. CASE UNCHANGED <<rust, pending_saves>> BY <1>4, <2>1, <2>9 DEF Saving
  <2> QED BY <2>1, <2>7, <2>8, <2>9
<1>10. ASSUME NEW f \in Files, UserEditsRust(f) PROVE Goal'
  <2>1. /\ Upset("rust edited", InFlight) /\ Injected' = Injected /\ Saving' = Saving
        /\ \A h \in Files : rust'[h].names = rust[h].names
    BY <1>10, UserEdits
  <2>2. ~InFlight BY <2>1 DEF Upset, Divided
  <2>3. Edits' = {} /\ Saving' = {} BY <1>3, <2>1, <2>2 DEF Edits
  <2>4. Alike(rust') BY <1>1, <1>3, <2>1, <2>2, FilesAssumption DEF Alike
  <2> QED BY <2>3, <2>4 DEF OfAllFiles, OpenAsFound, ClosedHaveIt, Alike
<1> QED BY <1>5, <1>6, <1>7, <1>8, <1>9, <1>10, ByAction

WholeInv == GarbleInv /\ Whole

LEMMA WholeInductive == Spec => []WholeInv
<1>1. Init => Whole
  <2> SUFFICES ASSUME Init PROVE Whole OBVIOUS
  <2>1. Alike(rust) BY FilesAssumption DEF Init, Alike
  <2> QED BY <2>1, InitEmpty DEF Whole, OfAllFiles, OpenAsFound, ClosedHaveIt
<1>2. WholeInv /\ [Next]_vars => Whole' BY WholeStep DEF WholeInv, GarbleInv
<1> QED BY <1>1, <1>2, GarbleInductive, PTL DEF Spec, WholeInv

(* The TypeScript half is saved with the last of the Rust half.            *)
LEMMA SavedLast ==
  ASSUME TypeInv, Fitting, [Next]_vars, ~Divided', "ts" \in dirty, "ts" \notin dirty'
  PROVE  pending_saves' = <<>>
<1>1. ~Divided BY StaysWhole
<1>2. CASE OnPluginEvent
  <2> DEFINE r == Head(reports)
  <2>1. r \in Report BY <1>2, PluginEvent
  <2>2. Fallback(r) \in Edit BY <2>1, AskedEdits
  <2>3. /\ ApplyRustComplement(Fallback(r))
        /\ upsets' = upsets \cup (IF InFlight THEN {"overlapping"} ELSE {})
                            \cup (IF r.symbol \in Endpoints THEN {} ELSE {"degraded"})
    BY <1>2, PluginEvent
  <2>4. pending_saves = <<>> BY <2>3 DEF Divided, InFlight
  <2> HIDE DEF r
  <2>5. pending_saves' = pending_saves BY <2>2, <2>3, Complement
  <2> QED BY <2>4, <2>5
<1>3. CASE EditorApplies
  <2>1. /\ pending_saves # <<>> /\ pending_saves \in Seq(Edit) /\ pending_saves' = Tail(pending_saves)
    BY <1>3 DEF EditorApplies, TypeInv, TypeOK
  <2>2. Len(pending_saves) = 1 BY <1>1, <2>1, Alone
  <2> QED BY <2>1, <2>2
<1>4. ASSUME NEW k \in DOMAIN injected_renames, RenameResponse(k) PROVE pending_saves' = <<>>
  <2> DEFINE d == injected_renames[k]
             anew == [d EXCEPT !.of = rust]
  <2>1. /\ d \in Edit /\ anew \in Edit /\ k \in 1..Len(injected_renames)
        /\ ApplyRustComplement(d) \/ ApplyRustComplement(anew)
    BY <1>4, Response
  <2>2. injected_renames # <<>> BY <2>1
  <2>3. pending_saves = <<>> BY <1>1, <2>2, Alone
  <2> HIDE DEF d, anew
  <2>4. pending_saves' = pending_saves BY <2>1, Complement
  <2> QED BY <2>3, <2>4
<1>5. OnPluginEvent \/ EditorApplies \/ \E k \in DOMAIN injected_renames : RenameResponse(k)
  <2>1. ~Aside
    BY DEF Aside, ReadsGenerated, OnMessage, CheckPendingRename, UserTypes, Connect, Disconnect,
           WatchExpires, AskRename, EditorRenames, vars, textVars
  <2>2. ~OnRaExit /\ ~\E f \in Files : UserEditsRust(f) BY DEF OnRaExit, UserEditsRust, textVars
  <2> QED BY <2>1, <2>2, ByAction
<1> QED BY <1>2, <1>3, <1>4, <1>5

(* Unless something divides the Rust half, the TypeScript half is only     *)
(* saved once every Rust file has the same names: what is on disk is never *)
(* half a rename.                                                          *)
THEOREM SavedWhole == Spec => SavedTogether
<1> DEFINE A == ~Divided' /\ "ts" \in dirty \ dirty' =>
                  \A f \in Files : rust'[f].names = rust'[Decl].names
<1>1. WholeInv /\ WholeInv' /\ [Next]_vars => [A]_dirty
  <2> SUFFICES ASSUME WholeInv, WholeInv', [Next]_vars, ~Divided', "ts" \in dirty, "ts" \notin dirty'
               PROVE  \A f \in Files : rust'[f].names = rust'[Decl].names
    OBVIOUS
  <2>1. pending_saves' = <<>> BY SavedLast DEF WholeInv, GarbleInv
  <2> QED BY <2>1 DEF WholeInv, Whole, Alike
<1>2. Spec => [][A]_dirty BY <1>1, WholeInductive, PTL DEF Spec
<1> QED BY <1>2 DEF SavedTogether

-----------------------------------------------------------------------------
(* Without a mishap both languages end up alike.                           *)
LEMMA InOrderUnmoved ==
  ASSUME InStep, NEW s \in Symbols,
         ts'.names = ts.names, Declared(s)' = Declared(s), program' = program,
         reports' = reports, Edits' = Edits
  PROVE  /\ (ReportsInOrder(s) /\ EditsInOrder(s) /\ DeclaredInOrder(s))'
         /\ ReportComing(s)' = ReportComing(s) /\ EditComing(s)' = EditComing(s)
<1>1. ReportsInOrder(s) /\ EditsInOrder(s) /\ DeclaredInOrder(s) BY DEF InStep
<1>2. \A name : Two(s, name)' <=> Two(s, name) BY DEF Two
<1>3. ReportsSettled(s)' <=> ReportsSettled(s) BY DEF ReportsSettled
<1>4. ReportsInOrder(s)' BY <1>1, <1>2 DEF ReportsInOrder
<1>5. EditsInOrder(s)' BY <1>1, <1>2, <1>3 DEF EditsInOrder
<1>6. DeclaredInOrder(s)' BY <1>1, <1>2, <1>3 DEF DeclaredInOrder
<1> QED BY <1>4, <1>5, <1>6 DEF ReportComing, EditComing

LEMMA InStepUnmoved ==
  ASSUME InStep, ts'.names = ts.names, rust'[Decl].names = rust[Decl].names,
         contract' = contract, program' = program, reports' = reports, Edits' = Edits,
         InFlight => InFlight', dirty' = dirty,
         asked' # 0 => program[asked'] = ts.names[asked'],
         \A s \in Symbols : Landing(s) => Landing(s)'
  PROVE  InStep'
<1>1. \A s \in Symbols : Declared(s)' = Declared(s) BY DEF Declared
<1>2. ASSUME NEW s \in Symbols
      PROVE  (ReportsInOrder(s) /\ EditsInOrder(s) /\ DeclaredInOrder(s) /\ OnItsWay(s))'
  <2>1. /\ (ReportsInOrder(s) /\ EditsInOrder(s) /\ DeclaredInOrder(s))'
        /\ ReportComing(s)' = ReportComing(s) /\ EditComing(s)' = EditComing(s)
    BY <1>1, InOrderUnmoved
  <2>2. OnItsWay(s) BY DEF InStep
  <2>3. OnItsWay(s)' BY <1>1, <2>1, <2>2 DEF OnItsWay
  <2> QED BY <2>1, <2>3
<1>3. Unsaved' BY <1>1 DEF InStep, Unsaved
<1>4. (contract = rust[Decl].names)' BY DEF InStep
<1>5. (asked # 0 => program[asked] = ts.names[asked])' OBVIOUS
<1> QED BY <1>2, <1>3, <1>4, <1>5 DEF InStep

(* The report at the head is handled.                                      *)
LEMMA ReportHandled ==
  ASSUME TypeInv, reports # <<>>, reports' = Tail(reports), ts' = ts, program' = program,
         NEW s \in Symbols, ReportsInOrder(s)
  PROVE  LET r == Head(reports)
         IN  /\ ReportsInOrder(s)'
             /\ ReportsSettled(s) => ReportsSettled(s)'
             /\ ReportComing(s) =>
                  ReportComing(s)' \/ (r.symbol = s /\ r.newName = ts.names[s])
             /\ r.symbol = s =>
                  /\ Two(s, r.newName)
                  /\ ReportsSettled(s) => r.newName = ts.names[s]
                  /\ r.newName = ts.names[s] => ReportsSettled(s)'
<1> DEFINE r == Head(reports)
<1>1. reports \in Seq(Report) BY DEF TypeInv, TypeOK
<1>2. /\ Len(reports) \in Nat /\ Len(reports) > 0 /\ Len(reports') = Len(reports) - 1
      /\ r = reports[1] /\ \A k \in 1..Len(reports') : reports'[k] = reports[k + 1]
  BY <1>1, WithoutHead
<1> HIDE DEF r
<1>3. 1 \in 1..Len(reports) BY <1>2
<1>4. \A k \in 1..Len(reports') :
        k \in Nat /\ k + 1 \in 1..Len(reports) /\ 1 < k + 1 /\ reports'[k] = reports[k + 1]
  BY <1>2
<1>5. \A name : Two(s, name)' <=> Two(s, name) BY DEF Two
<1>6. ReportsInOrder(s)'
  <2> SUFFICES ASSUME NEW j \in 1..Len(reports'), NEW k \in 1..Len(reports'),
                      reports'[j].symbol = s, reports'[k].symbol = s
               PROVE  /\ Two(s, reports'[j].newName)
                      /\ j < k /\ reports'[j].newName = ts.names[s] =>
                           reports'[k].newName = ts.names[s]
    BY <1>5 DEF ReportsInOrder
  <2>1. j < k => j + 1 < k + 1 BY <1>4
  <2> QED BY <1>4, <2>1 DEF ReportsInOrder
<1>7. ReportsSettled(s) => ReportsSettled(s)' BY <1>4 DEF ReportsSettled
<1>8. ReportComing(s) => ReportComing(s)' \/ (r.symbol = s /\ r.newName = ts.names[s])
  <2> SUFFICES ASSUME NEW k \in 1..Len(reports), reports[k].symbol = s,
                      reports[k].newName = ts.names[s]
               PROVE  ReportComing(s)' \/ (r.symbol = s /\ r.newName = ts.names[s])
    BY DEF ReportComing
  <2>1. CASE k = 1 BY <1>2, <2>1
  <2>2. CASE k # 1
    <3>1. k - 1 \in 1..Len(reports') /\ (k - 1) + 1 = k BY <1>2, <2>2
    <3>2. reports'[k - 1] = reports[k] BY <1>4, <3>1
    <3> QED BY <3>1, <3>2 DEF ReportComing
  <2> QED BY <2>1, <2>2
<1>9. ASSUME r.symbol = s
      PROVE  /\ Two(s, r.newName)
             /\ ReportsSettled(s) => r.newName = ts.names[s]
             /\ r.newName = ts.names[s] => ReportsSettled(s)'
  <2>1. Two(s, r.newName) BY <1>2, <1>3, <1>9 DEF ReportsInOrder
  <2>2. ReportsSettled(s) => r.newName = ts.names[s] BY <1>2, <1>3, <1>9 DEF ReportsSettled
  <2>3. r.newName = ts.names[s] => ReportsSettled(s)'
    BY <1>2, <1>3, <1>4, <1>9 DEF ReportsInOrder, ReportsSettled
  <2> QED BY <2>1, <2>2, <2>3
<1> QED BY <1>6, <1>7, <1>8, <1>9 DEF r

(* A name moves on from a report to an edit, or from an edit to the files. *)
LEMMA NameMovesOn ==
  ASSUME TypeInv, InStep, ts' = ts, program' = program, asked' = asked, pending' = pending,
         NEW x \in Edit, Edits' \subseteq {x},
         contract' = rust'[Decl].names,
         \/ rust'[Decl].names = rust[Decl].names
         \/ rust'[Decl].names = [rust[Decl].names EXCEPT ![x.symbol] = x.new],
         Edits' # {} \/ rust'[Decl].names[x.symbol] = x.new,
         Two(x.symbol, x.new),
         Declared(x.symbol) = ts.names[x.symbol] => x.new = ts.names[x.symbol],
         x.new = ts.names[x.symbol] => ReportsSettled(x.symbol)',
         \A s \in Symbols : ReportsInOrder(s)' /\ (ReportsSettled(s) => ReportsSettled(s)'),
         \A s \in Symbols : ReportComing(s) \/ EditComing(s) =>
           ReportComing(s)' \/ (x.symbol = s /\ x.new = ts.names[s]),
         dirty' \subseteq {"ts"}, dirty' # {} => InFlight'
  PROVE  InStep'
<1>1. rust[Decl].names \in [Symbols -> Spellings] BY DEF TypeInv, TypeOK, RustText
<1>2. x.symbol \in Symbols BY EditFields
<1>3. \A s \in Symbols \ {x.symbol} : Declared(s)' = Declared(s) BY <1>1, <1>2 DEF Declared
<1>4. Declared(x.symbol)' \in {Declared(x.symbol), x.new} BY <1>1, <1>2 DEF Declared
<1>5. Edits' # {} \/ Declared(x.symbol)' = x.new BY DEF Declared
<1>6. ASSUME NEW s \in Symbols
      PROVE  (ReportsInOrder(s) /\ EditsInOrder(s) /\ DeclaredInOrder(s) /\ OnItsWay(s))'
  <2>1. /\ \A name : Two(s, name)' <=> Two(s, name)
        /\ Landing(s)' <=> Landing(s)
    BY DEF Two, Landing, Landed, Watching
  <2>2. DeclaredInOrder(s) /\ OnItsWay(s) BY DEF InStep
  <2>3. EditsInOrder(s)' BY <2>1 DEF EditsInOrder
  <2>4. DeclaredInOrder(s)'
    <3>1. CASE s = x.symbol
      <4>1. Two(s, Declared(s)') BY <2>2, <3>1, <1>4 DEF DeclaredInOrder
      <4>2. Declared(s)' = ts.names[s] => x.new = ts.names[s] BY <3>1, <1>4
      <4> QED BY <2>1, <3>1, <4>1, <4>2 DEF DeclaredInOrder
    <3>2. CASE s # x.symbol
      <4>1. Declared(s)' = Declared(s) BY <3>2, <1>3
      <4>2. \A e \in Edits' : e.symbol # s BY <3>2
      <4> QED BY <2>1, <2>2, <4>1, <4>2 DEF DeclaredInOrder
    <3> QED BY <3>1, <3>2
  <2>5. OnItsWay(s)'
    <3>1. CASE Landing(s) \/ ReportComing(s)' BY <2>1, <3>1 DEF OnItsWay
    <3>2. CASE s = x.symbol /\ x.new = ts.names[s]
      <4>1. EditComing(s)' \/ Declared(s)' = ts.names[s] BY <3>2, <1>5 DEF EditComing
      <4> QED BY <4>1 DEF OnItsWay
    <3>3. CASE s = x.symbol /\ Declared(s) = ts.names[s] BY <3>2, <3>3
    <3>4. CASE s # x.symbol /\ Declared(s) = ts.names[s] BY <3>4, <1>3 DEF OnItsWay
    <3> QED BY <2>2, <3>1, <3>2, <3>3, <3>4 DEF OnItsWay
  <2> QED BY <2>3, <2>4, <2>5
<1>7. Unsaved' BY DEF Unsaved
<1>8. (asked # 0 => program[asked] = ts.names[asked])' BY DEF InStep
<1> QED BY <1>6, <1>7, <1>8 DEF InStep

LEMMA InStepReads ==
  ASSUME TypeInv, InStep, ReadsGenerated
  PROVE  InStep'
<1>1. /\ program' = rust[Decl].names
      /\ UNCHANGED <<textVars, contract, pending, reports, injected_renames, pending_saves>>
  BY DEF ReadsGenerated, InStep, proxyVars
<1>2. /\ ts' = ts /\ rust' = rust /\ asked' = asked /\ dirty' = dirty /\ Edits' = Edits
      /\ InFlight' = InFlight /\ contract' = contract /\ reports' = reports
  BY <1>1 DEF textVars, Edits, Injected, Saving, InFlight
<1>3. \A s \in Symbols : program'[s] = Declared(s) /\ Declared(s)' = Declared(s)
  BY <1>1, <1>2 DEF Declared
<1>4. ASSUME NEW s \in Symbols
      PROVE  (ReportsInOrder(s) /\ EditsInOrder(s) /\ DeclaredInOrder(s) /\ OnItsWay(s))'
  <2>1. ReportsInOrder(s) /\ EditsInOrder(s) /\ DeclaredInOrder(s) /\ OnItsWay(s) BY DEF InStep
  <2>2. Declared(s) \in {program[s], ts.names[s]} BY <2>1 DEF DeclaredInOrder, Two
  <2>3. \A name : Two(s, name)' <=> name \in {Declared(s), ts.names[s]} BY <1>2, <1>3 DEF Two
  <2>4. ReportsSettled(s)' <=> ReportsSettled(s) BY <1>2 DEF ReportsSettled
  <2>5. Declared(s) = ts.names[s] \/ \A name : Two(s, name) => Two(s, name)'
    BY <2>2, <2>3 DEF Two
  <2>6. ReportsInOrder(s)'
    <3> SUFFICES ASSUME NEW j \in 1..Len(reports), NEW k \in 1..Len(reports),
                        reports[j].symbol = s, reports[k].symbol = s
                 PROVE  /\ Two(s, reports[j].newName)'
                        /\ j < k /\ reports[j].newName = ts.names[s] =>
                             reports[k].newName = ts.names[s]
      BY <1>2 DEF ReportsInOrder
    <3>1. /\ Two(s, reports[j].newName)
          /\ j < k /\ reports[j].newName = ts.names[s] => reports[k].newName = ts.names[s]
      BY <2>1 DEF ReportsInOrder
    <3>2. Declared(s) = ts.names[s] => reports[j].newName = ts.names[s]
      BY <2>1 DEF DeclaredInOrder, ReportsSettled
    <3> QED BY <1>2, <2>3, <2>5, <3>1, <3>2
  <2>7. EditsInOrder(s)'
    <3> SUFFICES ASSUME NEW e \in Edits, e.symbol = s
                 PROVE  Two(s, e.new)' /\ (e.new = ts.names[s] => ReportsSettled(s))
      BY <1>2, <2>4 DEF EditsInOrder
    <3>1. Two(s, e.new) /\ (e.new = ts.names[s] => ReportsSettled(s))
      BY <2>1 DEF EditsInOrder
    <3>2. Declared(s) = ts.names[s] => e.new = ts.names[s] BY <2>1 DEF DeclaredInOrder
    <3> QED BY <2>3, <2>5, <3>1, <3>2
  <2>8. DeclaredInOrder(s)' BY <1>2, <1>3, <2>1, <2>3, <2>4 DEF DeclaredInOrder
  <2>9. OnItsWay(s)'
    BY <1>1, <1>2, <1>3, <2>1
    DEF OnItsWay, Landing, Landed, Watching, ReportComing, EditComing
  <2> QED BY <2>6, <2>7, <2>8, <2>9
<1>5. (asked # 0 => program[asked] = ts.names[asked])'
  <2> SUFFICES ASSUME asked # 0 PROVE rust[Decl].names[asked] = ts.names[asked] BY <1>1, <1>2
  <2>1. asked \in Symbols BY DEF TypeInv, TypeOK
  <2>2. program[asked] = ts.names[asked] /\ DeclaredInOrder(asked) BY <2>1 DEF InStep
  <2> QED BY <2>2 DEF DeclaredInOrder, Two, Declared
<1>6. Unsaved' BY <1>2, <1>3 DEF InStep, Unsaved
<1>7. (contract = rust[Decl].names)' BY <1>2 DEF InStep
<1> QED BY <1>4, <1>5, <1>6, <1>7 DEF InStep

(* The editor renames: tsserver, Rust and all on its way have the old name,*)
(* and a watch has seen the place.                                         *)
LEMMA InStepEditor ==
  ASSUME TypeInv, InStep, NEW new \in Names, EditorRenames(new), upsets' = {}
  PROVE  InStep'
<1>0. PICK a \in Symbols : a = asked BY DEF TypeInv, TypeOK, EditorRenames
<1>1. /\ new \in Spellings /\ new # ts.names[a] /\ ts \in Text /\ Spaced(ts)
  BY <1>0 DEF TypeInv, TypeOK, TextsSpaced, EditorRenames, Spellings
<1>2. /\ ts' = Respelt(ts, a, new) /\ dirty' = dirty \cup {"ts"} /\ asked' = 0
      /\ UNCHANGED <<rust, contract, program, pending, reports, injected_renames, pending_saves>>
  BY <1>0 DEF EditorRenames, pluginVars, proxyVars
<1>3. /\ \E i \in Watching : Sees(pending[i], a)
      /\ \A i \in Watching : ~(pending[i].symbol > a)
  BY <1>0 DEF EditorRenames
<1>4. /\ Respelt(ts, a, new).names = [ts.names EXCEPT ![a] = new]
      /\ \A t \in Symbols : ~(t > a) => Respelt(ts, a, new).starts[t] = ts.starts[t]
  BY <1>1, RespeltText
<1>5. ts.names \in [Symbols -> Spellings] BY <1>1 DEF Text
<1>6. /\ ts'.names[a] = new
      /\ \A t \in Symbols \ {a} : ts'.names[t] = ts.names[t]
      /\ \A t \in Symbols : ~(t > a) => ts'.starts[t] = ts.starts[t]
  BY <1>1, <1>2, <1>4, <1>5
<1>7. /\ Edits' = Edits /\ reports' = reports /\ Watching' = Watching /\ pending' = pending
      /\ program' = program
  BY <1>2 DEF Edits, Injected, Saving, Watching
<1>8. \A s \in Symbols : Declared(s)' = Declared(s) BY <1>2 DEF Declared
<1>9. \A i \in Watching : pending[i].symbol \in Symbols
  BY DEF Watching, TypeInv, TypeOK, Watch
<1>10. ~(a > a) BY DEF Symbols
<1>11. PICK old \in Spellings : old = ts.names[a] /\ old = program[a]
  BY <1>0, <1>5 DEF InStep, Symbols
<1>12. ReportsInOrder(a) /\ EditsInOrder(a) /\ DeclaredInOrder(a) BY DEF InStep
<1>13. Declared(a) = old BY <1>11, <1>12 DEF DeclaredInOrder, Two
<1>14. \A k \in 1..Len(reports) : reports[k].symbol = a => reports[k].newName = old
  BY <1>11, <1>12, <1>13 DEF DeclaredInOrder, ReportsSettled
<1>15. \A e \in Edits : e.symbol = a => e.new = old BY <1>11, <1>12, <1>13 DEF DeclaredInOrder
<1>16. (ReportsInOrder(a) /\ EditsInOrder(a) /\ DeclaredInOrder(a) /\ OnItsWay(a))'
  <2>1. Two(a, old)' BY <1>7, <1>11 DEF Two
  <2>2. ReportsInOrder(a)' BY <1>1, <1>6, <1>7, <1>11, <1>14, <2>1 DEF ReportsInOrder
  <2>3. EditsInOrder(a)' BY <1>1, <1>6, <1>7, <1>11, <1>15, <2>1 DEF EditsInOrder
  <2>4. DeclaredInOrder(a)' BY <1>1, <1>6, <1>8, <1>11, <1>13, <2>1 DEF DeclaredInOrder
  <2>5. Landing(a)'
    <3>1. PICK i \in Watching : Sees(pending[i], a) BY <1>3
    <3>2. /\ pending[i].symbol = a /\ ts'.starts[a] = pending[i].start
          /\ ts'.names[a] # pending[i].oldName
      BY <1>1, <1>6, <1>10, <3>1 DEF Sees
    <3> QED BY <1>7, <3>2 DEF Landing, Landed
  <2> QED BY <2>2, <2>3, <2>4, <2>5 DEF OnItsWay
<1>17. ASSUME NEW s \in Symbols, s # a
       PROVE  (ReportsInOrder(s) /\ EditsInOrder(s) /\ DeclaredInOrder(s) /\ OnItsWay(s))'
  <2>1. ReportsInOrder(s) /\ EditsInOrder(s) /\ DeclaredInOrder(s) /\ OnItsWay(s) BY DEF InStep
  <2>2. ts'.names[s] = ts.names[s] /\ Declared(s)' = Declared(s) BY <1>6, <1>8, <1>17
  <2>3. \A name : Two(s, name)' <=> Two(s, name) BY <1>7, <2>2 DEF Two
  <2>4. ReportsSettled(s)' <=> ReportsSettled(s) BY <1>7, <2>2 DEF ReportsSettled
  <2>5. ReportsInOrder(s)' BY <1>7, <2>1, <2>2, <2>3 DEF ReportsInOrder
  <2>6. EditsInOrder(s)' BY <1>7, <2>1, <2>2, <2>3, <2>4 DEF EditsInOrder
  <2>7. DeclaredInOrder(s)' BY <1>7, <2>1, <2>2, <2>3, <2>4 DEF DeclaredInOrder
  <2>8. Landing(s) => Landing(s)'
    <3> SUFFICES ASSUME NEW i \in Watching, pending[i].symbol = s, Landed(pending[i])
                 PROVE  Landing(s)'
      BY DEF Landing
    <3>1. ~(s > a) BY <1>3
    <3>2. ts'.starts[s] = ts.starts[s] BY <1>6, <3>1
    <3> QED BY <1>7, <2>2, <3>2 DEF Landing, Landed
  <2>9. OnItsWay(s)'
    BY <1>7, <2>1, <2>2, <2>8 DEF OnItsWay, ReportComing, EditComing
  <2> QED BY <2>5, <2>6, <2>7, <2>9
<1>18. Unsaved'
  <2>1. Declared(a)' # ts'.names[a] BY <1>1, <1>6, <1>8, <1>11, <1>13
  <2> QED BY <1>2, <2>1 DEF InStep, Unsaved
<1>19. (contract = rust[Decl].names)' BY <1>2 DEF InStep
<1>20. (asked # 0 => program[asked] = ts.names[asked])' BY <1>2
<1> QED BY <1>16, <1>17, <1>18, <1>19, <1>20 DEF InStep

LEMMA InStepCheck ==
  ASSUME TypeInv, InStep, WatchesPlaced, NEW i \in Instances, CheckPendingRename(i), upsets' = {}
  PROVE  InStep'
<1> DEFINE w == pending[i]
<1>1. /\ w # None /\ i \in connected /\ pending' = [pending EXCEPT ![i] = None]
      /\ UNCHANGED <<textVars, contract, program, injected_renames, pending_saves>>
  BY DEF CheckPendingRename, Upset, proxyVars
<1>2. pending \in [Instances -> Watch \cup {None}] BY DEF TypeInv, TypeOK
<1>3. w \in Watch /\ ts.starts[w.symbol] = w.start BY <1>1, <1>2 DEF WatchesPlaced, Watching
<1>4. w.symbol \in Symbols /\ w.id \in Spellings BY <1>3 DEF Watch
<1>a. ~CutAt(w.start) BY DEF CheckPendingRename
<1>5. Found(w) = {ts.names[w.symbol]} BY <1>3, <1>a, FoundWhereWatched
<1>6. PICK name \in Found(w) \ {w.oldName} :
        reports' = Append(reports, [symbol |-> w.symbol, id |-> w.id, newName |-> name])
  BY <1>1 DEF CheckPendingRename
<1> HIDE DEF w
<1> DEFINE r == [symbol |-> w.symbol, id |-> w.id, newName |-> name]
           a == w.symbol
<1>7. r \in Report /\ r.symbol = w.symbol /\ r.newName = ts.names[w.symbol]
  BY <1>4, <1>5, <1>6 DEF Report, TypeInv, TypeOK, Text
<1> HIDE DEF r
<1>8. reports' = Append(reports, r) BY <1>6 DEF r
<1>9. reports \in Seq(Report) BY DEF TypeInv, TypeOK
<1>10. /\ Len(reports) \in Nat /\ Len(reports') = Len(reports) + 1
       /\ \A k \in 1..Len(reports) : reports'[k] = reports[k]
       /\ reports'[Len(reports) + 1] = r
  BY <1>7, <1>8, <1>9, WithOneMore
<1>11. /\ ts' = ts /\ rust' = rust /\ asked' = asked /\ dirty' = dirty /\ Edits' = Edits
       /\ InFlight' = InFlight /\ contract' = contract /\ program' = program
  BY <1>1 DEF textVars, Edits, Injected, Saving, InFlight
<1>12. ASSUME NEW s \in Symbols
       PROVE  (ReportsInOrder(s) /\ EditsInOrder(s) /\ DeclaredInOrder(s) /\ OnItsWay(s))'
  <2>1. ReportsInOrder(s) /\ EditsInOrder(s) /\ DeclaredInOrder(s) /\ OnItsWay(s) BY DEF InStep
  <2>2. /\ \A n : Two(s, n)' <=> Two(s, n)
        /\ Declared(s)' = Declared(s)
    BY <1>11 DEF Two, Declared
  <2>3. r.symbol = s => r.newName = ts.names[s] /\ Two(s, r.newName) BY <1>7 DEF Two
  <2>4. \A k \in 1..Len(reports') : k \in 1..Len(reports) \/ (k = Len(reports) + 1 /\ reports'[k] = r)
    BY <1>10
  <2>5. ReportsSettled(s) => ReportsSettled(s)'
    BY <1>10, <1>11, <2>3, <2>4 DEF ReportsSettled
  <2>6. ReportsInOrder(s)'
    <3> SUFFICES ASSUME NEW j \in 1..Len(reports'), NEW k \in 1..Len(reports'),
                        reports'[j].symbol = s, reports'[k].symbol = s
                 PROVE  /\ Two(s, reports'[j].newName)
                        /\ j < k /\ reports'[j].newName = ts.names[s] =>
                             reports'[k].newName = ts.names[s]
      BY <1>11, <2>2 DEF ReportsInOrder
    <3>1. CASE j = Len(reports) + 1 BY <1>10, <2>3, <3>1
    <3>2. CASE j \in 1..Len(reports) /\ k = Len(reports) + 1
      BY <1>10, <2>1, <2>3, <3>2 DEF ReportsInOrder
    <3>3. CASE j \in 1..Len(reports) /\ k \in 1..Len(reports)
      BY <1>10, <2>1, <3>3 DEF ReportsInOrder
    <3> QED BY <2>4, <3>1, <3>2, <3>3
  <2>7. EditsInOrder(s)' BY <1>11, <2>1, <2>2, <2>5 DEF EditsInOrder
  <2>8. DeclaredInOrder(s)' BY <1>11, <2>1, <2>2, <2>5 DEF DeclaredInOrder
  <2>9. ReportComing(s) \/ r.symbol = s => ReportComing(s)'
    <3>1. ReportComing(s) => ReportComing(s)' BY <1>10, <1>11 DEF ReportComing
    <3>2. Len(reports) + 1 \in 1..Len(reports') BY <1>10
    <3>3. r.symbol = s => ReportComing(s)' BY <1>10, <1>11, <2>3, <3>2 DEF ReportComing
    <3> QED BY <3>1, <3>3
  <2>10. Landing(s) => Landing(s)' \/ r.symbol = s
    <3> SUFFICES ASSUME NEW h \in Watching, pending[h].symbol = s, Landed(pending[h]), r.symbol # s
                 PROVE  Landing(s)'
      BY DEF Landing
    <3>1. h # i BY <1>7 DEF w
    <3>2. pending'[h] = pending[h] /\ h \in Watching' BY <1>1, <1>2, <3>1 DEF Watching
    <3> QED BY <1>11, <3>2 DEF Landing, Landed
  <2>11. EditComing(s) => EditComing(s)' BY <1>11 DEF EditComing
  <2>12. OnItsWay(s)' BY <1>11, <2>1, <2>2, <2>9, <2>10, <2>11 DEF OnItsWay
  <2> QED BY <2>6, <2>7, <2>8, <2>12
<1>13. Unsaved' BY <1>11 DEF InStep, Unsaved, Declared
<1>14. (contract = rust[Decl].names)' BY <1>11 DEF InStep
<1>15. (asked # 0 => program[asked] = ts.names[asked])' BY <1>11 DEF InStep
<1> QED BY <1>12, <1>13, <1>14, <1>15 DEF InStep

(* The edit of a name is applied to the closed files, and sent to the      *)
(* editor if it has any of them open.                                      *)
LEMMA NameApplied ==
  ASSUME TypeInv, InStep, ts' = ts, program' = program, asked' = asked, pending' = pending,
         NEW x \in Edit, ApplyRustComplement(x), x.files = Files,
         Injected' = {}, Saving = {},
         contract' = Fresh(rust') => contract' = rust'[Decl].names,
         Two(x.symbol, x.new),
         Declared(x.symbol) = ts.names[x.symbol] => x.new = ts.names[x.symbol],
         x.new = ts.names[x.symbol] => ReportsSettled(x.symbol)',
         \A s \in Symbols : ReportsInOrder(s)' /\ (ReportsSettled(s) => ReportsSettled(s)'),
         \A s \in Symbols : ReportComing(s) \/ EditComing(s) =>
           ReportComing(s)' \/ (x.symbol = s /\ x.new = ts.names[s])
  PROVE  InStep'
<1>1. rust[Decl].names \in [Symbols -> Spellings] /\ x.symbol \in Symbols
  BY FilesAssumption, EditFields DEF TypeInv, TypeOK, RustText
<1>2. /\ Decl \in open => rust'[Decl] = rust[Decl]
      /\ Decl \notin open => rust'[Decl].names = [rust[Decl].names EXCEPT ![x.symbol] = x.new]
  BY FilesAssumption, Complement
<1>3. contract' = rust'[Decl].names BY Complement
<1>4. dirty \subseteq {"ts"} BY DEF InStep, Unsaved
<1>5. CASE Touched(x) = {}
  <2>1. Edits' = {} /\ dirty' = {}
    <3>1. Saving' = Saving /\ dirty' = dirty \ {"ts"} BY <1>5, Complement
    <3> QED BY <1>4, <3>1 DEF Edits
  <2>2. Decl \notin open BY <1>5, FilesAssumption DEF Touched
  <2>3. rust'[Decl].names[x.symbol] = x.new BY <1>1, <1>2, <2>2
  <2> QED BY <1>2, <1>3, <2>1, <2>2, <2>3, NameMovesOn
<1>6. CASE Touched(x) # {}
  <2>1. Edits' = {x} /\ dirty' = dirty /\ pending_saves' # <<>>
    <3>1. Saving' = Saving \cup {x} /\ dirty' = dirty /\ pending_saves' # <<>>
      BY <1>6, Complement
    <3> QED BY <3>1 DEF Edits
  <2>2. InFlight' BY <2>1 DEF InFlight
  <2>3. \/ rust'[Decl].names = rust[Decl].names
        \/ rust'[Decl].names = [rust[Decl].names EXCEPT ![x.symbol] = x.new]
    BY <1>2
  <2> QED BY <1>3, <1>4, <2>1, <2>2, <2>3, NameMovesOn
<1> QED BY <1>5, <1>6

(* What the proxy makes of the Rust texts is what they declare.            *)
LEMMA FreshDeclares ==
  ASSUME NeverGarbled', "overlapping" \notin upsets', contract' = Fresh(rust')
  PROVE  contract' = rust'[Decl].names
  BY FilesAssumption DEF NeverGarbled, Fresh

LEMMA InStepEvent ==
  ASSUME TypeInv, WholeInv, NeverGarbled', InStep, OnPluginEvent, upsets' = {}, upsets = {}
  PROVE  InStep'
<1>0. PICK r \in Report : r = Head(reports) BY PluginEvent
<1>1. /\ reports # <<>> /\ reports' = Tail(reports)
      /\ ts' = ts /\ asked' = asked /\ pending' = pending /\ program' = program
  BY PluginEvent DEF pluginVars
<1>2. r.symbol \in Symbols BY DEF Report
<1>3. \A s \in Symbols :
        ReportsInOrder(s) /\ EditsInOrder(s) /\ DeclaredInOrder(s) /\ OnItsWay(s)
  BY DEF InStep
<1>4. \A s \in Symbols :
        /\ ReportsInOrder(s)' /\ (ReportsSettled(s) => ReportsSettled(s)')
        /\ ReportComing(s) => ReportComing(s)' \/ (r.symbol = s /\ r.newName = ts.names[s])
  BY <1>0, <1>1, <1>3, ReportHandled
<1>5. /\ Two(r.symbol, r.newName)
      /\ ReportsSettled(r.symbol) => r.newName = ts.names[r.symbol]
      /\ r.newName = ts.names[r.symbol] => ReportsSettled(r.symbol)'
  BY <1>0, <1>1, <1>2, <1>3, ReportHandled
<1>6. /\ Asked(r) \in Edit /\ Fallback(r) \in Edit
      /\ Asked(r).of = rust /\ Asked(r).symbol = r.symbol /\ Asked(r).new = r.newName
      /\ Fallback(r).of = rust /\ Fallback(r).symbol = r.symbol /\ Fallback(r).new = r.newName
      /\ r.symbol \in Endpoints => Fallback(r).files = Files
  BY AskedEdits
<1>7. ~InFlight => Edits = {} /\ Injected = {} /\ Saving = {}
  BY DEF InFlight, Edits, Injected, Saving, ToSet
<1>8. Declared(r.symbol) = ts.names[r.symbol] => r.newName = ts.names[r.symbol]
  BY <1>2, <1>3, <1>5 DEF DeclaredInOrder
<1>9. dirty \subseteq {"ts"} BY DEF InStep, Unsaved
<1>10. \A s \in Symbols : Edits = {} => ~EditComing(s) BY DEF EditComing
<1>11. contract' = Fresh(rust') => contract' = rust'[Decl].names BY FreshDeclares
<1>12. rust[Decl].names \in [Symbols -> Spellings] BY FilesAssumption DEF TypeInv, TypeOK, RustText
<1>13. CASE /\ contract' = Fresh(rust) /\ Upset("unmapped", contract'[r.symbol] # r.newName)
            /\ UNCHANGED <<rust, dirty, injected_renames, pending_saves>>
  <2>1. contract' = rust'[Decl].names BY <1>11, <1>13
  <2>2. Declared(r.symbol) = r.newName BY <1>13, <2>1 DEF Upset, Declared
  <2>3. /\ Edits' = Edits /\ InFlight' = InFlight /\ dirty' = dirty
        /\ \A s \in Symbols : Declared(s)' = Declared(s)
    BY <1>13 DEF Edits, Injected, Saving, InFlight, Declared
  <2>4. ASSUME NEW s \in Symbols
        PROVE  (ReportsInOrder(s) /\ EditsInOrder(s) /\ DeclaredInOrder(s) /\ OnItsWay(s))'
    <3>1. /\ \A name : Two(s, name)' <=> Two(s, name)
          /\ Landing(s)' <=> Landing(s)
          /\ EditComing(s)' <=> EditComing(s)
      <4>1. \A name : Two(s, name)' <=> Two(s, name) BY <1>1 DEF Two
      <4>2. Landing(s)' <=> Landing(s) BY <1>1 DEF Landing, Landed, Watching
      <4>3. EditComing(s)' <=> EditComing(s) BY <1>1, <2>3 DEF EditComing
      <4> QED BY <4>1, <4>2, <4>3
    <3>2. EditsInOrder(s)' BY <1>1, <1>3, <1>4, <2>3, <3>1 DEF EditsInOrder
    <3>3. DeclaredInOrder(s)' BY <1>1, <1>3, <1>4, <2>3, <3>1 DEF DeclaredInOrder
    <3>4. OnItsWay(s)'
      <4>1. ReportComing(s) => ReportComing(s)' \/ Declared(s)' = ts.names[s]
        BY <1>4, <2>2, <2>3
      <4>2. Landing(s) \/ ReportComing(s) \/ EditComing(s) \/ Declared(s) = ts.names[s]
        BY <1>3 DEF OnItsWay
      <4>3. Declared(s)' = Declared(s) /\ ts' = ts BY <1>1, <2>3
      <4> QED BY <3>1, <4>1, <4>2, <4>3 DEF OnItsWay
    <3> QED BY <1>4, <3>2, <3>3, <3>4
  <2>5. Unsaved' BY <1>1, <2>3 DEF InStep, Unsaved
  <2>6. (asked # 0 => program[asked] = ts.names[asked])' BY <1>1 DEF InStep
  <2> QED BY <2>1, <2>4, <2>5, <2>6 DEF InStep
<1>14. CASE /\ contract' = Fresh(rust) /\ injected_renames' = Append(injected_renames, Asked(r))
            /\ Upset("overlapping", InFlight) /\ UNCHANGED <<rust, dirty, pending_saves>>
  <2>1. ~InFlight BY <1>14 DEF Upset
  <2>2. injected_renames \in Seq(Edit) BY DEF TypeInv, TypeOK
  <2>3. Injected' = Injected \cup {Asked(r)} /\ Len(injected_renames') = Len(injected_renames) + 1
    BY <1>6, <1>14, <2>2, ElementsWithOneMore, WithOneMore DEF Injected
  <2>4. Edits' = {Asked(r)} BY <1>7, <1>14, <2>1, <2>3 DEF Edits, Saving
  <2>5. InFlight'
    <3>1. injected_renames' # <<>> BY <2>2, <2>3
    <3> QED BY <3>1 DEF InFlight
  <2>6. contract' = rust'[Decl].names BY <1>11, <1>14
  <2>7. PICK x \in Edit : x = Asked(r) /\ x.symbol = r.symbol /\ x.new = r.newName /\ Edits' = {x}
    BY <1>6, <2>4
  <2>8. rust' = rust /\ dirty' = dirty BY <1>14
  <2> QED BY <1>1, <1>4, <1>5, <1>7, <1>8, <1>9, <1>10, <2>1, <2>5, <2>6, <2>7, <2>8, NameMovesOn
<1>15. CASE /\ ApplyRustComplement(Fallback(r)) /\ injected_renames' = injected_renames
            /\ upsets' = upsets \cup (IF InFlight THEN {"overlapping"} ELSE {})
                                \cup (IF r.symbol \in Endpoints THEN {} ELSE {"degraded"})
  <2>1. ~InFlight /\ r.symbol \in Endpoints BY <1>15
  <2>2. PICK x \in Edit : /\ x = Fallback(r) /\ x.symbol = r.symbol /\ x.new = r.newName
                         /\ x.files = Files
    BY <1>6, <2>1
  <2>3. ApplyRustComplement(x) BY <1>15, <2>2
  <2>4. Injected' = {} /\ Edits = {} /\ Saving = {} BY <1>7, <1>15, <2>1 DEF Injected
  <2> QED BY <1>1, <1>4, <1>5, <1>8, <1>9, <1>10, <1>11, <2>1, <2>2, <2>3, <2>4, NameApplied
<1> QED BY <1>0, <1>13, <1>14, <1>15, PluginEvent

LEMMA InStepApplies ==
  ASSUME TypeInv, WholeInv, NeverGarbled', InStep, EditorApplies, upsets' = {}, upsets = {}
  PROVE  InStep'
<1>0. PICK x \in Edit : x = Head(pending_saves) BY Applies
<1>1. /\ x \in Saving /\ pending_saves # <<>> /\ Len(pending_saves') = Len(pending_saves) - 1
      /\ Injected' = Injected
      /\ ts' = ts /\ asked' = asked /\ pending' = pending /\ program' = program /\ reports' = reports
  BY <1>0, Applies DEF pluginVars
<1>2. ~Divided /\ OfAllFiles /\ OpenAsFound /\ ClosedHaveIt /\ Fitting
  BY DEF Divided, WholeInv, GarbleInv, Whole
<1>3. Len(pending_saves) = 1 /\ Injected = {} BY <1>1, <1>2, Alone
<1>4. Saving' = {} /\ Edits' = {} BY <1>1, <1>3 DEF Edits, Saving, ToSet
<1>5. x \in Edits /\ x.files = Files /\ x.symbol \in Symbols
  BY <1>1, <1>2, EditFields DEF OfAllFiles, Edits
<1>6. Touched(x) \subseteq open BY DEF Touched
<1>7. Current(x) BY <1>2, <1>5, <1>6 DEF Current, OpenAsFound
<1>8. /\ contract' = Fresh(rust') /\ dirty' = (dirty \cup Touched(x)) \ Saved(x)
      /\ Decl \notin open => rust'[Decl] = rust[Decl]
      /\ Decl \in open => rust'[Decl].names = [rust[Decl].names EXCEPT ![x.symbol] = x.new]
  BY <1>0, <1>5, <1>7, FilesAssumption, Applies
<1>9. dirty' = {} BY <1>8 DEF InStep, Unsaved, Saved
<1>10. contract' = rust'[Decl].names BY <1>8, FreshDeclares
<1>11. rust[Decl].names \in [Symbols -> Spellings] /\ x.of[Decl].names \in [Symbols -> Spellings]
  BY FilesAssumption, EditFields DEF TypeInv, TypeOK, RustText
<1>12. Decl \notin open => rust[Decl].names = [x.of[Decl].names EXCEPT ![x.symbol] = x.new]
  BY <1>1, <1>2, FilesAssumption DEF ClosedHaveIt
<1>13. rust'[Decl].names[x.symbol] = x.new BY <1>5, <1>8, <1>11, <1>12
<1>14. \A s \in Symbols : ReportsInOrder(s) /\ EditsInOrder(s) /\ DeclaredInOrder(s)
  BY DEF InStep
<1>15. /\ Two(x.symbol, x.new)
       /\ Declared(x.symbol) = ts.names[x.symbol] => x.new = ts.names[x.symbol]
       /\ x.new = ts.names[x.symbol] => ReportsSettled(x.symbol)
  BY <1>5, <1>14 DEF EditsInOrder, DeclaredInOrder
<1>16. \A s \in Symbols :
         /\ ReportsInOrder(s)'
         /\ ReportsSettled(s)' <=> ReportsSettled(s)
         /\ ReportComing(s)' <=> ReportComing(s)
  BY <1>1, <1>14 DEF ReportsInOrder, ReportsSettled, ReportComing, Two
<1>17. Edits = {x}
  <2>1. Saving = Saving' \cup {x} BY <1>0, Applies
  <2> QED BY <1>3, <1>4, <2>1 DEF Edits
<1>18. \A s \in Symbols : EditComing(s) => x.symbol = s /\ x.new = ts.names[s]
  BY <1>17 DEF EditComing
<1> QED
  BY <1>1, <1>4, <1>5, <1>8, <1>9, <1>10, <1>13, <1>15, <1>16, <1>18, NameMovesOn

LEMMA InStepResponse ==
  ASSUME TypeInv, WholeInv, NeverGarbled', InStep, upsets' = {}, upsets = {},
         NEW k \in DOMAIN injected_renames, RenameResponse(k)
  PROVE  InStep'
<1>0. PICK d \in Edit : d = injected_renames[k] BY Response
<1>1. PICK anew \in Edit : anew = [d EXCEPT !.of = rust] BY <1>0, Response
<1>2. /\ d \in Injected /\ Injected = Injected' \cup {d} /\ k \in 1..Len(injected_renames)
      /\ Len(injected_renames') = Len(injected_renames) - 1
      /\ anew = [symbol |-> d.symbol, new |-> d.new, files |-> d.files, of |-> rust]
      /\ ts' = ts /\ asked' = asked /\ pending' = pending /\ program' = program /\ reports' = reports
  BY <1>0, <1>1, Response DEF pluginVars
<1>3. ApplyRustComplement(d) \/ ApplyRustComplement(anew)
  <2>1. ~Upset("failed", TRUE) BY DEF Upset
  <2> QED BY <1>0, <1>1, <2>1, Response
<1>4. PICK x \in {d, anew} : ApplyRustComplement(x) BY <1>3
<1>5. x \in Edit /\ x.symbol = d.symbol /\ x.new = d.new /\ x.files = d.files BY <1>2
<1>6. ~Divided /\ OfAllFiles /\ Fitting BY DEF Divided, WholeInv, GarbleInv, Whole
<1>7. injected_renames # <<>> /\ injected_renames \in Seq(Edit)
  BY <1>2 DEF TypeInv, TypeOK
<1>8. Len(injected_renames) = 1 /\ Saving = {} BY <1>6, <1>7, Alone
<1>9. Injected' = {} BY <1>2, <1>8 DEF Injected, ToSet
<1>10. Edits = {d} BY <1>2, <1>8, <1>9 DEF Edits
<1>11. x.files = Files /\ x.symbol \in Symbols BY <1>5, <1>6, <1>10, EditFields DEF OfAllFiles
<1>12. \A s \in Symbols : ReportsInOrder(s) /\ EditsInOrder(s) /\ DeclaredInOrder(s)
  BY DEF InStep
<1>13. /\ Two(x.symbol, x.new)
       /\ Declared(x.symbol) = ts.names[x.symbol] => x.new = ts.names[x.symbol]
       /\ x.new = ts.names[x.symbol] => ReportsSettled(x.symbol)
  BY <1>5, <1>10, <1>11, <1>12 DEF EditsInOrder, DeclaredInOrder
<1>14. \A s \in Symbols :
         /\ ReportsInOrder(s)'
         /\ ReportsSettled(s)' <=> ReportsSettled(s)
         /\ ReportComing(s)' <=> ReportComing(s)
  BY <1>2, <1>12 DEF ReportsInOrder, ReportsSettled, ReportComing, Two
<1>15. \A s \in Symbols : EditComing(s) => x.symbol = s /\ x.new = ts.names[s]
  BY <1>5, <1>10 DEF EditComing
<1>16. contract' = Fresh(rust') => contract' = rust'[Decl].names BY FreshDeclares
<1> QED
  BY <1>2, <1>4, <1>5, <1>8, <1>9, <1>11, <1>13, <1>14, <1>15, <1>16, NameApplied

(* The steps that move nothing a rename depends on.                        *)
LEMMA InStepAside ==
  ASSUME TypeInv, InStep, upsets' = {},
         \/ \E i \in Instances : Connect(i) \/ Disconnect(i) \/ OnMessage(i) \/ WatchExpires(i)
         \/ \E s \in Symbols : AskRename(s)
         \/ UserTypes \/ OnRaExit
         \/ \E f \in Files : UserEditsRust(f)
         \/ UNCHANGED vars
  PROVE  InStep'
<1>1. asked # 0 => program[asked] = ts.names[asked] BY DEF InStep
<1>2. \A i \in Watching : pending[i] \in Watch /\ pending[i].symbol \in Symbols
  BY DEF Watching, TypeInv, TypeOK, Watch
<1>3. pending \in [Instances -> Watch \cup {None}] BY DEF TypeInv, TypeOK
<1>4. ASSUME UNCHANGED <<textVars, contract, program, reports, injected_renames, pending_saves>>,
             \A i \in Watching : Landed(pending[i]) => i \in Watching' /\ pending'[i] = pending[i]
      PROVE  InStep'
  <2>1. \A s \in Symbols : Landing(s) => Landing(s)'
    BY <1>4 DEF Landing, Landed, Watching, textVars
  <2>2. /\ ts'.names = ts.names /\ rust'[Decl].names = rust[Decl].names
        /\ contract' = contract /\ program' = program /\ reports' = reports /\ Edits' = Edits
        /\ InFlight => InFlight'
        /\ dirty' = dirty /\ asked' = asked
    BY <1>4 DEF textVars, Edits, Injected, Saving, InFlight
  <2>3. asked' # 0 => program[asked'] = ts.names[asked'] BY <1>1, <2>2
  <2> QED BY <2>1, <2>2, <2>3, InStepUnmoved
<1>5. ASSUME NEW i \in Instances, Connect(i) \/ Disconnect(i) \/ OnMessage(i) PROVE InStep'
  <2>1. /\ UNCHANGED <<textVars, contract, program, reports, injected_renames, pending_saves>>
        /\ pending' = pending
    BY <1>5 DEF Connect, Disconnect, OnMessage, proxyVars
  <2> QED BY <1>4, <2>1 DEF Watching
<1>6. ASSUME NEW i \in Instances, WatchExpires(i) PROVE InStep'
  <2>1. /\ UNCHANGED <<textVars, contract, program, reports, injected_renames, pending_saves>>
        /\ ~Landed(pending[i]) /\ pending' = [pending EXCEPT ![i] = None]
    BY <1>6 DEF WatchExpires, Mishap, Upset, proxyVars
  <2>2. \A h \in Watching : Landed(pending[h]) => h \in Watching' /\ pending'[h] = pending[h]
    BY <1>3, <2>1 DEF Watching
  <2> QED BY <1>4, <2>1, <2>2
<1>7. ASSUME NEW s \in Symbols, AskRename(s) PROVE InStep'
  <2>1. /\ program[s] = ts.names[s] /\ asked' = s
        /\ UNCHANGED <<ts, rust, dirty, contract, program, reports, injected_renames, pending_saves>>
        /\ \A i \in Instances : ~Marked(i, s) => pending'[i] = pending[i]
        /\ ~\E i \in Watching : Marked(i, s) /\ Landed(pending[i])
    BY <1>7 DEF AskRename, proxyVars, Upset
  <2>2. ASSUME NEW t \in Symbols, Landing(t) PROVE Landing(t)'
    <3>1. PICK i \in Watching : pending[i].symbol = t /\ Landed(pending[i])
      BY <2>2 DEF Landing
    <3>2. pending'[i] = pending[i] BY <2>1, <3>1 DEF Watching
    <3> QED BY <2>1, <3>1, <3>2 DEF Landing, Landed, Watching
  <2>3. Edits' = Edits /\ (InFlight => InFlight') BY <2>1 DEF Edits, Injected, Saving, InFlight
  <2> QED BY <2>1, <2>2, <2>3, InStepUnmoved
<1>8. CASE UserTypes
  <2>1. /\ Watching = {} /\ ts' = TypedAbove(ts) /\ asked' = 0
        /\ UNCHANGED <<rust, dirty, contract, program, reports, injected_renames, pending_saves>>
    BY <1>8 DEF UserTypes, Upset, pluginVars, proxyVars
  <2>2. ts'.names = ts.names BY <2>1, TypedText DEF TypeInv, TypeOK, TextsSpaced
  <2>3. \A s \in Symbols : ~Landing(s) BY <2>1 DEF Landing
  <2>4. Edits' = Edits /\ (InFlight => InFlight') BY <2>1 DEF Edits, Injected, Saving, InFlight
  <2> QED BY <2>1, <2>2, <2>3, <2>4, InStepUnmoved
<1>9. CASE OnRaExit
  <2>1. /\ injected_renames' = injected_renames /\ pending' = pending
        /\ UNCHANGED <<textVars, contract, program, reports, pending_saves>>
    BY <1>9 DEF OnRaExit, Upset, pluginVars
  <2> QED BY <1>4, <2>1 DEF Watching
<1>10. ASSUME NEW f \in Files, UserEditsRust(f) PROVE InStep'
  <2>1. /\ UNCHANGED <<ts, dirty, asked, contract, program, pending, reports>>
        /\ rust'[Decl].names = rust[Decl].names
        /\ Edits' = Edits /\ (InFlight => InFlight')
    <3>1. /\ rust'[f].names = rust[f].names /\ \A h \in Files \ {f} : rust'[h] = rust[h]
          /\ UNCHANGED <<ts, dirty, asked, contract, pluginVars, reports, proxyVars>>
          /\ Injected' = Injected /\ Saving' = Saving
      BY <1>10, UserEdits
    <3> QED BY <3>1, FilesAssumption DEF pluginVars, proxyVars, Edits, InFlight
  <2>2. \A s \in Symbols : Landing(s) => Landing(s)'
    BY <2>1 DEF Landing, Landed, Watching
  <2>3. asked' # 0 => program[asked'] = ts.names[asked'] BY <1>1, <2>1
  <2> QED BY <2>1, <2>2, <2>3, InStepUnmoved
<1>11. CASE UNCHANGED vars
  <2>1. /\ pending' = pending
        /\ UNCHANGED <<textVars, contract, program, reports, injected_renames, pending_saves>>
    BY <1>11 DEF vars, pluginVars, proxyVars
  <2> QED BY <1>4, <2>1 DEF Watching
<1> QED BY <1>5, <1>6, <1>7, <1>8, <1>9, <1>10, <1>11

LEMMA TrackedStep ==
  TypeInv /\ WholeInv /\ NeverGarbled' /\ Given /\ Tracked /\ [Next]_vars => Tracked'
<1> SUFFICES ASSUME TypeInv, WholeInv, NeverGarbled', Given, Tracked, [Next]_vars, upsets' = {}
             PROVE  InStep'
  BY DEF Tracked
<1>1. upsets = {} BY UpsetsGrow
<1>2. InStep /\ WatchesPlaced BY <1>1 DEF Tracked, Given, Misread
<1> QED
  BY <1>1, <1>2, InStepAside, InStepReads, InStepEditor, InStepCheck, InStepEvent, InStepApplies,
     InStepResponse
  DEF Next, Handled

LEMMA TrackedInit == Init => Tracked
<1> SUFFICES ASSUME Init PROVE InStep BY DEF Tracked
<1> PICK name \in Names \ Clumsy :
      LET names == [s \in Symbols |-> name]
          starts == [s \in Symbols |-> (s - 1) * name]
      IN  /\ contract = names /\ ts = [starts |-> starts, names |-> names]
          /\ rust = [f \in Files |-> [starts |-> starts, names |-> names,
                                      version |-> 0, garbled |-> FALSE]]
          /\ given = [s \in Symbols |-> {name}]
  BY DEF Init
<1> DEFINE names == [s \in Symbols |-> name]
<1>1. /\ contract = names /\ program = names /\ ts.names = names /\ rust[Decl].names = names
      /\ reports = <<>> /\ Len(reports) = 0 /\ asked = 0 /\ dirty = {}
  BY FilesAssumption DEF Init
<1>2. Edits = {} BY InitEmpty
<1> HIDE DEF names
<1>3. \A s \in Symbols : ReportsInOrder(s) BY <1>1 DEF ReportsInOrder
<1>4. \A s \in Symbols : EditsInOrder(s) BY <1>2 DEF EditsInOrder
<1>5. \A s \in Symbols : DeclaredInOrder(s) /\ OnItsWay(s)
  BY <1>1, <1>2 DEF DeclaredInOrder, ReportsSettled, Two, Declared, OnItsWay
<1>6. Unsaved BY <1>1 DEF Unsaved
<1> QED BY <1>1, <1>3, <1>4, <1>5, <1>6 DEF InStep

(* When all is quiet the Rust half is in all of its files or in none; and  *)
(* without a mishap both languages have the same names and all is saved.   *)
THEOREM HalvesMeet == Spec => []HalvesAgree
<1>1. Spec => [](TypeInv /\ WholeInv /\ Given /\ Tracked)
  <2>1. (TypeInv /\ WholeInv /\ Given /\ Tracked) /\ WholeInv' /\ [Next]_vars => Tracked'
    BY TrackedStep DEF WholeInv, GarbleInv
  <2> QED BY <2>1, TrackedInit, GivenInductive, WholeInductive, PTL DEF Spec
<1>2. TypeInv /\ WholeInv /\ Given /\ Tracked => HalvesAgree
  <2> SUFFICES ASSUME TypeInv, WholeInv, Tracked, Quiet
               PROVE  /\ ~Divided => \A f \in Files : rust[f].names = rust[Decl].names
                      /\ upsets = {} => dirty = {} /\ Agree
    BY DEF HalvesAgree
  <2>1. /\ Watching = {} /\ reports = <<>> /\ injected_renames = <<>> /\ pending_saves = <<>>
        /\ Edits = {} /\ ~InFlight
    BY DEF Quiet, InFlight, Edits, Injected, Saving, ToSet
  <2>2. ~Divided => Alike(rust) BY <2>1 DEF WholeInv, Whole
  <2>3. ASSUME upsets = {} PROVE dirty = {} /\ Agree
    <3>1. InStep BY <2>3 DEF Tracked
    <3>2. \A s \in Symbols : Declared(s) = ts.names[s]
      BY <2>1, <3>1 DEF InStep, OnItsWay, Landing, ReportComing, EditComing
    <3>3. dirty = {} BY <2>1, <3>1, <3>2 DEF InStep, Unsaved
    <3>4. rust[Decl].names \in [Symbols -> Spellings] /\ ts.names \in [Symbols -> Spellings]
      BY FilesAssumption DEF TypeInv, TypeOK, Text, RustText
    <3>5. rust[Decl].names = ts.names BY <3>2, <3>4 DEF Declared
    <3>6. ~Divided BY <2>3 DEF Divided
    <3> QED BY <2>2, <3>3, <3>5, <3>6 DEF Agree, Alike
  <2> QED BY <2>2, <2>3 DEF Alike
<1> QED BY <1>1, <1>2, PTL
=============================================================================
