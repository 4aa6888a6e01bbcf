---------------------------- MODULE Watch_proofs ----------------------------
(***************************************************************************)
(* Proofs about Watch, for any number of processes, sources, files and     *)
(* faults.                                                                 *)
(*                                                                         *)
(* CurrentWhenQuiet follows from Owed, that each wrong file is on some     *)
(* process's list.  Owed needs StaleNoticed: a process that overwrites or  *)
(* removes what is right does so for sources that have changed, and will   *)
(* therefore have another round, in which it owes every file.              *)
(***************************************************************************)
EXTENDS Watch, TLAPS

Inv == TypeOK /\ Phases /\ StaleNoticed /\ Owed

USE WritersAssumption, ContentsAssumption, NoneAssumption, PackagesAssumption

(* What a step of process w leaves alone: the others.                      *)
Same(u) ==
  /\ step'[u] = step[u] /\ events'[u] = events[u]
  /\ read'[u] = read[u] /\ todo'[u] = todo[u] /\ at'[u] = at[u]
  /\ u \in mixed' <=> u \in mixed
  /\ u \in excused' <=> u \in excused
  /\ u \in listening' <=> u \in listening
Alone(w) == UNCHANGED <<saved, buffer>> /\ \A u \in Writers \ {w} : Same(u)

(* A change of the sources: those who are not told miss it.                *)
LEMMA ChangedType ==
  ASSUME TypeOK, NEW told \in SUBSET Writers, NEW missed \in SUBSET Writers,
         Changed(told, missed), saved' \in Sources, buffer' \in Sources
  PROVE  TypeOK'
  BY DEF TypeOK, Changed, InRound

(* The steps of a process keep the types.                                  *)
LEMMA BeginType ==
  ASSUME TypeOK, NEW w \in Writers, ~InRound(w), Begin(w), events' \in [Writers -> Nat]
  PROVE  TypeOK'
  BY DEF TypeOK, Begin, Goto, worldVars, roundVars, InRound, Steps

LEMMA ForgetType ==
  ASSUME TypeOK, NEW w \in Writers, Forget(w), NEW s \in {"down", "idle", "install"}, Goto(w, s),
         UNCHANGED worldVars,
         disk' \in [Files -> Contents \cup {Absent, Torn}], events' \in [Writers -> Nat],
         listening' \subseteq Writers, excused' \subseteq Writers, crashes' \in Nat
  PROVE  TypeOK'
  BY DEF TypeOK, Forget, Goto, worldVars, InRound, Steps

LEMMA RoundType ==
  ASSUME TypeOK, NEW w \in Writers,
         Truncate(w) \/ Fill(w) \/ Walk(w) \/ \E f \in Files : Compare(w, f) \/ Remove(w, f) \/ RemoveFails(w, f)
  PROVE  TypeOK'
<1>1. CASE Truncate(w)
  BY <1>1 DEF TypeOK, Truncate, Goto, worldVars, roundVars, InRound, Steps
<1>2. CASE Fill(w)
  <2>1. Package(w)[at[w]] \in Contents \cup {Absent}
    BY <1>2 DEF TypeOK, Fill, Package, InRound
  <2> QED
    BY <1>2, <2>1 DEF TypeOK, Fill, Goto, worldVars, InRound, Steps
<1>3. CASE Walk(w)
  BY <1>3 DEF TypeOK, Walk, Goto, worldVars, InRound, Steps
<1>4. ASSUME NEW f \in Files, Compare(w, f) PROVE TypeOK'
  BY <1>4 DEF TypeOK, Compare, Goto, worldVars, InRound, Steps
<1>5. ASSUME NEW f \in Files, Remove(w, f) PROVE TypeOK'
  BY <1>5 DEF TypeOK, Remove, worldVars, InRound
<1>6. ASSUME NEW f \in Files, RemoveFails(w, f) PROVE TypeOK'
  BY <1>6 DEF TypeOK, RemoveFails, Faulty, worldVars, InRound
<1> QED
  BY <1>1, <1>2, <1>3, <1>4, <1>5, <1>6

LEMMA ReadType ==
  ASSUME TypeOK, NEW w \in Writers, Read(w)
  PROVE  TypeOK'
<1>1. PICK v \in Sources :
        IF v \in Broken THEN AfterRound(w)
        ELSE /\ Goto(w, "write")
             /\ mixed' = mixed \ {w}
             /\ read' = [read EXCEPT ![w] = v]
             /\ todo' = [todo EXCEPT ![w] = {f \in Files : Packages[v][f] # Absent}]
             /\ UNCHANGED at
  BY DEF Read, TypeOK, View
<1>2. UNCHANGED <<worldVars, disk, listening, events, excused, crashes>>
  BY DEF Read
<1>3. CASE v \in Broken
  BY <1>1, <1>2, <1>3, ForgetType DEF AfterRound, TypeOK, worldVars
<1>4. CASE v \notin Broken
  <2>1. step[w] = "read"
    BY DEF Read
  <2> QED
    BY <1>1, <1>2, <1>4, <2>1, SMTT(30) DEF TypeOK, Goto, worldVars, InRound, Steps
<1> QED
  BY <1>3, <1>4

LEMMA TypeStep ==
  ASSUME TypeOK, [Next]_vars
  PROVE  TypeOK'
<1>1. CASE UNCHANGED vars
  BY <1>1 DEF TypeOK, vars, roundVars, InRound
<1>2. ASSUME NEW v \in Sources, Edit(v) PROVE TypeOK'
  BY <1>2, ChangedType DEF Edit, Writers, TypeOK
<1>3. ASSUME NEW v \in Sources, NEW untold \in SUBSET Servers, Checkout(v, untold) PROVE TypeOK'
  BY <1>3, ChangedType DEF Checkout, Writers
<1>4. CASE Save
  BY <1>4, ChangedType DEF Save, TypeOK
<1>5. ASSUME NEW w \in Writers, Start(w) PROVE TypeOK'
  BY <1>5 DEF TypeOK, Start, Goto, worldVars, roundVars, InRound, Steps
<1>6. ASSUME NEW w \in Writers, FirstRound(w) \/ Pause(w) PROVE TypeOK'
  BY <1>6, BeginType DEF FirstRound, Pause, InRound, TypeOK
<1>7. ASSUME NEW w \in Writers, Hear(w) PROVE TypeOK'
  <2>1. events' \in [Writers -> Nat]
    BY <1>7 DEF Hear, Take, TypeOK
  <2>2. CASE w \in Watchers
    BY <1>7, <2>1, <2>2 DEF Hear, TypeOK, Goto, worldVars, roundVars, InRound, Steps
  <2>3. CASE w \notin Watchers
    BY <1>7, <2>1, <2>3, BeginType DEF Hear, InRound
  <2> QED
    BY <2>2, <2>3
<1>8. ASSUME NEW w \in Writers, HearMore(w) PROVE TypeOK'
  BY <1>8 DEF TypeOK, HearMore, Take, worldVars, roundVars, InRound
<1>9. ASSUME NEW w \in Writers, EndRound(w) PROVE TypeOK'
  BY <1>9, ForgetType DEF TypeOK, EndRound, AfterRound
<1>10. ASSUME NEW w \in Writers, Install(w) PROVE TypeOK'
  BY <1>10 DEF TypeOK, Install, Goto, worldVars, roundVars, InRound, Steps
<1>11. ASSUME NEW w \in Writers, WriteFails(w) PROVE TypeOK'
  BY <1>11, ForgetType DEF TypeOK, WriteFails, AfterRound, Faulty
<1>12. ASSUME NEW w \in Writers, Crash(w) PROVE TypeOK'
  BY <1>12, ForgetType DEF TypeOK, Crash, Faulty
<1> QED
  BY <1>1, <1>2, <1>3, <1>4, <1>5, <1>6, <1>7, <1>8, <1>9, <1>10, <1>11, <1>12, RoundType, ReadType
     DEF Next, Works
(***************************************************************************)
(* A step of a process concerns it alone.                                  *)
(***************************************************************************)
LEMMA WorksAlone ==
  ASSUME TypeOK, NEW w \in Writers,
         Start(w) \/ Works(w) \/ WriteFails(w) \/ Crash(w) \/ \E f \in Files : RemoveFails(w, f)
  PROVE  Alone(w)
<1>1. ASSUME Start(w) \/ WriteFails(w) \/ Crash(w) \/ \E f \in Files : RemoveFails(w, f)
      PROVE  Alone(w)
  BY <1>1 DEF TypeOK, Alone, Same, Start, WriteFails, Crash, RemoveFails, Faulty, AfterRound, Forget,
              Goto, worldVars, roundVars
<1>2. ASSUME FirstRound(w) \/ Hear(w) \/ HearMore(w) \/ Pause(w) PROVE Alone(w)
  BY <1>2 DEF TypeOK, Alone, Same, FirstRound, Hear, HearMore, Pause, Begin, Take, Goto, worldVars,
              roundVars
<1>3. ASSUME Read(w) PROVE Alone(w)
  BY <1>3 DEF TypeOK, Alone, Same, Read, AfterRound, Forget, Goto, worldVars
<1>4. ASSUME NEW f \in Files, Compare(w, f) \/ Remove(w, f) PROVE Alone(w)
  BY <1>4 DEF TypeOK, Alone, Same, Compare, Remove, Goto, worldVars
<1>5. ASSUME Truncate(w) \/ Fill(w) \/ Walk(w) \/ EndRound(w) \/ Install(w) PROVE Alone(w)
  BY <1>5 DEF TypeOK, Alone, Same, Truncate, Fill, Walk, EndRound, Install, AfterRound, Forget, Goto,
              worldVars, roundVars
<1> QED
  BY <1>1, <1>2, <1>3, <1>4, <1>5 DEF Works

(* An invariant of each process is kept by a step of one that keeps its    *)
(* own.                                                                    *)
Notices(w) == w \in mixed \/ (InRound(w) /\ read[w] # View(w)) => w \in excused \/ events[w] > 0
Phase(w) ==
  /\ w \in mixed => step[w] = "read"
  /\ step[w] = "down" => events[w] = 0 /\ w \notin listening
  /\ step[w] = "prune" => todo[w] \cap Printed(w) = {}
Keeps(w, f) == (Right(f) \/ Owes(w, f)) => (Right(f)' \/ Owes(w, f)')

LEMMA AloneKeeps ==
  ASSUME Inv, NEW w \in Writers, Alone(w), Phase(w)', Notices(w)',
         Settled => \A f \in Files : Keeps(w, f)
  PROVE  Phases' /\ StaleNoticed' /\ Owed'
<1>1. Phases'
  BY DEF Inv, Phases, Phase, Alone, Same, Printed, Package
<1>2. StaleNoticed'
  BY DEF Inv, StaleNoticed, Notices, Alone, Same, InRound, View
<1>3. Owed'
  <2> SUFFICES ASSUME Settled, NEW f \in Files
               PROVE  Right(f)' \/ \E u \in Writers : Owes(u, f)'
    BY DEF Owed, Settled, Alone
  <2>1. CASE Right(f) \/ Owes(w, f)
    BY <2>1 DEF Keeps
  <2>2. CASE \E u \in Writers \ {w} : Owes(u, f)
    <3>1. PICK u \in Writers \ {w} : Owes(u, f)
      BY <2>2
    <3>2. Same(u)
      BY DEF Alone
    <3>3. Owes(u, f)'
      BY <3>1, <3>2 DEF Owes, Same, Printed, Package
    <3> QED
      BY <3>3
  <2> QED
    BY <2>1, <2>2 DEF Inv, Owed
<1> QED
  BY <1>1, <1>2, <1>3

Kept(w) == Phase(w)' /\ Notices(w)' /\ (Settled => \A f \in Files : Keeps(w, f))

(* What is true of one process.                                            *)
LEMMA Own ==
  ASSUME Inv, NEW w \in Writers
  PROVE  TypeOK /\ Phase(w) /\ Notices(w)
  BY DEF Inv, Phases, Phase, StaleNoticed, Notices

(* A process whose round is of the sources as they are prints what is      *)
(* right; another one owes every file.                                     *)
LEMMA PrintsRight ==
  ASSUME Inv, Settled, NEW w \in Writers, InRound(w), w \notin excused, ~(events[w] > 0)
  PROVE  read[w] = saved /\ Package(w) = Packages[saved]
  BY Own DEF Settled, Notices, View, Package

LEMMA StartKept ==
  ASSUME Inv, NEW w \in Writers, Start(w)
  PROVE  Kept(w)
<1>1. Phase(w)' /\ Notices(w)'
  BY Own DEF Start, TypeOK, Phase, Notices, Goto, worldVars, roundVars, InRound
<1>2. ASSUME NEW f \in Files PROVE Keeps(w, f)
  BY Own DEF Start, TypeOK, Phase, Keeps, Owes, Right, Goto, worldVars, roundVars
<1> QED
  BY <1>1, <1>2 DEF Kept

LEMMA BeginKept ==
  ASSUME Inv, NEW w \in Writers, step[w] \in {"boot", "idle", "debounce"}, Begin(w)
  PROVE  Kept(w)
<1>1. Phase(w)' /\ Notices(w)'
  BY Own DEF Begin, TypeOK, Phase, Notices, Goto, worldVars, roundVars, InRound
<1>2. ASSUME NEW f \in Files PROVE Keeps(w, f)
  BY DEF Inv, Begin, TypeOK, Keeps, Owes, Goto
<1> QED
  BY <1>1, <1>2 DEF Kept

LEMMA HearKept ==
  ASSUME Inv, NEW w \in Writers, Hear(w) \/ HearMore(w)
  PROVE  Kept(w)
<1>1. CASE Hear(w) /\ w \notin Watchers
  BY <1>1, BeginKept DEF Hear
<1>2. CASE (Hear(w) /\ w \in Watchers) \/ HearMore(w)
  <2>1. step[w] \in {"idle", "debounce"} /\ step'[w] = "debounce"
    BY <1>2 DEF Inv, TypeOK, Hear, HearMore, Goto
  <2>2. UNCHANGED <<saved, buffer, listening, mixed, read, todo>>
    BY <1>2 DEF Hear, HearMore, worldVars, roundVars
  <2>3. Phase(w)' /\ Notices(w)'
    BY Own, <2>1, <2>2 DEF Phase, Notices, InRound
  <2>4. ASSUME NEW f \in Files PROVE Keeps(w, f)
    BY <2>1 DEF Keeps, Owes
  <2> QED
    BY <2>3, <2>4 DEF Kept
<1> QED
  BY <1>1, <1>2

(* A round of sources that make no package is of sources that have changed,*)
(* or there is nothing to keep.                                            *)
LEMMA ReadKept ==
  ASSUME Inv, NEW w \in Writers, Read(w)
  PROVE  Kept(w)
<1>1. PICK v \in IF w \in mixed \/ (w \in Servers /\ events[w] > 0) THEN Sources ELSE {View(w)} :
        IF v \in Broken THEN AfterRound(w)
        ELSE /\ Goto(w, "write")
             /\ mixed' = mixed \ {w}
             /\ read' = [read EXCEPT ![w] = v]
             /\ todo' = [todo EXCEPT ![w] = {f \in Files : Packages[v][f] # Absent}]
             /\ UNCHANGED at
  BY DEF Read
<1>2. step[w] = "read" /\ UNCHANGED <<worldVars, disk, listening, events, excused, crashes>>
  BY DEF Read
<1>3. v \in Sources /\ (v = View(w) \/ w \in excused \/ events[w] > 0)
  BY <1>1, Own DEF Notices, TypeOK, View
<1>4. CASE v \in Broken
  <2>1. step'[w] \in {"idle", "install"} /\ w \notin mixed'
    BY <1>1, <1>4, Own DEF AfterRound, Forget, Goto, TypeOK
  <2>2. Phase(w)' /\ Notices(w)'
    BY <2>1 DEF Phase, Notices, InRound
  <2>3. ASSUME Settled, NEW f \in Files PROVE Keeps(w, f)
    BY <1>2, <1>3, <1>4, <2>3 DEF Settled, View, Keeps, Owes
  <2> QED
    BY <2>2, <2>3 DEF Kept
<1>5. CASE v \notin Broken
  <2>1. step'[w] = "write" /\ w \notin mixed' /\ read'[w] = v
        /\ todo'[w] = {f \in Files : Packages[v][f] # Absent}
    BY <1>1, <1>5, Own DEF Goto, TypeOK
  <2>2. Phase(w)' /\ Notices(w)'
    BY <1>2, <1>3, <2>1 DEF Phase, Notices, View, worldVars
  <2>3. ASSUME NEW f \in Files PROVE Keeps(w, f)
    BY <2>1 DEF Keeps, Owes, Printed, Package
  <2> QED
    BY <2>2, <2>3 DEF Kept
<1> QED
  BY <1>4, <1>5

(* The writing of a round.  When the process owes nothing else, what it    *)
(* has read are the sources, and what it writes or removes is right.       *)
LEMMA CompareKept ==
  ASSUME Inv, NEW w \in Writers, NEW g \in Files, Compare(w, g)
  PROVE  Kept(w)
<1>1. step[w] = "write" /\ UNCHANGED <<worldVars, disk, listening, events, mixed, read, excused>>
  BY DEF Compare
<1>2. step'[w] \in {"write", "open"} /\ todo'[w] = todo[w] \ {g}
      /\ (disk[g] # Package(w)[g] => step'[w] = "open" /\ at'[w] = g)
  BY Own DEF Compare, Goto, TypeOK
<1>3. Phase(w)' /\ Notices(w)'
  BY <1>1, <1>2, Own DEF Phase, Notices, InRound, View, worldVars
<1>4. ASSUME Settled, NEW f \in Files PROVE Keeps(w, f)
  <2>1. CASE w \in excused \/ events[w] > 0
    BY <1>1, <2>1 DEF Keeps, Owes
  <2>2. CASE w \notin excused /\ ~(events[w] > 0)
    <3>1. Package(w) = Packages[saved]
      BY <1>1, <1>4, <2>2, PrintsRight DEF InRound
    <3>2. Package(w)' = Package(w) /\ Printed(w)' = Printed(w)
      BY <1>1 DEF Package, Printed
    <3>3. CASE f = g
      BY <1>1, <1>2, <3>1, <3>3 DEF Keeps, Owes, Right, worldVars
    <3>4. CASE f # g
      BY <1>1, <1>2, <3>2, <3>4 DEF Keeps, Owes, Right, worldVars
    <3> QED
      BY <3>3, <3>4
  <2> QED
    BY <2>1, <2>2
<1> QED
  BY <1>3, <1>4 DEF Kept

LEMMA TruncateKept ==
  ASSUME Inv, NEW w \in Writers, Truncate(w)
  PROVE  Kept(w)
<1>1. step[w] = "open" /\ UNCHANGED <<worldVars, listening, events, roundVars, excused>>
  BY DEF Truncate
<1>2. step'[w] = "fill" /\ \A f \in Files : f # at[w] => disk'[f] = disk[f]
  BY Own DEF Truncate, Goto, TypeOK
<1>3. Phase(w)' /\ Notices(w)'
  BY <1>1, <1>2, Own DEF Phase, Notices, InRound, View, worldVars, roundVars
<1>4. ASSUME NEW f \in Files PROVE Keeps(w, f)
  BY <1>1, <1>2 DEF Keeps, Owes, Right, Printed, Package, worldVars, roundVars
<1> QED
  BY <1>3, <1>4 DEF Kept

LEMMA FillKept ==
  ASSUME Inv, NEW w \in Writers, Fill(w)
  PROVE  Kept(w)
<1>1. step[w] = "fill" /\ UNCHANGED <<worldVars, listening, events, mixed, read, todo, excused>>
  BY DEF Fill
<1>2. step'[w] = "write" /\ disk' = [disk EXCEPT ![at[w]] = Package(w)[at[w]]]
  BY Own DEF Fill, Goto, TypeOK
<1>3. Phase(w)' /\ Notices(w)'
  BY <1>1, <1>2, Own DEF Phase, Notices, InRound, View, worldVars
<1>4. ASSUME Settled, NEW f \in Files PROVE Keeps(w, f)
  <2>1. CASE w \in excused \/ events[w] > 0
    BY <1>1, <2>1 DEF Keeps, Owes
  <2>2. CASE f # at[w]
    <3>1. Right(f)' <=> Right(f)
      BY <1>1, <1>2, <2>2, Own DEF Right, TypeOK, worldVars
    <3> QED
      BY <1>1, <1>2, <2>2, <3>1 DEF Keeps, Owes, Printed, Package
  <2>3. CASE w \notin excused /\ ~(events[w] > 0) /\ f = at[w]
    <3>1. Package(w) = Packages[saved]
      BY <1>1, <1>4, <2>3, PrintsRight DEF InRound
    <3>2. disk'[f] = Package(w)[f]
      BY <1>2, <2>3, Own DEF TypeOK
    <3> QED
      BY <1>1, <3>1, <3>2 DEF Keeps, Right, worldVars
  <2> QED
    BY <2>1, <2>2, <2>3
<1> QED
  BY <1>3, <1>4 DEF Kept

LEMMA WalkKept ==
  ASSUME Inv, NEW w \in Writers, Walk(w)
  PROVE  Kept(w)
<1>1. /\ step[w] = "write" /\ todo[w] = {}
      /\ UNCHANGED <<worldVars, disk, listening, events, mixed, read, at, excused>>
  BY DEF Walk
<1>2. /\ step'[w] = "prune"
      /\ todo'[w] = {f \in Files : disk[f] # Absent /\ f \notin Printed(w)}
  BY Own DEF Walk, Goto, TypeOK
<1>3. Phase(w)' /\ Notices(w)'
  BY <1>1, <1>2, Own DEF Phase, Notices, InRound, View, Printed, Package, worldVars
<1>4. ASSUME Settled, NEW f \in Files PROVE Keeps(w, f)
  <2>1. CASE w \in excused \/ events[w] > 0
    BY <1>1, <2>1 DEF Keeps, Owes
  <2>2. CASE w \notin excused /\ ~(events[w] > 0)
    <3>1. Package(w) = Packages[saved]
      BY <1>1, <1>4, <2>2, PrintsRight DEF InRound
    <3>2. CASE f \in Printed(w)
      BY <1>1, <2>2, <3>2 DEF Keeps, Owes, Right, worldVars
    <3>3. CASE f \notin Printed(w)
      BY <1>1, <1>2, <3>1, <3>3 DEF Keeps, Owes, Right, Printed, worldVars
    <3> QED
      BY <3>2, <3>3
  <2> QED
    BY <2>1, <2>2
<1> QED
  BY <1>3, <1>4 DEF Kept

LEMMA RemoveKept ==
  ASSUME Inv, NEW w \in Writers, NEW g \in Files, Remove(w, g)
  PROVE  Kept(w)
<1>1. /\ step[w] = "prune" /\ g \in todo[w]
      /\ UNCHANGED <<worldVars, step, listening, events, mixed, read, at, excused>>
  BY DEF Remove
<1>2. todo'[w] = todo[w] \ {g} /\ disk' = [disk EXCEPT ![g] = Absent]
  BY Own DEF Remove, TypeOK
<1>3. Phase(w)' /\ Notices(w)'
  BY <1>1, <1>2, Own DEF Phase, Notices, InRound, View, Printed, Package, worldVars
<1>4. ASSUME Settled, NEW f \in Files PROVE Keeps(w, f)
  <2>1. CASE w \in excused \/ events[w] > 0
    BY <1>1, <2>1 DEF Keeps, Owes
  <2>2. CASE f # g
    <3>1. Right(f)' <=> Right(f)
      BY <1>1, <1>2, <2>2, Own DEF Right, TypeOK, worldVars
    <3> QED
      BY <1>1, <1>2, <2>2, <3>1 DEF Keeps, Owes, Printed, Package
  <2>3. CASE w \notin excused /\ ~(events[w] > 0) /\ f = g
    <3>1. Package(w) = Packages[saved]
      BY <1>1, <1>4, <2>3, PrintsRight DEF InRound
    <3>2. g \notin Printed(w)
      BY <1>1, Own DEF Phase
    <3>3. disk'[f] = Absent /\ Packages[saved][f] = Absent
      BY <1>2, <2>3, <3>1, <3>2, Own DEF Printed, TypeOK
    <3> QED
      BY <1>1, <3>3 DEF Keeps, Right, worldVars
  <2> QED
    BY <2>1, <2>2, <2>3
<1> QED
  BY <1>3, <1>4 DEF Kept

LEMMA EndKept ==
  ASSUME Inv, NEW w \in Writers, EndRound(w) \/ Install(w)
  PROVE  Kept(w)
<1>1. /\ step[w] = "install" \/ (step[w] = "prune" /\ todo[w] = {})
      /\ UNCHANGED <<worldVars, disk, events, excused>>
  BY DEF EndRound, Install
<1>2. step'[w] \in {"idle", "install"} /\ w \notin mixed'
  BY Own DEF EndRound, Install, AfterRound, Forget, Goto, TypeOK, Phase, roundVars
<1>3. Phase(w)' /\ Notices(w)'
  BY <1>2 DEF Phase, Notices, InRound
<1>4. ASSUME NEW f \in Files PROVE Keeps(w, f)
  BY <1>1 DEF Keeps, Owes, Right, worldVars
<1> QED
  BY <1>3, <1>4 DEF Kept

(* Who fails is excused.                                                   *)
LEMMA FaultKept ==
  ASSUME Inv, NEW w \in Writers,
         WriteFails(w) \/ Crash(w) \/ \E f \in Files : RemoveFails(w, f)
  PROVE  Kept(w)
<1>1. CASE WriteFails(w)
  <2>1. w \in excused' /\ w \notin mixed' /\ step'[w] \in {"idle", "install"}
    BY <1>1, Own DEF WriteFails, AfterRound, Forget, Goto, TypeOK
  <2> QED
    BY <2>1 DEF Kept, Phase, Notices, Keeps, Owes
<1>2. ASSUME NEW g \in Files, RemoveFails(w, g) PROVE Kept(w)
  <2>1. /\ w \in excused' /\ todo'[w] = todo[w] \ {g}
        /\ UNCHANGED <<step, listening, events, mixed, read>>
    BY <1>2, Own DEF RemoveFails, TypeOK
  <2> QED
    BY <2>1, Own DEF Kept, Phase, Notices, Keeps, Owes, Printed, Package
<1>3. CASE Crash(w)
  <2>1. /\ step'[w] = "down" /\ events'[w] = 0 /\ w \notin listening' /\ w \notin mixed'
        /\ UNCHANGED <<saved, disk>>
        /\ w \in excused' \/ (step[w] = "idle" /\ ~(events[w] > 0) /\ excused' = excused)
    BY <1>3, Own DEF Crash, Faulty, Forget, Goto, TypeOK, worldVars
  <2>2. ASSUME NEW f \in Files PROVE Keeps(w, f)
    BY <2>1 DEF Keeps, Owes, Right
  <2> QED
    BY <2>1, <2>2 DEF Kept, Phase, Notices, InRound
<1> QED
  BY <1>1, <1>2, <1>3

(***************************************************************************)
(* A change of the sources: whoever it concerns hears of it or misses it,  *)
(* and owes every file.                                                    *)
(***************************************************************************)
LEMMA ChangeKept ==
  ASSUME Inv, NEW told \in SUBSET Writers, NEW missed \in SUBSET Writers, Changed(told, missed),
         \E w \in Writers : w \in told \cup missed,
         \A w \in Writers \ (told \cup missed) : View(w)' = View(w)
  PROVE  Phases' /\ StaleNoticed' /\ Owed'
<1>1. \A w \in told \cup missed : w \in excused' \/ events'[w] > 0
  BY DEF Changed, Inv, TypeOK
<1>2. \A w \in Writers :
        /\ step'[w] = step[w] /\ read'[w] = read[w] /\ todo'[w] = todo[w]
        /\ w \in listening' <=> w \in listening
        /\ events[w] > 0 => events'[w] > 0
        /\ w \in excused => w \in excused'
        /\ w \in mixed' => w \in mixed \/ (w \in told \cup missed /\ step[w] = "read")
        /\ w \notin listening => events'[w] = events[w]
  BY DEF Changed, Inv, TypeOK
<1>3. Phases'
  BY <1>2 DEF Inv, Phases, Printed, Package
<1>4. StaleNoticed'
  <2> SUFFICES ASSUME NEW w \in Writers PROVE Notices(w)'
    BY DEF StaleNoticed, Notices
  <2>1. CASE w \in told \cup missed
    BY <1>1, <2>1 DEF Notices
  <2>2. CASE w \notin told \cup missed
    <3>1. View(w)' = View(w)
      BY <2>2
    <3> QED
      BY <1>2, <2>2, <3>1, Own DEF Notices, InRound
  <2> QED
    BY <2>1, <2>2
<1>5. Owed'
  BY <1>1 DEF Owed, Owes
<1> QED
  BY <1>3, <1>4, <1>5

LEMMA Start0 == Init => Inv
<1> SUFFICES ASSUME Init PROVE Inv
  OBVIOUS
<1>1. TypeOK
  BY DEF Init, TypeOK, Steps, InRound
<1>2. Phases /\ StaleNoticed
  BY DEF Init, Phases, StaleNoticed, InRound
<1>3. Owed
  BY DEF Init, Owed, Owes
<1> QED
  BY <1>1, <1>2, <1>3 DEF Inv

LEMMA NextKeeps == Inv /\ [Next]_vars => Inv'
<1> SUFFICES ASSUME Inv, [Next]_vars PROVE Inv'
  OBVIOUS
<1>1. TypeOK'
  BY TypeStep DEF Inv
<1> SUFFICES Phases' /\ StaleNoticed' /\ Owed'
  BY <1>1 DEF Inv
<1>2. CASE UNCHANGED vars
  BY <1>2 DEF Inv, vars, roundVars, Phases, StaleNoticed, Owed, Owes, Settled, Right, InRound, View,
              Printed, Package
<1>3. ASSUME NEW v \in Sources, Edit(v) PROVE Phases' /\ StaleNoticed' /\ Owed'
  BY <1>3, ChangeKept DEF Edit, Writers, View
<1>4. ASSUME NEW v \in Sources, NEW untold \in SUBSET Servers, Checkout(v, untold)
      PROVE  Phases' /\ StaleNoticed' /\ Owed'
  BY <1>4, ChangeKept DEF Checkout, Writers
<1>5. CASE Save
  BY <1>5, ChangeKept DEF Save
<1>6. ASSUME NEW w \in Writers,
             Start(w) \/ Works(w) \/ WriteFails(w) \/ Crash(w) \/ \E f \in Files : RemoveFails(w, f)
      PROVE  Phases' /\ StaleNoticed' /\ Owed'
  <2>1. Alone(w)
    BY <1>6, WorksAlone DEF Inv
  <2>2. FirstRound(w) \/ Pause(w) => Kept(w)
    BY BeginKept DEF FirstRound, Pause
  <2>3. Kept(w)
    BY <1>6, <2>2, StartKept, HearKept, ReadKept, CompareKept, TruncateKept, FillKept, WalkKept,
       RemoveKept, EndKept, FaultKept DEF Works
  <2> QED
    BY <2>1, <2>3, AloneKeeps DEF Kept
<1> QED
  BY <1>2, <1>3, <1>4, <1>5, <1>6 DEF Next

(* The types are as declared, whatever the processes, the editor and the   *)
(* faults do.                                                              *)
THEOREM Types == Spec => []TypeOK
  BY Start0, NextKeeps, PTL DEF Spec, Inv

(* A round of sources that have changed since is followed by another: the  *)
(* watcher's channel and the server's queue keep what came meanwhile       *)
(* (main.rs:302, proxy.rs:585).                                            *)
THEOREM StaleAreNoticed == Spec => []StaleNoticed
  BY Start0, NextKeeps, PTL DEF Spec, Inv

(* While the sources make a package and none are unsaved, each file of it  *)
(* that is wrong, torn or left over is on the list of some process         *)
(* (write_package, gen/mod.rs:110-140), however many write it at once.     *)
THEOREM OwedAlways == Spec => []Owed
  BY Start0, NextKeeps, PTL DEF Spec, Inv

(* When all have come to rest the package on disk is that of the sources,  *)
(* unless a process failed or missed a change.                             *)
THEOREM CurrentAtRest == Spec => []CurrentWhenQuiet
<1>1. Inv => CurrentWhenQuiet
  <2> SUFFICES ASSUME Inv, Settled, Quiet PROVE disk = Packages[saved]
    BY DEF CurrentWhenQuiet
  <2>1. \A w \in Writers, f \in Files : ~Owes(w, f)
    BY DEF Quiet, Owes, Inv, TypeOK
  <2>2. \A f \in Files : disk[f] = Packages[saved][f]
    BY <2>1 DEF Inv, Owed, Right
  <2>3. disk \in [Files -> Contents \cup {Absent, Torn}] /\ saved \in Sources
    BY DEF Inv, TypeOK
  <2> QED
    BY <2>2, <2>3
<1> QED
  BY <1>1, Start0, NextKeeps, PTL DEF Spec
=============================================================================
