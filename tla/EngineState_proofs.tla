-------------------------- MODULE EngineState_proofs --------------------------
(***************************************************************************)
(* Proofs about EngineState, for any number of packages, edits, rebuilds   *)
(* and children.                                                           *)
(*                                                                         *)
(* That the editor and the plugins have what the last round made needs     *)
(* NoSnapshotPanicked, that only a panic leaves the engine without a       *)
(* snapshot, because a request then rebuilds and drops what it rebuilt.    *)
(* That the plugins' marks are those on disk needs SnapshotOnDisk, the same*)
(* of the snapshot they are taken from.                                    *)
(***************************************************************************)
EXTENDS EngineState, TLAPS

(* After the first round only a panic leaves no snapshot.                  *)
NoSnapshotPanicked == generation # 0 /\ ~snapshot => panicked

(* What the snapshot holds is on disk, unless its last write failed.       *)
SnapshotOnDisk ==
  \A p \in Packages :
    packages[p].usable /\ packages[p].rev # disk[p] => p \in unwritten

Inv ==
  /\ TypeOK
  /\ NoSnapshotPanicked
  /\ ShownIsMerged
  /\ CurrentUnlessPanicked
  /\ PluginsCurrent
  /\ SnapshotOnDisk
  /\ MarksMatchDisk

USE PackagesAssumption, KindsAssumption, EngineBoundsAssumption

Sources == [Packages -> [kind : Kinds, rev : Revisions]]

-----------------------------------------------------------------------------
(* What a rebuild makes of one package.                                    *)
LEMMA RebuiltType ==
  ASSUME TypeOK, NEW p \in Packages, NEW s \in [kind : Kinds, rev : Revisions]
  PROVE  Rebuilt(p, s) \in Package
<1> DEFINE D(code, rev) == Diagnosed(code, p, rev)
<1>1. D("broken", s.rev) \in Diagnostic /\ D("write-failed", s.rev) \in Diagnostic
  BY DEF Diagnosed, Diagnostic
<1>2. packages[p] \in Package
  BY DEF TypeOK
<1> HIDE DEF D
<1>3. CASE s.kind = "good"
  BY <1>1, <1>3 DEF Rebuilt, Package, D
<1>4. CASE s.kind = "unknown"
  BY <1>2, <1>4 DEF Rebuilt
<1>5. CASE s.kind \notin {"good", "unknown"}
  BY <1>1, <1>2, <1>5 DEF Rebuilt, Package, D
<1> QED
  BY <1>3, <1>4, <1>5

LEMMA AbsentType == Absent \in Package /\ 0 \in Revisions
  BY DEF Absent, Package, Revisions

LEMMA GlobalType ==
  ASSUME NEW s, NEW loads \in BOOLEAN
  PROVE  Global(s, loads) \subseteq Diagnostic
  BY DEF Global, Diagnosed, Diagnostic, Revisions

(* ensure_fresh and refresh keep the types.                                *)
LEMMA CompletesType ==
  ASSUME TypeOK, NEW s \in Sources, NEW loads \in BOOLEAN, Completes(s, loads)
  PROVE  /\ snapshot' \in BOOLEAN /\ packages' \in [Packages -> Package]
         /\ reported' \in [Files -> SUBSET Diagnostic] /\ panicked' \in BOOLEAN
<1> DEFINE built == [p \in Packages |-> IF loads THEN Rebuilt(p, s[p]) ELSE Absent]
           all == Global(s, loads) \cup UNION {built[p].diagnostics : p \in Packages}
<1>1. /\ snapshot' = TRUE /\ packages' = built /\ reported' = ByFile(all)
      /\ UNCHANGED panicked
  BY DEF Completes
<1>2. \A p \in Packages : built[p] \in Package
  BY RebuiltType, AbsentType DEF Sources
<1>3. \A p \in Packages : built[p].diagnostics \subseteq Diagnostic
  BY <1>2 DEF Package
<1> HIDE DEF built
<1>4. all \subseteq Diagnostic
  BY <1>3, GlobalType
<1> HIDE DEF all
<1>5. ByFile(all) \in [Files -> SUBSET Diagnostic]
  BY <1>4 DEF ByFile
<1>6. built \in [Packages -> Package]
  BY <1>2 DEF built
<1> QED
  BY <1>1, <1>5, <1>6 DEF TypeOK

LEMMA EnsureFreshType ==
  ASSUME TypeOK, NEW dirty \in BOOLEAN, NEW s \in Sources, NEW loads \in BOOLEAN,
         EnsureFresh(dirty, s, loads)
  PROVE  /\ generation' \in Nat /\ generation' >= generation
         /\ snapshot' \in BOOLEAN /\ packages' \in [Packages -> Package]
         /\ reported' \in [Files -> SUBSET Diagnostic] /\ panicked' \in BOOLEAN
         /\ disk' \in [Packages -> Revisions] /\ unwritten' \subseteq Packages
<1>1. CASE ~dirty /\ snapshot
  BY <1>1 DEF EnsureFresh, TypeOK, engineVars
<1>2. CASE ~(~dirty /\ snapshot)
  <2>1. generation' = generation + 1 /\ (Completes(s, loads) \/ Unwinds(s, loads))
    BY <1>2 DEF EnsureFresh
  <2>2. disk' \in [Packages -> Revisions]
    <3>1. PICK torn \in SUBSET Packages :
            disk' = [p \in Packages |-> IF p \in Reached(s, loads)
                                        THEN Written(p, s[p], torn) ELSE disk[p]]
      BY <1>2 DEF EnsureFresh
    <3>2. \A p \in Packages : Written(p, s[p], torn) \in Revisions /\ disk[p] \in Revisions
      BY AbsentType DEF Written, TypeOK, Sources
    <3> QED
      BY <3>1, <3>2
  <2>5. unwritten' \subseteq Packages
    BY <1>2 DEF EnsureFresh, Printed, Reached, TypeOK
  <2>3. CASE Completes(s, loads)
    BY <2>1, <2>2, <2>3, <2>5, CompletesType DEF TypeOK
  <2>4. CASE Unwinds(s, loads)
    <3>1. NoPackages \in [Packages -> Package] /\ NoDiagnostics \in [Files -> SUBSET Diagnostic]
      BY AbsentType DEF NoPackages, NoDiagnostics
    <3>2. /\ snapshot' \in BOOLEAN /\ packages' \in [Packages -> Package]
          /\ reported' \in [Files -> SUBSET Diagnostic] /\ panicked' \in BOOLEAN
      BY <2>4, <3>1, Zenon DEF Unwinds
    <3> QED
      BY <2>1, <2>2, <2>5, <3>2 DEF TypeOK
  <2> QED
    BY <2>1, <2>3, <2>4
<1> QED
  BY <1>1, <1>2

(* The counters, the caches at the editor and the hub's copy.              *)
LEMMA RefreshType ==
  ASSUME TypeOK, NEW s \in Sources, NEW loads \in BOOLEAN, Refresh(s, loads),
         UNCHANGED <<writable, raVars>>,
         sources' \in Sources, config' \in BOOLEAN, edits' \in 0..MaxEdits
  PROVE  TypeOK'
<1>1. EnsureFresh(TRUE, s, loads)
  BY DEF Refresh
<1>2. /\ generation' \in Nat /\ generation' >= generation
      /\ snapshot' \in BOOLEAN /\ packages' \in [Packages -> Package]
      /\ reported' \in [Files -> SUBSET Diagnostic] /\ panicked' \in BOOLEAN
      /\ disk' \in [Packages -> Revisions] /\ unwritten' \subseteq Packages
  BY <1>1, EnsureFreshType
<1>3. CASE snapshot'
  <2>1. Publish /\ Push
    BY <1>3 DEF Refresh
  <2>2. our_diagnostics' \in [Files -> SUBSET Diagnostic]
    BY <1>2, <2>1 DEF Publish, TypeOK
  <2>3. \A f \in Files : FromRa(f) \in 0..child
    BY DEF TypeOK, FromRa, Files, Toml, Packages
  <2>4. shown' \in [Files -> [ours : SUBSET Diagnostic, ra : 0..child]]
    BY <1>2, <2>1, <2>3 DEF Publish, TypeOK, Merged
  <2>5. hub' \in [Packages -> [rev : Revisions, usable : BOOLEAN]]
    BY <1>2, <2>1 DEF Push, TypeOK, Package, Marks
  <2>6. pushed_generation' \in 0..generation' /\ behind' \subseteq Packages
    BY <1>2, <2>1 DEF Push
  <2> QED
    BY <1>2, <2>2, <2>4, <2>5, <2>6 DEF TypeOK, raVars, Sources
<1>4. CASE ~snapshot'
  <2>1. UNCHANGED <<editorVars, pushed_generation, hub>> /\ behind' \subseteq Packages
    BY <1>4 DEF Refresh, NoPush, Printed, Reached, TypeOK
  <2> QED
    BY <1>2, <2>1 DEF TypeOK, raVars, editorVars, Sources
<1> QED
  BY <1>3, <1>4

LEMMA EditedType ==
  ASSUME TypeOK, edits < MaxEdits, NEW p \in Packages, NEW kind \in Kinds
  PROVE  Edited(p, kind) \in Sources /\ edits + 1 \in 0..MaxEdits
<1>1. edits + 2 \in Revisions /\ edits + 1 \in 0..MaxEdits
  BY DEF TypeOK, Revisions
<1> QED
  BY <1>1 DEF TypeOK, Edited, Sources

LEMMA InitType == Init => TypeOK
<1> SUFFICES ASSUME Init PROVE TypeOK
  OBVIOUS
<1>1. 1 \in Revisions /\ 0 \in Revisions /\ child \in 0..MaxChildren
  BY DEF Init, Revisions
<1>2. NoPackages \in [Packages -> Package] /\ NoDiagnostics \in [Files -> SUBSET Diagnostic]
  BY AbsentType DEF NoPackages, NoDiagnostics
<1>3. sources \in [Packages -> [kind : Kinds, rev : Revisions]]
  BY <1>1 DEF Init
<1>4. shown \in [Files -> [ours : SUBSET Diagnostic, ra : 0..child]]
  BY <1>1 DEF Init
<1>5. snapshot \in BOOLEAN /\ panicked \in BOOLEAN /\ writable \in BOOLEAN
  BY Zenon DEF Init
<1> QED
  BY <1>1, <1>2, <1>3, <1>4, <1>5 DEF Init, TypeOK

(* Every step keeps the types.                                             *)
LEMMA StepType ==
  ASSUME TypeOK, [Next]_vars
  PROVE  TypeOK'
<1>1. CASE Start
  BY <1>1, RefreshType DEF Start, TypeOK, Sources, worldVars
<1>2. ASSUME NEW p \in Packages, NEW kind \in Kinds, EditorEdits(p, kind)
      PROVE  TypeOK'
  BY <1>2, RefreshType, EditedType DEF EditorEdits, TypeOK
<1>3. ASSUME NEW p \in Packages, NEW kind \in Kinds, DiskEdits(p, kind)
      PROVE  TypeOK'
  BY <1>3, EditedType DEF DiskEdits, TypeOK, Sources, engineVars, editorVars, raVars, hubVars
<1>4. CASE EditorEditsConfig
  <2>1. config' \in BOOLEAN
    BY <1>4, Zenon DEF EditorEditsConfig
  <2>2. edits' \in 0..MaxEdits
    BY <1>4 DEF EditorEditsConfig, TypeOK
  <2> QED
    BY <1>4, <2>1, <2>2, RefreshType DEF EditorEditsConfig, TypeOK, Sources
<1>5. CASE PermissionsChange
  <2>1. writable' \in BOOLEAN
    BY <1>5, Zenon DEF PermissionsChange
  <2> QED
    BY <1>5, <2>1 DEF PermissionsChange, TypeOK, engineVars, editorVars, raVars, hubVars
<1>6. CASE Notified
  <2>1. /\ Refresh(sources, config) /\ UNCHANGED <<writable, raVars>>
        /\ sources' \in Sources /\ config' \in BOOLEAN /\ edits' \in 0..MaxEdits
        /\ sources \in Sources /\ config \in BOOLEAN
    BY <1>6 DEF Notified, TypeOK, Sources, worldVars
  <2> QED
    BY <2>1, RefreshType
<1>7. CASE Requested
  <2>1. EnsureFresh(FALSE, sources, config) /\ sources \in Sources /\ config \in BOOLEAN
    BY <1>7 DEF Requested, TypeOK, Sources
  <2>2. /\ generation' \in Nat /\ generation' >= generation
        /\ snapshot' \in BOOLEAN /\ packages' \in [Packages -> Package]
        /\ reported' \in [Files -> SUBSET Diagnostic] /\ panicked' \in BOOLEAN
        /\ disk' \in [Packages -> Revisions] /\ unwritten' \subseteq Packages
    BY <2>1, EnsureFreshType
  <2>3. UNCHANGED <<pushed_generation, hub>> /\ behind' \subseteq Packages
    BY <1>7 DEF Requested, NoPush, Printed, Reached, TypeOK
  <2> QED
    BY <1>7, <2>2, <2>3 DEF Requested, TypeOK, worldVars, editorVars, raVars
<1>8. ASSUME NEW p \in Packages, NEW some \in BOOLEAN, RaPublishes(p, some)
      PROVE  TypeOK'
  BY <1>8 DEF RaPublishes, TypeOK, worldVars, engineVars, hubVars, Merged, Files
<1>9. CASE RaExits
  <2>1. child' \in 0..MaxChildren /\ child' >= child /\ child \in Nat
    <3>1. child \in 0..MaxChildren
      BY DEF TypeOK
    <3>2. child' = child \/ (child' = child + 1 /\ child < MaxChildren)
      BY <1>9 DEF RaExits
    <3> QED
      BY <3>1, <3>2
  <2>2. 0..child \subseteq 0..child'
    BY <2>1
  <2>3. /\ ra_diagnostics' \in [Packages -> 0..child']
        /\ shown' \in [Files -> [ours : SUBSET Diagnostic, ra : 0..child']]
    BY <1>9, <2>2 DEF RaExits, TypeOK, editorVars
  <2>4. running' \in BOOLEAN
    BY <1>9, Zenon DEF RaExits, TypeOK
  <2> QED
    BY <1>9, <2>1, <2>3, <2>4 DEF RaExits, TypeOK, worldVars, engineVars, editorVars, hubVars
<1>10. CASE UNCHANGED vars
  BY <1>10 DEF vars, TypeOK, worldVars, engineVars, editorVars, raVars, hubVars
<1> QED
  BY <1>1, <1>2, <1>3, <1>4, <1>5, <1>6, <1>7, <1>8, <1>9, <1>10 DEF Next

(* Correctness of the types of every variable.                             *)
THEOREM TypeCorrect == Spec => []TypeOK
<1>1. TypeOK /\ [Next]_vars => TypeOK'
  BY StepType
<1> QED
  BY <1>1, InitType, PTL DEF Spec

-----------------------------------------------------------------------------
(* The second half of MarksMatchDisk: a failed write is told.              *)
FailureTold ==
  \A p \in Packages :
    packages[p].usable /\ p \in unwritten =>
      \E d \in packages[p].diagnostics :
        d.package = p /\ d.code \in {"write-failed", "broken"}

(* What a rebuild does of one package, on disk and in the snapshot.        *)
LEMMA BuiltMarked ==
  ASSUME TypeOK, SnapshotOnDisk, FailureTold, NEW p \in Packages,
         NEW s \in [kind : Kinds, rev : Revisions], NEW torn \in SUBSET Packages,
         s.kind # "panics", Rebuilt(p, s).usable
  PROVE  /\ Rebuilt(p, s).rev # Written(p, s, torn) =>
              IF s.kind = "good" THEN ~writable ELSE p \in unwritten
         /\ (IF s.kind = "good" THEN ~writable ELSE p \in unwritten) =>
              \E d \in Rebuilt(p, s).diagnostics :
                d.package = p /\ d.code \in {"write-failed", "broken"}
<1>1. packages[p] \in Package
  BY DEF TypeOK
<1>2. CASE s.kind = "good"
  BY <1>2 DEF Rebuilt, Written, Diagnosed
<1>3. CASE s.kind = "unknown"
  BY <1>1, <1>3 DEF Rebuilt, Written, SnapshotOnDisk, FailureTold
<1>4. CASE s.kind = "broken"
  <2>1. Rebuilt(p, s) = [packages[p] EXCEPT !.diagnostics = {Diagnosed("broken", p, s.rev)}]
    BY <1>4 DEF Rebuilt
  <2>2. packages[p].usable /\ Rebuilt(p, s).rev = packages[p].rev
    BY <1>1, <2>1 DEF Package
  <2>3. Diagnosed("broken", p, s.rev) \in Rebuilt(p, s).diagnostics
    BY <1>1, <2>1 DEF Package
  <2> QED
    BY <1>4, <2>2, <2>3 DEF Written, SnapshotOnDisk, Diagnosed
<1> QED
  BY <1>2, <1>3, <1>4

(* A round leaves the packages alone that it does not print; its snapshot  *)
(* is on disk or was reported.                                             *)
LEMMA FreshMarked ==
  ASSUME TypeOK, SnapshotOnDisk, FailureTold, NEW dirty \in BOOLEAN, NEW s \in Sources,
         NEW loads \in BOOLEAN, EnsureFresh(dirty, s, loads)
  PROVE  /\ SnapshotOnDisk' /\ FailureTold'
         /\ \A p \in Packages :
              generation' = generation \/ p \notin Printed(s, loads) =>
                disk'[p] = disk[p] /\ (p \in unwritten' <=> p \in unwritten)
<1>1. CASE ~dirty /\ snapshot
  BY <1>1 DEF EnsureFresh, SnapshotOnDisk, FailureTold, engineVars
<1>2. CASE ~(~dirty /\ snapshot)
  <2>1. PICK torn \in SUBSET Packages :
          disk' = [p \in Packages |-> IF p \in Reached(s, loads)
                                      THEN Written(p, s[p], torn) ELSE disk[p]]
    BY <1>2 DEF EnsureFresh
  <2>2. /\ unwritten' = IF writable THEN unwritten \ Printed(s, loads)
                                    ELSE unwritten \cup Printed(s, loads)
        /\ generation' # generation
    BY <1>2 DEF EnsureFresh, TypeOK
  <2>3. \A p \in Packages : p \notin Printed(s, loads) =>
          disk'[p] = disk[p] /\ (p \in unwritten' <=> p \in unwritten)
    BY <2>1, <2>2 DEF Printed, Written
  <2>4. CASE Unwinds(s, loads)
    BY <2>2, <2>3, <2>4 DEF SnapshotOnDisk, FailureTold, Unwinds, NoPackages, Absent
  <2>5. CASE Completes(s, loads)
    <3>1. /\ packages' = [p \in Packages |-> IF loads THEN Rebuilt(p, s[p]) ELSE Absent]
          /\ Panicking(s, loads) = {}
      BY <2>5 DEF Completes
    <3> SUFFICES ASSUME NEW p \in Packages, packages'[p].usable
                 PROVE  /\ packages'[p].rev # disk'[p] => p \in unwritten'
                        /\ p \in unwritten' =>
                             \E d \in packages'[p].diagnostics :
                               d.package = p /\ d.code \in {"write-failed", "broken"}
      BY <2>2, <2>3 DEF SnapshotOnDisk, FailureTold
    <3>2. loads /\ packages'[p] = Rebuilt(p, s[p])
      BY <3>1 DEF Absent
    <3>3. p \in Reached(s, loads) /\ s[p].kind # "panics"
      BY <3>1, <3>2 DEF Reached, Panicking
    <3>4. p \in unwritten' <=> IF s[p].kind = "good" THEN ~writable ELSE p \in unwritten
      BY <2>2, <3>3 DEF Printed
    <3>5. disk'[p] = Written(p, s[p], torn)
      BY <2>1, <3>3
    <3>6. s[p] \in [kind : Kinds, rev : Revisions]
      BY DEF Sources
    <3> QED
      BY <3>2, <3>3, <3>4, <3>5, <3>6, BuiltMarked
  <2> QED
    BY <1>2, <2>2, <2>3, <2>4, <2>5 DEF EnsureFresh
<1> QED
  BY <1>1, <1>2

(* A round whose packages are pushed: the hub has the snapshot's marks.    *)
LEMMA PushedMarked ==
  ASSUME TypeOK, SnapshotOnDisk', FailureTold', pushed_generation # generation', Push
  PROVE  MarksMatchDisk'
<1>1. hub' = [p \in Packages |-> [rev |-> packages'[p].rev, usable |-> packages'[p].usable]]
  BY DEF Push, Marks
<1> QED
  BY <1>1 DEF SnapshotOnDisk, FailureTold, MarksMatchDisk

(* A round whose packages are not: what it printed is behind.              *)
LEMMA UnpushedMarked ==
  ASSUME TypeOK, MarksMatchDisk, FailureTold', panicked => panicked',
         NEW s, NEW loads, NoPush(s, loads), generation' = generation \/ panicked',
         \A p \in Packages :
           generation' = generation \/ p \notin Printed(s, loads) =>
             disk'[p] = disk[p] /\ (p \in unwritten' <=> p \in unwritten)
  PROVE  MarksMatchDisk'
<1> SUFFICES ASSUME NEW p \in Packages, hub'[p].usable, hub'[p].rev # disk'[p]
             PROVE  p \in unwritten' \/ (panicked' /\ p \in behind')
  BY DEF MarksMatchDisk, FailureTold
<1>1. hub' = hub
  BY DEF NoPush
<1>2. CASE generation' = generation
  BY <1>1, <1>2 DEF NoPush, MarksMatchDisk
<1>3. CASE generation' # generation
  <2>1. behind' = behind \cup Printed(s, loads) /\ panicked'
    BY <1>3 DEF NoPush
  <2>2. CASE p \in Printed(s, loads)
    BY <2>1, <2>2
  <2>3. CASE p \notin Printed(s, loads)
    BY <1>1, <2>1, <2>3 DEF MarksMatchDisk
  <2> QED
    BY <2>2, <2>3
<1> QED
  BY <1>2, <1>3

(* A rebuild that leaves no snapshot has panicked, and no rebuild forgets  *)
(* an earlier panic.                                                       *)
LEMMA FreshPanicked ==
  ASSUME TypeOK, NoSnapshotPanicked, NEW dirty, NEW s, NEW loads,
         EnsureFresh(dirty, s, loads)
  PROVE  /\ ~snapshot' => panicked'
         /\ panicked => panicked'
         /\ generation' # 0 \/ UNCHANGED engineVars
  BY DEF EnsureFresh, Completes, Unwinds, NoSnapshotPanicked, TypeOK, engineVars

LEMMA RefreshInv ==
  ASSUME Inv, TypeOK', NEW s \in Sources, NEW loads \in BOOLEAN, Refresh(s, loads),
         UNCHANGED raVars
  PROVE  Inv'
<1>1. EnsureFresh(TRUE, s, loads) /\ generation' = generation + 1
  BY DEF Refresh, EnsureFresh
<1>2. /\ ~snapshot' => panicked'
      /\ panicked => panicked'
  BY <1>1, FreshPanicked DEF Inv
<1>8. FailureTold
  BY DEF Inv, MarksMatchDisk, FailureTold
<1>3. /\ NoSnapshotPanicked' /\ SnapshotOnDisk' /\ FailureTold'
      /\ \A p \in Packages :
           generation' = generation \/ p \notin Printed(s, loads) =>
             disk'[p] = disk[p] /\ (p \in unwritten' <=> p \in unwritten)
  BY <1>1, <1>2, <1>8, FreshMarked DEF Inv, NoSnapshotPanicked
<1>4. pushed_generation # generation' /\ pushed_generation \in 0..generation /\ generation \in Nat
  BY <1>1 DEF Inv, TypeOK
<1>5. \A f \in Files : FromRa(f)' = FromRa(f)
  BY DEF FromRa, raVars
<1>6. CASE snapshot'
  <2>1. Publish /\ Push
    BY <1>6 DEF Refresh
  <2>2. ShownIsMerged'
    BY <1>5, <2>1 DEF Inv, ShownIsMerged, Publish, Merged
  <2>3. CurrentUnlessPanicked'
    <3> SUFFICES ASSUME ~panicked' PROVE our_diagnostics' = reported'
      BY DEF CurrentUnlessPanicked
    <3>1. our_diagnostics = reported
      BY <1>2 DEF Inv, CurrentUnlessPanicked
    <3>2. \A f \in Files : our_diagnostics'[f] = reported'[f]
      BY <2>1, <3>1 DEF Publish, Published
    <3> QED
      BY <3>2 DEF TypeOK
  <2>4. PluginsCurrent'
    BY <1>4, <2>1 DEF PluginsCurrent, Push, Marks
  <2>5. MarksMatchDisk'
    BY <1>3, <1>4, <2>1, PushedMarked DEF Inv
  <2> QED
    BY <1>3, <2>2, <2>3, <2>4, <2>5 DEF Inv
<1>7. CASE ~snapshot'
  <2>1. NoPush(s, loads) /\ UNCHANGED editorVars
    BY <1>7 DEF Refresh
  <2>2. pushed_generation' # generation'
    BY <1>1, <1>4, <2>1 DEF NoPush
  <2>3. MarksMatchDisk'
    BY <1>2, <1>3, <1>7, <2>1, UnpushedMarked DEF Inv
  <2> QED
    BY <1>2, <1>3, <1>5, <1>7, <2>1, <2>2, <2>3
    DEF Inv, ShownIsMerged, CurrentUnlessPanicked, PluginsCurrent, Merged, editorVars
<1> QED
  BY <1>6, <1>7

(* A request drops what it rebuilt, and rebuilds only after a panic.       *)
LEMMA RequestedInv ==
  ASSUME Inv, TypeOK', Requested
  PROVE  Inv'
<1>1. /\ EnsureFresh(FALSE, sources, config) /\ NoPush(sources, config)
      /\ UNCHANGED <<editorVars, raVars>>
  BY DEF Requested
<1>2. sources \in Sources /\ config \in BOOLEAN
  BY DEF Inv, TypeOK, Sources
<1>3. /\ ~snapshot' => panicked'
      /\ panicked => panicked'
  BY <1>1, FreshPanicked DEF Inv
<1>8. FailureTold
  BY DEF Inv, MarksMatchDisk, FailureTold
<1>9. /\ NoSnapshotPanicked' /\ SnapshotOnDisk' /\ FailureTold'
      /\ \A p \in Packages :
           generation' = generation \/ p \notin Printed(sources, config) =>
             disk'[p] = disk[p] /\ (p \in unwritten' <=> p \in unwritten)
  BY <1>1, <1>2, <1>3, <1>8, FreshMarked DEF Inv, NoSnapshotPanicked
<1>10. generation' = generation \/ panicked'
  BY <1>1, <1>3 DEF Inv, NoSnapshotPanicked, Requested, EnsureFresh, engineVars
<1>4. NoSnapshotPanicked' /\ SnapshotOnDisk' /\ MarksMatchDisk'
  BY <1>1, <1>3, <1>9, <1>10, UnpushedMarked DEF Inv
<1>5. ShownIsMerged'
  BY <1>1 DEF Inv, ShownIsMerged, Merged, FromRa, editorVars, raVars
<1>6. CASE snapshot
  <2>1. UNCHANGED engineVars
    BY <1>1, <1>6 DEF EnsureFresh
  <2> QED
    BY <1>1, <1>4, <1>5, <2>1
    DEF Inv, CurrentUnlessPanicked, PluginsCurrent, Marks, NoPush, engineVars, editorVars
<1>7. CASE ~snapshot
  <2>1. panicked' /\ generation' = generation + 1
    BY <1>1, <1>3, <1>7 DEF Inv, NoSnapshotPanicked, Requested, EnsureFresh
  <2>2. pushed_generation' # generation'
    BY <1>1, <2>1 DEF Inv, TypeOK, NoPush
  <2> QED
    BY <1>4, <1>5, <2>1, <2>2 DEF Inv, CurrentUnlessPanicked, PluginsCurrent
<1> QED
  BY <1>6, <1>7

LEMMA InitInv == Init => Inv
<1> SUFFICES ASSUME Init PROVE Inv
  OBVIOUS
<1>1. TypeOK
  BY InitType
<1>2. NoSnapshotPanicked /\ CurrentUnlessPanicked /\ PluginsCurrent /\ SnapshotOnDisk /\ MarksMatchDisk
  BY DEF Init, NoSnapshotPanicked, CurrentUnlessPanicked, PluginsCurrent, SnapshotOnDisk, MarksMatchDisk,
         Marks, NoPackages, Absent
<1>3. ShownIsMerged
  BY DEF Init, ShownIsMerged, Merged, FromRa, NoDiagnostics, Files
<1> QED
  BY <1>1, <1>2, <1>3 DEF Inv

LEMMA StepInv ==
  ASSUME Inv, [Next]_vars
  PROVE  Inv'
<1>0. TypeOK'
  BY StepType DEF Inv
<1> USE <1>0
<1>t. sources' \in Sources /\ config' \in BOOLEAN
  BY DEF TypeOK, Sources
<1>u. ASSUME UNCHANGED <<engineVars, editorVars, raVars, hubVars>> PROVE Inv'
  BY <1>u DEF Inv, NoSnapshotPanicked, ShownIsMerged, CurrentUnlessPanicked, PluginsCurrent,
              SnapshotOnDisk, MarksMatchDisk, Marks, Merged, FromRa, engineVars, editorVars, raVars, hubVars
<1>1. CASE Start
  BY <1>1, <1>t, RefreshInv DEF Start, worldVars
<1>2. ASSUME NEW p \in Packages, NEW kind \in Kinds, EditorEdits(p, kind) PROVE Inv'
  BY <1>2, <1>t, RefreshInv DEF EditorEdits
<1>3. ASSUME NEW p \in Packages, NEW kind \in Kinds, DiskEdits(p, kind) PROVE Inv'
  BY <1>3, <1>u DEF DiskEdits
<1>4. CASE EditorEditsConfig
  BY <1>4, <1>t, RefreshInv DEF EditorEditsConfig
<1>5. CASE PermissionsChange
  BY <1>5, <1>u DEF PermissionsChange
<1>6. CASE Notified
  BY <1>6, <1>t, RefreshInv DEF Notified, worldVars
<1>7. CASE Requested
  BY <1>7, RequestedInv
<1>8. ASSUME NEW p \in Packages, NEW some \in BOOLEAN, RaPublishes(p, some) PROVE Inv'
  <2>1. UNCHANGED <<engineVars, our_diagnostics, hubVars>>
    BY <1>8 DEF RaPublishes
  <2>2. ShownIsMerged'
    BY <1>8 DEF RaPublishes, Inv, TypeOK, ShownIsMerged, Merged, FromRa, Files, Toml, Packages
  <2> QED
    BY <2>1, <2>2 DEF Inv, NoSnapshotPanicked, CurrentUnlessPanicked, PluginsCurrent,
                      SnapshotOnDisk, MarksMatchDisk, Marks, engineVars, hubVars
<1>9. CASE RaExits
  BY <1>9 DEF RaExits, Inv, NoSnapshotPanicked, ShownIsMerged, CurrentUnlessPanicked, PluginsCurrent,
              SnapshotOnDisk, MarksMatchDisk, Marks, Merged, FromRa, engineVars, editorVars, hubVars
<1>10. CASE UNCHANGED vars
  BY <1>10, <1>u DEF vars
<1> QED
  BY <1>1, <1>2, <1>3, <1>4, <1>5, <1>6, <1>7, <1>8, <1>9, <1>10 DEF Next

LEMMA InvAlways == Spec => []Inv
<1>1. Inv /\ [Next]_vars => Inv'
  BY StepInv
<1> QED
  BY <1>1, InitInv, PTL DEF Spec

-----------------------------------------------------------------------------
(* The editor shows for every file exactly what the engine and             *)
(* rust-analyzer last said of it, whatever order refresh,                  *)
(* merge_ra_diagnostics, exits and panics came in.                         *)
THEOREM ShownAsMerged == Spec => []ShownIsMerged
<1>1. Inv => ShownIsMerged
  BY DEF Inv
<1> QED
  BY <1>1, InvAlways, PTL

(* Without a panic the editor has the diagnostics of the last rebuild: the *)
(* publishes that requests drop are never the last word.                   *)
THEOREM DiagnosticsCurrent == Spec => []CurrentUnlessPanicked
<1>1. Inv => CurrentUnlessPanicked
  BY DEF Inv
<1> QED
  BY <1>1, InvAlways, PTL

(* The plugin hub holds the snapshot the features answer from (refresh).   *)
THEOREM HubCurrent == Spec => []PluginsCurrent
<1>1. Inv => PluginsCurrent
  BY DEF Inv
<1> QED
  BY <1>1, InvAlways, PTL

(* The marks given to the plugins are those of the files on disk, but for a*)
(* package whose last write failed, of which its diagnostics tell, and one *)
(* that a round printed before it panicked (State::rebuild, refresh).      *)
THEOREM MarksOnDisk == Spec => []MarksMatchDisk
<1>1. Inv => MarksMatchDisk
  BY DEF Inv
<1> QED
  BY <1>1, InvAlways, PTL

(* A round that gives a usable snapshot up had no configuration or         *)
(* panicked.                                                               *)
LEMMA FreshKept ==
  ASSUME TypeOK, NEW dirty, NEW s \in Sources, NEW loads \in BOOLEAN,
         EnsureFresh(dirty, s, loads),
         NEW p \in Packages, packages[p].usable, ~packages'[p].usable
  PROVE  ~loads \/ ~snapshot'
<1>1. CASE UNCHANGED engineVars
  BY <1>1 DEF engineVars
<1>2. CASE Unwinds(s, loads)
  BY <1>2 DEF Unwinds
<1>3. CASE Completes(s, loads)
  <2> SUFFICES ASSUME loads PROVE FALSE
    OBVIOUS
  <2>1. packages'[p] = Rebuilt(p, s[p]) /\ s[p].kind # "panics"
    BY <1>3 DEF Completes, Panicking
  <2>2. packages[p] # Absent /\ packages[p] \in Package
    BY DEF Absent, TypeOK
  <2>3. CASE s[p].kind = "good"
    BY <2>1, <2>3 DEF Rebuilt
  <2>4. CASE s[p].kind = "unknown"
    BY <2>1, <2>4 DEF Rebuilt
  <2>5. CASE s[p].kind = "broken"
    BY <2>1, <2>2, <2>5 DEF Rebuilt, Package
  <2>6. s[p].kind \in Kinds
    BY DEF Sources
  <2> QED
    BY <2>1, <2>3, <2>4, <2>5, <2>6
<1> QED
  BY <1>1, <1>2, <1>3 DEF EnsureFresh

(* A usable snapshot outlives every broken or unknown source               *)
(* (State::rebuild keeps the previous one).                                *)
THEOREM UsableSnapshotKept == Spec => UsableKept
<1>1. TypeOK /\ [Next]_vars =>
        [\A p \in Packages :
           packages[p].usable /\ ~packages'[p].usable => ~config' \/ ~snapshot']_vars
  <2> SUFFICES ASSUME TypeOK, Next, NEW p \in Packages,
                      packages[p].usable, ~packages'[p].usable
               PROVE  ~config' \/ ~snapshot'
    OBVIOUS
  <2>1. packages' # packages
    OBVIOUS
  <2>2. config' \in BOOLEAN /\ sources' \in Sources
    BY StepType DEF TypeOK, Sources
  <2>3. \E dirty \in BOOLEAN : EnsureFresh(dirty, sources', config')
    BY <2>1 DEF Next, Start, EditorEdits, DiskEdits, EditorEditsConfig, PermissionsChange,
                Notified, Requested, RaPublishes, RaExits, Refresh, engineVars, worldVars
  <2> QED
    BY <2>2, <2>3, FreshKept
<1> QED
  BY <1>1, TypeCorrect, PTL DEF Spec, UsableKept
=============================================================================
