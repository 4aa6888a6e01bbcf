----------------------------- MODULE EngineState -----------------------------
(***************************************************************************)
(* The engine half of typeweld-ls: the snapshot of every configured        *)
(* package (typeweld-ls/src/state.rs) and what the main loop does with it: *)
(* the generated packages on disk, the diagnostics merged with those of    *)
(* rust-analyzer, the snapshot pushed to the plugin hub (refresh and its   *)
(* callees in typeweld-ls/src/proxy.rs).                                   *)
(*                                                                         *)
(* A source is what extraction makes of it: "good", "broken" (it reports   *)
(* errors), "unknown" (its crate is not in the workspace) or "panics" (the *)
(* engine panics on it, which the main loop survives).  Packages are       *)
(* rebuilt in the order of the configuration, so they are 1..NumPackages.  *)
(* The dirty bit is not a variable: every handler that sets it refreshes   *)
(* before it returns, and a rebuild clears it before anything can fail.    *)
(***************************************************************************)
EXTENDS Integers, FiniteSets

CONSTANTS
  NumPackages,   \* configured packages
  Kinds,         \* what may become of a source
  MaxEdits,      \* bound on the edits of sources and configuration
  MaxRounds,     \* bound on the rebuilds that follow no edit
  MaxChildren    \* bound on the rust-analyzer children of a session

ASSUME PackagesAssumption == NumPackages \in Nat \ {0}
ASSUME KindsAssumption == Kinds \subseteq {"good", "broken", "unknown", "panics"}
ASSUME EngineBoundsAssumption ==
  MaxEdits \in Nat /\ MaxRounds \in Nat /\ MaxChildren \in Nat \ {0}

Packages == 1..NumPackages
Toml == 0                        \* typeweld.toml, where whatever has no span goes
Files == {Toml} \cup Packages    \* and one Rust source per package
Revisions == 0..MaxEdits + 1

VARIABLES
  sources,          \* per package, the kind and the revision of its source
  config,           \* typeweld.toml loads
  writable,         \* the directories of the generated packages can be written
  edits,
  generation,       \* 0 until the first rebuild
  snapshot,         \* the state holds a snapshot
  packages,         \* its packages
  reported,         \* its diagnostics by file; diag_files are those with any
  disk,             \* revision of each generated package on disk; 0 if not whole
  our_diagnostics,
  ra_diagnostics,   \* per file, the child whose diagnostics are cached, or 0
  shown,            \* per file, what the editor was sent last
  child,            \* children started so far
  running,          \* the last one is in use
  pushed_generation,
  hub,              \* the packages the plugin hub was given
  panicked,         \* history: some rebuild panicked
  unwritten,        \* history: packages whose last write failed
  behind            \* history: packages written since the hub was given them

worldVars == <<sources, config, writable, edits>>
engineVars == <<generation, snapshot, packages, reported, disk, panicked, unwritten>>
editorVars == <<our_diagnostics, shown>>
raVars == <<ra_diagnostics, child, running>>
hubVars == <<pushed_generation, hub, behind>>
vars == <<worldVars, engineVars, editorVars, raVars, hubVars>>

Diagnostic == [code : {"config", "unknown", "broken", "write-failed"},
               package : {0} \cup Packages, rev : Revisions]
Package == [rev : Revisions, usable : BOOLEAN, diagnostics : SUBSET Diagnostic]
Absent == [rev |-> 0, usable |-> FALSE, diagnostics |-> {}]
NoPackages == [p \in Packages |-> Absent]
NoDiagnostics == [f \in Files |-> {}]

TypeOK ==
  /\ sources \in [Packages -> [kind : Kinds, rev : Revisions]]
  /\ config \in BOOLEAN /\ writable \in BOOLEAN /\ snapshot \in BOOLEAN
  /\ running \in BOOLEAN /\ panicked \in BOOLEAN
  /\ edits \in 0..MaxEdits
  /\ generation \in Nat /\ pushed_generation \in 0..generation
  /\ packages \in [Packages -> Package]
  /\ reported \in [Files -> SUBSET Diagnostic]
  /\ disk \in [Packages -> Revisions]
  /\ our_diagnostics \in [Files -> SUBSET Diagnostic]
  /\ child \in 0..MaxChildren
  /\ ra_diagnostics \in [Packages -> 0..child]
  /\ shown \in [Files -> [ours : SUBSET Diagnostic, ra : 0..child]]
  /\ hub \in [Packages -> [rev : Revisions, usable : BOOLEAN]]
  /\ unwritten \subseteq Packages /\ behind \subseteq Packages

Init ==
  /\ sources \in [Packages -> [kind : Kinds, rev : {1}]]
  /\ config \in BOOLEAN /\ writable = TRUE /\ edits = 0
  /\ generation = 0 /\ snapshot = FALSE
  /\ packages = NoPackages /\ reported = NoDiagnostics
  /\ disk = [p \in Packages |-> 0]
  /\ our_diagnostics = NoDiagnostics
  /\ running \in BOOLEAN /\ child = IF running THEN 1 ELSE 0
  /\ ra_diagnostics = [p \in Packages |-> 0]
  /\ shown = [f \in Files |-> [ours |-> {}, ra |-> 0]]
  /\ pushed_generation = 0 /\ hub = [p \in Packages |-> [rev |-> 0, usable |-> FALSE]]
  /\ panicked = FALSE /\ unwritten = {} /\ behind = {}

-----------------------------------------------------------------------------
(* State::rebuild of the sources s under a configuration that loads or not.*)
Diagnosed(code, p, rev) == [code |-> code, package |-> p, rev |-> rev]

Global(s, loads) ==
  IF loads THEN {Diagnosed("unknown", p, 0) : p \in {q \in Packages : s[q].kind = "unknown"}}
           ELSE {Diagnosed("config", 0, 0)}

(* Mutant: a broken source replaces the snapshot.                          *)
RebuiltRegardless(p, s) ==
  [rev |-> s.rev, usable |-> s.kind = "good",
   diagnostics |-> IF s.kind = "good" THEN {} ELSE {Diagnosed("broken", p, s.rev)}]

(* The snapshot of p: new when its source is good; the previous one, with  *)
(* the new diagnostics, when it is broken; the previous one as it was when *)
(* its crate is unknown.                                                   *)
Rebuilt(p, s) ==
  CASE s.kind = "good" ->
         [rev |-> s.rev, usable |-> TRUE,
          diagnostics |-> IF writable THEN {} ELSE {Diagnosed("write-failed", p, s.rev)}]
    [] s.kind = "unknown" -> packages[p]
    [] s.kind = "broken" /\ packages[p] # Absent ->
         [packages[p] EXCEPT !.diagnostics = {Diagnosed("broken", p, s.rev)}]
    [] OTHER ->
         [rev |-> s.rev, usable |-> FALSE,
          diagnostics |-> {Diagnosed("broken", p, s.rev)}]

(* Mutant: a broken source is written too.                                 *)
WrittenRegardless(p, s, torn) ==
  IF s.kind = "unknown" THEN disk[p]
  ELSE IF writable THEN s.rev ELSE IF p \in torn THEN 0 ELSE disk[p]

(* gen::write_package: only for a good source; a failing write may leave   *)
(* the package as it was or half written.                                  *)
Written(p, s, torn) ==
  IF s.kind # "good" THEN disk[p]
  ELSE IF writable THEN s.rev ELSE IF p \in torn THEN 0 ELSE disk[p]

(* The packages dealt with before the first one that panics.               *)
Panicking(s, loads) == {p \in Packages : loads /\ s[p].kind = "panics"}
Reached(s, loads) ==
  {p \in Packages : loads /\ \A q \in Panicking(s, loads) : p < q}

(* Those that are written, or were to be.                                  *)
Printed(s, loads) == {p \in Reached(s, loads) : s[p].kind = "good"}

FileOf(d) == IF d.code = "broken" THEN d.package ELSE Toml
ByFile(diagnostics) == [f \in Files |-> {d \in diagnostics : FileOf(d) = f}]

(* State::ensure_fresh.  A panic leaves no snapshot: the previous one was  *)
(* taken, and its diag_files with it.                                      *)
Completes(s, loads) ==
  LET built == [p \in Packages |-> IF loads THEN Rebuilt(p, s[p]) ELSE Absent]
  IN  /\ Panicking(s, loads) = {}
      /\ snapshot' = TRUE
      /\ packages' = built
      /\ reported' = ByFile(Global(s, loads) \cup UNION {built[p].diagnostics : p \in Packages})
      /\ UNCHANGED panicked

Unwinds(s, loads) ==
  /\ Panicking(s, loads) # {}
  /\ snapshot' = FALSE
  /\ packages' = NoPackages
  /\ reported' = NoDiagnostics
  /\ panicked' = TRUE

EnsureFresh(dirty, s, loads) ==
  IF ~dirty /\ snapshot THEN UNCHANGED engineVars
  ELSE /\ generation' = generation + 1
       /\ \E torn \in SUBSET Packages :
            disk' = [p \in Packages |-> IF p \in Reached(s, loads)
                                        THEN Written(p, s[p], torn) ELSE disk[p]]
       /\ unwritten' = IF writable THEN unwritten \ Printed(s, loads)
                                   ELSE unwritten \cup Printed(s, loads)
       /\ Completes(s, loads) \/ Unwinds(s, loads)

-----------------------------------------------------------------------------
(* merged_params.                                                          *)
FromRa(f) == IF f = Toml THEN 0 ELSE ra_diagnostics[f]
Merged(ours, ra) == [ours |-> ours, ra |-> ra]

(* Mutant: files that no longer have diagnostics are not cleared.          *)
PublishedNow == {f \in Files : reported'[f] # {}}

(* The publishes of a round: the files that have diagnostics now and those *)
(* that had some in the previous round.                                    *)
Published == {f \in Files : reported'[f] # {} \/ reported[f] # {}}
Publish ==
  /\ our_diagnostics' = [f \in Files |-> IF f \in Published THEN reported'[f]
                                                            ELSE our_diagnostics[f]]
  /\ shown' = [f \in Files |-> IF f \in Published THEN Merged(reported'[f], FromRa(f))
                                                  ELSE shown[f]]

(* The marks of the snapshot, and whether they are those of a contract     *)
(* without errors.  The first contract of a broken source is one with.     *)
Marks == [p \in Packages |-> [rev |-> packages[p].rev, usable |-> packages[p].usable]]

(* Mutant: the packages before the round are pushed.                       *)
PushBefore ==
  /\ pushed_generation' = generation'
  /\ hub' = Marks
  /\ behind' = {}

(* A generation is pushed to the hub once.                                 *)
Push ==
  /\ pushed_generation' = generation'
  /\ hub' = IF pushed_generation # generation' THEN Marks' ELSE hub
  /\ behind' = {}

(* What a round prints and does not push.                                  *)
NoPush(s, loads) ==
  /\ UNCHANGED <<pushed_generation, hub>>
  /\ behind' = IF generation' = generation THEN behind ELSE behind \cup Printed(s, loads)

(* Proxy::refresh: a panic unwinds through it to the main loop.            *)
Refresh(s, loads) ==
  /\ EnsureFresh(TRUE, s, loads)
  /\ IF snapshot' THEN Publish /\ Push
                  ELSE NoPush(s, loads) /\ UNCHANGED editorVars

(* The refresh before the main loop.                                       *)
Start ==
  /\ generation = 0
  /\ Refresh(sources, config)
  /\ UNCHANGED <<worldVars, raVars>>

Edited(p, kind) == [sources EXCEPT ![p] = [kind |-> kind, rev |-> edits + 2]]

(* observe_notification: a buffer is opened, changed or closed.            *)
EditorEdits(p, kind) ==
  /\ generation # 0 /\ edits < MaxEdits
  /\ sources' = Edited(p, kind) /\ edits' = edits + 1
  /\ Refresh(sources', config)
  /\ UNCHANGED <<config, writable, raVars>>

EditorEditsConfig ==
  /\ generation # 0 /\ edits < MaxEdits
  /\ config' = ~config /\ edits' = edits + 1
  /\ Refresh(sources, config')
  /\ UNCHANGED <<sources, writable, raVars>>

(* Something else changes a file; the engine learns of it from the next    *)
(* notification, of a save, of watched files or of an edit.                *)
DiskEdits(p, kind) ==
  /\ edits < MaxEdits
  /\ sources' = Edited(p, kind) /\ edits' = edits + 1
  /\ UNCHANGED <<config, writable, engineVars, editorVars, raVars, hubVars>>

PermissionsChange ==
  /\ writable' = ~writable
  /\ UNCHANGED <<sources, config, edits, engineVars, editorVars, raVars, hubVars>>

(* observe_notification, didSave or didChangeWatchedFiles: both mark the   *)
(* state dirty.                                                            *)
Notified ==
  /\ generation # 0 /\ generation < MaxRounds
  /\ Refresh(sources, config)
  /\ UNCHANGED <<worldVars, raVars>>

(* A request, an answer to augment or a plugin event: ensure_fresh without *)
(* a dirty bit, and its publishes are dropped.                             *)
Requested ==
  /\ generation # 0 /\ generation < MaxRounds
  /\ EnsureFresh(FALSE, sources, config)
  /\ NoPush(sources, config)
  /\ UNCHANGED <<worldVars, editorVars, raVars>>

-----------------------------------------------------------------------------
(* Mutant: what rust-analyzer published is passed on unmerged.             *)
RaPublishesRaw(p, some) ==
  /\ generation # 0 /\ running
  /\ ra_diagnostics' = [ra_diagnostics EXCEPT ![p] = IF some THEN child ELSE 0]
  /\ shown' = [shown EXCEPT ![p] = Merged({}, ra_diagnostics'[p])]
  /\ UNCHANGED <<worldVars, engineVars, our_diagnostics, child, running, hubVars>>

(* rust-analyzer publishes: cached, merged and passed on.                  *)
RaPublishes(p, some) ==
  /\ generation # 0 /\ running
  /\ ra_diagnostics' = [ra_diagnostics EXCEPT ![p] = IF some THEN child ELSE 0]
  /\ shown' = [shown EXCEPT ![p] = Merged(our_diagnostics[p], ra_diagnostics'[p])]
  /\ UNCHANGED <<worldVars, engineVars, our_diagnostics, child, running, hubVars>>

(* on_ra_exit clears neither cache; a respawn succeeds or it degrades.     *)
RaExits ==
  /\ generation # 0 /\ running
  /\ \/ child < MaxChildren /\ child' = child + 1 /\ UNCHANGED running
     \/ running' = FALSE /\ UNCHANGED child
  /\ UNCHANGED <<worldVars, engineVars, editorVars, ra_diagnostics, hubVars>>

-----------------------------------------------------------------------------
Next ==
  \/ Start
  \/ \E p \in Packages, kind \in Kinds : EditorEdits(p, kind) \/ DiskEdits(p, kind)
  \/ EditorEditsConfig
  \/ PermissionsChange
  \/ Notified
  \/ Requested
  \/ \E p \in Packages, some \in BOOLEAN : RaPublishes(p, some)
  \/ RaExits

Spec == Init /\ [][Next]_vars

-----------------------------------------------------------------------------
(* For every file the editor shows exactly what the two caches hold, in    *)
(* whatever order the engine, rust-analyzer, crashes and panics changed    *)
(* them (refresh, merge_ra_diagnostics).                                   *)
ShownIsMerged ==
  \A f \in Files : shown[f] = Merged(our_diagnostics[f], FromRa(f))

(* The engine's diagnostics at the editor are those of the last round, none*)
(* missing and none stale, as long as no round panicked.                   *)
CurrentUnlessPanicked == ~panicked => our_diagnostics = reported

(* The plugins were given the packages of the snapshot the features answer *)
(* from; only a panic delays that, to the next refresh.                    *)
PluginsCurrent ==
  /\ pushed_generation = generation => hub = Marks
  /\ ~panicked => pushed_generation = generation

(* The positions handed to the plugins are those of the generated files on *)
(* disk, through broken, vanished and panicking sources and configurations *)
(* that do not load, with two exceptions: the last write of that package   *)
(* failed; or a round that panicked on a later package had written it, and *)
(* no refresh has completed since: nothing tells the user of that one.  Of *)
(* the failed write the package's own diagnostics tell, or a newer error   *)
(* of its source that hides it, as long as the snapshot is kept.  (A first *)
(* contract with errors is given to the plugins and never printed.)        *)
MarksMatchDisk ==
  \A p \in Packages :
    /\ hub[p].usable /\ hub[p].rev # disk[p] => p \in unwritten \/ (panicked /\ p \in behind)
    /\ packages[p].usable /\ p \in unwritten =>
         \E d \in packages[p].diagnostics :
           d.package = p /\ d.code \in {"write-failed", "broken"}

(* A usable snapshot is given up only to a newer one, to a configuration   *)
(* that does not load, or to a panic: never to a broken or unknown source. *)
UsableKept ==
  [][\A p \in Packages :
       packages[p].usable /\ ~packages'[p].usable => ~config' \/ ~snapshot']_vars

=============================================================================
