----------------------------- MODULE CrossRename -----------------------------
(***************************************************************************)
(* A rename that starts in TypeScript and must end in Rust: the plugin     *)
(* inside tsserver (npm/vscode-extension/typescript-plugin/src/index.ts),  *)
(* which never learns the new name and watches the text for it, and the    *)
(* proxy (typeweld-ls/src/proxy.rs, features/rename.rs), which has         *)
(* rust-analyzer compute the Rust half and applies it.                     *)
(*                                                                         *)
(* Several instances of the plugin, one per project of tsserver, see the   *)
(* same file.  One TypeScript file and the Rust files mention the symbols  *)
(* once each, in the order of their numbers.  All that matters of a        *)
(* spelling is its length, so a spelling is its length, and a text is where*)
(* each symbol stands and how it is spelt.                                 *)
(***************************************************************************)
EXTENDS Integers, SequencesExt

CONSTANTS
  Count,         \* how many symbols there are
  Instances,    \* of the plugin
  Files,        \* the Rust files
  Decl,         \* the one with the declarations
  Endpoints,    \* symbols whose other mentions in Rust are mounts; those of a type or
                \* field are uses that only rust-analyzer knows
  Names,        \* spellings the user gives
  Clumsy,       \* those whose case does not survive a round trip
  Foreign,      \* those with a character outside ASCII
  Stray,        \* the spelling of any other word
  None,
  MaxEvents     \* bound: what the user, the connections and the child do, names
                \* cut in reading and watches that run out

Symbols == 1..Count

ASSUME NamesAssumption ==
  /\ Count \in Nat \ {0} /\ Endpoints \subseteq Symbols
  /\ Names \subseteq Nat \ {0} /\ Clumsy \subseteq Names /\ Foreign \subseteq Names
  /\ Stray \in Nat \ ({0} \cup Names)
ASSUME FilesAssumption == Decl \in Files
ASSUME BoundAssumption == MaxEvents \in Nat

VARIABLES
  ts,          \* the TypeScript text
  rust,        \* the text of each Rust file
  open,        \* the Rust files open at the editor
  dirty,       \* "ts" and the Rust files with changes of a rename not saved
  asked        \* the symbol the editor has locations for, or 0

VARIABLES
  contract,    \* the engine's snapshot, and the generated files
  program,     \* the generated files as tsserver has read them
  snapshot,    \* as each instance has received it
  connected,   \* instances with a socket
  pending,     \* the rename each instance watches
  reports      \* renameLanded, on their way to the proxy

VARIABLES
  child,            \* rust-analyzer runs
  injected_renames, \* asked of it
  pending_saves,    \* edits sent to the editor, in order
  upsets, given, events

textVars == <<ts, rust, open, dirty, asked>>
pluginVars == <<program, snapshot, connected, pending>>
proxyVars == <<child, injected_renames, pending_saves>>
vars == <<textVars, contract, pluginVars, reports, proxyVars, upsets, given, events>>

Spellings == Names \cup {Stray}
Text == [starts : [Symbols -> Nat], names : [Symbols -> Spellings]]
RustText ==
  [starts : [Symbols -> Nat], names : [Symbols -> Spellings], version : Nat, garbled : BOOLEAN]
Contract == [Symbols -> Spellings]
Watch == [symbol : Symbols, id : Spellings, oldName : Spellings, start : Nat]
Report == [symbol : Symbols, id : Spellings, newName : Spellings]
Edit ==
  [symbol : Symbols, new : Spellings, files : SUBSET Files, of : [Files -> RustText]]
Upsets == {"moved", "cut", "unread", "overwritten", "unwatched", "expired", "offline", "unmapped",
           "failed", "degraded", "overlapping", "rust edited"}

TypeOK ==
  /\ ts \in Text /\ rust \in [Files -> RustText] /\ open \subseteq Files
  /\ dirty \subseteq Files \cup {"ts"} /\ asked \in Symbols \cup {0}
  /\ contract \in Contract /\ program \in Contract
  /\ snapshot \in [Instances -> Contract \cup {None}] /\ connected \subseteq Instances
  /\ pending \in [Instances -> Watch \cup {None}] /\ reports \in Seq(Report)
  /\ child \in BOOLEAN /\ injected_renames \in Seq(Edit) /\ pending_saves \in Seq(Edit)
  /\ upsets \subseteq Upsets /\ given \in [Symbols -> SUBSET Names] /\ events \in 0..MaxEvents

(* Everything is spelt alike; the instances have not connected yet.        *)
Init ==
  /\ \E name \in Names \ Clumsy :
       LET names == [s \in Symbols |-> name]
           starts == [s \in Symbols |-> (s - 1) * name]
       IN  /\ contract = names /\ ts = [starts |-> starts, names |-> names]
           /\ rust = [f \in Files |-> [starts |-> starts, names |-> names,
                                       version |-> 0, garbled |-> FALSE]]
           /\ given = [s \in Symbols |-> {name}]
  /\ program = contract
  /\ open \in SUBSET Files /\ dirty = {} /\ asked = 0
  /\ snapshot = [i \in Instances |-> None] /\ connected = {}
  /\ pending = [i \in Instances |-> None] /\ reports = <<>>
  /\ child \in BOOLEAN /\ injected_renames = <<>> /\ pending_saves = <<>>
  /\ upsets = {} /\ events = 0

(* Some mishaps count as events, so that the bound is theirs too.          *)
Event == events < MaxEvents /\ events' = events + 1
Upset(what, when) == upsets' = IF when THEN upsets \cup {what} ELSE upsets
Mishap(what, when) == Upset(what, when) /\ IF when THEN Event ELSE UNCHANGED events

(* A symbol is spelt anew, which moves those below it; something is typed  *)
(* above them all, which moves them all.                                   *)
Moved(text, s, by) == [t \in Symbols |-> IF t > s THEN text.starts[t] + by ELSE text.starts[t]]
Respelt(text, s, name) ==
  [text EXCEPT !.names[s] = name, !.starts = Moved(text, s, name - text.names[s])]
TypedAbove(text) == [text EXCEPT !.starts = Moved(text, 0, 1)]

-----------------------------------------------------------------------------
(* The plugin.                                                             *)
Connect(i) ==
  /\ i \notin connected
  /\ connected' = connected \cup {i}
  /\ UNCHANGED <<textVars, contract, program, snapshot, pending, reports, proxyVars, upsets, given,
                 events>>

Disconnect(i) ==
  /\ Event /\ i \in connected
  /\ connected' = connected \ {i}
  /\ UNCHANGED <<textVars, contract, program, snapshot, pending, reports, proxyVars, upsets, given>>

(* A snapshot arrives; tsserver reads the generated files.                 *)
OnMessage(i) ==
  /\ i \in connected /\ snapshot[i] # contract
  /\ snapshot' = [snapshot EXCEPT ![i] = contract]
  /\ UNCHANGED <<textVars, contract, program, connected, pending, reports, proxyVars, upsets, given,
                 events>>

ReadsGenerated ==
  /\ program # contract
  /\ program' = contract
  /\ UNCHANGED <<textVars, contract, snapshot, connected, pending, reports, proxyVars, upsets, given,
                 events>>

(* markAt: the mark of s covers where s stands in the generated file, when *)
(* what stands above is as in the snapshot.                                *)
Marked(i, s) ==
  snapshot[i] # None /\ \A t \in 1..(s - 1) : snapshot[i][t] = program[t]

(* The names a look at a watched place may find: what is spelt there now,  *)
(* if it is all ASCII; else what stands before the first foreign character,*)
(* and where no symbol starts what stands there, which is another word, or *)
(* none, or the old one, and then nothing is noticed.                      *)
SpeltAt(start) == {ts.names[s] : s \in {t \in Symbols : ts.starts[t] = start}}
CutAt(start) == SpeltAt(start) \cap Foreign # {}
Found(w) ==
  IF SpeltAt(w.start) # {} /\ ~CutAt(w.start) THEN SpeltAt(w.start) ELSE {Stray, w.oldName}

(* The watched rename has been applied and not been noticed; a slip looks  *)
(* only at the clock.                                                      *)
NeverLanded(w) == FALSE
Landed(w) == ts.starts[w.symbol] = w.start /\ ts.names[w.symbol] # w.oldName
Sees(w, s) == w.symbol = s /\ w.oldName = ts.names[s] /\ w.start = ts.starts[s]
Watching == {i \in Instances : pending[i] # None}

(* watchRename, and a plausible slip: the place is taken from the          *)
(* generated file.                                                         *)
WatchGenerated(i, s) ==
  [symbol |-> s, id |-> snapshot[i][s], oldName |-> ts.names[s],
   start |-> MapThenSumSet(LAMBDA t : program[t], 1..(s - 1))]
WatchRename(i, s) ==
  [symbol |-> s, id |-> snapshot[i][s], oldName |-> ts.names[s], start |-> ts.starts[s]]

(* findRenameLocations, in all instances: the editor asks for the places   *)
(* of a symbol that resolves to the generated files.                       *)
AskRename(s) ==
  /\ Event /\ program[s] = ts.names[s]
  /\ asked' = s
  /\ pending' = [i \in Instances |-> IF Marked(i, s) THEN WatchRename(i, s) ELSE pending[i]]
  /\ Upset("overwritten", \E i \in Watching : Marked(i, s) /\ Landed(pending[i]))
  /\ UNCHANGED <<ts, rust, open, dirty, contract, program, snapshot, connected, reports, proxyVars,
                 given>>

(* The editor applies the rename it asked the locations for.               *)
EditorRenames(new) ==
  /\ asked # 0 /\ new \in Names \ {ts.names[asked]}
  /\ ts' = Respelt(ts, asked, new)
  /\ given' = [given EXCEPT ![asked] = @ \cup {new}]
  /\ dirty' = dirty \cup {"ts"} /\ asked' = 0
  /\ upsets' = upsets
       \cup (IF new \in Foreign THEN {"unread"} ELSE {})
       \cup (IF \E i \in Watching : Sees(pending[i], asked) THEN {} ELSE {"unwatched"})
       \cup (IF \E i \in Watching : pending[i].symbol > asked THEN {"moved"} ELSE {})
  /\ UNCHANGED <<rust, open, contract, pluginVars, reports, proxyVars, events>>

(* The user types above the symbols instead: what was asked is cancelled.  *)
UserTypes ==
  /\ Event
  /\ ts' = TypedAbove(ts)
  /\ asked' = 0
  /\ Upset("moved", Watching # {})
  /\ UNCHANGED <<rust, open, dirty, contract, pluginVars, reports, proxyVars, given>>

(* checkPendingRename: what it finds is reported once, and lost without a  *)
(* socket.                                                                 *)
CheckPendingRename(i) ==
  /\ pending[i] # None /\ pending' = [pending EXCEPT ![i] = None]
  /\ \E name \in Found(pending[i]) \ {pending[i].oldName} :
       reports' = IF i \in connected
                  THEN Append(reports, [symbol |-> pending[i].symbol, id |-> pending[i].id,
                                        newName |-> name])
                  ELSE reports
  /\ upsets' = upsets \cup (IF i \notin connected THEN {"offline"} ELSE {})
                      \cup (IF CutAt(pending[i].start) THEN {"cut"} ELSE {})
  /\ IF CutAt(pending[i].start) THEN Event ELSE UNCHANGED events
  /\ UNCHANGED <<textVars, contract, program, snapshot, connected, proxyVars, given>>

(* The first look after 30 seconds drops the watch before it reads the     *)
(* text, whether the rename has landed or is still to come.                *)
WatchExpires(i) ==
  /\ pending[i] # None /\ pending' = [pending EXCEPT ![i] = None]
  /\ Mishap("expired", Landed(pending[i]))
  /\ UNCHANGED <<textVars, contract, program, snapshot, connected, reports, proxyVars, given>>

-----------------------------------------------------------------------------
(* The proxy.  What the engine makes of the Rust texts: a declaration file *)
(* that does not parse keeps the last snapshot.                            *)
Fresh(texts) == IF texts[Decl].garbled THEN contract ELSE texts[Decl].names

(* rust_complement: whether the symbol is known and the name is usable.    *)
RustComplement(r) == Fresh(rust)[r.symbol] = r.id /\ r.newName \notin Clumsy

(* An edit replaces what it found when it was computed.                    *)
Replaced(text, e, before) ==
  [Respelt(text, e.symbol, e.new) EXCEPT
     !.version = @ + 1,
     !.garbled = @ \/ text.starts[e.symbol] # before.starts[e.symbol]
                   \/ text.names[e.symbol] # before.names[e.symbol]]

Replace(files, e) ==
  [f \in Files |-> IF f \in files \cap e.files THEN Replaced(rust[f], e, e.of[f]) ELSE rust[f]]

(* The files of an edit that the editor must change.                       *)
Touched(e) == open \cap e.files

(* apply_rust_complement: files that are closed are written, those open at *)
(* the editor are sent to it; the TypeScript half is saved with the last.  *)
(* A plausible slip saves it at once.                                      *)
SaveAtOnce(e) ==
  /\ rust' = Replace(Files \ open, e)
  /\ contract' = Fresh(rust') /\ dirty' = dirty \ {"ts"}
  /\ pending_saves' = IF Touched(e) = {} THEN pending_saves ELSE Append(pending_saves, e)

ApplyRustComplement(e) ==
  /\ rust' = Replace(Files \ open, e)
  /\ contract' = Fresh(rust')
  /\ IF Touched(e) = {} THEN dirty' = dirty \ {"ts"} /\ UNCHANGED pending_saves
                     ELSE pending_saves' = Append(pending_saves, e) /\ UNCHANGED dirty

InFlight == injected_renames # <<>> \/ pending_saves # <<>>

OnPluginEvent ==
  /\ reports # <<>> /\ reports' = Tail(reports)
  /\ LET r == Head(reports)
         e == [symbol |-> r.symbol, new |-> r.newName, files |-> Files, of |-> rust]
         fallback == IF r.symbol \in Endpoints THEN e ELSE [e EXCEPT !.files = {Decl}]
     IN
     \/ /\ ~RustComplement(r) /\ contract' = Fresh(rust)
        /\ Upset("unmapped", contract'[r.symbol] # r.newName)
        /\ UNCHANGED <<rust, dirty, injected_renames, pending_saves>>
     \/ /\ RustComplement(r) /\ child /\ contract' = Fresh(rust)
        /\ injected_renames' = Append(injected_renames, e)
        /\ Upset("overlapping", InFlight)
        /\ UNCHANGED <<rust, dirty, pending_saves>>
     \/ /\ RustComplement(r) /\ ~child
        /\ ApplyRustComplement(fallback)
        /\ upsets' = upsets \cup (IF InFlight THEN {"overlapping"} ELSE {})
                            \cup (IF r.symbol \in Endpoints THEN {} ELSE {"degraded"})
        /\ UNCHANGED injected_renames
  /\ UNCHANGED <<ts, open, asked, pluginVars, child, given, events>>

(* on_injected_rename_response: rust-analyzer has computed the edit on the *)
(* texts as they were when it was asked, or as they are now if it still    *)
(* finds the symbol where it was asked for; or it has failed.              *)
RenameResponse(k) ==
  /\ injected_renames' = RemoveAt(injected_renames, k)
  /\ LET e == injected_renames[k] IN
     \/ ApplyRustComplement(e) /\ UNCHANGED <<upsets, events>>
     \/ /\ rust[Decl].starts[e.symbol] = e.of[Decl].starts[e.symbol]
        /\ ApplyRustComplement([e EXCEPT !.of = rust]) /\ UNCHANGED <<upsets, events>>
     \/ /\ Event
        /\ Upset("failed", TRUE)
        /\ UNCHANGED <<rust, dirty, contract, pending_saves>>
  /\ UNCHANGED <<ts, open, asked, pluginVars, reports, child, given>>

(* on_ra_exit: the injected renames are forgotten; the child is respawned  *)
(* or not.                                                                 *)
OnRaExit ==
  /\ Event /\ child
  /\ child' \in BOOLEAN /\ injected_renames' = <<>>
  /\ Upset("failed", injected_renames # <<>>)
  /\ UNCHANGED <<textVars, contract, pluginVars, reports, pending_saves, given>>

(* The editor applies an edit made for the versions it has, and the proxy  *)
(* has the files saved; or it refuses.  Plausible slips: edits without     *)
(* versions, the TypeScript files are not saved with the others.           *)
AnyVersion(e) == TRUE
Current(e) == \A f \in Touched(e) : rust[f].version = e.of[f].version

RustSaved(e) == Touched(e)
Saved(e) == Touched(e) \cup {"ts"}

EditorApplies ==
  /\ pending_saves # <<>> /\ pending_saves' = Tail(pending_saves)
  /\ LET e == Head(pending_saves) IN
     IF Current(e)
     THEN /\ rust' = Replace(open, e) /\ contract' = Fresh(rust')
          /\ dirty' = (dirty \cup Touched(e)) \ Saved(e)
     ELSE UNCHANGED <<rust, contract, dirty>>
  /\ UNCHANGED <<ts, open, asked, pluginVars, reports, child, injected_renames, upsets, given,
                 events>>

(* The user types above the symbols of an open Rust file.                  *)
UserEditsRust(f) ==
  /\ Event /\ f \in open
  /\ rust' = [rust EXCEPT ![f] = [TypedAbove(rust[f]) EXCEPT !.version = @ + 1]]
  /\ Upset("rust edited", InFlight)
  /\ UNCHANGED <<ts, open, dirty, asked, contract, pluginVars, reports, proxyVars, given>>

-----------------------------------------------------------------------------
Handled ==
  \/ OnPluginEvent \/ EditorApplies \/ ReadsGenerated
  \/ \E k \in DOMAIN injected_renames : RenameResponse(k)
  \/ \E i \in Instances : OnMessage(i) \/ CheckPendingRename(i)

Next ==
  \/ Handled \/ OnRaExit \/ UserTypes
  \/ \E i \in Instances : Connect(i) \/ Disconnect(i) \/ WatchExpires(i)
  \/ \E s \in Symbols : AskRename(s)
  \/ \E new \in Names : EditorRenames(new)
  \/ \E f \in Files : UserEditsRust(f)

Spec == Init /\ [][Next]_vars

(* Timers fire, messages arrive, the child and the editor answer.          *)
FairSpec == Spec /\ WF_vars(Handled)

-----------------------------------------------------------------------------
Quiet == Watching = {} /\ reports = <<>> /\ ~InFlight
Agree == \A f \in Files : rust[f].names = ts.names

(* A Rust symbol gets no name but one the user gave it by a rename.        *)
OnlyGiven == \A f \in Files, s \in Symbols : rust[f].names[s] \in given[s]

(* That is so unless checkPendingRename read another word where it watched:*)
(* the text under the watch had moved, by typing or by another rename above*)
(* it, or the name there is not all ASCII and was cut.                     *)
Misread == upsets \cap {"moved", "cut"} # {}

OnlyGivenUnlessMisread == ~Misread => OnlyGiven

(* No edit lands on a text it was not computed for.  The editor keeps its  *)
(* files by their versions; a closed file is written with what was         *)
(* computed before, and is spared only if no two renames overlap.          *)
NeverGarbled ==
  \A f \in Files : rust[f].garbled => f \notin open /\ "overlapping" \in upsets

(* What may leave the Rust half in some of its files only: the editor      *)
(* refuses its part because two renames overlapped or the user was typing  *)
(* there, or without rust-analyzer only the declaration is known.          *)
Divided == upsets \cap {"overlapping", "rust edited", "degraded"} # {}

(* When all is done, the Rust half is done in all files or in none, the    *)
(* closed and the open ones, unless one of these happened; and unless any  *)
(* of the named mishaps happened, both languages agree and nothing the     *)
(* rename touched is left unsaved.                                         *)
HalvesAgree ==
  Quiet =>
    /\ ~Divided => \A f \in Files : rust[f].names = rust[Decl].names
    /\ upsets = {} => dirty = {} /\ Agree

(* The TypeScript half is saved when the Rust half is whole, not before.   *)
SavedTogether ==
  [][~Divided' /\ "ts" \in dirty \ dirty' =>
       \A f \in Files : rust'[f].names = rust'[Decl].names]_dirty

(* A rename of the user reaches Rust, unless a mishap happens.             *)
RenameFollows == ~Agree ~> Agree \/ upsets # {}
=============================================================================
