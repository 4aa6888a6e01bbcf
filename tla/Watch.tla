------------------------------- MODULE Watch -------------------------------
(***************************************************************************)
(* The generated package on disk and the processes that keep it up to      *)
(* date: `typeweld generate --watch` (run_watch of typeweld-cli) and the   *)
(* language server (observe_notification of typeweld-ls), each of which    *)
(* writes it file by file and without a lock (write_package, gen/mod.rs).  *)
(*                                                                         *)
(* Watchers see the sources that are saved, servers the buffers of their   *)
(* editor.  A round reads the sources, which may change as it reads them,  *)
(* and writes the package they make, if they make one.                     *)
(***************************************************************************)
EXTENDS Naturals, FiniteSets

CONSTANTS
  Watchers,    \* processes in watch mode
  Servers,     \* language servers
  Sources,     \* what the sources may say
  Files,       \* the files a package may have
  Contents,    \* what may be in them
  Absent,      \* what is in a file that does not exist
  Torn,        \* what is in a file that is being written
  None,        \* no source, no file
  Packages,    \* source -> file -> contents
  Broken,      \* the sources no package is made of
  MaxEdits,    \* bound on the changes of sources
  MaxCrashes   \* bound on crashes and failures

Writers == Watchers \cup Servers

ASSUME WritersAssumption == Writers # {} /\ Watchers \cap Servers = {}
ASSUME ContentsAssumption == Absent \notin Contents /\ Torn \notin Contents /\ Absent # Torn
ASSUME NoneAssumption == None \notin Sources \cup Files
ASSUME PackagesAssumption == Packages \in [Sources -> [Files -> Contents \cup {Absent}]]

VARIABLES
  saved,      \* the sources on disk
  buffer,     \* the sources as the editor has them
  disk,       \* the generated files
  step,       \* where each process is
  listening,  \* processes that hear of changes
  events,     \* what each has yet to hear or to take from its channel
  mixed,      \* processes whose sources changed as they read them
  read,       \* what each has read in its round
  todo,       \* the files each still has to look at in its round
  at,         \* the file each is writing
  excused,    \* history: processes that missed a change, failed, crashed or never ran
  edits, crashes

roundVars == <<mixed, read, todo, at>>
vars == <<saved, buffer, disk, step, listening, events, roundVars, excused, edits, crashes>>

Steps == {"down", "boot", "install", "idle", "debounce", "read", "write", "open", "fill", "prune"}

InRound(w) == step[w] \in {"write", "open", "fill", "prune"}

TypeOK ==
  /\ saved \in Sources /\ buffer \in Sources
  /\ disk \in [Files -> Contents \cup {Absent, Torn}]
  /\ step \in [Writers -> Steps]
  /\ listening \subseteq Writers /\ mixed \subseteq Writers /\ excused \subseteq Writers
  /\ events \in [Writers -> Nat]
  /\ read \in [Writers -> Sources \cup {None}]
  /\ todo \in [Writers -> SUBSET Files]
  /\ at \in [Writers -> Files \cup {None}]
  /\ \A w \in Writers : /\ (read[w] # None) <=> InRound(w)
                        /\ (at[w] # None) <=> (step[w] \in {"open", "fill"})
  /\ edits \in Nat /\ crashes \in Nat

View(w) == IF w \in Watchers THEN saved ELSE buffer
Package(w) == Packages[read[w]]
Printed(w) == {f \in Files : Package(w)[f] # Absent}

Init ==
  /\ saved \in Sources /\ buffer = saved
  /\ disk = [f \in Files |-> Absent]
  /\ step = [w \in Writers |-> "down"]
  /\ listening = {} /\ mixed = {} /\ excused = Writers
  /\ events = [w \in Writers |-> 0]
  /\ read = [w \in Writers |-> None]
  /\ todo = [w \in Writers |-> {}]
  /\ at = [w \in Writers |-> None]
  /\ edits = 0 /\ crashes = 0

-----------------------------------------------------------------------------
(* The sources change.  A process that listens will hear of it; one that   *)
(* does not, or that the editor does not tell, misses it.                  *)
Changed(told, missed) ==
  /\ edits < MaxEdits /\ edits' = edits + 1
  /\ events' = [w \in Writers |-> IF w \in told \cap listening THEN events[w] + 1 ELSE events[w]]
  /\ mixed' = mixed \cup {w \in told \cup missed : step[w] = "read"}
  /\ excused' = excused \cup missed \cup (told \ listening)
  /\ UNCHANGED <<disk, step, listening, read, todo, at, crashes>>

Edit(v) ==
  /\ Servers # {} /\ v # buffer
  /\ buffer' = v
  /\ Changed(Servers, {})
  /\ UNCHANGED saved

Save ==
  /\ buffer # saved
  /\ saved' = buffer
  /\ Changed(Writers, {})
  /\ UNCHANGED buffer

\* Something else writes the sources, and the editor may or may not watch them for its server.
Checkout(v, untold) ==
  /\ buffer = saved /\ v # saved
  /\ saved' = v /\ buffer' = v
  /\ Changed(Writers \ untold, untold)

-----------------------------------------------------------------------------
(* A process.  The server starts its first round before it takes messages, *)
(* which are waiting; a watcher installs its watch after its first round.  *)
Goto(w, s) == step' = [step EXCEPT ![w] = s]

worldVars == <<saved, buffer, edits>>

Start(w) ==
  /\ step[w] = "down"
  /\ Goto(w, "boot")
  /\ listening' = IF w \in Servers THEN listening \cup {w} ELSE listening
  /\ events' = [events EXCEPT ![w] = IF w \in Servers THEN 1 ELSE 0]
  /\ UNCHANGED <<worldVars, disk, roundVars, excused, crashes>>

\* A round begins: whatever was missed before it, it will see.
Begin(w) ==
  /\ Goto(w, "read")
  /\ excused' = excused \ {w}
  /\ UNCHANGED <<worldVars, disk, listening, roundVars, crashes>>

FirstRound(w) == step[w] = "boot" /\ Begin(w) /\ UNCHANGED events

\* recv; a watcher then waits for a pause of 150 ms, a server refreshes at once.
Take(w) ==
  /\ events[w] > 0
  /\ events' = [events EXCEPT ![w] = @ - 1]

Hear(w) ==
  /\ step[w] = "idle"
  /\ Take(w)
  /\ IF w \in Watchers
     THEN Goto(w, "debounce") /\ UNCHANGED <<worldVars, disk, listening, roundVars, excused, crashes>>
     ELSE Begin(w)

HearMore(w) ==
  /\ step[w] = "debounce"
  /\ Take(w)
  /\ UNCHANGED <<worldVars, disk, step, listening, roundVars, excused, crashes>>

Pause(w) == step[w] = "debounce" /\ Begin(w) /\ UNCHANGED events

Forget(w) ==
  /\ mixed' = mixed \ {w}
  /\ read' = [read EXCEPT ![w] = None]
  /\ todo' = [todo EXCEPT ![w] = {}]
  /\ at' = [at EXCEPT ![w] = None]

AfterRound(w) == Forget(w) /\ Goto(w, IF w \in listening THEN "idle" ELSE "install")

\* What was read: the sources, unless they changed meanwhile; then a mixture, or for a server the
\* buffers of a message it took before others that are waiting.
Read(w) ==
  /\ step[w] = "read"
  /\ \E v \in IF w \in mixed \/ (w \in Servers /\ events[w] > 0) THEN Sources ELSE {View(w)} :
       IF v \in Broken THEN AfterRound(w)
       ELSE /\ Goto(w, "write")
            /\ mixed' = mixed \ {w}
            /\ read' = [read EXCEPT ![w] = v]
            /\ todo' = [todo EXCEPT ![w] = {f \in Files : Packages[v][f] # Absent}]
            /\ UNCHANGED at
  /\ UNCHANGED <<worldVars, disk, listening, events, excused, crashes>>

\* Mutant: a file that is there is not looked into.
CompareNames(w, f) ==
  /\ step[w] = "write" /\ f \in todo[w]
  /\ todo' = [todo EXCEPT ![w] = @ \ {f}]
  /\ IF disk[f] # Absent
     THEN UNCHANGED <<step, at>>
     ELSE Goto(w, "open") /\ at' = [at EXCEPT ![w] = f]
  /\ UNCHANGED <<worldVars, disk, listening, events, mixed, read, excused, crashes>>

\* write_package: a file that has other contents is truncated, then filled.
Compare(w, f) ==
  /\ step[w] = "write" /\ f \in todo[w]
  /\ todo' = [todo EXCEPT ![w] = @ \ {f}]
  /\ IF disk[f] = Package(w)[f]
     THEN UNCHANGED <<step, at>>
     ELSE Goto(w, "open") /\ at' = [at EXCEPT ![w] = f]
  /\ UNCHANGED <<worldVars, disk, listening, events, mixed, read, excused, crashes>>

Truncate(w) ==
  /\ step[w] = "open"
  /\ Goto(w, "fill")
  /\ disk' = [disk EXCEPT ![at[w]] = Torn]
  /\ UNCHANGED <<worldVars, listening, events, roundVars, excused, crashes>>

Fill(w) ==
  /\ step[w] = "fill"
  /\ Goto(w, "write")
  /\ disk' = [disk EXCEPT ![at[w]] = Package(w)[at[w]]]
  /\ at' = [at EXCEPT ![w] = None]
  /\ UNCHANGED <<worldVars, listening, events, mixed, read, todo, excused, crashes>>

\* Mutant: nothing is pruned.
WalkOver(w) ==
  /\ step[w] = "write" /\ todo[w] = {}
  /\ Goto(w, "prune")
  /\ UNCHANGED <<worldVars, disk, listening, events, roundVars, excused, crashes>>

\* walk_ts_files, and what of it the package does not have.
Walk(w) ==
  /\ step[w] = "write" /\ todo[w] = {}
  /\ Goto(w, "prune")
  /\ todo' = [todo EXCEPT ![w] = {f \in Files : disk[f] # Absent /\ f \notin Printed(w)}]
  /\ UNCHANGED <<worldVars, disk, listening, events, mixed, read, at, excused, crashes>>

Remove(w, f) ==
  /\ step[w] = "prune" /\ f \in todo[w]
  /\ todo' = [todo EXCEPT ![w] = @ \ {f}]
  /\ disk' = [disk EXCEPT ![f] = Absent]
  /\ UNCHANGED <<worldVars, step, listening, events, mixed, read, at, excused, crashes>>

\* Mutant: what came during a round is taken to be in it.
EndDrained(w) ==
  /\ step[w] = "prune" /\ todo[w] = {}
  /\ AfterRound(w)
  /\ events' = [events EXCEPT ![w] = 0]
  /\ UNCHANGED <<worldVars, disk, listening, excused, crashes>>

EndRound(w) ==
  /\ step[w] = "prune" /\ todo[w] = {}
  /\ AfterRound(w)
  /\ UNCHANGED <<worldVars, disk, listening, events, excused, crashes>>

Install(w) ==
  /\ step[w] = "install"
  /\ Goto(w, "idle")
  /\ listening' = listening \cup {w}
  /\ UNCHANGED <<worldVars, disk, events, roundVars, excused, crashes>>

-----------------------------------------------------------------------------
(* Faults: a write fails, which ends the round; a file cannot be removed,  *)
(* which nobody is told; a process dies.                                   *)
Faulty(w) ==
  /\ crashes < MaxCrashes /\ crashes' = crashes + 1
  /\ UNCHANGED worldVars

WriteFails(w) ==
  /\ step[w] \in {"open", "fill"}
  /\ Faulty(w)
  /\ AfterRound(w)
  /\ excused' = excused \cup {w}
  /\ UNCHANGED <<disk, listening, events>>

RemoveFails(w, f) ==
  /\ step[w] = "prune" /\ f \in todo[w]
  /\ Faulty(w)
  /\ todo' = [todo EXCEPT ![w] = @ \ {f}]
  /\ excused' = excused \cup {w}
  /\ UNCHANGED <<disk, step, listening, events, mixed, read, at>>

Crash(w) ==
  /\ step[w] # "down"
  /\ Faulty(w)
  /\ Goto(w, "down")
  /\ Forget(w)
  /\ listening' = listening \ {w}
  /\ events' = [events EXCEPT ![w] = 0]
  /\ excused' = IF step[w] = "idle" /\ events[w] = 0 THEN excused ELSE excused \cup {w}
  /\ UNCHANGED disk

-----------------------------------------------------------------------------
Works(w) ==
  \/ FirstRound(w) \/ Hear(w) \/ HearMore(w) \/ Pause(w) \/ Read(w)
  \/ \E f \in Files : Compare(w, f) \/ Remove(w, f)
  \/ Truncate(w) \/ Fill(w) \/ Walk(w) \/ EndRound(w) \/ Install(w)

Next ==
  \/ \E v \in Sources : Edit(v) \/ \E untold \in SUBSET Servers : Checkout(v, untold)
  \/ Save
  \/ \E w \in Writers :
       \/ Start(w) \/ Works(w) \/ WriteFails(w) \/ Crash(w)
       \/ \E f \in Files : RemoveFails(w, f)

Spec == Init /\ [][Next]_vars
FairSpec == Spec /\ \A w \in Writers : WF_vars(Works(w))

-----------------------------------------------------------------------------
(* Which files a process will yet bring up to date.                        *)
Owes(w, f) ==
  \/ w \in excused \/ events[w] > 0 \/ step[w] \in {"debounce", "read"}
  \/ step[w] \in {"write", "open", "fill"} /\ (f \in todo[w] \/ f \notin Printed(w))
  \/ step[w] \in {"open", "fill"} /\ f = at[w]
  \/ step[w] = "prune" /\ f \in todo[w]

\* A round of sources that have changed since will be followed by another.
StaleNoticed ==
  \A w \in Writers : w \in mixed \/ (InRound(w) /\ read[w] # View(w))
                       => w \in excused \/ events[w] > 0

Phases ==
  \A w \in Writers :
    /\ w \in mixed => step[w] = "read"
    /\ step[w] = "down" => events[w] = 0 /\ w \notin listening
    /\ step[w] = "prune" => todo[w] \cap Printed(w) = {}

Right(f) == disk[f] = Packages[saved][f]
Settled == buffer = saved /\ saved \notin Broken

\* Nothing is left wrong by everyone: while the sources make a package and the editor has no
\* unsaved ones, a file that is not as it should be is on the list of a process, whichever of them
\* overwrites, truncates or prunes what the others wrote.
Owed == Settled => \A f \in Files : Right(f) \/ \E w \in Writers : Owes(w, f)

\* When every process waits, the package on disk is the whole package of the sources, unless one
\* of them missed a change (main.rs:279-299: the watch is installed after the first round), failed
\* to write, or died in the middle of a round.
Quiet == \A w \in Writers : step[w] \in {"idle", "down"} /\ events[w] = 0 /\ w \notin excused
CurrentWhenQuiet == Settled /\ Quiet => disk = Packages[saved]

\* Once the sources stay as they are, the package becomes current: a change during a round is
\* heard after it, and the later round repairs what stale ones left.
EventuallyCurrent == []<>(~Settled \/ excused # {} \/ disk = Packages[saved])
=============================================================================
