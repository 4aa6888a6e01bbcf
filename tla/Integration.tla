----------------------------- MODULE Integration -----------------------------
(***************************************************************************)
(* The VS Code extension: npm/vscode-extension/src/extension.ts.           *)
(*                                                                         *)
(* Either it runs the language server itself, or the rust-analyzer         *)
(* extension does, whose settings it then rewrites with the user's         *)
(* consent.  Reconciliations are queued and run one after another; the     *)
(* command that disables the integration is not in the queue.  A step      *)
(* ends where the code awaits something.  The settings object a handler    *)
(* obtains is a snapshot, and what it writes is made from it.  The editor  *)
(* may be reloaded at any moment, which keeps the settings and the         *)
(* extension's memory and loses everything else.                           *)
(***************************************************************************)
EXTENDS Naturals, Sequences

CONSTANTS
  Servers,      \* rust-analyzer binaries of the user
  Binaries,     \* where a typeweld binary may be found
  None,         \* no path
  Bundled,      \* the binary inside the rust-analyzer extension
  MaxEvents     \* bound: what the user, the editor and the machine do

ASSUME PathsAssumption ==
  /\ Servers \cap Binaries = {} /\ None \notin Servers \cup Binaries
  /\ Bundled \notin Servers \cup Binaries \cup {None}
ASSUME BoundAssumption == MaxEvents \in Nat

VARIABLES
  settings,    \* server.path and server.extraEnv of rust-analyzer, as in force
  memory,      \* the extension's workspace state
  found,       \* what resolveServerBinary finds
  rustPlugin,  \* the rust-analyzer extension: "absent", "bare", "bundling" a binary
  workspace    \* where typeweld.toml is: nowhere, "nested" below, or at a "root"

VARIABLES
  queue,       \* reconciliations to come: whether each restarts the client
  task,        \* the one that runs
  disabling,   \* disableIntegration
  client,      \* the extension's own client: "none", "starting", "running"
  running,     \* language servers it has started that still run
  orphans,     \* those of them it has forgotten, as stopping or starting failed
  link         \* whether it has a DaemonLink

VARIABLES
  original,    \* the server the user chose
  upsets,      \* what may have lost it
  unseen,      \* a change of the workspace no reconciliation has seen yet
  events

machineVars == <<found, rustPlugin, workspace, unseen>>
serverVars == <<client, running, orphans, link>>
vars == <<settings, memory, queue, task, disabling, original, upsets, machineVars, serverVars,
          events>>

Paths == Servers \cup Binaries \cup {None}
Env == [run : BOOLEAN, wrapped : Paths \cup {Bundled}, own : 0..MaxEvents]
NoEnv == [run |-> FALSE, wrapped |-> None, own |-> 0]
Idle == [at |-> "idle", binary |-> None, current |-> None, env |-> NoEnv]
Tasks ==
  [at : {"idle", "stop", "look", "leave", "yield", "asked", "remember", "route", "start"},
   binary : Binaries \cup {None}, current : Paths, env : Env]
Disablings == [at : {"idle", "path", "env", "memory"}, previous : Paths, env : Env]
Settings == [path : Paths, env : Env]
Memories == [previous : Paths, declined : BOOLEAN]
Upsets == {"spurious", "rewrapped", "overlapped", "edited", "env edited"}

TypeOK ==
  /\ settings \in Settings /\ memory \in Memories
  /\ found \in Binaries \cup {None} /\ rustPlugin \in {"absent", "bare", "bundling"}
  /\ workspace \in {"none", "nested", "root"}
  /\ queue \in Seq(BOOLEAN)
  /\ task \in Tasks /\ disabling \in Disablings
  /\ client \in {"none", "starting", "running"} /\ running \in Nat /\ orphans \in Nat
  /\ link \in BOOLEAN
  /\ original \in Servers \cup {None} /\ upsets \subseteq Upsets /\ unseen \in BOOLEAN
  /\ events \in 0..MaxEvents

(* A fresh installation; activate queues the first reconciliation.         *)
Init ==
  /\ original \in Servers \cup {None}
  /\ settings = [path |-> original, env |-> NoEnv]
  /\ memory = [previous |-> None, declined |-> FALSE]
  /\ found \in Binaries \cup {None} /\ rustPlugin \in {"absent", "bare", "bundling"}
  /\ workspace \in {"none", "nested", "root"}
  /\ queue = <<FALSE>> /\ task = Idle
  /\ disabling = [at |-> "idle", previous |-> None, env |-> NoEnv]
  /\ client = "none" /\ running = 0 /\ orphans = 0 /\ link = FALSE
  /\ upsets = {} /\ unseen = FALSE /\ events = 0

Goes(at) == task' = [Idle EXCEPT !.at = at]
Ends == Goes("idle")

-----------------------------------------------------------------------------
(* queueReconcile, and a plausible slip that drops a call while one runs.  *)
QueueIfIdle(q, restart) == IF task.at = "idle" THEN Append(q, restart) ELSE q
QueueReconcile(q, restart) == Append(q, restart)

(* stopClient: the variable is cleared before the server has stopped, and  *)
(* stays so when the stop fails, after which the server may live on.  So   *)
(* it may after a start that fails, which clears the variable too.         *)
StopClient(at) == client' = "none" /\ Goes(at)

StopSettles(lives) ==
  /\ running' = IF lives THEN running ELSE running - 1
  /\ orphans' = IF lives THEN orphans + 1 ELSE orphans

Take ==
  /\ task.at = "idle" /\ queue # <<>>
  /\ queue' = Tail(queue)
  /\ IF Head(queue) /\ client = "running"
     THEN StopClient("stop")
     ELSE Goes("look") /\ UNCHANGED client
  /\ UNCHANGED <<settings, memory, disabling, original, upsets, machineVars, running, orphans,
                 link, events>>

Stopped(lives) ==
  /\ task.at = "stop" /\ StopSettles(lives)
  /\ Goes("look")
  /\ UNCHANGED <<settings, memory, queue, disabling, original, upsets, machineVars, client, link,
                 events>>

(* ensureRustAnalyzerIntegration up to the prompt.                         *)
AskUnlessDeclined ==
  IF found # None /\ settings.path # found /\ ~memory.declined
  THEN task' = [at |-> "asked", binary |-> found, current |-> settings.path,
                env |-> settings.env]
  ELSE Ends

(* startClient, and a plausible slip: a client is started next to the one  *)
(* there is.                                                               *)
StartAnother == IF found # None THEN Goes("start") /\ client' = "starting"
                ELSE Ends /\ UNCHANGED client
StartUnlessRunning ==
  IF client = "none" /\ found # None
  THEN Goes("start") /\ client' = "starting"
  ELSE Ends /\ UNCHANGED client

(* A workspace without typeweld.toml: stop the client, then the link.      *)
Leave ==
  IF client = "running" THEN StopClient("leave") ELSE Ends /\ UNCHANGED client

(* reconcile, from the answer of hasTypeweldWorkspace on.                  *)
Wanted == workspace # "none"
Rooted == workspace = "root"

Look ==
  /\ task.at = "look" /\ unseen' = FALSE
  /\ IF ~Wanted
     THEN Leave /\ link' = (link /\ client = "running")
     ELSE /\ link' = (link \/ Rooted)
          /\ IF rustPlugin = "absent" THEN StartUnlessRunning
             ELSE IF client = "running" THEN StopClient("yield")
             ELSE AskUnlessDeclined /\ UNCHANGED client
  /\ UNCHANGED <<settings, memory, queue, disabling, original, upsets, found, rustPlugin, workspace,
                 running, orphans, events>>

Left(lives) ==
  /\ task.at = "leave" /\ StopSettles(lives) /\ link' = FALSE
  /\ Ends
  /\ UNCHANGED <<settings, memory, queue, disabling, original, upsets, machineVars, client,
                 events>>

Yielded(lives) ==
  /\ task.at = "yield" /\ StopSettles(lives)
  /\ AskUnlessDeclined
  /\ UNCHANGED <<settings, memory, queue, disabling, original, upsets, machineVars, client, link,
                 events>>

Started ==
  /\ task.at = "start"
  /\ client' = "running" /\ running' = running + 1
  /\ Ends
  /\ UNCHANGED <<settings, memory, queue, disabling, original, upsets, machineVars, orphans, link,
                 events>>

StartFails(lives) ==
  /\ task.at = "start"
  /\ client' = "none"
  /\ running' = IF lives THEN running + 1 ELSE running
  /\ orphans' = IF lives THEN orphans + 1 ELSE orphans
  /\ Ends
  /\ UNCHANGED <<settings, memory, queue, disabling, original, upsets, machineVars, link, events>>

-----------------------------------------------------------------------------
(* The answer to the prompt; a prompt that is dismissed is refused.        *)
Refuse ==
  /\ task.at = "asked"
  /\ memory' = [memory EXCEPT !.declined = TRUE]
  /\ Ends
  /\ UNCHANGED <<settings, queue, disabling, original, upsets, machineVars, serverVars, events>>

(* The wrapped server: the configured one, or the bundled one, or what     *)
(* the environment has already.                                            *)
Wrapped ==
  IF task.current # None THEN task.current
  ELSE IF rustPlugin = "bundling" THEN Bundled ELSE task.env.wrapped

(* What an accepted prompt preserves, and a plausible slip.                *)
PreserveNew == task.binary
Preserve == task.current

Upset(what, when) == upsets' = IF when THEN upsets \cup {what} ELSE upsets

Accept ==
  /\ task.at = "asked"
  /\ memory' = [memory EXCEPT !.previous = Preserve]
  /\ Upset("rewrapped", task.current \in Binaries)
  /\ task' = [task EXCEPT !.at = "remember"]
  /\ UNCHANGED <<settings, queue, disabling, original, machineVars, serverVars, events>>

Overlapping == disabling.at # "idle" /\ task.at \in {"remember", "route"}

(* The two writes, in their order, and plausible slips: they are swapped,  *)
(* or the environment is not merged with what the user has there.          *)
PathFirst ==
  IF task.at = "remember" THEN [settings EXCEPT !.path = task.binary]
  ELSE [settings EXCEPT !.env = [run |-> TRUE, wrapped |-> Wrapped, own |-> task.env.own]]
Unmerged ==
  IF task.at = "remember"
  THEN [settings EXCEPT !.env = [run |-> TRUE, wrapped |-> Wrapped, own |-> 0]]
  ELSE [settings EXCEPT !.path = task.binary]
Rewritten ==
  IF task.at = "remember"
  THEN [settings EXCEPT !.env = [run |-> TRUE, wrapped |-> Wrapped, own |-> task.env.own]]
  ELSE [settings EXCEPT !.path = task.binary]

Rewrite ==
  /\ task.at \in {"remember", "route"}
  /\ settings' = Rewritten
  /\ Upset("overlapped", Overlapping)
  /\ IF task.at = "remember" THEN task' = [task EXCEPT !.at = "route"] ELSE Ends
  /\ UNCHANGED <<memory, queue, disabling, original, machineVars, serverVars, events>>

(* A write that fails throws; the queue catches it and goes on.            *)
Uncaught == Goes("failed")
Caught == Ends

RewriteFails ==
  /\ task.at \in {"remember", "route"}
  /\ Caught
  /\ UNCHANGED <<settings, memory, queue, disabling, original, upsets, machineVars, serverVars,
                 events>>

-----------------------------------------------------------------------------
Event == events < MaxEvents /\ events' = events + 1

(* disableIntegration: it reads the settings and the memory, then writes   *)
(* one after another.                                                      *)
Disable ==
  /\ disabling.at = "idle" /\ Event
  /\ disabling' = [at |-> "path", previous |-> memory.previous, env |-> settings.env]
  /\ Upset("spurious", settings.path \notin Binaries)
  /\ UNCHANGED <<settings, memory, queue, task, original, machineVars, serverVars>>

Restored ==
  IF disabling.at = "path" THEN [settings EXCEPT !.path = disabling.previous]
  ELSE [settings EXCEPT !.env = [run |-> FALSE, wrapped |-> None, own |-> disabling.env.own]]

Restore ==
  /\ disabling.at \in {"path", "env"}
  /\ settings' = Restored
  /\ Upset("overlapped", Overlapping)
  /\ disabling' = [disabling EXCEPT !.at = IF @ = "path" THEN "env" ELSE "memory"]
  /\ UNCHANGED <<memory, queue, task, original, machineVars, serverVars, events>>

RestoreFails ==
  /\ disabling.at \in {"path", "env"}
  /\ disabling' = [disabling EXCEPT !.at = "idle"]
  /\ UNCHANGED <<settings, memory, queue, task, original, upsets, machineVars, serverVars, events>>

Disabled ==
  /\ disabling.at = "memory"
  /\ memory' = [memory EXCEPT !.declined = TRUE]
  /\ disabling' = [disabling EXCEPT !.at = "idle"]
  /\ UNCHANGED <<settings, queue, task, original, upsets, machineVars, serverVars, events>>

(* The commands that enable and restart.                                   *)
Enable ==
  /\ Event
  /\ memory' = [memory EXCEPT !.declined = FALSE]
  /\ queue' = QueueReconcile(queue, FALSE)
  /\ UNCHANGED <<settings, task, disabling, original, upsets, machineVars, serverVars>>

Restart ==
  /\ Event
  /\ queue' = QueueReconcile(queue, TRUE)
  /\ UNCHANGED <<settings, memory, task, disabling, original, upsets, machineVars, serverVars>>

(* The editor is reloaded: what runs is lost, activate starts again.  A    *)
(* language server, forgotten or not, ends when its input does.            *)
Reload ==
  /\ Event
  /\ queue' = <<FALSE>> /\ task' = Idle /\ disabling' = [disabling EXCEPT !.at = "idle"]
  /\ client' = "none" /\ running' = 0 /\ orphans' = 0 /\ link' = FALSE
  /\ UNCHANGED <<settings, memory, original, upsets, machineVars>>

-----------------------------------------------------------------------------
(* The folders of the workspace change, or typeweld.toml comes and goes,   *)
(* of which nobody tells; the rust-analyzer extension comes and goes.      *)
FoldersChange ==
  /\ Event
  /\ workspace' \in {"none", "nested", "root"} \ {workspace}
  /\ queue' = QueueReconcile(queue, FALSE)
  /\ UNCHANGED <<settings, memory, task, disabling, original, upsets, found, rustPlugin, unseen,
                 serverVars>>

MachineChanges ==
  /\ Event /\ unseen' = TRUE
  /\ \/ workspace' \in {"none", "nested", "root"} \ {workspace} /\ UNCHANGED rustPlugin
     \/ rustPlugin' \in {"absent", "bare", "bundling"} \ {rustPlugin} /\ UNCHANGED workspace
  /\ UNCHANGED <<settings, memory, queue, task, disabling, original, upsets, found, serverVars>>

(* Another typeweld binary is found: an update, or typeweld.server.path,   *)
(* of which the extension is told.                                         *)
BinaryMoves(told) ==
  /\ Event
  /\ found' \in (Binaries \cup {None}) \ {found}
  /\ queue' = IF told THEN QueueReconcile(queue, TRUE) ELSE queue
  /\ UNCHANGED <<settings, memory, task, disabling, original, upsets, rustPlugin, workspace, unseen,
                 serverVars>>

(* The user edits the settings.                                            *)
Underway == task.at \in {"asked", "remember", "route"} \/ disabling.at # "idle"

UserChoosesServer(path) ==
  /\ Event /\ settings.path # path
  /\ settings' = [settings EXCEPT !.path = path] /\ original' = path
  /\ Upset("edited", Underway)
  /\ UNCHANGED <<memory, queue, task, disabling, machineVars, serverVars>>

UserEditsEnv ==
  /\ Event
  /\ settings' = [settings EXCEPT !.env.own = events + 1]
  /\ Upset("env edited", Underway)
  /\ UNCHANGED <<memory, queue, task, disabling, original, machineVars, serverVars>>

-----------------------------------------------------------------------------
Reconcile ==
  \/ Take \/ Look \/ Started
  \/ \E lives \in BOOLEAN : Stopped(lives) \/ Left(lives) \/ Yielded(lives) \/ StartFails(lives)
  \/ Rewrite \/ RewriteFails

Next ==
  \/ Reconcile \/ Refuse \/ Accept
  \/ Disable \/ Restore \/ RestoreFails \/ Disabled
  \/ Enable \/ Restart \/ Reload
  \/ FoldersChange \/ MachineChanges \/ UserEditsEnv
  \/ \E told \in BOOLEAN : BinaryMoves(told)
  \/ \E path \in Servers \cup {None} : UserChoosesServer(path)

Spec == Init /\ [][Next]_vars

(* Promises that are awaited settle, except the prompt, which may stay     *)
(* without an answer.                                                      *)
FairSpec == Spec /\ WF_vars(Reconcile)

-----------------------------------------------------------------------------
Routed == settings.path \in Binaries

(* The user's server is in the settings or preserved.                      *)
OriginalKept ==
  \/ settings.path = original
  \/ Routed /\ memory.previous = original

(* It is, whatever fails or is cut short, unless the integration was       *)
(* disabled while not enabled, or enabled over an earlier typeweld binary, *)
(* or enabled and disabled at once, or the user edited the path under an   *)
(* open prompt or a running handler.                                       *)
OriginalKeptUnlessUpset == upsets \subseteq {"env edited"} => OriginalKept

(* Behind typeweld runs the server the user chose, and typeweld is told to *)
(* be a language server, with the same exceptions: at no moment does the   *)
(* path name typeweld without the environment that makes it one.           *)
RoutedRunsOriginal ==
  upsets \subseteq {"env edited"} /\ Routed =>
    settings.env.run /\ (original # None => settings.env.wrapped = original)

(* The user's other entries of the environment are never lost, unless they *)
(* were edited under an open prompt or a running handler, which write what *)
(* they read before.                                                       *)
OwnEnvKept ==
  [][settings'.env.own < settings.env.own => "env edited" \in upsets]_settings

(* The extension starts no language server next to one it runs, and knows  *)
(* the one it runs: those that run are the client's, or the one whose end  *)
(* it awaits, and those it has forgotten because stopping or starting them *)
(* failed, of which there may be any number.                               *)
Stopping == task.at \in {"stop", "leave", "yield"}

OneServer ==
  /\ running <= orphans + 1
  /\ running > orphans <=> client = "running" \/ Stopping

(* When nothing is left to do, client and link are what the workspace      *)
(* calls for, if the extension was told of all changes.                    *)
SettledRight ==
  task.at = "idle" /\ queue = <<>> /\ ~unseen =>
    /\ ~Wanted => client = "none" /\ ~link
    /\ Rooted => link
    /\ rustPlugin # "absent" => client = "none"

(* No reconciliation waits for ever, except behind an open prompt.         *)
QueueDrains == queue # <<>> ~> queue = <<>> \/ task.at = "asked"
=============================================================================
