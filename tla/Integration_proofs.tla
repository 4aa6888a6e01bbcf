-------------------------- MODULE Integration_proofs --------------------------
(***************************************************************************)
(* Proofs about Integration, for any servers, binaries and number of       *)
(* events.                                                                 *)
(*                                                                         *)
(* TypeOK is not inductive on its own: running is counted down when a      *)
(* client has stopped, and only ServersCounted says that there is one to   *)
(* count.  What the user's server goes through is in OriginalInv, one      *)
(* conjunct per place that holds a copy of it: the prompt, the memory,     *)
(* the environment and a running disableIntegration.                       *)
(***************************************************************************)
EXTENDS Integration, SequenceTheorems, TLAPS

ServersCounted ==
  /\ running = IF client = "running" \/ Stopping THEN orphans + 1 ELSE orphans
  /\ Stopping => client = "none"
  /\ client = "starting" <=> task.at = "start"

TypeInv == TypeOK /\ ServersCounted

Stages == {"idle", "stop", "look", "leave", "yield", "asked", "remember", "route", "start"}

(* A stage without values of its own is a task.                            *)
LEMMA IdleType == Idle \in Tasks /\ Idle.at = "idle"
  BY BoundAssumption DEF Idle, Tasks, NoEnv, Env, Paths

LEMMA GoesType ==
  ASSUME NEW at \in Stages, Goes(at)
  PROVE  task' \in Tasks /\ task'.at = at
  BY IdleType DEF Goes, Tasks, Stages

(* The prompt holds a binary and the settings as they were.                *)
LEMMA AskType ==
  ASSUME TypeOK, AskUnlessDeclined
  PROVE  task' \in Tasks /\ task'.at \in {"asked", "idle"}
<1>1. CASE Ends
  BY <1>1, GoesType DEF Ends, Stages
<1>2. CASE task' = [at |-> "asked", binary |-> found, current |-> settings.path,
                    env |-> settings.env]
  BY <1>2 DEF TypeOK, Tasks, Settings
<1> QED
  BY <1>1, <1>2 DEF AskUnlessDeclined

(* A stage that only moves on keeps the rest of the task.                  *)
LEMMA MovesType ==
  ASSUME TypeOK, NEW at \in Stages, task' = [task EXCEPT !.at = at]
  PROVE  task' \in Tasks /\ task'.at = at
  BY DEF TypeOK, Tasks, Stages

LEMMA DisablingMoves ==
  ASSUME TypeOK, NEW at \in {"idle", "path", "env", "memory"},
         disabling' = [disabling EXCEPT !.at = at]
  PROVE  disabling' \in Disablings
  BY DEF TypeOK, Disablings

LEMMA UpsetType ==
  ASSUME TypeOK, NEW what \in Upsets, NEW when, Upset(what, when)
  PROVE  upsets' \subseteq Upsets /\ upsets \subseteq upsets' /\ (when => what \in upsets')
  BY DEF TypeOK, Upset

(* The queue stays a sequence of flags.                                    *)
LEMMA QueueTypes ==
  ASSUME NEW q \in Seq(BOOLEAN), NEW restart \in BOOLEAN
  PROVE  /\ QueueReconcile(q, restart) \in Seq(BOOLEAN)
         /\ QueueReconcile(q, restart) # <<>>
         /\ q # <<>> => Tail(q) \in Seq(BOOLEAN) /\ Head(q) \in BOOLEAN
  BY AppendProperties, HeadTailProperties DEF QueueReconcile

LEMMA OneFlag == <<FALSE>> \in Seq(BOOLEAN) /\ <<FALSE>> # <<>>
  OBVIOUS

LEMMA EventType == ASSUME TypeOK, Event PROVE events' \in 0..MaxEvents /\ events < MaxEvents
  BY BoundAssumption DEF TypeOK, Event

(* What the two writers put into the settings are settings.                *)
LEMMA WrappedType ==
  ASSUME TypeOK
  PROVE  Wrapped \in Paths \cup {Bundled}
  BY DEF TypeOK, Wrapped, Tasks, Env

LEMMA RewrittenType ==
  ASSUME TypeOK
  PROVE  Rewritten \in Settings
<1>1. [run |-> TRUE, wrapped |-> Wrapped, own |-> task.env.own] \in Env
  BY WrappedType DEF TypeOK, Tasks, Env
<1>2. task.binary \in Paths
  BY DEF TypeOK, Tasks, Paths
<1> QED
  BY <1>1, <1>2 DEF TypeOK, Rewritten, Settings

LEMMA RestoredType ==
  ASSUME TypeOK
  PROVE  Restored \in Settings
<1>1. [run |-> FALSE, wrapped |-> None, own |-> disabling.env.own] \in Env
  BY DEF TypeOK, Disablings, Env, Paths
<1> QED
  BY <1>1 DEF TypeOK, Restored, Settings, Disablings

-----------------------------------------------------------------------------
(* The types hold initially.                                               *)
LEMMA TypeInit == Init => TypeInv
<1> SUFFICES ASSUME Init PROVE TypeInv
  OBVIOUS
<1> USE DEF Init
<1>1. settings \in Settings /\ memory \in Memories
  BY BoundAssumption DEF Settings, Memories, NoEnv, Env, Paths
<1>2. disabling \in Disablings
  BY BoundAssumption DEF Disablings, NoEnv, Env, Paths
<1>3. task \in Tasks /\ task.at = "idle"
  BY IdleType
<1>4. link \in BOOLEAN /\ unseen \in BOOLEAN
  OBVIOUS
<1>6. events \in 0..MaxEvents /\ queue \in Seq(BOOLEAN)
  BY OneFlag, BoundAssumption
<1>5. TypeOK
  BY <1>1, <1>2, <1>3, <1>4, <1>6 DEF TypeOK
<1> QED
  BY <1>3, <1>5 DEF TypeInv, ServersCounted, Stopping

(* Each step keeps the types and the count of servers.                     *)
LEMMA TypeStep == TypeInv /\ [Next]_vars => TypeInv'
<1> SUFFICES ASSUME TypeInv, [Next]_vars PROVE TypeInv'
  OBVIOUS
<1> USE DEF TypeInv, machineVars, serverVars
<1>1. CASE Take
  <2>1. queue' \in Seq(BOOLEAN)
    BY <1>1, QueueTypes DEF Take, TypeOK
  <2>2. \/ client = "running" /\ client' = "none" /\ task' \in Tasks /\ task'.at = "stop"
        \/ UNCHANGED client /\ task' \in Tasks /\ task'.at = "look"
    BY <1>1, GoesType DEF Take, StopClient, Stages
  <2> QED BY <1>1, <2>1, <2>2 DEF Take, TypeOK, ServersCounted, Stopping
<1>2. ASSUME NEW lives \in BOOLEAN, Stopped(lives) PROVE TypeInv'
  <2>1. task' \in Tasks /\ task'.at = "look"
    BY <1>2, GoesType DEF Stopped, Stages, Ends
  <2> QED BY <1>2, <2>1 DEF Stopped, StopSettles, TypeOK, ServersCounted, Stopping
<1>3. CASE Look
  <2>1. link' \in BOOLEAN
    BY <1>3 DEF Look
  <2>2. CASE client' = "none" /\ client = "running" /\ (Goes("leave") \/ Goes("yield"))
    <3>1. task' \in Tasks /\ task'.at \in {"leave", "yield"}
      BY <2>2, GoesType DEF Stages
    <3> QED BY <1>3, <2>1, <2>2, <3>1 DEF Look, TypeOK, ServersCounted, Stopping
  <2>3. CASE Goes("start") /\ client' = "starting" /\ client = "none"
    <3>1. task' \in Tasks /\ task'.at = "start"
      BY <2>3, GoesType DEF Stages
    <3> QED BY <1>3, <2>1, <2>3, <3>1 DEF Look, TypeOK, ServersCounted, Stopping
  <2>4. CASE (Ends \/ AskUnlessDeclined) /\ UNCHANGED client
    <3>1. task' \in Tasks /\ task'.at \in {"idle", "asked"}
      BY <2>4, GoesType, AskType DEF Ends, Stages
    <3> QED BY <1>3, <2>1, <2>4, <3>1 DEF Look, TypeOK, ServersCounted, Stopping
  <2> QED
    BY <1>3, <2>2, <2>3, <2>4 DEF Look, Leave, StopClient, StartUnlessRunning
<1>4. ASSUME NEW lives \in BOOLEAN, Left(lives) PROVE TypeInv'
  <2>1. task' \in Tasks /\ task'.at = "idle"
    BY <1>4, GoesType DEF Left, Stages, Ends
  <2>2. link' \in BOOLEAN
    BY <1>4 DEF Left
  <2> QED BY <1>4, <2>1, <2>2 DEF Left, StopSettles, TypeOK, ServersCounted, Stopping
<1>5. ASSUME NEW lives \in BOOLEAN, Yielded(lives) PROVE TypeInv'
  <2>1. task' \in Tasks /\ task'.at \in {"idle", "asked"}
    BY <1>5, AskType DEF Yielded
  <2> QED BY <1>5, <2>1 DEF Yielded, StopSettles, TypeOK, ServersCounted, Stopping
<1>6. CASE Started
  <2>1. task' \in Tasks /\ task'.at = "idle"
    BY <1>6, GoesType DEF Started, Ends, Stages
  <2> QED BY <1>6, <2>1 DEF Started, TypeOK, ServersCounted, Stopping
<1>7. CASE Rewrite
  <2>1. settings' \in Settings
    BY <1>7, RewrittenType DEF Rewrite
  <2>2. task' \in Tasks /\ task'.at \in {"route", "idle"}
    BY <1>7, MovesType, GoesType DEF Rewrite, Ends, Stages
  <2>3. upsets' \subseteq Upsets
    BY <1>7, UpsetType DEF Rewrite, Upsets
  <2> QED BY <1>7, <2>1, <2>2, <2>3 DEF Rewrite, TypeOK, ServersCounted, Stopping
<1>8. CASE RewriteFails
  <2>1. task' \in Tasks /\ task'.at = "idle"
    BY <1>8, GoesType DEF RewriteFails, Caught, Stages, Ends
  <2> QED BY <1>8, <2>1 DEF RewriteFails, Caught, TypeOK, ServersCounted, Stopping
<1>9. CASE Refuse
  <2>1. task' \in Tasks /\ task'.at = "idle"
    BY <1>9, GoesType DEF Refuse, Ends, Stages
  <2>2. memory' \in Memories
    BY <1>9 DEF Refuse, TypeOK, Memories
  <2> QED BY <1>9, <2>1, <2>2 DEF Refuse, TypeOK, ServersCounted, Stopping
<1>10. CASE Accept
  <2>1. task' \in Tasks /\ task'.at = "remember"
    BY <1>10, MovesType DEF Accept, Stages
  <2>2. memory' \in Memories
    BY <1>10 DEF Accept, Preserve, TypeOK, Memories, Tasks
  <2>3. upsets' \subseteq Upsets
    BY <1>10, UpsetType DEF Accept, Upsets
  <2> QED BY <1>10, <2>1, <2>2, <2>3 DEF Accept, TypeOK, ServersCounted, Stopping
<1>11. CASE Disable
  <2>1. disabling' \in Disablings
    BY <1>11 DEF Disable, TypeOK, Memories, Settings, Disablings
  <2>2. upsets' \subseteq Upsets
    BY <1>11, UpsetType DEF Disable, Upsets
  <2> QED BY <1>11, <2>1, <2>2, EventType DEF Disable, TypeOK, ServersCounted, Stopping
<1>12. CASE Restore
  <2>1. settings' \in Settings
    BY <1>12, RestoredType DEF Restore
  <2>2. disabling' \in Disablings
    BY <1>12, DisablingMoves DEF Restore, TypeOK, Disablings
  <2>3. upsets' \subseteq Upsets
    BY <1>12, UpsetType DEF Restore, Upsets
  <2> QED BY <1>12, <2>1, <2>2, <2>3 DEF Restore, TypeOK, ServersCounted, Stopping
<1>13. CASE RestoreFails
  <2>1. disabling' \in Disablings
    BY <1>13, DisablingMoves DEF RestoreFails
  <2> QED BY <1>13, <2>1 DEF RestoreFails, TypeOK, ServersCounted, Stopping
<1>14. CASE Disabled
  <2>1. disabling' \in Disablings
    BY <1>14, DisablingMoves DEF Disabled
  <2>2. memory' \in Memories
    BY <1>14 DEF Disabled, TypeOK, Memories
  <2> QED BY <1>14, <2>1, <2>2 DEF Disabled, TypeOK, ServersCounted, Stopping
<1>15. CASE Enable
  <2>1. queue' \in Seq(BOOLEAN)
    BY <1>15, QueueTypes DEF Enable, TypeOK
  <2>2. memory' \in Memories
    BY <1>15 DEF Enable, TypeOK, Memories
  <2> QED BY <1>15, <2>1, <2>2, EventType DEF Enable, TypeOK, ServersCounted, Stopping
<1>16. CASE Restart
  <2>1. queue' \in Seq(BOOLEAN)
    BY <1>16, QueueTypes DEF Restart, TypeOK
  <2> QED BY <1>16, <2>1, EventType DEF Restart, TypeOK, ServersCounted, Stopping
<1>17. CASE Reload
  <2>1. disabling' \in Disablings
    BY <1>17, DisablingMoves DEF Reload
  <2> QED BY <1>17, <2>1, IdleType, OneFlag, EventType
             DEF Reload, TypeOK, ServersCounted, Stopping
<1>18. CASE FoldersChange
  <2>1. queue' \in Seq(BOOLEAN)
    BY <1>18, QueueTypes DEF FoldersChange, TypeOK
  <2> QED BY <1>18, <2>1, EventType DEF FoldersChange, TypeOK, ServersCounted, Stopping
<1>19. CASE MachineChanges
  <2> QED BY <1>19, EventType DEF MachineChanges, TypeOK, ServersCounted, Stopping
<1>20. CASE UserEditsEnv
  <2>1. settings' \in Settings
    <3>1. events + 1 \in 0..MaxEvents
      BY <1>20, EventType DEF UserEditsEnv, Event
    <3> QED BY <1>20, <3>1 DEF UserEditsEnv, TypeOK, Settings, Env
  <2>2. upsets' \subseteq Upsets
    BY <1>20, UpsetType DEF UserEditsEnv, Upsets
  <2> QED BY <1>20, <2>1, <2>2, EventType DEF UserEditsEnv, TypeOK, ServersCounted, Stopping
<1>21. ASSUME NEW told \in BOOLEAN, BinaryMoves(told) PROVE TypeInv'
  <2>1. queue' \in Seq(BOOLEAN)
    BY <1>21, QueueTypes DEF BinaryMoves, TypeOK
  <2> QED BY <1>21, <2>1, EventType DEF BinaryMoves, TypeOK, ServersCounted, Stopping
<1>22. ASSUME NEW path \in Servers \cup {None}, UserChoosesServer(path) PROVE TypeInv'
  <2>1. settings' \in Settings
    BY <1>22 DEF UserChoosesServer, TypeOK, Settings, Paths
  <2>2. upsets' \subseteq Upsets
    BY <1>22, UpsetType DEF UserChoosesServer, Upsets
  <2> QED BY <1>22, <2>1, <2>2, EventType DEF UserChoosesServer, TypeOK, ServersCounted, Stopping
<1>23. CASE UNCHANGED vars
  BY <1>23 DEF vars, TypeOK, ServersCounted, Stopping
<1>24. ASSUME NEW lives \in BOOLEAN, StartFails(lives) PROVE TypeInv'
  <2>1. task' \in Tasks /\ task'.at = "idle"
    BY <1>24, GoesType DEF StartFails, Ends, Stages
  <2> QED BY <1>24, <2>1 DEF StartFails, TypeOK, ServersCounted, Stopping
<1> QED
  BY <1>1, <1>2, <1>3, <1>4, <1>5, <1>6, <1>7, <1>8, <1>9, <1>10, <1>11, <1>12,
     <1>13, <1>14, <1>15, <1>16, <1>17, <1>18, <1>19, <1>20, <1>21, <1>22, <1>23, <1>24
  DEF Next, Reconcile

(* Every variable stays within its type.                                   *)
THEOREM TypeCorrect == Spec => []TypeOK
<1> QED BY TypeInit, TypeStep, PTL DEF Spec, TypeInv

(* No language server is started next to one the extension knows of, and   *)
(* all others that run it has failed to stop or to start: reconcile,       *)
(* startClient and stopClient, whatever else happens.                      *)
THEOREM OneServerRuns == Spec => []OneServer
<1>1. TypeInv => OneServer
  BY DEF TypeInv, TypeOK, ServersCounted, Stopping, OneServer
<1> QED BY <1>1, TypeInit, TypeStep, PTL DEF Spec

-----------------------------------------------------------------------------
(* What the user's server goes through.                                    *)
Clean == upsets \subseteq {"env edited"}
Serves(env) == env.run /\ (original # None => env.wrapped = original)

OriginalInv ==
  Clean =>
    /\ OriginalKept
    /\ Routed => Serves(settings.env)
    /\ task.at \in {"asked", "remember", "route"} =>
         task.binary \in Binaries /\ task.current \in Binaries \cup {original}
    /\ task.at \in {"remember", "route"} =>
         task.current \notin Binaries /\ memory.previous = original
    /\ task.at = "route" => Serves(settings.env)
    /\ disabling.at = "path" => disabling.previous = original
    /\ disabling.at = "env" => ~Routed

(* What was lost stays lost; nothing but an edit of the environment is     *)
(* forgiven.                                                               *)
LEMMA CleanBefore ==
  ASSUME NEW what \in Upsets \ {"env edited"}, NEW when \in BOOLEAN, Upset(what, when), Clean'
  PROVE  Clean /\ ~when
  BY DEF Upset, Clean

LEMMA CleanAlways ==
  ASSUME NEW what \in Upsets, NEW when \in BOOLEAN, Upset(what, when), Clean'
  PROVE  Clean
  BY DEF Upset, Clean

LEMMA OriginalInit == Init => OriginalInv
  BY PathsAssumption DEF Init, OriginalInv, OriginalKept, Routed, Idle, NoEnv

(* A step that touches none of the copies.                                 *)
LEMMA OriginalUntouched ==
  ASSUME OriginalInv, UNCHANGED <<settings, memory, original, upsets>>,
         disabling' = disabling \/ disabling'.at \in {"idle", "memory"},
         task' = task \/ task'.at \notin {"asked", "remember", "route"}
  PROVE  OriginalInv'
  BY DEF OriginalInv, Clean, Serves, OriginalKept, Routed

(* The prompt is shown over the user's own server, or over typeweld.       *)
LEMMA OriginalAsked ==
  ASSUME TypeOK, OriginalInv, AskUnlessDeclined,
         UNCHANGED <<settings, memory, original, upsets, disabling>>
  PROVE  OriginalInv'
<1>1. CASE Ends
  BY <1>1, OriginalUntouched, GoesType DEF Ends, Stages
<1>2. CASE task' = [at |-> "asked", binary |-> found, current |-> settings.path,
                    env |-> settings.env] /\ found # None
  <2>1. task'.at = "asked" /\ task'.binary \in Binaries /\ task'.current = settings.path
    BY <1>2 DEF TypeOK
  <2> QED
    BY <2>1, <1>2 DEF OriginalInv, Clean, Serves, OriginalKept, Routed
<1> QED
  BY <1>1, <1>2 DEF AskUnlessDeclined

LEMMA OriginalStep == TypeInv /\ OriginalInv /\ [Next]_vars => OriginalInv'
<1> SUFFICES ASSUME TypeInv, OriginalInv, [Next]_vars PROVE OriginalInv'
  OBVIOUS
<1> USE DEF TypeInv, machineVars, serverVars
<1>1. CASE Take
  <2>1. task'.at \in {"stop", "look"}
    BY <1>1, GoesType DEF Take, StopClient, Stages
  <2> QED BY <1>1, <2>1, OriginalUntouched DEF Take
<1>2. ASSUME NEW lives \in BOOLEAN, Stopped(lives) PROVE OriginalInv'
  <2>1. task'.at = "look"
    BY <1>2, GoesType DEF Stopped, Stages
  <2> QED BY <1>2, <2>1, OriginalUntouched DEF Stopped
<1>3. CASE Look
  <2>1. CASE AskUnlessDeclined
    BY <1>3, <2>1, OriginalAsked DEF Look
  <2>2. CASE \E at \in {"leave", "yield", "start", "idle"} : Goes(at)
    <3>1. task'.at \in {"leave", "yield", "start", "idle"}
      BY <2>2, GoesType DEF Stages
    <3> QED BY <1>3, <3>1, OriginalUntouched DEF Look
  <2> QED
    BY <1>3, <2>1, <2>2 DEF Look, Leave, StopClient, StartUnlessRunning, Ends
<1>4. ASSUME NEW lives \in BOOLEAN, Left(lives) PROVE OriginalInv'
  <2>1. task'.at = "idle"
    BY <1>4, GoesType DEF Left, Ends, Stages
  <2> QED BY <1>4, <2>1, OriginalUntouched DEF Left
<1>5. ASSUME NEW lives \in BOOLEAN, Yielded(lives) PROVE OriginalInv'
  <2> QED BY <1>5, OriginalAsked DEF Yielded
<1>6. CASE Started
  <2>1. task'.at = "idle"
    BY <1>6, GoesType DEF Started, Ends, Stages
  <2> QED BY <1>6, <2>1, OriginalUntouched DEF Started
<1>7. CASE Rewrite
  <2> SUFFICES ASSUME Clean' PROVE OriginalInv'
    BY DEF OriginalInv
  <2>1. Clean /\ disabling.at = "idle"
    BY <1>7, CleanBefore DEF Rewrite, Overlapping, Upsets
  <2>2. CASE task.at = "remember"
    <3>1. task'.at = "route" /\ task'.binary = task.binary /\ task'.current = task.current
      BY <1>7, <2>2 DEF Rewrite, TypeOK, Tasks
    <3>2. settings'.path = settings.path /\ settings'.env.run
          /\ settings'.env.wrapped = Wrapped
      BY <1>7, <2>2 DEF Rewrite, Rewritten, TypeOK, Settings
    <3>3. original # None => Wrapped = original
      BY <2>1, <2>2 DEF OriginalInv, Wrapped
    <3> QED
      BY <1>7, <2>1, <2>2, <3>1, <3>2, <3>3
         DEF Rewrite, OriginalInv, Clean, Serves, OriginalKept, Routed
  <2>3. CASE task.at = "route"
    <3>1. task'.at = "idle"
      BY <1>7, <2>3, GoesType DEF Rewrite, Ends, Stages
    <3>2. settings'.path = task.binary /\ settings'.env = settings.env
      BY <1>7, <2>3 DEF Rewrite, Rewritten, TypeOK, Settings
    <3> QED
      BY <1>7, <2>1, <2>3, <3>1, <3>2
         DEF Rewrite, OriginalInv, Clean, Serves, OriginalKept, Routed
  <2> QED BY <1>7, <2>2, <2>3 DEF Rewrite
<1>8. CASE RewriteFails
  <2>1. task'.at = "idle"
    BY <1>8, GoesType DEF RewriteFails, Caught, Ends, Stages
  <2> QED BY <1>8, <2>1, OriginalUntouched DEF RewriteFails
<1>9. CASE Refuse
  <2>1. task'.at = "idle" /\ memory'.previous = memory.previous
    BY <1>9, GoesType DEF Refuse, Ends, Stages, TypeOK, Memories
  <2> QED BY <1>9, <2>1 DEF Refuse, OriginalInv, Clean, Serves, OriginalKept, Routed
<1>10. CASE Accept
  <2> SUFFICES ASSUME Clean' PROVE OriginalInv'
    BY DEF OriginalInv
  <2>1. Clean /\ task.current \notin Binaries
    BY <1>10 DEF Accept, Upset, Clean
  <2>2. /\ task'.at = "remember" /\ task'.binary = task.binary /\ task'.current = task.current
        /\ memory'.previous = task.current
    BY <1>10 DEF Accept, Preserve, TypeOK, Tasks, Memories
  <2> QED
    BY <1>10, <2>1, <2>2 DEF Accept, OriginalInv, Clean, Serves, OriginalKept, Routed
<1>11. CASE Disable
  <2> SUFFICES ASSUME Clean' PROVE OriginalInv'
    BY DEF OriginalInv
  <2>1. Clean /\ settings.path \in Binaries
    BY <1>11, CleanBefore DEF Disable, Upsets
  <2>2. disabling'.at = "path" /\ disabling'.previous = memory.previous
    BY <1>11 DEF Disable
  <2>3. original \notin Binaries
    BY PathsAssumption DEF TypeOK
  <2> QED
    BY <1>11, <2>1, <2>2, <2>3 DEF Disable, OriginalInv, Clean, Serves, OriginalKept, Routed
<1>12. CASE Restore
  <2> SUFFICES ASSUME Clean' PROVE OriginalInv'
    BY DEF OriginalInv
  <2>1. Clean /\ task.at \notin {"remember", "route"}
    BY <1>12, CleanBefore DEF Restore, Overlapping, Upsets
  <2>2. original \notin Binaries
    BY PathsAssumption DEF TypeOK
  <2>3. CASE disabling.at = "path"
    <3>1. settings'.path = disabling.previous /\ disabling'.at = "env"
      BY <1>12, <2>3 DEF Restore, Restored, TypeOK, Settings, Disablings
    <3> QED
      BY <1>12, <2>1, <2>2, <2>3, <3>1
         DEF Restore, OriginalInv, Clean, Serves, OriginalKept, Routed
  <2>4. CASE disabling.at = "env"
    <3>1. settings'.path = settings.path /\ disabling'.at = "memory"
      BY <1>12, <2>4 DEF Restore, Restored, TypeOK, Settings, Disablings
    <3> QED
      BY <1>12, <2>1, <2>4, <3>1 DEF Restore, OriginalInv, Clean, Serves, OriginalKept, Routed
  <2> QED BY <1>12, <2>3, <2>4 DEF Restore
<1>13. CASE RestoreFails
  <2>1. disabling'.at = "idle"
    BY <1>13 DEF RestoreFails, TypeOK, Disablings
  <2> QED BY <1>13, <2>1, OriginalUntouched DEF RestoreFails
<1>14. CASE Disabled
  <2>1. disabling'.at = "idle" /\ memory'.previous = memory.previous
    BY <1>14 DEF Disabled, TypeOK, Disablings, Memories
  <2> QED BY <1>14, <2>1 DEF Disabled, OriginalInv, Clean, Serves, OriginalKept, Routed
<1>15. CASE Enable
  <2>1. memory'.previous = memory.previous
    BY <1>15 DEF Enable, TypeOK, Memories
  <2> QED BY <1>15, <2>1 DEF Enable, OriginalInv, Clean, Serves, OriginalKept, Routed
<1>16. CASE Restart
  <2> QED BY <1>16, OriginalUntouched DEF Restart
<1>17. CASE Reload
  <2>1. disabling'.at = "idle" /\ task'.at = "idle"
    BY <1>17, IdleType DEF Reload, TypeOK, Disablings
  <2> QED BY <1>17, <2>1, OriginalUntouched DEF Reload
<1>18. CASE FoldersChange
  <2> QED BY <1>18, OriginalUntouched DEF FoldersChange
<1>19. CASE MachineChanges
  <2> QED BY <1>19, OriginalUntouched DEF MachineChanges
<1>20. CASE UserEditsEnv
  <2> SUFFICES ASSUME Clean' PROVE OriginalInv'
    BY DEF OriginalInv
  <2>1. Clean
    BY <1>20, CleanAlways DEF UserEditsEnv, Upsets, Underway
  <2>2. /\ settings'.path = settings.path
        /\ settings'.env.run = settings.env.run /\ settings'.env.wrapped = settings.env.wrapped
    BY <1>20 DEF UserEditsEnv, TypeOK, Settings, Env
  <2> QED
    BY <1>20, <2>1, <2>2 DEF UserEditsEnv, OriginalInv, Clean, Serves, OriginalKept, Routed
<1>21. ASSUME NEW told \in BOOLEAN, BinaryMoves(told) PROVE OriginalInv'
  <2> QED BY <1>21, OriginalUntouched DEF BinaryMoves
<1>22. ASSUME NEW path \in Servers \cup {None}, UserChoosesServer(path) PROVE OriginalInv'
  <2> SUFFICES ASSUME Clean' PROVE OriginalInv'
    BY DEF OriginalInv
  <2>1. Clean /\ ~Underway
    BY <1>22, CleanBefore DEF UserChoosesServer, Upsets, Underway
  <2>2. settings'.path = path /\ path \notin Binaries
    BY <1>22, PathsAssumption DEF UserChoosesServer, TypeOK, Settings
  <2> QED
    BY <1>22, <2>1, <2>2
       DEF UserChoosesServer, Underway, OriginalInv, Clean, Serves, OriginalKept, Routed
<1>23. CASE UNCHANGED vars
  BY <1>23 DEF vars, OriginalInv, Clean, Serves, OriginalKept, Routed
<1>24. ASSUME NEW lives \in BOOLEAN, StartFails(lives) PROVE OriginalInv'
  <2>1. task'.at = "idle"
    BY <1>24, GoesType DEF StartFails, Ends, Stages
  <2> QED BY <1>24, <2>1, OriginalUntouched DEF StartFails
<1> QED
  BY <1>1, <1>2, <1>3, <1>4, <1>5, <1>6, <1>7, <1>8, <1>9, <1>10, <1>11, <1>12,
     <1>13, <1>14, <1>15, <1>16, <1>17, <1>18, <1>19, <1>20, <1>21, <1>22, <1>23, <1>24
  DEF Next, Reconcile

(* The user's server survives everything but the four ways that upsets     *)
(* lists: the writes of ensureRustAnalyzerIntegration and                  *)
(* disableIntegration, cut short or failing anywhere.                      *)
THEOREM OriginalSurvives == Spec => []OriginalKeptUnlessUpset
<1>1. OriginalInv => OriginalKeptUnlessUpset
  BY DEF OriginalInv, Clean, OriginalKeptUnlessUpset
<1> QED BY <1>1, TypeInit, TypeStep, OriginalInit, OriginalStep, PTL DEF Spec

(* While the path names typeweld, the environment makes it a language      *)
(* server that wraps the user's own: the order of the two writes.          *)
THEOREM OriginalRuns == Spec => []RoutedRunsOriginal
<1>1. OriginalInv => RoutedRunsOriginal
  BY DEF OriginalInv, Clean, Serves, RoutedRunsOriginal
<1> QED BY <1>1, TypeInit, TypeStep, OriginalInit, OriginalStep, PTL DEF Spec

-----------------------------------------------------------------------------
(* What the prompt and disableIntegration hold of the user's entries is    *)
(* what the settings have, until the user edits them meanwhile.            *)
EnvInv ==
  "env edited" \notin upsets =>
    /\ task.at \in {"asked", "remember", "route"} => task.env.own = settings.env.own
    /\ disabling.at \in {"path", "env"} => disabling.env.own = settings.env.own

OwnStep ==
  \/ settings'.env.own = settings.env.own
  \/ settings'.env.own = events + 1 /\ events' = events + 1
  \/ "env edited" \in upsets

LEMMA EnvInit == Init => EnvInv
  BY DEF Init, EnvInv, Idle, NoEnv

LEMMA UpsetsGrow ==
  ASSUME NEW what, NEW when, Upset(what, when)
  PROVE  upsets \subseteq upsets'
  BY DEF Upset

(* A step that leaves the copies alone.                                    *)
LEMMA EnvUntouched ==
  ASSUME EnvInv, UNCHANGED settings, upsets \subseteq upsets',
         disabling' = disabling \/ disabling'.at \notin {"path", "env"},
         task' = task \/ task'.at \notin {"asked", "remember", "route"}
  PROVE  EnvInv' /\ OwnStep
  BY DEF EnvInv, OwnStep

LEMMA EnvAsked ==
  ASSUME TypeOK, EnvInv, AskUnlessDeclined, UNCHANGED <<settings, upsets, disabling>>
  PROVE  EnvInv' /\ OwnStep
<1>1. CASE Ends
  BY <1>1, EnvUntouched, GoesType DEF Ends, Stages
<1>2. CASE task' = [at |-> "asked", binary |-> found, current |-> settings.path,
                    env |-> settings.env]
  BY <1>2 DEF EnvInv, OwnStep
<1> QED
  BY <1>1, <1>2 DEF AskUnlessDeclined

LEMMA EnvStep == TypeInv /\ EnvInv /\ [Next]_vars => EnvInv' /\ OwnStep
<1> SUFFICES ASSUME TypeInv, EnvInv, [Next]_vars PROVE EnvInv' /\ OwnStep
  OBVIOUS
<1> USE DEF TypeInv, machineVars, serverVars
<1>1. CASE Take
  <2>1. task'.at \in {"stop", "look"}
    BY <1>1, GoesType DEF Take, StopClient, Stages
  <2> QED BY <1>1, <2>1, EnvUntouched DEF Take
<1>2. ASSUME NEW lives \in BOOLEAN, Stopped(lives) PROVE EnvInv' /\ OwnStep
  <2>1. task'.at = "look"
    BY <1>2, GoesType DEF Stopped, Stages
  <2> QED BY <1>2, <2>1, EnvUntouched DEF Stopped
<1>3. CASE Look
  <2>1. CASE AskUnlessDeclined
    BY <1>3, <2>1, EnvAsked DEF Look
  <2>2. CASE \E at \in {"leave", "yield", "start", "idle"} : Goes(at)
    <3>1. task'.at \in {"leave", "yield", "start", "idle"}
      BY <2>2, GoesType DEF Stages
    <3> QED BY <1>3, <3>1, EnvUntouched DEF Look
  <2> QED
    BY <1>3, <2>1, <2>2 DEF Look, Leave, StopClient, StartUnlessRunning, Ends
<1>4. ASSUME NEW lives \in BOOLEAN, Left(lives) PROVE EnvInv' /\ OwnStep
  <2>1. task'.at = "idle"
    BY <1>4, GoesType DEF Left, Ends, Stages
  <2> QED BY <1>4, <2>1, EnvUntouched DEF Left
<1>5. ASSUME NEW lives \in BOOLEAN, Yielded(lives) PROVE EnvInv' /\ OwnStep
  <2> QED BY <1>5, EnvAsked DEF Yielded
<1>6. CASE Started
  <2>1. task'.at = "idle"
    BY <1>6, GoesType DEF Started, Ends, Stages
  <2> QED BY <1>6, <2>1, EnvUntouched DEF Started
<1>7. CASE Rewrite
  <2>1. upsets \subseteq upsets'
    BY <1>7, UpsetsGrow DEF Rewrite
  <2>2. \/ task'.at = "idle"
        \/ task.at = "remember" /\ task'.env = task.env
    BY <1>7, GoesType DEF Rewrite, Ends, Stages, TypeOK, Tasks
  <2>3. \/ task.at = "remember" /\ settings'.env.own = task.env.own
        \/ settings'.env = settings.env
    BY <1>7 DEF Rewrite, Rewritten, TypeOK, Settings
  <2> QED BY <1>7, <2>1, <2>2, <2>3 DEF Rewrite, EnvInv, OwnStep
<1>8. CASE RewriteFails
  <2>1. task'.at = "idle"
    BY <1>8, GoesType DEF RewriteFails, Caught, Ends, Stages
  <2> QED BY <1>8, <2>1, EnvUntouched DEF RewriteFails
<1>9. CASE Refuse
  <2>1. task'.at = "idle"
    BY <1>9, GoesType DEF Refuse, Ends, Stages
  <2> QED BY <1>9, <2>1, EnvUntouched DEF Refuse
<1>10. CASE Accept
  <2>1. upsets \subseteq upsets'
    BY <1>10, UpsetsGrow DEF Accept
  <2>2. task'.env = task.env
    BY <1>10 DEF Accept, TypeOK, Tasks
  <2> QED BY <1>10, <2>1, <2>2 DEF Accept, EnvInv, OwnStep
<1>11. CASE Disable
  <2>1. upsets \subseteq upsets'
    BY <1>11, UpsetsGrow DEF Disable
  <2>2. disabling'.env = settings.env
    BY <1>11 DEF Disable
  <2> QED BY <1>11, <2>1, <2>2 DEF Disable, EnvInv, OwnStep
<1>12. CASE Restore
  <2>1. upsets \subseteq upsets'
    BY <1>12, UpsetsGrow DEF Restore
  <2>2. disabling'.env = disabling.env
    BY <1>12 DEF Restore, TypeOK, Disablings
  <2>3. settings'.env.own \in {settings.env.own, disabling.env.own}
    BY <1>12 DEF Restore, Restored, TypeOK, Settings
  <2> QED BY <1>12, <2>1, <2>2, <2>3 DEF Restore, EnvInv, OwnStep
<1>13. CASE RestoreFails
  <2>1. disabling'.at = "idle"
    BY <1>13 DEF RestoreFails, TypeOK, Disablings
  <2> QED BY <1>13, <2>1, EnvUntouched DEF RestoreFails
<1>14. CASE Disabled
  <2>1. disabling'.at = "idle"
    BY <1>14 DEF Disabled, TypeOK, Disablings
  <2> QED BY <1>14, <2>1, EnvUntouched DEF Disabled
<1>15. CASE Enable
  <2> QED BY <1>15, EnvUntouched DEF Enable
<1>16. CASE Restart
  <2> QED BY <1>16, EnvUntouched DEF Restart
<1>17. CASE Reload
  <2>1. disabling'.at = "idle" /\ task'.at = "idle"
    BY <1>17, IdleType DEF Reload, TypeOK, Disablings
  <2> QED BY <1>17, <2>1, EnvUntouched DEF Reload
<1>18. CASE FoldersChange
  <2> QED BY <1>18, EnvUntouched DEF FoldersChange
<1>19. CASE MachineChanges
  <2> QED BY <1>19, EnvUntouched DEF MachineChanges
<1>20. CASE UserEditsEnv
  <2>1. events' = events + 1 /\ settings'.env.own = events + 1
    BY <1>20 DEF UserEditsEnv, Event, TypeOK, Settings, Env
  <2>2. CASE Underway
    BY <1>20, <2>1, <2>2 DEF UserEditsEnv, Upset, EnvInv, OwnStep
  <2>3. CASE ~Underway
    BY <1>20, <2>1, <2>3 DEF UserEditsEnv, Upset, Underway, EnvInv, OwnStep
  <2> QED BY <2>2, <2>3
<1>21. ASSUME NEW told \in BOOLEAN, BinaryMoves(told) PROVE EnvInv' /\ OwnStep
  <2> QED BY <1>21, EnvUntouched DEF BinaryMoves
<1>22. ASSUME NEW path \in Servers \cup {None}, UserChoosesServer(path) PROVE EnvInv' /\ OwnStep
  <2>1. upsets \subseteq upsets'
    BY <1>22, UpsetsGrow DEF UserChoosesServer, Event
  <2>2. settings'.env = settings.env
    BY <1>22 DEF UserChoosesServer, TypeOK, Settings
  <2> QED BY <1>22, <2>1, <2>2 DEF UserChoosesServer, EnvInv, OwnStep
<1>23. CASE UNCHANGED vars
  BY <1>23 DEF vars, EnvInv, OwnStep
<1>24. ASSUME NEW lives \in BOOLEAN, StartFails(lives) PROVE EnvInv' /\ OwnStep
  <2>1. task'.at = "idle"
    BY <1>24, GoesType DEF StartFails, Ends, Stages
  <2> QED BY <1>24, <2>1, EnvUntouched DEF StartFails
<1> QED
  BY <1>1, <1>2, <1>3, <1>4, <1>5, <1>6, <1>7, <1>8, <1>9, <1>10, <1>11, <1>12,
     <1>13, <1>14, <1>15, <1>16, <1>17, <1>18, <1>19, <1>20, <1>21, <1>22, <1>23, <1>24
  DEF Next, Reconcile

(* The entries carry the number of their last edit.                        *)
EventsGrow == events' = events \/ events' = events + 1

LEMMA EventsStep == [Next]_vars => EventsGrow
  BY DEF Next, Reconcile, Take, Stopped, Look, Left, Yielded, Started, StartFails,
         Rewrite, RewriteFails,
         Refuse, Accept, Disable, Restore, RestoreFails, Disabled, Enable, Restart, Reload,
         FoldersChange, MachineChanges, UserEditsEnv, BinaryMoves, UserChoosesServer, Event,
         EventsGrow, vars

OwnGoesUp == settings.env.own <= settings'.env.own \/ "env edited" \in upsets

Numbered == "env edited" \notin upsets => settings.env.own <= events

LEMMA UpsetsStep == [Next]_vars => upsets \subseteq upsets'
  BY UpsetsGrow
     DEF Next, Reconcile, Take, Stopped, Look, Left, Yielded, Started, StartFails,
         Rewrite, RewriteFails,
         Refuse, Accept, Disable, Restore, RestoreFails, Disabled, Enable, Restart, Reload,
         FoldersChange, MachineChanges, UserEditsEnv, BinaryMoves, UserChoosesServer, vars

LEMMA LaterNumber ==
  ASSUME NEW old \in Nat, NEW new \in Nat, NEW now \in Nat, NEW then \in Nat, old <= now,
         new = old \/ (new = now + 1 /\ then = now + 1), then = now \/ then = now + 1
  PROVE  new <= then /\ old <= new
  OBVIOUS

LEMMA NumberedStep ==
  ASSUME TypeOK, TypeOK', Numbered, OwnStep, EventsGrow, upsets \subseteq upsets'
  PROVE  /\ Numbered'
         /\ OwnGoesUp
<1>1. /\ settings.env.own \in Nat /\ events \in Nat
      /\ settings'.env.own \in Nat /\ events' \in Nat
  BY BoundAssumption DEF TypeOK, Settings, Env
<1>2. CASE "env edited" \in upsets
  BY <1>2 DEF Numbered, OwnGoesUp
<1>3. CASE "env edited" \notin upsets
  <2>1. settings.env.own <= events
    BY <1>3 DEF Numbered
  <2>2. \/ settings'.env.own = settings.env.own
        \/ settings'.env.own = events + 1 /\ events' = events + 1
    BY <1>3 DEF OwnStep
  <2>3. events' = events \/ events' = events + 1
    BY DEF EventsGrow
  <2>4. settings'.env.own <= events' /\ settings.env.own <= settings'.env.own
    BY <1>1, <2>1, <2>2, <2>3, LaterNumber
  <2> QED
    BY <2>4 DEF Numbered, OwnGoesUp
<1> QED
  BY <1>2, <1>3

(* No write puts back the user's entries of extraEnv as they were before.  *)
THEOREM OwnEntriesSurvive == Spec => OwnEnvKept
<1>1. Init => Numbered
  BY DEF Init, Numbered, NoEnv
<1>2. TypeInv /\ EnvInv /\ Numbered /\ [Next]_vars => Numbered' /\ OwnGoesUp
  BY TypeStep, EnvStep, EventsStep, UpsetsStep, NumberedStep DEF TypeInv, OwnGoesUp
<1>3. TypeInv /\ TypeInv' /\ OwnGoesUp =>
        [settings'.env.own < settings.env.own => "env edited" \in upsets]_settings
  <2> SUFFICES ASSUME TypeOK, TypeOK', OwnGoesUp, settings'.env.own < settings.env.own
               PROVE  "env edited" \in upsets
    BY DEF TypeInv
  <2>1. settings.env.own \in Nat /\ settings'.env.own \in Nat
    BY BoundAssumption DEF TypeOK, Settings, Env
  <2>2. ~(settings.env.own <= settings'.env.own)
    BY <2>1
  <2> QED BY <2>2 DEF OwnGoesUp
<1> QED
  BY <1>1, <1>2, <1>3, TypeInit, TypeStep, EnvInit, EnvStep, PTL DEF Spec, OwnEnvKept

-----------------------------------------------------------------------------
(* What a reconciliation that has looked has seen is still so, until it is *)
(* told of a change or misses one.                                         *)
SettledInv ==
  queue = <<>> /\ ~unseen /\ task.at \notin {"stop", "look"} =>
    /\ Rooted => link
    /\ rustPlugin # "absent" => client = "none"
    /\ ~Wanted => client = "none" /\ (link => task.at = "leave")
    /\ task.at = "leave" => ~Wanted
    /\ task.at \in {"yield", "asked", "remember", "route", "start"} => Wanted
    /\ task.at = "start" => rustPlugin = "absent"

LEMMA SettledInit == Init => SettledInv
  BY DEF Init, SettledInv

(* A step that makes work leaves nothing settled.                          *)
LEMMA Unsettled ==
  ASSUME queue' # <<>> \/ unseen' \/ task'.at \in {"stop", "look"}
  PROVE  SettledInv'
  BY DEF SettledInv

(* A reconciliation that moves on without touching client and link.        *)
LEMMA SettledOn ==
  ASSUME TypeOK, TypeOK', SettledInv, task.at \notin {"stop", "look", "leave"},
         task.at # "idle" \/ task'.at = "idle",
         UNCHANGED <<client, link, queue, unseen, rustPlugin, workspace>>,
         task'.at \in {"idle", "asked", "remember", "route"}
  PROVE  SettledInv'
<1>1. (unseen' <=> unseen) /\ (link' <=> link) /\ workspace' = workspace
  BY DEF TypeOK
<1>2. CASE task.at = "idle"
  BY <1>1, <1>2 DEF SettledInv, Wanted, Rooted
<1>3. CASE task.at \in {"yield", "asked", "remember", "route", "start"}
  BY <1>1, <1>3 DEF SettledInv, Wanted, Rooted
<1> QED
  BY <1>2, <1>3 DEF TypeOK, Tasks

LEMMA SettledStep == TypeInv /\ SettledInv /\ [Next]_vars => SettledInv'
<1> SUFFICES ASSUME TypeInv, TypeInv', SettledInv, [Next]_vars PROVE SettledInv'
  BY TypeStep
<1> USE DEF TypeInv, machineVars, serverVars
<1>1. CASE Take
  <2>1. task'.at \in {"stop", "look"}
    BY <1>1, GoesType DEF Take, StopClient, Stages
  <2> QED BY <2>1, Unsettled
<1>2. ASSUME NEW lives \in BOOLEAN, Stopped(lives) PROVE SettledInv'
  <2>1. task'.at = "look"
    BY <1>2, GoesType DEF Stopped, Stages
  <2> QED BY <2>1, Unsettled
<1>3. CASE Look
  <2>1. client # "starting"
    BY <1>3 DEF Look, ServersCounted
  <2>2. CASE ~Wanted
    <3>1. client' = "none" /\ task'.at \in {"leave", "idle"} /\ (link' => task'.at = "leave")
      <4>1. link' <=> link /\ client = "running"
        BY <1>3, <2>2 DEF Look
      <4>2. CASE client = "running"
        BY <1>3, <2>2, <4>2, GoesType DEF Look, Leave, StopClient, Stages
      <4>3. CASE client = "none"
        BY <1>3, <2>2, <4>1, <4>3, GoesType DEF Look, Leave, Ends, Stages
      <4> QED BY <2>1, <4>2, <4>3 DEF TypeOK
    <3> QED
      BY <1>3, <2>2, <3>1 DEF Look, SettledInv, Wanted, Rooted
  <2>3. CASE Wanted /\ rustPlugin = "absent"
    <3>1. task'.at \in {"start", "idle"}
      BY <1>3, <2>3, GoesType DEF Look, StartUnlessRunning, Ends, Stages
    <3>2. Rooted => link'
      BY <1>3, <2>3 DEF Look
    <3> QED
      BY <1>3, <2>3, <3>1, <3>2 DEF Look, SettledInv, Wanted, Rooted
  <2>4. CASE Wanted /\ rustPlugin # "absent"
    <3>1. client' = "none" /\ task'.at \in {"yield", "asked", "idle"}
      BY <1>3, <2>1, <2>4, GoesType, AskType DEF Look, StopClient, Stages, TypeOK
    <3>2. Rooted => link'
      BY <1>3, <2>4 DEF Look
    <3> QED
      BY <1>3, <2>4, <3>1, <3>2 DEF Look, SettledInv, Wanted, Rooted
  <2> QED BY <2>2, <2>3, <2>4
<1>4. ASSUME NEW lives \in BOOLEAN, Left(lives) PROVE SettledInv'
  <2>1. task'.at = "idle"
    BY <1>4, GoesType DEF Left, Ends, Stages
  <2> QED BY <1>4, <2>1 DEF Left, SettledInv, Wanted, Rooted
<1>5. ASSUME NEW lives \in BOOLEAN, Yielded(lives) PROVE SettledInv'
  <2>1. task'.at \in {"asked", "idle"}
    BY <1>5, AskType DEF Yielded
  <2> QED BY <1>5, <2>1, SettledOn DEF Yielded
<1>6. CASE Started
  <2>1. task'.at = "idle"
    BY <1>6, GoesType DEF Started, Ends, Stages
  <2> QED BY <1>6, <2>1 DEF Started, SettledInv, Wanted, Rooted
<1>7. CASE Rewrite
  <2>1. task'.at \in {"idle", "route"}
    BY <1>7, GoesType DEF Rewrite, Ends, Stages, TypeOK, Tasks
  <2> QED BY <1>7, <2>1, SettledOn DEF Rewrite
<1>8. CASE RewriteFails
  <2>1. task'.at = "idle"
    BY <1>8, GoesType DEF RewriteFails, Caught, Ends, Stages
  <2> QED BY <1>8, <2>1, SettledOn DEF RewriteFails
<1>9. CASE Refuse
  <2>1. task'.at = "idle"
    BY <1>9, GoesType DEF Refuse, Ends, Stages
  <2> QED BY <1>9, <2>1, SettledOn DEF Refuse
<1>10. CASE Accept
  <2>1. task'.at = "remember"
    BY <1>10 DEF Accept, TypeOK, Tasks
  <2> QED BY <1>10, <2>1, SettledOn DEF Accept
<1>11. CASE Disable
  <2> QED BY <1>11 DEF Disable, SettledInv, Wanted, Rooted
<1>12. CASE Restore
  <2> QED BY <1>12 DEF Restore, SettledInv, Wanted, Rooted
<1>13. CASE RestoreFails
  <2> QED BY <1>13 DEF RestoreFails, SettledInv, Wanted, Rooted
<1>14. CASE Disabled
  <2> QED BY <1>14 DEF Disabled, SettledInv, Wanted, Rooted
<1>15. CASE Enable
  <2>1. queue' # <<>>
    BY <1>15, QueueTypes DEF Enable, TypeOK
  <2> QED BY <2>1, Unsettled
<1>16. CASE Restart
  <2>1. queue' # <<>>
    BY <1>16, QueueTypes DEF Restart, TypeOK
  <2> QED BY <2>1, Unsettled
<1>17. CASE Reload
  <2>1. queue' # <<>>
    BY <1>17, OneFlag DEF Reload
  <2> QED BY <2>1, Unsettled
<1>18. CASE FoldersChange
  <2>1. queue' # <<>>
    BY <1>18, QueueTypes DEF FoldersChange, TypeOK
  <2> QED BY <2>1, Unsettled
<1>19. CASE MachineChanges
  <2> QED BY <1>19, Unsettled DEF MachineChanges
<1>20. CASE UserEditsEnv
  <2> QED BY <1>20 DEF UserEditsEnv, SettledInv, Wanted, Rooted
<1>21. ASSUME NEW told \in BOOLEAN, BinaryMoves(told) PROVE SettledInv'
  <2>1. CASE UNCHANGED queue
    BY <1>21, <2>1 DEF BinaryMoves, SettledInv, Wanted, Rooted
  <2>2. CASE queue' = QueueReconcile(queue, TRUE)
    BY <2>2, QueueTypes, Unsettled DEF TypeOK
  <2> QED BY <1>21, <2>1, <2>2 DEF BinaryMoves
<1>22. ASSUME NEW path \in Servers \cup {None}, UserChoosesServer(path) PROVE SettledInv'
  <2> QED BY <1>22 DEF UserChoosesServer, SettledInv, Wanted, Rooted
<1>23. CASE UNCHANGED vars
  BY <1>23 DEF vars, SettledInv, Wanted, Rooted
<1>24. ASSUME NEW lives \in BOOLEAN, StartFails(lives) PROVE SettledInv'
  <2>1. task'.at = "idle"
    BY <1>24, GoesType DEF StartFails, Ends, Stages
  <2> QED BY <1>24, <2>1 DEF StartFails, SettledInv, Wanted, Rooted
<1> QED
  BY <1>1, <1>2, <1>3, <1>4, <1>5, <1>6, <1>7, <1>8, <1>9, <1>10, <1>11, <1>12,
     <1>13, <1>14, <1>15, <1>16, <1>17, <1>18, <1>19, <1>20, <1>21, <1>22, <1>23, <1>24
  DEF Next, Reconcile

(* When nothing is queued and nothing runs, the extension's client and its *)
(* link are what the workspace calls for: whatever it was told of while a  *)
(* reconciliation awaited something is queued behind it.                   *)
THEOREM SettlesRight == Spec => []SettledRight
<1>1. SettledInv => SettledRight
  BY DEF SettledInv, SettledRight
<1> QED BY <1>1, TypeInit, TypeStep, SettledInit, SettledStep, PTL DEF Spec
=============================================================================
