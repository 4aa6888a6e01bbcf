---------------------------- MODULE Proxy_proofs ----------------------------
(***************************************************************************)
(* Proofs about Proxy, for any number of requests, renames and documents   *)
(* and any bounds.                                                         *)
(***************************************************************************)
EXTENDS Proxy, TLAPS

(* A child older than the cooldown is not the last the bound allows, and   *)
(* there is no channel without a child.                                    *)
SpawnBound ==
  /\ ra # 0 /\ ~young => spawned < MaxSpawns
  /\ ra = 0 => ~alive

TypeInv == TypeOK /\ SpawnBound

LEMMA EmptyQueue == <<>> \in Seq(Message)
  OBVIOUS

LEMMA FailPendingType ==
  ASSUME answers \in [Requests -> Seq({"failed", "local", "child"})], NEW pend
  PROVE  FailPending(pend) \in [Requests -> Seq({"failed", "local", "child"})]
  BY DEF FailPending

(* The types of what changes when the child is lost or replaced.           *)
ChildType ==
  /\ spawned \in 0..MaxSpawns
  /\ ra \in 0..spawned
  /\ alive \in BOOLEAN /\ young \in BOOLEAN
  /\ working \subseteq Requests \cup Renames \cup {ShutdownId}
  /\ incoming \in Seq(Message)
  /\ asks \in 0..MaxAsks
  /\ replica \in [Docs -> 0..MaxVersion]

DeskType ==
  /\ pending \subseteq Requests
  /\ injected_renames \subseteq Renames
  /\ answers \in [Requests -> Seq({"failed", "local", "child"})]

LEMMA BoundsAreNat ==
  MaxSpawns \in Nat /\ MaxAsks \in Nat /\ MaxVersion \in Nat
  BY BoundsAssumption

LEMMA AllClosedType == AllClosed \in [Docs -> 0..MaxVersion]
  BY BoundsAreNat DEF AllClosed

LEMMA NoChildType ==
  ASSUME TypeInv, NoChild
  PROVE  ChildType' /\ SpawnBound'
<1>1. spawned \in Nat
  BY BoundsAreNat DEF TypeInv, TypeOK
<1>2. spawned' \in 0..MaxSpawns /\ ra' \in 0..spawned' /\ asks' \in 0..MaxAsks
  BY <1>1, BoundsAreNat DEF TypeInv, TypeOK, NoChild
<1>3. incoming' \in Seq(Message) /\ replica' \in [Docs -> 0..MaxVersion]
  BY EmptyQueue, AllClosedType DEF NoChild
<1>4. /\ alive' \in BOOLEAN /\ young' \in BOOLEAN
      /\ working' \subseteq Requests \cup Renames \cup {ShutdownId}
  BY DEF NoChild
<1> QED
  BY <1>2, <1>3, <1>4 DEF NoChild, ChildType, SpawnBound

LEMMA RespawnType ==
  ASSUME TypeInv, ra # 0, MayRespawn,
         NEW docs \in [Docs -> 0..MaxVersion], Respawn(docs)
  PROVE  ChildType' /\ SpawnBound'
<1>1. spawned \in Nat /\ spawned < MaxSpawns
  BY BoundsAreNat DEF TypeInv, TypeOK, SpawnBound, MayRespawn
<1>2. spawned' \in 0..MaxSpawns /\ ra' \in 0..spawned' /\ asks' \in 0..MaxAsks
  BY <1>1, BoundsAreNat DEF Respawn
<1>3. incoming' \in Seq(Message)
  BY EmptyQueue DEF Respawn
<1>4. replica' \in [Docs -> 0..MaxVersion]
  BY BoundsAreNat DEF Respawn, Replayed
<1>5. /\ alive' \in BOOLEAN /\ young' \in BOOLEAN
      /\ working' \subseteq Requests \cup Renames \cup {ShutdownId}
  BY DEF Respawn
<1>6. SpawnBound'
  BY <1>1 DEF Respawn, SpawnBound
<1> QED
  BY <1>2, <1>3, <1>4, <1>5, <1>6 DEF ChildType

(* The effect of losing the child on the types, whatever was pending.      *)
LEMMA RaExitType ==
  ASSUME TypeInv, ra # 0,
         NEW pend \in SUBSET Requests, NEW renames \in SUBSET Renames,
         NEW docs \in [Docs -> 0..MaxVersion],
         RaExit(pend, renames, docs)
  PROVE  ChildType' /\ DeskType' /\ SpawnBound'
<1>1. CASE shutting_down
  <2>1. RaExitStopping(pend, renames)
    BY <1>1 DEF RaExit
  <2>2. DeskType'
    BY <2>1 DEF RaExitStopping, DeskType, TypeInv, TypeOK
  <2> QED
    BY <2>1, <2>2, NoChildType DEF RaExitStopping
<1>2. CASE ~shutting_down
  <2>1. RaExitRunning(pend, docs)
    BY <1>2 DEF RaExit
  <2>2. answers' \in [Requests -> Seq({"failed", "local", "child"})]
    BY <2>1, FailPendingType DEF RaExitRunning, TypeInv, TypeOK
  <2>3. DeskType'
    BY <2>1, <2>2 DEF RaExitRunning, DeskType
  <2> QED
    BY <2>1, <2>3, NoChildType, RespawnType DEF RaExitRunning
<1> QED
  BY <1>1, <1>2
LEMMA TypeInit == Init => TypeInv
<1> SUFFICES ASSUME Init PROVE TypeInv
  OBVIOUS
<1>1. /\ spawned \in 0..MaxSpawns /\ ra \in 0..spawned /\ asks \in 0..MaxAsks
      /\ alive \in BOOLEAN /\ young \in BOOLEAN /\ usable \in BOOLEAN
  BY BoundsAssumption DEF Init
<1>2. incoming \in Seq(Message) /\ answers \in [Requests -> Seq({"failed", "local", "child"})]
  BY EmptyQueue DEF Init
<1>3. replica \in [Docs -> 0..MaxVersion] /\ open_documents \in [Docs -> 0..MaxVersion]
  BY AllClosedType DEF Init
<1>4. SpawnBound
  BY DEF Init, SpawnBound
<1>5. handed \in [Renames -> Nat]
  BY DEF Init
<1>6. /\ working \subseteq Requests \cup Renames \cup {ShutdownId}
      /\ pending \subseteq Requests /\ injected_renames \subseteq Renames
      /\ pending_ts_saves \subseteq Renames /\ pending_saves \subseteq Renames
      /\ submitted \subseteq Requests
      /\ asked \subseteq (1..MaxSpawns) \X (1..MaxAsks)
      /\ landed \subseteq Renames /\ saved \subseteq Renames
      /\ shutting_down \in BOOLEAN /\ exited \in BOOLEAN
  BY DEF Init
<1>7. TypeOK
  BY <1>1, <1>2, <1>3, <1>5, <1>6 DEF TypeOK
<1> QED
  BY <1>4, <1>7 DEF TypeInv

LEMMA AppendAnswerType ==
  ASSUME answers \in [Requests -> Seq({"failed", "local", "child"})],
         NEW r \in Requests, NEW who \in {"failed", "local", "child"}
  PROVE  [answers EXCEPT ![r] = Append(@, who)]
           \in [Requests -> Seq({"failed", "local", "child"})]
<1> DEFINE S == Seq({"failed", "local", "child"})
<1>1. Append(answers[r], who) \in S
  OBVIOUS
<1> HIDE DEF S
<1>2. ASSUME answers \in [Requests -> S] PROVE [answers EXCEPT ![r] = Append(@, who)] \in [Requests -> S]
  BY <1>1, <1>2
<1> QED
  BY <1>2 DEF S

LEMMA ComplementType ==
  ASSUME TypeInv, NEW n \in Renames, ApplyRustComplement(n)
  PROVE  /\ handed' \in [Renames -> Nat]
         /\ pending_saves' \subseteq Renames /\ saved' \subseteq Renames
  BY DEF TypeInv, TypeOK, ApplyRustComplement

(* Every step preserves the types: one case per action.                    *)
LEMMA TypeStep == TypeInv /\ [Next]_vars => TypeInv'
<1> SUFFICES ASSUME TypeInv, [Next]_vars PROVE TypeInv'
  OBVIOUS
<1> USE DEF childVars, deskVars, saveVars, editorVars, stageVars
<1>0. MaxSpawns \in Nat /\ MaxAsks \in Nat /\ MaxVersion \in Nat
  BY BoundsAreNat
<1>1. ASSUME NEW r \in Requests, EditorRequest(r) PROVE TypeInv'
  <2>1. CASE WriteFails
    <3>1. RaExit(pending \cup {r}, injected_renames, open_documents)
      BY <1>1, <2>1 DEF EditorRequest, WriteFails, Degraded, Reachable
    <3>2. ChildType' /\ DeskType' /\ SpawnBound'
      BY <2>1, <3>1, RaExitType DEF TypeInv, TypeOK, WriteFails
    <3> QED
      BY <1>1, <3>2 DEF EditorRequest, TypeInv, TypeOK, ChildType, DeskType
  <2>2. CASE Degraded
    <3>1. answers' \in [Requests -> Seq({"failed", "local", "child"})]
      BY <1>1, <2>2, AppendAnswerType
         DEF EditorRequest, WriteFails, Degraded, Reachable, TypeInv, TypeOK
    <3> QED
      BY <1>1, <2>2, <3>1
         DEF EditorRequest, WriteFails, Degraded, Reachable, TypeInv, TypeOK, SpawnBound
  <2>3. CASE Reachable
    <3>1. /\ pending' = pending \cup {r} /\ working' = working \cup {r}
          /\ submitted' = submitted \cup {r}
          /\ UNCHANGED <<ra, spawned, alive, young, incoming, asks, replica,
                         injected_renames, answers>>
      BY <1>1, <2>3 DEF EditorRequest, WriteFails, Degraded, Reachable
    <3>2. UNCHANGED <<usable, open_documents, saveVars, asked, stageVars, landed>>
      BY <1>1 DEF EditorRequest
    <3> QED
      BY <3>1, <3>2 DEF TypeInv, TypeOK, SpawnBound
  <2> QED
    BY <2>1, <2>2, <2>3 DEF WriteFails, Degraded, Reachable
<1>2. ASSUME NEW d \in Docs, NEW v \in 0..MaxVersion, EditorSyncs(d, v) PROVE TypeInv'
  <2>1. open_documents' \in [Docs -> 0..MaxVersion]
    BY <1>2 DEF EditorSyncs, TypeInv, TypeOK
  <2>2. CASE WriteFails
    <3>1. RaExit(pending, injected_renames, open_documents')
      BY <1>2, <2>2 DEF EditorSyncs, WriteFails, Degraded, Reachable
    <3>2. ChildType' /\ DeskType' /\ SpawnBound'
      BY <2>1, <2>2, <3>1, RaExitType DEF TypeInv, TypeOK, WriteFails
    <3> QED
      BY <1>2, <2>1, <3>2 DEF EditorSyncs, TypeInv, TypeOK, ChildType, DeskType
  <2>3. CASE Degraded
    BY <1>2, <2>1, <2>3
       DEF EditorSyncs, WriteFails, Degraded, Reachable, TypeInv, TypeOK, SpawnBound
  <2>4. CASE Reachable
    <3>1. Told(d, v) \in 0..MaxVersion
      BY <1>0 DEF Told
    <3>2. replica' \in [Docs -> 0..MaxVersion]
      BY <1>2, <2>4, <3>1
         DEF EditorSyncs, WriteFails, Degraded, Reachable, TypeInv, TypeOK
    <3>3. UNCHANGED <<ra, spawned, alive, young, working, incoming, asks, deskVars, answers>>
      BY <1>2, <2>4 DEF EditorSyncs, WriteFails, Degraded, Reachable
    <3>4. UNCHANGED <<usable, saveVars, submitted, asked, stageVars, landed>>
      BY <1>2 DEF EditorSyncs
    <3> QED
      BY <2>1, <3>2, <3>3, <3>4 DEF TypeInv, TypeOK, SpawnBound
  <2> QED
    BY <2>2, <2>3, <2>4 DEF WriteFails, Degraded, Reachable
<1>3. ASSUME NEW q \in asked, EditorAnswers(q) PROVE TypeInv'
  <2>1. CASE WriteFails
    <3>1. RaExit(pending, injected_renames, open_documents)
      BY <1>3, <2>1 DEF EditorAnswers, WriteFails, Degraded, Reachable
    <3>2. ChildType' /\ DeskType' /\ SpawnBound'
      BY <2>1, <3>1, RaExitType DEF TypeInv, TypeOK, WriteFails
    <3> QED
      BY <1>3, <2>1, <3>2 DEF EditorAnswers, TypeInv, TypeOK, ChildType, DeskType,
                              WriteFails, Degraded, Reachable
  <2>2. CASE ~WriteFails
    BY <1>3, <2>2
       DEF EditorAnswers, WriteFails, Degraded, Reachable, TypeInv, TypeOK, SpawnBound
  <2> QED
    BY <2>1, <2>2
<1>4. ASSUME NEW n \in Renames, NEW applied \in BOOLEAN, EditorApplied(n, applied)
      PROVE TypeInv'
  BY <1>4 DEF EditorApplied, TypeInv, TypeOK, SpawnBound
<1>5. CASE EditorShutdown
  <2>1. CASE WriteFails
    <3>1. RaExitStopping(pending, injected_renames)
      BY <1>5, <2>1 DEF EditorShutdown, WriteFails, Degraded, Reachable
    <3>2. ChildType' /\ SpawnBound'
      BY <3>1, NoChildType DEF RaExitStopping
    <3> QED
      BY <1>5, <3>1, <3>2
         DEF EditorShutdown, RaExitStopping, TypeInv, TypeOK, ChildType
  <2>2. CASE ~WriteFails
    BY <1>5, <2>2
       DEF EditorShutdown, WriteFails, Degraded, Reachable, TypeInv, TypeOK, SpawnBound
  <2> QED
    BY <2>1, <2>2
<1>6. CASE EditorExit
  <2>1. ChildType' /\ SpawnBound'
    BY <1>6, NoChildType DEF EditorExit
  <2> QED
    BY <1>6, <2>1 DEF EditorExit, TypeInv, TypeOK, ChildType
<1>7. ASSUME NEW n \in Renames, NEW plan \in {"none", "position", "contract"},
             PluginEvent(n, plan)
      PROVE TypeInv'
  <2>1. CASE plan = "position" /\ WriteFails
    <3>1. RaExit(pending, injected_renames \cup {n}, open_documents)
      BY <1>7, <2>1 DEF PluginEvent, WriteFails, Degraded, Reachable
    <3>2. ChildType' /\ DeskType' /\ SpawnBound'
      BY <2>1, <3>1, RaExitType DEF TypeInv, TypeOK, WriteFails
    <3> QED
      BY <1>7, <2>1, <3>2
         DEF PluginEvent, WriteFails, Degraded, Reachable, TypeInv, TypeOK, ChildType, DeskType
  <2>2. CASE plan = "position" /\ Reachable
    <3>1. /\ injected_renames' = injected_renames \cup {n}
          /\ pending_ts_saves' = pending_ts_saves \cup {n}
          /\ working' = working \cup {n}
          /\ UNCHANGED <<ra, spawned, alive, young, incoming, asks, replica,
                         pending, answers, pending_saves, handed, saved>>
      BY <1>7, <2>2 DEF PluginEvent, WriteFails, Degraded, Reachable
    <3>2. /\ landed' = landed \cup {n}
          /\ UNCHANGED <<usable, open_documents, submitted, asked, stageVars>>
      BY <1>7 DEF PluginEvent
    <3> QED
      BY <3>1, <3>2 DEF TypeInv, TypeOK, SpawnBound
  <2>3. CASE plan = "contract" \/ (plan = "position" /\ Degraded)
    <3>1. /\ ApplyRustComplement(n)
          /\ UNCHANGED <<childVars, deskVars, answers, pending_ts_saves>>
      BY <1>7, <2>3 DEF PluginEvent, WriteFails, Degraded, Reachable
    <3>2. /\ handed' \in [Renames -> Nat]
          /\ pending_saves' \subseteq Renames /\ saved' \subseteq Renames
      BY <3>1, ComplementType
    <3> QED
      BY <1>7, <3>1, <3>2 DEF PluginEvent, TypeInv, TypeOK, SpawnBound
  <2>4. CASE plan = "none"
    BY <1>7, <2>4 DEF PluginEvent, TypeInv, TypeOK, SpawnBound
  <2> QED
    BY <2>1, <2>2, <2>3, <2>4 DEF WriteFails, Degraded, Reachable
<1>8. CASE OnRaMessage
  <2> DEFINE m == Head(incoming)
  <2>1. m \in Message /\ incoming' \in Seq(Message)
    BY <1>8 DEF OnRaMessage, TypeInv, TypeOK
  <2>2. CASE EditorResponse(m.id)
    <3>1. answers' \in [Requests -> Seq({"failed", "local", "child"})]
      BY <2>2, m.id \in Requests, AppendAnswerType DEF EditorResponse, TypeInv, TypeOK
    <3> QED
      BY <1>8, <2>1, <2>2, <3>1 DEF OnRaMessage, EditorResponse, TypeInv, TypeOK, SpawnBound
  <2>3. CASE RenameResponse(m.id, m.ok)
    <3>1. m.id \in Renames
      BY <2>3 DEF RenameResponse, TypeInv, TypeOK
    <3>2. /\ handed' \in [Renames -> Nat]
          /\ pending_saves' \subseteq Renames /\ saved' \subseteq Renames
      BY <2>3, <3>1, ComplementType DEF RenameResponse, TypeInv, TypeOK
    <3> QED
      BY <1>8, <2>1, <2>3, <3>2 DEF OnRaMessage, RenameResponse, TypeInv, TypeOK, SpawnBound
  <2>4. CASE m.kind = "response" /\ UNCHANGED <<deskVars, saveVars, answers, asked>>
    BY <1>8, <2>1, <2>4 DEF OnRaMessage, TypeInv, TypeOK, SpawnBound
  <2>5. CASE /\ m.kind = "request"
             /\ asked' = asked \cup {<<ra, m.ask>>}
             /\ UNCHANGED <<deskVars, saveVars, answers>>
    <3>1. m.ask \in 1..MaxAsks
      BY <2>1, <2>5 DEF Message
    <3>2. ra \in 1..MaxSpawns
      BY <1>0, <1>8 DEF OnRaMessage, TypeInv, TypeOK
    <3>3. asked' \subseteq (1..MaxSpawns) \X (1..MaxAsks)
      BY <2>5, <3>1, <3>2 DEF TypeInv, TypeOK
    <3> QED
      BY <1>8, <2>1, <2>5, <3>3 DEF OnRaMessage, TypeInv, TypeOK, SpawnBound
  <2> QED
    BY <1>8, <2>2, <2>3, <2>4, <2>5 DEF OnRaMessage
<1>9. CASE OnRaExit
  <2>1. RaExit(pending, injected_renames, open_documents)
    BY <1>9 DEF OnRaExit
  <2>2. ChildType' /\ DeskType' /\ SpawnBound'
    BY <1>9, <2>1, RaExitType DEF OnRaExit, TypeInv, TypeOK, WriteFails
  <2> QED
    BY <1>9, <2>2 DEF OnRaExit, TypeInv, TypeOK, ChildType, DeskType
<1>10. ASSUME NEW i \in working, NEW ok \in BOOLEAN, ChildAnswers(i, ok) PROVE TypeInv'
  <2>1. Answer(i, ok) \in Message
    BY <1>10 DEF Answer, Message, TypeInv, TypeOK
  <2>2. incoming' \in Seq(Message)
    BY <1>10, <2>1 DEF ChildAnswers, TypeInv, TypeOK
  <2> QED
    BY <1>10, <2>2 DEF ChildAnswers, TypeInv, TypeOK, SpawnBound
<1>11. CASE ChildAsks
  <2>1. asks' \in 0..MaxAsks /\ asks + 1 \in 1..MaxAsks
    BY <1>0, <1>11 DEF ChildAsks, TypeInv, TypeOK
  <2>2. Ask(asks + 1) \in Message
    BY <2>1 DEF Ask, Message
  <2>3. incoming' \in Seq(Message)
    BY <1>11, <2>2 DEF ChildAsks, TypeInv, TypeOK
  <2> QED
    BY <1>11, <2>1, <2>3 DEF ChildAsks, TypeInv, TypeOK, SpawnBound
<1>12. CASE ChildDies
  BY <1>12 DEF ChildDies, TypeInv, TypeOK, SpawnBound
<1>13. CASE CooldownElapses
  BY <1>13 DEF CooldownElapses, TypeInv, TypeOK, SpawnBound
<1>14. CASE BinaryChanges
  BY <1>14 DEF BinaryChanges, TypeInv, TypeOK, SpawnBound
<1>15. CASE UNCHANGED vars
  BY <1>15 DEF vars, TypeInv, TypeOK, SpawnBound
<1> QED
  BY <1>1, <1>2, <1>3, <1>4, <1>5, <1>6, <1>7, <1>8, <1>9, <1>10, <1>11, <1>12,
     <1>13, <1>14, <1>15 DEF Next, Editor, Child, Stopped

(* The state of the proxy, of the child and of the editor stays well typed *)
(* for any number of requests, renames and documents; in particular no     *)
(* more children are started than the cooldown allows.                     *)
THEOREM TypeCorrect == Spec => []TypeOK
<1>1. Init => TypeInv
  BY TypeInit
<1>2. TypeInv /\ [Next]_vars => TypeInv'
  BY TypeStep
<1>3. TypeInv => TypeOK
  BY DEF TypeInv
<1> QED
  BY <1>1, <1>2, <1>3, PTL DEF Spec
-----------------------------------------------------------------------------
(* Requests: answered once, never forgotten.                               *)
Tracking ==
  /\ pending \subseteq submitted
  /\ AnsweredOnce
  /\ NothingForgotten

LEMMA TrackingInit == Init => Tracking
  BY DEF Init, Tracking, AnsweredOnce, NothingForgotten

LEMMA AppendOne ==
  ASSUME NEW S, NEW s \in Seq(S), NEW x \in S
  PROVE  Len(Append(s, x)) = Len(s) + 1 /\ Append(s, x) # <<>> /\ Len(s) \in Nat
  OBVIOUS

(* Losing the child answers what was pending, or keeps it when stopping.   *)
LEMMA RaExitTracks ==
  ASSUME TypeInv, NEW pend \in SUBSET Requests, NEW renames, NEW docs,
         \A r \in pend : answers[r] = <<>>,
         \A r \in Requests : Len(answers[r]) <= 1,
         RaExit(pend, renames, docs)
  PROVE  /\ \A r \in Requests \ pend : answers'[r] = answers[r]
         /\ \A r \in pend : r \in pending' <=> answers'[r] = <<>>
         /\ \A r \in Requests : Len(answers'[r]) <= 1
         /\ pending' \subseteq pend
         /\ pending' \cup injected_renames' # {} => shutting_down
<1>1. CASE shutting_down
  BY <1>1 DEF RaExit, RaExitStopping, TypeInv, TypeOK
<1>2. CASE ~shutting_down
  <2>1. pending' = {} /\ injected_renames' = {} /\ answers' = FailPending(pend)
    BY <1>2 DEF RaExit, RaExitRunning
  <2>2. ASSUME NEW r \in pend
        PROVE  answers'[r] # <<>> /\ Len(answers'[r]) <= 1
    <3>1. answers'[r] = Append(answers[r], "failed") /\ answers[r] = <<>>
      BY <2>1, <2>2 DEF FailPending
    <3>2. answers[r] \in Seq({"failed", "local", "child"})
      BY DEF TypeInv, TypeOK
    <3> QED
      BY <3>1, <3>2, AppendOne
  <2>3. \A r \in Requests \ pend : answers'[r] = answers[r]
    BY <2>1 DEF FailPending
  <2> QED
    BY <2>1, <2>2, <2>3
<1> QED
  BY <1>1, <1>2

(* What the handlers that forward something else than a request do when the*)
(* write fails, and what the loop does when it finds the channel closed.   *)
LEMMA RaExitKeepsTracking ==
  ASSUME TypeInv, Tracking, NEW renames, NEW docs, ra # 0,
         RaExit(pending, renames, docs), UNCHANGED <<submitted, shutting_down>>
  PROVE  Tracking'
<1>1. pending \in SUBSET Requests /\ \A r \in pending : answers[r] = <<>>
  BY DEF TypeInv, TypeOK, Tracking, AnsweredOnce
<1>2. \A r \in Requests : Len(answers[r]) <= 1
  BY DEF Tracking, AnsweredOnce
<1>3. /\ \A r \in Requests \ pending : answers'[r] = answers[r]
      /\ \A r \in pending : r \in pending' <=> answers'[r] = <<>>
      /\ \A r \in Requests : Len(answers'[r]) <= 1
      /\ pending' \subseteq pending
      /\ pending' \cup injected_renames' # {} => shutting_down
  BY <1>1, <1>2, RaExitTracks
<1> QED
  BY <1>3 DEF Tracking, AnsweredOnce, NothingForgotten, TypeInv, TypeOK

LEMMA TrackingStep == TypeInv /\ Tracking /\ [Next]_vars => Tracking'
<1> SUFFICES ASSUME TypeInv, Tracking, [Next]_vars PROVE Tracking'
  OBVIOUS
<1> USE DEF childVars, deskVars, saveVars, editorVars, stageVars
<1>a. UNCHANGED <<submitted, answers, pending, injected_renames, ra, shutting_down, exited>>
        => Tracking'
  BY DEF Tracking, AnsweredOnce, NothingForgotten
<1>1. ASSUME NEW r \in Requests, EditorRequest(r) PROVE Tracking'
  <2>1. /\ submitted' = submitted \cup {r} /\ r \notin submitted
        /\ answers[r] = <<>> /\ r \notin pending
        /\ UNCHANGED <<shutting_down, exited>>
    BY <1>1 DEF EditorRequest, Tracking, AnsweredOnce
  <2>2. CASE Degraded
    <3>1. /\ answers' = [answers EXCEPT ![r] = Append(@, "local")]
          /\ UNCHANGED <<ra, pending, injected_renames>>
      BY <1>1, <2>2 DEF EditorRequest, Degraded, Reachable, WriteFails
    <3>2. answers'[r] = Append(answers[r], "local")
          /\ \A q \in Requests \ {r} : answers'[q] = answers[q]
      BY <3>1 DEF TypeInv, TypeOK
    <3>3. Len(answers'[r]) <= 1 /\ answers'[r] # <<>>
      BY <2>1, <3>2, AppendOne DEF TypeInv, TypeOK
    <3> QED
      BY <2>1, <3>1, <3>2, <3>3 DEF Tracking, AnsweredOnce, NothingForgotten
  <2>3. CASE Reachable
    <3>1. /\ pending' = pending \cup {r}
          /\ UNCHANGED <<ra, injected_renames, answers>>
      BY <1>1, <2>3 DEF EditorRequest, Degraded, Reachable, WriteFails
    <3> QED
      BY <2>1, <2>3, <3>1 DEF Tracking, AnsweredOnce, NothingForgotten, Reachable
  <2>4. CASE WriteFails
    <3> DEFINE pend == pending \cup {r}
    <3>1. RaExit(pend, injected_renames, open_documents)
      BY <1>1, <2>4 DEF EditorRequest, Degraded, Reachable, WriteFails
    <3>2. pend \in SUBSET Requests /\ \A q \in pend : answers[q] = <<>>
      BY <2>1 DEF TypeInv, TypeOK, Tracking, AnsweredOnce
    <3>3. \A q \in Requests : Len(answers[q]) <= 1
      BY DEF Tracking, AnsweredOnce
    <3> HIDE DEF pend
    <3>4. /\ \A q \in Requests \ pend : answers'[q] = answers[q]
          /\ \A q \in pend : q \in pending' <=> answers'[q] = <<>>
          /\ \A q \in Requests : Len(answers'[q]) <= 1
          /\ pending' \subseteq pend
          /\ pending' \cup injected_renames' # {} => shutting_down
      BY <3>1, <3>2, <3>3, RaExitTracks
    <3> QED
      BY <2>1, <3>4 DEF pend, Tracking, AnsweredOnce, NothingForgotten, TypeInv, TypeOK
  <2> QED
    BY <2>2, <2>3, <2>4 DEF Degraded, Reachable, WriteFails
<1>2. ASSUME NEW d \in Docs, NEW v \in 0..MaxVersion, EditorSyncs(d, v) PROVE Tracking'
  <2>1. CASE WriteFails
    <3>1. RaExit(pending, injected_renames, open_documents')
      BY <1>2, <2>1 DEF EditorSyncs, WriteFails, Degraded, Reachable
    <3> QED
      BY <1>2, <2>1, <3>1, RaExitKeepsTracking DEF EditorSyncs, WriteFails
  <2>2. CASE ~WriteFails
    BY <1>2, <2>2, <1>a DEF EditorSyncs
  <2> QED
    BY <2>1, <2>2
<1>3. ASSUME NEW q \in asked, EditorAnswers(q) PROVE Tracking'
  <2>1. CASE WriteFails
    BY <1>3, <2>1, RaExitKeepsTracking DEF EditorAnswers, WriteFails, Degraded, Reachable
  <2>2. CASE ~WriteFails
    BY <1>3, <2>2, <1>a DEF EditorAnswers
  <2> QED
    BY <2>1, <2>2
<1>4. ASSUME NEW n \in Renames, NEW applied \in BOOLEAN, EditorApplied(n, applied)
      PROVE Tracking'
  BY <1>4, <1>a DEF EditorApplied
<1>5. CASE EditorShutdown
  BY <1>5 DEF EditorShutdown, RaExitStopping, NoChild, Tracking, AnsweredOnce, NothingForgotten
<1>6. CASE EditorExit
  BY <1>6 DEF EditorExit, Tracking, AnsweredOnce, NothingForgotten
<1>7. ASSUME NEW n \in Renames, NEW plan \in {"none", "position", "contract"},
             PluginEvent(n, plan)
      PROVE Tracking'
  <2>1. CASE plan = "position" /\ WriteFails
    <3>1. RaExit(pending, injected_renames \cup {n}, open_documents)
      BY <1>7, <2>1 DEF PluginEvent, WriteFails, Degraded, Reachable
    <3> QED
      BY <1>7, <2>1, <3>1, RaExitKeepsTracking DEF PluginEvent, WriteFails
  <2>2. CASE plan = "position" /\ Reachable
    <3>1. UNCHANGED <<submitted, answers, pending, ra, shutting_down, exited>>
      BY <1>7, <2>2 DEF PluginEvent, WriteFails, Degraded, Reachable
    <3> QED
      BY <2>2, <3>1 DEF Tracking, AnsweredOnce, NothingForgotten, Reachable
  <2>3. CASE plan \in {"none", "contract"} \/ (plan = "position" /\ Degraded)
    BY <1>7, <2>3, <1>a DEF PluginEvent, WriteFails, Degraded, Reachable
  <2> QED
    BY <2>1, <2>2, <2>3 DEF WriteFails, Degraded, Reachable
<1>8. CASE OnRaMessage
  <2> DEFINE m == Head(incoming)
  <2>1. ra' = ra /\ ra # 0 /\ UNCHANGED <<submitted, shutting_down, exited>>
    BY <1>8 DEF OnRaMessage
  <2>2. CASE EditorResponse(m.id)
    <3> DEFINE r == m.id
    <3>1. /\ r \in pending /\ pending' = pending \ {r}
          /\ answers' = [answers EXCEPT ![r] = Append(@, "child")]
      BY <2>2 DEF EditorResponse
    <3>2. r \in Requests /\ r \in submitted /\ answers[r] = <<>>
      BY <3>1 DEF Tracking, AnsweredOnce, TypeInv, TypeOK
    <3> HIDE DEF r
    <3>3. answers'[r] = Append(answers[r], "child")
          /\ \A q \in Requests \ {r} : answers'[q] = answers[q]
      BY <3>1, <3>2 DEF TypeInv, TypeOK
    <3>4. Len(answers'[r]) <= 1 /\ answers'[r] # <<>>
      BY <3>2, <3>3, AppendOne DEF TypeInv, TypeOK
    <3> QED
      BY <2>1, <3>1, <3>2, <3>3, <3>4
         DEF Tracking, AnsweredOnce, NothingForgotten, TypeInv, TypeOK
  <2>3. CASE UNCHANGED <<pending, answers>>
    BY <2>1, <2>3 DEF Tracking, AnsweredOnce, NothingForgotten
  <2> QED
    BY <1>8, <2>2, <2>3 DEF OnRaMessage, RenameResponse
<1>9. CASE OnRaExit
  BY <1>9, RaExitKeepsTracking DEF OnRaExit, WriteFails
<1>10. ASSUME NEW i \in working, NEW ok \in BOOLEAN, ChildAnswers(i, ok) PROVE Tracking'
  BY <1>10, <1>a DEF ChildAnswers
<1>11. CASE ChildAsks \/ ChildDies \/ CooldownElapses \/ BinaryChanges
  BY <1>11, <1>a DEF ChildAsks, ChildDies, CooldownElapses, BinaryChanges
<1>12. CASE UNCHANGED vars
  BY <1>12, <1>a DEF vars
<1> QED
  BY <1>1, <1>2, <1>3, <1>4, <1>5, <1>6, <1>7, <1>8, <1>9, <1>10, <1>11, <1>12
     DEF Next, Editor, Child, Stopped
-----------------------------------------------------------------------------
(* The proxy implements the request service.                               *)
AnswersStay ==
  /\ submitted \subseteq submitted'
  /\ \A r \in Requests : answers[r] # <<>> => answers'[r] # <<>>

(* Whatever the handler, an answer is appended to those given before.      *)
LEMMA AnswersStayStep ==
  ASSUME TypeInv, [Next]_vars
  PROVE  AnswersStay
<1> USE DEF childVars, deskVars, saveVars, editorVars, stageVars
<1>a. UNCHANGED <<submitted, answers>> => AnswersStay
  BY DEF AnswersStay
<1>b. ASSUME NEW pend, NEW renames, NEW docs, RaExit(pend, renames, docs)
      PROVE  \A r \in Requests : answers[r] # <<>> => answers'[r] # <<>>
  <2>1. CASE shutting_down
    BY <1>b, <2>1 DEF RaExit, RaExitStopping
  <2>2. CASE ~shutting_down
    <3>1. answers' = FailPending(pend)
      BY <1>b, <2>2 DEF RaExit, RaExitRunning
    <3>2. \A r \in Requests : answers'[r] \in {answers[r], Append(answers[r], "failed")}
      BY <3>1 DEF FailPending
    <3>3. \A r \in Requests : answers[r] \in Seq({"failed", "local", "child"})
      BY DEF TypeInv, TypeOK
    <3> QED
      BY <3>2, <3>3, AppendOne
  <2> QED
    BY <2>1, <2>2
<1>c. ASSUME NEW r \in Requests, NEW who \in {"failed", "local", "child"},
             answers' = [answers EXCEPT ![r] = Append(@, who)]
      PROVE  \A q \in Requests : answers[q] # <<>> => answers'[q] # <<>>
  <2>1. \A q \in Requests : answers'[q] \in {answers[q], Append(answers[q], who)}
    BY <1>c DEF TypeInv, TypeOK
  <2>2. \A q \in Requests : answers[q] \in Seq({"failed", "local", "child"})
    BY DEF TypeInv, TypeOK
  <2> QED
    BY <2>1, <2>2, AppendOne
<1>1. ASSUME NEW r \in Requests, EditorRequest(r) PROVE AnswersStay
  <2>1. CASE Degraded
    BY <1>1, <2>1, <1>c DEF EditorRequest, Degraded, Reachable, WriteFails, AnswersStay
  <2>2. CASE Reachable
    BY <1>1, <2>2 DEF EditorRequest, Degraded, Reachable, WriteFails, AnswersStay
  <2>3. CASE WriteFails
    BY <1>1, <2>3, <1>b DEF EditorRequest, Degraded, Reachable, WriteFails, AnswersStay
  <2> QED
    BY <2>1, <2>2, <2>3 DEF Degraded, Reachable, WriteFails
<1>2. ASSUME NEW d \in Docs, NEW v \in 0..MaxVersion, EditorSyncs(d, v) PROVE AnswersStay
  BY <1>2, <1>b, <1>a DEF EditorSyncs, AnswersStay
<1>3. ASSUME NEW q \in asked, EditorAnswers(q) PROVE AnswersStay
  BY <1>3, <1>b, <1>a DEF EditorAnswers, AnswersStay
<1>4. ASSUME NEW n \in Renames, NEW applied \in BOOLEAN, EditorApplied(n, applied)
      PROVE AnswersStay
  BY <1>4, <1>a DEF EditorApplied
<1>5. CASE EditorShutdown
  BY <1>5, <1>a DEF EditorShutdown, RaExitStopping
<1>6. CASE EditorExit
  BY <1>6, <1>a DEF EditorExit
<1>7. ASSUME NEW n \in Renames, NEW plan \in {"none", "position", "contract"},
             PluginEvent(n, plan)
      PROVE AnswersStay
  BY <1>7, <1>b, <1>a DEF PluginEvent, AnswersStay
<1>8. CASE OnRaMessage
  <2>1. CASE EditorResponse(Head(incoming).id)
    <3>1. Head(incoming).id \in Requests
      BY <2>1 DEF EditorResponse, TypeInv, TypeOK
    <3> QED
      BY <1>8, <2>1, <3>1, <1>c DEF OnRaMessage, EditorResponse, AnswersStay
  <2>2. CASE UNCHANGED answers
    BY <1>8, <2>2, <1>a DEF OnRaMessage
  <2> QED
    BY <1>8, <2>1, <2>2 DEF OnRaMessage, RenameResponse
<1>9. CASE OnRaExit
  BY <1>9, <1>b DEF OnRaExit, AnswersStay
<1>10. ASSUME NEW i \in working, NEW ok \in BOOLEAN, ChildAnswers(i, ok) PROVE AnswersStay
  BY <1>10, <1>a DEF ChildAnswers
<1>11. CASE ChildAsks \/ ChildDies \/ CooldownElapses \/ BinaryChanges
  BY <1>11, <1>a DEF ChildAsks, ChildDies, CooldownElapses, BinaryChanges
<1>12. CASE UNCHANGED vars
  BY <1>12, <1>a DEF vars
<1> QED
  BY <1>1, <1>2, <1>3, <1>4, <1>5, <1>6, <1>7, <1>8, <1>9, <1>10, <1>11, <1>12
     DEF Next, Editor, Child, Stopped

(* The session only ever ends, in a step that answers nothing.             *)
LEMMA SessionEnds ==
  ASSUME [Next]_vars
  PROVE  \/ UNCHANGED <<shutting_down, exited>>
         \/ (shutting_down \/ exited)' /\ UNCHANGED <<submitted, answers>>
<1> USE DEF childVars, deskVars, saveVars, editorVars, stageVars
<1>1. CASE EditorShutdown
  BY <1>1 DEF EditorShutdown, RaExitStopping
<1>2. CASE EditorExit
  BY <1>2 DEF EditorExit
<1>3. CASE /\ [Next]_vars /\ ~EditorShutdown /\ ~EditorExit
  BY <1>3 DEF Next, Editor, Child, Stopped, vars, EditorRequest, EditorSyncs,
     EditorAnswers, EditorApplied, PluginEvent, OnRaMessage, OnRaExit, ChildAnswers,
     ChildAsks, ChildDies, CooldownElapses, BinaryChanges
<1> QED
  BY <1>1, <1>2, <1>3

(* A request has been answered once or never, and an answer stays.         *)
LEMMA AnswersCounted ==
  ASSUME TypeInv, TypeInv', Tracking, Tracking', AnswersStay
  PROVE  \A r \in Requests :
           /\ Answered[r] \in {0, 1} /\ Answered'[r] \in {0, 1}
           /\ Answered[r] = 1 => Answered'[r] = 1
           /\ Answered'[r] = 1 => r \in submitted'
<1> SUFFICES ASSUME NEW r \in Requests
             PROVE  /\ Answered[r] \in {0, 1} /\ Answered'[r] \in {0, 1}
                    /\ Answered[r] = 1 => Answered'[r] = 1
                    /\ Answered'[r] = 1 => r \in submitted'
  OBVIOUS
<1>1. Answered[r] = Len(answers[r]) /\ Answered'[r] = Len(answers'[r])
  BY DEF Answered
<1>2. /\ answers[r] \in Seq({"failed", "local", "child"})
      /\ answers'[r] \in Seq({"failed", "local", "child"})
  BY DEF TypeInv, TypeOK
<1>3. Len(answers[r]) <= 1 /\ Len(answers'[r]) <= 1
  BY DEF Tracking, AnsweredOnce
<1>4. /\ Len(answers[r]) \in Nat /\ Len(answers'[r]) \in Nat
      /\ answers[r] # <<>> <=> Len(answers[r]) > 0
      /\ answers'[r] # <<>> <=> Len(answers'[r]) > 0
  BY <1>2
<1>5. answers[r] # <<>> => answers'[r] # <<>>
  BY DEF AnswersStay
<1>6. answers'[r] # <<>> => r \in submitted'
  BY DEF Tracking, AnsweredOnce
<1>7. \A k \in Nat : k <= 1 => k = 0 \/ k = 1
  OBVIOUS
<1>8. Len(answers[r]) \in {0, 1} /\ Len(answers'[r]) \in {0, 1}
  BY ONLY <1>3, <1>4, <1>7
<1>9. Len(answers[r]) = 1 => Len(answers'[r]) = 1
  <2>1. Len(answers[r]) = 1 => Len(answers'[r]) > 0
    BY ONLY <1>4, <1>5
  <2> QED
    BY ONLY <2>1, <1>8
<1> QED
  BY <1>1, <1>4, <1>6, <1>8, <1>9

LEMMA ServiceStep ==
  ASSUME TypeInv, TypeInv', Tracking, Tracking', [Next]_vars
  PROVE  [RS!ServiceNext]_(RS!serviceVars)
<1>1. AnswersStay
  BY AnswersStayStep
<1>2. CASE UNCHANGED <<shutting_down, exited>>
  <2> DEFINE N == submitted' \ submitted
             A == {r \in Requests : Answered[r] = 0 /\ Answered'[r] = 1}
  <2>1. submitted \subseteq submitted'
    BY <1>1 DEF AnswersStay
  <2>2. \A r \in Requests :
           /\ Answered[r] \in {0, 1} /\ Answered'[r] \in {0, 1}
           /\ Answered[r] = 1 => Answered'[r] = 1
           /\ Answered'[r] = 1 => r \in submitted'
    BY <1>1, AnswersCounted
  <2>3. A \subseteq {r \in submitted \cup N : Answered[r] = 0}
    BY <2>2
  <2>4. Answered' = [r \in Requests |-> IF r \in A THEN 1 ELSE Answered[r]]
    <3>1. Answered' = [r \in Requests |-> Answered'[r]]
      BY DEF Answered
    <3>2. \A r \in Requests : Answered'[r] = IF r \in A THEN 1 ELSE Answered[r]
      BY <2>2
    <3> QED
      BY <3>1, <3>2
  <2>5. RS!Serve(N, A)
    BY <1>2, <2>1, <2>3, <2>4 DEF RS!Serve
  <2>6. N \in SUBSET Requests /\ A \in SUBSET Requests
    BY DEF TypeInv, TypeOK
  <2> QED
    BY <2>5, <2>6 DEF RS!ServiceNext
<1>3. CASE (shutting_down \/ exited)' /\ UNCHANGED <<submitted, answers>>
  BY <1>3 DEF RS!ServiceNext, RS!Close, Answered
<1> QED
  BY <1>2, <1>3, SessionEnds

(* The proxy is a request service whatever its child does: every step of   *)
(* it submits requests and answers some that wait, each for the first time,*)
(* or ends the session; a crash, a respawn and a degradation are such      *)
(* steps.                                                                  *)
THEOREM ProxyIsRequestService == Spec => IsRequestService
<1>1. Init => RS!ServiceInit
  BY DEF Init, RS!ServiceInit, Answered
<1>2. Init => TypeInv /\ Tracking
  BY TypeInit, TrackingInit
<1>3. TypeInv /\ Tracking /\ [Next]_vars => (TypeInv /\ Tracking)'
  BY TypeStep, TrackingStep
<1>4. TypeInv /\ Tracking /\ (TypeInv /\ Tracking)' /\ [Next]_vars
        => [RS!ServiceNext]_(RS!serviceVars)
  BY ServiceStep
<1> QED
  BY <1>1, <1>2, <1>3, <1>4, PTL DEF Spec, IsRequestService, RS!Service

(* For any number of requests and crashes, no request is answered twice,   *)
(* none is forgotten, and none waits without a child to answer it.         *)
THEOREM RequestsTracked == Spec => [](AnsweredOnce /\ NothingForgotten)
<1>1. Init => TypeInv /\ Tracking
  BY TypeInit, TrackingInit
<1>2. TypeInv /\ Tracking /\ [Next]_vars => (TypeInv /\ Tracking)'
  BY TypeStep, TrackingStep
<1>3. Tracking => AnsweredOnce /\ NothingForgotten
  BY DEF Tracking
<1> QED
  BY <1>1, <1>2, <1>3, PTL DEF Spec
-----------------------------------------------------------------------------
(* The child: it owes everything tracked and knows every open document.    *)
ChildInv == OwedByChild /\ ReplicaCurrent

LEMMA ChildInvInit == Init => ChildInv
  BY DEF Init, ChildInv, OwedByChild, ReplicaCurrent, AllClosed

(* A message appended to the channel leaves the others in it.              *)
LEMMA AppendQueued ==
  ASSUME incoming \in Seq(Message), NEW m \in Message, incoming' = Append(incoming, m)
  PROVE  /\ \A i : Queued(i) => Queued(i)'
         /\ \A i : m.kind = "response" /\ m.id = i => Queued(i)'
<1>1. /\ Len(incoming') = Len(incoming) + 1 /\ Len(incoming) \in Nat
      /\ \A k \in 1..Len(incoming) : incoming'[k] = incoming[k]
      /\ incoming'[Len(incoming) + 1] = m
  OBVIOUS
<1>2. ASSUME NEW i, Queued(i) PROVE Queued(i)'
  BY <1>1, <1>2 DEF Queued
<1>3. ASSUME NEW i, m.kind = "response", m.id = i PROVE Queued(i)'
  <2>1. Len(incoming) + 1 \in 1..Len(incoming')
    BY <1>1
  <2> QED
    BY <1>1, <1>3, <2>1 DEF Queued
<1> QED
  BY <1>2, <1>3

(* Reading the head of the channel leaves the other messages in it.        *)
LEMMA TailQueued ==
  ASSUME incoming \in Seq(Message), incoming # <<>>, incoming' = Tail(incoming),
         NEW i, Queued(i),
         ~(Head(incoming).kind = "response" /\ Head(incoming).id = i)
  PROVE  Queued(i)'
<1>1. PICK k \in 1..Len(incoming) : incoming[k].kind = "response" /\ incoming[k].id = i
  BY DEF Queued
<1>2. k # 1
  BY <1>1
<1>3. /\ k - 1 \in 1..Len(incoming') /\ incoming'[k - 1] = incoming[k]
  BY <1>2
<1> QED
  BY <1>1, <1>3 DEF Queued

LEMMA RaExitKeepsChildInv ==
  ASSUME TypeInv, NEW pend, NEW renames, RaExit(pend, renames, open_documents')
  PROVE  ChildInv'
<1>1. CASE NoChild
  BY <1>1 DEF NoChild, ChildInv, OwedByChild, ReplicaCurrent, Reachable
<1>2. CASE RaExitRunning(pend, open_documents') /\ Respawn(open_documents')
  <2>1. \A d \in RustDocs : replica'[d] = open_documents'[d]
    BY <1>2, DocsAssumption DEF Respawn, Replayed
  <2> QED
    BY <1>2, <2>1 DEF RaExitRunning, ChildInv, OwedByChild, ReplicaCurrent
<1> QED
  BY <1>1, <1>2 DEF RaExit, RaExitStopping, RaExitRunning

LEMMA ChildInvStep == TypeInv /\ ChildInv /\ [Next]_vars => ChildInv'
<1> SUFFICES ASSUME TypeInv, ChildInv, [Next]_vars PROVE ChildInv'
  OBVIOUS
<1> USE DEF childVars, deskVars, saveVars, editorVars, stageVars
<1>a. UNCHANGED <<ra, alive, working, incoming, replica, open_documents, deskVars>>
        => ChildInv'
  BY DEF ChildInv, OwedByChild, ReplicaCurrent, Reachable, Queued
<1>b. ASSUME NEW pend, NEW renames, RaExit(pend, renames, open_documents),
             UNCHANGED open_documents
      PROVE  ChildInv'
  BY <1>b, RaExitKeepsChildInv
<1>1. ASSUME NEW r \in Requests, EditorRequest(r) PROVE ChildInv'
  <2>1. CASE Degraded
    BY <1>1, <2>1, <1>a DEF EditorRequest, Degraded, Reachable, WriteFails
  <2>2. CASE Reachable
    <3>1. /\ pending' = pending \cup {r} /\ working' = working \cup {r}
          /\ UNCHANGED <<ra, alive, incoming, replica, open_documents, injected_renames>>
      BY <1>1, <2>2 DEF EditorRequest, Degraded, Reachable, WriteFails
    <3> QED
      BY <2>2, <3>1 DEF ChildInv, OwedByChild, ReplicaCurrent, Reachable, Queued
  <2>3. CASE WriteFails
    BY <1>1, <2>3, <1>b DEF EditorRequest, Degraded, Reachable, WriteFails
  <2> QED
    BY <2>1, <2>2, <2>3 DEF Degraded, Reachable, WriteFails
<1>2. ASSUME NEW d \in Docs, NEW v \in 0..MaxVersion, EditorSyncs(d, v) PROVE ChildInv'
  <2>1. /\ open_documents' = [open_documents EXCEPT ![d] = v]
        /\ v = open_documents[d] + 1 \/ v = 0
    BY <1>2 DEF EditorSyncs
  <2>2. CASE Degraded
    BY <1>2, <2>2 DEF EditorSyncs, Degraded, Reachable, WriteFails, ChildInv,
                      OwedByChild, ReplicaCurrent
  <2>3. CASE Reachable
    <3>1. /\ replica' = [replica EXCEPT ![d] = Told(d, v)]
          /\ UNCHANGED <<ra, alive, working, incoming, deskVars>>
      BY <1>2, <2>3 DEF EditorSyncs, Degraded, Reachable, WriteFails
    <3>2. ASSUME NEW e \in RustDocs PROVE replica'[e] = open_documents'[e]
      <4>1. replica[e] = open_documents[e] /\ e \in Docs /\ open_documents[e] \in Nat
        BY <2>3, DocsAssumption, BoundsAreNat
           DEF ChildInv, ReplicaCurrent, Reachable, TypeInv, TypeOK
      <4>2. CASE e = d
        <5>1. Told(d, v) = v
          BY <2>1, <4>1, <4>2 DEF Told
        <5> QED
          BY <2>1, <3>1, <4>1, <4>2, <5>1 DEF TypeInv, TypeOK
      <4>3. CASE e # d
        BY <2>1, <3>1, <4>1, <4>3 DEF TypeInv, TypeOK
      <4> QED
        BY <4>2, <4>3
    <3> QED
      BY <2>3, <3>1, <3>2 DEF ChildInv, OwedByChild, ReplicaCurrent, Reachable, Queued
  <2>4. CASE WriteFails
    <3>1. RaExit(pending, injected_renames, open_documents')
      BY <1>2, <2>4 DEF EditorSyncs, Degraded, Reachable, WriteFails
    <3> QED
      BY <3>1, RaExitKeepsChildInv
  <2> QED
    BY <2>2, <2>3, <2>4 DEF Degraded, Reachable, WriteFails
<1>3. ASSUME NEW q \in asked, EditorAnswers(q) PROVE ChildInv'
  BY <1>3, <1>a, <1>b DEF EditorAnswers
<1>4. ASSUME NEW n \in Renames, NEW applied \in BOOLEAN, EditorApplied(n, applied)
      PROVE ChildInv'
  BY <1>4, <1>a DEF EditorApplied
<1>5. CASE EditorShutdown
  <2>1. CASE Reachable
    <3>1. /\ working' = working \cup {ShutdownId}
          /\ UNCHANGED <<ra, alive, incoming, replica, open_documents, deskVars>>
      BY <1>5, <2>1 DEF EditorShutdown, Degraded, Reachable, WriteFails
    <3> QED
      BY <2>1, <3>1 DEF ChildInv, OwedByChild, ReplicaCurrent, Reachable, Queued
  <2>2. CASE ~Reachable
    BY <1>5, <2>2, <1>a DEF EditorShutdown, RaExitStopping, NoChild, ChildInv,
                            OwedByChild, ReplicaCurrent, Reachable
  <2> QED
    BY <2>1, <2>2
<1>6. CASE EditorExit
  BY <1>6 DEF EditorExit, NoChild, ChildInv, OwedByChild, ReplicaCurrent, Reachable
<1>7. ASSUME NEW n \in Renames, NEW plan \in {"none", "position", "contract"},
             PluginEvent(n, plan)
      PROVE ChildInv'
  <2>1. CASE plan = "position" /\ Reachable
    <3>1. /\ injected_renames' = injected_renames \cup {n} /\ working' = working \cup {n}
          /\ UNCHANGED <<ra, alive, incoming, replica, open_documents, pending>>
      BY <1>7, <2>1 DEF PluginEvent, Degraded, Reachable, WriteFails
    <3> QED
      BY <2>1, <3>1 DEF ChildInv, OwedByChild, ReplicaCurrent, Reachable, Queued
  <2>2. CASE ~(plan = "position" /\ Reachable)
    BY <1>7, <2>2, <1>a, <1>b DEF PluginEvent
  <2> QED
    BY <2>1, <2>2
<1>8. CASE OnRaMessage
  <2> DEFINE m == Head(incoming)
  <2>1. /\ UNCHANGED <<ra, alive, working, replica, open_documents>>
        /\ incoming # <<>> /\ incoming' = Tail(incoming) /\ incoming \in Seq(Message)
    BY <1>8 DEF OnRaMessage, TypeInv, TypeOK
  <2>2. ASSUME NEW i \in pending' \cup injected_renames'
        PROVE  /\ i \in pending \cup injected_renames
               /\ ~(m.kind = "response" /\ m.id = i)
    BY <1>8, <2>2, IdsAssumption
       DEF OnRaMessage, EditorResponse, RenameResponse, TypeInv, TypeOK
  <2>3. ASSUME NEW i \in pending' \cup injected_renames', Reachable'
        PROVE  i \in working' \/ Queued(i)'
    <3>1. i \in working \/ Queued(i)
      BY <2>1, <2>2, <2>3 DEF ChildInv, OwedByChild, Reachable
    <3> QED
      BY <2>1, <2>2, <3>1, TailQueued
  <2> QED
    BY <2>1, <2>3 DEF ChildInv, OwedByChild, ReplicaCurrent
<1>9. CASE OnRaExit
  BY <1>9, <1>b DEF OnRaExit
<1>10. ASSUME NEW i \in working, NEW ok \in BOOLEAN, ChildAnswers(i, ok) PROVE ChildInv'
  <2>1. /\ UNCHANGED <<ra, alive, replica, open_documents, deskVars>>
        /\ working' = working \ {i} /\ incoming' = Append(incoming, Answer(i, ok))
        /\ Reachable
    BY <1>10 DEF ChildAnswers
  <2>2. Answer(i, ok) \in Message /\ incoming \in Seq(Message)
    BY <1>10 DEF Answer, Message, TypeInv, TypeOK
  <2>3. Queued(i)' /\ \A j : Queued(j) => Queued(j)'
    BY <2>1, <2>2, AppendQueued DEF Answer
  <2> QED
    BY <2>1, <2>3 DEF ChildInv, OwedByChild, ReplicaCurrent, Reachable
<1>11. CASE ChildAsks
  <2>1. /\ UNCHANGED <<ra, alive, working, replica, open_documents, deskVars>>
        /\ incoming' = Append(incoming, Ask(asks + 1))
        /\ Reachable
    BY <1>11 DEF ChildAsks
  <2>2. Ask(asks + 1) \in Message /\ incoming \in Seq(Message)
    BY <1>11, BoundsAreNat DEF ChildAsks, Ask, Message, TypeInv, TypeOK
  <2>3. \A j : Queued(j) => Queued(j)'
    BY <2>1, <2>2, AppendQueued
  <2> QED
    BY <2>1, <2>3 DEF ChildInv, OwedByChild, ReplicaCurrent, Reachable
<1>12. CASE ChildDies
  BY <1>12 DEF ChildDies, ChildInv, OwedByChild, ReplicaCurrent, Reachable
<1>13. CASE CooldownElapses \/ BinaryChanges
  BY <1>13, <1>a DEF CooldownElapses, BinaryChanges
<1>14. CASE UNCHANGED vars
  BY <1>14, <1>a DEF vars
<1> QED
  BY <1>1, <1>2, <1>3, <1>4, <1>5, <1>6, <1>7, <1>8, <1>9, <1>10, <1>11, <1>12,
     <1>13, <1>14 DEF Next, Editor, Child, Stopped

(* Whatever crashes and replays came before, everything tracked is owed by *)
(* the child in use, and that child knows exactly the open Rust documents. *)
THEOREM ChildUpToDate == Spec => []ChildCurrent
<1>1. Init => TypeInv /\ ChildInv
  BY TypeInit, ChildInvInit
<1>2. TypeInv /\ ChildInv /\ [Next]_vars => (TypeInv /\ ChildInv)'
  BY TypeStep, ChildInvStep
<1>3. ChildInv => ChildCurrent
  BY DEF ChildInv, ChildCurrent
<1> QED
  BY <1>1, <1>2, <1>3, PTL DEF Spec
-----------------------------------------------------------------------------
(* Renames: one stage at a time.                                           *)
Stage(n) ==
  /\ handed[n] <= 1
  /\ n \in pending_saves \cup saved => handed[n] = 1
  /\ n \in injected_renames => n \in pending_ts_saves /\ handed[n] = 0
  /\ ~(n \in pending_saves /\ n \in saved)
  /\ n \notin landed => /\ handed[n] = 0
                        /\ n \notin injected_renames \cup pending_ts_saves

RenameInv == \A n \in Renames : Stage(n)

LEMMA RenameInvInit == Init => RenameInv
  BY DEF Init, RenameInv, Stage

(* Handing the Rust half over, once, moves a rename that was in no later   *)
(* stage to the next.                                                      *)
LEMMA ApplyKeepsStages ==
  ASSUME TypeInv, RenameInv, NEW n \in Renames, ApplyRustComplement(n),
         handed[n] = 0, n \in landed', landed \subseteq landed',
         n \notin injected_renames', injected_renames' \subseteq injected_renames,
         pending_ts_saves \ {n} \subseteq pending_ts_saves',
         pending_ts_saves' \subseteq pending_ts_saves
  PROVE  RenameInv'
<1>1. ASSUME NEW k \in Renames, k # n PROVE Stage(k)'
  <2>1. Stage(k)
    BY DEF RenameInv
  <2>2. /\ handed'[k] = handed[k]
        /\ k \in pending_saves' <=> k \in pending_saves
        /\ k \in saved' <=> k \in saved
    BY <1>1 DEF ApplyRustComplement, TypeInv, TypeOK
  <2> QED
    BY <1>1, <2>1, <2>2 DEF Stage
<1>2. Stage(n)'
  <2>1. Stage(n)
    BY DEF RenameInv
  <2>2. n \notin pending_saves \cup saved
    BY <2>1 DEF Stage
  <2>3. handed'[n] = 1
    BY DEF ApplyRustComplement, TypeInv, TypeOK
  <2>4. ~(n \in pending_saves' /\ n \in saved')
    BY <2>2 DEF ApplyRustComplement
  <2> QED
    BY <2>3, <2>4 DEF Stage
<1> QED
  BY <1>1, <1>2 DEF RenameInv

LEMMA RenameInvStep == TypeInv /\ RenameInv /\ [Next]_vars => RenameInv'
<1> SUFFICES ASSUME TypeInv, RenameInv, [Next]_vars PROVE RenameInv'
  OBVIOUS
<1> USE DEF childVars, deskVars, saveVars, editorVars, stageVars
<1>a. UNCHANGED <<injected_renames, saveVars, landed>> => RenameInv'
  BY DEF RenameInv, Stage
<1>b. ASSUME NEW pend, NEW docs, RaExit(pend, injected_renames, docs),
             UNCHANGED <<saveVars, landed>>
      PROVE  RenameInv'
  BY <1>b DEF RaExit, RaExitStopping, RaExitRunning, RenameInv, Stage
<1>1. ASSUME NEW r \in Requests, EditorRequest(r) PROVE RenameInv'
  BY <1>1, <1>a, <1>b DEF EditorRequest
<1>2. ASSUME NEW d \in Docs, NEW v \in 0..MaxVersion, EditorSyncs(d, v) PROVE RenameInv'
  BY <1>2, <1>a, <1>b DEF EditorSyncs
<1>3. ASSUME NEW q \in asked, EditorAnswers(q) PROVE RenameInv'
  BY <1>3, <1>a, <1>b DEF EditorAnswers
<1>4. ASSUME NEW n \in Renames, NEW applied \in BOOLEAN, EditorApplied(n, applied)
      PROVE RenameInv'
  BY <1>4 DEF EditorApplied, RenameInv, Stage
<1>5. CASE EditorShutdown
  BY <1>5, <1>a DEF EditorShutdown, RaExitStopping
<1>6. CASE EditorExit
  BY <1>6, <1>a DEF EditorExit
<1>7. ASSUME NEW n \in Renames, NEW plan \in {"none", "position", "contract"},
             PluginEvent(n, plan)
      PROVE RenameInv'
  <2>1. n \notin landed /\ landed' = landed \cup {n}
    BY <1>7 DEF PluginEvent
  <2>2. Stage(n) /\ handed[n] = 0 /\ n \notin injected_renames
    BY <2>1 DEF RenameInv, Stage
  <2>3. CASE plan = "none"
    <3>1. UNCHANGED <<injected_renames, saveVars>>
      BY <1>7, <2>3 DEF PluginEvent
    <3> QED
      BY <2>1, <3>1 DEF RenameInv, Stage
  <2>4. CASE plan = "position" /\ Reachable
    <3>1. /\ injected_renames' = injected_renames \cup {n}
          /\ pending_ts_saves' = pending_ts_saves \cup {n}
          /\ UNCHANGED <<pending_saves, handed, saved>>
      BY <1>7, <2>4 DEF PluginEvent, Degraded, Reachable, WriteFails
    <3> QED
      BY <2>1, <2>2, <3>1 DEF RenameInv, Stage
  <2>5. CASE plan = "position" /\ WriteFails
    <3>1. /\ injected_renames' \subseteq injected_renames \cup {n}
          /\ pending_ts_saves' = pending_ts_saves \cup {n}
          /\ UNCHANGED <<pending_saves, handed, saved>>
      BY <1>7, <2>5 DEF PluginEvent, Degraded, Reachable, WriteFails,
                        RaExit, RaExitStopping, RaExitRunning
    <3> QED
      BY <2>1, <2>2, <3>1 DEF RenameInv, Stage
  <2>6. CASE plan = "contract" \/ (plan = "position" /\ Degraded)
    <3>1. ApplyRustComplement(n) /\ UNCHANGED <<injected_renames, pending_ts_saves>>
      BY <1>7, <2>6 DEF PluginEvent, Degraded, Reachable, WriteFails
    <3> QED
      BY <2>1, <2>2, <3>1, ApplyKeepsStages
  <2> QED
    BY <2>3, <2>4, <2>5, <2>6 DEF Degraded, Reachable, WriteFails
<1>8. CASE OnRaMessage
  <2> DEFINE m == Head(incoming)
  <2>1. CASE RenameResponse(m.id, m.ok)
    <3> DEFINE n == m.id
    <3>1. /\ n \in injected_renames /\ injected_renames' = injected_renames \ {n}
          /\ pending_ts_saves' = pending_ts_saves \ {n}
          /\ \/ ApplyRustComplement(n)
             \/ UNCHANGED <<handed, pending_saves, saved>>
          /\ landed' = landed
      BY <1>8, <2>1 DEF OnRaMessage, RenameResponse
    <3>2. n \in Renames
      BY <3>1 DEF TypeInv, TypeOK
    <3>3. handed[n] = 0 /\ n \in landed
      BY <3>1, <3>2 DEF RenameInv, Stage
    <3> HIDE DEF n
    <3>4. CASE ApplyRustComplement(n)
      BY <3>1, <3>2, <3>3, <3>4, ApplyKeepsStages
    <3>5. CASE UNCHANGED <<handed, pending_saves, saved>>
      BY <3>1, <3>5 DEF RenameInv, Stage
    <3> QED
      BY <3>1, <3>4, <3>5
  <2>2. CASE UNCHANGED <<injected_renames, saveVars>>
    BY <1>8, <2>2, <1>a DEF OnRaMessage
  <2> QED
    BY <1>8, <2>1, <2>2 DEF OnRaMessage, EditorResponse
<1>9. CASE OnRaExit
  BY <1>9, <1>b DEF OnRaExit
<1>10. ASSUME NEW i \in working, NEW ok \in BOOLEAN, ChildAnswers(i, ok) PROVE RenameInv'
  BY <1>10, <1>a DEF ChildAnswers
<1>11. CASE ChildAsks \/ ChildDies \/ CooldownElapses \/ BinaryChanges
  BY <1>11, <1>a DEF ChildAsks, ChildDies, CooldownElapses, BinaryChanges
<1>12. CASE UNCHANGED vars
  BY <1>12, <1>a DEF vars
<1> QED
  BY <1>1, <1>2, <1>3, <1>4, <1>5, <1>6, <1>7, <1>8, <1>9, <1>10, <1>11, <1>12
     DEF Next, Editor, Child, Stopped

(* The Rust half of a rename is handed over at most once, and TypeScript   *)
(* files are saved only after it was.                                      *)
THEOREM RenamesStaged == Spec => []RenameStages
<1>1. Init => TypeInv /\ RenameInv
  BY TypeInit, RenameInvInit
<1>2. TypeInv /\ RenameInv /\ [Next]_vars => (TypeInv /\ RenameInv)'
  BY TypeStep, RenameInvStep
<1>3. RenameInv => RenameStages
  BY DEF RenameInv, RenameStages, Stage
<1> QED
  BY <1>1, <1>2, <1>3, PTL DEF Spec
=============================================================================
