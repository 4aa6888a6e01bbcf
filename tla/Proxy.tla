------------------------------- MODULE Proxy -------------------------------
(***************************************************************************)
(* The main loop of typeweld-ls (typeweld-ls/src/proxy.rs) and the life of *)
(* the rust-analyzer child behind it (typeweld-ls/src/ra.rs).              *)
(*                                                                         *)
(* The loop is one thread: every handler runs to completion, so each is    *)
(* one action.  What interleaves with it is the editor, the child process, *)
(* which may die at any moment, and the TypeScript plugins.  A message the *)
(* editor sends is consumed by the action that models its handler; the     *)
(* channel from the child is explicit (incoming), because what the child   *)
(* said before it died is still read after its death.                      *)
(***************************************************************************)
EXTENDS Integers, Sequences, FiniteSets

CONSTANTS
  Requests,      \* ids of the editor's requests, each used once
  Renames,       \* TypeScript renames that land in an editor; each also names
                 \* the internal ids ("typeweld:rename:n", "typeweld:apply:n")
                 \* the proxy draws for it
  ShutdownId,    \* "typeweld:shutdown", the proxy's own request to the child
  Docs,          \* documents the editor may open
  RustDocs,      \* those whose extension is .rs
  Touched,       \* the Rust documents the Rust half of a rename edits
  MaxVersion,    \* bound on the versions of an open document
  MaxSpawns,     \* bound on the children started in one session
  MaxAsks        \* bound on the requests one child sends to the editor

ASSUME IdsAssumption ==
  /\ Requests \cap Renames = {}
  /\ ShutdownId \notin Requests \cup Renames

ASSUME DocsAssumption ==
  /\ RustDocs \subseteq Docs
  /\ Touched \in [Renames -> SUBSET RustDocs]

ASSUME BoundsAssumption ==
  /\ MaxVersion \in Nat \ {0}
  /\ MaxSpawns \in Nat \ {0}
  /\ MaxAsks \in Nat

VARIABLES
  \* the child process
  ra,                \* 0: no child; otherwise the number of the child in use
  spawned,           \* how many children have been started
  alive,             \* the process of the child in use is running
  young,             \* the child in use is younger than RESPAWN_COOLDOWN
  usable,            \* the machine has a rust-analyzer that starts
  working,           \* requests written to the child, not answered by it
  incoming,          \* messages of the child the loop has not read
  asks,              \* requests the child in use has sent to the editor
  replica,           \* the documents as the child was told about them
  \* the proxy
  open_documents,    \* version of every open document, 0 when closed
  pending, injected_renames, pending_ts_saves, pending_saves, shutting_down,
  exited,            \* the main loop has returned
  \* the editor
  submitted,         \* requests sent to the server
  answers,           \* the answers received for each of them
  asked,             \* server-to-client requests not answered yet
  \* TypeScript renames
  landed,            \* reported by a plugin
  handed,            \* how often the Rust half was written or sent for applying
  saved              \* the TypeScript half was sent for saving

childVars == <<ra, spawned, alive, young, working, incoming, asks, replica>>
deskVars == <<pending, injected_renames>>
saveVars == <<pending_ts_saves, pending_saves, handed, saved>>
editorVars == <<submitted, answers, asked>>
stageVars == <<shutting_down, exited>>
vars == <<childVars, usable, open_documents, deskVars, saveVars, editorVars,
          stageVars, landed>>

Answer(id, ok) == [kind |-> "response", id |-> id, ok |-> ok]
Ask(n) == [kind |-> "request", ask |-> n]
Message ==
  [kind : {"response"}, id : Requests \cup Renames \cup {ShutdownId}, ok : BOOLEAN]
    \cup [kind : {"request"}, ask : 1..MaxAsks]

AllClosed == [d \in Docs |-> 0]

TypeOK ==
  /\ spawned \in 0..MaxSpawns
  /\ ra \in 0..spawned
  /\ alive \in BOOLEAN /\ young \in BOOLEAN /\ usable \in BOOLEAN
  /\ shutting_down \in BOOLEAN /\ exited \in BOOLEAN
  /\ working \subseteq Requests \cup Renames \cup {ShutdownId}
  /\ incoming \in Seq(Message)
  /\ asks \in 0..MaxAsks
  /\ replica \in [Docs -> 0..MaxVersion]
  /\ open_documents \in [Docs -> 0..MaxVersion]
  /\ pending \subseteq Requests
  /\ injected_renames \subseteq Renames
  /\ pending_ts_saves \subseteq Renames
  /\ pending_saves \subseteq Renames
  /\ submitted \subseteq Requests
  /\ answers \in [Requests -> Seq({"failed", "local", "child"})]
  /\ asked \subseteq (1..MaxSpawns) \X (1..MaxAsks)
  /\ landed \subseteq Renames
  /\ handed \in [Renames -> Nat]
  /\ saved \subseteq Renames

-----------------------------------------------------------------------------
(* The child goes away: killed, reaped, its channel dropped.               *)
NoChild ==
  /\ ra' = 0 /\ spawned' = spawned /\ alive' = FALSE /\ young' = FALSE
  /\ working' = {} /\ incoming' = <<>> /\ asks' = 0
  /\ replica' = AllClosed

(* What a new child is told about the documents open at the editor.        *)
Replayed(docs) == [d \in Docs |-> IF d \in RustDocs THEN docs[d] ELSE 0]

(* RaChild::respawn: the handshake and the open Rust documents.            *)
Respawn(docs) ==
  /\ ra' = spawned + 1 /\ spawned' = spawned + 1 /\ alive' = TRUE /\ young' = TRUE
  /\ working' = {} /\ incoming' = <<>> /\ asks' = 0
  /\ replica' = Replayed(docs)

(* Whether a respawn succeeds: the cooldown is over and the binary starts. *)
MayRespawn == ~young /\ usable

(* Every request still pending is answered with an error.                  *)
FailPending(pend) ==
  [r \in Requests |-> IF r \in pend THEN Append(answers[r], "failed")
                                    ELSE answers[r]]

(* on_ra_exit once the editor asked for shutdown: only the child is taken. *)
RaExitStopping(pend, renames) ==
  /\ NoChild
  /\ pending' = pend
  /\ injected_renames' = renames
  /\ UNCHANGED answers

(* Mutants: the pending requests are forgotten instead of failed; the      *)
(* injected renames survive the child.                                     *)
ForgetPending(pend, docs) ==
  /\ pending' = {} /\ injected_renames' = {}
  /\ UNCHANGED answers
  /\ IF MayRespawn THEN Respawn(docs) ELSE NoChild

KeepInjectedRenames(pend, docs) ==
  /\ pending' = {}
  /\ answers' = FailPending(pend)
  /\ UNCHANGED injected_renames
  /\ IF MayRespawn THEN Respawn(docs) ELSE NoChild

(* on_ra_exit otherwise: fail what is pending, forget the injected renames,*)
(* respawn with the open documents or degrade.                             *)
RaExitRunning(pend, docs) ==
  /\ pending' = {}
  /\ answers' = FailPending(pend)
  /\ injected_renames' = {}
  /\ IF MayRespawn THEN Respawn(docs) ELSE NoChild

RaExit(pend, renames, docs) ==
  IF shutting_down THEN RaExitStopping(pend, renames)
                   ELSE RaExitRunning(pend, docs)

(* forward_to_ra: a write to a dead child fails, and the failure is handled*)
(* as the child's exit by the very handler that was forwarding.            *)
Degraded == ra = 0
Reachable == ra # 0 /\ alive
WriteFails == ra # 0 /\ ~alive

-----------------------------------------------------------------------------
Init ==
  /\ usable \in BOOLEAN                        \* wrap rust-analyzer, or not
  /\ ra = IF usable THEN 1 ELSE 0
  /\ spawned = ra /\ alive = usable /\ young = usable
  /\ working = {} /\ incoming = <<>> /\ asks = 0
  /\ replica = AllClosed /\ open_documents = AllClosed
  /\ pending = {} /\ injected_renames = {}
  /\ pending_ts_saves = {} /\ pending_saves = {}
  /\ shutting_down = FALSE /\ exited = FALSE
  /\ submitted = {} /\ answers = [r \in Requests |-> <<>>]
  /\ asked = {}
  /\ landed = {} /\ handed = [n \in Renames |-> 0] /\ saved = {}

(* on_editor_message, a request.                                           *)
EditorRequest(r) ==
  /\ ~exited
  /\ r \notin submitted
  /\ submitted' = submitted \cup {r}
  /\ \/ /\ Degraded                                       \* answer_locally
        /\ answers' = [answers EXCEPT ![r] = Append(@, "local")]
        /\ UNCHANGED <<childVars, deskVars>>
     \/ /\ Reachable
        /\ pending' = pending \cup {r}
        /\ working' = working \cup {r}
        /\ UNCHANGED <<ra, spawned, alive, young, incoming, asks, replica,
                       injected_renames, answers>>
     \/ /\ WriteFails
        /\ RaExit(pending \cup {r}, injected_renames, open_documents)
  /\ UNCHANGED <<usable, open_documents, saveVars, asked, stageVars, landed>>

(* The version a child holds after a notification that makes d's version v:*)
(* it ignores a change of a document it was never shown.                   *)
Told(d, v) == IF v > 1 /\ replica[d] = 0 THEN 0 ELSE v

(* on_editor_message, a document notification: observe_notification records*)
(* it (didOpen, didChange or didClose), then it is forwarded.              *)
EditorSyncs(d, v) ==
  /\ ~exited
  /\ v = open_documents[d] + 1 \/ (v = 0 /\ open_documents[d] # 0)
  /\ open_documents' = [open_documents EXCEPT ![d] = v]
  /\ \/ Degraded /\ UNCHANGED <<childVars, deskVars, answers>>
     \/ /\ Reachable
        /\ replica' = [replica EXCEPT ![d] = Told(d, v)]
        /\ UNCHANGED <<ra, spawned, alive, young, working, incoming, asks,
                       deskVars, answers>>
     \/ /\ WriteFails
        /\ RaExit(pending, injected_renames, [open_documents EXCEPT ![d] = v])
  /\ UNCHANGED <<usable, saveVars, submitted, asked, stageVars, landed>>

(* on_editor_message, the answer to a request of a child.                  *)
EditorAnswers(q) ==
  /\ ~exited
  /\ q \in asked
  /\ asked' = asked \ {q}
  /\ \/ /\ Degraded \/ Reachable
        /\ UNCHANGED <<childVars, deskVars, answers>>
     \/ /\ WriteFails
        /\ RaExit(pending, injected_renames, open_documents)
  /\ UNCHANGED <<usable, open_documents, saveVars, submitted, stageVars, landed>>

(* on_editor_message, the answer to our own workspace/applyEdit.           *)
EditorApplied(n, applied) ==
  /\ ~exited
  /\ n \in pending_saves
  /\ pending_saves' = pending_saves \ {n}
  /\ saved' = IF applied THEN saved \cup {n} ELSE saved
  /\ UNCHANGED <<childVars, usable, open_documents, deskVars, pending_ts_saves,
                 handed, editorVars, stageVars, landed>>

(* on_editor_message, shutdown.                                            *)
EditorShutdown ==
  /\ ~exited /\ ~shutting_down
  /\ shutting_down' = TRUE
  /\ \/ Degraded /\ UNCHANGED <<childVars, deskVars, answers>>
     \/ /\ Reachable
        /\ working' = working \cup {ShutdownId}
        /\ UNCHANGED <<ra, spawned, alive, young, incoming, asks, replica,
                       deskVars, answers>>
     \/ /\ WriteFails
        /\ RaExitStopping(pending, injected_renames)
  /\ UNCHANGED <<usable, open_documents, saveVars, submitted, asked,
                 exited, landed>>

(* The exit notification, or the editor's end of the channel closes: the   *)
(* main loop returns and the child is dropped with the proxy.              *)
EditorExit ==
  /\ ~exited
  /\ exited' = TRUE
  /\ NoChild
  /\ UNCHANGED <<usable, open_documents, deskVars, saveVars, editorVars,
                 shutting_down, landed>>

-----------------------------------------------------------------------------
(* Mutant: the TypeScript half is saved without waiting for the editor.    *)
SaveAtOnce(n) ==
  /\ handed' = [handed EXCEPT ![n] = @ + 1]
  /\ saved' = saved \cup {n}
  /\ pending_saves' = IF \E d \in Touched[n] : open_documents[d] # 0
                      THEN pending_saves \cup {n} ELSE pending_saves

(* apply_rust_complement: a document open at the editor is edited through  *)
(* workspace/applyEdit and the TypeScript half is saved when the editor    *)
(* confirms; when all are closed they are written and it is saved at once. *)
ApplyRustComplement(n) ==
  /\ handed' = [handed EXCEPT ![n] = @ + 1]
  /\ IF \E d \in Touched[n] : open_documents[d] # 0
     THEN pending_saves' = pending_saves \cup {n} /\ UNCHANGED saved
     ELSE saved' = saved \cup {n} /\ UNCHANGED pending_saves

(* on_plugin_event.  The engine may know no Rust half for the name (no     *)
(* plan), or know it with or without a declaration position to ask the     *)
(* child about.                                                            *)
PluginEvent(n, plan) ==
  /\ ~exited
  /\ n \notin landed
  /\ landed' = landed \cup {n}
  /\ \/ /\ plan = "none"
        /\ UNCHANGED <<childVars, deskVars, saveVars, answers>>
     \/ /\ plan = "position" /\ Reachable
        /\ injected_renames' = injected_renames \cup {n}
        /\ pending_ts_saves' = pending_ts_saves \cup {n}
        /\ working' = working \cup {n}
        /\ UNCHANGED <<ra, spawned, alive, young, incoming, asks, replica,
                       pending, answers, pending_saves, handed, saved>>
     \/ /\ plan = "position" /\ WriteFails
        /\ RaExit(pending, injected_renames \cup {n}, open_documents)
        /\ pending_ts_saves' = pending_ts_saves \cup {n}
        /\ UNCHANGED <<pending_saves, handed, saved>>
     \/ /\ plan = "contract" \/ (plan = "position" /\ Degraded)
        /\ ApplyRustComplement(n)
        /\ UNCHANGED <<childVars, deskVars, answers, pending_ts_saves>>
  /\ UNCHANGED <<usable, open_documents, submitted, asked, stageVars>>

(* Mutant: an answered request stays tracked.                              *)
StaysPending(r) ==
  /\ r \in pending
  /\ answers' = [answers EXCEPT ![r] = Append(@, "child")]
  /\ UNCHANGED <<pending, injected_renames, saveVars, asked>>

(* on_ra_message, the answer to a request of the editor: augmented, failing*)
(* open, and passed on.                                                    *)
EditorResponse(r) ==
  /\ r \in pending
  /\ pending' = pending \ {r}
  /\ answers' = [answers EXCEPT ![r] = Append(@, "child")]
  /\ UNCHANGED <<injected_renames, saveVars, asked>>

(* on_injected_rename_response: an error or an empty result applies nothing*)
RenameResponse(n, ok) ==
  /\ n \notin pending
  /\ n \in injected_renames
  /\ injected_renames' = injected_renames \ {n}
  /\ pending_ts_saves' = pending_ts_saves \ {n}
  /\ IF ok THEN ApplyRustComplement(n)
           ELSE UNCHANGED <<handed, pending_saves, saved>>
  /\ UNCHANGED <<pending, answers, asked>>

(* on_ra_message.                                                          *)
OnRaMessage ==
  /\ ~exited /\ ra # 0 /\ incoming # <<>>
  /\ incoming' = Tail(incoming)
  /\ LET m == Head(incoming) IN
     \/ m.kind = "response" /\ EditorResponse(m.id)
     \/ m.kind = "response" /\ RenameResponse(m.id, m.ok)
     \/ /\ m.kind = "response"                            \* nobody's: dropped
        /\ m.id \notin pending \cup injected_renames
        /\ UNCHANGED <<deskVars, saveVars, answers, asked>>
     \/ /\ m.kind = "request"                             \* passed on verbatim
        /\ asked' = asked \cup {<<ra, m.ask>>}
        /\ UNCHANGED <<deskVars, saveVars, answers>>
  /\ UNCHANGED <<ra, spawned, alive, young, working, asks, replica, usable,
                 open_documents, submitted, stageVars, landed>>

(* The loop finds the channel of a dead child empty and disconnected.      *)
OnRaExit ==
  /\ ~exited /\ WriteFails /\ incoming = <<>>
  /\ RaExit(pending, injected_renames, open_documents)
  /\ UNCHANGED <<usable, open_documents, saveVars, submitted, asked,
                 stageVars, landed>>

-----------------------------------------------------------------------------
(* The child: answers in any order, asks the editor, dies.                 *)
ChildAnswers(i, ok) ==
  /\ Reachable
  /\ i \in working
  /\ i \notin Renames => ok
  /\ working' = working \ {i}
  /\ incoming' = Append(incoming, Answer(i, ok))
  /\ UNCHANGED <<ra, spawned, alive, young, asks, replica, usable, open_documents,
                 deskVars, saveVars, editorVars, stageVars, landed>>

ChildAsks ==
  /\ Reachable
  /\ asks < MaxAsks
  /\ asks' = asks + 1
  /\ incoming' = Append(incoming, Ask(asks + 1))
  /\ UNCHANGED <<ra, spawned, alive, young, working, replica, usable,
                 open_documents, deskVars, saveVars, editorVars, stageVars, landed>>

ChildDies ==
  /\ Reachable
  /\ alive' = FALSE
  /\ working' = {}
  /\ UNCHANGED <<ra, spawned, young, incoming, asks, replica, usable,
                 open_documents, deskVars, saveVars, editorVars, stageVars, landed>>

(* Time and the machine.  The last child allowed by MaxSpawns stays young. *)
CooldownElapses ==
  /\ ra # 0 /\ young /\ spawned < MaxSpawns
  /\ young' = FALSE
  /\ UNCHANGED <<ra, spawned, alive, working, incoming, asks, replica, usable,
                 open_documents, deskVars, saveVars, editorVars, stageVars, landed>>

BinaryChanges ==
  /\ ~exited
  /\ usable' = ~usable
  /\ UNCHANGED <<childVars, open_documents, deskVars, saveVars, editorVars,
                 stageVars, landed>>

Stopped == exited /\ UNCHANGED vars

-----------------------------------------------------------------------------
Editor ==
  \/ \E r \in Requests : EditorRequest(r)
  \/ \E d \in Docs, v \in 0..MaxVersion : EditorSyncs(d, v)
  \/ \E q \in asked : EditorAnswers(q)
  \/ \E n \in Renames, applied \in BOOLEAN : EditorApplied(n, applied)
  \/ EditorShutdown
  \/ EditorExit

Child ==
  \/ \E i \in working, ok \in BOOLEAN : ChildAnswers(i, ok)
  \/ ChildAsks
  \/ ChildDies

Next ==
  \/ Editor
  \/ \E n \in Renames, plan \in {"none", "position", "contract"} : PluginEvent(n, plan)
  \/ OnRaMessage
  \/ OnRaExit
  \/ Child
  \/ CooldownElapses
  \/ BinaryChanges
  \/ Stopped

Spec == Init /\ [][Next]_vars

(* The select! of the loop serves every ready channel, and rust-analyzer   *)
(* answers every request it has read unless it dies.  The editor, the      *)
(* plugins, the crash and the clock are not fair.                          *)
Fairness ==
  /\ WF_vars(OnRaMessage)
  /\ WF_vars(OnRaExit)
  /\ \A i \in Requests \cup Renames : WF_vars(\E ok \in BOOLEAN : ChildAnswers(i, ok))

FairSpec == Spec /\ Fairness

-----------------------------------------------------------------------------
(* Safety.                                                                 *)

(* The editor gets at most one answer per request, never an unsolicited one*)
(* and never one for a request the proxy still tracks: a crash between the *)
(* child's answer and its reading must not answer twice (pending in        *)
(* on_ra_message and on_ra_exit).                                          *)
AnsweredOnce ==
  \A r \in Requests :
    /\ Len(answers[r]) <= 1
    /\ answers[r] # <<>> => r \in submitted \ pending

(* A submitted request is answered or still tracked, and something is      *)
(* tracked only while a child is there to answer or the session is ending: *)
(* on_ra_exit leaves nothing behind when it respawns or degrades.          *)
NothingForgotten ==
  /\ \A r \in submitted : answers[r] = <<>> => r \in pending
  /\ pending \cup injected_renames # {} => ra # 0 \/ shutting_down \/ exited

(* Everything tracked is owed by the child in use and by no earlier one: it*)
(* was written to this child, which has it in work or has answered it in   *)
(* the channel.  Otherwise the entry would wait forever after a respawn.   *)
Queued(i) == \E k \in 1..Len(incoming) :
               incoming[k].kind = "response" /\ incoming[k].id = i
OwedByChild ==
  Reachable => \A i \in pending \cup injected_renames : i \in working \/ Queued(i)

(* The child in use was told exactly the Rust documents the editor has     *)
(* open, at their versions, whatever mixture of notifications, crashes,    *)
(* failed writes and replays came before (on_ra_exit, RaChild::respawn).   *)
ReplicaCurrent ==
  ra # 0 => \A d \in RustDocs : replica[d] = open_documents[d]

(* A child that is started in the place of a dead one owes and knows what  *)
(* the dead one did.                                                       *)
ChildCurrent == OwedByChild /\ ReplicaCurrent

(* A rename is in one stage at a time: asked of the child, waiting for the *)
(* editor's confirmation, or saved; its Rust half is handed over at most   *)
(* once, and its TypeScript half is saved only after that.                 *)
RenameStages ==
  \A n \in Renames :
    /\ handed[n] <= 1
    /\ n \in pending_saves \cup saved => handed[n] = 1
    /\ n \in injected_renames => n \in pending_ts_saves /\ handed[n] = 0
    /\ ~(n \in pending_saves /\ n \in saved)

-----------------------------------------------------------------------------
(* What the editor relies on, and that the proxy provides it.              *)
Answered == [r \in Requests |-> Len(answers[r])]
RS == INSTANCE RequestService WITH
        answered <- Answered,
        closed <- shutting_down \/ exited

(* The proxy in front of a crashing child is still a request service: only *)
(* what was submitted is answered, nothing is answered twice, and no answer*)
(* is taken back, by a child that answers and dies before it is read, by a *)
(* failing write, or by the failing of everything pending (on_ra_message,  *)
(* on_ra_exit).  That each request is answered is EveryRequestAnswered.    *)
IsRequestService == RS!Service

(* Liveness.  A request is answered, by the child or with an error when the*)
(* child dies, unless the session ends first.                              *)
EveryRequestAnswered == RS!ServiceAnswers

=============================================================================
