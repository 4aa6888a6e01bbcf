--------------------------- MODULE RequestService ---------------------------
(***************************************************************************)
(* What the editor may rely on from any language server: only what was     *)
(* submitted is answered, at most once, and an answer is never taken back. *)
(* Answers are counted, so that a second answer to a request is a step the *)
(* service does not have.  One step of the service may submit requests and *)
(* answer any number of those that wait: a crash of the engine behind it   *)
(* answers every waiting request.                                          *)
(***************************************************************************)
EXTENDS Naturals

CONSTANT Requests      \* the ids the editor may use

VARIABLES
  submitted,
  answered,            \* how often each request has been answered
  closed               \* the session is ending: nothing is promised any more

serviceVars == <<submitted, answered, closed>>

ServiceInit ==
  /\ submitted = {}
  /\ answered = [r \in Requests |-> 0]
  /\ closed = FALSE

(* Submit the new requests N and answer the requests A, new or waiting.    *)
Serve(N, A) ==
  /\ N \cap submitted = {}
  /\ A \subseteq {r \in submitted \cup N : answered[r] = 0}
  /\ submitted' = submitted \cup N
  /\ answered' = [r \in Requests |-> IF r \in A THEN 1 ELSE answered[r]]
  /\ closed' = closed

Close ==
  /\ closed' = TRUE
  /\ UNCHANGED <<submitted, answered>>

ServiceNext ==
  \/ \E N, A \in SUBSET Requests : Serve(N, A)
  \/ Close

Service == ServiceInit /\ [][ServiceNext]_serviceVars

(* Every request is answered while the service stays open.                 *)
ServiceAnswers ==
  \A r \in Requests : r \in submitted ~> (answered[r] > 0 \/ closed)
=============================================================================
