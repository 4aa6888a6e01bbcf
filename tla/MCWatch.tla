------------------------------ MODULE MCWatch ------------------------------
(***************************************************************************)
(* A watcher and a language server, and two packages that share a file,    *)
(* one of which has a file the other has not.                              *)
(***************************************************************************)
EXTENDS Watch

CONSTANTS watch, server, v1, v2, bad, schemas, users, old, new

MCPackages ==
  [v \in Sources |-> [f \in Files |->
     CASE v = v1 -> old [] f = schemas -> new [] OTHER -> Absent]]
=============================================================================
