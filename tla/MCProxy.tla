------------------------------ MODULE MCProxy ------------------------------
(* Small instances of Proxy for TLC: what the Rust half of a rename edits. *)
EXTENDS Proxy

CONSTANTS main, settings,             \* documents; settings is not a .rs file
          r1, r2, n1, shutdown        \* requests, a rename, the shutdown id

TouchesMain == [n \in Renames |-> {main}]
=============================================================================
