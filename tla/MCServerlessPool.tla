-------------------------- MODULE MCServerlessPool --------------------------
(* The pool with the configuration of the example of CHANGELOG.md, line 234. *)
EXTENDS ServerlessPool

CONSTANTS c1, c2, k1
=============================================================================
