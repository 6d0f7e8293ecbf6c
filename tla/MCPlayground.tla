---------------------------- MODULE MCPlayground ----------------------------
(* Instances of Playground for TLC: the .cfg files choose the requests. *)
EXTENDS PlaygroundInvariant
=============================================================================
