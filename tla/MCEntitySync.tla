---------------------------- MODULE MCEntitySync ----------------------------
(* Instances of EntitySync small enough for TLC. *)
EXTENDS EntitySync, TLC

CONSTANTS d1, d2, api

Symmetric == Permutations(Devices)
=============================================================================
