----------------------------- MODULE MCOwnerMove ----------------------------
(* Instances of OwnerMove small enough for TLC. *)
EXTENDS OwnerMove, TLC

CONSTANTS a1, a2, both, one

SignedIn == (both :> {a1, a2}) @@ (one :> {a1})
=============================================================================
