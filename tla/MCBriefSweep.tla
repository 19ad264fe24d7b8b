---------------------------- MODULE MCBriefSweep ----------------------------
(* Instances of BriefSweep small enough for TLC. *)
EXTENDS BriefSweep

CONSTANTS w1, w2, i1
=============================================================================
