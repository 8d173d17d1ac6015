----------------------------- MODULE MCBountyBoard -----------------------------
(* Small instances of BountyBoard for TLC. *)
EXTENDS BountyBoard, TLC

LeadSymmetry == Permutations(Leads)
===============================================================================
