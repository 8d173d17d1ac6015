---------------------------- MODULE StateCollisions ---------------------------
(***************************************************************************)
(* Pairs of recorded transitions that may race (race.py,                    *)
(* StateCollisionEngine).                                                   *)
(***************************************************************************)
EXTENDS Naturals, Sequences

Collides(left, right) ==
    /\ left.resource_kind = right.resource_kind
    /\ left.route # right.route
    /\ "write" \in {left.access, right.access}
    /\ left.invariant = right.invariant

\* Pairs in the order of the list, as combinations() makes them.
Collisions(transitions) ==
    {<<transitions[ij[1]], transitions[ij[2]]>> :
        ij \in {ij \in (DOMAIN transitions) \X (DOMAIN transitions) :
            ij[1] < ij[2] /\ Collides(transitions[ij[1]], transitions[ij[2]])}}
===============================================================================
