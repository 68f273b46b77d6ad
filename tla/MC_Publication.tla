-------------------------- MODULE MC_Publication --------------------------
(* Instances of Publication for TLC. *)
EXTENDS Publication

CONSTANTS c1, o1, p1, p2

OneCandidate == {c1}
OneController == {p1}
OnePreflight == {p2}
OneOther == {o1}
=============================================================================
