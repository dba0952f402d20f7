------------------------------ MODULE MCSuspense -------------------------------
(***************************************************************************)
(* Instances of Suspense for TLC: two boundaries, S2 in the content of S1. *)
(***************************************************************************)
EXTENDS Suspense

CONSTANTS S1, S2, a1, a2, b1, x1, d

MCOuter == [s \in Bounds |-> IF s = S2 THEN << S1 >> ELSE << >>]
MCHome == [c \in Comps |-> IF c = b1 THEN S2 ELSE S1]

================================================================================
