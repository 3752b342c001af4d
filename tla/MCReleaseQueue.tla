--------------------------- MODULE MCReleaseQueue ---------------------------
(* Small instances of ReleaseQueue for TLC. *)
EXTENDS ReleaseQueue, TLC

\* r1 and r2 are releases of the first application, r3 of the second
TwoApps == [rel \in Release |-> IF rel = "r3" THEN "a2" ELSE "a1"]

ClientSymmetry == Permutations(Client)
=============================================================================
