----------------------------- MODULE MCRegistry -----------------------------
(* Model checking of Registry.                                             *)
EXTENDS Registry, TLC

\* One that srd_inst_new would choose itself.
MCGivenIds == {<<"p", 1>>}

SessionSymmetry == Permutations(Sessions)
=============================================================================
