------------------------ MODULE RevisionActivationMC ------------------------
(***************************************************************************)
(* Small instances of RevisionActivation for TLC.                          *)
(***************************************************************************)
EXTENDS RevisionActivation

CONSTANTS r1, r2, r3

ThreeRequests == {r1, r2, r3}
TwoRequests == {r1, r2}
=============================================================================
