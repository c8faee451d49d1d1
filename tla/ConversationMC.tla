--------------------------- MODULE ConversationMC ---------------------------
(***************************************************************************)
(* Small instances of Conversation for TLC.                                *)
(***************************************************************************)
EXTENDS Conversation, TLC

CONSTANTS r1, r2

TwoRequests == {r1, r2}
Symmetry == Permutations(TwoRequests)
=============================================================================
