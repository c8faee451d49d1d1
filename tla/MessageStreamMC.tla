------------------------- MODULE MessageStreamMC ---------------------------
(***************************************************************************)
(* A small instance of MessageStream for TLC.                              *)
(***************************************************************************)
EXTENDS MessageStream, TLC
=============================================================================
