------------------------- MODULE WorkbenchClientMC -------------------------
(***************************************************************************)
(* A small instance of WorkbenchClient for TLC.                            *)
(***************************************************************************)
EXTENDS WorkbenchClient, TLC

CONSTANTS t1, t2

TwoTasks == {t1, t2}
=============================================================================
