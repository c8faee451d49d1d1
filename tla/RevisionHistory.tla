--------------------------- MODULE RevisionHistory ---------------------------
(***************************************************************************)
(* What the revisions of a task promise to the rest of the system: one     *)
(* line of revisions, each correction applied to the revision that was     *)
(* active until then, and never more than one of them active.  A task that *)
(* is older than revisions starts with none (0).                           *)
(***************************************************************************)
EXTENDS Naturals

VARIABLES
    current,     \* number of the active revision, 0 before the backfill
    corrections  \* how many corrections the active revision has behind it

historyVars == <<current, corrections>>

HistoryInit == current = 0 /\ corrections = 0

\* Revision 1 is materialised from the task's old spec.
Backfilled == current = 0 /\ current' = 1 /\ corrections' = 0

Corrected == current > 0 /\ current' = current + 1 /\ corrections' = corrections + 1

\* One request may do both in its transaction.
BackfilledAndCorrected == current = 0 /\ current' = 2 /\ corrections' = 1

HistoryNext == Backfilled \/ Corrected \/ BackfilledAndCorrected

HistorySpec == HistoryInit /\ [][HistoryNext]_historyVars
=============================================================================
