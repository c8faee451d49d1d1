------------------------- MODULE RevisionActivation -------------------------
(***************************************************************************)
(* How concurrent requests backfill, create and activate the revisions of  *)
(* one task (task_revisions.py), each in one READ COMMITTED transaction,   *)
(* and meet the other requests of the session at its memory snapshot,      *)
(* which every activation refreshes (session_memory.py).                   *)
(*                                                                         *)
(* PostgreSQL is part of the model as far as the code relies on it: the    *)
(* unique indexes on (task_id, revision_number) and on the session of a    *)
(* snapshot, on which a second insert waits for the transaction of the     *)
(* first; the lock of an updated row; the FOR KEY SHARE lock on the task   *)
(* row that every insert with a foreign key to it takes; the FOR UPDATE    *)
(* lock of activate_revision, which conflicts with both; and the deadlock  *)
(* detector.                                                               *)
(***************************************************************************)
EXTENDS Naturals, FiniteSets, FiniteSetsExt

CONSTANTS
    Requests,    \* requests that can be in flight at once
    MaxRevision  \* bound on revision_number

ASSUME MaxRevisionAssumption == MaxRevision \in Nat \ {0}

Numbers == 1..MaxRevision

VARIABLES
    revs,     \* revision numbers committed for the task
    active,   \* those with is_active
    count,    \* user_revision_count of each
    mirror,   \* the revision task_specs holds, 0 for the spec of the old task
    snapshot, \* whether the session's snapshot row is committed
    txn,      \* the transaction of each request
    shares,   \* requests that hold FOR KEY SHARE on the task row
    updater,  \* requests that hold FOR UPDATE on it
    holder    \* requests that inserted or updated the snapshot row

vars == <<revs, active, count, mirror, snapshot, txn, shares, updater, holder>>
table == <<revs, active, count, mirror>>
locks == <<shares, updater, holder>>

Kinds == {"load", "correct", "other"}

\* Where a transaction refreshes the snapshot.
Refreshing == {"refreshBackfill", "refreshContext", "refreshCorrection",
               "refreshOther"}
PCs == Refreshing \cup {"idle", "read", "backfill", "lockBackfill", "context",
                        "log", "insert", "lock", "end", "raised"}

\* A "load" only loads the task, "correct" corrects it, "other" is any request
\* of the session that records something in its memory without touching the
\* task.  seen is the active revision the request has read, new the revisions
\* it has inserted, cleared those it has deactivated, user the
\* user_revision_count it stores, creates whether it found no snapshot row.
Transaction == [pc : PCs, kind : Kinds, seen : 0..MaxRevision,
                new : SUBSET Numbers, cleared : SUBSET Numbers,
                user : 0..MaxRevision, creates : BOOLEAN]

NoTransaction == [pc |-> "idle", kind |-> "load", seen |-> 0, new |-> {},
                  cleared |-> {}, user |-> 0, creates |-> FALSE]

Init ==
    /\ revs = {}
    /\ active = {}
    /\ count = [n \in Numbers |-> 0]
    /\ mirror = 0
    /\ snapshot \in BOOLEAN
    /\ txn = [r \in Requests |-> NoTransaction]
    /\ shares = {}
    /\ updater = {}
    /\ holder = {}
-----------------------------------------------------------------------------
(* What the database lets a transaction do.                                *)

\* The requests whose uncommitted row keeps r from inserting number n.
Inserting(r, n) == {q \in Requests \ {r} : n \in txn[q].new}

\* An insert with a foreign key to the task row needs FOR KEY SHARE on it.
CanShare(r) == updater \subseteq {r}

\* FOR UPDATE is granted when nobody else holds a lock on the row.
CanUpdate(r) == shares \cup updater \subseteq {r}

\* The snapshot row can be inserted or updated when no other open transaction
\* has done so.
CanRefresh(r) == holder \subseteq {r}

\* refresh_snapshot looks for the row first; r sees one of its own.
FindsNoSnapshot(r) == ~snapshot /\ r \notin holder

Release(r) ==
    /\ shares' = shares \ {r}
    /\ updater' = updater \ {r}
    /\ holder' = holder \ {r}

\* The whole transaction is rolled back.
Aborts(r) ==
    /\ txn' = [txn EXCEPT ![r] = NoTransaction]
    /\ Release(r)
    /\ UNCHANGED <<table, snapshot>>

\* Where a request goes once it knows the active revision.
AfterRead(r) == IF txn[r].kind = "correct" THEN "context" ELSE "end"

\* get_active_revision, and what is done when there is none.
FindActive(r, otherwise) ==
    \/ \E n \in active :
         txn' = [txn EXCEPT ![r].seen = n, ![r].new = {}, ![r].cleared = {},
                            ![r].creates = FALSE, ![r].pc = AfterRead(r)]
    \/ /\ active = {}
       /\ txn' = [txn EXCEPT ![r].seen = 0, ![r].new = {}, ![r].cleared = {},
                             ![r].creates = FALSE, ![r].pc = otherwise]
-----------------------------------------------------------------------------
(* The requests.                                                           *)

Start(r, kind) ==
    /\ txn[r].pc = "idle"
    /\ txn' = [txn EXCEPT ![r].kind = kind,
                 ![r].creates = kind = "other" /\ FindsNoSnapshot(r),
                 ![r].pc = IF kind = "other" THEN "refreshOther" ELSE "read"]
    /\ UNCHANGED <<table, snapshot, locks>>

\* get_active_revision at the head of ensure_initial_revision_for_task; the
\* one of create_message follows at once.
ReadActive(r) ==
    /\ txn[r].pc = "read"
    /\ FindActive(r, "backfill")
    /\ UNCHANGED <<table, snapshot, locks>>

MutantBackfill(r) ==
    /\ txn[r].pc = "backfill"
    /\ 1 \notin revs
    /\ Inserting(r, 1) = {}
    /\ CanShare(r)
    /\ txn' = [txn EXCEPT ![r].new = {0}, ![r].pc = "lockBackfill"]
    /\ shares' = shares \cup {r}
    /\ UNCHANGED <<table, snapshot, updater, holder>>

\* _materialize_initial_revision_from_legacy_task_spec inside the savepoint.
Backfill(r) ==
    /\ txn[r].pc = "backfill"
    /\ 1 \notin revs
    /\ Inserting(r, 1) = {}
    /\ CanShare(r)
    /\ txn' = [txn EXCEPT ![r].new = {1}, ![r].pc = "lockBackfill"]
    /\ shares' = shares \cup {r}
    /\ UNCHANGED <<table, snapshot, updater, holder>>

MutantReload(r) ==
    /\ txn[r].pc = "backfill"
    /\ 1 \in revs
    /\ txn' = [txn EXCEPT ![r].pc = "raised"]
    /\ UNCHANGED <<table, snapshot, locks>>

MutantReloadRetries(r) ==
    /\ txn[r].pc = "backfill"
    /\ 1 \in revs
    /\ txn' = [txn EXCEPT ![r].pc = "backfill"]
    /\ UNCHANGED <<table, snapshot, locks>>

\* The insert violates the unique index: the savepoint is rolled back and the
\* active revision is read again; without one the error is raised.
Reload(r) ==
    /\ txn[r].pc = "backfill"
    /\ 1 \in revs
    /\ FindActive(r, "raised")
    /\ UNCHANGED <<table, snapshot, locks>>

MutantActivateBackfill(r) ==
    /\ txn[r].pc = "lockBackfill"
    /\ CanUpdate(r)
    /\ updater' = {r}
    /\ txn' = [txn EXCEPT ![r].cleared = active, ![r].seen = 1, ![r].user = 1,
                          ![r].creates = FindsNoSnapshot(r),
                          ![r].pc = "refreshBackfill"]
    /\ UNCHANGED <<table, snapshot, shares, holder>>

\* activate_revision of the backfilled revision: lock the task row, clear
\* is_active of every revision of the task, set it on the new one.
ActivateBackfill(r) ==
    /\ txn[r].pc = "lockBackfill"
    /\ CanUpdate(r)
    /\ updater' = {r}
    /\ txn' = [txn EXCEPT ![r].cleared = active, ![r].seen = 1,
                          ![r].creates = FindsNoSnapshot(r),
                          ![r].pc = "refreshBackfill"]
    /\ UNCHANGED <<table, snapshot, shares, holder>>

\* Another transaction of the session has inserted the snapshot since: this is
\* an IntegrityError as well, and the savepoint takes the revision with it.
BackfillLosesSnapshot(r) ==
    /\ txn[r].pc = "refreshBackfill"
    /\ txn[r].creates
    /\ snapshot
    /\ FindActive(r, "raised")
    /\ Release(r)
    /\ UNCHANGED <<table, snapshot>>

\* build_conversation_context refreshes a snapshot that is missing or is not
\* about a task; what the row is about is left open.
Context(r) ==
    /\ txn[r].pc = "context"
    /\ \/ ~FindsNoSnapshot(r) /\ txn' = [txn EXCEPT ![r].pc = "log"]
       \/ txn' = [txn EXCEPT ![r].creates = FindsNoSnapshot(r),
                             ![r].pc = "refreshContext"]
    /\ UNCHANGED <<table, snapshot, locks>>

\* What follows a refresh.
AfterRefresh(r) ==
    [refreshBackfill   |-> AfterRead(r),
     refreshContext    |-> "log",
     refreshCorrection |-> "end",
     refreshOther      |-> "end"][txn[r].pc]

\* refresh_snapshot: the row is inserted, or updated when it was found.
Refresh(r) ==
    /\ txn[r].pc \in Refreshing
    /\ CanRefresh(r)
    /\ txn[r].creates => ~snapshot
    /\ holder' = {r}
    /\ txn' = [txn EXCEPT ![r].creates = FALSE, ![r].pc = AfterRefresh(r)]
    /\ UNCHANGED <<table, snapshot, shares, updater>>

\* Outside the savepoint the request fails with a snapshot it meant to insert.
RefreshFails(r) ==
    /\ txn[r].pc \in Refreshing \ {"refreshBackfill"}
    /\ txn[r].creates
    /\ snapshot
    /\ Aborts(r)

\* understand_message: a model call logs itself in the request's session with
\* a foreign key to the task; without a model there is no log.
Understand(r) ==
    /\ txn[r].pc = "log"
    /\ txn' = [txn EXCEPT ![r].pc = "insert"]
    /\ \/ UNCHANGED shares
       \/ CanShare(r) /\ shares' = shares \cup {r}
    /\ UNCHANGED <<table, snapshot, updater, holder>>

MutantCreateCorrection(r) ==
    LET n == txn[r].seen + 1 IN
    /\ txn[r].pc = "insert"
    /\ n \in Numbers
    /\ CanShare(r)
    /\ txn' = [txn EXCEPT ![r].new = @ \cup {n}, ![r].pc = "lock"]
    /\ shares' = shares \cup {r}
    /\ UNCHANGED <<table, snapshot, updater, holder>>

\* create_correction_revision: base_revision.revision_number + 1.
CreateCorrection(r) ==
    LET n == txn[r].seen + 1 IN
    /\ txn[r].pc = "insert"
    /\ n \in Numbers
    /\ n \notin revs
    /\ Inserting(r, n) = {}
    /\ CanShare(r)
    /\ txn' = [txn EXCEPT ![r].new = @ \cup {n}, ![r].pc = "lock"]
    /\ shares' = shares \cup {r}
    /\ UNCHANGED <<table, snapshot, updater, holder>>

\* The unique index refuses it, and the request fails with it.  MaxRevision
\* bounds the history: no request goes beyond it.
CorrectionRefused(r) ==
    /\ txn[r].pc = "insert"
    /\ txn[r].seen + 1 \in revs \/ txn[r].seen = MaxRevision
    /\ Aborts(r)

MutantActivateCorrection(r) ==
    /\ txn[r].pc = "lock"
    /\ CanUpdate(r)
    /\ updater' = {r}
    /\ txn' = [txn EXCEPT ![r].cleared = {},
                 ![r].user = IF active = {} THEN 1 ELSE count[Max(active)] + 1,
                 ![r].creates = FindsNoSnapshot(r),
                 ![r].pc = "refreshCorrection"]
    /\ UNCHANGED <<table, snapshot, shares, holder>>

MutantUserCount(r) ==
    /\ txn[r].pc = "lock"
    /\ CanUpdate(r)
    /\ updater' = {r}
    /\ txn' = [txn EXCEPT ![r].cleared = active, ![r].user = 1,
                          ![r].creates = FindsNoSnapshot(r),
                          ![r].pc = "refreshCorrection"]
    /\ UNCHANGED <<table, snapshot, shares, holder>>

\* activate_revision of the correction.  previous_active is the revision of
\* its own backfill or the one committed as active.
ActivateCorrection(r) ==
    /\ txn[r].pc = "lock"
    /\ CanUpdate(r)
    /\ updater' = {r}
    /\ txn' = [txn EXCEPT ![r].cleared = active,
                 ![r].user = IF active = {} THEN 1 ELSE count[Max(active)] + 1,
                 ![r].creates = FindsNoSnapshot(r),
                 ![r].pc = "refreshCorrection"]
    /\ UNCHANGED <<table, snapshot, shares, holder>>

\* The commit makes all of it visible.
Commit(r) ==
    LET new == txn[r].new
        n   == Max(new)
    IN
    /\ txn[r].pc = "end"
    /\ IF new = {}
       THEN UNCHANGED table
       ELSE /\ revs' = revs \cup new
            /\ active' = (active \ txn[r].cleared) \cup {n}
            /\ count' = [count EXCEPT ![n] = txn[r].user]
            /\ mirror' = n
    /\ snapshot' = (snapshot \/ r \in holder)
    /\ txn' = [txn EXCEPT ![r] = NoTransaction]
    /\ Release(r)

\* Any request may fail, and the one that reads a task's events for the
\* stream never commits what it backfilled.
Rollback(r) ==
    /\ txn[r].pc # "idle"
    /\ Aborts(r)

\* The error raised in the savepoint ends the request.
Raise(r) ==
    /\ txn[r].pc = "raised"
    /\ Aborts(r)

\* The requests r waits for.
WaitsFor(r) ==
    LET pc == txn[r].pc IN
    {q \in Requests \ {r} :
       \/ pc \in {"lockBackfill", "lock"} /\ q \in shares \cup updater
       \/ pc \in {"backfill", "insert"} /\ q \in updater
       \/ pc = "backfill" /\ q \in Inserting(r, 1)
       \/ pc = "insert" /\ q \in Inserting(r, txn[r].seen + 1)
       \/ pc \in Refreshing /\ q \in holder}

\* r waits, directly or through others, for itself.
Deadlocked(r) ==
    \A S \in SUBSET Requests :
      WaitsFor(r) \subseteq S /\ (\A q \in S : WaitsFor(q) \subseteq S) => r \in S

\* PostgreSQL cancels one of the requests that wait for each other.
DeadlockVictim(r) ==
    /\ Deadlocked(r)
    /\ Aborts(r)

Proceed(r) ==
    \/ ReadActive(r)
    \/ Backfill(r)
    \/ Reload(r)
    \/ ActivateBackfill(r)
    \/ BackfillLosesSnapshot(r)
    \/ Context(r)
    \/ Refresh(r)
    \/ RefreshFails(r)
    \/ Understand(r)
    \/ CreateCorrection(r)
    \/ CorrectionRefused(r)
    \/ ActivateCorrection(r)
    \/ Commit(r)
    \/ Raise(r)
    \/ DeadlockVictim(r)

Next ==
    \E r \in Requests :
      \/ \E kind \in Kinds : Start(r, kind)
      \/ Proceed(r)
      \/ Rollback(r)

Spec == Init /\ [][Next]_vars

\* A request that can go on does: statements return once their locks are
\* granted, and the deadlock detector runs.  Nothing makes clients send
\* requests or makes a request fail.  A lock that others keep taking is
\* granted in the end, because PostgreSQL queues its waiters: hence SF.
FairSpec == Spec /\ \A r \in Requests : SF_vars(Proceed(r))
-----------------------------------------------------------------------------
\* The committed rows, the transactions and the locks have the values the
\* columns and the database can give them.
TypeOK ==
    /\ revs \subseteq Numbers
    /\ active \subseteq Numbers
    /\ count \in [Numbers -> 0..MaxRevision]
    /\ mirror \in 0..MaxRevision
    /\ snapshot \in BOOLEAN
    /\ txn \in [Requests -> Transaction]
    /\ shares \subseteq Requests
    /\ updater \subseteq Requests
    /\ holder \subseteq Requests

\* One revision is active as soon as there is one, it is the latest, and
\* task_specs mirrors it: concurrent corrections and backfills never leave
\* two, none, or the spec of another revision behind.
OneActive ==
    /\ revs # {} => active = {Max(revs)} /\ mirror = Max(revs)
    /\ revs = {} => active = {} /\ mirror = 0

\* user_revision_count of the active revision counts the corrections since
\* the backfill: none is lost and none is counted twice.
CorrectionsCounted == \A n \in active : count[n] = Cardinality(revs) - 1

\* A correction that commits was made from the revision that was active until
\* then, or that its own transaction backfilled: never from a stale one.
Linear ==
    [][\A r \in Requests :
         Commit(r) /\ txn[r].kind = "correct" /\ txn[r].new # {} =>
           active = IF 1 \in txn[r].new THEN {} ELSE {txn[r].seen}]_vars

\* A request that loses the race for revision 1 always finds the winner's.
ReadersAgree ==
    [][\A r \in Requests : Reload(r) => txn'[r].pc # "raised"]_vars

\* Every request ends, although some wait for each other's rows and locks.
RequestsEnd == \A r \in Requests : txn[r].pc # "idle" ~> txn[r].pc = "idle"

Current == IF active = {} THEN 0 ELSE Max(active)

History == INSTANCE RevisionHistory WITH
               current <- Current,
               corrections <- IF active = {} THEN 0 ELSE count[Max(active)]

\* The transactions implement one line of revisions.
Implements == History!HistorySpec
=============================================================================
