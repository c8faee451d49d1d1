------------------------------ MODULE EventLog ------------------------------
(***************************************************************************)
(* The task_events table and what writes and reads it.                     *)
(*                                                                         *)
(* append_task_event flushes: the event has its id from then on, but other *)
(* sessions see it only when its transaction commits, which may be minutes *)
(* later (a tool runs, and reports its progress, inside one transaction).  *)
(* Ids are drawn from one sequence for all tasks.  A transaction that      *)
(* changes a task's row keeps the others that want to from doing so; one   *)
(* that only appends does not wait for it.  A task that has ended is left  *)
(* alone here; TaskExecution has the requests that revive one.             *)
(***************************************************************************)
EXTENDS Naturals, FiniteSets, FiniteSetsExt

CONSTANTS
    Tasks,     \* task ids
    MaxOpen,   \* bound on the transactions open at once, of requests and workers
    MaxEvents  \* bound on the sequence of event ids

ASSUME LogAssumption == MaxOpen \in Nat \ {0} /\ MaxEvents \in Nat

VARIABLES
    row,    \* the committed task_runs row: a count of its changes, and whether
            \* its status is one of the client's TERMINAL_STATUSES
    log,    \* the committed events, [id, task]
    nextId, \* the sequence of task_events.id
    open    \* the open transactions: the task, the uncommitted events and the
            \* change of the row, if any, of each

logVars == <<row, log, nextId, open>>

Row == [ver : Nat, ended : BOOLEAN]
Event == [id : 1..MaxEvents, task : Tasks]
Transaction == [task : Tasks, events : SUBSET (1..MaxEvents), writes : SUBSET Row]

LogInit ==
    /\ row = [t \in Tasks |-> [ver |-> 0, ended |-> FALSE]]
    /\ log = {}
    /\ nextId = 1
    /\ open = {}

\* append_task_event in a transaction x, or in a new one: an INSERT with the
\* next id, visible to nobody yet.
Insert(x, t, writes) ==
    /\ nextId <= MaxEvents
    /\ nextId' = nextId + 1
    /\ open' = (open \ {x}) \cup
               {[task |-> t, events |-> x.events \cup {nextId}, writes |-> writes]}
    /\ UNCHANGED <<row, log>>

\* The transaction that inserts: one that is open on t, or one that starts.
Started(t) ==
    {x \in open : x.task = t}
      \cup IF Cardinality(open) < MaxOpen
             THEN {[task |-> t, events |-> {}, writes |-> {}]} ELSE {}

AppendEvent(t) ==
    /\ ~row[t].ended
    /\ \E x \in Started(t) : Insert(x, t, x.writes)

\* set_task_status and set_step_status flush the row before they append: the
\* UPDATE waits until no other transaction holds a change of the row.
SetStatus(t) ==
    /\ ~row[t].ended
    /\ \E x \in Started(t), ended \in BOOLEAN :
         /\ \A y \in open \ {x} : y.task = t => y.writes = {}
         /\ Insert(x, t, {[ver |-> row[t].ver + 1, ended |-> ended]})

Commit(x) ==
    /\ log' = log \cup {[id |-> i, task |-> x.task] : i \in x.events}
    /\ row' = [row EXCEPT ![x.task] = IF x.writes = {} THEN @
                                      ELSE CHOOSE r \in x.writes : TRUE]
    /\ open' = open \ {x}
    /\ UNCHANGED nextId

\* An exception, or the death of the process: its ids are not used again.
Rollback(x) ==
    /\ open' = open \ {x}
    /\ UNCHANGED <<row, log, nextId>>

End == \E x \in open : Commit(x) \/ Rollback(x)

\* list_task_events: what is committed and numbered above the cursor, in order.
EventsSince(t, since) == {e \in log : e.task = t /\ e.id > since}

\* get_task_events: the last id it returns, or the cursor it was given.
NextCursor(t, since) == Max({since} \cup {e.id : e \in EventsSince(t, since)})

LogNext == (\E t \in Tasks : AppendEvent(t) \/ SetStatus(t)) \/ End

LogTypeOK ==
    /\ row \in [Tasks -> Row]
    /\ log \subseteq Event
    /\ nextId \in 1..MaxEvents + 1
    /\ open \subseteq Transaction
=============================================================================
