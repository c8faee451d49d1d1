---------------------------- MODULE Conversation ----------------------------
(***************************************************************************)
(* The messages of one session: create_message answers each in two         *)
(* transactions.  The first stores the message with its answer - words, a  *)
(* correction or a task - and the second stores how the message was        *)
(* understood and moves the session's memory snapshot.  Requests overlap,  *)
(* because classifying and parsing wait for the language model, and the    *)
(* process may stop between any two steps.                                 *)
(*                                                                         *)
(* The settings are the defaults: router and understanding on, no prompt   *)
(* before every task.  What a message says is in MessageIntake; here the   *)
(* decision on it is a choice.  The locks of a task are in                 *)
(* RevisionActivation; here a correction whose number is taken fails.      *)
(***************************************************************************)
EXTENDS Naturals, Sequences

CONSTANTS
    Requests,     \* POST /messages calls that can be in flight at once
    MaxMessages,  \* bound on the rows of the session, answers included
    MaxTasks      \* bound on tasks and on the revisions of each

ASSUME ConversationBounds == MaxMessages \in Nat /\ MaxTasks \in Nat

VARIABLES
    msgs,     \* the rows of messages, in the order of created_at
    tasks,    \* the session's tasks, in the order of their commits
    snap,     \* the session_state_snapshots row
    holder,   \* the request whose open transaction has updated that row
    req,      \* what each request has read and decided
    crowded   \* history: two requests have been in flight together

vars == <<msgs, tasks, snap, holder, req, crowded>>
-----------------------------------------------------------------------------
Modes == {"ask_missing_fields", "chat_reply", "show_revision",
          "confirm_understanding", "execute_now"}
Phases == {"idle", "received", "confirmed", "understood", "activated", "record", "flush"}
Places == 0..MaxMessages

\* A revision of a task of the session; task 0 is none.
Anchors == [task : 0..MaxTasks, rev : 0..MaxTasks]
Nothing == [task |-> 0, rev |-> 0]

\* A row of messages with the row of message_understandings about it: `of` is
\* the message that a row of the assistant answers, `mode` and `names` are the
\* response mode and the revision of the understanding.
Message == [role : {"user", "assistant"}, confirms : BOOLEAN, of : Places,
            linked : BOOLEAN, saved : BOOLEAN,
            mode : Modes \cup {"none"}, names : Anchors]

\* A task: the message that describes it, the row that answers the message of
\* each of its revisions, the last being active, and how many tasks its request
\* saw.
Task == [src : Places, made : Seq(Places), saw : 0..MaxTasks]

Snapshot == [exists : BOOLEAN, anchor : Anchors]

\* ctx is the active revision read for the decision, prompt the newest row a
\* confirmation found, src the message whose words become a task, seen the
\* snapshot as loaded by the open transaction, names what is recorded.
Request == [pc : Phases, msg : Places, ctx : Anchors, prompt : Places, src : Places,
            seen : Snapshot, saw : 0..MaxTasks, mode : Modes, names : Anchors]

NoSnapshot == [exists |-> FALSE, anchor |-> Nothing]
NoRequest == [pc |-> "idle", msg |-> 0, ctx |-> Nothing, prompt |-> 0, src |-> 0,
              seen |-> NoSnapshot, saw |-> 0, mode |-> "chat_reply",
              names |-> Nothing]

Row(role, confirms, of) ==
    [role |-> role, confirms |-> confirms, of |-> of, linked |-> FALSE,
     saved |-> role = "assistant", mode |-> "none", names |-> Nothing]

Init ==
    /\ msgs = <<>>
    /\ tasks = <<>>
    /\ snap = NoSnapshot
    /\ holder = {}
    /\ req = [r \in Requests |-> NoRequest]
    /\ crowded = FALSE

ActiveRevision(task) ==
    IF task = 0 THEN Nothing ELSE [task |-> task, rev |-> Len(tasks[task].made)]

LastMade(task) == tasks[task].made[Len(tasks[task].made)]

\* _load_latest_active_revision: the task whose active revision is the newest.
LatestTask ==
    IF tasks = <<>> THEN 0
    ELSE CHOOSE t \in DOMAIN tasks :
           \A u \in DOMAIN tasks : LastMade(u) <= LastMade(t)

\* The transaction is rolled back, and the user is told of an error or of
\* nothing.
Fail(r) ==
    /\ req' = [req EXCEPT ![r] = NoRequest]
    /\ holder' = holder \ {r}
    /\ UNCHANGED <<msgs, tasks, snap, crowded>>
-----------------------------------------------------------------------------
(* The first transaction.                                                  *)

\* The message is stored, not committed, and classified.
Receive(r, confirms) ==
    /\ req[r].pc = "idle"
    /\ Len(msgs) + 2 <= MaxMessages
    /\ msgs' = Append(msgs, Row("user", confirms, 0))
    /\ req' = [req EXCEPT ![r] = [NoRequest EXCEPT !.pc = "received",
                                                   !.msg = Len(msgs) + 1]]
    /\ crowded' = (crowded \/ \E q \in Requests : req[q].pc # "idle")
    /\ UNCHANGED <<tasks, snap, holder>>

\* The rows other transactions have committed.
Committed(r) == {m \in DOMAIN msgs : msgs[m].saved /\ m # req[r].msg}

Newest(r) == CHOOSE m \in Committed(r) : \A k \in Committed(r) : k <= m

MutantCandidates(r) ==
    IF Committed(r) = {} \/ msgs[Newest(r)].role # "assistant" THEN {}
    ELSE {m \in Committed(r) :
            /\ msgs[m].role = "user" /\ ~msgs[m].linked /\ ~msgs[m].confirms}

\* _load_latest_confirmation_candidate_message: the requests after the last
\* but one row of the assistant, when the newest row is one of the assistant.
Candidates(r) ==
    IF Committed(r) = {} \/ msgs[Newest(r)].role # "assistant" THEN {}
    ELSE {m \in Committed(r) :
            /\ msgs[m].role = "user" /\ ~msgs[m].linked /\ ~msgs[m].confirms
            /\ \A k \in Committed(r) :
                 msgs[k].role = "assistant" /\ k # Newest(r) => k < m}

IsSource(r, m) == m \in Candidates(r) /\ \A k \in Candidates(r) : k <= m

\* A request to confirm becomes the words of a task if its understanding is
\* stored and asked for a confirmation.
Confirm(r) ==
    /\ req[r].pc = "received"
    /\ msgs[req[r].msg].confirms
    /\ \E m \in Candidates(r) :
         /\ IsSource(r, m)
         /\ msgs[m].mode = "confirm_understanding"
         /\ req' = [req EXCEPT ![r].pc = "confirmed", ![r].prompt = Newest(r),
                               ![r].src = m, ![r].saw = Len(tasks)]
    /\ UNCHANGED <<msgs, tasks, snap, holder, crowded>>

\* The user's row becomes visible together with the answer to it.
Answered(r) ==
    Append([msgs EXCEPT ![req[r].msg].saved = TRUE], Row("assistant", FALSE, req[r].msg))

\* Otherwise the user is told that a correction or a request is needed; such
\* an answer has no understanding.
RefuseConfirmation(r) ==
    /\ req[r].pc = "received"
    /\ msgs[req[r].msg].confirms
    /\ Len(msgs) < MaxMessages
    /\ ~\E m \in Candidates(r) :
          IsSource(r, m) /\ msgs[m].mode = "confirm_understanding"
    /\ msgs' = Answered(r)
    /\ req' = [req EXCEPT ![r] = NoRequest]
    /\ UNCHANGED <<tasks, snap, holder, crowded>>

\* The commit of create_message_and_task for a message and its words.
AddTask(r, src) ==
    /\ Len(msgs) < MaxMessages
    /\ Len(tasks) < MaxTasks
    /\ tasks' = Append(tasks, [src |-> src, made |-> <<Len(msgs) + 1>>,
                               saw |-> req[r].saw])
    /\ msgs' = [Answered(r) EXCEPT ![req[r].msg].linked = TRUE,
                                   ![Len(msgs) + 1].linked = TRUE]

\* The task of a confirmation; the active revision recorded is read after
\* the commit.
CreateConfirmed(r, mode) ==
    /\ req[r].pc = "confirmed"
    /\ mode \in {"ask_missing_fields", "execute_now"}
    /\ AddTask(r, req[r].src)
    /\ req' = [req EXCEPT ![r].pc = "record", ![r].mode = mode,
                          ![r].names = [task |-> Len(tasks) + 1, rev |-> 0]]
    /\ UNCHANGED <<snap, holder, crowded>>

\* _resolve_snapshot_context and what is made of it: a snapshot without an
\* active task is moved to the latest active revision at once, and its row
\* stays locked until the commit.
Understand(r) ==
    LET latest == IF snap.anchor.task # 0 THEN snap.anchor.task ELSE LatestTask
        stale == snap.anchor.task = 0 /\ tasks # <<>>
    IN  /\ req[r].pc = "received"
        /\ ~msgs[req[r].msg].confirms
        /\ stale => holder = {}
        /\ holder' = IF stale THEN {r} ELSE holder
        /\ req' = [req EXCEPT ![r].pc = "understood", ![r].seen = snap,
                              ![r].ctx = ActiveRevision(latest),
                              ![r].saw = Len(tasks)]
        /\ UNCHANGED <<msgs, tasks, snap, crowded>>

\* The snapshot as the first transaction of r leaves it.
Commit(r) ==
    /\ snap' = IF r \in holder THEN [exists |-> TRUE, anchor |-> req[r].ctx] ELSE snap
    /\ holder' = holder \ {r}

\* An answer in words: a question, a request to confirm, a chat reply, or the
\* reply about uploads, which keeps whatever mode was decided.
AnswerInWords(r, mode) ==
    /\ req[r].pc = "understood"
    /\ Len(msgs) < MaxMessages
    /\ mode = "show_revision" => req[r].ctx.task # 0
    /\ msgs' = Answered(r)
    /\ req' = [req EXCEPT ![r].pc = "record", ![r].mode = mode,
                          ![r].names = req[r].ctx]
    /\ Commit(r)
    /\ UNCHANGED <<tasks, crowded>>

\* A new task.  What is recorded is still the revision read for the decision.
StartTask(r, mode) ==
    /\ req[r].pc = "understood"
    /\ mode \in {"chat_reply", "execute_now"}
    /\ AddTask(r, req[r].msg)
    /\ req' = [req EXCEPT ![r].pc = "record", ![r].mode = mode,
                          ![r].names = IF req[r].ctx # Nothing THEN req[r].ctx
                                       ELSE [task |-> Len(tasks) + 1, rev |-> 0]]
    /\ Commit(r)
    /\ UNCHANGED crowded

\* A correction of the task in the context: its revision is created and
\* activated, and refresh_snapshot loads the snapshot.
Activate(r) ==
    /\ req[r].pc = "understood"
    /\ req[r].ctx.task # 0
    /\ req[r].ctx = ActiveRevision(req[r].ctx.task)
    /\ req[r].ctx.rev < MaxTasks
    /\ req' = [req EXCEPT ![r].pc = "activated",
                 ![r].names = [req[r].ctx EXCEPT !.rev = @ + 1],
                 ![r].seen = IF r \in holder THEN [exists |-> TRUE, anchor |-> req[r].ctx]
                             ELSE snap]
    /\ UNCHANGED <<msgs, tasks, snap, holder, crowded>>

\* Only the columns that differ from the loaded ones are written.
Written(new, seen, now) == IF new # seen THEN new ELSE now

MutantMoved(r) == [task |-> req[r].names.task, rev |-> req[r].seen.anchor.rev]

\* Where a refresh leaves the snapshot: at the revision recorded, or nowhere.
\* It fails when another request has inserted the session's row meanwhile.
Moved(r) ==
    LET now == IF r \in holder THEN req[r].ctx ELSE snap.anchor
    IN  [task |-> Written(req[r].names.task, req[r].seen.anchor.task, now.task),
         rev |-> Written(req[r].names.rev, req[r].seen.anchor.rev, now.rev)]

Refresh(r) ==
    /\ holder \subseteq {r}
    /\ snap.exists => req[r].seen.exists
    /\ snap' = [exists |-> TRUE, anchor |-> Moved(r)]
    /\ holder' = {}

\* The rest of a correction; another one that has taken its number has made
\* it fail.
Correct(r, mode) ==
    /\ req[r].pc = "activated"
    /\ mode \in {"ask_missing_fields", "show_revision"}
    /\ req[r].ctx = ActiveRevision(req[r].ctx.task)
    /\ Len(msgs) < MaxMessages
    /\ tasks' = [tasks EXCEPT ![req[r].ctx.task].made = Append(@, Len(msgs) + 1)]
    /\ msgs' = Answered(r)
    /\ Refresh(r)
    /\ req' = [req EXCEPT ![r].pc = "record", ![r].mode = mode]
    /\ UNCHANGED crowded
-----------------------------------------------------------------------------
(* The second transaction.                                                 *)

MutantBeginRecord(r) ==
    /\ req[r].pc = "record"
    /\ req' = [req EXCEPT ![r].pc = "flush", ![r].seen = snap,
                          ![r].names = ActiveRevision(@.task)]
    /\ UNCHANGED <<msgs, tasks, snap, holder, crowded>>

\* The revision of a new task is read here; then refresh_snapshot loads the
\* snapshot.
BeginRecord(r) ==
    /\ req[r].pc = "record"
    /\ req' = [req EXCEPT ![r].pc = "flush", ![r].seen = snap,
                          ![r].names = IF @.task # 0 /\ @.rev = 0
                                       THEN ActiveRevision(@.task) ELSE @]
    /\ UNCHANGED <<msgs, tasks, snap, holder, crowded>>

\* persist_message_understanding and its commit.
Record(r) ==
    LET done == [msgs EXCEPT ![req[r].msg].mode = req[r].mode,
                             ![req[r].msg].names = req[r].names]
    IN  /\ req[r].pc = "flush"
        /\ Refresh(r)
        /\ msgs' = IF req[r].src = 0 THEN done
                   ELSE [done EXCEPT ![req[r].src].linked = TRUE]
        /\ req' = [req EXCEPT ![r] = NoRequest]
        /\ UNCHANGED <<tasks, crowded>>

\* An error, or the process stops, before the commit.
Stop(r) ==
    /\ req[r].pc # "idle"
    /\ Fail(r)
-----------------------------------------------------------------------------
Next ==
    \E r \in Requests :
      \/ \E confirms \in BOOLEAN : Receive(r, confirms)
      \/ Confirm(r)
      \/ RefuseConfirmation(r)
      \/ Understand(r)
      \/ Activate(r)
      \/ \E mode \in Modes :
           \/ CreateConfirmed(r, mode)
           \/ AnswerInWords(r, mode)
           \/ StartTask(r, mode)
           \/ Correct(r, mode)
      \/ BeginRecord(r)
      \/ Record(r)
      \/ Stop(r)

Spec == Init /\ [][Next]_vars
-----------------------------------------------------------------------------
TypeOK ==
    /\ msgs \in Seq(Message) /\ Len(msgs) <= MaxMessages
    /\ tasks \in Seq(Task) /\ Len(tasks) <= MaxTasks
    /\ snap \in Snapshot
    /\ holder \in SUBSET Requests
    /\ req \in [Requests -> Request]
    /\ crowded \in BOOLEAN

\* A confirmation creates the task it was asked about: the newest answer it
\* saw is the answer to the message whose words it turns into a task, however
\* the requests before it overlapped.
ConfirmsWhatWasAsked ==
    \A r \in Requests : req[r].pc = "confirmed" => msgs[req[r].prompt].of = req[r].src

\* The same words become two tasks only if the second request was decided
\* before the first task was there: confirming again afterwards, also when
\* the first confirmation stopped before linking the words, finds nothing to
\* confirm.
OneTaskPerRequest ==
    \A i, j \in DOMAIN tasks :
      i < j /\ tasks[i].src = tasks[j].src => tasks[j].saw < i

\* The stored understanding of a correction names the revision made of that
\* message, also when another correction was activated before it was stored.
UnderstandingNamesItsRevision ==
    \A t \in DOMAIN tasks : \A n \in DOMAIN tasks[t].made :
      LET corrected == msgs[msgs[tasks[t].made[n]].of] IN
      n > 1 /\ corrected.mode # "none" => corrected.names = [task |-> t, rev |-> n]

\* No committed message is without its answer, wherever a request stops.
SavedWithItsAnswer ==
    \A m \in DOMAIN msgs :
      msgs[m].saved /\ msgs[m].role = "user"
        => \E a \in DOMAIN msgs : msgs[a].role = "assistant" /\ msgs[a].of = m

\* As long as the messages of a session come one at a time, its memory never
\* points to a revision that is no longer active, wherever a request stops.
SnapshotIsCurrent ==
    ~crowded /\ snap.anchor.task # 0 => snap.anchor = ActiveRevision(snap.anchor.task)
=============================================================================
