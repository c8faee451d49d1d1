------------------------- MODULE ConversationProofs -------------------------
(***************************************************************************)
(* What the messages of a session keep for any number of overlapping       *)
(* requests: answers, confirmations, tasks, understandings and the memory  *)
(* of the session.                                                         *)
(***************************************************************************)
EXTENDS Conversation, Extremes, TLAPS

USE ConversationBounds

Flying(r) == req[r].pc # "idle"
Open == {"received", "confirmed", "understood", "activated"}
Closing == {"record", "flush"}

\* The rows: a user's row is saved with an answer to it, and only a saved one
\* has an understanding.
RowFits(m) ==
    /\ msgs[m].role = "user" => msgs[m].of = 0
    /\ msgs[m].role = "assistant" =>
         msgs[m].saved /\ msgs[m].of \in 1..m - 1 /\ msgs[m].mode = "none"
    /\ msgs[m].mode # "none" => msgs[m].saved
    /\ msgs[m].role = "user" /\ msgs[m].saved =>
         \E a \in 1..Len(msgs) : msgs[a].role = "assistant" /\ msgs[a].of = m
Rows == \A m \in 1..Len(msgs) : RowFits(m)

\* Each request answers a row of its own, once.
FlightFits(r) ==
    /\ req[r].msg \in 1..Len(msgs) /\ req[r].src \in 0..Len(msgs)
    /\ msgs[req[r].msg].role = "user" /\ msgs[req[r].msg].mode = "none"
    /\ req[r].pc \in Open => /\ ~msgs[req[r].msg].saved
                             /\ \A a \in 1..Len(msgs) : msgs[a].of # req[r].msg
    /\ req[r].pc \in Closing => msgs[req[r].msg].saved
    /\ \A q \in Requests \ {r} : Flying(q) => req[q].msg # req[r].msg
Flights == \A r \in Requests : Flying(r) => FlightFits(r)

\* Tasks and what points to them.
TaskFits(t) ==
    /\ tasks[t].src \in 1..Len(msgs) /\ msgs[tasks[t].src].saved
    /\ Len(tasks[t].made) \in 1..MaxTasks
    /\ \A n \in 1..Len(tasks[t].made) : /\ tasks[t].made[n] \in 1..Len(msgs)
                                        /\ msgs[tasks[t].made[n]].role = "assistant"
ContextFits(r) ==
    /\ req[r].pc \in {"understood", "activated"} => req[r].ctx.task \in 0..Len(tasks)
    /\ req[r].pc = "activated" =>
         /\ req[r].ctx.task # 0 /\ req[r].ctx.rev < MaxTasks
         /\ req[r].names = [task |-> req[r].ctx.task, rev |-> req[r].ctx.rev + 1]
    /\ req[r].pc \in Closing => req[r].names.task \in 0..Len(tasks)
Tasks ==
    /\ \A t \in 1..Len(tasks) : TaskFits(t)
    /\ \A r \in Requests : ContextFits(r)
    /\ \A r \in holder : req[r].pc \in {"understood", "activated"}
    /\ snap.anchor.task \in 0..Len(tasks)

\* A message that has become a task is linked, or two answers follow it.
TurnedIntoTask(m) ==
    \/ msgs[m].linked
    \/ \E a, b \in 1..Len(msgs) : /\ m < a /\ a < b
                                  /\ msgs[a].role = "assistant"
                                  /\ msgs[b].role = "assistant"
Used == \A t \in 1..Len(tasks) : TurnedIntoTask(tasks[t].src)

\* A confirmation has found a prompt, the request it is about, and no task
\* made of it.
Confirmations ==
    \A r \in Requests : req[r].pc = "confirmed" =>
      /\ req[r].prompt \in 1..Len(msgs) /\ req[r].src \in 1..req[r].prompt - 1
      /\ msgs[req[r].prompt].role = "assistant"
      /\ msgs[req[r].prompt].of = req[r].src
      /\ msgs[req[r].src].saved
      /\ req[r].saw <= Len(tasks)
      /\ \A i \in 1..req[r].saw : tasks[i].src # req[r].src

\* What a request will record of a correction names its revision.
WillName ==
    \A r \in Requests : req[r].pc \in Closing =>
      \A t \in 1..Len(tasks) : \A n \in 2..Len(tasks[t].made) :
        msgs[tasks[t].made[n]].of = req[r].msg
          => req[r].names = [task |-> t, rev |-> n]

\* As long as requests come one at a time, what a request has read is still so.
Alone(r) == \A q \in Requests : Flying(q) => q = r
Fresh(r) ==
    /\ req[r].pc \in {"understood", "activated"} =>
         req[r].ctx = ActiveRevision(req[r].ctx.task)
    /\ req[r].pc = "activated" =>
         req[r].seen = IF r \in holder THEN [exists |-> TRUE, anchor |-> req[r].ctx]
                       ELSE snap
    /\ req[r].pc = "record" =>
         req[r].names.rev = 0 \/ req[r].names = ActiveRevision(req[r].names.task)
    /\ req[r].pc = "flush" =>
         req[r].seen = snap /\ req[r].names = ActiveRevision(req[r].names.task)
SnapFresh == snap.anchor.task # 0 => snap.anchor = ActiveRevision(snap.anchor.task)
Serial ==
    ~crowded => /\ \A r \in Requests : Flying(r) => Alone(r) /\ Fresh(r)
                /\ SnapFresh
-----------------------------------------------------------------------------
(* What the actions do to the rows.                                        *)

\* The answer of r: its row is saved, one row is added, nothing else that a
\* property reads changes but links being set.
NewAnswer(r) ==
    /\ msgs' \in Seq(Message)
    /\ Len(msgs') = Len(msgs) + 1
    /\ \A m \in 1..Len(msgs) :
         /\ msgs'[m].role = msgs[m].role /\ msgs'[m].of = msgs[m].of
         /\ msgs'[m].mode = msgs[m].mode /\ msgs'[m].names = msgs[m].names
         /\ msgs[m].linked => msgs'[m].linked
         /\ msgs'[m].saved <=> msgs[m].saved \/ m = req[r].msg
    /\ msgs'[Len(msgs) + 1].role = "assistant"
    /\ msgs'[Len(msgs) + 1].of = req[r].msg
    /\ msgs'[Len(msgs) + 1].saved
    /\ msgs'[Len(msgs) + 1].mode = "none"

Saved(row) == [row EXCEPT !.saved = TRUE]
Linked(row) == [row EXCEPT !.linked = TRUE]
Told(row, mode, names) == [row EXCEPT !.mode = mode, !.names = names]

\* An element of a sequence is replaced.
LEMMA Replaced ==
    ASSUME NEW S, NEW s \in Seq(S), NEW i \in 1..Len(s), NEW e \in S
    PROVE  /\ [s EXCEPT ![i] = e] \in Seq(S)
           /\ Len([s EXCEPT ![i] = e]) = Len(s)
           /\ \A m \in 1..Len(s) : [s EXCEPT ![i] = e][m] = IF m = i THEN e ELSE s[m]
  OBVIOUS

LEMMA Appended ==
    ASSUME NEW S, NEW s \in Seq(S), NEW e \in S
    PROVE  /\ Append(s, e) \in Seq(S)
           /\ Len(Append(s, e)) = Len(s) + 1
           /\ \A m \in 1..Len(s) : Append(s, e)[m] = s[m]
           /\ Append(s, e)[Len(s) + 1] = e
  OBVIOUS

LEMMA RowTyped ==
    ASSUME NEW role \in {"user", "assistant"}, NEW confirms \in BOOLEAN, NEW of \in Places
    PROVE  Row(role, confirms, of) \in Message
<1>1. Nothing \in Anchors
  BY DEF Nothing, Anchors
<1>2. (role = "assistant") \in BOOLEAN
  OBVIOUS
<1> QED
  BY <1>1, <1>2 DEF Row, Message

LEMMA AnswerRow ==
    ASSUME NEW of, NEW row, row = Row("assistant", FALSE, of)
    PROVE  row.role = "assistant" /\ row.of = of /\ row.saved /\ row.mode = "none"
<1>1. row.role = "assistant" /\ row.of = of /\ row.mode = "none"
  BY DEF Row
<1>2. row.saved = TRUE
  BY Zenon DEF Row
<1> QED
  BY <1>1, <1>2

LEMMA SavedRow ==
    ASSUME NEW row \in Message
    PROVE  /\ Saved(row) \in Message
           /\ Saved(row).saved
           /\ Saved(row).role = row.role /\ Saved(row).of = row.of
           /\ Saved(row).mode = row.mode /\ Saved(row).names = row.names
           /\ Saved(row).linked = row.linked
  BY DEF Message, Saved

LEMMA LinkedRow ==
    ASSUME NEW row \in Message
    PROVE  /\ Linked(row) \in Message
           /\ Linked(row).linked
           /\ Linked(row).role = row.role /\ Linked(row).of = row.of
           /\ Linked(row).mode = row.mode /\ Linked(row).names = row.names
           /\ Linked(row).saved = row.saved
  BY DEF Message, Linked

LEMMA ToldRow ==
    ASSUME NEW row \in Message, NEW mode \in Modes, NEW names \in Anchors
    PROVE  /\ Told(row, mode, names) \in Message
           /\ Told(row, mode, names).role = row.role
           /\ Told(row, mode, names).of = row.of
           /\ Told(row, mode, names).saved = row.saved
           /\ Told(row, mode, names).linked = row.linked
           /\ Told(row, mode, names).mode = mode
           /\ Told(row, mode, names).names = names
  BY DEF Message, Told

LEMMA AnsweredRows ==
    ASSUME TypeOK, NEW r \in Requests, req[r].msg \in 1..Len(msgs), Len(msgs) < MaxMessages
    PROVE  /\ Answered(r) \in Seq(Message)
           /\ Len(Answered(r)) = Len(msgs) + 1
           /\ \A m \in 1..Len(msgs) :
                Answered(r)[m] = IF m = req[r].msg THEN Saved(msgs[m]) ELSE msgs[m]
           /\ Answered(r)[Len(msgs) + 1] = Row("assistant", FALSE, req[r].msg)
<1> DEFINE old == [msgs EXCEPT ![req[r].msg] = Saved(msgs[req[r].msg])]
           new == Row("assistant", FALSE, req[r].msg)
<1>1. msgs \in Seq(Message) /\ Len(msgs) \in Nat /\ Len(msgs) <= MaxMessages
  BY DEF TypeOK
<1>2. msgs[req[r].msg] \in Message
  BY <1>1
<1>3. Saved(msgs[req[r].msg]) \in Message
  BY <1>2, SavedRow
<1>4. /\ old \in Seq(Message) /\ Len(old) = Len(msgs)
      /\ \A m \in 1..Len(msgs) :
           old[m] = IF m = req[r].msg THEN Saved(msgs[m]) ELSE msgs[m]
  BY <1>1, <1>3, Replaced
<1>5. req[r].msg \in Places
  BY <1>1 DEF Places
<1>6. new \in Message
  BY <1>5, RowTyped
<1>7. Answered(r) = Append(old, new)
  BY DEF Answered, Saved
<1> HIDE DEF old, new
<1>8. /\ Answered(r) \in Seq(Message) /\ Len(Answered(r)) = Len(msgs) + 1
      /\ \A m \in 1..Len(msgs) : Answered(r)[m] = old[m]
      /\ Answered(r)[Len(msgs) + 1] = new
  BY <1>4, <1>6, <1>7, Appended
<1> QED
  BY <1>4, <1>8 DEF new

\* What NewAnswer says of the rows that were there, from where they come.
LEMMA AnswerIsNew ==
    ASSUME TypeOK, NEW r \in Requests, req[r].msg \in 1..Len(msgs), Len(msgs) < MaxMessages,
           msgs' = Answered(r)
    PROVE  NewAnswer(r)
<1>1. \A m \in 1..Len(msgs) : msgs[m] \in Message
  BY DEF TypeOK
<1>2. ASSUME NEW m \in 1..Len(msgs)
      PROVE  /\ msgs'[m].role = msgs[m].role /\ msgs'[m].of = msgs[m].of
             /\ msgs'[m].mode = msgs[m].mode /\ msgs'[m].names = msgs[m].names
             /\ msgs[m].linked => msgs'[m].linked
             /\ msgs'[m].saved <=> msgs[m].saved \/ m = req[r].msg
  <2>1. msgs'[m] = IF m = req[r].msg THEN Saved(msgs[m]) ELSE msgs[m]
    BY AnsweredRows
  <2> QED
    BY <1>1, <2>1, SavedRow
<1>3. msgs'[Len(msgs) + 1] = Row("assistant", FALSE, req[r].msg)
  BY AnsweredRows
<1>4. msgs' \in Seq(Message) /\ Len(msgs') = Len(msgs) + 1
  BY AnsweredRows
<1>5. /\ msgs'[Len(msgs) + 1].role = "assistant"
      /\ msgs'[Len(msgs) + 1].of = req[r].msg
      /\ msgs'[Len(msgs) + 1].saved
      /\ msgs'[Len(msgs) + 1].mode = "none"
  <2> DEFINE row == msgs'[Len(msgs) + 1]
  <2>1. row = Row("assistant", FALSE, req[r].msg)
    BY <1>3
  <2> HIDE DEF row
  <2>2. row.role = "assistant" /\ row.of = req[r].msg
    BY <2>1, AnswerRow
  <2>3. row.saved
    BY <2>1, AnswerRow
  <2>4. row.mode = "none"
    BY <2>1, AnswerRow
  <2> QED
    BY <2>2, <2>3, <2>4 DEF row
<1> QED
  BY <1>2, <1>4, <1>5 DEF NewAnswer

\* The rows of a new task: linked as well.
LEMMA TaskRowIsNew ==
    ASSUME TypeOK, NEW r \in Requests, req[r].msg \in 1..Len(msgs), Len(msgs) < MaxMessages,
           msgs' = [Answered(r) EXCEPT ![req[r].msg].linked = TRUE,
                                       ![Len(msgs) + 1].linked = TRUE]
    PROVE  NewAnswer(r) /\ msgs'[req[r].msg].linked
<1> DEFINE A == Answered(r)
           at == req[r].msg
           end == Len(msgs) + 1
           one == [A EXCEPT ![at] = Linked(A[at])]
           two == [one EXCEPT ![end] = Linked(one[end])]
<1>1. A \in Seq(Message) /\ Len(A) = end
  BY AnsweredRows
<1>2. \A m \in 1..Len(msgs) : A[m] = IF m = at THEN Saved(msgs[m]) ELSE msgs[m]
  BY AnsweredRows
<1>3. A[end] = Row("assistant", FALSE, at)
  BY AnsweredRows
<1>4. msgs' = two
  BY DEF Linked
<1>5. Len(msgs) \in Nat /\ \A m \in 1..Len(msgs) : msgs[m] \in Message
  BY DEF TypeOK
<1>6. /\ at \in 1..Len(msgs) /\ end = Len(msgs) + 1
  OBVIOUS
<1> HIDE DEF A, at, end
<1>7. at \in 1..end /\ end \in 1..end /\ at # end
  BY <1>5, <1>6
<1>8. /\ one \in Seq(Message) /\ Len(one) = end
      /\ \A m \in 1..end : one[m] = IF m = at THEN Linked(A[m]) ELSE A[m]
  <2>1. A[at] \in Message
    BY <1>1, <1>7
  <2>2. Linked(A[at]) \in Message
    BY <2>1, LinkedRow
  <2> QED
    BY <1>1, <1>7, <2>2, Replaced
<1> HIDE DEF one
<1>9. /\ two \in Seq(Message) /\ Len(two) = end
      /\ \A m \in 1..end : two[m] = IF m = end THEN Linked(one[m]) ELSE one[m]
  <2>1. one[end] \in Message
    BY <1>7, <1>8
  <2>2. Linked(one[end]) \in Message
    BY <2>1, LinkedRow
  <2> QED
    BY <1>7, <1>8, <2>2, Replaced
<1> HIDE DEF two
<1>10. ASSUME NEW m \in 1..Len(msgs)
       PROVE  /\ msgs'[m].role = msgs[m].role /\ msgs'[m].of = msgs[m].of
              /\ msgs'[m].mode = msgs[m].mode /\ msgs'[m].names = msgs[m].names
              /\ msgs[m].linked => msgs'[m].linked
              /\ msgs'[m].saved <=> msgs[m].saved \/ m = at
              /\ m = at => msgs'[m].linked
  <2>1. m \in 1..end /\ m # end /\ msgs[m] \in Message
    BY <1>5, <1>6
  <2>2. msgs'[m] = IF m = at THEN Linked(Saved(msgs[m])) ELSE msgs[m]
    BY <1>2, <1>4, <1>8, <1>9, <2>1
  <2>3. Saved(msgs[m]) \in Message
    BY <2>1, SavedRow
  <2> QED
    BY <2>1, <2>2, <2>3, SavedRow, LinkedRow
<1>11. msgs'[end] = Linked(Row("assistant", FALSE, at))
  BY <1>3, <1>4, <1>7, <1>8, <1>9
<1>12. Row("assistant", FALSE, at) \in Message
  <2>1. at \in Places
    BY <1>5, <1>6 DEF Places, TypeOK
  <2> QED
    BY <2>1, RowTyped
<1>13. /\ msgs'[end].role = "assistant" /\ msgs'[end].of = at
       /\ msgs'[end].saved /\ msgs'[end].mode = "none"
  <2> DEFINE old == Row("assistant", FALSE, at)
             row == msgs'[end]
  <2>1. row = Linked(old) /\ old \in Message
    BY <1>11, <1>12
  <2>2. old.role = "assistant" /\ old.of = at /\ old.saved /\ old.mode = "none"
    BY AnswerRow
  <2> HIDE DEF row, old
  <2>3. row.role = "assistant" /\ row.of = at /\ row.saved /\ row.mode = "none"
    BY <2>1, <2>2, LinkedRow
  <2> QED
    BY <2>3 DEF row
<1> QED
  BY <1>4, <1>6, <1>9, <1>10, <1>13 DEF NewAnswer, at
-----------------------------------------------------------------------------
(* The types.                                                              *)

LEMMA NothingTyped ==
    Nothing \in Anchors /\ NoSnapshot \in Snapshot /\ NoRequest \in Request
<1>1. Nothing \in Anchors
  BY DEF Nothing, Anchors
<1>2. NoSnapshot \in Snapshot
  BY <1>1 DEF NoSnapshot, Snapshot
<1> QED
  BY <1>1, <1>2 DEF NoRequest, Request, Phases, Places, Modes

\* The revision that is active in a task is a revision.
LEMMA ActiveTyped ==
    ASSUME TypeOK, Tasks, NEW t \in 0..Len(tasks)
    PROVE  /\ ActiveRevision(t) \in Anchors
           /\ ActiveRevision(t).task = t
           /\ t # 0 => ActiveRevision(t).rev \in 1..MaxTasks
<1>1. Len(tasks) \in Nat /\ Len(tasks) <= MaxTasks
  BY DEF TypeOK
<1>2. CASE t = 0
  BY <1>2, NothingTyped DEF ActiveRevision, Nothing
<1>3. CASE t # 0
  <2>1. Len(tasks[t].made) \in 1..MaxTasks
    BY <1>1, <1>3 DEF Tasks, TaskFits
  <2> QED
    BY <1>1, <1>3, <2>1 DEF ActiveRevision, Anchors
<1> QED
  BY <1>2, <1>3

\* The latest task is one of the tasks.
LEMMA LatestTyped ==
    ASSUME TypeOK, Tasks
    PROVE  LatestTask \in 0..Len(tasks)
<1>1. CASE tasks = <<>>
  BY <1>1 DEF LatestTask, TypeOK
<1>2. CASE tasks # <<>>
  <2>1. Len(tasks) \in Nat \ {0} /\ DOMAIN tasks = 1..Len(tasks)
    BY <1>2 DEF TypeOK
  <2>2. Len(msgs) \in Nat /\ \A t \in DOMAIN tasks : LastMade(t) \in 0..Len(msgs)
    BY <2>1 DEF LastMade, Tasks, TaskFits, TypeOK
  <2>3. \E t \in DOMAIN tasks : \A u \in DOMAIN tasks : LastMade(u) <= LastMade(t)
    <3> DEFINE S == {LastMade(t) : t \in DOMAIN tasks}
    <3>1. S \subseteq 0..Len(msgs) /\ S # {}
      BY <2>1, <2>2
    <3>2. PICK x \in S : \A y \in S : y <= x
      BY <2>2, <3>1, Greatest
    <3> QED
      BY <3>2
  <2> QED
    BY <1>2, <2>1, <2>3 DEF LatestTask
<1> QED
  BY <1>1, <1>2
-----------------------------------------------------------------------------
(* What the actions do to the request.                                     *)

Others(r) == \A q \in Requests \ {r} : req'[q] = req[q]

LEMMA ReqChanged ==
    ASSUME TypeOK, NEW r \in Requests, NEW e \in Request, req' = [req EXCEPT ![r] = e]
    PROVE  req' \in [Requests -> Request] /\ req'[r] = e /\ Others(r)
  BY DEF TypeOK, Others

LEMMA Forgotten ==
    ASSUME TypeOK, NEW r \in Requests, req' = [req EXCEPT ![r] = NoRequest]
    PROVE  /\ req' \in [Requests -> Request] /\ Others(r)
           /\ req'[r] = NoRequest /\ req'[r].pc = "idle"
<1>1. NoRequest \in Request
  BY NothingTyped
<1>2. req' \in [Requests -> Request] /\ req'[r] = NoRequest /\ Others(r)
  BY <1>1, ReqChanged
<1> QED
  BY <1>2 DEF NoRequest

LEMMA ReceiveDoes ==
    ASSUME TypeOK, NEW r \in Requests, NEW confirms \in BOOLEAN, Receive(r, confirms)
    PROVE  /\ req' \in [Requests -> Request] /\ Others(r)
           /\ req'[r].pc = "received" /\ req'[r].msg = Len(msgs) + 1
           /\ req'[r].src = 0
<1> DEFINE e == [NoRequest EXCEPT !.pc = "received", !.msg = Len(msgs) + 1]
<1>1. Len(msgs) + 1 \in Places
  BY DEF Receive, Places, TypeOK
<1>2. e \in Request /\ e.pc = "received" /\ e.msg = Len(msgs) + 1 /\ e.src = 0
  <2>1. "received" \in Phases
    BY DEF Phases
  <2>2. NoRequest \in Request /\ NoRequest.src = 0
    BY NothingTyped DEF NoRequest
  <2> QED
    BY <1>1, <2>1, <2>2 DEF Request
<1>3. req' = [req EXCEPT ![r] = e]
  BY DEF Receive
<1> HIDE DEF e
<1>4. req' \in [Requests -> Request] /\ req'[r] = e /\ Others(r)
  BY <1>2, <1>3, ReqChanged
<1> QED
  BY <1>2, <1>4

\* The newest committed row.
LEMMA NewestIs ==
    ASSUME TypeOK, NEW r \in Requests, Committed(r) # {}
    PROVE  Newest(r) \in Committed(r) /\ \A k \in Committed(r) : k <= Newest(r)
<1>1. Len(msgs) \in Nat /\ Committed(r) \subseteq 0..Len(msgs)
  BY DEF TypeOK, Committed
<1>2. \E m \in Committed(r) : \A k \in Committed(r) : k <= m
  BY <1>1, Greatest
<1> QED
  BY <1>2 DEF Newest

LEMMA ConfirmDoes ==
    ASSUME TypeOK, NEW r \in Requests, Confirm(r)
    PROVE  /\ req' \in [Requests -> Request] /\ Others(r)
           /\ req[r].pc = "received"
           /\ req'[r].pc = "confirmed" /\ req'[r].msg = req[r].msg
           /\ req'[r].prompt = Newest(r) /\ req'[r].src \in Candidates(r)
           /\ req'[r].saw = Len(tasks)
<1>1. PICK m \in Candidates(r) :
        req' = [req EXCEPT ![r].pc = "confirmed", ![r].prompt = Newest(r),
                           ![r].src = m, ![r].saw = Len(tasks)]
  BY DEF Confirm
<1> DEFINE e == [req[r] EXCEPT !.pc = "confirmed", !.prompt = Newest(r),
                               !.src = m, !.saw = Len(tasks)]
<1>2. req[r] \in Request /\ Len(msgs) \in Nat /\ Len(msgs) <= MaxMessages
      /\ Len(tasks) \in 0..MaxTasks
  BY DEF TypeOK
<1>3. m \in Places /\ Newest(r) \in Places
  <2>1. Committed(r) # {}
    BY DEF Candidates
  <2>2. m \in Committed(r)
    BY <2>1 DEF Candidates
  <2> QED
    BY <1>2, <2>1, <2>2, NewestIs DEF Committed, Places, TypeOK
<1>4. /\ e \in Request
      /\ e.pc = "confirmed" /\ e.msg = req[r].msg /\ e.prompt = Newest(r)
      /\ e.src = m /\ e.saw = Len(tasks)
  <2>1. "confirmed" \in Phases
    BY DEF Phases
  <2> QED
    BY <1>2, <1>3, <2>1 DEF Request
<1>5. req' = [req EXCEPT ![r] = e]
  BY <1>1, <1>2 DEF TypeOK
<1> HIDE DEF e
<1>6. req' \in [Requests -> Request] /\ req'[r] = e /\ Others(r)
  BY <1>4, <1>5, ReqChanged
<1> QED
  BY <1>4, <1>6 DEF Confirm

LEMMA UnderstandDoes ==
    ASSUME TypeOK, Tasks, NEW r \in Requests, Understand(r)
    PROVE  /\ req' \in [Requests -> Request] /\ Others(r)
           /\ req[r].pc = "received"
           /\ req'[r].pc = "understood" /\ req'[r].msg = req[r].msg
           /\ req'[r].src = req[r].src
           /\ req'[r].ctx.task \in 0..Len(tasks)
           /\ req'[r].ctx = ActiveRevision(req'[r].ctx.task)
           /\ snap.anchor.task # 0 => req'[r].ctx.task = snap.anchor.task
<1> DEFINE latest == IF snap.anchor.task # 0 THEN snap.anchor.task ELSE LatestTask
           c == ActiveRevision(latest)
           e == [req[r] EXCEPT !.pc = "understood", !.seen = snap, !.ctx = c,
                               !.saw = Len(tasks)]
<1>1. req[r] \in Request /\ snap \in Snapshot /\ Len(tasks) \in 0..MaxTasks
  BY DEF TypeOK
<1>2. req' = [req EXCEPT ![r].pc = "understood", ![r].seen = snap,
                         ![r].ctx = c, ![r].saw = Len(tasks)]
  BY DEF Understand
<1>3. latest \in 0..Len(tasks) /\ (snap.anchor.task # 0 => latest = snap.anchor.task)
  BY LatestTyped DEF Tasks
<1> HIDE DEF latest
<1>4. c \in Anchors /\ c.task = latest
  BY <1>3, ActiveTyped
<1>5. c = ActiveRevision(c.task)
  BY <1>4
<1> HIDE DEF c
<1>6. /\ e \in Request /\ e.pc = "understood" /\ e.msg = req[r].msg /\ e.ctx = c
      /\ e.src = req[r].src
  <2>1. "understood" \in Phases
    BY DEF Phases
  <2> QED
    BY <1>1, <1>4, <2>1 DEF Request
<1>7. req' = [req EXCEPT ![r] = e]
  BY <1>1, <1>2 DEF TypeOK
<1> HIDE DEF e
<1>8. req' \in [Requests -> Request] /\ req'[r] = e /\ Others(r)
  BY <1>6, <1>7, ReqChanged
<1> QED
  BY <1>3, <1>4, <1>5, <1>6, <1>8 DEF Understand

LEMMA ActivateDoes ==
    ASSUME TypeOK, NEW r \in Requests, Activate(r)
    PROVE  /\ req' \in [Requests -> Request] /\ Others(r)
           /\ req[r].pc = "understood"
           /\ req'[r].pc = "activated" /\ req'[r].msg = req[r].msg
           /\ req'[r].src = req[r].src
           /\ req'[r].ctx = req[r].ctx
           /\ req'[r].names = [task |-> req[r].ctx.task, rev |-> req[r].ctx.rev + 1]
           /\ req'[r].seen = IF r \in holder THEN [exists |-> TRUE, anchor |-> req[r].ctx]
                             ELSE snap
<1> DEFINE names == [req[r].ctx EXCEPT !.rev = @ + 1]
           seen == IF r \in holder THEN [exists |-> TRUE, anchor |-> req[r].ctx] ELSE snap
           e == [req[r] EXCEPT !.pc = "activated", !.names = names, !.seen = seen]
<1>1. req[r] \in Request /\ snap \in Snapshot
  BY DEF TypeOK
<1>2. req[r].ctx \in Anchors
  BY <1>1 DEF Request
<1>3. names \in Anchors /\ names = [task |-> req[r].ctx.task, rev |-> req[r].ctx.rev + 1]
  BY <1>2 DEF Activate, Anchors
<1>4. seen \in Snapshot
  BY <1>1, <1>2 DEF Snapshot
<1>5. req' = [req EXCEPT ![r].pc = "activated", ![r].names = names, ![r].seen = seen]
  BY DEF Activate
<1>6. seen = IF r \in holder THEN [exists |-> TRUE, anchor |-> req[r].ctx] ELSE snap
  OBVIOUS
<1> HIDE DEF names, seen
<1>7. /\ e \in Request /\ e.pc = "activated" /\ e.msg = req[r].msg /\ e.ctx = req[r].ctx
      /\ e.names = names /\ e.seen = seen /\ e.src = req[r].src
  <2>1. "activated" \in Phases
    BY DEF Phases
  <2> QED
    BY <1>1, <1>3, <1>4, <2>1 DEF Request
<1>8. req' = [req EXCEPT ![r] = e]
  BY <1>1, <1>5 DEF TypeOK
<1> HIDE DEF e
<1>9. req' \in [Requests -> Request] /\ req'[r] = e /\ Others(r)
  BY <1>7, <1>8, ReqChanged
<1> QED
  BY <1>3, <1>6, <1>7, <1>9 DEF Activate

\* A request that goes on to its second transaction.
Recorded(r, names) ==
    /\ req' \in [Requests -> Request] /\ Others(r)
    /\ req'[r].pc = "record" /\ req'[r].msg = req[r].msg
    /\ req'[r].names = names /\ req'[r].src = req[r].src

LEMMA ToRecord ==
    ASSUME TypeOK, NEW r \in Requests, NEW mode \in Modes, NEW names \in Anchors,
           \/ req' = [req EXCEPT ![r].pc = "record", ![r].mode = mode, ![r].names = names]
           \/ req' = [req EXCEPT ![r].pc = "record", ![r].mode = mode]
                /\ names = req[r].names
    PROVE  Recorded(r, names)
<1> DEFINE e == [req[r] EXCEPT !.pc = "record", !.mode = mode, !.names = names]
<1>1. req[r] \in Request
  BY DEF TypeOK
<1>2. req' = [req EXCEPT ![r] = e]
  <2>1. CASE req' = [req EXCEPT ![r].pc = "record", ![r].mode = mode, ![r].names = names]
    BY <1>1, <2>1 DEF TypeOK
  <2>2. CASE /\ req' = [req EXCEPT ![r].pc = "record", ![r].mode = mode]
             /\ names = req[r].names
    <3>1. e = [req[r] EXCEPT !.pc = "record", !.mode = mode]
      BY <1>1, <2>2 DEF Request
    <3> QED
      BY <1>1, <2>2, <3>1 DEF TypeOK
  <2> QED
    BY <2>1, <2>2
<1>3. /\ e \in Request /\ e.pc = "record" /\ e.msg = req[r].msg /\ e.names = names
      /\ e.src = req[r].src
  <2>1. "record" \in Phases
    BY DEF Phases
  <2> QED
    BY <1>1, <2>1 DEF Request
<1> HIDE DEF e
<1>4. req' \in [Requests -> Request] /\ req'[r] = e /\ Others(r)
  BY <1>2, <1>3, ReqChanged
<1> QED
  BY <1>3, <1>4 DEF Recorded

LEMMA BeginRecordDoes ==
    ASSUME TypeOK, Tasks, NEW r \in Requests, BeginRecord(r)
    PROVE  /\ req' \in [Requests -> Request] /\ Others(r)
           /\ req[r].pc = "record" /\ req'[r].pc = "flush"
           /\ req'[r].msg = req[r].msg /\ req'[r].seen = snap
           /\ req'[r].src = req[r].src
           /\ req'[r].names = IF req[r].names.task # 0 /\ req[r].names.rev = 0
                              THEN ActiveRevision(req[r].names.task) ELSE req[r].names
           /\ req'[r].names.task = req[r].names.task
<1> DEFINE old == req[r].names
           names == IF old.task # 0 /\ old.rev = 0 THEN ActiveRevision(old.task) ELSE old
           e == [req[r] EXCEPT !.pc = "flush", !.seen = snap, !.names = names]
<1>1. req[r] \in Request /\ snap \in Snapshot
  BY DEF TypeOK
<1>2. old \in Anchors
  BY <1>1 DEF Request
<1>3. old.task \in 0..Len(tasks)
  BY DEF BeginRecord, Tasks, ContextFits, Closing
<1>4. names \in Anchors /\ names.task = old.task
  BY <1>2, <1>3, ActiveTyped
<1>5. req' = [req EXCEPT ![r].pc = "flush", ![r].seen = snap, ![r].names = names]
  BY <1>1 DEF BeginRecord, TypeOK
<1>6. /\ names = IF req[r].names.task # 0 /\ req[r].names.rev = 0
                 THEN ActiveRevision(req[r].names.task) ELSE req[r].names
      /\ names.task = req[r].names.task
  BY <1>4
<1> HIDE DEF old, names
<1>7. /\ e \in Request /\ e.pc = "flush" /\ e.msg = req[r].msg /\ e.names = names
      /\ e.seen = snap /\ e.src = req[r].src
  <2>1. "flush" \in Phases
    BY DEF Phases
  <2> QED
    BY <1>1, <1>4, <2>1 DEF Request
<1>8. req' = [req EXCEPT ![r] = e]
  BY <1>1, <1>5 DEF TypeOK
<1> HIDE DEF e
<1>9. req' \in [Requests -> Request] /\ req'[r] = e /\ Others(r)
  BY <1>7, <1>8, ReqChanged
<1> QED
  BY <1>6, <1>7, <1>9 DEF BeginRecord
-----------------------------------------------------------------------------
(* What the actions do to the rows, the tasks and the snapshot.            *)

\* A new row of a user.
NewRequest ==
    /\ msgs' \in Seq(Message)
    /\ Len(msgs') = Len(msgs) + 1
    /\ \A m \in 1..Len(msgs) : msgs'[m] = msgs[m]
    /\ msgs'[Len(msgs) + 1].role = "user"
    /\ msgs'[Len(msgs) + 1].of = 0
    /\ ~msgs'[Len(msgs) + 1].saved
    /\ msgs'[Len(msgs) + 1].mode = "none"

LEMMA UserRow ==
    ASSUME NEW confirms, NEW row, row = Row("user", confirms, 0)
    PROVE  row.role = "user" /\ row.of = 0 /\ ~row.saved /\ row.mode = "none"
<1>1. row.role = "user" /\ row.of = 0 /\ row.mode = "none"
  BY DEF Row
<1>2. row.saved = ("user" = "assistant")
  BY Zenon DEF Row
<1> QED
  BY <1>1, <1>2

LEMMA ReceivedRows ==
    ASSUME TypeOK, NEW r \in Requests, NEW confirms \in BOOLEAN, Receive(r, confirms)
    PROVE  NewRequest /\ Len(msgs') <= MaxMessages
<1> DEFINE new == Row("user", confirms, 0)
<1>1. new \in Message
  BY RowTyped DEF Places
<1>2. msgs' = Append(msgs, new) /\ msgs \in Seq(Message) /\ Len(msgs) + 2 <= MaxMessages
  BY DEF Receive, TypeOK
<1>3. new.role = "user" /\ new.of = 0 /\ ~new.saved /\ new.mode = "none"
  BY UserRow
<1> HIDE DEF new
<1>4. /\ msgs' \in Seq(Message) /\ Len(msgs') = Len(msgs) + 1
      /\ \A m \in 1..Len(msgs) : msgs'[m] = msgs[m]
      /\ msgs'[Len(msgs) + 1] = new
  BY <1>1, <1>2, Appended
<1>5. Len(msgs') <= MaxMessages
  BY <1>2, <1>4
<1> QED
  BY <1>3, <1>4, <1>5 DEF NewRequest

\* The understanding of the message of r is stored.
Noted(r) ==
    /\ msgs' \in Seq(Message)
    /\ Len(msgs') = Len(msgs)
    /\ \A m \in 1..Len(msgs) :
         /\ msgs'[m].role = msgs[m].role /\ msgs'[m].of = msgs[m].of
         /\ msgs'[m].saved = msgs[m].saved
         /\ msgs[m].linked => msgs'[m].linked
         /\ msgs'[m].mode = IF m = req[r].msg THEN req[r].mode ELSE msgs[m].mode
         /\ msgs'[m].names = IF m = req[r].msg THEN req[r].names ELSE msgs[m].names

LEMMA RecordRows ==
    ASSUME TypeOK, NEW r \in Requests, Record(r), req[r].msg \in 1..Len(msgs),
           req[r].src \in 0..Len(msgs)
    PROVE  Noted(r)
<1> DEFINE at == req[r].msg
           src == req[r].src
           mode == req[r].mode
           names == req[r].names
           done == [msgs EXCEPT ![at] = Told(msgs[at], mode, names)]
           full == [done EXCEPT ![src] = Linked(done[src])]
<1>1. msgs \in Seq(Message) /\ Len(msgs) \in Nat /\ mode \in Modes /\ names \in Anchors
  BY DEF TypeOK, Request
<1>2. \A m \in 1..Len(msgs) : msgs[m] \in Message
  BY <1>1
<1>3. msgs' = IF src = 0 THEN done ELSE full
  <2>1. [msgs EXCEPT ![at].mode = mode, ![at].names = names] = done
    BY <1>1 DEF Told
  <2> QED
    BY <2>1 DEF Record, Linked
<1>4. at \in 1..Len(msgs) /\ src \in 0..Len(msgs) /\ at = req[r].msg
      /\ mode = req[r].mode /\ names = req[r].names
  OBVIOUS
<1> HIDE DEF at, src, mode, names
<1>5. Told(msgs[at], mode, names) \in Message
  BY <1>1, <1>2, <1>4, ToldRow
<1>6. /\ done \in Seq(Message) /\ Len(done) = Len(msgs)
      /\ \A m \in 1..Len(msgs) :
           done[m] = IF m = at THEN Told(msgs[at], mode, names) ELSE msgs[m]
  BY <1>1, <1>4, <1>5, Replaced
<1> HIDE DEF done
<1>7. ASSUME NEW m \in 1..Len(msgs)
      PROVE  /\ done[m] \in Message
             /\ done[m].role = msgs[m].role /\ done[m].of = msgs[m].of
             /\ done[m].saved = msgs[m].saved
             /\ done[m].linked = msgs[m].linked
             /\ done[m].mode = IF m = at THEN mode ELSE msgs[m].mode
             /\ done[m].names = IF m = at THEN names ELSE msgs[m].names
  <2>1. msgs[m] \in Message
    BY <1>2
  <2>2. CASE m = at
    BY <1>1, <1>6, <2>1, <2>2, ToldRow
  <2>3. CASE m # at
    BY <1>6, <2>1, <2>3
  <2> QED
    BY <2>2, <2>3
<1>8. CASE src = 0
  BY <1>3, <1>4, <1>6, <1>7, <1>8 DEF Noted
<1>9. CASE src # 0
  <2>1. src \in 1..Len(msgs)
    BY <1>1, <1>4, <1>9
  <2>2. Linked(done[src]) \in Message
    BY <1>7, <2>1, LinkedRow
  <2>3. /\ full \in Seq(Message) /\ Len(full) = Len(msgs)
        /\ \A m \in 1..Len(msgs) : full[m] = IF m = src THEN Linked(done[m]) ELSE done[m]
    BY <1>6, <2>1, <2>2, Replaced
  <2>4. msgs' = full
    BY <1>3, <1>9
  <2> HIDE DEF full
  <2>5. ASSUME NEW m \in 1..Len(msgs)
        PROVE  /\ msgs'[m].role = msgs[m].role /\ msgs'[m].of = msgs[m].of
               /\ msgs'[m].saved = msgs[m].saved
               /\ msgs[m].linked => msgs'[m].linked
               /\ msgs'[m].mode = IF m = at THEN mode ELSE msgs[m].mode
               /\ msgs'[m].names = IF m = at THEN names ELSE msgs[m].names
    BY <1>7, <2>3, <2>4, LinkedRow
  <2> QED
    BY <1>4, <2>3, <2>4, <2>5 DEF Noted
<1> QED
  BY <1>8, <1>9

\* A task is added, or a revision of one.
NewTask(r, src) ==
    /\ tasks' \in Seq(Task) /\ Len(tasks') = Len(tasks) + 1
    /\ \A t \in 1..Len(tasks) : tasks'[t] = tasks[t]
    /\ tasks'[Len(tasks) + 1] = [src |-> src, made |-> <<Len(msgs) + 1>>, saw |-> req[r].saw]

NewRevision(c) ==
    /\ tasks' \in Seq(Task) /\ Len(tasks') = Len(tasks)
    /\ \A t \in 1..Len(tasks) : tasks'[t].src = tasks[t].src /\ tasks'[t].saw = tasks[t].saw
    /\ \A t \in 1..Len(tasks) : t # c => tasks'[t] = tasks[t]
    /\ Len(tasks'[c].made) = Len(tasks[c].made) + 1
    /\ \A n \in 1..Len(tasks[c].made) : tasks'[c].made[n] = tasks[c].made[n]
    /\ tasks'[c].made[Len(tasks[c].made) + 1] = Len(msgs) + 1

LEMMA TaskAdded ==
    ASSUME TypeOK, NEW r \in Requests, NEW src \in Places, AddTask(r, src)
    PROVE  NewTask(r, src) /\ Len(tasks') <= MaxTasks
<1> DEFINE new == [src |-> src, made |-> <<Len(msgs) + 1>>, saw |-> req[r].saw]
<1>1. /\ tasks \in Seq(Task) /\ Len(tasks) \in Nat /\ Len(tasks) < MaxTasks
      /\ tasks' = Append(tasks, new)
  BY DEF TypeOK, AddTask
<1>2. new \in Task
  <2>1. req[r].saw \in 0..MaxTasks
    BY DEF TypeOK, Request
  <2>2. Len(msgs) + 1 \in Places
    BY DEF TypeOK, AddTask, Places
  <2>3. <<Len(msgs) + 1>> \in Seq(Places)
    BY <2>2
  <2> QED
    BY <2>1, <2>3 DEF Task
<1>3. new = [src |-> src, made |-> <<Len(msgs) + 1>>, saw |-> req[r].saw]
  OBVIOUS
<1> HIDE DEF new
<1>4. /\ tasks' \in Seq(Task) /\ Len(tasks') = Len(tasks) + 1
      /\ \A t \in 1..Len(tasks) : tasks'[t] = tasks[t]
      /\ tasks'[Len(tasks) + 1] = new
  BY <1>1, <1>2, Appended
<1> QED
  BY <1>1, <1>3, <1>4 DEF NewTask

LEMMA RevisionAdded ==
    ASSUME TypeOK, NEW r \in Requests, NEW c \in 1..Len(tasks), Len(msgs) < MaxMessages,
           tasks' = [tasks EXCEPT ![c].made = Append(@, Len(msgs) + 1)]
    PROVE  NewRevision(c)
<1> DEFINE made == Append(tasks[c].made, Len(msgs) + 1)
           new == [tasks[c] EXCEPT !.made = made]
<1>1. tasks \in Seq(Task) /\ Len(msgs) + 1 \in Places
  BY DEF TypeOK, Places
<1>2. tasks[c] \in Task
  BY <1>1
<1>3. tasks[c].made \in Seq(Places)
  BY <1>2 DEF Task
<1>4. /\ made \in Seq(Places) /\ Len(made) = Len(tasks[c].made) + 1
      /\ \A n \in 1..Len(tasks[c].made) : made[n] = tasks[c].made[n]
      /\ made[Len(tasks[c].made) + 1] = Len(msgs) + 1
  BY <1>1, <1>3, Appended
<1>5. tasks' = [tasks EXCEPT ![c] = new]
  BY <1>1
<1> HIDE DEF made
<1>6. new \in Task /\ new.src = tasks[c].src /\ new.saw = tasks[c].saw /\ new.made = made
  BY <1>2, <1>4 DEF Task
<1> HIDE DEF new
<1>7. /\ tasks' \in Seq(Task) /\ Len(tasks') = Len(tasks)
      /\ \A t \in 1..Len(tasks) : tasks'[t] = IF t = c THEN new ELSE tasks[t]
  <2>1. /\ [tasks EXCEPT ![c] = new] \in Seq(Task)
        /\ Len([tasks EXCEPT ![c] = new]) = Len(tasks)
        /\ \A t \in 1..Len(tasks) :
             [tasks EXCEPT ![c] = new][t] = IF t = c THEN new ELSE tasks[t]
    BY <1>1, <1>6, Replaced
  <2> QED
    BY <1>5, <2>1
<1> QED
  BY <1>4, <1>6, <1>7 DEF NewRevision

\* The snapshot after a refresh.
LEMMA Refreshed ==
    ASSUME TypeOK, NEW r \in Requests, Refresh(r)
    PROVE  /\ snap' \in Snapshot /\ holder' = {}
           /\ snap'.anchor = Moved(r)
           /\ snap'.anchor.task \in
                {req[r].names.task, snap.anchor.task}
                  \cup (IF r \in holder THEN {req[r].ctx.task} ELSE {})
<1> DEFINE now == IF r \in holder THEN req[r].ctx ELSE snap.anchor
           task == Written(req[r].names.task, req[r].seen.anchor.task, now.task)
           rev == Written(req[r].names.rev, req[r].seen.anchor.rev, now.rev)
<1>1. req[r] \in Request /\ snap \in Snapshot
  BY DEF TypeOK
<1>2. req[r].names \in Anchors /\ req[r].ctx \in Anchors /\ snap.anchor \in Anchors
  BY <1>1 DEF Request, Snapshot
<1>3. task \in {req[r].names.task, now.task} /\ rev \in {req[r].names.rev, now.rev}
  BY DEF Written
<1>4. now \in Anchors
  BY <1>2
<1>5. Moved(r) = [task |-> task, rev |-> rev]
  BY DEF Moved
<1>6. now.task \in {snap.anchor.task} \cup (IF r \in holder THEN {req[r].ctx.task} ELSE {})
  OBVIOUS
<1> HIDE DEF now, task, rev
<1>7. Moved(r) \in Anchors /\ Moved(r).task = task
  BY <1>2, <1>3, <1>4, <1>5 DEF Anchors
<1>8. snap' = [exists |-> TRUE, anchor |-> Moved(r)] /\ holder' = {}
  BY DEF Refresh
<1>9. snap' \in Snapshot /\ snap'.anchor = Moved(r)
  BY <1>7, <1>8 DEF Snapshot
<1> QED
  BY <1>3, <1>6, <1>7, <1>8, <1>9

LEMMA CommittedSnap ==
    ASSUME TypeOK, NEW r \in Requests, Commit(r)
    PROVE  /\ snap' \in Snapshot
           /\ holder' = holder \ {r}
           /\ snap'.anchor = IF r \in holder THEN req[r].ctx ELSE snap.anchor
<1>1. req[r].ctx \in Anchors /\ snap \in Snapshot
  BY DEF TypeOK, Request
<1>2. CASE r \in holder
  BY <1>1, <1>2 DEF Commit, Snapshot
<1>3. CASE r \notin holder
  BY <1>1, <1>3 DEF Commit
<1> QED
  BY <1>2, <1>3 DEF Commit
-----------------------------------------------------------------------------
(* The rows and the requests.  RowsGrow and TasksGrow are what no step      *)
(* takes back.                                                             *)

RowsGrow ==
    /\ Len(msgs') \in Nat /\ Len(msgs) <= Len(msgs')
    /\ \A m \in 1..Len(msgs) : /\ msgs'[m].role = msgs[m].role
                               /\ msgs'[m].of = msgs[m].of
                               /\ msgs[m].saved => msgs'[m].saved
                               /\ msgs[m].linked => msgs'[m].linked

TasksGrow ==
    /\ Len(tasks') \in Nat /\ Len(tasks) <= Len(tasks')
    /\ \A t \in 1..Len(tasks) :
         /\ tasks'[t].src = tasks[t].src /\ tasks'[t].saw = tasks[t].saw
         /\ Len(tasks[t].made) <= Len(tasks'[t].made)
         /\ \A n \in 1..Len(tasks[t].made) : tasks'[t].made[n] = tasks[t].made[n]

LEMMA EveryChangeGrows ==
    ASSUME TypeOK, NEW r \in Requests
    PROVE  /\ msgs' = msgs => RowsGrow
           /\ NewRequest => RowsGrow
           /\ NewAnswer(r) => RowsGrow
           /\ Noted(r) => RowsGrow
<1>1. Len(msgs) \in Nat
  BY DEF TypeOK
<1>2. msgs' = msgs => RowsGrow
  BY <1>1 DEF RowsGrow
<1>3. NewRequest => RowsGrow
  BY <1>1 DEF NewRequest, RowsGrow
<1>4. NewAnswer(r) => RowsGrow
  BY <1>1 DEF NewAnswer, RowsGrow
<1>5. Noted(r) => RowsGrow
  BY <1>1 DEF Noted, RowsGrow
<1> QED
  BY <1>2, <1>3, <1>4, <1>5

LEMMA TasksChangeGrows ==
    ASSUME TypeOK, Tasks, NEW r \in Requests
    PROVE  /\ tasks' = tasks => TasksGrow
           /\ \A src : NewTask(r, src) => TasksGrow
           /\ \A c \in 1..Len(tasks) : NewRevision(c) => TasksGrow
<1>1. Len(tasks) \in Nat
  BY DEF TypeOK
<1>2. \A t \in 1..Len(tasks) : Len(tasks[t].made) \in Nat
  BY DEF Tasks, TaskFits
<1>3. tasks' = tasks => TasksGrow
  BY <1>1, <1>2 DEF TasksGrow
<1>4. ASSUME NEW src, NewTask(r, src) PROVE TasksGrow
  BY <1>1, <1>2, <1>4 DEF NewTask, TasksGrow
<1>5. ASSUME NEW c \in 1..Len(tasks), NewRevision(c) PROVE TasksGrow
  <2>1. ASSUME NEW t \in 1..Len(tasks)
        PROVE  /\ Len(tasks[t].made) <= Len(tasks'[t].made)
               /\ \A n \in 1..Len(tasks[t].made) : tasks'[t].made[n] = tasks[t].made[n]
    BY <1>1, <1>2, <1>5 DEF NewRevision
  <2> QED
    BY <1>1, <1>5, <2>1 DEF NewRevision, TasksGrow
<1> QED
  BY <1>3, <1>4, <1>5

\* A user's row is saved together with an answer to it.
LEMMA RowsKept ==
    ASSUME TypeOK, Rows, Flights, NEW r \in Requests,
           \/ msgs' = msgs
           \/ NewRequest
           \/ NewAnswer(r) /\ Flying(r)
           \/ Noted(r) /\ req[r].pc \in Closing
    PROVE  Rows'
<1>1. Len(msgs) \in Nat
  BY DEF TypeOK
<1>2. CASE msgs' = msgs
  BY <1>2 DEF Rows, RowFits
<1>3. CASE NewRequest
  <2> SUFFICES ASSUME NEW m \in 1..Len(msgs') PROVE RowFits(m)'
    BY DEF Rows
  <2>1. CASE m = Len(msgs) + 1
    BY <1>3, <2>1 DEF NewRequest, RowFits
  <2>2. CASE m \in 1..Len(msgs)
    <3>1. RowFits(m) /\ msgs'[m] = msgs[m]
      BY <1>3, <2>2 DEF Rows, NewRequest
    <3>2. ASSUME NEW a \in 1..Len(msgs)
          PROVE  a \in 1..Len(msgs') /\ msgs'[a] = msgs[a]
      BY <1>1, <1>3 DEF NewRequest
    <3> QED
      BY <3>1, <3>2 DEF RowFits
  <2> QED
    BY <1>1, <1>3, <2>1, <2>2 DEF NewRequest
<1>4. CASE NewAnswer(r) /\ Flying(r)
  <2> DEFINE at == req[r].msg
             end == Len(msgs) + 1
  <2>1. at \in 1..Len(msgs) /\ msgs[at].role = "user"
    BY <1>4 DEF Flights, FlightFits
  <2>2. end \in 1..Len(msgs') /\ msgs'[end].role = "assistant" /\ msgs'[end].of = at
    BY <1>1, <1>4 DEF NewAnswer
  <2> SUFFICES ASSUME NEW m \in 1..Len(msgs') PROVE RowFits(m)'
    BY DEF Rows
  <2>3. CASE m = end
    BY <1>1, <1>4, <2>1, <2>3 DEF NewAnswer, RowFits
  <2>4. CASE m \in 1..Len(msgs)
    <3>1. RowFits(m)
      BY <2>4 DEF Rows
    <3>2. /\ msgs'[m].role = msgs[m].role /\ msgs'[m].of = msgs[m].of
          /\ msgs'[m].mode = msgs[m].mode
          /\ msgs'[m].saved <=> msgs[m].saved \/ m = at
      BY <1>4, <2>4 DEF NewAnswer
    <3>3. ASSUME NEW a \in 1..Len(msgs)
          PROVE  /\ a \in 1..Len(msgs')
                 /\ msgs'[a].role = msgs[a].role /\ msgs'[a].of = msgs[a].of
      BY <1>1, <1>4 DEF NewAnswer
    <3> HIDE DEF at
    <3>4. CASE m = at
      BY <2>1, <2>2, <3>1, <3>2, <3>4 DEF RowFits
    <3>5. CASE m # at
      BY <3>1, <3>2, <3>3, <3>5 DEF RowFits
    <3> QED
      BY <3>4, <3>5
  <2> QED
    BY <1>1, <1>4, <2>3, <2>4 DEF NewAnswer
<1>5. CASE Noted(r) /\ req[r].pc \in Closing
  <2> DEFINE at == req[r].msg
  <2>1. at \in 1..Len(msgs) /\ msgs[at].role = "user" /\ msgs[at].saved
    BY <1>5 DEF Flights, FlightFits, Flying, Closing
  <2> SUFFICES ASSUME NEW m \in 1..Len(msgs') PROVE RowFits(m)'
    BY DEF Rows
  <2>2. m \in 1..Len(msgs) /\ Len(msgs') = Len(msgs)
    BY <1>5 DEF Noted
  <2>3. /\ msgs'[m].role = msgs[m].role /\ msgs'[m].of = msgs[m].of
        /\ msgs'[m].saved = msgs[m].saved
        /\ m # at => msgs'[m].mode = msgs[m].mode
    BY <1>5, <2>2 DEF Noted
  <2>4. \A a \in 1..Len(msgs) :
          msgs'[a].role = msgs[a].role /\ msgs'[a].of = msgs[a].of
    BY <1>5 DEF Noted
  <2>5. RowFits(m)
    BY <2>2 DEF Rows
  <2> HIDE DEF at
  <2> QED
    BY <2>1, <2>2, <2>3, <2>4, <2>5 DEF RowFits
<1> QED
  BY <1>2, <1>3, <1>4, <1>5

\* Each request answers its own row, and answers it once.
LEMMA FlightsKept ==
    ASSUME TypeOK, Rows, Flights, NEW r \in Requests, Others(r),
           \/ /\ msgs' = msgs
              /\ \/ req'[r].pc = "idle"
                 \/ /\ Flying(r) /\ req'[r].msg = req[r].msg
                    /\ req'[r].src \in 0..Len(msgs)
                    /\ \/ req[r].pc \in Open /\ req'[r].pc \in Open
                       \/ req[r].pc \in Closing /\ req'[r].pc \in Closing
           \/ /\ NewRequest
              /\ req'[r].pc = "received" /\ req'[r].msg = Len(msgs) + 1 /\ req'[r].src = 0
           \/ /\ NewAnswer(r) /\ req[r].pc \in Open
              /\ \/ req'[r].pc = "idle"
                 \/ /\ req'[r].pc = "record" /\ req'[r].msg = req[r].msg
                    /\ req'[r].src = req[r].src
           \/ Noted(r) /\ Flying(r) /\ req'[r].pc = "idle"
    PROVE  Flights'
<1> SUFFICES ASSUME NEW q \in Requests, Flying(q)' PROVE FlightFits(q)'
  BY DEF Flights
<1>1. Len(msgs) \in Nat
  BY DEF TypeOK
<1>2. \A p \in Requests \ {r} : req'[p] = req[p]
  BY DEF Others
<1>3. \A p \in Requests : p # r /\ Flying(p)' => Flying(p) /\ FlightFits(p)
  BY <1>2 DEF Flights, Flying
<1>4. CASE /\ msgs' = msgs
           /\ \/ req'[r].pc = "idle"
              \/ /\ Flying(r) /\ req'[r].msg = req[r].msg
                 /\ req'[r].src \in 0..Len(msgs)
                 /\ \/ req[r].pc \in Open /\ req'[r].pc \in Open
                    \/ req[r].pc \in Closing /\ req'[r].pc \in Closing
  <2>1. CASE q = r
    <3>1. FlightFits(r) /\ Flying(r)
      BY <1>4, <2>1 DEF Flights, Flying
    <3>2. /\ req'[r].msg = req[r].msg /\ req'[r].src \in 0..Len(msgs)
          /\ req'[r].pc \in Open => req[r].pc \in Open
          /\ req'[r].pc \in Closing => req[r].pc \in Closing
      BY <1>4, <2>1 DEF Flying, Open, Closing
    <3> QED
      BY <1>2, <1>4, <2>1, <3>1, <3>2 DEF FlightFits, Flying
  <2>2. CASE q # r
    <3>1. Flying(r)' => Flying(r) /\ req'[r].msg = req[r].msg
      BY <1>4 DEF Flying
    <3> QED
      BY <1>2, <1>3, <1>4, <2>2, <3>1 DEF FlightFits, Flying
  <2> QED
    BY <2>1, <2>2
<1>5. CASE /\ NewRequest
           /\ req'[r].pc = "received" /\ req'[r].msg = Len(msgs) + 1 /\ req'[r].src = 0
  <2>1. CASE q = r
    <3>1. \A a \in 1..Len(msgs') : msgs'[a].of # Len(msgs) + 1
      <4> SUFFICES ASSUME NEW a \in 1..Len(msgs') PROVE msgs'[a].of # Len(msgs) + 1
        OBVIOUS
      <4>1. CASE a = Len(msgs) + 1
        BY <1>1, <1>5, <4>1 DEF NewRequest
      <4>2. CASE a \in 1..Len(msgs)
        <5>1. RowFits(a) /\ msgs'[a] = msgs[a]
          BY <1>5, <4>2 DEF Rows, NewRequest
        <5>2. msgs[a] \in Message
          BY <4>2 DEF TypeOK
        <5>3. msgs[a].role \in {"user", "assistant"}
          BY <5>2 DEF Message
        <5> QED
          BY <1>1, <4>2, <5>1, <5>3 DEF RowFits
      <4> QED
        BY <1>1, <1>5, <4>1, <4>2 DEF NewRequest
    <3>2. \A p \in Requests \ {r} : Flying(p)' => req'[p].msg # Len(msgs) + 1
      BY <1>1, <1>2, <1>3 DEF FlightFits
    <3> QED
      BY <1>1, <1>5, <2>1, <3>1, <3>2 DEF FlightFits, NewRequest, Open, Closing
  <2>2. CASE q # r
    <3>1. FlightFits(q) /\ req'[q] = req[q]
      BY <1>2, <1>3, <2>2
    <3>2. req'[q].msg # Len(msgs) + 1 /\ req'[q].msg \in 1..Len(msgs')
      BY <1>1, <1>5, <3>1 DEF FlightFits, NewRequest
    <3>3. \A p \in Requests \ {q} : Flying(p)' => req'[p].msg # req'[q].msg
      BY <1>2, <1>3, <1>5, <3>1, <3>2 DEF FlightFits
    <3>4. req[q].pc \in Open => \A a \in 1..Len(msgs') : msgs'[a].of # req[q].msg
      <4> SUFFICES ASSUME req[q].pc \in Open, NEW a \in 1..Len(msgs')
                   PROVE  msgs'[a].of # req[q].msg
        OBVIOUS
      <4>1. CASE a = Len(msgs) + 1
        BY <1>5, <3>1, <4>1 DEF NewRequest, FlightFits
      <4>2. CASE a \in 1..Len(msgs)
        BY <1>5, <3>1, <4>2 DEF NewRequest, FlightFits
      <4> QED
        BY <1>1, <1>5, <4>1, <4>2 DEF NewRequest
    <3> QED
      BY <1>1, <1>5, <3>1, <3>2, <3>3, <3>4 DEF FlightFits, NewRequest
  <2> QED
    BY <2>1, <2>2
<1>6. CASE /\ NewAnswer(r) /\ req[r].pc \in Open
           /\ \/ req'[r].pc = "idle"
              \/ /\ req'[r].pc = "record" /\ req'[r].msg = req[r].msg
                 /\ req'[r].src = req[r].src
  <2>1. Flying(r) /\ FlightFits(r)
    BY <1>6 DEF Flights, Flying, Open
  <2>2. CASE q = r
    <3>1. req'[r].pc = "record" /\ req'[r].msg = req[r].msg /\ req'[r].src = req[r].src
      BY <1>6, <2>2 DEF Flying
    <3>2. req'[r].pc \notin Open
      BY <3>1 DEF Open
    <3> QED
      BY <1>1, <1>2, <1>6, <2>1, <2>2, <3>1, <3>2 DEF FlightFits, NewAnswer, Flying
  <2>3. CASE q # r
    <3>1. FlightFits(q) /\ req'[q] = req[q] /\ Flying(q)
      BY <1>2, <1>3, <2>3
    <3>2. req[q].msg # req[r].msg
      BY <2>1, <2>3, <3>1 DEF FlightFits
    <3>3. \A p \in Requests \ {q} : Flying(p)' => req'[p].msg # req'[q].msg
      BY <1>2, <1>6, <3>1, <3>2 DEF FlightFits, Flying
    <3>4. req[q].pc \in Open => \A a \in 1..Len(msgs') : msgs'[a].of # req[q].msg
      <4> SUFFICES ASSUME req[q].pc \in Open, NEW a \in 1..Len(msgs')
                   PROVE  msgs'[a].of # req[q].msg
        OBVIOUS
      <4>1. CASE a = Len(msgs) + 1
        BY <1>6, <3>2, <4>1 DEF NewAnswer
      <4>2. CASE a \in 1..Len(msgs)
        BY <1>6, <3>1, <4>2 DEF NewAnswer, FlightFits
      <4> QED
        BY <1>1, <1>6, <4>1, <4>2 DEF NewAnswer
    <3> QED
      BY <1>1, <1>6, <3>1, <3>2, <3>3, <3>4 DEF FlightFits, NewAnswer
  <2> QED
    BY <2>2, <2>3
<1>7. CASE Noted(r) /\ Flying(r) /\ req'[r].pc = "idle"
  <2>1. q # r
    BY <1>7 DEF Flying
  <2>2. FlightFits(q) /\ req'[q] = req[q] /\ Flying(q) /\ FlightFits(r)
    BY <1>2, <1>3, <1>7, <2>1 DEF Flights
  <2>3. req[q].msg # req[r].msg
    BY <1>7, <2>1, <2>2 DEF FlightFits
  <2>4. \A p \in Requests \ {q} : Flying(p)' => req'[p].msg # req'[q].msg
    BY <1>2, <1>7, <2>2, <2>3 DEF FlightFits, Flying
  <2>5. req[q].pc \in Open => \A a \in 1..Len(msgs') : msgs'[a].of # req[q].msg
    BY <1>7, <2>2 DEF FlightFits, Noted
  <2> QED
    BY <1>7, <2>2, <2>3, <2>4, <2>5 DEF FlightFits, Noted
<1> QED
  BY <1>4, <1>5, <1>6, <1>7
-----------------------------------------------------------------------------
(* The tasks.                                                              *)

\* What is said of a task is still said of it when rows and tasks grow.
LEMMA TaskStillFits ==
    ASSUME TypeOK, Tasks, RowsGrow, TasksGrow, NEW t \in 1..Len(tasks),
           tasks'[t].made = tasks[t].made
    PROVE  TaskFits(t)'
<1>1. Len(msgs) \in Nat /\ Len(msgs') \in Nat /\ Len(msgs) <= Len(msgs')
  BY DEF TypeOK, RowsGrow
<1>2. TaskFits(t) /\ tasks'[t].src = tasks[t].src
  BY DEF Tasks, TasksGrow
<1>3. /\ tasks[t].src \in 1..Len(msgs) /\ msgs[tasks[t].src].saved
      /\ Len(tasks[t].made) \in 1..MaxTasks
  BY <1>2 DEF TaskFits
<1>4. tasks[t].src \in 1..Len(msgs') /\ msgs'[tasks[t].src].saved
  BY <1>1, <1>3 DEF RowsGrow
<1>5. ASSUME NEW n \in 1..Len(tasks[t].made)
      PROVE  /\ tasks[t].made[n] \in 1..Len(msgs')
             /\ msgs'[tasks[t].made[n]].role = "assistant"
  <2>1. tasks[t].made[n] \in 1..Len(msgs) /\ msgs[tasks[t].made[n]].role = "assistant"
    BY <1>2 DEF TaskFits
  <2> QED
    BY <1>1, <2>1 DEF RowsGrow
<1> QED
  BY <1>2, <1>3, <1>4, <1>5 DEF TaskFits

LEMMA TaskFitsNew ==
    ASSUME TypeOK, NEW r \in Requests, NEW src \in 1..Len(msgs), NewTask(r, src),
           NewAnswer(r), msgs'[src].saved, Len(tasks') <= MaxTasks,
           NEW t, t = Len(tasks) + 1
    PROVE  TaskFits(t)'
<1>1. tasks'[t].src = src /\ tasks'[t].made = <<Len(msgs) + 1>>
  BY DEF NewTask
<1>2. Len(msgs) \in Nat /\ Len(tasks) \in Nat /\ Len(msgs') = Len(msgs) + 1
  BY DEF TypeOK, NewAnswer
<1>3. 1 \in 1..MaxTasks
  BY <1>2 DEF NewTask
<1>4. /\ Len(<<Len(msgs) + 1>>) = 1
      /\ \A n \in 1..1 : <<Len(msgs) + 1>>[n] = Len(msgs) + 1
  OBVIOUS
<1>5. Len(msgs) + 1 \in 1..Len(msgs') /\ msgs'[Len(msgs) + 1].role = "assistant"
  BY <1>2 DEF NewAnswer
<1> DEFINE made == <<Len(msgs) + 1>>
<1>6. /\ tasks'[t].made = made /\ Len(made) \in 1..MaxTasks
      /\ \A n \in 1..Len(made) : made[n] \in 1..Len(msgs') /\ msgs'[made[n]].role = "assistant"
  BY <1>1, <1>3, <1>4, <1>5
<1>7. src \in 1..Len(msgs')
  BY <1>2
<1> HIDE DEF made
<1> QED
  BY <1>1, <1>6, <1>7 DEF TaskFits

LEMMA TaskFitsRevised ==
    ASSUME TypeOK, Tasks, NEW r \in Requests, NEW c \in 1..Len(tasks), NewRevision(c),
           NewAnswer(r), Len(tasks[c].made) < MaxTasks
    PROVE  TaskFits(c)'
<1>1. RowsGrow /\ TasksGrow
  BY EveryChangeGrows, TasksChangeGrows
<1>2. TaskFits(c)
  BY DEF Tasks
<1>3. Len(msgs) \in Nat /\ Len(msgs') = Len(msgs) + 1
  BY DEF TypeOK, NewAnswer
<1>4. Len(tasks[c].made) \in Nat /\ Len(tasks'[c].made) = Len(tasks[c].made) + 1
  BY <1>2 DEF TaskFits, NewRevision
<1>5. ASSUME NEW n \in 1..Len(tasks'[c].made)
      PROVE  tasks'[c].made[n] \in 1..Len(msgs') /\ msgs'[tasks'[c].made[n]].role = "assistant"
  <2>1. CASE n = Len(tasks[c].made) + 1
    <3>1. tasks'[c].made[n] = Len(msgs) + 1
      BY <2>1 DEF NewRevision
    <3>2. msgs'[Len(msgs) + 1].role = "assistant"
      BY DEF NewAnswer
    <3> QED
      BY <1>3, <3>1, <3>2
  <2>2. CASE n \in 1..Len(tasks[c].made)
    <3>1. tasks'[c].made[n] = tasks[c].made[n]
      BY <2>2 DEF NewRevision
    <3>2. tasks[c].made[n] \in 1..Len(msgs) /\ msgs[tasks[c].made[n]].role = "assistant"
      BY <1>2, <2>2 DEF TaskFits
    <3> QED
      BY <1>1, <1>3, <3>1, <3>2 DEF RowsGrow
  <2> QED
    BY <1>4, <2>1, <2>2
<1> QED
  BY <1>1, <1>2, <1>3, <1>4, <1>5 DEF TaskFits, RowsGrow, TasksGrow

\* A message that was turned into a task is not offered again.
LEMMA UsedKept ==
    ASSUME TypeOK, Tasks, Used, RowsGrow, TasksGrow,
           \A t \in Len(tasks) + 1..Len(tasks') : TurnedIntoTask(tasks[t].src)'
    PROVE  Used'
<1> SUFFICES ASSUME NEW t \in 1..Len(tasks') PROVE TurnedIntoTask(tasks[t].src)'
  BY DEF Used
<1>1. Len(tasks) \in Nat /\ Len(tasks') \in Nat /\ Len(msgs) \in Nat /\ Len(msgs') \in Nat
      /\ Len(msgs) <= Len(msgs')
  BY DEF TypeOK, TasksGrow, RowsGrow
<1>2. CASE t \in 1..Len(tasks)
  <2>1. tasks'[t].src = tasks[t].src /\ tasks[t].src \in 1..Len(msgs)
    BY <1>2 DEF TasksGrow, Tasks, TaskFits
  <2>2. TurnedIntoTask(tasks[t].src)
    BY <1>2 DEF Used
  <2> DEFINE src == tasks[t].src
  <2>3. src \in 1..Len(msgs) /\ TurnedIntoTask(src) /\ tasks'[t].src = src
    BY <2>1, <2>2
  <2> HIDE DEF src
  <2>4. CASE msgs[src].linked
    BY <2>3, <2>4 DEF RowsGrow, TurnedIntoTask
  <2>5. CASE ~msgs[src].linked
    <3>1. PICK a, b \in 1..Len(msgs) : /\ src < a /\ a < b
                                       /\ msgs[a].role = "assistant"
                                       /\ msgs[b].role = "assistant"
      BY <2>3, <2>5 DEF TurnedIntoTask
    <3>2. a \in 1..Len(msgs') /\ b \in 1..Len(msgs')
      BY <1>1
    <3> QED
      BY <2>3, <3>1, <3>2 DEF RowsGrow, TurnedIntoTask
  <2> QED
    BY <2>4, <2>5
<1> QED
  BY <1>1, <1>2

\* What a confirmation has found, and that it has found no task.
ConfirmationFits(r) ==
    /\ req[r].prompt \in 1..Len(msgs) /\ req[r].src \in 1..req[r].prompt - 1
    /\ msgs[req[r].prompt].role = "assistant"
    /\ msgs[req[r].prompt].of = req[r].src
    /\ msgs[req[r].src].saved
    /\ req[r].saw <= Len(tasks)
    /\ \A i \in 1..req[r].saw : tasks[i].src # req[r].src

LEMMA ConfirmationsKept ==
    ASSUME TypeOK, Confirmations, RowsGrow, TasksGrow, NEW r \in Requests, Others(r),
           req'[r].pc = "confirmed" => ConfirmationFits(r)'
    PROVE  Confirmations'
<1> SUFFICES ASSUME NEW q \in Requests, req'[q].pc = "confirmed" PROVE ConfirmationFits(q)'
  BY DEF Confirmations, ConfirmationFits
<1>1. CASE q = r
  BY <1>1
<1>2. CASE q # r
  <2>1. req'[q] = req[q]
    BY <1>2 DEF Others
  <2>2. ConfirmationFits(q)
    BY <2>1 DEF Confirmations, ConfirmationFits
  <2>3. req[q].prompt \in Nat /\ req[q].src \in Nat /\ req[q].saw \in Nat
    BY DEF TypeOK, Request, Places
  <2>4. Len(msgs) \in Nat /\ Len(tasks) \in Nat
    BY DEF TypeOK
  <2>5. \A i \in 1..req[q].saw : i \in 1..Len(tasks) /\ tasks'[i].src = tasks[i].src
    BY <2>2, <2>3, <2>4 DEF ConfirmationFits, TasksGrow
  <2>6. /\ req[q].prompt \in 1..Len(msgs') /\ req[q].src \in 1..Len(msgs)
        /\ req[q].saw <= Len(tasks')
    BY <2>2, <2>3, <2>4 DEF ConfirmationFits, RowsGrow, TasksGrow
  <2> QED
    BY <2>1, <2>2, <2>5, <2>6 DEF ConfirmationFits, RowsGrow
<1> QED
  BY <1>1, <1>2

\* A candidate is the request of the newest answer, and no task is made of it.
LEMMA CandidateFits ==
    ASSUME TypeOK, Rows, Flights, Tasks, Used, NEW r \in Requests, req[r].pc = "received",
           NEW m \in Candidates(r)
    PROVE  /\ Newest(r) \in 1..Len(msgs) /\ m \in 1..Newest(r) - 1
           /\ msgs[Newest(r)].role = "assistant" /\ msgs[Newest(r)].of = m
           /\ msgs[m].saved
           /\ \A i \in 1..Len(tasks) : tasks[i].src # m
<1>1. Len(msgs) \in Nat /\ DOMAIN msgs = 1..Len(msgs)
  BY DEF TypeOK
<1>2. /\ Committed(r) # {} /\ m \in Committed(r)
      /\ msgs[Newest(r)].role = "assistant"
      /\ msgs[m].role = "user" /\ ~msgs[m].linked
      /\ \A k \in Committed(r) : msgs[k].role = "assistant" /\ k # Newest(r) => k < m
  BY DEF Candidates
<1>3. Newest(r) \in Committed(r) /\ \A k \in Committed(r) : k <= Newest(r)
  BY <1>2, NewestIs
<1>4. \A k \in Committed(r) : k \in 1..Len(msgs) /\ msgs[k].saved
  BY <1>1 DEF Committed
<1>5. req[r].msg \in 1..Len(msgs) /\ msgs[req[r].msg].role = "user"
  BY DEF Flights, FlightFits, Flying
<1>6. ASSUME NEW a \in 1..Len(msgs), msgs[a].role = "assistant"
      PROVE  a \in Committed(r)
  <2>1. msgs[a].saved
    BY <1>6 DEF Rows, RowFits
  <2> QED
    BY <1>1, <1>5, <1>6, <2>1 DEF Committed
<1> DEFINE newest == Newest(r)
<1>7. newest \in 1..Len(msgs) /\ msgs[newest].role = "assistant"
  BY <1>2, <1>3, <1>4
<1>8. \A a \in 1..Len(msgs) : msgs[a].role = "assistant" /\ a > m => a = newest
  BY <1>1, <1>2, <1>4, <1>6
<1>9. \A a \in 1..Len(msgs) : msgs[a].role = "assistant" => a <= newest
  BY <1>3, <1>6
<1> HIDE DEF newest
<1>10. m \in 1..Len(msgs) /\ msgs[m].saved
  BY <1>2, <1>4
<1>11. PICK a \in 1..Len(msgs) : msgs[a].role = "assistant" /\ msgs[a].of = m
  BY <1>2, <1>10 DEF Rows, RowFits
<1>12. a > m
  BY <1>10, <1>11 DEF Rows, RowFits
<1>13. a = newest
  BY <1>8, <1>11, <1>12
<1>14. ASSUME NEW i \in 1..Len(tasks) PROVE tasks[i].src # m
  <2> SUFFICES ASSUME tasks[i].src = m PROVE FALSE
    OBVIOUS
  <2>1. TurnedIntoTask(m)
    BY DEF Used
  <2>2. PICK x, y \in 1..Len(msgs) : /\ m < x /\ x < y
                                     /\ msgs[x].role = "assistant"
                                     /\ msgs[y].role = "assistant"
    BY <1>2, <2>1 DEF TurnedIntoTask
  <2>3. x = newest /\ y <= newest
    BY <1>8, <1>9, <2>2
  <2> QED
    BY <1>7, <2>2, <2>3
<1> QED
  BY <1>2, <1>7, <1>10, <1>11, <1>12, <1>13, <1>14 DEF newest

\* Two tasks of the same words: the second was decided before the first.
LEMMA OneTaskKept ==
    ASSUME TypeOK, OneTaskPerRequest, TasksGrow, DOMAIN tasks' = DOMAIN tasks
    PROVE  OneTaskPerRequest'
<1>1. DOMAIN tasks = 1..Len(tasks)
  BY DEF TypeOK
<1> QED
  BY <1>1 DEF OneTaskPerRequest, TasksGrow

LEMMA OneTaskAdded ==
    ASSUME TypeOK, OneTaskPerRequest, NEW r \in Requests, NEW src, NewTask(r, src),
           \A t \in DOMAIN tasks : tasks[t].src = src => req[r].saw < t
    PROVE  OneTaskPerRequest'
<1> PICK last \in Nat : last = Len(tasks)
  BY DEF TypeOK
<1>1. DOMAIN tasks = 1..last /\ DOMAIN tasks' = 1..last + 1
  BY DEF NewTask, TypeOK
<1>2. tasks'[last + 1].src = src /\ tasks'[last + 1].saw = req[r].saw
  BY DEF NewTask
<1>3. \A t \in 1..last : tasks'[t] = tasks[t]
  BY DEF NewTask
<1>4. ASSUME NEW i \in 1..last
      PROVE  /\ tasks'[i].src = src => req[r].saw < i
             /\ \A j \in 1..last : i < j /\ tasks'[i].src = tasks'[j].src => tasks'[j].saw < i
  BY <1>1, <1>3 DEF OneTaskPerRequest
<1>5. ASSUME NEW i \in 1..last + 1, NEW j \in 1..last + 1, i < j
      PROVE  i \in 1..last /\ (j \in 1..last \/ j = last + 1)
  BY <1>5
<1> QED
  BY <1>1, <1>2, <1>4, <1>5 DEF OneTaskPerRequest

\* The revision made of a message is the one its request will record, and the
\* one an understanding that is stored names.
Answers(t, n) == msgs[tasks[t].made[n]].of

Names(t, n) ==
    /\ \A r \in Requests : req[r].pc \in Closing /\ Answers(t, n) = req[r].msg
         => req[r].names = [task |-> t, rev |-> n]
    /\ msgs[Answers(t, n)].mode # "none"
         => msgs[Answers(t, n)].names = [task |-> t, rev |-> n]
AllNamed == \A t \in 1..Len(tasks) : \A n \in 2..Len(tasks[t].made) : Names(t, n)

LEMMA AllNamedIs ==
    ASSUME TypeOK, Tasks
    PROVE  AllNamed <=> WillName /\ UnderstandingNamesItsRevision
<1>1. Len(tasks) \in Nat /\ DOMAIN tasks = 1..Len(tasks)
  BY DEF TypeOK
<1>2. ASSUME NEW t \in 1..Len(tasks)
      PROVE  /\ Len(tasks[t].made) \in Nat
             /\ DOMAIN tasks[t].made = 1..Len(tasks[t].made)
  BY DEF TypeOK, Task
<1>3. WillName <=> \A t \in 1..Len(tasks) : \A n \in 2..Len(tasks[t].made) :
        \A r \in Requests : req[r].pc \in Closing /\ Answers(t, n) = req[r].msg
          => req[r].names = [task |-> t, rev |-> n]
  BY DEF WillName, Answers
<1>4. UnderstandingNamesItsRevision <=>
        \A t \in 1..Len(tasks) : \A n \in 2..Len(tasks[t].made) :
          msgs[Answers(t, n)].mode # "none"
            => msgs[Answers(t, n)].names = [task |-> t, rev |-> n]
  <2>1. ASSUME NEW t \in 1..Len(tasks), NEW n
        PROVE  n \in DOMAIN tasks[t].made /\ n > 1 <=> n \in 2..Len(tasks[t].made)
    BY <1>2
  <2>2. UnderstandingNamesItsRevision <=>
          \A t \in 1..Len(tasks) : \A n \in DOMAIN tasks[t].made :
            n > 1 /\ msgs[Answers(t, n)].mode # "none"
              => msgs[Answers(t, n)].names = [task |-> t, rev |-> n]
    BY <1>1, Zenon DEF UnderstandingNamesItsRevision, Answers
  <2> QED
    BY <2>1, <2>2
<1> QED
  BY <1>3, <1>4 DEF AllNamed, Names

\* A revision keeps its name through a step that neither answers its message
\* nor changes the request that will record it.
LEMMA NameKept ==
    ASSUME TypeOK, Rows, Tasks, Flights, AllNamed, RowsGrow, TasksGrow,
           NEW t \in 1..Len(tasks), NEW n \in 2..Len(tasks[t].made),
           NEW r \in Requests, Others(r),
           \/ \A m \in 1..Len(msgs) :
                msgs'[m].mode = msgs[m].mode /\ msgs'[m].names = msgs[m].names
           \/ Noted(r) /\ req[r].pc \in Closing,
           \/ req'[r].pc \notin Closing
           \/ req[r].pc \in Open /\ req'[r].msg = req[r].msg
           \/ /\ req[r].pc \in Closing /\ req'[r].msg = req[r].msg
              /\ req[r].names.rev # 0 => req'[r].names = req[r].names
    PROVE  Names(t, n)'
<1> DEFINE of == Answers(t, n)
<1>1. Len(tasks[t].made) \in Nat
  BY DEF Tasks, TaskFits
<1>2. n \in 1..Len(tasks[t].made)
  BY <1>1
<1>3. /\ tasks[t].made[n] \in 1..Len(msgs)
      /\ msgs[tasks[t].made[n]].role = "assistant"
  BY <1>2 DEF Tasks, TaskFits
<1>4. of \in 1..Len(msgs)
  <2>1. of \in 1..tasks[t].made[n] - 1
    BY <1>3 DEF Rows, RowFits, Answers
  <2> QED
    BY <1>3, <2>1 DEF TypeOK
<1>5. Answers(t, n)' = of
  BY <1>2, <1>3 DEF Answers, RowsGrow, TasksGrow
<1>6. /\ \A q \in Requests : req[q].pc \in Closing /\ of = req[q].msg
           => req[q].names = [task |-> t, rev |-> n]
      /\ msgs[of].mode # "none" => msgs[of].names = [task |-> t, rev |-> n]
  BY DEF AllNamed, Names
<1>7. \A q \in Requests : req[q].pc \in Open => req[q].msg # of
  BY <1>3 DEF Flights, FlightFits, Flying, Open, Answers
<1> HIDE DEF of
<1>8. ASSUME NEW q \in Requests, req'[q].pc \in Closing, of = req'[q].msg
      PROVE  req'[q].names = [task |-> t, rev |-> n]
  <2>1. CASE q # r
    BY <1>6, <1>8, <2>1 DEF Others
  <2>2. CASE q = r
    <3>1. CASE req[r].pc \in Open /\ req'[r].msg = req[r].msg
      BY <1>7, <1>8, <2>2, <3>1
    <3>2. CASE /\ req[r].pc \in Closing /\ req'[r].msg = req[r].msg
               /\ req[r].names.rev # 0 => req'[r].names = req[r].names
      <4>1. req[r].names = [task |-> t, rev |-> n]
        BY <1>6, <1>8, <2>2, <3>2
      <4>2. req[r].names.rev # 0
        BY <4>1
      <4> QED
        BY <2>2, <3>2, <4>1, <4>2
    <3> QED
      BY <1>8, <2>2, <3>1, <3>2
  <2> QED
    BY <2>1, <2>2
<1>9. msgs'[of].mode # "none" => msgs'[of].names = [task |-> t, rev |-> n]
  <2>1. CASE \A m \in 1..Len(msgs) :
                msgs'[m].mode = msgs[m].mode /\ msgs'[m].names = msgs[m].names
    BY <1>4, <1>6, <2>1
  <2>2. CASE Noted(r) /\ req[r].pc \in Closing
    BY <1>4, <1>6, <2>2 DEF Noted
  <2> QED
    BY <2>1, <2>2
<1> QED
  BY <1>5, <1>8, <1>9 DEF Names
-----------------------------------------------------------------------------
(* The invariant, and what is common to its steps.                         *)

Inv == /\ TypeOK
       /\ Rows
       /\ Flights
       /\ Tasks
       /\ Used
       /\ Confirmations
       /\ AllNamed
       /\ OneTaskPerRequest
       /\ Serial

LEMMA TasksKept ==
    ASSUME TypeOK, Tasks, TasksGrow, NEW r \in Requests, Others(r),
           \A t \in 1..Len(tasks') : TaskFits(t)',
           ContextFits(r)',
           holder' \subseteq holder \cup {r},
           r \in holder' => req'[r].pc \in {"understood", "activated"},
           snap'.anchor.task \in 0..Len(tasks')
    PROVE  Tasks'
<1>1. Len(tasks) \in Nat /\ Len(tasks') \in Nat /\ Len(tasks) <= Len(tasks')
  BY DEF TypeOK, TasksGrow
<1>2. ASSUME NEW q \in Requests PROVE ContextFits(q)'
  <2>1. CASE q = r
    BY <2>1
  <2>2. CASE q # r
    <3>1. req'[q] = req[q] /\ ContextFits(q)
      BY <2>2 DEF Others, Tasks
    <3>2. 0..Len(tasks) \subseteq 0..Len(tasks')
      BY <1>1
    <3> QED
      BY <3>1, <3>2 DEF ContextFits
  <2> QED
    BY <2>1, <2>2
<1>3. ASSUME NEW q \in holder' PROVE req'[q].pc \in {"understood", "activated"}
  <2>1. q \in Requests
    BY DEF TypeOK
  <2>2. CASE q = r
    BY <2>2
  <2>3. CASE q # r
    BY <2>1, <2>3 DEF Others, Tasks
  <2> QED
    BY <2>2, <2>3
<1> QED
  BY <1>2, <1>3 DEF Tasks

LEMMA AllTasksFit ==
    ASSUME TypeOK, Tasks, RowsGrow, TasksGrow, tasks' = tasks
    PROVE  \A t \in 1..Len(tasks') : TaskFits(t)'
  BY TaskStillFits

\* The revision that is active stays active when its task is not changed.
LEMMA ActiveKept ==
    ASSUME TypeOK, NEW t \in 0..Len(tasks),
           \A u \in 1..Len(tasks) : u = t => tasks'[u] = tasks[u]
    PROVE  ActiveRevision(t)' = ActiveRevision(t)
<1>1. t = 0 \/ t \in 1..Len(tasks)
  BY DEF TypeOK
<1> QED
  BY <1>1 DEF ActiveRevision

LEMMA SerialKept ==
    ASSUME TypeOK, Serial, NEW r \in Requests, Others(r), Flying(r), crowded' = crowded,
           ~crowded /\ Alone(r) /\ Fresh(r) /\ SnapFresh
             => (Flying(r)' => Fresh(r)') /\ SnapFresh'
    PROVE  Serial'
<1> SUFFICES ASSUME ~crowded
             PROVE  /\ \A q \in Requests : Flying(q)' => Alone(q)' /\ Fresh(q)'
                    /\ SnapFresh'
  BY DEF Serial
<1>1. Alone(r) /\ Fresh(r) /\ SnapFresh
  BY DEF Serial
<1>2. \A q \in Requests : Flying(q)' => q = r
  BY <1>1 DEF Alone, Others, Flying
<1>3. (Flying(r)' => Fresh(r)') /\ SnapFresh'
  BY <1>1
<1>4. Flying(r)' => Alone(r)'
  BY <1>2 DEF Alone
<1> QED
  BY <1>2, <1>3, <1>4

LEMMA NamesKept ==
    ASSUME TypeOK, Rows, Tasks, Flights, AllNamed, RowsGrow, tasks' = tasks,
           NEW r \in Requests, Others(r),
           \/ \A m \in 1..Len(msgs) :
                msgs'[m].mode = msgs[m].mode /\ msgs'[m].names = msgs[m].names
           \/ Noted(r) /\ req[r].pc \in Closing,
           \/ req'[r].pc \notin Closing
           \/ req[r].pc \in Open /\ req'[r].msg = req[r].msg
           \/ /\ req[r].pc \in Closing /\ req'[r].msg = req[r].msg
              /\ req[r].names.rev # 0 => req'[r].names = req[r].names
    PROVE  AllNamed'
<1>1. TasksGrow
  BY TasksChangeGrows
<1> SUFFICES ASSUME NEW t \in 1..Len(tasks), NEW n \in 2..Len(tasks[t].made)
             PROVE  Names(t, n)'
  BY DEF AllNamed
<1> QED
  BY <1>1, NameKept

\* A step that changes neither rows nor tasks nor the snapshot.
LEMMA QuietStep ==
    ASSUME Inv, NEW r \in Requests, Others(r), Flying(r),
           msgs' = msgs, tasks' = tasks, snap' = snap, crowded' = crowded,
           req' \in [Requests -> Request], holder' \in SUBSET Requests,
           \/ req'[r].pc = "idle"
           \/ /\ req'[r].msg = req[r].msg /\ req'[r].src \in 0..Len(msgs)
              /\ \/ req[r].pc \in Open /\ req'[r].pc \in Open
                 \/ /\ req[r].pc \in Closing /\ req'[r].pc \in Closing
                    /\ req[r].names.rev # 0 => req'[r].names = req[r].names,
           ContextFits(r)',
           holder' \subseteq holder \cup {r},
           r \in holder' => req'[r].pc \in {"understood", "activated"},
           req'[r].pc = "confirmed" => ConfirmationFits(r)',
           ~crowded /\ Fresh(r) /\ Flying(r)' => Fresh(r)'
    PROVE  Inv'
<1> USE DEF Inv
<1>1. TypeOK'
  BY DEF TypeOK
<1>2. Rows'
  BY RowsKept
<1>3. Flights'
  BY FlightsKept
<1>4. RowsGrow /\ TasksGrow
  BY EveryChangeGrows, TasksChangeGrows
<1>5. Tasks'
  <2>1. snap'.anchor.task \in 0..Len(tasks')
    BY DEF Tasks
  <2>2. \A t \in 1..Len(tasks') : TaskFits(t)'
    BY <1>4, AllTasksFit
  <2> QED
    BY <1>4, <2>1, <2>2, TasksKept
<1>6. Used'
  <2>1. Len(tasks) + 1..Len(tasks') = {}
    BY DEF TypeOK
  <2> QED
    BY <1>4, <2>1, UsedKept
<1>7. Confirmations'
  BY <1>4, ConfirmationsKept
<1>8. AllNamed'
  <2>1. "idle" \notin Closing /\ \A pc \in Open : pc \notin Closing
    BY DEF Open, Closing
  <2> QED
    BY <1>4, <2>1, NamesKept
<1>9. OneTaskPerRequest'
  BY <1>4, OneTaskKept
<1>10. Serial'
  <2>1. SnapFresh => SnapFresh'
    BY DEF SnapFresh, ActiveRevision
  <2> QED
    BY <2>1, SerialKept
<1> QED
  BY <1>1, <1>2, <1>3, <1>5, <1>6, <1>7, <1>8, <1>9, <1>10
-----------------------------------------------------------------------------
(* The steps.                                                              *)

LEMMA StopKeeps ==
    ASSUME Inv, NEW r \in Requests, Stop(r)
    PROVE  Inv'
<1>1. /\ req' \in [Requests -> Request] /\ Others(r) /\ req'[r].pc = "idle"
  BY Forgotten DEF Inv, Stop, Fail
<1>2. /\ msgs' = msgs /\ tasks' = tasks /\ snap' = snap /\ crowded' = crowded
      /\ holder' = holder \ {r} /\ Flying(r)
  BY DEF Stop, Fail, Flying
<1>3. holder' \in SUBSET Requests
  BY <1>2 DEF Inv, TypeOK
<1>4. ContextFits(r)' /\ Fresh(r)'
  BY <1>1 DEF ContextFits, Fresh, Closing
<1> QED
  BY <1>1, <1>2, <1>3, <1>4, QuietStep

LEMMA ConfirmKeeps ==
    ASSUME Inv, NEW r \in Requests, Confirm(r)
    PROVE  Inv'
<1>1. /\ req' \in [Requests -> Request] /\ Others(r)
      /\ req[r].pc = "received"
      /\ req'[r].pc = "confirmed" /\ req'[r].msg = req[r].msg
      /\ req'[r].prompt = Newest(r) /\ req'[r].src \in Candidates(r)
      /\ req'[r].saw = Len(tasks)
  BY ConfirmDoes DEF Inv
<1>2. /\ msgs' = msgs /\ tasks' = tasks /\ snap' = snap /\ crowded' = crowded
      /\ holder' = holder /\ Flying(r)
  BY <1>1 DEF Confirm, Flying
<1>3. holder' \in SUBSET Requests /\ r \notin holder'
  BY <1>1, <1>2 DEF Inv, TypeOK, Tasks
<1>4. ContextFits(r)' /\ Fresh(r)'
  BY <1>1 DEF ContextFits, Fresh, Closing
<1>5. Len(msgs) \in Nat /\ Len(tasks) \in Nat
  BY DEF Inv, TypeOK
<1> DEFINE m == req'[r].src
<1>6. /\ Newest(r) \in 1..Len(msgs) /\ m \in 1..Newest(r) - 1
      /\ msgs[Newest(r)].role = "assistant" /\ msgs[Newest(r)].of = m
      /\ msgs[m].saved
      /\ \A i \in 1..Len(tasks) : tasks[i].src # m
  BY <1>1, CandidateFits DEF Inv
<1>7. ConfirmationFits(r)'
  BY <1>1, <1>2, <1>5, <1>6 DEF ConfirmationFits
<1>8. req'[r].src \in 0..Len(msgs)
  BY <1>5, <1>6
<1>9. req[r].pc \in Open /\ req'[r].pc \in Open
  BY <1>1 DEF Open
<1> QED
  BY <1>1, <1>2, <1>3, <1>4, <1>7, <1>8, <1>9, QuietStep

LEMMA UnderstandKeeps ==
    ASSUME Inv, NEW r \in Requests, Understand(r)
    PROVE  Inv'
<1>1. /\ req' \in [Requests -> Request] /\ Others(r)
      /\ req[r].pc = "received"
      /\ req'[r].pc = "understood" /\ req'[r].msg = req[r].msg
      /\ req'[r].src = req[r].src
      /\ req'[r].ctx.task \in 0..Len(tasks)
      /\ req'[r].ctx = ActiveRevision(req'[r].ctx.task)
  BY UnderstandDoes DEF Inv
<1>2. /\ msgs' = msgs /\ tasks' = tasks /\ snap' = snap /\ crowded' = crowded
      /\ holder' \in {holder, {r}} /\ Flying(r)
  BY <1>1 DEF Understand, Flying
<1>3. holder' \in SUBSET Requests /\ holder' \subseteq holder \cup {r}
  BY <1>2 DEF Inv, TypeOK
<1>4. ContextFits(r)'
  BY <1>1, <1>2 DEF ContextFits, Closing
<1>5. Fresh(r)'
  BY <1>1, <1>2 DEF Fresh, ActiveRevision
<1>6. req'[r].src \in 0..Len(msgs)
  BY <1>1, <1>2 DEF Inv, Flights, FlightFits
<1>7. req[r].pc \in Open /\ req'[r].pc \in Open
  BY <1>1 DEF Open
<1> QED
  BY <1>1, <1>2, <1>3, <1>4, <1>5, <1>6, <1>7, QuietStep

LEMMA ActivateKeeps ==
    ASSUME Inv, NEW r \in Requests, Activate(r)
    PROVE  Inv'
<1>1. /\ req' \in [Requests -> Request] /\ Others(r)
      /\ req[r].pc = "understood"
      /\ req'[r].pc = "activated" /\ req'[r].msg = req[r].msg
      /\ req'[r].src = req[r].src
      /\ req'[r].ctx = req[r].ctx
      /\ req'[r].names = [task |-> req[r].ctx.task, rev |-> req[r].ctx.rev + 1]
      /\ req'[r].seen = IF r \in holder THEN [exists |-> TRUE, anchor |-> req[r].ctx]
                        ELSE snap
  BY ActivateDoes DEF Inv
<1>2. /\ msgs' = msgs /\ tasks' = tasks /\ snap' = snap /\ crowded' = crowded
      /\ holder' = holder /\ Flying(r)
      /\ req[r].ctx.task # 0 /\ req[r].ctx.rev < MaxTasks
      /\ req[r].ctx = ActiveRevision(req[r].ctx.task)
  BY <1>1 DEF Activate, Flying
<1>3. holder' \in SUBSET Requests
  BY <1>2 DEF Inv, TypeOK
<1>4. ContextFits(r)'
  BY <1>1, <1>2 DEF Inv, Tasks, ContextFits, Closing
<1>5. Fresh(r)'
  BY <1>1, <1>2 DEF Fresh, ActiveRevision
<1>6. req'[r].src \in 0..Len(msgs)
  BY <1>1, <1>2 DEF Inv, Flights, FlightFits
<1>7. req[r].pc \in Open /\ req'[r].pc \in Open
  BY <1>1 DEF Open
<1> QED
  BY <1>1, <1>2, <1>3, <1>4, <1>5, <1>6, <1>7, QuietStep

LEMMA BeginRecordKeeps ==
    ASSUME Inv, NEW r \in Requests, BeginRecord(r)
    PROVE  Inv'
<1>1. /\ req' \in [Requests -> Request] /\ Others(r)
      /\ req[r].pc = "record" /\ req'[r].pc = "flush"
      /\ req'[r].msg = req[r].msg /\ req'[r].seen = snap
      /\ req'[r].src = req[r].src
      /\ req'[r].names = IF req[r].names.task # 0 /\ req[r].names.rev = 0
                         THEN ActiveRevision(req[r].names.task) ELSE req[r].names
      /\ req'[r].names.task = req[r].names.task
  BY BeginRecordDoes DEF Inv
<1>2. /\ msgs' = msgs /\ tasks' = tasks /\ snap' = snap /\ crowded' = crowded
      /\ holder' = holder /\ Flying(r)
  BY <1>1 DEF BeginRecord, Flying
<1>3. holder' \in SUBSET Requests /\ r \notin holder'
  BY <1>1, <1>2 DEF Inv, TypeOK, Tasks
<1>4. ContextFits(r)'
  BY <1>1, <1>2 DEF Inv, Tasks, ContextFits, Closing
<1>5. ~crowded /\ Fresh(r) => Fresh(r)'
  <2> SUFFICES ASSUME Fresh(r) PROVE Fresh(r)'
    OBVIOUS
  <2>1. req'[r].names = ActiveRevision(req'[r].names.task)
    <3>1. CASE req[r].names.task # 0 /\ req[r].names.rev = 0
      BY <1>1, <3>1
    <3>2. CASE req[r].names.task = 0 /\ req[r].names.rev = 0
      <4>1. req[r].names \in Anchors
        BY DEF Inv, TypeOK, Request
      <4>2. req[r].names = Nothing
        BY <3>2, <4>1 DEF Anchors, Nothing
      <4> QED
        BY <1>1, <3>2, <4>2 DEF ActiveRevision
    <3>3. CASE req[r].names.rev # 0
      <4>1. req[r].names = ActiveRevision(req[r].names.task)
        BY <1>1, <3>3 DEF Fresh
      <4> QED
        BY <1>1, <3>3, <4>1
    <3> QED
      BY <3>1, <3>2, <3>3
  <2>2. ActiveRevision(req[r].names.task)' = ActiveRevision(req'[r].names.task)
    BY <1>2 DEF ActiveRevision
  <2> QED
    BY <1>1, <1>2, <2>1, <2>2 DEF Fresh
<1>6. req'[r].src \in 0..Len(msgs)
  BY <1>1, <1>2 DEF Inv, Flights, FlightFits
<1>7. /\ req[r].pc \in Closing /\ req'[r].pc \in Closing
      /\ req[r].names.rev # 0 => req'[r].names = req[r].names
  BY <1>1 DEF Closing
<1> QED
  BY <1>1, <1>2, <1>3, <1>4, <1>5, <1>6, <1>7, QuietStep

LEMMA ReceiveKeeps ==
    ASSUME Inv, NEW r \in Requests, NEW confirms \in BOOLEAN, Receive(r, confirms)
    PROVE  Inv'
<1> USE DEF Inv
<1>1. /\ req' \in [Requests -> Request] /\ Others(r)
      /\ req'[r].pc = "received" /\ req'[r].msg = Len(msgs) + 1 /\ req'[r].src = 0
  BY ReceiveDoes
<1>2. NewRequest /\ Len(msgs') <= MaxMessages
  BY ReceivedRows
<1>3. /\ tasks' = tasks /\ snap' = snap /\ holder' = holder
      /\ req[r].pc = "idle"
      /\ crowded' = (crowded \/ \E q \in Requests : req[q].pc # "idle")
  BY DEF Receive
<1>4. crowded' \in BOOLEAN
  <2>1. crowded \in BOOLEAN
    BY DEF TypeOK
  <2>2. (crowded \/ \E q \in Requests : req[q].pc # "idle") \in BOOLEAN
    BY <2>1, Zenon
  <2> QED
    BY <1>3, <2>2, Zenon
<1>5. TypeOK'
  BY <1>1, <1>2, <1>3, <1>4 DEF TypeOK, NewRequest
<1>6. Rows' /\ Flights'
  BY <1>1, <1>2, RowsKept, FlightsKept
<1>7. RowsGrow /\ TasksGrow
  BY <1>2, <1>3, EveryChangeGrows, TasksChangeGrows
<1>8. Tasks'
  <2>1. ContextFits(r)'
    BY <1>1 DEF ContextFits, Closing
  <2>2. r \notin holder'
    BY <1>3 DEF Tasks
  <2>3. snap'.anchor.task \in 0..Len(tasks')
    BY <1>3 DEF Tasks
  <2>4. \A t \in 1..Len(tasks') : TaskFits(t)'
    BY <1>3, <1>7, AllTasksFit
  <2> QED
    BY <1>1, <1>3, <1>7, <2>1, <2>2, <2>3, <2>4, TasksKept
<1>9. Used'
  <2>1. Len(tasks) + 1..Len(tasks') = {}
    BY <1>3 DEF TypeOK
  <2> QED
    BY <1>7, <2>1, UsedKept
<1>10. Confirmations'
  BY <1>1, <1>7, ConfirmationsKept
<1>11. AllNamed'
  <2>1. \A m \in 1..Len(msgs) :
          msgs'[m].mode = msgs[m].mode /\ msgs'[m].names = msgs[m].names
    BY <1>2 DEF NewRequest
  <2>2. req'[r].pc \notin Closing
    BY <1>1 DEF Closing
  <2> QED
    BY <1>1, <1>3, <1>7, <2>1, <2>2, NamesKept
<1>12. OneTaskPerRequest'
  BY <1>3, <1>7, OneTaskKept
<1>13. Serial'
  <2> SUFFICES ASSUME ~crowded'
               PROVE  /\ \A q \in Requests : Flying(q)' => Alone(q)' /\ Fresh(q)'
                      /\ SnapFresh'
    BY DEF Serial
  <2>1. ~crowded
    BY <1>3
  <2>2. \A q \in Requests : req[q].pc = "idle"
    BY <1>3
  <2>3. \A q \in Requests : Flying(q)' => q = r
    BY <1>1, <2>2 DEF Flying, Others
  <2>4. Alone(r)' /\ Fresh(r)'
    BY <1>1, <2>3 DEF Alone, Fresh
  <2>5. SnapFresh'
    BY <1>3, <2>1 DEF Serial, SnapFresh, ActiveRevision
  <2> QED
    BY <2>3, <2>4, <2>5
<1> QED
  BY <1>5, <1>6, <1>8, <1>9, <1>10, <1>11, <1>12, <1>13

\* The end of the first transaction.
LEMMA AnswerStep ==
    ASSUME Inv, NEW r \in Requests, Others(r), req[r].pc \in Open,
           NewAnswer(r), Len(msgs') <= MaxMessages,
           TasksGrow, tasks' \in Seq(Task), Len(tasks') <= MaxTasks,
           snap' \in Snapshot, snap'.anchor.task \in 0..Len(tasks'),
           holder' \subseteq holder \ {r}, crowded' = crowded,
           req' \in [Requests -> Request],
           \/ req'[r].pc = "idle"
           \/ /\ req'[r].pc = "record" /\ req'[r].msg = req[r].msg
              /\ req'[r].src = req[r].src /\ req'[r].names.task \in 0..Len(tasks'),
           \A t \in 1..Len(tasks') : TaskFits(t)',
           \A t \in Len(tasks) + 1..Len(tasks') : TurnedIntoTask(tasks[t].src)',
           \A t \in 1..Len(tasks') : \A n \in 2..Len(tasks'[t].made) :
             (t \in 1..Len(tasks) /\ n \in 2..Len(tasks[t].made)) \/ Names(t, n)',
           OneTaskPerRequest',
           ~crowded /\ Fresh(r) /\ SnapFresh => SnapFresh' /\ (Flying(r)' => Fresh(r)')
    PROVE  Inv'
<1> USE DEF Inv
<1>1. TypeOK'
  BY DEF TypeOK, NewAnswer
<1>2. Flying(r)
  BY DEF Flying, Open
<1>3. Rows' /\ Flights'
  BY <1>2, RowsKept, FlightsKept
<1>4. RowsGrow
  BY EveryChangeGrows
<1>5. Tasks'
  <2>1. ContextFits(r)'
    BY DEF ContextFits, Closing
  <2>2. holder' \subseteq holder \cup {r} /\ r \notin holder'
    OBVIOUS
  <2> QED
    BY <2>1, <2>2, TasksKept
<1>6. Used'
  BY <1>4, UsedKept
<1>7. Confirmations'
  BY <1>4, ConfirmationsKept
<1>8. AllNamed'
  <2>1. \A m \in 1..Len(msgs) :
          msgs'[m].mode = msgs[m].mode /\ msgs'[m].names = msgs[m].names
    BY DEF NewAnswer
  <2>2. req'[r].pc \notin Closing \/ req'[r].msg = req[r].msg
    BY DEF Closing
  <2>3. ASSUME NEW t \in 1..Len(tasks), NEW n \in 2..Len(tasks[t].made)
        PROVE  Names(t, n)'
    BY <1>4, <2>1, <2>2, NameKept
  <2> QED
    BY <2>3 DEF AllNamed
<1>9. Serial'
  BY <1>2, SerialKept
<1> QED
  BY <1>1, <1>3, <1>5, <1>6, <1>7, <1>8, <1>9

LEMMA RefuseKeeps ==
    ASSUME Inv, NEW r \in Requests, RefuseConfirmation(r)
    PROVE  Inv'
<1>1. /\ req' \in [Requests -> Request] /\ Others(r) /\ req'[r].pc = "idle"
  BY Forgotten DEF Inv, RefuseConfirmation
<1>2. /\ tasks' = tasks /\ snap' = snap /\ crowded' = crowded /\ holder' = holder
      /\ req[r].pc = "received" /\ msgs' = Answered(r) /\ Len(msgs) < MaxMessages
  BY DEF RefuseConfirmation
<1>3. req[r].pc \in Open /\ r \notin holder /\ req[r].msg \in 1..Len(msgs)
  BY <1>2 DEF Open, Inv, Tasks, Flights, FlightFits, Flying
<1>4. NewAnswer(r)
  BY <1>2, <1>3, AnswerIsNew DEF Inv
<1>5. Len(msgs') <= MaxMessages
  BY <1>2, <1>4 DEF NewAnswer, Inv, TypeOK
<1>6. RowsGrow /\ TasksGrow
  BY <1>2, <1>4, EveryChangeGrows, TasksChangeGrows DEF Inv
<1>7. \A t \in 1..Len(tasks') : TaskFits(t)'
  BY <1>2, <1>6, AllTasksFit DEF Inv
<1>8. /\ tasks' \in Seq(Task) /\ Len(tasks') <= MaxTasks
      /\ snap' \in Snapshot /\ snap'.anchor.task \in 0..Len(tasks')
      /\ Len(tasks) + 1..Len(tasks') = {}
  BY <1>2 DEF Inv, TypeOK, Tasks
<1>9. OneTaskPerRequest'
  BY <1>2, <1>6, OneTaskKept DEF Inv
<1>10. SnapFresh => SnapFresh'
  BY <1>2 DEF SnapFresh, ActiveRevision
<1>11. ~Flying(r)'
  BY <1>1 DEF Flying
<1>12. holder' \subseteq holder \ {r}
  BY <1>2, <1>3
<1> QED
  BY <1>1, <1>2, <1>3, <1>4, <1>5, <1>6, <1>7, <1>8, <1>9, <1>10, <1>11, <1>12, AnswerStep

LEMMA AnswerInWordsKeeps ==
    ASSUME Inv, NEW r \in Requests, NEW mode \in Modes, AnswerInWords(r, mode)
    PROVE  Inv'
<1>1. /\ tasks' = tasks /\ crowded' = crowded /\ req[r].pc = "understood"
      /\ msgs' = Answered(r) /\ Len(msgs) < MaxMessages /\ Commit(r)
  BY DEF AnswerInWords
<1>2. req[r].ctx \in Anchors
  BY DEF Inv, TypeOK, Request
<1>3. Recorded(r, req[r].ctx)
  BY <1>2, ToRecord DEF Inv, AnswerInWords
<1>4. /\ req' \in [Requests -> Request] /\ Others(r)
      /\ req'[r].pc = "record" /\ req'[r].msg = req[r].msg
      /\ req'[r].names = req[r].ctx /\ req'[r].src = req[r].src
  BY <1>3 DEF Recorded
<1>5. /\ req[r].pc \in Open /\ req[r].msg \in 1..Len(msgs)
      /\ req[r].ctx.task \in 0..Len(tasks)
  BY <1>1 DEF Open, Inv, Flights, FlightFits, Flying, Tasks, ContextFits
<1>6. NewAnswer(r)
  BY <1>1, <1>5, AnswerIsNew DEF Inv
<1>7. Len(msgs') <= MaxMessages
  BY <1>1, <1>6 DEF NewAnswer, Inv, TypeOK
<1>8. RowsGrow /\ TasksGrow
  BY <1>1, <1>6, EveryChangeGrows, TasksChangeGrows DEF Inv
<1>9. \A t \in 1..Len(tasks') : TaskFits(t)'
  BY <1>1, <1>8, AllTasksFit DEF Inv
<1>10. /\ snap' \in Snapshot
       /\ holder' = holder \ {r}
       /\ snap'.anchor = IF r \in holder THEN req[r].ctx ELSE snap.anchor
  BY <1>1, CommittedSnap DEF Inv
<1>11. /\ tasks' \in Seq(Task) /\ Len(tasks') <= MaxTasks
       /\ snap'.anchor.task \in 0..Len(tasks')
       /\ Len(tasks) + 1..Len(tasks') = {}
  BY <1>1, <1>5, <1>10 DEF Inv, TypeOK, Tasks
<1>12. OneTaskPerRequest'
  BY <1>1, <1>8, OneTaskKept DEF Inv
<1>13. Fresh(r) /\ SnapFresh => SnapFresh' /\ Fresh(r)'
  <2> SUFFICES ASSUME Fresh(r), SnapFresh PROVE SnapFresh' /\ Fresh(r)'
    OBVIOUS
  <2>1. req[r].ctx = ActiveRevision(req[r].ctx.task)
    BY <1>1 DEF Fresh
  <2>2. SnapFresh'
    BY <1>1, <1>10, <2>1 DEF SnapFresh, ActiveRevision
  <2>3. Fresh(r)'
    BY <1>1, <1>4, <2>1 DEF Fresh, ActiveRevision
  <2> QED
    BY <2>2, <2>3
<1>14. req'[r].names.task \in 0..Len(tasks')
  BY <1>1, <1>4, <1>5
<1> QED
  BY <1>1, <1>4, <1>5, <1>6, <1>7, <1>8, <1>9, <1>10, <1>11, <1>12, <1>13, <1>14, AnswerStep

\* A task is added for words that were answered before, or for the message.
LEMMA AddTaskDoes ==
    ASSUME Inv, NEW r \in Requests, req[r].pc \in Open, NEW src \in 1..Len(msgs),
           AddTask(r, src), msgs[src].saved \/ src = req[r].msg,
           \A t \in 1..Len(tasks) : tasks[t].src = src => req[r].saw < t,
           \/ src = req[r].msg
           \/ \E a \in 1..Len(msgs) : src < a /\ msgs[a].role = "assistant"
    PROVE  /\ NewAnswer(r) /\ Len(msgs') <= MaxMessages
           /\ TasksGrow /\ NewTask(r, src) /\ Len(tasks') <= MaxTasks
           /\ \A t \in 1..Len(tasks') : TaskFits(t)'
           /\ \A t \in Len(tasks) + 1..Len(tasks') : TurnedIntoTask(tasks[t].src)'
           /\ \A t \in 1..Len(tasks') : \A n \in 2..Len(tasks'[t].made) :
                t \in 1..Len(tasks) /\ n \in 2..Len(tasks[t].made)
           /\ OneTaskPerRequest'
<1> USE DEF Inv
<1> PICK last \in Nat : last = Len(tasks)
  BY DEF TypeOK
<1>1. req[r].msg \in 1..Len(msgs) /\ Len(msgs) < MaxMessages /\ Len(msgs) \in Nat
  BY DEF Flights, FlightFits, Flying, Open, AddTask, TypeOK
<1>2. NewAnswer(r) /\ msgs'[req[r].msg].linked
  BY <1>1, TaskRowIsNew DEF AddTask
<1>3. Len(msgs') = Len(msgs) + 1 /\ Len(msgs') <= MaxMessages
  BY <1>1, <1>2 DEF NewAnswer
<1>4. src \in Places
  BY <1>1 DEF Places
<1>5. NewTask(r, src) /\ Len(tasks') <= MaxTasks
  BY <1>4, TaskAdded
<1>6. RowsGrow /\ TasksGrow
  BY <1>2, <1>5, EveryChangeGrows, TasksChangeGrows
<1>7. msgs'[src].saved
  BY <1>2 DEF NewAnswer
<1>8. /\ Len(tasks') = last + 1 /\ \A t \in 1..last : tasks'[t] = tasks[t]
      /\ tasks'[last + 1].src = src /\ tasks'[last + 1].made = <<Len(msgs) + 1>>
  BY <1>5 DEF NewTask
<1>9. ASSUME NEW t \in 1..last + 1 PROVE TaskFits(t)'
  <2>1. CASE t = last + 1
    BY <1>2, <1>5, <1>7, <2>1, TaskFitsNew
  <2>2. CASE t \in 1..last
    BY <1>6, <1>8, <2>2, TaskStillFits
  <2> QED
    BY <2>1, <2>2
<1>10. TurnedIntoTask(src)'
  <2>1. CASE src = req[r].msg
    BY <1>2, <2>1 DEF TurnedIntoTask
  <2>2. CASE \E a \in 1..Len(msgs) : src < a /\ msgs[a].role = "assistant"
    <3>1. PICK a \in 1..Len(msgs) : src < a /\ msgs[a].role = "assistant"
      BY <2>2
    <3>2. msgs'[a].role = "assistant" /\ msgs'[Len(msgs) + 1].role = "assistant"
      BY <1>2, <3>1 DEF NewAnswer
    <3>3. a \in 1..Len(msgs') /\ Len(msgs) + 1 \in 1..Len(msgs') /\ a < Len(msgs) + 1
      BY <1>1, <1>3
    <3> QED
      BY <3>1, <3>2, <3>3 DEF TurnedIntoTask
  <2> QED
    BY <2>1, <2>2
<1>11. \A t \in last + 1..Len(tasks') : TurnedIntoTask(tasks[t].src)'
  <2> SUFFICES ASSUME NEW t \in last + 1..Len(tasks') PROVE TurnedIntoTask(tasks[t].src)'
    OBVIOUS
  <2>1. tasks'[t].src = src
    BY <1>8
  <2> QED
    BY <1>10, <2>1 DEF TurnedIntoTask
<1>12. ASSUME NEW t \in 1..last + 1, NEW n \in 2..Len(tasks'[t].made)
       PROVE  t \in 1..last /\ n \in 2..Len(tasks[t].made)
  <2>1. CASE t = last + 1
    <3>1. Len(tasks'[t].made) = 1
      BY <1>8, <2>1
    <3> QED
      BY <3>1
  <2>2. CASE t \in 1..last
    BY <1>8, <2>2
  <2> QED
    BY <2>1, <2>2
<1>13. OneTaskPerRequest'
  <2>1. DOMAIN tasks = 1..Len(tasks)
    BY DEF TypeOK
  <2> QED
    BY <1>5, <2>1, OneTaskAdded
<1> QED
  BY <1>2, <1>3, <1>5, <1>6, <1>8, <1>9, <1>11, <1>12, <1>13

LEMMA CreateConfirmedKeeps ==
    ASSUME Inv, NEW r \in Requests, NEW mode \in Modes, CreateConfirmed(r, mode)
    PROVE  Inv'
<1> DEFINE src == req[r].src
           names == [task |-> Len(tasks) + 1, rev |-> 0]
<1>1. /\ snap' = snap /\ crowded' = crowded /\ holder' = holder
      /\ req[r].pc = "confirmed" /\ AddTask(r, src)
      /\ req' = [req EXCEPT ![r].pc = "record", ![r].mode = mode, ![r].names = names]
  BY DEF CreateConfirmed
<1>2. Len(tasks) \in Nat /\ Len(tasks) < MaxTasks /\ Len(msgs) \in Nat
  BY <1>1 DEF AddTask, Inv, TypeOK
<1>3. names \in Anchors /\ names.task = Len(tasks) + 1 /\ names.rev = 0
  BY <1>2 DEF Anchors
<1> HIDE DEF names
<1>4. /\ req' \in [Requests -> Request] /\ Others(r)
      /\ req'[r].pc = "record" /\ req'[r].msg = req[r].msg
      /\ req'[r].names = names /\ req'[r].src = req[r].src
  BY <1>1, <1>3, ToRecord DEF Recorded, Inv
<1>5. ConfirmationFits(r)
  BY <1>1 DEF Inv, Confirmations, ConfirmationFits
<1>6. /\ req[r].prompt \in 1..Len(msgs) /\ src \in 1..Len(msgs)
      /\ src < req[r].prompt /\ msgs[req[r].prompt].role = "assistant" /\ msgs[src].saved
  BY <1>2, <1>5 DEF ConfirmationFits
<1>7. \A t \in 1..Len(tasks) : tasks[t].src = src => req[r].saw < t
  <2>1. req[r].saw \in Nat /\ \A t \in 1..req[r].saw : tasks[t].src # src
    BY <1>5 DEF ConfirmationFits, Inv, TypeOK, Request
  <2> QED
    BY <2>1
<1>8. req[r].pc \in Open /\ r \notin holder
  BY <1>1 DEF Open, Inv, Tasks
<1>9. /\ NewAnswer(r) /\ Len(msgs') <= MaxMessages
      /\ TasksGrow /\ NewTask(r, src) /\ Len(tasks') <= MaxTasks
      /\ \A t \in 1..Len(tasks') : TaskFits(t)'
      /\ \A t \in Len(tasks) + 1..Len(tasks') : TurnedIntoTask(tasks[t].src)'
      /\ \A t \in 1..Len(tasks') : \A n \in 2..Len(tasks'[t].made) :
           t \in 1..Len(tasks) /\ n \in 2..Len(tasks[t].made)
      /\ OneTaskPerRequest'
  BY <1>1, <1>6, <1>7, <1>8, AddTaskDoes
<1>10. /\ tasks' \in Seq(Task) /\ Len(tasks') = Len(tasks) + 1
       /\ \A t \in 1..Len(tasks) : tasks'[t] = tasks[t]
  BY <1>9 DEF NewTask
<1>11. /\ snap' \in Snapshot /\ snap'.anchor.task \in 0..Len(tasks)
       /\ snap'.anchor.task \in 0..Len(tasks')
       /\ req'[r].names.task \in 0..Len(tasks')
  BY <1>1, <1>2, <1>3, <1>4, <1>10 DEF Inv, TypeOK, Tasks
<1>12. SnapFresh => SnapFresh' /\ Fresh(r)'
  <2>1. ActiveRevision(snap.anchor.task)' = ActiveRevision(snap.anchor.task)
    <3> DEFINE t == snap.anchor.task
    <3>1. t' = t /\ t \in 0..Len(tasks)
      BY <1>1 DEF Inv, Tasks
    <3>2. t = 0 \/ t \in 1..Len(tasks)
      BY <1>2, <3>1
    <3> QED
      BY <1>10, <3>1, <3>2 DEF ActiveRevision
  <2>2. SnapFresh => SnapFresh'
    BY <1>1, <2>1 DEF SnapFresh
  <2>3. Fresh(r)'
    BY <1>3, <1>4 DEF Fresh
  <2> QED
    BY <2>2, <2>3
<1>13. holder' \subseteq holder \ {r}
  BY <1>1, <1>8
<1> QED
  BY <1>1, <1>4, <1>8, <1>9, <1>10, <1>11, <1>12, <1>13, AnswerStep

LEMMA StartTaskKeeps ==
    ASSUME Inv, NEW r \in Requests, NEW mode \in Modes, StartTask(r, mode)
    PROVE  Inv'
<1> DEFINE src == req[r].msg
           ctx == req[r].ctx
           fresh == [task |-> Len(tasks) + 1, rev |-> 0]
           names == IF ctx # Nothing THEN ctx ELSE fresh
<1>1. /\ crowded' = crowded /\ req[r].pc = "understood" /\ AddTask(r, src) /\ Commit(r)
      /\ req' = [req EXCEPT ![r].pc = "record", ![r].mode = mode, ![r].names = names]
  BY DEF StartTask
<1>2. Len(tasks) \in Nat /\ Len(tasks) < MaxTasks /\ Len(msgs) \in Nat
  BY <1>1 DEF AddTask, Inv, TypeOK
<1>3. ctx \in Anchors /\ ctx.task \in 0..Len(tasks)
  BY <1>1 DEF Inv, TypeOK, Request, Tasks, ContextFits
<1>4. fresh \in Anchors /\ fresh.task = Len(tasks) + 1 /\ fresh.rev = 0
  BY <1>2 DEF Anchors
<1>5. names \in {ctx, fresh}
  OBVIOUS
<1>6. ctx = req[r].ctx /\ src = req[r].msg
  OBVIOUS
<1> HIDE DEF names, fresh, ctx, src
<1>7. names \in Anchors
  BY <1>3, <1>4, <1>5
<1>8. /\ req' \in [Requests -> Request] /\ Others(r)
      /\ req'[r].pc = "record" /\ req'[r].msg = req[r].msg
      /\ req'[r].names = names /\ req'[r].src = req[r].src
  BY <1>1, <1>7, ToRecord DEF Recorded, Inv
<1>9. req[r].pc \in Open /\ src \in 1..Len(msgs) /\ ~msgs[src].saved
  BY <1>1, <1>6 DEF Open, Inv, Flights, FlightFits, Flying
<1>10. \A t \in 1..Len(tasks) : tasks[t].src # src
  BY <1>9 DEF Inv, Tasks, TaskFits
<1>11. /\ NewAnswer(r) /\ Len(msgs') <= MaxMessages
       /\ TasksGrow /\ NewTask(r, src) /\ Len(tasks') <= MaxTasks
       /\ \A t \in 1..Len(tasks') : TaskFits(t)'
       /\ \A t \in Len(tasks) + 1..Len(tasks') : TurnedIntoTask(tasks[t].src)'
       /\ \A t \in 1..Len(tasks') : \A n \in 2..Len(tasks'[t].made) :
            t \in 1..Len(tasks) /\ n \in 2..Len(tasks[t].made)
       /\ OneTaskPerRequest'
  BY <1>1, <1>6, <1>9, <1>10, AddTaskDoes
<1>12. /\ tasks' \in Seq(Task) /\ Len(tasks') = Len(tasks) + 1
       /\ \A t \in 1..Len(tasks) : tasks'[t] = tasks[t]
  BY <1>11 DEF NewTask
<1>13. /\ snap' \in Snapshot
       /\ holder' = holder \ {r}
       /\ snap'.anchor = IF r \in holder THEN ctx ELSE snap.anchor
  BY <1>1, <1>6, CommittedSnap DEF Inv
<1>14. snap'.anchor.task \in 0..Len(tasks) /\ req'[r].names.task \in 0..Len(tasks) + 1
  BY <1>2, <1>3, <1>4, <1>5, <1>8, <1>13 DEF Inv, Tasks
<1>15. snap'.anchor.task \in 0..Len(tasks') /\ req'[r].names.task \in 0..Len(tasks')
  BY <1>2, <1>12, <1>14
<1>16. ASSUME NEW t \in 0..Len(tasks) PROVE ActiveRevision(t)' = ActiveRevision(t)
  BY <1>12, ActiveKept DEF Inv
<1>17. Fresh(r) /\ SnapFresh => SnapFresh' /\ Fresh(r)'
  <2> SUFFICES ASSUME Fresh(r), SnapFresh PROVE SnapFresh' /\ Fresh(r)'
    OBVIOUS
  <2>1. ctx = ActiveRevision(ctx.task)
    BY <1>1, <1>6 DEF Fresh
  <2>2. snap'.anchor.task # 0 => snap'.anchor = ActiveRevision(snap'.anchor.task)
    BY <1>13, <2>1 DEF SnapFresh
  <2>3. SnapFresh'
    <3> PICK t \in 0..Len(tasks) : t = snap'.anchor.task
      BY <1>14
    <3>1. t # 0 => snap'.anchor = ActiveRevision(t)'
      BY <1>16, <2>2
    <3> QED
      BY <3>1 DEF SnapFresh, ActiveRevision
  <2>4. Fresh(r)'
    <3>1. CASE names = fresh
      BY <1>4, <1>8, <3>1 DEF Fresh
    <3>2. CASE names = ctx
      <4> PICK t \in 0..Len(tasks) : t = ctx.task
        BY <1>3
      <4>1. req'[r].names = ActiveRevision(t)'
        BY <1>8, <1>16, <2>1, <3>2
      <4>2. req'[r].names.task = t
        BY <1>8, <3>2
      <4>3. ActiveRevision(req[r].names.task)' = ActiveRevision(t)'
        BY <4>2 DEF ActiveRevision
      <4> QED
        BY <1>8, <4>1, <4>3 DEF Fresh
    <3> QED
      BY <1>5, <3>1, <3>2
  <2> QED
    BY <2>3, <2>4
<1>18. holder' \subseteq holder \ {r}
  BY <1>13
<1> QED
  BY <1>1, <1>8, <1>9, <1>11, <1>12, <1>13, <1>15, <1>17, <1>18, AnswerStep

LEMMA CorrectKeeps ==
    ASSUME Inv, NEW r \in Requests, NEW mode \in Modes, Correct(r, mode)
    PROVE  Inv'
<1>1. TypeOK /\ Flights /\ Tasks
  BY DEF Inv
<1>2. PICK c \in 1..Len(tasks) :
        c = req[r].ctx.task /\ req[r].names = [task |-> c, rev |-> req[r].ctx.rev + 1]
  <2>1. ContextFits(r) /\ req[r].pc = "activated" /\ Len(tasks) \in Nat
    BY <1>1 DEF Correct, Tasks, TypeOK
  <2>2. req[r].ctx.task \in 0..Len(tasks) /\ req[r].ctx.task # 0
    BY <2>1 DEF ContextFits
  <2>3. req[r].ctx.task \in 1..Len(tasks)
    BY <2>1, <2>2
  <2> QED
    BY <2>1, <2>3 DEF ContextFits
<1>3. tasks' = [tasks EXCEPT ![c].made = Append(@, Len(msgs) + 1)]
  BY <1>2 DEF Correct
<1>4. msgs' = Answered(r)
  BY DEF Correct
<1>5. req' = [req EXCEPT ![r].pc = "record", ![r].mode = mode]
  BY DEF Correct
<1>6. Refresh(r)
  BY DEF Correct
<1>7. crowded' = crowded /\ req[r].pc = "activated" /\ Len(msgs) < MaxMessages
  BY DEF Correct
<1>8. Len(tasks) \in Nat /\ Len(msgs) \in Nat /\ c # 0
  BY <1>1 DEF TypeOK
<1>9. req[r].ctx = [task |-> c, rev |-> Len(tasks[c].made)]
  BY <1>2, <1>8 DEF Correct, ActiveRevision
<1>10. Len(tasks[c].made) \in Nat /\ Len(tasks[c].made) < MaxTasks
  <2>1. req[r].ctx.rev < MaxTasks
    BY <1>1, <1>7 DEF Tasks, ContextFits
  <2>2. Len(tasks[c].made) \in Nat
    BY <1>1 DEF Tasks, TaskFits
  <2> QED
    BY <1>9, <2>1, <2>2
<1>11. req[r].names = [task |-> c, rev |-> Len(tasks[c].made) + 1]
  BY <1>2, <1>9
<1>12. req[r].names \in Anchors
  BY <1>1 DEF TypeOK, Request
<1>13. /\ req' \in [Requests -> Request] /\ Others(r)
      /\ req'[r].pc = "record" /\ req'[r].msg = req[r].msg
      /\ req'[r].names = req[r].names /\ req'[r].src = req[r].src
  <2>1. Recorded(r, req[r].names)
    BY <1>1, <1>5, <1>12, ToRecord
  <2> QED
    BY <2>1 DEF Recorded
<1>14. /\ req[r].pc \in Open /\ req[r].msg \in 1..Len(msgs)
      /\ \A a \in 1..Len(msgs) : msgs[a].of # req[r].msg
      /\ msgs[req[r].msg].mode = "none"
      /\ \A q \in Requests \ {r} : Flying(q) => req[q].msg # req[r].msg
  <2>1. req[r].pc \in Open /\ Flying(r)
    BY <1>7 DEF Open, Flying
  <2>2. FlightFits(r)
    BY <1>1, <2>1 DEF Flights
  <2> QED
    BY <2>1, <2>2 DEF FlightFits
<1>15. NewAnswer(r)
  BY <1>1, <1>4, <1>7, <1>14, AnswerIsNew
<1>16. Len(msgs') = Len(msgs) + 1 /\ Len(msgs') <= MaxMessages
  BY <1>7, <1>8, <1>15 DEF NewAnswer
<1>17. NewRevision(c)
  BY <1>1, <1>3, <1>7, RevisionAdded
<1>18. RowsGrow /\ TasksGrow
  BY <1>1, <1>15, <1>17, EveryChangeGrows, TasksChangeGrows
<1>19. tasks' \in Seq(Task) /\ Len(tasks') = Len(tasks)
  BY <1>17 DEF NewRevision
<1>20. ASSUME NEW t \in 1..Len(tasks) PROVE TaskFits(t)'
  <2>1. CASE t = c
    BY <1>1, <1>10, <1>15, <1>17, <2>1, TaskFitsRevised
  <2>2. CASE t # c
    <3>1. tasks'[t].made = tasks[t].made
      BY <1>17, <2>2 DEF NewRevision
    <3> QED
      BY <1>1, <1>18, <3>1, TaskStillFits
  <2> QED
    BY <2>1, <2>2
<1>21. /\ snap' \in Snapshot /\ holder' = {}
       /\ snap'.anchor = Moved(r)
       /\ snap'.anchor.task \in
            {req[r].names.task, snap.anchor.task}
              \cup (IF r \in holder THEN {req[r].ctx.task} ELSE {})
  BY <1>1, <1>6, Refreshed
<1>22. snap'.anchor.task \in 0..Len(tasks') /\ req'[r].names.task \in 0..Len(tasks')
  <2>1. c \in 0..Len(tasks) /\ snap.anchor.task \in 0..Len(tasks)
    BY <1>1 DEF Tasks
  <2> QED
    BY <1>9, <1>11, <1>13, <1>19, <1>21, <2>1
<1>23. ASSUME NEW t \in 1..Len(tasks), NEW n \in 2..Len(tasks'[t].made)
       PROVE  n \in 2..Len(tasks[t].made) \/ Names(t, n)'
  <2>1. CASE t # c
    BY <1>17, <2>1 DEF NewRevision
  <2>2. CASE t = c /\ n = Len(tasks[c].made) + 1
    <3>1. tasks'[t].made[n] = Len(msgs) + 1 /\ msgs'[Len(msgs) + 1].of = req[r].msg
      BY <1>15, <1>17, <2>2 DEF NewRevision, NewAnswer
    <3>2. Answers(t, n)' = req[r].msg
      BY <3>1 DEF Answers
    <3>3. msgs'[req[r].msg].mode = "none"
      BY <1>14, <1>15 DEF NewAnswer
    <3>4. ASSUME NEW q \in Requests, req'[q].pc \in Closing, req[r].msg = req'[q].msg
          PROVE  req'[q].names = [task |-> t, rev |-> n]
      <4>1. CASE q = r
        BY <1>11, <1>13, <2>2, <4>1
      <4>2. CASE q # r
        BY <1>13, <1>14, <3>4, <4>2 DEF Others, Flying, Closing
      <4> QED
        BY <4>1, <4>2
    <3> QED
      BY <3>2, <3>3, <3>4 DEF Names
  <2>3. CASE t = c /\ n # Len(tasks[c].made) + 1
    <3>1. n \in 2..Len(tasks[c].made) + 1
      BY <1>17, <2>3 DEF NewRevision
    <3> QED
      BY <1>10, <2>3, <3>1
  <2> QED
    BY <2>1, <2>2, <2>3
<1>24. OneTaskPerRequest'
  <2>1. DOMAIN tasks' = DOMAIN tasks
    BY <1>1, <1>19 DEF TypeOK
  <2> QED
    BY <1>1, <1>18, <2>1, OneTaskKept DEF Inv
<1>25. ActiveRevision(c)' = req[r].names
  BY <1>8, <1>11, <1>17 DEF ActiveRevision, NewRevision
<1>26. Fresh(r) => SnapFresh' /\ Fresh(r)'
  <2> SUFFICES ASSUME Fresh(r) PROVE SnapFresh' /\ Fresh(r)'
    OBVIOUS
  <2>1. req[r].seen = IF r \in holder THEN [exists |-> TRUE, anchor |-> req[r].ctx] ELSE snap
    BY <1>7 DEF Fresh
  <2>2. req[r].seen.anchor = IF r \in holder THEN req[r].ctx ELSE snap.anchor
    BY <2>1
  <2>3. Moved(r) = req[r].names
    BY <1>12, <2>2 DEF Moved, Written, Anchors
  <2>4. snap'.anchor = req[r].names /\ snap'.anchor.task = c
    BY <1>11, <1>21, <2>3
  <2>5. SnapFresh'
    BY <1>25, <2>4 DEF SnapFresh, ActiveRevision
  <2>6. Fresh(r)'
    BY <1>11, <1>13, <1>25 DEF Fresh, ActiveRevision
  <2> QED
    BY <2>5, <2>6
<1>27. /\ Len(tasks) + 1..Len(tasks') = {} /\ Len(tasks') <= MaxTasks
       /\ holder' \subseteq holder \ {r}
  BY <1>1, <1>8, <1>19, <1>21 DEF TypeOK
<1> QED
  BY <1>7, <1>13, <1>14, <1>15, <1>16, <1>18, <1>19, <1>20, <1>21, <1>22, <1>23, <1>24,
     <1>26, <1>27, AnswerStep

LEMMA RecordKeeps ==
    ASSUME Inv, NEW r \in Requests, Record(r)
    PROVE  Inv'
<1> USE DEF Inv
<1>1. /\ req' \in [Requests -> Request] /\ Others(r) /\ req'[r].pc = "idle"
  BY Forgotten DEF Record
<1>2. tasks' = tasks /\ crowded' = crowded /\ req[r].pc = "flush" /\ Refresh(r)
  BY DEF Record
<1>3. req[r].pc \in Closing /\ Flying(r) /\ r \notin holder
  BY <1>2 DEF Closing, Flying, Tasks
<1>4. req[r].msg \in 1..Len(msgs) /\ req[r].src \in 0..Len(msgs)
  BY <1>3 DEF Flights, FlightFits
<1>5. Noted(r)
  BY <1>4, RecordRows
<1>6. /\ snap' \in Snapshot /\ holder' = {}
      /\ snap'.anchor = Moved(r)
      /\ snap'.anchor.task \in {req[r].names.task, snap.anchor.task}
  BY <1>2, <1>3, Refreshed
<1>7. TypeOK'
  BY <1>1, <1>2, <1>5, <1>6 DEF TypeOK, Noted
<1>8. Rows' /\ Flights'
  BY <1>1, <1>3, <1>5, RowsKept, FlightsKept
<1>9. RowsGrow /\ TasksGrow
  BY <1>2, <1>5, EveryChangeGrows, TasksChangeGrows
<1>10. Tasks'
  <2>1. ContextFits(r)'
    BY <1>1 DEF ContextFits, Closing
  <2>2. snap'.anchor.task \in 0..Len(tasks')
    BY <1>2, <1>3, <1>6 DEF Tasks, ContextFits
  <2>3. \A t \in 1..Len(tasks') : TaskFits(t)'
    BY <1>2, <1>9, AllTasksFit
  <2> QED
    BY <1>1, <1>6, <1>9, <2>1, <2>2, <2>3, TasksKept
<1>11. Used'
  <2>1. Len(tasks) + 1..Len(tasks') = {}
    BY <1>2 DEF TypeOK
  <2> QED
    BY <1>9, <2>1, UsedKept
<1>12. Confirmations'
  BY <1>1, <1>9, ConfirmationsKept
<1>13. AllNamed'
  <2>1. req'[r].pc \notin Closing
    BY <1>1 DEF Closing
  <2> QED
    BY <1>1, <1>2, <1>3, <1>5, <1>9, <2>1, NamesKept
<1>14. OneTaskPerRequest'
  BY <1>2, <1>9, OneTaskKept
<1>15. Serial'
  <2>1. ~Flying(r)'
    BY <1>1 DEF Flying
  <2>2. Fresh(r) => SnapFresh'
    <3> SUFFICES ASSUME Fresh(r) PROVE SnapFresh'
      OBVIOUS
    <3>1. req[r].seen = snap /\ req[r].names = ActiveRevision(req[r].names.task)
      BY <1>2 DEF Fresh
    <3>2. req[r].names \in Anchors
      BY DEF TypeOK, Request
    <3>3. snap'.anchor = req[r].names
      BY <1>3, <1>6, <3>1, <3>2 DEF Moved, Written, Anchors
    <3> QED
      BY <1>2, <3>1, <3>3 DEF SnapFresh, ActiveRevision
  <2> QED
    BY <1>1, <1>2, <1>3, <2>1, <2>2, SerialKept
<1> QED
  BY <1>7, <1>8, <1>10, <1>11, <1>12, <1>13, <1>14, <1>15
-----------------------------------------------------------------------------
(* The theorems.                                                           *)

LEMMA InvInit ==
    ASSUME Init
    PROVE  Inv
<1>1. msgs = <<>> /\ Len(msgs) = 0 /\ tasks = <<>> /\ Len(tasks) = 0
  BY DEF Init
<1>2. \A r \in Requests : req[r] = NoRequest /\ req[r].pc = "idle"
  BY DEF Init, NoRequest
<1>3. snap = NoSnapshot /\ snap.anchor.task = 0 /\ holder = {}
  BY DEF Init, NoSnapshot, Nothing
<1>4. TypeOK
  <2>1. req \in [Requests -> Request] /\ snap \in Snapshot
    BY NothingTyped DEF Init
  <2>2. msgs \in Seq(Message) /\ tasks \in Seq(Task)
    BY <1>1
  <2>3. crowded \in BOOLEAN
    BY Zenon DEF Init
  <2> QED
    BY <1>1, <1>3, <2>1, <2>2, <2>3 DEF TypeOK
<1>5. Rows /\ Flights /\ Tasks /\ Used /\ Confirmations
  BY <1>1, <1>2, <1>3 DEF Rows, Flights, Flying, Tasks, ContextFits, Closing, Used,
     Confirmations
<1>6. AllNamed /\ OneTaskPerRequest
  BY <1>1 DEF AllNamed, OneTaskPerRequest
<1>7. Serial
  BY <1>2, <1>3 DEF Serial, Flying, SnapFresh
<1> QED
  BY <1>4, <1>5, <1>6, <1>7 DEF Inv

LEMMA InvNext ==
    ASSUME Inv, [Next]_vars
    PROVE  Inv'
<1>1. CASE UNCHANGED vars
  <2>1. /\ msgs' = msgs /\ tasks' = tasks /\ snap' = snap
        /\ holder' = holder /\ req' = req /\ crowded' = crowded
    BY <1>1 DEF vars
  <2>2. TypeOK' /\ Rows' /\ Flights'
    BY <2>1 DEF Inv, TypeOK, Rows, RowFits, Flights, FlightFits, Flying
  <2>3. Tasks' /\ Used'
    BY <2>1 DEF Inv, Tasks, TaskFits, ContextFits, Used, TurnedIntoTask
  <2>4. Confirmations'
    BY <2>1 DEF Inv, Confirmations
  <2>5. AllNamed'
    BY <2>1 DEF Inv, AllNamed, Names, Answers
  <2>6. OneTaskPerRequest'
    BY <2>1 DEF Inv, OneTaskPerRequest
  <2>7. Serial'
    BY <2>1 DEF Inv, Serial, Flying, Alone, Fresh, SnapFresh, ActiveRevision
  <2> QED
    BY <2>2, <2>3, <2>4, <2>5, <2>6, <2>7 DEF Inv
<1>2. ASSUME NEW r \in Requests,
             \/ \E confirms \in BOOLEAN : Receive(r, confirms)
             \/ Confirm(r)
             \/ RefuseConfirmation(r)
             \/ Understand(r)
             \/ Activate(r)
             \/ \E mode \in Modes :
                  \/ CreateConfirmed(r, mode)
                  \/ AnswerInWords(r, mode)
                  \/ StartTask(r, mode)
                  \/ Correct(r, mode)
             \/ BeginRecord(r)
             \/ Record(r)
             \/ Stop(r)
      PROVE  Inv'
  BY <1>2, ReceiveKeeps, ConfirmKeeps, RefuseKeeps, UnderstandKeeps, ActivateKeeps,
     CreateConfirmedKeeps, AnswerInWordsKeeps, StartTaskKeeps, CorrectKeeps,
     BeginRecordKeeps, RecordKeeps, StopKeeps
<1> QED
  BY <1>1, <1>2 DEF Next

LEMMA Invariant == Spec => []Inv
<1>1. Init => Inv
  BY InvInit
<1>2. Inv /\ [Next]_vars => Inv'
  BY InvNext
<1> QED
  BY <1>1, <1>2, PTL DEF Spec

\* The variables keep their types.
THEOREM ConversationTypes == Spec => []TypeOK
<1>1. Inv => TypeOK
  BY DEF Inv
<1> QED
  BY <1>1, Invariant, PTL

\* A confirmation of the chat creates the task it was asked about, however the
\* requests of the session overlapped.
THEOREM ConfirmationIsOfItsPrompt == Spec => []ConfirmsWhatWasAsked
<1>1. Inv => ConfirmsWhatWasAsked
  BY DEF Inv, Confirmations, ConfirmsWhatWasAsked
<1> QED
  BY <1>1, Invariant, PTL

\* The same words become two tasks only if the second was decided before the
\* first was there.
THEOREM ConfirmedOnce == Spec => []OneTaskPerRequest
<1>1. Inv => OneTaskPerRequest
  BY DEF Inv
<1> QED
  BY <1>1, Invariant, PTL

\* The understanding of a correction names the revision made of its message.
THEOREM UnderstandingFollowsRevision == Spec => []UnderstandingNamesItsRevision
<1>1. Inv => UnderstandingNamesItsRevision
  BY AllNamedIs DEF Inv
<1> QED
  BY <1>1, Invariant, PTL

\* A message is never committed without its answer.
THEOREM AnswersAreThere == Spec => []SavedWithItsAnswer
<1>1. Inv => SavedWithItsAnswer
  <2> SUFFICES ASSUME Inv, NEW m \in DOMAIN msgs, msgs[m].saved, msgs[m].role = "user"
               PROVE  \E a \in DOMAIN msgs : msgs[a].role = "assistant" /\ msgs[a].of = m
    BY DEF SavedWithItsAnswer
  <2>1. DOMAIN msgs = 1..Len(msgs)
    BY DEF Inv, TypeOK
  <2> QED
    BY <2>1 DEF Inv, Rows, RowFits
<1> QED
  BY <1>1, Invariant, PTL

\* The memory of a session whose messages come one at a time points to an
\* active revision.
THEOREM MemoryIsCurrent == Spec => []SnapshotIsCurrent
<1>1. Inv => SnapshotIsCurrent
  BY DEF Inv, Serial, SnapFresh, SnapshotIsCurrent
<1> QED
  BY <1>1, Invariant, PTL
=============================================================================
