------------------------ MODULE MessageStreamProofs ------------------------
(***************************************************************************)
(* What the message stream keeps for any number of retries and deltas:     *)
(* types, the body that is whole when it ends, and the result that reaches *)
(* the tab once it is in the queue.                                        *)
(***************************************************************************)
EXTENDS MessageStream, TLAPS

USE RetriesAssumption, PiecesAssumption

\* What a put does to the queue.
LEMMA PutAppends ==
  ASSUME TypeOK, NEW e \in Events, puts' = Append(puts, e)
  PROVE  /\ puts' \in Seq(Events)
         /\ Len(puts') = Len(puts) + 1
         /\ \A i \in 1..Len(puts) : puts'[i] = puts[i]
         /\ puts'[Len(puts')] = e
BY DEF TypeOK

\* The events of the thread are events.
LEMMA EventTypes ==
  /\ \A name \in {"message", "error", "done"} : Event(name) \in Events
  /\ \A piece \in Pieces : Delta(piece) \in Events
  /\ Composed \in Pieces /\ Fallback \in Pieces
  /\ \A a \in 0..MaxRetries + 1, i \in 1..MaxPieces : Piece(a, i) \in Pieces
<1>1. Composed \in Pieces /\ Fallback \in Pieces
  BY DEF Composed, Fallback, Piece, Pieces
<1>2. \A a \in 0..MaxRetries + 1, i \in 1..MaxPieces : Piece(a, i) \in Pieces
  BY DEF Piece, Pieces
<1>3. QED
  BY <1>1, <1>2 DEF Event, Delta, Events

LEMMA TypeInit == Init => TypeOK
BY DEF Init, TypeOK

\* Every step keeps the types; reading further needs an event to read.
LEMMA TypeNext == TypeOK /\ [Next]_vars => TypeOK'
<1> SUFFICES ASSUME TypeOK, [Next]_vars PROVE TypeOK'
  OBVIOUS
<1> USE DEF callVars, bodyVars, clientVars
<1>1. CASE RetryJson
  BY <1>1 DEF RetryJson, MayRetry, TypeOK
<1>2. CASE EndJson
  BY <1>2 DEF EndJson, TypeOK
<1>3. CASE Compose
  BY <1>3, EventTypes DEF Compose, TypeOK
<1>4. CASE Emit
  <2>1. Piece(attempt, emitted') \in Pieces /\ emitted' \in 0..MaxPieces
    BY <1>4, EventTypes DEF Emit, TypeOK
  <2>2. puts' \in Seq(Events) /\ Len(puts') = Len(puts) + 1
    BY <1>4, <2>1, EventTypes, PutAppends DEF Emit
  <2>3. streamed' \in Seq(Pieces)
    BY <1>4, <2>1 DEF Emit, TypeOK
  <2>4. QED
    BY <1>4, <2>1, <2>2, <2>3 DEF Emit, TypeOK
<1>5. CASE Retry
  BY <1>5 DEF Retry, MayRetry, TypeOK
<1>6. CASE Finish
  <2>1. \A i \in 1..emitted : Piece(attempt, i) \in Pieces
    BY EventTypes DEF TypeOK
  <2>2. [i \in 1..emitted |-> Piece(attempt, i)] \in Seq(Pieces)
    BY <2>1 DEF TypeOK
  <2>3. QED
    BY <1>6, <2>2 DEF Finish, TypeOK
<1>7. CASE KeepPartial
  BY <1>7 DEF KeepPartial, TypeOK
<1>8. CASE FallBack
  <2>1. puts' \in Seq(Events) /\ Len(puts') = Len(puts) + 1
    BY <1>8, EventTypes, PutAppends DEF FallBack
  <2>2. reply' \in Seq(Pieces)
    BY <1>8, EventTypes DEF FallBack
  <2>3. QED
    BY <1>8, <2>1, <2>2 DEF FallBack, TypeOK
<1>9. CASE Store
  BY <1>9 DEF Store, TypeOK
<1>10. CASE FailToStore
  BY <1>10 DEF FailToStore, TypeOK
<1>11. CASE PutWhole
  <2>1. puts' \in Seq(Events) /\ Len(puts') >= Len(puts)
    <3>1. CASE NoDelta
      <4>1. puts' = Append(puts, Delta(Composed))
        BY <1>11, <3>1 DEF PutWhole
      <4>2. QED
        BY <4>1, EventTypes, PutAppends DEF TypeOK
    <3>2. CASE ~NoDelta
      <4>1. puts' = puts
        BY <1>11, <3>2 DEF PutWhole
      <4>2. QED
        BY <4>1 DEF TypeOK
    <3>3. QED
      BY <3>1, <3>2
  <2>2. QED
    BY <1>11, <2>1 DEF PutWhole, TypeOK
<1>12. CASE PutMessage
  <2>1. puts' \in Seq(Events) /\ Len(puts') = Len(puts) + 1
    BY <1>12, EventTypes, PutAppends DEF PutMessage
  <2>2. QED
    BY <1>12, <2>1 DEF PutMessage, TypeOK
<1>13. CASE DieSilently
  BY <1>13 DEF DieSilently, TypeOK
<1>14. CASE PutError
  <2>1. puts' \in Seq(Events) /\ Len(puts') = Len(puts) + 1
    BY <1>14, EventTypes, PutAppends DEF PutError
  <2>2. QED
    BY <1>14, <2>1 DEF PutError, TypeOK
<1>15. CASE PutDone
  <2>1. puts' \in Seq(Events) /\ Len(puts') = Len(puts) + 1
    BY <1>15, EventTypes, PutAppends DEF PutDone
  <2>2. QED
    BY <1>15, <2>1 DEF PutDone, TypeOK
<1>16. CASE Leave
  BY <1>16 DEF Leave, TypeOK
<1>17. CASE Generator
  BY <1>17 DEF Generator, Take, TimeOut, LookAtThread, LookAtQueue, QueueEmpty, TypeOK, workerVars
<1>18. CASE Cut
  BY <1>18 DEF Cut, TypeOK, workerVars
<1>19. CASE ReadEvent
  <2>1. read' \in 1..Len(puts) /\ puts[read'] \in Events
    BY <1>19 DEF ReadEvent, TypeOK
  <2>2. shown' \in Seq(Pieces)
    BY <1>19, <2>1 DEF ReadEvent, TypeOK, Events
  <2>3. QED
    BY <1>19, <2>2 DEF ReadEvent, TypeOK, workerVars
<1>20. CASE ReadEnd
  BY <1>20 DEF ReadEnd, TypeOK, workerVars
<1>21. CASE UNCHANGED vars
  BY <1>21 DEF vars, workerVars, TypeOK
<1>22. QED
  BY <1>1, <1>2, <1>3, <1>4, <1>5, <1>6, <1>7, <1>8, <1>9, <1>10, <1>11, <1>12, <1>13,
     <1>14, <1>15, <1>16, <1>17, <1>18, <1>19, <1>20, <1>21 DEF Next, Worker, Client

\* The types hold for every number of retries and of deltas.
THEOREM StreamTypes == Spec => []TypeOK
<1>1. QED
  BY TypeInit, TypeNext, PTL DEF Spec
-----------------------------------------------------------------------------
\* What the queue says about the thread: "done" is its last event, a result
\* or an error comes just before its end, never both, and a thread that has
\* put one does not end without "done".
QueueInv ==
    /\ \A i \in 1..Len(puts) :
         puts[i].name = "done" => i = Len(puts) /\ worker \in {"leaving", "dead"}
    /\ \A i \in 1..Len(puts) :
         puts[i].name \in {"message", "error"} => worker \in {"closing", "leaving", "dead"}
    /\ \A i, j \in 1..Len(puts) : ~(puts[i].name = "message" /\ puts[j].name = "error")
    /\ \A i \in 1..Len(puts) :
         puts[i].name = "message" /\ worker \in {"leaving", "dead"} =>
           puts[Len(puts)].name = "done"

\* What the generator knows of the thread and the queue, where it stands.
GeneratorInv ==
    /\ \A i \in 1..taken : puts[i].name = "done" => gen \in {"ended", "closed"}
    /\ gen \in {"doubting", "reported"} => worker = "dead"
    /\ gen = "reported" => QueueEmpty
    /\ gen = "ended" => QueueEmpty /\ worker \in {"leaving", "dead"}

\* A tab that was told of a failure was told by the thread, or by the end of
\* a body that nothing will be added to.
FailureInv ==
    client = "failed" =>
      /\ \A i \in 1..Len(puts) : puts[i].name # "message"
      /\ worker \in {"leaving", "dead"} \/ \E i \in 1..Len(puts) : puts[i].name = "error"

Inv == TypeOK /\ QueueInv /\ GeneratorInv /\ FailureInv

LEMMA InvInit == Init => Inv
BY TypeInit DEF Init, Inv, QueueInv, GeneratorInv, FailureInv

\* A delta is put before the thread has a result.
LEMMA DeltaKeeps ==
  ASSUME Inv, NEW piece \in Pieces, puts' = Append(puts, Delta(piece)),
         worker \notin {"closing", "leaving", "dead"},
         worker' \notin {"closing", "leaving", "dead"},
         UNCHANGED <<bodyVars, clientVars>>
  PROVE  QueueInv' /\ GeneratorInv' /\ FailureInv'
<1>1. TypeOK /\ Delta(piece) \in Events /\ Delta(piece).name = "delta"
  BY EventTypes DEF Inv, Delta
<1>2. /\ Len(puts') = Len(puts) + 1 /\ Len(puts) \in Nat
      /\ \A i \in 1..Len(puts) : puts'[i] = puts[i]
      /\ puts'[Len(puts')].name = "delta"
  BY <1>1, PutAppends DEF TypeOK
<1>3. \A i \in 1..Len(puts) : puts[i].name \notin {"message", "error", "done"}
  BY DEF Inv, QueueInv
<1>4. \A i \in 1..Len(puts') : puts'[i].name \notin {"message", "error", "done"}
  BY <1>2, <1>3
<1>5. QueueInv'
  BY <1>4 DEF QueueInv
<1>6. GeneratorInv'
  <2>1. gen \notin {"ended", "reported", "doubting"}
    BY DEF Inv, GeneratorInv
  <2>2. \A i \in 1..taken' : i \in 1..Len(puts')
    BY <1>1, <1>2 DEF TypeOK, bodyVars
  <2>3. QED
    BY <2>1, <2>2, <1>4 DEF GeneratorInv, bodyVars
<1>7. FailureInv'
  BY <1>3 DEF Inv, FailureInv, clientVars
<1>8. QED
  BY <1>5, <1>6, <1>7

\* A step of the thread that puts nothing and stays before or after its end.
LEMMA QuietKeeps ==
  ASSUME Inv, UNCHANGED <<puts, bodyVars, clientVars>>,
         worker \notin {"closing", "leaving", "dead"},
         worker' \notin {"closing", "leaving"}
  PROVE  QueueInv' /\ GeneratorInv' /\ FailureInv'
<1>1. \A i \in 1..Len(puts) : puts[i].name \notin {"message", "error", "done"}
  BY DEF Inv, QueueInv
<1>2. gen \notin {"ended", "reported", "doubting"}
  BY DEF Inv, GeneratorInv
<1>3. client # "failed"
  BY <1>1 DEF Inv, FailureInv
<1>4. QED
  BY <1>1, <1>2, <1>3 DEF Inv, QueueInv, GeneratorInv, FailureInv, bodyVars, clientVars, TypeOK

\* The result or the error, the only one, before "done".
LEMMA ResultKeeps ==
  ASSUME Inv, NEW name \in {"message", "error"}, puts' = Append(puts, Event(name)),
         worker \in {"answering", "failing"}, worker' = "closing",
         UNCHANGED <<bodyVars, clientVars>>
  PROVE  QueueInv' /\ GeneratorInv' /\ FailureInv'
<1>1. TypeOK /\ Event(name) \in Events /\ Event(name).name = name
  BY EventTypes DEF Inv, Event
<1>2. /\ Len(puts') = Len(puts) + 1 /\ Len(puts) \in Nat
      /\ \A i \in 1..Len(puts) : puts'[i] = puts[i]
      /\ puts'[Len(puts')].name = name
  BY <1>1, PutAppends DEF TypeOK
<1>3. \A i \in 1..Len(puts) : puts[i].name \notin {"message", "error", "done"}
  BY DEF Inv, QueueInv
<1>4. \A i \in 1..Len(puts') : puts'[i].name = "done" => FALSE
  BY <1>2, <1>3
<1>5. \A i, j \in 1..Len(puts') : ~(puts'[i].name = "message" /\ puts'[j].name = "error")
  BY <1>2, <1>3
<1>6. gen \notin {"ended", "reported", "doubting"} /\ client # "failed"
  BY <1>3 DEF Inv, GeneratorInv, FailureInv
<1>7. QueueInv'
  BY <1>4, <1>5 DEF QueueInv
<1>8. \A i \in 1..taken' : i \in 1..Len(puts')
  BY <1>1, <1>2 DEF TypeOK, bodyVars
<1>9. QED
  BY <1>4, <1>6, <1>7, <1>8 DEF GeneratorInv, FailureInv, bodyVars, clientVars

LEMMA DoneKeeps == ASSUME Inv, PutDone PROVE QueueInv' /\ GeneratorInv' /\ FailureInv'
<1>1. TypeOK /\ Event("done") \in Events /\ Event("done").name = "done"
  BY EventTypes DEF Inv, Event
<1>2. /\ Len(puts') = Len(puts) + 1 /\ Len(puts) \in Nat
      /\ \A i \in 1..Len(puts) : puts'[i] = puts[i]
      /\ puts'[Len(puts')].name = "done"
  BY <1>1, PutAppends DEF PutDone, TypeOK
<1>3. \A i \in 1..Len(puts) : puts[i].name # "done"
  BY DEF Inv, QueueInv, PutDone
<1>4. QueueInv'
  BY <1>2, <1>3 DEF Inv, QueueInv, PutDone
<1>5. gen \notin {"ended", "reported", "doubting"}
  BY DEF Inv, GeneratorInv, PutDone
<1>6. \A i \in 1..taken' : i \in 1..Len(puts) /\ puts'[i].name # "done"
  BY <1>1, <1>2, <1>3 DEF TypeOK, PutDone, bodyVars
<1>7. GeneratorInv'
  BY <1>5, <1>6 DEF GeneratorInv, PutDone, bodyVars
<1>8. FailureInv'
  <2>1. \A i \in 1..Len(puts') : puts'[i].name = "message" =>
          i \in 1..Len(puts) /\ puts[i].name = "message"
    BY <1>2
  <2>2. QED
    BY <2>1, <1>2 DEF Inv, FailureInv, PutDone, clientVars
<1>9. QED
  BY <1>4, <1>7, <1>8

LEMMA LeaveKeeps == ASSUME Inv, Leave PROVE QueueInv' /\ GeneratorInv' /\ FailureInv'
BY DEF Inv, QueueInv, GeneratorInv, FailureInv, QueueEmpty, Leave, bodyVars, clientVars

LEMMA WorkerKeeps == ASSUME Inv, Worker PROVE QueueInv' /\ GeneratorInv' /\ FailureInv'
<1>1. CASE RetryJson \/ EndJson \/ Compose \/ Retry \/ Finish \/ KeepPartial \/ Store
             \/ FailToStore \/ DieSilently
  BY <1>1, QuietKeeps DEF RetryJson, EndJson, Compose, Retry, Finish, KeepPartial, Store,
                          FailToStore, DieSilently
<1>2. CASE Emit
  <2>1. Piece(attempt, emitted') \in Pieces
    BY <1>2, EventTypes DEF Emit, Inv, TypeOK
  <2>2. QED
    BY <1>2, <2>1, DeltaKeeps DEF Emit
<1>3. CASE FallBack
  BY <1>3, EventTypes, DeltaKeeps DEF FallBack
<1>4. CASE PutWhole
  <2>1. CASE NoDelta
    BY <1>4, <2>1, EventTypes, DeltaKeeps DEF PutWhole
  <2>2. CASE ~NoDelta
    BY <1>4, <2>2, QuietKeeps DEF PutWhole
  <2>3. QED
    BY <2>1, <2>2
<1>5. CASE PutMessage
  BY <1>5, ResultKeeps DEF PutMessage
<1>6. CASE PutError
  BY <1>6, ResultKeeps DEF PutError
<1>7. CASE PutDone
  BY <1>7, DoneKeeps
<1>8. CASE Leave
  BY <1>8, LeaveKeeps
<1>9. QED
  BY <1>1, <1>2, <1>3, <1>4, <1>5, <1>6, <1>7, <1>8 DEF Worker

LEMMA GeneratorKeeps ==
  ASSUME Inv, Generator PROVE QueueInv' /\ GeneratorInv' /\ FailureInv'
<1>1. QueueInv' /\ FailureInv'
  BY DEF Inv, QueueInv, FailureInv, Generator, Take, TimeOut, LookAtThread, LookAtQueue,
         workerVars, clientVars
<1>2. CASE Take
  <2>1. /\ taken' = taken + 1 /\ taken' \in 1..Len(puts) /\ taken \in Nat
        /\ \A i \in 1..taken : puts[i].name # "done"
        /\ UNCHANGED <<puts, worker>>
    BY <1>2 DEF Inv, TypeOK, GeneratorInv, QueueEmpty, Take, workerVars
  <2>2. CASE puts[taken'].name = "done"
    <3>1. gen' = "ended" /\ taken' = Len(puts) /\ worker \in {"leaving", "dead"}
      BY <1>2, <2>1, <2>2 DEF Inv, QueueInv, Take
    <3>2. QED
      BY <1>1, <2>1, <3>1 DEF GeneratorInv, QueueEmpty
  <2>3. CASE puts[taken'].name # "done"
    <3>1. gen' = "waiting"
      BY <1>2, <2>3 DEF Take
    <3>2. QED
      BY <1>1, <2>1, <2>3, <3>1 DEF GeneratorInv
  <2>4. QED
    BY <2>2, <2>3
<1>3. CASE TimeOut \/ LookAtThread \/ LookAtQueue
  BY <1>1, <1>3 DEF Inv, GeneratorInv, QueueEmpty, IsAlive, TimeOut, LookAtThread, LookAtQueue,
              workerVars, clientVars
<1>4. QED
  BY <1>1, <1>2, <1>3 DEF Generator

\* The tab takes the request for failed when it reads an error, or a whole
\* body that holds no result.
LEMMA ClientKeeps ==
  ASSUME Inv, Cut \/ Client PROVE QueueInv' /\ GeneratorInv' /\ FailureInv'
<1>1. QueueInv' /\ GeneratorInv'
  BY DEF Inv, QueueInv, GeneratorInv, QueueEmpty, Cut, Client, ReadEvent, ReadEnd, workerVars,
         bodyVars
<1>2. CASE Cut
  BY <1>1, <1>2 DEF Cut, FailureInv
<1>3. CASE ReadEvent
  <2>1. SUFFICES ASSUME client' = "failed" PROVE FailureInv'
    BY <1>1 DEF FailureInv
  <2>2. read' \in 1..Len(puts) /\ puts[read'].name = "error"
    BY <1>3, <2>1 DEF ReadEvent, Inv, TypeOK
  <2>3. QED
    BY <1>3, <2>2 DEF ReadEvent, Inv, QueueInv, FailureInv, workerVars
<1>4. CASE ReadEnd
  <2>1. SUFFICES ASSUME client' = "failed" PROVE FailureInv'
    BY <1>1 DEF FailureInv
  <2>2. read = Len(puts) /\ worker \in {"leaving", "dead"}
    BY <1>4 DEF ReadEnd, Inv, GeneratorInv, QueueEmpty
  <2>3. \A i \in 1..Len(puts) : puts[i].name # "message"
    <3>1. CASE gen = "ended"
      BY <1>4, <2>1, <2>2, <3>1 DEF ReadEnd, Has
    <3>2. CASE gen = "reported"
      <4>1. \A i \in 1..Len(puts) : puts[i].name # "done"
        BY <1>4, <2>2, <3>2 DEF ReadEnd, Inv, GeneratorInv
      <4>2. Len(puts) \in Nat
        BY DEF Inv, TypeOK
      <4>3. QED
        BY <2>2, <4>1, <4>2 DEF Inv, QueueInv
    <3>3. QED
      BY <1>4, <3>1, <3>2 DEF ReadEnd
  <2>4. QED
    BY <1>4, <2>2, <2>3 DEF ReadEnd, FailureInv, workerVars
<1>5. QED
  BY <1>1, <1>2, <1>3, <1>4 DEF Client

LEMMA InvNext == Inv /\ [Next]_vars => Inv'
<1> SUFFICES ASSUME Inv, [Next]_vars PROVE Inv'
  OBVIOUS
<1>1. TypeOK'
  BY TypeNext DEF Inv
<1>2. CASE UNCHANGED vars
  BY <1>1, <1>2 DEF vars, workerVars, bodyVars, clientVars, Inv, QueueInv, GeneratorInv,
                    FailureInv, QueueEmpty
<1>3. QED
  BY <1>1, <1>2, WorkerKeeps, GeneratorKeeps, ClientKeeps DEF Next, Inv

THEOREM StreamInv == Spec => []Inv
<1>1. QED
  BY InvInit, InvNext, PTL DEF Spec

\* Nothing is put after the end of a body: when the generator has yielded
\* "done", or has reported the thread dead, the queue is empty for good.
THEOREM BodiesAreWhole == Spec => []BodyIsWhole
<1>1. Inv => BodyIsWhole
  BY DEF Inv, GeneratorInv, BodyIsWhole
<1>2. QED
  BY <1>1, StreamInv, PTL

\* A result that is in the queue reaches the tab unless its connection
\* breaks, however the looks of the generator interleave with the thread.
THEOREM ResultsDelivered == Spec => []ResultDelivered
<1>1. Inv => ResultDelivered
  BY DEF Inv, FailureInv, ResultDelivered
<1>2. QED
  BY <1>1, StreamInv, PTL
-----------------------------------------------------------------------------
\* What the tab joins while the thread puts: the deltas come first, they are
\* the pieces streamed, and they tell the reply once there is one.
AllDeltas(n) == \A i \in 1..n : puts[i].name = "delta"

DeltasFirst == \A i \in 1..Len(puts) : puts[i].name = "delta" => AllDeltas(i)

\* The pieces streamed are those of the attempt that runs, in their order,
\* after those of the attempts given up for it.
StreamedInv ==
    /\ emitted <= Len(streamed)
    /\ \A i \in 1..Len(streamed) :
         LET given == Len(streamed) - emitted IN
         IF i <= given THEN Superseded(streamed[i]) ELSE streamed[i] = Piece(attempt, i - given)
    /\ worker \in {"classifying", "composing"} => streamed = <<>>
    /\ worker \in {"classifying", "composing", "streaming"} =>
         /\ Len(puts) = Len(streamed)
         /\ \A i \in 1..Len(puts) : puts[i] = Delta(streamed[i])

\* The first m events are deltas that tell the reply, and before it only what
\* was given up for it.
Tells(m) ==
    /\ m > 0 /\ AllDeltas(m)
    /\ \/ Len(reply) = m /\ \A i \in 1..m : puts[i].text = reply[i]
       \/ \E n \in 0..m - 1 :
            /\ Len(reply) = m - n
            /\ \A i \in 1..m : Superseded(puts[i].text) <=> i <= n
            /\ \A i \in n + 1..m : puts[i].text = reply[i - n]

ReplyInv ==
    /\ worker \in {"storing", "returned", "answering"} =>
         \/ Tells(Len(puts))
         \/ worker # "answering" /\ Len(puts) = 0 /\ reply = <<Composed>>
    /\ worker \in {"returned", "answering"} => stored = reply
    /\ \A k \in 1..Len(puts) : puts[k].name = "message" => stored = reply /\ Tells(k - 1)

\* The tab has joined the deltas it has read, and a request is answered when
\* its result is among what was read.
ShownInv ==
    /\ Len(shown) <= read
    /\ \A i \in 1..read : i <= Len(shown) <=> puts[i].name = "delta"
    /\ \A i \in 1..Len(shown) : shown[i] = puts[i].text
    /\ client = "answered" => Has("message", read)

TellInv == Inv /\ DeltasFirst /\ StreamedInv /\ ReplyInv /\ ShownInv

LEMMA TellInit == Init => TellInv
BY InvInit DEF Init, TellInv, DeltasFirst, StreamedInv, ReplyInv, ShownInv

\* A call of the thread that puts an event after deltas, or after anything when
\* it is no delta, leaves the deltas in front.
LEMMA PutKeepsFront ==
  ASSUME TypeOK, DeltasFirst, NEW e \in Events, puts' = Append(puts, e),
         e.name = "delta" => AllDeltas(Len(puts))
  PROVE  DeltasFirst'
<1>1. /\ Len(puts') = Len(puts) + 1 /\ Len(puts) \in Nat
      /\ \A i \in 1..Len(puts) : puts'[i] = puts[i]
      /\ puts'[Len(puts')] = e
  BY PutAppends DEF TypeOK
<1>2. SUFFICES ASSUME NEW i \in 1..Len(puts'), puts'[i].name = "delta", NEW j \in 1..i
               PROVE  puts'[j].name = "delta"
  BY DEF DeltasFirst, AllDeltas
<1>3. CASE i \in 1..Len(puts)
  BY <1>1, <1>2, <1>3 DEF DeltasFirst, AllDeltas
<1>4. CASE i = Len(puts')
  BY <1>1, <1>2, <1>4 DEF AllDeltas
<1>5. QED
  BY <1>1, <1>3, <1>4

\* What has been read does not change when the thread puts more.
LEMMA PutKeepsShown ==
  ASSUME TypeOK, ShownInv, NEW e \in Events, puts' = Append(puts, e), UNCHANGED clientVars
  PROVE  ShownInv'
<1>1. \A i \in 1..read : i \in 1..Len(puts) /\ puts'[i] = puts[i]
  BY PutAppends DEF TypeOK
<1>2. Len(shown) \in Nat /\ read \in Nat
  BY DEF TypeOK
<1>3. UNCHANGED <<read, shown, client>>
  BY DEF clientVars
<1>4. QED
  BY <1>1, <1>2, <1>3 DEF ShownInv, Has

LEMMA Fields ==
  /\ \A piece : Delta(piece).name = "delta" /\ Delta(piece).text = piece
  /\ \A a, i : Piece(a, i).attempt = a
BY DEF Delta, Piece

\* Before the thread has a result, all it has put are deltas.
LEMMA OnlyDeltas ==
  ASSUME TellInv, worker \in {"classifying", "composing", "streaming"}
  PROVE  AllDeltas(Len(puts)) /\ \A k \in 1..Len(puts) : puts[k].name # "message"
<1>1. \A i \in 1..Len(puts) : puts[i] = Delta(streamed[i])
  BY DEF TellInv, StreamedInv
<1>2. \A i \in 1..Len(puts) : puts[i].name = "delta"
  BY <1>1, Fields
<1>3. QED
  BY <1>2 DEF AllDeltas

\* The pieces given up are of earlier attempts, the others are of this one.
LEMMA StreamedPieces ==
  ASSUME TellInv
  PROVE  /\ emitted \in Nat /\ Len(streamed) \in Nat /\ emitted <= Len(streamed)
         /\ \A i \in 1..Len(streamed) : i <= Len(streamed) - emitted =>
              streamed[i].attempt \in 1..attempt - 1
         /\ \A i \in 1..Len(streamed) : i > Len(streamed) - emitted =>
              streamed[i] = Piece(attempt, i - (Len(streamed) - emitted))
<1>1. emitted \in Nat /\ Len(streamed) \in Nat
  BY DEF TellInv, Inv, TypeOK
<1>2. StreamedInv
  BY DEF TellInv
<1>3. QED
  BY <1>1, <1>2 DEF StreamedInv, Superseded

\* An attempt that is made again supersedes the one before.
LEMMA RetryTells ==
  ASSUME TellInv, Retry
  PROVE  StreamedInv' /\ ReplyInv'
<1>1. /\ attempt' = attempt + 1 /\ emitted' = 0 /\ attempt \in 1..MaxRetries + 1
      /\ UNCHANGED <<streamed, puts, worker>> /\ worker = "streaming"
      /\ streamed \in Seq(Pieces) /\ emitted \in Nat
  BY DEF Retry, TellInv, Inv, TypeOK
<1>2. \A i \in 1..Len(streamed) : streamed[i].attempt \in 1..attempt
  <2>1. TAKE i \in 1..Len(streamed)
  <2>2. CASE i <= Len(streamed) - emitted
    BY <2>2, <1>1, StreamedPieces
  <2>3. CASE i > Len(streamed) - emitted
    <3>1. streamed[i].attempt = attempt
      BY <2>3, StreamedPieces, Fields
    <3>2. QED
      BY <3>1, <1>1
  <2>4. QED
    BY <2>2, <2>3, StreamedPieces
<1>3. \A i \in 1..Len(streamed) : streamed[i].attempt \in 1..attempt' - 1
  BY <1>1, <1>2
<1>4. StreamedInv'
  BY <1>1, <1>3 DEF TellInv, StreamedInv, Superseded
<1>5. ReplyInv'
  BY <1>1, OnlyDeltas DEF ReplyInv
<1>6. QED
  BY <1>4, <1>5

LEMMA EmitTells ==
  ASSUME TellInv, Emit
  PROVE  DeltasFirst' /\ StreamedInv' /\ ReplyInv' /\ ShownInv'
<1> DEFINE piece == Piece(attempt, emitted')
<1>1. /\ piece \in Pieces /\ Delta(piece) \in Events /\ emitted \in Nat
      /\ emitted' = emitted + 1
  BY EventTypes DEF Emit, TellInv, Inv, TypeOK
<1>2. /\ puts' = Append(puts, Delta(piece)) /\ streamed' = Append(streamed, piece)
      /\ worker = "streaming" /\ UNCHANGED <<worker, attempt, clientVars>>
  BY DEF Emit
<1>3. /\ Len(puts') = Len(puts) + 1 /\ Len(puts) \in Nat
      /\ \A i \in 1..Len(puts) : puts'[i] = puts[i]
      /\ puts'[Len(puts')] = Delta(piece)
  BY <1>1, <1>2, PutAppends DEF TellInv, Inv, TypeOK
<1>4. /\ Len(streamed') = Len(streamed) + 1 /\ Len(streamed) \in Nat
      /\ \A i \in 1..Len(streamed) : streamed'[i] = streamed[i]
      /\ streamed'[Len(streamed')] = piece
  BY <1>1, <1>2 DEF TellInv, Inv, TypeOK
<1>5. Len(puts) = Len(streamed) /\ \A i \in 1..Len(puts) : puts[i] = Delta(streamed[i])
  BY <1>2 DEF TellInv, StreamedInv
<1>6. DeltasFirst' /\ ShownInv'
  BY <1>1, <1>2, OnlyDeltas, PutKeepsFront, PutKeepsShown DEF TellInv, Inv
<1>7. \A i \in 1..Len(puts') : puts'[i] = Delta(streamed'[i])
  BY <1>3, <1>4, <1>5
<1>8. StreamedInv'
  <2> DEFINE given == Len(streamed) - emitted
  <2>1. given = Len(streamed') - emitted' /\ emitted' <= Len(streamed')
    BY <1>1, <1>4 DEF TellInv, StreamedInv
  <2>2. ASSUME NEW i \in 1..Len(streamed')
        PROVE  IF i <= given THEN Superseded(streamed'[i])
                             ELSE streamed'[i] = Piece(attempt, i - given)
    <3>1. CASE i \in 1..Len(streamed)
      BY <3>1, <1>4 DEF TellInv, StreamedInv
    <3>2. CASE i = Len(streamed')
      <4>1. ~(i <= given) /\ i - given = emitted'
        BY <3>2, <1>1, <1>4
      <4>2. QED
        BY <3>2, <4>1, <1>4
    <3>3. QED
      BY <3>1, <3>2, <1>4
  <2>3. \A i \in 1..Len(streamed') :
          IF i <= Len(streamed') - emitted'
            THEN streamed'[i].attempt \in 1..attempt' - 1
            ELSE streamed'[i] = Piece(attempt', i - (Len(streamed') - emitted'))
    <3> HIDE DEF piece
    <3>1. QED
      BY <2>1, <2>2, <1>2 DEF Superseded
  <2>4. QED
    BY <2>1, <2>3, <1>2, <1>3, <1>4, <1>5, <1>7 DEF StreamedInv, Superseded
<1>9. ReplyInv'
  <2>1. \A k \in 1..Len(puts') : puts'[k].name = "delta"
    BY <1>7, Fields
  <2>2. QED
    BY <2>1, <1>2 DEF ReplyInv
<1>10. QED
  BY <1>6, <1>8, <1>9

LEMMA StreamedKeeps ==
  ASSUME StreamedInv, UNCHANGED callVars,
         worker' \notin {"classifying", "composing", "streaming"}
  PROVE  StreamedInv'
BY DEF StreamedInv, Superseded, callVars

\* What the first events tell does not change with those that follow.
LEMMA TellsKeeps ==
  ASSUME NEW m, Tells(m), \A i \in 1..m : puts'[i] = puts[i], UNCHANGED <<attempt, reply>>
  PROVE  Tells(m)'
<1>1. m > 0 /\ AllDeltas(m)'
  BY DEF Tells, AllDeltas
<1>2. \A i \in 1..m : Superseded(puts[i].text)' <=> Superseded(puts[i].text)
  BY DEF Superseded
<1>3. CASE Len(reply) = m /\ \A i \in 1..m : puts[i].text = reply[i]
  BY <1>1, <1>3 DEF Tells
<1>4. CASE \E n \in 0..m - 1 :
             /\ Len(reply) = m - n
             /\ \A i \in 1..m : Superseded(puts[i].text) <=> i <= n
             /\ \A i \in n + 1..m : puts[i].text = reply[i - n]
  <2>1. PICK n \in 0..m - 1 :
             /\ Len(reply) = m - n
             /\ \A i \in 1..m : Superseded(puts[i].text) <=> i <= n
             /\ \A i \in n + 1..m : puts[i].text = reply[i - n]
    BY <1>4
  <2>2. \A i \in 1..m : Superseded(puts[i].text)' <=> i <= n
    BY <1>2, <2>1
  <2>3. \A i \in n + 1..m : puts'[i].text = reply'[i - n]
    BY <2>1
  <2>4. Len(reply') = m - n
    BY <2>1
  <2>5. QED
    BY <1>1, <2>2, <2>3, <2>4 DEF Tells
<1>5. QED
  BY <1>3, <1>4 DEF Tells

\* The pieces of the last attempt are the reply when its answer ends.
LEMMA FinishTells == ASSUME TellInv, Finish PROVE ReplyInv'
<1> DEFINE given == Len(streamed) - emitted
<1>1. /\ emitted > 0 /\ worker = "streaming" /\ worker' = "storing"
      /\ reply' = [i \in 1..emitted |-> Piece(attempt, i)]
      /\ UNCHANGED <<attempt, emitted, streamed, puts>>
  BY DEF Finish, callVars
<1>2. /\ Len(puts) = Len(streamed) /\ Len(puts) \in Nat /\ emitted \in Nat
      /\ emitted <= Len(puts) /\ Len(reply') = emitted
  BY <1>1, StreamedPieces DEF TellInv, StreamedInv
<1>3. \A i \in 1..Len(puts) : puts[i].text = streamed[i]
  <2>1. \A i \in 1..Len(puts) : puts[i] = Delta(streamed[i])
    BY <1>1 DEF TellInv, StreamedInv
  <2>2. QED
    BY <2>1, Fields
<1>4. given \in 0..Len(puts) - 1 /\ emitted = Len(puts) - given
  BY <1>1, <1>2
<1>5. \A i \in 1..Len(puts) : puts[i].text.attempt \in 1..attempt - 1 <=> i <= given
  <2>1. TAKE i \in 1..Len(puts)
  <2>2. CASE i <= given
    BY <2>2, <1>2, <1>3, StreamedPieces
  <2>3. CASE i > given
    <3>1. puts[i].text.attempt = attempt
      BY <2>3, <1>2, <1>3, StreamedPieces, Fields
    <3>2. attempt \in Nat
      BY DEF TellInv, Inv, TypeOK
    <3>3. QED
      BY <2>3, <3>1, <3>2, <1>4
  <2>4. QED
    BY <2>2, <2>3, <1>4
<1>6. \A i \in given + 1..Len(puts) : puts[i].text = reply'[i - given]
  <2>1. TAKE i \in given + 1..Len(puts)
  <2>2. i - given \in 1..emitted /\ i \in 1..Len(puts) /\ i > Len(streamed) - emitted
    BY <1>2, <1>4
  <2>3. streamed[i] = Piece(attempt, i - given)
    BY <2>2, <1>2, StreamedPieces
  <2>4. QED
    BY <2>2, <2>3, <1>1, <1>3
<1> HIDE DEF given
<1>7. Tells(Len(puts))'
  <2>1. AllDeltas(Len(puts))' /\ Len(puts') > 0
    BY <1>1, <1>2, OnlyDeltas DEF AllDeltas
  <2>2. \A i \in 1..Len(puts) : Superseded(puts[i].text)' <=> i <= given
    BY <1>1, <1>5 DEF Superseded
  <2>3. QED
    BY <1>1, <1>2, <1>4, <1>6, <2>1, <2>2 DEF Tells
<1>8. QED
  BY <1>1, <1>7, OnlyDeltas DEF ReplyInv

\* What was streamed is the reply when the model does not end its answer.
LEMMA KeepTells == ASSUME TellInv, KeepPartial PROVE ReplyInv'
<1>1. /\ worker = "streaming" /\ worker' = "storing" /\ reply' = streamed
      /\ streamed # <<>> /\ UNCHANGED <<attempt, streamed, puts>>
  BY DEF KeepPartial, callVars
<1>2. Len(puts) = Len(streamed) /\ Len(puts) > 0
  BY <1>1 DEF TellInv, StreamedInv, Inv, TypeOK
<1>3. \A i \in 1..Len(puts) : puts[i].text = streamed[i]
  <2>1. \A i \in 1..Len(puts) : puts[i] = Delta(streamed[i])
    BY <1>1 DEF TellInv, StreamedInv
  <2>2. QED
    BY <2>1, Fields
<1>4. Tells(Len(puts))'
  BY <1>1, <1>2, <1>3, OnlyDeltas DEF Tells, AllDeltas
<1>5. QED
  BY <1>1, <1>4, OnlyDeltas DEF ReplyInv

\* One delta, of a reply that was not streamed, tells it.
LEMMA WholeTells ==
  ASSUME TellInv, NEW piece \in Pieces, puts' = Append(puts, Delta(piece)), Len(puts) = 0,
         reply' = <<piece>>
  PROVE  Tells(Len(puts))' /\ \A k \in 1..Len(puts') : puts'[k].name # "message"
<1>1. TypeOK /\ Delta(piece) \in Events
  BY EventTypes DEF TellInv, Inv
<1>2. /\ Len(puts') = 1 /\ puts'[1] = Delta(piece)
      /\ Len(reply') = 1 /\ reply'[1] = piece
  BY <1>1, PutAppends DEF TypeOK
<1>3. puts'[1].name = "delta" /\ puts'[1].text = piece
  BY <1>2 DEF Delta
<1>4. QED
  BY <1>2, <1>3 DEF Tells, AllDeltas

LEMMA FallBackTells ==
  ASSUME TellInv, FallBack PROVE DeltasFirst' /\ ReplyInv' /\ ShownInv'
<1>1. /\ worker = "streaming" /\ worker' = "storing" /\ streamed = <<>>
      /\ puts' = Append(puts, Delta(Fallback)) /\ reply' = <<Fallback>>
      /\ UNCHANGED clientVars
  BY DEF FallBack
<1>2. Len(puts) = 0
  BY <1>1 DEF TellInv, StreamedInv
<1>3. DeltasFirst' /\ ShownInv'
  BY <1>1, EventTypes, OnlyDeltas, PutKeepsFront, PutKeepsShown DEF TellInv, Inv
<1>4. ReplyInv'
  BY <1>1, <1>2, EventTypes, WholeTells DEF ReplyInv
<1>5. QED
  BY <1>3, <1>4

\* A result needs a put of the thread that has stored the reply.
LEMMA NoResultYet ==
  ASSUME TellInv, worker \notin {"closing", "leaving", "dead"}
  PROVE  \A k \in 1..Len(puts) : puts[k].name # "message"
BY DEF TellInv, Inv, QueueInv

LEMMA PutWholeTells ==
  ASSUME TellInv, PutWhole PROVE DeltasFirst' /\ ReplyInv' /\ ShownInv'
<1>1. /\ worker = "returned" /\ worker' = "answering" /\ stored = reply
      /\ UNCHANGED <<attempt, reply, stored, clientVars>>
  BY DEF PutWhole, callVars, TellInv, ReplyInv
<1>2. CASE NoDelta
  <2>1. puts' = Append(puts, Delta(Composed))
    BY <1>2 DEF PutWhole
  <2>2. ~Tells(Len(puts))
    BY <1>2 DEF Tells, AllDeltas, NoDelta, TellInv, Inv, TypeOK
  <2>3. Len(puts) = 0 /\ reply = <<Composed>>
    BY <1>1, <2>2 DEF TellInv, ReplyInv
  <2>4. DeltasFirst' /\ ShownInv'
    <3>1. AllDeltas(Len(puts))
      BY <2>3 DEF AllDeltas
    <3>2. QED
      BY <1>1, <2>1, <3>1, EventTypes, PutKeepsFront, PutKeepsShown DEF TellInv, Inv
  <2>5. ReplyInv'
    BY <1>1, <2>1, <2>3, EventTypes, WholeTells DEF ReplyInv
  <2>6. QED
    BY <2>4, <2>5
<1>3. CASE ~NoDelta
  <2>1. puts' = puts
    BY <1>3 DEF PutWhole
  <2>2. Len(puts) # 0
    BY <1>3 DEF NoDelta
  <2>3. Tells(Len(puts))
    BY <1>1, <2>2 DEF TellInv, ReplyInv
  <2>4. Tells(Len(puts))'
    BY <1>1, <2>1, <2>3 DEF Tells, AllDeltas, Superseded
  <2>5. ReplyInv'
    BY <1>1, <2>1, <2>4, NoResultYet DEF ReplyInv
  <2>6. QED
    BY <1>1, <2>1, <2>5 DEF TellInv, DeltasFirst, AllDeltas, ShownInv, Has, clientVars
<1>4. QED
  BY <1>2, <1>3

\* What comes after the deltas leaves what they tell.
LEMMA LateTells ==
  ASSUME TellInv, NEW name \in {"message", "error", "done"}, puts' = Append(puts, Event(name)),
         name = "message" => worker = "answering",
         worker' \notin {"storing", "returned", "answering"},
         UNCHANGED <<attempt, reply, stored, clientVars>>
  PROVE  DeltasFirst' /\ ReplyInv' /\ ShownInv'
<1>1. TypeOK /\ Event(name) \in Events /\ Event(name).name = name
  BY EventTypes DEF TellInv, Inv, Event
<1>2. /\ Len(puts') = Len(puts) + 1 /\ Len(puts) \in Nat
      /\ \A i \in 1..Len(puts) : puts'[i] = puts[i]
      /\ puts'[Len(puts')].name = name
  BY <1>1, PutAppends DEF TypeOK
<1>3. DeltasFirst' /\ ShownInv'
  BY <1>1, PutKeepsFront, PutKeepsShown DEF TellInv
<1>4. ASSUME NEW k \in 1..Len(puts'), puts'[k].name = "message"
      PROVE  stored' = reply' /\ Tells(k - 1)'
  <2>1. stored = reply /\ Tells(k - 1) /\ k - 1 \in 0..Len(puts)
    <3>1. CASE k \in 1..Len(puts)
      BY <3>1, <1>2, <1>4 DEF TellInv, ReplyInv
    <3>2. CASE k = Len(puts')
      <4>1. name = "message" /\ worker = "answering" /\ k - 1 = Len(puts)
        BY <3>2, <1>2, <1>4
      <4>2. QED
        BY <4>1, <1>2 DEF TellInv, ReplyInv
    <3>3. QED
      BY <3>1, <3>2, <1>2
  <2>2. \A i \in 1..k - 1 : puts'[i] = puts[i]
    BY <1>2, <2>1
  <2>3. QED
    BY <2>1, <2>2, TellsKeeps
<1>5. QED
  BY <1>3, <1>4 DEF ReplyInv

\* The other steps of the thread.
LEMMA QuietTells ==
  ASSUME TellInv, Compose \/ RetryJson \/ EndJson \/ Store \/ FailToStore \/ DieSilently \/ Leave
  PROVE  DeltasFirst' /\ StreamedInv' /\ ReplyInv' /\ ShownInv'
<1>1. UNCHANGED <<puts, clientVars>>
  BY DEF Compose, RetryJson, EndJson, Store, FailToStore, DieSilently, Leave
<1>2. DeltasFirst' /\ ShownInv'
  BY <1>1 DEF TellInv, DeltasFirst, AllDeltas, ShownInv, Has, clientVars
<1>3. CASE RetryJson \/ EndJson
  <2>1. /\ streamed = <<>> /\ Len(puts) = 0 /\ emitted \in Nat /\ emitted <= 0
        /\ streamed' = streamed /\ emitted' = emitted
        /\ worker' \notin {"storing", "returned", "answering"}
    BY <1>3 DEF RetryJson, EndJson, TellInv, StreamedInv, Inv, TypeOK
  <2>2. QED
    BY <1>1, <1>2, <2>1 DEF StreamedInv, ReplyInv
<1>4. CASE Compose
  <2>1. /\ Len(puts) = 0 /\ reply' = <<Composed>> /\ worker' = "storing"
        /\ UNCHANGED callVars
    BY <1>4 DEF Compose, TellInv, StreamedInv
  <2>2. QED
    BY <1>1, <1>2, <2>1, StreamedKeeps DEF TellInv, ReplyInv
<1>5. CASE Store \/ FailToStore \/ DieSilently
  <2>1. /\ UNCHANGED <<attempt, reply, callVars>>
        /\ worker' \in {"returned", "failing", "dead"} /\ worker \in {"storing", "answering"}
        /\ worker' = "returned" => worker = "storing" /\ stored' = reply
    BY <1>5 DEF Store, FailToStore, DieSilently, callVars
  <2>2. StreamedInv'
    BY <2>1, StreamedKeeps DEF TellInv
  <2>3. \A k \in 1..Len(puts') : puts'[k].name # "message"
    BY <1>1, <2>1, NoResultYet
  <2>4. worker' = "returned" =>
          Tells(Len(puts))' \/ (Len(puts') = 0 /\ reply' = <<Composed>>)
    <3>1. Tells(Len(puts)) => Tells(Len(puts))'
      BY <1>1, <2>1 DEF Tells, AllDeltas, Superseded
    <3>2. QED
      BY <1>1, <2>1, <3>1 DEF TellInv, ReplyInv
  <2>5. QED
    BY <1>2, <2>1, <2>2, <2>3, <2>4 DEF ReplyInv
<1>6. CASE Leave
  <2>1. worker' = "dead" /\ UNCHANGED <<attempt, reply, stored, callVars>>
    BY <1>6 DEF Leave, callVars
  <2>2. StreamedInv'
    BY <2>1, StreamedKeeps DEF TellInv
  <2>3. ReplyInv'
    BY <1>1, <2>1 DEF TellInv, ReplyInv, Tells, AllDeltas, Superseded
  <2>4. QED
    BY <1>2, <2>2, <2>3
<1>7. QED
  BY <1>3, <1>4, <1>5, <1>6

LEMMA WorkerTells ==
  ASSUME TellInv, Worker PROVE DeltasFirst' /\ StreamedInv' /\ ReplyInv' /\ ShownInv'
<1>1. CASE Compose \/ RetryJson \/ EndJson \/ Store \/ FailToStore \/ DieSilently \/ Leave
  BY <1>1, QuietTells
<1>2. CASE Emit
  BY <1>2, EmitTells
<1>3. CASE Retry
  <2>1. UNCHANGED <<puts, clientVars>>
    BY <1>3 DEF Retry
  <2>2. QED
    BY <1>3, <2>1, RetryTells DEF TellInv, DeltasFirst, AllDeltas, ShownInv, Has, clientVars
<1>4. CASE Finish \/ KeepPartial
  <2>1. UNCHANGED <<puts, callVars, clientVars>> /\ worker' = "storing"
    BY <1>4 DEF Finish, KeepPartial
  <2>2. DeltasFirst' /\ ShownInv'
    BY <2>1 DEF TellInv, DeltasFirst, AllDeltas, ShownInv, Has, clientVars
  <2>3. QED
    BY <1>4, <2>1, <2>2, StreamedKeeps, FinishTells, KeepTells DEF TellInv
<1>5. CASE FallBack
  <2>1. UNCHANGED callVars /\ worker' = "storing"
    BY <1>5 DEF FallBack
  <2>2. QED
    BY <1>5, <2>1, FallBackTells, StreamedKeeps DEF TellInv
<1>6. CASE PutWhole
  <2>1. UNCHANGED callVars /\ worker' = "answering"
    BY <1>6 DEF PutWhole
  <2>2. QED
    BY <1>6, <2>1, PutWholeTells, StreamedKeeps DEF TellInv
<1>7. CASE PutMessage \/ PutError \/ PutDone
  <2>1. UNCHANGED <<callVars, attempt, reply, stored, clientVars>>
    BY <1>7 DEF PutMessage, PutError, PutDone, callVars
  <2>2. worker' \in {"closing", "leaving"}
    BY <1>7 DEF PutMessage, PutError, PutDone
  <2>3. PICK name \in {"message", "error", "done"} :
          /\ puts' = Append(puts, Event(name))
          /\ name = "message" => worker = "answering"
    BY <1>7 DEF PutMessage, PutError, PutDone
  <2>4. QED
    BY <2>1, <2>2, <2>3, LateTells, StreamedKeeps DEF TellInv
<1>8. QED
  BY <1>1, <1>2, <1>3, <1>4, <1>5, <1>6, <1>7 DEF Worker

\* A delta that is read is appended: all before it are deltas, too.
LEMMA ReadKeeps == ASSUME TellInv, ReadEvent PROVE ShownInv'
<1>1. /\ read \in Nat /\ read' = read + 1 /\ read' \in 1..Len(puts)
      /\ shown \in Seq(Pieces) /\ Len(shown) \in Nat /\ puts[read'].text \in Pieces
  <2>1. /\ read \in Nat /\ read' = read + 1 /\ read' \in 1..Len(puts)
        /\ shown \in Seq(Pieces) /\ Len(shown) \in Nat /\ puts \in Seq(Events)
    BY DEF ReadEvent, TellInv, Inv, TypeOK
  <2>2. puts[read'] \in Events
    BY <2>1
  <2>3. QED
    BY <2>1, <2>2 DEF Events
<1>2. /\ puts' = puts /\ client' # "answered"
      /\ shown' = IF puts[read'].name = "delta" THEN Append(shown, puts[read'].text) ELSE shown
  BY DEF ReadEvent, workerVars
<1>3. /\ Len(shown) <= read
      /\ \A i \in 1..read : i <= Len(shown) <=> puts[i].name = "delta"
      /\ \A i \in 1..Len(shown) : shown[i] = puts[i].text
  BY DEF TellInv, ShownInv
<1>4. CASE puts[read'].name = "delta"
  <2>1. \A i \in 1..read' : puts[i].name = "delta"
    BY <1>1, <1>4 DEF TellInv, DeltasFirst, AllDeltas
  <2>2. Len(shown) = read
    BY <1>1, <1>3, <2>1
  <2>3. /\ Len(shown') = read' /\ shown'[read'] = puts[read'].text
        /\ \A i \in 1..read : shown'[i] = shown[i]
    BY <1>1, <1>2, <1>4, <2>2
  <2>4. \A i \in 1..read' : shown'[i] = puts[i].text
    BY <1>1, <1>3, <2>2, <2>3
  <2>5. QED
    BY <1>1, <1>2, <2>1, <2>3, <2>4 DEF ShownInv
<1>5. CASE puts[read'].name # "delta"
  <2>1. shown' = shown
    BY <1>2, <1>5
  <2>2. \A i \in 1..read' : i <= Len(shown) <=> puts[i].name = "delta"
    BY <1>1, <1>3, <1>5
  <2>3. QED
    BY <1>1, <1>2, <1>3, <2>1, <2>2 DEF ShownInv
<1>6. QED
  BY <1>4, <1>5

LEMMA TellNext == TellInv /\ [Next]_vars => TellInv'
<1> SUFFICES ASSUME TellInv, [Next]_vars PROVE TellInv'
  OBVIOUS
<1>1. Inv'
  BY InvNext DEF TellInv
<1>2. CASE Worker
  BY <1>1, <1>2, WorkerTells DEF TellInv
<1>3. CASE Generator \/ Cut \/ Client \/ UNCHANGED vars
  <2>1. UNCHANGED workerVars
    BY <1>3 DEF Generator, Take, TimeOut, LookAtThread, LookAtQueue, Cut, Client, ReadEvent,
                ReadEnd, vars
  <2>2. DeltasFirst' /\ StreamedInv' /\ ReplyInv'
    BY <2>1 DEF TellInv, DeltasFirst, StreamedInv, ReplyInv, Tells, AllDeltas, Superseded,
                workerVars, callVars
  <2>3. ShownInv'
    <3>1. CASE ReadEvent
      BY <3>1, ReadKeeps
    <3>2. CASE Generator \/ Cut \/ ReadEnd \/ UNCHANGED vars
      <4>1. UNCHANGED <<puts, read, shown>>
        BY <3>2 DEF Generator, Take, TimeOut, LookAtThread, LookAtQueue, Cut, ReadEnd, vars,
                    workerVars, clientVars
      <4>2. client' = "answered" => client = "answered" \/ Has("message", read)
        BY <3>2 DEF Generator, Take, TimeOut, LookAtThread, LookAtQueue, Cut, ReadEnd, vars,
                    clientVars
      <4>3. QED
        BY <4>1, <4>2 DEF TellInv, ShownInv, Has
    <3>3. QED
      BY <1>3, <3>1, <3>2 DEF Client
  <2>4. QED
    BY <1>1, <2>2, <2>3 DEF TellInv
<1>4. QED
  BY <1>2, <1>3 DEF Next

THEOREM StreamTells == Spec => []TellInv
<1>1. QED
  BY TellInit, TellNext, PTL DEF Spec

\* An answered tab has joined exactly the stored reply, after nothing but what
\* was given up for it.
LEMMA TellsShown == TellInv => ShowsTheReply
<1> SUFFICES ASSUME TellInv, client = "answered"
             PROVE  \/ shown = stored
                    \/ \E n \in 0..Len(shown) - 1 :
                         /\ SubSeq(shown, n + 1, Len(shown)) = stored
                         /\ \A i \in 1..Len(shown) : Superseded(shown[i]) <=> i <= n
  BY DEF ShowsTheReply
<1>1. /\ shown \in Seq(Pieces) /\ reply \in Seq(Pieces) /\ read \in 0..Len(puts)
      /\ Len(shown) \in Nat /\ Len(puts) \in Nat
  BY DEF TellInv, Inv, TypeOK
<1>2. PICK k \in 1..read : puts[k].name = "message"
  BY DEF TellInv, ShownInv, Has
<1>3. stored = reply /\ Tells(k - 1)
  BY <1>1, <1>2 DEF TellInv, ReplyInv
<1>4. Len(shown) = k - 1
  <2>1. k - 1 \in 1..read /\ puts[k - 1].name = "delta"
    BY <1>1, <1>2, <1>3 DEF Tells, AllDeltas
  <2>2. ~(k <= Len(shown)) /\ k - 1 <= Len(shown)
    BY <1>2, <2>1 DEF TellInv, ShownInv
  <2>3. QED
    BY <1>1, <2>1, <2>2
<1>5. \A i \in 1..Len(shown) : shown[i] = puts[i].text
  BY DEF TellInv, ShownInv
<1>6. CASE Len(reply) = k - 1 /\ \A i \in 1..k - 1 : puts[i].text = reply[i]
  <2>1. Len(shown) = Len(reply) /\ \A i \in 1..Len(shown) : shown[i] = reply[i]
    BY <1>4, <1>5, <1>6
  <2>2. shown = reply
    BY <1>1, <2>1
  <2>3. QED
    BY <1>3, <2>2
<1>7. CASE \E n \in 0..k - 2 :
             /\ Len(reply) = k - 1 - n
             /\ \A i \in 1..k - 1 : Superseded(puts[i].text) <=> i <= n
             /\ \A i \in n + 1..k - 1 : puts[i].text = reply[i - n]
  <2>1. PICK n \in 0..k - 2 :
             /\ Len(reply) = k - 1 - n
             /\ \A i \in 1..k - 1 : Superseded(puts[i].text) <=> i <= n
             /\ \A i \in n + 1..k - 1 : puts[i].text = reply[i - n]
    BY <1>7
  <2> DEFINE tail == SubSeq(shown, n + 1, Len(shown))
  <2>2. n \in 0..Len(shown) - 1
    BY <1>1, <1>4, <2>1
  <2>3. /\ Len(tail) = Len(shown) - n /\ tail \in Seq(Pieces)
        /\ \A j \in 1..Len(shown) - n : tail[j] = shown[n + j]
    BY <1>1, <2>2
  <2>4. \A j \in 1..Len(shown) - n : tail[j] = reply[j]
    <3>1. TAKE j \in 1..Len(shown) - n
    <3>2. n + j \in n + 1..k - 1 /\ n + j \in 1..Len(shown) /\ (n + j) - n = j
      BY <1>1, <1>4, <2>2
    <3>3. shown[n + j] = reply[(n + j) - n]
      BY <3>2, <2>1, <1>5
    <3>4. QED
      BY <2>3, <3>2, <3>3
  <2>5. tail = reply
    <3>1. Len(tail) = Len(reply)
      BY <1>4, <2>1, <2>3
    <3> HIDE DEF tail
    <3>2. \A j \in 1..Len(tail) : tail[j] = reply[j]
      BY <2>3, <2>4
    <3>3. tail \in Seq(Pieces) /\ reply \in Seq(Pieces)
      BY <1>1, <2>3
    <3>4. QED
      BY <3>1, <3>2, <3>3
  <2>6. \A i \in 1..Len(shown) : Superseded(shown[i]) <=> i <= n
    BY <1>4, <1>5, <2>1
  <2>7. QED
    BY <1>3, <2>2, <2>5, <2>6
<1>8. QED
  <2>1. \A m : m = k - 1 => m - 1 = k - 2
    BY <1>2, <1>1
  <2>2. QED
    BY <1>3, <1>6, <1>7, <2>1 DEF Tells

THEOREM TabsShowTheReply == Spec => []ShowsTheReply
<1>1. QED
  BY StreamTells, TellsShown, PTL
=============================================================================
