--------------------------- MODULE MessageStream ---------------------------
(***************************************************************************)
(* POST /messages?stream=true: the worker thread that runs create_message, *)
(* its queue, the generator that turns the queue into server-sent events,  *)
(* the language model's calls with their retries, and the tab that reads   *)
(* the body.                                                               *)
(*                                                                         *)
(* The queue is `puts` without its first `taken` events; the body is the   *)
(* first `taken` events, and the end the generator adds.  A piece of text  *)
(* is the pair of the attempt that streamed it and its place in there.     *)
(* What create_message does to the database is the module Conversation:    *)
(* here it stores one reply, before it returns or raises.                  *)
(***************************************************************************)
EXTENDS Naturals, Sequences

CONSTANTS
    MaxRetries, \* Settings.llm_max_retries
    MaxPieces   \* bound on the deltas of one attempt

ASSUME RetriesAssumption == MaxRetries \in Nat
ASSUME PiecesAssumption == MaxPieces \in Nat

VARIABLES
    worker,   \* where the thread is
    attempt,  \* the attempt of the running call of the model, from 1
    emitted,  \* the pieces this attempt has delivered
    streamed, \* streamed_chunks: the pieces of all its attempts
    reply,    \* the text create_message answers with
    stored,   \* the text of the assistant's message in the database
    puts,     \* every event put into the queue
    taken,    \* how many of them the generator has yielded
    gen,      \* where the generator is
    client,   \* what has become of the tab's request
    read,     \* how many events of the body the tab has read
    shown     \* streamedAssistant: the text of the deltas among them

callVars == <<attempt, emitted, streamed>>
workerVars == <<worker, callVars, reply, stored, puts>>
bodyVars == <<taken, gen>>
clientVars == <<client, read, shown>>
vars == <<workerVars, bodyVars, clientVars>>

Piece(a, i) == [attempt |-> a, place |-> i]
Fallback == Piece(0, 1) \* CHAT_FALLBACK_TEXT
Composed == Piece(0, 2) \* a reply that is not streamed

Delta(piece) == [name |-> "delta", text |-> piece]
Event(name) == [name |-> name, text |-> Composed]

NoDelta == \A i \in 1..Len(puts) : puts[i].name # "delta"

Init ==
    /\ worker = "classifying"
    /\ attempt = 1
    /\ emitted = 0
    /\ streamed = <<>>
    /\ reply = <<>>
    /\ stored = <<>>
    /\ puts = <<>>
    /\ taken = 0
    /\ gen = "waiting"
    /\ client = "reading"
    /\ read = 0
    /\ shown = <<>>
-----------------------------------------------------------------------------
\* A timeout, a network error or a status worth repeating, with attempts left.
MayRetry == attempt <= MaxRetries

\* chat_json: the same loop without deltas.  Its callers have an answer for
\* a call that fails, so how it ends does not matter here.
RetryJson ==
    /\ worker = "classifying"
    /\ MayRetry
    /\ attempt' = attempt + 1
    /\ UNCHANGED <<worker, emitted, streamed, reply, stored, puts, bodyVars, clientVars>>

EndJson ==
    /\ worker = "classifying"
    /\ worker' \in {"composing", "streaming", "failing"}
    /\ attempt' = 1
    /\ UNCHANGED <<emitted, streamed, reply, stored, puts, bodyVars, clientVars>>

\* A reply that is not the model's: a question, a prompt, a created task.
Compose ==
    /\ worker = "composing"
    /\ reply' = <<Composed>>
    /\ worker' = "storing"
    /\ UNCHANGED <<callVars, stored, puts, bodyVars, clientVars>>

\* chat_text_stream: a delta goes straight to the queue.
Emit ==
    /\ worker = "streaming"
    /\ emitted < MaxPieces
    /\ emitted' = emitted + 1
    /\ streamed' = Append(streamed, Piece(attempt, emitted'))
    /\ puts' = Append(puts, Delta(Piece(attempt, emitted')))
    /\ UNCHANGED <<worker, attempt, reply, stored, bodyVars, clientVars>>

Retry ==
    /\ worker = "streaming"
    /\ MayRetry
    /\ attempt' = attempt + 1
    /\ emitted' = 0
    /\ UNCHANGED <<worker, streamed, reply, stored, puts, bodyVars, clientVars>>

\* The body of the model's answer ends: its text is that of this attempt.
Finish ==
    /\ worker = "streaming"
    /\ emitted > 0
    /\ reply' = [i \in 1..emitted |-> Piece(attempt, i)]
    /\ worker' = "storing"
    /\ UNCHANGED <<callVars, stored, puts, bodyVars, clientVars>>

\* Mutant: keeps the pieces of the last attempt only.
MutantKeepPartial ==
    /\ worker = "streaming"
    /\ streamed # <<>>
    /\ reply' = [i \in 1..emitted |-> Piece(attempt, i)]
    /\ worker' = "storing"
    /\ UNCHANGED <<callVars, stored, puts, bodyVars, clientVars>>

\* generate_chat_reply_stream catches the failure of the call, or its empty
\* answer: it keeps what was streamed, and otherwise emits the fallback.
KeepPartial ==
    /\ worker = "streaming"
    /\ streamed # <<>>
    /\ reply' = streamed
    /\ worker' = "storing"
    /\ UNCHANGED <<callVars, stored, puts, bodyVars, clientVars>>

FallBack ==
    /\ worker = "streaming"
    /\ streamed = <<>>
    /\ puts' = Append(puts, Delta(Fallback))
    /\ reply' = <<Fallback>>
    /\ worker' = "storing"
    /\ UNCHANGED <<callVars, stored, bodyVars, clientVars>>

\* The commit of the reply, after which create_message may still raise, as
\* before it: the understanding is stored in another transaction.
Store ==
    /\ worker = "storing"
    /\ stored' = reply
    /\ worker' \in {"returned", "failing"}
    /\ UNCHANGED <<callVars, reply, puts, bodyVars, clientVars>>

FailToStore ==
    /\ worker = "storing"
    /\ worker' = "failing"
    /\ UNCHANGED <<callVars, reply, stored, puts, bodyVars, clientVars>>
-----------------------------------------------------------------------------
\* _worker after create_message has returned.  The client gets one delta at
\* least.  The serialisation of the response is outside the try: when it
\* raises, the thread dies without a word.
PutWhole ==
    /\ worker = "returned"
    /\ puts' = IF NoDelta THEN Append(puts, Delta(Composed)) ELSE puts
    /\ worker' = "answering"
    /\ UNCHANGED <<callVars, reply, stored, bodyVars, clientVars>>

PutMessage ==
    /\ worker = "answering"
    /\ puts' = Append(puts, Event("message"))
    /\ worker' = "closing"
    /\ UNCHANGED <<callVars, reply, stored, bodyVars, clientVars>>

DieSilently ==
    /\ worker = "answering"
    /\ worker' = "dead"
    /\ UNCHANGED <<callVars, reply, stored, puts, bodyVars, clientVars>>

\* _worker when create_message has raised.
PutError ==
    /\ worker = "failing"
    /\ puts' = Append(puts, Event("error"))
    /\ worker' = "closing"
    /\ UNCHANGED <<callVars, reply, stored, bodyVars, clientVars>>

PutDone ==
    /\ worker = "closing"
    /\ puts' = Append(puts, Event("done"))
    /\ worker' = "leaving"
    /\ UNCHANGED <<callVars, reply, stored, bodyVars, clientVars>>

Leave ==
    /\ worker = "leaving"
    /\ worker' = "dead"
    /\ UNCHANGED <<callVars, reply, stored, puts, bodyVars, clientVars>>

Worker ==
    \/ RetryJson \/ EndJson \/ Compose
    \/ Emit \/ Retry \/ Finish \/ KeepPartial \/ FallBack
    \/ Store \/ FailToStore
    \/ PutWhole \/ PutMessage \/ DieSilently
    \/ PutError \/ PutDone \/ Leave
-----------------------------------------------------------------------------
QueueEmpty == taken = Len(puts)
IsAlive == worker # "dead"

\* event_queue.get returns: the event is yielded, and "done" is the last.
Take ==
    /\ gen = "waiting"
    /\ ~QueueEmpty
    /\ taken' = taken + 1
    /\ gen' = IF puts[taken'].name = "done" THEN "ended" ELSE "waiting"
    /\ UNCHANGED <<workerVars, clientVars>>

\* event_queue.get times out and the keep-alive is yielded.
TimeOut ==
    /\ gen = "waiting"
    /\ QueueEmpty
    /\ gen' = "idle"
    /\ UNCHANGED <<workerVars, taken, clientVars>>

\* Mutants: a thread that has ended is not noticed; the queue is not looked at
\* again once it has.
MutantLookAtThread ==
    /\ gen = "idle"
    /\ gen' = "waiting"
    /\ UNCHANGED <<workerVars, taken, clientVars>>

MutantLookAtQueue ==
    /\ gen = "doubting"
    /\ gen' = "reported"
    /\ UNCHANGED <<workerVars, taken, clientVars>>

\* not worker_thread.is_alive() and event_queue.empty(): two looks, one
\* after the other, at what the thread may be changing.
LookAtThread ==
    /\ gen = "idle"
    /\ gen' = IF IsAlive THEN "waiting" ELSE "doubting"
    /\ UNCHANGED <<workerVars, taken, clientVars>>

LookAtQueue ==
    /\ gen = "doubting"
    /\ gen' = IF QueueEmpty THEN "reported" ELSE "waiting"
    /\ UNCHANGED <<workerVars, taken, clientVars>>

Generator == Take \/ TimeOut \/ LookAtThread \/ LookAtQueue

\* The connection breaks, or the tab is closed: the generator is closed at a
\* yield, the thread goes on.
Cut ==
    /\ client = "reading"
    /\ client' = "cut"
    /\ gen' = "closed"
    /\ UNCHANGED <<workerVars, taken, read, shown>>
-----------------------------------------------------------------------------
\* createMessageStream, and the onDelta that handleSubmit gives it.
Has(name, n) == \E i \in 1..n : puts[i].name = name

ReadEvent ==
    /\ client = "reading"
    /\ read < taken
    /\ read' = read + 1
    /\ shown' = IF puts[read'].name = "delta" THEN Append(shown, puts[read'].text) ELSE shown
    /\ client' = IF puts[read'].name = "error" THEN "failed" ELSE "reading"
    /\ UNCHANGED <<workerVars, bodyVars>>

\* The end of the body.  "done" itself is ignored, and so is what it says.
ReadEnd ==
    /\ client = "reading"
    /\ read = taken
    /\ gen \in {"ended", "reported"}
    /\ client' = IF gen = "ended" /\ Has("message", read) THEN "answered" ELSE "failed"
    /\ UNCHANGED <<workerVars, bodyVars, read, shown>>

Client == ReadEvent \/ ReadEnd

Next == Worker \/ Generator \/ Cut \/ Client

Spec == Init /\ [][Next]_vars

\* The thread runs, the generator is iterated while the tab reads, the tab
\* reads what arrives; connections need not break.
FairSpec == Spec /\ WF_vars(Worker) /\ WF_vars(Generator) /\ WF_vars(Client)
-----------------------------------------------------------------------------
Pieces == [attempt : 0..MaxRetries + 1, place : 1..MaxPieces + 2]
Events == [name : {"delta", "message", "error", "done"}, text : Pieces]

\* The thread, the queue, the body and the tab hold what their code can put
\* there, and nobody reads further than the other has written.
TypeOK ==
    /\ worker \in {"classifying", "composing", "streaming", "storing", "returned",
                   "answering", "failing", "closing", "leaving", "dead"}
    /\ attempt \in 1..MaxRetries + 1 /\ emitted \in 0..MaxPieces
    /\ streamed \in Seq(Pieces) /\ reply \in Seq(Pieces) /\ stored \in Seq(Pieces)
    /\ puts \in Seq(Events)
    /\ taken \in 0..Len(puts) /\ read \in 0..taken
    /\ gen \in {"waiting", "idle", "doubting", "ended", "reported", "closed"}
    /\ client \in {"reading", "answered", "failed", "cut"}
    /\ shown \in Seq(Pieces)

\* A result that has reached the queue reaches the tab, unless the connection
\* breaks: the generator never takes the thread for dead between its last put
\* and its end, and never ends the body above an event of the queue.
ResultDelivered ==
    client = "failed" => \A i \in 1..Len(puts) : puts[i].name # "message"

\* A body that has ended holds all that the thread will ever put.
BodyIsWhole ==
    gen \in {"ended", "reported"} => QueueEmpty /\ worker \in {"leaving", "dead"}

\* What the tab shows when its request is answered is the text that is stored,
\* after nothing but the pieces of attempts that were given up for a later one.
Superseded(piece) == piece.attempt \in 1..attempt - 1
ShowsTheReply ==
    client = "answered" =>
      \/ shown = stored
      \/ \E n \in 0..Len(shown) - 1 :
           /\ SubSeq(shown, n + 1, Len(shown)) = stored
           /\ \A i \in 1..Len(shown) : Superseded(shown[i]) <=> i <= n

\* The tab's request ends, whatever the model and the thread do.
StreamEnds == <>(client # "reading")
=============================================================================
