------------------------- MODULE ConfluentProducer -------------------------
(***************************************************************************)
(* ConfluentProducerAdapter (producers/confluent.py): tasks of an event    *)
(* loop call send(), librdkafka queues and delivers in the background, a   *)
(* poller thread serves the delivery reports, and close() flushes in a     *)
(* third thread before it stops the poller.                                *)
(*                                                                         *)
(* A step of the event loop is what it does between two awaits; a step of  *)
(* a thread is one check of _stop, or one poll().  Every send is one call  *)
(* of send() with one message.                                             *)
(***************************************************************************)
EXTENDS Integers, FiniteSets

CONSTANTS
    Sends,          \* the calls of send()
    QueueSize,      \* queue.buffering.max.messages of librdkafka
    Retries,        \* queue_full_retries
    MaxCloses       \* bound: calls of close()

ASSUME ProducerAssumption ==
    /\ QueueSize \in Nat
    /\ Retries \in Nat
    /\ MaxCloses \in Nat

VARIABLES
    call,           \* call[s]: where send() is
    tries,          \* tries[s]: calls of produce() that found the queue full
    message,        \* message[s]: where librdkafka, or the event loop, has it
    topic,          \* the messages that reached the broker
    poller,         \* the poller thread
    stop,           \* _stop
    closer,         \* where close() is
    clean,          \* the last flush left nothing
    before,         \* history: sends that were open when close() was called
    during,         \* history: those, and the ones begun before close() returned
    closes

sending == <<call, tries, message, topic>>
thread == <<poller, stop>>
closing == <<closer, clean, before, during, closes>>
vars == <<sending, thread, closing>>

Open == {"sleeping", "waiting"}
Calls == {"none", "returned", "raised", "cancelled"} \cup Open

\* A message counts against the queue until its report was served.
Outstanding == {"queued", "acked", "failed"}
Messages == {"none", "ok", "error", "done"} \cup Outstanding
Closing == {"flushing", "flushed", "joining"}

TypeOK ==
    /\ call \in [Sends -> Calls]
    /\ tries \in [Sends -> 0..Retries + 1]
    /\ message \in [Sends -> Messages]
    /\ topic \subseteq Sends
    /\ poller \in {"none", "check", "poll", "dead"}
    /\ stop \in BOOLEAN
    /\ closer \in {"none", "closed"} \cup Closing
    /\ clean \in BOOLEAN
    /\ before \subseteq during /\ during \subseteq Sends
    /\ closes \in 0..MaxCloses

Init ==
    /\ call = [s \in Sends |-> "none"]
    /\ tries = [s \in Sends |-> 0]
    /\ message = [s \in Sends |-> "none"]
    /\ topic = {}
    /\ poller = "none"
    /\ stop = FALSE
    /\ closer = "none"
    /\ clean = TRUE
    /\ before = {}
    /\ during = {}
    /\ closes = 0

-----------------------------------------------------------------------------
(* send(), on the event loop                                               *)

Unserved == {s \in Sends : message[s] \in Outstanding}

\* produce() takes the message, or raises BufferError and send() sleeps, or
\* raises KafkaException.
Enqueued(s) ==
    /\ Cardinality(Unserved) < QueueSize
    /\ message' = [message EXCEPT ![s] = "queued"]
    /\ call' = [call EXCEPT ![s] = "waiting"]
    /\ UNCHANGED tries
QueueFull(s) ==
    /\ Cardinality(Unserved) >= QueueSize
    /\ call' = [call EXCEPT ![s] = "sleeping"]
    /\ tries' = [tries EXCEPT ![s] = @ + 1]
    /\ UNCHANGED message
Rejected(s) ==
    /\ call' = [call EXCEPT ![s] = "raised"]
    /\ UNCHANGED <<tries, message>>

Produce(s) == Enqueued(s) \/ QueueFull(s) \/ Rejected(s)

Alive == poller \in {"check", "poll"}

\* A new thread, unless there is one that is_alive().  The mutants start one only
\* once, or leave _stop set.
EnsurePollerOnce ==
    /\ poller' = IF poller = "none" THEN "check" ELSE poller
    /\ stop' = stop
EnsurePollerStopped ==
    /\ poller' = IF Alive THEN poller ELSE "check"
    /\ stop' = stop
EnsurePoller ==
    /\ poller' = IF Alive THEN poller ELSE "check"
    /\ stop' = (Alive /\ stop)

Send(s) ==
    /\ call[s] = "none"
    /\ EnsurePoller
    /\ Produce(s)
    /\ during' = IF closer \in Closing THEN during \cup {s} ELSE during
    /\ UNCHANGED <<topic, closer, clean, before, closes>>

\* asyncio.sleep is over: produce() again, and the mutant that tries too often.
RetryOften(s) ==
    /\ call[s] = "sleeping" /\ tries[s] <= Retries + 1
    /\ Produce(s)
    /\ UNCHANGED <<topic, thread, closing>>
Retry(s) ==
    /\ call[s] = "sleeping" /\ tries[s] <= Retries
    /\ Produce(s)
    /\ UNCHANGED <<topic, thread, closing>>

StayedFull(s) ==
    /\ call[s] = "sleeping" /\ tries[s] > Retries
    /\ call' = [call EXCEPT ![s] = "raised"]
    /\ UNCHANGED <<tries, message, topic, thread, closing>>

\* The event loop runs resolve(): the future is set, unless nobody waits for it.
Answer(s) ==
    /\ message[s] \in {"ok", "error"}
    /\ message' = [message EXCEPT ![s] = "done"]
    /\ call' = IF call[s] = "waiting"
               THEN [call EXCEPT ![s] = IF message[s] = "ok" THEN "returned" ELSE "raised"]
               ELSE call
    /\ UNCHANGED <<tries, topic, thread, closing>>

\* The task that awaits send() is cancelled.
Cancel(s) ==
    /\ call[s] \in Open
    /\ call' = [call EXCEPT ![s] = "cancelled"]
    /\ UNCHANGED <<tries, message, topic, thread, closing>>

-----------------------------------------------------------------------------
(* librdkafka and the threads that serve its reports                       *)

Deliver(s) ==
    /\ message[s] = "queued"
    /\ message' = [message EXCEPT ![s] = "acked"]
    /\ topic' = topic \cup {s}
    /\ UNCHANGED <<call, tries, thread, closing>>

\* The message times out, on its way to the broker or on the way back.
Expire(s) ==
    /\ message[s] = "queued"
    /\ message' = [message EXCEPT ![s] = "failed"]
    /\ topic' \in {topic, topic \cup {s}}
    /\ UNCHANGED <<call, tries, thread, closing>>

\* on_delivery: hand the outcome of every report there is to the event loop; the
\* mutant forgets to look at the error.
ReportedOk(m) == IF m \in {"acked", "failed"} THEN "ok" ELSE m
Reported(m) == IF m = "acked" THEN "ok" ELSE IF m = "failed" THEN "error" ELSE m
Serve == message' = [s \in Sends |-> Reported(message[s])]

Poll ==
    /\ poller = "poll"
    /\ Serve
    /\ poller' = "check"
    /\ UNCHANGED <<call, tries, topic, stop, closing>>

\* while not self._stop.is_set(): the thread polls again, or ends and is joined.
Check ==
    /\ poller = "check"
    /\ poller' = IF stop THEN "dead" ELSE "poll"
    /\ closer' = IF stop /\ closer = "joining" THEN "closed" ELSE closer
    /\ UNCHANGED <<sending, stop, clean, before, during, closes>>

-----------------------------------------------------------------------------
(* close()                                                                 *)

IsOpen == {s \in Sends : call[s] \in Open}

Close ==
    /\ closer \in {"none", "closed"} /\ closes < MaxCloses
    /\ closes' = closes + 1
    /\ closer' = "flushing"
    /\ before' = IsOpen
    /\ during' = during \cup IsOpen
    /\ UNCHANGED <<sending, thread, clean>>

FlushServes ==
    /\ closer = "flushing"
    /\ \E s \in Sends : message[s] \in {"acked", "failed"}
    /\ Serve
    /\ UNCHANGED <<call, tries, topic, thread, closing>>

\* client.flush() returns: nothing is left, or its timeout is over.
FlushEnds ==
    /\ closer = "flushing"
    /\ closer' = "flushed"
    /\ clean' = (Unserved = {})
    /\ UNCHANGED <<sending, thread, before, during, closes>>

\* Back on the event loop, in the finally: stop the poller and join it; the mutant
\* joins without the stop.
JoinPoller ==
    /\ closer = "flushed"
    /\ closer' = IF Alive THEN "joining" ELSE "closed"
    /\ UNCHANGED <<sending, thread, clean, before, during, closes>>
StopPoller ==
    /\ closer = "flushed"
    /\ stop' = TRUE
    /\ closer' = IF Alive THEN "joining" ELSE "closed"
    /\ UNCHANGED <<sending, poller, clean, before, during, closes>>

EventLoop(s) == Send(s) \/ Retry(s) \/ StayedFull(s) \/ Answer(s) \/ Cancel(s)
Library(s) == Deliver(s) \/ Expire(s)
Threads == Poll \/ Check \/ FlushServes \/ FlushEnds

Next ==
    \/ \E s \in Sends : EventLoop(s) \/ Library(s)
    \/ Threads
    \/ Close \/ StopPoller

Spec == Init /\ [][Next]_vars

\* The event loop runs what is ready, the threads run, a message is delivered or
\* times out, and flush() returns, since it was given a timeout or has nothing left.
Fairness ==
    /\ \A s \in Sends :
           /\ WF_vars(Retry(s)) /\ WF_vars(StayedFull(s)) /\ WF_vars(Answer(s))
           /\ WF_vars(Library(s))
    /\ WF_vars(Poll) /\ WF_vars(Check)
    /\ WF_vars(FlushEnds /\ Unserved = {}) /\ WF_vars(FlushServes) /\ WF_vars(StopPoller)

FairSpec == Spec /\ Fairness

-----------------------------------------------------------------------------
(* Properties                                                              *)

\* send() keeps the promise of the port: it returns only after the broker has
\* the message, through two threads and a callback, and once it has raised or was
\* abandoned it never returns (confluent.py send, resolve, on_delivery).
Port == INSTANCE ProducerPort WITH
    call <- [s \in Sends |-> IF call[s] \in Open THEN "open"
                             ELSE IF call[s] = "cancelled" THEN "abandoned" ELSE call[s]]
ImplementsPort == Port!Spec

\* As long as a send that no close() overlaps waits for its report there is a
\* thread that will serve it, also when the adapter was closed and used again
\* (confluent.py _ensure_poller, close).
ReportsAreServed ==
    \A s \in Unserved : call[s] = "waiting" /\ s \notin during => Alive /\ ~stop

\* A send ends unless a close() overlaps it, and the queue may be as full as it
\* likes (confluent.py send, the retries and the await).
SendSettles ==
    \A s \in Sends : call[s] \in Open ~> call[s] \notin Open \/ s \in during

\* close() returns: the flush ends and the thread it joins does too.
CloseReturns == closer \in Closing ~> closer = "closed"

\* confluent.py:19: "Stopping the poller before flushing would strand delivery
\* reports"; close() flushes first, so when the flush left nothing no send that
\* was open when close() was called is left waiting for a report nobody serves.
NoneStranded ==
    closer = "closed" /\ clean /\ ~Alive =>
        \A s \in before \cap Unserved : call[s] # "waiting"

=============================================================================
