--------------------------- MODULE ProducerProofs ---------------------------
(***************************************************************************)
(* ConfluentProducer, for any number of sends, any queue size and any      *)
(* number of retries and closes: types, the poller thread that is there    *)
(* for every send no close() overlaps, and the implementation of           *)
(* ProducerPort.                                                           *)
(***************************************************************************)
EXTENDS ConfluentProducer, TLAPS

\* A call that was not made has no message and no tries.
Fresh == \A s \in Sends : call[s] = "none" => message[s] = "none" /\ tries[s] = 0

\* What was acknowledged, or will be reported so, is on the topic.
AckedIsThere == \A s \in Sends : message[s] \in {"acked", "ok"} => s \in topic

\* close() knows every send that is open while it runs.
OverlapsKnown == closer \in Closing => IsOpen \subseteq during

\* A poller that was told to stop is being joined: nobody relies on it.
StoppedIsJoined == Alive /\ stop => closer = "joining"

\* The strengthening of ReportsAreServed: the thread is there before the report.
PollerIsThere == \A s \in IsOpen \ during : Alive /\ ~stop

ProducerInv ==
    TypeOK /\ Fresh /\ AckedIsThere /\ OverlapsKnown /\ StoppedIsJoined /\ PollerIsThere

LEMMA InitProducerInv == Init => ProducerInv
  <1> SUFFICES ASSUME Init PROVE ProducerInv
    OBVIOUS
  <1>1. TypeOK
    <2>1. 0 \in 0..Retries + 1 /\ 0 \in 0..MaxCloses
      BY ProducerAssumption
    <2>2. QED
      BY <2>1 DEF Init, TypeOK, Calls, Messages
  <1>2. Fresh /\ AckedIsThere
    BY DEF Init, Fresh, AckedIsThere
  <1>3. IsOpen = {}
    BY DEF Init, IsOpen, Open
  <1>4. OverlapsKnown /\ StoppedIsJoined /\ PollerIsThere
    BY <1>3 DEF Init, OverlapsKnown, StoppedIsJoined, PollerIsThere
  <1>5. QED
    BY <1>1, <1>2, <1>4 DEF ProducerInv

-----------------------------------------------------------------------------
(* Types                                                                   *)

LEMMA ProduceTypes ==
    ASSUME TypeOK, NEW s \in Sends, tries[s] \in 0..Retries, Produce(s)
    PROVE  /\ call' \in [Sends -> Calls]
           /\ tries' \in [Sends -> 0..Retries + 1]
           /\ message' \in [Sends -> Messages]
  <1>1. tries[s] + 1 \in 0..Retries + 1
    BY ProducerAssumption
  <1>2. CASE Enqueued(s)
    BY <1>2 DEF Enqueued, TypeOK, Calls, Open, Messages, Outstanding
  <1>3. CASE QueueFull(s)
    BY <1>1, <1>3 DEF QueueFull, TypeOK, Calls, Open
  <1>4. CASE Rejected(s)
    BY <1>4 DEF Rejected, TypeOK, Calls
  <1>5. QED
    BY <1>2, <1>3, <1>4 DEF Produce

LEMMA ServeTypes == TypeOK /\ Serve => message' \in [Sends -> Messages]
  BY DEF TypeOK, Serve, Reported, Messages, Outstanding

LEMMA TypeStep == TypeOK /\ Fresh /\ [Next]_vars => TypeOK'
  <1> SUFFICES ASSUME TypeOK, Fresh, [Next]_vars PROVE TypeOK'
    OBVIOUS
  <1>1. ASSUME NEW s \in Sends, Send(s) PROVE TypeOK'
    <2>1. tries[s] \in 0..Retries
      BY <1>1, ProducerAssumption DEF Fresh, Send
    <2>2. /\ call' \in [Sends -> Calls]
          /\ tries' \in [Sends -> 0..Retries + 1]
          /\ message' \in [Sends -> Messages]
      BY <1>1, <2>1, ProduceTypes DEF Send
    <2>3. poller' \in {"none", "check", "poll", "dead"} /\ stop' \in BOOLEAN
      BY <1>1 DEF Send, EnsurePoller, TypeOK, Alive
    <2>4. QED
      BY <1>1, <2>2, <2>3 DEF Send, TypeOK
  <1>2. ASSUME NEW s \in Sends, Retry(s) PROVE TypeOK'
    <2>1. tries[s] \in 0..Retries
      BY <1>2, ProducerAssumption DEF Retry, TypeOK
    <2>2. QED
      BY <1>2, <2>1, ProduceTypes DEF Retry, TypeOK, thread, closing
  <1>3. ASSUME NEW s \in Sends, StayedFull(s) \/ Answer(s) \/ Cancel(s) PROVE TypeOK'
    BY <1>3 DEF StayedFull, Answer, Cancel, TypeOK, Calls, Messages, thread, closing
  <1>4. ASSUME NEW s \in Sends, Library(s) PROVE TypeOK'
    BY <1>4 DEF Library, Deliver, Expire, TypeOK, Messages, Outstanding, thread, closing
  <1>5. CASE Poll \/ FlushServes
    BY <1>5, ServeTypes DEF Poll, FlushServes, TypeOK, thread, closing
  <1>6. CASE Check
    BY <1>6 DEF Check, TypeOK, sending
  <1>7. CASE Close
    BY <1>7, ProducerAssumption DEF Close, TypeOK, sending, thread, IsOpen, Closing
  <1>8. CASE FlushEnds \/ StopPoller
    BY <1>8 DEF FlushEnds, StopPoller, TypeOK, sending, thread, Closing
  <1>9. CASE UNCHANGED vars
    BY <1>9 DEF TypeOK, vars, sending, thread, closing
  <1>10. QED
    BY <1>1, <1>2, <1>3, <1>4, <1>5, <1>6, <1>7, <1>8, <1>9
       DEF Next, EventLoop, Threads

-----------------------------------------------------------------------------
(* Messages                                                                *)

LEMMA MessageStep ==
    TypeOK /\ Fresh /\ AckedIsThere /\ [Next]_vars => Fresh' /\ AckedIsThere'
  <1> SUFFICES ASSUME TypeOK, Fresh, AckedIsThere, [Next]_vars
               PROVE  Fresh' /\ AckedIsThere'
    OBVIOUS
  <1> USE DEF TypeOK, Fresh, AckedIsThere
  <1>1. ASSUME NEW s \in Sends, Produce(s), UNCHANGED topic PROVE Fresh' /\ AckedIsThere'
    BY <1>1 DEF Produce, Enqueued, QueueFull, Rejected
  <1>2. ASSUME NEW s \in Sends, EventLoop(s) PROVE Fresh' /\ AckedIsThere'
    <2>1. CASE Send(s) \/ Retry(s)
      BY <1>1, <2>1 DEF Send, Retry
    <2>2. CASE StayedFull(s) \/ Answer(s) \/ Cancel(s)
      BY <2>2 DEF StayedFull, Answer, Cancel, Open
    <2>3. QED
      BY <1>2, <2>1, <2>2 DEF EventLoop
  <1>3. ASSUME NEW s \in Sends, Library(s) PROVE Fresh' /\ AckedIsThere'
    BY <1>3 DEF Library, Deliver, Expire
  <1>4. CASE Poll \/ FlushServes
    BY <1>4 DEF Poll, FlushServes, Serve, Reported
  <1>5. CASE Check \/ FlushEnds \/ Close \/ StopPoller
    BY <1>5 DEF Check, FlushEnds, Close, StopPoller, sending
  <1>6. CASE UNCHANGED vars
    BY <1>6 DEF vars, sending
  <1>7. QED
    BY <1>2, <1>3, <1>4, <1>5, <1>6 DEF Next, Threads

-----------------------------------------------------------------------------
(* The poller thread                                                       *)

PollerInv == OverlapsKnown /\ StoppedIsJoined /\ PollerIsThere

\* A step that opens no send and leaves the threads alone.
LEMMA FewerOpen ==
    ASSUME PollerInv, IsOpen' \subseteq IsOpen, UNCHANGED <<thread, closing>>
    PROVE  PollerInv'
  BY DEF PollerInv, OverlapsKnown, StoppedIsJoined, PollerIsThere, Alive, thread, closing

LEMMA PollerStep == TypeOK /\ PollerInv /\ [Next]_vars => PollerInv'
  <1> SUFFICES ASSUME TypeOK, PollerInv, [Next]_vars PROVE PollerInv'
    OBVIOUS
  <1> USE DEF PollerInv, OverlapsKnown, StoppedIsJoined, PollerIsThere, Alive
  <1>1. ASSUME NEW s \in Sends, Send(s) PROVE PollerInv'
    <2>1. IsOpen' \subseteq IsOpen \cup {s}
      BY <1>1 DEF Send, Produce, Enqueued, QueueFull, Rejected, IsOpen, TypeOK
    <2>2. Alive' /\ (stop' => Alive /\ stop)
      BY <1>1 DEF Send, EnsurePoller
    <2>3. during \subseteq during' /\ (closer \in Closing => s \in during')
      BY <1>1 DEF Send
    <2>4. closer' = closer
      BY <1>1 DEF Send
    <2>5. stop' => closer = "joining"
      BY <2>2
    <2>6. OverlapsKnown'
      BY <2>1, <2>3, <2>4
    <2>7. StoppedIsJoined'
      BY <2>4, <2>5
    <2>8. PollerIsThere'
      <3> SUFFICES ASSUME NEW x \in IsOpen' \ during' PROVE ~stop'
        BY <2>2
      <3>1. ~(closer \in Closing)
        BY <2>1, <2>3
      <3>2. QED
        BY <2>5, <3>1 DEF Closing
    <2>9. QED
      BY <2>6, <2>7, <2>8
  <1>2. ASSUME NEW s \in Sends, Retry(s) PROVE PollerInv'
    <2>1. IsOpen' \subseteq IsOpen
      BY <1>2 DEF Retry, Produce, Enqueued, QueueFull, Rejected, IsOpen, TypeOK, Open
    <2>2. QED
      BY <1>2, <2>1, FewerOpen DEF Retry
  <1>3. ASSUME NEW s \in Sends, StayedFull(s) \/ Answer(s) \/ Cancel(s) \/ Library(s)
        PROVE PollerInv'
    <2>1. IsOpen' \subseteq IsOpen
      BY <1>3 DEF StayedFull, Answer, Cancel, Library, Deliver, Expire, IsOpen, TypeOK, Open
    <2>2. QED
      BY <1>3, <2>1, FewerOpen DEF StayedFull, Answer, Cancel, Library, Deliver, Expire
  <1>4. CASE Poll
    BY <1>4 DEF Poll, IsOpen, closing
  <1>5. CASE FlushServes
    BY <1>5 DEF FlushServes, IsOpen, closing, thread
  <1>6. CASE Check
    BY <1>6 DEF Check, sending, IsOpen, Closing
  <1>7. CASE Close
    BY <1>7 DEF Close, sending, thread, IsOpen, Closing
  <1>8. CASE FlushEnds
    BY <1>8 DEF FlushEnds, sending, thread, IsOpen, Closing
  <1>9. CASE StopPoller
    BY <1>9 DEF StopPoller, sending, IsOpen, Closing
  <1>10. CASE UNCHANGED vars
    BY <1>10 DEF vars, sending, thread, closing, IsOpen
  <1>11. QED
    BY <1>1, <1>2, <1>3, <1>4, <1>5, <1>6, <1>7, <1>8, <1>9, <1>10
       DEF Next, EventLoop, Threads

\* The inductive invariant of the adapter: types, and what ties the calls, their
\* messages, the poller thread and a close() together.
THEOREM ProducerInvariant == Spec => []ProducerInv
  <1>1. ProducerInv /\ [Next]_vars => ProducerInv'
    BY TypeStep, MessageStep, PollerStep DEF ProducerInv, PollerInv
  <1>2. QED
    BY InitProducerInv, <1>1, PTL DEF Spec

\* Every variable keeps its type; a send tries no more often than it may.
THEOREM TypeCorrect == Spec => []TypeOK
  BY ProducerInvariant, PTL DEF ProducerInv

\* A send that no close() overlaps and that waits for its report has a thread that
\* will serve it, however often the adapter was closed and used again.
THEOREM ReportsAreServedTheorem == Spec => []ReportsAreServed
  <1>1. ProducerInv => ReportsAreServed
    BY DEF ProducerInv, PollerIsThere, ReportsAreServed, Unserved, IsOpen, Open
  <1>2. QED
    BY ProducerInvariant, <1>1, PTL

-----------------------------------------------------------------------------
(* Refinement                                                              *)

\* The call as the port sees it.
PortCall == [s \in Sends |-> IF call[s] \in Open THEN "open"
                             ELSE IF call[s] = "cancelled" THEN "abandoned" ELSE call[s]]

LEMMA OnlyCallMoves ==
    ASSUME TypeOK, NEW s \in Sends, NEW c \in Calls, call' = [call EXCEPT ![s] = c]
    PROVE  PortCall' = [PortCall EXCEPT ![s] = IF c \in Open THEN "open"
                                               ELSE IF c = "cancelled" THEN "abandoned" ELSE c]
  BY DEF PortCall, TypeOK, Calls, Open

LEMMA PortStep == ProducerInv /\ [Next]_vars => [Port!Next]_(Port!vars)
  <1> SUFFICES ASSUME ProducerInv, [Next]_vars PROVE [Port!Next]_(Port!vars)
    OBVIOUS
  <1>0. TypeOK /\ Fresh /\ AckedIsThere
    BY DEF ProducerInv
  <1>a. Port!vars = <<PortCall, topic>>
    BY DEF Port!vars, PortCall
  <1>1. ASSUME NEW s \in Sends, Send(s) PROVE [Port!Next]_(Port!vars)
    <2>1. CASE Rejected(s)
      <3>1. PortCall' = [PortCall EXCEPT ![s] = "raised"]
        BY <1>0, <2>1, OnlyCallMoves DEF Rejected, Calls, Open
      <3>2. Port!Refuse(s)
        BY <1>1, <3>1 DEF Port!Refuse, PortCall, Send, Open
      <3>3. QED
        BY <3>2 DEF Port!Next
    <2>2. CASE Enqueued(s) \/ QueueFull(s)
      <3>1. PortCall' = [PortCall EXCEPT ![s] = "open"]
        BY <1>0, <2>2, OnlyCallMoves DEF Enqueued, QueueFull, Calls, Open
      <3>2. Port!Call(s)
        BY <1>1, <3>1 DEF Port!Call, PortCall, Send, Open
      <3>3. QED
        BY <3>2 DEF Port!Next
    <2>3. QED
      BY <1>1, <2>1, <2>2 DEF Send, Produce
  <1>2. ASSUME NEW s \in Sends, call[s] \in Open, call' = [call EXCEPT ![s] = "raised"],
               UNCHANGED topic
        PROVE  [Port!Next]_(Port!vars)
    <2>1. PortCall' = [PortCall EXCEPT ![s] = "raised"]
      BY <1>0, <1>2, OnlyCallMoves DEF Calls, Open
    <2>2. Port!Raise(s)
      BY <1>2, <2>1 DEF Port!Raise, PortCall
    <2>3. QED
      BY <2>2 DEF Port!Next
  <1>3. ASSUME NEW s \in Sends, Retry(s) PROVE [Port!Next]_(Port!vars)
    <2>1. CASE Rejected(s)
      BY <1>2, <1>3, <2>1 DEF Retry, Rejected, Open
    <2>2. CASE Enqueued(s) \/ QueueFull(s)
      <3>1. PortCall' = PortCall
        BY <1>0, <1>3, <2>2 DEF Retry, Enqueued, QueueFull, PortCall, TypeOK, Open
      <3>2. QED
        BY <1>a, <1>3, <3>1 DEF Retry, Port!vars, PortCall
    <2>3. QED
      BY <1>3, <2>1, <2>2 DEF Retry, Produce
  <1>4. ASSUME NEW s \in Sends, StayedFull(s) PROVE [Port!Next]_(Port!vars)
    BY <1>2, <1>4 DEF StayedFull, Open
  <1>5. ASSUME NEW s \in Sends, Answer(s) PROVE [Port!Next]_(Port!vars)
    <2>1. CASE call[s] = "waiting" /\ message[s] = "ok"
      <3>1. PortCall' = [PortCall EXCEPT ![s] = "returned"]
        BY <1>0, <1>5, <2>1, OnlyCallMoves DEF Answer, Calls, Open
      <3>2. s \in topic
        BY <1>0, <2>1 DEF AckedIsThere
      <3>3. Port!Return(s)
        BY <1>5, <2>1, <3>1, <3>2 DEF Port!Return, PortCall, Answer, Open
      <3>4. QED
        BY <3>3 DEF Port!Next
    <2>2. CASE call[s] = "waiting" /\ message[s] # "ok"
      BY <1>2, <1>5, <2>2 DEF Answer, Open
    <2>3. CASE call[s] # "waiting"
      BY <1>5, <2>3 DEF Answer, Port!vars
    <2>4. QED
      BY <2>1, <2>2, <2>3
  <1>6. ASSUME NEW s \in Sends, Cancel(s) PROVE [Port!Next]_(Port!vars)
    <2>1. PortCall' = [PortCall EXCEPT ![s] = "abandoned"]
      BY <1>0, <1>6, OnlyCallMoves DEF Cancel, Calls, Open
    <2>2. Port!Abandon(s)
      BY <1>6, <2>1 DEF Port!Abandon, PortCall, Cancel
    <2>3. QED
      BY <2>2 DEF Port!Next
  <1>7. ASSUME NEW s \in Sends, Library(s) PROVE [Port!Next]_(Port!vars)
    <2>1. call[s] # "none"
      BY <1>0, <1>7 DEF Library, Deliver, Expire, Fresh
    <2>2. PortCall[s] # "none"
      BY <2>1 DEF PortCall, Open
    <2>3. CASE topic' = topic \cup {s}
      <3>1. Port!Land(s)
        BY <1>7, <2>2, <2>3 DEF Port!Land, PortCall, Library, Deliver, Expire
      <3>2. QED
        BY <3>1 DEF Port!Next
    <2>4. CASE UNCHANGED topic
      BY <1>7, <2>4 DEF Library, Deliver, Expire, Port!vars
    <2>5. QED
      BY <1>7, <2>3, <2>4 DEF Library, Deliver, Expire
  <1>8. CASE Threads \/ Close \/ StopPoller \/ UNCHANGED vars
    BY <1>8 DEF Threads, Poll, Check, FlushServes, FlushEnds, Close, StopPoller, vars, sending,
                Port!vars
  <1>9. QED
    BY <1>1, <1>3, <1>4, <1>5, <1>6, <1>7, <1>8 DEF Next, EventLoop

\* The adapter keeps the promise of the port: through two threads, a callback, a
\* full queue, cancellation and close(), a send returns only once the broker has
\* the message, and never after it has raised or was abandoned.
THEOREM PortRefinement == Spec => ImplementsPort
  <1>1. Init => Port!Init
    BY DEF Init, Port!Init, Open
  <1>2. QED
    BY ProducerInvariant, PortStep, <1>1, PTL DEF Spec, ImplementsPort, Port!Spec

=============================================================================
