---------------------------- MODULE ProducerPort ----------------------------
(***************************************************************************)
(* What the relay and the replay runner are promised by send(), whatever   *)
(* client is behind it (producers/port.py): it returns once the broker has *)
(* the record, and raises, or is abandoned, with the record there or not,  *)
(* now or later.  The actions Send, Acked, SendFailed and Land of          *)
(* OutboxRelay, and Deliver, Sent and Fail of ReplayRunner, are this port. *)
(***************************************************************************)
CONSTANT Sends      \* the calls of send()

VARIABLES
    call,           \* call[s]: how far the call is
    topic           \* the records that reached the broker

vars == <<call, topic>>

Calls == {"none", "open", "returned", "raised", "abandoned"}

TypeOK ==
    /\ call \in [Sends -> Calls]
    /\ topic \subseteq Sends

Init ==
    /\ call = [s \in Sends |-> "none"]
    /\ topic = {}

Call(s) ==
    /\ call[s] = "none"
    /\ call' = [call EXCEPT ![s] = "open"]
    /\ UNCHANGED topic

\* The client refuses the message at once.
Refuse(s) ==
    /\ call[s] = "none"
    /\ call' = [call EXCEPT ![s] = "raised"]
    /\ UNCHANGED topic

Land(s) ==
    /\ call[s] # "none"
    /\ topic' = topic \cup {s}
    /\ UNCHANGED call

Return(s) ==
    /\ call[s] = "open" /\ s \in topic
    /\ call' = [call EXCEPT ![s] = "returned"]
    /\ UNCHANGED topic

Raise(s) ==
    /\ call[s] = "open"
    /\ call' = [call EXCEPT ![s] = "raised"]
    /\ UNCHANGED topic

Abandon(s) ==
    /\ call[s] = "open"
    /\ call' = [call EXCEPT ![s] = "abandoned"]
    /\ UNCHANGED topic

Next == \E s \in Sends :
    Call(s) \/ Refuse(s) \/ Land(s) \/ Return(s) \/ Raise(s) \/ Abandon(s)

Spec == Init /\ [][Next]_vars

=============================================================================
