--------------------------- MODULE OutboxContract ---------------------------
(***************************************************************************)
(* What the outbox promises to the application that enqueues and to the    *)
(* consumers of the topic, with no table, relay, lock or failure in it:    *)
(*                                                                         *)
(*   - the events of a committed transaction are accepted together;        *)
(*   - an accepted event is published when every accepted event that must  *)
(*     precede it has been;                                                *)
(*   - an event is forgotten only after it was published.                  *)
(*                                                                         *)
(* Publishing again what is on the topic already changes nothing here:     *)
(* duplicates are allowed, loss, phantoms and overtaking are not.          *)
(***************************************************************************)
EXTENDS Integers

CONSTANTS
    Events,   \* event tickets, in the order they were drawn
    Keys,
    NoKey

VARIABLES
    accepted,   \* committed events
    keyOf,      \* the key of each accepted event
    ahead,      \* the events that must be published before each accepted one
    published,  \* events with at least one record on the topic
    forgotten   \* events the outbox no longer knows

contractVars == <<accepted, keyOf, ahead, published, forgotten>>

Init ==
    /\ accepted = {}
    /\ keyOf = [e \in Events |-> NoKey]
    /\ ahead = [e \in Events |-> {}]
    /\ published = {}
    /\ forgotten = {}

\* A transaction commits the events S, with the keys ks.
Accept(S, ks) ==
    /\ S # {}
    /\ S \cap accepted = {}
    /\ accepted' = accepted \cup S
    /\ keyOf' = [e \in Events |-> IF e \in S THEN ks[e] ELSE keyOf[e]]
    /\ ahead' = [e \in Events |->
                    IF e \in S
                    THEN {d \in accepted' : d < e /\ keyOf'[d] = keyOf'[e] /\ keyOf'[e] # NoKey}
                    ELSE ahead[e]]
    /\ UNCHANGED <<published, forgotten>>

Publish(e) ==
    /\ e \in accepted \ published
    /\ ahead[e] \subseteq published
    /\ published' = published \cup {e}
    /\ UNCHANGED <<accepted, keyOf, ahead, forgotten>>

Forget(S) ==
    /\ S \subseteq published
    /\ forgotten' = forgotten \cup S
    /\ UNCHANGED <<accepted, keyOf, ahead, published>>

Next ==
    \/ \E S \in SUBSET Events : \E ks \in [S -> Keys \cup {NoKey}] : Accept(S, ks)
    \/ \E e \in Events : Publish(e)
    \/ \E S \in SUBSET Events : Forget(S)

Spec == Init /\ [][Next]_contractVars

=============================================================================
