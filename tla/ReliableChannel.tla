-------------------------- MODULE ReliableChannel --------------------------
(***************************************************************************)
(* What the UDP client and its retransmissions promise for what the user   *)
(* types: each message reaches the server at most once and in the order    *)
(* typed, and the next one is taken only when the last one has arrived.    *)
(* After a receive error the client takes messages all the same.           *)
(***************************************************************************)
EXTENDS Sequences

CONSTANT Messages    \* the messages a user can submit

VARIABLES
    pending,     \* submitted and not delivered yet
    delivered,   \* in the order of delivery
    status       \* "open", "failed" after a receive error, or "closed"

vars == <<pending, delivered, status>>

Init == pending = {} /\ delivered = <<>> /\ status = "open"

IsDelivered(m) == \E i \in DOMAIN delivered : delivered[i] = m

Submit(m) ==
    /\ status # "closed"
    /\ status = "open" => pending = {}
    /\ m \notin pending /\ ~IsDelivered(m)
    /\ pending' = pending \cup {m}
    /\ UNCHANGED <<delivered, status>>

\* What is pending may still arrive once the client has closed.
Deliver(m) ==
    /\ m \in pending
    /\ pending' = pending \ {m}
    /\ delivered' = Append(delivered, m)
    /\ UNCHANGED status

Fail == status = "open" /\ status' = "failed" /\ UNCHANGED <<pending, delivered>>

Close == status # "closed" /\ status' = "closed" /\ UNCHANGED <<pending, delivered>>

Next == Fail \/ Close \/ \E m \in Messages : Submit(m) \/ Deliver(m)

Spec == Init /\ [][Next]_vars
=============================================================================
