----------------------------- MODULE Broadcast ------------------------------
(***************************************************************************)
(* What the broadcast channel promises its users: a lossless bounded       *)
(* broadcast.  There is one log; a subscriber reads every entry from its   *)
(* subscription on, one after the other; the log grows only while the      *)
(* slowest subscriber has fewer than MaxMessages entries left to read.     *)
(* BroadcastChannel implements it; MessageProxy is written against it.     *)
(***************************************************************************)
EXTENDS Naturals, Sequences

CONSTANTS
    Readers,     \* identities of subscribers
    Values,      \* what may be published
    MaxMessages  \* capacity of the channel

VARIABLES
    log,    \* everything published, in order
    cursor  \* position of the next entry to read; 0 when not subscribed

Subscribers == {r \in Readers : cursor[r] # 0}

\* Every subscriber is close enough for one more entry.
HasRoom == \A r \in Subscribers : Len(log) + 1 < cursor[r] + MaxMessages

\* Sending to nobody is refused.
Publish(m) ==
    /\ Subscribers # {}
    /\ HasRoom
    /\ log' = Append(log, m)
    /\ UNCHANGED cursor

\* "The new receiver will only receive messages sent AFTER this call."
Subscribe(r) ==
    /\ cursor[r] = 0
    /\ cursor' = [cursor EXCEPT ![r] = Len(log) + 1]
    /\ UNCHANGED log

CanRead(r) == cursor[r] # 0 /\ cursor[r] <= Len(log)

Read(r) ==
    /\ CanRead(r)
    /\ cursor' = [cursor EXCEPT ![r] = @ + 1]
    /\ UNCHANGED log

Unsubscribe(r) ==
    /\ cursor[r] # 0
    /\ cursor' = [cursor EXCEPT ![r] = 0]
    /\ UNCHANGED log

Init == log = <<>> /\ cursor \in [Readers -> {0, 1}]

Next ==
    \/ \E m \in Values : Publish(m)
    \/ \E r \in Readers : Subscribe(r) \/ Read(r) \/ Unsubscribe(r)

Spec == Init /\ [][Next]_<<log, cursor>>

=============================================================================
