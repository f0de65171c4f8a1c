-------------------------- MODULE BroadcastChannel --------------------------
(***************************************************************************)
(* The async broadcast channel with back-pressure of crate                 *)
(* dl_quota_channel (async_broadcast_channel.rs).  It wraps a tokio        *)
(* broadcast channel, which by itself drops messages a slow receiver has   *)
(* not read, and makes the sender wait instead.                            *)
(*                                                                         *)
(* Every message is wrapped in an Arc<TrackedInner>; the wrapper gives its *)
(* bytes and its place back when the last reference is dropped.  One       *)
(* reference is in the slot of the ring buffer until every receiver that   *)
(* was subscribed when it was sent has read it, one is with each receiver  *)
(* inside recv.  Waiting senders are woken by Notify::notify_waiters,      *)
(* which reaches only the `notified()` futures that exist already.         *)
(***************************************************************************)
EXTENDS Naturals, Sequences, FiniteSets, FiniteSetsExt

CONSTANTS
    Senders,     \* tasks that call send_async
    Receivers,   \* identities of receivers
    First,       \* the Receiver that channel() returns
    MaxMessages, \* Sender::max_messages
    BufferLen,   \* slots of tokio's ring buffer
    MaxBytes,    \* Sender::max_bytes
    Sizes,       \* the byte sizes a message may have
    MaxCalls     \* bound: calls of send_async per task

ASSUME BroadcastAssumption ==
    /\ First \in Receivers
    /\ MaxMessages \in Nat \ {0}   \* channel() takes max_messages.max(1)
    /\ BufferLen \in Nat /\ BufferLen >= MaxMessages  \* tokio rounds up, never down
    /\ MaxBytes \in Nat
    /\ Sizes \subseteq Nat
    /\ MaxCalls \in Nat

VARIABLES
    bytes_in_flight,    \* Locked::bytes_in_flight
    messages_in_flight, \* Locked::messages_in_flight
    num_receivers,      \* Locked::num_receivers
    log,                \* every message the tokio channel took, by position
    pc,                 \* where each task is in send_async
    msg,                \* the message each task is sending
    calls,              \* calls each task has started
    warned,             \* the local `warned` of send_async
    waited,             \* the task has waited for state_changed before
    rx,                 \* where each receiver is
    next,               \* tokio: position of the next message to read
    until               \* tokio: where a dropped receiver stops draining

counters == <<bytes_in_flight, messages_in_flight>>
taskVars == <<pc, msg, calls, warned, waited>>
rxVars   == <<rx, next, until>>
vars == <<counters, num_receivers, log, taskVars, rxVars>>

Message == [from : Senders, nr : 1..MaxCalls, size : Sizes]

-----------------------------------------------------------------------------
(* The tokio broadcast channel *)

\* Receivers counted by tokio's rx_cnt.
Subscribed == {r \in Receivers :
                 rx[r] \in {"open", "clone", "notify", "drop_last", "drop_inner"}}

\* Receivers that were subscribed when position p was sent and have not read it.
Unread(p) == {r \in Receivers : \/ r \in Subscribed /\ next[r] <= p
                                \/ rx[r] = "drain" /\ next[r] <= p /\ p < until[r]
                                \/ rx[r] = "drain_notify" /\ next[r] <= p /\ p < until[r]}

\* Receivers inside recv that hold a clone of the message at position p.
Clones(p) == {r \in Receivers : rx[r] = "clone" /\ next[r] = p + 1}

\* tokio skips what was overwritten (RecvError::Lagged) and recv tries again.
ReadPosition(r) == IF next[r] + BufferLen <= Len(log)
                     THEN Len(log) + 1 - BufferLen ELSE next[r]

-----------------------------------------------------------------------------

Init ==
    /\ bytes_in_flight = 0
    /\ messages_in_flight = 0
    /\ num_receivers = 1
    /\ log = <<>>
    /\ pc = [s \in Senders |-> "idle"]
    /\ msg = [s \in Senders |-> [from |-> s, nr |-> 0, size |-> 0]]
    /\ calls = [s \in Senders |-> 0]
    /\ warned = [s \in Senders |-> FALSE]
    /\ waited = [s \in Senders |-> FALSE]
    /\ rx = [r \in Receivers |-> IF r = First THEN "open" ELSE "absent"]
    /\ next = [r \in Receivers |-> 1]
    /\ until = [r \in Receivers |-> 0]

\* state_changed.notify_waiters(): stores no permit for a task that is only
\* about to wait.
WokenAll == [s \in Senders |-> IF pc[s] = "waiting" THEN "try" ELSE pc[s]]

\* Mutant of Release: the place is not given back.
ReleaseOnlyBytes(size) ==
    /\ bytes_in_flight' = bytes_in_flight - size
    /\ UNCHANGED messages_in_flight

\* The critical section of TrackedInner::drop.
Release(size) ==
    /\ bytes_in_flight' = bytes_in_flight - size
    /\ messages_in_flight' = messages_in_flight - 1

-----------------------------------------------------------------------------
(* send_async *)

BeginSend(s) ==
    /\ pc[s] = "idle"
    /\ calls[s] < MaxCalls
    /\ \E size \in Sizes :
          msg' = [msg EXCEPT ![s] = [from |-> s, nr |-> calls[s] + 1, size |-> size]]
    /\ calls' = [calls EXCEPT ![s] = @ + 1]
    /\ warned' = [warned EXCEPT ![s] = FALSE]
    /\ waited' = [waited EXCEPT ![s] = FALSE]
    /\ pc' = [pc EXCEPT ![s] = "try"]
    /\ UNCHANGED <<counters, num_receivers, log, rxVars>>

\* Within the limits, or alone in the channel even if oversized.
Admits(size) ==
    \/ /\ messages_in_flight + 1 <= MaxMessages
       /\ bytes_in_flight + size <= MaxBytes
    \/ bytes_in_flight = 0 /\ messages_in_flight = 0

TryNoReceivers(s) ==
    /\ pc[s] = "try"
    /\ num_receivers = 0
    /\ pc' = [pc EXCEPT ![s] = "idle"]
    /\ UNCHANGED <<counters, num_receivers, log, msg, calls, warned, waited, rxVars>>

TryReserve(s) ==
    /\ pc[s] = "try"
    /\ num_receivers # 0
    /\ Admits(msg[s].size)
    /\ bytes_in_flight' = bytes_in_flight + msg[s].size
    /\ messages_in_flight' = messages_in_flight + 1
    /\ pc' = [pc EXCEPT ![s] = "reserved"]
    /\ UNCHANGED <<num_receivers, log, msg, calls, warned, waited, rxVars>>

TryFull(s) ==
    /\ pc[s] = "try"
    /\ num_receivers # 0
    /\ ~Admits(msg[s].size)
    /\ pc' = [pc EXCEPT ![s] = "full"]
    /\ UNCHANGED <<counters, num_receivers, log, msg, calls, warned, waited, rxVars>>

\* self.inner.send(tracked), somebody subscribed.
InnerSend(s) ==
    /\ pc[s] = "reserved"
    /\ Subscribed # {}
    /\ log' = Append(log, msg[s])
    /\ pc' = [pc EXCEPT ![s] = "idle"]
    /\ UNCHANGED <<counters, num_receivers, msg, calls, warned, waited, rxVars>>

\* self.inner.send(tracked), nobody subscribed any more: the message is
\* returned and its wrapper dropped.
InnerSendFails(s) ==
    /\ pc[s] = "reserved"
    /\ Subscribed = {}
    /\ Release(msg[s].size)
    /\ pc' = [pc EXCEPT ![s] = "failed"]
    /\ UNCHANGED <<num_receivers, log, msg, calls, warned, waited, rxVars>>

FailedNotify(s) ==
    /\ pc[s] = "failed"
    /\ pc' = [WokenAll EXCEPT ![s] = "idle"]
    /\ UNCHANGED <<counters, num_receivers, log, msg, calls, warned, waited, rxVars>>

\* The task creates its `notified()` future and awaits it; with a timeout of
\* 5 s until it has warned that it has been blocked for that long.
Await(s) ==
    /\ pc[s] = "full"
    /\ \E w \in {warned[s], waited[s]} :
          warned' = [warned EXCEPT ![s] = warned[s] \/ w]
    /\ waited' = [waited EXCEPT ![s] = TRUE]
    /\ pc' = [pc EXCEPT ![s] = "waiting"]
    /\ UNCHANGED <<counters, num_receivers, log, msg, calls, rxVars>>

\* Mutant of AwaitTimeout: the branches are swapped, only a task that has
\* warned has a timer.
TimerOnceWarned(s) ==
    /\ pc[s] = "waiting"
    /\ warned[s]
    /\ pc' = [pc EXCEPT ![s] = "try"]
    /\ UNCHANGED <<counters, num_receivers, log, msg, calls, warned, waited, rxVars>>

\* The 5 s of BLOCKED_WARNING_THRESHOLD pass without a notification.
AwaitTimeout(s) ==
    /\ pc[s] = "waiting"
    /\ ~warned[s]
    /\ pc' = [pc EXCEPT ![s] = "try"]
    /\ UNCHANGED <<counters, num_receivers, log, msg, calls, warned, waited, rxVars>>

-----------------------------------------------------------------------------
(* Receivers *)

\* subscribe(): the count under the lock, then the tokio receiver.
Subscribe(r) ==
    /\ rx[r] = "absent"
    /\ num_receivers' = num_receivers + 1
    /\ rx' = [rx EXCEPT ![r] = "subscribing"]
    /\ UNCHANGED <<counters, log, taskVars, next, until>>

\* Mutant of InnerSubscribe: the subscription starts one message too early.
SubscribeEarly(r) ==
    /\ rx[r] = "subscribing"
    /\ rx' = [rx EXCEPT ![r] = "open"]
    /\ next' = [next EXCEPT ![r] = Max({1, Len(log)})]
    /\ UNCHANGED <<counters, num_receivers, log, taskVars, until>>

InnerSubscribe(r) ==
    /\ rx[r] = "subscribing"
    /\ rx' = [rx EXCEPT ![r] = "open"]
    /\ next' = [next EXCEPT ![r] = Len(log) + 1]
    /\ UNCHANGED <<counters, num_receivers, log, taskVars, until>>

\* inner.recv(): a clone of the message, and the slot has a reader less.
Recv(r) ==
    /\ rx[r] = "open"
    /\ next[r] <= Len(log)
    /\ next' = [next EXCEPT ![r] = ReadPosition(r) + 1]
    /\ rx' = [rx EXCEPT ![r] = "clone"]
    /\ UNCHANGED <<counters, num_receivers, log, taskVars, until>>

\* recv returns the value and drops the wrapper.  The last reference
\* releases the message.
RecvReturn(r) ==
    LET p == next[r] - 1 IN
    /\ rx[r] = "clone"
    /\ IF Unread(p) = {} /\ Clones(p) = {r}
         THEN /\ Release(log[p].size)
              /\ rx' = [rx EXCEPT ![r] = "notify"]
         ELSE /\ rx' = [rx EXCEPT ![r] = "open"]
              /\ UNCHANGED counters
    /\ UNCHANGED <<num_receivers, log, taskVars, next, until>>

\* The notify_waiters of TrackedInner::drop, after the unlock.
ReleaseNotify(r) ==
    /\ rx[r] \in {"notify", "drain_notify"}
    /\ pc' = WokenAll
    /\ rx' = [rx EXCEPT ![r] = IF @ = "notify" THEN "open" ELSE "drain"]
    /\ UNCHANGED <<counters, num_receivers, log, msg, calls, warned, waited,
                   next, until>>

\* Receiver::drop: the count first ...
DropReceiver(r) ==
    /\ rx[r] = "open"
    /\ num_receivers' = num_receivers - 1
    /\ rx' = [rx EXCEPT ![r] = IF num_receivers' = 0 THEN "drop_last" ELSE "drop_inner"]
    /\ UNCHANGED <<counters, log, taskVars, next, until>>

\* ... the last one wakes the waiting senders ...
DropNotify(r) ==
    /\ rx[r] = "drop_last"
    /\ pc' = WokenAll
    /\ rx' = [rx EXCEPT ![r] = "drop_inner"]
    /\ UNCHANGED <<counters, num_receivers, log, msg, calls, warned, waited,
                   next, until>>

\* ... then the tokio receiver unsubscribes ...
InnerDrop(r) ==
    /\ rx[r] = "drop_inner"
    /\ rx' = [rx EXCEPT ![r] = "drain"]
    /\ until' = [until EXCEPT ![r] = Len(log) + 1]
    /\ UNCHANGED <<counters, num_receivers, log, taskVars, next>>

\* ... and reads what it has not read, so that the slots are freed.
Drain(r) ==
    LET p == next[r] IN
    /\ rx[r] = "drain"
    /\ p < until[r]
    /\ next' = [next EXCEPT ![r] = p + 1]
    /\ IF Unread(p) = {r} /\ Clones(p) = {}
         THEN /\ Release(log[p].size)
              /\ rx' = [rx EXCEPT ![r] = "drain_notify"]
         ELSE UNCHANGED <<counters, rx>>
    /\ UNCHANGED <<num_receivers, log, taskVars, until>>

Drained(r) ==
    /\ rx[r] = "drain"
    /\ next[r] >= until[r]
    /\ rx' = [rx EXCEPT ![r] = "closed"]
    /\ UNCHANGED <<counters, num_receivers, log, taskVars, next, until>>

-----------------------------------------------------------------------------

TaskProgress(s) ==
    \/ TryNoReceivers(s) \/ TryReserve(s) \/ TryFull(s)
    \/ InnerSend(s) \/ InnerSendFails(s) \/ FailedNotify(s)
    \/ Await(s)

ReceiverProgress(r) ==
    \/ InnerSubscribe(r)
    \/ Recv(r) \/ RecvReturn(r) \/ ReleaseNotify(r)
    \/ DropNotify(r) \/ InnerDrop(r) \/ Drain(r) \/ Drained(r)

Next ==
    \/ \E s \in Senders : BeginSend(s) \/ TaskProgress(s) \/ AwaitTimeout(s)
    \/ \E r \in Receivers : Subscribe(r) \/ ReceiverProgress(r) \/ DropReceiver(r)

Spec == Init /\ [][Next]_vars

\* Tasks and receivers keep running, and the 5 s timer fires.
Fairness ==
    /\ \A s \in Senders : WF_vars(TaskProgress(s)) /\ WF_vars(AwaitTimeout(s))
    /\ \A r \in Receivers : WF_vars(ReceiverProgress(r))

FairSpec == Spec /\ Fairness

-----------------------------------------------------------------------------
(* Properties *)

\* Positions whose wrapper is alive, and tasks that have reserved a place.
Live     == {p \in 1..Len(log) : Unread(p) # {} \/ Clones(p) # {}}
Reserved == {s \in Senders : pc[s] = "reserved"}

\* The counters say exactly what is in flight, whatever the receivers did:
\* read, raced each other for the last reference, unsubscribed half-way.
\* In particular `-=` never underflows and an idle channel counts zero.
CountersExact ==
    /\ messages_in_flight = Cardinality(Live) + Cardinality(Reserved)
    /\ bytes_in_flight = MapThenSumSet(LAMBDA p : log[p].size, Live)
                         + MapThenSumSet(LAMBDA s : msg[s].size, Reserved)

\* The channel implements the lossless bounded broadcast of module Broadcast:
\* a receiver is subscribed from its inner.subscribe() to the drop of its
\* inner receiver, and its cursor is tokio's.
Abstract ==
    INSTANCE Broadcast
        WITH Readers <- Receivers,
             Values  <- Message,
             cursor  <- [r \in Receivers |-> IF r \in Subscribed THEN next[r] ELSE 0]

\* Every step is a step of the abstract broadcast or invisible to it: no
\* entry is ever skipped (RecvError::Lagged), and nothing is sent that some
\* subscriber has no room for.
ImplementsBroadcast == Abstract!Spec

\* A wake-up can get lost between the Full of try_send and the creation of
\* the `notified()` future; until the task has warned, its 5 s timer makes up
\* for it: send_async returns, or has got as far as warning.
UnwarnedSendReturns ==
    \A s \in Senders : pc[s] # "idle" ~> (pc[s] = "idle" \/ warned[s])

\* "This will wait until there's enough space before sending."
\* (async_broadcast_channel.rs:211): the call returns if the receivers keep
\* receiving.
SendAsyncReturns == \A s \in Senders : pc[s] # "idle" ~> pc[s] = "idle"

=============================================================================
