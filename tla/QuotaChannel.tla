---------------------------- MODULE QuotaChannel ----------------------------
(***************************************************************************)
(* The byte-bounded multi-producer channel of crate dl_quota_channel       *)
(* (sync/mod.rs, native build).  An unbounded crossbeam channel carries    *)
(* the messages; back-pressure comes from the counter bytes_in_flight,     *)
(* guarded by the mutex `state` and its condition variable state_changed.  *)
(* The fair mutex active_sender admits one sender at a time.               *)
(*                                                                         *)
(* One action per region between two synchronisation points: the bodies of *)
(* the `state` critical sections are atomic; everything a thread does      *)
(* outside them (the crossbeam push and pop, notify_all, the drop of the   *)
(* inner receiver) is a step of its own.                                   *)
(***************************************************************************)
EXTENDS Naturals, Sequences, FiniteSets, FiniteSetsExt

CONSTANTS
    Senders,        \* threads that hold a Sender
    Receivers,      \* identities for the Receiver and its clones
    First,          \* the Receiver that channel() returns
    CapacityBytes,  \* Shared::capacity_bytes
    Sizes,          \* the byte sizes a message may have
    MaxCalls        \* bound: calls each sender thread makes

ASSUME ConstantsAssumption ==
    /\ IsFiniteSet(Receivers) /\ First \in Receivers
    /\ CapacityBytes \in Nat
    /\ Sizes \subseteq Nat
    /\ MaxCalls \in Nat

VARIABLES
    sender_queue,    \* active_sender: its holder, then the waiters in order
    bytes_in_flight, \* Locked::bytes_in_flight
    num_receivers,   \* Locked::num_receivers
    wire,            \* content of the crossbeam channel
    pc,              \* where each sender thread is in send / try_send
    call,            \* the message each sender thread is sending
    calls,           \* number of calls each sender thread has started
    rx,              \* where each Receiver is
    held,            \* the message a Receiver has popped but not accounted for
    taken,           \* history: the messages popped off the wire, in order
    accepted         \* history: the messages whose send returned Ok, in order

senderVars   == <<sender_queue, pc, call, calls>>
receiverVars == <<rx, held>>
history      == <<taken, accepted>>
vars == <<sender_queue, bytes_in_flight, num_receivers, wire, pc, call, calls,
          rx, held, taken, accepted>>

Message == [from : Senders, nr : Nat, size : Sizes \cup {0}]
Call    == [kind : {"none", "send", "try_send"}, msg : Message, warned : BOOLEAN]

NoCall(s) == [kind |-> "none", warned |-> FALSE,
              msg |-> [from |-> s, nr |-> 0, size |-> 0]]

-----------------------------------------------------------------------------

\* A Receiver owns its crossbeam receiver until the very end of its drop.
HasInner == {"open", "got", "notify", "drop_last", "drop_inner"}
Connected == \E r \in Receivers : rx[r] \in HasInner

Init ==
    /\ sender_queue = <<>>
    /\ bytes_in_flight = 0
    /\ num_receivers = 1
    /\ wire = <<>>
    /\ pc = [s \in Senders |-> "idle"]
    /\ call = [s \in Senders |-> NoCall(s)]
    /\ calls = [s \in Senders |-> 0]
    /\ rx = [r \in Receivers |-> IF r = First THEN "open" ELSE "absent"]
    /\ held = [r \in Receivers |-> 0]
    /\ taken = <<>>
    /\ accepted = <<>>

\* state_changed.notify_all(): every waiting sender gets to re-check.
WokenAll == [s \in Senders |-> IF pc[s] = "parked" THEN "check" ELSE pc[s]]

-----------------------------------------------------------------------------
(* Senders *)

\* The call enters the queue of the fair mutex.
Begin(s, kind, size) ==
    /\ pc[s] = "idle"
    /\ calls[s] < MaxCalls
    /\ call' = [call EXCEPT ![s] =
                  [kind |-> kind, warned |-> FALSE,
                   msg |-> [from |-> s, nr |-> calls[s] + 1, size |-> size]]]
    /\ calls' = [calls EXCEPT ![s] = @ + 1]
    /\ sender_queue' = Append(sender_queue, s)
    /\ pc' = [pc EXCEPT ![s] = "queued"]
    /\ UNCHANGED <<bytes_in_flight, num_receivers, wire, receiverVars, history>>

BeginSend(s)    == \E size \in Sizes : Begin(s, "send", size)
BeginTrySend(s) == \E size \in Sizes : Begin(s, "try_send", size)

\* Mutant of Acquire: no active_sender, every sender goes straight on.
AcquireUnlocked(s) ==
    /\ pc[s] = "queued"
    /\ pc' = [pc EXCEPT ![s] = "check"]
    /\ UNCHANGED <<sender_queue, bytes_in_flight, num_receivers, wire, call,
                   calls, receiverVars, history>>

\* active_sender.lock() succeeds.
Acquire(s) ==
    /\ pc[s] = "queued"
    /\ sender_queue # <<>> /\ Head(sender_queue) = s
    /\ pc' = [pc EXCEPT ![s] = "check"]
    /\ UNCHANGED <<sender_queue, bytes_in_flight, num_receivers, wire, call,
                   calls, receiverVars, history>>

\* Mutant of HasRoom and TryHasRoom: compares before adding the message.
RoomBeforeAdding(size) == bytes_in_flight <= CapacityBytes

\* The two loop conditions of send_impl: room for a message that fits the
\* capacity at all, an empty channel for one that does not.
HasRoom(size) ==
    IF size <= CapacityBytes THEN bytes_in_flight + size <= CapacityBytes
                             ELSE bytes_in_flight = 0

\* The condition of try_send.
TryHasRoom(size) ==
    bytes_in_flight + size <= CapacityBytes \/ bytes_in_flight = 0

Checking(s, kind) == pc[s] = "check" /\ call[s].kind = kind

\* The thread returns from the call and drops its guard of active_sender.
Return(s) ==
    /\ pc' = [pc EXCEPT ![s] = "idle"]
    /\ call' = [call EXCEPT ![s] = NoCall(s)]
    /\ sender_queue' = Tail(sender_queue)
    /\ UNCHANGED calls

\* Mutant of Reserve: `=` for `+=`.
ReserveAssigns(s) ==
    /\ bytes_in_flight' = call[s].msg.size
    /\ pc' = [pc EXCEPT ![s] = "reserved"]
    /\ UNCHANGED <<sender_queue, num_receivers, wire, call, calls,
                   receiverVars, history>>

Reserve(s) ==
    /\ bytes_in_flight' = bytes_in_flight + call[s].msg.size
    /\ pc' = [pc EXCEPT ![s] = "reserved"]
    /\ UNCHANGED <<sender_queue, num_receivers, wire, call, calls,
                   receiverVars, history>>

SendReserve(s) ==
    /\ Checking(s, "send")
    /\ HasRoom(call[s].msg.size)
    /\ Reserve(s)

\* No room and nobody left to make any: Err(SendError(msg)).
SendDisconnected(s) ==
    /\ Checking(s, "send")
    /\ ~HasRoom(call[s].msg.size)
    /\ num_receivers = 0
    /\ Return(s)
    /\ UNCHANGED <<bytes_in_flight, num_receivers, wire, receiverVars, history>>

\* No room: wait on the condition variable.  Once the thread has warned
\* that it has been blocked for 5 s it waits without a timeout.
SendPark(s) ==
    /\ Checking(s, "send")
    /\ ~HasRoom(call[s].msg.size)
    /\ num_receivers # 0
    /\ \E w \in {call[s].warned, TRUE} :
          call' = [call EXCEPT ![s].warned = w]
    /\ pc' = [pc EXCEPT ![s] = "parked"]
    /\ UNCHANGED <<sender_queue, bytes_in_flight, num_receivers, wire, calls,
                   receiverVars, history>>

\* wait_for runs into its timeout.
ParkTimeout(s) ==
    /\ pc[s] = "parked"
    /\ ~call[s].warned
    /\ pc' = [pc EXCEPT ![s] = "check"]
    /\ UNCHANGED <<sender_queue, bytes_in_flight, num_receivers, wire, call,
                   calls, receiverVars, history>>

TrySendReserve(s) ==
    /\ Checking(s, "try_send")
    /\ TryHasRoom(call[s].msg.size)
    /\ Reserve(s)

TrySendFull(s) ==
    /\ Checking(s, "try_send")
    /\ ~TryHasRoom(call[s].msg.size)
    /\ Return(s)
    /\ UNCHANGED <<bytes_in_flight, num_receivers, wire, receiverVars, history>>

\* Mutant of Push: a stack instead of a queue.
PushFront(s) ==
    /\ pc[s] = "reserved"
    /\ IF Connected
         THEN /\ wire' = <<call[s].msg>> \o wire
              /\ accepted' = Append(accepted, call[s].msg)
         ELSE UNCHANGED <<wire, accepted>>
    /\ Return(s)
    /\ UNCHANGED <<bytes_in_flight, num_receivers, receiverVars, taken>>

\* self.tx.send(..): crossbeam refuses the message once every inner receiver
\* is gone; the bytes reserved for it are not given back.
Push(s) ==
    /\ pc[s] = "reserved"
    /\ IF Connected
         THEN /\ wire' = Append(wire, call[s].msg)
              /\ accepted' = Append(accepted, call[s].msg)
         ELSE UNCHANGED <<wire, accepted>>
    /\ Return(s)
    /\ UNCHANGED <<bytes_in_flight, num_receivers, receiverVars, taken>>

-----------------------------------------------------------------------------
(* Receivers *)

\* The crossbeam half of recv, recv_timeout, try_recv and of a Select.
Pop(r) ==
    /\ rx[r] = "open"
    /\ wire # <<>>
    /\ held' = [held EXCEPT ![r] = Head(wire).size]
    /\ taken' = Append(taken, Head(wire))
    /\ wire' = Tail(wire)
    /\ rx' = [rx EXCEPT ![r] = "got"]
    /\ UNCHANGED <<bytes_in_flight, num_receivers, senderVars, accepted>>

\* manual_on_receive: the critical section, with its saturating_sub ...
OnReceive(r) ==
    /\ rx[r] = "got"
    /\ bytes_in_flight' = IF held[r] <= bytes_in_flight
                            THEN bytes_in_flight - held[r] ELSE 0
    /\ held' = [held EXCEPT ![r] = 0]
    /\ rx' = [rx EXCEPT ![r] = "notify"]
    /\ UNCHANGED <<num_receivers, wire, senderVars, history>>

\* Mutant of OnReceiveNotify: the notify_all is missing.
OnReceiveSilent(r) ==
    /\ rx[r] = "notify"
    /\ rx' = [rx EXCEPT ![r] = "open"]
    /\ UNCHANGED <<senderVars, bytes_in_flight, num_receivers, wire, held, history>>

\* ... and its notify_all, after the unlock.
OnReceiveNotify(r) ==
    /\ rx[r] = "notify"
    /\ pc' = WokenAll
    /\ rx' = [rx EXCEPT ![r] = "open"]
    /\ UNCHANGED <<sender_queue, call, calls, bytes_in_flight, num_receivers,
                   wire, held, history>>

CloneReceiver(r, clone) ==
    /\ rx[r] = "open"
    /\ rx[clone] = "absent"
    /\ num_receivers' = num_receivers + 1
    /\ rx' = [rx EXCEPT ![clone] = "open"]
    /\ UNCHANGED <<bytes_in_flight, wire, held, senderVars, history>>

\* Mutant of DropReceiver: the last receiver wakes nobody.
DropSilently(r) ==
    /\ rx[r] = "open"
    /\ num_receivers' = num_receivers - 1
    /\ rx' = [rx EXCEPT ![r] = "drop_inner"]
    /\ UNCHANGED <<bytes_in_flight, wire, held, senderVars, history>>

\* Drop: the count first, under the lock ...
DropReceiver(r) ==
    /\ rx[r] = "open"
    /\ num_receivers' = num_receivers - 1
    /\ rx' = [rx EXCEPT ![r] = IF num_receivers' = 0 THEN "drop_last"
                                                     ELSE "drop_inner"]
    /\ UNCHANGED <<bytes_in_flight, wire, held, senderVars, history>>

\* ... then the last one wakes the blocked senders ...
DropNotify(r) ==
    /\ rx[r] = "drop_last"
    /\ pc' = WokenAll
    /\ rx' = [rx EXCEPT ![r] = "drop_inner"]
    /\ UNCHANGED <<sender_queue, call, calls, bytes_in_flight, num_receivers,
                   wire, held, history>>

\* ... and the field rx is dropped after Drop::drop has run: with the last
\* one crossbeam discards what is left on the wire.
DropInner(r) ==
    /\ rx[r] = "drop_inner"
    /\ rx' = [rx EXCEPT ![r] = "closed"]
    /\ wire' = IF \E q \in Receivers \ {r} : rx[q] \in HasInner
                 THEN wire ELSE <<>>
    /\ UNCHANGED <<bytes_in_flight, num_receivers, held, senderVars, history>>

-----------------------------------------------------------------------------

SenderProgress(s) ==
    \/ Acquire(s)
    \/ SendReserve(s) \/ SendDisconnected(s) \/ SendPark(s)
    \/ TrySendReserve(s) \/ TrySendFull(s)
    \/ Push(s)

SenderNext(s) ==
    \/ BeginSend(s) \/ BeginTrySend(s)
    \/ SenderProgress(s)
    \/ ParkTimeout(s)

\* The steps a Receiver thread takes once it is inside recv or drop.
ReceiverProgress(r) ==
    \/ OnReceive(r) \/ OnReceiveNotify(r)
    \/ DropNotify(r) \/ DropInner(r)

ReceiverNext(r) ==
    \/ Pop(r)
    \/ ReceiverProgress(r)
    \/ \E clone \in Receivers : CloneReceiver(r, clone)
    \/ DropReceiver(r)

Next ==
    \/ \E s \in Senders : SenderNext(s)
    \/ \E r \in Receivers : ReceiverNext(r)

Spec == Init /\ [][Next]_vars

\* Threads keep running, and a receiving thread either keeps receiving or is
\* dropped.  No fairness for the 5 s timeout: progress may not rest on it.
Fairness ==
    /\ \A s \in Senders : WF_vars(SenderProgress(s))
    /\ \A r \in Receivers : WF_vars(ReceiverProgress(r)) /\ WF_vars(Pop(r))

FairSpec == Spec /\ Fairness

-----------------------------------------------------------------------------
(* Properties *)

Critical == {"check", "parked", "reserved"}

\* The variables of the channel, its senders and its receivers keep their types;
\* the counters of SharedState never go below zero.
TypeOK ==
    /\ sender_queue \in Seq(Senders)
    /\ bytes_in_flight \in Nat
    /\ num_receivers \in Nat
    /\ wire \in Seq(Message)
    /\ pc \in [Senders -> {"idle", "queued"} \cup Critical]
    /\ call \in [Senders -> Call]
    /\ calls \in [Senders -> Nat]
    /\ rx \in [Receivers -> HasInner \cup {"absent", "closed"}]
    /\ held \in [Receivers -> Nat]
    /\ taken \in Seq(Message)
    /\ accepted \in Seq(Message)

\* Only the holder of active_sender is past the lock in send_impl or
\* try_send, asleep on state_changed too: a sender that waits for room is not
\* overtaken, and no push comes between another's reservation and its push.
OneActiveSender ==
    \A s \in Senders :
        pc[s] \in Critical => sender_queue # <<>> /\ Head(sender_queue) = s

\* manual_on_receive and Drop notify after they unlock `state`.  Even so a
\* sender sleeps on state_changed only while there is no room and a receiver
\* is left to make some, or while a notify_all is still to come.
NoLostWakeup ==
    \A s \in Senders :
        pc[s] = "parked" =>
            \/ ~HasRoom(call[s].msg.size) /\ num_receivers # 0
            \/ \E r \in Receivers : rx[r] \in {"notify", "drop_last"}

\* The memory a channel may hold: bytes_in_flight never exceeds the capacity
\* by more than what a single oversized message needs.
MemoryBound ==
    \/ bytes_in_flight <= CapacityBytes
    \/ \E size \in Sizes : bytes_in_flight <= size

\* While a receiver is connected, a message whose send returned Ok has been
\* received or is still on the wire, exactly once and in the order in which
\* the sends returned.
Lossless == Connected => accepted = taken \o wire

\* What is between its reservation and its manual_on_receive.
Reserved  == {s \in Senders : pc[s] = "reserved"}
Sending   == [s \in Senders |-> call[s].msg]
OnWire    == MapThenSumSet(LAMBDA i : wire[i].size, DOMAIN wire)
InReserve == MapThenSumSet(LAMBDA s : Sending[s].size, Reserved)
InReceipt == MapThenSumSet(LAMBDA r : held[r], Receivers)

\* While a receiver is connected, bytes_in_flight is exactly the size of the
\* messages that are reserved, on the wire, or popped and not yet accounted
\* for; in particular the saturating_sub of manual_on_receive never saturates.
ByteAccounting == Connected => bytes_in_flight = OnWire + InReserve + InReceipt

\* Receivers whose drop has not begun.
Undropped == {r \in Receivers : rx[r] \in {"open", "got", "notify"}}

\* num_receivers counts the receivers that have not begun to drop; a blocked
\* sender is told of a disconnect exactly when the last one has.
ReceiverCount == num_receivers = Cardinality(Undropped)

\* Every send and try_send returns, if the receiving threads keep receiving
\* or are dropped: the fair mutex, the hand-over and the wake-ups never leave
\* a sender behind, and the 5 s timeout is not needed for it.
SendReturns == \A s \in Senders : pc[s] # "idle" ~> pc[s] = "idle"

=============================================================================
