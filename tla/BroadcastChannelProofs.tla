----------------------- MODULE BroadcastChannelProofs -----------------------
(***************************************************************************)
(* Proofs about the broadcast channel with back-pressure, for any number   *)
(* of tasks and receivers, any limits and any message sizes: its counters  *)
(* are exact, and it implements the lossless bounded broadcast.            *)
(***************************************************************************)
EXTENDS BroadcastChannel, DataFacts

TaskStates == {"idle", "try", "reserved", "failed", "full", "waiting"}
RxStates   == {"absent", "subscribing", "open", "clone", "notify", "drop_last",
               "drop_inner", "drain", "drain_notify", "closed"}
Draining   == {r \in Receivers : rx[r] \in {"drain", "drain_notify"}}

TypeInv ==
    /\ log \in Seq(Message)
    /\ pc \in [Senders -> TaskStates]
    /\ msg \in [Senders -> [from : Senders, nr : Nat, size : Nat]]
    /\ calls \in [Senders -> Nat]
    /\ rx \in [Receivers -> RxStates]
    /\ next \in [Receivers -> Nat \ {0}]
    /\ until \in [Receivers -> Nat]
    /\ bytes_in_flight \in Nat /\ messages_in_flight \in Nat
    /\ \A s \in Senders : pc[s] # "idle" => msg[s] \in Message

\* A subscribed receiver is at most one position behind the end, one inside
\* recv has read something, one that drains stops where it unsubscribed.
Cursors ==
    \A r \in Receivers :
        /\ r \in Subscribed => next[r] <= Len(log) + 1
        /\ rx[r] = "clone" => next[r] >= 2
        /\ r \in Draining => until[r] <= Len(log) + 1

\* The counters, and the limit the sender waits for.
Counts ==
    /\ IsFiniteSet(Reserved)
    /\ messages_in_flight = Cardinality(Live) + Cardinality(Reserved)
    /\ bytes_in_flight = SizeSum(log, Live) + SizeSum(msg, Reserved)
    /\ messages_in_flight <= MaxMessages

IInv == TypeInv /\ Cursors /\ Counts

\* The actions, spelled out for the case splits below.
TaskStep(s) ==
    \/ BeginSend(s) \/ TryNoReceivers(s) \/ TryReserve(s) \/ TryFull(s)
    \/ InnerSend(s) \/ InnerSendFails(s) \/ FailedNotify(s)
    \/ Await(s) \/ AwaitTimeout(s)

RxStep(r) ==
    \/ Subscribe(r) \/ InnerSubscribe(r) \/ Recv(r) \/ RecvReturn(r)
    \/ ReleaseNotify(r) \/ DropReceiver(r) \/ DropNotify(r) \/ InnerDrop(r)
    \/ Drain(r) \/ Drained(r)

-----------------------------------------------------------------------------

\* Every step is one of a task or of a receiver.
LEMMA NextCases ==
    Next => (\E s \in Senders : TaskStep(s)) \/ (\E r \in Receivers : RxStep(r))
BY DEF Next, TaskProgress, ReceiverProgress, TaskStep, RxStep

\* What a message is made of.
LEMMA MessageParts ==
    ASSUME NEW m \in Message
    PROVE  m.size \in Nat /\ m \in [from : Senders, nr : Nat, size : Nat]
<1>1. Sizes \subseteq Nat /\ MaxCalls \in Nat
  BY BroadcastAssumption DEF BroadcastAssumption
<1>2. m.from \in Senders /\ m.nr \in 1..MaxCalls /\ m.size \in Sizes
  BY DEF Message
<1>3. m.nr \in Nat
  BY <1>1, <1>2
<1>4. m.size \in Nat
  BY <1>1, <1>2
<1> QED BY <1>2, <1>3, <1>4 DEF Message

\* The wrappers in the channel and the reservations have sizes to add up.
LEMMA SizesKnown ==
    ASSUME TypeInv
    PROVE  /\ IsFiniteSet(Live) /\ Sized(log, Live)
           /\ IsFiniteSet(Reserved) => Sized(msg, Reserved)
<1>1. Len(log) \in Nat /\ Live \in SUBSET (1..Len(log))
  BY DEF TypeInv, Live
<1>2. IsFiniteSet(Live)
  <2>1. 1 \in Int /\ Len(log) \in Int
    BY <1>1
  <2>2. IsFiniteSet(1..Len(log))
    BY <2>1, FS_Interval
  <2> QED BY <1>1, <2>2, FS_Subset
<1>3. \A p \in Live : log[p].size \in Nat
  BY <1>1, MessageParts DEF TypeInv
<1>4. \A s \in Reserved : msg[s].size \in Nat
  BY DEF TypeInv, Reserved
<1> QED BY <1>2, <1>3, <1>4 DEF Sized

\* As long as a receiver has something to read, that is in flight, and there
\* is no more of it than the channel holds: nobody lags.
LEMMA NoLag ==
    ASSUME IInv, NEW r \in Receivers, r \in Subscribed
    PROVE  /\ Len(log) + 1 - next[r] <= Cardinality(Live)
           /\ Cardinality(Live) + Cardinality(Reserved) <= MaxMessages
           /\ ReadPosition(r) = next[r]
<1>1. Len(log) \in Nat /\ next[r] \in Nat \ {0} /\ next[r] <= Len(log) + 1
  BY DEF IInv, TypeInv, Cursors
<1>2. next[r]..Len(log) \in SUBSET Live
  BY <1>1 DEF Live, Unread
<1>3. IsFiniteSet(Live) /\ Cardinality(Live) \in Nat /\ Cardinality(Reserved) \in Nat
  BY SizesKnown, FS_CardinalityType DEF IInv, Counts
<1>4. Cardinality(next[r]..Len(log)) = Len(log) + 1 - next[r]
  <2>1. next[r] \in Int /\ Len(log) \in Int
    BY <1>1
  <2>2. Cardinality(next[r]..Len(log)) =
            IF next[r] > Len(log) THEN 0 ELSE Len(log) - next[r] + 1
    BY <2>1, FS_Interval
  <2> QED BY <1>1, <2>2
<1>5. Cardinality(next[r]..Len(log)) <= Cardinality(Live)
  BY <1>2, <1>3, FS_Subset
<1>6. Cardinality(Live) + Cardinality(Reserved) <= MaxMessages
  BY DEF IInv, Counts
<1>7. ReadPosition(r) = next[r]
  BY <1>1, <1>3, <1>4, <1>5, <1>6, BroadcastAssumption
     DEF ReadPosition, BroadcastAssumption
<1> QED BY <1>4, <1>5, <1>6, <1>7

-----------------------------------------------------------------------------
(* Types and cursors *)

\* The steps of a task keep the state typed; the counters are Counts' matter.
LEMMA TaskTypes ==
    ASSUME TypeInv, NEW s \in Senders, TaskStep(s),
           bytes_in_flight' \in Nat, messages_in_flight' \in Nat
    PROVE  TypeInv'
<1> USE DEF TypeInv, TaskStates
<1>1. CASE BeginSend(s)
  <2>1. PICK size \in Sizes :
           msg' = [msg EXCEPT ![s] = [from |-> s, nr |-> calls[s] + 1, size |-> size]]
    BY <1>1 DEF BeginSend
  <2>2. [from |-> s, nr |-> calls[s] + 1, size |-> size] \in Message
    BY <1>1, BroadcastAssumption DEF BeginSend, Message, BroadcastAssumption
  <2>3. [from |-> s, nr |-> calls[s] + 1, size |-> size]
           \in [from : Senders, nr : Nat, size : Nat]
    BY <2>2, MessageParts
  <2> QED BY <1>1, <2>1, <2>2, <2>3 DEF BeginSend, rxVars, counters
<1>2. CASE \/ TryNoReceivers(s) \/ TryReserve(s) \/ TryFull(s)
           \/ InnerSendFails(s) \/ Await(s) \/ AwaitTimeout(s)
  <2>1. pc[s] # "idle" /\ UNCHANGED <<log, msg, calls, rx, next, until>>
    BY <1>2 DEF TryNoReceivers, TryReserve, TryFull, InnerSendFails, Await,
                AwaitTimeout, rxVars
  <2>2. \E state \in TaskStates : pc' = [pc EXCEPT ![s] = state]
    BY <1>2 DEF TryNoReceivers, TryReserve, TryFull, InnerSendFails, Await,
                AwaitTimeout
  <2> QED BY <2>1, <2>2
<1>3. CASE InnerSend(s)
  <2>1. msg[s] \in Message
    BY <1>3 DEF InnerSend
  <2> QED BY <1>3, <2>1 DEF InnerSend, rxVars
<1>4. CASE FailedNotify(s)
  BY <1>4 DEF FailedNotify, WokenAll, rxVars
<1> QED BY <1>1, <1>2, <1>3, <1>4 DEF TaskStep

\* The steps of a receiver keep the state typed.
LEMMA RxTypes ==
    ASSUME IInv, NEW r \in Receivers, RxStep(r),
           bytes_in_flight' \in Nat, messages_in_flight' \in Nat
    PROVE  TypeInv'
<1>0. TypeInv
  BY DEF IInv
<1> USE <1>0 DEF TypeInv, RxStates, taskVars
<1>1. CASE Subscribe(r) \/ InnerSubscribe(r) \/ DropReceiver(r) \/ InnerDrop(r) \/ Drained(r)
  <2>1. UNCHANGED <<log, pc, msg, calls>>
    BY <1>1 DEF Subscribe, InnerSubscribe, DropReceiver, InnerDrop, Drained
  <2>2. /\ \E state \in RxStates : rx' = [rx EXCEPT ![r] = state]
        /\ next' = next \/ next' = [next EXCEPT ![r] = Len(log) + 1]
        /\ until' = until \/ until' = [until EXCEPT ![r] = Len(log) + 1]
    BY <1>1 DEF Subscribe, InnerSubscribe, DropReceiver, InnerDrop, Drained
  <2>3. Len(log) + 1 \in Nat \ {0} /\ Len(log) + 1 \in Nat
    OBVIOUS
  <2>4. rx' \in [Receivers -> RxStates]
    BY <2>2
  <2>5. next' \in [Receivers -> Nat \ {0}]
    BY <2>2, <2>3
  <2>6. until' \in [Receivers -> Nat]
    BY <2>2, <2>3
  <2> QED BY <2>1, <2>4, <2>5, <2>6
<1>2. CASE Recv(r)
  <2>1. ReadPosition(r) = next[r]
    BY <1>2, NoLag DEF Recv, Subscribed
  <2> QED BY <1>2, <2>1 DEF Recv
<1>3. CASE RecvReturn(r)
  <2>1. \E state \in RxStates : rx' = [rx EXCEPT ![r] = state]
    BY <1>3 DEF RecvReturn
  <2>2. UNCHANGED <<log, pc, msg, calls, next, until>>
    BY <1>3 DEF RecvReturn
  <2> QED BY <2>1, <2>2
<1>5. CASE Drain(r)
  <2>1. \E state \in RxStates : rx' = [rx EXCEPT ![r] = state]
    BY <1>5 DEF Drain
  <2>2. next' = [next EXCEPT ![r] = next[r] + 1]
    BY <1>5 DEF Drain
  <2>3. UNCHANGED <<log, pc, msg, calls, until>>
    BY <1>5 DEF Drain
  <2> QED BY <2>1, <2>2, <2>3
<1>4. CASE ReleaseNotify(r) \/ DropNotify(r)
  BY <1>4 DEF ReleaseNotify, DropNotify, WokenAll, TaskStates
<1> QED BY <1>1, <1>2, <1>3, <1>4, <1>5 DEF RxStep

\* Tasks only extend the log, and leave the receivers alone.
LEMMA TaskFrame ==
    ASSUME TypeInv, NEW s \in Senders, TaskStep(s)
    PROVE  /\ UNCHANGED rxVars
           /\ \/ UNCHANGED log /\ ~InnerSend(s)
              \/ InnerSend(s) /\ log' = Append(log, msg[s])
BY DEF TaskStep, BeginSend, TryNoReceivers, TryReserve, TryFull, InnerSend,
       InnerSendFails, FailedNotify, Await, AwaitTimeout, TypeInv, TaskStates

\* Every step keeps the cursors within the log.
LEMMA CursorsStep ==
    ASSUME IInv, [Next]_vars PROVE Cursors'
<1>0. TypeInv /\ Cursors /\ Len(log) \in Nat
  BY DEF IInv, TypeInv
<1>1. ASSUME NEW s \in Senders, TaskStep(s) PROVE Cursors'
  <2>1. UNCHANGED rxVars /\ Len(log') \in Nat /\ Len(log') >= Len(log)
    <3>1. CASE UNCHANGED log
      BY <1>0, <1>1, <3>1, TaskFrame
    <3>2. CASE InnerSend(s) /\ log' = Append(log, msg[s])
      <4>1. msg[s] \in Message
        BY <1>0, <3>2 DEF InnerSend, TypeInv
      <4> QED BY <1>0, <1>1, <3>2, <4>1, TaskFrame DEF TypeInv
    <3> QED BY <1>0, <1>1, <3>1, <3>2, TaskFrame
  <2> QED BY <1>0, <2>1 DEF Cursors, Subscribed, Draining, rxVars, TypeInv
<1>2. ASSUME NEW r \in Receivers, RxStep(r) PROVE Cursors'
  <2> USE <1>0 DEF TypeInv, Cursors, Subscribed, Draining, RxStates
  <2>1. CASE Subscribe(r) \/ InnerSubscribe(r) \/ DropReceiver(r) \/ InnerDrop(r)
    BY <2>1 DEF Subscribe, InnerSubscribe, DropReceiver, InnerDrop
  <2>2. CASE Recv(r)
    <3>1. ReadPosition(r) = next[r]
      BY <2>2, NoLag DEF Recv
    <3> QED BY <2>2, <3>1 DEF Recv
  <2>3. CASE RecvReturn(r) \/ ReleaseNotify(r) \/ DropNotify(r)
    BY <2>3 DEF RecvReturn, ReleaseNotify, DropNotify
  <2>4. CASE Drain(r) \/ Drained(r)
    BY <2>4 DEF Drain, Drained
  <2> QED BY <1>2, <2>1, <2>2, <2>3, <2>4 DEF RxStep
<1>3. CASE UNCHANGED vars
  BY <1>0, <1>3 DEF vars, rxVars, Cursors, Subscribed, Draining
<1> QED BY <1>1, <1>2, <1>3, NextCases

-----------------------------------------------------------------------------
(* What is in flight *)

\* A task adds the message it sends to what is in flight, and nothing else.
LEMMA TaskLive ==
    ASSUME IInv, NEW s \in Senders, TaskStep(s)
    PROVE  /\ ~InnerSend(s) => Live' = Live /\ log' = log
           /\ InnerSend(s) => /\ Live' = Live \cup {Len(log) + 1}
                              /\ Len(log) + 1 \notin Live
<1>0. TypeInv /\ Cursors /\ Len(log) \in Nat
  BY DEF IInv, TypeInv
<1>1. UNCHANGED rxVars
  BY <1>0, TaskFrame
<1>2. ASSUME NEW p PROVE Unread(p)' = Unread(p) /\ Clones(p)' = Clones(p)
  BY <1>1 DEF Unread, Clones, Subscribed, rxVars
<1>3. ASSUME ~InnerSend(s) PROVE Live' = Live /\ log' = log
  BY <1>0, <1>2, <1>3, TaskFrame DEF Live
<1>4. ASSUME InnerSend(s)
      PROVE  Live' = Live \cup {Len(log) + 1} /\ Len(log) + 1 \notin Live
  <2>1. msg[s] \in Message
    BY <1>0, <1>4 DEF InnerSend, TypeInv
  <2>2. Len(log') = Len(log) + 1
    BY <1>0, <1>4, <2>1 DEF InnerSend, TypeInv
  <2>3. Unread(Len(log) + 1) # {}
    BY <1>0, <1>4 DEF InnerSend, Unread, Cursors, Subscribed
  <2>4. Live' = {p \in 1..(Len(log) + 1) : Unread(p) # {} \/ Clones(p) # {}}
    BY <1>2, <2>2 DEF Live
  <2> QED BY <1>0, <2>3, <2>4 DEF Live
<1> QED BY <1>3, <1>4

\* A receiver takes at most one message out, and counts it out as it does.
LEMMA RxLive ==
    ASSUME IInv, NEW r \in Receivers, RxStep(r)
    PROVE  \/ Live' = Live /\ UNCHANGED counters
           \/ \E p \in Live : Live' = Live \ {p} /\ Release(log[p].size)
<1>0. TypeInv /\ Cursors /\ Len(log) \in Nat
  BY DEF IInv, TypeInv
<1>1. CASE \/ Subscribe(r) \/ InnerSubscribe(r) \/ ReleaseNotify(r) \/ DropReceiver(r)
           \/ DropNotify(r) \/ InnerDrop(r) \/ Drained(r)
  <2>1. /\ log' = log /\ UNCHANGED counters
        /\ \A q \in Receivers : q # r => rx'[q] = rx[q] /\ next'[q] = next[q]
                                                        /\ until'[q] = until[q]
    BY <1>0, <1>1 DEF Subscribe, InnerSubscribe, ReleaseNotify, DropReceiver,
                      DropNotify, InnerDrop, Drained, TypeInv
  <2>2. ASSUME NEW p \in 1..Len(log)
        PROVE  r \in Unread(p)' <=> r \in Unread(p)
    BY <1>0, <1>1 DEF Unread, Subscribed, Subscribe, InnerSubscribe, ReleaseNotify,
                      DropReceiver, DropNotify, InnerDrop, Drained, TypeInv, RxStates
  <2>3. ASSUME NEW p \in 1..Len(log) PROVE r \notin Clones(p)' /\ r \notin Clones(p)
    BY <1>0, <1>1 DEF Clones, Subscribe, InnerSubscribe, ReleaseNotify,
                      DropReceiver, DropNotify, InnerDrop, Drained, TypeInv, RxStates
  <2>4. ASSUME NEW p \in 1..Len(log)
        PROVE  Unread(p)' = Unread(p) /\ Clones(p)' = Clones(p)
    BY <2>1, <2>2, <2>3 DEF Unread, Clones, Subscribed
  <2> QED BY <2>1, <2>4 DEF Live
<1>2. CASE Recv(r)
  <2>1. ReadPosition(r) = next[r]
    BY <1>2, NoLag DEF Recv, Subscribed
  <2>2. PICK p \in 1..Len(log) : p = next[r]
    BY <1>0, <1>2 DEF Recv, TypeInv
  <2>3. /\ log' = log /\ UNCHANGED counters
        /\ rx' = [rx EXCEPT ![r] = "clone"]
        /\ next' = [next EXCEPT ![r] = p + 1]
        /\ until' = until
    BY <1>0, <1>2, <2>1, <2>2 DEF Recv, TypeInv
  <2>4. ASSUME NEW q \in 1..Len(log), q # p
        PROVE  Unread(q)' = Unread(q) /\ Clones(q)' = Clones(q)
    BY <1>0, <1>2, <2>2, <2>3, <2>4 DEF Unread, Clones, Subscribed, Recv, TypeInv
  <2>5. r \in Unread(p) /\ r \in Clones(p)'
    BY <1>0, <1>2, <2>2, <2>3 DEF Unread, Clones, Subscribed, Recv, TypeInv
  <2>6. Live' = Live
    <3>1. p \in Live /\ p \in Live'
      BY <2>2, <2>3, <2>5 DEF Live
    <3> QED BY <2>3, <2>4, <3>1 DEF Live
  <2> QED BY <2>3, <2>6
<1>3. CASE RecvReturn(r)
  <2> DEFINE p == next[r] - 1
  <2>1. /\ log' = log /\ next' = next /\ until' = until
        /\ p \in 1..Len(log) /\ r \in Clones(p)
    BY <1>0, <1>3 DEF RecvReturn, TypeInv, Cursors, Subscribed, Clones
  <2>2. /\ \A q \in 1..Len(log) : Unread(q)' = Unread(q)
        /\ \A q \in 1..Len(log) : q # p => Clones(q)' = Clones(q)
        /\ Clones(p)' = Clones(p) \ {r}
    BY <1>0, <1>3, <2>1 DEF RecvReturn, Unread, Clones, Subscribed, TypeInv
  <2>3. p \in Live
    BY <2>1 DEF Live
  <2>4. CASE Unread(p) = {} /\ Clones(p) = {r}
    <3>1. Release(log[p].size)
      BY <1>3, <2>4 DEF RecvReturn
    <3>2. Live' = Live \ {p}
      BY <2>1, <2>2, <2>4 DEF Live
    <3> QED BY <2>3, <3>1, <3>2
  <2>5. CASE ~(Unread(p) = {} /\ Clones(p) = {r})
    <3>1. UNCHANGED counters
      BY <1>3, <2>5 DEF RecvReturn
    <3>2. Live' = Live
      BY <2>1, <2>2, <2>5 DEF Live
    <3> QED BY <3>1, <3>2
  <2> QED BY <2>4, <2>5
<1>4. CASE Drain(r)
  <2>0. PICK p \in 1..Len(log) : p = next[r]
    BY <1>0, <1>4 DEF Drain, TypeInv, Cursors, Draining
  <2>1. /\ log' = log /\ until' = until
        /\ next' = [next EXCEPT ![r] = p + 1]
        /\ r \in Unread(p)
        /\ rx' = rx \/ rx' = [rx EXCEPT ![r] = "drain_notify"]
    BY <1>0, <1>4, <2>0 DEF Drain, TypeInv, Unread
  <2>2. /\ \A q \in 1..Len(log) : Clones(q)' = Clones(q)
        /\ \A q \in 1..Len(log) : q # p => Unread(q)' = Unread(q)
        /\ Unread(p)' = Unread(p) \ {r}
    BY <1>0, <1>4, <2>0, <2>1 DEF Drain, Unread, Clones, Subscribed, TypeInv
  <2>3. p \in Live
    BY <2>1 DEF Live
  <2>4. CASE Unread(p) = {r} /\ Clones(p) = {}
    <3>1. Release(log[p].size)
      BY <1>4, <2>0, <2>4 DEF Drain
    <3>2. Live' = Live \ {p}
      BY <2>1, <2>2, <2>4 DEF Live
    <3> QED BY <2>3, <3>1, <3>2
  <2>5. CASE ~(Unread(p) = {r} /\ Clones(p) = {})
    <3>1. UNCHANGED counters
      BY <1>4, <2>0, <2>5 DEF Drain
    <3>2. Live' = Live
      BY <2>1, <2>2, <2>5 DEF Live
    <3> QED BY <3>1, <3>2
  <2> QED BY <2>4, <2>5
<1> QED BY <1>1, <1>2, <1>3, <1>4 DEF RxStep

\* What a task does to the reservations and to the counters.
LEMMA TaskCounts ==
    ASSUME IInv, NEW s \in Senders, TaskStep(s)
    PROVE  Counts' /\ bytes_in_flight' \in Nat /\ messages_in_flight' \in Nat
<1>0. TypeInv /\ Cursors /\ Counts /\ Len(log) \in Nat
  BY DEF IInv, TypeInv
<1>1. /\ Sized(log, Live) /\ Sized(msg, Reserved)
      /\ SizeSum(log, Live) \in Nat /\ SizeSum(msg, Reserved) \in Nat
      /\ IsFiniteSet(Live) /\ IsFiniteSet(Reserved)
      /\ Cardinality(Live) \in Nat /\ Cardinality(Reserved) \in Nat
  BY <1>0, SizesKnown, SizeSumType, FS_CardinalityType DEF Counts
<1>2. MaxMessages \in Nat \ {0}
  BY BroadcastAssumption DEF BroadcastAssumption
<1>9. /\ messages_in_flight = Cardinality(Live) + Cardinality(Reserved)
      /\ bytes_in_flight = SizeSum(log, Live) + SizeSum(msg, Reserved)
      /\ messages_in_flight <= MaxMessages
      /\ IsFiniteSet(Reserved)
  BY <1>0 DEF Counts
<1>3. CASE \/ BeginSend(s) \/ TryNoReceivers(s) \/ TryFull(s) \/ FailedNotify(s)
           \/ Await(s) \/ AwaitTimeout(s)
  <2>1. /\ Reserved' = Reserved /\ UNCHANGED counters
        /\ \A t \in Reserved : msg'[t] = msg[t]
    BY <1>0, <1>3 DEF TypeInv, Reserved, BeginSend, TryNoReceivers, TryFull,
                      FailedNotify, Await, AwaitTimeout, WokenAll
  <2>2. ~InnerSend(s)
    BY <1>3 DEF InnerSend, BeginSend, TryNoReceivers, TryFull, FailedNotify,
                Await, AwaitTimeout
  <2>3. Live' = Live /\ log' = log
    BY <2>2, TaskLive
  <2>4. SizeSum(msg', Reserved') = SizeSum(msg, Reserved)
    BY <1>1, <2>1, SizeSumAgrees
  <2> QED BY <1>0, <2>1, <2>3, <2>4 DEF Counts, counters, TypeInv
<1>4. CASE TryReserve(s)
  <2>1. s \notin Reserved /\ Reserved' = Reserved \cup {s}
    BY <1>0, <1>4 DEF TryReserve, Reserved, TypeInv
  <2>2. Live' = Live /\ log' = log /\ msg' = msg
    BY <1>4, TaskLive DEF InnerSend, TryReserve
  <2>3. msg[s].size \in Nat
    BY <1>0 DEF TypeInv
  <2>4. SizeSum(msg, Reserved \cup {s}) = msg[s].size + SizeSum(msg, Reserved)
    BY <1>1, <2>1, <2>3, SizeSumAdd
  <2>5. /\ IsFiniteSet(Reserved \cup {s})
        /\ Cardinality(Reserved \cup {s}) = Cardinality(Reserved) + 1
    BY <1>1, <2>1, FS_AddElement
  <2>6. messages_in_flight' = messages_in_flight + 1 /\ messages_in_flight' <= MaxMessages
    BY <1>0, <1>2, <1>4 DEF TryReserve, Admits, TypeInv
  <2>7. bytes_in_flight' = bytes_in_flight + msg[s].size
    BY <1>4 DEF TryReserve
  <2>8. bytes_in_flight' = SizeSum(log', Live') + SizeSum(msg', Reserved')
    BY <1>1, <1>9, <2>1, <2>2, <2>3, <2>4, <2>7
  <2>9. messages_in_flight' = Cardinality(Live') + Cardinality(Reserved')
    BY <1>1, <1>9, <2>1, <2>2, <2>5, <2>6
  <2>10. bytes_in_flight' \in Nat /\ messages_in_flight' \in Nat
    BY <1>1, <1>9, <2>3, <2>6, <2>7
  <2> QED BY <2>1, <2>5, <2>6, <2>8, <2>9, <2>10 DEF Counts
<1> DEFINE GivenUp ==
             /\ Reserved' = Reserved \ {s} /\ msg[s].size \in Nat
             /\ SizeSum(msg, Reserved) = msg[s].size + SizeSum(msg, Reserved \ {s})
             /\ SizeSum(msg, Reserved \ {s}) \in Nat
             /\ IsFiniteSet(Reserved \ {s})
             /\ Cardinality(Reserved \ {s}) = Cardinality(Reserved) - 1
             /\ Cardinality(Reserved \ {s}) \in Nat
<1>5. ASSUME pc[s] = "reserved", pc'[s] # "reserved",
             \A t \in Senders \ {s} : pc'[t] = pc[t]
      PROVE  GivenUp
  <2>1. s \in Reserved /\ Reserved' = Reserved \ {s}
    BY <1>5 DEF Reserved
  <2>2. msg[s].size \in Nat
    BY <1>0 DEF TypeInv
  <2>3. /\ SizeSum(msg, Reserved) = msg[s].size + SizeSum(msg, Reserved \ {s})
        /\ SizeSum(msg, Reserved \ {s}) \in Nat
    BY <1>1, <2>1, SizeSumRemove
  <2>4. /\ IsFiniteSet(Reserved \ {s})
        /\ Cardinality(Reserved \ {s}) = Cardinality(Reserved) - 1
        /\ Cardinality(Reserved \ {s}) \in Nat
    BY <1>1, <2>1, FS_RemoveElement, FS_CardinalityType
  <2> QED BY <2>1, <2>2, <2>3, <2>4
<1>6. CASE InnerSend(s)
  <2>1. /\ Live' = Live \cup {Len(log) + 1} /\ Len(log) + 1 \notin Live
        /\ log' = Append(log, msg[s]) /\ msg[s] \in Message
        /\ UNCHANGED <<msg, counters>>
    BY <1>0, <1>6, TaskLive DEF InnerSend, TypeInv
  <2>2. GivenUp
    <3>1. pc[s] = "reserved" /\ pc'[s] = "idle" /\ \A t \in Senders \ {s} : pc'[t] = pc[t]
      BY <1>0, <1>6 DEF InnerSend, TypeInv
    <3> QED BY <1>5, <3>1
  <2>3. log'[Len(log) + 1] = msg[s] /\ \A p \in Live : log'[p] = log[p]
    BY <1>0, <2>1 DEF TypeInv, Live
  <2>4. Sized(log', Live) /\ SizeSum(log', Live) = SizeSum(log, Live)
    BY <1>1, <2>3, SizeSumAgrees DEF Sized
  <2>5. SizeSum(log', Live') = msg[s].size + SizeSum(log, Live)
    <3> DEFINE n == Len(log) + 1
    <3>1. n \notin Live /\ Live' = Live \cup {n} /\ log'[n].size = msg[s].size
      BY <2>1, <2>3
    <3>2. log'[n].size \in Nat
      BY <2>2, <3>1
    <3> HIDE DEF n
    <3> QED BY <2>4, <3>1, <3>2, SizeSumAdd
  <2>6. Cardinality(Live') = Cardinality(Live) + 1
    BY <1>1, <2>1, FS_AddElement
  <2>7. UNCHANGED <<bytes_in_flight, messages_in_flight>> /\ msg' = msg
    BY <2>1 DEF counters
  <2>8. bytes_in_flight' = SizeSum(log', Live') + SizeSum(msg', Reserved')
    BY <1>1, <1>9, <2>2, <2>5, <2>7
  <2>9. messages_in_flight' = Cardinality(Live') + Cardinality(Reserved')
    BY <1>1, <1>9, <2>2, <2>6, <2>7
  <2> QED BY <1>1, <1>9, <2>2, <2>7, <2>8, <2>9 DEF Counts
<1>7. CASE InnerSendFails(s)
  <2>1. Live' = Live /\ log' = log /\ msg' = msg
    BY <1>7, TaskLive DEF InnerSend, InnerSendFails
  <2>2. GivenUp
    <3>1. pc[s] = "reserved" /\ pc'[s] = "failed" /\ \A t \in Senders \ {s} : pc'[t] = pc[t]
      BY <1>0, <1>7 DEF InnerSendFails, TypeInv
    <3> QED BY <1>5, <3>1
  <2>3. /\ bytes_in_flight' = bytes_in_flight - msg[s].size
        /\ messages_in_flight' = messages_in_flight - 1
    BY <1>7 DEF InnerSendFails, Release
  <2>8. bytes_in_flight' = SizeSum(log', Live') + SizeSum(msg', Reserved')
    BY <1>1, <1>9, <2>1, <2>2, <2>3
  <2>9. messages_in_flight' = Cardinality(Live') + Cardinality(Reserved')
    BY <1>1, <1>9, <2>1, <2>2, <2>3
  <2>10. bytes_in_flight' \in Nat /\ messages_in_flight' \in Nat
    BY <1>1, <2>1, <2>2, <2>8, <2>9
  <2> QED BY <1>1, <1>2, <1>9, <2>2, <2>3, <2>8, <2>9, <2>10 DEF Counts
<1> QED BY <1>3, <1>4, <1>6, <1>7 DEF TaskStep

\* What a receiver does to the counters.
LEMMA RxCounts ==
    ASSUME IInv, NEW r \in Receivers, RxStep(r)
    PROVE  Counts' /\ bytes_in_flight' \in Nat /\ messages_in_flight' \in Nat
<1>0. TypeInv /\ Cursors /\ Counts /\ Len(log) \in Nat
  BY DEF IInv, TypeInv
<1>1. /\ Sized(log, Live) /\ SizeSum(log, Live) \in Nat /\ SizeSum(msg, Reserved) \in Nat
      /\ IsFiniteSet(Live)
      /\ Cardinality(Live) \in Nat /\ Cardinality(Reserved) \in Nat
  BY <1>0, SizesKnown, SizeSumType, FS_CardinalityType DEF Counts
<1>2. MaxMessages \in Nat \ {0}
  BY BroadcastAssumption DEF BroadcastAssumption
<1>9. /\ messages_in_flight = Cardinality(Live) + Cardinality(Reserved)
      /\ bytes_in_flight = SizeSum(log, Live) + SizeSum(msg, Reserved)
      /\ messages_in_flight <= MaxMessages
      /\ IsFiniteSet(Reserved)
  BY <1>0 DEF Counts
<1>3. log' = log /\ msg' = msg /\ Reserved' = Reserved
  BY <1>0 DEF RxStep, Subscribe, InnerSubscribe, Recv, RecvReturn, ReleaseNotify,
              DropReceiver, DropNotify, InnerDrop, Drain, Drained, taskVars, WokenAll,
              Reserved, TypeInv
<1>4. CASE Live' = Live /\ UNCHANGED counters
  BY <1>0, <1>3, <1>4 DEF Counts, counters, TypeInv
<1>5. CASE \E p \in Live : Live' = Live \ {p} /\ Release(log[p].size)
  <2>1. PICK p \in Live : Live' = Live \ {p} /\ Release(log[p].size)
    BY <1>5
  <2>2. /\ SizeSum(log, Live) = log[p].size + SizeSum(log, Live \ {p})
        /\ SizeSum(log, Live \ {p}) \in Nat /\ log[p].size \in Nat
    BY <1>1, SizeSumRemove DEF Sized
  <2>3. /\ Cardinality(Live \ {p}) = Cardinality(Live) - 1
        /\ Cardinality(Live \ {p}) \in Nat
    BY <1>1, FS_RemoveElement, FS_CardinalityType
  <2>4. /\ bytes_in_flight' = bytes_in_flight - log[p].size
        /\ messages_in_flight' = messages_in_flight - 1
    BY <2>1 DEF Release
  <2>8. bytes_in_flight' = SizeSum(log', Live') + SizeSum(msg', Reserved')
    BY <1>1, <1>3, <1>9, <2>1, <2>2, <2>4
  <2>9. messages_in_flight' = Cardinality(Live') + Cardinality(Reserved')
    BY <1>1, <1>3, <1>9, <2>1, <2>3, <2>4
  <2>10. bytes_in_flight' \in Nat /\ messages_in_flight' \in Nat
    BY <1>1, <1>3, <2>1, <2>2, <2>3, <2>8, <2>9
  <2> QED BY <1>1, <1>2, <1>3, <1>9, <2>4, <2>8, <2>9, <2>10 DEF Counts
<1> QED BY <1>4, <1>5, RxLive

\* IInv holds of the channel that channel() returns.
LEMMA IInvInit == Init => IInv
<1> SUFFICES ASSUME Init PROVE IInv
  OBVIOUS
<1>1. TypeInv
  BY DEF Init, TypeInv, TaskStates, RxStates
<1>2. Cursors
  BY DEF Init, Cursors, Subscribed, Draining
<1>3. Live = {} /\ Reserved = {}
  BY DEF Init, Live, Reserved
<1>4. Counts
  BY <1>3, FS_EmptySet, SizeSumEmpty, BroadcastAssumption
     DEF Init, Counts, BroadcastAssumption
<1> QED BY <1>1, <1>2, <1>4 DEF IInv

\* IInv is inductive.
LEMMA IInvStep == IInv /\ [Next]_vars => IInv'
<1> SUFFICES ASSUME IInv, [Next]_vars PROVE IInv'
  OBVIOUS
<1>1. ASSUME NEW s \in Senders, TaskStep(s) PROVE TypeInv' /\ Counts'
  BY <1>1, TaskCounts, TaskTypes DEF IInv
<1>2. ASSUME NEW r \in Receivers, RxStep(r) PROVE TypeInv' /\ Counts'
  BY <1>2, RxCounts, RxTypes
<1>3. CASE UNCHANGED vars
  <2>1. Live' = Live /\ Reserved' = Reserved
    BY <1>3 DEF vars, rxVars, taskVars, Live, Unread, Clones, Subscribed, Reserved
  <2> QED BY <1>3, <2>1, CursorsStep
          DEF IInv, TypeInv, Counts, vars, rxVars, taskVars, counters
<1> QED BY <1>1, <1>2, <1>3, CursorsStep, NextCases DEF IInv

-----------------------------------------------------------------------------

\* The counters of Locked are exact at every moment, so that neither `-=` of
\* TrackedInner::drop underflows: messages and bytes in flight are those of
\* the wrappers that are alive and of the places that are reserved.
THEOREM CountersAreExact == Spec => []CountersExact
<1>1. IInv => CountersExact
  BY DEF IInv, Counts, CountersExact, SizeSum
<1> QED BY <1>1, IInvInit, IInvStep, PTL DEF Spec

-----------------------------------------------------------------------------
(* The refinement *)

\* The cursor of the abstract broadcast.
Cursor == [r \in Receivers |-> IF r \in Subscribed THEN next[r] ELSE 0]

\* A task's step appends to the log what every subscriber has room for, or
\* is invisible.
LEMMA TaskRefines ==
    ASSUME IInv, NEW s \in Senders, TaskStep(s)
    PROVE  [Abstract!Next]_<<log, Cursor>>
<1>0. TypeInv /\ Cursors /\ Counts /\ Len(log) \in Nat
  BY DEF IInv, TypeInv
<1>1. Cursor' = Cursor
  BY <1>0, TaskFrame DEF Cursor, Subscribed, rxVars
<1>2. CASE ~InnerSend(s)
  BY <1>0, <1>1, <1>2, TaskFrame
<1>3. CASE InnerSend(s)
  <2>1. msg[s] \in Message /\ log' = Append(log, msg[s]) /\ Subscribed # {}
    BY <1>0, <1>3 DEF InnerSend, TypeInv
  <2>2. Cardinality(Reserved) \in Nat /\ Cardinality(Reserved) # 0
    <3>1. s \in Reserved /\ IsFiniteSet(Reserved)
      BY <1>0, <1>3 DEF InnerSend, Reserved, Counts
    <3> QED BY <3>1, FS_EmptySet, FS_CardinalityType
  <2>3. Cardinality(Live) \in Nat /\ MaxMessages \in Nat
    BY <1>0, SizesKnown, FS_CardinalityType, BroadcastAssumption DEF BroadcastAssumption
  <2>4. ASSUME NEW r \in Subscribed PROVE Len(log) + 1 < next[r] + MaxMessages
    <3>1. next[r] \in Nat /\ r \in Receivers
      BY <1>0 DEF TypeInv, Subscribed
    <3>2. /\ Len(log) + 1 - next[r] <= Cardinality(Live)
          /\ Cardinality(Live) + Cardinality(Reserved) <= MaxMessages
      BY <3>1, NoLag
    <3> QED BY <1>0, <2>2, <2>3, <3>1, <3>2
  <2>5. \A r \in Receivers : Cursor[r] = IF r \in Subscribed THEN next[r] ELSE 0
    BY DEF Cursor
  <2>6. Abstract!Subscribers = Subscribed
    BY <1>0, <2>5 DEF Abstract!Subscribers, Cursor, Subscribed, TypeInv
  <2>7. Abstract!HasRoom
    BY <2>4, <2>6 DEF Abstract!HasRoom, Subscribed
  <2>8. Abstract!Publish(msg[s])
    BY <1>1, <2>1, <2>6, <2>7 DEF Abstract!Publish, Cursor
  <2> QED BY <2>1, <2>8 DEF Abstract!Next
<1> QED BY <1>2, <1>3

\* A receiver's step moves its own cursor as the abstract broadcast does, or
\* is invisible; in particular recv takes the next entry, never a later one.
LEMMA RxRefines ==
    ASSUME IInv, NEW r \in Receivers, RxStep(r)
    PROVE  [Abstract!Next]_<<log, Cursor>>
<1>0. TypeInv /\ Cursors /\ Counts /\ Len(log) \in Nat
  BY DEF IInv, TypeInv
<1>1. CASE \/ Subscribe(r) \/ RecvReturn(r) \/ ReleaseNotify(r) \/ DropReceiver(r)
           \/ DropNotify(r) \/ Drain(r) \/ Drained(r)
  <2>1. log' = log
    BY <1>1 DEF Subscribe, RecvReturn, ReleaseNotify, DropReceiver, DropNotify,
                Drain, Drained
  <2>2. \A q \in Receivers : q # r => rx'[q] = rx[q] /\ next'[q] = next[q]
    BY <1>0, <1>1 DEF Subscribe, RecvReturn, ReleaseNotify, DropReceiver, DropNotify,
                      Drain, Drained, TypeInv
  <2>3. /\ r \in Subscribed' <=> r \in Subscribed
        /\ r \in Subscribed => next'[r] = next[r]
    BY <1>0, <1>1 DEF Subscribe, RecvReturn, ReleaseNotify, DropReceiver, DropNotify,
                      Drain, Drained, TypeInv, Subscribed, RxStates
  <2>4. Cursor' = Cursor
    BY <2>2, <2>3 DEF Cursor, Subscribed
  <2> QED BY <2>1, <2>4
<1>2. CASE InnerSubscribe(r)
  <2>1. /\ r \notin Subscribed /\ r \in Subscribed' /\ next'[r] = Len(log) + 1
        /\ \A q \in Receivers : q # r => rx'[q] = rx[q] /\ next'[q] = next[q]
    BY <1>0, <1>2 DEF InnerSubscribe, Subscribed, TypeInv
  <2>2. Cursor[r] = 0 /\ Cursor' = [Cursor EXCEPT ![r] = Len(log) + 1]
    BY <2>1 DEF Cursor, Subscribed
  <2>3. Abstract!Subscribe(r)
    BY <1>2, <2>2 DEF Abstract!Subscribe, InnerSubscribe, Cursor
  <2> QED BY <2>3 DEF Abstract!Next
<1>3. CASE Recv(r)
  <2>0. ReadPosition(r) = next[r]
    BY <1>3, NoLag DEF Recv, Subscribed
  <2>1. /\ r \in Subscribed /\ r \in Subscribed' /\ next'[r] = next[r] + 1
        /\ next[r] \in Nat \ {0} /\ next[r] <= Len(log)
        /\ \A q \in Receivers : q # r => rx'[q] = rx[q] /\ next'[q] = next[q]
    BY <1>0, <1>3, <2>0 DEF Recv, Subscribed, TypeInv
  <2>2. Cursor[r] = next[r] /\ Cursor' = [Cursor EXCEPT ![r] = next[r] + 1]
    BY <2>1 DEF Cursor, Subscribed
  <2>3. Abstract!Read(r)
    BY <1>3, <2>1, <2>2 DEF Abstract!Read, Abstract!CanRead, Recv, Cursor
  <2> QED BY <2>3 DEF Abstract!Next
<1>4. CASE InnerDrop(r)
  <2>1. /\ r \in Subscribed /\ r \notin Subscribed' /\ next[r] # 0
        /\ \A q \in Receivers : q # r => rx'[q] = rx[q] /\ next'[q] = next[q]
    BY <1>0, <1>4 DEF InnerDrop, Subscribed, TypeInv
  <2>2. Cursor[r] # 0 /\ Cursor' = [Cursor EXCEPT ![r] = 0]
    BY <2>1 DEF Cursor, Subscribed
  <2>3. Abstract!Unsubscribe(r)
    BY <1>4, <2>2 DEF Abstract!Unsubscribe, InnerDrop, Cursor
  <2> QED BY <2>3 DEF Abstract!Next
<1> QED BY <1>1, <1>2, <1>3, <1>4 DEF RxStep

\* The channel is a lossless bounded broadcast: a receiver gets every message
\* sent between its subscribe() and its drop, once and in order (tokio never
\* overwrites what it has not read), and nothing is sent that some receiver
\* has no room for.
THEOREM ChannelRefinesBroadcast == Spec => ImplementsBroadcast
<1>1. Init => Abstract!Init
  <2> SUFFICES ASSUME Init PROVE Abstract!Init
    OBVIOUS
  <2>1. \A r \in Receivers : Cursor[r] \in {0, 1}
    BY DEF Init, Cursor
  <2>2. Cursor \in [Receivers -> {0, 1}]
    BY <2>1 DEF Cursor
  <2> QED BY <2>2 DEF Init, Abstract!Init, Cursor
<1>2. IInv /\ [Next]_vars => [Abstract!Next]_<<log, Cursor>>
  <2> SUFFICES ASSUME IInv, [Next]_vars PROVE [Abstract!Next]_<<log, Cursor>>
    OBVIOUS
  <2>1. CASE UNCHANGED vars
    BY <2>1 DEF vars, rxVars, Cursor, Subscribed
  <2> QED BY <2>1, NextCases, TaskRefines, RxRefines
<1> QED BY <1>1, <1>2, IInvInit, IInvStep, PTL
        DEF Spec, ImplementsBroadcast, Abstract!Spec, Cursor

=============================================================================
