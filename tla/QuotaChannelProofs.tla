------------------------- MODULE QuotaChannelProofs -------------------------
(***************************************************************************)
(* Proofs about the byte-bounded channel, for any number of senders and    *)
(* receivers, any capacity, any message sizes and any number of calls.     *)
(***************************************************************************)
EXTENDS QuotaChannel, DataFacts

\* The invariant the others rest on: Return pops the queue of the fair mutex,
\* so types need OneActiveSender; Drop decrements num_receivers, so they
\* need ReceiverCount.
IInv == TypeOK /\ OneActiveSender /\ ReceiverCount

\* The actions, spelled out for the case splits below.
SenderStep ==
    \/ \E s \in Senders, kind \in {"send", "try_send"}, size \in Sizes :
          Begin(s, kind, size)
    \/ \E s \in Senders :
          \/ Acquire(s) \/ SendReserve(s) \/ SendDisconnected(s)
          \/ SendPark(s) \/ TrySendReserve(s) \/ TrySendFull(s)
          \/ Push(s) \/ ParkTimeout(s)

ReceiverStep ==
    \/ \E r \in Receivers :
          \/ Pop(r) \/ OnReceive(r) \/ OnReceiveNotify(r)
          \/ DropReceiver(r) \/ DropNotify(r) \/ DropInner(r)
    \/ \E r, clone \in Receivers : CloneReceiver(r, clone)

-----------------------------------------------------------------------------

\* Every step of the channel is a step of a sender or of a receiver.
LEMMA NextCases == Next => SenderStep \/ ReceiverStep
BY DEF Next, SenderNext, SenderProgress, ReceiverNext, ReceiverProgress,
       BeginSend, BeginTrySend, SenderStep, ReceiverStep

\* A sender leaves the receivers alone.
LEMMA SenderFrame == SenderStep => UNCHANGED <<num_receivers, rx, held>>
BY DEF SenderStep, Begin, Acquire, SendReserve, SendDisconnected, SendPark,
       TrySendReserve, TrySendFull, Push, ParkTimeout, Reserve, receiverVars

\* A message has a size, and the natural numbers hold it.
LEMMA MessageSize == ASSUME NEW m \in Message PROVE m.size \in Nat
<1>1. Sizes \cup {0} \subseteq Nat
  BY ConstantsAssumption DEF ConstantsAssumption
<1>2. m.size \in Sizes \cup {0}
  BY DEF Message
<1> QED BY <1>1, <1>2

\* The message a sender is sending has a size.
LEMMA CallSize ==
    ASSUME TypeOK, NEW s \in Senders
    PROVE  call[s].msg \in Message /\ call[s].msg.size \in Nat
<1>1. call[s] \in Call
  BY DEF TypeOK
<1>2. call[s].msg \in Message
  BY <1>1 DEF Call
<1> QED BY <1>2, MessageSize

\* A message on the wire has a size.
LEMMA WireSize ==
    ASSUME TypeOK, wire # <<>>
    PROVE  Head(wire) \in Message /\ Head(wire).size \in Nat /\ Tail(wire) \in Seq(Message)
<1>1. Head(wire) \in Message /\ Tail(wire) \in Seq(Message)
  BY DEF TypeOK
<1> QED BY <1>1, MessageSize

\* The steps of a sender keep the state typed.
LEMMA SenderType == TypeOK /\ OneActiveSender /\ SenderStep => TypeOK'
<1> SUFFICES ASSUME TypeOK, OneActiveSender, SenderStep PROVE TypeOK'
  OBVIOUS
<1> USE DEF TypeOK, HasInner, Critical, receiverVars, history
<1>1. ASSUME NEW s \in Senders, NEW kind \in {"send", "try_send"},
             NEW size \in Sizes, Begin(s, kind, size)
      PROVE  TypeOK'
  BY <1>1, ConstantsAssumption DEF Begin, Call, Message
<1>2. ASSUME NEW s \in Senders, Acquire(s) \/ ParkTimeout(s) PROVE TypeOK'
  BY <1>2 DEF Acquire, ParkTimeout
<1>3. ASSUME NEW s \in Senders, SendReserve(s) \/ TrySendReserve(s)
      PROVE  TypeOK'
  <2>1. call[s].msg.size \in Nat
    BY CallSize
  <2>2. Reserve(s)
    BY <1>3 DEF SendReserve, TrySendReserve
  <2> QED BY <2>1, <2>2 DEF Reserve
<1>4. ASSUME NEW s \in Senders, SendPark(s) PROVE TypeOK'
  <2>1. PICK w \in {call[s].warned, TRUE} : call' = [call EXCEPT ![s].warned = w]
    BY <1>4 DEF SendPark
  <2>2. w \in BOOLEAN
    BY DEF Call
  <2>3. [call[s] EXCEPT !.warned = w] \in Call
    BY <2>2 DEF Call
  <2>4. call' \in [Senders -> Call]
    BY <2>1, <2>3
  <2> QED BY <1>4, <2>4 DEF SendPark
<1>5. ASSUME NEW s \in Senders, pc[s] \in Critical, Return(s)
      PROVE  /\ sender_queue' \in Seq(Senders)
             /\ pc' \in [Senders -> {"idle", "queued"} \cup Critical]
             /\ call' \in [Senders -> Call]
             /\ calls' \in [Senders -> Nat]
  BY <1>5 DEF Return, NoCall, OneActiveSender, Call, Message
<1>6. ASSUME NEW s \in Senders, SendDisconnected(s) \/ TrySendFull(s)
      PROVE  TypeOK'
  BY <1>5, <1>6 DEF SendDisconnected, TrySendFull, Checking
<1>7. ASSUME NEW s \in Senders, Push(s) PROVE TypeOK'
  <2>1. call[s].msg \in Message
    BY CallSize
  <2>2. /\ wire' \in Seq(Message)
        /\ accepted' \in Seq(Message)
    <3>1. CASE Connected
      <4>1. /\ wire' = Append(wire, call[s].msg)
            /\ accepted' = Append(accepted, call[s].msg)
        BY <1>7, <3>1 DEF Push
      <4> QED BY <2>1, <4>1
    <3>2. CASE ~Connected
      BY <1>7, <3>2 DEF Push
    <3> QED BY <3>1, <3>2
  <2> QED BY <1>5, <1>7, <2>2 DEF Push
<1> QED BY <1>1, <1>2, <1>3, <1>4, <1>6, <1>7 DEF SenderStep

\* The steps of a sender keep active_sender exclusive.
LEMMA SenderExclusive ==
    TypeOK /\ OneActiveSender /\ SenderStep => OneActiveSender'
<1> SUFFICES ASSUME TypeOK, OneActiveSender, SenderStep PROVE OneActiveSender'
  OBVIOUS
<1> USE DEF OneActiveSender, Critical
<1>1. ASSUME NEW s \in Senders, NEW kind \in {"send", "try_send"},
             NEW size \in Sizes, Begin(s, kind, size)
      PROVE  OneActiveSender'
  <2>1. /\ pc \in [Senders -> {"idle", "queued"} \cup Critical] /\ sender_queue \in Seq(Senders)
        /\ pc' = [pc EXCEPT ![s] = "queued"] /\ sender_queue' = Append(sender_queue, s)
    BY <1>1 DEF Begin, TypeOK
  <2>2. \A t \in Senders : pc'[t] \in Critical => pc[t] \in Critical
    BY <2>1
  <2>3. sender_queue # <<>> => sender_queue' # <<>> /\ Head(sender_queue') = Head(sender_queue)
    BY <2>1
  <2> QED BY <2>2, <2>3
<1>2. ASSUME NEW s \in Senders,
             \/ Acquire(s) \/ ParkTimeout(s) \/ SendPark(s)
             \/ SendReserve(s) \/ TrySendReserve(s)
      PROVE  OneActiveSender'
  BY <1>2 DEF TypeOK, Acquire, ParkTimeout, SendPark, SendReserve,
              TrySendReserve, Reserve, Checking
<1>3. ASSUME NEW s \in Senders, pc[s] \in Critical, Return(s)
      PROVE  OneActiveSender'
  BY <1>3 DEF TypeOK, Return
<1>4. ASSUME NEW s \in Senders, SendDisconnected(s) \/ TrySendFull(s) \/ Push(s)
      PROVE  OneActiveSender'
  BY <1>3, <1>4 DEF SendDisconnected, TrySendFull, Push, Checking
<1> QED BY <1>1, <1>2, <1>4 DEF SenderStep

\* The steps of a receiver keep num_receivers exact.
LEMMA ReceiverCounted ==
    TypeOK /\ ReceiverCount /\ ReceiverStep => num_receivers' \in Nat /\ ReceiverCount'
<1> SUFFICES ASSUME TypeOK, ReceiverCount, ReceiverStep
             PROVE  num_receivers' \in Nat /\ ReceiverCount'
  OBVIOUS
<1> USE DEF TypeOK, ReceiverCount
<1>0. IsFiniteSet(Undropped)
  BY ConstantsAssumption, FS_Subset DEF Undropped
<1>1. ASSUME NEW r \in Receivers,
             \/ Pop(r) \/ OnReceive(r) \/ OnReceiveNotify(r)
             \/ DropNotify(r) \/ DropInner(r)
      PROVE  num_receivers' \in Nat /\ ReceiverCount'
  <2>1. num_receivers' = num_receivers
    BY <1>1 DEF Pop, OnReceive, OnReceiveNotify, DropNotify, DropInner
  <2>2. Undropped' = Undropped
    BY <1>1 DEF Undropped, Pop, OnReceive, OnReceiveNotify, DropNotify, DropInner
  <2> QED BY <2>1, <2>2
<1>2. ASSUME NEW r \in Receivers, DropReceiver(r)
      PROVE  num_receivers' \in Nat /\ ReceiverCount'
  <2>1. r \in Undropped /\ Undropped' = Undropped \ {r}
    BY <1>2 DEF Undropped, DropReceiver
  <2>2. Cardinality(Undropped') = Cardinality(Undropped) - 1
    BY <1>0, <2>1, FS_RemoveElement
  <2>3. Cardinality(Undropped') \in Nat
    BY <1>0, <2>1, FS_RemoveElement, FS_CardinalityType
  <2> QED BY <1>2, <2>2, <2>3 DEF DropReceiver
<1>3. ASSUME NEW r \in Receivers, NEW clone \in Receivers, CloneReceiver(r, clone)
      PROVE  num_receivers' \in Nat /\ ReceiverCount'
  <2>1. clone \notin Undropped /\ Undropped' = Undropped \cup {clone}
    BY <1>3 DEF Undropped, CloneReceiver
  <2>2. Cardinality(Undropped') = Cardinality(Undropped) + 1
    BY <1>0, <2>1, FS_AddElement
  <2> QED BY <1>3, <2>2 DEF CloneReceiver
<1> QED BY <1>1, <1>2, <1>3 DEF ReceiverStep

\* The steps of a receiver keep the state typed and active_sender exclusive.
LEMMA ReceiverType ==
    ASSUME TypeOK, OneActiveSender, ReceiverStep, num_receivers' \in Nat
    PROVE  TypeOK' /\ OneActiveSender'
<1> USE DEF TypeOK, OneActiveSender, HasInner, Critical, senderVars, history
<1>1. ASSUME NEW r \in Receivers, Pop(r) PROVE TypeOK' /\ OneActiveSender'
  BY <1>1, WireSize DEF Pop
<1>2. ASSUME NEW r \in Receivers, OnReceive(r) PROVE TypeOK' /\ OneActiveSender'
  <2>1. bytes_in_flight' \in Nat
    BY <1>2 DEF OnReceive
  <2> QED BY <1>2, <2>1 DEF OnReceive
<1>3. ASSUME NEW r \in Receivers, OnReceiveNotify(r) \/ DropNotify(r)
      PROVE  TypeOK' /\ OneActiveSender'
  BY <1>3 DEF OnReceiveNotify, DropNotify, WokenAll
<1>4. ASSUME NEW r \in Receivers, NEW clone \in Receivers, CloneReceiver(r, clone)
      PROVE  TypeOK' /\ OneActiveSender'
  BY <1>4 DEF CloneReceiver
<1>5. ASSUME NEW r \in Receivers, DropInner(r) PROVE TypeOK' /\ OneActiveSender'
  <2>1. wire' \in Seq(Message)
    BY <1>5 DEF DropInner
  <2> QED BY <1>5, <2>1 DEF DropInner
<1>6. ASSUME NEW r \in Receivers, DropReceiver(r) PROVE TypeOK' /\ OneActiveSender'
  <2>1. rx' \in [Receivers -> HasInner \cup {"absent", "closed"}]
    BY <1>6 DEF DropReceiver
  <2> QED BY <1>6, <2>1 DEF DropReceiver
<1> QED BY <1>1, <1>2, <1>3, <1>4, <1>5, <1>6 DEF ReceiverStep

\* IInv holds initially: one receiver, nobody sending.
LEMMA IInvInit == Init => IInv
<1> SUFFICES ASSUME Init PROVE IInv
  OBVIOUS
<1>1. TypeOK
  BY ConstantsAssumption DEF Init, TypeOK, NoCall, Call, Message, HasInner
<1>2. OneActiveSender
  BY DEF Init, OneActiveSender, Critical
<1>3. Undropped = {First}
  BY ConstantsAssumption DEF Init, Undropped
<1>4. ReceiverCount
  BY <1>3, FS_Singleton DEF Init, ReceiverCount
<1> QED BY <1>1, <1>2, <1>4 DEF IInv

\* IInv is inductive.
LEMMA IInvStep == IInv /\ [Next]_vars => IInv'
<1> SUFFICES ASSUME IInv, [Next]_vars PROVE IInv'
  OBVIOUS
<1>1. CASE SenderStep
  <2>1. ReceiverCount'
    BY <1>1, SenderFrame DEF IInv, ReceiverCount, Undropped
  <2> QED BY <1>1, <2>1, SenderType, SenderExclusive DEF IInv
<1>2. CASE ReceiverStep
  BY <1>2, ReceiverCounted, ReceiverType DEF IInv
<1>3. CASE UNCHANGED vars
  BY <1>3 DEF IInv, TypeOK, OneActiveSender, ReceiverCount, Undropped, vars
<1> QED BY <1>1, <1>2, <1>3, NextCases

-----------------------------------------------------------------------------

\* At any time at most one thread is between the lock of active_sender and
\* its release in send_impl and try_send, the state is typed and
\* num_receivers is the number of receivers whose drop has not begun.
THEOREM ChannelSafety == Spec => [](TypeOK /\ OneActiveSender /\ ReceiverCount)
<1>1. Init => IInv
  BY IInvInit
<1>2. IInv /\ [Next]_vars => IInv'
  BY IInvStep
<1>3. IInv => TypeOK /\ OneActiveSender /\ ReceiverCount
  BY DEF IInv
<1> QED BY <1>1, <1>2, <1>3, PTL DEF Spec

\* A blocked sender sleeps only while it has to: when there is room for its
\* message, or no receiver left, a notify_all is still on its way.
THEOREM WakeupSafety == Spec => []NoLostWakeup
<1>1. Init => NoLostWakeup
  BY DEF Init, NoLostWakeup
<1>2. IInv /\ NoLostWakeup /\ [Next]_vars => NoLostWakeup'
  <2> SUFFICES ASSUME IInv, NoLostWakeup, [Next]_vars PROVE NoLostWakeup'
    OBVIOUS
  <2> USE DEF NoLostWakeup, IInv
  <2>1. ASSUME NEW s \in Senders,
               \/ \E kind \in {"send", "try_send"}, size \in Sizes : Begin(s, kind, size)
               \/ Acquire(s) \/ ParkTimeout(s)
        PROVE  NoLostWakeup'
    BY <2>1 DEF TypeOK, Begin, Acquire, ParkTimeout, HasRoom, receiverVars
  <2>2. ASSUME NEW s \in Senders,
               \/ SendReserve(s) \/ SendDisconnected(s)
               \/ TrySendReserve(s) \/ TrySendFull(s) \/ Push(s)
        PROVE  NoLostWakeup'
    \* Nobody is parked: s holds active_sender, and is not parked itself.
    <3>1. \A t \in Senders : pc[t] # "parked"
      BY <2>2 DEF OneActiveSender, Critical, SendReserve, SendDisconnected,
                  TrySendReserve, TrySendFull, Push, Checking
    <3>2. \A t \in Senders : pc'[t] # "parked"
      BY <2>2, <3>1 DEF TypeOK, SendReserve, SendDisconnected, TrySendReserve,
                        TrySendFull, Push, Reserve, Return
    <3> QED BY <3>2
  <2>3. ASSUME NEW s \in Senders, SendPark(s) PROVE NoLostWakeup'
    <3>1. \A t \in Senders : pc[t] # "parked"
      BY <2>3 DEF OneActiveSender, Critical, SendPark, Checking
    <3>2. /\ call'[s].msg = call[s].msg
          /\ \A t \in Senders \ {s} : pc'[t] # "parked"
      BY <2>3, <3>1 DEF TypeOK, SendPark, Call
    <3> QED BY <2>3, <3>2 DEF SendPark, HasRoom
  <2>4. ASSUME NEW r \in Receivers, Pop(r) \/ DropInner(r) PROVE NoLostWakeup'
    BY <2>4 DEF TypeOK, Pop, DropInner, HasRoom, senderVars
  <2>5. ASSUME NEW r \in Receivers, OnReceive(r) PROVE NoLostWakeup'
    BY <2>5 DEF TypeOK, OnReceive, senderVars
  <2>6. ASSUME NEW r \in Receivers, OnReceiveNotify(r) \/ DropNotify(r)
        PROVE  NoLostWakeup'
    BY <2>6 DEF TypeOK, OnReceiveNotify, DropNotify, WokenAll
  <2>7. ASSUME NEW r \in Receivers, DropReceiver(r) PROVE NoLostWakeup'
    BY <2>7 DEF TypeOK, DropReceiver, HasRoom, senderVars
  <2>8. ASSUME NEW r \in Receivers, NEW clone \in Receivers, CloneReceiver(r, clone)
        PROVE  NoLostWakeup'
    <3>1. num_receivers' # 0 /\ UNCHANGED <<pc, call, bytes_in_flight>>
      BY <2>8 DEF TypeOK, CloneReceiver, senderVars
    <3>2. \A q \in Receivers : rx[q] \in {"notify", "drop_last"} => rx'[q] = rx[q]
      BY <2>8 DEF TypeOK, CloneReceiver
    <3> QED BY <3>1, <3>2 DEF HasRoom
  <2>9. CASE UNCHANGED vars
    BY <2>9 DEF vars, HasRoom
  <2> QED BY <2>1, <2>2, <2>3, <2>4, <2>5, <2>6, <2>7, <2>8, <2>9, NextCases
          DEF SenderStep, ReceiverStep
<1> QED BY <1>1, <1>2, IInvInit, IInvStep, PTL DEF Spec

\* bytes_in_flight stays within the capacity or, for an oversized message,
\* within the size of one message.
THEOREM MemorySafety == Spec => []MemoryBound
<1>1. Init => MemoryBound
  BY ConstantsAssumption DEF Init, MemoryBound, ConstantsAssumption
<1>2. IInv /\ MemoryBound /\ [Next]_vars => MemoryBound'
  <2> SUFFICES ASSUME IInv, MemoryBound, [Next]_vars PROVE MemoryBound'
    OBVIOUS
  <2>1. CapacityBytes \in Nat /\ Sizes \subseteq Nat /\ bytes_in_flight \in Nat
    BY ConstantsAssumption DEF ConstantsAssumption, IInv, TypeOK
  <2>2. ASSUME NEW s \in Senders, SendReserve(s) \/ TrySendReserve(s)
        PROVE  MemoryBound'
    <3> DEFINE size == call[s].msg.size
    <3>1. size \in Nat /\ size \in Sizes \cup {0}
      BY CallSize DEF IInv, Message
    <3>2. bytes_in_flight' = bytes_in_flight + size
      BY <2>2 DEF SendReserve, TrySendReserve, Reserve
    <3>3. bytes_in_flight + size <= CapacityBytes \/ bytes_in_flight = 0
      BY <2>2 DEF SendReserve, TrySendReserve, HasRoom, TryHasRoom
    <3> HIDE DEF size
    <3> QED BY <2>1, <3>1, <3>2, <3>3 DEF MemoryBound
  <2>3. ASSUME NEW r \in Receivers, OnReceive(r) PROVE MemoryBound'
    <3>1. held[r] \in Nat
      BY DEF IInv, TypeOK
    <3>2. bytes_in_flight' \in Nat /\ bytes_in_flight' <= bytes_in_flight
      BY <2>1, <2>3, <3>1 DEF OnReceive
    <3> QED BY <2>1, <3>2 DEF MemoryBound
  <2>4. CASE bytes_in_flight' = bytes_in_flight
    BY <2>4 DEF MemoryBound
  <2>5. \/ \E s \in Senders : SendReserve(s) \/ TrySendReserve(s)
        \/ \E r \in Receivers : OnReceive(r)
        \/ bytes_in_flight' = bytes_in_flight
    <3>1. CASE SenderStep
      BY <3>1 DEF SenderStep, Begin, Acquire, SendDisconnected, SendPark,
                  TrySendFull, Push, ParkTimeout
    <3>2. CASE ReceiverStep
      BY <3>2 DEF ReceiverStep, Pop, OnReceiveNotify, CloneReceiver,
                  DropReceiver, DropNotify, DropInner
    <3>3. CASE UNCHANGED vars
      BY <3>3 DEF vars
    <3> QED BY <3>1, <3>2, <3>3, NextCases
  <2> QED BY <2>2, <2>3, <2>4, <2>5
<1> QED BY <1>1, <1>2, IInvInit, IInvStep, PTL DEF Spec

-----------------------------------------------------------------------------

\* A queue and what was taken from it make up one history: taking the head
\* moves the border between the two, adding at the end extends both.
LEMMA QueueHistory ==
    ASSUME NEW S, NEW done \in Seq(S), NEW queue \in Seq(S), NEW e \in S
    PROVE  /\ queue # <<>> => Append(done, Head(queue)) \o Tail(queue) = done \o queue
           /\ done \o Append(queue, e) = Append(done \o queue, e)
<1>1. done \o Append(queue, e) = Append(done \o queue, e)
  <2>1. Append(queue, e) = queue \o <<e>> /\ <<e>> \in Seq(S)
    BY AppendIsConcat
  <2>2. done \o (queue \o <<e>>) = (done \o queue) \o <<e>>
    BY <2>1, ConcatAssociative
  <2>3. done \o queue \in Seq(S)
    BY ConcatProperties
  <2> QED BY <2>1, <2>2, <2>3, AppendIsConcat
<1>2. ASSUME queue # <<>>
      PROVE  Append(done, Head(queue)) \o Tail(queue) = done \o queue
  <2>1. Head(queue) \in S /\ Tail(queue) \in Seq(S) /\ queue = <<Head(queue)>> \o Tail(queue)
    BY <1>2, HeadTailProperties
  <2>2. Append(done, Head(queue)) = done \o <<Head(queue)>> /\ <<Head(queue)>> \in Seq(S)
    BY <2>1, AppendIsConcat
  <2>3. (done \o <<Head(queue)>>) \o Tail(queue) = done \o (<<Head(queue)>> \o Tail(queue))
    BY <2>1, <2>2, ConcatAssociative
  <2> QED BY <2>1, <2>2, <2>3
<1> QED BY <1>1, <1>2

\* A channel whose receivers are all gone stays so: only an open receiver can
\* be cloned.
LEMMA StaysDisconnected == TypeOK /\ [Next]_vars /\ Connected' => Connected
<1> SUFFICES ASSUME TypeOK, [Next]_vars, NEW q \in Receivers, rx'[q] \in HasInner
             PROVE  Connected
  BY DEF Connected
<1>1. CASE SenderStep
  BY <1>1, SenderFrame DEF Connected
<1>2. CASE ReceiverStep
  BY <1>2 DEF ReceiverStep, TypeOK, Connected, HasInner, Pop, OnReceive, OnReceiveNotify,
              DropReceiver, DropNotify, DropInner, CloneReceiver
<1>3. CASE UNCHANGED vars
  BY <1>3 DEF vars, Connected
<1> QED BY <1>1, <1>2, <1>3, NextCases

\* As long as a receiver is connected, the messages whose send returned Ok are
\* exactly those received and those on the wire, in the order of the sends.
THEOREM LosslessDelivery == Spec => []Lossless
<1>1. Init => Lossless
  BY DEF Init, Lossless
<1>2. IInv /\ Lossless /\ [Next]_vars => Lossless'
  <2> SUFFICES ASSUME IInv, Lossless, [Next]_vars, Connected'
               PROVE  accepted' = taken' \o wire'
    BY DEF Lossless
  <2>1. TypeOK /\ Connected /\ accepted = taken \o wire
    BY StaysDisconnected DEF IInv, Lossless
  <2>2. taken \in Seq(Message) /\ wire \in Seq(Message)
    BY <2>1 DEF TypeOK
  <2>3. ASSUME NEW s \in Senders, Push(s) PROVE accepted' = taken' \o wire'
    <3>1. call[s].msg \in Message
      BY <2>1, CallSize
    <3>2. /\ wire' = Append(wire, call[s].msg) /\ taken' = taken
          /\ accepted' = Append(accepted, call[s].msg)
      BY <2>1, <2>3 DEF Push
    <3> QED BY <2>1, <2>2, <3>1, <3>2, QueueHistory
  <2>4. ASSUME NEW r \in Receivers, Pop(r) PROVE accepted' = taken' \o wire'
    <3>1. /\ wire # <<>> /\ wire' = Tail(wire) /\ accepted' = accepted
          /\ taken' = Append(taken, Head(wire))
      BY <2>4 DEF Pop
    <3>2. Head(wire) \in Message
      BY <2>2, <3>1, HeadTailProperties
    <3> QED BY <2>1, <2>2, <3>1, <3>2, QueueHistory
  <2>5. ASSUME NEW r \in Receivers, DropInner(r) PROVE UNCHANGED <<wire, taken, accepted>>
    <3>1. PICK q \in Receivers : rx'[q] \in HasInner
      BY DEF Connected
    <3>2. q # r /\ rx[q] \in HasInner
      BY <2>1, <2>5, <3>1 DEF DropInner, TypeOK, HasInner
    <3> QED BY <2>5, <3>2 DEF DropInner, history
  <2>6. \/ \E s \in Senders : Push(s)
        \/ \E r \in Receivers : Pop(r) \/ DropInner(r)
        \/ UNCHANGED <<wire, taken, accepted>>
    <3>1. CASE SenderStep
      BY <3>1 DEF SenderStep, Begin, Acquire, SendReserve, SendDisconnected, SendPark,
                  TrySendReserve, TrySendFull, ParkTimeout, Reserve, history
    <3>2. CASE ReceiverStep
      BY <3>2 DEF ReceiverStep, OnReceive, OnReceiveNotify, CloneReceiver,
                  DropReceiver, DropNotify, history
    <3>3. CASE UNCHANGED vars
      BY <3>3 DEF vars
    <3> QED BY <3>1, <3>2, <3>3, NextCases
  <2> QED BY <2>1, <2>3, <2>4, <2>5, <2>6
<1> QED BY <1>1, <1>2, IInvInit, IInvStep, PTL DEF Spec

-----------------------------------------------------------------------------
(* Accounting *)

\* Only a receiver inside manual_on_receive holds a size.
Held == \A r \in Receivers : rx[r] # "got" => held[r] = 0

\* The parts of ByteAccounting, as the lemmas on sums speak of them.
PartSums ==
    /\ OnWire = SizeSum(wire, DOMAIN wire)
    /\ InReserve = SizeSum(Sending, Reserved)
    /\ InReceipt = WeightSum(held, Receivers)

\* They are that in every state, before and after a step.
LEMMA PartSumsHold == PartSums
BY DEF PartSums, OnWire, InReserve, InReceipt, SizeSum, WeightSum

\* The same after a step.
LEMMA PartSumsHoldNext == PartSums'
BY PartSumsHold, PTL

\* The parts of the sum have sums, and at most one sender has reserved.
LEMMA PartsSized ==
    ASSUME IInv
    PROVE  /\ wire \in Seq(Message) /\ OnWire = SizeSum(wire, DOMAIN wire) /\ OnWire \in Nat
           /\ Sized(Sending, Reserved) /\ InReserve = SizeSum(Sending, Reserved)
           /\ InReserve \in Nat
           /\ IsFiniteSet(Receivers) /\ held \in [Receivers -> Nat]
           /\ InReceipt = WeightSum(held, Receivers) /\ InReceipt \in Nat
<1>0. TypeOK /\ OneActiveSender
  BY DEF IInv
<1>1. wire \in Seq(Message) /\ held \in [Receivers -> Nat] /\ IsFiniteSet(Receivers)
  BY <1>0, ConstantsAssumption DEF TypeOK, ConstantsAssumption
<1>2. OnWire = SizeSum(wire, DOMAIN wire) /\ OnWire \in Nat
  <2>1. \A m \in Message : m.size \in Nat
    BY MessageSize
  <2>2. SizeSum(wire, DOMAIN wire) \in Nat
    BY <1>1, <2>1, QueueSized
  <2> QED BY <2>2, PartSumsHold DEF PartSums
<1>3. IsFiniteSet(Reserved)
  <2>1. Reserved \in SUBSET {Head(sender_queue)}
    BY <1>0 DEF Reserved, OneActiveSender, Critical
  <2> QED BY <2>1, FS_Singleton, FS_Subset
<1>4. Sized(Sending, Reserved)
  BY <1>0, <1>3, CallSize DEF Sized, Sending, Reserved
<1>5. InReserve = SizeSum(Sending, Reserved) /\ InReserve \in Nat
  <2>1. SizeSum(Sending, Reserved) \in Nat
    BY <1>4, SizeSumType
  <2> QED BY <2>1, PartSumsHold DEF PartSums
<1>6. InReceipt = WeightSum(held, Receivers) /\ InReceipt \in Nat
  <2>1. PICK it \in [SUBSET Receivers -> Nat] : WeightSum(held, Receivers) = it[Receivers]
    BY <1>1, WeightSumIsSummation
  <2> QED BY <2>1, PartSumsHold DEF PartSums
<1> QED BY <1>1, <1>2, <1>4, <1>5, <1>6

\* Held is kept by every step.
LEMMA HeldStep == IInv /\ Held /\ [Next]_vars => Held'
<1> SUFFICES ASSUME IInv, Held, [Next]_vars PROVE Held'
  OBVIOUS
<1>1. CASE SenderStep
  BY <1>1, SenderFrame DEF Held
<1>2. CASE ReceiverStep
  BY <1>2 DEF ReceiverStep, IInv, TypeOK, Held, Pop, OnReceive, OnReceiveNotify,
              DropReceiver, DropNotify, DropInner, CloneReceiver
<1>3. CASE UNCHANGED vars
  BY <1>3 DEF vars, Held
<1> QED BY <1>1, <1>2, <1>3, NextCases

\* The reservations keep their sum while nobody's size changes that has one.
LEMMA ReserveKept ==
    ASSUME IInv, Reserved' = Reserved, \A s \in Reserved : call'[s].msg = call[s].msg
    PROVE  InReserve' = InReserve
<1>1. Sized(Sending, Reserved) /\ InReserve = SizeSum(Sending, Reserved)
  BY PartsSized
<1>2. \A s \in Reserved : Sending[s].size = Sending'[s].size
  BY DEF Sending, Reserved
<1>3. SizeSum(Sending, Reserved) = SizeSum(Sending', Reserved)
  BY <1>1, <1>2, SizeSumAgrees
<1>4. InReserve' = SizeSum(Sending', Reserved')
  BY PartSumsHoldNext DEF PartSums
<1> QED BY <1>1, <1>3, <1>4

\* While a receiver is connected, bytes_in_flight is exactly what is between
\* its reservation and its manual_on_receive.
THEOREM BytesAccounted == Spec => []ByteAccounting
<1>1. Init => Held /\ ByteAccounting
  <2> SUFFICES ASSUME Init PROVE Held /\ ByteAccounting
    OBVIOUS
  <2>1. Reserved = {} /\ wire = <<>> /\ held = [r \in Receivers |-> 0]
    BY DEF Init, Reserved
  <2>2. OnWire = 0
    <3>1. DOMAIN wire = {} /\ SizeSum(wire, {}) = 0
      BY <2>1, SizeSumEmpty
    <3> QED BY <3>1, PartSumsHold DEF PartSums
  <2>3. InReserve = 0
    BY <2>1, SizeSumEmpty, PartSumsHold DEF PartSums
  <2>4. InReceipt = 0
    <3>1. IsFiniteSet(Receivers)
      BY ConstantsAssumption DEF ConstantsAssumption
    <3>2. WeightSum([r \in Receivers |-> 0], Receivers) = 0
      BY <3>1, WeightSumZero
    <3> QED BY <2>1, <3>2, PartSumsHold DEF PartSums
  <2> QED BY <2>2, <2>3, <2>4 DEF Init, Held, ByteAccounting
<1>2. IInv /\ Held /\ ByteAccounting /\ [Next]_vars => ByteAccounting'
  <2> SUFFICES ASSUME IInv, IInv', Held, ByteAccounting, [Next]_vars, Connected'
               PROVE  bytes_in_flight' = OnWire' + InReserve' + InReceipt'
    BY IInvStep DEF ByteAccounting
  <2>0. /\ TypeOK /\ Connected
        /\ bytes_in_flight \in Nat /\ bytes_in_flight = OnWire + InReserve + InReceipt
    BY StaysDisconnected DEF IInv, TypeOK, ByteAccounting
  <2>1. OnWire \in Nat /\ InReserve \in Nat /\ InReceipt \in Nat
    BY PartsSized
  <2>2. \A m \in Message : m.size \in Nat
    BY MessageSize
  <2>3. wire' = wire => OnWire' = OnWire
    BY PartSumsHold, PartSumsHoldNext DEF PartSums
  <2>4. held' = held => InReceipt' = InReceipt
    BY PartSumsHold, PartSumsHoldNext DEF PartSums
  <2>5. CASE UNCHANGED vars
    <3>1. Reserved' = Reserved /\ call' = call
      BY <2>5 DEF vars, Reserved
    <3> QED BY <2>0, <2>3, <2>4, <2>5, <3>1, ReserveKept DEF vars
  <2>6. CASE \/ \E s \in Senders, kind \in {"send", "try_send"}, size \in Sizes :
                   Begin(s, kind, size)
             \/ \E s \in Senders : \/ Acquire(s) \/ SendDisconnected(s) \/ SendPark(s)
                                   \/ TrySendFull(s) \/ ParkTimeout(s)
    <3>1. Reserved' = Reserved
      BY <2>0, <2>6 DEF TypeOK, Reserved, Begin, Acquire, SendDisconnected, SendPark,
                        TrySendFull, ParkTimeout, Return, Checking
    <3>2. \A t \in Reserved : call'[t].msg = call[t].msg
      BY <2>0, <2>6 DEF TypeOK, Reserved, Begin, Acquire, SendDisconnected, SendPark,
                        TrySendFull, ParkTimeout, Return, Checking
    <3>3. UNCHANGED <<wire, held, bytes_in_flight>>
      BY <2>6 DEF Begin, Acquire, SendDisconnected, SendPark, TrySendFull, ParkTimeout,
                  receiverVars
    <3> QED BY <2>0, <2>3, <2>4, <3>1, <3>2, <3>3, ReserveKept
  <2>7. ASSUME NEW s \in Senders, SendReserve(s) \/ TrySendReserve(s)
        PROVE  bytes_in_flight' = OnWire' + InReserve' + InReceipt'
    <3> DEFINE size == Sending[s].size
    <3>1. /\ size \in Nat /\ bytes_in_flight' = bytes_in_flight + size
          /\ UNCHANGED <<wire, held, call>>
          /\ s \notin Reserved /\ Reserved' = Reserved \cup {s}
      BY <2>0, <2>7, CallSize
         DEF SendReserve, TrySendReserve, Reserve, Checking, Reserved, Sending, TypeOK,
             receiverVars
    <3>2. InReserve' = SizeSum(Sending, Reserved \cup {s})
      <4>1. Sending' = Sending
        BY <3>1 DEF Sending
      <4> QED BY <3>1, <4>1, PartSumsHoldNext DEF PartSums
    <3>3. SizeSum(Sending, Reserved \cup {s}) = size + InReserve
      <4>1. Sized(Sending, Reserved) /\ InReserve = SizeSum(Sending, Reserved)
        BY PartsSized
      <4> QED BY <3>1, <4>1, SizeSumAdd
    <3> HIDE DEF size
    <3> QED BY <2>0, <2>1, <2>3, <2>4, <3>1, <3>2, <3>3
  <2>8. ASSUME NEW s \in Senders, Push(s)
        PROVE  bytes_in_flight' = OnWire' + InReserve' + InReceipt'
    <3> DEFINE m == call[s].msg
    <3>1. /\ m \in Message /\ m.size \in Nat /\ Sending[s] = m
          /\ UNCHANGED <<bytes_in_flight, held>> /\ wire' = Append(wire, m)
          /\ s \in Reserved /\ Reserved' = Reserved \ {s}
          /\ \A t \in Reserved \ {s} : call'[t].msg = call[t].msg
      BY <2>0, <2>8, CallSize DEF Push, Return, Reserved, Sending, TypeOK, receiverVars
    <3> HIDE DEF m
    <3>2. OnWire' = m.size + OnWire
      <4>1. wire \in Seq(Message) /\ OnWire = SizeSum(wire, DOMAIN wire)
        BY PartsSized
      <4>2. OnWire' = SizeSum(wire', DOMAIN wire')
        BY PartSumsHoldNext DEF PartSums
      <4> QED BY <2>2, <3>1, <4>1, <4>2, QueueSumAppend
    <3>3. InReserve = m.size + InReserve' /\ InReserve' \in Nat
      <4>1. Sized(Sending, Reserved) /\ InReserve = SizeSum(Sending, Reserved)
        BY PartsSized
      <4>2. /\ SizeSum(Sending, Reserved) = Sending[s].size + SizeSum(Sending, Reserved \ {s})
            /\ SizeSum(Sending, Reserved \ {s}) \in Nat
        BY <3>1, <4>1, SizeSumRemove
      <4>3. Sized(Sending, Reserved \ {s})
        BY <4>1, FS_RemoveElement DEF Sized
      <4>4. \A t \in Reserved \ {s} : Sending[t].size = Sending'[t].size
        BY <3>1 DEF Sending, Reserved
      <4>5. SizeSum(Sending, Reserved \ {s}) = SizeSum(Sending', Reserved \ {s})
        BY <4>3, <4>4, SizeSumAgrees
      <4>6. InReserve' = SizeSum(Sending', Reserved')
        BY PartSumsHoldNext DEF PartSums
      <4> QED BY <3>1, <4>1, <4>2, <4>5, <4>6
    <3>4. m.size \in Nat /\ OnWire \in Nat /\ InReceipt' = InReceipt /\ InReceipt \in Nat
      BY <2>1, <2>4, <3>1
    <3>5. bytes_in_flight' = OnWire + InReserve + InReceipt
      BY <2>0, <3>1
    <3> QED BY <3>2, <3>3, <3>4, <3>5
  <2>9. ASSUME NEW r \in Receivers, Pop(r)
        PROVE  bytes_in_flight' = OnWire' + InReserve' + InReceipt'
    <3> DEFINE size == Head(wire).size
    <3>1. /\ wire # <<>> /\ wire' = Tail(wire) /\ size \in Nat
          /\ held' = [held EXCEPT ![r] = size] /\ held[r] = 0
          /\ UNCHANGED <<bytes_in_flight, pc, call>>
      BY <2>0, <2>9, WireSize DEF Pop, Held, senderVars
    <3>2. Reserved' = Reserved /\ InReserve' = InReserve
      <4>1. Reserved' = Reserved
        BY <3>1 DEF Reserved
      <4> QED BY <3>1, <4>1, ReserveKept
    <3>3. OnWire = size + OnWire' /\ OnWire' \in Nat
      <4>1. wire \in Seq(Message) /\ OnWire = SizeSum(wire, DOMAIN wire)
        BY PartsSized
      <4>2. OnWire' = SizeSum(wire', DOMAIN wire') /\ wire' \in Seq(Message)
        BY <3>1, <4>1, PartSumsHoldNext DEF PartSums
      <4>3. SizeSum(wire', DOMAIN wire') \in Nat
        BY <2>2, <4>2, QueueSized
      <4> QED BY <2>2, <3>1, <4>1, <4>2, <4>3, QueueSumTail
    <3>4. InReceipt' = InReceipt - 0 + size
      <4>1. /\ IsFiniteSet(Receivers) /\ held \in [Receivers -> Nat]
            /\ InReceipt = WeightSum(held, Receivers)
        BY PartsSized
      <4>2. InReceipt' = WeightSum(held', Receivers)
        BY PartSumsHoldNext DEF PartSums
      <4>3. /\ held' \in [Receivers -> Nat] /\ held'[r] = size
            /\ \A q \in Receivers \ {r} : held'[q] = held[q]
        BY <3>1, <4>1
      <4>4. WeightSum(held', Receivers) = WeightSum(held, Receivers) - held[r] + held'[r]
        BY <4>1, <4>3, WeightSumChange
      <4>5. held[r] = 0
        BY <3>1
      <4> HIDE DEF size
      <4> QED BY <4>1, <4>2, <4>3, <4>4, <4>5
    <3> HIDE DEF size
    <3> QED BY <2>0, <2>1, <3>1, <3>2, <3>3, <3>4
  <2>10. ASSUME NEW r \in Receivers, OnReceive(r)
         PROVE  bytes_in_flight' = OnWire' + InReserve' + InReceipt'
    <3>1. /\ IsFiniteSet(Receivers) /\ held \in [Receivers -> Nat]
          /\ InReceipt = WeightSum(held, Receivers)
      BY PartsSized
    <3>2. /\ held' = [held EXCEPT ![r] = 0] /\ UNCHANGED <<wire, pc, call>>
          /\ bytes_in_flight' = IF held[r] <= bytes_in_flight
                                  THEN bytes_in_flight - held[r] ELSE 0
      BY <2>10 DEF OnReceive, senderVars
    <3>3. held[r] \in Nat /\ held[r] <= InReceipt /\ InReceipt' = InReceipt - held[r] + 0
      <4>1. InReceipt' = WeightSum(held', Receivers)
        BY PartSumsHoldNext DEF PartSums
      <4>2. /\ held' \in [Receivers -> Nat] /\ held'[r] = 0
            /\ \A q \in Receivers \ {r} : held'[q] = held[q]
        BY <3>1, <3>2
      <4> QED BY <3>1, <4>1, <4>2, WeightSumChange
    <3>4. Reserved' = Reserved /\ InReserve' = InReserve
      <4>1. Reserved' = Reserved
        BY <3>2 DEF Reserved
      <4> QED BY <3>2, <4>1, ReserveKept
    <3> QED BY <2>0, <2>1, <2>3, <3>2, <3>3, <3>4
  <2>11. CASE \/ \E r \in Receivers : \/ OnReceiveNotify(r) \/ DropReceiver(r)
                                      \/ DropNotify(r) \/ DropInner(r)
              \/ \E r, clone \in Receivers : CloneReceiver(r, clone)
    <3>1. UNCHANGED <<call, held, bytes_in_flight>> /\ Reserved' = Reserved
      BY <2>0, <2>11 DEF OnReceiveNotify, DropReceiver, DropNotify, DropInner,
                         CloneReceiver, WokenAll, Reserved, TypeOK, senderVars
    <3>2. wire' = wire
      <4>1. ASSUME NEW r \in Receivers, DropInner(r) PROVE wire' = wire
        <5>1. PICK q \in Receivers : rx'[q] \in HasInner
          BY DEF Connected
        <5>2. q # r /\ rx[q] \in HasInner
          BY <2>0, <4>1, <5>1 DEF DropInner, TypeOK, HasInner
        <5> QED BY <4>1, <5>2 DEF DropInner
      <4> QED BY <2>11, <4>1 DEF OnReceiveNotify, DropReceiver, DropNotify, CloneReceiver
    <3> QED BY <2>0, <2>3, <2>4, <3>1, <3>2, ReserveKept
  <2> QED BY <2>5, <2>6, <2>7, <2>8, <2>9, <2>10, <2>11, NextCases
          DEF SenderStep, ReceiverStep
<1> QED BY <1>1, <1>2, HeldStep, IInvInit, IInvStep, PTL DEF Spec

=============================================================================
