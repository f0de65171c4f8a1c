-------------------------- MODULE GrpcClientProofs --------------------------
(***************************************************************************)
(* Proofs about the gRPC client, for any number of callers, any length of  *)
(* the command queue and any number of calls.                              *)
(***************************************************************************)
EXTENDS GrpcClient, SequenceTheorems, TLAPS

Call == Callers \X Nat
Command == [kind : {"log", "flush"}, id : Call]
Waiting == {"wait", "tick"}

TypeInv ==
    /\ status \in Disconnected \cup {"connecting", "connected"}
    /\ thread \in {"start", "connecting", "streaming", "ended", "exited"}
    /\ cmds \in Seq(Command)
    /\ shutdown \in BOOLEAN /\ late \in BOOLEAN /\ stalled \in BOOLEAN
    /\ pc \in [Callers -> {"idle", "send", "flush", "wait", "tick", "shutdown",
                           "join", "dropped"}]
    /\ ops \in [Callers -> Nat]
    /\ finite \in [Callers -> BOOLEAN]
    /\ reply \in [Callers -> BOOLEAN]
    /\ result \in [Callers -> {"none", "ok", "err"}]
    /\ owner \subseteq Callers
    /\ accepted \in Seq(Call)
    /\ sent \in Seq(Call)
    /\ mark \in [Callers -> Nat]

\* f[i] is how many messages have been yielded once the stream has gone
\* through the first i commands of the queue.
IsRank(f) ==
    /\ f \in [0..Len(cmds) -> Nat]
    /\ f[0] = Len(sent)
    /\ f[Len(cmds)] = Len(accepted)
    /\ \A i, j \in 0..Len(cmds) : i <= j => f[i] <= f[j]
    /\ \A i \in 1..Len(cmds) : f[i] = IF cmds[i].kind = "log" THEN f[i - 1] + 1 ELSE f[i - 1]

\* Each queued message is the one accepted at its place, ...
LogsInPlace(f) ==
    \A i \in 1..Len(cmds) : cmds[i].kind = "log" => cmds[i].id = accepted[f[i]]

\* ... and each flush that is still waited for stands behind exactly the
\* messages that preceded it.
FlushesInPlace(f) ==
    \A i \in 1..Len(cmds), c \in Callers :
        cmds[i] = FlushCmd(c) /\ pc[c] \in Waiting => mark[c] = f[i]

\* While the receiver of the queue lives, the queue is what is accepted but
\* not yet sent; afterwards the two histories stay as they are.
QueueInv ==
    ReceiverOpen => \E f : IsRank(f) /\ LogsInPlace(f) /\ FlushesInPlace(f)

\* A queued Flush command is from a call that has begun, and the flush that a
\* caller is about to send has no command on the queue yet.
FlushesFresh ==
    \A i \in 1..Len(cmds) : cmds[i].kind = "flush" =>
        /\ cmds[i].id[2] <= ops[cmds[i].id[1]]
        /\ pc[cmds[i].id[1]] = "flush" => cmds[i].id[2] < ops[cmds[i].id[1]]

\* The answer a caller finds is to the flush it is in.
AnswersInv ==
    \A c \in Callers :
        /\ pc[c] \in Waiting /\ reply[c] => mark[c] <= Len(sent)
        /\ pc[c] = "flush" => ~reply[c]
        /\ pc[c] \in Waiting \cup {"flush"} => result[c] # "ok"

IInv == TypeInv /\ SentInOrder /\ QueueInv /\ FlushesFresh /\ AnswersInv /\ FlushDelivers

\* The steps by what they do to the queue.
Begins(c) == BeginSend(c) \/ BeginFlush(c) \/ BeginDrop(c)

\* The caller goes on, and the queue is left alone.
Proceeds(c) ==
    \/ FlushSendFails(c) \/ FlushOk(c) \/ FlushClosed(c) \/ FlushTick(c)
    \/ FlushTimeout(c) \/ FlushGivesUp(c) \/ FlushKeepsWaiting(c)
    \/ DropShutdown(c) \/ DropJoin(c)

Idles == ValidEndpoint \/ ConnectSucceeds \/ ConnectLate \/ ServerStalls

\* The receiver of the queue goes away, or is gone.
Closes ==
    \/ InvalidEndpoint \/ ConnectFailsShutdown \/ StreamEncodeFails
    \/ StreamFlushAbandoned \/ StreamShutdown \/ WriteMessagesReturns
    \/ WriteMessagesFails

-----------------------------------------------------------------------------

\* Every step is one of these.
LEMMA NextCases ==
    Next => \/ \E c \in Callers : Begins(c) \/ Proceeds(c) \/ SendBlocking(c) \/ FlushSend(c)
            \/ Idles \/ Closes \/ StreamLog \/ StreamFlush
BY DEF Next, CallerProgress, ThreadProgress, Begins, Proceeds, Idles, Closes

\* Two calls of a caller are two identities.
LEMMA FlushCmdType ==
    ASSUME TypeInv, NEW c \in Callers
    PROVE  /\ FlushCmd(c) \in Command
           /\ FlushCmd(c).kind = "flush" /\ FlushCmd(c).id[1] = c
           /\ FlushCmd(c).id[2] = ops[c]
           /\ LogCmd(<<c, ops[c]>>) \in Command
           /\ LogCmd(<<c, ops[c]>>).kind = "log"
           /\ LogCmd(<<c, ops[c]>>).id = <<c, ops[c]>>
           /\ <<c, ops[c]>> \in Call
BY DEF TypeInv, FlushCmd, LogCmd, Command, Call

\* A command on the queue names its caller.
LEMMA QueuedCaller ==
    ASSUME TypeInv, NEW i \in 1..Len(cmds)
    PROVE  cmds[i].id[1] \in Callers
<1>1. cmds[i] \in Command
  BY DEF TypeInv
<1>2. cmds[i].id \in Call
  BY <1>1 DEF Command
<1> QED BY <1>2 DEF Call

\* What the steps of the callers keep typed.
LEMMA CallerType ==
    ASSUME TypeInv, NEW c \in Callers,
           Begins(c) \/ Proceeds(c) \/ SendBlocking(c) \/ FlushSend(c)
    PROVE  TypeInv'
<1> USE DEF TypeInv, threadVars, envVars, FlushReturns
<1>1. CASE Begins(c)
  <2>1. CASE BeginSend(c)
    BY <2>1 DEF BeginSend
  <2>2. CASE BeginFlush(c)
    BY <2>2 DEF BeginFlush
  <2>3. CASE BeginDrop(c)
    BY <2>3 DEF BeginDrop
  <2> QED BY <1>1, <2>1, <2>2, <2>3 DEF Begins
<1>2. CASE Proceeds(c)
  BY <1>2 DEF Proceeds, FlushSendFails, FlushOk, FlushClosed, FlushTick,
              FlushTimeout, FlushGivesUp, FlushKeepsWaiting, DropShutdown, DropJoin
<1>3. CASE SendBlocking(c)
  <2>1. LogCmd(<<c, ops[c]>>) \in Command /\ <<c, ops[c]>> \in Call
    BY FlushCmdType
  <2>2. cmds' \in Seq(Command) /\ accepted' \in Seq(Call)
    <3>1. cmds \in Seq(Command) /\ accepted \in Seq(Call)
      OBVIOUS
    <3>2. Append(cmds, LogCmd(<<c, ops[c]>>)) \in Seq(Command)
      BY <2>1, <3>1, AppendProperties
    <3>3. Append(accepted, <<c, ops[c]>>) \in Seq(Call)
      BY <2>1, <3>1, AppendProperties
    <3> QED BY <1>3, <3>1, <3>2, <3>3 DEF SendBlocking
  <2> QED BY <1>3, <2>2 DEF SendBlocking
<1>4. CASE FlushSend(c)
  <2>1. cmds' \in Seq(Command)
    <3>1. cmds \in Seq(Command) /\ FlushCmd(c) \in Command
      BY FlushCmdType
    <3> QED BY <1>4, <3>1, AppendProperties DEF FlushSend
  <2>2. mark' \in [Callers -> Nat]
    BY <1>4 DEF FlushSend
  <2> QED BY <1>4, <2>1, <2>2 DEF FlushSend
<1> QED BY <1>1, <1>2, <1>3, <1>4

\* What the steps of the thread keep typed.
LEMMA ThreadType ==
    ASSUME TypeInv, Idles \/ Closes \/ StreamLog \/ StreamFlush
    PROVE  TypeInv'
<1> USE DEF TypeInv, threadVars, envVars, callVars
<1>1. CASE Idles
  BY <1>1 DEF Idles, ValidEndpoint, ConnectSucceeds, ConnectLate, ServerStalls
<1>2. CASE Closes
  <2>1. UNCHANGED <<late, stalled, callVars, reply, accepted, sent, mark>>
    BY <1>2 DEF Closes, InvalidEndpoint, ConnectFailsShutdown, StreamEncodeFails,
                StreamFlushAbandoned, StreamShutdown, WriteMessagesReturns, WriteMessagesFails
  <2>2. shutdown' \in BOOLEAN /\ thread' \in {"ended", "exited"}
    BY <1>2 DEF Closes, InvalidEndpoint, ConnectFailsShutdown, StreamEncodeFails,
                StreamFlushAbandoned, StreamShutdown, WriteMessagesReturns,
                WriteMessagesFails, StreamEnds
  <2>3. status' \in Disconnected \cup {"connecting", "connected"}
    BY <1>2 DEF Closes, InvalidEndpoint, ConnectFailsShutdown, StreamEncodeFails,
                StreamFlushAbandoned, StreamShutdown, WriteMessagesReturns,
                WriteMessagesFails, Disconnected
  <2>4. cmds' = <<>> \/ cmds' = cmds
    BY <1>2 DEF Closes, InvalidEndpoint, ConnectFailsShutdown, StreamEncodeFails,
                StreamFlushAbandoned, StreamShutdown, WriteMessagesReturns,
                WriteMessagesFails, StreamEnds
  <2>5. cmds' \in Seq(Command)
    <3>1. cmds \in Seq(Command) /\ <<>> \in Seq(Command)
      BY EmptySeq
    <3> QED BY <2>4, <3>1
  <2> QED BY <2>1, <2>2, <2>3, <2>5
<1>3. CASE StreamLog \/ StreamFlush
  <2>1. cmds # <<>> /\ cmds' = Tail(cmds)
    BY <1>3 DEF StreamLog, StreamFlush
  <2>2. Head(cmds) \in Command /\ cmds' \in Seq(Command)
    BY <2>1
  <2>3. Head(cmds).id \in Call
    BY <2>2 DEF Command
  <2>4. sent' \in Seq(Call)
    <3>1. sent \in Seq(Call) /\ Append(sent, Head(cmds).id) \in Seq(Call)
      BY <2>3, AppendProperties
    <3> QED BY <1>3, <3>1 DEF StreamLog, StreamFlush
  <2> QED BY <1>3, <2>2, <2>4 DEF StreamLog, StreamFlush
<1> QED BY <1>1, <1>2, <1>3

-----------------------------------------------------------------------------

\* A step that leaves the queue alone, and makes nobody wait for a command
\* that he did not wait for, keeps the queue in place.
LEMMA QueueKept ==
    ASSUME QueueInv, ReceiverOpen' => ReceiverOpen,
           UNCHANGED <<cmds, accepted, sent>>,
           \A c \in Callers : pc'[c] \in Waiting =>
               pc[c] \in Waiting /\ ops'[c] = ops[c] /\ mark'[c] = mark[c]
    PROVE  QueueInv'
<1> SUFFICES ASSUME ReceiverOpen' PROVE (\E f : IsRank(f) /\ LogsInPlace(f) /\ FlushesInPlace(f))'
  BY DEF QueueInv
<1>1. PICK f : IsRank(f) /\ LogsInPlace(f) /\ FlushesInPlace(f)
  BY DEF QueueInv
<1>2. IsRank(f)'
  BY <1>1 DEF IsRank
<1>3. LogsInPlace(f)'
  BY <1>1 DEF LogsInPlace
<1>4. FlushesInPlace(f)'
  BY <1>1 DEF FlushesInPlace, FlushCmd
<1> QED BY <1>2, <1>3, <1>4

\* Another command at the end of the queue; a message joins the history.
LEMMA QueueGrows ==
    ASSUME TypeInv, QueueInv, ReceiverOpen,
           NEW cmd \in Command, cmds' = Append(cmds, cmd), UNCHANGED sent,
           accepted' = IF cmd.kind = "log" THEN Append(accepted, cmd.id) ELSE accepted,
           \A c \in Callers : pc'[c] \in Waiting =>
               /\ ops'[c] = ops[c]
               /\ \/ cmd = FlushCmd(c) /\ mark'[c] = Len(accepted)
                     /\ \A i \in 1..Len(cmds) : cmds[i] # FlushCmd(c)
                  \/ cmd # FlushCmd(c) /\ pc[c] \in Waiting /\ mark'[c] = mark[c]
    PROVE  QueueInv'
<1>1. PICK f : IsRank(f) /\ LogsInPlace(f) /\ FlushesInPlace(f)
  BY DEF QueueInv
<1>n. PICK n : n = Len(cmds)
  OBVIOUS
<1> DEFINE g == [i \in 0..(n + 1) |->
                    IF i <= n THEN f[i] ELSE IF cmd.kind = "log" THEN f[n] + 1 ELSE f[n]]
<1>2. /\ n \in Nat /\ Len(cmds') = n + 1 /\ cmds'[n + 1] = cmd
      /\ \A i \in 1..n : cmds'[i] = cmds[i]
  BY <1>n DEF TypeInv
<1>3. /\ f \in [0..n -> Nat] /\ f[0] = Len(sent) /\ f[n] = Len(accepted)
      /\ \A i, j \in 0..n : i <= j => f[i] <= f[j]
      /\ \A i \in 1..n : f[i] = IF cmds[i].kind = "log" THEN f[i - 1] + 1 ELSE f[i - 1]
  BY <1>1, <1>n DEF IsRank
<1>4. /\ Len(accepted') = g[n + 1]
      /\ \A i \in 1..Len(accepted) : accepted'[i] = accepted[i]
      /\ cmd.kind = "log" => accepted'[g[n + 1]] = cmd.id
  BY <1>2, <1>3 DEF TypeInv, Command
<1>5. /\ g \in [0..(n + 1) -> Nat] /\ g[0] = f[0]
      /\ \A i \in 0..n : g[i] = f[i]
      /\ g[n + 1] = IF cmd.kind = "log" THEN f[n] + 1 ELSE f[n]
  BY <1>2, <1>3
<1> HIDE DEF g
<1>6. \A i, j \in 0..(n + 1) : i <= j => g[i] <= g[j]
  <2> SUFFICES ASSUME NEW i \in 0..(n + 1), NEW j \in 0..(n + 1), i <= j PROVE g[i] <= g[j]
    OBVIOUS
  <2>1. CASE j \in 0..n
    BY <2>1, <1>2, <1>3, <1>5
  <2>2. CASE j = n + 1 /\ i \in 0..n
    <3>1. f[i] <= f[n] /\ f[i] \in Nat /\ f[n] \in Nat
      BY <2>2, <1>2, <1>3
    <3> QED BY <2>2, <3>1, <1>5
  <2>3. CASE j = n + 1 /\ i = n + 1
    BY <2>3, <1>5
  <2> QED BY <2>1, <2>2, <2>3, <1>2
<1>7. \A i \in 1..(n + 1) : g[i] = IF cmds'[i].kind = "log" THEN g[i - 1] + 1 ELSE g[i - 1]
  <2> SUFFICES ASSUME NEW i \in 1..(n + 1)
               PROVE  g[i] = IF cmds'[i].kind = "log" THEN g[i - 1] + 1 ELSE g[i - 1]
    OBVIOUS
  <2>1. CASE i \in 1..n
    <3>1. i - 1 \in 0..n /\ i \in 0..n
      BY <2>1, <1>2
    <3> QED BY <2>1, <3>1, <1>2, <1>3, <1>5
  <2>2. CASE i = n + 1
    BY <2>2, <1>2, <1>5
  <2> QED BY <2>1, <2>2, <1>2
<1>8. IsRank(g)'
  <2>1. n + 1 \in 0..(n + 1) /\ 0 \in 0..n
    BY <1>2
  <2> QED BY <2>1, <1>2, <1>3, <1>4, <1>5, <1>6, <1>7 DEF IsRank
<1>9. LogsInPlace(g)'
  <2> SUFFICES ASSUME NEW i \in 1..(n + 1), cmds'[i].kind = "log"
               PROVE  cmds'[i].id = accepted'[g[i]]
    BY <1>2 DEF LogsInPlace
  <2>1. CASE i \in 1..n
    <3>1. i \in 0..n /\ i - 1 \in 0..n /\ n \in 0..n /\ i <= n
      BY <2>1, <1>2
    <3>2. f[i] = f[i - 1] + 1 /\ f[i - 1] \in Nat /\ f[i] <= Len(accepted)
      BY <2>1, <3>1, <1>2, <1>3
    <3>3. f[i] \in 1..Len(accepted)
      BY <3>2 DEF TypeInv
    <3>4. cmds[i].id = accepted[f[i]]
      BY <2>1, <1>1, <1>n DEF LogsInPlace
    <3> QED BY <2>1, <3>1, <3>3, <3>4, <1>2, <1>4, <1>5
  <2>2. CASE i = n + 1
    BY <2>2, <1>2, <1>4
  <2>3. i \in 1..n \/ i = n + 1
    BY <1>2
  <2> QED BY <2>1, <2>2, <2>3
<1>10. FlushesInPlace(g)'
  <2> SUFFICES ASSUME NEW i \in 1..(n + 1), NEW c \in Callers,
                      cmds'[i] = FlushCmd(c)', pc'[c] \in Waiting
               PROVE  mark'[c] = g[i]
    BY <1>2 DEF FlushesInPlace
  <2>1. FlushCmd(c)' = FlushCmd(c)
    BY DEF FlushCmd
  <2>2. CASE i \in 1..n
    <3>1. cmds[i] = FlushCmd(c) /\ i \in 1..Len(cmds) /\ i \in 0..n
      BY <2>1, <2>2, <1>2, <1>n
    <3>2. mark[c] = f[i] /\ mark'[c] = mark[c]
      BY <3>1, <1>1 DEF FlushesInPlace
    <3> QED BY <3>1, <3>2, <1>5
  <2>3. CASE i = n + 1
    <3>1. cmd = FlushCmd(c) /\ cmd.kind = "flush"
      BY <2>1, <2>3, <1>2 DEF FlushCmd
    <3> QED BY <2>3, <3>1, <1>3, <1>5
  <2> QED BY <2>2, <2>3, <1>2
<1> QED BY <1>8, <1>9, <1>10 DEF QueueInv

\* The stream goes through the first command: a message it yields is the next
\* one that was accepted, and a flush that it answers stood behind nothing
\* that is still to be yielded.
LEMMA QueueShrinks ==
    ASSUME TypeInv, QueueInv, ReceiverOpen, cmds # <<>>, cmds' = Tail(cmds),
           UNCHANGED <<accepted, pc, ops, mark>>,
           sent' = IF Head(cmds).kind = "log" THEN Append(sent, Head(cmds).id) ELSE sent
    PROVE  /\ QueueInv'
           /\ Head(cmds).kind = "log" =>
                 /\ Len(sent) < Len(accepted)
                 /\ Head(cmds).id = accepted[Len(sent) + 1]
           /\ \A c \in Callers :
                 Head(cmds) = FlushCmd(c) /\ pc[c] \in Waiting => mark[c] = Len(sent)
<1>1. PICK f : IsRank(f) /\ LogsInPlace(f) /\ FlushesInPlace(f)
  BY DEF QueueInv
<1>n. PICK n : n = Len(cmds)
  OBVIOUS
<1> DEFINE g == [i \in 0..(n - 1) |-> f[i + 1]]
<1>2. /\ n \in Nat \ {0} /\ Len(cmds') = n - 1 /\ Head(cmds) = cmds[1]
      /\ \A i \in 1..(n - 1) : cmds'[i] = cmds[i + 1]
      /\ cmds[1] \in Command
  BY <1>n DEF TypeInv
<1>3. /\ f \in [0..n -> Nat] /\ f[0] = Len(sent) /\ f[n] = Len(accepted)
      /\ \A i, j \in 0..n : i <= j => f[i] <= f[j]
      /\ \A i \in 1..n : f[i] = IF cmds[i].kind = "log" THEN f[i - 1] + 1 ELSE f[i - 1]
  BY <1>1, <1>n DEF IsRank
<1>4. \A i \in 1..n : cmds[i].kind = "log" => cmds[i].id = accepted[f[i]]
  BY <1>1, <1>n DEF LogsInPlace
<1>5. \A i \in 1..n, c \in Callers : cmds[i] = FlushCmd(c) /\ pc[c] \in Waiting => mark[c] = f[i]
  BY <1>1, <1>n DEF FlushesInPlace
<1>6. Len(sent) \in Nat /\ Len(accepted) \in Nat
  BY DEF TypeInv
<1>7. 1 \in 1..n /\ 1 \in 0..n /\ 0 \in 0..n /\ n \in 0..n /\ 1 <= n /\ 1 - 1 = 0
  BY <1>2
<1>8. f[1] = IF cmds[1].kind = "log" THEN Len(sent) + 1 ELSE Len(sent)
  BY <1>3, <1>7
<1>9. f[1] <= Len(accepted)
  BY <1>3, <1>7
<1>10. Len(sent') = f[1]
  <2>1. CASE Head(cmds).kind = "log"
    BY <2>1, <1>2, <1>8 DEF TypeInv
  <2>2. CASE Head(cmds).kind # "log"
    BY <2>2, <1>2, <1>8
  <2> QED BY <2>1, <2>2
<1>11. /\ Head(cmds).kind = "log" =>
             /\ Len(sent) < Len(accepted)
             /\ Head(cmds).id = accepted[Len(sent) + 1]
  BY <1>2, <1>4, <1>6, <1>7, <1>8, <1>9
<1>12. \A c \in Callers :
             Head(cmds) = FlushCmd(c) /\ pc[c] \in Waiting => mark[c] = Len(sent)
  <2> SUFFICES ASSUME NEW c \in Callers, Head(cmds) = FlushCmd(c), pc[c] \in Waiting
               PROVE  mark[c] = Len(sent)
    OBVIOUS
  <2>1. cmds[1].kind = "flush"
    BY <1>2 DEF FlushCmd
  <2> QED BY <2>1, <1>2, <1>5, <1>7, <1>8
<1>13. \A i \in 0..(n - 1) : i + 1 \in 0..n /\ g[i] = f[i + 1]
  BY <1>2
<1>14. g \in [0..(n - 1) -> Nat] /\ 0 \in 0..(n - 1) /\ n - 1 \in 0..(n - 1) /\ n - 1 + 1 = n
  BY <1>2, <1>3, <1>13
<1> HIDE DEF g
<1>15. \A i \in 1..(n - 1) : i + 1 \in 1..n /\ i \in 0..(n - 1) /\ i - 1 \in 0..(n - 1) /\ i - 1 + 1 = i /\ i + 1 - 1 = i
  BY <1>2
<1>16. \A i, j \in 0..(n - 1) : i <= j => g[i] <= g[j]
  <2> SUFFICES ASSUME NEW i \in 0..(n - 1), NEW j \in 0..(n - 1), i <= j PROVE g[i] <= g[j]
    OBVIOUS
  <2>1. i + 1 <= j + 1
    BY <1>2
  <2> QED BY <2>1, <1>3, <1>13
<1>17. \A i \in 1..(n - 1) : g[i] = IF cmds'[i].kind = "log" THEN g[i - 1] + 1 ELSE g[i - 1]
  BY <1>2, <1>3, <1>13, <1>15
<1>18. IsRank(g)'
  <2>1. g[0] = Len(sent')
    BY <1>10, <1>13, <1>14
  <2>2. g[n - 1] = Len(accepted')
    BY <1>3, <1>13, <1>14
  <2> QED BY <2>1, <2>2, <1>2, <1>14, <1>16, <1>17 DEF IsRank
<1>19. LogsInPlace(g)'
  BY <1>2, <1>4, <1>13, <1>15 DEF LogsInPlace
<1>20. FlushesInPlace(g)'
  <2> SUFFICES ASSUME NEW i \in 1..(n - 1), NEW c \in Callers,
                      cmds'[i] = FlushCmd(c)', pc'[c] \in Waiting
               PROVE  mark'[c] = g[i]
    BY <1>2 DEF FlushesInPlace
  <2>1. FlushCmd(c)' = FlushCmd(c)
    BY DEF FlushCmd
  <2>2. cmds[i + 1] = FlushCmd(c) /\ i + 1 \in 1..n /\ g[i] = f[i + 1]
    BY <2>1, <1>2, <1>13, <1>15
  <2> QED BY <2>2, <1>5
<1> QED BY <1>11, <1>12, <1>18, <1>19, <1>20 DEF QueueInv

-----------------------------------------------------------------------------

\* A flush on the queue is not the one a caller is about to send.
LEMMA NotQueuedYet ==
    ASSUME TypeInv, FlushesFresh, NEW c \in Callers, pc[c] = "flush"
    PROVE  \A i \in 1..Len(cmds) : cmds[i] # FlushCmd(c)
<1> SUFFICES ASSUME NEW i \in 1..Len(cmds), cmds[i] = FlushCmd(c) PROVE FALSE
  OBVIOUS
<1>x. PICK x : x = FlushCmd(c)
  OBVIOUS
<1>0. x.kind = "flush" /\ x.id[1] = c /\ x.id[2] = ops[c]
  BY <1>x, FlushCmdType
<1>1. cmds[i].kind = "flush" /\ cmds[i].id[1] = c /\ cmds[i].id[2] = ops[c]
  BY <1>x, <1>0
<1>2. cmds[i].id[2] < ops[c]
  BY <1>1 DEF FlushesFresh
<1>3. ops[c] \in Nat
  BY DEF TypeInv
<1> QED BY <1>1, <1>2, <1>3

\* A call begins: whatever the caller left on the queue is now from an
\* earlier call.
LEMMA BeginsPreserves ==
    ASSUME IInv, NEW c \in Callers, Begins(c)
    PROVE  IInv'
<1> USE DEF IInv
<1>1. /\ UNCHANGED <<status, thread, cmds, accepted, sent, mark>>
      /\ pc[c] = "idle" /\ ops' = [ops EXCEPT ![c] = @ + 1]
  BY DEF Begins, BeginSend, BeginFlush, BeginDrop, MayCall, threadVars
<1>2. /\ pc' \in [Callers -> {"idle", "send", "flush", "wait", "tick", "shutdown",
                              "join", "dropped"}]
      /\ \A d \in Callers : d # c => pc'[d] = pc[d] /\ reply'[d] = reply[d] /\ result'[d] = result[d]
      /\ pc'[c] \in {"send", "flush"}
  BY DEF Begins, BeginSend, BeginFlush, BeginDrop, TypeInv
<1>3. pc'[c] = "flush" => ~reply'[c] /\ result'[c] = "none"
  BY DEF Begins, BeginSend, BeginFlush, BeginDrop, TypeInv
<1>4. result'[c] = result[c] \/ result'[c] = "none"
  BY DEF Begins, BeginSend, BeginFlush, BeginDrop, TypeInv
<1>5. TypeInv'
  BY CallerType
<1>6. SentInOrder'
  BY <1>1 DEF SentInOrder
<1>7. QueueInv'
  <2>1. \A d \in Callers : pc'[d] \in Waiting =>
            pc[d] \in Waiting /\ ops'[d] = ops[d] /\ mark'[d] = mark[d]
    BY <1>1, <1>2 DEF Waiting, TypeInv
  <2>2. ReceiverOpen' => ReceiverOpen
    BY <1>1 DEF ReceiverOpen
  <2> QED BY <1>1, <2>1, <2>2, QueueKept
<1>8. FlushesFresh'
  <2> SUFFICES ASSUME NEW i \in 1..Len(cmds), cmds[i].kind = "flush"
               PROVE  /\ cmds[i].id[2] <= ops'[cmds[i].id[1]]
                      /\ pc'[cmds[i].id[1]] = "flush" => cmds[i].id[2] < ops'[cmds[i].id[1]]
    BY <1>1 DEF FlushesFresh
  <2>1. cmds[i] \in Command
    BY DEF TypeInv
  <2>2. PICK d \in Callers, k \in Nat : cmds[i].id[1] = d /\ cmds[i].id[2] = k
    BY <2>1 DEF Command, Call
  <2>3. k <= ops[d] /\ (pc[d] = "flush" => k < ops[d]) /\ ops[d] \in Nat
    BY <2>2 DEF FlushesFresh, TypeInv
  <2>4. ops'[d] = IF d = c THEN ops[d] + 1 ELSE ops[d]
    BY <1>1 DEF TypeInv
  <2>5. d # c => pc'[d] = pc[d]
    BY <1>2
  <2> QED BY <2>2, <2>3, <2>4, <2>5
<1>9. AnswersInv'
  BY <1>1, <1>2, <1>3, <1>4 DEF AnswersInv, Waiting
<1>10. FlushDelivers'
  BY <1>1, <1>2, <1>4 DEF FlushDelivers
<1> QED BY <1>5, <1>6, <1>7, <1>8, <1>9, <1>10

\* A caller goes on; only an answer makes its flush return Ok.
LEMMA ProceedsPreserves ==
    ASSUME IInv, NEW c \in Callers, Proceeds(c)
    PROVE  IInv'
<1> USE DEF IInv
<1>1. UNCHANGED <<status, thread, cmds, ops, reply, accepted, sent, mark>>
  BY DEF Proceeds, FlushSendFails, FlushOk, FlushClosed, FlushTick, FlushTimeout,
         FlushGivesUp, FlushKeepsWaiting, DropShutdown, DropJoin, FlushReturns, threadVars
<1>2. /\ \A d \in Callers : d # c => pc'[d] = pc[d] /\ result'[d] = result[d]
      /\ pc'[c] # "flush" /\ (pc'[c] \in Waiting => pc[c] \in Waiting)
  BY DEF Proceeds, FlushSendFails, FlushOk, FlushClosed, FlushTick, FlushTimeout,
         FlushGivesUp, FlushKeepsWaiting, DropShutdown, DropJoin, FlushReturns, TypeInv,
         Waiting
<1>3. \/ result' = result
      \/ pc'[c] \notin Waiting /\ result'[c] = "err"
      \/ pc'[c] \notin Waiting /\ result'[c] = "ok" /\ pc[c] \in Waiting /\ reply[c]
  BY DEF Proceeds, FlushSendFails, FlushOk, FlushClosed, FlushTick, FlushTimeout,
         FlushGivesUp, FlushKeepsWaiting, DropShutdown, DropJoin, FlushReturns, TypeInv,
         Waiting
<1>5. TypeInv'
  BY CallerType
<1>6. SentInOrder'
  BY <1>1 DEF SentInOrder
<1>7. QueueInv'
  <2>1. \A d \in Callers : pc'[d] \in Waiting =>
            pc[d] \in Waiting /\ ops'[d] = ops[d] /\ mark'[d] = mark[d]
    BY <1>1, <1>2
  <2>2. ReceiverOpen' => ReceiverOpen
    BY <1>1 DEF ReceiverOpen
  <2> QED BY <1>1, <2>1, <2>2, QueueKept
<1>8. FlushesFresh'
  <2> SUFFICES ASSUME NEW i \in 1..Len(cmds), cmds[i].kind = "flush",
                      pc'[cmds[i].id[1]] = "flush"
               PROVE  pc[cmds[i].id[1]] = "flush"
    BY <1>1 DEF FlushesFresh
  <2>1. cmds[i].id[1] \in Callers
    BY QueuedCaller
  <2> QED BY <2>1, <1>2
<1>9. AnswersInv'
  BY <1>1, <1>2, <1>3 DEF AnswersInv
<1>10. FlushDelivers'
  BY <1>1, <1>2, <1>3 DEF FlushDelivers, AnswersInv
<1> QED BY <1>5, <1>6, <1>7, <1>8, <1>9, <1>10

\* A message or a Flush command joins the queue.
LEMMA EnqueuePreserves ==
    ASSUME IInv, NEW c \in Callers, SendBlocking(c) \/ FlushSend(c)
    PROVE  IInv'
<1> USE DEF IInv
<1>0. TypeInv'
  BY CallerType
<1>1. CASE SendBlocking(c) /\ ~ReceiverOpen
  <2>1. /\ UNCHANGED <<status, thread, cmds, ops, reply, result, accepted, sent, mark>>
        /\ pc' = [pc EXCEPT ![c] = "idle"]
    BY <1>1 DEF SendBlocking, threadVars
  <2>2. QueueInv' /\ SentInOrder' /\ FlushDelivers'
    BY <1>1, <2>1 DEF QueueInv, ReceiverOpen, SentInOrder, FlushDelivers
  <2>3. \A d \in Callers : pc'[d] = pc[d] \/ pc'[d] = "idle"
    BY <2>1 DEF TypeInv
  <2>4. FlushesFresh'
    <3> SUFFICES ASSUME NEW i \in 1..Len(cmds), cmds[i].kind = "flush",
                        pc'[cmds[i].id[1]] = "flush"
                 PROVE  pc[cmds[i].id[1]] = "flush"
      BY <2>1 DEF FlushesFresh
    <3>1. cmds[i].id[1] \in Callers
      BY QueuedCaller
    <3> QED BY <3>1, <2>3
  <2>5. AnswersInv'
    BY <2>1, <2>3 DEF AnswersInv, Waiting
  <2> QED BY <2>2, <2>4, <2>5, <1>0
<1>2. CASE SendBlocking(c) /\ ReceiverOpen
  <2> DEFINE cmd == LogCmd(<<c, ops[c]>>)
  <2>1. /\ UNCHANGED <<status, thread, ops, reply, result, sent, mark>>
        /\ pc' = [pc EXCEPT ![c] = "idle"]
        /\ cmds' = Append(cmds, cmd) /\ accepted' = Append(accepted, <<c, ops[c]>>)
    BY <1>2 DEF SendBlocking, threadVars
  <2>2. cmd \in Command /\ cmd.kind = "log" /\ cmd.id = <<c, ops[c]>> /\ cmd.id \in Call
    BY FlushCmdType
  <2>3. \A d \in Callers : pc'[d] = pc[d] \/ pc'[d] = "idle"
    BY <2>1 DEF TypeInv
  <2>4. /\ Len(cmds) \in Nat /\ Len(cmds') = Len(cmds) + 1 /\ cmds'[Len(cmds) + 1] = cmd
        /\ \A i \in 1..Len(cmds) : cmds'[i] = cmds[i]
    BY <2>1 DEF TypeInv
  <2>5. QueueInv'
    <3>1. PICK x : x = cmd
      OBVIOUS
    <3>2. x \in Command /\ x.kind = "log" /\ x.id = <<c, ops[c]>> /\ cmds' = Append(cmds, x)
      BY <3>1, <2>1, <2>2
    <3>3. \A d \in Callers : x # FlushCmd(d)
      BY <3>2, FlushCmdType
    <3>4. \A d \in Callers : pc'[d] \in Waiting =>
             /\ ops'[d] = ops[d]
             /\ \/ x = FlushCmd(d) /\ mark'[d] = Len(accepted)
                   /\ \A i \in 1..Len(cmds) : cmds[i] # FlushCmd(d)
                \/ x # FlushCmd(d) /\ pc[d] \in Waiting /\ mark'[d] = mark[d]
      BY <3>3, <2>1, <2>3 DEF Waiting
    <3>5. accepted' = IF x.kind = "log" THEN Append(accepted, x.id) ELSE accepted
      BY <3>2, <2>1
    <3>6. sent' = sent
      BY <2>1
    <3> QED BY <3>2, <3>4, <3>5, <3>6, <1>2, QueueGrows
  <2>6. SentInOrder' /\ FlushDelivers'
    <3>1. /\ Len(accepted) \in Nat /\ Len(sent) \in Nat
          /\ Len(accepted') = Len(accepted) + 1
          /\ \A i \in 1..Len(accepted) : accepted'[i] = accepted[i]
      BY <2>1 DEF TypeInv
    <3>2. \A i \in 1..Len(sent) : i \in 1..Len(accepted)
      BY <3>1 DEF SentInOrder
    <3> QED BY <2>1, <3>1, <3>2 DEF SentInOrder, FlushDelivers
  <2>7. FlushesFresh'
    <3> SUFFICES ASSUME NEW i \in 1..(Len(cmds) + 1), cmds'[i].kind = "flush"
                 PROVE  /\ cmds'[i].id[2] <= ops[cmds'[i].id[1]]
                        /\ pc'[cmds'[i].id[1]] = "flush" =>
                              cmds'[i].id[2] < ops[cmds'[i].id[1]]
      BY <2>1, <2>4 DEF FlushesFresh
    <3>1. i \in 1..Len(cmds) /\ cmds'[i] = cmds[i]
      BY <2>2, <2>4
    <3>2. cmds[i].id[1] \in Callers
      BY <3>1, QueuedCaller
    <3>3. pc'[cmds[i].id[1]] = "flush" => pc[cmds[i].id[1]] = "flush"
      BY <3>2, <2>3
    <3> QED BY <3>1, <3>3 DEF FlushesFresh
  <2>8. AnswersInv'
    BY <2>1, <2>3 DEF AnswersInv, Waiting
  <2> QED BY <2>5, <2>6, <2>7, <2>8, <1>0
<1>3. CASE FlushSend(c)
  <2>1. /\ UNCHANGED <<status, thread, ops, reply, result, accepted, sent>>
        /\ pc' = [pc EXCEPT ![c] = "wait"] /\ pc[c] = "flush"
        /\ cmds' = Append(cmds, FlushCmd(c)) /\ mark' = [mark EXCEPT ![c] = Len(accepted)]
        /\ ReceiverOpen
    BY <1>3 DEF FlushSend, threadVars
  <2>2. FlushCmd(c) \in Command /\ FlushCmd(c).kind = "flush"
        /\ FlushCmd(c).id[1] = c /\ FlushCmd(c).id[2] = ops[c] /\ ops[c] \in Nat
    BY FlushCmdType DEF TypeInv
  <2>3. pc'[c] = "wait" /\ \A d \in Callers : d # c => pc'[d] = pc[d] /\ mark'[d] = mark[d]
    BY <2>1 DEF TypeInv
  <2>4. /\ Len(cmds) \in Nat /\ Len(cmds') = Len(cmds) + 1
        /\ cmds'[Len(cmds) + 1] = FlushCmd(c)
        /\ \A i \in 1..Len(cmds) : cmds'[i] = cmds[i]
    BY <2>1 DEF TypeInv
  <2>5. mark'[c] = Len(accepted)
    BY <2>1 DEF TypeInv
  <2>6. QueueInv'
    <3>1. PICK x : x = FlushCmd(c)
      OBVIOUS
    <3>2. x \in Command /\ x.kind = "flush" /\ cmds' = Append(cmds, x) /\ sent' = sent
      BY <3>1, <2>1, <2>2
    <3>3. \A d \in Callers : d # c => x # FlushCmd(d)
      <4>1. \A d \in Callers : FlushCmd(d).id[1] = d
        BY FlushCmdType
      <4> QED BY <3>1, <4>1
    <3>4. \A d \in Callers : pc'[d] \in Waiting =>
             /\ ops'[d] = ops[d]
             /\ \/ x = FlushCmd(d) /\ mark'[d] = Len(accepted)
                   /\ \A i \in 1..Len(cmds) : cmds[i] # FlushCmd(d)
                \/ x # FlushCmd(d) /\ pc[d] \in Waiting /\ mark'[d] = mark[d]
      BY <3>1, <3>3, <2>1, <2>3, <2>5, NotQueuedYet
    <3>5. accepted' = IF x.kind = "log" THEN Append(accepted, x.id) ELSE accepted
      BY <3>2, <2>1
    <3> QED BY <3>2, <3>4, <3>5, <2>1, QueueGrows
  <2>7. SentInOrder'
    BY <2>1 DEF SentInOrder
  <2>8. ~reply[c] /\ result[c] # "ok"
    BY <2>1 DEF AnswersInv
  <2>9. FlushDelivers'
    BY <2>1, <2>3, <2>8 DEF FlushDelivers
  <2>10. FlushesFresh'
    <3> SUFFICES ASSUME NEW i \in 1..(Len(cmds) + 1), cmds'[i].kind = "flush"
                 PROVE  /\ cmds'[i].id[2] <= ops[cmds'[i].id[1]]
                        /\ pc'[cmds'[i].id[1]] = "flush" =>
                              cmds'[i].id[2] < ops[cmds'[i].id[1]]
      BY <2>1, <2>4 DEF FlushesFresh
    <3>1. CASE i \in 1..Len(cmds)
      <4>1. cmds'[i] = cmds[i] /\ cmds[i].id[1] \in Callers
        BY <3>1, <2>4, QueuedCaller
      <4>2. pc'[cmds[i].id[1]] = "flush" => pc[cmds[i].id[1]] = "flush"
        BY <4>1, <2>1, <2>3
      <4> QED BY <3>1, <4>1, <4>2 DEF FlushesFresh
    <3>2. CASE i = Len(cmds) + 1
      BY <3>2, <2>2, <2>3, <2>4
    <3>3. i \in 1..Len(cmds) \/ i = Len(cmds) + 1
      BY <2>4
    <3> QED BY <3>1, <3>2, <3>3
  <2>11. AnswersInv'
    BY <2>1, <2>3, <2>8 DEF AnswersInv, Waiting
  <2> QED BY <2>6, <2>7, <2>9, <2>10, <2>11, <1>0
<1> QED BY <1>1, <1>2, <1>3

\* The thread connects, or its time for that passes; or the receiver goes
\* away, with everything that is queued.
LEMMA ThreadPreserves ==
    ASSUME IInv, Idles \/ Closes
    PROVE  IInv'
<1> USE DEF IInv
<1>1. TypeInv'
  BY ThreadType
<1>2. UNCHANGED <<pc, ops, result, reply, accepted, sent, mark>>
  BY DEF Idles, ValidEndpoint, ConnectSucceeds, ConnectLate, ServerStalls, Closes, InvalidEndpoint,
         ConnectFailsShutdown, StreamEncodeFails, StreamFlushAbandoned, StreamShutdown,
         WriteMessagesReturns, WriteMessagesFails, callVars
<1>3. cmds' = cmds \/ cmds' = <<>>
  BY DEF Idles, ValidEndpoint, ConnectSucceeds, ConnectLate, ServerStalls, Closes, InvalidEndpoint,
         ConnectFailsShutdown, StreamEncodeFails, StreamFlushAbandoned, StreamShutdown,
         WriteMessagesReturns, WriteMessagesFails, StreamEnds
<1>4. SentInOrder' /\ AnswersInv' /\ FlushDelivers'
  BY <1>2 DEF SentInOrder, AnswersInv, FlushDelivers
<1>5. FlushesFresh'
  BY <1>2, <1>3 DEF FlushesFresh
<1>6. QueueInv'
  <2>1. CASE Idles
    <3>1. cmds' = cmds /\ (ReceiverOpen' => ReceiverOpen)
      BY <2>1 DEF Idles, ValidEndpoint, ConnectSucceeds, ConnectLate,
                  ServerStalls, ReceiverOpen, threadVars
    <3> QED BY <3>1, <1>2, QueueKept
  <2>2. CASE Closes
    <3>1. ~ReceiverOpen'
      BY <2>2 DEF Closes, InvalidEndpoint, ConnectFailsShutdown, StreamEncodeFails,
         StreamFlushAbandoned, StreamShutdown, WriteMessagesReturns, WriteMessagesFails,
         StreamEnds, ReceiverOpen
    <3> QED BY <3>1 DEF QueueInv
  <2> QED BY <2>1, <2>2
<1> QED BY <1>1, <1>4, <1>5, <1>6

\* The stream takes the next command.
LEMMA StreamPreserves ==
    ASSUME IInv, StreamLog \/ StreamFlush
    PROVE  IInv'
<1> USE DEF IInv
<1>1. TypeInv'
  BY ThreadType
<1>2. /\ UNCHANGED <<accepted, pc, ops, result, mark>>
      /\ cmds # <<>> /\ cmds' = Tail(cmds) /\ ReceiverOpen
      /\ sent' = IF Head(cmds).kind = "log" THEN Append(sent, Head(cmds).id) ELSE sent
  BY DEF StreamLog, StreamFlush, StreamPolled, callVars, ReceiverOpen
<1>3. /\ QueueInv'
      /\ Head(cmds).kind = "log" =>
            /\ Len(sent) < Len(accepted)
            /\ Head(cmds).id = accepted[Len(sent) + 1]
      /\ \A c \in Callers :
            Head(cmds) = FlushCmd(c) /\ pc[c] \in Waiting => mark[c] = Len(sent)
  BY <1>2, QueueShrinks
<1>4. Len(sent) \in Nat /\ Len(accepted) \in Nat
  BY DEF TypeInv
<1>5. /\ Len(sent') >= Len(sent) /\ Len(sent') \in Nat
      /\ SentInOrder'
  <2>1. CASE Head(cmds).kind = "log"
    <3>1. /\ Len(sent') = Len(sent) + 1 /\ sent'[Len(sent) + 1] = Head(cmds).id
          /\ \A i \in 1..Len(sent) : sent'[i] = sent[i]
      BY <2>1, <1>2 DEF TypeInv
    <3>2. \A i \in 1..(Len(sent) + 1) : i \in 1..Len(sent) \/ i = Len(sent) + 1
      BY <1>4
    <3> QED BY <3>1, <3>2, <2>1, <1>2, <1>3, <1>4 DEF SentInOrder
  <2>2. CASE Head(cmds).kind # "log"
    BY <2>2, <1>2, <1>4 DEF SentInOrder
  <2> QED BY <2>1, <2>2
<1>6. FlushDelivers'
  BY <1>2, <1>4, <1>5 DEF FlushDelivers, TypeInv
<1>7. FlushesFresh'
  <2>1. Len(cmds') = Len(cmds) - 1 /\ Len(cmds) \in Nat
        /\ \A i \in 1..(Len(cmds) - 1) : i + 1 \in 1..Len(cmds) /\ cmds'[i] = cmds[i + 1]
    BY <1>2 DEF TypeInv
  <2> QED BY <2>1, <1>2 DEF FlushesFresh
<1>8. AnswersInv'
  <2> SUFFICES ASSUME NEW c \in Callers
               PROVE  /\ pc[c] \in Waiting /\ reply'[c] => mark[c] <= Len(sent')
                      /\ pc[c] = "flush" => ~reply'[c]
                      /\ pc[c] \in Waiting \cup {"flush"} => result[c] # "ok"
    BY <1>2 DEF AnswersInv
  <2>1. mark[c] \in Nat
    BY DEF TypeInv
  <2>2. CASE reply'[c] = reply[c]
    BY <2>1, <2>2, <1>4, <1>5 DEF AnswersInv
  <2>3. CASE reply'[c] # reply[c]
    <3>1. PICK d \in Callers : Head(cmds) = FlushCmd(d) /\ pc[d] \in Waiting
                               /\ reply' = [reply EXCEPT ![Head(cmds).id[1]] = TRUE]
      BY <2>3 DEF StreamLog, StreamFlush, FlushOpen, Waiting
    <3>2. Head(cmds).id[1] = d
      BY <3>1, FlushCmdType
    <3>3. c = d
      BY <2>3, <3>1, <3>2 DEF TypeInv
    <3>4. mark[c] = Len(sent)
      BY <3>1, <3>3, <1>3
    <3>5. pc[c] # "flush" /\ result[c] # "ok"
      BY <3>1, <3>3 DEF Waiting, AnswersInv
    <3> QED BY <3>4, <3>5, <1>4, <1>5
  <2> QED BY <2>2, <2>3
<1> QED BY <1>1, <1>3, <1>5, <1>6, <1>7, <1>8

\* The client starts in the invariant.
LEMMA InitInv == Init => IInv
<1> SUFFICES ASSUME Init PROVE IInv
  OBVIOUS
<1>1. TypeInv
  BY EmptySeq DEF Init, TypeInv
<1>2. QueueInv
  <2> DEFINE f == [i \in 0..0 |-> 0]
  <2>1. Len(cmds) = 0 /\ Len(sent) = 0 /\ Len(accepted) = 0 /\ 0..0 = {0} /\ 1..0 = {}
    BY DEF Init
  <2>2. IsRank(f)
    BY <2>1 DEF IsRank
  <2>3. LogsInPlace(f) /\ FlushesInPlace(f)
    BY <2>1 DEF LogsInPlace, FlushesInPlace
  <2> QED BY <2>2, <2>3 DEF QueueInv
<1>3. SentInOrder /\ FlushesFresh /\ AnswersInv /\ FlushDelivers
  BY DEF Init, SentInOrder, FlushesFresh, AnswersInv, FlushDelivers, Waiting
<1> QED BY <1>1, <1>2, <1>3 DEF IInv

\* The client stays in it: whatever callers, connection and stream do, the
\* queue holds what separates the accepted messages from the sent ones.
THEOREM Invariance == Spec => []IInv
<1>1. IInv /\ [Next]_vars => IInv'
  <2> SUFFICES ASSUME IInv, [Next]_vars PROVE IInv'
    OBVIOUS
  <2>1. CASE UNCHANGED vars
    <3>1. TypeInv'
      BY <2>1 DEF vars, IInv, TypeInv
    <3>2. QueueInv'
      BY <2>1, QueueKept DEF vars, IInv, ReceiverOpen
    <3>3. SentInOrder' /\ FlushesFresh' /\ AnswersInv' /\ FlushDelivers'
      BY <2>1 DEF vars, IInv, SentInOrder, FlushesFresh, AnswersInv, FlushDelivers
    <3> QED BY <3>1, <3>2, <3>3 DEF IInv
  <2>2. ASSUME NEW c \in Callers, Begins(c) PROVE IInv'
    BY <2>2, BeginsPreserves
  <2>3. ASSUME NEW c \in Callers, Proceeds(c) PROVE IInv'
    BY <2>3, ProceedsPreserves
  <2>4. ASSUME NEW c \in Callers, SendBlocking(c) \/ FlushSend(c) PROVE IInv'
    BY <2>4, EnqueuePreserves
  <2>5. CASE Idles \/ Closes
    BY <2>5, ThreadPreserves
  <2>6. CASE StreamLog \/ StreamFlush
    BY <2>6, StreamPreserves
  <2> QED BY <2>1, <2>2, <2>3, <2>4, <2>5, <2>6, NextCases
<1> QED BY <1>1, InitInv, PTL DEF Spec

\* The server is sent a prefix of what the callers queued, in that order:
\* whatever SendBlocking, the reconnects and the ends of the stream do.
THEOREM MessagesInOrder == Spec => []SentInOrder
<1>1. IInv => SentInOrder
  BY DEF IInv
<1> QED BY <1>1, Invariance, PTL

\* A flush_blocking that returns Ok has put everything that was queued before
\* it on the stream, and no late answer to an earlier flush does instead.
THEOREM FlushesDeliver == Spec => []FlushDelivers
<1>1. IInv => FlushDelivers
  BY DEF IInv
<1> QED BY <1>1, Invariance, PTL

=============================================================================
