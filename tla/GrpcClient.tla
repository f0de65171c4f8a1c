----------------------------- MODULE GrpcClient -----------------------------
(***************************************************************************)
(* The gRPC client behind the SDK's GrpcSink (dl_grpc_client/write.rs): a  *)
(* bounded command queue, a thread that connects and then streams the      *)
(* queue to the server, flushes that wait for an answer, and a Drop that   *)
(* flushes, asks the thread to stop and joins it.                          *)
(*                                                                         *)
(* External: the server, which accepts the connection or not, and may stop *)
(* reading or fail while streaming; tokio's mpsc channel, whose send waits *)
(* for a free place and fails once the receiver is gone.                   *)
(***************************************************************************)
EXTENDS Naturals, Sequences, FiniteSetsExt

CONSTANTS
    Callers,   \* threads that use the client
    QueueLen,  \* capacity of cmd_tx (100 in the code)
    MaxOps     \* bound: sends and flushes of all callers together

ASSUME ClientAssumption == QueueLen \in Nat \ {0} /\ MaxOps \in Nat

VARIABLES
    status,        \* Client::status
    thread,        \* where message_proxy_client is
    cmds,          \* the command queue
    shutdown,      \* whether shutdown_tx holds a message
    late,          \* connect_timeout_on_flush has passed since `started`
    stalled,       \* the connected server will not read or answer any more
    pc,            \* where each caller is
    ops,           \* operations each caller has started
    finite,        \* the flush the caller is in has a finite timeout
    reply,         \* on_done of that flush holds a message
    result,        \* history: the result of the caller's last flush
    owner,         \* the caller that drops the client, once one does
    accepted,      \* history: messages put on the queue, in order
    sent,          \* history: messages yielded to the gRPC stream, in order
    mark           \* history: how many messages preceded the caller's flush

threadVars == <<status, thread, shutdown>>
envVars    == <<late, stalled>>
callVars   == <<pc, ops, finite, result, owner>>
vars == <<status, thread, cmds, shutdown, late, stalled, pc, ops, finite, reply,
          result, owner, accepted, sent, mark>>

LogCmd(m) == [kind |-> "log", id |-> m]
\* Which flush a Flush command belongs to; its on_done is open while the
\* caller still waits in that very flush.
FlushCmd(c) == [kind |-> "flush", id |-> <<c, ops[c]>>]

Disconnected == {"disconnected_ok", "disconnected_err"}
ReceiverOpen == thread \in {"start", "connecting", "streaming"}

Init ==
    /\ status = "connecting"
    /\ thread = "start"
    /\ cmds = <<>>
    /\ shutdown = FALSE
    /\ late = FALSE
    /\ stalled = FALSE
    /\ pc = [c \in Callers |-> "idle"]
    /\ ops = [c \in Callers |-> 0]
    /\ finite = [c \in Callers |-> FALSE]
    /\ reply = [c \in Callers |-> FALSE]
    /\ result = [c \in Callers |-> "none"]
    /\ owner = {}
    /\ accepted = <<>>
    /\ sent = <<>>
    /\ mark = [c \in Callers |-> 0]

-----------------------------------------------------------------------------
(* Callers *)

\* The client cannot be used once it is being dropped.
MayCall(c) ==
    /\ pc[c] = "idle" /\ owner = {}
    /\ MapThenSumSet(LAMBDA d : ops[d], Callers) < MaxOps

BeginSend(c) ==
    /\ MayCall(c)
    /\ ops' = [ops EXCEPT ![c] = @ + 1]
    /\ pc' = [pc EXCEPT ![c] = "send"]
    /\ UNCHANGED <<threadVars, cmds, envVars, finite, reply, result, owner,
                   accepted, sent, mark>>

\* blocking_send of a LogMsg: waits for a place, and `.ok()` ignores that the
\* thread is gone.
SendBlocking(c) ==
    /\ pc[c] = "send"
    /\ \/ /\ ReceiverOpen
          /\ Len(cmds) < QueueLen
          /\ cmds' = Append(cmds, LogCmd(<<c, ops[c]>>))
          /\ accepted' = Append(accepted, <<c, ops[c]>>)
       \/ ~ReceiverOpen /\ UNCHANGED <<cmds, accepted>>
    /\ pc' = [pc EXCEPT ![c] = "idle"]
    /\ UNCHANGED <<threadVars, envVars, ops, finite, reply, result, owner, sent, mark>>

\* flush_blocking(timeout), with Duration::MAX or less.
BeginFlush(c) ==
    /\ MayCall(c)
    /\ ops' = [ops EXCEPT ![c] = @ + 1]
    /\ \E f \in BOOLEAN : finite' = [finite EXCEPT ![c] = f]
    /\ reply' = [reply EXCEPT ![c] = FALSE]
    /\ result' = [result EXCEPT ![c] = "none"]
    /\ pc' = [pc EXCEPT ![c] = "flush"]
    /\ UNCHANGED <<threadVars, cmds, envVars, owner, accepted, sent, mark>>

\* What follows the return of a flush: nothing, or the rest of Drop.
FlushReturns(c, r) ==
    /\ result' = [result EXCEPT ![c] = r]
    /\ pc' = [pc EXCEPT ![c] = IF c \in owner THEN "shutdown" ELSE "idle"]
    /\ UNCHANGED <<ops, finite, owner>>

\* The Flush command is sent like any other; the timer starts only afterwards.
FlushSend(c) ==
    /\ pc[c] = "flush"
    /\ ReceiverOpen
    /\ Len(cmds) < QueueLen
    /\ cmds' = Append(cmds, FlushCmd(c))
    /\ mark' = [mark EXCEPT ![c] = Len(accepted)]
    /\ pc' = [pc EXCEPT ![c] = "wait"]
    /\ UNCHANGED <<threadVars, envVars, ops, finite, reply, result, owner, accepted, sent>>

FlushSendFails(c) ==
    /\ pc[c] = "flush"
    /\ ~ReceiverOpen
    /\ FlushReturns(c, "err")
    /\ UNCHANGED <<threadVars, cmds, envVars, reply, accepted, sent, mark>>

\* recv_timeout finds the answer.
FlushOk(c) ==
    /\ pc[c] = "wait"
    /\ reply[c]
    /\ FlushReturns(c, "ok")
    /\ UNCHANGED <<threadVars, cmds, envVars, reply, accepted, sent, mark>>

OnDoneDropped(c) == \A i \in 1..Len(cmds) : cmds[i] # FlushCmd(c)

\* recv_timeout finds that on_done was dropped without an answer.
FlushClosed(c) ==
    /\ pc[c] = "wait"
    /\ ~reply[c]
    /\ OnDoneDropped(c)
    /\ FlushReturns(c, "err")
    /\ UNCHANGED <<threadVars, cmds, envVars, reply, accepted, sent, mark>>

\* The interval of recv_timeout ends without an answer.
FlushTick(c) ==
    /\ pc[c] = "wait"
    /\ ~reply[c]
    /\ ~OnDoneDropped(c)
    /\ pc' = [pc EXCEPT ![c] = "tick"]
    /\ UNCHANGED <<threadVars, cmds, envVars, ops, finite, reply, result, owner,
                   accepted, sent, mark>>

\* timeout < elapsed.
FlushTimeout(c) ==
    /\ pc[c] = "tick"
    /\ finite[c]
    /\ FlushReturns(c, "err")
    /\ UNCHANGED <<threadVars, cmds, envVars, reply, accepted, sent, mark>>

\* Mutant of FlushGivesUp: no time limit on a connection attempt.
FlushTrustsServer(c) ==
    /\ pc[c] = "tick"
    /\ status \in Disconnected
    /\ FlushReturns(c, "err")
    /\ UNCHANGED <<threadVars, cmds, envVars, reply, accepted, sent, mark>>

\* Not connected in time, or not connected any more.
FlushGivesUp(c) ==
    /\ pc[c] = "tick"
    /\ (status = "connecting" /\ late) \/ status \in Disconnected
    /\ FlushReturns(c, "err")
    /\ UNCHANGED <<threadVars, cmds, envVars, reply, accepted, sent, mark>>

FlushKeepsWaiting(c) ==
    /\ pc[c] = "tick"
    /\ (status = "connecting" /\ ~late) \/ status = "connected"
    /\ pc' = [pc EXCEPT ![c] = "wait"]
    /\ UNCHANGED <<threadVars, cmds, envVars, ops, finite, reply, result, owner,
                   accepted, sent, mark>>

\* Drop for Client: flush_blocking(Duration::MAX) first.
BeginDrop(c) ==
    /\ owner = {}
    /\ \A d \in Callers : pc[d] = "idle"
    /\ owner' = {c}
    /\ ops' = [ops EXCEPT ![c] = @ + 1]
    /\ finite' = [finite EXCEPT ![c] = FALSE]
    /\ reply' = [reply EXCEPT ![c] = FALSE]
    /\ result' = [result EXCEPT ![c] = "none"]
    /\ pc' = [pc EXCEPT ![c] = "flush"]
    /\ UNCHANGED <<threadVars, cmds, envVars, accepted, sent, mark>>

\* shutdown_tx.try_send: fails, and Drop returns without joining the thread,
\* if the stream that owns shutdown_rx has ended.
DropShutdown(c) ==
    /\ pc[c] = "shutdown"
    /\ IF ReceiverOpen
         THEN pc' = [pc EXCEPT ![c] = "join"] /\ shutdown' = TRUE
         ELSE pc' = [pc EXCEPT ![c] = "dropped"] /\ UNCHANGED shutdown
    /\ UNCHANGED <<status, thread, cmds, envVars, ops, finite, reply, result, owner,
                   accepted, sent, mark>>

DropJoin(c) ==
    /\ pc[c] = "join"
    /\ thread = "exited"
    /\ pc' = [pc EXCEPT ![c] = "dropped"]
    /\ UNCHANGED <<threadVars, cmds, envVars, ops, finite, reply, result, owner,
                   accepted, sent, mark>>

-----------------------------------------------------------------------------
(* The thread: message_proxy_client *)

InvalidEndpoint ==
    /\ thread = "start"
    /\ status' = "disconnected_err"
    /\ thread' = "exited"
    /\ cmds' = <<>>
    /\ UNCHANGED <<shutdown, envVars, callVars, reply, accepted, sent, mark>>

ValidEndpoint ==
    /\ thread = "start"
    /\ thread' = "connecting"
    /\ UNCHANGED <<status, cmds, shutdown, envVars, callVars, reply, accepted, sent, mark>>

\* A failed attempt is retried 100 ms later, unless a shutdown was asked for.
ConnectFailsShutdown ==
    /\ thread = "connecting"
    /\ shutdown
    /\ shutdown' = FALSE
    /\ status' = "disconnected_ok"
    /\ thread' = "exited"
    /\ cmds' = <<>>
    /\ UNCHANGED <<envVars, callVars, reply, accepted, sent, mark>>

ConnectSucceeds ==
    /\ thread = "connecting"
    /\ thread' = "streaming"
    /\ status' = "connected"
    /\ UNCHANGED <<cmds, shutdown, envVars, callVars, reply, accepted, sent, mark>>

\* connect_timeout_on_flush passes.
ConnectLate ==
    /\ ~late
    /\ late' = TRUE
    /\ UNCHANGED <<threadVars, stalled, cmds, callVars, reply, accepted, sent, mark>>

\* The server stops reading, or answering, for good: there is neither a timeout
\* nor a keep-alive on the connection to end this.  (One that goes on later is
\* a slow server, which takes its time with the steps below.)
ServerStalls ==
    /\ thread \in {"streaming", "ended"} /\ ~stalled
    /\ stalled' = TRUE
    /\ UNCHANGED <<threadVars, late, cmds, callVars, reply, accepted, sent, mark>>

\* The transport polls the stream only while the server's window has room, so
\* a stalled server holds up flushes and shutdown along with the messages.
StreamPolled == thread = "streaming" /\ ~stalled

StreamLog ==
    /\ StreamPolled
    /\ cmds # <<>> /\ Head(cmds).kind = "log"
    /\ sent' = Append(sent, Head(cmds).id)
    /\ cmds' = Tail(cmds)
    /\ UNCHANGED <<threadVars, envVars, callVars, reply, accepted, mark>>

\* The stream ends; with it goes cmd_rx and every queued command.
StreamEnds == thread' = "ended" /\ cmds' = <<>>

\* Mutant of StreamEncodeFails: skips the message instead of ending the stream.
StreamSkips ==
    /\ StreamPolled
    /\ cmds # <<>> /\ Head(cmds).kind = "log"
    /\ cmds' = Tail(cmds)
    /\ UNCHANGED <<threadVars, envVars, callVars, reply, accepted, sent, mark>>

StreamEncodeFails ==
    /\ StreamPolled
    /\ cmds # <<>> /\ Head(cmds).kind = "log"
    /\ status' = "disconnected_err"
    /\ StreamEnds
    /\ UNCHANGED <<shutdown, envVars, callVars, reply, accepted, sent, mark>>

\* Mutant of FlushOpen: one on_done per caller instead of one per flush.
FlushOpenAnyCall(cmd) == pc[cmd.id[1]] \in {"wait", "tick"}

\* The caller still waits in the flush the command is from.
FlushOpen(cmd) ==
    \E c \in Callers : cmd = FlushCmd(c) /\ pc[c] \in {"wait", "tick"}

StreamFlush ==
    /\ StreamPolled
    /\ cmds # <<>> /\ Head(cmds).kind = "flush"
    /\ FlushOpen(Head(cmds))
    /\ reply' = [reply EXCEPT ![Head(cmds).id[1]] = TRUE]
    /\ cmds' = Tail(cmds)
    /\ UNCHANGED <<threadVars, envVars, callVars, accepted, sent, mark>>

\* Nobody waits for the answer: the send fails and the stream ends.
StreamFlushAbandoned ==
    /\ StreamPolled
    /\ cmds # <<>> /\ Head(cmds).kind = "flush"
    /\ ~FlushOpen(Head(cmds))
    /\ StreamEnds
    /\ UNCHANGED <<status, shutdown, envVars, callVars, reply, accepted, sent, mark>>

StreamShutdown ==
    /\ StreamPolled
    /\ shutdown
    /\ shutdown' = FALSE
    /\ StreamEnds
    /\ UNCHANGED <<status, envVars, callVars, reply, accepted, sent, mark>>

\* The write_messages call returns once the stream has ended ...
WriteMessagesReturns ==
    /\ thread = "ended" /\ ~stalled
    /\ status' = IF status \in Disconnected THEN status ELSE "disconnected_ok"
    /\ thread' = "exited"
    /\ UNCHANGED <<cmds, shutdown, envVars, callVars, reply, accepted, sent, mark>>

\* ... or fails at any time.
WriteMessagesFails ==
    /\ thread \in {"streaming", "ended"}
    /\ status' = IF status \in Disconnected THEN status ELSE "disconnected_err"
    /\ thread' = "exited"
    /\ cmds' = <<>>
    /\ UNCHANGED <<shutdown, envVars, callVars, reply, accepted, sent, mark>>

-----------------------------------------------------------------------------

CallerProgress(c) ==
    \/ SendBlocking(c)
    \/ FlushSend(c) \/ FlushSendFails(c) \/ FlushOk(c) \/ FlushClosed(c)
    \/ FlushTick(c) \/ FlushTimeout(c) \/ FlushGivesUp(c) \/ FlushKeepsWaiting(c)
    \/ DropShutdown(c) \/ DropJoin(c)

ThreadProgress ==
    \/ InvalidEndpoint \/ ValidEndpoint \/ ConnectFailsShutdown
    \/ StreamLog \/ StreamEncodeFails \/ StreamFlush \/ StreamFlushAbandoned
    \/ WriteMessagesReturns

Next ==
    \/ \E c \in Callers : BeginSend(c) \/ BeginFlush(c) \/ BeginDrop(c) \/ CallerProgress(c)
    \/ ThreadProgress
    \/ ConnectSucceeds \/ ConnectLate \/ StreamShutdown \/ WriteMessagesFails
    \/ ServerStalls

Spec == Init /\ [][Next]_vars

\* Threads run, timers fire (a finite flush that keeps waiting is past its
\* timeout some day; an attempt to connect ends), places in the queue are
\* handed out in order (the semaphore of tokio's mpsc is a FIFO), and the
\* select! of the stream does not ignore the shutdown message for ever.  The
\* server need never come up; until it stalls it reads what it is sent.
Fairness ==
    /\ \A c \in Callers : SF_vars(CallerProgress(c)) /\ SF_vars(FlushTimeout(c))
    /\ WF_vars(ThreadProgress)
    /\ WF_vars(ConnectLate)
    /\ SF_vars(StreamShutdown)

FairSpec == Spec /\ Fairness

-----------------------------------------------------------------------------
(* Properties *)

\* What the server is sent is a prefix of what was queued: no gap, no
\* reordering, no duplicate, however connects, flushes and failures interleave.
SentInOrder ==
    /\ Len(sent) <= Len(accepted)
    /\ \A i \in 1..Len(sent) : sent[i] = accepted[i]

\* A flush that returns Ok has everything that was sent before it on the
\* stream; a late answer to an earlier flush, one that timed out, never
\* counts for a later one.
FlushDelivers ==
    \A c \in Callers : result[c] = "ok" => mark[c] <= Len(sent)

\* The two ways to be stuck: a full queue that no connected stream empties,
\* and a server that is connected but takes nothing more.
StuckFull   == Len(cmds) = QueueLen /\ status = "connecting"
StuckServer == thread \in {"streaming", "ended"} /\ stalled

\* Each send, each flush and the Drop, with its unbounded flush and its join,
\* returns even if the server never comes up or fails at any point, unless
\* the queue stays full while the client is connecting or a connected server
\* stalls for good.  A flush with a finite timeout that has its command on the
\* queue returns in those cases too: only the wait for a place has no timer.
CallsReturn ==
    /\ \/ <>[]StuckFull
       \/ <>[]StuckServer
       \/ \A c \in Callers : pc[c] \notin {"idle", "dropped"} ~> pc[c] \in {"idle", "dropped"}
    /\ \A c \in Callers :
          pc[c] \in {"wait", "tick"} /\ finite[c] ~> pc[c] \notin {"wait", "tick"}

\* "Flush channel may already be closed for non-blocking flush, so this isn't
\* an error." (write.rs:421) and "We will still retry connecting for however
\* long it takes." (write.rs:72): the client ends gracefully only when it was
\* asked to shut down.
StreamSurvivesFlush == status = "disconnected_ok" => owner # {}

=============================================================================
