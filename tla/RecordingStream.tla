-------------------------- MODULE RecordingStream ---------------------------
(***************************************************************************)
(* The logging pipeline of the SDK: threads record rows, chunks and        *)
(* messages, flush, swap the sink and finally drop the RecordingStream     *)
(* (dl_sdk/recording_stream.rs); a batching thread coalesces rows into     *)
(* chunks (dl_chunk/batcher.rs); a forwarding thread moves chunks and      *)
(* messages into the current LogSink (dl_sdk/log_sink.rs).                 *)
(*                                                                         *)
(* The three quota channels between them are bounded queues here, with a   *)
(* capacity in messages; QuotaChannel models them in bytes.  A call is the *)
(* sequence of its blocking steps (Steps); each step of a thread, of the   *)
(* batcher and of the forwarder is one action.                             *)
(***************************************************************************)
EXTENDS Integers, Sequences, SequencesExt, FiniteSetsExt

CONSTANTS
    Threads,       \* threads that share the stream
    Entities,      \* entity paths
    SinkKinds,     \* subset of {"buffered", "file", "stream"}
    RowThreshold,  \* RowThreshold[k]: flush_num_rows of the config of sink kind k
    MaxUnsorted,   \* chunk_max_rows_if_unsorted
    RowData,       \* RowData[nr]: the times and datatypes of the row of call nr
    Calls,         \* the calls the threads make
    MaxCalls,      \* bound: calls of all threads together
    QueueLen       \* capacity of each channel

ASSUME StreamAssumption ==
    /\ SinkKinds \subseteq {"buffered", "file", "stream"}
    /\ RowThreshold \in [SinkKinds -> Nat]
    /\ MaxUnsorted \in Nat
    /\ 1..MaxCalls \subseteq DOMAIN RowData
    /\ \A nr \in DOMAIN RowData :
          \A timeline \in DOMAIN RowData[nr].times : RowData[nr].times[timeline] \in Int
    /\ Calls \subseteq {"row", "chunk", "msg", "flush", "set_sink", "finalize"}
    /\ MaxCalls \in Nat /\ QueueLen \in Nat \ {0}

VARIABLES
    call,      \* the call each thread is in
    todo,      \* the blocking steps it still has to take
    made,      \* calls begun, over all threads
    dropped,   \* the last handle is being dropped
    swapped,   \* history: the last set_sink of the thread that returned
    recorded,  \* history: the items recorded so far
    b_cmds,    \* ChunkBatcherInner::tx_cmds
    b_reply,   \* on_done of a batcher flush holds a message
    batcher,   \* state of the batching thread
    accs,      \* its accumulators
    b_out,     \* chunks it is sending
    b_done,    \* threads it then answers
    skip_next_tick,
    num_rows,  \* config.flush_num_rows
    chunks,    \* the channel of batched chunks
    cmds,      \* RecordingStreamInner::cmds_tx
    reply,     \* on_done of a sink flush or finalize
    forwarder, \* where the forwarding thread is in its loop
    sinks      \* every sink so far; the last one is current

threadVars  == <<call, todo, made, dropped, swapped, recorded>>
batcherVars == <<batcher, accs, b_out, b_done, skip_next_tick, num_rows>>
vars == <<threadVars, b_cmds, b_reply, batcherVars, chunks, cmds, reply,
          forwarder, sinks>>

\* An item is one row, chunk or message, as recorded by a thread; nr stands for
\* the row id too, which the call creates from a clock that all threads share.
Item == [from : Threads, nr : Nat, kind : {"row", "chunk", "msg"},
         entity : Entities, after : Nat]
Sink == [id : Nat, kind : SinkKinds \cup {"buffered"}, msgs : Seq(Item), flushed : Nat,
         failed : BOOLEAN]

\* The SetStoreInfo that every new sink is sent first is not kept in msgs.
NewSink(id, kind, backlog) ==
    [id |-> id, kind |-> kind, msgs |-> backlog, flushed |-> 0, failed |-> FALSE]

NoCall  == [op |-> "none", nr |-> 0]
Idle(t) == todo[t] = <<>>

Init ==
    /\ call = [t \in Threads |-> NoCall]
    /\ todo = [t \in Threads |-> <<>>]
    /\ made = 0
    /\ dropped = FALSE
    /\ swapped = [t \in Threads |-> 0]
    /\ recorded = {}
    /\ b_cmds = <<>>
    /\ b_reply = [t \in Threads |-> FALSE]
    /\ batcher = "running"
    /\ accs = [e \in Entities |-> <<>>]
    /\ b_out = <<>>
    /\ b_done = {}
    /\ skip_next_tick = FALSE
    /\ chunks = <<>>
    /\ cmds = <<>>
    /\ reply = [t \in Threads |-> "none"]
    /\ forwarder = "drain"
    /\ \E k \in SinkKinds : sinks = <<NewSink(0, k, <<>>)>> /\ num_rows = RowThreshold[k]

-----------------------------------------------------------------------------
(* Calls *)

\* Mutant: no PopPendingChunks behind the batcher's flush.
WithoutPop == <<"b_flush", "b_wait">>

\* batcher.flush_blocking, then PopPendingChunks.
FlushDown == <<"b_flush", "b_wait", "pop">>

\* Mutant: set_sink does not wait for the forwarding thread.
SwapWithoutWait == FlushDown \o <<"b_config", "swap">>

\* set_sink waits for a flush behind the swap; update_config is only sent when
\* the configuration depends on the sink, which is the default.
SwapSteps == FlushDown \o <<"b_config", "swap", "flush", "wait">>

\* Mutant: the flush is left to the batcher's own shutdown.
DropUnflushed == <<"shutdown", "join", "b_shutdown", "b_join">>

\* RecordingStreamInner::drop joins the forwarding thread; its fields, with
\* the batcher among them, are dropped after that.
DropSteps == FlushDown \o <<"shutdown", "join", "b_shutdown", "b_join">>

\* The blocking steps of each call: "b_*" talk to the batcher, the others to
\* the forwarding thread.
Steps(op) ==
    CASE op = "row"      -> <<"b_row">>
      [] op = "chunk"    -> <<"b_chunk">>
      [] op = "msg"      -> <<"msg">>
      [] op = "flush"    -> FlushDown \o <<"flush", "wait">>
      [] op = "set_sink" -> SwapSteps
      [] op = "finalize" -> FlushDown \o <<"finalize", "wait">>
      [] op = "drop"     -> DropSteps

Start(t, c) ==
    /\ Idle(t) /\ ~dropped
    /\ call' = [call EXCEPT ![t] = c]
    /\ todo' = [todo EXCEPT ![t] = Steps(c.op)]
    /\ UNCHANGED <<swapped, b_cmds, b_reply, batcherVars, chunks, cmds, reply,
                   forwarder, sinks>>

\* record_row, send_chunk, record_msg
Record(t) ==
    /\ made < MaxCalls
    /\ made' = made + 1
    /\ \E op \in Calls \cap {"row", "chunk", "msg"}, e \in Entities :
          LET item == [from |-> t, nr |-> made', kind |-> op, entity |-> e,
                       after |-> swapped[t]]
          IN  /\ Start(t, [op |-> op, nr |-> made', item |-> item])
              /\ recorded' = recorded \cup {item}
    /\ UNCHANGED dropped

\* flush_with_timeout, set_sink (with disconnect), finalize_deferred_sinks
Control(t) ==
    /\ made < MaxCalls
    /\ made' = made + 1
    /\ \/ \E op \in Calls \cap {"flush", "finalize"} : Start(t, [op |-> op, nr |-> made'])
       \/ /\ "set_sink" \in Calls
          /\ \E k \in SinkKinds : Start(t, [op |-> "set_sink", nr |-> made', sink |-> k])
    /\ UNCHANGED <<recorded, dropped>>

\* Drop for RecordingStreamInner, with the last handle.
Drop(t) ==
    /\ \A u \in Threads : Idle(u)
    /\ Start(t, [op |-> "drop", nr |-> made])
    /\ dropped' = TRUE
    /\ UNCHANGED <<made, recorded>>

\* The thread has taken the first of its steps; with the last, the call returns.
StepDone(t) ==
    /\ todo' = [todo EXCEPT ![t] = Tail(@)]
    /\ call' = IF Len(todo[t]) = 1 THEN [call EXCEPT ![t] = NoCall] ELSE call
    /\ swapped' = IF call[t].op = "set_sink" /\ Len(todo[t]) = 1
                    THEN [swapped EXCEPT ![t] = call[t].nr] ELSE swapped
    /\ UNCHANGED <<made, dropped, recorded>>

At(t, steps) == ~Idle(t) /\ Head(todo[t]) \in steps

\* A command carries the step, the thread that answers are for, and the call.
Command(t) == [step |-> Head(todo[t]), from |-> t, call |-> call[t]]

\* send_cmd: waits for room.
SendToBatcher(t) ==
    /\ At(t, {"b_row", "b_chunk", "b_flush", "b_config", "b_shutdown"})
    /\ Len(b_cmds) < QueueLen
    /\ b_cmds' = Append(b_cmds, Command(t))
    /\ StepDone(t)
    /\ UNCHANGED <<b_reply, batcherVars, chunks, cmds, reply, forwarder, sinks>>

\* Mutant: the channel holds one more command.
SendPastCapacity(t) ==
    /\ At(t, {"msg", "pop", "flush", "swap", "finalize", "shutdown"})
    /\ Len(cmds) <= QueueLen
    /\ cmds' = Append(cmds, Command(t))
    /\ StepDone(t)
    /\ UNCHANGED <<b_cmds, b_reply, batcherVars, chunks, reply, forwarder, sinks>>

\* cmds_tx.send: waits for room.
SendToForwarder(t) ==
    /\ At(t, {"msg", "pop", "flush", "swap", "finalize", "shutdown"})
    /\ Len(cmds) < QueueLen
    /\ cmds' = Append(cmds, Command(t))
    /\ StepDone(t)
    /\ UNCHANGED <<b_cmds, b_reply, batcherVars, chunks, reply, forwarder, sinks>>

\* on_done of the batcher's flush.
WaitForBatcher(t) ==
    /\ At(t, {"b_wait"}) /\ b_reply[t]
    /\ b_reply' = [b_reply EXCEPT ![t] = FALSE]
    /\ StepDone(t)
    /\ UNCHANGED <<b_cmds, batcherVars, chunks, cmds, reply, forwarder, sinks>>

\* JoinHandle::join of the forwarding thread, and then of the batching thread.
JoinThread(t) ==
    /\ \/ At(t, {"join"}) /\ forwarder = "exited"
       \/ At(t, {"b_join"}) /\ batcher = "exited"
    /\ StepDone(t)
    /\ UNCHANGED <<b_cmds, b_reply, batcherVars, chunks, cmds, reply, forwarder, sinks>>

\* The answer of the sink, which flush returns.
WaitForSink(t) ==
    /\ At(t, {"wait"}) /\ reply[t] # "none"
    /\ reply' = [reply EXCEPT ![t] = "none"]
    /\ StepDone(t)
    /\ UNCHANGED <<b_cmds, b_reply, batcherVars, chunks, cmds, forwarder, sinks>>

\* Only flush has a timeout, and only for this last step; flush_async does not
\* wait for it at all.  The other end of on_done is gone then.
WaitTimeout(t) ==
    /\ At(t, {"wait"}) /\ call[t].op = "flush"
    /\ reply' = [reply EXCEPT ![t] = "none"]
    /\ StepDone(t)
    /\ UNCHANGED <<b_cmds, b_reply, batcherVars, chunks, cmds, forwarder, sinks>>

-----------------------------------------------------------------------------
(* The batching thread *)

\* Back in its select!, not blocked on the output channel.
BatcherReady == batcher = "running" /\ b_out = <<>> /\ b_done = {}
Pending      == {e \in Entities : accs[e] # <<>>}

\* Rows of one chunk have the same set of timelines and the same datatypes.
Shape(row) == <<DOMAIN RowData[row.nr].times, RowData[row.nr].types>>

\* Time columns that are all sorted (PendingTimeColumn::is_sorted).
TimesSorted(rows) ==
    \A i \in 1..Len(rows) - 1 :
        LET times == RowData[rows[i].nr].times
            next  == RowData[rows[i + 1].nr].times
        IN  \A timeline \in DOMAIN times : times[timeline] <= next[timeline]

\* Mutant: the rows keep the order in which they arrived.
ArrivalOrder(rows) == {rows}

\* rows.sort_by_key(row_id)
RowIdOrders(rows) ==
    {q \in SetToSeqs(ToSet(rows)) : \A i, j \in 1..Len(q) : i < j => q[i].nr < q[j].nr}

\* A row goes to the last chunk, unless that one has a timeline out of order
\* already and may not grow any more.
AddRow(out, row) ==
    IF out # <<>> /\ (Len(Last(out)) < MaxUnsorted \/ TimesSorted(Last(out)))
      THEN Append(Front(out), Append(Last(out), row))
      ELSE Append(out, <<row>>)

\* The chunks of the rows of one shape.
ShapeChunks(rows, shape) ==
    FoldLeft(LAMBDA out, row : IF Shape(row) = shape THEN AddRow(out, row) ELSE out,
             <<>>, rows)

Concat(seqs) == FoldLeft(LAMBDA out, more : out \o more, <<>>, seqs)

\* Rows regrouped by shape; the groups come out in the order of an IntMap of hashes.
Regrouped(rows) ==
    {Concat([i \in 1..Len(order) |-> ShapeChunks(rows, order[i])]) :
        order \in SetToSeqs({Shape(row) : row \in ToSet(rows)})}

\* PendingRow::many_into_chunks
ManyIntoChunks(rows) == UNION {Regrouped(sorted) : sorted \in RowIdOrders(rows)}

\* The chunks of each accumulator.
AccChunks ==
    {out \in [Pending -> UNION {ManyIntoChunks(accs[e]) : e \in Pending}] :
        \A e \in Pending : out[e] \in ManyIntoChunks(accs[e])}

\* Mutant: the accumulators keep their rows.
FlushAllKeeps ==
    /\ \E order \in SetToSeqs(Pending), out \in AccChunks :
          b_out' = Concat([i \in 1..Len(order) |-> out[order[i]]])
    /\ UNCHANGED accs

\* do_flush_all of every accumulator, in the order of an IntMap.
FlushAll ==
    /\ \E order \in SetToSeqs(Pending), out \in AccChunks :
          b_out' = Concat([i \in 1..Len(order) |-> out[order[i]]])
    /\ accs' = [e \in Entities |-> <<>>]

NextBatcherCmd(step) ==
    /\ BatcherReady
    /\ b_cmds # <<>> /\ Head(b_cmds).step = step
    /\ b_cmds' = Tail(b_cmds)

\* A row goes to its accumulator; enough rows, or enough bytes, make chunks.
BatcherRow ==
    /\ NextBatcherCmd("b_row")
    /\ LET row  == Head(b_cmds).call.item
           rows == Append(accs[row.entity], row)
       IN  \E enough_bytes \in BOOLEAN :
              IF Len(rows) >= num_rows \/ enough_bytes
                THEN /\ b_out' \in ManyIntoChunks(rows)
                     /\ accs' = [accs EXCEPT ![row.entity] = <<>>]
                     /\ skip_next_tick' = TRUE
                ELSE /\ accs' = [accs EXCEPT ![row.entity] = rows]
                     /\ UNCHANGED <<b_out, skip_next_tick>>
    /\ UNCHANGED <<threadVars, b_reply, batcher, b_done, num_rows, chunks, cmds,
                   reply, forwarder, sinks>>

\* A chunk is passed on, ahead of the rows that are still accumulating.
BatcherChunk ==
    /\ NextBatcherCmd("b_chunk")
    /\ b_out' = << <<Head(b_cmds).call.item>> >>
    /\ UNCHANGED <<threadVars, b_reply, batcher, accs, b_done, skip_next_tick,
                   num_rows, chunks, cmds, reply, forwarder, sinks>>

BatcherFlush ==
    /\ NextBatcherCmd("b_flush")
    /\ FlushAll
    /\ b_done' = {Head(b_cmds).from}
    /\ skip_next_tick' = TRUE
    /\ UNCHANGED <<threadVars, b_reply, batcher, num_rows, chunks, cmds, reply,
                   forwarder, sinks>>

BatcherUpdateConfig ==
    /\ NextBatcherCmd("b_config")
    /\ num_rows' = RowThreshold[Head(b_cmds).call.sink]
    /\ UNCHANGED <<threadVars, b_reply, batcher, accs, b_out, b_done, skip_next_tick,
                   chunks, cmds, reply, forwarder, sinks>>

BatcherShutdown ==
    /\ NextBatcherCmd("b_shutdown")
    /\ FlushAll
    /\ batcher' = "exiting"
    /\ UNCHANGED <<threadVars, b_reply, b_done, skip_next_tick, num_rows, chunks,
                   cmds, reply, forwarder, sinks>>

BatcherTick ==
    /\ BatcherReady
    /\ skip_next_tick' = FALSE
    /\ IF skip_next_tick THEN UNCHANGED <<accs, b_out>> ELSE FlushAll
    /\ UNCHANGED <<threadVars, b_cmds, b_reply, batcher, b_done, num_rows, chunks,
                   cmds, reply, forwarder, sinks>>

\* tx_chunk.send: waits for room.
BatcherSend ==
    /\ b_out # <<>>
    /\ Len(chunks) < QueueLen
    /\ chunks' = Append(chunks, Head(b_out))
    /\ b_out' = Tail(b_out)
    /\ UNCHANGED <<threadVars, b_cmds, b_reply, batcher, accs, b_done,
                   skip_next_tick, num_rows, cmds, reply, forwarder, sinks>>

\* on_done, once all chunks are in the output channel.
BatcherReply ==
    /\ b_out = <<>> /\ b_done # {}
    /\ b_reply' = [t \in Threads |-> b_reply[t] \/ t \in b_done]
    /\ b_done' = {}
    /\ UNCHANGED <<threadVars, b_cmds, batcher, accs, b_out, skip_next_tick,
                   num_rows, chunks, cmds, reply, forwarder, sinks>>

BatcherExit ==
    /\ batcher = "exiting" /\ b_out = <<>>
    /\ batcher' = "exited"
    /\ UNCHANGED <<threadVars, b_cmds, b_reply, accs, b_out, b_done, skip_next_tick,
                   num_rows, chunks, cmds, reply, forwarder, sinks>>

-----------------------------------------------------------------------------
(* The forwarding thread *)

Current == sinks[Len(sinks)]

Delivered(items) == [sinks EXCEPT ![Len(sinks)].msgs = @ \o items]

\* while let Ok(chunk) = chunks.try_recv(), or the chunk arm of the select!.
ForwardChunk ==
    /\ forwarder \in {"drain", "select"}
    /\ chunks # <<>>
    /\ sinks' = Delivered(Head(chunks))
    /\ chunks' = Tail(chunks)
    /\ forwarder' = "drain"
    /\ UNCHANGED <<threadVars, b_cmds, b_reply, batcherVars, cmds, reply>>

\* try_recv finds nothing: on to the select!.
ForwardDrained ==
    /\ forwarder = "drain"
    /\ chunks = <<>>
    /\ forwarder' = "select"
    /\ UNCHANGED <<threadVars, b_cmds, b_reply, batcherVars, chunks, cmds, reply, sinks>>

\* A sink after flush_blocking, which may fail unless the sink is in memory.
Flushed(sink, ok) == IF ok THEN [sink EXCEPT !.flushed = Len(sink.msgs)]
                           ELSE [sink EXCEPT !.failed = TRUE]
MayReturn(sink, ok) == ok \/ sink.kind # "buffered"

\* drain_backlog, flush_blocking, then the new sink with the backlog.
SwapTo(id, kind, ok) ==
    LET drains  == Current.kind = "buffered"
        backlog == IF drains THEN Current.msgs ELSE <<>>
        old     == IF drains THEN [Current EXCEPT !.msgs = <<>>] ELSE Current
    IN  Append([sinks EXCEPT ![Len(sinks)] = Flushed(old, ok)],
               NewSink(id, kind, backlog))

NextCmd(step) ==
    /\ forwarder = "select"
    /\ cmds # <<>> /\ Head(cmds).step = step
    /\ cmds' = Tail(cmds)
    /\ forwarder' = "drain"
    /\ UNCHANGED <<threadVars, b_cmds, b_reply, batcherVars, chunks>>

ForwardMsg ==
    /\ NextCmd("msg")
    /\ sinks' = Delivered(<<Head(cmds).call.item>>)
    /\ UNCHANGED reply

ForwardSwapSink ==
    /\ NextCmd("swap")
    /\ \E ok \in BOOLEAN :
          /\ MayReturn(Current, ok)
          /\ sinks' = SwapTo(Head(cmds).call.nr, Head(cmds).call.sink, ok)
    /\ UNCHANGED reply

\* A caller that has timed out has dropped the other end of on_done.
Waits(cmd) == At(cmd.from, {"wait"}) /\ call[cmd.from].nr = cmd.call.nr

ForwardFlush ==
    /\ NextCmd("flush")
    /\ \E ok \in BOOLEAN :
          /\ MayReturn(Current, ok)
          /\ sinks' = [sinks EXCEPT ![Len(sinks)] = Flushed(@, ok)]
          /\ reply' = IF Waits(Head(cmds))
                        THEN [reply EXCEPT ![Head(cmds).from] = IF ok THEN "ok" ELSE "err"]
                        ELSE reply

\* Mutant: only a sink that is finalized answers.
FinalizeRepliesIfDeferred ==
    /\ NextCmd("finalize")
    /\ IF Current.kind = "file"
         THEN /\ \E ok \in BOOLEAN : sinks' = SwapTo(Head(cmds).call.nr, "buffered", ok)
              /\ reply' = [reply EXCEPT ![Head(cmds).from] = "ok"]
         ELSE UNCHANGED <<sinks, reply>>

\* Only a sink that defers its finalization is replaced, by a BufferedSink.
ForwardFinalize ==
    /\ NextCmd("finalize")
    /\ IF Current.kind = "file"
         THEN \E ok \in BOOLEAN : sinks' = SwapTo(Head(cmds).call.nr, "buffered", ok)
         ELSE UNCHANGED sinks
    /\ reply' = [reply EXCEPT ![Head(cmds).from] = "ok"]

ForwardPopPending == NextCmd("pop") /\ UNCHANGED <<reply, sinks>>

ForwardShutdown ==
    /\ forwarder = "select"
    /\ cmds # <<>> /\ Head(cmds).step = "shutdown"
    /\ cmds' = Tail(cmds)
    /\ forwarder' = "exited"
    /\ UNCHANGED <<threadVars, b_cmds, b_reply, batcherVars, chunks, reply, sinks>>

-----------------------------------------------------------------------------

ThreadStep(t) ==
    \/ SendToBatcher(t) \/ SendToForwarder(t) \/ WaitForBatcher(t) \/ JoinThread(t)
    \/ WaitForSink(t)

BatcherStep ==
    \/ BatcherRow \/ BatcherChunk \/ BatcherFlush \/ BatcherUpdateConfig
    \/ BatcherShutdown \/ BatcherSend \/ BatcherReply \/ BatcherExit

ForwarderStep ==
    \/ ForwardChunk \/ ForwardDrained \/ ForwardMsg \/ ForwardSwapSink
    \/ ForwardFlush \/ ForwardFinalize \/ ForwardPopPending \/ ForwardShutdown

Next ==
    \/ \E t \in Threads : Record(t) \/ Control(t) \/ Drop(t) \/ ThreadStep(t) \/ WaitTimeout(t)
    \/ BatcherStep \/ BatcherTick
    \/ ForwarderStep

Spec == Init /\ [][Next]_vars

\* The SDK's threads run and places in the channels are handed out fairly
\* (FairMutex); no progress may rest on the batcher's tick.
ThreadFairness ==
    /\ \A t \in Threads : SF_vars(ThreadStep(t))
    /\ WF_vars(BatcherStep)

\* With a sink whose send and flush return.
FairSpec == Spec /\ ThreadFairness /\ WF_vars(ForwarderStep)

-----------------------------------------------------------------------------
(* Properties *)

Step == {"b_row", "b_chunk", "b_flush", "b_wait", "b_config", "b_shutdown", "b_join",
         "msg", "pop", "flush", "swap", "finalize", "wait", "shutdown", "join"}

\* The variables keep their types and each of the three channels its capacity.
TypeOK ==
    /\ todo \in [Threads -> Seq(Step)]
    /\ made \in 0..MaxCalls /\ dropped \in BOOLEAN
    /\ swapped \in [Threads -> 0..MaxCalls]
    /\ recorded \subseteq Item
    /\ Len(b_cmds) <= QueueLen /\ Len(chunks) <= QueueLen /\ Len(cmds) <= QueueLen
    /\ b_reply \in [Threads -> BOOLEAN] /\ reply \in [Threads -> {"none", "ok", "err"}]
    /\ batcher \in {"running", "exiting", "exited"}
    /\ accs \in [Entities -> Seq(Item)]
    /\ b_done \subseteq Threads
    /\ skip_next_tick \in BOOLEAN /\ num_rows \in Nat
    /\ forwarder \in {"drain", "select", "exited"}
    /\ sinks \in Seq(Sink)

\* The items that have left their thread, wherever they are.
CarriedBy(queue) ==
    LET own == SelectSeq(queue, LAMBDA c : c.step \in {"b_row", "b_chunk", "msg"})
    IN  [i \in 1..Len(own) |-> own[i].call.item]
InSinks == FlattenSeq([i \in 1..Len(sinks) |-> sinks[i].msgs])
InPipeline ==
    CarriedBy(b_cmds) \o CarriedBy(cmds) \o FlattenSeq(b_out) \o FlattenSeq(chunks)
        \o FlattenSeq([i \in 1..Cardinality(Entities) |-> accs[SetToSeq(Entities)[i]]])
AtThread == {call[t].item : t \in {u \in Threads : At(u, {"b_row", "b_chunk", "msg"})}}

\* Every recorded row, chunk and message is in exactly one place, from the
\* call that recorded it to a sink: none is lost and none doubled, whatever
\* ticks, flushes, swaps and finalizations cut across it.
Conservation ==
    LET places == InPipeline \o InSinks IN
    /\ IsInjective(places)
    /\ ToSet(places) \cup AtThread = recorded
    /\ ToSet(places) \cap AtThread = {}

\* Dropping the stream loses nothing: by the time the forwarding thread exits,
\* everything that was recorded is in a sink.
ShutdownDrains ==
    forwarder = "exited" => UNION {ToSet(sinks[k].msgs) : k \in 1..Len(sinks)} = recorded

\* Batching keeps the order it promises ("sort all the rows by row ID -- that's
\* our global order and it holds true no matter what", batcher.rs:888): the rows
\* of a chunk have one entity and one shape and ascending ids, as the code tells
\* from_native_row_ids (is_sorted = Some(true)), although other threads' rows may
\* arrive late; and the rows of one thread, entity and shape reach the sinks in
\* the order in which it recorded them, across accumulators, chunks and swaps.
\* Rows of different shapes are regrouped and may overtake each other.
RowOrder ==
    /\ \A chunk \in ToSet(b_out) \cup ToSet(chunks) : \A i, j \in 1..Len(chunk) :
          i < j => /\ chunk[i].nr < chunk[j].nr
                   /\ chunk[i].entity = chunk[j].entity
                   /\ Shape(chunk[i]) = Shape(chunk[j])
    /\ \A i, j \in 1..Len(InSinks) :
          LET a == InSinks[i]
              b == InSinks[j]
          IN  i < j /\ a.kind = "row" /\ b.kind = "row" /\ a.from = b.from
                /\ a.entity = b.entity /\ Shape(a) = Shape(b) => a.nr < b.nr

\* "When this function returns, the calling thread is guaranteed that all
\* future record calls will end up in the new sink." (recording_stream.rs:1928)
SwapGuarantee ==
    \A k \in 1..Len(sinks) : \A i \in 1..Len(sinks[k].msgs) :
        LET item == sinks[k].msgs[i]
        IN  item.after # 0 => \E j \in 1..k : sinks[j].id = item.after

\* A sink has flushed the item, or keeps it in memory; or its flush failed
\* when it was swapped out, which is only logged.
Secured(item) ==
    \E k \in 1..Len(sinks) :
        LET s == sinks[k] IN
        \/ item \in ToSet(SubSeq(s.msgs, 1, s.flushed))
        \/ item \in ToSet(s.msgs) /\ s.kind = "buffered"
        \/ item \in ToSet(s.msgs) /\ s.failed /\ k < Len(sinks)

\* "flushing the pipeline guarantees that all previous data sent by the
\* calling thread has been recorded and (if applicable) flushed"
\* (recording_stream.rs:767): when the forwarding thread answers a flush with
\* Ok, all that its caller recorded before is secured.
FlushGuarantee ==
    [][ \A t \in Threads :
          call[t].op = "flush" /\ reply[t] = "none" /\ reply'[t] = "ok" =>
              \A item \in recorded :
                  item.from = t /\ item.nr < call[t].nr => Secured(item)' ]_vars

\* Every call returns, the drop of the stream with its two joins included, as
\* long as the sink makes progress.
CallsReturn == \A t \in Threads : ~Idle(t) ~> Idle(t)

=============================================================================
