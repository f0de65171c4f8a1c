------------------------ MODULE RecordingStreamProofs -----------------------
(***************************************************************************)
(* Proofs about the logging pipeline, for any number of threads, entities  *)
(* and calls, any thresholds of the batcher and any capacity of the        *)
(* channels: what a flush, a swap of the sink and the drop of the stream   *)
(* guarantee.                                                              *)
(***************************************************************************)
EXTENDS RecordingStream, DataFacts

-----------------------------------------------------------------------------
(* The invariant *)

\* A call, and a command that a call sends.
Call ==
    {NoCall}
    \cup [op : {"row", "chunk", "msg"}, nr : Nat, item : Item]
    \cup [op : {"flush", "finalize", "drop"}, nr : Nat]
    \cup [op : {"set_sink"}, nr : Nat, sink : SinkKinds]

\* The calls that send a command.
SenderOf(step) ==
    CASE step = "b_row" -> {"row"}
      [] step = "b_chunk" -> {"chunk"}
      [] step = "msg" -> {"msg"}
      [] step \in {"b_config", "swap"} -> {"set_sink"}
      [] step = "flush" -> {"flush", "set_sink"}
      [] step = "finalize" -> {"finalize"}
      [] step \in {"shutdown", "join", "b_shutdown", "b_join"} -> {"drop"}
      [] step = "wait" -> {"flush", "set_sink", "finalize"}
      [] step \in {"b_flush", "b_wait", "pop"} -> {"flush", "set_sink", "finalize", "drop"}
Cmd == {c \in [step : Step, from : Threads, call : Call] : c.call.op \in SenderOf(c.step)}

\* The steps that a call has left, and the step after one.
Left(op) ==
    CASE op = "row"      -> {<<"b_row">>}
      [] op = "chunk"    -> {<<"b_chunk">>}
      [] op = "msg"      -> {<<"msg">>}
      [] op = "flush"    -> {<<"b_flush", "b_wait", "pop", "flush", "wait">>,
                             <<"b_wait", "pop", "flush", "wait">>,
                             <<"pop", "flush", "wait">>, <<"flush", "wait">>, <<"wait">>}
      [] op = "set_sink" -> {<<"b_flush", "b_wait", "pop", "b_config", "swap", "flush", "wait">>,
                             <<"b_wait", "pop", "b_config", "swap", "flush", "wait">>,
                             <<"pop", "b_config", "swap", "flush", "wait">>,
                             <<"b_config", "swap", "flush", "wait">>,
                             <<"swap", "flush", "wait">>, <<"flush", "wait">>, <<"wait">>}
      [] op = "finalize" -> {<<"b_flush", "b_wait", "pop", "finalize", "wait">>,
                             <<"b_wait", "pop", "finalize", "wait">>,
                             <<"pop", "finalize", "wait">>, <<"finalize", "wait">>, <<"wait">>}
      [] op = "drop"     -> {<<"b_flush", "b_wait", "pop", "shutdown", "join", "b_shutdown", "b_join">>,
                             <<"b_wait", "pop", "shutdown", "join", "b_shutdown", "b_join">>,
                             <<"pop", "shutdown", "join", "b_shutdown", "b_join">>,
                             <<"shutdown", "join", "b_shutdown", "b_join">>,
                             <<"join", "b_shutdown", "b_join">>,
                             <<"b_shutdown", "b_join">>, <<"b_join">>}

NextOf(op, step) ==
    CASE step = "b_flush" -> "b_wait"
      [] step = "b_wait" -> "pop"
      [] step = "pop" /\ op = "flush" -> "flush"
      [] step = "pop" /\ op = "set_sink" -> "b_config"
      [] step = "pop" /\ op = "finalize" -> "finalize"
      [] step = "pop" /\ op = "drop" -> "shutdown"
      [] step = "b_config" -> "swap"
      [] step = "swap" -> "flush"
      [] step \in {"flush", "finalize"} -> "wait"
      [] step = "shutdown" -> "join"
      [] step = "join" -> "b_shutdown"
      [] step = "b_shutdown" -> "b_join"
      [] step \in {"b_row", "b_chunk", "msg", "wait", "b_join"} -> "idle"

\* Where a thread is.
Pc(t) == IF todo[t] = <<>> THEN "idle" ELSE Head(todo[t])

\* The items in a queue of commands up to place n, in accumulators, in a
\* queue of chunks and in sinks.
Carried(c)   == IF c.step \in {"b_row", "b_chunk", "msg"} THEN {c.call.item} ELSE {}
OfCmds(q, n) == UNION {Carried(q[i]) : i \in 1..n}
OfAccs(a)    == UNION {ToSet(a[e]) : e \in Entities}
OfChunks(q)  == UNION {ToSet(q[i]) : i \in 1..Len(q)}
OfSinks(s)   == UNION {ToSet(s[k].msgs) : k \in 1..Len(s)}

TypeInv ==
    /\ call \in [Threads -> Call]
    /\ made \in 0..MaxCalls /\ dropped \in BOOLEAN
    /\ swapped \in [Threads -> 0..MaxCalls]
    /\ recorded \subseteq Item
    /\ b_cmds \in Seq(Cmd) /\ cmds \in Seq(Cmd)
    /\ Len(b_cmds) <= QueueLen /\ Len(chunks) <= QueueLen /\ Len(cmds) <= QueueLen
    /\ b_reply \in [Threads -> BOOLEAN] /\ reply \in [Threads -> {"none", "ok", "err"}]
    /\ batcher \in {"running", "exiting", "exited"}
    /\ accs \in [Entities -> Seq(Item)] /\ IsFiniteSet(Pending)
    /\ b_out \in Seq(Seq(Item)) /\ chunks \in Seq(Seq(Item))
    /\ b_done \subseteq Threads
    /\ skip_next_tick \in BOOLEAN /\ num_rows \in Nat
    /\ forwarder \in {"drain", "select", "exited"}
    /\ sinks \in Seq(Sink) /\ sinks # <<>>

\* A thread is somewhere in its call.
StageInv ==
    /\ todo \in [Threads -> Seq(Step)]
    /\ \A t \in Threads :
        \/ todo[t] = <<>> /\ call[t] = NoCall
        \/ todo[t] \in Left(call[t].op) /\ call[t] # NoCall

\* Calls are numbered in the order they are made; the last one is the drop.
CallInv ==
    /\ \A t \in Threads :
          /\ call[t].nr <= made
          /\ call[t].op = "drop" => dropped
          /\ dropped => call[t] = NoCall \/ call[t].op = "drop"
          /\ call[t].op \in {"row", "chunk", "msg"} => call[t].item.from = t
          /\ Pc(t) \in {"b_shutdown", "b_join"} => forwarder = "exited"
    /\ \A i \in 1..Len(cmds) :
          LET t == cmds[i].from IN
          /\ cmds[i].call.nr <= made
          /\ cmds[i].call.op = "drop" => dropped
          /\ \/ cmds[i].call = call[t] \/ call[t] = NoCall \/ call[t].op = "drop"
             \/ cmds[i].call.nr < call[t].nr

\* Every recorded item is on its way, or in a sink.
RecordedInv ==
    recorded = AtThread \cup OfCmds(b_cmds, Len(b_cmds)) \cup OfAccs(accs) \cup OfChunks(b_out)
               \cup OfChunks(chunks) \cup OfCmds(cmds, Len(cmds)) \cup OfSinks(sinks)

\* What a call has to push ahead of itself.
Owed(t) == {x \in recorded : call[t].op = "drop" \/ (x.from = t /\ x.nr < call[t].nr)}

\* Behind the batcher.
Down == OfChunks(chunks) \cup OfCmds(cmds, Len(cmds)) \cup OfSinks(sinks)

IsFlush(i, t) == b_cmds[i].step = "b_flush" /\ b_cmds[i].from = t

\* The batcher answers the flush of a thread once, and has then sent on all
\* that is owed to it.
BatcherInv ==
    \A t \in Threads :
        /\ \A i, j \in 1..Len(b_cmds) : IsFlush(i, t) /\ IsFlush(j, t) => i = j
        /\ b_reply[t] \/ t \in b_done => \A i \in 1..Len(b_cmds) : ~IsFlush(i, t)
        /\ b_reply[t] => t \notin b_done
        /\ b_reply[t] \/ t \in b_done \/ (\E i \in 1..Len(b_cmds) : IsFlush(i, t)) =>
              Pc(t) = "b_wait"
        /\ \A i \in 1..Len(b_cmds) : IsFlush(i, t) =>
              Owed(t) \subseteq Down \cup OfChunks(b_out) \cup OfAccs(accs) \cup OfCmds(b_cmds, i - 1)
        /\ t \in b_done => Owed(t) \subseteq Down \cup OfChunks(b_out)
        /\ b_reply[t] => Owed(t) \subseteq Down
        /\ Pc(t) = "pop" => Owed(t) \subseteq Down

\* The items of set x are in the sinks once the first n commands are done.
Through(x, n, q, ch, fw, si) ==
    \/ x \subseteq OfSinks(si)
    \/ fw = "drain" /\ x \subseteq OfSinks(si) \cup OfChunks(ch)
    \/ \E i \in 1..n : /\ q[i].step = "pop"
                       /\ x \subseteq OfSinks(si) \cup OfChunks(ch) \cup OfCmds(q, i - 1)
Passes(x, n) == Through(x, n, cmds, chunks, forwarder, sinks)

AfterPop == {"b_config", "swap", "flush", "finalize", "wait", "shutdown", "join",
             "b_shutdown", "b_join"}

\* What is owed to a call is in the sinks by the time its later commands are
\* handled.
ForwardInv ==
    /\ \A t \in Threads : Pc(t) \in AfterPop => Passes(Owed(t), Len(cmds))
    /\ \A i \in 1..Len(cmds) :
          cmds[i].step \in {"flush", "shutdown"} /\ cmds[i].call = call[cmds[i].from] =>
              Passes(Owed(cmds[i].from), i - 1)

\* The forwarding thread exits for a drop, with everything in the sinks.
ExitInv ==
    /\ \A i \in 1..Len(cmds) : cmds[i].step = "shutdown" /\ forwarder # "exited" =>
          cmds[i].call = call[cmds[i].from]
    /\ forwarder = "exited" => dropped /\ recorded \subseteq OfSinks(sinks)

\* There is a sink that a call made.
Present(id, s) == \E k \in 1..Len(s) : s[k].id = id
Swaps(nr, q, n) == \E i \in 1..n : q[i].step = "swap" /\ q[i].call.nr = nr

\* SwapGuarantee, for the items of a sink rather than their places in it.
Guarded(s) ==
    \A k \in 1..Len(s) : \A x \in ToSet(s[k].msgs) :
        x.after # 0 => \E j \in 1..k : s[j].id = x.after

\* The answer that set_sink waits for comes after the swap.
SwapInv ==
    /\ \A t \in Threads :
          /\ swapped[t] # 0 => Present(swapped[t], sinks)
          /\ call[t].op = "set_sink" /\ Pc(t) \in {"flush", "wait"} =>
                Present(call[t].nr, sinks) \/ Swaps(call[t].nr, cmds, Len(cmds))
          /\ reply[t] # "none" =>
                Pc(t) = "wait" /\ (call[t].op = "set_sink" => Present(call[t].nr, sinks))
    /\ \A i \in 1..Len(cmds) :
          /\ cmds[i].step = "flush" /\ cmds[i].call.op = "set_sink" =>
                Present(cmds[i].call.nr, sinks) \/ Swaps(cmds[i].call.nr, cmds, i - 1)
          /\ cmds[i].step = "finalize" =>
                LET t == cmds[i].from
                IN  cmds[i].call = call[t] /\ Pc(t) = "wait" /\ reply[t] = "none"
    /\ \A i, j \in 1..Len(cmds) :
          cmds[i].step = "finalize" /\ cmds[j].step = "finalize" /\ cmds[i].from = cmds[j].from =>
              i = j
    /\ \A x \in recorded : x.after # 0 => Present(x.after, sinks)
    /\ Guarded(sinks)

\* A sink that was swapped out has flushed all it got, or failed to.
Settled(s) ==
    \A k \in 1..(Len(s) - 1) : s[k].failed \/ s[k].flushed = Len(s[k].msgs)
SinksInv == Settled(sinks)

IInv == /\ TypeInv /\ StageInv /\ CallInv /\ RecordedInv /\ BatcherInv /\ ForwardInv
        /\ ExitInv /\ SwapInv /\ SinksInv

-----------------------------------------------------------------------------
(* The items in the queues and in the sinks *)

\* A command joins a queue, or leaves it.
LEMMA CmdsAppend ==
    ASSUME NEW q \in Seq(Cmd), NEW c \in Cmd
    PROVE  LET u == Append(q, c) IN
           /\ Len(q) \in Nat /\ u \in Seq(Cmd) /\ Len(u) = Len(q) + 1 /\ u[Len(q) + 1] = c
           /\ \A i \in 1..Len(q) : u[i] = q[i]
           /\ OfCmds(u, Len(u)) = OfCmds(q, Len(q)) \cup Carried(c)
           /\ \A n \in 0..Len(q) : OfCmds(u, n) = OfCmds(q, n)
<1>u. PICK u : u = Append(q, c)
  OBVIOUS
<1>1. /\ Len(q) \in Nat /\ u \in Seq(Cmd) /\ Len(u) = Len(q) + 1 /\ u[Len(q) + 1] = c
      /\ \A i \in 1..Len(q) : u[i] = q[i]
  BY <1>u, AppendProperties, LenProperties
<1>2. \A n \in 0..Len(q) : \A i \in 1..n : i \in 1..Len(q)
  BY <1>1
<1>3. \A n \in 0..Len(q) : OfCmds(u, n) = OfCmds(q, n)
  BY <1>1, <1>2 DEF OfCmds
<1>4. 1..(Len(q) + 1) = 1..Len(q) \cup {Len(q) + 1}
  BY <1>1
<1>5. OfCmds(u, Len(u)) = OfCmds(q, Len(q)) \cup Carried(c)
  BY <1>1, <1>4 DEF OfCmds
<1> QED BY <1>u, <1>1, <1>3, <1>5

\* What a queue loses when its first command leaves.
LEMMA CmdsTail ==
    ASSUME NEW q \in Seq(Cmd), q # <<>>
    PROVE  LET u == Tail(q) IN
           /\ Len(q) \in Nat \ {0} /\ u \in Seq(Cmd) /\ Len(u) = Len(q) - 1
           /\ Head(q) = q[1] /\ Head(q) \in Cmd
           /\ \A i \in 1..Len(u) : u[i] = q[i + 1] /\ i + 1 \in 1..Len(q)
           /\ \A n \in 1..Len(q) : OfCmds(q, n) = Carried(Head(q)) \cup OfCmds(u, n - 1)
<1>u. PICK u : u = Tail(q)
  OBVIOUS
<1>1. /\ Len(q) \in Nat \ {0} /\ u \in Seq(Cmd) /\ Len(u) = Len(q) - 1
      /\ Head(q) = q[1] /\ Head(q) \in Cmd
      /\ \A i \in 1..(Len(q) - 1) : u[i] = q[i + 1]
  BY <1>u, TailFacts
<1>2. \A i \in 1..Len(u) : u[i] = q[i + 1] /\ i + 1 \in 1..Len(q)
  BY <1>1
<1>3. ASSUME NEW n \in 1..Len(q)
      PROVE  OfCmds(q, n) = Carried(Head(q)) \cup OfCmds(u, n - 1)
  <2>1. \A i \in 1..(n - 1) : u[i] = q[i + 1] /\ i + 1 \in 1..n
    BY <1>1, <1>2
  <2>2. \A i \in 1..n : i = 1 \/ (i - 1 \in 1..(n - 1) /\ (i - 1) + 1 = i)
    BY <1>1
  <2>3. 1 \in 1..n
    BY <1>1
  <2>4. OfCmds(q, n) \subseteq Carried(q[1]) \cup OfCmds(u, n - 1)
    <3> SUFFICES ASSUME NEW x, NEW i \in 1..n, x \in Carried(q[i])
                 PROVE  x \in Carried(q[1]) \cup OfCmds(u, n - 1)
      BY DEF OfCmds
    <3>1. CASE i = 1
      BY <3>1
    <3>2. CASE i - 1 \in 1..(n - 1) /\ (i - 1) + 1 = i
      <4>1. u[i - 1] = q[i]
        BY <3>2, <2>1
      <4> QED BY <3>2, <4>1 DEF OfCmds
    <3> QED BY <3>1, <3>2, <2>2
  <2>5. Carried(q[1]) \cup OfCmds(u, n - 1) \subseteq OfCmds(q, n)
    BY <2>1, <2>3 DEF OfCmds
  <2> QED BY <1>1, <2>4, <2>5
<1> QED BY <1>u, <1>1, <1>2, <1>3

\* The first n commands are among the first k, and none carry nothing.
LEMMA CmdsMonotone ==
    ASSUME NEW q, NEW n \in Nat, NEW k \in Nat, n <= k
    PROVE  OfCmds(q, n) \subseteq OfCmds(q, k) /\ OfCmds(q, 0) = {}
<1>1. \A i \in 1..n : i \in 1..k
  OBVIOUS
<1>2. 1..0 = {}
  OBVIOUS
<1> QED BY <1>1, <1>2 DEF OfCmds

\* A chunk joins a queue, or leaves it.
LEMMA ChunksAppend ==
    ASSUME NEW q \in Seq(Seq(Item)), NEW c \in Seq(Item)
    PROVE  /\ Append(q, c) \in Seq(Seq(Item)) /\ Len(q) \in Nat
           /\ Len(Append(q, c)) = Len(q) + 1
           /\ OfChunks(Append(q, c)) = OfChunks(q) \cup ToSet(c)
<1>u. PICK u : u = Append(q, c)
  OBVIOUS
<1>1. /\ Len(q) \in Nat /\ u \in Seq(Seq(Item)) /\ Len(u) = Len(q) + 1 /\ u[Len(q) + 1] = c
      /\ \A i \in 1..Len(q) : u[i] = q[i]
  BY <1>u, AppendProperties, LenProperties
<1>2. 1..(Len(q) + 1) = 1..Len(q) \cup {Len(q) + 1}
  BY <1>1
<1>3. OfChunks(u) = OfChunks(q) \cup ToSet(c)
  BY <1>1, <1>2 DEF OfChunks
<1> QED BY <1>u, <1>1, <1>3

\* What a queue of chunks loses when its first chunk leaves.
LEMMA ChunksTail ==
    ASSUME NEW q \in Seq(Seq(Item)), q # <<>>
    PROVE  /\ Tail(q) \in Seq(Seq(Item)) /\ Head(q) \in Seq(Item)
           /\ Len(q) \in Nat /\ Len(Tail(q)) = Len(q) - 1
           /\ OfChunks(q) = ToSet(Head(q)) \cup OfChunks(Tail(q))
<1>u. PICK u : u = Tail(q)
  OBVIOUS
<1>1. /\ Len(q) \in Nat \ {0} /\ u \in Seq(Seq(Item)) /\ Len(u) = Len(q) - 1
      /\ Head(q) = q[1] /\ Head(q) \in Seq(Item)
      /\ \A i \in 1..(Len(q) - 1) : u[i] = q[i + 1]
  BY <1>u, TailFacts
<1>2. \A i \in 1..Len(u) : u[i] = q[i + 1] /\ i + 1 \in 1..Len(q)
  BY <1>1
<1>3. \A i \in 1..Len(q) : i = 1 \/ (i - 1 \in 1..Len(u) /\ (i - 1) + 1 = i)
  BY <1>1
<1>4. 1 \in 1..Len(q)
  BY <1>1
<1>5. OfChunks(q) \subseteq ToSet(q[1]) \cup OfChunks(u)
  <2> SUFFICES ASSUME NEW x, NEW i \in 1..Len(q), x \in ToSet(q[i])
               PROVE  x \in ToSet(q[1]) \cup OfChunks(u)
    BY DEF OfChunks
  <2>1. CASE i = 1
    BY <2>1
  <2>2. CASE i - 1 \in 1..Len(u) /\ (i - 1) + 1 = i
    <3>1. u[i - 1] = q[i]
      BY <2>2, <1>2
    <3> QED BY <2>2, <3>1 DEF OfChunks
  <2> QED BY <2>1, <2>2, <1>3
<1>6. ToSet(q[1]) \cup OfChunks(u) \subseteq OfChunks(q)
  BY <1>2, <1>4 DEF OfChunks
<1> QED BY <1>u, <1>1, <1>5, <1>6

\* No chunk, and one chunk.
LEMMA ChunksFew ==
    /\ <<>> \in Seq(Seq(Item)) /\ OfChunks(<<>>) = {}
    /\ \A c \in Seq(Item) : <<c>> \in Seq(Seq(Item)) /\ OfChunks(<<c>>) = ToSet(c)
<1>1. <<>> \in Seq(Seq(Item)) /\ OfChunks(<<>>) = {}
  BY EmptySeq DEF OfChunks
<1>2. ASSUME NEW c \in Seq(Item)
      PROVE  <<c>> \in Seq(Seq(Item)) /\ OfChunks(<<c>>) = ToSet(c)
  <2>1. Append(<<>>, c) = <<c>>
    OBVIOUS
  <2>2. Append(<<>>, c) \in Seq(Seq(Item)) /\ OfChunks(Append(<<>>, c)) = OfChunks(<<>>) \cup ToSet(c)
    BY <1>1, ChunksAppend
  <2> QED BY <1>1, <2>1, <2>2
<1> QED BY <1>1, <1>2

\* Only the last of the sinks changes.
LastBecomes(s, u, v) ==
    /\ u \in Seq(Sink) /\ u # <<>> /\ Len(u) = Len(s) /\ u[Len(s)] = v
    /\ \A k \in 1..Len(s) : k # Len(s) => u[k] = s[k]

\* Sinks that have got the items of set x, and that no sink was lost from.
Grown(s, u, x) ==
    /\ u \in Seq(Sink) /\ u # <<>>
    /\ OfSinks(u) = OfSinks(s) \cup x
    /\ \A id : Present(id, s) => Present(id, u)
    /\ Guarded(s) => Guarded(u)
    /\ Settled(s) => Settled(u)

\* Items are delivered to the last sink.
LEMMA SinksDeliver ==
    ASSUME NEW s \in Seq(Sink), s # <<>>, NEW items \in Seq(Item), NEW v \in Sink, NEW u,
           LastBecomes(s, u, v), v.id = s[Len(s)].id, v.msgs = s[Len(s)].msgs \o items,
           \A x \in ToSet(items) : x.after # 0 => Present(x.after, s)
    PROVE  Grown(s, u, ToSet(items))
<1>n. PICK n : n = Len(s)
  OBVIOUS
<1>1. /\ n \in Nat \ {0} /\ n \in 1..n /\ s[n] \in Sink
      /\ u \in Seq(Sink) /\ u # <<>> /\ Len(u) = n /\ u[n] = v
      /\ \A k \in 1..n : k # n => u[k] = s[k]
  <2>1. n \in Nat \ {0}
    BY <1>n, LenProperties, EmptySeq
  <2>2. n \in 1..n
    BY <2>1
  <2>3. s[n] \in Sink
    BY <1>n, <2>2, ElementOfSeq
  <2> QED BY <1>n, <2>1, <2>2, <2>3 DEF LastBecomes
<1>2. s[n].msgs \in Seq(Item)
  BY <1>1 DEF Sink
<1>3. ToSet(v.msgs) = ToSet(s[n].msgs) \cup ToSet(items)
  BY <1>n, <1>2, ConcatFacts
<1>4. \A k \in 1..n : u[k].id = s[k].id
  BY <1>n, <1>1
<1>5. \A id : Present(id, s) => Present(id, u)
  BY <1>n, <1>1, <1>4 DEF Present
<1>6. OfSinks(u) = OfSinks(s) \cup ToSet(items)
  <2>1. OfSinks(u) \subseteq OfSinks(s) \cup ToSet(items)
    <3> SUFFICES ASSUME NEW k \in 1..n, NEW x \in ToSet(u[k].msgs)
                 PROVE  x \in OfSinks(s) \cup ToSet(items)
      BY <1>1 DEF OfSinks
    <3>1. CASE k = n
      BY <3>1, <1>n, <1>1, <1>3 DEF OfSinks
    <3>2. CASE k # n
      BY <3>2, <1>n, <1>1 DEF OfSinks
    <3> QED BY <3>1, <3>2
  <2>2. OfSinks(s) \subseteq OfSinks(u)
    <3> SUFFICES ASSUME NEW k \in 1..n, NEW x \in ToSet(s[k].msgs) PROVE x \in ToSet(u[k].msgs)
      BY <1>n, <1>1 DEF OfSinks
    <3>1. CASE k = n
      BY <3>1, <1>1, <1>3
    <3>2. CASE k # n
      BY <3>2, <1>1
    <3> QED BY <3>1, <3>2
  <2>3. ToSet(items) \subseteq OfSinks(u)
    BY <1>1, <1>3 DEF OfSinks
  <2> QED BY <2>1, <2>2, <2>3
<1>7. ASSUME Guarded(s) PROVE Guarded(u)
  <2> SUFFICES ASSUME NEW k \in 1..n, NEW x \in ToSet(u[k].msgs), x.after # 0
               PROVE  \E j \in 1..k : u[j].id = x.after
    BY <1>1 DEF Guarded
  <2>1. \A j \in 1..k : j \in 1..n
    BY <1>1
  <2>2. CASE x \in ToSet(s[k].msgs)
    <3>1. PICK j \in 1..k : s[j].id = x.after
      BY <1>n, <1>7, <2>2 DEF Guarded
    <3> QED BY <3>1, <2>1, <1>4
  <2>3. CASE x \notin ToSet(s[k].msgs)
    <3>1. k = n /\ x \in ToSet(items)
      BY <1>1, <1>3, <2>3
    <3>2. PICK j \in 1..n : s[j].id = x.after
      BY <1>n, <3>1 DEF Present
    <3> QED BY <3>1, <3>2, <1>4
  <2> QED BY <2>2, <2>3
<1>8. ASSUME Settled(s) PROVE Settled(u)
  <2>1. \A k \in 1..(n - 1) : u[k] = s[k]
    BY <1>1
  <2> QED BY <1>n, <1>1, <1>8, <2>1 DEF Settled
<1> QED BY <1>1, <1>5, <1>6, <1>7, <1>8 DEF Grown

\* The last sink is flushed, and a new one follows it: the items of a sink
\* that is kept in memory move on to the new one.
LEMMA SinksSwap ==
    ASSUME NEW s \in Seq(Sink), s # <<>>, NEW f \in Sink, NEW w, LastBecomes(s, w, f),
           f.id = s[Len(s)].id, f.failed \/ f.flushed = Len(f.msgs), NEW g \in Sink,
           \/ f.msgs = s[Len(s)].msgs /\ g.msgs = <<>>
           \/ f.msgs = <<>> /\ g.msgs = s[Len(s)].msgs
    PROVE  Grown(s, Append(w, g), {}) /\ Present(g.id, Append(w, g))
<1>n. PICK n : n = Len(s)
  OBVIOUS
<1>u. PICK u : u = Append(w, g)
  OBVIOUS
<1>1. /\ n \in Nat \ {0} /\ n \in 1..n
      /\ w \in Seq(Sink) /\ Len(w) = n /\ w[n] = f
      /\ \A k \in 1..n : k # n => w[k] = s[k]
  <2>1. n \in Nat \ {0}
    BY <1>n, LenProperties, EmptySeq
  <2>2. n \in 1..n
    BY <2>1
  <2> QED BY <1>n, <2>1, <2>2 DEF LastBecomes
<1>2. /\ u \in Seq(Sink) /\ u # <<>> /\ Len(u) = n + 1 /\ u[n + 1] = g
      /\ \A k \in 1..n : u[k] = w[k]
  <2>1. u \in Seq(Sink) /\ Len(u) = n + 1 /\ u[n + 1] = g /\ \A k \in 1..n : u[k] = w[k]
    BY <1>u, <1>1, AppendProperties
  <2>2. u # <<>>
    BY <1>u, <1>1, AppendProperties
  <2> QED BY <2>1, <2>2
<1>3. \A k \in 1..n : u[k].id = s[k].id /\ k \in 1..(n + 1)
  BY <1>n, <1>1, <1>2
<1>4. n + 1 \in 1..(n + 1) /\ \A k \in 1..(n + 1) : k \in 1..n \/ k = n + 1
  BY <1>1
<1>5. \A id : Present(id, s) => Present(id, u)
  BY <1>n, <1>2, <1>3 DEF Present
<1>6. Present(g.id, u)
  BY <1>2, <1>4 DEF Present
<1>7. ToSet(<<>>) = {}
  BY EmptyFacts
<1>8. OfSinks(u) = OfSinks(s)
  <2>1. ASSUME NEW k \in 1..(n + 1), NEW x \in ToSet(u[k].msgs)
        PROVE  \E j \in 1..n : x \in ToSet(s[j].msgs)
    <3>1. CASE k = n + 1 \/ k = n
      <4>1. x \in ToSet(s[n].msgs)
        BY <1>n, <1>1, <1>2, <1>7, <2>1, <3>1
      <4> QED BY <4>1, <1>1
    <3>2. CASE k \in 1..n /\ k # n
      BY <3>2, <1>1, <1>2
    <3> QED BY <3>1, <3>2, <1>4
  <2>2. ASSUME NEW k \in 1..n, NEW x \in ToSet(s[k].msgs)
        PROVE  \E j \in 1..(n + 1) : x \in ToSet(u[j].msgs)
    <3>1. CASE k = n
      <4>1. x \in ToSet(u[n].msgs) \/ x \in ToSet(u[n + 1].msgs)
        BY <1>n, <1>1, <1>2, <3>1
      <4> QED BY <4>1, <1>1, <1>3, <1>4
    <3>2. CASE k # n
      BY <3>2, <1>1, <1>2, <1>3
    <3> QED BY <3>1, <3>2
  <2>3. /\ \A x : x \in OfSinks(u) <=> \E k \in 1..(n + 1) : x \in ToSet(u[k].msgs)
        /\ \A x : x \in OfSinks(s) <=> \E k \in 1..n : x \in ToSet(s[k].msgs)
    BY <1>n, <1>2 DEF OfSinks
  <2>4. \A x : x \in OfSinks(u) <=> x \in OfSinks(s)
    BY <2>1, <2>2, <2>3
  <2> QED BY <2>4
<1>9. ASSUME Guarded(s) PROVE Guarded(u)
  <2> SUFFICES ASSUME NEW k \in 1..(n + 1), NEW x \in ToSet(u[k].msgs), x.after # 0
               PROVE  \E j \in 1..k : u[j].id = x.after
    BY <1>2 DEF Guarded
  <2>1. \E i \in 1..n : i <= k /\ x \in ToSet(s[i].msgs)
    <3>1. CASE k = n + 1 \/ k = n
      <4>1. x \in ToSet(s[n].msgs)
        BY <1>n, <1>1, <1>2, <1>7, <3>1
      <4>2. n <= k
        BY <1>1, <3>1
      <4> QED BY <4>1, <4>2, <1>1
    <3>2. CASE k \in 1..n /\ k # n
      <4>1. k <= k
        BY <1>1
      <4> QED BY <3>2, <4>1, <1>1, <1>2
    <3> QED BY <3>1, <3>2, <1>4
  <2>2. PICK i \in 1..n : i <= k /\ x \in ToSet(s[i].msgs)
    BY <2>1
  <2>3. PICK j \in 1..i : s[j].id = x.after
    BY <1>n, <1>9, <2>2 DEF Guarded
  <2>4. j \in 1..n /\ j \in 1..k
    BY <1>1, <2>2
  <2> QED BY <2>3, <2>4, <1>3
<1>10. ASSUME Settled(s) PROVE Settled(u)
  <2>1. \A k \in 1..n : k \in 1..(n - 1) \/ k = n
    BY <1>1
  <2>2. \A k \in 1..(n - 1) : k \in 1..n /\ k # n
    BY <1>1
  <2>3. ASSUME NEW k \in 1..n PROVE u[k].failed \/ u[k].flushed = Len(u[k].msgs)
    <3>1. CASE k = n
      <4>1. u[k] = f
        BY <1>1, <1>2, <3>1
      <4> QED BY <4>1
    <3>2. CASE k \in 1..(n - 1)
      <4>1. u[k] = s[k]
        BY <1>1, <1>2, <2>2, <3>2
      <4>2. s[k].failed \/ s[k].flushed = Len(s[k].msgs)
        BY <1>n, <1>10, <3>2 DEF Settled
      <4> QED BY <4>1, <4>2
    <3> QED BY <2>1, <3>1, <3>2
  <2>4. Len(u) - 1 = n
    BY <1>1, <1>2
  <2> QED BY <2>3, <2>4 DEF Settled
<1>11. OfSinks(u) = OfSinks(s) \cup {}
  BY <1>8
<1> QED BY <1>u, <1>2, <1>5, <1>6, <1>9, <1>10, <1>11 DEF Grown

\* SwapGuarantee, and what is proved of it.
LEMMA GuardedIsGuarantee == ASSUME sinks \in Seq(Sink) PROVE SwapGuarantee <=> Guarded(sinks)
<1>1. ASSUME NEW k \in 1..Len(sinks)
      PROVE  \A x : x \in ToSet(sinks[k].msgs) <=>
                      \E i \in 1..Len(sinks[k].msgs) : sinks[k].msgs[i] = x
  <2>1. sinks[k] \in Sink
    BY ElementOfSeq
  <2>2. sinks[k].msgs \in Seq(Item)
    BY <2>1 DEF Sink
  <2> QED BY <2>2, ToSetPlaces
<1>2. ASSUME SwapGuarantee PROVE Guarded(sinks)
  <2> SUFFICES ASSUME NEW k \in 1..Len(sinks), NEW x \in ToSet(sinks[k].msgs), x.after # 0
               PROVE  \E j \in 1..k : sinks[j].id = x.after
    BY DEF Guarded
  <2>1. PICK i \in 1..Len(sinks[k].msgs) : sinks[k].msgs[i] = x
    BY <1>1
  <2> QED BY <1>2, <2>1 DEF SwapGuarantee
<1>3. ASSUME Guarded(sinks) PROVE SwapGuarantee
  <2> SUFFICES ASSUME NEW k \in 1..Len(sinks), NEW i \in 1..Len(sinks[k].msgs),
                      sinks[k].msgs[i].after # 0
               PROVE  \E j \in 1..k : sinks[j].id = sinks[k].msgs[i].after
    BY DEF SwapGuarantee
  <2>1. sinks[k].msgs[i] \in ToSet(sinks[k].msgs)
    BY <1>1
  <2> QED BY <1>3, <2>1 DEF Guarded
<1> QED BY <1>2, <1>3

\* An order of the accumulators that hold rows covers all of them.
LEMMA OrderCovers ==
    ASSUME NEW S, IsFiniteSet(S), NEW order \in SetToSeqs(S)
    PROVE  /\ Cardinality(S) \in Nat /\ order \in [1..Cardinality(S) -> S]
           /\ \A e \in S : \E i \in 1..Cardinality(S) : order[i] = e
<1>n. PICK n : n = Cardinality(S)
  OBVIOUS
<1>1. n \in Nat
  BY <1>n, FS_CardinalityType
<1>2. order \in [1..n -> S] /\ \A i, j \in 1..n : i # j => order[i] # order[j]
  BY <1>n DEF SetToSeqs
<1>3. order \in Injection(1..n, S)
  BY <1>2 DEF Injection, IsInjective
<1>4. Cardinality(1..n) = n
  <2>1. 1 \in Int /\ n \in Int
    BY <1>1
  <2>2. Cardinality(1..n) = IF 1 > n THEN 0 ELSE n - 1 + 1
    BY <2>1, FS_Interval
  <2> QED BY <1>1, <2>2
<1>5. order \in Surjection(1..n, S)
  BY <1>n, <1>3, <1>4, FS_Injection
<1> QED BY <1>n, <1>1, <1>2, <1>5 DEF Surjection

\* A sequence of one item.
LEMMA SingleFacts ==
    ASSUME NEW x \in Item PROVE <<x>> \in Seq(Item) /\ ToSet(<<x>>) = {x}
<1>e. PICK e : e = <<>>
  OBVIOUS
<1>1. e \in Seq(Item) /\ ToSet(e) = {}
  BY <1>e, EmptySeq, EmptyFacts
<1>2. Append(e, x) \in Seq(Item) /\ ToSet(Append(e, x)) = ToSet(e) \cup {x}
  BY <1>1, AppendFacts
<1>3. Append(e, x) = <<x>>
  BY <1>e
<1> QED BY <1>1, <1>2, <1>3

-----------------------------------------------------------------------------
(* From rows to chunks *)

\* Chunks without the last one.
LEMMA ChunksFront ==
    ASSUME NEW q \in Seq(Seq(Item)), q # <<>>
    PROVE  /\ Front(q) \in Seq(Seq(Item)) /\ Last(q) \in Seq(Item)
           /\ OfChunks(q) = OfChunks(Front(q)) \cup ToSet(Last(q))
<1>n. PICK n : n = Len(q)
  OBVIOUS
<1>1. n \in Nat \ {0} /\ \A i \in 1..n : q[i] \in Seq(Item)
  BY <1>n, ElementOfSeq, EmptySeq, LenProperties
<1>u. PICK u : u = Front(q)
  OBVIOUS
<1>2. u = SubSeq(q, 1, n - 1) /\ Last(q) = q[n]
  BY <1>n, <1>u DEF Front, Last
<1>3. u = [i \in 1..(n - 1) |-> q[i]]
  BY <1>1, <1>2, <1>n
<1>4. u \in Seq(Seq(Item)) /\ Len(u) = n - 1 /\ \A i \in 1..(n - 1) : u[i] = q[i]
  BY <1>1, <1>3
<1>5. \A i \in 1..n : i \in 1..(n - 1) \/ i = n
  BY <1>1
<1>6. n \in 1..n /\ \A i \in 1..(n - 1) : i \in 1..n
  BY <1>1
<1>7. \A x : x \in OfChunks(q) <=> x \in OfChunks(u) \/ x \in ToSet(q[n])
  <2>1. \A x : x \in OfChunks(q) <=> \E i \in 1..n : x \in ToSet(q[i])
    BY <1>n DEF OfChunks
  <2>2. \A x : x \in OfChunks(u) <=> \E i \in 1..(n - 1) : x \in ToSet(q[i])
    BY <1>4 DEF OfChunks
  <2> QED BY <2>1, <2>2, <1>5, <1>6
<1> QED BY <1>1, <1>2, <1>4, <1>6, <1>7, <1>u

\* Chunks after other chunks.
LEMMA ChunksConcat ==
    ASSUME NEW p \in Seq(Seq(Item)), NEW q \in Seq(Seq(Item))
    PROVE  p \o q \in Seq(Seq(Item)) /\ OfChunks(p \o q) = OfChunks(p) \cup OfChunks(q)
<1>u. PICK u : u = p \o q
  OBVIOUS
<1>m. PICK m, n : m = Len(p) /\ n = Len(q)
  OBVIOUS
<1>1. /\ m \in Nat /\ n \in Nat /\ u \in Seq(Seq(Item)) /\ Len(u) = m + n
      /\ \A i \in 1..(m + n) : u[i] = IF i <= m THEN p[i] ELSE q[i - m]
  BY <1>u, <1>m, ConcatProperties, LenProperties
<1>2. \A i \in 1..m : i \in 1..(m + n) /\ u[i] = p[i]
  BY <1>1
<1>3. \A i \in 1..n : i + m \in 1..(m + n) /\ u[i + m] = q[i]
  <2> SUFFICES ASSUME NEW i \in 1..n PROVE i + m \in 1..(m + n) /\ u[i + m] = q[i]
    OBVIOUS
  <2>1. i + m \in 1..(m + n) /\ ~(i + m <= m) /\ (i + m) - m = i
    BY <1>1
  <2> QED BY <1>1, <2>1
<1>4. \A i \in 1..(m + n) : (i \in 1..m /\ u[i] = p[i]) \/ (i - m \in 1..n /\ u[i] = q[i - m])
  BY <1>1
<1>5. \A x : x \in OfChunks(u) <=> x \in OfChunks(p) \/ x \in OfChunks(q)
  <2>1. \A x : x \in OfChunks(u) <=> \E i \in 1..(m + n) : x \in ToSet(u[i])
    BY <1>1 DEF OfChunks
  <2>2. \A x : x \in OfChunks(p) <=> \E i \in 1..m : x \in ToSet(p[i])
    BY <1>m DEF OfChunks
  <2>3. \A x : x \in OfChunks(q) <=> \E i \in 1..n : x \in ToSet(q[i])
    BY <1>m DEF OfChunks
  <2>4. \A x : x \in OfChunks(u) => x \in OfChunks(p) \/ x \in OfChunks(q)
    BY <2>1, <2>2, <2>3, <1>4
  <2>5. \A x : x \in OfChunks(p) => x \in OfChunks(u)
    BY <2>1, <2>2, <1>2
  <2>6. \A x : x \in OfChunks(q) => x \in OfChunks(u)
    BY <2>1, <2>3, <1>3
  <2> QED BY <2>4, <2>5, <2>6
<1> QED BY <1>1, <1>5, <1>u

\* A row joins the chunks, in the last one or in one of its own.
LEMMA AddRowFacts ==
    ASSUME NEW out \in Seq(Seq(Item)), NEW row \in Item
    PROVE  AddRow(out, row) \in Seq(Seq(Item)) /\ OfChunks(AddRow(out, row)) = OfChunks(out) \cup {row}
<1>1. CASE AddRow(out, row) = Append(Front(out), Append(Last(out), row)) /\ out # <<>>
  <2>f. PICK f, c : f = Front(out) /\ c = Last(out)
    OBVIOUS
  <2>1. f \in Seq(Seq(Item)) /\ c \in Seq(Item) /\ OfChunks(out) = OfChunks(f) \cup ToSet(c)
    BY <1>1, <2>f, ChunksFront
  <2>d. PICK d : d = Append(c, row)
    OBVIOUS
  <2>2. d \in Seq(Item) /\ ToSet(d) = ToSet(c) \cup {row}
    BY <2>1, <2>d, AppendFacts
  <2>3. Append(f, d) \in Seq(Seq(Item)) /\ OfChunks(Append(f, d)) = OfChunks(f) \cup ToSet(d)
    BY <2>1, <2>2, ChunksAppend
  <2>4. AddRow(out, row) = Append(f, d)
    BY <1>1, <2>f, <2>d
  <2> QED BY <2>1, <2>2, <2>3, <2>4
<1>2. CASE AddRow(out, row) = Append(out, <<row>>)
  <2>d. PICK d : d = <<row>>
    OBVIOUS
  <2>1. d \in Seq(Item) /\ ToSet(d) = {row}
    BY <2>d, SingleFacts
  <2>2. Append(out, d) \in Seq(Seq(Item)) /\ OfChunks(Append(out, d)) = OfChunks(out) \cup ToSet(d)
    BY <2>1, ChunksAppend
  <2> QED BY <1>2, <2>d, <2>1, <2>2
<1> QED BY <1>1, <1>2 DEF AddRow

\* The fold of the rows q of one shape s, in the context <<q, s>>: after n rows,
\* the chunks hold those of the shape.
GroupOp(cx, out, row) == IF Shape(row) = cx[2] THEN AddRow(out, row) ELSE out
Grouped(cx, n) == {x \in Item : \E i \in 1..n : cx[1][i] = x /\ Shape(x) = cx[2]}
GroupKept(cx, n, out) == out \in Seq(Seq(Item)) /\ OfChunks(out) = Grouped(cx, n)
Group == INSTANCE FoldFacts WITH Op <- GroupOp, Inv <- GroupKept

\* The induction that Group goes by.
LEMMA GroupInduction == Group!NatInduction
BY NatSetInduction DEF Group!NatInduction

\* The chunks of a shape hold the rows of that shape.
LEMMA ShapeChunksFacts ==
    ASSUME NEW q \in Seq(Item), NEW s
    PROVE  /\ ShapeChunks(q, s) \in Seq(Seq(Item))
           /\ OfChunks(ShapeChunks(q, s)) = {x \in ToSet(q) : Shape(x) = s}
<1> DEFINE base == <<>>
           cx == <<q, s>>
           o == Group!LeftFold(cx, base, q)
<1>1. ShapeChunks(q, s) = o
  BY DEF ShapeChunks, FoldLeft, MapThenFoldSet, Group!LeftFold, Group!Top, Max, GroupOp
<1>2. Len(q) \in Nat /\ DOMAIN q = 1..Len(q) /\ \A i \in 1..Len(q) : q[i] \in Item
  BY LenProperties, ElementOfSeq
<1>3. cx[1] = q /\ cx[2] = s
  OBVIOUS
<1> HIDE DEF cx
<1>4. GroupKept(cx, 0, base)
  <2>1. Grouped(cx, 0) = {}
    BY DEF Grouped
  <2> QED BY <2>1, ChunksFew DEF GroupKept
<1> HIDE DEF base
<1>5. \A a : \A i \in 1..Len(q) : GroupKept(cx, i - 1, a) => GroupKept(cx, i, GroupOp(cx, a, q[i]))
  <2> SUFFICES ASSUME NEW a, NEW i \in 1..Len(q), GroupKept(cx, i - 1, a)
               PROVE  GroupKept(cx, i, GroupOp(cx, a, q[i]))
    OBVIOUS
  <2>1. a \in Seq(Seq(Item)) /\ OfChunks(a) = Grouped(cx, i - 1) /\ q[i] \in Item
    BY <1>2 DEF GroupKept
  <2>2. \A j \in 1..i : j \in 1..(i - 1) \/ j = i
    BY <1>2
  <2>3. i \in 1..i /\ \A j \in 1..(i - 1) : j \in 1..i
    BY <1>2
  <2>4. CASE Shape(q[i]) = s
    <3>r. PICK row : row = q[i]
      OBVIOUS
    <3>1. GroupOp(cx, a, q[i]) = AddRow(a, row)
      BY <1>3, <2>4, <3>r DEF GroupOp
    <3>2. AddRow(a, row) \in Seq(Seq(Item)) /\ OfChunks(AddRow(a, row)) = OfChunks(a) \cup {row}
      BY <2>1, <3>r, AddRowFacts
    <3>3. Grouped(cx, i) = Grouped(cx, i - 1) \cup {row}
      BY <1>3, <2>1, <2>2, <2>3, <2>4, <3>r DEF Grouped
    <3> QED BY <2>1, <3>1, <3>2, <3>3 DEF GroupKept
  <2>5. CASE Shape(q[i]) # s
    <3>1. GroupOp(cx, a, q[i]) = a
      BY <1>3, <2>5 DEF GroupOp
    <3>2. Grouped(cx, i) = Grouped(cx, i - 1)
      BY <1>3, <2>2, <2>3, <2>5 DEF Grouped
    <3> QED BY <2>1, <3>1, <3>2 DEF GroupKept
  <2> QED BY <2>4, <2>5
<1>6. GroupKept(cx, Len(q), o)
  BY <1>2, <1>4, <1>5, GroupInduction, Group!SeqFold
<1> HIDE DEF o
<1>7. Grouped(cx, Len(q)) = {x \in ToSet(q) : Shape(x) = s}
  <2>1. \A x : x \in ToSet(q) <=> \E i \in 1..Len(q) : q[i] = x
    BY ToSetPlaces
  <2> QED BY <1>2, <1>3, <2>1 DEF Grouped
<1> QED BY <1>1, <1>6, <1>7 DEF GroupKept

\* The fold that puts sequences of chunks one after the other.
JoinOp(seqs, out, more) == out \o more
JoinKept(seqs, n, out) ==
    out \in Seq(Seq(Item)) /\ \A x : x \in OfChunks(out) <=> \E i \in 1..n : x \in OfChunks(seqs[i])
Join == INSTANCE FoldFacts WITH Op <- JoinOp, Inv <- JoinKept

\* The induction that Join goes by.
LEMMA JoinInduction == Join!NatInduction
BY NatSetInduction DEF Join!NatInduction

\* Nothing is lost or made up by that.
LEMMA JoinFacts ==
    ASSUME NEW n \in Nat, NEW seqs \in [1..n -> Seq(Seq(Item))]
    PROVE  /\ Concat(seqs) \in Seq(Seq(Item))
           /\ \A x : x \in OfChunks(Concat(seqs)) <=> \E i \in 1..n : x \in OfChunks(seqs[i])
<1> DEFINE base == <<>>
           o == Join!LeftFold(seqs, base, seqs)
<1>1. Concat(seqs) = o
  BY DEF Concat, FoldLeft, MapThenFoldSet, Join!LeftFold, Join!Top, Max, JoinOp
<1>2. DOMAIN seqs = 1..n
  OBVIOUS
<1>3. JoinKept(seqs, 0, base)
  BY ChunksFew DEF JoinKept
<1> HIDE DEF base
<1>4. \A a : \A i \in 1..n : JoinKept(seqs, i - 1, a) => JoinKept(seqs, i, JoinOp(seqs, a, seqs[i]))
  <2> SUFFICES ASSUME NEW a, NEW i \in 1..n, JoinKept(seqs, i - 1, a)
               PROVE  JoinKept(seqs, i, JoinOp(seqs, a, seqs[i]))
    OBVIOUS
  <2>m. PICK m : m = seqs[i]
    OBVIOUS
  <2>1. /\ a \in Seq(Seq(Item)) /\ m \in Seq(Seq(Item))
        /\ \A x : x \in OfChunks(a) <=> \E j \in 1..(i - 1) : x \in OfChunks(seqs[j])
    BY <2>m DEF JoinKept
  <2>2. a \o m \in Seq(Seq(Item)) /\ OfChunks(a \o m) = OfChunks(a) \cup OfChunks(m)
    BY <2>1, ChunksConcat
  <2>3. \A j \in 1..i : j \in 1..(i - 1) \/ j = i
    OBVIOUS
  <2>4. i \in 1..i /\ \A j \in 1..(i - 1) : j \in 1..i
    OBVIOUS
  <2>5. \A x : x \in OfChunks(a \o m) <=> \E j \in 1..i : x \in OfChunks(seqs[j])
    BY <2>m, <2>1, <2>2, <2>3, <2>4
  <2> QED BY <2>m, <2>2, <2>5 DEF JoinOp, JoinKept
<1>5. JoinKept(seqs, n, o)
  BY <1>2, <1>3, <1>4, JoinInduction, Join!SeqFold
<1> HIDE DEF o
<1> QED BY <1>1, <1>5 DEF JoinKept

\* The values of a function on a finite set.
LEMMA FiniteValues ==
    ASSUME NEW f, NEW D, IsFiniteSet(D)
    PROVE  IsFiniteSet({f[x] : x \in D})
<1> DEFINE V == {f[x] : x \in D}
           g == [x \in D |-> f[x]]
<1>1. g \in Surjection(D, V)
  BY DEF Surjection
<1> QED BY <1>1, FS_Surjection

\* A sequence has finitely many elements.
LEMMA FiniteElements == ASSUME NEW T, NEW s \in Seq(T) PROVE IsFiniteSet(ToSet(s))
<1>1. Len(s) \in Nat /\ ToSet(s) = {s[i] : i \in 1..Len(s)}
  BY LenProperties, ToSetPlaces
<1>2. IsFiniteSet(1..Len(s))
  BY <1>1, FS_Interval
<1>3. IsFiniteSet({s[i] : i \in 1..Len(s)})
  BY <1>2, FiniteValues
<1> QED BY <1>1, <1>3

\* The rows in the order of their ids are the same rows.
LEMMA RowIdOrderFacts ==
    ASSUME NEW rows \in Seq(Item), NEW q \in RowIdOrders(rows)
    PROVE  q \in Seq(Item) /\ ToSet(q) = ToSet(rows)
<1>S. PICK S : S = ToSet(rows)
  OBVIOUS
<1>1. IsFiniteSet(S) /\ S \subseteq Item
  BY <1>S, FiniteElements, ToSetPlaces
<1>2. q \in SetToSeqs(S)
  BY <1>S DEF RowIdOrders
<1>n. PICK n : n = Cardinality(S)
  OBVIOUS
<1>3. n \in Nat /\ q \in [1..n -> S] /\ \A e \in S : \E i \in 1..n : q[i] = e
  BY <1>1, <1>2, <1>n, OrderCovers
<1>4. q \in Seq(Item) /\ Len(q) = n
  BY <1>1, <1>3
<1>5. \A x : x \in ToSet(q) <=> \E i \in 1..n : q[i] = x
  BY <1>4, ToSetPlaces
<1> QED BY <1>3, <1>4, <1>5, <1>S

\* Regrouping loses no row and makes none up.
LEMMA RegroupedFacts ==
    ASSUME NEW rows \in Seq(Item), NEW out \in Regrouped(rows)
    PROVE  out \in Seq(Seq(Item)) /\ OfChunks(out) = ToSet(rows)
<1>S. PICK S : S = {Shape(row) : row \in ToSet(rows)}
  OBVIOUS
<1>1. PICK order \in SetToSeqs(S) :
         out = Concat([i \in 1..Len(order) |-> ShapeChunks(rows, order[i])])
  BY <1>S DEF Regrouped
<1>3. IsFiniteSet(S)
  <2>1. IsFiniteSet(ToSet(rows))
    BY FiniteElements
  <2>f. PICK f : f = [row \in ToSet(rows) |-> Shape(row)]
    OBVIOUS
  <2>2. S = {f[row] : row \in ToSet(rows)}
    BY <1>S, <2>f
  <2> QED BY <2>1, <2>2, FiniteValues
<1>n. PICK n : n = Cardinality(S)
  OBVIOUS
<1>4. n \in Nat /\ order \in [1..n -> S] /\ \A s \in S : \E i \in 1..n : order[i] = s
  BY <1>3, <1>n, OrderCovers
<1>5. Len(order) = n
  BY <1>4
<1>q. PICK seqs : seqs = [i \in 1..n |-> ShapeChunks(rows, order[i])]
  OBVIOUS
<1>6. \A i \in 1..n : /\ ShapeChunks(rows, order[i]) \in Seq(Seq(Item))
                      /\ OfChunks(ShapeChunks(rows, order[i]))
                           = {x \in ToSet(rows) : Shape(x) = order[i]}
  BY ShapeChunksFacts
<1>7. seqs \in [1..n -> Seq(Seq(Item))]
  BY <1>q, <1>6
<1>8. out = Concat(seqs)
  BY <1>1, <1>5, <1>q
<1>9. out \in Seq(Seq(Item)) /\ \A x : x \in OfChunks(out) <=> \E i \in 1..n : x \in OfChunks(seqs[i])
  BY <1>4, <1>7, <1>8, JoinFacts
<1>10. \A i \in 1..n : OfChunks(seqs[i]) = {x \in ToSet(rows) : Shape(x) = order[i]}
  BY <1>6, <1>q
<1>11. \A x \in ToSet(rows) : Shape(x) \in S
  BY <1>S
<1>12. \A x : x \in OfChunks(out) <=> x \in ToSet(rows)
  BY <1>4, <1>9, <1>10, <1>11
<1> QED BY <1>9, <1>12

\* Nor does many_into_chunks.
LEMMA ManyIntoChunksFacts ==
    ASSUME NEW rows \in Seq(Item), NEW out \in ManyIntoChunks(rows)
    PROVE  out \in Seq(Seq(Item)) /\ OfChunks(out) = ToSet(rows)
<1>1. PICK sorted \in RowIdOrders(rows) : out \in Regrouped(sorted)
  BY DEF ManyIntoChunks
<1>2. sorted \in Seq(Item) /\ ToSet(sorted) = ToSet(rows)
  BY RowIdOrderFacts
<1>3. out \in Seq(Seq(Item)) /\ OfChunks(out) = ToSet(sorted)
  BY <1>1, <1>2, RegroupedFacts
<1> QED BY <1>2, <1>3

\* Flushing moves all rows from the accumulators to the output.
LEMMA FlushAllFacts ==
    ASSUME TypeInv, FlushAll
    PROVE  /\ b_out' \in Seq(Seq(Item)) /\ OfChunks(b_out') = OfAccs(accs)
           /\ accs' \in [Entities -> Seq(Item)] /\ OfAccs(accs') = {}
           /\ IsFiniteSet(Pending')
<1>1. accs \in [Entities -> Seq(Item)] /\ IsFiniteSet(Pending) /\ Pending \subseteq Entities
  BY DEF TypeInv, Pending
<1>2. accs' = [e \in Entities |-> <<>>]
  BY DEF FlushAll
<1>3. PICK order \in SetToSeqs(Pending), out \in AccChunks :
         b_out' = Concat([i \in 1..Len(order) |-> out[order[i]]])
  BY DEF FlushAll
<1>n. PICK n : n = Cardinality(Pending)
  OBVIOUS
<1>4. /\ n \in Nat /\ order \in [1..n -> Pending]
      /\ \A e \in Pending : \E i \in 1..n : order[i] = e
  BY <1>n, <1>1, OrderCovers
<1>5. Len(order) = n
  BY <1>4
<1>6. \A e \in Pending : out[e] \in Seq(Seq(Item)) /\ OfChunks(out[e]) = ToSet(accs[e])
  <2> SUFFICES ASSUME NEW e \in Pending
               PROVE  out[e] \in Seq(Seq(Item)) /\ OfChunks(out[e]) = ToSet(accs[e])
    OBVIOUS
  <2>1. accs[e] \in Seq(Item) /\ out[e] \in ManyIntoChunks(accs[e])
    BY <1>1, <1>3 DEF AccChunks
  <2> QED BY <2>1, ManyIntoChunksFacts
<1>q. PICK seqs : seqs = [i \in 1..n |-> out[order[i]]]
  OBVIOUS
<1>7. /\ seqs \in [1..n -> Seq(Seq(Item))]
      /\ \A i \in 1..n : order[i] \in Pending /\ OfChunks(seqs[i]) = ToSet(accs[order[i]])
  BY <1>4, <1>6, <1>q
<1>8. b_out' = Concat(seqs)
  BY <1>3, <1>5, <1>q
<1>9. b_out' \in Seq(Seq(Item)) /\ \A x : x \in OfChunks(b_out') <=> \E i \in 1..n : x \in OfChunks(seqs[i])
  BY <1>4, <1>7, <1>8, JoinFacts
<1>10. \A e \in Entities : e \notin Pending => ToSet(accs[e]) = {}
  BY EmptyFacts DEF Pending
<1>11. \A x : x \in OfChunks(b_out') <=> \E i \in 1..n : x \in ToSet(accs[order[i]])
  BY <1>7, <1>9
<1>12. \A x : x \in OfAccs(accs) <=> \E e \in Pending : x \in ToSet(accs[e])
  BY <1>1, <1>10 DEF OfAccs
<1>13. \A x : x \in OfChunks(b_out') <=> x \in OfAccs(accs)
  BY <1>4, <1>7, <1>11, <1>12
<1>14. accs' \in [Entities -> Seq(Item)] /\ OfAccs(accs') = {}
  <2>1. <<>> \in Seq(Item)
    BY EmptySeq
  <2>2. accs' \in [Entities -> Seq(Item)]
    BY <1>2, <2>1
  <2>3. OfAccs(accs') = {}
    BY <1>2, EmptyFacts DEF OfAccs
  <2> QED BY <2>2, <2>3
<1>15. Pending' = {}
  BY <1>2 DEF Pending
<1>16. IsFiniteSet(Pending')
  BY <1>15, FS_EmptySet
<1> QED BY <1>9, <1>13, <1>14, <1>16

-----------------------------------------------------------------------------
(* The steps of a call *)

\* Three steps, and what follows them.
LEMMA Concat5 ==
    ASSUME NEW a, NEW b, NEW c, NEW d, NEW e
    PROVE  <<a, b, c>> \o <<d, e>> = <<a, b, c, d, e>>
<1>x. PICK x : x = <<a, b, c>>
  OBVIOUS
<1>y. PICK y : y = <<d, e>>
  OBVIOUS
<1>S. PICK S : S = {a, b, c, d, e}
  OBVIOUS
<1>1. x \in Seq(S) /\ y \in Seq(S) /\ Len(x) = 3 /\ Len(y) = 2
  BY <1>x, <1>y, <1>S
<1>2. /\ x \o y \in Seq(S) /\ Len(x \o y) = Len(x) + Len(y)
      /\ \A i \in 1..(Len(x) + Len(y)) : (x \o y)[i] = IF i <= Len(x) THEN x[i] ELSE y[i - Len(x)]
  BY <1>1, ConcatProperties
<1>u. PICK u : u = x \o y
  OBVIOUS
<1>3. u \in Seq(S) /\ Len(u) = 5 /\ \A i \in 1..5 : u[i] = IF i <= 3 THEN x[i] ELSE y[i - 3]
  BY <1>1, <1>2, <1>u
<1>4. u[1] = a /\ u[2] = b /\ u[3] = c /\ u[4] = d /\ u[5] = e
  BY <1>3, <1>x, <1>y
<1>5. u = <<u[1], u[2], u[3], u[4], u[5]>>
  BY <1>3
<1> QED BY <1>x, <1>y, <1>u, <1>4, <1>5

\* Three steps, and four that follow them.
LEMMA Concat7 ==
    ASSUME NEW a, NEW b, NEW c, NEW d, NEW e, NEW f, NEW g
    PROVE  <<a, b, c>> \o <<d, e, f, g>> = <<a, b, c, d, e, f, g>>
<1>x. PICK x : x = <<a, b, c>>
  OBVIOUS
<1>y. PICK y : y = <<d, e, f, g>>
  OBVIOUS
<1>S. PICK S : S = {a, b, c, d, e, f, g}
  OBVIOUS
<1>1. x \in Seq(S) /\ y \in Seq(S) /\ Len(x) = 3 /\ Len(y) = 4
  BY <1>x, <1>y, <1>S
<1>2. /\ x \o y \in Seq(S) /\ Len(x \o y) = Len(x) + Len(y)
      /\ \A i \in 1..(Len(x) + Len(y)) : (x \o y)[i] = IF i <= Len(x) THEN x[i] ELSE y[i - Len(x)]
  BY <1>1, ConcatProperties
<1>u. PICK u : u = x \o y
  OBVIOUS
<1>3. u \in Seq(S) /\ Len(u) = 7 /\ \A i \in 1..7 : u[i] = IF i <= 3 THEN x[i] ELSE y[i - 3]
  BY <1>1, <1>2, <1>u
<1>4. u[1] = a /\ u[2] = b /\ u[3] = c /\ u[4] = d /\ u[5] = e /\ u[6] = f /\ u[7] = g
  BY <1>3, <1>x, <1>y
<1>5. u = <<u[1], u[2], u[3], u[4], u[5], u[6], u[7]>>
  BY <1>3
<1> QED BY <1>x, <1>y, <1>u, <1>4, <1>5

Ops == {"row", "chunk", "msg", "flush", "set_sink", "finalize", "drop"}

\* A call op that has the steps s left can take the first of them.
Taken(op, s) ==
    /\ s \in Seq(Step) /\ s # <<>> /\ Head(s) \in Step /\ op \in SenderOf(Head(s))
    /\ \/ Len(s) = 1 /\ Tail(s) = <<>> /\ NextOf(op, Head(s)) = "idle"
       \/ /\ Len(s) # 1 /\ Tail(s) \in Left(op) /\ Tail(s) # <<>>
          /\ Head(Tail(s)) = NextOf(op, Head(s))

\* It does when the second step is the next one of the call, or there is none.
LEMMA TakenOne ==
    ASSUME NEW op, NEW a \in Step, op \in SenderOf(a), NextOf(op, a) = "idle"
    PROVE  Taken(op, <<a>>)
<1>1. <<a>> \in Seq(Step) /\ <<a>> # <<>> /\ Head(<<a>>) = a /\ Len(<<a>>) = 1 /\ Tail(<<a>>) = <<>>
  OBVIOUS
<1> QED BY <1>1 DEF Taken

\* Two steps.
LEMMA Taken2 ==
    ASSUME NEW op, NEW a \in Step, NEW b \in Step,
           op \in SenderOf(a), NextOf(op, a) = b, <<b>> \in Left(op)
    PROVE  Taken(op, <<a, b>>)
<1>1. <<a, b>> \in Seq(Step) /\ <<a, b>> # <<>> /\ Head(<<a, b>>) = a /\ Len(<<a, b>>) # 1
      /\ Tail(<<a, b>>) = <<b>> /\ <<b>> # <<>> /\ Head(<<b>>) = b
  OBVIOUS
<1> QED BY <1>1 DEF Taken

\* Three steps.
LEMMA Taken3 ==
    ASSUME NEW op, NEW a \in Step, NEW b \in Step, NEW c \in Step,
           op \in SenderOf(a), NextOf(op, a) = b, <<b, c>> \in Left(op)
    PROVE  Taken(op, <<a, b, c>>)
<1>1. <<a, b, c>> \in Seq(Step) /\ <<a, b, c>> # <<>> /\ Head(<<a, b, c>>) = a /\ Len(<<a, b, c>>) # 1
      /\ Tail(<<a, b, c>>) = <<b, c>> /\ <<b, c>> # <<>> /\ Head(<<b, c>>) = b
  OBVIOUS
<1> QED BY <1>1 DEF Taken

\* Four steps.
LEMMA Taken4 ==
    ASSUME NEW op, NEW a \in Step, NEW b \in Step, NEW c \in Step, NEW d \in Step,
           op \in SenderOf(a), NextOf(op, a) = b, <<b, c, d>> \in Left(op)
    PROVE  Taken(op, <<a, b, c, d>>)
<1>1. <<a, b, c, d>> \in Seq(Step) /\ <<a, b, c, d>> # <<>> /\ Head(<<a, b, c, d>>) = a /\ Len(<<a, b, c, d>>) # 1
      /\ Tail(<<a, b, c, d>>) = <<b, c, d>> /\ <<b, c, d>> # <<>> /\ Head(<<b, c, d>>) = b
  OBVIOUS
<1> QED BY <1>1 DEF Taken

\* Five steps.
LEMMA Taken5 ==
    ASSUME NEW op, NEW a \in Step, NEW b \in Step, NEW c \in Step, NEW d \in Step, NEW e \in Step,
           op \in SenderOf(a), NextOf(op, a) = b, <<b, c, d, e>> \in Left(op)
    PROVE  Taken(op, <<a, b, c, d, e>>)
<1>1. <<a, b, c, d, e>> \in Seq(Step) /\ <<a, b, c, d, e>> # <<>> /\ Head(<<a, b, c, d, e>>) = a /\ Len(<<a, b, c, d, e>>) # 1
      /\ Tail(<<a, b, c, d, e>>) = <<b, c, d, e>> /\ <<b, c, d, e>> # <<>> /\ Head(<<b, c, d, e>>) = b
  OBVIOUS
<1> QED BY <1>1 DEF Taken

\* Six steps.
LEMMA Taken6 ==
    ASSUME NEW op, NEW a \in Step, NEW b \in Step, NEW c \in Step, NEW d \in Step, NEW e \in Step, NEW f \in Step,
           op \in SenderOf(a), NextOf(op, a) = b, <<b, c, d, e, f>> \in Left(op)
    PROVE  Taken(op, <<a, b, c, d, e, f>>)
<1>1. <<a, b, c, d, e, f>> \in Seq(Step) /\ <<a, b, c, d, e, f>> # <<>> /\ Head(<<a, b, c, d, e, f>>) = a /\ Len(<<a, b, c, d, e, f>>) # 1
      /\ Tail(<<a, b, c, d, e, f>>) = <<b, c, d, e, f>> /\ <<b, c, d, e, f>> # <<>> /\ Head(<<b, c, d, e, f>>) = b
  OBVIOUS
<1> QED BY <1>1 DEF Taken

\* Seven steps.
LEMMA Taken7 ==
    ASSUME NEW op, NEW a \in Step, NEW b \in Step, NEW c \in Step, NEW d \in Step, NEW e \in Step, NEW f \in Step, NEW g \in Step,
           op \in SenderOf(a), NextOf(op, a) = b, <<b, c, d, e, f, g>> \in Left(op)
    PROVE  Taken(op, <<a, b, c, d, e, f, g>>)
<1>1. <<a, b, c, d, e, f, g>> \in Seq(Step) /\ <<a, b, c, d, e, f, g>> # <<>> /\ Head(<<a, b, c, d, e, f, g>>) = a /\ Len(<<a, b, c, d, e, f, g>>) # 1
      /\ Tail(<<a, b, c, d, e, f, g>>) = <<b, c, d, e, f, g>> /\ <<b, c, d, e, f, g>> # <<>> /\ Head(<<b, c, d, e, f, g>>) = b
  OBVIOUS
<1> QED BY <1>1 DEF Taken

\* What is left when a step is taken.
LEMMA LeftFacts == \A op \in Ops : \A s \in Left(op) : Taken(op, s)
<1>s. /\ "b_row" \in Step /\ "b_chunk" \in Step /\ "msg" \in Step /\ "b_flush" \in Step
      /\ "b_wait" \in Step /\ "pop" \in Step /\ "flush" \in Step /\ "wait" \in Step
      /\ "b_config" \in Step /\ "swap" \in Step /\ "finalize" \in Step
      /\ "shutdown" \in Step /\ "join" \in Step /\ "b_shutdown" \in Step /\ "b_join" \in Step
  BY DEF Step
<1>1. \A s \in Left("row") : Taken("row", s)
  <2>1. /\ "row" \in SenderOf("b_row")
    BY DEF SenderOf
  <2>2. /\ NextOf("row", "b_row") = "idle"
    BY DEF NextOf
  <2>3. Left("row") = {<<"b_row">>}
    BY DEF Left
  <2>4. Taken("row", <<"b_row">>)
    BY <1>s, <2>1, <2>2, TakenOne
  <2> QED BY <2>3, <2>4
<1>2. \A s \in Left("chunk") : Taken("chunk", s)
  <2>1. /\ "chunk" \in SenderOf("b_chunk")
    BY DEF SenderOf
  <2>2. /\ NextOf("chunk", "b_chunk") = "idle"
    BY DEF NextOf
  <2>3. Left("chunk") = {<<"b_chunk">>}
    BY DEF Left
  <2>4. Taken("chunk", <<"b_chunk">>)
    BY <1>s, <2>1, <2>2, TakenOne
  <2> QED BY <2>3, <2>4
<1>3. \A s \in Left("msg") : Taken("msg", s)
  <2>1. /\ "msg" \in SenderOf("msg")
    BY DEF SenderOf
  <2>2. /\ NextOf("msg", "msg") = "idle"
    BY DEF NextOf
  <2>3. Left("msg") = {<<"msg">>}
    BY DEF Left
  <2>4. Taken("msg", <<"msg">>)
    BY <1>s, <2>1, <2>2, TakenOne
  <2> QED BY <2>3, <2>4
<1>4. \A s \in Left("flush") : Taken("flush", s)
  <2>1. /\ "flush" \in SenderOf("b_flush")
        /\ "flush" \in SenderOf("b_wait")
        /\ "flush" \in SenderOf("pop")
        /\ "flush" \in SenderOf("flush")
        /\ "flush" \in SenderOf("wait")
    BY DEF SenderOf
  <2>2. /\ NextOf("flush", "b_flush") = "b_wait"
        /\ NextOf("flush", "b_wait") = "pop"
        /\ NextOf("flush", "pop") = "flush"
        /\ NextOf("flush", "flush") = "wait"
        /\ NextOf("flush", "wait") = "idle"
    BY DEF NextOf
  <2>3. Left("flush") = {<<"b_flush", "b_wait", "pop", "flush", "wait">>,
              <<"b_wait", "pop", "flush", "wait">>,
              <<"pop", "flush", "wait">>,
              <<"flush", "wait">>,
              <<"wait">>}
    BY DEF Left
  <2>4. Taken("flush", <<"b_flush", "b_wait", "pop", "flush", "wait">>)
    BY <1>s, <2>1, <2>2, <2>3, Taken5
  <2>5. Taken("flush", <<"b_wait", "pop", "flush", "wait">>)
    BY <1>s, <2>1, <2>2, <2>3, Taken4
  <2>6. Taken("flush", <<"pop", "flush", "wait">>)
    BY <1>s, <2>1, <2>2, <2>3, Taken3
  <2>7. Taken("flush", <<"flush", "wait">>)
    BY <1>s, <2>1, <2>2, <2>3, Taken2
  <2>8. Taken("flush", <<"wait">>)
    BY <1>s, <2>1, <2>2, TakenOne
  <2> QED BY <2>3, <2>4, <2>5, <2>6, <2>7, <2>8
<1>5. \A s \in Left("set_sink") : Taken("set_sink", s)
  <2>1. /\ "set_sink" \in SenderOf("b_flush")
        /\ "set_sink" \in SenderOf("b_wait")
        /\ "set_sink" \in SenderOf("pop")
        /\ "set_sink" \in SenderOf("b_config")
        /\ "set_sink" \in SenderOf("swap")
        /\ "set_sink" \in SenderOf("flush")
        /\ "set_sink" \in SenderOf("wait")
    BY DEF SenderOf
  <2>2. /\ NextOf("set_sink", "b_flush") = "b_wait"
        /\ NextOf("set_sink", "b_wait") = "pop"
        /\ NextOf("set_sink", "pop") = "b_config"
        /\ NextOf("set_sink", "b_config") = "swap"
        /\ NextOf("set_sink", "swap") = "flush"
        /\ NextOf("set_sink", "flush") = "wait"
        /\ NextOf("set_sink", "wait") = "idle"
    BY DEF NextOf
  <2>3. Left("set_sink") = {<<"b_flush", "b_wait", "pop", "b_config", "swap", "flush", "wait">>,
              <<"b_wait", "pop", "b_config", "swap", "flush", "wait">>,
              <<"pop", "b_config", "swap", "flush", "wait">>,
              <<"b_config", "swap", "flush", "wait">>,
              <<"swap", "flush", "wait">>,
              <<"flush", "wait">>,
              <<"wait">>}
    BY DEF Left
  <2>4. Taken("set_sink", <<"b_flush", "b_wait", "pop", "b_config", "swap", "flush", "wait">>)
    BY <1>s, <2>1, <2>2, <2>3, Taken7
  <2>5. Taken("set_sink", <<"b_wait", "pop", "b_config", "swap", "flush", "wait">>)
    BY <1>s, <2>1, <2>2, <2>3, Taken6
  <2>6. Taken("set_sink", <<"pop", "b_config", "swap", "flush", "wait">>)
    BY <1>s, <2>1, <2>2, <2>3, Taken5
  <2>7. Taken("set_sink", <<"b_config", "swap", "flush", "wait">>)
    BY <1>s, <2>1, <2>2, <2>3, Taken4
  <2>8. Taken("set_sink", <<"swap", "flush", "wait">>)
    BY <1>s, <2>1, <2>2, <2>3, Taken3
  <2>9. Taken("set_sink", <<"flush", "wait">>)
    BY <1>s, <2>1, <2>2, <2>3, Taken2
  <2>10. Taken("set_sink", <<"wait">>)
    BY <1>s, <2>1, <2>2, TakenOne
  <2> QED BY <2>3, <2>4, <2>5, <2>6, <2>7, <2>8, <2>9, <2>10
<1>6. \A s \in Left("finalize") : Taken("finalize", s)
  <2>1. /\ "finalize" \in SenderOf("b_flush")
        /\ "finalize" \in SenderOf("b_wait")
        /\ "finalize" \in SenderOf("pop")
        /\ "finalize" \in SenderOf("finalize")
        /\ "finalize" \in SenderOf("wait")
    BY DEF SenderOf
  <2>2. /\ NextOf("finalize", "b_flush") = "b_wait"
        /\ NextOf("finalize", "b_wait") = "pop"
        /\ NextOf("finalize", "pop") = "finalize"
        /\ NextOf("finalize", "finalize") = "wait"
        /\ NextOf("finalize", "wait") = "idle"
    BY DEF NextOf
  <2>3. Left("finalize") = {<<"b_flush", "b_wait", "pop", "finalize", "wait">>,
              <<"b_wait", "pop", "finalize", "wait">>,
              <<"pop", "finalize", "wait">>,
              <<"finalize", "wait">>,
              <<"wait">>}
    BY DEF Left
  <2>4. Taken("finalize", <<"b_flush", "b_wait", "pop", "finalize", "wait">>)
    BY <1>s, <2>1, <2>2, <2>3, Taken5
  <2>5. Taken("finalize", <<"b_wait", "pop", "finalize", "wait">>)
    BY <1>s, <2>1, <2>2, <2>3, Taken4
  <2>6. Taken("finalize", <<"pop", "finalize", "wait">>)
    BY <1>s, <2>1, <2>2, <2>3, Taken3
  <2>7. Taken("finalize", <<"finalize", "wait">>)
    BY <1>s, <2>1, <2>2, <2>3, Taken2
  <2>8. Taken("finalize", <<"wait">>)
    BY <1>s, <2>1, <2>2, TakenOne
  <2> QED BY <2>3, <2>4, <2>5, <2>6, <2>7, <2>8
<1>7. \A s \in Left("drop") : Taken("drop", s)
  <2>1. /\ "drop" \in SenderOf("b_flush")
        /\ "drop" \in SenderOf("b_wait")
        /\ "drop" \in SenderOf("pop")
        /\ "drop" \in SenderOf("shutdown")
        /\ "drop" \in SenderOf("join")
        /\ "drop" \in SenderOf("b_shutdown")
        /\ "drop" \in SenderOf("b_join")
    BY DEF SenderOf
  <2>2. /\ NextOf("drop", "b_flush") = "b_wait"
        /\ NextOf("drop", "b_wait") = "pop"
        /\ NextOf("drop", "pop") = "shutdown"
        /\ NextOf("drop", "shutdown") = "join"
        /\ NextOf("drop", "join") = "b_shutdown"
        /\ NextOf("drop", "b_shutdown") = "b_join"
        /\ NextOf("drop", "b_join") = "idle"
    BY DEF NextOf
  <2>3. Left("drop") = {<<"b_flush", "b_wait", "pop", "shutdown", "join", "b_shutdown", "b_join">>,
              <<"b_wait", "pop", "shutdown", "join", "b_shutdown", "b_join">>,
              <<"pop", "shutdown", "join", "b_shutdown", "b_join">>,
              <<"shutdown", "join", "b_shutdown", "b_join">>,
              <<"join", "b_shutdown", "b_join">>,
              <<"b_shutdown", "b_join">>,
              <<"b_join">>}
    BY DEF Left
  <2>4. Taken("drop", <<"b_flush", "b_wait", "pop", "shutdown", "join", "b_shutdown", "b_join">>)
    BY <1>s, <2>1, <2>2, <2>3, Taken7
  <2>5. Taken("drop", <<"b_wait", "pop", "shutdown", "join", "b_shutdown", "b_join">>)
    BY <1>s, <2>1, <2>2, <2>3, Taken6
  <2>6. Taken("drop", <<"pop", "shutdown", "join", "b_shutdown", "b_join">>)
    BY <1>s, <2>1, <2>2, <2>3, Taken5
  <2>7. Taken("drop", <<"shutdown", "join", "b_shutdown", "b_join">>)
    BY <1>s, <2>1, <2>2, <2>3, Taken4
  <2>8. Taken("drop", <<"join", "b_shutdown", "b_join">>)
    BY <1>s, <2>1, <2>2, <2>3, Taken3
  <2>9. Taken("drop", <<"b_shutdown", "b_join">>)
    BY <1>s, <2>1, <2>2, <2>3, Taken2
  <2>10. Taken("drop", <<"b_join">>)
    BY <1>s, <2>1, <2>2, TakenOne
  <2> QED BY <2>3, <2>4, <2>5, <2>6, <2>7, <2>8, <2>9, <2>10
<1> QED BY <1>1, <1>2, <1>3, <1>4, <1>5, <1>6, <1>7 DEF Ops

\* The steps a call begins with.
LEMMA StepsFacts ==
    /\ \A op \in Ops : Steps(op) \in Left(op)
    /\ Head(Steps("row")) = "b_row" /\ Head(Steps("chunk")) = "b_chunk"
    /\ Head(Steps("msg")) = "msg"
    /\ \A op \in {"flush", "set_sink", "finalize", "drop"} : Head(Steps(op)) = "b_flush"
<1>1. /\ Steps("row") = <<"b_row">> /\ Steps("chunk") = <<"b_chunk">> /\ Steps("msg") = <<"msg">>
  BY DEF Steps
<1>2. /\ Steps("flush") = <<"b_flush", "b_wait", "pop", "flush", "wait">>
      /\ Steps("finalize") = <<"b_flush", "b_wait", "pop", "finalize", "wait">>
  BY Concat5 DEF Steps, FlushDown
<1>3. /\ Steps("set_sink") = <<"b_flush", "b_wait", "pop", "b_config", "swap", "flush", "wait">>
      /\ Steps("drop") = <<"b_flush", "b_wait", "pop", "shutdown", "join", "b_shutdown", "b_join">>
  BY Concat7 DEF Steps, FlushDown, SwapSteps, DropSteps
<1>4. \A op \in Ops : Steps(op) \in Left(op)
  BY <1>1, <1>2, <1>3 DEF Ops, Left
<1>5. /\ Head(Steps("row")) = "b_row" /\ Head(Steps("chunk")) = "b_chunk"
      /\ Head(Steps("msg")) = "msg"
  BY <1>1
<1>6. \A op \in {"flush", "set_sink", "finalize", "drop"} : Head(Steps(op)) = "b_flush"
  BY <1>2, <1>3
<1> QED BY <1>4, <1>5, <1>6

\* Where a call goes from each of its steps.
LEMMA NextTable ==
    ASSUME NEW op, NEW step \in Step, op \in SenderOf(step)
    PROVE  \/ step = "b_row" /\ op = "row" /\ NextOf(op, step) = "idle"
           \/ step = "b_chunk" /\ op = "chunk" /\ NextOf(op, step) = "idle"
           \/ step = "msg" /\ op = "msg" /\ NextOf(op, step) = "idle"
           \/ step = "b_flush" /\ op \in {"flush", "set_sink", "finalize", "drop"} /\ NextOf(op, step) = "b_wait"
           \/ step = "b_wait" /\ op \in {"flush", "set_sink", "finalize", "drop"} /\ NextOf(op, step) = "pop"
           \/ step = "pop" /\ op = "flush" /\ NextOf(op, step) = "flush"
           \/ step = "pop" /\ op = "set_sink" /\ NextOf(op, step) = "b_config"
           \/ step = "pop" /\ op = "finalize" /\ NextOf(op, step) = "finalize"
           \/ step = "pop" /\ op = "drop" /\ NextOf(op, step) = "shutdown"
           \/ step = "b_config" /\ op = "set_sink" /\ NextOf(op, step) = "swap"
           \/ step = "swap" /\ op = "set_sink" /\ NextOf(op, step) = "flush"
           \/ step = "flush" /\ op \in {"flush", "set_sink"} /\ NextOf(op, step) = "wait"
           \/ step = "finalize" /\ op = "finalize" /\ NextOf(op, step) = "wait"
           \/ step = "wait" /\ op \in {"flush", "set_sink", "finalize"} /\ NextOf(op, step) = "idle"
           \/ step = "shutdown" /\ op = "drop" /\ NextOf(op, step) = "join"
           \/ step = "join" /\ op = "drop" /\ NextOf(op, step) = "b_shutdown"
           \/ step = "b_shutdown" /\ op = "drop" /\ NextOf(op, step) = "b_join"
           \/ step = "b_join" /\ op = "drop" /\ NextOf(op, step) = "idle"
<1>1. CASE step = "b_row"
  <2>1. op = "row"
    BY <1>1 DEF SenderOf
  <2> QED BY <1>1, <2>1 DEF NextOf
<1>2. CASE step = "b_chunk"
  <2>1. op = "chunk"
    BY <1>2 DEF SenderOf
  <2> QED BY <1>2, <2>1 DEF NextOf
<1>3. CASE step = "msg"
  <2>1. op = "msg"
    BY <1>3 DEF SenderOf
  <2> QED BY <1>3, <2>1 DEF NextOf
<1>4. CASE step = "b_flush"
  <2>1. op \in {"flush", "set_sink", "finalize", "drop"}
    BY <1>4 DEF SenderOf
  <2> QED BY <1>4, <2>1 DEF NextOf
<1>5. CASE step = "b_wait"
  <2>1. op \in {"flush", "set_sink", "finalize", "drop"}
    BY <1>5 DEF SenderOf
  <2> QED BY <1>5, <2>1 DEF NextOf
<1>6. CASE step = "pop"
  <2>1. op \in {"flush", "set_sink", "finalize", "drop"}
    BY <1>6 DEF SenderOf
  <2> QED BY <1>6, <2>1 DEF NextOf
<1>7. CASE step = "b_config"
  <2>1. op = "set_sink"
    BY <1>7 DEF SenderOf
  <2> QED BY <1>7, <2>1 DEF NextOf
<1>8. CASE step = "swap"
  <2>1. op = "set_sink"
    BY <1>8 DEF SenderOf
  <2> QED BY <1>8, <2>1 DEF NextOf
<1>9. CASE step = "flush"
  <2>1. op \in {"flush", "set_sink"}
    BY <1>9 DEF SenderOf
  <2> QED BY <1>9, <2>1 DEF NextOf
<1>10. CASE step = "finalize"
  <2>1. op = "finalize"
    BY <1>10 DEF SenderOf
  <2> QED BY <1>10, <2>1 DEF NextOf
<1>11. CASE step = "wait"
  <2>1. op \in {"flush", "set_sink", "finalize"}
    BY <1>11 DEF SenderOf
  <2> QED BY <1>11, <2>1 DEF NextOf
<1>12. CASE step = "shutdown"
  <2>1. op = "drop"
    BY <1>12 DEF SenderOf
  <2> QED BY <1>12, <2>1 DEF NextOf
<1>13. CASE step = "join"
  <2>1. op = "drop"
    BY <1>13 DEF SenderOf
  <2> QED BY <1>13, <2>1 DEF NextOf
<1>14. CASE step = "b_shutdown"
  <2>1. op = "drop"
    BY <1>14 DEF SenderOf
  <2> QED BY <1>14, <2>1 DEF NextOf
<1>15. CASE step = "b_join"
  <2>1. op = "drop"
    BY <1>15 DEF SenderOf
  <2> QED BY <1>15, <2>1 DEF NextOf
<1> QED BY <1>1, <1>2, <1>3, <1>4, <1>5, <1>6, <1>7, <1>8, <1>9, <1>10, <1>11, <1>12, <1>13, <1>14, <1>15 DEF Step

\* A thread that is in a call is at one of its steps.
LEMMA StageFacts ==
    ASSUME TypeInv, StageInv, NEW t \in Threads
    PROVE  /\ todo[t] = <<>> => call[t] = NoCall /\ Pc(t) = "idle" /\ call[t].op = "none"
           /\ todo[t] # <<>> =>
                /\ call[t] # NoCall /\ call[t].op \in Ops /\ Taken(call[t].op, todo[t])
                /\ Pc(t) = Head(todo[t]) /\ Pc(t) \in Step /\ Pc(t) # "idle"
                /\ call[t].op \in SenderOf(Pc(t))
                /\ Command(t) \in Cmd
<1>1. ASSUME todo[t] = <<>> PROVE call[t] = NoCall /\ Pc(t) = "idle" /\ call[t].op = "none"
  <2>1. \A op \in Ops : todo[t] \notin Left(op)
    BY <1>1, LeftFacts DEF Taken
  <2>2. call[t] = NoCall
    BY <1>1, <2>1 DEF StageInv, TypeInv, Call, Ops
  <2> QED BY <1>1, <2>2 DEF Pc, NoCall
<1>2. ASSUME todo[t] # <<>>
      PROVE  /\ call[t] # NoCall /\ call[t].op \in Ops /\ Taken(call[t].op, todo[t])
             /\ Pc(t) = Head(todo[t]) /\ Pc(t) \in Step /\ Pc(t) # "idle"
             /\ call[t].op \in SenderOf(Pc(t))
             /\ Command(t) \in Cmd
  <2>1. call[t] # NoCall /\ todo[t] \in Left(call[t].op) /\ call[t] \in Call
    BY <1>2 DEF StageInv, TypeInv
  <2>2. call[t].op \in Ops
    BY <2>1 DEF Call, Ops
  <2>3. Taken(call[t].op, todo[t])
    BY <2>1, <2>2, LeftFacts
  <2>4. Pc(t) = Head(todo[t]) /\ Pc(t) \in Step /\ call[t].op \in SenderOf(Pc(t))
    BY <1>2, <2>3 DEF Pc, Taken
  <2>5. Pc(t) # "idle"
    BY <2>4 DEF Step
  <2>6. Command(t) \in Cmd
    BY <2>1, <2>4 DEF Command, Cmd
  <2> QED BY <2>1, <2>2, <2>3, <2>4, <2>5, <2>6
<1> QED BY <1>1, <1>2

\* A step of thread t: the call goes on with the next step, or returns.
Moved(t) ==
    /\ Pc(t)' = NextOf(call[t].op, Pc(t))
    /\ call'[t] = IF Pc(t)' = "idle" THEN NoCall ELSE call[t]
    /\ swapped'[t] = IF call[t].op = "set_sink" /\ Pc(t)' = "idle" THEN call[t].nr ELSE swapped[t]
    /\ \A u \in Threads : u # t =>
          Pc(u)' = Pc(u) /\ call'[u] = call[u] /\ swapped'[u] = swapped[u]
    /\ call' \in [Threads -> Call]
    /\ swapped' \in [Threads -> Nat]
    /\ UNCHANGED <<made, dropped, recorded>>

\* StepDone takes the first of the steps that are left.
LEMMA StepMoves ==
    ASSUME TypeInv, StageInv, NEW t \in Threads, todo[t] # <<>>, StepDone(t)
    PROVE  StageInv' /\ Moved(t)
<1> DEFINE op == call[t].op
           s == todo[t]
<1>1. /\ call \in [Threads -> Call] /\ swapped \in [Threads -> 0..MaxCalls]
      /\ todo \in [Threads -> Seq(Step)] /\ MaxCalls \in Nat
  BY StreamAssumption DEF TypeInv, StageInv
<1>2. /\ s # <<>> /\ s \in Seq(Step) /\ call[t] \in Call /\ call[t] # NoCall /\ op \in Ops
      /\ Pc(t) = Head(s)
      /\ \/ Len(s) = 1 /\ Tail(s) = <<>> /\ NextOf(op, Head(s)) = "idle"
         \/ /\ Len(s) # 1 /\ Tail(s) \in Left(op) /\ Tail(s) # <<>>
            /\ Head(Tail(s)) = NextOf(op, Head(s))
  BY <1>1, StageFacts DEF Taken
<1>3. /\ todo' = [todo EXCEPT ![t] = Tail(s)]
      /\ call' = IF Len(s) = 1 THEN [call EXCEPT ![t] = NoCall] ELSE call
      /\ swapped' = IF op = "set_sink" /\ Len(s) = 1
                      THEN [swapped EXCEPT ![t] = call[t].nr] ELSE swapped
      /\ UNCHANGED <<made, dropped, recorded>>
  BY DEF StepDone
<1>4. Tail(s) \in Seq(Step)
  BY <1>2, HeadTailProperties
<1>5. /\ todo'[t] = Tail(s) /\ todo' \in [Threads -> Seq(Step)]
      /\ \A u \in Threads : u # t => todo'[u] = todo[u]
  BY <1>1, <1>3, <1>4
<1>6. NoCall \in Call /\ NoCall.nr \in Nat /\ call[t].nr \in Nat
  BY <1>2 DEF Call, NoCall
<1>7. /\ call'[t] = IF Len(s) = 1 THEN NoCall ELSE call[t]
      /\ \A u \in Threads : u # t => call'[u] = call[u]
      /\ call' \in [Threads -> Call]
  BY <1>1, <1>3, <1>6
<1>8. /\ swapped'[t] = IF op = "set_sink" /\ Len(s) = 1 THEN call[t].nr ELSE swapped[t]
      /\ \A u \in Threads : u # t => swapped'[u] = swapped[u]
      /\ swapped' \in [Threads -> Nat]
  BY <1>1, <1>3, <1>6
<1>9. Pc(t)' = IF Tail(s) = <<>> THEN "idle" ELSE Head(Tail(s))
  BY <1>5 DEF Pc
<1>10. Len(s) # 1 => NextOf(op, Head(s)) # "idle"
  <2> SUFFICES ASSUME Len(s) # 1 PROVE NextOf(op, Head(s)) # "idle"
    OBVIOUS
  <2>1. Tail(s) \in Left(op) /\ Head(Tail(s)) = NextOf(op, Head(s))
    BY <1>2
  <2>2. Head(Tail(s)) \in Step
    BY <2>1, <1>2, LeftFacts DEF Taken
  <2> QED BY <2>1, <2>2 DEF Step
<1>11. /\ Pc(t)' = NextOf(op, Pc(t))
       /\ Len(s) = 1 <=> Pc(t)' = "idle"
  BY <1>2, <1>9, <1>10
<1>12. \A u \in Threads : u # t => Pc(u)' = Pc(u)
  BY <1>5 DEF Pc
<1>13. StageInv'
  <2>1. ASSUME NEW u \in Threads
        PROVE  \/ todo'[u] = <<>> /\ call'[u] = NoCall
               \/ todo'[u] \in Left(call'[u].op) /\ call'[u] # NoCall
    <3>1. CASE u = t
      BY <3>1, <1>2, <1>5, <1>7
    <3>2. CASE u # t
      BY <3>2, <1>5, <1>7 DEF StageInv
    <3> QED BY <3>1, <3>2
  <2> QED BY <1>5, <2>1 DEF StageInv
<1> HIDE DEF op, s
<1>14. /\ call'[t] = IF Pc(t)' = "idle" THEN NoCall ELSE call[t]
       /\ swapped'[t] = IF op = "set_sink" /\ Pc(t)' = "idle" THEN call[t].nr ELSE swapped[t]
  BY <1>7, <1>8, <1>11
<1> QED BY <1>3, <1>7, <1>8, <1>11, <1>12, <1>13, <1>14 DEF Moved, op

\* A thread begins call c.
Started(t, c) ==
    /\ todo[t] = <<>> /\ Pc(t) = "idle" /\ call[t] = NoCall /\ ~dropped
    /\ call'[t] = c /\ Pc(t)' = Head(Steps(c.op))
    /\ \A u \in Threads : u # t => Pc(u)' = Pc(u) /\ call'[u] = call[u]
    /\ call' \in [Threads -> Call]
    /\ UNCHANGED <<swapped, b_cmds, b_reply, batcherVars, chunks, cmds, reply,
                   forwarder, sinks>>

\* Start begins the steps of the call.
LEMMA StartMoves ==
    ASSUME TypeInv, StageInv, NEW t \in Threads, NEW c \in Call, c # NoCall, Start(t, c)
    PROVE  StageInv' /\ Started(t, c)
<1>1. /\ call \in [Threads -> Call] /\ todo \in [Threads -> Seq(Step)]
      /\ todo[t] = <<>> /\ call[t] = NoCall /\ Pc(t) = "idle"
  BY StageFacts DEF TypeInv, StageInv, Start, Idle
<1>2. c.op \in Ops
  BY DEF Call, Ops
<1>3. Steps(c.op) \in Left(c.op)
  BY <1>2, StepsFacts
<1>4. Steps(c.op) \in Seq(Step) /\ Steps(c.op) # <<>>
  BY <1>2, <1>3, LeftFacts DEF Taken
<1>s. PICK s : s = Steps(c.op)
  OBVIOUS
<1>5. call' = [call EXCEPT ![t] = c] /\ todo' = [todo EXCEPT ![t] = s]
  BY <1>s DEF Start
<1>6. /\ call'[t] = c /\ todo'[t] = s
      /\ \A u \in Threads : u # t => call'[u] = call[u] /\ todo'[u] = todo[u]
      /\ call' \in [Threads -> Call] /\ todo' \in [Threads -> Seq(Step)]
  BY <1>1, <1>4, <1>5, <1>s
<1>7. Pc(t)' = Head(s) /\ \A u \in Threads : u # t => Pc(u)' = Pc(u)
  BY <1>4, <1>6, <1>s DEF Pc
<1>8. StageInv'
  <2>1. ASSUME NEW u \in Threads
        PROVE  \/ todo'[u] = <<>> /\ call'[u] = NoCall
               \/ todo'[u] \in Left(call'[u].op) /\ call'[u] # NoCall
    <3>1. CASE u = t
      BY <3>1, <1>3, <1>6, <1>s
    <3>2. CASE u # t
      BY <3>2, <1>6 DEF StageInv
    <3> QED BY <3>1, <3>2
  <2> QED BY <1>6, <2>1 DEF StageInv
<1>9. /\ ~dropped
      /\ UNCHANGED <<swapped, b_cmds, b_reply, batcherVars, chunks, cmds, reply,
                     forwarder, sinks>>
  BY DEF Start
<1> QED BY <1>1, <1>6, <1>7, <1>8, <1>9, <1>s DEF Started

\* What the calls have in common: their numbers, and what they record.
Begun(t, c) ==
    /\ Started(t, c) /\ c \in Call /\ c # NoCall
    /\ c.nr = made' /\ made' \in 0..MaxCalls
    /\ \/ /\ c.op \in {"row", "chunk", "msg"}
          /\ c.item \in Item /\ c.item.from = t /\ c.item.nr = made'
          /\ c.item.after = swapped[t]
          /\ Pc(t)' \in {"b_row", "b_chunk", "msg"}
          /\ recorded' = recorded \cup {c.item} /\ made' = made + 1 /\ dropped' = dropped
       \/ /\ c.op \in {"flush", "finalize", "set_sink"} /\ Pc(t)' = "b_flush"
          /\ recorded' = recorded /\ made' = made + 1 /\ dropped' = dropped
       \/ /\ c.op = "drop" /\ Pc(t)' = "b_flush"
          /\ recorded' = recorded /\ made' = made /\ dropped' = TRUE
          /\ \A u \in Threads : todo[u] = <<>>

\* Record, Control and Drop begin a call.
LEMMA CallsBegin ==
    ASSUME TypeInv, StageInv, NEW t \in Threads, Record(t) \/ Control(t) \/ Drop(t)
    PROVE  StageInv' /\ \E c : Begun(t, c)
<1>m. /\ made \in 0..MaxCalls /\ MaxCalls \in Nat /\ swapped[t] \in Nat
      /\ \A n \in 0..MaxCalls : n \in Nat
  BY StreamAssumption DEF TypeInv
<1>1. CASE Record(t)
  <2>1. PICK op \in Calls \cap {"row", "chunk", "msg"}, e \in Entities :
              LET item == [from |-> t, nr |-> made', kind |-> op, entity |-> e,
                           after |-> swapped[t]]
              IN  /\ Start(t, [op |-> op, nr |-> made', item |-> item])
                  /\ recorded' = recorded \cup {item}
    BY <1>1 DEF Record
  <2>n. PICK n : n = made'
    OBVIOUS
  <2>2. n = made + 1 /\ n \in 0..MaxCalls /\ dropped' = dropped
    BY <1>1, <1>m, <2>n DEF Record
  <2>i. PICK item : item = [from |-> t, nr |-> n, kind |-> op, entity |-> e, after |-> swapped[t]]
    OBVIOUS
  <2>c. PICK c : c = [op |-> op, nr |-> n, item |-> item]
    OBVIOUS
  <2>3. n \in Nat
    BY <1>m, <2>2
  <2>4. item \in Item /\ item.from = t /\ item.nr = n /\ item.after = swapped[t]
    BY <2>i, <2>3, <1>m DEF Item
  <2>5. c \in Call /\ c.op = op /\ c.nr = n /\ c.item = item
    BY <2>c, <2>3, <2>4 DEF Call
  <2>6. c # NoCall
    BY <2>5 DEF NoCall
  <2>7. Start(t, c) /\ recorded' = recorded \cup {item}
    BY <2>1, <2>n, <2>i, <2>c
  <2>8. StageInv' /\ Started(t, c)
    BY <2>5, <2>6, <2>7, StartMoves
  <2>9. Pc(t)' \in {"b_row", "b_chunk", "msg"}
    <3>1. Pc(t)' = Head(Steps(op)) /\ op \in {"row", "chunk", "msg"}
      BY <2>5, <2>8 DEF Started
    <3> QED BY <3>1, StepsFacts
  <2>10. Begun(t, c)
    BY <2>n, <2>2, <2>4, <2>5, <2>6, <2>7, <2>8, <2>9 DEF Begun
  <2> QED BY <2>8, <2>10
<1>2. CASE Control(t)
  <2>n. PICK n : n = made'
    OBVIOUS
  <2>2. n = made + 1 /\ n \in 0..MaxCalls /\ dropped' = dropped /\ recorded' = recorded
    BY <1>2, <1>m, <2>n DEF Control
  <2>3. n \in Nat
    BY <1>m, <2>2
  <2>4. \E c \in Call : /\ c # NoCall /\ c.nr = n /\ c.op \in {"flush", "finalize", "set_sink"}
                        /\ Start(t, c)
    <3>1. CASE \E op \in Calls \cap {"flush", "finalize"} : Start(t, [op |-> op, nr |-> n])
      <4>1. PICK op \in Calls \cap {"flush", "finalize"} : Start(t, [op |-> op, nr |-> n])
        BY <3>1
      <4>c. PICK c : c = [op |-> op, nr |-> n]
        OBVIOUS
      <4>2. c \in Call /\ c.op = op /\ c.nr = n
        BY <4>c, <2>3 DEF Call
      <4>3. c # NoCall
        BY <4>2 DEF NoCall
      <4> QED BY <4>1, <4>c, <4>2, <4>3
    <3>2. CASE \E k \in SinkKinds : Start(t, [op |-> "set_sink", nr |-> n, sink |-> k])
      <4>1. PICK k \in SinkKinds : Start(t, [op |-> "set_sink", nr |-> n, sink |-> k])
        BY <3>2
      <4>c. PICK c : c = [op |-> "set_sink", nr |-> n, sink |-> k]
        OBVIOUS
      <4>2. c \in Call /\ c.op = "set_sink" /\ c.nr = n
        BY <4>c, <2>3 DEF Call
      <4>3. c # NoCall
        BY <4>2 DEF NoCall
      <4> QED BY <4>1, <4>c, <4>2, <4>3
    <3> QED BY <1>2, <2>n, <3>1, <3>2 DEF Control
  <2>5. PICK c \in Call : /\ c # NoCall /\ c.nr = n /\ c.op \in {"flush", "finalize", "set_sink"}
                          /\ Start(t, c)
    BY <2>4
  <2>6. StageInv' /\ Started(t, c)
    BY <2>5, StartMoves
  <2>7. Pc(t)' = "b_flush"
    BY <2>5, <2>6, StepsFacts DEF Started
  <2>8. Begun(t, c)
    BY <2>n, <2>2, <2>5, <2>6, <2>7 DEF Begun
  <2> QED BY <2>6, <2>8
<1>3. CASE Drop(t)
  <2>c. PICK c : c = [op |-> "drop", nr |-> made]
    OBVIOUS
  <2>1. c \in Call /\ c.op = "drop" /\ c.nr = made
    BY <2>c, <1>m DEF Call
  <2>2. c # NoCall
    BY <2>1 DEF NoCall
  <2>3. /\ Start(t, c) /\ made' = made /\ dropped' = TRUE /\ recorded' = recorded
        /\ \A u \in Threads : todo[u] = <<>>
    BY <1>3, <2>c DEF Drop, Idle
  <2>4. StageInv' /\ Started(t, c)
    BY <2>1, <2>2, <2>3, StartMoves
  <2>5. Pc(t)' = "b_flush"
    BY <2>1, <2>4, StepsFacts DEF Started
  <2>6. Begun(t, c)
    BY <1>m, <2>1, <2>2, <2>3, <2>4, <2>5 DEF Begun
  <2> QED BY <2>4, <2>6
<1> QED BY <1>1, <1>2, <1>3

ToBatcher   == {"b_row", "b_chunk", "b_flush", "b_config", "b_shutdown"}
ToForwarder == {"msg", "pop", "flush", "swap", "finalize", "shutdown"}

\* What a step of thread t does besides: it sends a command, or takes an answer.
Sends(t) ==
    \/ /\ Pc(t) \in ToBatcher /\ Len(b_cmds) < QueueLen
       /\ b_cmds' = Append(b_cmds, Command(t)) /\ UNCHANGED <<b_reply, cmds, reply>>
    \/ /\ Pc(t) \in ToForwarder /\ Len(cmds) < QueueLen
       /\ cmds' = Append(cmds, Command(t)) /\ UNCHANGED <<b_reply, b_cmds, reply>>
    \/ /\ Pc(t) = "b_wait" /\ b_reply[t]
       /\ b_reply' = [b_reply EXCEPT ![t] = FALSE] /\ UNCHANGED <<b_cmds, cmds, reply>>
    \/ /\ Pc(t) = "join" /\ forwarder = "exited" /\ UNCHANGED <<b_reply, b_cmds, cmds, reply>>
    \/ /\ Pc(t) = "b_join" /\ UNCHANGED <<b_reply, b_cmds, cmds, reply>>
    \/ /\ Pc(t) = "wait" /\ (reply[t] # "none" \/ call[t].op = "flush")
       /\ reply' = [reply EXCEPT ![t] = "none"] /\ UNCHANGED <<b_reply, b_cmds, cmds>>

\* Each step of a call is a move, with what it sends or takes.
LEMMA ThreadMoves ==
    ASSUME TypeInv, StageInv, NEW t \in Threads, ThreadStep(t) \/ WaitTimeout(t)
    PROVE  /\ todo[t] # <<>> /\ StageInv' /\ Moved(t) /\ Sends(t)
           /\ UNCHANGED <<batcherVars, chunks, forwarder, sinks>>
<1>1. todo[t] # <<>> /\ StepDone(t) /\ UNCHANGED <<batcherVars, chunks, forwarder, sinks>>
  BY DEF ThreadStep, SendToBatcher, SendToForwarder, WaitForBatcher, JoinThread, WaitForSink,
         WaitTimeout, At, Idle
<1>2. StageInv' /\ Moved(t) /\ Pc(t) = Head(todo[t])
  BY <1>1, StepMoves, StageFacts
<1>3. Sends(t)
  <2>1. CASE SendToBatcher(t)
    BY <2>1, <1>2 DEF SendToBatcher, At, Sends, ToBatcher
  <2>2. CASE SendToForwarder(t)
    BY <2>2, <1>2 DEF SendToForwarder, At, Sends, ToForwarder
  <2>3. CASE WaitForBatcher(t)
    BY <2>3, <1>2 DEF WaitForBatcher, At, Sends
  <2>4. CASE JoinThread(t)
    BY <2>4, <1>2 DEF JoinThread, At, Sends
  <2>5. CASE WaitForSink(t)
    BY <2>5, <1>2 DEF WaitForSink, At, Sends
  <2>6. CASE WaitTimeout(t)
    BY <2>6, <1>2 DEF WaitTimeout, At, Sends
  <2> QED BY <2>1, <2>2, <2>3, <2>4, <2>5, <2>6 DEF ThreadStep
<1> QED BY <1>1, <1>2, <1>3

-----------------------------------------------------------------------------
(* Types *)

\* Calls and steps of the threads keep the types.
LEMMA CallType ==
    ASSUME TypeInv, NEW t \in Threads, NEW c, Begun(t, c)
    PROVE  TypeInv'
<1>1. call' \in [Threads -> Call] /\ made' \in 0..MaxCalls
  BY DEF Begun, Started
<1>2. dropped' \in BOOLEAN /\ recorded' \subseteq Item
  BY DEF Begun, TypeInv
<1>3. UNCHANGED <<swapped, b_cmds, b_reply, batcher, accs, b_out, b_done, skip_next_tick,
                  num_rows, chunks, cmds, reply, forwarder, sinks>>
  BY DEF Begun, Started, batcherVars
<1>4. Pending' = Pending
  BY <1>3 DEF Pending
<1> QED BY <1>1, <1>2, <1>3, <1>4 DEF TypeInv

\* The steps of a call keep the types.
LEMMA ThreadType ==
    ASSUME TypeInv, StageInv, CallInv, NEW t \in Threads, todo[t] # <<>>, Moved(t), Sends(t),
           UNCHANGED <<batcherVars, chunks, forwarder, sinks>>
    PROVE  TypeInv'
<1>1. /\ UNCHANGED <<batcher, accs, b_out, b_done, skip_next_tick, num_rows, chunks, forwarder,
                     sinks, made, dropped, recorded>>
      /\ call' \in [Threads -> Call]
  BY DEF Moved, batcherVars
<1>2. Pending' = Pending
  BY <1>1 DEF Pending
<1>3. swapped' \in [Threads -> 0..MaxCalls]
  <2>1. call[t].nr \in 0..MaxCalls
    <3>1. call[t].nr <= made /\ made \in 0..MaxCalls /\ MaxCalls \in Nat
      BY StreamAssumption DEF CallInv, TypeInv
    <3>2. call[t] \in Call
      BY DEF TypeInv
    <3>3. call[t].nr \in Nat
      BY <3>2 DEF Call, NoCall
    <3> QED BY <3>1, <3>3
  <2>2. \A u \in Threads : swapped'[u] \in 0..MaxCalls
    BY <2>1 DEF Moved, TypeInv
  <2> QED BY <2>2 DEF Moved
<1>4. /\ b_cmds' \in Seq(Cmd) /\ Len(b_cmds') <= QueueLen
      /\ cmds' \in Seq(Cmd) /\ Len(cmds') <= QueueLen
  <2>1. Command(t) \in Cmd /\ QueueLen \in Nat
    BY StageFacts, StreamAssumption
  <2>2. /\ b_cmds \in Seq(Cmd) /\ cmds \in Seq(Cmd)
        /\ Len(b_cmds) <= QueueLen /\ Len(cmds) <= QueueLen
    BY DEF TypeInv
  <2>3. \A q \in Seq(Cmd) : Len(q) < QueueLen =>
            Append(q, Command(t)) \in Seq(Cmd) /\ Len(Append(q, Command(t))) <= QueueLen
    BY <2>1, CmdsAppend
  <2> QED BY <2>2, <2>3 DEF Sends
<1>5. b_reply' \in [Threads -> BOOLEAN] /\ reply' \in [Threads -> {"none", "ok", "err"}]
  BY DEF Sends, TypeInv
<1> QED BY <1>1, <1>2, <1>3, <1>4, <1>5 DEF TypeInv

-----------------------------------------------------------------------------
(* The steps of the batching thread *)

\* A command that carries an item, and what the other commands carry.
LEMMA CmdFacts ==
    ASSUME NEW c \in Cmd
    PROVE  /\ c.step \in Step /\ c.from \in Threads /\ c.call \in Call /\ c.call.nr \in Nat
           /\ c.call.op \in SenderOf(c.step)
           /\ c.step \in {"b_row", "b_chunk", "msg"} => c.call.item \in Item /\ Carried(c) = {c.call.item}
           /\ c.step \notin {"b_row", "b_chunk", "msg"} => Carried(c) = {}
           /\ c.step \in {"b_config", "swap"} => c.call.sink \in SinkKinds
           /\ Carried(c) \subseteq Item
<1>1. /\ c.step \in Step /\ c.from \in Threads /\ c.call \in Call /\ c.call.op \in SenderOf(c.step)
  BY DEF Cmd
<1>2. c.call.nr \in Nat
  BY <1>1 DEF Call, NoCall
<1>3. ASSUME c.step \in {"b_row", "b_chunk", "msg"} PROVE c.call.item \in Item
  <2>1. c.call.op \in {"row", "chunk", "msg"}
    BY <1>1, <1>3 DEF SenderOf
  <2> QED BY <1>1, <2>1 DEF Call, NoCall
<1>4. ASSUME c.step \in {"b_config", "swap"} PROVE c.call.sink \in SinkKinds
  <2>1. c.call.op = "set_sink"
    BY <1>1, <1>4 DEF SenderOf
  <2> QED BY <1>1, <2>1 DEF Call, NoCall
<1> QED BY <1>1, <1>2, <1>3, <1>4 DEF Carried

\* One accumulator changes.
LEMMA AccsPut ==
    ASSUME NEW a \in [Entities -> Seq(Item)], NEW b \in [Entities -> Seq(Item)],
           NEW e \in Entities, \A d \in Entities : d # e => b[d] = a[d]
    PROVE  /\ OfAccs(b) \cup ToSet(a[e]) = OfAccs(a) \cup ToSet(b[e])
           /\ ToSet(a[e]) \subseteq OfAccs(a) /\ ToSet(b[e]) \subseteq OfAccs(b)
<1>1. /\ \A x : x \in OfAccs(a) <=> \E d \in Entities : x \in ToSet(a[d])
      /\ \A x : x \in OfAccs(b) <=> \E d \in Entities : x \in ToSet(b[d])
  BY DEF OfAccs
<1>2. \A x : x \in OfAccs(b) \cup ToSet(a[e]) <=> x \in OfAccs(a) \cup ToSet(b[e])
  BY <1>1
<1> QED BY <1>1, <1>2

\* The batching thread takes a command: what it carries is now in an
\* accumulator or on its way out.
Takes ==
    /\ b_cmds # <<>> /\ b_cmds' = Tail(b_cmds) /\ b_out = <<>> /\ b_done = {}
    /\ OfChunks(b_out') \cup OfAccs(accs') = OfAccs(accs) \cup Carried(Head(b_cmds))
    /\ b_done' = IF Head(b_cmds).step = "b_flush" THEN {Head(b_cmds).from} ELSE {}
    /\ Head(b_cmds).step = "b_flush" => OfAccs(accs') = {}
    /\ UNCHANGED <<b_reply, chunks>>

\* Rows only move, from the accumulators to the output or on to the channel.
Flows ==
    /\ UNCHANGED <<b_cmds, b_reply, b_done>>
    /\ OfChunks(chunks) \subseteq OfChunks(chunks')
    /\ OfChunks(chunks) \cup OfChunks(b_out) \subseteq OfChunks(chunks') \cup OfChunks(b_out')
    /\ OfChunks(chunks') \cup OfChunks(b_out') \cup OfAccs(accs')
          = OfChunks(chunks) \cup OfChunks(b_out) \cup OfAccs(accs)

\* The batching thread answers a flush.
Replies ==
    /\ b_out = <<>> /\ b_done' = {} /\ UNCHANGED <<b_cmds, chunks, b_out, accs>>
    /\ \A t \in Threads : b_reply'[t] <=> b_reply[t] \/ t \in b_done

\* The types of what the batching thread changes.
BatcherTypes ==
    /\ b_cmds \in Seq(Cmd) /\ Len(b_cmds) <= QueueLen
    /\ b_reply \in [Threads -> BOOLEAN]
    /\ batcher \in {"running", "exiting", "exited"}
    /\ accs \in [Entities -> Seq(Item)] /\ IsFiniteSet(Pending)
    /\ b_out \in Seq(Seq(Item)) /\ chunks \in Seq(Seq(Item)) /\ Len(chunks) <= QueueLen
    /\ b_done \subseteq Threads
    /\ skip_next_tick \in BOOLEAN /\ num_rows \in Nat

\* The batcher's queue after a command has left it.
LEMMA QueueTail ==
    ASSUME TypeInv, b_cmds # <<>>
    PROVE  Tail(b_cmds) \in Seq(Cmd) /\ Len(Tail(b_cmds)) <= QueueLen /\ Head(b_cmds) \in Cmd
<1>1. b_cmds \in Seq(Cmd) /\ Len(b_cmds) <= QueueLen /\ QueueLen \in Nat
  BY StreamAssumption DEF TypeInv
<1>2. /\ Len(b_cmds) \in Nat /\ Tail(b_cmds) \in Seq(Cmd) /\ Len(Tail(b_cmds)) = Len(b_cmds) - 1
      /\ Head(b_cmds) \in Cmd
  BY <1>1, CmdsTail
<1> QED BY <1>1, <1>2

\* A row joins its accumulator, or leaves with all of it.
LEMMA BatcherRowFacts == ASSUME TypeInv, BatcherRow PROVE Takes /\ BatcherTypes'
<1>1. /\ b_cmds # <<>> /\ b_cmds' = Tail(b_cmds) /\ b_out = <<>> /\ b_done = {}
      /\ Head(b_cmds).step = "b_row"
      /\ UNCHANGED <<b_reply, batcher, b_done, num_rows, chunks>>
  BY DEF BatcherRow, NextBatcherCmd, BatcherReady
<1>2. Tail(b_cmds) \in Seq(Cmd) /\ Len(Tail(b_cmds)) <= QueueLen /\ Head(b_cmds) \in Cmd
  BY <1>1, QueueTail
<1>3. PICK row : row = Head(b_cmds).call.item
  OBVIOUS
<1>4. row \in Item /\ Carried(Head(b_cmds)) = {row}
  BY <1>1, <1>2, <1>3, CmdFacts
<1>e. PICK e : e = row.entity
  OBVIOUS
<1>r. PICK rows : rows = Append(accs[e], row)
  OBVIOUS
<1>5. e \in Entities /\ accs[e] \in Seq(Item) /\ accs \in [Entities -> Seq(Item)]
  BY <1>4, <1>e DEF Item, TypeInv
<1>6. rows \in Seq(Item) /\ ToSet(rows) = ToSet(accs[e]) \cup {row}
  BY <1>4, <1>5, <1>r, AppendFacts
<1>7. <<>> \in Seq(Item) /\ ToSet(<<>>) = {}
  BY EmptySeq, EmptyFacts
<1>8. \/ b_out' \in ManyIntoChunks(rows) /\ accs' = [accs EXCEPT ![e] = <<>>] /\ skip_next_tick' = TRUE
      \/ accs' = [accs EXCEPT ![e] = rows] /\ b_out' = b_out /\ skip_next_tick' = skip_next_tick
  <2>1. PICK enough_bytes \in BOOLEAN :
          IF Len(rows) >= num_rows \/ enough_bytes
            THEN /\ b_out' \in ManyIntoChunks(rows)
                 /\ accs' = [accs EXCEPT ![e] = <<>>] /\ skip_next_tick' = TRUE
            ELSE /\ accs' = [accs EXCEPT ![e] = rows]
                 /\ UNCHANGED <<b_out, skip_next_tick>>
    BY <1>3, <1>e, <1>r, Zenon DEF BatcherRow
  <2> QED BY <2>1
<1>9. accs' \in [Entities -> Seq(Item)] /\ \A d \in Entities : d # e => accs'[d] = accs[d]
  BY <1>5, <1>6, <1>7, <1>8
<1>10. IsFiniteSet(Pending')
  <2>1. Pending' \subseteq Pending \cup {e} /\ IsFiniteSet(Pending)
    BY <1>9 DEF Pending, TypeInv
  <2> QED BY <2>1, FS_AddElement, FS_Subset
<1>a. PICK a : a = accs'
  OBVIOUS
<1>11. OfAccs(a) \cup ToSet(accs[e]) = OfAccs(accs) \cup ToSet(a[e]) /\ ToSet(a[e]) \subseteq OfAccs(a)
       /\ ToSet(accs[e]) \subseteq OfAccs(accs)
  BY <1>5, <1>9, <1>a, AccsPut
<1>12. b_out' \in Seq(Seq(Item)) /\ OfChunks(b_out') \cup OfAccs(a) = OfAccs(accs) \cup {row}
  <2>1. CASE b_out' \in ManyIntoChunks(rows) /\ accs' = [accs EXCEPT ![e] = <<>>]
    <3>1. a[e] = <<>>
      BY <1>5, <1>a, <2>1
    <3>2. b_out' \in Seq(Seq(Item)) /\ OfChunks(b_out') = ToSet(rows)
      BY <1>6, <2>1, ManyIntoChunksFacts
    <3> QED BY <3>1, <3>2, <1>6, <1>7, <1>11
  <2>2. CASE accs' = [accs EXCEPT ![e] = rows] /\ b_out' = b_out
    <3>1. a[e] = rows
      BY <1>5, <1>a, <2>2
    <3>2. b_out' \in Seq(Seq(Item)) /\ OfChunks(b_out') = {}
      BY <1>1, <2>2, ChunksFew
    <3> QED BY <3>1, <3>2, <1>6, <1>11
  <2> QED BY <1>8, <2>1, <2>2
<1>13. Takes
  BY <1>1, <1>4, <1>12, <1>a DEF Takes
<1>14. skip_next_tick' \in BOOLEAN
  BY <1>8 DEF TypeInv
<1>15. BatcherTypes'
  BY <1>1, <1>2, <1>9, <1>10, <1>12, <1>14 DEF BatcherTypes, TypeInv
<1> QED BY <1>13, <1>15

\* The commands of the batching thread.
LEMMA BatcherTakes ==
    ASSUME TypeInv, BatcherRow \/ BatcherChunk \/ BatcherFlush \/ BatcherUpdateConfig \/ BatcherShutdown
    PROVE  Takes /\ BatcherTypes'
<1>1. /\ b_cmds # <<>> /\ b_cmds' = Tail(b_cmds) /\ b_out = <<>> /\ b_done = {}
      /\ UNCHANGED <<b_reply, chunks>>
  BY DEF BatcherRow, BatcherChunk, BatcherFlush, BatcherUpdateConfig, BatcherShutdown,
         NextBatcherCmd, BatcherReady
<1>2. Tail(b_cmds) \in Seq(Cmd) /\ Len(Tail(b_cmds)) <= QueueLen /\ Head(b_cmds) \in Cmd
  BY <1>1, QueueTail
<1>h. PICK c : c = Head(b_cmds)
  OBVIOUS
<1>3. CASE BatcherRow
  BY <1>3, BatcherRowFacts
<1>4. CASE BatcherChunk
  <2>1. c.step = "b_chunk" /\ b_out' = << <<c.call.item>> >>
        /\ UNCHANGED <<batcher, accs, b_done, skip_next_tick, num_rows>>
    BY <1>4, <1>h DEF BatcherChunk, NextBatcherCmd
  <2>2. c.call.item \in Item /\ Carried(c) = {c.call.item}
    BY <1>2, <1>h, <2>1, CmdFacts
  <2>3. <<c.call.item>> \in Seq(Item) /\ ToSet(<<c.call.item>>) = {c.call.item}
    BY <2>2, SingleFacts
  <2>4. b_out' \in Seq(Seq(Item)) /\ OfChunks(b_out') = {c.call.item}
    BY <2>1, <2>3, ChunksFew
  <2>5. Pending' = Pending
    BY <2>1 DEF Pending
  <2>6. OfChunks(b_out') \cup OfAccs(accs') = OfAccs(accs) \cup Carried(c)
    BY <2>1, <2>2, <2>4
  <2>7. Takes
    BY <1>1, <1>h, <2>1, <2>6 DEF Takes
  <2> QED BY <1>1, <1>2, <2>1, <2>4, <2>5, <2>7 DEF BatcherTypes, TypeInv
<1>5. CASE BatcherFlush
  <2>1. /\ c.step = "b_flush" /\ FlushAll /\ b_done' = {c.from} /\ skip_next_tick' = TRUE
        /\ UNCHANGED <<batcher, num_rows>>
    BY <1>5, <1>h DEF BatcherFlush, NextBatcherCmd
  <2>2. Carried(c) = {} /\ c.from \in Threads
    BY <1>2, <1>h, <2>1, CmdFacts
  <2>3. /\ b_out' \in Seq(Seq(Item)) /\ OfChunks(b_out') = OfAccs(accs)
        /\ accs' \in [Entities -> Seq(Item)] /\ OfAccs(accs') = {}
        /\ IsFiniteSet(Pending')
    BY <2>1, FlushAllFacts
  <2>4. OfChunks(b_out') \cup OfAccs(accs') = OfAccs(accs) \cup Carried(c)
    BY <2>2, <2>3
  <2>5. Takes
    BY <1>1, <1>h, <2>1, <2>3, <2>4 DEF Takes
  <2> QED BY <1>1, <1>2, <2>1, <2>2, <2>3, <2>5 DEF BatcherTypes, TypeInv
<1>6. CASE BatcherUpdateConfig
  <2>1. /\ c.step = "b_config" /\ num_rows' = RowThreshold[c.call.sink]
        /\ UNCHANGED <<batcher, accs, b_out, b_done, skip_next_tick>>
    BY <1>6, <1>h DEF BatcherUpdateConfig, NextBatcherCmd
  <2>2. Carried(c) = {} /\ c.call.sink \in SinkKinds
    BY <1>2, <1>h, <2>1, CmdFacts
  <2>3. num_rows' \in Nat
    BY <2>1, <2>2, StreamAssumption
  <2>4. Pending' = Pending
    BY <2>1 DEF Pending
  <2>5. OfChunks(b_out') \cup OfAccs(accs') = OfAccs(accs) \cup Carried(c)
    BY <1>1, <2>1, <2>2, ChunksFew
  <2>6. Takes
    BY <1>1, <1>h, <2>1, <2>5 DEF Takes
  <2> QED BY <1>1, <1>2, <2>1, <2>3, <2>4, <2>6 DEF BatcherTypes, TypeInv
<1>7. CASE BatcherShutdown
  <2>1. /\ c.step = "b_shutdown" /\ FlushAll /\ batcher' = "exiting"
        /\ UNCHANGED <<b_done, skip_next_tick, num_rows>>
    BY <1>7, <1>h DEF BatcherShutdown, NextBatcherCmd
  <2>2. Carried(c) = {}
    BY <1>2, <1>h, <2>1, CmdFacts
  <2>3. /\ b_out' \in Seq(Seq(Item)) /\ OfChunks(b_out') = OfAccs(accs)
        /\ accs' \in [Entities -> Seq(Item)] /\ OfAccs(accs') = {}
        /\ IsFiniteSet(Pending')
    BY <2>1, FlushAllFacts
  <2>4. OfChunks(b_out') \cup OfAccs(accs') = OfAccs(accs) \cup Carried(c)
    BY <2>2, <2>3
  <2>5. Takes
    BY <1>1, <1>h, <2>1, <2>4 DEF Takes
  <2> QED BY <1>1, <1>2, <2>1, <2>3, <2>5 DEF BatcherTypes, TypeInv
<1> QED BY <1>3, <1>4, <1>5, <1>6, <1>7

\* The tick, the send of a chunk and the exit.
LEMMA BatcherFlows ==
    ASSUME TypeInv, BatcherTick \/ BatcherSend \/ BatcherExit
    PROVE  Flows /\ BatcherTypes'
<1>1. CASE BatcherTick
  <2>1. /\ b_out = <<>> /\ UNCHANGED <<b_cmds, b_reply, batcher, b_done, num_rows, chunks>>
        /\ skip_next_tick' = FALSE
        /\ UNCHANGED <<accs, b_out>> \/ FlushAll
    BY <1>1 DEF BatcherTick, BatcherReady
  <2>2. OfChunks(b_out) = {}
    BY <2>1, ChunksFew
  <2>3. CASE UNCHANGED <<accs, b_out>>
    <3>1. Pending' = Pending
      BY <2>3 DEF Pending
    <3>2. Flows
      BY <2>1, <2>3 DEF Flows
    <3> QED BY <2>1, <2>3, <3>1, <3>2 DEF BatcherTypes, TypeInv
  <2>4. CASE FlushAll
    <3>1. /\ b_out' \in Seq(Seq(Item)) /\ OfChunks(b_out') = OfAccs(accs)
          /\ accs' \in [Entities -> Seq(Item)] /\ OfAccs(accs') = {}
          /\ IsFiniteSet(Pending')
      BY <2>4, FlushAllFacts
    <3>2. Flows
      BY <2>1, <2>2, <3>1 DEF Flows
    <3> QED BY <2>1, <3>1, <3>2 DEF BatcherTypes, TypeInv
  <2> QED BY <2>1, <2>3, <2>4
<1>2. CASE BatcherSend
  <2>1. /\ b_out # <<>> /\ Len(chunks) < QueueLen
        /\ chunks' = Append(chunks, Head(b_out)) /\ b_out' = Tail(b_out)
        /\ UNCHANGED <<b_cmds, b_reply, batcher, accs, b_done, skip_next_tick, num_rows>>
    BY <1>2 DEF BatcherSend
  <2>2. b_out \in Seq(Seq(Item)) /\ chunks \in Seq(Seq(Item)) /\ QueueLen \in Nat
    BY StreamAssumption DEF TypeInv
  <2>3. /\ Tail(b_out) \in Seq(Seq(Item)) /\ Head(b_out) \in Seq(Item)
        /\ OfChunks(b_out) = ToSet(Head(b_out)) \cup OfChunks(Tail(b_out))
    BY <2>1, <2>2, ChunksTail
  <2>h. PICK c : c = Head(b_out)
    OBVIOUS
  <2>4. /\ Append(chunks, c) \in Seq(Seq(Item)) /\ Len(chunks) \in Nat
        /\ Len(Append(chunks, c)) = Len(chunks) + 1
        /\ OfChunks(Append(chunks, c)) = OfChunks(chunks) \cup ToSet(c)
    BY <2>2, <2>3, <2>h, ChunksAppend
  <2>5. chunks' \in Seq(Seq(Item)) /\ Len(chunks') <= QueueLen
        /\ OfChunks(chunks') = OfChunks(chunks) \cup ToSet(c)
    BY <2>1, <2>2, <2>4, <2>h
  <2>6. b_out' \in Seq(Seq(Item)) /\ OfChunks(b_out) = ToSet(c) \cup OfChunks(b_out')
    BY <2>1, <2>3, <2>h
  <2>7. Pending' = Pending
    BY <2>1 DEF Pending
  <2>8. Flows
    BY <2>1, <2>5, <2>6 DEF Flows
  <2> QED BY <2>1, <2>5, <2>6, <2>7, <2>8 DEF BatcherTypes, TypeInv
<1>3. CASE BatcherExit
  <2>1. /\ UNCHANGED <<b_cmds, b_reply, accs, b_out, b_done, skip_next_tick, num_rows, chunks>>
        /\ batcher' = "exited"
    BY <1>3 DEF BatcherExit
  <2>2. Pending' = Pending
    BY <2>1 DEF Pending
  <2>3. Flows
    BY <2>1 DEF Flows
  <2> QED BY <2>1, <2>2, <2>3 DEF BatcherTypes, TypeInv
<1> QED BY <1>1, <1>2, <1>3

\* The answer to a flush.
LEMMA BatcherReplies == ASSUME TypeInv, BatcherReply PROVE Replies /\ BatcherTypes'
<1>1. /\ b_out = <<>> /\ b_done' = {}
      /\ b_reply' = [t \in Threads |-> b_reply[t] \/ t \in b_done]
      /\ UNCHANGED <<b_cmds, batcher, accs, b_out, skip_next_tick, num_rows, chunks>>
  BY DEF BatcherReply
<1>2. b_reply \in [Threads -> BOOLEAN]
  BY DEF TypeInv
<1>4. b_reply' \in [Threads -> BOOLEAN] /\ \A t \in Threads : b_reply'[t] <=> b_reply[t] \/ t \in b_done
  BY <1>1, <1>2
<1>5. Pending' = Pending
  BY <1>1 DEF Pending
<1>6. Replies
  BY <1>1, <1>4 DEF Replies
<1> QED BY <1>1, <1>4, <1>5, <1>6 DEF BatcherTypes, TypeInv

\* The batching thread as seen from the others.
LEMMA BatcherMoves ==
    ASSUME TypeInv, BatcherStep \/ BatcherTick
    PROVE  /\ Takes \/ Flows \/ Replies
           /\ UNCHANGED <<threadVars, cmds, reply, forwarder, sinks>>
           /\ OfChunks(chunks) \subseteq OfChunks(chunks')
           /\ TypeInv'
<1>1. UNCHANGED <<threadVars, cmds, reply, forwarder, sinks>>
  BY DEF BatcherStep, BatcherRow, BatcherChunk, BatcherFlush, BatcherUpdateConfig, BatcherShutdown,
         BatcherSend, BatcherReply, BatcherExit, BatcherTick
<1>2. (Takes \/ Flows \/ Replies) /\ BatcherTypes'
  BY BatcherTakes, BatcherFlows, BatcherReplies DEF BatcherStep
<1>3. OfChunks(chunks) \subseteq OfChunks(chunks')
  BY <1>2 DEF Takes, Flows, Replies
<1>4. TypeInv'
  BY <1>1, <1>2 DEF TypeInv, BatcherTypes, threadVars
<1> QED BY <1>1, <1>2, <1>3, <1>4

-----------------------------------------------------------------------------
(* The steps of the forwarding thread *)

\* The last of the sinks is replaced.
LEMMA LastUpdated ==
    ASSUME NEW s \in Seq(Sink), s # <<>>, NEW v \in Sink, NEW u, u = [s EXCEPT ![Len(s)] = v]
    PROVE  LastBecomes(s, u, v) /\ s[Len(s)] \in Sink
<1>n. PICK n : n = Len(s)
  OBVIOUS
<1>1. n \in Nat \ {0} /\ s \in [1..n -> Sink]
  BY <1>n, LenProperties, EmptySeq
<1>2. n \in 1..n
  BY <1>1
<1>3. u = [s EXCEPT ![n] = v]
  BY <1>n
<1>4. u \in [1..n -> Sink] /\ u[n] = v /\ \A k \in 1..n : k # n => u[k] = s[k]
  BY <1>1, <1>2, <1>3
<1>5. u \in Seq(Sink) /\ Len(u) = n
  BY <1>1, <1>4
<1>6. u # <<>>
  BY <1>1, <1>5, EmptySeq
<1> QED BY <1>n, <1>1, <1>2, <1>4, <1>5, <1>6 DEF LastBecomes

\* A sink that is flushed keeps its items.
LEMMA FlushedFacts ==
    ASSUME NEW s \in Sink, NEW ok \in BOOLEAN
    PROVE  LET f == Flushed(s, ok) IN
           /\ f \in Sink /\ f.id = s.id /\ f.msgs = s.msgs
           /\ f.failed \/ f.flushed = Len(f.msgs)
           /\ ok => f.flushed = Len(f.msgs)
<1>1. s.msgs \in Seq(Item)
  BY DEF Sink
<1>2. Len(s.msgs) \in Nat
  BY <1>1, LenProperties
<1>3. CASE ok
  <2>1. Flushed(s, ok) = [s EXCEPT !.flushed = Len(s.msgs)]
    BY <1>3 DEF Flushed
  <2> QED BY <2>1, <1>2 DEF Sink
<1>4. CASE ~ok
  <2>1. Flushed(s, ok) = [s EXCEPT !.failed = TRUE]
    BY <1>4 DEF Flushed
  <2> QED BY <2>1, <1>4 DEF Sink
<1> QED BY <1>3, <1>4

\* What is recorded comes after the swaps that returned before.
AfterSwaps(x) == \A y \in x : y.after # 0 => Present(y.after, sinks)

\* Items are delivered to the current sink, or it is flushed.
LEMMA DeliverGrows ==
    ASSUME TypeInv, NEW items \in Seq(Item), AfterSwaps(ToSet(items)), sinks' = Delivered(items)
    PROVE  Grown(sinks, sinks', ToSet(items))
<1>s. PICK s, u : s = sinks /\ u = sinks'
  OBVIOUS
<1>1. s \in Seq(Sink) /\ s # <<>>
  BY <1>s DEF TypeInv
<1>2. s[Len(s)] \in Sink
  BY <1>1, LenProperties, EmptySeq, ElementOfSeq
<1>3. s[Len(s)].msgs \in Seq(Item)
  BY <1>2 DEF Sink
<1>m. PICK m : m = s[Len(s)].msgs \o items
  OBVIOUS
<1>4. m \in Seq(Item)
  BY <1>m, <1>3, ConcatProperties
<1>v. PICK v : v = [s[Len(s)] EXCEPT !.msgs = m]
  OBVIOUS
<1>5. v \in Sink /\ v.id = s[Len(s)].id /\ v.msgs = m
  BY <1>v, <1>2, <1>4 DEF Sink
<1>6. u = [s EXCEPT ![Len(s)] = v]
  BY <1>s, <1>v, <1>m DEF Delivered
<1>7. LastBecomes(s, u, v)
  BY <1>1, <1>5, <1>6, LastUpdated
<1>8. \A x \in ToSet(items) : x.after # 0 => Present(x.after, s)
  BY <1>s DEF AfterSwaps
<1> QED BY <1>s, <1>1, <1>5, <1>7, <1>8, <1>m, SinksDeliver

\* A flush changes the current sink only, and loses nothing.
LEMMA FlushGrows ==
    ASSUME TypeInv, NEW ok \in BOOLEAN, sinks' = [sinks EXCEPT ![Len(sinks)] = Flushed(@, ok)]
    PROVE  /\ Grown(sinks, sinks', {})
           /\ LastBecomes(sinks, sinks', Flushed(sinks[Len(sinks)], ok))
           /\ sinks[Len(sinks)] \in Sink
<1>s. PICK s, u : s = sinks /\ u = sinks'
  OBVIOUS
<1>1. s \in Seq(Sink) /\ s # <<>>
  BY <1>s DEF TypeInv
<1>2. s[Len(s)] \in Sink
  BY <1>1, LenProperties, EmptySeq, ElementOfSeq
<1>3. s[Len(s)].msgs \in Seq(Item)
  BY <1>2 DEF Sink
<1>v. PICK v : v = Flushed(s[Len(s)], ok)
  OBVIOUS
<1>4. v \in Sink /\ v.id = s[Len(s)].id /\ v.msgs = s[Len(s)].msgs
  BY <1>v, <1>2, FlushedFacts
<1>5. u = [s EXCEPT ![Len(s)] = v]
  BY <1>s, <1>v
<1>6. LastBecomes(s, u, v)
  BY <1>1, <1>4, <1>5, LastUpdated
<1>7. s[Len(s)].msgs = s[Len(s)].msgs \o <<>> /\ <<>> \in Seq(Item) /\ ToSet(<<>>) = {}
  BY <1>3, ConcatEmptySeq, EmptySeq, EmptyFacts
<1>e. PICK e : e = <<>>
  OBVIOUS
<1>8. e \in Seq(Item) /\ ToSet(e) = {} /\ v.msgs = s[Len(s)].msgs \o e
  BY <1>e, <1>4, <1>7
<1>9. \A x \in ToSet(e) : x.after # 0 => Present(x.after, s)
  BY <1>8
<1>10. Grown(s, u, ToSet(e))
  BY <1>1, <1>4, <1>6, <1>8, <1>9, SinksDeliver
<1> QED BY <1>s, <1>2, <1>6, <1>8, <1>10, <1>v

\* A swap.
LEMMA SwapGrows ==
    ASSUME TypeInv, NEW id \in Nat, NEW kind \in SinkKinds \cup {"buffered"}, NEW ok \in BOOLEAN,
           sinks' = SwapTo(id, kind, ok)
    PROVE  Grown(sinks, sinks', {}) /\ Present(id, sinks')
<1>s. PICK s, u : s = sinks /\ u = sinks'
  OBVIOUS
<1>1. s \in Seq(Sink) /\ s # <<>>
  BY <1>s DEF TypeInv
<1>c. PICK c : c = s[Len(s)]
  OBVIOUS
<1>2. c \in Sink
  BY <1>c, <1>1, LenProperties, EmptySeq, ElementOfSeq
<1>3. c.msgs \in Seq(Item) /\ <<>> \in Seq(Item)
  BY <1>2, EmptySeq DEF Sink
<1>o. PICK old : old = IF c.kind = "buffered" THEN [c EXCEPT !.msgs = <<>>] ELSE c
  OBVIOUS
<1>b. PICK backlog : backlog = IF c.kind = "buffered" THEN c.msgs ELSE <<>>
  OBVIOUS
<1>4. /\ old \in Sink /\ old.id = c.id /\ backlog \in Seq(Item)
      /\ \/ old.msgs = c.msgs /\ backlog = <<>>
         \/ old.msgs = <<>> /\ backlog = c.msgs
  <2>1. CASE c.kind = "buffered"
    <3>1. old = [c EXCEPT !.msgs = <<>>] /\ backlog = c.msgs
      BY <1>o, <1>b, <2>1
    <3> QED BY <3>1, <1>2, <1>3 DEF Sink
  <2>2. CASE c.kind # "buffered"
    BY <2>2, <1>2, <1>3, <1>o, <1>b
  <2> QED BY <2>1, <2>2
<1>f. PICK f : f = Flushed(old, ok)
  OBVIOUS
<1>5. f \in Sink /\ f.id = c.id /\ f.msgs = old.msgs /\ (f.failed \/ f.flushed = Len(f.msgs))
  BY <1>f, <1>4, FlushedFacts
<1>g. PICK g : g = NewSink(id, kind, backlog)
  OBVIOUS
<1>6. g \in Sink /\ g.id = id /\ g.msgs = backlog
  BY <1>g, <1>4 DEF NewSink, Sink
<1>w. PICK w : w = [s EXCEPT ![Len(s)] = f]
  OBVIOUS
<1>7. LastBecomes(s, w, f)
  BY <1>w, <1>1, <1>5, LastUpdated
<1>8. u = Append(w, g)
  BY <1>s, <1>c, <1>o, <1>b, <1>f, <1>g, <1>w DEF SwapTo, Current
<1>9. \/ f.msgs = s[Len(s)].msgs /\ g.msgs = <<>>
      \/ f.msgs = <<>> /\ g.msgs = s[Len(s)].msgs
  BY <1>c, <1>4, <1>5, <1>6
<1>10. f.id = s[Len(s)].id
  BY <1>c, <1>5
<1>11. Grown(s, Append(w, g), {}) /\ Present(g.id, Append(w, g))
  BY <1>1, <1>5, <1>6, <1>7, <1>9, <1>10, SinksSwap
<1> QED BY <1>s, <1>6, <1>8, <1>11

\* The forwarding thread handles a command, or a chunk.
Handles ==
    /\ forwarder = "select" /\ cmds # <<>> /\ cmds' = Tail(cmds)
    /\ forwarder' = "drain" /\ chunks' = chunks
    /\ Grown(sinks, sinks', Carried(Head(cmds)))
    /\ Head(cmds).step # "shutdown"
    /\ Head(cmds).step = "swap" => Present(Head(cmds).call.nr, sinks')
    /\ \/ /\ reply' = reply /\ Head(cmds).step # "finalize"
       \/ /\ Head(cmds).step \in {"flush", "finalize"}
          /\ Head(cmds).step = "flush" => Waits(Head(cmds))
          /\ \E r \in {"ok", "err"} : reply' = [reply EXCEPT ![Head(cmds).from] = r]

Relays ==
    /\ forwarder \in {"drain", "select"} /\ chunks # <<>> /\ chunks' = Tail(chunks)
    /\ forwarder' = "drain" /\ UNCHANGED <<cmds, reply>>
    /\ Grown(sinks, sinks', ToSet(Head(chunks)))

Drains ==
    /\ forwarder = "drain" /\ chunks = <<>> /\ forwarder' = "select"
    /\ UNCHANGED <<chunks, cmds, reply, sinks>>

Exits ==
    /\ forwarder = "select" /\ cmds # <<>> /\ cmds' = Tail(cmds)
    /\ Head(cmds).step = "shutdown" /\ forwarder' = "exited"
    /\ UNCHANGED <<chunks, reply, sinks>>

\* The commands of the forwarding thread.
LEMMA ForwarderHandles ==
    ASSUME TypeInv, RecordedInv, SwapInv,
           \/ ForwardMsg \/ ForwardSwapSink \/ ForwardFlush \/ ForwardFinalize \/ ForwardPopPending
    PROVE  Handles
<1>1. /\ forwarder = "select" /\ cmds # <<>> /\ cmds' = Tail(cmds)
      /\ forwarder' = "drain" /\ chunks' = chunks
  BY DEF ForwardMsg, ForwardSwapSink, ForwardFlush, ForwardFinalize, ForwardPopPending, NextCmd
<1>c. PICK c : c = Head(cmds)
  OBVIOUS
<1>2. c \in Cmd /\ cmds \in Seq(Cmd) /\ Len(cmds) \in 1..Len(cmds)
      /\ OfCmds(cmds, Len(cmds)) = Carried(c) \cup OfCmds(Tail(cmds), Len(cmds) - 1)
  <2>1. cmds \in Seq(Cmd)
    BY DEF TypeInv
  <2>2. Len(cmds) \in Nat \ {0} /\ Head(cmds) \in Cmd
    BY <1>1, <2>1, CmdsTail
  <2>3. Len(cmds) \in 1..Len(cmds)
    BY <2>2
  <2> QED BY <1>1, <1>c, <2>1, <2>2, <2>3, CmdsTail
<1>3. c.call.nr \in Nat /\ (c.step \notin {"b_row", "b_chunk", "msg"} => Carried(c) = {})
  BY <1>2, CmdFacts
<1>4. Grown(sinks, sinks, {})
  BY DEF Grown, TypeInv
<1>5. CASE ForwardMsg
  <2>1. c.step = "msg" /\ sinks' = Delivered(<<c.call.item>>) /\ reply' = reply
    BY <1>5, <1>c DEF ForwardMsg, NextCmd
  <2>2. c.call.item \in Item /\ Carried(c) = {c.call.item}
    BY <1>2, <2>1, CmdFacts
  <2>3. <<c.call.item>> \in Seq(Item) /\ ToSet(<<c.call.item>>) = Carried(c)
    BY <2>2, SingleFacts
  <2>4. Carried(c) \subseteq recorded
    BY <1>2 DEF RecordedInv
  <2>5. AfterSwaps(Carried(c))
    BY <2>4 DEF AfterSwaps, SwapInv
  <2>6. Grown(sinks, sinks', Carried(c))
    BY <2>1, <2>3, <2>5, DeliverGrows
  <2> QED BY <1>1, <1>c, <2>1, <2>6 DEF Handles
<1>6. CASE ForwardSwapSink
  <2>1. c.step = "swap" /\ reply' = reply
    BY <1>6, <1>c DEF ForwardSwapSink, NextCmd
  <2>2. PICK ok \in BOOLEAN : sinks' = SwapTo(c.call.nr, c.call.sink, ok)
    BY <1>6, <1>c DEF ForwardSwapSink
  <2>3. c.call.sink \in SinkKinds
    BY <1>2, <2>1, CmdFacts
  <2>4. Grown(sinks, sinks', {}) /\ Present(c.call.nr, sinks')
    BY <1>3, <2>2, <2>3, SwapGrows
  <2>5. Carried(c) = {}
    BY <1>3, <2>1
  <2> QED BY <1>1, <1>c, <2>1, <2>4, <2>5 DEF Handles
<1>7. CASE ForwardFlush
  <2>1. c.step = "flush"
    BY <1>7, <1>c DEF ForwardFlush, NextCmd
  <2>2. PICK ok \in BOOLEAN :
          /\ sinks' = [sinks EXCEPT ![Len(sinks)] = Flushed(@, ok)]
          /\ reply' = IF Waits(c) THEN [reply EXCEPT ![c.from] = IF ok THEN "ok" ELSE "err"]
                                  ELSE reply
    BY <1>7, <1>c DEF ForwardFlush
  <2>3. Grown(sinks, sinks', {})
    BY <2>2, FlushGrows
  <2>4. Carried(c) = {}
    BY <1>3, <2>1
  <2>5. \/ reply' = reply
        \/ Waits(c) /\ \E r \in {"ok", "err"} : reply' = [reply EXCEPT ![c.from] = r]
    <3>1. CASE Waits(c) /\ ok
      BY <2>2, <3>1
    <3>2. CASE Waits(c) /\ ~ok
      BY <2>2, <3>2
    <3>3. CASE ~Waits(c)
      BY <2>2, <3>3
    <3> QED BY <3>1, <3>2, <3>3
  <2> QED BY <1>1, <1>c, <2>1, <2>3, <2>4, <2>5 DEF Handles
<1>8. CASE ForwardFinalize
  <2>1. c.step = "finalize" /\ reply' = [reply EXCEPT ![c.from] = "ok"]
    BY <1>8, <1>c DEF ForwardFinalize, NextCmd
  <2>2. Grown(sinks, sinks', {})
    <3>1. CASE Current.kind = "file"
      <4>1. PICK ok \in BOOLEAN : sinks' = SwapTo(c.call.nr, "buffered", ok)
        BY <1>8, <1>c, <3>1 DEF ForwardFinalize
      <4> QED BY <1>3, <4>1, SwapGrows
    <3>2. CASE Current.kind # "file"
      BY <1>4, <1>8, <3>2 DEF ForwardFinalize
    <3> QED BY <3>1, <3>2
  <2>3. Carried(c) = {}
    BY <1>3, <2>1
  <2> QED BY <1>1, <1>c, <2>1, <2>2, <2>3 DEF Handles
<1>9. CASE ForwardPopPending
  <2>1. c.step = "pop" /\ reply' = reply /\ sinks' = sinks
    BY <1>9, <1>c DEF ForwardPopPending, NextCmd
  <2>2. Carried(c) = {}
    BY <1>3, <2>1
  <2> QED BY <1>1, <1>4, <1>c, <2>1, <2>2 DEF Handles
<1> QED BY <1>5, <1>6, <1>7, <1>8, <1>9

\* The forwarding thread as seen from the others.
LEMMA ForwarderMoves ==
    ASSUME TypeInv, RecordedInv, SwapInv, ForwarderStep
    PROVE  /\ Handles \/ Relays \/ Drains \/ Exits
           /\ UNCHANGED <<threadVars, b_cmds, b_reply, batcherVars>>
           /\ TypeInv'
<1>1. UNCHANGED <<threadVars, b_cmds, b_reply, batcherVars>>
  BY DEF ForwarderStep, ForwardChunk, ForwardDrained, ForwardMsg, ForwardSwapSink, ForwardFlush,
         ForwardFinalize, ForwardPopPending, ForwardShutdown, NextCmd
<1>2. ASSUME ForwardChunk PROVE Relays
  <2>1. /\ forwarder \in {"drain", "select"} /\ chunks # <<>> /\ chunks' = Tail(chunks)
        /\ forwarder' = "drain" /\ UNCHANGED <<cmds, reply>>
        /\ sinks' = Delivered(Head(chunks))
    BY <1>2 DEF ForwardChunk
  <2>2. /\ Head(chunks) \in Seq(Item) /\ OfChunks(chunks) = ToSet(Head(chunks)) \cup OfChunks(Tail(chunks))
    BY <2>1, ChunksTail DEF TypeInv
  <2>3. ToSet(Head(chunks)) \subseteq recorded
    BY <2>2 DEF RecordedInv
  <2>4. AfterSwaps(ToSet(Head(chunks)))
    BY <2>3 DEF AfterSwaps, SwapInv
  <2>5. Grown(sinks, sinks', ToSet(Head(chunks)))
    BY <2>1, <2>2, <2>4, DeliverGrows
  <2> QED BY <2>1, <2>5 DEF Relays
<1>3. ASSUME ForwardDrained PROVE Drains
  BY <1>3 DEF ForwardDrained, Drains
<1>4. ASSUME ForwardShutdown PROVE Exits
  BY <1>4 DEF ForwardShutdown, Exits
<1>5. Handles \/ Relays \/ Drains \/ Exits
  BY <1>2, <1>3, <1>4, ForwarderHandles DEF ForwarderStep
<1>6. /\ call' \in [Threads -> Call] /\ made' \in 0..MaxCalls /\ dropped' \in BOOLEAN
      /\ swapped' \in [Threads -> 0..MaxCalls] /\ recorded' \subseteq Item
      /\ b_cmds' \in Seq(Cmd) /\ Len(b_cmds') <= QueueLen
      /\ b_reply' \in [Threads -> BOOLEAN] /\ batcher' \in {"running", "exiting", "exited"}
      /\ accs' \in [Entities -> Seq(Item)] /\ b_out' \in Seq(Seq(Item)) /\ b_done' \subseteq Threads
      /\ skip_next_tick' \in BOOLEAN /\ num_rows' \in Nat
  BY <1>1 DEF TypeInv, threadVars, batcherVars
<1>7. IsFiniteSet(Pending')
  <2>1. Pending' = Pending
    BY <1>1 DEF Pending, batcherVars
  <2> QED BY <2>1 DEF TypeInv
<1>8. cmds' \in Seq(Cmd) /\ Len(cmds') <= QueueLen
  <2>1. cmds \in Seq(Cmd) /\ Len(cmds) <= QueueLen /\ QueueLen \in Nat
    BY StreamAssumption DEF TypeInv
  <2>2. cmds # <<>> => /\ Tail(cmds) \in Seq(Cmd) /\ Len(cmds) \in Nat
                       /\ Len(Tail(cmds)) = Len(cmds) - 1
    BY <2>1, CmdsTail
  <2>3. cmds # <<>> => Tail(cmds) \in Seq(Cmd) /\ Len(Tail(cmds)) <= QueueLen
    BY <2>1, <2>2
  <2> QED BY <1>5, <2>1, <2>3 DEF Handles, Relays, Drains, Exits
<1>9. chunks' \in Seq(Seq(Item)) /\ Len(chunks') <= QueueLen
  <2>1. chunks \in Seq(Seq(Item)) /\ Len(chunks) <= QueueLen /\ QueueLen \in Nat
    BY StreamAssumption DEF TypeInv
  <2>2. chunks # <<>> => /\ Tail(chunks) \in Seq(Seq(Item)) /\ Len(chunks) \in Nat
                         /\ Len(Tail(chunks)) = Len(chunks) - 1
    BY <2>1, ChunksTail
  <2>3. chunks # <<>> => Tail(chunks) \in Seq(Seq(Item)) /\ Len(Tail(chunks)) <= QueueLen
    BY <2>1, <2>2
  <2> QED BY <1>5, <2>1, <2>3 DEF Handles, Relays, Drains, Exits
<1>10. reply' \in [Threads -> {"none", "ok", "err"}]
  BY <1>5 DEF Handles, Relays, Drains, Exits, TypeInv
<1>11. sinks' \in Seq(Sink) /\ sinks' # <<>>
  BY <1>5 DEF Handles, Relays, Drains, Exits, TypeInv, Grown
<1>12. forwarder' \in {"drain", "select", "exited"}
  BY <1>5 DEF Handles, Relays, Drains, Exits
<1>13. TypeInv'
  BY <1>6, <1>7, <1>8, <1>9, <1>10, <1>11, <1>12 DEF TypeInv
<1> QED BY <1>1, <1>5, <1>13

-----------------------------------------------------------------------------
(* Calls and their numbers *)

\* What CallInv says of a thread and of a command.
CallOf(t) ==
    /\ call[t].nr <= made
    /\ call[t].op = "drop" => dropped
    /\ dropped => call[t] = NoCall \/ call[t].op = "drop"
    /\ call[t].op \in {"row", "chunk", "msg"} => call[t].item.from = t
    /\ Pc(t) \in {"b_shutdown", "b_join"} => forwarder = "exited"
Issued(c) ==
    /\ c.call.nr <= made
    /\ c.call.op = "drop" => dropped
    /\ \/ c.call = call[c.from] \/ call[c.from] = NoCall \/ call[c.from].op = "drop"
       \/ c.call.nr < call[c.from].nr

\* CallInv by threads and commands.
LEMMA CallInvParts ==
    /\ CallInv <=> /\ \A t \in Threads : CallOf(t)
                   /\ \A c : (\E i \in 1..Len(cmds) : cmds[i] = c) => Issued(c)
    /\ CallInv' <=> /\ \A t \in Threads : CallOf(t)'
                    /\ \A c : (\E i \in 1..Len(cmds') : cmds'[i] = c) => Issued(c)'
  BY DEF CallInv, CallOf, Issued

\* The commands after the first one are commands of the queue.
LEMMA RestOfCmds ==
    ASSUME TypeInv, cmds' = cmds \/ (cmds # <<>> /\ cmds' = Tail(cmds)), NEW c,
           NEW i \in 1..Len(cmds'), cmds'[i] = c
    PROVE  \E j \in 1..Len(cmds) : cmds[j] = c
<1>1. CASE cmds' = cmds
  BY <1>1
<1>2. CASE cmds # <<>> /\ cmds' = Tail(cmds)
  <2>1. \A k \in 1..Len(Tail(cmds)) : Tail(cmds)[k] = cmds[k + 1] /\ k + 1 \in 1..Len(cmds)
    BY <1>2, CmdsTail DEF TypeInv
  <2> QED BY <1>2, <2>1
<1> QED BY <1>1, <1>2

\* A call that begins has the highest number.
LEMMA CallBegin ==
    ASSUME TypeInv, StageInv, CallInv, NEW t \in Threads, NEW c, Begun(t, c)
    PROVE  CallInv'
<1>1. /\ made \in Nat /\ made' \in Nat /\ (made' = made \/ made' = made + 1) /\ made <= made'
      /\ ~dropped /\ UNCHANGED <<cmds, forwarder>>
  BY StreamAssumption DEF Begun, Started, TypeInv
<1>2. ASSUME NEW u \in Threads PROVE CallOf(u)'
  <2>1. CASE u = t
    <3>1. call'[u] = c /\ c.nr = made' /\ Pc(u)' \in {"b_row", "b_chunk", "msg", "b_flush"}
      BY <2>1 DEF Begun, Started
    <3>2. /\ c.op = "drop" => dropped'
          /\ dropped' => c.op = "drop"
          /\ c.op \in {"row", "chunk", "msg"} => c.item.from = u
      BY <1>1, <2>1 DEF Begun
    <3>3. c.nr <= made'
      BY <1>1, <3>1
    <3> QED BY <3>1, <3>2, <3>3 DEF CallOf
  <2>2. CASE u # t
    <3>1. call'[u] = call[u] /\ Pc(u)' = Pc(u)
      BY <2>2 DEF Begun, Started
    <3>2. CallOf(u) /\ call[u].op # "drop"
      BY <1>1, CallInvParts DEF CallOf
    <3>3. dropped' => call[u] = NoCall
      BY <1>1, StageFacts DEF Begun
    <3>4. call[u].nr <= made'
      <4>1. call[u] \in Call
        BY DEF TypeInv
      <4>2. call[u].nr \in Nat
        BY <4>1 DEF Call, NoCall
      <4> QED BY <1>1, <3>2, <4>2 DEF CallOf
    <3> QED BY <1>1, <3>1, <3>2, <3>3, <3>4 DEF CallOf
  <2> QED BY <2>1, <2>2
<1>3. ASSUME NEW d, NEW i \in 1..Len(cmds'), cmds'[i] = d PROVE Issued(d)'
  <2>1. d \in Cmd /\ Issued(d)
    BY <1>1, <1>3, CallInvParts, ElementOfSeq DEF TypeInv
  <2>2. d.call.nr \in Nat /\ d.from \in Threads
    BY <2>1, CmdFacts
  <2>3. d.call.nr <= made /\ d.call.op # "drop"
    BY <1>1, <2>1 DEF Issued
  <2>4. d.call.nr <= made'
    BY <1>1, <2>2, <2>3
  <2>5. CASE d.from = t
    <3>1. call'[d.from] = c /\ (c.op = "drop" \/ (c.nr = made' /\ made' = made + 1))
      BY <2>5 DEF Begun, Started
    <3>2. c.op = "drop" \/ d.call.nr < c.nr
      BY <1>1, <2>2, <2>3, <3>1
    <3> QED BY <2>3, <2>4, <3>1, <3>2 DEF Issued
  <2>6. CASE d.from # t
    <3>1. call'[d.from] = call[d.from]
      BY <2>2, <2>6 DEF Begun, Started
    <3> QED BY <2>1, <2>3, <2>4, <3>1 DEF Issued
  <2> QED BY <2>5, <2>6
<1> QED BY <1>2, <1>3, CallInvParts

\* The steps of a call leave its number alone.
LEMMA CallStep ==
    ASSUME TypeInv, StageInv, CallInv, NEW t \in Threads, todo[t] # <<>>, Moved(t), Sends(t),
           UNCHANGED <<batcherVars, chunks, forwarder, sinks>>
    PROVE  CallInv'
<1>1. /\ UNCHANGED <<made, dropped, forwarder>> /\ made \in Nat
      /\ (call'[t] = call[t] \/ call'[t] = NoCall)
      /\ \A u \in Threads : u # t => call'[u] = call[u] /\ Pc(u)' = Pc(u)
  BY StreamAssumption DEF Moved, TypeInv
<1>2. NoCall.nr <= made /\ NoCall.op = "none"
  BY <1>1 DEF NoCall
<1>3. ASSUME NEW u \in Threads PROVE CallOf(u)'
  <2>1. CallOf(u)
    BY CallInvParts
  <2>2. CASE u = t
    <3>1. Pc(u)' \in {"b_shutdown", "b_join"} => forwarder = "exited"
      <4>1. Pc(t)' = NextOf(call[t].op, Pc(t)) /\ Pc(t) \in Step
            /\ call[t].op \in SenderOf(Pc(t))
        BY StageFacts DEF Moved
      <4>2. Pc(t)' = "b_shutdown" => Pc(t) = "join"
        BY <4>1, NextTable
      <4>3. Pc(t)' = "b_join" => Pc(t) = "b_shutdown"
        BY <4>1, NextTable
      <4>4. Pc(t) = "join" => forwarder = "exited"
        BY DEF Sends, ToBatcher, ToForwarder
      <4> QED BY <2>1, <2>2, <4>2, <4>3, <4>4 DEF CallOf
    <3>2. CASE call'[t] = call[t]
      BY <1>1, <2>1, <2>2, <3>1, <3>2 DEF CallOf
    <3>3. CASE call'[t] = NoCall
      BY <1>1, <1>2, <2>2, <3>1, <3>3 DEF CallOf
    <3> QED BY <1>1, <3>2, <3>3
  <2>3. CASE u # t
    BY <1>1, <2>1, <2>3 DEF CallOf
  <2> QED BY <2>2, <2>3
<1>4. ASSUME NEW d, NEW i \in 1..Len(cmds'), cmds'[i] = d PROVE Issued(d)'
  <2>1. (\E j \in 1..Len(cmds) : cmds[j] = d) \/ d = Command(t)
    <3>1. cmds' = cmds \/ cmds' = Append(cmds, Command(t))
      BY DEF Sends
    <3>2. CASE cmds' = Append(cmds, Command(t))
      <4>1. cmds \in Seq(Cmd) /\ Command(t) \in Cmd
        BY StageFacts DEF TypeInv
      <4>2. /\ Len(cmds) \in Nat /\ Len(cmds') = Len(cmds) + 1 /\ cmds'[Len(cmds) + 1] = Command(t)
            /\ \A k \in 1..Len(cmds) : cmds'[k] = cmds[k]
        BY <3>2, <4>1, CmdsAppend
      <4>3. i \in 1..Len(cmds) \/ i = Len(cmds) + 1
        BY <4>2
      <4> QED BY <1>4, <4>2, <4>3
    <3> QED BY <1>4, <3>1, <3>2
  <2>2. CASE \E j \in 1..Len(cmds) : cmds[j] = d
    <3>1. Issued(d) /\ d \in Cmd
      BY <2>2, CallInvParts, ElementOfSeq DEF TypeInv
    <3>2. d.from \in Threads
      BY <3>1, CmdFacts
    <3>3. call'[d.from] = call[d.from] \/ call'[d.from] = NoCall
      BY <1>1, <3>2
    <3> QED BY <1>1, <3>1, <3>3 DEF Issued
  <2>3. CASE d = Command(t)
    <3>1. d.from = t /\ d.call = call[t]
      BY <2>3 DEF Command
    <3>2. CallOf(t)
      BY CallInvParts
    <3> QED BY <1>1, <3>1, <3>2 DEF CallOf, Issued
  <2> QED BY <2>1, <2>2, <2>3
<1> QED BY <1>3, <1>4, CallInvParts

\* The forwarding thread only takes commands away.
LEMMA CallForward ==
    ASSUME TypeInv, CallInv, Handles \/ Relays \/ Drains \/ Exits, UNCHANGED threadVars
    PROVE  CallInv'
<1>1. /\ cmds' = cmds \/ (cmds # <<>> /\ cmds' = Tail(cmds))
      /\ forwarder # "exited"
  BY DEF Handles, Relays, Drains, Exits
<1>2. UNCHANGED <<call, todo, made, dropped>>
  BY DEF threadVars
<1>3. ASSUME NEW t \in Threads PROVE CallOf(t)'
  <2>1. CallOf(t) /\ Pc(t)' = Pc(t)
    BY <1>2, CallInvParts DEF Pc
  <2> QED BY <1>1, <1>2, <2>1 DEF CallOf
<1>4. ASSUME NEW c, NEW i \in 1..Len(cmds'), cmds'[i] = c PROVE Issued(c)'
  <2>1. Issued(c)
    BY <1>1, <1>4, RestOfCmds, CallInvParts
  <2> QED BY <1>2, <2>1 DEF Issued
<1> QED BY <1>3, <1>4, CallInvParts

-----------------------------------------------------------------------------
(* Every item that was recorded is somewhere *)

Recording == {"b_row", "b_chunk", "msg"}

\* The items that have not left their thread.
LEMMA AtThreadIs ==
    /\ \A x : x \in AtThread <=> \E u \in Threads : Pc(u) \in Recording /\ x = call[u].item
    /\ \A x : x \in AtThread' <=> \E u \in Threads : Pc(u)' \in Recording /\ x = call'[u].item
<1>1. \A u \in Threads : At(u, Recording) <=> Pc(u) \in Recording
  BY DEF At, Idle, Pc, Recording
<1>2. \A u \in Threads : At(u, Recording)' <=> Pc(u)' \in Recording
  BY DEF At, Idle, Pc, Recording
<1>3. AtThread = {call[t].item : t \in {u \in Threads : At(u, Recording)}}
  BY DEF AtThread, Recording
<1>4. AtThread' = {call'[t].item : t \in {u \in Threads : At(u, Recording)'}}
  BY DEF AtThread, Recording
<1> QED BY <1>1, <1>2, <1>3, <1>4

\* An item that is recorded is at its thread.
LEMMA RecordedBegin ==
    ASSUME RecordedInv, NEW t \in Threads, NEW c, Begun(t, c)
    PROVE  RecordedInv'
<1>1. UNCHANGED <<b_cmds, accs, b_out, chunks, cmds, sinks>>
  BY DEF Begun, Started, batcherVars
<1>2. /\ Pc(t) = "idle" /\ call'[t] = c
      /\ \A u \in Threads : u # t => Pc(u)' = Pc(u) /\ call'[u] = call[u]
  BY DEF Begun, Started
<1>3. CASE c.op \in {"row", "chunk", "msg"}
  <2>1. Pc(t)' \in Recording /\ recorded' = recorded \cup {c.item}
    BY <1>3 DEF Begun, Recording
  <2>2. \A x : x \in AtThread' <=> x \in AtThread \cup {c.item}
    BY <1>2, <2>1, AtThreadIs DEF Recording
  <2>3. AtThread' = AtThread \cup {c.item}
    BY <2>2
  <2> QED BY <1>1, <2>1, <2>3 DEF RecordedInv
<1>4. CASE c.op \notin {"row", "chunk", "msg"}
  <2>1. Pc(t)' \notin Recording /\ recorded' = recorded
    BY <1>4 DEF Begun, Recording
  <2>2. \A x : x \in AtThread' <=> x \in AtThread
    BY <1>2, <2>1, AtThreadIs DEF Recording
  <2>3. AtThread' = AtThread
    BY <2>2
  <2> QED BY <1>1, <2>1, <2>3 DEF RecordedInv
<1> QED BY <1>3, <1>4

\* An item leaves its thread with a command.
LEMMA RecordedStep ==
    ASSUME TypeInv, StageInv, RecordedInv, NEW t \in Threads, todo[t] # <<>>, Moved(t), Sends(t),
           UNCHANGED <<batcherVars, chunks, forwarder, sinks>>
    PROVE  RecordedInv'
<1>1. UNCHANGED <<accs, b_out, chunks, sinks, recorded>>
  BY DEF Moved, batcherVars
<1>2. /\ Pc(t) \in Step /\ call[t].op \in SenderOf(Pc(t)) /\ Command(t) \in Cmd /\ Pc(t) = Head(todo[t])
      /\ Pc(t)' = NextOf(call[t].op, Pc(t))
      /\ \A u \in Threads : u # t => Pc(u)' = Pc(u) /\ call'[u] = call[u]
  BY StageFacts DEF Moved
<1>3. Pc(t)' \notin Recording
  BY <1>2, NextTable DEF Recording
<1>4. Command(t).step = Pc(t) /\ Command(t).call = call[t]
  BY <1>2 DEF Command
<1>5. b_cmds \in Seq(Cmd) /\ cmds \in Seq(Cmd)
  BY DEF TypeInv
<1>d. PICK d : d = Command(t)
  OBVIOUS
<1>6. AtThread = AtThread' \cup Carried(d)
  <2>1. Carried(d) = IF Pc(t) \in Recording THEN {call[t].item} ELSE {}
    BY <1>4, <1>d DEF Carried, Recording
  <2>2. \A x : x \in AtThread <=> x \in AtThread' \cup Carried(d)
    BY <1>2, <1>3, <2>1, AtThreadIs
  <2> QED BY <2>2
<1>7. \A q \in Seq(Cmd) : OfCmds(Append(q, d), Len(Append(q, d))) = OfCmds(q, Len(q)) \cup Carried(d)
  BY <1>2, <1>d, CmdsAppend
<1>8. CASE Pc(t) \in ToBatcher
  <2>1. b_cmds' = Append(b_cmds, d) /\ cmds' = cmds
    BY <1>8, <1>d DEF Sends, ToBatcher, ToForwarder
  <2>2. OfCmds(b_cmds', Len(b_cmds')) = OfCmds(b_cmds, Len(b_cmds)) \cup Carried(d)
    BY <1>5, <1>7, <2>1
  <2> QED BY <1>1, <1>6, <2>1, <2>2 DEF RecordedInv
<1>9. CASE Pc(t) \in ToForwarder
  <2>1. cmds' = Append(cmds, d) /\ b_cmds' = b_cmds
    BY <1>9, <1>d DEF Sends, ToBatcher, ToForwarder
  <2>2. OfCmds(cmds', Len(cmds')) = OfCmds(cmds, Len(cmds)) \cup Carried(d)
    BY <1>5, <1>7, <2>1
  <2> QED BY <1>1, <1>6, <2>1, <2>2 DEF RecordedInv
<1>10. CASE Pc(t) \notin ToBatcher /\ Pc(t) \notin ToForwarder
  <2>1. cmds' = cmds /\ b_cmds' = b_cmds
    BY <1>10 DEF Sends
  <2>2. Carried(d) = {}
    BY <1>4, <1>10, <1>d DEF Carried, ToBatcher, ToForwarder
  <2> QED BY <1>1, <1>6, <2>1, <2>2 DEF RecordedInv
<1> QED BY <1>8, <1>9, <1>10

\* The items of a queue whose first command leaves.
LEMMA CmdsLeave ==
    ASSUME NEW q \in Seq(Cmd), q # <<>>
    PROVE  OfCmds(q, Len(q)) = Carried(Head(q)) \cup OfCmds(Tail(q), Len(Tail(q)))
<1>1. Len(q) \in Nat \ {0} /\ Len(Tail(q)) = Len(q) - 1
  BY CmdsTail
<1>2. Len(q) \in 1..Len(q)
  BY <1>1
<1> QED BY <1>1, <1>2, CmdsTail

\* The batching thread loses no item and makes none.
LEMMA RecordedBatcher ==
    ASSUME TypeInv, RecordedInv, Takes \/ Flows \/ Replies,
           UNCHANGED <<threadVars, cmds, reply, forwarder, sinks>>
    PROVE  RecordedInv'
<1>1. AtThread' = AtThread /\ UNCHANGED <<recorded, cmds, sinks>>
  BY DEF threadVars, AtThread, At, Idle
<1>2. CASE Takes
  <2>1. OfCmds(b_cmds, Len(b_cmds)) = Carried(Head(b_cmds)) \cup OfCmds(b_cmds', Len(b_cmds'))
    BY <1>2, CmdsLeave DEF Takes, TypeInv
  <2>2. OfChunks(b_out) = {}
    BY <1>2, ChunksFew DEF Takes
  <2> QED BY <1>1, <1>2, <2>1, <2>2 DEF Takes, RecordedInv
<1>3. CASE Flows
  BY <1>1, <1>3 DEF Flows, RecordedInv
<1>4. CASE Replies
  BY <1>1, <1>4 DEF Replies, RecordedInv
<1> QED BY <1>2, <1>3, <1>4

\* What is behind the batcher stays there when the forwarding thread moves.
LEMMA DownKept ==
    ASSUME TypeInv, Handles \/ Relays \/ Drains \/ Exits
    PROVE  Down' = Down /\ OfSinks(sinks) \subseteq OfSinks(sinks')
<1>1. CASE Handles \/ Exits
  <2>1. OfCmds(cmds, Len(cmds)) = Carried(Head(cmds)) \cup OfCmds(cmds', Len(cmds'))
    BY <1>1, CmdsLeave DEF Handles, Exits, TypeInv
  <2>2. chunks' = chunks /\ OfSinks(sinks') = OfSinks(sinks) \cup Carried(Head(cmds))
    <3>1. CASE Handles
      BY <3>1 DEF Handles, Grown
    <3>2. CASE Exits
      <4>1. Carried(Head(cmds)) = {}
        BY <3>2 DEF Exits, Carried
      <4> QED BY <3>2, <4>1 DEF Exits
    <3> QED BY <1>1, <3>1, <3>2
  <2> QED BY <2>1, <2>2 DEF Down
<1>2. CASE Relays
  <2>1. OfChunks(chunks) = ToSet(Head(chunks)) \cup OfChunks(chunks')
    BY <1>2, ChunksTail DEF Relays, TypeInv
  <2>2. cmds' = cmds /\ OfSinks(sinks') = OfSinks(sinks) \cup ToSet(Head(chunks))
    BY <1>2 DEF Relays, Grown
  <2> QED BY <2>1, <2>2 DEF Down
<1>3. CASE Drains
  BY <1>3 DEF Drains, Down
<1> QED BY <1>1, <1>2, <1>3

\* Nor does the forwarding thread.
LEMMA RecordedForward ==
    ASSUME TypeInv, RecordedInv, Handles \/ Relays \/ Drains \/ Exits,
           UNCHANGED <<threadVars, b_cmds, b_reply, batcherVars>>
    PROVE  RecordedInv'
<1>1. AtThread' = AtThread /\ UNCHANGED <<recorded, b_cmds, accs, b_out>>
  BY DEF threadVars, batcherVars, AtThread, At, Idle
<1>2. Down' = Down
  BY DownKept
<1>3. recorded = AtThread \cup OfCmds(b_cmds, Len(b_cmds)) \cup OfAccs(accs) \cup OfChunks(b_out) \cup Down
  BY DEF RecordedInv, Down
<1>4. recorded' = AtThread' \cup OfCmds(b_cmds', Len(b_cmds')) \cup OfAccs(accs') \cup OfChunks(b_out') \cup Down'
  BY <1>1, <1>2, <1>3
<1> QED BY <1>4 DEF RecordedInv, Down

-----------------------------------------------------------------------------
(* The batcher's answer to a flush *)

\* What BatcherInv says of a thread.
Asked(t) == \E i \in 1..Len(b_cmds) : IsFlush(i, t)
BatcherOf(t) ==
    /\ \A i, j \in 1..Len(b_cmds) : IsFlush(i, t) /\ IsFlush(j, t) => i = j
    /\ b_reply[t] \/ t \in b_done => ~Asked(t)
    /\ b_reply[t] => t \notin b_done
    /\ b_reply[t] \/ t \in b_done \/ Asked(t) => Pc(t) = "b_wait"
    /\ \A i \in 1..Len(b_cmds) : IsFlush(i, t) =>
          Owed(t) \subseteq Down \cup OfChunks(b_out) \cup OfAccs(accs) \cup OfCmds(b_cmds, i - 1)
    /\ t \in b_done => Owed(t) \subseteq Down \cup OfChunks(b_out)
    /\ b_reply[t] => Owed(t) \subseteq Down
    /\ Pc(t) = "pop" => Owed(t) \subseteq Down

\* BatcherInv by threads.
LEMMA BatcherInvParts ==
    /\ BatcherInv <=> \A t \in Threads : BatcherOf(t)
    /\ BatcherInv' <=> \A t \in Threads : BatcherOf(t)'
<1>1. BatcherInv <=> \A t \in Threads : BatcherOf(t)
  BY DEF BatcherInv, BatcherOf, Asked
<1>2. BatcherInv' <=> \A t \in Threads : BatcherOf(t)'
  BY DEF BatcherInv, BatcherOf, Asked
<1> QED BY <1>1, <1>2

\* A thread with no flush at the batcher is owed nothing by it.
LEMMA BatcherOwesNothing ==
    ASSUME NEW t, ~b_reply'[t], t \notin b_done', ~Asked(t)', Pc(t)' # "pop"
    PROVE  BatcherOf(t)'
  BY DEF BatcherOf, Asked

\* The step of another thread leaves the answer to a flush alone.
LEMMA BatcherKept ==
    ASSUME TypeInv, NEW u \in Threads, BatcherOf(u), Pc(u)' = Pc(u), Owed(u)' \subseteq Owed(u),
           Down \subseteq Down', b_reply'[u] <=> b_reply[u], UNCHANGED <<b_done, b_out, accs>>,
           \/ b_cmds' = b_cmds
           \/ \E d \in Cmd : b_cmds' = Append(b_cmds, d) /\ (d.from # u \/ d.step # "b_flush")
    PROVE  BatcherOf(u)'
<1>1. Len(b_cmds) \in Nat /\ b_cmds \in Seq(Cmd)
  BY LenProperties DEF TypeInv
<1>2. \A i \in 1..Len(b_cmds') : IsFlush(i, u)' =>
          /\ i \in 1..Len(b_cmds) /\ IsFlush(i, u)
          /\ OfCmds(b_cmds', i - 1) = OfCmds(b_cmds, i - 1)
  <2>1. CASE b_cmds' = b_cmds
    BY <2>1 DEF IsFlush
  <2>2. ASSUME NEW d \in Cmd, b_cmds' = Append(b_cmds, d), d.from # u \/ d.step # "b_flush"
        PROVE  \A i \in 1..Len(b_cmds') : IsFlush(i, u)' =>
                  /\ i \in 1..Len(b_cmds) /\ IsFlush(i, u)
                  /\ OfCmds(b_cmds', i - 1) = OfCmds(b_cmds, i - 1)
    <3>1. /\ Len(b_cmds') = Len(b_cmds) + 1 /\ b_cmds'[Len(b_cmds) + 1] = d
          /\ \A i \in 1..Len(b_cmds) : b_cmds'[i] = b_cmds[i]
          /\ \A n \in 0..Len(b_cmds) : OfCmds(b_cmds', n) = OfCmds(b_cmds, n)
      BY <1>1, <2>2, CmdsAppend
    <3> SUFFICES ASSUME NEW i \in 1..Len(b_cmds'), IsFlush(i, u)'
                 PROVE  /\ i \in 1..Len(b_cmds) /\ IsFlush(i, u)
                        /\ OfCmds(b_cmds', i - 1) = OfCmds(b_cmds, i - 1)
      OBVIOUS
    <3>2. i # Len(b_cmds) + 1
      BY <2>2, <3>1 DEF IsFlush
    <3>3. i \in 1..Len(b_cmds) /\ i - 1 \in 0..Len(b_cmds)
      BY <1>1, <3>1, <3>2
    <3> QED BY <3>1, <3>3 DEF IsFlush
  <2> QED BY <2>1, <2>2
<1>3. Asked(u)' => Asked(u)
  BY <1>2 DEF Asked
<1>4. \A i, j \in 1..Len(b_cmds') : IsFlush(i, u)' /\ IsFlush(j, u)' => i = j
  BY <1>2 DEF BatcherOf
<1>5. \A i \in 1..Len(b_cmds') : IsFlush(i, u)' =>
          Owed(u)' \subseteq Down' \cup OfChunks(b_out') \cup OfAccs(accs') \cup OfCmds(b_cmds', i - 1)
  BY <1>2 DEF BatcherOf
<1>6. /\ b_reply'[u] \/ u \in b_done' => ~Asked(u)'
      /\ b_reply'[u] => u \notin b_done'
      /\ b_reply'[u] \/ u \in b_done' \/ Asked(u)' => Pc(u)' = "b_wait"
      /\ u \in b_done' => Owed(u)' \subseteq Down' \cup OfChunks(b_out')
      /\ b_reply'[u] => Owed(u)' \subseteq Down'
      /\ Pc(u)' = "pop" => Owed(u)' \subseteq Down'
  BY <1>3 DEF BatcherOf
<1> QED BY <1>4, <1>5, <1>6 DEF BatcherOf

\* Calls of a thread leave alone what is owed to another.
LEMMA OwedBegin ==
    ASSUME CallInv, NEW t \in Threads, NEW c, Begun(t, c), NEW u \in Threads, u # t
    PROVE  Owed(u)' = Owed(u)
<1>1. call'[u] = call[u] /\ ~dropped
  BY DEF Begun, Started
<1>2. call[u].op # "drop"
  BY <1>1 DEF CallInv
<1>3. recorded' = recorded \/ (recorded' = recorded \cup {c.item} /\ c.item.from = t)
  BY DEF Begun
<1> QED BY <1>1, <1>2, <1>3 DEF Owed

\* What is owed to a call stays the same while it lasts.
LEMMA OwedStep ==
    ASSUME NEW t \in Threads, Moved(t), NEW u \in Threads, u # t \/ Pc(t)' # "idle"
    PROVE  Owed(u)' = Owed(u)
<1>1. call'[u] = call[u] /\ recorded' = recorded
  BY DEF Moved
<1> QED BY <1>1 DEF Owed

\* Nothing that is owed to a flush is still at a thread.
LEMMA OwedLeft ==
    ASSUME TypeInv, StageInv, CallInv, NEW t \in Threads, todo[t] # <<>>, Pc(t) \notin Recording
    PROVE  Owed(t) \cap AtThread = {}
<1> SUFFICES ASSUME NEW x \in Owed(t), x \in AtThread PROVE FALSE
  OBVIOUS
<1>1. PICK u \in Threads : Pc(u) \in Recording /\ x = call[u].item
  BY AtThreadIs
<1>2. todo[u] # <<>> /\ call[u].op \in SenderOf(Pc(u)) /\ call[u] # NoCall
  BY <1>1, StageFacts DEF Recording
<1>3. call[u].op \in {"row", "chunk", "msg"}
  BY <1>1, <1>2 DEF SenderOf, Recording
<1>4. x.from = u
  BY <1>1, <1>3 DEF CallInv
<1>5. u # t
  BY <1>1
<1>6. call[t].op = "drop"
  BY <1>4, <1>5 DEF Owed
<1>7. dropped
  BY <1>6 DEF CallInv
<1> QED BY <1>2, <1>3, <1>7 DEF CallInv

\* A call begins with nothing asked of the batcher.
LEMMA BatcherBegin ==
    ASSUME TypeInv, CallInv, BatcherInv, NEW t \in Threads, NEW c, Begun(t, c)
    PROVE  BatcherInv'
<1>1. UNCHANGED <<b_cmds, b_reply, b_done, b_out, accs, chunks, cmds, sinks>>
  BY DEF Begun, Started, batcherVars
<1>2. ASSUME NEW u \in Threads PROVE BatcherOf(u)'
  <2>1. BatcherOf(u)
    BY BatcherInvParts
  <2>2. CASE u = t
    <3>1. Pc(t) = "idle" /\ Pc(t)' # "pop"
      BY DEF Begun, Started
    <3>2. ~b_reply[t] /\ t \notin b_done /\ ~Asked(t)
      BY <2>1, <2>2, <3>1 DEF BatcherOf
    <3>3. ~b_reply'[t] /\ t \notin b_done' /\ ~Asked(t)'
      BY <1>1, <3>2 DEF Asked, IsFlush
    <3> QED BY <2>2, <3>1, <3>3, BatcherOwesNothing
  <2>3. CASE u # t
    <3>1. Pc(u)' = Pc(u)
      BY <2>3 DEF Begun, Started
    <3>2. Owed(u)' \subseteq Owed(u)
      BY <2>3, OwedBegin
    <3>3. Down' = Down
      BY <1>1 DEF Down
    <3> QED BY <1>1, <2>1, <3>1, <3>2, <3>3, BatcherKept
  <2> QED BY <2>2, <2>3
<1> QED BY <1>2, BatcherInvParts

\* A flush that joins the queue has all that is owed to it ahead.
LEMMA BatcherThread ==
    ASSUME TypeInv, StageInv, CallInv, RecordedInv, BatcherInv, NEW t \in Threads, todo[t] # <<>>,
           Moved(t), Sends(t), UNCHANGED <<batcherVars, chunks, forwarder, sinks>>
    PROVE  BatcherInv'
<1>1. UNCHANGED <<b_done, b_out, accs, chunks, sinks, recorded>>
  BY DEF batcherVars, Moved
<1>2. /\ Pc(t) \in Step /\ call[t].op \in SenderOf(Pc(t)) /\ Command(t) \in Cmd /\ Pc(t) = Head(todo[t])
      /\ Pc(t)' = NextOf(call[t].op, Pc(t)) /\ b_cmds \in Seq(Cmd) /\ cmds \in Seq(Cmd)
      /\ \A u \in Threads : u # t => Pc(u)' = Pc(u)
      /\ b_reply \in [Threads -> BOOLEAN]
  BY StageFacts DEF Moved, TypeInv
<1>d. PICK d : d = Command(t)
  OBVIOUS
<1>3. d \in Cmd /\ d.step = Pc(t) /\ d.from = t
  BY <1>2, <1>d DEF Command
<1>4. Down \subseteq Down'
  <2>1. CASE cmds' = cmds
    BY <1>1, <2>1 DEF Down
  <2>2. CASE cmds' = Append(cmds, d)
    <3>1. OfCmds(cmds', Len(cmds')) = OfCmds(cmds, Len(cmds)) \cup Carried(d)
      BY <1>2, <1>3, <2>2, CmdsAppend
    <3> QED BY <1>1, <3>1 DEF Down
  <2> QED BY <1>d, <2>1, <2>2 DEF Sends
<1>5. \/ b_cmds' = b_cmds
      \/ b_cmds' = Append(b_cmds, d)
  BY <1>d DEF Sends
<1>6. ASSUME NEW u \in Threads PROVE BatcherOf(u)'
  <2>1. BatcherOf(u)
    BY BatcherInvParts
  <2>2. CASE u # t
    <3>1. Pc(u)' = Pc(u) /\ Owed(u)' \subseteq Owed(u)
      BY <1>2, <2>2, OwedStep
    <3>2. b_reply'[u] <=> b_reply[u]
      BY <1>2, <2>2 DEF Sends
    <3>3. \/ b_cmds' = b_cmds
          \/ \E x \in Cmd : b_cmds' = Append(b_cmds, x) /\ (x.from # u \/ x.step # "b_flush")
      BY <1>3, <1>5, <2>2
    <3> QED BY <1>1, <1>4, <2>1, <3>1, <3>2, <3>3, BatcherKept
  <2>3. CASE u = t /\ Pc(t) = "b_flush"
    <3>1. ~b_reply[t] /\ t \notin b_done /\ ~Asked(t)
      BY <2>1, <2>3 DEF BatcherOf
    <3>2. b_cmds' = Append(b_cmds, d) /\ UNCHANGED <<b_reply, cmds>>
      BY <1>d, <2>3 DEF Sends, ToForwarder
    <3>n. PICK n : n = Len(b_cmds)
      OBVIOUS
    <3>3. /\ n \in Nat /\ Len(b_cmds') = n + 1 /\ b_cmds'[n + 1] = d
          /\ \A i \in 1..n : b_cmds'[i] = b_cmds[i]
          /\ \A k \in 0..n : OfCmds(b_cmds', k) = OfCmds(b_cmds, k)
      BY <1>2, <1>3, <3>2, <3>n, CmdsAppend
    <3>4. \A i \in 1..(n + 1) : i \in 1..n \/ i = n + 1
      BY <3>3
    <3>5. \A i \in 1..n : ~IsFlush(i, t)'
      BY <3>1, <3>3, <3>n DEF Asked, IsFlush
    <3>6. \A i \in 1..Len(b_cmds') : IsFlush(i, t)' => i = n + 1
      BY <3>3, <3>4, <3>5
    <3>7. Pc(t)' = "b_wait"
      BY <1>2, <2>3, NextTable
    <3>8. Owed(t)' = Owed(t)
      BY <3>7, OwedStep
    <3>9. Owed(t) \subseteq Down \cup OfChunks(b_out) \cup OfAccs(accs) \cup OfCmds(b_cmds, n)
      <4>1. Owed(t) \cap AtThread = {}
        BY <2>3, OwedLeft DEF Recording
      <4>2. Owed(t) \subseteq recorded
        BY DEF Owed
      <4> QED BY <4>1, <4>2, <3>n DEF RecordedInv, Down
    <3>10. (n + 1) - 1 = n /\ n \in 0..n
      BY <3>3
    <3>11. OfCmds(b_cmds', (n + 1) - 1) = OfCmds(b_cmds, n)
      BY <3>3, <3>10
    <3>12. \A i \in 1..Len(b_cmds') : IsFlush(i, t)' =>
              Owed(t)' \subseteq Down' \cup OfChunks(b_out') \cup OfAccs(accs') \cup OfCmds(b_cmds', i - 1)
      BY <1>1, <1>4, <3>6, <3>8, <3>9, <3>11
    <3>13. ~b_reply'[t] /\ t \notin b_done' /\ Pc(t)' # "pop"
      BY <1>1, <3>1, <3>2, <3>7
    <3>14. \A i, j \in 1..Len(b_cmds') : IsFlush(i, t)' /\ IsFlush(j, t)' => i = j
      BY <3>6
    <3> QED BY <2>3, <3>7, <3>12, <3>13, <3>14 DEF BatcherOf, Asked
  <2>4. CASE u = t /\ Pc(t) = "b_wait"
    <3>1. b_reply[t] /\ b_reply' = [b_reply EXCEPT ![t] = FALSE] /\ UNCHANGED <<b_cmds, cmds>>
      BY <2>4 DEF Sends, ToBatcher, ToForwarder
    <3>2. t \notin b_done /\ ~Asked(t) /\ Owed(t) \subseteq Down
      BY <2>1, <2>4, <3>1 DEF BatcherOf
    <3>3. ~b_reply'[t] /\ t \notin b_done' /\ ~Asked(t)'
      BY <1>1, <1>2, <3>1, <3>2 DEF Asked, IsFlush
    <3>4. Pc(t)' = "pop"
      BY <1>2, <2>4, NextTable
    <3>5. Owed(t)' \subseteq Down'
      BY <1>4, <3>2, <3>4, OwedStep
    <3> QED BY <2>4, <3>3, <3>5 DEF BatcherOf, Asked
  <2>5. CASE u = t /\ Pc(t) \notin {"b_flush", "b_wait"}
    <3>1. ~b_reply[t] /\ t \notin b_done /\ ~Asked(t)
      BY <2>1, <2>5 DEF BatcherOf
    <3>2. ~b_reply'[t] /\ t \notin b_done'
      BY <1>1, <2>5, <3>1 DEF Sends
    <3>3. ~Asked(t)'
      <4>1. CASE b_cmds' = b_cmds
        BY <3>1, <4>1 DEF Asked, IsFlush
      <4>2. CASE b_cmds' = Append(b_cmds, d)
        <5>n. PICK n : n = Len(b_cmds)
          OBVIOUS
        <5>1. /\ n \in Nat /\ Len(b_cmds') = n + 1 /\ b_cmds'[n + 1] = d
              /\ \A i \in 1..n : b_cmds'[i] = b_cmds[i]
          BY <1>2, <1>3, <4>2, <5>n, CmdsAppend
        <5>2. \A i \in 1..(n + 1) : i \in 1..n \/ i = n + 1
          BY <5>1
        <5> QED BY <1>3, <2>5, <3>1, <5>n, <5>1, <5>2 DEF Asked, IsFlush
      <4> QED BY <1>5, <4>1, <4>2
    <3>4. Pc(t)' # "pop"
      BY <1>2, <2>5, NextTable
    <3> QED BY <2>5, <3>2, <3>3, <3>4, BatcherOwesNothing
  <2> QED BY <2>2, <2>3, <2>4, <2>5
<1> QED BY <1>6, BatcherInvParts

\* The batching thread moves what is owed on, ahead of its answer.
LEMMA BatcherBatcher ==
    ASSUME TypeInv, BatcherInv, Takes \/ Flows \/ Replies,
           UNCHANGED <<threadVars, cmds, reply, forwarder, sinks>>
    PROVE  BatcherInv'
<1>1. \A u \in Threads : Owed(u)' = Owed(u) /\ Pc(u)' = Pc(u)
  BY DEF threadVars, Owed, Pc
<1>2. b_cmds \in Seq(Cmd) /\ cmds' = cmds /\ sinks' = sinks
  BY DEF TypeInv
<1>3. ASSUME NEW u \in Threads, Takes PROVE BatcherOf(u)'
  <2>1. BatcherOf(u)
    BY BatcherInvParts
  <2>2. /\ b_cmds # <<>> /\ b_cmds' = Tail(b_cmds) /\ b_out = <<>> /\ b_done = {}
        /\ UNCHANGED <<b_reply, chunks>>
    BY <1>3 DEF Takes
  <2>h. PICK h : h = Head(b_cmds)
    OBVIOUS
  <2>3. /\ Len(b_cmds) \in Nat \ {0} /\ Len(b_cmds') = Len(b_cmds) - 1 /\ h = b_cmds[1]
        /\ \A i \in 1..Len(b_cmds') : b_cmds'[i] = b_cmds[i + 1] /\ i + 1 \in 1..Len(b_cmds)
        /\ \A n \in 1..Len(b_cmds) : OfCmds(b_cmds, n) = Carried(h) \cup OfCmds(b_cmds', n - 1)
    BY <1>2, <2>2, <2>h, CmdsTail
  <2>4. Down' = Down /\ OfChunks(b_out) = {}
    BY <1>2, <2>2, ChunksFew DEF Down
  <2>5. OfChunks(b_out') \cup OfAccs(accs') = OfAccs(accs) \cup Carried(h)
    BY <1>3, <2>h DEF Takes
  <2>6. \A i \in 1..Len(b_cmds') : IsFlush(i, u)' => IsFlush(i + 1, u) /\ i + 1 \in 1..Len(b_cmds)
    BY <2>3 DEF IsFlush
  <2>7. Asked(u)' => Asked(u)
    BY <2>6 DEF Asked
  <2>8. \A i, j \in 1..Len(b_cmds') : IsFlush(i, u)' /\ IsFlush(j, u)' => i = j
    <3> SUFFICES ASSUME NEW i \in 1..Len(b_cmds'), NEW j \in 1..Len(b_cmds'),
                        IsFlush(i, u)', IsFlush(j, u)'
                 PROVE  i = j
      OBVIOUS
    <3>1. i + 1 = j + 1
      BY <2>1, <2>6 DEF BatcherOf
    <3> QED BY <3>1
  <2>9. \A i \in 1..Len(b_cmds') : IsFlush(i, u)' =>
            Owed(u)' \subseteq Down' \cup OfChunks(b_out') \cup OfAccs(accs') \cup OfCmds(b_cmds', i - 1)
    <3> SUFFICES ASSUME NEW i \in 1..Len(b_cmds'), IsFlush(i, u)'
                 PROVE  Owed(u)' \subseteq Down' \cup OfChunks(b_out') \cup OfAccs(accs')
                                           \cup OfCmds(b_cmds', i - 1)
      OBVIOUS
    <3>1. i + 1 \in 1..Len(b_cmds) /\ IsFlush(i + 1, u)
      BY <2>6
    <3>2. Owed(u) \subseteq Down \cup OfChunks(b_out) \cup OfAccs(accs) \cup OfCmds(b_cmds, (i + 1) - 1)
      BY <2>1, <3>1 DEF BatcherOf
    <3>3. (i + 1) - 1 = i /\ i \in 1..Len(b_cmds)
      BY <2>3
    <3>4. OfCmds(b_cmds, i) = Carried(h) \cup OfCmds(b_cmds', i - 1)
      BY <2>3, <3>3
    <3> QED BY <1>1, <2>4, <2>5, <3>2, <3>3, <3>4
  <2>10. CASE h.step = "b_flush" /\ h.from = u
    <3>1. 1 \in 1..Len(b_cmds) /\ IsFlush(1, u)
      BY <2>3, <2>10 DEF IsFlush
    <3>2. ~Asked(u)'
      <4> SUFFICES ASSUME NEW i \in 1..Len(b_cmds'), IsFlush(i, u)' PROVE FALSE
        BY DEF Asked
      <4>1. i + 1 = 1
        BY <2>1, <2>6, <3>1 DEF BatcherOf
      <4> QED BY <2>3, <4>1
    <3>3. ~b_reply[u] /\ Pc(u) = "b_wait"
      BY <2>1, <3>1 DEF BatcherOf, Asked
    <3>4. Owed(u) \subseteq Down \cup OfChunks(b_out')
      <4>1. Owed(u) \subseteq Down \cup OfChunks(b_out) \cup OfAccs(accs) \cup OfCmds(b_cmds, 1 - 1)
        BY <2>1, <3>1 DEF BatcherOf
      <4>2. OfCmds(b_cmds, 1 - 1) = {}
        <5>1. OfCmds(b_cmds, 0) = {}
          BY DEF OfCmds
        <5> QED BY <5>1
      <4>3. OfAccs(accs') = {}
        BY <1>3, <2>10, <2>h DEF Takes
      <4>4. OfAccs(accs) \subseteq OfChunks(b_out')
        BY <2>5, <4>3
      <4> QED BY <2>4, <4>1, <4>2, <4>4
    <3>5. ~b_reply'[u] /\ Pc(u)' = "b_wait"
      BY <1>1, <2>2, <3>3
    <3>6. Owed(u)' \subseteq Down' \cup OfChunks(b_out')
      BY <1>1, <2>4, <3>4
    <3> QED BY <2>8, <2>9, <3>2, <3>5, <3>6 DEF BatcherOf
  <2>11. CASE ~(h.step = "b_flush" /\ h.from = u)
    <3>1. u \notin b_done'
      BY <1>3, <2>11, <2>h DEF Takes
    <3>2. /\ b_reply'[u] => ~Asked(u)'
          /\ b_reply'[u] \/ Asked(u)' => Pc(u)' = "b_wait"
          /\ b_reply'[u] => Owed(u)' \subseteq Down'
          /\ Pc(u)' = "pop" => Owed(u)' \subseteq Down'
      BY <1>1, <2>1, <2>2, <2>4, <2>7 DEF BatcherOf
    <3> QED BY <2>8, <2>9, <3>1, <3>2 DEF BatcherOf
  <2> QED BY <2>10, <2>11
<1>4. ASSUME NEW u \in Threads, Flows PROVE BatcherOf(u)'
  <2>1. BatcherOf(u)
    BY BatcherInvParts
  <2>2. /\ UNCHANGED <<b_cmds, b_reply, b_done>>
        /\ Down \subseteq Down'
        /\ Down \cup OfChunks(b_out) \subseteq Down' \cup OfChunks(b_out')
        /\ Down \cup OfChunks(b_out) \cup OfAccs(accs) \subseteq Down' \cup OfChunks(b_out') \cup OfAccs(accs')
    BY <1>2, <1>4 DEF Flows, Down
  <2>3. (Asked(u)' <=> Asked(u)) /\ \A i : IsFlush(i, u)' <=> IsFlush(i, u)
    BY <2>2 DEF Asked, IsFlush
  <2>4. \A i \in 1..Len(b_cmds') : IsFlush(i, u)' =>
            Owed(u)' \subseteq Down' \cup OfChunks(b_out') \cup OfAccs(accs') \cup OfCmds(b_cmds', i - 1)
    BY <1>1, <2>1, <2>2, <2>3 DEF BatcherOf
  <2>5. \A i, j \in 1..Len(b_cmds') : IsFlush(i, u)' /\ IsFlush(j, u)' => i = j
    BY <2>1, <2>2, <2>3 DEF BatcherOf
  <2>6. /\ b_reply'[u] \/ u \in b_done' => ~Asked(u)'
        /\ b_reply'[u] => u \notin b_done'
        /\ b_reply'[u] \/ u \in b_done' \/ Asked(u)' => Pc(u)' = "b_wait"
        /\ u \in b_done' => Owed(u)' \subseteq Down' \cup OfChunks(b_out')
        /\ b_reply'[u] => Owed(u)' \subseteq Down'
        /\ Pc(u)' = "pop" => Owed(u)' \subseteq Down'
    BY <1>1, <2>1, <2>2, <2>3 DEF BatcherOf
  <2> QED BY <2>4, <2>5, <2>6 DEF BatcherOf
<1>5. ASSUME NEW u \in Threads, Replies PROVE BatcherOf(u)'
  <2>1. BatcherOf(u)
    BY BatcherInvParts
  <2>2. /\ UNCHANGED <<b_cmds, b_out, accs>> /\ Down' = Down /\ OfChunks(b_out) = {} /\ b_done' = {}
        /\ b_reply'[u] <=> b_reply[u] \/ u \in b_done
    BY <1>2, <1>5, ChunksFew DEF Replies, Down
  <2>3. (Asked(u)' <=> Asked(u)) /\ \A i : IsFlush(i, u)' <=> IsFlush(i, u)
    BY <2>2 DEF Asked, IsFlush
  <2>4. \A i \in 1..Len(b_cmds') : IsFlush(i, u)' =>
            Owed(u)' \subseteq Down' \cup OfChunks(b_out') \cup OfAccs(accs') \cup OfCmds(b_cmds', i - 1)
    BY <1>1, <2>1, <2>2, <2>3 DEF BatcherOf
  <2>5. \A i, j \in 1..Len(b_cmds') : IsFlush(i, u)' /\ IsFlush(j, u)' => i = j
    BY <2>1, <2>2, <2>3 DEF BatcherOf
  <2>6. /\ b_reply'[u] \/ u \in b_done' => ~Asked(u)'
        /\ b_reply'[u] => u \notin b_done'
        /\ b_reply'[u] \/ u \in b_done' \/ Asked(u)' => Pc(u)' = "b_wait"
        /\ u \in b_done' => Owed(u)' \subseteq Down' \cup OfChunks(b_out')
        /\ b_reply'[u] => Owed(u)' \subseteq Down'
        /\ Pc(u)' = "pop" => Owed(u)' \subseteq Down'
    BY <1>1, <2>1, <2>2, <2>3 DEF BatcherOf
  <2> QED BY <2>4, <2>5, <2>6 DEF BatcherOf
<1> QED BY <1>3, <1>4, <1>5, BatcherInvParts

\* The forwarding thread leaves behind the batcher what is there.
LEMMA BatcherForward ==
    ASSUME TypeInv, BatcherInv, Handles \/ Relays \/ Drains \/ Exits,
           UNCHANGED <<threadVars, b_cmds, b_reply, batcherVars>>
    PROVE  BatcherInv'
<1>1. UNCHANGED <<b_cmds, b_reply, b_done, b_out, accs>> /\ Down' = Down
  BY DownKept DEF batcherVars
<1>2. ASSUME NEW u \in Threads PROVE BatcherOf(u)'
  <2>1. BatcherOf(u) /\ Owed(u)' = Owed(u) /\ Pc(u)' = Pc(u)
    BY BatcherInvParts DEF threadVars, Owed, Pc
  <2> QED BY <1>1, <2>1, BatcherKept
<1> QED BY <1>2, BatcherInvParts

-----------------------------------------------------------------------------
(* The forwarding thread and what it owes to a call *)

\* More chunks and more commands do no harm.
LEMMA ThroughGrows ==
    ASSUME NEW x, NEW y, y \subseteq x, NEW n \in Nat, NEW m \in Nat, n <= m, NEW q, NEW r,
           \A i \in 1..n : r[i] = q[i], NEW ch, NEW dh, OfChunks(ch) \subseteq OfChunks(dh),
           NEW fw, NEW si, Through(x, n, q, ch, fw, si)
    PROVE  Through(y, m, r, dh, fw, si)
<1>1. CASE x \subseteq OfSinks(si) \/ (fw = "drain" /\ x \subseteq OfSinks(si) \cup OfChunks(ch))
  BY <1>1 DEF Through
<1>2. ASSUME NEW i \in 1..n, q[i].step = "pop",
             x \subseteq OfSinks(si) \cup OfChunks(ch) \cup OfCmds(q, i - 1)
      PROVE  Through(y, m, r, dh, fw, si)
  <2>1. i \in 1..m /\ r[i].step = "pop" /\ \A j \in 1..(i - 1) : j \in 1..n
    BY <1>2
  <2>2. \A j \in 1..(i - 1) : r[j] = q[j]
    BY <2>1
  <2>3. OfCmds(r, i - 1) = OfCmds(q, i - 1)
    BY <2>2 DEF OfCmds
  <2>4. y \subseteq OfSinks(si) \cup OfChunks(dh) \cup OfCmds(r, i - 1)
    BY <1>2, <2>3
  <2> QED BY <2>1, <2>4 DEF Through
<1> QED BY <1>1, <1>2 DEF Through

\* A command is handled: one less is in the way.
LEMMA ThroughHandled ==
    ASSUME NEW x, NEW q \in Seq(Cmd), q # <<>>, NEW n \in 1..Len(q), NEW ch, NEW si, NEW ti,
           Through(x, n, q, ch, "select", si), OfSinks(si) \cup Carried(Head(q)) \subseteq OfSinks(ti)
    PROVE  Through(x, n - 1, Tail(q), ch, "drain", ti)
<1>u. PICK u : u = Tail(q)
  OBVIOUS
<1>1. /\ Len(q) \in Nat \ {0} /\ Len(u) = Len(q) - 1
      /\ \A i \in 1..Len(u) : u[i] = q[i + 1] /\ i + 1 \in 1..Len(q)
      /\ \A k \in 1..Len(q) : OfCmds(q, k) = Carried(Head(q)) \cup OfCmds(u, k - 1)
  BY <1>u, CmdsTail
<1>2. CASE x \subseteq OfSinks(si)
  BY <1>2, <1>u DEF Through
<1>3. ASSUME NEW i \in 1..n, q[i].step = "pop",
             x \subseteq OfSinks(si) \cup OfChunks(ch) \cup OfCmds(q, i - 1)
      PROVE  Through(x, n - 1, u, ch, "drain", ti)
  <2>1. CASE i = 1
    <3>1. OfCmds(q, i - 1) = {}
      <4>1. 1..(i - 1) = {}
        BY <2>1
      <4> QED BY <4>1 DEF OfCmds
    <3> QED BY <1>3, <3>1 DEF Through
  <2>2. CASE i # 1
    <3>j. PICK j : j = i - 1
      OBVIOUS
    <3>1. j \in 1..(n - 1) /\ j \in 1..Len(u) /\ j + 1 = i /\ j \in 1..Len(q)
      BY <1>1, <2>2, <3>j
    <3>2. u[j].step = "pop"
      BY <1>1, <1>3, <3>1
    <3>3. OfCmds(q, j) = Carried(Head(q)) \cup OfCmds(u, j - 1)
      BY <1>1, <3>1
    <3>4. x \subseteq OfSinks(ti) \cup OfChunks(ch) \cup OfCmds(u, j - 1)
      BY <1>3, <3>3, <3>j
    <3> QED BY <3>1, <3>2, <3>4 DEF Through
  <2> QED BY <2>1, <2>2
<1> QED BY <1>2, <1>3, <1>u DEF Through

\* A chunk reaches the sink, or there is none left.
LEMMA ThroughRelayed ==
    ASSUME NEW x, NEW n, NEW q, NEW ch, NEW dh, NEW fw, NEW si, NEW ti,
           Through(x, n, q, ch, fw, si), OfSinks(si) \subseteq OfSinks(ti),
           OfChunks(ch) \subseteq OfChunks(dh) \cup OfSinks(ti)
    PROVE  Through(x, n, q, dh, "drain", ti)
  BY DEF Through

\* With no chunk left the forwarding thread may wait for commands.
LEMMA ThroughDrained ==
    ASSUME NEW x, NEW n, NEW q, NEW ch, NEW fw, NEW si,
           Through(x, n, q, ch, "drain", si), OfChunks(ch) = {}
    PROVE  Through(x, n, q, ch, fw, si)
  BY DEF Through

-----------------------------------------------------------------------------

\* What ForwardInv says of a thread, and of a command c at place i.
PassOf(u, n) == Through(Owed(u), n, cmds, chunks, forwarder, sinks)
ForwardOf(u) == Pc(u) \in AfterPop => PassOf(u, Len(cmds))
Flushing(i, c) == /\ i \in 1..Len(cmds) /\ cmds[i] = c /\ c.step \in {"flush", "shutdown"}
                  /\ c.call = call[c.from]

\* ForwardInv by threads and commands.
LEMMA ForwardInvParts ==
    /\ ForwardInv <=> /\ \A u \in Threads : ForwardOf(u)
                      /\ \A i, c : Flushing(i, c) => PassOf(c.from, i - 1)
    /\ ForwardInv' <=> /\ \A u \in Threads : ForwardOf(u)'
                       /\ \A i, c : Flushing(i, c)' => PassOf(c.from, i - 1)'
<1>1. ForwardInv <=> /\ \A u \in Threads : ForwardOf(u)
                     /\ \A i, c : Flushing(i, c) => PassOf(c.from, i - 1)
  BY DEF ForwardInv, ForwardOf, Passes, PassOf, Flushing
<1>2. ForwardInv' <=> /\ \A u \in Threads : ForwardOf(u)'
                      /\ \A i, c : Flushing(i, c)' => PassOf(c.from, i - 1)'
  BY DEF ForwardInv, ForwardOf, Passes, PassOf, Flushing, Owed
<1> QED BY <1>1, <1>2

\* The queue of the forwarding thread, and the commands on it.
LEMMA OnQueue ==
    ASSUME TypeInv, NEW i \in 1..Len(cmds)
    PROVE  /\ cmds \in Seq(Cmd) /\ Len(cmds) \in Nat /\ cmds[i] \in Cmd
           /\ cmds[i].from \in Threads /\ cmds[i].call.nr \in Nat /\ cmds[i].call # NoCall
           /\ cmds[i].step = "shutdown" => cmds[i].call.op = "drop"
           /\ cmds[i].step = "flush" => cmds[i].call.op \in {"flush", "set_sink"}
           /\ cmds[i].step = "finalize" => cmds[i].call.op = "finalize"
           /\ cmds[i].step = "swap" => cmds[i].call.op = "set_sink"
<1>1. cmds \in Seq(Cmd) /\ Len(cmds) \in Nat /\ cmds[i] \in Cmd
  BY LenProperties, ElementOfSeq DEF TypeInv
<1>2. /\ cmds[i].from \in Threads /\ cmds[i].call.nr \in Nat /\ cmds[i].step \in Step
      /\ cmds[i].call.op \in SenderOf(cmds[i].step)
  BY <1>1, CmdFacts
<1>3. cmds[i].call.op # "none"
  BY <1>2, NextTable
<1>4. cmds[i].call # NoCall
  BY <1>3 DEF NoCall
<1> QED BY <1>1, <1>2, <1>4, NextTable

\* A call begins ahead of its pop, and no command on the queue is its own.
LEMMA ForwardBegin ==
    ASSUME TypeInv, CallInv, ForwardInv, NEW t \in Threads, NEW c, Begun(t, c)
    PROVE  ForwardInv'
<1>1. UNCHANGED <<cmds, chunks, forwarder, sinks>> /\ ~dropped /\ call'[t] = c
  BY DEF Begun, Started
<1>2. \A u \in Threads : u # t => Owed(u)' = Owed(u) /\ Pc(u)' = Pc(u) /\ call'[u] = call[u]
  BY OwedBegin DEF Begun, Started
<1>3. Pc(t)' \notin AfterPop
  BY DEF Begun, AfterPop
<1>4. ASSUME NEW u \in Threads PROVE ForwardOf(u)'
  <2>1. CASE u = t
    BY <1>3, <2>1 DEF ForwardOf
  <2>2. CASE u # t
    <3>1. ForwardOf(u)
      BY ForwardInvParts
    <3> QED BY <1>1, <1>2, <2>2, <3>1 DEF ForwardOf, PassOf
  <2> QED BY <2>1, <2>2
<1>5. ASSUME NEW i, NEW d, Flushing(i, d)' PROVE PassOf(d.from, i - 1)'
  <2>1. i \in 1..Len(cmds) /\ cmds[i] = d /\ d.call = call'[d.from] /\ d.step \in {"flush", "shutdown"}
    BY <1>1, <1>5 DEF Flushing
  <2>2. d.from \in Threads /\ d.call.nr \in Nat
    BY <2>1, OnQueue
  <2>3. d.from # t
    <3> SUFFICES ASSUME d.from = t PROVE FALSE
      OBVIOUS
    <3>1. d.call = c
      BY <1>1, <2>1
    <3>2. d.call.nr <= made /\ d.call.op # "drop"
      BY <1>1, <2>1 DEF CallInv
    <3>3. c.nr = made + 1 /\ made \in Nat
      BY <3>1, <3>2, StreamAssumption DEF Begun, TypeInv
    <3> QED BY <2>2, <3>1, <3>2, <3>3
  <2>4. Flushing(i, d)
    BY <1>2, <2>1, <2>2, <2>3 DEF Flushing
  <2>5. PassOf(d.from, i - 1)
    BY <2>4, ForwardInvParts
  <2> QED BY <1>1, <1>2, <2>2, <2>3, <2>5 DEF PassOf
<1> QED BY <1>4, <1>5, ForwardInvParts

\* A pop is sent with all that is owed ahead of it, and what follows stays behind.
LEMMA ForwardThread ==
    ASSUME TypeInv, StageInv, CallInv, BatcherInv, ForwardInv, NEW t \in Threads, todo[t] # <<>>,
           Moved(t), Sends(t), UNCHANGED <<batcherVars, chunks, forwarder, sinks>>
    PROVE  ForwardInv'
<1>1. /\ Pc(t) \in Step /\ call[t].op \in SenderOf(Pc(t)) /\ Command(t) \in Cmd /\ Pc(t) = Head(todo[t])
      /\ Pc(t)' = NextOf(call[t].op, Pc(t)) /\ cmds \in Seq(Cmd)
      /\ recorded' = recorded /\ (call'[t] = call[t] \/ call'[t] = NoCall)
      /\ \A u \in Threads : u # t => Pc(u)' = Pc(u) /\ call'[u] = call[u]
  BY StageFacts DEF Moved, TypeInv
<1>2. "idle" \notin AfterPop
  BY DEF AfterPop
<1>d. PICK d : d = Command(t)
  OBVIOUS
<1>n. PICK n : n = Len(cmds)
  OBVIOUS
<1>3. d \in Cmd /\ d.step = Pc(t) /\ d.from = t /\ d.call = call[t]
  BY <1>1, <1>d DEF Command
<1>4. /\ n \in Nat /\ Len(cmds') \in Nat /\ n <= Len(cmds') /\ \A i \in 1..n : cmds'[i] = cmds[i]
      /\ cmds' = cmds \/ /\ Pc(t) \in ToForwarder /\ Len(cmds') = n + 1 /\ cmds'[n + 1] = d
                         /\ \A k \in 0..n : OfCmds(cmds', k) = OfCmds(cmds, k)
  <2>1. n \in Nat
    BY <1>1, <1>n, LenProperties
  <2>2. CASE cmds' = cmds
    <3>1. n <= n
      BY <2>1
    <3> QED BY <2>1, <2>2, <3>1, <1>n
  <2>3. CASE cmds' = Append(cmds, d) /\ Pc(t) \in ToForwarder
    <3>1. /\ Len(cmds') = n + 1 /\ cmds'[n + 1] = d /\ \A i \in 1..n : cmds'[i] = cmds[i]
          /\ \A k \in 0..n : OfCmds(cmds', k) = OfCmds(cmds, k)
      BY <1>1, <1>3, <1>n, <2>3, CmdsAppend
    <3>2. n + 1 \in Nat /\ n <= n + 1
      BY <2>1
    <3> QED BY <2>1, <2>3, <3>1, <3>2
  <2> QED BY <1>d, <2>2, <2>3 DEF Sends
<1>5. ASSUME NEW u \in Threads, Owed(u)' = Owed(u), NEW k \in 0..n, PassOf(u, k), NEW m \in Nat, k <= m
      PROVE  PassOf(u, m)'
  <2>1. \A i \in 1..k : cmds'[i] = cmds[i]
    BY <1>4
  <2>2. k \in Nat
    OBVIOUS
  <2>x. PICK x, q, r : x = Owed(u) /\ q = cmds /\ r = cmds'
    OBVIOUS
  <2>3. Through(x, k, q, chunks, forwarder, sinks)
    BY <1>5, <2>x DEF PassOf
  <2>4. Through(x, m, r, chunks, forwarder, sinks)
    BY <1>5, <2>1, <2>2, <2>3, <2>x, ThroughGrows
  <2> QED BY <1>5, <2>4, <2>x DEF PassOf
<1>6. n \in 0..n
  BY <1>4
<1>7. ASSUME NEW u \in Threads, Pc(u)' \in AfterPop, NEW m, m = Len(cmds') PROVE PassOf(u, m)'
  <2>1. Owed(u)' = Owed(u)
    BY <1>2, <1>7, OwedStep
  <2>m. m \in Nat /\ n <= m
    BY <1>4, <1>7
  <2>2. CASE Pc(u) \in AfterPop
    <3>1. PassOf(u, n)
      BY <1>n, <2>2, ForwardInvParts DEF ForwardOf
    <3> QED BY <1>5, <1>6, <2>1, <2>m, <3>1
  <2>3. CASE Pc(u) \notin AfterPop
    <3>1. u = t /\ Pc(t) = "pop"
      BY <1>1, <1>7, <2>3, NextTable DEF AfterPop
    <3>2. /\ Len(cmds') = n + 1 /\ cmds'[n + 1] = d
          /\ \A k \in 0..n : OfCmds(cmds', k) = OfCmds(cmds, k)
      <4>1. cmds' = Append(cmds, d)
        BY <1>d, <3>1 DEF Sends, ToBatcher
      <4> QED BY <1>1, <1>3, <1>n, <4>1, CmdsAppend
    <3>3. Owed(t) \subseteq OfSinks(sinks) \cup OfChunks(chunks) \cup OfCmds(cmds, n)
      BY <1>n, <3>1 DEF BatcherInv, Down
    <3>4. n + 1 \in 1..(n + 1) /\ (n + 1) - 1 = n
      BY <1>4
    <3>5. OfCmds(cmds', (n + 1) - 1) = OfCmds(cmds, n)
      BY <1>6, <3>2, <3>4
    <3>6. cmds'[n + 1].step = "pop"
      BY <1>3, <3>1, <3>2
    <3>7. Owed(t)' \subseteq OfSinks(sinks') \cup OfChunks(chunks') \cup OfCmds(cmds', (n + 1) - 1)
      BY <2>1, <3>1, <3>3, <3>5
    <3>8. m = n + 1 /\ m \in 1..m
      BY <1>7, <3>2, <3>4
    <3>9. OfCmds(cmds', m - 1) = OfCmds(cmds, n)
      BY <3>5, <3>8
    <3>10. /\ m \in 1..m /\ cmds'[m].step = "pop"
           /\ Owed(t)' \subseteq OfSinks(sinks') \cup OfChunks(chunks') \cup OfCmds(cmds', m - 1)
      BY <3>6, <3>7, <3>8
    <3> QED BY <3>1, <3>10 DEF PassOf, Through
  <2> QED BY <2>2, <2>3
<1>8. ASSUME NEW i, NEW c, Flushing(i, c)' PROVE PassOf(c.from, i - 1)'
  <2>1. i \in 1..Len(cmds') /\ cmds'[i] = c /\ c.call = call'[c.from] /\ c.step \in {"flush", "shutdown"}
    BY <1>8 DEF Flushing
  <2>2. CASE i \in 1..n
    <3>1. i \in 1..Len(cmds) /\ cmds[i] = c
      BY <1>4, <1>n, <2>1, <2>2
    <3>2. c.from \in Threads /\ c.call # NoCall
      BY <3>1, OnQueue
    <3>3. call'[c.from] = call[c.from]
      BY <1>1, <2>1, <3>2
    <3>4. Flushing(i, c)
      BY <2>1, <3>1, <3>3 DEF Flushing
    <3>5. PassOf(c.from, i - 1)
      BY <3>4, ForwardInvParts
    <3>6. Owed(c.from)' = Owed(c.from)
      BY <1>1, <3>3 DEF Owed
    <3>7. i - 1 \in 0..n /\ i - 1 \in Nat /\ i - 1 <= i - 1
      BY <1>4, <2>2
    <3> QED BY <1>5, <3>2, <3>5, <3>6, <3>7
  <2>3. CASE i \notin 1..n
    <3>1. cmds' # cmds
      BY <1>n, <2>1, <2>3
    <3>2. /\ Len(cmds') = n + 1 /\ cmds'[n + 1] = d
      BY <1>4, <3>1
    <3>3. i = n + 1 /\ i - 1 = n
      BY <1>4, <2>1, <2>3, <3>2
    <3>4. c = d
      BY <2>1, <3>2, <3>3
    <3>5. Pc(t) \in AfterPop /\ Pc(t)' # "idle"
      BY <1>1, <1>3, <2>1, <3>4, NextTable DEF AfterPop
    <3>6. PassOf(t, n) /\ Owed(t)' = Owed(t)
      BY <1>n, <3>5, ForwardInvParts, OwedStep DEF ForwardOf
    <3>7. n <= n
      BY <1>4
    <3>8. PassOf(t, n)'
      BY <1>4, <1>5, <1>6, <3>6, <3>7
    <3> QED BY <1>3, <3>3, <3>4, <3>8
  <2> QED BY <2>2, <2>3
<1>9. ASSUME NEW u \in Threads PROVE ForwardOf(u)'
  <2>m. PICK m : m = Len(cmds')
    OBVIOUS
  <2>1. Pc(u)' \in AfterPop => PassOf(u, m)'
    BY <1>7, <2>m
  <2> QED BY <2>1, <2>m DEF ForwardOf, PassOf
<1> QED BY <1>8, <1>9, ForwardInvParts

\* The batching thread only adds chunks.
LEMMA ForwardBatcher ==
    ASSUME TypeInv, ForwardInv, OfChunks(chunks) \subseteq OfChunks(chunks'),
           UNCHANGED <<threadVars, cmds, reply, forwarder, sinks>>
    PROVE  ForwardInv'
<1>1. ASSUME NEW u \in Threads, NEW k \in Nat, PassOf(u, k) PROVE PassOf(u, k)'
  <2>x. PICK x : x = Owed(u)
    OBVIOUS
  <2>1. Owed(u)' = x
    BY <2>x DEF Owed, threadVars
  <2>2. Through(x, k, cmds, chunks, forwarder, sinks)
    BY <1>1, <2>x DEF PassOf
  <2>3. k <= k /\ x \subseteq x
    OBVIOUS
  <2>4. Through(x, k, cmds, chunks', forwarder, sinks)
    BY <2>2, <2>3, ThroughGrows
  <2> QED BY <2>1, <2>4 DEF PassOf
<1>2. Len(cmds) \in Nat
  BY LenProperties DEF TypeInv
<1>3. ASSUME NEW u \in Threads PROVE ForwardOf(u)'
  <2>n. PICK n : n = Len(cmds)
    OBVIOUS
  <2>1. Pc(u)' \in AfterPop => PassOf(u, n)
    BY <2>n, ForwardInvParts DEF ForwardOf, Pc, threadVars
  <2>2. Pc(u)' \in AfterPop => PassOf(u, n)'
    BY <1>1, <1>2, <2>n, <2>1
  <2> QED BY <2>n, <2>2 DEF ForwardOf, PassOf
<1>4. ASSUME NEW i, NEW c, Flushing(i, c)' PROVE PassOf(c.from, i - 1)'
  <2>1. Flushing(i, c)
    BY <1>4 DEF Flushing, threadVars
  <2>2. PassOf(c.from, i - 1)
    BY <2>1, ForwardInvParts
  <2>3. i \in 1..Len(cmds) /\ cmds[i] = c
    BY <2>1 DEF Flushing
  <2>4. c.from \in Threads
    BY <2>3, OnQueue
  <2>5. i - 1 \in Nat
    BY <1>2, <2>3
  <2> QED BY <1>1, <2>2, <2>4, <2>5
<1> QED BY <1>3, <1>4, ForwardInvParts

\* When the forwarding thread exits, nothing is left on the way.
LEMMA ExitsDrained ==
    ASSUME TypeInv, CallInv, ForwardInv, ExitInv, Exits
    PROVE  dropped /\ recorded \subseteq OfSinks(sinks)
<1>c. PICK c : c = Head(cmds)
  OBVIOUS
<1>1. cmds \in Seq(Cmd) /\ cmds # <<>> /\ c.step = "shutdown" /\ forwarder = "select"
  BY <1>c DEF Exits, TypeInv
<1>2. Len(cmds) \in Nat \ {0} /\ c = cmds[1]
  BY <1>c, <1>1, CmdsTail
<1>3. 1 \in 1..Len(cmds)
  BY <1>2
<1>4. c.call = call[c.from] /\ c.call.op = "drop"
  BY <1>1, <1>2, <1>3, OnQueue DEF ExitInv
<1>5. dropped
  BY <1>2, <1>3, <1>4 DEF CallInv
<1>6. Flushing(1, c)
  BY <1>1, <1>2, <1>3, <1>4 DEF Flushing
<1>7. PassOf(c.from, 1 - 1)
  BY <1>6, ForwardInvParts
<1>8. 1..(1 - 1) = {}
  OBVIOUS
<1>9. Owed(c.from) \subseteq OfSinks(sinks)
  BY <1>1, <1>7, <1>8 DEF PassOf, Through
<1>10. Owed(c.from) = recorded
  BY <1>4 DEF Owed
<1> QED BY <1>5, <1>9, <1>10

\* The forwarding thread drains the chunks between any two commands.
LEMMA ForwardForward ==
    ASSUME TypeInv, CallInv, ForwardInv, ExitInv, Handles \/ Relays \/ Drains \/ Exits,
           UNCHANGED threadVars
    PROVE  ForwardInv'
<1>1. /\ cmds \in Seq(Cmd) /\ Len(cmds) \in Nat /\ chunks \in Seq(Seq(Item)) /\ recorded' = recorded
      /\ \A u \in Threads : Pc(u)' = Pc(u) /\ Owed(u)' = Owed(u) /\ call'[u] = call[u]
  BY LenProperties DEF TypeInv, Pc, Owed, threadVars
<1>2. CASE Handles
  <2>1. /\ cmds # <<>> /\ cmds' = Tail(cmds) /\ forwarder = "select" /\ forwarder' = "drain"
        /\ chunks' = chunks /\ OfSinks(sinks) \cup Carried(Head(cmds)) \subseteq OfSinks(sinks')
    BY <1>2 DEF Handles, Grown
  <2>2. /\ Len(cmds) \in Nat \ {0} /\ Len(cmds') = Len(cmds) - 1
        /\ \A i \in 1..Len(cmds') : cmds'[i] = cmds[i + 1] /\ i + 1 \in 1..Len(cmds)
    BY <1>1, <2>1, CmdsTail
  <2>3. ASSUME NEW u \in Threads, NEW k \in 1..Len(cmds), PassOf(u, k), NEW m, m = k - 1
        PROVE  PassOf(u, m)'
    <3>x. PICK x : x = Owed(u)
      OBVIOUS
    <3>1. Through(x, k, cmds, chunks, "select", sinks)
      BY <2>1, <2>3, <3>x DEF PassOf
    <3>2. Through(x, k - 1, Tail(cmds), chunks, "drain", sinks')
      BY <1>1, <2>1, <3>1, ThroughHandled
    <3> QED BY <1>1, <2>1, <2>3, <3>x, <3>2 DEF PassOf
  <2>4. ASSUME NEW u \in Threads PROVE ForwardOf(u)'
    <3>n. PICK n, m : n = Len(cmds) /\ m = Len(cmds')
      OBVIOUS
    <3>1. n \in 1..Len(cmds) /\ m = n - 1
      BY <2>2, <3>n
    <3>2. Pc(u)' \in AfterPop => PassOf(u, n)
      BY <1>1, <3>n, ForwardInvParts DEF ForwardOf
    <3>3. Pc(u)' \in AfterPop => PassOf(u, m)'
      BY <2>3, <3>1, <3>2
    <3> QED BY <3>n, <3>3 DEF ForwardOf, PassOf
  <2>5. ASSUME NEW i, NEW c, Flushing(i, c)' PROVE PassOf(c.from, i - 1)'
    <3>1. i \in 1..Len(cmds') /\ cmds'[i] = c /\ c.call = call'[c.from] /\ c.step \in {"flush", "shutdown"}
      BY <2>5 DEF Flushing
    <3>2. cmds[i + 1] = c /\ i + 1 \in 1..Len(cmds)
      BY <2>2, <3>1
    <3>3. c.from \in Threads
      BY <3>2, OnQueue
    <3>4. Flushing(i + 1, c)
      BY <1>1, <3>1, <3>2, <3>3 DEF Flushing
    <3>5. PassOf(c.from, (i + 1) - 1)
      BY <3>4, ForwardInvParts
    <3>6. (i + 1) - 1 = i /\ i \in 1..Len(cmds)
      BY <2>2, <3>1
    <3> QED BY <2>3, <3>3, <3>5, <3>6
  <2> QED BY <2>4, <2>5, ForwardInvParts
<1>3. ASSUME cmds' = cmds, \A u \in Threads, k \in Nat : PassOf(u, k) => PassOf(u, k)'
      PROVE  ForwardInv'
  <2>1. ASSUME NEW u \in Threads PROVE ForwardOf(u)'
    <3>n. PICK n : n = Len(cmds)
      OBVIOUS
    <3>1. Pc(u)' \in AfterPop => PassOf(u, n)
      BY <1>1, <3>n, ForwardInvParts DEF ForwardOf
    <3>2. Pc(u)' \in AfterPop => PassOf(u, n)'
      BY <1>1, <1>3, <3>n, <3>1
    <3> QED BY <1>3, <3>n, <3>2 DEF ForwardOf, PassOf
  <2>2. ASSUME NEW i, NEW c, Flushing(i, c)' PROVE PassOf(c.from, i - 1)'
    <3>1. i \in 1..Len(cmds) /\ cmds[i] = c
      BY <1>3, <2>2 DEF Flushing
    <3>2. c.from \in Threads
      BY <3>1, OnQueue
    <3>3. Flushing(i, c)
      BY <1>1, <1>3, <2>2, <3>1, <3>2 DEF Flushing
    <3>4. PassOf(c.from, i - 1)
      BY <3>3, ForwardInvParts
    <3>5. i - 1 \in Nat
      BY <1>1, <3>1
    <3> QED BY <1>3, <3>2, <3>4, <3>5
  <2> QED BY <2>1, <2>2, ForwardInvParts
<1>4. CASE Relays
  <2>1. /\ chunks # <<>> /\ chunks' = Tail(chunks) /\ forwarder' = "drain" /\ cmds' = cmds
        /\ OfSinks(sinks') = OfSinks(sinks) \cup ToSet(Head(chunks))
    BY <1>4 DEF Relays, Grown
  <2>2. OfChunks(chunks) = ToSet(Head(chunks)) \cup OfChunks(chunks')
    BY <1>1, <2>1, ChunksTail
  <2>3. OfSinks(sinks) \subseteq OfSinks(sinks') /\ OfChunks(chunks) \subseteq OfChunks(chunks') \cup OfSinks(sinks')
    BY <2>1, <2>2
  <2>4. ASSUME NEW u \in Threads, NEW k \in Nat, PassOf(u, k) PROVE PassOf(u, k)'
    <3>x. PICK x : x = Owed(u)
      OBVIOUS
    <3>1. Through(x, k, cmds, chunks, forwarder, sinks)
      BY <2>4, <3>x DEF PassOf
    <3>2. Through(x, k, cmds, chunks', "drain", sinks')
      BY <2>3, <3>1, ThroughRelayed
    <3> QED BY <1>1, <2>1, <3>x, <3>2 DEF PassOf
  <2> QED BY <1>3, <2>1, <2>4
<1>5. CASE Drains
  <2>1. forwarder = "drain" /\ chunks = <<>> /\ UNCHANGED <<chunks, cmds, sinks>>
    BY <1>5 DEF Drains
  <2>2. OfChunks(chunks) = {}
    BY <2>1, ChunksFew
  <2>3. ASSUME NEW u \in Threads, NEW k \in Nat, PassOf(u, k) PROVE PassOf(u, k)'
    <3>x. PICK x, fw : x = Owed(u) /\ fw = forwarder'
      OBVIOUS
    <3>1. Through(x, k, cmds, chunks, "drain", sinks)
      BY <2>1, <2>3, <3>x DEF PassOf
    <3>2. Through(x, k, cmds, chunks, fw, sinks)
      BY <2>2, <3>1, ThroughDrained
    <3> QED BY <1>1, <2>1, <3>x, <3>2 DEF PassOf
  <2> QED BY <1>3, <2>1, <2>3
<1>6. CASE Exits
  <2>1. recorded \subseteq OfSinks(sinks')
    BY <1>6, ExitsDrained DEF Exits
  <2>2. \A u : Owed(u)' \subseteq OfSinks(sinks')
    BY <1>1, <2>1 DEF Owed
  <2>3. \A u, k : PassOf(u, k)'
    BY <2>2 DEF PassOf, Through
  <2>4. \A u \in Threads : ForwardOf(u)'
    <3> TAKE u \in Threads
    <3>n. PICK n : n = Len(cmds')
      OBVIOUS
    <3>1. PassOf(u, n)'
      BY <2>3
    <3> QED BY <3>n, <3>1 DEF ForwardOf, PassOf
  <2> QED BY <2>3, <2>4, ForwardInvParts
<1> QED BY <1>2, <1>4, <1>5, <1>6

-----------------------------------------------------------------------------
(* The exit of the forwarding thread *)

\* A command on the queue.
OnCmds(c) == \E i \in 1..Len(cmds) : cmds[i] = c
Leaving(c) == c.step = "shutdown" /\ forwarder # "exited" => c.call = call[c.from]
Gone == forwarder = "exited" => dropped /\ recorded \subseteq OfSinks(sinks)

\* ExitInv by commands.
LEMMA ExitInvParts ==
    /\ ExitInv <=> Gone /\ \A c : OnCmds(c) => Leaving(c)
    /\ ExitInv' <=> Gone' /\ \A c : OnCmds(c)' => Leaving(c)'
  BY DEF ExitInv, Gone, OnCmds, Leaving

\* No call begins once the stream is dropped.
LEMMA ExitBegin ==
    ASSUME TypeInv, CallInv, ExitInv, NEW t \in Threads, NEW c, Begun(t, c)
    PROVE  ExitInv'
<1>1. ~dropped /\ UNCHANGED <<cmds, forwarder>>
  BY DEF Begun, Started
<1>2. forwarder' # "exited"
  BY <1>1 DEF ExitInv
<1>3. ASSUME NEW d, OnCmds(d)' PROVE d.step # "shutdown"
  <2>1. PICK i \in 1..Len(cmds) : cmds[i] = d
    BY <1>1, <1>3 DEF OnCmds
  <2>2. d.call.op = "drop" => dropped
    BY <2>1 DEF CallInv
  <2> QED BY <1>1, <2>1, <2>2, OnQueue
<1> QED BY <1>2, <1>3, ExitInvParts DEF Gone, Leaving

\* A thread sends a command or not, and the others stay on the queue.
LEMMA SentCmd ==
    ASSUME TypeInv, StageInv, NEW t \in Threads, todo[t] # <<>>, Sends(t), NEW c, OnCmds(c)'
    PROVE  OnCmds(c) \/ (c = Command(t) /\ Pc(t) \in ToForwarder)
<1>1. cmds \in Seq(Cmd) /\ Command(t) \in Cmd
  BY StageFacts DEF TypeInv
<1>2. CASE cmds' = cmds
  BY <1>2 DEF OnCmds
<1>3. CASE cmds' = Append(cmds, Command(t)) /\ Pc(t) \in ToForwarder
  <2>d. PICK d, n : d = Command(t) /\ n = Len(cmds)
    OBVIOUS
  <2>1. n \in Nat /\ Len(cmds') = n + 1 /\ cmds'[n + 1] = d /\ \A i \in 1..n : cmds'[i] = cmds[i]
    BY <1>1, <1>3, <2>d, CmdsAppend
  <2>2. PICK i \in 1..(n + 1) : cmds'[i] = c
    BY <2>1 DEF OnCmds
  <2>3. i = n + 1 \/ i \in 1..n
    BY <2>1, <2>2
  <2> QED BY <1>3, <2>d, <2>1, <2>2, <2>3 DEF OnCmds
<1> QED BY <1>2, <1>3 DEF Sends

\* The drop goes on only when the forwarding thread has exited.
LEMMA ExitThread ==
    ASSUME TypeInv, StageInv, CallInv, ExitInv, NEW t \in Threads, todo[t] # <<>>,
           Moved(t), Sends(t), UNCHANGED <<batcherVars, chunks, forwarder, sinks>>
    PROVE  ExitInv'
<1>1. /\ Pc(t) \in Step /\ call[t].op \in SenderOf(Pc(t)) /\ Pc(t) = Head(todo[t])
      /\ Pc(t)' = NextOf(call[t].op, Pc(t))
      /\ call'[t] = IF Pc(t)' = "idle" THEN NoCall ELSE call[t]
      /\ \A u \in Threads : u # t => call'[u] = call[u]
  BY StageFacts DEF Moved
<1>2. Gone'
  BY DEF ExitInv, Gone, Moved
<1>3. ASSUME NEW c, OnCmds(c)', c.step = "shutdown", forwarder # "exited"
      PROVE  c.call = call'[c.from]
  <2>1. CASE OnCmds(c)
    <3>1. PICK i \in 1..Len(cmds) : cmds[i] = c
      BY <2>1 DEF OnCmds
    <3>2. c.from \in Threads /\ c.call.op = "drop"
      BY <1>3, <3>1, OnQueue
    <3>3. c.call = call[c.from]
      BY <1>3, <2>1, ExitInvParts DEF Leaving
    <3>4. CASE c.from = t
      <4>1. Pc(t) # "b_join"
        BY <1>3, <3>4 DEF CallInv
      <4>2. call[t].op = "drop"
        BY <3>2, <3>3, <3>4
      <4>3. Pc(t)' # "idle"
        BY <1>1, <4>1, <4>2, NextTable
      <4> QED BY <1>1, <3>3, <3>4, <4>3
    <3> QED BY <1>1, <3>2, <3>3, <3>4
  <2>2. CASE c = Command(t)
    <3>1. c.call = call[t] /\ c.from = t /\ Pc(t) = "shutdown"
      BY <1>1, <1>3, <2>2 DEF Command
    <3>2. Pc(t)' # "idle"
      BY <1>1, <3>1, NextTable
    <3> QED BY <1>1, <3>1, <3>2
  <2> QED BY <1>3, <2>1, <2>2, SentCmd
<1> QED BY <1>2, <1>3, ExitInvParts DEF Leaving

\* The exit finds everything in the sinks.
LEMMA ExitForward ==
    ASSUME TypeInv, CallInv, ForwardInv, ExitInv, Handles \/ Relays \/ Drains \/ Exits,
           UNCHANGED threadVars
    PROVE  ExitInv'
<1>1. /\ dropped' = dropped /\ recorded' = recorded /\ call' = call
      /\ cmds' = cmds \/ (cmds # <<>> /\ cmds' = Tail(cmds))
  BY DEF threadVars, Handles, Relays, Drains, Exits
<1>2. forwarder # "exited"
  BY DEF Handles, Relays, Drains, Exits
<1>3. ASSUME NEW c, OnCmds(c)' PROVE Leaving(c)'
  <2>1. OnCmds(c)
    BY <1>1, <1>3, RestOfCmds DEF OnCmds
  <2>2. Leaving(c)
    BY <2>1, ExitInvParts
  <2> QED BY <1>1, <1>2, <2>2 DEF Leaving
<1>4. Gone'
  <2>1. CASE Exits
    <3>1. dropped /\ recorded \subseteq OfSinks(sinks) /\ sinks' = sinks
      BY <2>1, ExitsDrained DEF Exits
    <3> QED BY <1>1, <3>1 DEF Gone
  <2>2. CASE Handles \/ Relays \/ Drains
    BY <2>2 DEF Handles, Relays, Drains, Gone
  <2> QED BY <2>1, <2>2
<1> QED BY <1>3, <1>4, ExitInvParts

-----------------------------------------------------------------------------
(* The answers of the forwarding thread, and the sinks behind them *)

\* What SwapInv says of a thread, and of a command c at place i.
SwapOf(t) ==
    /\ swapped[t] # 0 => Present(swapped[t], sinks)
    /\ call[t].op = "set_sink" /\ Pc(t) \in {"flush", "wait"} =>
          Present(call[t].nr, sinks) \/ Swaps(call[t].nr, cmds, Len(cmds))
    /\ reply[t] # "none" =>
          Pc(t) = "wait" /\ (call[t].op = "set_sink" => Present(call[t].nr, sinks))
AtPlace(i, c) == i \in 1..Len(cmds) /\ cmds[i] = c
Behind(i, c) ==
    c.step = "flush" /\ c.call.op = "set_sink" =>
        Present(c.call.nr, sinks) \/ Swaps(c.call.nr, cmds, i - 1)
Finalizing(c) ==
    c.step = "finalize" =>
        c.call = call[c.from] /\ Pc(c.from) = "wait" /\ reply[c.from] = "none"
OneFinalize ==
    \A i, j, c, d :
        AtPlace(i, c) /\ AtPlace(j, d) /\ c.step = "finalize" /\ d.step = "finalize"
            /\ c.from = d.from => i = j
Swapped == (\A x \in recorded : x.after # 0 => Present(x.after, sinks)) /\ Guarded(sinks)

\* SwapInv by threads and commands.
LEMMA SwapInvParts ==
    /\ SwapInv <=> /\ \A t \in Threads : SwapOf(t)
                   /\ \A i, c : AtPlace(i, c) => Behind(i, c) /\ Finalizing(c)
                   /\ OneFinalize /\ Swapped
    /\ SwapInv' <=> /\ \A t \in Threads : SwapOf(t)'
                    /\ \A i, c : AtPlace(i, c)' => Behind(i, c)' /\ Finalizing(c)'
                    /\ OneFinalize' /\ Swapped'
<1>1. SwapInv <=> /\ \A t \in Threads : SwapOf(t)
                  /\ \A i, c : AtPlace(i, c) => Behind(i, c) /\ Finalizing(c)
                  /\ OneFinalize /\ Swapped
  BY DEF SwapInv, SwapOf, AtPlace, Behind, Finalizing, OneFinalize, Swapped
<1>2. SwapInv' <=> /\ \A t \in Threads : SwapOf(t)'
                   /\ \A i, c : AtPlace(i, c)' => Behind(i, c)' /\ Finalizing(c)'
                   /\ OneFinalize' /\ Swapped'
  BY DEF SwapInv, SwapOf, AtPlace, Behind, Finalizing, OneFinalize, Swapped
<1> QED BY <1>1, <1>2

\* A swap stays on the queue when it grows, and when another command leaves.
LEMMA SwapsGrow ==
    ASSUME NEW nr, NEW q, NEW r, NEW n \in Nat, NEW m \in Nat, n <= m,
           \A i \in 1..n : r[i] = q[i], Swaps(nr, q, n)
    PROVE  Swaps(nr, r, m)
<1>1. PICK i \in 1..n : q[i].step = "swap" /\ q[i].call.nr = nr
  BY DEF Swaps
<1>2. i \in 1..m /\ r[i] = q[i]
  BY <1>1
<1> QED BY <1>1, <1>2 DEF Swaps

\* The first command leaves: it was the swap, or the swap is still there.
LEMMA SwapsTail ==
    ASSUME NEW nr, NEW q \in Seq(Cmd), q # <<>>, NEW n \in 1..Len(q), Swaps(nr, q, n)
    PROVE  \/ Head(q).step = "swap" /\ Head(q).call.nr = nr
           \/ Swaps(nr, Tail(q), n - 1)
<1>1. PICK i \in 1..n : q[i].step = "swap" /\ q[i].call.nr = nr
  BY DEF Swaps
<1>2. /\ Len(q) \in Nat \ {0} /\ Head(q) = q[1] /\ Len(Tail(q)) = Len(q) - 1
      /\ \A j \in 1..Len(Tail(q)) : Tail(q)[j] = q[j + 1]
  BY CmdsTail
<1>3. CASE i = 1
  BY <1>1, <1>2, <1>3
<1>4. CASE i # 1
  <2>1. i - 1 \in 1..(n - 1) /\ i - 1 \in 1..Len(Tail(q)) /\ (i - 1) + 1 = i
    BY <1>2, <1>4
  <2>2. Tail(q)[i - 1] = q[i]
    BY <1>2, <2>1
  <2> QED BY <1>1, <2>1, <2>2 DEF Swaps
<1> QED BY <1>3, <1>4

\* A flush is answered to the call that sent it.
LEMMA AnswersOwn ==
    ASSUME TypeInv, StageInv, CallInv, cmds # <<>>, Head(cmds).step = "flush", Waits(Head(cmds))
    PROVE  Head(cmds).call = call[Head(cmds).from] /\ Pc(Head(cmds).from) = "wait"
<1>c. PICK c : c = Head(cmds)
  OBVIOUS
<1>1. cmds \in Seq(Cmd)
  BY DEF TypeInv
<1>2. Len(cmds) \in Nat \ {0} /\ c = cmds[1]
  BY <1>c, <1>1, CmdsTail
<1>3. 1 \in 1..Len(cmds)
  BY <1>2
<1>4. c.from \in Threads /\ c.call.nr \in Nat
  BY <1>2, <1>3, OnQueue
<1>5. todo[c.from] # <<>> /\ Pc(c.from) = "wait" /\ call[c.from].nr = c.call.nr
  BY <1>c DEF Waits, At, Idle, Pc
<1>6. call[c.from] # NoCall /\ call[c.from].op \in SenderOf(Pc(c.from)) /\ Pc(c.from) \in Step
  BY <1>4, <1>5, StageFacts
<1>7. call[c.from].op # "drop"
  BY <1>5, <1>6, NextTable
<1>8. c.call = call[c.from] \/ call[c.from] = NoCall \/ call[c.from].op = "drop"
        \/ c.call.nr < call[c.from].nr
  BY <1>2, <1>3 DEF CallInv
<1>9. ~(c.call.nr < call[c.from].nr)
  BY <1>4, <1>5
<1> QED BY <1>c, <1>5, <1>6, <1>7, <1>8, <1>9

\* What a thread records carries its last swap that returned.
LEMMA SwapBegin ==
    ASSUME TypeInv, SwapInv, NEW t \in Threads, NEW c, Begun(t, c)
    PROVE  SwapInv'
<1>1. /\ Pc(t) = "idle" /\ call'[t] = c /\ UNCHANGED <<swapped, cmds, reply, sinks>>
      /\ \A u \in Threads : u # t => Pc(u)' = Pc(u) /\ call'[u] = call[u]
      /\ Pc(t)' \notin {"flush", "wait"}
      /\ recorded' = recorded
           \/ (recorded' = recorded \cup {c.item} /\ c.item.after = swapped[t])
  BY DEF Begun, Started
<1>2. reply[t] = "none"
  BY <1>1, SwapInvParts DEF SwapOf
<1>3. ASSUME NEW u \in Threads PROVE SwapOf(u)'
  <2>1. SwapOf(u)
    BY SwapInvParts
  <2>2. CASE u = t
    BY <1>1, <1>2, <2>1, <2>2 DEF SwapOf
  <2>3. CASE u # t
    BY <1>1, <2>1, <2>3 DEF SwapOf
  <2> QED BY <2>2, <2>3
<1>4. ASSUME NEW i, NEW d, AtPlace(i, d)' PROVE Behind(i, d)' /\ Finalizing(d)'
  <2>1. AtPlace(i, d) /\ i \in 1..Len(cmds) /\ cmds[i] = d
    BY <1>1, <1>4 DEF AtPlace
  <2>2. Behind(i, d) /\ Finalizing(d)
    BY <2>1, SwapInvParts
  <2>3. Behind(i, d)'
    BY <1>1, <2>2 DEF Behind
  <2>4. d.from \in Threads
    BY <2>1, OnQueue
  <2>5. CASE d.step = "finalize"
    <3>1. Pc(d.from) = "wait"
      BY <2>2, <2>5 DEF Finalizing
    <3>2. d.from # t
      BY <1>1, <3>1
    <3> QED BY <1>1, <2>2, <2>3, <2>4, <3>2 DEF Finalizing
  <2> QED BY <2>3, <2>5 DEF Finalizing
<1>5. OneFinalize'
  BY <1>1, SwapInvParts DEF OneFinalize, AtPlace
<1>6. Swapped'
  <2>1. Swapped /\ SwapOf(t)
    BY SwapInvParts
  <2>2. recorded' = recorded => Swapped'
    BY <1>1, <2>1 DEF Swapped
  <2>3. ASSUME recorded' = recorded \cup {c.item}, c.item.after = swapped[t]
        PROVE  \A x \in recorded' : x.after # 0 => Present(x.after, sinks')
    BY <1>1, <2>1, <2>3 DEF Swapped, SwapOf
  <2> QED BY <1>1, <2>1, <2>2, <2>3 DEF Swapped
<1> QED BY <1>3, <1>4, <1>5, <1>6, SwapInvParts

\* No answer is left behind when a thread moves on.
LEMMA AnswerTaken ==
    ASSUME TypeInv, SwapInv, NEW t \in Threads, Sends(t)
    PROVE  reply'[t] = "none" /\ \A u \in Threads : u # t => reply'[u] = reply[u]
<1>1. reply \in [Threads -> {"none", "ok", "err"}]
  BY DEF TypeInv
<1>2. reply[t] # "none" => Pc(t) = "wait"
  BY SwapInvParts DEF SwapOf
<1>3. \/ Pc(t) # "wait" /\ reply' = reply
      \/ reply' = [reply EXCEPT ![t] = "none"]
  BY DEF Sends, ToBatcher, ToForwarder
<1> QED BY <1>1, <1>2, <1>3

\* set_sink sends the flush behind the swap and returns with its answer.
LEMMA SwapThread ==
    ASSUME TypeInv, StageInv, CallInv, SwapInv, NEW t \in Threads, todo[t] # <<>>,
           Moved(t), Sends(t), UNCHANGED <<batcherVars, chunks, forwarder, sinks>>
    PROVE  SwapInv'
<1>1. /\ Pc(t) \in Step /\ call[t].op \in SenderOf(Pc(t)) /\ Command(t) \in Cmd /\ Pc(t) = Head(todo[t])
      /\ Pc(t)' = NextOf(call[t].op, Pc(t)) /\ cmds \in Seq(Cmd) /\ sinks' = sinks
      /\ recorded' = recorded
      /\ call'[t] = IF Pc(t)' = "idle" THEN NoCall ELSE call[t]
      /\ swapped'[t] = IF call[t].op = "set_sink" /\ Pc(t)' = "idle" THEN call[t].nr ELSE swapped[t]
      /\ \A u \in Threads : u # t => Pc(u)' = Pc(u) /\ call'[u] = call[u] /\ swapped'[u] = swapped[u]
  BY StageFacts DEF Moved, TypeInv
<1>2. reply'[t] = "none" /\ \A u \in Threads : u # t => reply'[u] = reply[u]
  BY AnswerTaken
<1>d. PICK d, n, m : d = Command(t) /\ n = Len(cmds) /\ m = Len(cmds')
  OBVIOUS
<1>3. d \in Cmd /\ d.step = Pc(t) /\ d.from = t /\ d.call = call[t]
  BY <1>1, <1>d DEF Command
<1>4. /\ n \in Nat /\ m \in Nat /\ n <= m /\ \A i \in 1..n : cmds'[i] = cmds[i]
      /\ \/ cmds' = cmds /\ m = n /\ Pc(t) \notin ToForwarder
         \/ Pc(t) \in ToForwarder /\ m = n + 1 /\ cmds'[n + 1] = d
  <2>1. n \in Nat
    BY <1>1, <1>d, LenProperties
  <2>2. CASE cmds' = cmds /\ Pc(t) \notin ToForwarder
    <3>1. n <= n
      BY <2>1
    <3> QED BY <2>1, <2>2, <3>1, <1>d
  <2>3. CASE cmds' = Append(cmds, d) /\ Pc(t) \in ToForwarder
    <3>1. m = n + 1 /\ cmds'[n + 1] = d /\ \A i \in 1..n : cmds'[i] = cmds[i]
      BY <1>1, <1>3, <1>d, <2>3, CmdsAppend
    <3>2. n + 1 \in Nat /\ n <= n + 1
      BY <2>1
    <3> QED BY <2>1, <2>3, <3>1, <3>2
  <2> QED BY <1>d, <2>2, <2>3 DEF Sends, ToForwarder, ToBatcher
<1>5. \A nr : \A k \in Nat : k <= n /\ Swaps(nr, cmds, k) => Swaps(nr, cmds', k)
  <2> TAKE nr
  <2> TAKE k \in Nat
  <2> HAVE k <= n /\ Swaps(nr, cmds, k)
  <2>1. k <= k /\ \A i \in 1..k : cmds'[i] = cmds[i]
    BY <1>4
  <2> QED BY <2>1, SwapsGrow
<1>6. \A nr : Swaps(nr, cmds, n) => Swaps(nr, cmds', m)
  BY <1>4, SwapsGrow
<1>7. ASSUME NEW u \in Threads PROVE SwapOf(u)'
  <2>1. SwapOf(u)
    BY SwapInvParts
  <2>2. CASE u # t
    <3>1. /\ swapped'[u] # 0 => Present(swapped'[u], sinks')
          /\ reply'[u] # "none" =>
                Pc(u)' = "wait" /\ (call'[u].op = "set_sink" => Present(call'[u].nr, sinks'))
      BY <1>1, <1>2, <2>1, <2>2 DEF SwapOf
    <3>2. call'[u].op = "set_sink" /\ Pc(u)' \in {"flush", "wait"} =>
             Present(call'[u].nr, sinks') \/ Swaps(call'[u].nr, cmds', m)
      BY <1>1, <1>6, <1>d, <2>1, <2>2 DEF SwapOf
    <3> QED BY <1>d, <3>1, <3>2 DEF SwapOf
  <2>3. CASE u = t
    <3>1. swapped'[t] # 0 => Present(swapped'[t], sinks')
      <4>1. CASE call[t].op = "set_sink" /\ Pc(t)' = "idle"
        <5>1. Pc(t) = "wait"
          BY <1>1, <4>1, NextTable
        <5>2. reply[t] # "none"
          BY <4>1, <5>1 DEF Sends, ToBatcher, ToForwarder
        <5>3. Present(call[t].nr, sinks)
          BY <2>1, <2>3, <4>1, <5>2 DEF SwapOf
        <5> QED BY <1>1, <4>1, <5>3
      <4>2. CASE ~(call[t].op = "set_sink" /\ Pc(t)' = "idle")
        BY <1>1, <2>1, <2>3, <4>2 DEF SwapOf
      <4> QED BY <4>1, <4>2
    <3>2. ASSUME call'[t].op = "set_sink", Pc(t)' \in {"flush", "wait"}
          PROVE  Present(call'[t].nr, sinks') \/ Swaps(call'[t].nr, cmds', m)
      <4>1. call'[t] = call[t] /\ call[t].op = "set_sink"
        BY <1>1, <3>2
      <4>2. Pc(t) \in {"swap", "flush"}
        BY <1>1, <3>2, <4>1, NextTable
      <4>3. CASE Pc(t) = "swap"
        <5>1. Pc(t) \in ToForwarder
          BY <4>3 DEF ToForwarder
        <5>2. m = n + 1 /\ cmds'[m] = d
          BY <1>4, <5>1
        <5>3. m \in 1..m
          BY <1>4, <5>2
        <5>4. cmds'[m].step = "swap" /\ cmds'[m].call.nr = call[t].nr
          BY <1>3, <4>3, <5>2
        <5> QED BY <4>1, <5>3, <5>4 DEF Swaps
      <4>4. CASE Pc(t) = "flush"
        <5>1. Present(call[t].nr, sinks) \/ Swaps(call[t].nr, cmds, n)
          BY <1>d, <2>1, <2>3, <4>1, <4>4 DEF SwapOf
        <5> QED BY <1>1, <1>6, <4>1, <5>1
      <4> QED BY <4>2, <4>3, <4>4
    <3> QED BY <1>2, <1>d, <2>3, <3>1, <3>2 DEF SwapOf
  <2> QED BY <2>2, <2>3
<1>8. ASSUME NEW i, NEW c, AtPlace(i, c)'
      PROVE  AtPlace(i, c) \/ (i = m /\ m = n + 1 /\ c = d /\ Pc(t) \in ToForwarder)
  <2>1. i \in 1..m /\ cmds'[i] = c
    BY <1>8, <1>d DEF AtPlace
  <2>2. i \in 1..n \/ (i = m /\ m = n + 1)
    BY <1>4, <2>1
  <2>3. CASE i \in 1..n
    BY <1>4, <1>d, <2>1, <2>3 DEF AtPlace
  <2>4. CASE i = m /\ m = n + 1
    <3>1. m # n
      BY <1>4, <2>4
    <3> QED BY <1>4, <2>1, <2>4, <3>1
  <2> QED BY <2>2, <2>3, <2>4
<1>9. ASSUME NEW i, NEW c, AtPlace(i, c), c.step = "finalize" PROVE c.from \in Threads /\ c.from # t
  <2>1. i \in 1..Len(cmds) /\ cmds[i] = c
    BY <1>9 DEF AtPlace
  <2>2. c.from \in Threads /\ c.call.op = "finalize"
    BY <1>9, <2>1, OnQueue
  <2>3. c.call = call[c.from] /\ Pc(c.from) = "wait" /\ reply[c.from] = "none"
    BY <1>9, SwapInvParts DEF Finalizing
  <2>4. ~(Pc(t) = "wait" /\ reply[t] = "none" /\ call[t].op # "flush")
    BY DEF Sends, ToBatcher, ToForwarder
  <2> QED BY <2>2, <2>3, <2>4
<1>10. ASSUME NEW i, NEW c, AtPlace(i, c)' PROVE Behind(i, c)' /\ Finalizing(c)'
  <2>1. CASE AtPlace(i, c)
    <3>1. Behind(i, c) /\ Finalizing(c)
      BY <2>1, SwapInvParts
    <3>2. i - 1 \in Nat /\ i - 1 <= n
      BY <1>4, <1>d, <2>1 DEF AtPlace
    <3>3. Behind(i, c)'
      BY <1>1, <1>5, <3>1, <3>2 DEF Behind
    <3>4. Finalizing(c)'
      BY <1>1, <1>2, <1>9, <2>1, <3>1 DEF Finalizing
    <3> QED BY <3>3, <3>4
  <2>2. CASE i = m /\ m = n + 1 /\ c = d /\ Pc(t) \in ToForwarder
    <3>1. i - 1 = n /\ n <= n
      BY <1>4, <2>2
    <3>2. Behind(i, c)'
      <4> SUFFICES ASSUME c.step = "flush", c.call.op = "set_sink"
                   PROVE  Present(c.call.nr, sinks') \/ Swaps(c.call.nr, cmds', i - 1)
        BY DEF Behind
      <4>1. call[t].op = "set_sink" /\ Pc(t) = "flush" /\ c.call = call[t]
        BY <1>3, <2>2
      <4>2. Present(call[t].nr, sinks) \/ Swaps(call[t].nr, cmds, n)
        BY <1>d, <4>1, SwapInvParts DEF SwapOf
      <4> QED BY <1>1, <1>4, <1>5, <3>1, <4>1, <4>2
    <3>3. Finalizing(c)'
      <4> SUFFICES ASSUME c.step = "finalize"
                   PROVE  c.call = call'[c.from] /\ Pc(c.from)' = "wait" /\ reply'[c.from] = "none"
        BY DEF Finalizing
      <4>1. Pc(t) = "finalize" /\ c.from = t /\ c.call = call[t]
        BY <1>3, <2>2
      <4>2. Pc(t)' = "wait"
        BY <1>1, <4>1, NextTable
      <4>3. call'[t] = call[t]
        BY <1>1, <4>2
      <4> QED BY <1>2, <4>1, <4>2, <4>3
    <3> QED BY <3>2, <3>3
  <2> QED BY <1>8, <1>10, <2>1, <2>2
<1>11. OneFinalize'
  <2> SUFFICES ASSUME NEW i, NEW j, NEW c, NEW e, AtPlace(i, c)', AtPlace(j, e)',
                      c.step = "finalize", e.step = "finalize", c.from = e.from
               PROVE  i = j
    BY DEF OneFinalize
  <2>1. AtPlace(i, c) \/ (i = m /\ c.from = t)
    BY <1>3, <1>8
  <2>2. AtPlace(j, e) \/ (j = m /\ e.from = t)
    BY <1>3, <1>8
  <2>3. AtPlace(i, c) /\ AtPlace(j, e) => i = j
    BY SwapInvParts DEF OneFinalize
  <2> QED BY <1>9, <2>1, <2>2, <2>3
<1>12. Swapped'
  BY <1>1, SwapInvParts DEF Swapped
<1> QED BY <1>7, <1>10, <1>11, <1>12, SwapInvParts

\* The batching thread knows nothing of sinks.
LEMMA SwapBatcher ==
    ASSUME SwapInv, UNCHANGED <<threadVars, cmds, reply, forwarder, sinks>>
    PROVE  SwapInv'
<1>1. \A t : SwapOf(t)' <=> SwapOf(t)
  BY DEF SwapOf, Pc, threadVars
<1>2. \A i, c : AtPlace(i, c)' <=> AtPlace(i, c)
  BY DEF AtPlace
<1>3. \A i, c : Behind(i, c)' <=> Behind(i, c)
  BY DEF Behind
<1>4. \A c : Finalizing(c)' <=> Finalizing(c)
  BY DEF Finalizing, Pc, threadVars
<1>5. OneFinalize' <=> OneFinalize
  BY <1>2 DEF OneFinalize
<1>6. Swapped' <=> Swapped
  BY DEF Swapped, threadVars
<1> QED BY <1>1, <1>2, <1>3, <1>4, <1>5, <1>6, SwapInvParts

\* The sinks only grow.
LEMMA SinksForward ==
    ASSUME Handles \/ Relays \/ Drains \/ Exits
    PROVE  /\ \A id : Present(id, sinks) => Present(id, sinks')
           /\ Guarded(sinks) => Guarded(sinks')
           /\ Settled(sinks) => Settled(sinks')
<1>1. CASE Handles \/ Relays
  BY <1>1 DEF Handles, Relays, Grown
<1>2. CASE Drains \/ Exits
  BY <1>2 DEF Drains, Exits
<1> QED BY <1>1, <1>2

\* A command that the forwarding thread answers: the caller waits for it, and
\* a new sink it asked for is there.
LEMMA AnswerGiven ==
    ASSUME TypeInv, StageInv, CallInv, SwapInv, cmds # <<>>, NEW c, c = Head(cmds),
           c.step \in {"flush", "finalize"}, c.step = "flush" => Waits(c)
    PROVE  /\ c.from \in Threads /\ c.call = call[c.from] /\ Pc(c.from) = "wait"
           /\ c.call.op = "set_sink" => Present(c.call.nr, sinks)
           /\ c.step = "finalize" <=> c.call.op = "finalize"
           /\ AtPlace(1, c)
<1>1. cmds \in Seq(Cmd)
  BY DEF TypeInv
<1>2. Len(cmds) \in Nat \ {0} /\ c = cmds[1]
  BY <1>1, CmdsTail
<1>3. 1 \in 1..Len(cmds)
  BY <1>2
<1>4. AtPlace(1, c)
  BY <1>2, <1>3 DEF AtPlace
<1>5. /\ c.from \in Threads
      /\ c.step = "finalize" => c.call.op = "finalize"
      /\ c.step = "flush" => c.call.op \in {"flush", "set_sink"}
  BY <1>2, <1>3, OnQueue
<1>6. Behind(1, c) /\ Finalizing(c)
  BY <1>4, SwapInvParts
<1>7. 1..(1 - 1) = {}
  OBVIOUS
<1>8. CASE c.step = "flush"
  <2>1. c.call = call[c.from] /\ Pc(c.from) = "wait"
    BY <1>8, AnswersOwn
  <2>2. c.call.op = "set_sink" => Present(c.call.nr, sinks)
    BY <1>6, <1>7, <1>8 DEF Behind, Swaps
  <2> QED BY <1>4, <1>5, <1>8, <2>1, <2>2
<1>9. CASE c.step = "finalize"
  BY <1>4, <1>5, <1>6, <1>9 DEF Finalizing
<1> QED BY <1>8, <1>9

\* A swap is done before the flush behind it is answered.
LEMMA SwapHandles ==
    ASSUME TypeInv, StageInv, CallInv, SwapInv, Handles \/ Exits, UNCHANGED threadVars
    PROVE  SwapInv'
<1>1. /\ cmds \in Seq(Cmd) /\ recorded' = recorded /\ swapped' = swapped
      /\ reply \in [Threads -> {"none", "ok", "err"}]
      /\ \A u : Pc(u)' = Pc(u) /\ call'[u] = call[u]
  BY DEF TypeInv, Pc, threadVars
<1>2. /\ \A id : Present(id, sinks) => Present(id, sinks')
      /\ Guarded(sinks) => Guarded(sinks')
  BY SinksForward
<1>h. PICK h, n, m : h = Head(cmds) /\ n = Len(cmds) /\ m = Len(cmds')
  OBVIOUS
<1>3. /\ cmds # <<>> /\ cmds' = Tail(cmds)
      /\ h.step = "swap" => Present(h.call.nr, sinks')
      /\ \/ reply' = reply /\ h.step # "finalize"
         \/ /\ h.step \in {"flush", "finalize"} /\ (h.step = "flush" => Waits(h))
            /\ \E r \in {"ok", "err"} : reply' = [reply EXCEPT ![h.from] = r]
  BY <1>h DEF Handles, Exits
<1>4. /\ n \in Nat \ {0} /\ m = n - 1
      /\ \A i \in 1..m : cmds'[i] = cmds[i + 1] /\ i + 1 \in 1..n
  BY <1>1, <1>3, <1>h, CmdsTail
<1>5. ASSUME NEW nr, NEW k \in 1..n, Present(nr, sinks) \/ Swaps(nr, cmds, k)
      PROVE  Present(nr, sinks') \/ Swaps(nr, cmds', k - 1)
  <2>1. CASE Present(nr, sinks)
    BY <1>2, <2>1
  <2>2. CASE Swaps(nr, cmds, k)
    <3>1. (h.step = "swap" /\ h.call.nr = nr) \/ Swaps(nr, cmds', k - 1)
      BY <1>1, <1>3, <1>h, <2>2, SwapsTail
    <3> QED BY <1>3, <3>1
  <2> QED BY <1>5, <2>1, <2>2
<1>6. ASSUME NEW u \in Threads, reply'[u] # reply[u]
      PROVE  /\ u = h.from /\ h.call = call[u] /\ Pc(u) = "wait" /\ AtPlace(1, h)
             /\ h.call.op = "set_sink" => Present(h.call.nr, sinks)
             /\ h.step = "finalize" <=> h.call.op = "finalize"
  <2>1. PICK r : reply' = [reply EXCEPT ![h.from] = r]
    BY <1>3, <1>6
  <2>2. u = h.from
    BY <1>1, <1>6, <2>1
  <2>3. h.step \in {"flush", "finalize"} /\ (h.step = "flush" => Waits(h))
    BY <1>3, <1>6
  <2> QED BY <1>3, <1>h, <2>2, <2>3, AnswerGiven
<1>7. ASSUME NEW u \in Threads PROVE SwapOf(u)'
  <2>1. SwapOf(u)
    BY SwapInvParts
  <2>2. swapped'[u] # 0 => Present(swapped'[u], sinks')
    BY <1>1, <1>2, <2>1 DEF SwapOf
  <2>3. call'[u].op = "set_sink" /\ Pc(u)' \in {"flush", "wait"} =>
           Present(call'[u].nr, sinks') \/ Swaps(call'[u].nr, cmds', m)
    <3>1. n \in 1..n
      BY <1>4
    <3> QED BY <1>1, <1>4, <1>5, <1>h, <2>1, <3>1 DEF SwapOf
  <2>4. reply'[u] # "none" =>
           Pc(u)' = "wait" /\ (call'[u].op = "set_sink" => Present(call'[u].nr, sinks'))
    <3>1. CASE reply'[u] = reply[u]
      BY <1>1, <1>2, <2>1, <3>1 DEF SwapOf
    <3>2. CASE reply'[u] # reply[u]
      BY <1>1, <1>2, <1>6, <3>2
    <3> QED BY <3>1, <3>2
  <2> QED BY <1>h, <2>2, <2>3, <2>4 DEF SwapOf
<1>8. ASSUME NEW i, NEW c, AtPlace(i, c)'
      PROVE  i \in Nat /\ i # 0 /\ i \in 1..n /\ AtPlace(i + 1, c)
  <2>1. i \in 1..m /\ cmds'[i] = c
    BY <1>8, <1>h DEF AtPlace
  <2>2. cmds[i + 1] = c /\ i + 1 \in 1..n
    BY <1>4, <2>1
  <2>3. i \in Nat /\ i # 0 /\ i \in 1..n
    BY <1>4, <2>1
  <2> QED BY <1>h, <2>2, <2>3 DEF AtPlace
<1>9. ASSUME NEW i, NEW c, AtPlace(i, c)' PROVE Behind(i, c)' /\ Finalizing(c)'
  <2>1. AtPlace(i + 1, c) /\ i \in 1..n /\ (i + 1) - 1 = i /\ i + 1 # 1
    BY <1>8, <1>9
  <2>2. Behind(i + 1, c) /\ Finalizing(c)
    BY <2>1, SwapInvParts
  <2>3. Behind(i, c)'
    BY <1>5, <2>1, <2>2 DEF Behind
  <2>4. ASSUME c.step = "finalize" PROVE reply'[c.from] = reply[c.from]
    <3>1. c.from \in Threads /\ c.call.op = "finalize"
      BY <2>1, <2>4, OnQueue DEF AtPlace
    <3> SUFFICES ASSUME reply'[c.from] # reply[c.from] PROVE FALSE
      OBVIOUS
    <3>2. /\ c.from = h.from /\ h.call = call[c.from] /\ AtPlace(1, h)
          /\ h.step = "finalize" <=> h.call.op = "finalize"
      BY <1>6, <3>1
    <3>3. c.call = call[c.from]
      BY <2>2, <2>4 DEF Finalizing
    <3>4. h.step = "finalize"
      BY <3>1, <3>2, <3>3
    <3>5. i + 1 = 1
      BY <2>1, <2>4, <3>2, <3>4, SwapInvParts DEF OneFinalize
    <3> QED BY <2>1, <3>5
  <2>5. Finalizing(c)'
    BY <1>1, <2>2, <2>4 DEF Finalizing
  <2> QED BY <2>3, <2>5
<1>10. OneFinalize'
  <2> SUFFICES ASSUME NEW i, NEW j, NEW c, NEW e, AtPlace(i, c)', AtPlace(j, e)',
                      c.step = "finalize", e.step = "finalize", c.from = e.from
               PROVE  i = j
    BY DEF OneFinalize
  <2>1. AtPlace(i + 1, c) /\ AtPlace(j + 1, e) /\ i \in Nat /\ j \in Nat
    BY <1>8
  <2>2. i + 1 = j + 1
    BY <2>1, SwapInvParts DEF OneFinalize
  <2> QED BY <2>1, <2>2
<1>11. Swapped'
  BY <1>1, <1>2, SwapInvParts DEF Swapped
<1> QED BY <1>7, <1>9, <1>10, <1>11, SwapInvParts

\* The forwarding thread keeps SwapInv.
LEMMA SwapForward ==
    ASSUME TypeInv, StageInv, CallInv, SwapInv, Handles \/ Relays \/ Drains \/ Exits,
           UNCHANGED threadVars
    PROVE  SwapInv'
<1>1. CASE Handles \/ Exits
  BY <1>1, SwapHandles
<1>2. CASE Relays \/ Drains
  <2>1. cmds' = cmds /\ reply' = reply
    BY <1>2 DEF Relays, Drains
  <2>2. /\ recorded' = recorded /\ swapped' = swapped
        /\ \A u : Pc(u)' = Pc(u) /\ call'[u] = call[u]
    BY DEF Pc, threadVars
  <2>3. /\ \A id : Present(id, sinks) => Present(id, sinks')
        /\ Guarded(sinks) => Guarded(sinks')
    BY SinksForward
  <2>4. \A u : SwapOf(u) => SwapOf(u)'
    BY <2>1, <2>2, <2>3 DEF SwapOf
  <2>5. \A i, c : AtPlace(i, c)' <=> AtPlace(i, c)
    BY <2>1 DEF AtPlace
  <2>6. \A i, c : Behind(i, c) => Behind(i, c)'
    BY <2>1, <2>3 DEF Behind
  <2>7. \A c : Finalizing(c) => Finalizing(c)'
    BY <2>1, <2>2 DEF Finalizing
  <2>8. OneFinalize => OneFinalize'
    BY <2>5 DEF OneFinalize
  <2>9. Swapped => Swapped'
    BY <2>2, <2>3 DEF Swapped
  <2> QED BY <2>4, <2>5, <2>6, <2>7, <2>8, <2>9, SwapInvParts
<1> QED BY <1>1, <1>2

-----------------------------------------------------------------------------
(* The invariant holds *)

\* The first sink is empty.
LEMMA InitSinks ==
    ASSUME Init
    PROVE  /\ sinks \in Seq(Sink) /\ sinks # <<>> /\ Len(sinks) = 1
           /\ OfSinks(sinks) = {} /\ Guarded(sinks) /\ Settled(sinks) /\ num_rows \in Nat
<1>1. PICK k \in SinkKinds : sinks = <<NewSink(0, k, <<>>)>> /\ num_rows = RowThreshold[k]
  BY DEF Init
<1>2. <<>> \in Seq(Item) /\ ToSet(<<>>) = {}
  BY EmptySeq, EmptyFacts
<1>v. PICK v : v = NewSink(0, k, <<>>)
  OBVIOUS
<1>3. v \in Sink /\ v.msgs = <<>>
  BY <1>2, <1>v DEF NewSink, Sink
<1>4. sinks = <<v>> /\ sinks \in Seq(Sink) /\ sinks # <<>> /\ Len(sinks) = 1 /\ sinks[1] = v
  BY <1>1, <1>3, <1>v
<1>5. 1..1 = {1} /\ 1..(1 - 1) = {}
  OBVIOUS
<1>6. \A i \in 1..Len(sinks) : sinks[i] = v
  BY <1>4, <1>5
<1>7. \A x : ~(\E i \in 1..Len(sinks) : x \in ToSet(sinks[i].msgs))
  BY <1>2, <1>3, <1>6
<1>8. OfSinks(sinks) = {}
  BY <1>7 DEF OfSinks
<1>9. Guarded(sinks)
  BY <1>7 DEF Guarded
<1>10. Settled(sinks)
  BY <1>4, <1>5 DEF Settled
<1>11. num_rows \in Nat
  BY <1>1, StreamAssumption
<1> QED BY <1>4, <1>8, <1>9, <1>10, <1>11

\* The invariant holds initially.
LEMMA InitInvariant == ASSUME Init PROVE IInv
<1>1. /\ b_cmds = <<>> /\ cmds = <<>> /\ chunks = <<>> /\ b_out = <<>>
      /\ Len(<<>>) = 0 /\ 1..0 = {} /\ \A T : <<>> \in Seq(T)
  BY EmptySeq DEF Init
<1>2. \A t \in Threads : todo[t] = <<>> /\ call[t] = NoCall /\ Pc(t) = "idle"
                         /\ swapped[t] = 0 /\ b_reply[t] = FALSE /\ reply[t] = "none"
  BY DEF Init, Pc
<1>3. NoCall \in Call /\ NoCall.op = "none" /\ NoCall.nr = 0
  BY DEF NoCall, Call
<1>4. TypeInv
  <2>1. call \in [Threads -> Call]
    BY <1>3 DEF Init
  <2>2. made \in 0..MaxCalls /\ dropped \in BOOLEAN /\ recorded \subseteq Item
    <3>1. 0 \in 0..MaxCalls
      BY StreamAssumption
    <3> QED BY <3>1 DEF Init
  <2>3. swapped \in [Threads -> 0..MaxCalls]
    <3>1. 0 \in 0..MaxCalls
      BY StreamAssumption
    <3> QED BY <3>1 DEF Init
  <2>4. Len(b_cmds) <= QueueLen /\ Len(chunks) <= QueueLen /\ Len(cmds) <= QueueLen
    <3>1. 0 <= QueueLen
      BY StreamAssumption
    <3> QED BY <1>1, <3>1
  <2>5. b_reply \in [Threads -> BOOLEAN] /\ reply \in [Threads -> {"none", "ok", "err"}]
    BY DEF Init
  <2>6. accs \in [Entities -> Seq(Item)]
    BY <1>1 DEF Init
  <2>7. Pending = {}
    BY DEF Init, Pending
  <2>8. IsFiniteSet(Pending)
    BY <2>7, FS_EmptySet
  <2>9. b_cmds \in Seq(Cmd) /\ cmds \in Seq(Cmd) /\ b_out \in Seq(Seq(Item)) /\ chunks \in Seq(Seq(Item))
    BY <1>1
  <2>10. /\ batcher \in {"running", "exiting", "exited"} /\ b_done \subseteq Threads
         /\ skip_next_tick \in BOOLEAN /\ forwarder \in {"drain", "select", "exited"}
    BY DEF Init
  <2> QED BY <2>1, <2>2, <2>3, <2>4, <2>5, <2>6, <2>8, <2>9, <2>10, InitSinks DEF TypeInv
<1>5. StageInv
  <2>1. todo \in [Threads -> Seq(Step)]
    BY <1>1 DEF Init
  <2> QED BY <1>2, <2>1 DEF StageInv
<1>6. CallInv
  <2>1. made = 0 /\ 0 <= 0 /\ dropped = FALSE
    BY DEF Init
  <2> QED BY <1>1, <1>2, <1>3, <2>1 DEF CallInv
<1>7. RecordedInv
  <2>1. \A x : x \notin AtThread
    BY <1>2, AtThreadIs DEF Recording
  <2>2. OfCmds(b_cmds, Len(b_cmds)) = {} /\ OfCmds(cmds, Len(cmds)) = {}
    BY <1>1 DEF OfCmds
  <2>3. OfChunks(b_out) = {} /\ OfChunks(chunks) = {}
    BY <1>1, ChunksFew
  <2>4. \A e \in Entities : ToSet(accs[e]) = {}
    BY EmptyFacts DEF Init
  <2>5. OfAccs(accs) = {}
    BY <2>4 DEF OfAccs
  <2>6. recorded = {}
    BY DEF Init
  <2> QED BY <2>1, <2>2, <2>3, <2>5, <2>6, InitSinks DEF RecordedInv
<1>8. BatcherInv
  BY <1>1, <1>2 DEF BatcherInv, Init
<1>9. ForwardInv
  BY <1>1, <1>2 DEF ForwardInv, AfterPop
<1>10. ExitInv
  BY <1>1 DEF ExitInv, Init
<1>11. SwapInv
  <2>1. recorded = {}
    BY DEF Init
  <2> QED BY <1>1, <1>2, <1>3, <2>1, InitSinks DEF SwapInv
<1>12. SinksInv
  BY InitSinks DEF SinksInv
<1> QED BY <1>4, <1>5, <1>6, <1>7, <1>8, <1>9, <1>10, <1>11, <1>12 DEF IInv

\* One lemma per actor.  The calls that begin keep the invariant.
LEMMA CallKeeps ==
    ASSUME IInv, NEW t \in Threads, Record(t) \/ Control(t) \/ Drop(t)
    PROVE  IInv'
<1>1. /\ TypeInv /\ StageInv /\ CallInv /\ RecordedInv /\ BatcherInv /\ ForwardInv
      /\ ExitInv /\ SwapInv /\ SinksInv
  BY DEF IInv
<1>2. StageInv' /\ \E c : Begun(t, c)
  BY <1>1, CallsBegin
<1>c. PICK c : Begun(t, c)
  BY <1>2
<1>3. TypeInv' /\ CallInv'
  BY <1>1, <1>c, CallType, CallBegin
<1>4. RecordedInv' /\ BatcherInv'
  BY <1>1, <1>c, RecordedBegin, BatcherBegin
<1>5. ForwardInv' /\ ExitInv'
  BY <1>1, <1>c, ForwardBegin, ExitBegin
<1>6. SwapInv'
  BY <1>1, <1>c, SwapBegin
<1>7. SinksInv'
  BY <1>1, <1>c DEF SinksInv, Begun, Started
<1> QED BY <1>2, <1>3, <1>4, <1>5, <1>6, <1>7 DEF IInv

\* The steps of the calls keep the invariant.
LEMMA ThreadKeeps ==
    ASSUME IInv, NEW t \in Threads, ThreadStep(t) \/ WaitTimeout(t)
    PROVE  IInv'
<1>1. /\ TypeInv /\ StageInv /\ CallInv /\ RecordedInv /\ BatcherInv /\ ForwardInv
      /\ ExitInv /\ SwapInv /\ SinksInv
  BY DEF IInv
<1>2. /\ todo[t] # <<>> /\ StageInv' /\ Moved(t) /\ Sends(t)
      /\ UNCHANGED <<batcherVars, chunks, forwarder, sinks>>
  BY <1>1, ThreadMoves
<1>3. TypeInv'
  BY <1>1, <1>2, ThreadType
<1>4. CallInv'
  BY <1>1, <1>2, CallStep
<1>5. RecordedInv'
  BY <1>1, <1>2, RecordedStep
<1>6. BatcherInv'
  BY <1>1, <1>2, BatcherThread
<1>7. ForwardInv'
  BY <1>1, <1>2, ForwardThread
<1>8. ExitInv'
  BY <1>1, <1>2, ExitThread
<1>9. SwapInv'
  BY <1>1, <1>2, SwapThread
<1>10. SinksInv'
  BY <1>1, <1>2 DEF SinksInv
<1> QED BY <1>2, <1>3, <1>4, <1>5, <1>6, <1>7, <1>8, <1>9, <1>10 DEF IInv

\* The batching thread keeps the invariant.
LEMMA BatcherKeeps ==
    ASSUME IInv, BatcherStep \/ BatcherTick
    PROVE  IInv'
<1>1. /\ TypeInv /\ StageInv /\ CallInv /\ RecordedInv /\ BatcherInv /\ ForwardInv
      /\ ExitInv /\ SwapInv /\ SinksInv
  BY DEF IInv
<1>2. /\ Takes \/ Flows \/ Replies
      /\ UNCHANGED <<threadVars, cmds, reply, forwarder, sinks>>
      /\ OfChunks(chunks) \subseteq OfChunks(chunks') /\ TypeInv'
  BY <1>1, BatcherMoves
<1>3. /\ UNCHANGED <<call, todo, made, dropped, swapped, recorded>>
      /\ UNCHANGED <<cmds, reply, forwarder, sinks>>
  BY <1>2 DEF threadVars
<1>4. StageInv'
  BY <1>1, <1>3 DEF StageInv
<1>5. CallInv'
  BY <1>1, <1>3 DEF CallInv, Pc
<1>6. RecordedInv'
  BY <1>1, <1>2, RecordedBatcher
<1>7. BatcherInv'
  BY <1>1, <1>2, BatcherBatcher
<1>8. ForwardInv'
  BY <1>1, <1>2, ForwardBatcher
<1>9. ExitInv'
  BY <1>1, <1>3 DEF ExitInv
<1>10. SwapInv'
  BY <1>1, <1>2, SwapBatcher
<1>11. SinksInv'
  BY <1>1, <1>3 DEF SinksInv
<1> QED BY <1>2, <1>4, <1>5, <1>6, <1>7, <1>8, <1>9, <1>10, <1>11 DEF IInv

\* The forwarding thread keeps the invariant.
LEMMA ForwarderKeeps ==
    ASSUME IInv, ForwarderStep
    PROVE  IInv'
<1>1. /\ TypeInv /\ StageInv /\ CallInv /\ RecordedInv /\ BatcherInv /\ ForwardInv
      /\ ExitInv /\ SwapInv /\ SinksInv
  BY DEF IInv
<1>2. /\ Handles \/ Relays \/ Drains \/ Exits
      /\ UNCHANGED <<threadVars, b_cmds, b_reply, batcherVars>> /\ TypeInv'
  BY <1>1, ForwarderMoves
<1>3. UNCHANGED threadVars
  BY <1>2
<1>4. StageInv'
  BY <1>1, <1>3 DEF StageInv, threadVars
<1>5. CallInv'
  BY <1>1, <1>2, <1>3, CallForward
<1>6. RecordedInv'
  BY <1>1, <1>2, RecordedForward
<1>7. BatcherInv'
  BY <1>1, <1>2, BatcherForward
<1>8. ForwardInv'
  BY <1>1, <1>2, <1>3, ForwardForward
<1>9. ExitInv'
  BY <1>1, <1>2, <1>3, ExitForward
<1>10. SwapInv'
  BY <1>1, <1>2, <1>3, SwapForward
<1>11. SinksInv'
  BY <1>1, <1>2, SinksForward DEF SinksInv
<1> QED BY <1>2, <1>4, <1>5, <1>6, <1>7, <1>8, <1>9, <1>10, <1>11 DEF IInv

\* So does a step that changes nothing.
LEMMA StutterKeeps == ASSUME IInv, UNCHANGED vars PROVE IInv'
<1>1. /\ TypeInv /\ StageInv /\ CallInv /\ RecordedInv /\ BatcherInv /\ ForwardInv
      /\ ExitInv /\ SwapInv /\ SinksInv
  BY DEF IInv
<1>2. /\ UNCHANGED <<call, todo, made, dropped, swapped, recorded>>
      /\ UNCHANGED <<b_cmds, b_reply, batcher, accs, b_out, b_done, skip_next_tick, num_rows>>
      /\ UNCHANGED <<chunks, cmds, reply, forwarder, sinks>>
  BY DEF vars, threadVars, batcherVars
<1>3. TypeInv' /\ StageInv'
  BY <1>1, <1>2 DEF TypeInv, StageInv, Pending
<1>4. CallInv' /\ ExitInv' /\ SinksInv'
  BY <1>1, <1>2 DEF CallInv, ExitInv, SinksInv, Pc
<1>5. RecordedInv'
  BY <1>1, <1>2 DEF RecordedInv, AtThread, At, Idle
<1>6. BatcherInv'
  BY <1>1, <1>2 DEF BatcherInv, IsFlush, Pc, Owed, Down
<1>7. ForwardInv'
  BY <1>1, <1>2 DEF ForwardInv, Passes, Pc, Owed
<1>8. SwapInv'
  BY <1>1, <1>2, SwapBatcher DEF threadVars
<1> QED BY <1>3, <1>4, <1>5, <1>6, <1>7, <1>8 DEF IInv

\* The inductive invariant: every reachable state satisfies it.
THEOREM Invariance == Spec => []IInv
<1>1. Init => IInv
  BY InitInvariant
<1>2. IInv /\ [Next]_vars => IInv'
  <2> SUFFICES ASSUME IInv, [Next]_vars PROVE IInv'
    OBVIOUS
  <2>1. ASSUME NEW t \in Threads, Record(t) \/ Control(t) \/ Drop(t) PROVE IInv'
    BY <2>1, CallKeeps
  <2>2. ASSUME NEW t \in Threads, ThreadStep(t) \/ WaitTimeout(t) PROVE IInv'
    BY <2>2, ThreadKeeps
  <2>3. CASE BatcherStep \/ BatcherTick
    BY <2>3, BatcherKeeps
  <2>4. CASE ForwarderStep
    BY <2>4, ForwarderKeeps
  <2>5. CASE UNCHANGED vars
    BY <2>5, StutterKeeps
  <2> QED BY <2>1, <2>2, <2>3, <2>4, <2>5 DEF Next
<1> QED BY <1>1, <1>2, PTL DEF Spec

-----------------------------------------------------------------------------
(* What a reader should know *)

\* The variables keep their types, and no channel ever holds more than its
\* capacity, whichever threads wait for room in it.
THEOREM TypesKept == Spec => []TypeOK
<1>1. IInv => TypeOK
  BY DEF IInv, TypeInv, StageInv, TypeOK
<1> QED BY <1>1, Invariance, PTL

\* set_sink (recording_stream.rs:1928): what a thread records after its
\* set_sink has returned is never in an earlier sink.
THEOREM SwapsGuarantee == Spec => []SwapGuarantee
<1>1. IInv => SwapGuarantee
  BY GuardedIsGuarantee DEF IInv, TypeInv, SwapInv
<1> QED BY <1>1, Invariance, PTL

\* RecordingStreamInner::drop: once the forwarding thread has exited, the
\* sinks hold what was recorded, all of it and nothing else.
THEOREM DropDrains == Spec => []ShutdownDrains
<1>1. IInv => ShutdownDrains
  <2> SUFFICES ASSUME IInv, forwarder = "exited" PROVE OfSinks(sinks) = recorded
    BY DEF ShutdownDrains, OfSinks
  <2>1. recorded \subseteq OfSinks(sinks)
    BY DEF IInv, ExitInv
  <2>2. OfSinks(sinks) \subseteq recorded
    BY DEF IInv, RecordedInv
  <2> QED BY <2>1, <2>2
<1> QED BY <1>1, Invariance, PTL

\* What a flush that has been answered Ok leaves behind: every sink before the
\* current one has flushed or failed, and the current one has just flushed.
LEMMA FlushSecures ==
    ASSUME TypeInv, SinksInv, sinks' = [sinks EXCEPT ![Len(sinks)] = Flushed(@, TRUE)],
           NEW x \in OfSinks(sinks)
    PROVE  Secured(x)'
<1>n. PICK n, v : n = Len(sinks) /\ v = Flushed(sinks[n], TRUE)
  OBVIOUS
<1>1. /\ LastBecomes(sinks, sinks', v) /\ sinks[n] \in Sink
  BY <1>n, FlushGrows
<1>2. v \in Sink /\ v.msgs = sinks[n].msgs /\ v.flushed = Len(v.msgs)
  BY <1>n, <1>1, FlushedFacts
<1>3. sinks \in Seq(Sink) /\ n \in Nat
  BY <1>n, LenProperties DEF TypeInv
<1>4. Len(sinks') = n /\ sinks'[n] = v /\ \A k \in 1..n : k # n => sinks'[k] = sinks[k]
  BY <1>n, <1>1 DEF LastBecomes
<1>5. PICK k \in 1..n : x \in ToSet(sinks[k].msgs)
  BY <1>n DEF OfSinks
<1>6. ASSUME NEW s \in Sink PROVE SubSeq(s.msgs, 1, Len(s.msgs)) = s.msgs
  <2>1. s.msgs \in Seq(Item)
    BY DEF Sink
  <2> QED BY <2>1
<1>7. CASE k = n
  <2>1. x \in ToSet(v.msgs) /\ SubSeq(v.msgs, 1, v.flushed) = v.msgs
    BY <1>2, <1>5, <1>6, <1>7
  <2> QED BY <1>4, <1>5, <1>7, <2>1 DEF Secured
<1>8. CASE k # n
  <2>1. k \in 1..(n - 1) /\ k < n
    BY <1>3, <1>8
  <2>2. sinks'[k] = sinks[k] /\ sinks[k] \in Sink
    BY <1>n, <1>3, <1>4, <1>8, ElementOfSeq
  <2>3. sinks[k].failed \/ sinks[k].flushed = Len(sinks[k].msgs)
    BY <1>n, <2>1 DEF SinksInv, Settled
  <2>4. CASE sinks[k].failed
    BY <1>4, <1>5, <2>1, <2>2, <2>4 DEF Secured
  <2>5. CASE sinks[k].flushed = Len(sinks[k].msgs)
    <3>1. x \in ToSet(SubSeq(sinks[k].msgs, 1, sinks[k].flushed))
      BY <1>5, <1>6, <2>2, <2>5
    <3> QED BY <1>4, <2>2, <3>1 DEF Secured
  <2> QED BY <2>3, <2>4, <2>5
<1> QED BY <1>7, <1>8

\* Only the handling of a flush or of a finalize answers Ok.
LEMMA OkComesFrom ==
    ASSUME IInv, [Next]_vars, NEW t \in Threads, reply[t] = "none", reply'[t] = "ok"
    PROVE  ForwardFlush \/ ForwardFinalize
<1>1. TypeInv /\ StageInv /\ SwapInv
  BY DEF IInv
<1>2. reply' # reply
  OBVIOUS
<1>3. ASSUME NEW u \in Threads, Record(u) \/ Control(u) \/ Drop(u) PROVE FALSE
  <2>1. PICK c : Begun(u, c)
    BY <1>1, <1>3, CallsBegin
  <2> QED BY <1>2, <2>1 DEF Begun, Started
<1>4. ASSUME NEW u \in Threads, ThreadStep(u) \/ WaitTimeout(u) PROVE FALSE
  <2>1. Sends(u)
    BY <1>1, <1>4, ThreadMoves
  <2>2. reply'[u] = "none" /\ \A w \in Threads : w # u => reply'[w] = reply[w]
    BY <1>1, <2>1, AnswerTaken
  <2> QED BY <2>2
<1>5. CASE BatcherStep \/ BatcherTick
  BY <1>1, <1>2, <1>5, BatcherMoves
<1>6. CASE ForwarderStep
  BY <1>2, <1>6 DEF ForwarderStep, ForwardChunk, ForwardDrained, ForwardMsg, ForwardSwapSink,
                    ForwardPopPending, ForwardShutdown
<1>7. CASE UNCHANGED vars
  BY <1>2, <1>7 DEF vars
<1> QED BY <1>3, <1>4, <1>5, <1>6, <1>7 DEF Next

\* flush (recording_stream.rs:767): when the forwarding thread answers a flush
\* with Ok, everything that its caller recorded before is flushed by a sink,
\* kept in memory by one, or was in a sink whose flush failed when it was
\* swapped out.
THEOREM FlushesSecure == Spec => FlushGuarantee
<1>1. ASSUME IInv, [Next]_vars, NEW t \in Threads,
             call[t].op = "flush", reply[t] = "none", reply'[t] = "ok",
             NEW item \in recorded, item.from = t, item.nr < call[t].nr
      PROVE  Secured(item)'
  <2>1. TypeInv /\ StageInv /\ CallInv /\ ForwardInv /\ SwapInv /\ SinksInv
    BY <1>1 DEF IInv
  <2>h. PICK h : h = Head(cmds)
    OBVIOUS
  <2>2. reply \in [Threads -> {"none", "ok", "err"}]
    BY <2>1 DEF TypeInv
  <2>3. ForwardFlush \/ ForwardFinalize
    BY <1>1, OkComesFrom
  <2>4. CASE ForwardFinalize
    <3>1. cmds # <<>> /\ h.step = "finalize" /\ reply' = [reply EXCEPT ![h.from] = "ok"]
      BY <2>4, <2>h DEF ForwardFinalize, NextCmd
    <3>2. h.call = call[h.from] /\ h.call.op = "finalize"
      BY <2>1, <2>h, <3>1, AnswerGiven
    <3>3. h.from = t
      BY <1>1, <2>2, <3>1
    <3> QED BY <1>1, <3>2, <3>3
  <2>5. CASE ForwardFlush
    <3>1. forwarder = "select" /\ cmds # <<>> /\ h.step = "flush"
      BY <2>5, <2>h DEF ForwardFlush, NextCmd
    <3>2. PICK ok \in BOOLEAN :
             /\ sinks' = [sinks EXCEPT ![Len(sinks)] = Flushed(@, ok)]
             /\ reply' = IF Waits(h) THEN [reply EXCEPT ![h.from] = IF ok THEN "ok" ELSE "err"]
                                     ELSE reply
      BY <2>5, <2>h DEF ForwardFlush
    <3>3. Waits(h) /\ h.from = t /\ ok = TRUE
      BY <1>1, <2>2, <3>2
    <3>4. h.call = call[t] /\ AtPlace(1, h)
      BY <2>1, <2>h, <3>1, <3>3, AnswerGiven
    <3>5. Flushing(1, h)
      BY <3>1, <3>3, <3>4 DEF Flushing, AtPlace
    <3>6. PassOf(t, 1 - 1)
      BY <2>1, <3>3, <3>5, ForwardInvParts
    <3>7. 1..(1 - 1) = {}
      OBVIOUS
    <3>8. Owed(t) \subseteq OfSinks(sinks)
      BY <3>1, <3>6, <3>7 DEF PassOf, Through
    <3>9. item \in OfSinks(sinks)
      BY <1>1, <3>8 DEF Owed
    <3> QED BY <2>1, <3>2, <3>3, <3>9, FlushSecures
  <2> QED BY <2>3, <2>4, <2>5
<1>2. IInv /\ [Next]_vars =>
        [ \A t \in Threads :
            call[t].op = "flush" /\ reply[t] = "none" /\ reply'[t] = "ok" =>
                \A item \in recorded :
                    item.from = t /\ item.nr < call[t].nr => Secured(item)' ]_vars
  BY <1>1
<1> QED BY <1>2, Invariance, PTL DEF Spec, FlushGuarantee

=============================================================================
