------------------------- MODULE MessageProxyProofs -------------------------
(***************************************************************************)
(* Proofs about the message proxy, for any number of writers and clients,  *)
(* any message sizes, memory limits and queue lengths.                     *)
(***************************************************************************)
EXTENDS MessageProxy, DataFacts

Msg == [store : Writers, nr : Nat, kind : {"store_info", "static", "temporal"}]
Event == [type : {"message"}, msg : Msg] \cup [type : {"new_client"}, client : Clients]
Buffer == [disposable : Seq(Msg), static : Seq(Msg), persistent : Seq(Msg)]

-----------------------------------------------------------------------------
(* The bytes of a queue *)

\* The sizes of the messages of a queue, as SizeSum wants them.
SizesOf(q) == [i \in DOMAIN q |-> [size |-> Size[q[i].kind]]]

\* What FoldSeq iterates, its definition expanded.
BytesIteration(it, q) ==
    it = [s \in SUBSET DOMAIN q |->
            IF s = {} THEN 0 ELSE Size[q[Pick(s)].kind] + it[s \ {Pick(s)}]]

\* FoldSeq yields the value of an iteration, if there is one.
LEMMA BytesIterates ==
    ASSUME NEW q, NEW it, BytesIteration(it, q)
    PROVE  \E jt : BytesIteration(jt, q) /\ Bytes(q) = jt[DOMAIN q]
BY DEF Bytes, FoldSeq, FoldFunction, FoldFunctionOnSet, MapThenFoldSet, BytesIteration, Pick

\* A message has a size.
LEMMA SizeType == ASSUME NEW m \in Msg PROVE Size[m.kind] \in Nat
<1>1. m.kind \in {"store_info", "static", "temporal"}
  BY DEF Msg
<1> QED BY <1>1, ProxyAssumption DEF ProxyAssumption

\* The messages of a queue have sizes, finitely many.
LEMMA SizesOfType ==
    ASSUME NEW q \in Seq(Msg)
    PROVE  /\ Sized(SizesOf(q), DOMAIN q) /\ Len(q) \in Nat /\ DOMAIN q = 1..Len(q)
           /\ \A i \in DOMAIN q : SizesOf(q)[i].size = Size[q[i].kind]
<1>1. Len(q) \in Nat /\ DOMAIN q = 1..Len(q) /\ \A i \in 1..Len(q) : q[i] \in Msg
  BY LenProperties, ElementOfSeq
<1>2. 1 \in Int /\ Len(q) \in Int
  BY <1>1
<1>3. IsFiniteSet(1..Len(q))
  BY <1>2, FS_Interval
<1>4. \A i \in DOMAIN q : SizesOf(q)[i].size = Size[q[i].kind] /\ Size[q[i].kind] \in Nat
  BY <1>1, SizeType DEF SizesOf
<1> QED BY <1>1, <1>3, <1>4 DEF Sized

\* The bytes are the sum of the sizes.
LEMMA BytesIsSizeSum ==
    ASSUME NEW q \in Seq(Msg)
    PROVE  Bytes(q) = SizeSum(SizesOf(q), DOMAIN q) /\ Bytes(q) \in Nat
<1> DEFINE D == DOMAIN q
           F == SizesOf(q)
           W == [i \in D |-> F[i].size]
<1>1. Sized(F, D) /\ \A i \in D : W[i] = Size[q[i].kind]
  BY SizesOfType
<1>2. \A it : IsSummation(it, W, SUBSET D) <=> BytesIteration(it, q)
  <2>1. \A s \in SUBSET D : s # {} => W[Pick(s)] = Size[q[Pick(s)].kind]
    BY <1>1 DEF Pick
  <2> HIDE DEF W
  <2> QED BY <2>1 DEF IsSummation, BytesIteration
<1> HIDE DEF D, F
<1>3. PICK g \in [SUBSET D -> Nat] :
              IsSummation(g, W, SUBSET D) /\ SizeSum(F, D) = g[D]
  <2>1. Sized(F, D)
    BY <1>1
  <2> QED BY <2>1, SizeSumIsSummation
<1> HIDE DEF W
<1>4. PICK h : BytesIteration(h, q) /\ Bytes(q) = h[D]
  BY <1>2, <1>3, BytesIterates DEF D
<1>5. h[D] = g[D]
  <2>1. IsSummation(h, W, SUBSET D) /\ IsFiniteSet(D)
    BY <1>1, <1>2, <1>4 DEF Sized
  <2> QED BY <1>3, <2>1, SummationAgrees
<1>6. g[D] \in Nat
  BY <1>3
<1> QED BY <1>3, <1>4, <1>5, <1>6 DEF D, F

\* An empty queue has no bytes.
LEMMA BytesEmpty == Bytes(<<>>) = 0
<1>1. <<>> \in Seq(Msg) /\ DOMAIN <<>> = {}
  BY EmptySeq
<1> QED BY <1>1, BytesIsSizeSum, SizeSumEmpty

\* A message adds its size.
LEMMA BytesAppend ==
    ASSUME NEW q \in Seq(Msg), NEW m \in Msg
    PROVE  Bytes(Append(q, m)) = Bytes(q) + Size[m.kind]
<1> DEFINE a == Append(q, m)
           n == Len(q) + 1
           S == DOMAIN q
           F == SizesOf(a)
           G == SizesOf(q)
<1>1. /\ a \in Seq(Msg) /\ Len(a) = Len(q) + 1 /\ a[n] = m /\ Len(q) \in Nat /\ S = 1..Len(q)
      /\ \A i \in S : a[i] = q[i]
  BY AppendProperties, LenProperties
<1> HIDE DEF a
<1>2. DOMAIN a = S \cup {n} /\ n \notin S
  <2>1. DOMAIN a = 1..(Len(q) + 1)
    BY <1>1, LenProperties
  <2> QED BY <1>1, <2>1
<1>3. /\ Sized(G, S) /\ \A i \in S : G[i].size = Size[q[i].kind]
      /\ \A i \in DOMAIN a : F[i].size = Size[a[i].kind]
  BY <1>1, SizesOfType
<1>4. \A i \in S : F[i].size = G[i].size
  BY <1>1, <1>2, <1>3
<1>5. F[n].size = Size[m.kind] /\ Size[m.kind] \in Nat
  BY <1>1, <1>2, <1>3, SizeType
<1> HIDE DEF F, G, S, n
<1>6. Sized(F, S) /\ SizeSum(F, S) = SizeSum(G, S)
  BY <1>3, <1>4, SizeSumAgrees DEF Sized
<1>7. SizeSum(F, S \cup {n}) = F[n].size + SizeSum(F, S)
  BY <1>2, <1>5, <1>6, SizeSumAdd
<1>8. Bytes(a) = SizeSum(F, S \cup {n}) /\ Bytes(q) = SizeSum(G, S) /\ Bytes(q) \in Nat
  BY <1>1, <1>2, BytesIsSizeSum DEF F, G, S
<1> QED BY <1>5, <1>6, <1>7, <1>8 DEF a

-----------------------------------------------------------------------------
(* The garbage collector *)

\* A set of numbers has a least one.
LEMMA MinIsElement == ASSUME NEW S \in SUBSET Nat, S # {} PROVE Min(S) \in S
<1>1. PICK x \in S : \A y \in S : <<y, x>> \notin OpToRel(<, Nat)
  <2>1. S \subseteq Nat /\ S # {}
    OBVIOUS
  <2> QED BY <2>1, WFMin, NatLessThanWellFounded, Zenon
<1>2. \A y \in S : ~(y < x)
  BY <1>1 DEF OpToRel
<1>3. \A y \in S : x <= y
  BY <1>2
<1> QED BY <1>3 DEF Min

\* What remains of a queue after its first messages were popped.
Remains(r, q) == \E k \in 1..(Len(q) + 1) : r = SubSeq(q, k, Len(q))

\* It has no messages that the queue did not have, and none twice.
LEMMA RemainsFacts ==
    ASSUME NEW q \in Seq(Msg), NEW r, Remains(r, q)
    PROVE  /\ r \in Seq(Msg) /\ ToSet(r) \subseteq ToSet(q)
           /\ Distinct(q) => Distinct(r)
BY SuffixFacts DEF Remains

\* Popping nothing leaves the queue.
LEMMA RemainsAll == ASSUME NEW q \in Seq(Msg) PROVE Remains(q, q)
<1>1. SubSeq(q, 1, Len(q)) = q /\ Len(q) \in Nat
  BY SubSeqFull, LenProperties
<1>2. 1 \in 1..(Len(q) + 1)
  BY <1>1
<1> QED BY <1>1, <1>2 DEF Remains

\* A loop of the collector pops messages of its queue only, until the buffer
\* is small enough or the queue is empty.
LEMMA PopFacts ==
    ASSUME NEW h \in Buffer, NEW field \in {"disposable", "static"}
    PROVE  LET g == PopUntilBelow(h, field) IN
           /\ g \in Buffer
           /\ Remains(g[field], h[field])
           /\ \A f \in {"disposable", "static", "persistent"} : f # field => g[f] = h[f]
           /\ SizeBytes(g) < options.limit \/ g[field] = <<>>
<1> DEFINE q == h[field]
           after(n) == [h EXCEPT ![field] = SubSeq(q, n + 1, Len(q))]
           enough == {n \in 1..Len(q) : SizeBytes(after(n)) < options.limit}
           n0 == IF enough = {} THEN Len(q) ELSE Min(enough)
           g == after(n0)
<1>1. q \in Seq(Msg) /\ Len(q) \in Nat
  BY LenProperties DEF Buffer
<1>2. PopUntilBelow(h, field) = g
  BY DEF PopUntilBelow
<1>3. /\ n0 \in 0..Len(q)
      /\ n0 = Len(q) \/ SizeBytes(after(n0)) < options.limit
  <2>1. CASE enough = {}
    BY <2>1, <1>1
  <2>2. CASE enough # {}
    <3>1. enough \in SUBSET Nat
      BY <1>1
    <3> HIDE DEF enough
    <3>2. Min(enough) \in enough
      BY <2>2, <3>1, MinIsElement
    <3>3. n0 \in enough
      BY <2>2, <3>2
    <3>4. \A n \in enough : n \in 1..Len(q) /\ SizeBytes(after(n)) < options.limit
      BY DEF enough
    <3> HIDE DEF n0, after
    <3> QED BY <3>3, <3>4, <1>1
  <2> QED BY <2>1, <2>2
<1> HIDE DEF n0
<1>4. n0 + 1 \in 1..(Len(q) + 1)
  BY <1>1, <1>3
<1>5. Remains(SubSeq(q, n0 + 1, Len(q)), q) /\ SubSeq(q, n0 + 1, Len(q)) \in Seq(Msg)
  BY <1>1, <1>4, SuffixFacts DEF Remains
<1>6. g[field] = SubSeq(q, n0 + 1, Len(q)) /\ g \in Buffer
      /\ \A f \in {"disposable", "static", "persistent"} : f # field => g[f] = h[f]
  BY <1>5 DEF Buffer
<1>7. n0 = Len(q) => g[field] = <<>>
  <2>1. Len(q) + 1 \in Int /\ Len(q) \in Int /\ Len(q) < Len(q) + 1
    BY <1>1
  <2>2. SubSeq(q, Len(q) + 1, Len(q)) = <<>>
    BY <2>1, SubSeqEmpty
  <2> QED BY <1>6, <2>2
<1> QED BY <1>2, <1>3, <1>5, <1>6, <1>7

\* The collector keeps the persistent queue, pops the others from the front,
\* and stops within the limit or with nothing left to pop.
LEMMA GcFacts ==
    ASSUME NEW h \in Buffer, options \in Options
    PROVE  /\ Gc(h) \in Buffer
           /\ Gc(h).persistent = h.persistent
           /\ Remains(Gc(h).static, h.static)
           /\ Remains(Gc(h).disposable, h.disposable)
           /\ \/ SizeBytes(Gc(h)) <= options.limit
              \/ Gc(h).disposable = <<>> /\ Gc(h).static = <<>>
<1>0. options.limit \in Nat
  BY ProxyAssumption DEF ProxyAssumption
<1>1. \A g \in Buffer : SizeBytes(g) \in Nat
  <2> SUFFICES ASSUME NEW g \in Buffer PROVE SizeBytes(g) \in Nat
    OBVIOUS
  <2>1. g.disposable \in Seq(Msg) /\ g.static \in Seq(Msg) /\ g.persistent \in Seq(Msg)
    BY DEF Buffer
  <2>2. Bytes(g.disposable) \in Nat /\ Bytes(g.static) \in Nat /\ Bytes(g.persistent) \in Nat
    BY <2>1, BytesIsSizeSum
  <2> QED BY <2>2 DEF SizeBytes
<1>2. h.disposable \in Seq(Msg) /\ h.static \in Seq(Msg)
  BY DEF Buffer
<1>3. CASE SizeBytes(h) <= options.limit
  <2>1. Gc(h) = h
    BY <1>3 DEF Gc
  <2> QED BY <2>1, <1>2, <1>3, RemainsAll
<1>4. CASE ~(SizeBytes(h) <= options.limit)
  <2> DEFINE h1 == PopUntilBelow(h, "disposable")
  <2>1. /\ h1 \in Buffer /\ Remains(h1.disposable, h.disposable)
        /\ h1.static = h.static /\ h1.persistent = h.persistent
        /\ SizeBytes(h1) < options.limit \/ h1.disposable = <<>>
    BY PopFacts
  <2> DEFINE h2 == PopUntilBelow(h1, "static")
  <2> HIDE DEF h1
  <2>2. /\ h2 \in Buffer /\ Remains(h2.static, h1.static)
        /\ h2.disposable = h1.disposable /\ h2.persistent = h1.persistent
        /\ SizeBytes(h2) < options.limit \/ h2.static = <<>>
    BY <2>1, PopFacts
  <2> HIDE DEF h2
  <2>3. Gc(h) = IF options.limit < SizeBytes(h1) THEN h2 ELSE h1
    BY <1>4 DEF Gc, h1, h2
  <2>4. CASE options.limit < SizeBytes(h1)
    <3>1. h1.disposable = <<>>
      BY <2>1, <2>4, <1>0, <1>1
    <3>2. SizeBytes(h2) <= options.limit \/ h2.static = <<>>
      BY <2>2, <1>0, <1>1
    <3> QED BY <2>1, <2>2, <2>3, <2>4, <3>1, <3>2
  <2>5. CASE ~(options.limit < SizeBytes(h1))
    <3>1. SizeBytes(h1) <= options.limit
      BY <2>1, <2>5, <1>0, <1>1
    <3> QED BY <2>1, <2>3, <2>5, <3>1, <1>2, RemainsAll
  <2> QED BY <2>4, <2>5
<1> QED BY <1>3, <1>4

-----------------------------------------------------------------------------
(* The invariant *)

TypeInv ==
    /\ options \in Options
    /\ events \in Seq(Event)
    /\ handling \in Seq(Msg)
    /\ history \in Buffer
    /\ log \in Seq(Msg)
    /\ cursor \in [Clients -> Nat]
    /\ writes \in [Writers -> Nat]
    /\ pending \in [Writers -> Seq(Msg)]
    /\ client \in [Clients -> {"absent", "requested", "streaming", "gone"}]
    /\ replay \in [Clients -> Seq(Msg)]
    /\ got \in [Clients -> Seq(Msg)]
    /\ since \in [Clients -> Nat]
    /\ retained \in [Clients -> Seq(Msg)]
    /\ arrived \in Seq(Msg)

IsMsg(i) == events[i].type = "message"

\* A writer's messages are numbered in the order they pass through the proxy.
Before(a, b) == a.store = b.store => a.nr < b.nr
OlderThan(m, nrs, next) ==
    m.nr <= nrs[m.store] /\ (next[m.store] # <<>> => m.nr < nrs[m.store])
Older(m) == OlderThan(m, writes, pending)

\* So a message that the event loop is about to handle has not arrived yet.
OrderInv ==
    /\ \A w \in Writers : pending[w] # <<>> =>
          Head(pending[w]).store = w /\ Head(pending[w]).nr = writes[w] /\ writes[w] # 0
    /\ \A i \in 1..Len(events) : IsMsg(i) => Older(events[i].msg)
    /\ handling # <<>> => Older(Head(handling))
    /\ \A m \in ToSet(arrived) : Older(m)
    /\ \A i, j \in 1..Len(events) :
          i < j /\ IsMsg(i) /\ IsMsg(j) => Before(events[i].msg, events[j].msg)
    /\ handling # <<>> =>
          \A i \in 1..Len(events) : IsMsg(i) => Before(Head(handling), events[i].msg)
    /\ \A m \in ToSet(arrived) :
          \A i \in 1..Len(events) : IsMsg(i) => Before(m, events[i].msg)
    /\ handling # <<>> => \A m \in ToSet(arrived) : Before(m, Head(handling))

\* The SetStoreInfo of writer w: the message itself, in the history, at the
\* head of a queue of messages, among the first n events of a queue of events.
Info(m, w)      == m.kind = "store_info" /\ m.store = w
Known(w, h)     == \E m \in ToSet(h.persistent) : Info(m, w)
Coming(w, q)    == q # <<>> /\ Info(Head(q), w)
Queued(w, q, n) == \E j \in 1..n : q[j].type = "message" /\ Info(q[j].msg, w)

\* The SetStoreInfo of a writer is ahead of its data.
InfoInv ==
    IsHistoryEnabled =>
        /\ handling # <<>> =>
              Head(handling).kind = "store_info" \/ Known(Head(handling).store, history)
        /\ \A i \in 1..Len(events) : IsMsg(i) =>
              LET m == events[i].msg IN
              \/ m.kind = "store_info"
              \/ Known(m.store, history) \/ Coming(m.store, handling)
              \/ Queued(m.store, events, i - 1)
        /\ \A w \in Writers : writes[w] # 0 =>
              \/ Known(w, history) \/ Coming(w, handling)
              \/ Queued(w, events, Len(events)) \/ Coming(w, pending[w])

Held(h) == ToSet(h.persistent) \cup ToSet(h.static) \cup ToSet(h.disposable)

\* The history holds messages that arrived, each once and in the queue of its
\* kind; all of them, if it is not limited.
HistoryInv ==
    /\ \A m \in ToSet(history.persistent) : m.kind = "store_info"
    /\ \A m \in ToSet(history.static) : m.kind = "static"
    /\ \A m \in ToSet(history.disposable) : m.kind = "temporal"
    /\ Distinct(history.persistent) /\ Distinct(history.static) /\ Distinct(history.disposable)
    /\ Held(history) \subseteq ToSet(arrived)
    /\ ~options.limited => ToSet(arrived) \subseteq Held(history)
    /\ IsHistoryEnabled => \A m \in Held(history) : Known(m.store, history)
    /\ ~IsHistoryEnabled =>
          history.persistent = <<>> /\ history.static = <<>> /\ history.disposable = <<>>

\* The channel carries messages that arrived, each once.
LogInv == Distinct(log) /\ ToSet(log) \subseteq ToSet(arrived)

\* What a client has been sent or will be.
Rest(c) == SubSeq(log, cursor[c], Len(log))
Since(c) == SubSeq(log, since[c], Len(log))
Sent(c) == ToSet(got[c]) \cup ToSet(replay[c]) \cup ToSet(Rest(c))

\* Behind what it was sent a client has the rest of the history and the rest
\* of the channel, with no message in two of them.
StreamInv(c) ==
    /\ cursor[c] \in 1..(Len(log) + 1) /\ since[c] \in 1..(Len(log) + 1)
    /\ Distinct(got[c]) /\ Distinct(replay[c])
    /\ ToSet(got[c]) \cap ToSet(replay[c]) = {}
    /\ ToSet(got[c]) \cap ToSet(Rest(c)) = {}
    /\ ToSet(replay[c]) \cap ToSet(Rest(c)) = {}
    /\ Sent(c) = ToSet(retained[c]) \cup ToSet(Since(c))
    /\ Sent(c) \subseteq ToSet(arrived)
    /\ ~options.limited => ToSet(arrived) \subseteq Sent(c)
    /\ ToSet(history.persistent) \subseteq Sent(c)

ClientInv ==
    \A c \in Clients :
        /\ cursor[c] # 0 <=> client[c] = "streaming"
        /\ client[c] \in {"absent", "requested"} => got[c] = <<>>
        /\ client[c] = "streaming" => StreamInv(c)

\* Every message of the sequence has the SetStoreInfo of its store before it.
Covered(s) == \A i \in 1..Len(s) : \E j \in 1..i : Info(s[j], s[i].store)

\* With OldestFirst, what a client will have been sent.
Whole(c) == (got[c] \o replay[c]) \o Rest(c)

CoveredInv ==
    ~options.newest_first /\ IsHistoryEnabled =>
        \A c \in Clients : /\ Covered(got[c])
                           /\ client[c] = "streaming" => Covered(Whole(c))

SendInv == sender \in {"try", "full", "missed", "waiting", "lost"} /\ warned \in BOOLEAN

IInv == /\ TypeInv /\ OrderInv /\ InfoInv /\ HistoryInv /\ LogInv /\ ClientInv /\ CoveredInv
        /\ HistoryBound

-----------------------------------------------------------------------------
(* Types *)

\* What an event is.
LEMMA EventFacts ==
    ASSUME TypeInv
    PROVE  /\ Len(events) \in Nat
           /\ \A i \in 1..Len(events) : IsMsg(i) => events[i].msg \in Msg
           /\ events # <<>> =>
                 /\ Tail(events) \in Seq(Event)
                 /\ Head(events).type = "message" => Head(events).msg \in Msg
                 /\ Head(events).type = "new_client" => Head(events).client \in Clients
<1>1. events \in Seq(Event)
  BY DEF TypeInv
<1>2. \A e \in Event : /\ e.type = "message" => e.msg \in Msg
                       /\ e.type = "new_client" => e.client \in Clients
  BY DEF Event
<1>3. Len(events) \in Nat /\ \A i \in 1..Len(events) : events[i] \in Event
  BY <1>1, LenProperties, ElementOfSeq
<1>4. events # <<>> => Tail(events) \in Seq(Event) /\ Head(events) \in Event
  BY <1>1, HeadTailProperties
<1> QED BY <1>2, <1>3, <1>4 DEF IsMsg

\* The history as a new client gets it.
LEMMA AllFacts ==
    ASSUME NEW h \in Buffer
    PROVE  /\ All(h) \in Seq(Msg) /\ ToSet(All(h)) = Held(h)
           /\ /\ Distinct(h.persistent) /\ Distinct(h.static) /\ Distinct(h.disposable)
              /\ ToSet(h.persistent) \cap ToSet(h.static) = {}
              /\ ToSet(h.persistent) \cap ToSet(h.disposable) = {}
              /\ ToSet(h.static) \cap ToSet(h.disposable) = {}
              => Distinct(All(h))
<1> DEFINE p == h.persistent
           s == IF options.newest_first THEN Reverse(h.static) ELSE h.static
           d == IF options.newest_first THEN Reverse(h.disposable) ELSE h.disposable
<1>1. p \in Seq(Msg) /\ h.static \in Seq(Msg) /\ h.disposable \in Seq(Msg)
  BY DEF Buffer
<1>2. s \in Seq(Msg) /\ ToSet(s) = ToSet(h.static) /\ (Distinct(h.static) => Distinct(s))
  BY <1>1, ReverseFacts
<1>3. d \in Seq(Msg) /\ ToSet(d) = ToSet(h.disposable) /\ (Distinct(h.disposable) => Distinct(d))
  BY <1>1, ReverseFacts
<1>4. All(h) = p \o s \o d
  BY DEF All
<1> HIDE DEF p, s, d
<1>5. /\ p \o s \in Seq(Msg) /\ ToSet(p \o s) = ToSet(p) \cup ToSet(s)
      /\ Distinct(p) /\ Distinct(s) /\ ToSet(p) \cap ToSet(s) = {} => Distinct(p \o s)
  BY <1>1, <1>2, ConcatFacts
<1> DEFINE ps == p \o s
<1>p. ps \in Seq(Msg)
  BY <1>5
<1> HIDE DEF ps
<1>6. /\ ps \o d \in Seq(Msg) /\ ToSet(ps \o d) = ToSet(ps) \cup ToSet(d)
      /\ Distinct(ps) /\ Distinct(d) /\ ToSet(ps) \cap ToSet(d) = {} => Distinct(ps \o d)
  BY <1>3, <1>p, ConcatFacts
<1>7. ToSet(All(h)) = Held(h) /\ All(h) \in Seq(Msg)
  BY <1>2, <1>3, <1>4, <1>5, <1>6 DEF Held, p, ps
<1> QED BY <1>2, <1>3, <1>4, <1>5, <1>6, <1>7 DEF p, ps

\* A message joins the queue of its kind.
LEMMA AddFacts ==
    ASSUME NEW h \in Buffer, NEW m \in Msg
    PROVE  /\ AddMsg(h, m) \in Buffer
           /\ AddMsg(h, m).persistent =
                 IF m.kind = "store_info" THEN Append(h.persistent, m) ELSE h.persistent
           /\ AddMsg(h, m).static =
                 IF m.kind = "static" THEN Append(h.static, m) ELSE h.static
           /\ AddMsg(h, m).disposable =
                 IF m.kind = "temporal" THEN Append(h.disposable, m) ELSE h.disposable
<1>1. h.persistent \in Seq(Msg) /\ h.static \in Seq(Msg) /\ h.disposable \in Seq(Msg)
  BY DEF Buffer
<1>2. /\ Append(h.persistent, m) \in Seq(Msg) /\ Append(h.static, m) \in Seq(Msg)
      /\ Append(h.disposable, m) \in Seq(Msg)
  BY <1>1, AppendProperties
<1>3. m.kind \in {"store_info", "static", "temporal"}
  BY DEF Msg
<1>4. CASE m.kind = "store_info"
  <2>1. QueueOf(m) = "persistent"
    BY <1>4 DEF QueueOf
  <2>2. AddMsg(h, m) = [h EXCEPT !.persistent = Append(@, m)]
    BY <2>1 DEF AddMsg
  <2> QED BY <1>2, <1>4, <2>2 DEF Buffer
<1>5. CASE m.kind = "static"
  <2>1. QueueOf(m) = "static"
    BY <1>5 DEF QueueOf
  <2>2. AddMsg(h, m) = [h EXCEPT !.static = Append(@, m)]
    BY <2>1 DEF AddMsg
  <2> QED BY <1>2, <1>5, <2>2 DEF Buffer
<1>6. CASE m.kind = "temporal"
  <2>1. QueueOf(m) = "disposable"
    BY <1>6 DEF QueueOf
  <2>2. AddMsg(h, m) = [h EXCEPT !.disposable = Append(@, m)]
    BY <2>1 DEF AddMsg
  <2> QED BY <1>2, <1>6, <2>2 DEF Buffer
<1> QED BY <1>3, <1>4, <1>5, <1>6

\* What handling a message does to the log and to the history.
Collected == IF options.limited THEN Gc(history) ELSE history

\* The message is one of the proxy's; it is published unless nobody listens, and
\* counts as arrived.
LEMMA HandleFacts ==
    ASSUME TypeInv, HandleMsg
    PROVE  LET m == Head(handling) IN
           /\ m \in Msg /\ handling # <<>> /\ handling' = <<>>
           /\ arrived' = Append(arrived, m)
           /\ cursor' = cursor
           /\ \/ log' = Append(log, m)
              \/ log' = log /\ \A c \in Clients : cursor[c] = 0
           /\ UNCHANGED <<options, events, writes, pending, client, replay, got, since, retained>>
           /\ Remember(m)
<1>1. handling # <<>> /\ handling \in Seq(Msg)
  BY DEF TypeInv, HandleMsg
<1>2. Head(handling) \in Msg
  BY <1>1, HeadTailProperties
<1> QED BY <1>1, <1>2 DEF HandleMsg, Channel!Publish, Channel!Subscribers, clientVars

\* The message is added to what the collector leaves, unless history is off.
LEMMA RememberFacts ==
    ASSUME TypeInv, NEW m \in Msg, Remember(m)
    PROVE  /\ history' \in Buffer
           /\ IsHistoryEnabled =>
                 /\ Collected \in Buffer
                 /\ Collected.persistent = history.persistent
                 /\ Remains(Collected.static, history.static)
                 /\ Remains(Collected.disposable, history.disposable)
                 /\ ~options.limited => Collected = history
                 /\ history' = AddMsg(Collected, m)
           /\ ~IsHistoryEnabled => history' = history
<1>1. history \in Buffer /\ options \in Options
  BY DEF TypeInv
<1>2. history.static \in Seq(Msg) /\ history.disposable \in Seq(Msg)
  BY <1>1 DEF Buffer
<1>3. /\ Collected \in Buffer
      /\ Collected.persistent = history.persistent
      /\ Remains(Collected.static, history.static)
      /\ Remains(Collected.disposable, history.disposable)
      /\ ~options.limited => Collected = history
  BY <1>1, <1>2, GcFacts, RemainsAll DEF Collected
<1>4. IsHistoryEnabled => history' = AddMsg(Collected, m)
  BY DEF Remember, Collected
<1>5. ~IsHistoryEnabled => history' = history
  BY DEF Remember
<1>6. history' \in Buffer
  BY <1>1, <1>3, <1>4, <1>5, AddFacts
<1> QED BY <1>3, <1>4, <1>5, <1>6

\* The event loop takes an event, or is done with one; its other steps are
\* those of a send that waits, which leave everything else alone.
TakesEvent == LoopMessage \/ HandleMsg \/ LoopNewClient

\* The steps of the writers and of the event loop keep the types.
LEMMA LoopType ==
    ASSUME TypeInv,
           (\E w \in Writers : ReceiveMessage(w) \/ PushMessage(w)) \/ TakesEvent
    PROVE  TypeInv'
<1> USE DEF clientVars
<1>1. ASSUME NEW w \in Writers, ReceiveMessage(w) PROVE TypeInv'
  <2>1. PICK k \in Kinds \cup {"store_info"} :
           pending' = [pending EXCEPT ![w] = <<[store |-> w, nr |-> writes[w] + 1, kind |-> k]>>]
    BY <1>1 DEF ReceiveMessage
  <2>2. [store |-> w, nr |-> writes[w] + 1, kind |-> k] \in Msg
    BY ProxyAssumption DEF ProxyAssumption, Msg, TypeInv
  <2>3. pending' \in [Writers -> Seq(Msg)]
    BY <2>1, <2>2 DEF TypeInv
  <2> QED BY <1>1, <2>3 DEF TypeInv, ReceiveMessage
<1>2. ASSUME NEW w \in Writers, PushMessage(w) PROVE TypeInv'
  <2>1. pending[w] \in Seq(Msg) /\ pending[w] # <<>> /\ events \in Seq(Event)
    BY <1>2 DEF TypeInv, PushMessage
  <2>2. Head(pending[w]) \in Msg
    BY <2>1, HeadTailProperties
  <2>3. MessageEvent(Head(pending[w])) \in Event
    BY <2>2 DEF MessageEvent, Event
  <2>4. events' \in Seq(Event)
    BY <1>2, <2>1, <2>3, AppendProperties DEF PushMessage
  <2>5. <<>> \in Seq(Msg)
    BY EmptySeq
  <2>6. pending' \in [Writers -> Seq(Msg)]
    BY <1>2, <2>5 DEF PushMessage, TypeInv
  <2> QED BY <1>2, <2>4, <2>6 DEF TypeInv, PushMessage
<1>3. CASE LoopMessage
  <2>1. Head(events).msg \in Msg /\ Tail(events) \in Seq(Event)
    BY <1>3, EventFacts DEF LoopMessage
  <2>2. <<Head(events).msg>> \in Seq(Msg)
    BY <2>1
  <2> QED BY <1>3, <2>1, <2>2 DEF TypeInv, LoopMessage
<1>4. CASE HandleMsg
  <2> DEFINE m == Head(handling)
  <2>1. /\ m \in Msg /\ handling' = <<>> /\ arrived' = Append(arrived, m) /\ cursor' = cursor
        /\ log' = Append(log, m) \/ log' = log
        /\ UNCHANGED <<options, events, writes, pending, client, replay, got, since, retained>>
        /\ Remember(m)
    BY <1>4, HandleFacts
  <2> HIDE DEF m
  <2>2. history' \in Buffer
    BY <2>1, RememberFacts
  <2>3. log \in Seq(Msg) /\ arrived \in Seq(Msg) /\ <<>> \in Seq(Msg)
    BY EmptySeq DEF TypeInv
  <2>4. log' \in Seq(Msg) /\ arrived' \in Seq(Msg) /\ handling' \in Seq(Msg)
    <3>1. Append(log, m) \in Seq(Msg) /\ Append(arrived, m) \in Seq(Msg)
      BY <2>1, <2>3, AppendProperties
    <3> QED BY <2>1, <2>3, <3>1
  <2> QED BY <2>1, <2>2, <2>4 DEF TypeInv
<1>5. CASE LoopNewClient
  <2> DEFINE c == Head(events).client
  <2>1. c \in Clients /\ Tail(events) \in Seq(Event)
    BY <1>5, EventFacts DEF LoopNewClient
  <2>2. All(history) \in Seq(Msg)
    BY AllFacts DEF TypeInv
  <2>3. Len(log) + 1 \in Nat
    BY DEF TypeInv
  <2>4. /\ client' \in [Clients -> {"absent", "requested", "streaming", "gone"}]
        /\ replay' \in [Clients -> Seq(Msg)] /\ retained' \in [Clients -> Seq(Msg)]
        /\ since' \in [Clients -> Nat] /\ cursor' \in [Clients -> Nat] /\ log' = log
    <3>1. CASE client[c] = "requested"
      <4>1. /\ client' = [client EXCEPT ![c] = "streaming"]
            /\ replay' = [replay EXCEPT ![c] = All(history)]
            /\ retained' = [retained EXCEPT ![c] = All(history)]
            /\ since' = [since EXCEPT ![c] = Len(log) + 1]
            /\ cursor' = [cursor EXCEPT ![c] = Len(log) + 1] /\ log' = log
        BY <1>5, <3>1 DEF LoopNewClient, Channel!Subscribe
      <4> QED BY <4>1, <2>1, <2>2, <2>3 DEF TypeInv
    <3>2. CASE client[c] # "requested"
      BY <1>5, <3>2 DEF LoopNewClient, TypeInv
    <3> QED BY <3>1, <3>2
  <2> QED BY <1>5, <2>1, <2>4 DEF LoopNewClient, TypeInv
<1> QED BY <1>1, <1>2, <1>3, <1>4, <1>5 DEF TakesEvent

\* The steps of the clients keep the types.
LEMMA ClientType ==
    ASSUME TypeInv, NEW c \in Clients,
           ConnectClient(c) \/ ReplayNext(c) \/ LiveNext(c) \/ Disconnect(c)
    PROVE  TypeInv'
<1>1. CASE ConnectClient(c)
  <2>1. NewClientEvent(c) \in Event /\ events \in Seq(Event)
    BY DEF NewClientEvent, Event, TypeInv
  <2>2. events' \in Seq(Event)
    BY <1>1, <2>1, AppendProperties DEF ConnectClient
  <2> QED BY <1>1, <2>2 DEF TypeInv, ConnectClient
<1>2. CASE ReplayNext(c)
  <2>1. replay[c] \in Seq(Msg) /\ replay[c] # <<>> /\ got[c] \in Seq(Msg)
    BY <1>2 DEF TypeInv, ReplayNext
  <2>2. Append(got[c], Head(replay[c])) \in Seq(Msg) /\ Tail(replay[c]) \in Seq(Msg)
    BY <2>1, HeadTailProperties, AppendProperties
  <2>3. got' \in [Clients -> Seq(Msg)] /\ replay' \in [Clients -> Seq(Msg)]
    BY <1>2, <2>2 DEF ReplayNext, TypeInv
  <2> QED BY <1>2, <2>3 DEF TypeInv, ReplayNext
<1>3. CASE LiveNext(c)
  <2>1. /\ log \in Seq(Msg) /\ got[c] \in Seq(Msg) /\ cursor[c] \in Nat /\ cursor[c] # 0
        /\ cursor[c] <= Len(log) /\ log' = log /\ cursor' = [cursor EXCEPT ![c] = @ + 1]
    BY <1>3 DEF TypeInv, LiveNext, Channel!Read, Channel!CanRead
  <2>2. cursor[c] \in 1..Len(log)
    BY <2>1, LenProperties
  <2>3. log[cursor[c]] \in Msg
    BY <2>1, <2>2, ElementOfSeq
  <2>4. Append(got[c], log[cursor[c]]) \in Seq(Msg)
    BY <2>1, <2>3, AppendProperties
  <2>5. got' \in [Clients -> Seq(Msg)] /\ cursor' \in [Clients -> Nat]
    <3>1. got' = [got EXCEPT ![c] = Append(got[c], log[cursor[c]])] /\ got \in [Clients -> Seq(Msg)]
      BY <1>3 DEF LiveNext, TypeInv
    <3>2. cursor \in [Clients -> Nat] /\ cursor[c] + 1 \in Nat
      BY <2>1 DEF TypeInv
    <3> QED BY <2>1, <2>4, <3>1, <3>2
  <2> QED BY <1>3, <2>1, <2>5 DEF TypeInv, LiveNext
<1>4. CASE Disconnect(c)
  <2>1. log' = log /\ cursor' \in [Clients -> Nat]
    BY <1>4 DEF Disconnect, Channel!Unsubscribe, TypeInv
  <2> QED BY <1>4, <2>1 DEF TypeInv, Disconnect
<1> QED BY <1>1, <1>2, <1>3, <1>4

-----------------------------------------------------------------------------
(* The order of the messages *)

\* An event joins the queue, or leaves it.
EventJoins(e) ==
    /\ Len(events') = Len(events) + 1 /\ events'[Len(events) + 1] = e
    /\ \A i \in 1..Len(events) : events'[i] = events[i]
EventLeaves ==
    /\ Len(events') = Len(events) - 1 /\ Len(events) # 0 /\ Head(events) = events[1]
    /\ \A i \in 1..(Len(events) - 1) : events'[i] = events[i + 1]

\* Append and Tail, place by place.
LEMMA EventSteps ==
    ASSUME TypeInv
    PROVE  /\ \A e \in Event : events' = Append(events, e) => EventJoins(e)
           /\ events # <<>> /\ events' = Tail(events) => EventLeaves
<1>1. events \in Seq(Event)
  BY DEF TypeInv
<1>2. ASSUME NEW e \in Event, events' = Append(events, e) PROVE EventJoins(e)
  BY <1>1, <1>2, AppendProperties DEF EventJoins
<1>3. ASSUME events # <<>>, events' = Tail(events) PROVE EventLeaves
  BY <1>1, <1>3, TailFacts DEF EventLeaves
<1> QED BY <1>2, <1>3

\* write_messages numbers its next message above all earlier ones.
LEMMA OrderReceive ==
    ASSUME TypeInv, OrderInv, NEW w \in Writers, ReceiveMessage(w)
    PROVE  OrderInv'
<1>1. /\ pending[w] = <<>> /\ writes' = [writes EXCEPT ![w] = @ + 1]
      /\ UNCHANGED <<events, handling, arrived>>
  BY DEF ReceiveMessage
<1>2. PICK k : pending' = [pending EXCEPT ![w] =
                               <<[store |-> w, nr |-> writes[w] + 1, kind |-> k]>>]
  BY DEF ReceiveMessage
<1>3. /\ \A v \in Writers : writes[v] \in Nat
      /\ writes'[w] = writes[w] + 1 /\ \A v \in Writers : v # w => writes'[v] = writes[v]
      /\ pending'[w] = <<[store |-> w, nr |-> writes[w] + 1, kind |-> k]>>
      /\ \A v \in Writers : v # w => pending'[v] = pending[v]
  BY <1>1, <1>2 DEF TypeInv
<1>4. Head(pending'[w]).store = w /\ Head(pending'[w]).nr = writes[w] + 1
  BY <1>3
<1>5. ASSUME NEW m \in Msg, Older(m) PROVE OlderThan(m, writes', pending')
  <2>1. m.store \in Writers /\ m.nr \in Nat
    BY DEF Msg
  <2> QED BY <1>1, <1>3, <1>5, <2>1 DEF Older, OlderThan
<1>6. \A i \in 1..Len(events) : IsMsg(i) => events[i].msg \in Msg
  BY EventFacts
<1>7. handling # <<>> => Head(handling) \in Msg
  BY HeadTailProperties DEF TypeInv
<1>8. ToSet(arrived) \subseteq Msg
  BY ToSetPlaces DEF TypeInv
<1>9. \A v \in Writers : pending'[v] # <<>> =>
          Head(pending'[v]).store = v /\ Head(pending'[v]).nr = writes'[v] /\ writes'[v] # 0
  BY <1>3, <1>4 DEF OrderInv
<1>10. \A i \in 1..Len(events) : IsMsg(i)' = IsMsg(i)
  BY <1>1 DEF IsMsg
<1>11. /\ \A i \in 1..Len(events) : IsMsg(i) => OlderThan(events[i].msg, writes', pending')
       /\ handling # <<>> => OlderThan(Head(handling), writes', pending')
       /\ \A m \in ToSet(arrived) : OlderThan(m, writes', pending')
  BY <1>1, <1>5, <1>6, <1>7, <1>8 DEF OrderInv
<1> QED BY <1>1, <1>9, <1>10, <1>11 DEF OrderInv, Before, Older

\* push_message moves a writer's newest message to the end of the queue.
LEMMA OrderPush ==
    ASSUME TypeInv, OrderInv, NEW w \in Writers, PushMessage(w)
    PROVE  OrderInv'
<1> DEFINE m == Head(pending[w])
           n == Len(events)
<1>1. /\ pending[w] # <<>> /\ events' = Append(events, MessageEvent(m))
      /\ pending' = [pending EXCEPT ![w] = <<>>]
      /\ UNCHANGED <<writes, handling, arrived>>
  BY DEF PushMessage
<1>2. m \in Msg /\ m.store = w /\ m.nr = writes[w] /\ writes[w] \in Nat
  BY <1>1, HeadTailProperties DEF TypeInv, OrderInv
<1>3. MessageEvent(m) \in Event /\ MessageEvent(m).msg = m /\ MessageEvent(m).type = "message"
  BY <1>2 DEF MessageEvent, Event
<1>4. n \in Nat /\ \A i \in 1..n : IsMsg(i) => events[i].msg \in Msg
  BY EventFacts
<1>5. EventJoins(MessageEvent(m))
  BY <1>1, <1>3, EventSteps
<1>6. pending'[w] = <<>> /\ \A v \in Writers : v # w => pending'[v] = pending[v]
  BY <1>1 DEF TypeInv
<1>7. ASSUME NEW x \in Msg, Older(x) PROVE OlderThan(x, writes', pending') /\ Before(x, m)
  <2>1. x.store \in Writers /\ x.nr \in Nat
    BY DEF Msg
  <2> QED BY <1>1, <1>2, <1>6, <1>7, <2>1 DEF Older, OlderThan, Before
<1>8. OlderThan(m, writes', pending')
  BY <1>1, <1>2, <1>6 DEF Older, OlderThan
<1> HIDE DEF m
<1>9. /\ Len(events') = n + 1 /\ events'[n + 1].msg = m
      /\ \A i \in 1..n : events'[i] = events[i]
  BY <1>3, <1>5 DEF EventJoins
<1> HIDE DEF n
<1>10. \A i \in 1..(n + 1) : i \in 1..n \/ i = n + 1
  BY <1>4
<1>11. \A i \in 1..n : (IsMsg(i)' <=> IsMsg(i)) /\ i \in 1..(n + 1)
  BY <1>4, <1>9 DEF IsMsg
<1>12. /\ \A i \in 1..n : IsMsg(i) => Older(events[i].msg)
       /\ handling # <<>> => Older(Head(handling)) /\ Head(handling) \in Msg
       /\ \A x \in ToSet(arrived) : Older(x) /\ x \in Msg
  BY HeadTailProperties, ToSetPlaces DEF OrderInv, TypeInv, n
<1>13. /\ \A v \in Writers : pending'[v] # <<>> =>
             Head(pending'[v]).store = v /\ Head(pending'[v]).nr = writes'[v] /\ writes'[v] # 0
  BY <1>1, <1>6 DEF OrderInv
<1>14. \A i \in 1..(n + 1) : IsMsg(i)' => OlderThan(events'[i].msg, writes', pending')
  BY <1>4, <1>7, <1>8, <1>9, <1>10, <1>11, <1>12
<1>15. /\ handling' # <<>> => OlderThan(Head(handling'), writes', pending')
       /\ \A x \in ToSet(arrived') : OlderThan(x, writes', pending')
  BY <1>1, <1>7, <1>12
<1>16. \A i, j \in 1..(n + 1) :
          i < j /\ IsMsg(i)' /\ IsMsg(j)' => Before(events'[i].msg, events'[j].msg)
  <2> SUFFICES ASSUME NEW i \in 1..(n + 1), NEW j \in 1..(n + 1), i < j, IsMsg(i)', IsMsg(j)'
               PROVE  Before(events'[i].msg, events'[j].msg)
    OBVIOUS
  <2>1. i \in 1..n
    BY <1>4
  <2>2. CASE j \in 1..n
    BY <2>1, <2>2, <1>9, <1>11 DEF OrderInv, n
  <2>3. CASE j = n + 1
    BY <2>1, <2>3, <1>4, <1>7, <1>9, <1>11, <1>12
  <2> QED BY <2>2, <2>3, <1>10
<1>17. handling' # <<>> =>
          \A i \in 1..(n + 1) : IsMsg(i)' => Before(Head(handling'), events'[i].msg)
  <2> SUFFICES ASSUME handling # <<>>, NEW i \in 1..(n + 1), IsMsg(i)'
               PROVE  Before(Head(handling), events'[i].msg)
    BY <1>1
  <2>2. CASE i \in 1..n
    BY <2>2, <1>9, <1>11 DEF OrderInv, n
  <2>3. CASE i = n + 1
    BY <2>3, <1>7, <1>9, <1>12
  <2> QED BY <2>2, <2>3, <1>10
<1>18. \A x \in ToSet(arrived') :
          \A i \in 1..(n + 1) : IsMsg(i)' => Before(x, events'[i].msg)
  <2> SUFFICES ASSUME NEW x \in ToSet(arrived), NEW i \in 1..(n + 1), IsMsg(i)'
               PROVE  Before(x, events'[i].msg)
    BY <1>1
  <2>2. CASE i \in 1..n
    BY <2>2, <1>9, <1>11 DEF OrderInv, n
  <2>3. CASE i = n + 1
    BY <2>3, <1>7, <1>9, <1>12
  <2> QED BY <2>2, <2>3, <1>10
<1>19. handling' # <<>> => \A x \in ToSet(arrived') : Before(x, Head(handling'))
  BY <1>1 DEF OrderInv
<1>20. Len(events') = n + 1
  BY <1>9
<1> QED BY <1>13, <1>14, <1>15, <1>16, <1>17, <1>18, <1>19, <1>20 DEF OrderInv, Before, Older

\* The event loop takes messages in the order of the queue.
LEMMA OrderLoop ==
    ASSUME TypeInv, OrderInv, TakesEvent
    PROVE  OrderInv'
<1> DEFINE n == Len(events)
<1>0. n \in Nat
  BY EventFacts
<1>1. UNCHANGED <<writes, pending>>
  BY DEF TakesEvent, LoopMessage, HandleMsg, LoopNewClient
<1>2. \A m : Older(m) => OlderThan(m, writes', pending')
  BY <1>1 DEF Older, OlderThan
<1>3. CASE LoopMessage \/ LoopNewClient
  <2>1. /\ events # <<>> /\ events' = Tail(events) /\ arrived' = arrived
        /\ handling = <<>>
        /\ handling' = <<>> \/ (handling' = <<events[1].msg>> /\ IsMsg(1))
    <3>1. events # <<>> => Head(events) = events[1]
      BY TailFacts DEF TypeInv
    <3> QED BY <1>3, <3>1 DEF LoopMessage, LoopNewClient, IsMsg
  <2>2. Len(events') = n - 1 /\ n # 0 /\ \A i \in 1..(n - 1) : events'[i] = events[i + 1]
    BY <2>1, EventSteps DEF EventLeaves
  <2> HIDE DEF n
  <2>3. \A i \in 1..(n - 1) : i + 1 \in 1..n /\ 1 < i + 1 /\ (IsMsg(i)' <=> IsMsg(i + 1))
    BY <1>0, <2>2 DEF IsMsg
  <2>4. 1 \in 1..n
    BY <1>0, <2>2
  <2>5. \A i, j \in 1..(n - 1) : i < j => i + 1 < j + 1
    BY <1>0
  <2>6. handling' # <<>> => Head(handling') = events[1].msg /\ IsMsg(1)
    BY <2>1
  <2>7. \A i \in 1..(n - 1) : IsMsg(i)' => OlderThan(events'[i].msg, writes', pending')
    BY <1>2, <2>2, <2>3 DEF OrderInv, n
  <2>8. handling' # <<>> => OlderThan(Head(handling'), writes', pending')
    BY <1>2, <2>4, <2>6 DEF OrderInv, n
  <2>9. \A i, j \in 1..(n - 1) :
          i < j /\ IsMsg(i)' /\ IsMsg(j)' => Before(events'[i].msg, events'[j].msg)
    BY <2>2, <2>3, <2>5 DEF OrderInv, n
  <2>10. handling' # <<>> =>
          \A i \in 1..(n - 1) : IsMsg(i)' => Before(Head(handling'), events'[i].msg)
    BY <2>2, <2>3, <2>4, <2>6 DEF OrderInv, n
  <2>11. \A x \in ToSet(arrived') :
          \A i \in 1..(n - 1) : IsMsg(i)' => Before(x, events'[i].msg)
    BY <2>1, <2>2, <2>3 DEF OrderInv, n
  <2>12. handling' # <<>> => \A x \in ToSet(arrived') : Before(x, Head(handling'))
    BY <2>1, <2>4, <2>6 DEF OrderInv, n
  <2>13. \A x \in ToSet(arrived') : OlderThan(x, writes', pending')
    BY <1>2, <2>1 DEF OrderInv
  <2>14. \A w \in Writers : pending'[w] # <<>> =>
            Head(pending'[w]).store = w /\ Head(pending'[w]).nr = writes'[w] /\ writes'[w] # 0
    BY <1>1 DEF OrderInv
  <2>15. Len(events') = n - 1
    BY <2>2
  <2> QED BY <2>7, <2>8, <2>9, <2>10, <2>11, <2>12, <2>13, <2>14, <2>15 DEF OrderInv, Before, Older
<1>4. CASE HandleMsg
  <2> DEFINE m == Head(handling)
  <2>1. /\ m \in Msg /\ handling # <<>> /\ handling' = <<>> /\ events' = events
        /\ arrived' = Append(arrived, m)
    BY <1>4, HandleFacts
  <2>2. ToSet(arrived') = ToSet(arrived) \cup {m}
    BY <2>1, AppendFacts DEF TypeInv
  <2>3. Older(m) /\ \A i \in 1..n : IsMsg(i) => Before(m, events[i].msg)
    BY <2>1 DEF OrderInv
  <2> HIDE DEF m
  <2>4. \A i : IsMsg(i)' <=> IsMsg(i)
    BY <2>1 DEF IsMsg
  <2>5. \A x \in ToSet(arrived') : OlderThan(x, writes', pending')
    BY <1>2, <2>2, <2>3 DEF OrderInv
  <2>6. \A x \in ToSet(arrived') : \A i \in 1..n : IsMsg(i)' => Before(x, events'[i].msg)
    BY <2>1, <2>2, <2>3, <2>4 DEF OrderInv
  <2>7. \A i \in 1..n : IsMsg(i)' => OlderThan(events'[i].msg, writes', pending')
    BY <1>2, <2>1, <2>4 DEF OrderInv
  <2> QED BY <1>1, <2>1, <2>4, <2>5, <2>6, <2>7 DEF OrderInv, Before, Older
<1> QED BY <1>3, <1>4 DEF TakesEvent

\* The event of a new client moves no message.
LEMMA OrderConnect ==
    ASSUME TypeInv, OrderInv, NEW c \in Clients, ConnectClient(c)
    PROVE  OrderInv'
<1>n. PICK n : n = Len(events)
  OBVIOUS
<1>0. n \in Nat
  BY <1>n, EventFacts
<1>1. NewClientEvent(c) \in Event /\ NewClientEvent(c).type = "new_client"
  BY DEF NewClientEvent, Event
<1>2. /\ UNCHANGED <<writes, pending, handling, arrived>>
      /\ events' = Append(events, NewClientEvent(c))
  BY DEF ConnectClient
<1>3. /\ Len(events') = n + 1 /\ ~IsMsg(n + 1)'
      /\ \A i \in 1..n : events'[i] = events[i]
  BY <1>n, <1>1, <1>2, EventSteps DEF EventJoins, IsMsg
<1>4. \A i \in 1..(n + 1) : IsMsg(i)' => i \in 1..n /\ IsMsg(i) /\ events'[i] = events[i]
  BY <1>0, <1>3 DEF IsMsg
<1>5. \A m : OlderThan(m, writes', pending') <=> Older(m)
  BY <1>2 DEF Older, OlderThan
<1>6. \A i \in 1..(n + 1) : IsMsg(i)' => OlderThan(events'[i].msg, writes', pending')
  BY <1>n, <1>4, <1>5 DEF OrderInv
<1>7. \A i, j \in 1..(n + 1) :
          i < j /\ IsMsg(i)' /\ IsMsg(j)' => Before(events'[i].msg, events'[j].msg)
  BY <1>n, <1>4 DEF OrderInv
<1>8. handling' # <<>> =>
          \A i \in 1..(n + 1) : IsMsg(i)' => Before(Head(handling'), events'[i].msg)
  BY <1>n, <1>2, <1>4 DEF OrderInv
<1>9. \A x \in ToSet(arrived') :
          \A i \in 1..(n + 1) : IsMsg(i)' => Before(x, events'[i].msg)
  BY <1>n, <1>2, <1>4 DEF OrderInv
<1>10. Len(events') = n + 1
  BY <1>3
<1>11. /\ handling' # <<>> => OlderThan(Head(handling'), writes', pending')
       /\ \A x \in ToSet(arrived') : OlderThan(x, writes', pending')
       /\ handling' # <<>> => \A x \in ToSet(arrived') : Before(x, Head(handling'))
  BY <1>2, <1>5 DEF OrderInv
<1>12. \A w \in Writers : pending'[w] # <<>> =>
            Head(pending'[w]).store = w /\ Head(pending'[w]).nr = writes'[w] /\ writes'[w] # 0
  BY <1>2 DEF OrderInv
<1> QED BY <1>6, <1>7, <1>8, <1>9, <1>10, <1>11, <1>12 DEF OrderInv, Before, Older

\* So the message that is handled next has not arrived before.
LEMMA HandlingIsNew ==
    ASSUME TypeInv, OrderInv, handling # <<>>
    PROVE  Head(handling) \in Msg /\ Head(handling) \notin ToSet(arrived)
<1>1. Head(handling) \in Msg
  BY HeadTailProperties DEF TypeInv
<1>2. Head(handling).nr \in Nat
  BY <1>1 DEF Msg
<1> QED BY <1>1, <1>2 DEF OrderInv, Before, Older

-----------------------------------------------------------------------------
(* The SetStoreInfo of a writer, ahead of its data *)

\* What is known stays known, and what is handled becomes known.
LEMMA KnownGrows ==
    ASSUME TypeInv, HandleMsg, IsHistoryEnabled
    PROVE  /\ ToSet(history.persistent) \subseteq ToSet(history'.persistent)
           /\ ToSet(history'.persistent) \subseteq ToSet(history.persistent) \cup {Head(handling)}
           /\ \A w : Known(w, history) \/ Coming(w, handling) => Known(w, history')
<1> DEFINE m == Head(handling)
<1>1. m \in Msg /\ handling # <<>> /\ Remember(m)
  BY HandleFacts
<1> HIDE DEF m
<1>2. /\ Collected \in Buffer /\ Collected.persistent = history.persistent
      /\ history' = AddMsg(Collected, m)
  BY <1>1, RememberFacts
<1>3. history'.persistent =
        IF m.kind = "store_info" THEN Append(history.persistent, m) ELSE history.persistent
  BY <1>1, <1>2, AddFacts
<1>4. history.persistent \in Seq(Msg)
  BY DEF TypeInv, Buffer
<1>5. ToSet(Append(history.persistent, m)) = ToSet(history.persistent) \cup {m}
  BY <1>1, <1>4, AppendFacts
<1>6. /\ ToSet(history.persistent) \subseteq ToSet(history'.persistent)
      /\ ToSet(history'.persistent) \subseteq ToSet(history.persistent) \cup {m}
      /\ m.kind = "store_info" => m \in ToSet(history'.persistent)
  BY <1>3, <1>5
<1>7. \A w : Known(w, history) \/ Coming(w, handling) => Known(w, history')
  BY <1>6 DEF Known, Coming, Info, m
<1> QED BY <1>6, <1>7 DEF m

\* The first message of a writer is its SetStoreInfo.
LEMMA InfoReceive ==
    ASSUME TypeInv, InfoInv, NEW w \in Writers, ReceiveMessage(w)
    PROVE  InfoInv'
<1>1. /\ pending[w] = <<>> /\ writes' = [writes EXCEPT ![w] = @ + 1]
      /\ UNCHANGED <<options, history, events, handling>>
  BY DEF ReceiveMessage
<1>2. PICK k : /\ pending' = [pending EXCEPT ![w] =
                               <<[store |-> w, nr |-> writes[w] + 1, kind |-> k]>>]
               /\ k = "store_info" <=> writes[w] = 0
  BY DEF ReceiveMessage
<1>3. /\ \A v \in Writers : v # w => writes'[v] = writes[v] /\ pending'[v] = pending[v]
      /\ pending'[w] = <<[store |-> w, nr |-> writes[w] + 1, kind |-> k]>>
  BY <1>1, <1>2 DEF TypeInv
<1>4. writes[w] = 0 => Coming(w, pending'[w])
  BY <1>2, <1>3 DEF Info, Coming
<1>5. ~Coming(w, pending[w])
  BY <1>1 DEF Coming
<1>6. \A v \in Writers : writes'[v] # 0 /\ ~Coming(v, pending'[v]) =>
          writes[v] # 0 /\ ~Coming(v, pending[v])
  BY <1>3, <1>4, <1>5
<1>7. (IsHistoryEnabled' <=> IsHistoryEnabled) /\ \A i : IsMsg(i)' <=> IsMsg(i)
  BY <1>1 DEF IsHistoryEnabled, IsMsg
<1>8. IsHistoryEnabled => \A v \in Writers : writes'[v] # 0 =>
              \/ Known(v, history) \/ Coming(v, handling)
              \/ Queued(v, events, Len(events)) \/ Coming(v, pending'[v])
  BY <1>6 DEF InfoInv
<1> QED BY <1>1, <1>7, <1>8 DEF InfoInv

\* What a writer pushes comes after the SetStoreInfo it pushed before.
LEMMA InfoPush ==
    ASSUME TypeInv, InfoInv, OrderInv, NEW w \in Writers, PushMessage(w)
    PROVE  InfoInv'
<1> DEFINE n == Len(events)
           m == Head(pending[w])
<1>1. /\ pending[w] # <<>> /\ events' = Append(events, MessageEvent(m))
      /\ pending' = [pending EXCEPT ![w] = <<>>]
      /\ UNCHANGED <<options, history, writes, handling>>
  BY DEF PushMessage
<1>2. m \in Msg /\ m.store = w /\ writes[w] # 0
  BY <1>1, HeadTailProperties DEF TypeInv, OrderInv
<1>3. MessageEvent(m) \in Event /\ MessageEvent(m).msg = m /\ MessageEvent(m).type = "message"
  BY <1>2 DEF MessageEvent, Event
<1>4. n \in Nat
  BY EventFacts
<1>5. /\ Len(events') = n + 1 /\ events'[n + 1].msg = m /\ events'[n + 1].type = "message"
      /\ \A i \in 1..n : events'[i] = events[i]
  BY <1>1, <1>3, EventSteps DEF EventJoins
<1>6. \A v \in Writers : v # w => pending'[v] = pending[v]
  BY <1>1 DEF TypeInv
<1>7. m.kind = "store_info" \/ ~Coming(w, pending[w])
  BY DEF Coming, Info
<1> HIDE DEF n, m
<1>8. \A v, k : k \in 0..n /\ Queued(v, events, k) => Queued(v, events', k)
  BY <1>4, <1>5 DEF Queued
<1>9. \A v : Queued(v, events, n) => Queued(v, events', n + 1)
  BY <1>4, <1>5 DEF Queued
<1>10. m.kind = "store_info" => Queued(w, events', n + 1)
  BY <1>2, <1>4, <1>5 DEF Queued, Info
<1>11. (n + 1) - 1 = n /\ \A i \in 1..n : i - 1 \in 0..n
  BY <1>4
<1>12. \A i \in 1..(n + 1) : i \in 1..n \/ i = n + 1
  BY <1>4
<1>13. \A i \in 1..n : IsMsg(i)' <=> IsMsg(i)
  BY <1>5 DEF IsMsg
<1>14. IsHistoryEnabled' <=> IsHistoryEnabled
  BY <1>1 DEF IsHistoryEnabled
<1> SUFFICES ASSUME IsHistoryEnabled PROVE InfoInv'
  BY <1>14 DEF InfoInv
<1>15. m.kind = "store_info" \/ Known(w, history) \/ Coming(w, handling) \/ Queued(w, events, n)
  BY <1>2, <1>7 DEF InfoInv, n
<1>16. ASSUME NEW i \in 1..(n + 1), IsMsg(i)'
       PROVE  LET x == events'[i].msg IN
              \/ x.kind = "store_info"
              \/ Known(x.store, history) \/ Coming(x.store, handling)
              \/ Queued(x.store, events', i - 1)
  <2>1. CASE i = n + 1
    <3>1. n \in 0..n
      BY <1>4
    <3> QED BY <2>1, <3>1, <1>2, <1>5, <1>8, <1>11, <1>15
  <2>2. CASE i \in 1..n
    <3>1. IsMsg(i) /\ events'[i] = events[i] /\ i - 1 \in 0..n
      BY <2>2, <1>5, <1>11, <1>13, <1>16
    <3>2. LET x == events[i].msg IN
              \/ x.kind = "store_info"
              \/ Known(x.store, history) \/ Coming(x.store, handling)
              \/ Queued(x.store, events, i - 1)
      BY <2>2, <3>1 DEF InfoInv, n
    <3> QED BY <3>1, <3>2, <1>8
  <2> QED BY <2>1, <2>2, <1>12
<1>17. ASSUME NEW v \in Writers, writes[v] # 0
       PROVE  \/ Known(v, history) \/ Coming(v, handling)
              \/ Queued(v, events', n + 1) \/ Coming(v, pending'[v])
  <2>1. \/ Known(v, history) \/ Coming(v, handling)
        \/ Queued(v, events, n) \/ Coming(v, pending[v])
    BY <1>17 DEF InfoInv, n
  <2>2. CASE v = w
    BY <2>1, <2>2, <1>7, <1>9, <1>10
  <2>3. CASE v # w
    BY <2>1, <2>3, <1>6, <1>9
  <2> QED BY <2>2, <2>3
<1>18. handling # <<>> =>
              Head(handling).kind = "store_info" \/ Known(Head(handling).store, history)
  BY DEF InfoInv
<1>19. Len(events') = n + 1
  BY <1>5
<1> QED BY <1>1, <1>16, <1>17, <1>18, <1>19 DEF InfoInv

\* The event loop passes the SetStoreInfo on before the data behind it.
LEMMA InfoLoop ==
    ASSUME TypeInv, InfoInv, TakesEvent
    PROVE  InfoInv'
<1> DEFINE n == Len(events)
<1>0. n \in Nat
  BY EventFacts
<1>1. UNCHANGED <<options, writes, pending>>
  BY DEF TakesEvent, LoopMessage, HandleMsg, LoopNewClient
<1>2. IsHistoryEnabled' <=> IsHistoryEnabled
  BY <1>1 DEF IsHistoryEnabled
<1> SUFFICES ASSUME IsHistoryEnabled PROVE InfoInv'
  BY <1>2 DEF InfoInv
<1>3. CASE LoopMessage \/ LoopNewClient
  <2>1. /\ events # <<>> /\ events' = Tail(events) /\ history' = history
        /\ handling = <<>>
        /\ \/ handling' = <<>> /\ events[1].type # "message"
           \/ handling' = <<events[1].msg>> /\ events[1].type = "message"
    <3>1. events # <<>> => Head(events) = events[1]
      BY TailFacts DEF TypeInv
    <3> QED BY <1>3, <3>1 DEF LoopMessage, LoopNewClient
  <2>2. Len(events') = n - 1 /\ n # 0 /\ \A i \in 1..(n - 1) : events'[i] = events[i + 1]
    BY <2>1, EventSteps DEF EventLeaves
  <2>3. \A w : ~Coming(w, handling)
    BY <2>1 DEF Coming
  <2>4. \A w : events[1].type = "message" /\ Info(events[1].msg, w) => Coming(w, handling')
    <3>0. \A x : <<x>> # <<>> /\ Head(<<x>>) = x
      OBVIOUS
    <3>1. events[1].type = "message" => handling' # <<>> /\ Head(handling') = events[1].msg
      BY <2>1, <3>0
    <3> QED BY <3>1 DEF Coming
  <2> HIDE DEF n
  <2>5. ASSUME NEW w, NEW k \in 0..(n - 1), Queued(w, events, k + 1)
        PROVE  Coming(w, handling') \/ Queued(w, events', k)
    <3>1. PICK j \in 1..(k + 1) : events[j].type = "message" /\ Info(events[j].msg, w)
      BY <2>5 DEF Queued
    <3>2. CASE j = 1
      BY <3>1, <3>2, <2>4
    <3>3. CASE j # 1
      <4>1. j - 1 \in 1..k /\ j - 1 \in 1..(n - 1) /\ (j - 1) + 1 = j
        BY <3>1, <3>3, <1>0
      <4>2. events'[j - 1] = events[j]
        BY <4>1, <2>2
      <4> QED BY <3>1, <4>1, <4>2 DEF Queued
    <3> QED BY <3>2, <3>3
  <2>6. \A i \in 1..(n - 1) : /\ i + 1 \in 1..n /\ i - 1 \in 0..(n - 1)
                              /\ (i + 1) - 1 = (i - 1) + 1
                              /\ (IsMsg(i)' <=> IsMsg(i + 1))
    BY <1>0, <2>2 DEF IsMsg
  <2>7. 1 \in 1..n /\ n - 1 \in 0..(n - 1) /\ (n - 1) + 1 = n /\ 1 - 1 = 0
    BY <1>0, <2>2
  <2>8. ASSUME NEW i \in 1..(n - 1), IsMsg(i)'
        PROVE  LET x == events'[i].msg IN
               \/ x.kind = "store_info"
               \/ Known(x.store, history) \/ Coming(x.store, handling')
               \/ Queued(x.store, events', i - 1)
    <3>1. IsMsg(i + 1) /\ i + 1 \in 1..n /\ events'[i] = events[i + 1]
      BY <2>2, <2>6, <2>8
    <3>2. LET x == events[i + 1].msg IN
               \/ x.kind = "store_info"
               \/ Known(x.store, history) \/ Coming(x.store, handling)
               \/ Queued(x.store, events, (i + 1) - 1)
      BY <3>1 DEF InfoInv, n
    <3>3. i - 1 \in 0..(n - 1) /\ (i + 1) - 1 = (i - 1) + 1
      BY <2>6
    <3> QED BY <3>1, <3>2, <3>3, <2>3, <2>5
  <2>9. ASSUME NEW w \in Writers, writes[w] # 0
        PROVE  \/ Known(w, history) \/ Coming(w, handling')
               \/ Queued(w, events', n - 1) \/ Coming(w, pending[w])
    <3>1. \/ Known(w, history) \/ Coming(w, handling)
          \/ Queued(w, events, n) \/ Coming(w, pending[w])
      BY <2>9 DEF InfoInv, n
    <3> QED BY <3>1, <2>3, <2>5, <2>7
  <2>10. handling' # <<>> =>
              Head(handling').kind = "store_info" \/ Known(Head(handling').store, history)
    <3> SUFFICES ASSUME handling' # <<>>
                 PROVE  events[1].msg.kind = "store_info" \/ Known(events[1].msg.store, history)
      BY <2>1
    <3>1. IsMsg(1)
      BY <2>1 DEF IsMsg
    <3>2. ~Queued(events[1].msg.store, events, 0)
      BY DEF Queued
    <3> QED BY <3>1, <3>2, <2>3, <2>7 DEF InfoInv, n
  <2>11. Len(events') = n - 1
    BY <2>2
  <2> QED BY <1>1, <2>1, <2>8, <2>9, <2>10, <2>11 DEF InfoInv
<1>4. CASE HandleMsg
  <2>1. /\ handling # <<>> /\ handling' = <<>> /\ events' = events
    BY <1>4, HandleFacts
  <2>2. \A w : Known(w, history) \/ Coming(w, handling) => Known(w, history')
    BY <1>4, KnownGrows
  <2>3. \A i : IsMsg(i)' <=> IsMsg(i)
    BY <2>1 DEF IsMsg
  <2>4. \A w \in Writers : writes[w] # 0 =>
              \/ Known(w, history') \/ Queued(w, events, n) \/ Coming(w, pending[w])
    BY <2>2 DEF InfoInv
  <2>5. \A i \in 1..n : IsMsg(i) =>
              LET m == events[i].msg IN
              m.kind = "store_info" \/ Known(m.store, history') \/ Queued(m.store, events, i - 1)
    BY <2>2 DEF InfoInv
  <2> QED BY <1>1, <2>1, <2>3, <2>4, <2>5 DEF InfoInv
<1> QED BY <1>3, <1>4 DEF TakesEvent

\* The event of a new client gets in nobody's way.
LEMMA InfoConnect ==
    ASSUME TypeInv, InfoInv, NEW c \in Clients, ConnectClient(c)
    PROVE  InfoInv'
<1> DEFINE n == Len(events)
<1>0. n \in Nat
  BY EventFacts
<1>1. NewClientEvent(c) \in Event /\ NewClientEvent(c).type = "new_client"
  BY DEF NewClientEvent, Event
<1>2. /\ UNCHANGED <<options, history, writes, pending, handling>>
      /\ events' = Append(events, NewClientEvent(c))
  BY DEF ConnectClient
<1>3. /\ Len(events') = n + 1 /\ events'[n + 1].type = "new_client"
      /\ \A i \in 1..n : events'[i] = events[i]
  BY <1>1, <1>2, EventSteps DEF EventJoins
<1>4. IsHistoryEnabled' <=> IsHistoryEnabled
  BY <1>2 DEF IsHistoryEnabled
<1> HIDE DEF n
<1>5. \A v, k : k \in 0..n /\ Queued(v, events, k) => Queued(v, events', k)
  BY <1>0, <1>3 DEF Queued
<1>6. \A v : Queued(v, events, n) => Queued(v, events', n + 1)
  BY <1>0, <1>3 DEF Queued
<1>7. \A i \in 1..(n + 1) : IsMsg(i)' =>
          i \in 1..n /\ IsMsg(i) /\ events'[i] = events[i] /\ i - 1 \in 0..n
  <2> SUFFICES ASSUME NEW i \in 1..(n + 1), IsMsg(i)'
               PROVE  i \in 1..n /\ IsMsg(i) /\ events'[i] = events[i] /\ i - 1 \in 0..n
    OBVIOUS
  <2>1. i # n + 1
    BY <1>3 DEF IsMsg
  <2>2. i \in 1..n /\ i - 1 \in 0..n
    BY <2>1, <1>0
  <2> QED BY <2>2, <1>3 DEF IsMsg
<1> SUFFICES ASSUME IsHistoryEnabled PROVE InfoInv'
  BY <1>4 DEF InfoInv
<1>8. ASSUME NEW i \in 1..(n + 1), IsMsg(i)'
      PROVE  LET x == events'[i].msg IN
             \/ x.kind = "store_info"
             \/ Known(x.store, history) \/ Coming(x.store, handling)
             \/ Queued(x.store, events', i - 1)
  <2>1. i \in 1..n /\ IsMsg(i) /\ events'[i] = events[i] /\ i - 1 \in 0..n
    BY <1>7, <1>8
  <2>2. LET x == events[i].msg IN
             \/ x.kind = "store_info"
             \/ Known(x.store, history) \/ Coming(x.store, handling)
             \/ Queued(x.store, events, i - 1)
    BY <2>1 DEF InfoInv, n
  <2> QED BY <2>1, <2>2, <1>5
<1>9. \A w \in Writers : writes[w] # 0 =>
          \/ Known(w, history) \/ Coming(w, handling)
          \/ Queued(w, events', n + 1) \/ Coming(w, pending[w])
  BY <1>6 DEF InfoInv, n
<1>10. handling # <<>> =>
              Head(handling).kind = "store_info" \/ Known(Head(handling).store, history)
  BY DEF InfoInv
<1>11. Len(events') = n + 1
  BY <1>3
<1> QED BY <1>2, <1>8, <1>9, <1>10, <1>11 DEF InfoInv

-----------------------------------------------------------------------------
(* The history and the channel *)

\* A queue that messages are popped from and to which one may be added.
LEMMA QueueStep ==
    ASSUME NEW q \in Seq(Msg), NEW r, Remains(r, q), NEW m \in Msg,
           Distinct(q), m \notin ToSet(q)
    PROVE  /\ Distinct(r) /\ ToSet(r) \subseteq ToSet(q)
           /\ Distinct(Append(r, m)) /\ ToSet(Append(r, m)) = ToSet(r) \cup {m}
<1>1. r \in Seq(Msg) /\ ToSet(r) \subseteq ToSet(q) /\ Distinct(r)
  BY RemainsFacts
<1>2. ToSet(Append(r, m)) = ToSet(r) \cup {m} /\ Distinct(Append(r, m))
  BY <1>1, AppendFacts
<1> QED BY <1>1, <1>2

\* Collecting garbage and adding a message keep the history in shape.
LEMMA HistoryHandle ==
    ASSUME TypeInv, OrderInv, InfoInv, HistoryInv, HandleMsg
    PROVE  HistoryInv'
<1> DEFINE m == Head(handling)
<1>1. /\ m \in Msg /\ m \notin ToSet(arrived) /\ handling # <<>> /\ options' = options
      /\ arrived' = Append(arrived, m) /\ Remember(m)
  BY HandleFacts, HandlingIsNew
<1>2. ToSet(arrived') = ToSet(arrived) \cup {m}
  BY <1>1, AppendFacts DEF TypeInv
<1>3. IsHistoryEnabled' <=> IsHistoryEnabled
  BY <1>1 DEF IsHistoryEnabled
<1>4. IsHistoryEnabled => m.kind = "store_info" \/ Known(m.store, history)
  BY <1>1 DEF InfoInv
<1>5. IsHistoryEnabled => \A w : Known(w, history) \/ Coming(w, handling) => Known(w, history')
  BY KnownGrows
<1>6. m.kind = "store_info" => Coming(m.store, handling)
  BY <1>1 DEF Coming, Info
<1> HIDE DEF m
<1>7. CASE ~IsHistoryEnabled
  <2>1. history' = history /\ options.limited
    BY <1>1, <1>7, RememberFacts DEF IsHistoryEnabled
  <2>2. Held(history) \subseteq ToSet(arrived')
    BY <1>2 DEF HistoryInv
  <2> QED BY <1>1, <1>3, <1>7, <2>1, <2>2 DEF HistoryInv
<1>8. CASE IsHistoryEnabled
  <2>h. PICK g : g = Collected
    OBVIOUS
  <2>1. /\ g \in Buffer /\ g.persistent = history.persistent
        /\ Remains(g.static, history.static) /\ Remains(g.disposable, history.disposable)
        /\ ~options.limited => g = history
        /\ history' = AddMsg(g, m)
    BY <1>1, <1>8, <2>h, RememberFacts
  <2>2. /\ history'.persistent =
             IF m.kind = "store_info" THEN Append(g.persistent, m) ELSE g.persistent
        /\ history'.static = IF m.kind = "static" THEN Append(g.static, m) ELSE g.static
        /\ history'.disposable =
             IF m.kind = "temporal" THEN Append(g.disposable, m) ELSE g.disposable
    BY <1>1, <2>1, AddFacts
  <2>3. /\ history.persistent \in Seq(Msg) /\ history.static \in Seq(Msg)
        /\ history.disposable \in Seq(Msg) /\ history \in Buffer
    BY DEF TypeInv, Buffer
  <2>4. Remains(g.persistent, history.persistent)
    BY <2>1, <2>3, RemainsAll
  <2>5. /\ m \notin ToSet(history.persistent) /\ m \notin ToSet(history.static)
        /\ m \notin ToSet(history.disposable)
        /\ Distinct(history.persistent) /\ Distinct(history.static)
        /\ Distinct(history.disposable)
    BY <1>1 DEF HistoryInv, Held
  <2>6. /\ Distinct(history'.persistent)
        /\ ToSet(history'.persistent) \subseteq ToSet(history.persistent) \cup {m}
        /\ m.kind = "store_info" => ToSet(history'.persistent) = ToSet(g.persistent) \cup {m}
    <3>1. /\ Distinct(g.persistent) /\ ToSet(g.persistent) \subseteq ToSet(history.persistent)
          /\ Distinct(Append(g.persistent, m))
          /\ ToSet(Append(g.persistent, m)) = ToSet(g.persistent) \cup {m}
      BY <1>1, <2>4, <2>3, <2>5, QueueStep
    <3> QED BY <2>2, <3>1
  <2>7. /\ Distinct(history'.static)
        /\ ToSet(history'.static) \subseteq ToSet(history.static) \cup {m}
        /\ m.kind = "static" => ToSet(history'.static) = ToSet(g.static) \cup {m}
    <3>1. /\ Distinct(g.static) /\ ToSet(g.static) \subseteq ToSet(history.static)
          /\ Distinct(Append(g.static, m))
          /\ ToSet(Append(g.static, m)) = ToSet(g.static) \cup {m}
      BY <1>1, <2>1, <2>3, <2>5, QueueStep
    <3> QED BY <2>2, <3>1
  <2>8. /\ Distinct(history'.disposable)
        /\ ToSet(history'.disposable) \subseteq ToSet(history.disposable) \cup {m}
        /\ m.kind = "temporal" => ToSet(history'.disposable) = ToSet(g.disposable) \cup {m}
    <3>1. /\ Distinct(g.disposable) /\ ToSet(g.disposable) \subseteq ToSet(history.disposable)
          /\ Distinct(Append(g.disposable, m))
          /\ ToSet(Append(g.disposable, m)) = ToSet(g.disposable) \cup {m}
      BY <1>1, <2>1, <2>3, <2>5, QueueStep
    <3> QED BY <2>2, <3>1
  <2>9. \A x \in ToSet(history'.persistent) : x.kind = "store_info"
    <3>1. CASE m.kind = "store_info"
      BY <2>6, <3>1 DEF HistoryInv
    <3>2. CASE m.kind # "store_info"
      BY <2>1, <2>2, <3>2 DEF HistoryInv
    <3> QED BY <3>1, <3>2
  <2>10. \A x \in ToSet(history'.static) : x.kind = "static"
    <3>1. CASE m.kind = "static"
      BY <2>7, <3>1 DEF HistoryInv
    <3>2. CASE m.kind # "static"
      <4>1. ToSet(history'.static) \subseteq ToSet(history.static)
        BY <2>1, <2>2, <2>3, <3>2, RemainsFacts
      <4> QED BY <4>1 DEF HistoryInv
    <3> QED BY <3>1, <3>2
  <2>11. \A x \in ToSet(history'.disposable) : x.kind = "temporal"
    <3>1. CASE m.kind = "temporal"
      BY <2>8, <3>1 DEF HistoryInv
    <3>2. CASE m.kind # "temporal"
      <4>1. ToSet(history'.disposable) \subseteq ToSet(history.disposable)
        BY <2>1, <2>2, <2>3, <3>2, RemainsFacts
      <4> QED BY <4>1 DEF HistoryInv
    <3> QED BY <3>1, <3>2
  <2>12. Held(history') \subseteq Held(history) \cup {m}
    BY <2>6, <2>7, <2>8 DEF Held
  <2>13. Held(history') \subseteq ToSet(arrived')
    BY <2>12, <1>2 DEF HistoryInv
  <2>14. ~options.limited => ToSet(arrived') \subseteq Held(history')
    <3> SUFFICES ASSUME ~options.limited PROVE ToSet(arrived') \subseteq Held(history')
      OBVIOUS
    <3>1. g = history /\ ToSet(arrived) \subseteq Held(history)
      BY <2>1 DEF HistoryInv
    <3>2. m.kind \in {"store_info", "static", "temporal"}
      BY <1>1 DEF Msg
    <3>3. /\ ToSet(history.persistent) \subseteq ToSet(history'.persistent)
          /\ m.kind = "store_info" => m \in ToSet(history'.persistent)
      BY <2>2, <2>6, <3>1
    <3>4. /\ ToSet(history.static) \subseteq ToSet(history'.static)
          /\ m.kind = "static" => m \in ToSet(history'.static)
      BY <2>2, <2>7, <3>1
    <3>5. /\ ToSet(history.disposable) \subseteq ToSet(history'.disposable)
          /\ m.kind = "temporal" => m \in ToSet(history'.disposable)
      BY <2>2, <2>8, <3>1
    <3>6. Held(history) \cup {m} \subseteq Held(history')
      BY <3>2, <3>3, <3>4, <3>5 DEF Held
    <3> QED BY <1>2, <3>1, <3>6
  <2>15. \A x \in Held(history') : Known(x.store, history')
    <3>1. Known(m.store, history')
      BY <1>4, <1>5, <1>6, <1>8
    <3>2. \A x \in Held(history) : Known(x.store, history')
      BY <1>5, <1>8 DEF HistoryInv
    <3> QED BY <2>12, <3>1, <3>2
  <2> QED BY <1>1, <1>3, <1>8, <2>6, <2>7, <2>8, <2>9, <2>10, <2>11, <2>13, <2>14, <2>15
          DEF HistoryInv
<1> QED BY <1>7, <1>8

\* The collector leaves no more than the limit, or nothing that it could pop;
\* the message comes on top.
LEMMA BoundHandle ==
    ASSUME TypeInv, HistoryInv, HandleMsg
    PROVE  HistoryBound'
<1> DEFINE m == Head(handling)
<1>1. /\ m \in Msg /\ options' = options /\ arrived' = Append(arrived, m) /\ Remember(m)
  BY HandleFacts
<1> HIDE DEF m
<1>2. Last(arrived') = m
  <2>1. arrived \in Seq(Msg)
    BY DEF TypeInv
  <2>2. Len(arrived) \in Nat /\ Len(arrived') = Len(arrived) + 1 /\ arrived'[Len(arrived) + 1] = m
    BY <1>1, <2>1, AppendProperties, LenProperties
  <2> QED BY <2>2 DEF Last
<1>3. Size[m.kind] \in Nat /\ options.limit \in Nat
  BY <1>1, SizeType, ProxyAssumption DEF ProxyAssumption, TypeInv
<1> DEFINE d(h) == Bytes(h.disposable)
           s(h) == Bytes(h.static)
           p(h) == Bytes(h.persistent)
<1>4. \A h \in Buffer : d(h) \in Nat /\ s(h) \in Nat /\ p(h) \in Nat
  <2> SUFFICES ASSUME NEW h \in Buffer PROVE d(h) \in Nat /\ s(h) \in Nat /\ p(h) \in Nat
    OBVIOUS
  <2>1. h.disposable \in Seq(Msg) /\ h.static \in Seq(Msg) /\ h.persistent \in Seq(Msg)
    BY DEF Buffer
  <2> QED BY <2>1, BytesIsSizeSum
<1>5. \A h : SizeBytes(h) = d(h) + s(h) + p(h)
  BY DEF SizeBytes
<1> SUFFICES ASSUME options.limited
             PROVE  \/ SizeBytes(history') <= options.limit + Size[m.kind]
                    \/ d(history') + s(history') <= Size[m.kind]
  BY <1>1, <1>2, <1>5 DEF HistoryBound
<1>6. CASE ~IsHistoryEnabled
  <2>1. history' = history /\ history.static = <<>> /\ history.disposable = <<>>
    BY <1>1, <1>6, RememberFacts DEF HistoryInv
  <2>2. d(history') = 0 /\ s(history') = 0
    BY <2>1, BytesEmpty
  <2> HIDE DEF d, s
  <2> QED BY <2>2, <1>3
<1>7. CASE IsHistoryEnabled
  <2>h. PICK g : g = Gc(history)
    OBVIOUS
  <2>1. /\ g \in Buffer /\ history' = AddMsg(g, m) /\ history' \in Buffer
        /\ SizeBytes(g) <= options.limit \/ (g.disposable = <<>> /\ g.static = <<>>)
    BY <1>1, <1>7, <2>h, RememberFacts, GcFacts DEF Collected, TypeInv
  <2>2. /\ history'.persistent =
             IF m.kind = "store_info" THEN Append(g.persistent, m) ELSE g.persistent
        /\ history'.static = IF m.kind = "static" THEN Append(g.static, m) ELSE g.static
        /\ history'.disposable =
             IF m.kind = "temporal" THEN Append(g.disposable, m) ELSE g.disposable
    BY <1>1, <2>1, AddFacts
  <2>3. g.disposable \in Seq(Msg) /\ g.static \in Seq(Msg) /\ g.persistent \in Seq(Msg)
    BY <2>1 DEF Buffer
  <2>4. /\ Bytes(Append(g.persistent, m)) = Bytes(g.persistent) + Size[m.kind]
        /\ Bytes(Append(g.static, m)) = Bytes(g.static) + Size[m.kind]
        /\ Bytes(Append(g.disposable, m)) = Bytes(g.disposable) + Size[m.kind]
    BY <1>1, <2>3, BytesAppend
  <2>5. /\ p(history') = IF m.kind = "store_info" THEN p(g) + Size[m.kind] ELSE p(g)
        /\ s(history') = IF m.kind = "static" THEN s(g) + Size[m.kind] ELSE s(g)
        /\ d(history') = IF m.kind = "temporal" THEN d(g) + Size[m.kind] ELSE d(g)
    BY <2>2, <2>4
  <2>6. g.disposable = <<>> /\ g.static = <<>> => d(g) = 0 /\ s(g) = 0
    BY BytesEmpty
  <2>7. d(g) \in Nat /\ s(g) \in Nat /\ p(g) \in Nat
    BY <1>4, <2>1
  <2>8. SizeBytes(g) = d(g) + s(g) + p(g)
        /\ SizeBytes(history') = d(history') + s(history') + p(history')
    BY <1>5
  <2> HIDE DEF d, s, p
  <2>9. CASE SizeBytes(g) <= options.limit
    <3>1. d(history') + s(history') + p(history') <= d(g) + s(g) + p(g) + Size[m.kind]
      BY <1>3, <2>5, <2>7
    <3>2. d(g) + s(g) + p(g) <= options.limit
      BY <2>8, <2>9
    <3>3. d(history') + s(history') + p(history') <= options.limit + Size[m.kind]
      <4>1. d(history') \in Nat /\ s(history') \in Nat /\ p(history') \in Nat
        BY <1>3, <2>5, <2>7
      <4> QED BY <3>1, <3>2, <4>1, <1>3, <2>7
    <3> QED BY <3>3, <2>8
  <2>10. CASE g.disposable = <<>> /\ g.static = <<>>
    <3>1. d(g) = 0 /\ s(g) = 0
      BY <2>6, <2>10
    <3> QED BY <3>1, <2>5, <1>3
  <2> QED BY <2>1, <2>9, <2>10
<1> QED BY <1>6, <1>7

\* The channel gets a message it has not carried before.
LEMMA LogHandle ==
    ASSUME TypeInv, OrderInv, LogInv, HandleMsg
    PROVE  LogInv'
<1> DEFINE m == Head(handling)
<1>1. /\ m \in Msg /\ m \notin ToSet(arrived) /\ arrived' = Append(arrived, m)
      /\ log' = Append(log, m) \/ log' = log
  BY HandleFacts, HandlingIsNew
<1> HIDE DEF m
<1>2. log \in Seq(Msg) /\ arrived \in Seq(Msg)
  BY DEF TypeInv
<1>3. ToSet(arrived') = ToSet(arrived) \cup {m}
  BY <1>1, <1>2, AppendFacts
<1>4. m \notin ToSet(log) /\ Distinct(log) /\ ToSet(log) \subseteq ToSet(arrived)
  BY <1>1 DEF LogInv
<1>5. ToSet(Append(log, m)) = ToSet(log) \cup {m} /\ Distinct(Append(log, m))
  BY <1>1, <1>2, <1>4, AppendFacts
<1>6. Distinct(log') /\ ToSet(log') \subseteq ToSet(arrived')
  BY <1>1, <1>3, <1>4, <1>5
<1> QED BY <1>6 DEF LogInv

-----------------------------------------------------------------------------
(* The streams of the clients *)

\* A stream that a step leaves alone.
LEMMA StreamFrame ==
    ASSUME NEW c \in Clients, StreamInv(c), UNCHANGED <<options, log, history, arrived>>,
           cursor'[c] = cursor[c], since'[c] = since[c], retained'[c] = retained[c],
           got'[c] = got[c], replay'[c] = replay[c]
    PROVE  StreamInv(c)'
BY DEF StreamInv, Sent, Rest, Since

\* What is left of the channel.
LEMMA RestFacts ==
    ASSUME TypeInv, LogInv, NEW c \in Clients, StreamInv(c)
    PROVE  /\ Rest(c) \in Seq(Msg) /\ Since(c) \in Seq(Msg)
           /\ Distinct(Rest(c)) /\ got[c] \in Seq(Msg) /\ replay[c] \in Seq(Msg)
<1>1. /\ log \in Seq(Msg) /\ Distinct(log)
      /\ cursor[c] \in 1..(Len(log) + 1) /\ since[c] \in 1..(Len(log) + 1)
  BY DEF TypeInv, LogInv, StreamInv
<1>2. got[c] \in Seq(Msg) /\ replay[c] \in Seq(Msg)
  BY DEF TypeInv
<1> QED BY <1>1, <1>2, SuffixFacts DEF Rest, Since

\* A message that is published joins the rest of every stream.
LEMMA RestGrows ==
    ASSUME TypeInv, LogInv, NEW c \in Clients, StreamInv(c), NEW m \in Msg,
           log' = Append(log, m), cursor' = cursor, since' = since
    PROVE  /\ Rest(c)' = Append(Rest(c), m) /\ Since(c)' = Append(Since(c), m)
           /\ Len(log) \in Nat /\ Len(log') = Len(log) + 1
<1>1. /\ log \in Seq(Msg)
      /\ cursor[c] \in 1..(Len(log) + 1) /\ since[c] \in 1..(Len(log) + 1)
  BY DEF TypeInv, StreamInv
<1>2. Len(log) \in Nat /\ Len(log') = Len(log) + 1
  BY <1>1, AppendProperties, LenProperties
<1>3. /\ SubSeq(Append(log, m), cursor[c], Len(log) + 1) = Append(Rest(c), m)
      /\ SubSeq(Append(log, m), since[c], Len(log) + 1) = Append(Since(c), m)
  BY <1>1, SuffixSteps DEF Rest, Since
<1> QED BY <1>2, <1>3 DEF Rest, Since

\* The message that is handled joins every stream once.
LEMMA ClientHandle ==
    ASSUME TypeInv, OrderInv, HistoryInv, LogInv, ClientInv, HandleMsg
    PROVE  ClientInv'
<1> DEFINE m == Head(handling)
<1>1. /\ m \in Msg /\ m \notin ToSet(arrived) /\ arrived' = Append(arrived, m)
      /\ log' = Append(log, m) \/ \A c \in Clients : cursor[c] = 0
      /\ UNCHANGED <<options, cursor, client, replay, got, since, retained>>
      /\ Remember(m)
  BY HandleFacts, HandlingIsNew
<1>2. ToSet(history'.persistent) \subseteq ToSet(history.persistent) \cup {m}
  BY <1>1, KnownGrows, RememberFacts
<1> HIDE DEF m
<1>3. ToSet(arrived') = ToSet(arrived) \cup {m}
  BY <1>1, AppendFacts DEF TypeInv
<1>4. ASSUME NEW c \in Clients, client[c] = "streaming" PROVE StreamInv(c)'
  <2>1. StreamInv(c) /\ cursor[c] # 0
    BY <1>4 DEF ClientInv
  <2>2. log' = Append(log, m)
    BY <1>1, <2>1
  <2>3. /\ Rest(c) \in Seq(Msg) /\ Since(c) \in Seq(Msg)
        /\ Distinct(Rest(c)) /\ got[c] \in Seq(Msg) /\ replay[c] \in Seq(Msg)
    BY <2>1, RestFacts
  <2>4. /\ Rest(c)' = Append(Rest(c), m) /\ Since(c)' = Append(Since(c), m)
        /\ Len(log) \in Nat /\ Len(log') = Len(log) + 1
    BY <1>1, <2>1, <2>2, RestGrows
  <2>5. ToSet(Rest(c)') = ToSet(Rest(c)) \cup {m} /\ ToSet(Since(c)') = ToSet(Since(c)) \cup {m}
    BY <1>1, <2>3, <2>4, AppendFacts
  <2>6. cursor'[c] \in 1..(Len(log') + 1) /\ since'[c] \in 1..(Len(log') + 1)
    BY <1>1, <2>1, <2>4 DEF StreamInv
  <2>7. m \notin Sent(c)
    BY <1>1, <2>1 DEF StreamInv
  <2>8. Sent(c)' = Sent(c) \cup {m}
    BY <1>1, <2>5 DEF Sent
  <2>9. /\ ToSet(got[c]) \cap ToSet(Rest(c)') = {}
        /\ ToSet(replay[c]) \cap ToSet(Rest(c)') = {}
    BY <2>1, <2>5, <2>7 DEF StreamInv, Sent
  <2>10. Sent(c)' = ToSet(retained[c]) \cup ToSet(Since(c)')
    BY <2>1, <2>5, <2>8 DEF StreamInv
  <2>11. /\ Sent(c)' \subseteq ToSet(arrived')
         /\ ~options.limited => ToSet(arrived') \subseteq Sent(c)'
         /\ ToSet(history'.persistent) \subseteq Sent(c)'
    BY <1>2, <1>3, <2>1, <2>8 DEF StreamInv
  <2> QED BY <1>1, <2>1, <2>6, <2>9, <2>10, <2>11 DEF StreamInv
<1> QED BY <1>1, <1>4 DEF ClientInv

\* The history that a new client gets has no message twice.
LEMMA HistoryDistinct ==
    ASSUME TypeInv, HistoryInv
    PROVE  All(history) \in Seq(Msg) /\ ToSet(All(history)) = Held(history)
           /\ Distinct(All(history))
<1>1. history \in Buffer
  BY DEF TypeInv
<1>2. /\ Distinct(history.persistent) /\ Distinct(history.static) /\ Distinct(history.disposable)
      /\ ToSet(history.persistent) \cap ToSet(history.static) = {}
      /\ ToSet(history.persistent) \cap ToSet(history.disposable) = {}
      /\ ToSet(history.static) \cap ToSet(history.disposable) = {}
  BY DEF HistoryInv
<1> QED BY <1>1, <1>2, AllFacts

\* What the event loop does for a client that waits for it.
LEMMA NewClientFacts ==
    ASSUME TypeInv, LoopNewClient
    PROVE  LET c == Head(events).client IN
           /\ c \in Clients
           /\ UNCHANGED <<options, handling, history, log, writes, pending, got, arrived>>
           /\ \A d \in Clients \ {c} :
                 /\ client'[d] = client[d] /\ replay'[d] = replay[d]
                 /\ retained'[d] = retained[d] /\ since'[d] = since[d] /\ cursor'[d] = cursor[d]
           /\ \/ /\ client[c] = "requested" /\ client'[c] = "streaming"
                 /\ replay'[c] = All(history) /\ retained'[c] = All(history)
                 /\ since'[c] = Len(log) + 1 /\ cursor'[c] = Len(log) + 1
              \/ UNCHANGED <<client, replay, retained, since, cursor>>
<1> DEFINE c == Head(events).client
<1>1. c \in Clients
  BY EventFacts DEF LoopNewClient
<1>2. UNCHANGED <<options, handling, history, writes, pending, got, arrived>>
  BY DEF LoopNewClient
<1>3. CASE client[c] = "requested"
  <2>1. /\ client' = [client EXCEPT ![c] = "streaming"]
        /\ replay' = [replay EXCEPT ![c] = All(history)]
        /\ retained' = [retained EXCEPT ![c] = All(history)]
        /\ since' = [since EXCEPT ![c] = Len(log) + 1]
        /\ cursor' = [cursor EXCEPT ![c] = Len(log) + 1] /\ log' = log
    BY <1>3 DEF LoopNewClient, Channel!Subscribe
  <2> HIDE DEF c
  <2>2. /\ client \in [Clients -> {"absent", "requested", "streaming", "gone"}]
        /\ replay \in [Clients -> Seq(Msg)] /\ retained \in [Clients -> Seq(Msg)]
        /\ since \in [Clients -> Nat] /\ cursor \in [Clients -> Nat]
    BY DEF TypeInv
  <2>3. /\ client'[c] = "streaming"
        /\ replay'[c] = All(history) /\ retained'[c] = All(history)
        /\ since'[c] = Len(log) + 1 /\ cursor'[c] = Len(log) + 1
    BY <1>1, <2>1, <2>2
  <2>4. \A d \in Clients \ {c} :
                 /\ client'[d] = client[d] /\ replay'[d] = replay[d]
                 /\ retained'[d] = retained[d] /\ since'[d] = since[d] /\ cursor'[d] = cursor[d]
    BY <1>1, <2>1, <2>2
  <2> QED BY <1>1, <1>2, <1>3, <2>1, <2>3, <2>4 DEF c
<1>4. CASE client[c] # "requested"
  BY <1>1, <1>2, <1>4 DEF LoopNewClient
<1> QED BY <1>3, <1>4

\* A new client starts with the history, and with the channel from here on.
LEMMA ClientNew ==
    ASSUME TypeInv, HistoryInv, LogInv, ClientInv, LoopNewClient
    PROVE  ClientInv'
<1> DEFINE c == Head(events).client
<1>1. /\ c \in Clients
      /\ UNCHANGED <<options, history, log, got, arrived>>
      /\ \A d \in Clients \ {c} :
            /\ client'[d] = client[d] /\ replay'[d] = replay[d]
            /\ retained'[d] = retained[d] /\ since'[d] = since[d] /\ cursor'[d] = cursor[d]
      /\ \/ /\ client[c] = "requested" /\ client'[c] = "streaming"
            /\ replay'[c] = All(history) /\ retained'[c] = All(history)
            /\ since'[c] = Len(log) + 1 /\ cursor'[c] = Len(log) + 1
         \/ UNCHANGED <<client, replay, retained, since, cursor>>
  BY NewClientFacts
<1>c. PICK k : k = c
  OBVIOUS
<1> HIDE DEF c
<1>2. ASSUME NEW d \in Clients, client'[d] = client[d], replay'[d] = replay[d],
             retained'[d] = retained[d], since'[d] = since[d], cursor'[d] = cursor[d]
      PROVE  /\ cursor'[d] # 0 <=> client'[d] = "streaming"
             /\ client'[d] \in {"absent", "requested"} => got'[d] = <<>>
             /\ client'[d] = "streaming" => StreamInv(d)'
  <2>1. got'[d] = got[d]
    BY <1>1
  <2>2. client'[d] = "streaming" => StreamInv(d)'
    BY <1>1, <1>2, <2>1, StreamFrame DEF ClientInv
  <2> QED BY <1>2, <2>1, <2>2 DEF ClientInv
<1>3. CASE UNCHANGED <<client, replay, retained, since, cursor>>
  BY <1>2, <1>3 DEF ClientInv
<1>4. CASE /\ client[k] = "requested" /\ client'[k] = "streaming"
           /\ replay'[k] = All(history) /\ retained'[k] = All(history)
           /\ since'[k] = Len(log) + 1 /\ cursor'[k] = Len(log) + 1
  <2>0. k \in Clients /\ got'[k] = <<>>
    BY <1>c, <1>1, <1>4 DEF ClientInv
  <2>1. log \in Seq(Msg) /\ Len(log) \in Nat
    BY LenProperties DEF TypeInv
  <2>2. Len(log) + 1 \in 1..(Len(log) + 1)
    BY <2>1
  <2>3. Rest(k)' = <<>> /\ Since(k)' = <<>>
    <3>1. SubSeq(log, Len(log) + 1, Len(log)) = <<>>
      BY <2>1, <2>2, SuffixSteps
    <3> QED BY <3>1, <1>1, <1>4 DEF Rest, Since
  <2>4. All(history) \in Seq(Msg) /\ ToSet(All(history)) = Held(history) /\ Distinct(All(history))
    BY HistoryDistinct
  <2>5. Sent(k)' = Held(history)
    BY <1>4, <2>0, <2>3, <2>4, EmptyFacts DEF Sent
  <2>6. cursor'[k] \in 1..(Len(log') + 1) /\ since'[k] \in 1..(Len(log') + 1)
    BY <1>1, <1>4, <2>2
  <2>7. /\ Distinct(got'[k]) /\ Distinct(replay'[k])
        /\ ToSet(got'[k]) \cap ToSet(replay'[k]) = {}
        /\ ToSet(got'[k]) \cap ToSet(Rest(k)') = {}
        /\ ToSet(replay'[k]) \cap ToSet(Rest(k)') = {}
    BY <1>4, <2>0, <2>3, <2>4, EmptyFacts
  <2>8. Sent(k)' = ToSet(retained'[k]) \cup ToSet(Since(k)')
    BY <1>4, <2>3, <2>4, <2>5, EmptyFacts
  <2>9. /\ Sent(k)' \subseteq ToSet(arrived')
        /\ ~options'.limited => ToSet(arrived') \subseteq Sent(k)'
        /\ ToSet(history'.persistent) \subseteq Sent(k)'
    BY <1>1, <2>5 DEF HistoryInv, Held
  <2>10. StreamInv(k)'
    BY <2>6, <2>7, <2>8, <2>9 DEF StreamInv
  <2>11. /\ cursor'[k] # 0 <=> client'[k] = "streaming"
         /\ client'[k] \in {"absent", "requested"} => got'[k] = <<>>
         /\ client'[k] = "streaming" => StreamInv(k)'
    BY <1>4, <2>1, <2>10
  <2>12. \A d \in Clients \ {k} :
             /\ cursor'[d] # 0 <=> client'[d] = "streaming"
             /\ client'[d] \in {"absent", "requested"} => got'[d] = <<>>
             /\ client'[d] = "streaming" => StreamInv(d)'
    BY <1>c, <1>1, <1>2
  <2> QED BY <2>11, <2>12 DEF ClientInv
<1> QED BY <1>c, <1>1, <1>3, <1>4

\* What a step does not tell about the clients it is not about.
Alone(c) ==
    \A d \in Clients \ {c} :
        /\ client'[d] = client[d] /\ replay'[d] = replay[d] /\ got'[d] = got[d]
        /\ retained'[d] = retained[d] /\ since'[d] = since[d] /\ cursor'[d] = cursor[d]

\* So it is enough to look at the client that a step is about.
LEMMA ClientAlone ==
    ASSUME ClientInv, NEW c \in Clients, Alone(c), UNCHANGED <<options, log, history, arrived>>,
           cursor'[c] # 0 <=> client'[c] = "streaming",
           client'[c] \in {"absent", "requested"} => got'[c] = <<>>,
           client'[c] = "streaming" => StreamInv(c)'
    PROVE  ClientInv'
<1>1. ASSUME NEW d \in Clients \ {c}
      PROVE  /\ cursor'[d] # 0 <=> client'[d] = "streaming"
             /\ client'[d] \in {"absent", "requested"} => got'[d] = <<>>
             /\ client'[d] = "streaming" => StreamInv(d)'
  <2>1. /\ client'[d] = client[d] /\ replay'[d] = replay[d] /\ got'[d] = got[d]
        /\ retained'[d] = retained[d] /\ since'[d] = since[d] /\ cursor'[d] = cursor[d]
    BY DEF Alone
  <2>2. /\ cursor[d] # 0 <=> client[d] = "streaming"
        /\ client[d] \in {"absent", "requested"} => got[d] = <<>>
        /\ client[d] = "streaming" => StreamInv(d)
    BY DEF ClientInv
  <2>3. client[d] = "streaming" => StreamInv(d)'
    BY <2>1, <2>2, StreamFrame
  <2> QED BY <2>1, <2>2, <2>3
<1> QED BY <1>1 DEF ClientInv

\* What the steps of a client change.
LEMMA ClientSteps ==
    ASSUME TypeInv, NEW c \in Clients
    PROVE  /\ ConnectClient(c) =>
                 /\ client[c] = "absent" /\ client'[c] = "requested"
                 /\ Alone(c) /\ UNCHANGED <<options, log, history, arrived>>
                 /\ UNCHANGED <<replay, got, since, retained, cursor>>
           /\ ReplayNext(c) =>
                 /\ client[c] = "streaming" /\ replay[c] # <<>>
                 /\ got'[c] = Append(got[c], Head(replay[c])) /\ replay'[c] = Tail(replay[c])
                 /\ Alone(c) /\ UNCHANGED <<options, log, history, arrived>>
                 /\ UNCHANGED <<client, since, retained, cursor>>
           /\ LiveNext(c) =>
                 /\ client[c] = "streaming" /\ cursor[c] <= Len(log)
                 /\ ~options.newest_first => replay[c] = <<>>
                 /\ got'[c] = Append(got[c], log[cursor[c]]) /\ cursor'[c] = cursor[c] + 1
                 /\ Alone(c) /\ UNCHANGED <<options, log, history, arrived>>
                 /\ UNCHANGED <<client, replay, since, retained>>
           /\ Disconnect(c) =>
                 /\ client'[c] = "gone"
                 /\ client[c] = "streaming" => cursor'[c] = 0
                 /\ client[c] # "streaming" => cursor'[c] = cursor[c]
                 /\ Alone(c) /\ UNCHANGED <<options, log, history, arrived>>
                 /\ UNCHANGED <<replay, got, since, retained>>
<1>1. /\ client \in [Clients -> {"absent", "requested", "streaming", "gone"}]
      /\ replay \in [Clients -> Seq(Msg)] /\ got \in [Clients -> Seq(Msg)]
      /\ cursor \in [Clients -> Nat]
  BY DEF TypeInv
<1>2. ASSUME ConnectClient(c)
      PROVE  /\ client[c] = "absent" /\ client'[c] = "requested"
             /\ Alone(c) /\ UNCHANGED <<options, log, history, arrived>>
             /\ UNCHANGED <<replay, got, since, retained, cursor>>
  BY <1>1, <1>2 DEF ConnectClient, Alone
<1>3. ASSUME ReplayNext(c)
      PROVE  /\ client[c] = "streaming" /\ replay[c] # <<>>
             /\ got'[c] = Append(got[c], Head(replay[c])) /\ replay'[c] = Tail(replay[c])
             /\ Alone(c) /\ UNCHANGED <<options, log, history, arrived>>
             /\ UNCHANGED <<client, since, retained, cursor>>
  BY <1>1, <1>3 DEF ReplayNext, Alone
<1>4. ASSUME LiveNext(c)
      PROVE  /\ client[c] = "streaming" /\ cursor[c] <= Len(log)
             /\ ~options.newest_first => replay[c] = <<>>
             /\ got'[c] = Append(got[c], log[cursor[c]]) /\ cursor'[c] = cursor[c] + 1
             /\ Alone(c) /\ UNCHANGED <<options, log, history, arrived>>
             /\ UNCHANGED <<client, replay, since, retained>>
  BY <1>1, <1>4 DEF LiveNext, Channel!Read, Channel!CanRead, Alone
<1>5. ASSUME Disconnect(c)
      PROVE  /\ client'[c] = "gone"
             /\ client[c] = "streaming" => cursor'[c] = 0
             /\ client[c] # "streaming" => cursor'[c] = cursor[c]
             /\ Alone(c) /\ UNCHANGED <<options, log, history, arrived>>
             /\ UNCHANGED <<replay, got, since, retained>>
  BY <1>1, <1>5 DEF Disconnect, Channel!Unsubscribe, Alone
<1> QED BY <1>2, <1>3, <1>4, <1>5

\* The next message of the history.
LEMMA StreamReplay ==
    ASSUME TypeInv, LogInv, ClientInv, NEW c \in Clients, ReplayNext(c)
    PROVE  StreamInv(c)'
<1> DEFINE x == Head(replay[c])
<1>1. /\ client[c] = "streaming" /\ replay[c] # <<>>
      /\ got'[c] = Append(got[c], x) /\ replay'[c] = Tail(replay[c])
      /\ UNCHANGED <<options, log, history, arrived, client, since, retained, cursor>>
  BY ClientSteps
<1>2. StreamInv(c)
  BY <1>1 DEF ClientInv
<1>3. Rest(c)' = Rest(c) /\ Since(c)' = Since(c)
  BY <1>1 DEF Rest, Since
<1>4. got[c] \in Seq(Msg) /\ replay[c] \in Seq(Msg)
  BY DEF TypeInv
<1>5. /\ x \in Msg /\ ToSet(replay[c]) = ToSet(replay'[c]) \cup {x}
      /\ Distinct(replay'[c]) /\ x \notin ToSet(replay'[c])
  BY <1>1, <1>2, <1>4, TailFacts DEF StreamInv
<1> HIDE DEF x
<1>6. x \notin ToSet(got[c]) /\ x \notin ToSet(Rest(c))
  BY <1>2, <1>5 DEF StreamInv
<1>7. ToSet(got'[c]) = ToSet(got[c]) \cup {x} /\ Distinct(got'[c])
  BY <1>1, <1>2, <1>4, <1>5, <1>6, AppendFacts DEF StreamInv
<1>8. Sent(c)' = Sent(c)
  BY <1>3, <1>5, <1>7 DEF Sent
<1>9. /\ ToSet(got'[c]) \cap ToSet(replay'[c]) = {}
      /\ ToSet(got'[c]) \cap ToSet(Rest(c)) = {}
      /\ ToSet(replay'[c]) \cap ToSet(Rest(c)) = {}
  BY <1>2, <1>5, <1>6, <1>7 DEF StreamInv
<1> QED BY <1>1, <1>2, <1>3, <1>5, <1>7, <1>8, <1>9 DEF StreamInv

\* The next entry of the channel.
LEMMA LiveFacts ==
    ASSUME TypeInv, LogInv, ClientInv, NEW c \in Clients, LiveNext(c)
    PROVE  /\ Rest(c) \in Seq(Msg) /\ Rest(c) # <<>> /\ Distinct(Rest(c))
           /\ log[cursor[c]] = Head(Rest(c)) /\ Rest(c)' = Tail(Rest(c))
           /\ cursor'[c] \in 1..(Len(log) + 1)
<1>1. /\ client[c] = "streaming" /\ cursor[c] <= Len(log) /\ log' = log
      /\ cursor'[c] = cursor[c] + 1
  BY ClientSteps
<1>2. StreamInv(c)
  BY <1>1 DEF ClientInv
<1>3. log \in Seq(Msg) /\ cursor[c] \in 1..(Len(log) + 1) /\ Len(log) \in Nat
  BY <1>2, LenProperties DEF TypeInv, StreamInv
<1>4. Rest(c) \in Seq(Msg) /\ Distinct(Rest(c))
  BY <1>2, RestFacts
<1>5. /\ Rest(c) # <<>> /\ Head(Rest(c)) = log[cursor[c]]
      /\ Tail(Rest(c)) = SubSeq(log, cursor[c] + 1, Len(log))
  BY <1>1, <1>3, SuffixSteps DEF Rest
<1>6. cursor'[c] \in 1..(Len(log) + 1)
  BY <1>1, <1>3
<1>7. Rest(c)' = Tail(Rest(c))
  BY <1>1, <1>5 DEF Rest
<1> QED BY <1>4, <1>5, <1>6, <1>7

\* It moves from what is left of the channel to what was sent.
LEMMA StreamLive ==
    ASSUME TypeInv, LogInv, ClientInv, NEW c \in Clients, LiveNext(c)
    PROVE  StreamInv(c)'
<1> DEFINE x == log[cursor[c]]
<1>1. /\ client[c] = "streaming" /\ got'[c] = Append(got[c], x)
      /\ UNCHANGED <<options, log, history, arrived, client, replay, since, retained>>
  BY ClientSteps
<1>2. StreamInv(c)
  BY <1>1 DEF ClientInv
<1>3. Since(c)' = Since(c)
  BY <1>1 DEF Since
<1>4. got[c] \in Seq(Msg)
  BY DEF TypeInv
<1>5. /\ Rest(c) \in Seq(Msg) /\ Rest(c) # <<>> /\ Distinct(Rest(c))
      /\ x = Head(Rest(c)) /\ Rest(c)' = Tail(Rest(c)) /\ cursor'[c] \in 1..(Len(log) + 1)
  BY LiveFacts
<1> HIDE DEF x
<1>6. /\ x \in Msg /\ ToSet(Rest(c)) = ToSet(Rest(c)') \cup {x}
      /\ x \notin ToSet(Rest(c)')
  BY <1>5, TailFacts
<1>7. x \notin ToSet(got[c]) /\ x \notin ToSet(replay[c])
  BY <1>2, <1>6 DEF StreamInv
<1>8. ToSet(got'[c]) = ToSet(got[c]) \cup {x} /\ Distinct(got'[c])
  BY <1>1, <1>2, <1>4, <1>6, <1>7, AppendFacts DEF StreamInv
<1>9. Sent(c)' = Sent(c)
  BY <1>1, <1>6, <1>8 DEF Sent
<1>10. /\ ToSet(got'[c]) \cap ToSet(replay[c]) = {}
       /\ ToSet(got'[c]) \cap ToSet(Rest(c)') = {}
       /\ ToSet(replay[c]) \cap ToSet(Rest(c)') = {}
  BY <1>2, <1>6, <1>7, <1>8 DEF StreamInv
<1> QED BY <1>1, <1>2, <1>3, <1>5, <1>8, <1>9, <1>10 DEF StreamInv

\* The steps of a client keep the streams of all clients in shape.
LEMMA ClientStep ==
    ASSUME TypeInv, LogInv, ClientInv, NEW c \in Clients,
           ConnectClient(c) \/ ReplayNext(c) \/ LiveNext(c) \/ Disconnect(c)
    PROVE  ClientInv'
<1>1. /\ cursor[c] # 0 <=> client[c] = "streaming"
      /\ client[c] \in {"absent", "requested"} => got[c] = <<>>
      /\ client[c] = "streaming" => cursor[c] \in 1..(Len(log) + 1)
  BY DEF ClientInv, StreamInv
<1>2. CASE ConnectClient(c)
  <2>1. /\ client[c] = "absent" /\ client'[c] = "requested"
        /\ Alone(c) /\ UNCHANGED <<options, log, history, arrived>>
        /\ got'[c] = got[c] /\ cursor'[c] = cursor[c]
    BY <1>2, ClientSteps
  <2>2. /\ cursor'[c] # 0 <=> client'[c] = "streaming"
        /\ client'[c] \in {"absent", "requested"} => got'[c] = <<>>
        /\ client'[c] = "streaming" => StreamInv(c)'
    BY <1>1, <2>1
  <2> QED BY <2>1, <2>2, ClientAlone
<1>3. CASE ReplayNext(c)
  <2>1. /\ client[c] = "streaming" /\ client' = client /\ cursor' = cursor
        /\ Alone(c) /\ UNCHANGED <<options, log, history, arrived>>
    BY <1>3, ClientSteps
  <2>2. /\ cursor'[c] # 0 <=> client'[c] = "streaming"
        /\ client'[c] \in {"absent", "requested"} => got'[c] = <<>>
        /\ client'[c] = "streaming" => StreamInv(c)'
    BY <1>1, <1>3, <2>1, StreamReplay
  <2> QED BY <2>1, <2>2, ClientAlone
<1>4. CASE LiveNext(c)
  <2>1. /\ client[c] = "streaming" /\ client' = client
        /\ Alone(c) /\ UNCHANGED <<options, log, history, arrived>>
    BY <1>4, ClientSteps
  <2>2. cursor'[c] # 0
    <3>1. cursor'[c] \in 1..(Len(log) + 1) /\ log \in Seq(Msg)
      BY <1>4, LiveFacts DEF TypeInv
    <3> QED BY <3>1, LenProperties
  <2>3. /\ cursor'[c] # 0 <=> client'[c] = "streaming"
        /\ client'[c] \in {"absent", "requested"} => got'[c] = <<>>
        /\ client'[c] = "streaming" => StreamInv(c)'
    BY <1>4, <2>1, <2>2, StreamLive
  <2> QED BY <2>1, <2>3, ClientAlone
<1>5. CASE Disconnect(c)
  <2>1. /\ client'[c] = "gone"
        /\ client[c] = "streaming" => cursor'[c] = 0
        /\ client[c] # "streaming" => cursor'[c] = cursor[c]
        /\ Alone(c) /\ UNCHANGED <<options, log, history, arrived>>
    BY <1>5, ClientSteps
  <2>2. /\ cursor'[c] # 0 <=> client'[c] = "streaming"
        /\ client'[c] \in {"absent", "requested"} => got'[c] = <<>>
        /\ client'[c] = "streaming" => StreamInv(c)'
    BY <1>1, <2>1
  <2> QED BY <2>1, <2>2, ClientAlone
<1> QED BY <1>2, <1>3, <1>4, <1>5

-----------------------------------------------------------------------------
(* The SetStoreInfo of a recording reaches a client before its data *)

\* A message may follow the SetStoreInfo of its store.
LEMMA CoveredAppend ==
    ASSUME NEW s \in Seq(Msg), Covered(s), NEW m \in Msg,
           m.kind = "store_info" \/ \E x \in ToSet(s) : Info(x, m.store)
    PROVE  Covered(Append(s, m))
<1> DEFINE t == Append(s, m)
           n == Len(s)
<1>1. n \in Nat /\ Len(t) = n + 1 /\ t[n + 1] = m /\ \A i \in 1..n : t[i] = s[i]
  BY AppendProperties, LenProperties
<1>2. \E j \in 1..(n + 1) : Info(t[j], m.store)
  <2>1. CASE m.kind = "store_info"
    <3>1. n + 1 \in 1..(n + 1)
      BY <1>1
    <3>2. Info(m, m.store)
      BY <2>1 DEF Info
    <3> QED BY <1>1, <3>1, <3>2
  <2>2. CASE \E x \in ToSet(s) : Info(x, m.store)
    <3>1. PICK j \in 1..n : Info(s[j], m.store)
      BY <2>2, ToSetPlaces
    <3>2. j \in 1..(n + 1) /\ t[j] = s[j]
      BY <1>1
    <3> QED BY <3>1, <3>2
  <2> QED BY <2>1, <2>2
<1> HIDE DEF t
<1>3. ASSUME NEW i \in 1..(n + 1) PROVE \E j \in 1..i : Info(t[j], t[i].store)
  <2>1. CASE i = n + 1
    BY <1>1, <1>2, <2>1
  <2>2. CASE i \in 1..n
    <3>1. PICK j \in 1..i : Info(s[j], s[i].store)
      BY <2>2 DEF Covered
    <3>2. j \in 1..n
      BY <1>1, <2>2
    <3> QED BY <1>1, <2>2, <3>1, <3>2
  <2>3. i \in 1..n \/ i = n + 1
    BY <1>1
  <2> QED BY <2>1, <2>2, <2>3
<1> QED BY <1>1, <1>3 DEF Covered, t

\* What a sequence starts with is covered if the sequence is.
LEMMA CoveredPrefix ==
    ASSUME NEW s \in Seq(Msg), NEW t \in Seq(Msg), Covered(s \o t)
    PROVE  Covered(s)
<1> DEFINE u == s \o t
           n == Len(s)
<1>1. n \in Nat /\ Len(t) \in Nat /\ Len(u) = n + Len(t) /\ \A i \in 1..n : u[i] = s[i]
  <2>1. /\ n \in Nat /\ Len(t) \in Nat /\ Len(u) = n + Len(t)
        /\ \A i \in 1..Len(u) : u[i] = IF i <= n THEN s[i] ELSE t[i - n]
    BY ConcatProperties, LenProperties
  <2> HIDE DEF u
  <2>2. \A i \in 1..n : i \in 1..Len(u) /\ i <= n
    BY <2>1
  <2> QED BY <2>1, <2>2
<1>2. Covered(u)
  OBVIOUS
<1> HIDE DEF u
<1>3. ASSUME NEW i \in 1..n PROVE \E j \in 1..i : Info(s[j], s[i].store)
  <2>1. i \in 1..Len(u)
    BY <1>1
  <2>2. PICK j \in 1..i : Info(u[j], u[i].store)
    BY <1>2, <2>1 DEF Covered
  <2>3. j \in 1..n
    BY <1>1
  <2> QED BY <1>1, <2>2, <2>3
<1> QED BY <1>3 DEF Covered

\* SetStoreInfos first, and then messages of the stores they are about.
LEMMA CoveredHistory ==
    ASSUME NEW p \in Seq(Msg), NEW t \in Seq(Msg),
           \A x \in ToSet(p) : x.kind = "store_info",
           \A x \in ToSet(t) : \E y \in ToSet(p) : Info(y, x.store)
    PROVE  Covered(p \o t)
<1> DEFINE u == p \o t
           n == Len(p)
<1>1. /\ n \in Nat /\ Len(t) \in Nat /\ Len(u) = n + Len(t)
      /\ \A i \in 1..Len(u) : u[i] = IF i <= n THEN p[i] ELSE t[i - n]
  BY ConcatProperties, LenProperties
<1> HIDE DEF u
<1>2. ASSUME NEW i \in 1..Len(u) PROVE \E j \in 1..i : Info(u[j], u[i].store)
  <2>1. CASE i <= n
    <3>1. u[i] = p[i] /\ i \in 1..n /\ i \in 1..i
      BY <1>1, <2>1
    <3>2. p[i] \in ToSet(p)
      BY <3>1, ToSetPlaces
    <3>3. Info(u[i], u[i].store)
      BY <3>1, <3>2 DEF Info
    <3> QED BY <3>1, <3>3
  <2>2. CASE ~(i <= n)
    <3>1. u[i] = t[i - n] /\ i - n \in 1..Len(t)
      BY <1>1, <2>2
    <3>2. t[i - n] \in ToSet(t)
      BY <3>1, ToSetPlaces
    <3>3. PICK y \in ToSet(p) : Info(y, u[i].store)
      BY <3>1, <3>2
    <3>4. PICK j \in 1..n : p[j] = y
      BY ToSetPlaces
    <3>5. j \in 1..i /\ u[j] = p[j]
      BY <1>1, <2>2
    <3> QED BY <3>3, <3>4, <3>5
  <2> QED BY <2>1, <2>2
<1> QED BY <1>2 DEF Covered, u

\* A stream, in one piece.
LEMMA WholeFacts ==
    ASSUME TypeInv, LogInv, NEW c \in Clients, StreamInv(c)
    PROVE  /\ got[c] \o replay[c] \in Seq(Msg)
           /\ Whole(c) \in Seq(Msg) /\ ToSet(Whole(c)) = Sent(c) /\ Distinct(Whole(c))
<1>1. /\ Rest(c) \in Seq(Msg) /\ Distinct(Rest(c))
      /\ got[c] \in Seq(Msg) /\ replay[c] \in Seq(Msg)
  BY RestFacts
<1> DEFINE g == got[c] \o replay[c]
<1>2. /\ g \in Seq(Msg) /\ ToSet(g) = ToSet(got[c]) \cup ToSet(replay[c]) /\ Distinct(g)
  BY <1>1, ConcatFacts DEF StreamInv
<1> HIDE DEF g
<1>3. ToSet(g) \cap ToSet(Rest(c)) = {}
  BY <1>2 DEF StreamInv
<1>4. g \o Rest(c) \in Seq(Msg) /\ ToSet(g \o Rest(c)) = ToSet(g) \cup ToSet(Rest(c))
      /\ Distinct(g \o Rest(c))
  BY <1>1, <1>2, <1>3, ConcatFacts
<1>5. Whole(c) = g \o Rest(c)
  BY DEF Whole, g
<1>6. ToSet(Whole(c)) = Sent(c)
  BY <1>2, <1>4, <1>5 DEF Sent
<1> QED BY <1>2, <1>4, <1>5, <1>6 DEF g

\* The message that is handled joins the streams, behind its SetStoreInfo.
LEMMA CoveredHandle ==
    ASSUME TypeInv, InfoInv, LogInv, ClientInv, CoveredInv, HandleMsg
    PROVE  CoveredInv'
<1> DEFINE m == Head(handling)
<1>1. /\ m \in Msg /\ handling # <<>>
      /\ log' = Append(log, m) \/ \A c \in Clients : cursor[c] = 0
      /\ UNCHANGED <<options, cursor, client, replay, got, since>>
  BY HandleFacts
<1>2. IsHistoryEnabled' <=> IsHistoryEnabled
  BY <1>1 DEF IsHistoryEnabled
<1> SUFFICES ASSUME ~options.newest_first, IsHistoryEnabled, NEW c \in Clients
             PROVE  Covered(got[c]) /\ (client[c] = "streaming" => Covered(Whole(c)'))
  BY <1>1, <1>2 DEF CoveredInv, Covered, Info
<1>3. m.kind = "store_info" \/ Known(m.store, history)
  BY <1>1 DEF InfoInv
<1> HIDE DEF m
<1>4. Covered(got[c]) /\ (client[c] = "streaming" => Covered(Whole(c)))
  BY DEF CoveredInv
<1>5. ASSUME client[c] = "streaming" PROVE Covered(Whole(c)')
  <2>1. StreamInv(c) /\ cursor[c] # 0
    BY <1>5 DEF ClientInv
  <2>2. log' = Append(log, m)
    BY <1>1, <2>1
  <2>3. Rest(c)' = Append(Rest(c), m)
    BY <1>1, <2>1, <2>2, RestGrows
  <2>4. Rest(c) \in Seq(Msg) /\ got[c] \o replay[c] \in Seq(Msg)
        /\ Whole(c) \in Seq(Msg) /\ ToSet(Whole(c)) = Sent(c)
    BY <2>1, RestFacts, WholeFacts
  <2>5. Whole(c)' = Append(Whole(c), m)
    <3>1. \A s, t \in Seq(Msg) : s \o Append(t, m) = Append(s \o t, m)
      BY <1>1
    <3> QED BY <1>1, <2>3, <2>4, <3>1 DEF Whole
  <2>6. m.kind = "store_info" \/ \E x \in ToSet(Whole(c)) : Info(x, m.store)
    BY <1>3, <2>1, <2>4 DEF Known, StreamInv
  <2>7. Covered(Append(Whole(c), m))
    BY <1>1, <1>4, <1>5, <2>4, <2>6, CoveredAppend
  <2> QED BY <2>5, <2>7
<1> QED BY <1>4, <1>5

\* The history that a new client gets starts with the SetStoreInfos.
LEMMA CoveredNew ==
    ASSUME TypeInv, HistoryInv, ClientInv, CoveredInv, LoopNewClient
    PROVE  CoveredInv'
<1>0. PICK c : c = Head(events).client
  OBVIOUS
<1>1. /\ c \in Clients /\ UNCHANGED <<options, log, got>>
      /\ \A d \in Clients \ {c} :
            client'[d] = client[d] /\ replay'[d] = replay[d] /\ cursor'[d] = cursor[d]
      /\ \/ /\ client[c] = "requested" /\ replay'[c] = All(history)
            /\ cursor'[c] = Len(log) + 1
         \/ UNCHANGED <<client, replay, cursor>>
  BY <1>0, NewClientFacts
<1>2. IsHistoryEnabled' <=> IsHistoryEnabled
  BY <1>1 DEF IsHistoryEnabled
<1> SUFFICES ASSUME ~options.newest_first, IsHistoryEnabled, NEW d \in Clients
             PROVE  Covered(got[d]) /\ (client'[d] = "streaming" => Covered(Whole(d)'))
  BY <1>1, <1>2 DEF CoveredInv, Covered, Info
<1>3. Covered(got[d]) /\ (client[d] = "streaming" => Covered(Whole(d)))
  BY DEF CoveredInv
<1>4. CASE client'[d] = client[d] /\ replay'[d] = replay[d] /\ cursor'[d] = cursor[d]
  <2>1. Whole(d)' = Whole(d)
    BY <1>1, <1>4 DEF Whole, Rest
  <2> QED BY <1>3, <1>4, <2>1
<1>5. CASE d = c /\ client[c] = "requested" /\ replay'[c] = All(history)
           /\ cursor'[c] = Len(log) + 1
  <2>1. got'[d] = <<>> /\ replay'[d] = All(history)
    BY <1>1, <1>5 DEF ClientInv
  <2>2. log \in Seq(Msg) /\ Len(log) \in Nat
    BY LenProperties DEF TypeInv
  <2>3. Len(log) + 1 \in 1..(Len(log) + 1)
    BY <2>2
  <2>4. Rest(d)' = <<>>
    <3>1. SubSeq(log, Len(log) + 1, Len(log)) = <<>>
      BY <2>2, <2>3, SuffixSteps
    <3> QED BY <3>1, <1>1, <1>5 DEF Rest
  <2>5. All(history) \in Seq(Msg)
    BY HistoryDistinct
  <2>6. Whole(d)' = All(history)
    <3>1. \A s \in Seq(Msg) : (<<>> \o s) \o <<>> = s
      <4>1. \A s \in Seq(Msg) : <<>> \o s = s /\ s \o <<>> = s
        BY ConcatEmptySeq
      <4> QED BY <4>1
    <3> QED BY <2>1, <2>4, <2>5, <3>1 DEF Whole
  <2> DEFINE p == history.persistent
             t == history.static \o history.disposable
  <2>7. /\ p \in Seq(Msg) /\ history.static \in Seq(Msg) /\ history.disposable \in Seq(Msg)
    BY DEF TypeInv, Buffer
  <2>8. t \in Seq(Msg) /\ ToSet(t) = ToSet(history.static) \cup ToSet(history.disposable)
    BY <2>7, ConcatFacts
  <2>9. All(history) = p \o t
    <3>1. All(history) = (p \o history.static) \o history.disposable
      BY DEF All
    <3>2. \A u, v, w \in Seq(Msg) : (u \o v) \o w = u \o (v \o w)
      OBVIOUS
    <3> QED BY <2>7, <3>1, <3>2
  <2>10. /\ \A x \in ToSet(p) : x.kind = "store_info"
         /\ \A x \in ToSet(t) : \E y \in ToSet(p) : Info(y, x.store)
    BY <2>8 DEF HistoryInv, Held, Known
  <2> HIDE DEF p, t
  <2>11. Covered(p \o t)
    BY <2>7, <2>8, <2>10, CoveredHistory
  <2> QED BY <1>3, <2>6, <2>9, <2>11
<1> QED BY <1>1, <1>4, <1>5

\* A client is sent what comes first in its stream.
LEMMA WholeStays ==
    ASSUME TypeInv, LogInv, ClientInv, NEW c \in Clients, ~options.newest_first,
           ReplayNext(c) \/ LiveNext(c)
    PROVE  Whole(c)' = Whole(c) /\ client[c] = "streaming" /\ client'[c] = "streaming"
<1>1. client[c] = "streaming" /\ client'[c] = "streaming"
  BY ClientSteps
<1>2. StreamInv(c)
  BY <1>1 DEF ClientInv
<1>3. got[c] \in Seq(Msg) /\ replay[c] \in Seq(Msg) /\ Rest(c) \in Seq(Msg)
  BY <1>2, RestFacts
<1>4. CASE ReplayNext(c)
  <2>1. /\ replay[c] # <<>> /\ got'[c] = Append(got[c], Head(replay[c]))
        /\ replay'[c] = Tail(replay[c]) /\ log' = log /\ cursor' = cursor
    BY <1>4, ClientSteps
  <2>2. got'[c] \o replay'[c] = got[c] \o replay[c]
    BY <1>3, <2>1, MoveFirst
  <2>3. Rest(c)' = Rest(c)
    BY <2>1 DEF Rest
  <2> QED BY <1>1, <2>2, <2>3 DEF Whole
<1>5. CASE LiveNext(c)
  <2>1. /\ replay[c] = <<>> /\ got'[c] = Append(got[c], log[cursor[c]]) /\ replay'[c] = <<>>
    BY <1>5, ClientSteps
  <2>2. Rest(c) # <<>> /\ log[cursor[c]] = Head(Rest(c)) /\ Rest(c)' = Tail(Rest(c))
    BY <1>5, LiveFacts
  <2>3. \A s \in Seq(Msg) : s \o <<>> = s
    BY ConcatEmptySeq
  <2>4. got'[c] \in Seq(Msg)
    BY <1>5, ClientType DEF TypeInv
  <2>5. Whole(c)' = got'[c] \o Rest(c)' /\ Whole(c) = got[c] \o Rest(c)
    BY <1>3, <2>1, <2>3, <2>4 DEF Whole
  <2>6. Append(got[c], Head(Rest(c))) \o Tail(Rest(c)) = got[c] \o Rest(c)
    BY <1>3, <2>2, MoveFirst
  <2> QED BY <1>1, <2>1, <2>2, <2>5, <2>6
<1> QED BY <1>4, <1>5

\* The steps of a client keep its stream covered.
LEMMA CoveredStep ==
    ASSUME TypeInv, LogInv, ClientInv, CoveredInv, NEW c \in Clients,
           ConnectClient(c) \/ ReplayNext(c) \/ LiveNext(c) \/ Disconnect(c)
    PROVE  CoveredInv'
<1>1. Alone(c) /\ UNCHANGED <<options, log>>
  BY ClientSteps
<1>2. IsHistoryEnabled' <=> IsHistoryEnabled
  BY <1>1 DEF IsHistoryEnabled
<1> SUFFICES ASSUME ~options.newest_first, IsHistoryEnabled, NEW d \in Clients
             PROVE  Covered(got'[d]) /\ (client'[d] = "streaming" => Covered(Whole(d)'))
  BY <1>1, <1>2 DEF CoveredInv, Covered, Info
<1>3. Covered(got[d]) /\ (client[d] = "streaming" => Covered(Whole(d)))
  BY DEF CoveredInv
<1>4. CASE d # c
  <2>1. /\ got'[d] = got[d] /\ client'[d] = client[d] /\ replay'[d] = replay[d]
        /\ cursor'[d] = cursor[d]
    BY <1>1, <1>4 DEF Alone
  <2>2. Whole(d)' = Whole(d)
    BY <1>1, <2>1 DEF Whole, Rest
  <2> QED BY <1>3, <2>1, <2>2
<1>5. CASE d = c /\ (ConnectClient(c) \/ Disconnect(c))
  <2>1. got' = got /\ client'[c] # "streaming"
    BY <1>5, ClientSteps
  <2> QED BY <1>3, <1>5, <2>1
<1>6. CASE d = c /\ (ReplayNext(c) \/ LiveNext(c))
  <2>1. Whole(c)' = Whole(c) /\ client[c] = "streaming" /\ client'[c] = "streaming"
    BY <1>6, WholeStays
  <2>2. TypeInv' /\ LogInv' /\ ClientInv'
    <3>1. UNCHANGED <<log, arrived>>
      BY <1>6, ClientSteps
    <3>2. LogInv'
      BY <3>1 DEF LogInv, Distinct
    <3> QED BY <1>6, <3>2, ClientType, ClientStep
  <2>3. got'[c] \in Seq(Msg) /\ replay'[c] \in Seq(Msg) /\ Rest(c)' \in Seq(Msg)
    <3>1. log' \in Seq(Msg) /\ cursor'[c] \in 1..(Len(log') + 1)
      BY <2>1, <2>2 DEF TypeInv, ClientInv, StreamInv
    <3>2. Rest(c)' \in Seq(Msg)
      BY <3>1, SuffixFacts DEF Rest
    <3> QED BY <2>2, <3>2 DEF TypeInv
  <2>4. Covered((got'[c] \o replay'[c]) \o Rest(c)')
    BY <1>3, <1>6, <2>1 DEF Whole
  <2>5. got'[c] \o replay'[c] \in Seq(Msg)
    BY <2>3, ConcatFacts
  <2>6. Covered(got'[c] \o replay'[c])
    BY <2>3, <2>4, <2>5, CoveredPrefix
  <2>7. Covered(got'[c])
    BY <2>3, <2>6, CoveredPrefix
  <2> QED BY <1>3, <1>6, <2>1, <2>7
<1> QED BY <1>4, <1>5, <1>6

-----------------------------------------------------------------------------
(* The theorems *)

\* The invariant holds when the proxy starts.
LEMMA InitInv == Init => IInv
<1> SUFFICES ASSUME Init PROVE IInv
  OBVIOUS
<1>1. <<>> \in Seq(Msg) /\ <<>> \in Seq(Event) /\ Len(<<>>) = 0
  BY EmptySeq
<1>2. ToSet(<<>>) = {} /\ Distinct(<<>>)
  BY EmptyFacts
<1>3. history = [disposable |-> <<>>, static |-> <<>>, persistent |-> <<>>]
  BY DEF Init
<1>4. history.disposable = <<>> /\ history.static = <<>> /\ history.persistent = <<>>
      /\ history \in Buffer
  BY <1>1, <1>3 DEF Buffer
<1>5. TypeInv
  BY <1>1, <1>4 DEF Init, TypeInv
<1>6. OrderInv
  BY <1>1, <1>2 DEF Init, OrderInv
<1>7. InfoInv
  BY <1>1 DEF Init, InfoInv
<1>8. HistoryInv
  BY <1>2, <1>4 DEF Init, HistoryInv, Held
<1>9. LogInv
  BY <1>2 DEF Init, LogInv
<1>10. ClientInv
  BY DEF Init, ClientInv
<1>11. CoveredInv
  BY <1>1 DEF Init, CoveredInv, Covered
<1>12. HistoryBound
  BY DEF Init, HistoryBound
<1> QED BY <1>5, <1>6, <1>7, <1>8, <1>9, <1>10, <1>11, <1>12 DEF IInv

\* Steps that leave the parts of the invariant alone.
LEMMA Frames ==
    /\ UNCHANGED <<events, handling, arrived, writes, pending>> /\ OrderInv => OrderInv'
    /\ UNCHANGED <<options, events, handling, history, writes, pending>> /\ InfoInv => InfoInv'
    /\ UNCHANGED <<options, history, arrived>> /\ HistoryInv => HistoryInv'
    /\ UNCHANGED <<log, arrived>> /\ LogInv => LogInv'
    /\ UNCHANGED <<options, history, log, arrived, client, cursor, since, retained, got, replay>>
       /\ ClientInv => ClientInv'
    /\ UNCHANGED <<options, log, client, cursor, got, replay>> /\ CoveredInv => CoveredInv'
    /\ UNCHANGED <<options, history, arrived>> /\ HistoryBound => HistoryBound'
<1>1. UNCHANGED <<events, handling, arrived, writes, pending>> /\ OrderInv => OrderInv'
  BY DEF OrderInv, IsMsg, Older, OlderThan, Before
<1>2. UNCHANGED <<options, events, handling, history, writes, pending>> /\ InfoInv => InfoInv'
  BY DEF InfoInv, IsHistoryEnabled, IsMsg
<1>3. UNCHANGED <<options, history, arrived>> /\ HistoryInv => HistoryInv'
  BY DEF HistoryInv, IsHistoryEnabled
<1>4. UNCHANGED <<log, arrived>> /\ LogInv => LogInv'
  BY DEF LogInv
<1>5. UNCHANGED <<options, history, log, arrived, client, cursor, since, retained, got, replay>>
       /\ ClientInv => ClientInv'
  BY DEF ClientInv, StreamInv, Sent, Rest, Since
<1>6. UNCHANGED <<options, log, client, cursor, got, replay>> /\ CoveredInv => CoveredInv'
  BY DEF CoveredInv, IsHistoryEnabled, Whole, Rest
<1>7. UNCHANGED <<options, history, arrived>> /\ HistoryBound => HistoryBound'
  BY DEF HistoryBound
<1> QED BY <1>1, <1>2, <1>3, <1>4, <1>5, <1>6, <1>7

\* Every step keeps the invariant.
LEMMA NextInv == IInv /\ [Next]_vars => IInv'
<1> SUFFICES ASSUME IInv, [Next]_vars PROVE IInv'
  OBVIOUS
<1>0. /\ TypeInv /\ OrderInv /\ InfoInv /\ HistoryInv /\ LogInv /\ ClientInv /\ CoveredInv
      /\ HistoryBound
  BY DEF IInv
<1>1. ASSUME NEW w \in Writers, ReceiveMessage(w) PROVE IInv'
  <2>1. UNCHANGED <<options, history, log, arrived, client, cursor, since, retained, got, replay>>
    BY <1>1 DEF ReceiveMessage, clientVars
  <2>2. TypeInv' /\ OrderInv' /\ InfoInv'
    BY <1>0, <1>1, LoopType, OrderReceive, InfoReceive
  <2>3. HistoryInv' /\ LogInv' /\ ClientInv' /\ CoveredInv' /\ HistoryBound'
    BY <1>0, <2>1, Frames
  <2> QED BY <2>2, <2>3 DEF IInv
<1>2. ASSUME NEW w \in Writers, PushMessage(w) PROVE IInv'
  <2>1. UNCHANGED <<options, history, log, arrived, client, cursor, since, retained, got, replay>>
    BY <1>2 DEF PushMessage, clientVars
  <2>2. TypeInv' /\ OrderInv' /\ InfoInv'
    BY <1>0, <1>2, LoopType, OrderPush, InfoPush
  <2>3. HistoryInv' /\ LogInv' /\ ClientInv' /\ CoveredInv' /\ HistoryBound'
    BY <1>0, <2>1, Frames
  <2> QED BY <2>2, <2>3 DEF IInv
<1>3. CASE TakesEvent
  <2>1. TypeInv' /\ OrderInv' /\ InfoInv'
    BY <1>0, <1>3, LoopType, OrderLoop, InfoLoop
  <2>2. CASE LoopMessage
    <3>1. UNCHANGED <<options, history, log, arrived, client, cursor, since, retained, got, replay>>
      BY <2>2 DEF LoopMessage, clientVars
    <3>2. HistoryInv' /\ LogInv' /\ ClientInv' /\ CoveredInv' /\ HistoryBound'
      BY <1>0, <3>1, Frames
    <3> QED BY <2>1, <3>2 DEF IInv
  <2>3. CASE HandleMsg
    <3>1. HistoryInv' /\ LogInv' /\ ClientInv' /\ CoveredInv' /\ HistoryBound'
      BY <1>0, <2>3, HistoryHandle, LogHandle, ClientHandle, CoveredHandle, BoundHandle
    <3> QED BY <2>1, <3>1 DEF IInv
  <2>4. CASE LoopNewClient
    <3>1. UNCHANGED <<options, history, log, arrived>>
      BY <1>0, <2>4, NewClientFacts
    <3>2. HistoryInv' /\ LogInv' /\ HistoryBound'
      BY <1>0, <3>1, Frames
    <3>3. ClientInv' /\ CoveredInv'
      BY <1>0, <2>4, ClientNew, CoveredNew
    <3> QED BY <2>1, <3>2, <3>3 DEF IInv
  <2> QED BY <1>3, <2>2, <2>3, <2>4 DEF TakesEvent
<1>4. ASSUME NEW c \in Clients,
             ConnectClient(c) \/ ReplayNext(c) \/ LiveNext(c) \/ Disconnect(c)
      PROVE  IInv'
  <2>1. TypeInv' /\ ClientInv' /\ CoveredInv'
    BY <1>0, <1>4, ClientType, ClientStep, CoveredStep
  <2>2. UNCHANGED <<options, log, history, arrived>>
    BY <1>0, <1>4, ClientSteps
  <2>3. HistoryInv' /\ LogInv' /\ HistoryBound'
    BY <1>0, <2>2, Frames
  <2>4. OrderInv' /\ InfoInv'
    <3>1. CASE ConnectClient(c)
      BY <1>0, <3>1, OrderConnect, InfoConnect
    <3>2. CASE ReplayNext(c) \/ LiveNext(c) \/ Disconnect(c)
      <4>1. UNCHANGED <<options, events, handling, history, arrived, writes, pending>>
        BY <3>2 DEF ReplayNext, LiveNext, Disconnect
      <4> QED BY <1>0, <4>1, Frames
    <3> QED BY <1>4, <3>1, <3>2
  <2> QED BY <2>1, <2>3, <2>4 DEF IInv
<1>5. CASE UNCHANGED vars
  <2>1. /\ UNCHANGED <<events, handling, arrived, writes, pending>>
        /\ UNCHANGED <<options, history, log, client, cursor, since, retained, got, replay>>
    BY <1>5 DEF vars
  <2>2. TypeInv'
    BY <1>0, <2>1 DEF TypeInv
  <2> QED BY <1>0, <2>1, <2>2, Frames DEF IInv
<1>6. CASE Sending
  <2>1. /\ UNCHANGED <<events, handling, arrived, writes, pending>>
        /\ UNCHANGED <<options, history, log, client, cursor, since, retained, got, replay>>
    BY <1>6 DEF Sending, SendFull, SendAwait, SendTimeout, clientVars
  <2>2. TypeInv'
    BY <1>0, <2>1 DEF TypeInv
  <2> QED BY <1>0, <2>1, <2>2, Frames DEF IInv
<1> QED BY <1>1, <1>2, <1>3, <1>4, <1>5, <1>6 DEF Next, EventLoop, TakesEvent, ClientStream

\* The wait of send_async is always at one of its points.
LEMMA SendStep == SendInv /\ [Next]_vars => SendInv'
<1> SUFFICES ASSUME SendInv, [Next]_vars PROVE SendInv'
  OBVIOUS
<1> USE DEF SendInv, sendVars
<1>1. ASSUME NEW w \in Writers, ReceiveMessage(w) \/ PushMessage(w) PROVE SendInv'
  BY <1>1 DEF ReceiveMessage, PushMessage
<1>2. CASE TakesEvent
  BY <1>2 DEF TakesEvent, LoopMessage, HandleMsg, LoopNewClient
<1>3. CASE Sending
  BY <1>3 DEF Sending, SendFull, SendAwait, SendTimeout
<1>4. ASSUME NEW c \in Clients, ConnectClient(c) \/ ReplayNext(c) PROVE SendInv'
  BY <1>4 DEF ConnectClient, ReplayNext
<1>5. ASSUME NEW c \in Clients, LiveNext(c) \/ Disconnect(c) PROVE SendInv'
  <2>1. warned' = warned /\ (Notify \/ sender' = sender)
    BY <1>5 DEF LiveNext, Disconnect
  <2> QED BY <2>1 DEF Notify
<1>6. CASE UNCHANGED vars
  BY <1>6 DEF vars
<1> QED BY <1>1, <1>2, <1>3, <1>4, <1>5, <1>6 DEF Next, EventLoop, TakesEvent, ClientStream

\* The invariant of the proxy: types, the order in which messages pass through
\* it, what the history and the channel hold and what each client is sent.
THEOREM Invariance == Spec => [](IInv /\ SendInv)
<1>1. Init => SendInv
  BY DEF Init, SendInv
<1> QED BY <1>1, InitInv, NextInv, SendStep, PTL DEF Spec

\* Whatever the writers, clients and limits, a connected client is sent what
\* the history held when the event loop subscribed it and everything broadcast
\* since, each message once.
THEOREM EachMessageOnce == Spec => []ExactlyOnce
<1>1. IInv => ExactlyOnce
  <2> SUFFICES ASSUME IInv, NEW c \in Clients, client[c] = "streaming"
               PROVE  LET s == StreamOf(c) IN
                      /\ ToSet(s) = ToSet(retained[c]) \cup ToSet(SubSeq(log, since[c], Len(log)))
                      /\ Len(s) = Cardinality(ToSet(s))
    BY DEF ExactlyOnce
  <2>1. TypeInv /\ LogInv /\ StreamInv(c) /\ cursor[c] # 0
    BY DEF IInv, ClientInv
  <2>2. StreamOf(c) = Whole(c)
    BY <2>1 DEF StreamOf, Whole, Rest
  <2>3. Whole(c) \in Seq(Msg) /\ ToSet(Whole(c)) = Sent(c) /\ Distinct(Whole(c))
    BY <2>1, WholeFacts
  <2>4. Len(Whole(c)) = Cardinality(ToSet(Whole(c)))
    BY <2>3, DistinctCounts
  <2>5. ToSet(Whole(c)) = ToSet(retained[c]) \cup ToSet(SubSeq(log, since[c], Len(log)))
    BY <2>1, <2>3 DEF StreamInv, Since
  <2> QED BY <2>2, <2>4, <2>5
<1> QED BY <1>1, Invariance, PTL

\* Unless the history is limited, a client that connects late is sent
\* everything the event loop ever handled.
THEOREM LateJoinersMissNothing == Spec => []LateJoinerSeesAll
<1>1. IInv => LateJoinerSeesAll
  <2> SUFFICES ASSUME IInv, ~options.limited, NEW c \in Clients, client[c] = "streaming"
               PROVE  ToSet(StreamOf(c)) = ToSet(arrived)
    BY DEF LateJoinerSeesAll
  <2>1. TypeInv /\ LogInv /\ StreamInv(c) /\ cursor[c] # 0
    BY DEF IInv, ClientInv
  <2>2. StreamOf(c) = Whole(c)
    BY <2>1 DEF StreamOf, Whole, Rest
  <2>3. ToSet(Whole(c)) = Sent(c)
    BY <2>1, WholeFacts
  <2>4. Sent(c) \subseteq ToSet(arrived) /\ ToSet(arrived) \subseteq Sent(c)
    BY <2>1 DEF StreamInv
  <2> QED BY <2>2, <2>3, <2>4
<1> QED BY <1>1, Invariance, PTL

\* With OldestFirst and a history, no client sees data of a recording before
\* the SetStoreInfo of that recording, whatever the collector dropped.
THEOREM StoreInfoPrecedesData == Spec => []StoreInfoFirst
<1>1. IInv => StoreInfoFirst
  BY DEF IInv, CoveredInv, Covered, Info, StoreInfoFirst
<1> QED BY <1>1, Invariance, PTL

\* The memory limit is exceeded by no more than the last message, or by what
\* the collector never drops.
THEOREM HistoryIsBounded == Spec => []HistoryBound
<1>1. IInv => HistoryBound
  BY DEF IInv
<1> QED BY <1>1, Invariance, PTL

=============================================================================
