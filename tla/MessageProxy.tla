---------------------------- MODULE MessageProxy ----------------------------
(***************************************************************************)
(* The gRPC message proxy (dl_grpc_server/lib.rs): SDKs write messages,    *)
(* one event loop broadcasts them to the connected clients and keeps a     *)
(* garbage-collected history, and a client that connects gets the history  *)
(* followed by (or, newest first, interleaved with) the live messages.      *)
(*                                                                         *)
(* The broadcast channel is the abstract one of module Broadcast, with the *)
(* wait of its send_async spelled out: BroadcastChannel shows that it may  *)
(* miss its wake-up.                                                       *)
(***************************************************************************)
EXTENDS Naturals, Sequences, SequencesExt, FiniteSetsExt

CONSTANTS
    Writers,      \* SDK connections: write_messages calls
    Clients,      \* viewer connections: read_messages calls
    Kinds,        \* kinds of data messages: subset of {"static", "temporal"}
    Size,         \* Size[k]: bytes of a message of kind k
    MaxWrites,    \* bound: messages of all writers
    QueueLen,     \* capacity of the event queue (32 in the code)
    MaxMessages,  \* capacity of the broadcast channel (1024 in the code)
    Options       \* the ServerOptions to consider

ASSUME ProxyAssumption ==
    /\ Kinds \subseteq {"static", "temporal"}
    /\ Size \in [{"store_info", "static", "temporal"} -> Nat \ {0}]
    /\ {MaxWrites, QueueLen, MaxMessages} \subseteq Nat
    /\ Options \subseteq [limited : BOOLEAN, limit : Nat, newest_first : BOOLEAN]

VARIABLES
    options,  \* ServerOptions: memory_limit and playback_behavior
    events,   \* the event queue
    handling, \* the message the event loop is broadcasting, if any
    sender,   \* where its send_async is: "try", "full" or "waiting"; or, as
              \* history, "missed" or "lost" if a notification came in between
    warned,   \* whether that call has warned that it is blocked
    history,  \* MessageBuffer: the three queues
    log,      \* the broadcast channel ...
    cursor,   \* ... and where each client is in it
    writes,   \* messages each writer has produced
    pending,  \* the message a writer is waiting to push, if any
    client,   \* where each client is
    replay,   \* the history a client has not been sent yet
    got,      \* what each client has been sent, in order
    since,    \* history: log position at which the client subscribed
    retained, \* history: what the buffer held at that moment
    arrived   \* history: messages the event loop has dealt with, in order

vars == <<options, events, handling, sender, warned, history, log, cursor, writes,
          pending, client, replay, got, since, retained, arrived>>
sendVars   == <<sender, warned>>
clientVars == <<client, replay, got, since, retained>>

\* A writer's recording starts with its SetStoreInfo.
Message == [store : Writers, nr : 1..MaxWrites, kind : Kinds \cup {"store_info"}]
NewClientEvent(c) == [type |-> "new_client", client |-> c]
MessageEvent(m)   == [type |-> "message", msg |-> m]

Channel == INSTANCE Broadcast WITH Readers <- Clients, Values <- Message

Bytes(queue) == FoldSeq(LAMBDA m, sum : Size[m.kind] + sum, 0, queue)

-----------------------------------------------------------------------------
(* MessageBuffer *)

\* Mutant of SizeBytes: one of the queues is not counted.
SizeBytesButStatic(h) == Bytes(h.disposable) + Bytes(h.persistent)

SizeBytes(h) == Bytes(h.disposable) + Bytes(h.static) + Bytes(h.persistent)

\* Mutant of All: the queues in the order of the struct's fields.
AllInFieldOrder(h) == h.disposable \o h.static \o h.persistent

\* Persistent and static data come before the disposable, whatever the order.
All(h) ==
    IF options.newest_first THEN h.persistent \o Reverse(h.static) \o Reverse(h.disposable)
                   ELSE h.persistent \o h.static \o h.disposable

QueueOf(m) == CASE m.kind = "store_info" -> "persistent"
                [] m.kind = "static"     -> "static"
                [] m.kind = "temporal"   -> "disposable"

\* Mutant of AddMsg: static data goes to both queues of data.
AddMsgTwice(h, m) ==
    IF m.kind = "static"
      THEN [h EXCEPT !.static = Append(@, m), !.disposable = Append(@, m)]
      ELSE [h EXCEPT ![QueueOf(m)] = Append(@, m)]

\* add_msg, for the messages an SDK sends: they have a payload, without which
\* the message would be logged and not kept.
AddMsg(h, m) == [h EXCEPT ![QueueOf(m)] = Append(@, m)]

\* The loops of gc: pop the front until there is less than the limit left, or
\* nothing to pop.
PopUntilBelow(h, field) ==
    LET queue   == h[field]
        after(n) == [h EXCEPT ![field] = SubSeq(queue, n + 1, Len(queue))]
        enough  == {n \in 1..Len(queue) : SizeBytes(after(n)) < options.limit}
    IN  after(IF enough = {} THEN Len(queue) ELSE Min(enough))

Gc(h) ==
    IF SizeBytes(h) <= options.limit
      THEN h
      ELSE LET h1 == PopUntilBelow(h, "disposable")
           IN  IF options.limit < SizeBytes(h1) THEN PopUntilBelow(h1, "static") ELSE h1

IsHistoryEnabled == ~options.limited \/ options.limit # 0

Remember(m) ==
    history' = IF IsHistoryEnabled
                 THEN AddMsg(IF options.limited THEN Gc(history) ELSE history, m)
                 ELSE history

-----------------------------------------------------------------------------

Init ==
    /\ options \in Options
    /\ events = <<>>
    /\ handling = <<>>
    /\ sender = "try" /\ warned = FALSE
    /\ history = [disposable |-> <<>>, static |-> <<>>, persistent |-> <<>>]
    /\ log = <<>>
    /\ cursor = [c \in Clients |-> 0]
    /\ writes = [w \in Writers |-> 0]
    /\ pending = [w \in Writers |-> <<>>]
    /\ client = [c \in Clients |-> "absent"]
    /\ replay = [c \in Clients |-> <<>>]
    /\ got = [c \in Clients |-> <<>>]
    /\ since = [c \in Clients |-> 0]
    /\ retained = [c \in Clients |-> <<>>]
    /\ arrived = <<>>

-----------------------------------------------------------------------------
(* gRPC service: writers *)

\* write_messages receives the next message of its stream.
ReceiveMessage(w) ==
    /\ pending[w] = <<>>
    /\ MapThenSumSet(LAMBDA v : writes[v], Writers) < MaxWrites
    /\ \E k \in Kinds \cup {"store_info"} :
          /\ k = "store_info" <=> writes[w] = 0
          /\ pending' = [pending EXCEPT ![w] =
                           <<[store |-> w, nr |-> writes[w] + 1, kind |-> k]>>]
    /\ writes' = [writes EXCEPT ![w] = @ + 1]
    /\ UNCHANGED <<options, events, handling, sendVars, history, log, cursor, clientVars, arrived>>

\* push_message: waits for a place in the event queue.
PushMessage(w) ==
    /\ pending[w] # <<>>
    /\ Len(events) < QueueLen
    /\ events' = Append(events, MessageEvent(Head(pending[w])))
    /\ pending' = [pending EXCEPT ![w] = <<>>]
    /\ UNCHANGED <<options, handling, sendVars, history, log, cursor, writes, clientVars, arrived>>

-----------------------------------------------------------------------------
(* The event loop *)

\* Event::Message: broadcast first, which may have to wait, ...
LoopMessage ==
    /\ handling = <<>>
    /\ events # <<>> /\ Head(events).type = "message"
    /\ handling' = <<Head(events).msg>>
    /\ events' = Tail(events)
    /\ UNCHANGED <<options, sendVars, history, log, cursor, writes, pending, clientVars, arrived>>

\* Mutant of HandleMsg: a message that nobody is subscribed to is not
\* remembered.
HandleMsgForgets ==
    /\ handling # <<>> /\ sender = "try"
    /\ LET m == Head(handling) IN
          /\ \/ Channel!Publish(m) /\ Remember(m)
             \/ Channel!Subscribers = {} /\ UNCHANGED <<log, cursor, history>>
          /\ arrived' = Append(arrived, m)
    /\ handling' = <<>> /\ warned' = FALSE
    /\ UNCHANGED <<options, events, sender, writes, pending, clientVars>>

\* ... and once it is done, collect garbage and add the message to the history.  With no
\* client connected there is nothing to broadcast to.
HandleMsg ==
    /\ handling # <<>> /\ sender = "try"
    /\ LET m == Head(handling) IN
          /\ \/ Channel!Publish(m)
             \/ Channel!Subscribers = {} /\ UNCHANGED <<log, cursor>>
          /\ Remember(m)
          /\ arrived' = Append(arrived, m)
    /\ handling' = <<>> /\ warned' = FALSE
    /\ UNCHANGED <<options, events, sender, writes, pending, clientVars>>

\* send_async finds the channel full, in messages or in bytes; something in it
\* is still to be read then.
SendFull ==
    /\ handling # <<>> /\ sender = "try"
    /\ \E c \in Clients : Channel!CanRead(c)
    /\ sender' = "full"
    /\ UNCHANGED <<options, events, handling, warned, history, log, cursor, writes,
                   pending, clientVars, arrived>>

\* It waits for a notification, and has lost one that came since; it may have
\* found before that it is blocked for too long.
SendAwait ==
    /\ sender \in {"full", "missed"}
    /\ sender' = IF sender = "full" THEN "waiting" ELSE "lost"
    /\ warned' \in {warned, TRUE}
    /\ UNCHANGED <<options, events, handling, history, log, cursor, writes, pending,
                   clientVars, arrived>>

\* Only until it has warned does it wait with a timeout.
SendTimeout ==
    /\ sender \in {"waiting", "lost"} /\ ~warned
    /\ sender' = "try"
    /\ UNCHANGED <<options, events, handling, warned, history, log, cursor, writes,
                   pending, clientVars, arrived>>

\* notify_waiters: wakes a sender that waits, and nobody else.
Notify ==
    sender' = CASE sender \in {"waiting", "lost"} -> "try"
                [] sender = "full"                -> "missed"
                [] OTHER                          -> sender

\* Mutant of LastToRead: no notification when a message leaves the channel.
NoneToRead(c) == FALSE

\* The next message of the client is one that no other client has to read.
LastToRead(c) ==
    /\ Channel!CanRead(c)
    /\ \A d \in Channel!Subscribers \ {c} : cursor[d] > cursor[c]

\* Event::NewClient: a copy of the history and a subscription, with no
\* message in between.  A client that has gone away gets nothing.
LoopNewClient ==
    /\ handling = <<>>
    /\ events # <<>> /\ Head(events).type = "new_client"
    /\ events' = Tail(events)
    /\ LET c == Head(events).client IN
          IF client[c] = "requested"
            THEN /\ client' = [client EXCEPT ![c] = "streaming"]
                 /\ replay' = [replay EXCEPT ![c] = All(history)]
                 /\ retained' = [retained EXCEPT ![c] = All(history)]
                 /\ since' = [since EXCEPT ![c] = Len(log) + 1]
                 /\ Channel!Subscribe(c)
            ELSE UNCHANGED <<client, replay, retained, since, log, cursor>>
    /\ UNCHANGED <<options, handling, sendVars, history, writes, pending, got, arrived>>

-----------------------------------------------------------------------------
(* gRPC service: clients *)

\* new_client_message_stream asks the event loop.
ConnectClient(c) ==
    /\ client[c] = "absent"
    /\ Len(events) < QueueLen
    /\ client' = [client EXCEPT ![c] = "requested"]
    /\ events' = Append(events, NewClientEvent(c))
    /\ UNCHANGED <<options, handling, sendVars, history, log, cursor, writes, pending, replay, got,
                   since, retained, arrived>>

\* Mutant of LivePreferred: the merge is pending whenever the channel is.
LiveOnly(c) == options.newest_first

\* PriorityMerge polls the history only when the channel has nothing ready.
LivePreferred(c) == options.newest_first /\ Channel!CanRead(c)

\* OldestFirst chains history and channel, NewestFirst prefers the channel.
ReplayNext(c) ==
    /\ client[c] = "streaming"
    /\ replay[c] # <<>>
    /\ ~LivePreferred(c)
    /\ got' = [got EXCEPT ![c] = Append(@, Head(replay[c]))]
    /\ replay' = [replay EXCEPT ![c] = Tail(@)]
    /\ UNCHANGED <<options, events, handling, sendVars, history, log, cursor, writes, pending,
                   client, since, retained, arrived>>

\* A message that every client has read leaves the channel.
LiveNext(c) ==
    /\ client[c] = "streaming"
    /\ ~options.newest_first => replay[c] = <<>>
    /\ Channel!Read(c)
    /\ got' = [got EXCEPT ![c] = Append(@, log[cursor[c]])]
    /\ IF LastToRead(c) THEN Notify ELSE UNCHANGED sender
    /\ UNCHANGED <<options, events, handling, warned, history, writes, pending, client,
                   replay, since, retained, arrived>>

\* The client hangs up, before or after the event loop got to it; with it go
\* the messages that only it had to read.
Disconnect(c) ==
    /\ client[c] \in {"requested", "streaming"}
    /\ IF client[c] = "streaming" THEN Channel!Unsubscribe(c)
                                  ELSE UNCHANGED <<log, cursor>>
    /\ IF LastToRead(c) \/ Channel!Subscribers = {c} THEN Notify ELSE UNCHANGED sender
    /\ client' = [client EXCEPT ![c] = "gone"]
    /\ UNCHANGED <<options, events, handling, warned, history, writes, pending, replay,
                   got, since, retained, arrived>>

-----------------------------------------------------------------------------

Sending   == SendFull \/ SendAwait \/ SendTimeout
EventLoop == LoopMessage \/ HandleMsg \/ LoopNewClient \/ Sending

ClientStream(c) == ReplayNext(c) \/ LiveNext(c)

Next ==
    \/ \E w \in Writers : ReceiveMessage(w) \/ PushMessage(w)
    \/ EventLoop
    \/ \E c \in Clients : ConnectClient(c) \/ ClientStream(c) \/ Disconnect(c)

Spec == Init /\ [][Next]_vars

\* Tasks run, the timeout of an unwarned send_async among them, and connected
\* clients read: a client whose connection is dead is dropped by the HTTP/2
\* keep-alive.  Event queue places are handed out fairly.
Fairness ==
    /\ \A w \in Writers : SF_vars(PushMessage(w))
    /\ WF_vars(EventLoop)
    /\ \A c \in Clients : WF_vars(ClientStream(c))

FairSpec == Spec /\ Fairness

-----------------------------------------------------------------------------
(* Properties *)

\* The messages of a stream: those sent, those still to be replayed and those
\* still in the channel.
StreamOf(c) ==
    got[c] \o replay[c] \o
    (IF cursor[c] = 0 THEN <<>> ELSE SubSeq(log, cursor[c], Len(log)))

\* A connected client is sent what the history held when it connected and
\* everything that arrived since, each message once: nothing falls between
\* the copy of the history and the subscription, nothing is in both, and the
\* garbage collector does not touch a stream under way.
ExactlyOnce ==
    \A c \in Clients :
        client[c] = "streaming" =>
            LET s == StreamOf(c) IN
            /\ ToSet(s) = ToSet(retained[c]) \cup ToSet(SubSeq(log, since[c], Len(log)))
            /\ Len(s) = Cardinality(ToSet(s))

\* Unless the history is limited, a late client misses nothing at all.
LateJoinerSeesAll ==
    ~options.limited =>
        \A c \in Clients :
            client[c] = "streaming" => ToSet(StreamOf(c)) = ToSet(arrived)

\* With OldestFirst and a history, a client is sent the SetStoreInfo of a
\* recording before any of its data, however late it connects and whatever
\* was collected: SetStoreInfo is never dropped and always replayed first.
StoreInfoFirst ==
    ~options.newest_first /\ IsHistoryEnabled =>
        \A c \in Clients : \A i \in 1..Len(got[c]) :
            \E j \in 1..i : got[c][j].kind = "store_info"
                            /\ got[c][j].store = got[c][i].store

\* gc runs before a message is added, so the history may exceed its limit by
\* that message, and otherwise only by what is never collected.  The bound rests
\* on collecting static data once nothing else is left to collect (lib.rs:774);
\* "Static data is never dropped." (dl_sdk/src/recording_stream.rs:506) is not
\* what the proxy does.
HistoryBound ==
    options.limited /\ arrived # <<>> =>
        LET last  == Size[Last(arrived).kind]
            spare == Bytes(history.disposable) + Bytes(history.static)
        IN  \/ spare + Bytes(history.persistent) <= options.limit + last
            \/ spare <= last

\* send_async has warned, waits without a timeout, and the notification it
\* waits for has come before it did: the finding about BroadcastChannel.
LostWakeup == sender = "lost" /\ warned

\* Back-pressure ends: as long as the connected clients read, every message
\* that write_messages is waiting to push is taken by the event loop, unless
\* the event loop's send_async has lost its wake-up.
PushReturns ==
    \/ <>[]LostWakeup
    \/ \A w \in Writers : pending[w] # <<>> ~> pending[w] = <<>>

\* The stream of a client that stays connected gets through the history it
\* was handed, unless with NewestFirst live messages never cease to be ready
\* (PriorityMerge starves the history then), and it is never stuck before a
\* live message: as long as there is one, it goes on to the next.
StreamsCatchUp ==
    \A c \in Clients :
        /\ \/ []<>(options.newest_first /\ Channel!CanRead(c))
           \/ client[c] = "streaming" ~> (client[c] # "streaming" \/ replay[c] = <<>>)
        /\ []<>(~Channel!CanRead(c)) \/ []<><<LiveNext(c)>>_vars

=============================================================================
