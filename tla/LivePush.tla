------------------------------ MODULE LivePush ------------------------------
(***************************************************************************)
(* How updates reach the browsers: the in-memory publish/subscribe hub     *)
(* (internal/store/pubsub.go), the server-sent-events handler              *)
(* (internal/ws/sse.go) and the WebSocket hub (internal/ws/hub.go), which  *)
(* is itself a subscriber and fans out to its clients.                     *)
(*                                                                         *)
(* Every subscription has a bounded channel and a goroutine that unlists   *)
(* it; a publisher copies the list under the lock and then sends to each   *)
(* without it, dropping what does not fit, so that publishers of one       *)
(* channel overtake each other.  A WebSocket client has a bounded send     *)
(* channel, a read and a write pump; the hub, its broadcast and its        *)
(* cleanup routine may each close the channel of a client they give up on. *)
(*                                                                         *)
(* The hub's context ends with the process, so it is not cancelled here.   *)
(***************************************************************************)
EXTENDS Integers, Sequences, FiniteSets

CONSTANTS
    Streams,           \* server-sent-events connections
    Sockets,           \* WebSocket connections
    Hub,               \* the WebSocket hub's own subscription
    Channels,          \* publish/subscribe channels
    Publishers,        \* goroutines that publish, such as a symbol's live loops
    Topic,             \* the channel each of them publishes on
    HubChannels,       \* the channels the hub subscribes to, in order
    StreamChannels,    \* the channels of a stream's query, given the request stored
    BoxCap,            \* capacity of a subscription's channel (100)
    SendCap,           \* capacity of a client's send channel (256)
    MaxMessages,       \* bound on the messages each publisher publishes
    None               \* no value

PubSubs == Streams \cup {Hub}

\* the topics that matter to a WebSocket client: those the hub receives
HubTopics == {HubChannels[i] : i \in 1 .. Len(HubChannels)}

ASSUME PushAssumption ==
    /\ Hub \notin Streams /\ None \notin Streams /\ None \notin {"race", "panic"}
    /\ IsFiniteSet(Sockets)
    /\ Topic \in [Publishers -> Channels]
    /\ HubChannels \in Seq(Channels)
    /\ StreamChannels \in [Streams \X Streams -> Seq(Channels)]
    /\ BoxCap \in Nat \ {0} /\ SendCap \in Nat \ {0} /\ MaxMessages \in [Publishers -> Nat]

VARIABLES
    \* PubSubHub and MockPubSub
    subscribers,       \* the subscriptions listed under each channel
    channelsOf,        \* the channels a subscription was made for
    box,               \* messages in its channel
    closed,            \* whether it is closed
    cleaner,           \* its cleanup goroutine: none, waiting, removing, gone
    publisher,         \* what each published last, and to whom it is still to be sent
    \* SSEHandler
    stored,            \* the request field, shared by all connections
    stream,            \* idle, stored, open, gone
    left,              \* the browser disconnected: the request's context ended
    received,          \* the last message of each publisher a stream has been sent
    \* Hub and Client
    clients,           \* the clients map
    connections,       \* the connection gauge
    socket,            \* each socket's pumps, channel and topics
    crashed            \* None, or why the process died

pubsubVars == <<subscribers, channelsOf, box, closed, cleaner, publisher>>
sseVars == <<stored, stream, left, received>>
hubVars == <<clients, connections, socket, crashed>>
vars == <<pubsubVars, sseVars, hubVars>>

NewSocket == [conn |-> "none", reader |-> "none", writer |-> "none", topics |-> {},
              updating |-> FALSE, idle |-> FALSE, send |-> <<>>, closed |-> FALSE]

----------------------------------------------------------------------------
(* PubSubHub *)

IndexIn(s, seq) == CHOOSE i \in 1 .. Len(seq) : seq[i] = s /\ \A j \in 1 .. i - 1 : seq[j] # s
Listed(s, ch) == \E i \in 1 .. Len(subscribers[ch]) : subscribers[ch][i] = s
Drop(seq, i) == SubSeq(seq, 1, i - 1) \o SubSeq(seq, i + 1, Len(seq))
Times(ch, chs) == Cardinality({i \in 1 .. Len(chs) : chs[i] = ch})

\* Mutant: a subscription is listed once more under its first channel
SubscribeTwice(s, chs) ==
    /\ channelsOf' = [channelsOf EXCEPT ![s] = chs]
    /\ subscribers' = [ch \in Channels |->
            subscribers[ch] \o [i \in 1 .. Times(ch, Append(chs, chs[1])) |-> s]]
    /\ cleaner' = [cleaner EXCEPT ![s] = "waiting"]
    /\ UNCHANGED <<box, closed, publisher>>

\* one entry for each channel named, and the cleanup goroutine
Subscribe(s, chs) ==
    /\ channelsOf' = [channelsOf EXCEPT ![s] = chs]
    /\ subscribers' = [ch \in Channels |->
            subscribers[ch] \o [i \in 1 .. Times(ch, chs) |-> s]]
    /\ cleaner' = [cleaner EXCEPT ![s] = "waiting"]
    /\ UNCHANGED <<box, closed, publisher>>

\* the cleanup goroutine wakes up: the context ended, and it closes the
\* subscription, or somebody else closed it
CleanerWakes(s) ==
    /\ cleaner[s] = "waiting"
    /\ closed[s] \/ (s \in Streams /\ left[s])
    /\ closed' = [closed EXCEPT ![s] = TRUE]
    /\ cleaner' = [cleaner EXCEPT ![s] = "removing"]
    /\ UNCHANGED <<subscribers, channelsOf, box, publisher, sseVars, hubVars>>

\* Mutant: the goroutine stops at the first channel it finds itself under
CleanerRemovesOne(s) ==
    LET ch == channelsOf[s][1]
    IN  /\ cleaner[s] = "removing"
        /\ subscribers' = [subscribers EXCEPT ![ch] =
                IF Listed(s, ch) THEN Drop(@, IndexIn(s, @)) ELSE @]
        /\ cleaner' = [cleaner EXCEPT ![s] = "gone"]
        /\ UNCHANGED <<channelsOf, box, closed, publisher, sseVars, hubVars>>

\* the list after the subscription was looked for, and taken out where it was
\* found first, n times
Unlisted(seq, s, n) ==
    LET U[k \in 0 .. n] ==
            IF k = 0 THEN seq
            ELSE IF \E i \in 1 .. Len(U[k - 1]) : U[k - 1][i] = s
                 THEN Drop(U[k - 1], IndexIn(s, U[k - 1]))
                 ELSE U[k - 1]
    IN  U[n]

\* and unlists it once for each channel it was made for, under the hub's lock
CleanerRemoves(s) ==
    /\ cleaner[s] = "removing"
    /\ subscribers' = [ch \in Channels |->
            Unlisted(subscribers[ch], s, Times(ch, channelsOf[s]))]
    /\ cleaner' = [cleaner EXCEPT ![s] = "gone"]
    /\ UNCHANGED <<channelsOf, box, closed, publisher, sseVars, hubVars>>

\* Publish copies the list; with nobody listed it is done
Publish(p) ==
    /\ publisher[p].rest = <<>>
    /\ publisher[p].n < MaxMessages[p]
    /\ publisher' = [publisher EXCEPT ![p] = [n |-> @.n + 1, rest |-> subscribers[Topic[p]]]]
    /\ UNCHANGED <<subscribers, channelsOf, box, closed, cleaner, sseVars, hubVars>>

\* and sends to each in turn, without waiting for room
Send(p) ==
    LET s == Head(publisher[p].rest)
        msg == [from |-> p, n |-> publisher[p].n]
    IN  /\ publisher[p].rest # <<>>
        /\ box' = [box EXCEPT ![s] =
                IF closed[s] \/ Len(@) = BoxCap THEN @ ELSE Append(@, msg)]
        /\ publisher' = [publisher EXCEPT ![p].rest = Tail(@)]
        /\ UNCHANGED <<subscribers, channelsOf, closed, cleaner, sseVars, hubVars>>

----------------------------------------------------------------------------
(* SSEHandler.HandleSSE *)

Connect(s) ==
    /\ stream[s] = "idle"
    /\ stored' = s
    /\ stream' = [stream EXCEPT ![s] = "stored"]
    /\ UNCHANGED <<left, received, pubsubVars, hubVars>>

\* the symbol of a price topic is taken from the request stored last
OpenStream(s) ==
    /\ stream[s] = "stored"
    /\ Subscribe(s, StreamChannels[<<s, stored>>])
    /\ stream' = [stream EXCEPT ![s] = "open"]
    /\ UNCHANGED <<stored, left, received, hubVars>>

\* the browser goes away: net/http cancels the request's context
Disconnect(s) ==
    /\ stream[s] \in {"stored", "open"}
    /\ ~left[s]
    /\ left' = [left EXCEPT ![s] = TRUE]
    /\ UNCHANGED <<stored, stream, received, pubsubVars, hubVars>>

\* a message is taken, before or after the channel was closed, and sent; all that
\* is published is a Message and parses
Forward(s) ==
    /\ stream[s] = "open"
    /\ box[s] # <<>>
    /\ box' = [box EXCEPT ![s] = Tail(@)]
    /\ received' = [received EXCEPT ![s][Head(box[s]).from] =
            IF @ < Head(box[s]).n THEN Head(box[s]).n ELSE MaxMessages[Head(box[s]).from] + 1]
    /\ UNCHANGED <<subscribers, channelsOf, closed, cleaner, publisher, stored, stream, left, hubVars>>

\* the handler sees its context end and closes the subscription on its way out
StreamReturns(s) ==
    /\ stream[s] = "open"
    /\ left[s]
    /\ closed' = [closed EXCEPT ![s] = TRUE]
    /\ stream' = [stream EXCEPT ![s] = "gone"]
    /\ UNCHANGED <<subscribers, channelsOf, box, cleaner, publisher, stored, left, received, hubVars>>

----------------------------------------------------------------------------
(* Hub.Run, its clients and their pumps. *)

SetSocket(c, v) == socket' = [socket EXCEPT ![c] = v]

\* HandleWebSocket upgrades the connection and offers the client to the hub; one
\* whose upgrade fails never becomes a client
Dial(c) ==
    /\ socket[c].conn = "none"
    /\ SetSocket(c, [socket[c] EXCEPT !.conn = "registering"])
    /\ UNCHANGED <<clients, connections, crashed, pubsubVars, sseVars>>

\* the hub takes it; the handler goes on to start the pumps
Register(c) ==
    /\ socket[c].conn = "registering"
    /\ clients' = clients \cup {c}
    /\ connections' = connections + 1
    /\ SetSocket(c, [socket[c] EXCEPT !.conn = "open", !.reader = "reading", !.writer = "writing"])
    /\ UNCHANGED <<crashed, pubsubVars, sseVars>>

\* close(client.send): a second close panics and takes the process down
CloseSend(gone) ==
    /\ socket' = [c \in Sockets |->
            IF c \in gone THEN [socket[c] EXCEPT !.closed = TRUE] ELSE socket[c]]
    /\ crashed' = IF \E c \in gone : socket[c].closed THEN "panic" ELSE crashed

\* Mutant: the hub closes the channel of every client that unregisters
UnregisterAlways(c) ==
    /\ socket[c].reader = "unregistering"
    /\ clients' = clients \ {c}
    /\ connections' = connections - 1
    /\ socket' = [socket EXCEPT ![c].closed = TRUE, ![c].reader = "stopped", ![c].conn = "closed"]
    /\ crashed' = IF socket[c].closed THEN "panic" ELSE crashed
    /\ UNCHANGED <<pubsubVars, sseVars>>

\* Mutant: a client the hub already gave up on is not counted down
UnregisterListed(c) ==
    /\ socket[c].reader = "unregistering"
    /\ clients' = clients \ {c}
    /\ connections' = IF c \in clients THEN connections - 1 ELSE connections
    /\ socket' = [socket EXCEPT ![c].closed = TRUE, ![c].reader = "stopped", ![c].conn = "closed"]
    /\ UNCHANGED <<crashed, pubsubVars, sseVars>>

\* the read pump's last act, and the hub's: the channel is closed only if the
\* client is still in the map
Unregister(c) ==
    /\ socket[c].reader = "unregistering"
    /\ clients' = clients \ {c}
    /\ connections' = connections - 1
    /\ socket' = [socket EXCEPT ![c].closed = (@ \/ c \in clients),
                                ![c].reader = "stopped", ![c].conn = "closed"]
    /\ crashed' = IF c \in clients /\ socket[c].closed THEN "panic" ELSE crashed
    /\ UNCHANGED <<pubsubVars, sseVars>>

\* handleMockMessage and broadcastToClients: every subscribed client gets the
\* message; one without room is dropped.  The read lock keeps the map's owners
\* out, not the read pumps that write a client's topics: the run-time may
\* notice and abort.
Broadcast ==
    LET msg == Head(box[Hub])
        wanted == {c \in clients : Topic[msg.from] \in socket[c].topics}
        slow == {c \in wanted : Len(socket[c].send) = SendCap}
    IN  /\ box[Hub] # <<>>
        /\ box' = [box EXCEPT ![Hub] = Tail(@)]
        /\ \/ /\ clients' = clients \ slow
              /\ socket' = [c \in Sockets |->
                    IF c \in slow THEN [socket[c] EXCEPT !.closed = TRUE]
                    ELSE IF c \in wanted THEN [socket[c] EXCEPT !.send = Append(@, Topic[msg.from])]
                    ELSE socket[c]]
              /\ crashed' = IF \E c \in wanted : socket[c].closed THEN "panic" ELSE crashed
           \/ /\ \E c \in clients : socket[c].updating
              /\ crashed' = "race"
              /\ UNCHANGED <<clients, socket>>
        /\ UNCHANGED <<connections, subscribers, channelsOf, closed, cleaner, publisher, sseVars>>

\* a minute without a message from the client
FallsIdle(c) ==
    /\ c \in clients
    /\ ~socket[c].idle
    /\ SetSocket(c, [socket[c] EXCEPT !.idle = TRUE])
    /\ UNCHANGED <<clients, connections, crashed, pubsubVars, sseVars>>

\* cleanupInactiveClients, every thirty seconds
CleanupInactive ==
    LET gone == {c \in clients : socket[c].idle}
    IN  /\ gone # {}
        /\ clients' = clients \ gone
        /\ CloseSend(gone)
        /\ UNCHANGED <<connections, pubsubVars, sseVars>>

\* A subscription message: the read pump marks the client active and changes its
\* topics, without a lock.
StartUpdate(c) ==
    /\ socket[c].reader = "reading" /\ socket[c].conn = "open"
    /\ ~socket[c].updating
    /\ SetSocket(c, [socket[c] EXCEPT !.updating = TRUE, !.idle = FALSE])
    /\ UNCHANGED <<clients, connections, crashed, pubsubVars, sseVars>>

EndUpdate(c, topics) ==
    /\ socket[c].updating
    /\ SetSocket(c, [socket[c] EXCEPT !.updating = FALSE, !.topics = topics])
    /\ UNCHANGED <<clients, connections, crashed, pubsubVars, sseVars>>

\* ReadMessage fails: the peer left, its pongs stopped, or the write pump closed
\* the connection
ReadFails(c) ==
    /\ socket[c].reader = "reading" /\ ~socket[c].updating
    /\ SetSocket(c, [socket[c] EXCEPT !.reader = "unregistering"])
    /\ UNCHANGED <<clients, connections, crashed, pubsubVars, sseVars>>

\* the write pump takes what is queued
Write(c) ==
    /\ socket[c].writer = "writing"
    /\ socket[c].send # <<>>
    /\ \/ SetSocket(c, [socket[c] EXCEPT !.send = <<>>])
       \/ SetSocket(c, [socket[c] EXCEPT !.send = Tail(@), !.writer = "stopped", !.conn = "closed"])
    /\ UNCHANGED <<clients, connections, crashed, pubsubVars, sseVars>>

\* Mutant: the write pump returns and leaves the connection open
WriterForgetsConn(c) ==
    /\ socket[c].writer = "writing"
    /\ socket[c].closed /\ socket[c].send = <<>>
    /\ SetSocket(c, [socket[c] EXCEPT !.writer = "stopped"])
    /\ UNCHANGED <<clients, connections, crashed, pubsubVars, sseVars>>

\* or finds the channel closed and closes the connection
WriterReturns(c) ==
    /\ socket[c].writer = "writing"
    /\ socket[c].closed /\ socket[c].send = <<>>
    /\ SetSocket(c, [socket[c] EXCEPT !.writer = "stopped", !.conn = "closed"])
    /\ UNCHANGED <<clients, connections, crashed, pubsubVars, sseVars>>

\* a ping cannot be written
PingFails(c) ==
    /\ socket[c].writer = "writing"
    /\ SetSocket(c, [socket[c] EXCEPT !.writer = "stopped", !.conn = "closed"])
    /\ UNCHANGED <<clients, connections, crashed, pubsubVars, sseVars>>

----------------------------------------------------------------------------
Init ==
    /\ channelsOf = [s \in PubSubs |-> IF s = Hub THEN HubChannels ELSE <<>>]
    /\ subscribers = [ch \in Channels |-> [i \in 1 .. Times(ch, HubChannels) |-> Hub]]
    /\ box = [s \in PubSubs |-> <<>>]
    /\ closed = [s \in PubSubs |-> FALSE]
    /\ cleaner = [s \in PubSubs |-> IF s = Hub THEN "waiting" ELSE "none"]
    /\ publisher = [p \in Publishers |-> [n |-> 0, rest |-> <<>>]]
    /\ stored = None
    /\ stream = [s \in Streams |-> "idle"]
    /\ left = [s \in Streams |-> FALSE]
    /\ received = [s \in Streams |-> [p \in Publishers |-> 0]]
    /\ clients = {}
    /\ connections = 0
    /\ socket = [c \in Sockets |-> NewSocket]
    /\ crashed = None

StreamNext(s) ==
    Connect(s) \/ OpenStream(s) \/ Disconnect(s) \/ Forward(s) \/ StreamReturns(s)
    \/ CleanerWakes(s) \/ CleanerRemoves(s)

SocketNext(c) ==
    \/ Dial(c) \/ Register(c) \/ Unregister(c) \/ FallsIdle(c) \/ StartUpdate(c)
    \/ \E topics \in SUBSET HubTopics : EndUpdate(c, topics)
    \/ ReadFails(c) \/ Write(c) \/ WriterReturns(c) \/ PingFails(c)

Next ==
    /\ crashed = None
    /\ \/ \E s \in Streams : StreamNext(s)
       \/ \E c \in Sockets : SocketNext(c)
       \/ \E p \in Publishers : Publish(p) \/ Send(p)
       \/ Broadcast \/ CleanupInactive

Spec == Init /\ [][Next]_vars

\* Goroutines that can take a step do: the handler, the cleanup goroutine, the
\* hub's loop and the pumps.  A read pump is bound to fail once its connection
\* is closed; publishers, browsers and timers owe nothing.
FairSpec ==
    /\ Spec
    /\ \A s \in Streams :
        /\ WF_vars(crashed = None /\ (OpenStream(s) \/ StreamReturns(s)))
        /\ WF_vars(crashed = None /\ (CleanerWakes(s) \/ CleanerRemoves(s)))
    /\ \A c \in Sockets :
        /\ WF_vars(crashed = None /\ Unregister(c))
        /\ WF_vars(crashed = None /\ (\E topics \in SUBSET HubTopics : EndUpdate(c, topics)))
        /\ WF_vars(crashed = None /\ socket[c].conn = "closed" /\ ReadFails(c))
        /\ WF_vars(crashed = None /\ (Write(c) \/ WriterReturns(c)))

----------------------------------------------------------------------------
(* Properties *)

\* No client's send channel is written to or closed after it was closed, although
\* the unregistration, the broadcast and the cleanup may each give up on the
\* client: the process never panics (Run, broadcastToClients,
\* cleanupInactiveClients).
NeverPanics == crashed # "panic"

\* The connection gauge counts the clients that registered and whose read pump
\* has not unregistered, also for those dropped as slow or idle in between
\* (IncrementConnections, DecrementConnections in Run).
ConnectionsCounted ==
    connections = Cardinality({c \in Sockets : socket[c].reader \in {"reading", "unregistering"}})

\* A stream whose query maps to a channel once is sent the messages of each of
\* its publishers in the order they were published and none of them twice,
\* however several publishers overtake each other and whatever is dropped; between
\* two publishers there is no order (Publish, sendMessage, handleMockPubSub).
InOrderOnce ==
    \A s \in Streams, p \in Publishers :
        Times(Topic[p], channelsOf[s]) = 1 => received[s][p] <= MaxMessages[p]

\* After a browser has gone its subscription is unlisted from every channel for
\* good, whichever of the handler and the cleanup goroutine closes it first.
LeftIsUnlisted ==
    \A s \in Streams :
        (left[s] /\ stream[s] = "gone")
            ~> (crashed # None \/ [](\A ch \in Channels : ~Listed(s, ch)))

\* A client the hub has given up on loses its connection and its read pump ends.
DroppedIsStopped ==
    \A c \in Sockets :
        socket[c].closed ~> (crashed # None \/ (socket[c].reader = "stopped" /\ socket[c].conn = "closed"))

=============================================================================
