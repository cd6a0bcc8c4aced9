--------------------------- MODULE LivePushProofs ---------------------------
(***************************************************************************)
(* The WebSocket hub never closes or uses a closed send channel and counts *)
(* its connections right, and a stream is sent each channel's messages in  *)
(* order and once and unlisted for good, for any number of clients,        *)
(* streams, channels and messages.                                         *)
(***************************************************************************)
EXTENDS LivePush, SumTheorems, FiniteSetTheorems, TLAPS

\* a socket keeps its fields, whatever their values
SocketOver(S) == [conn : S, reader : S, writer : S, topics : S,
                  updating : S, idle : S, send : S, closed : S]

IsSocket(v) == \E S : v \in SocketOver(S)

\* The hub has not seen a connection that is not registered, and a client in the
\* map has an open send channel.
Stage(c) ==
    /\ socket[c].conn \in {"none", "registering"} =>
            socket[c].reader = "none" /\ ~socket[c].closed /\ c \notin clients
    /\ c \in clients => ~socket[c].closed

(***************************************************************************)
(* NeverPanics is not inductive: that a client is closed only once rests   *)
(* on its leaving the map in the same step, for good.                      *)
(***************************************************************************)
HubInv ==
    /\ socket = [c \in Sockets |-> socket[c]]
    /\ clients \subseteq Sockets
    /\ \A c \in Sockets : IsSocket(socket[c]) /\ Stage(c)
    /\ crashed # "panic"

\* the clients whose read pump has not unregistered
Live == {c \in Sockets : socket[c].reader \in {"reading", "unregistering"}}

-----------------------------------------------------------------------------
\* A step of one client that keeps it in its stage keeps the invariant.
LEMMA OneSocket ==
    ASSUME HubInv, NEW c \in Sockets, NEW v, SetSocket(c, v), IsSocket(v),
           UNCHANGED <<clients, crashed>>,
           v.closed = socket[c].closed,
           v.conn \in {"none", "registering"} =>
                socket[c].conn \in {"none", "registering"} /\ v.reader = socket[c].reader
    PROVE  HubInv'
<1>1. socket'[c] = v /\ \A d \in Sockets : d # c => socket'[d] = socket[d]
    BY DEF HubInv, SetSocket
<1>2. socket' = [d \in Sockets |-> socket'[d]]
    BY DEF HubInv, SetSocket
<1>3. ASSUME NEW d \in Sockets
      PROVE  IsSocket(socket'[d])
    BY <1>1 DEF HubInv
<1>4. ASSUME NEW d \in Sockets
      PROVE  Stage(d)'
    BY <1>1 DEF HubInv, Stage
<1> QED
    BY <1>2, <1>3, <1>4 DEF HubInv

\* and the count of those that are live, if it neither begins nor ends its reading.
LEMMA SameLive ==
    ASSUME HubInv, NEW c \in Sockets, NEW v, SetSocket(c, v),
           v.reader \in {"reading", "unregistering"} <=> socket[c].reader \in {"reading", "unregistering"}
    PROVE  Live' = Live
<1>1. socket'[c] = v /\ \A d \in Sockets : d # c => socket'[d] = socket[d]
    BY DEF HubInv, SetSocket
<1> QED
    BY <1>1 DEF Live

\* What a client's pumps, its browser and the timers do by themselves.
LEMMA PumpStep ==
    ASSUME HubInv, NEW c \in Sockets,
           \/ Dial(c) \/ FallsIdle(c) \/ StartUpdate(c) \/ ReadFails(c) \/ Write(c)
           \/ WriterReturns(c) \/ PingFails(c) \/ \E topics \in SUBSET HubTopics : EndUpdate(c, topics)
    PROVE  HubInv' /\ Live' = Live /\ connections' = connections
<1>1. PICK S : socket[c] \in SocketOver(S)
    BY DEF HubInv, IsSocket
<1>2. ASSUME NEW v, SetSocket(c, v), UNCHANGED <<clients, connections, crashed>>,
             NEW T, v \in SocketOver(T),
             v.closed = socket[c].closed,
             v.conn \in {"none", "registering"} =>
                socket[c].conn \in {"none", "registering"} /\ v.reader = socket[c].reader,
             v.reader \in {"reading", "unregistering"} <=> socket[c].reader \in {"reading", "unregistering"}
      PROVE  HubInv' /\ Live' = Live /\ connections' = connections
    BY <1>2, OneSocket, SameLive DEF IsSocket
<1>3. CASE Dial(c)
  <2> DEFINE v == [socket[c] EXCEPT !.conn = "registering"]
  <2>1. v \in SocketOver(S \cup {"registering"}) /\ v.closed = socket[c].closed /\ v.conn = "registering" /\ v.reader = socket[c].reader
      BY <1>1 DEF SocketOver
  <2>2. SetSocket(c, v) /\ UNCHANGED <<clients, connections, crashed>> /\ socket[c].conn = "none"
      BY <1>3 DEF Dial
  <2> HIDE DEF v
  <2> QED
      BY <1>2, <2>1, <2>2
<1>4. CASE FallsIdle(c)
  <2> DEFINE v == [socket[c] EXCEPT !.idle = TRUE]
  <2>1. /\ v \in SocketOver(S \cup {TRUE}) /\ v.closed = socket[c].closed /\ v.conn = socket[c].conn
        /\ v.reader = socket[c].reader
      BY <1>1 DEF SocketOver
  <2>2. SetSocket(c, v) /\ UNCHANGED <<clients, connections, crashed>>
      BY <1>4 DEF FallsIdle
  <2> HIDE DEF v
  <2> QED
      BY <1>2, <2>1, <2>2
<1>5. CASE StartUpdate(c)
  <2> DEFINE v == [socket[c] EXCEPT !.updating = TRUE, !.idle = FALSE]
  <2>1. /\ v \in SocketOver(S \cup {TRUE, FALSE}) /\ v.closed = socket[c].closed /\ v.conn = socket[c].conn
        /\ v.reader = socket[c].reader
      BY <1>1 DEF SocketOver
  <2>2. SetSocket(c, v) /\ UNCHANGED <<clients, connections, crashed>>
      BY <1>5 DEF StartUpdate
  <2> HIDE DEF v
  <2> QED
      BY <1>2, <2>1, <2>2
<1>6. ASSUME NEW topics, EndUpdate(c, topics)
      PROVE  HubInv' /\ Live' = Live /\ connections' = connections
  <2> DEFINE v == [socket[c] EXCEPT !.updating = FALSE, !.topics = topics]
  <2>1. /\ v \in SocketOver(S \cup {FALSE, topics}) /\ v.closed = socket[c].closed /\ v.conn = socket[c].conn
        /\ v.reader = socket[c].reader
      BY <1>1 DEF SocketOver
  <2>2. SetSocket(c, v) /\ UNCHANGED <<clients, connections, crashed>>
      BY <1>6 DEF EndUpdate
  <2> HIDE DEF v
  <2> QED
      BY <1>2, <2>1, <2>2
<1>7. CASE ReadFails(c)
  <2> DEFINE v == [socket[c] EXCEPT !.reader = "unregistering"]
  <2>1. /\ v \in SocketOver(S \cup {"unregistering"}) /\ v.closed = socket[c].closed /\ v.conn = socket[c].conn
        /\ v.reader = "unregistering"
      BY <1>1 DEF SocketOver
  <2>2. SetSocket(c, v) /\ UNCHANGED <<clients, connections, crashed>> /\ socket[c].reader = "reading"
      BY <1>7 DEF ReadFails
  <2>3. socket[c].conn \notin {"none", "registering"}
      BY <2>2 DEF HubInv, Stage
  <2> HIDE DEF v
  <2> QED
      BY <1>2, <2>1, <2>2, <2>3
<1>8. CASE Write(c)
  <2> DEFINE v == [socket[c] EXCEPT !.send = <<>>]
             w == [socket[c] EXCEPT !.send = Tail(@), !.writer = "stopped", !.conn = "closed"]
  <2>1. /\ v \in SocketOver(S \cup {<<>>}) /\ v.closed = socket[c].closed /\ v.conn = socket[c].conn
        /\ v.reader = socket[c].reader
      BY <1>1 DEF SocketOver
  <2>2. /\ w \in SocketOver(S \cup {Tail(socket[c].send), "stopped", "closed"}) /\ w.closed = socket[c].closed /\ w.conn = "closed"
        /\ w.reader = socket[c].reader
      BY <1>1 DEF SocketOver
  <2>3. SetSocket(c, v) \/ SetSocket(c, w)
      BY <1>8 DEF Write
  <2>4. UNCHANGED <<clients, connections, crashed>>
      BY <1>8 DEF Write
  <2> HIDE DEF v, w
  <2> QED
      BY <1>2, <2>1, <2>2, <2>3, <2>4
<1>9. CASE WriterReturns(c) \/ PingFails(c)
  <2> DEFINE v == [socket[c] EXCEPT !.writer = "stopped", !.conn = "closed"]
  <2>1. /\ v \in SocketOver(S \cup {"stopped", "closed"}) /\ v.closed = socket[c].closed /\ v.conn = "closed"
        /\ v.reader = socket[c].reader
      BY <1>1 DEF SocketOver
  <2>2. SetSocket(c, v) /\ UNCHANGED <<clients, connections, crashed>>
      BY <1>9 DEF WriterReturns, PingFails
  <2> HIDE DEF v
  <2> QED
      BY <1>2, <2>1, <2>2
<1> QED
    BY <1>3, <1>4, <1>5, <1>6, <1>7, <1>8, <1>9

\* The hub takes a client in: it is live from now on.
LEMMA RegisterStep ==
    ASSUME HubInv, NEW c \in Sockets, Register(c)
    PROVE  HubInv' /\ c \notin Live /\ Live' = Live \cup {c}
<1> DEFINE v == [socket[c] EXCEPT !.conn = "open", !.reader = "reading", !.writer = "writing"]
<1>1. IsSocket(v) /\ v.closed = socket[c].closed /\ v.conn = "open" /\ v.reader = "reading"
  <2>1. PICK S : socket[c] \in SocketOver(S)
      BY DEF HubInv, IsSocket
  <2>2. v \in SocketOver(S \cup {"open", "reading", "writing"})
      BY <2>1 DEF SocketOver
  <2>3. v.closed = socket[c].closed /\ v.conn = "open" /\ v.reader = "reading"
      BY <2>1 DEF SocketOver
  <2> QED
      BY <2>2, <2>3 DEF IsSocket
<1>2. SetSocket(c, v) /\ clients' = clients \cup {c} /\ crashed' = crashed
    BY DEF Register
<1>3. socket[c].reader = "none" /\ ~socket[c].closed
    BY DEF Register, HubInv, Stage
<1> HIDE DEF v
<1>4. socket'[c] = v /\ \A d \in Sockets : d # c => socket'[d] = socket[d]
    BY <1>2 DEF HubInv, SetSocket
<1>5. socket' = [d \in Sockets |-> socket'[d]]
    BY <1>2 DEF HubInv, SetSocket
<1>6. ASSUME NEW d \in Sockets
      PROVE  IsSocket(socket'[d])
    BY <1>1, <1>4 DEF HubInv
<1>7. ASSUME NEW d \in Sockets
      PROVE  Stage(d)'
    BY <1>1, <1>2, <1>3, <1>4 DEF HubInv, Stage
<1>8. HubInv'
    BY <1>2, <1>5, <1>6, <1>7 DEF HubInv
<1>9. c \notin Live /\ Live' = Live \cup {c}
    BY <1>1, <1>3, <1>4 DEF Live
<1> QED
    BY <1>8, <1>9

\* The hub lets a client go: its channel is closed unless that was done before.
LEMMA UnregisterStep ==
    ASSUME HubInv, NEW c \in Sockets, Unregister(c)
    PROVE  HubInv' /\ c \in Live /\ Live' = Live \ {c}
<1> DEFINE v == [socket[c] EXCEPT !.closed = (@ \/ c \in clients), !.reader = "stopped", !.conn = "closed"]
<1>1. IsSocket(v) /\ v.conn = "closed" /\ v.reader = "stopped"
  <2>1. PICK S : socket[c] \in SocketOver(S)
      BY DEF HubInv, IsSocket
  <2>2. v \in SocketOver(S \cup {TRUE, FALSE, "stopped", "closed"})
      BY <2>1 DEF SocketOver
  <2>3. v.conn = "closed" /\ v.reader = "stopped"
      BY <2>1 DEF SocketOver
  <2> QED
      BY <2>2, <2>3 DEF IsSocket
<1>2. socket' = [socket EXCEPT ![c] = v] /\ clients' = clients \ {c}
    BY DEF Unregister
<1>3. crashed' = crashed
    BY DEF Unregister, HubInv, Stage
<1> HIDE DEF v
<1>4. socket'[c] = v /\ \A d \in Sockets : d # c => socket'[d] = socket[d]
    BY <1>2 DEF HubInv
<1>5. socket' = [d \in Sockets |-> socket'[d]]
    BY <1>2 DEF HubInv
<1>6. ASSUME NEW d \in Sockets
      PROVE  IsSocket(socket'[d])
    BY <1>1, <1>4 DEF HubInv
<1>7. ASSUME NEW d \in Sockets
      PROVE  Stage(d)'
    BY <1>1, <1>2, <1>4 DEF HubInv, Stage
<1>8. HubInv'
    BY <1>2, <1>3, <1>5, <1>6, <1>7 DEF HubInv
<1>9. c \in Live /\ Live' = Live \ {c}
    BY <1>1, <1>4 DEF Live, Unregister
<1> QED
    BY <1>8, <1>9

\* The channels of clients that leave the map are closed, whoever takes them out.
LEMMA DropStep ==
    ASSUME HubInv, NEW gone \in SUBSET clients, NEW wanted \in SUBSET (clients \ gone), NEW msg,
           clients' = clients \ gone, crashed' # "panic",
           socket' = [c \in Sockets |->
                IF c \in gone THEN [socket[c] EXCEPT !.closed = TRUE]
                ELSE IF c \in wanted THEN [socket[c] EXCEPT !.send = Append(@, msg)]
                ELSE socket[c]]
    PROVE  HubInv' /\ Live' = Live
<1>1. ASSUME NEW c \in Sockets
      PROVE  /\ IsSocket(socket'[c])
             /\ socket'[c].conn = socket[c].conn /\ socket'[c].reader = socket[c].reader
             /\ c \notin gone => socket'[c].closed = socket[c].closed
  <2>1. PICK S : socket[c] \in SocketOver(S)
      BY DEF HubInv, IsSocket
  <2>2. CASE c \in gone
    <3> DEFINE v == [socket[c] EXCEPT !.closed = TRUE]
    <3>1. v \in SocketOver(S \cup {TRUE}) /\ v.conn = socket[c].conn /\ v.reader = socket[c].reader
        BY <2>1 DEF SocketOver
    <3>2. socket'[c] = v
        BY <2>2
    <3> HIDE DEF v
    <3> QED
        BY <2>2, <3>1, <3>2 DEF IsSocket
  <2>3. CASE c \notin gone /\ c \in wanted
    <3> DEFINE v == [socket[c] EXCEPT !.send = Append(@, msg)]
    <3>1. v \in SocketOver(S \cup {Append(socket[c].send, msg)})
        BY <2>1 DEF SocketOver
    <3>2. v.conn = socket[c].conn /\ v.reader = socket[c].reader /\ v.closed = socket[c].closed
        BY <2>1 DEF SocketOver
    <3>3. socket'[c] = v
        BY <2>3
    <3> HIDE DEF v
    <3> QED
        BY <3>1, <3>2, <3>3 DEF IsSocket
  <2>4. CASE c \notin gone /\ c \notin wanted
    <3>1. socket'[c] = socket[c]
        BY <2>4
    <3> QED
        BY <2>1, <3>1 DEF IsSocket
  <2> QED
      BY <2>2, <2>3, <2>4
<1>2. socket' = [c \in Sockets |-> socket'[c]]
    OBVIOUS
<1>3. ASSUME NEW c \in Sockets
      PROVE  Stage(c)'
    BY <1>1 DEF HubInv, Stage
<1>4. HubInv'
    BY <1>1, <1>2, <1>3 DEF HubInv
<1>5. Live' = Live
    BY <1>1 DEF Live
<1> QED
    BY <1>4, <1>5

\* A message sent to every client that wants it, or a crash that is no panic.
LEMMA BroadcastStep ==
    ASSUME HubInv, Broadcast
    PROVE  HubInv' /\ Live' = Live /\ connections' = connections
<1> DEFINE msg == Topic[Head(box[Hub]).from]
           wanted == {c \in clients : msg \in socket[c].topics}
           slow == {c \in wanted : Len(socket[c].send) = SendCap}
<1>1. CASE crashed' = "race" /\ UNCHANGED <<clients, socket>>
    BY <1>1 DEF HubInv, IsSocket, Stage, Live, Broadcast
<1>2. CASE /\ clients' = clients \ slow
           /\ socket' = [c \in Sockets |->
                    IF c \in slow THEN [socket[c] EXCEPT !.closed = TRUE]
                    ELSE IF c \in wanted THEN [socket[c] EXCEPT !.send = Append(@, msg)]
                    ELSE socket[c]]
           /\ crashed' = IF \E c \in wanted : socket[c].closed THEN "panic" ELSE crashed
  <2>1. slow \in SUBSET clients /\ wanted \ slow \in SUBSET (clients \ slow)
      OBVIOUS
  <2>2. crashed' # "panic"
      BY <1>2 DEF HubInv, Stage
  <2> HIDE DEF msg, slow, wanted
  <2>3. socket' = [c \in Sockets |->
                    IF c \in slow THEN [socket[c] EXCEPT !.closed = TRUE]
                    ELSE IF c \in wanted \ slow THEN [socket[c] EXCEPT !.send = Append(@, msg)]
                    ELSE socket[c]]
      BY <1>2
  <2>4. clients' = clients \ slow /\ connections' = connections
      BY <1>2 DEF Broadcast
  <2> QED
      BY <2>1, <2>2, <2>3, <2>4, DropStep
<1> QED
    BY <1>1, <1>2 DEF Broadcast

\* Clients that fell silent are dropped.
LEMMA CleanupStep ==
    ASSUME HubInv, CleanupInactive
    PROVE  HubInv' /\ Live' = Live /\ connections' = connections
<1> DEFINE gone == {c \in clients : socket[c].idle}
<1>1. gone \in SUBSET clients /\ {} \in SUBSET (clients \ gone)
    OBVIOUS
<1>2. clients' = clients \ gone /\ connections' = connections
    BY DEF CleanupInactive
<1>3. crashed' # "panic"
    BY DEF CleanupInactive, CloseSend, HubInv, Stage
<1>4. socket' = [c \in Sockets |->
                  IF c \in gone THEN [socket[c] EXCEPT !.closed = TRUE]
                  ELSE IF c \in {} THEN [socket[c] EXCEPT !.send = Append(@, None)]
                  ELSE socket[c]]
    BY DEF CleanupInactive, CloseSend
<1> HIDE DEF gone
<1> QED
    BY <1>1, <1>2, <1>3, <1>4, DropStep

\* Publishers and streams do not touch the clients.
LEMMA ElsewhereStep ==
    ASSUME HubInv,
           \/ UNCHANGED vars
           \/ \E s \in Streams : StreamNext(s)
           \/ \E p \in Publishers : Publish(p) \/ Send(p)
    PROVE  HubInv' /\ Live' = Live /\ connections' = connections
<1>1. UNCHANGED hubVars
    BY DEF vars, StreamNext, Connect, OpenStream, Disconnect, Forward, StreamReturns, CleanerWakes,
           CleanerRemoves, Publish, Send, hubVars
<1> QED
    BY <1>1 DEF hubVars, HubInv, Stage, Live

\* The hub starts without clients.
LEMMA HubInvInit == Init => HubInv
<1> SUFFICES ASSUME Init
             PROVE  HubInv
    OBVIOUS
<1>1. NewSocket \in SocketOver({"none", {}, TRUE, FALSE, <<>>})
    BY DEF NewSocket, SocketOver
<1>2. NewSocket.conn = "none" /\ NewSocket.reader = "none" /\ ~NewSocket.closed
    BY DEF NewSocket
<1>3. /\ socket = [c \in Sockets |-> NewSocket] /\ clients = {} /\ crashed = None
    BY DEF Init
<1> QED
    BY <1>1, <1>2, <1>3, PushAssumption DEF HubInv, IsSocket, Stage

\* Every step keeps the clients in their stages.
LEMMA HubInvStep == HubInv /\ [Next]_vars => HubInv'
<1> SUFFICES ASSUME HubInv, [Next]_vars
             PROVE  HubInv'
    OBVIOUS
<1>1. ASSUME NEW c \in Sockets, SocketNext(c)
      PROVE  HubInv'
    BY <1>1, PumpStep, RegisterStep, UnregisterStep DEF SocketNext
<1> QED
    BY <1>1, BroadcastStep, CleanupStep, ElsewhereStep DEF Next

\* No client's send channel is closed twice or sent to after it was closed, for any
\* number of clients: the process never panics, although the unregistration, the
\* broadcast and the cleanup may each give up on a client (Run, broadcastToClients,
\* cleanupInactiveClients).
THEOREM HubNeverPanics == Spec => []NeverPanics
<1>1. HubInv => NeverPanics
    BY DEF HubInv, NeverPanics
<1> QED
    BY <1>1, HubInvInit, HubInvStep, PTL DEF Spec

-----------------------------------------------------------------------------
(* The connection gauge. *)

\* Only registration and unregistration move the gauge, each with one live client.
LEMMA CountStep == HubInv /\ ConnectionsCounted /\ [Next]_vars => ConnectionsCounted'
<1> SUFFICES ASSUME HubInv, ConnectionsCounted, [Next]_vars
             PROVE  ConnectionsCounted'
    OBVIOUS
<1>1. IsFiniteSet(Live) /\ connections = Cardinality(Live)
  <2>1. Live \subseteq Sockets
      BY DEF Live
  <2> QED
      BY <2>1, PushAssumption, FS_Subset DEF ConnectionsCounted, Live
<1>2. Cardinality(Live) \in Nat
    BY <1>1, FS_CardinalityType
<1>3. SUFFICES connections' = Cardinality(Live')
    BY DEF ConnectionsCounted, Live
<1>4. ASSUME NEW c \in Sockets, SocketNext(c)
      PROVE  connections' = Cardinality(Live')
  <2>1. CASE Register(c)
    <3>1. c \notin Live /\ Live' = Live \cup {c} /\ connections' = connections + 1
        BY <2>1, RegisterStep DEF Register
    <3> QED
        BY <1>1, <3>1, FS_AddElement
  <2>2. CASE Unregister(c)
    <3>1. c \in Live /\ Live' = Live \ {c} /\ connections' = connections - 1
        BY <2>2, UnregisterStep DEF Unregister
    <3> QED
        BY <1>1, <3>1, FS_RemoveElement
  <2>3. CASE ~Register(c) /\ ~Unregister(c)
    <3>1. Live' = Live /\ connections' = connections
        BY <1>4, <2>3, PumpStep DEF SocketNext
    <3> QED
        BY <1>1, <3>1
  <2> QED
      BY <2>1, <2>2, <2>3
<1> QED
    BY <1>1, <1>4, BroadcastStep, CleanupStep, ElsewhereStep DEF Next

\* The connection gauge is the number of clients that registered and whose read pump
\* has not unregistered, for any number of clients (IncrementConnections,
\* DecrementConnections in Run).
THEOREM HubConnectionsCounted == Spec => []ConnectionsCounted
<1>1. Init => ConnectionsCounted
  <2> SUFFICES ASSUME Init
               PROVE  ConnectionsCounted
      OBVIOUS
  <2>1. \A c \in Sockets : socket[c].reader = "none"
      BY DEF Init, NewSocket
  <2>2. Live = {} /\ connections = 0
      BY <2>1 DEF Init, Live
  <2> QED
      BY <2>2, FS_EmptySet DEF ConnectionsCounted, Live
<1> QED
    BY <1>1, HubInvInit, HubInvStep, CountStep, PTL DEF Spec

-----------------------------------------------------------------------------
(* Delivery in order.  Lists in which a subscription is or is not. *)

In(s, seq) == \E i \in 1 .. Len(seq) : seq[i] = s

Once(s, seq) == \A i, j \in 1 .. Len(seq) : seq[i] = s /\ seq[j] = s => i = j

\* The rest of a list lists nobody anew and nobody twice, and no longer the one at
\* its head if he was there once.
LEMMA TailLists ==
    ASSUME NEW S, NEW seq \in Seq(S), seq # <<>>
    PROVE  /\ Tail(seq) \in Seq(S)
           /\ \A t : In(t, Tail(seq)) => In(t, seq)
           /\ \A t : Once(t, seq) => Once(t, Tail(seq))
           /\ Once(Head(seq), seq) => ~In(Head(seq), Tail(seq))
<1>1. /\ Tail(seq) \in Seq(S) /\ Len(Tail(seq)) = Len(seq) - 1 /\ Len(seq) \in Nat \ {0}
      /\ \A i \in 1 .. Len(seq) - 1 : Tail(seq)[i] = seq[i + 1] /\ i + 1 \in 1 .. Len(seq)
    OBVIOUS
<1>2. ASSUME NEW t, In(t, Tail(seq)) PROVE In(t, seq)
    BY <1>1, <1>2 DEF In
<1>3. ASSUME NEW t, Once(t, seq) PROVE Once(t, Tail(seq))
  <2> SUFFICES ASSUME NEW i \in 1 .. Len(seq) - 1, NEW j \in 1 .. Len(seq) - 1,
                      Tail(seq)[i] = t, Tail(seq)[j] = t
               PROVE  i = j
      BY <1>1 DEF Once
  <2>1. seq[i + 1] = t /\ seq[j + 1] = t /\ i + 1 \in 1 .. Len(seq) /\ j + 1 \in 1 .. Len(seq)
      BY <1>1
  <2>2. i + 1 = j + 1
      BY <1>3, <2>1 DEF Once
  <2> QED
      BY <2>2
<1>4. ASSUME Once(Head(seq), seq), In(Head(seq), Tail(seq)) PROVE FALSE
  <2>1. PICK i \in 1 .. Len(seq) - 1 : Tail(seq)[i] = Head(seq)
      BY <1>1, <1>4 DEF In
  <2>2. seq[1] = Head(seq) /\ 1 \in 1 .. Len(seq) /\ seq[i + 1] = Head(seq) /\ i + 1 \in 1 .. Len(seq)
      BY <1>1, <2>1
  <2>3. i + 1 = 1
      BY <1>4, <2>2 DEF Once
  <2> QED
      BY <2>3
<1> QED
    BY <1>1, <1>2, <1>3, <1>4

\* Taking one out moves those after it up by one place.
Place(i, d) == IF i < d THEN i ELSE i + 1

LEMMA DropAt ==
    ASSUME NEW S, NEW seq \in Seq(S), NEW d \in 1 .. Len(seq)
    PROVE  /\ Drop(seq, d) \in Seq(S) /\ Len(Drop(seq, d)) = Len(seq) - 1 /\ Len(seq) \in Nat
           /\ \A i \in 1 .. Len(seq) - 1 :
                 Drop(seq, d)[i] = seq[Place(i, d)] /\ Place(i, d) \in 1 .. Len(seq)
<1> USE DEF Place
<1>1. PICK n \in Nat : n = Len(seq) /\ d \in 1 .. n
    OBVIOUS
<1>2. /\ SubSeq(seq, 1, d - 1) \in Seq(S) /\ Len(SubSeq(seq, 1, d - 1)) = d - 1
      /\ \A i \in 1 .. d - 1 : SubSeq(seq, 1, d - 1)[i] = seq[i]
    BY <1>1
<1>3. /\ SubSeq(seq, d + 1, n) \in Seq(S) /\ Len(SubSeq(seq, d + 1, n)) = n - d
      /\ \A i \in 1 .. n - d : SubSeq(seq, d + 1, n)[i] = seq[i + d]
    BY <1>1
<1>4. PICK a \in Seq(S), b \in Seq(S) :
          /\ Drop(seq, d) = a \o b /\ Len(a) = d - 1 /\ Len(b) = n - d
          /\ \A i \in 1 .. d - 1 : a[i] = seq[i]
          /\ \A i \in 1 .. n - d : b[i] = seq[i + d]
  <2>1. Drop(seq, d) = SubSeq(seq, 1, d - 1) \o SubSeq(seq, d + 1, n)
      BY <1>1 DEF Drop
  <2> QED
      BY ONLY <1>2, <1>3, <2>1
<1>5. /\ a \o b \in Seq(S) /\ Len(a \o b) = Len(a) + Len(b)
      /\ \A i \in 1 .. Len(a) + Len(b) : (a \o b)[i] = IF i <= Len(a) THEN a[i] ELSE b[i - Len(a)]
    OBVIOUS
<1>6. PICK c : c = a \o b
    OBVIOUS
<1>7. c \in Seq(S) /\ Len(c) = n - 1 /\ \A i \in 1 .. n - 1 : c[i] = IF i <= d - 1 THEN a[i] ELSE b[i - (d - 1)]
  <2>1. Len(a) + Len(b) = n - 1
      BY ONLY <1>1, <1>4, n \in Nat, d \in Int
  <2> QED
      BY ONLY <1>4, <1>5, <1>6, <2>1
<1>8. ASSUME NEW i \in 1 .. n - 1
      PROVE  c[i] = seq[Place(i, d)] /\ Place(i, d) \in 1 .. n
  <2>0. i \in Int /\ d \in Int /\ 1 <= d /\ d <= n /\ 1 <= i /\ i <= n - 1
      BY <1>1
  <2>1. CASE i < d
    <3>1. i \in 1 .. d - 1 /\ i <= d - 1 /\ Place(i, d) = i /\ i \in 1 .. n
        BY ONLY <2>0, <2>1, n \in Nat
    <3> QED
        BY ONLY <1>4, <1>7, <3>1, i \in 1 .. n - 1
  <2>2. CASE i >= d
    <3>1. /\ ~(i <= d - 1) /\ i - (d - 1) \in 1 .. n - d /\ Place(i, d) = i + 1
          /\ (i - (d - 1)) + d = i + 1 /\ i + 1 \in 1 .. n
        BY ONLY <2>0, <2>2, n \in Nat
    <3>2. c[i] = b[i - (d - 1)]
        BY ONLY <1>7, <3>1, i \in 1 .. n - 1
    <3>3. b[i - (d - 1)] = seq[(i - (d - 1)) + d]
        BY ONLY <1>4, <3>1
    <3> QED
        BY ONLY <3>1, <3>2, <3>3
  <2> QED
      BY ONLY <2>0, <2>1, <2>2
<1> QED
    BY <1>1, <1>4, <1>6, <1>7, <1>8

\* Taking one out lists nobody anew and nobody twice.
LEMMA DropLists ==
    ASSUME NEW S, NEW seq \in Seq(S), NEW d \in 1 .. Len(seq)
    PROVE  /\ Drop(seq, d) \in Seq(S)
           /\ \A t : In(t, Drop(seq, d)) => In(t, seq)
           /\ \A t : Once(t, seq) => Once(t, Drop(seq, d))
<1> DEFINE At(i) == Place(i, d)
<1>1. /\ Drop(seq, d) \in Seq(S) /\ Len(Drop(seq, d)) = Len(seq) - 1 /\ Len(seq) \in Nat
      /\ \A i \in 1 .. Len(seq) - 1 : Drop(seq, d)[i] = seq[At(i)] /\ At(i) \in 1 .. Len(seq)
    BY DropAt
<1>2. ASSUME NEW t, In(t, Drop(seq, d)) PROVE In(t, seq)
    BY <1>1, <1>2 DEF In
<1>3. ASSUME NEW t, Once(t, seq) PROVE Once(t, Drop(seq, d))
  <2> SUFFICES ASSUME NEW i \in 1 .. Len(seq) - 1, NEW j \in 1 .. Len(seq) - 1,
                      Drop(seq, d)[i] = t, Drop(seq, d)[j] = t
               PROVE  i = j
      BY <1>1 DEF Once
  <2>1. seq[At(i)] = t /\ seq[At(j)] = t /\ At(i) \in 1 .. Len(seq) /\ At(j) \in 1 .. Len(seq)
      BY <1>1
  <2>2. At(i) = At(j)
    <3> HIDE DEF At
    <3> QED
        BY <1>3, <2>1 DEF Once
  <2> QED
      BY <2>2 DEF Place
<1> QED
    BY <1>1, <1>2, <1>3

\* The place of somebody listed.
LEMMA IndexInList ==
    ASSUME NEW S, NEW seq \in Seq(S), NEW s, In(s, seq)
    PROVE  IndexIn(s, seq) \in 1 .. Len(seq) /\ seq[IndexIn(s, seq)] = s
<1> DEFINE T == {i \in 1 .. Len(seq) : seq[i] = s}
<1>1. T \subseteq Nat /\ T # {}
    BY DEF In
<1>2. PICK m \in T : \A i \in T : m <= i
    BY <1>1, LeastElement
<1>3. m \in 1 .. Len(seq) /\ seq[m] = s /\ \A j \in 1 .. m - 1 : seq[j] # s
    BY <1>2
<1> QED
    BY <1>3 DEF IndexIn

\* One round of the search: the first entry of s is taken out, if there is one.
Round(seq, s) == IF In(s, seq) THEN Drop(seq, IndexIn(s, seq)) ELSE seq

\* The lists after each of n rounds exist.
LEMMA RoundsExist ==
    ASSUME NEW seq, NEW s, NEW n \in Nat
    PROVE  \E u : /\ u = [k \in 0 .. n |-> IF k = 0 THEN seq ELSE Round(u[k - 1], s)]
                  /\ Unlisted(seq, s, n) = u[n]
<1> DEFINE Rounds(u, m) == u = [k \in 0 .. m |-> IF k = 0 THEN seq ELSE Round(u[k - 1], s)]
           G == {m \in Nat : \E u : Rounds(u, m)}
<1>1. 0 \in G
  <2> DEFINE u == [k \in 0 .. 0 |-> seq]
  <2>1. Rounds(u, 0)
      OBVIOUS
  <2> HIDE DEF u, Rounds
  <2> QED
      BY <2>1
<1>2. ASSUME NEW m \in Nat, m \in G PROVE m + 1 \in G
  <2>1. PICK u : Rounds(u, m)
      BY <1>2
  <2> DEFINE v == [k \in 0 .. m + 1 |-> IF k = m + 1 THEN Round(u[m], s) ELSE u[k]]
             w == [k \in 0 .. m + 1 |-> IF k = 0 THEN seq ELSE Round(v[k - 1], s)]
  <2>2. ASSUME NEW k \in 0 .. m + 1 PROVE v[k] = w[k]
    <3>1. CASE k = m + 1
      <4>1. k # 0 /\ k - 1 = m /\ m \in 0 .. m + 1 /\ m # m + 1
          BY <3>1
      <4>2. v[m] = u[m]
          BY <4>1
      <4> HIDE DEF Round
      <4> QED
          BY <3>1, <4>1, <4>2
    <3>2. CASE k = 0
      <4>1. u[0] = seq
          BY <2>1
      <4> QED
          BY <3>2, <4>1
    <3>3. CASE k # 0 /\ k # m + 1
      <4>1. k \in 0 .. m /\ k - 1 \in 0 .. m + 1 /\ k - 1 # m + 1
          BY <3>3
      <4>2. u[k] = Round(u[k - 1], s)
          BY <2>1, <3>3, <4>1
      <4>3. v[k - 1] = u[k - 1]
          BY <4>1
      <4> QED
          BY <3>3, <4>2, <4>3
    <3> QED
        BY <3>1, <3>2, <3>3
  <2>3. v = w
      BY <2>2
  <2>4. Rounds(v, m + 1)
      BY <2>3
  <2> HIDE DEF v, Rounds
  <2> QED
      BY <2>4
<1>3. n \in G
  <2> HIDE DEF G
  <2> QED
      BY <1>1, <1>2, SetInduction
<1>4. PICK u : u = CHOOSE v : Rounds(v, n)
    OBVIOUS
<1>5. Rounds(u, n)
  <2> HIDE DEF Rounds
  <2> QED
      BY <1>3, <1>4
<1>6. Unlisted(seq, s, n) = u[n]
    BY <1>4 DEF Unlisted, Round, In
<1> QED
    BY <1>5, <1>6

\* Unlisting lists nobody anew and nobody twice.
LEMMA UnlistedLists ==
    ASSUME NEW S, NEW seq \in Seq(S), NEW s, NEW n \in Nat
    PROVE  /\ Unlisted(seq, s, n) \in Seq(S)
           /\ \A t : In(t, Unlisted(seq, s, n)) => In(t, seq)
           /\ \A t : Once(t, seq) => Once(t, Unlisted(seq, s, n))
<1>1. PICK u : /\ u = [k \in 0 .. n |-> IF k = 0 THEN seq ELSE Round(u[k - 1], s)]
               /\ Unlisted(seq, s, n) = u[n]
    BY RoundsExist
<1> DEFINE Good(v) == /\ v \in Seq(S)
                      /\ \A t : In(t, v) => In(t, seq)
                      /\ \A t : Once(t, seq) => Once(t, v)
           G == {k \in Nat : k <= n => Good(u[k])}
<1>2. u[0] = seq /\ \A k \in Nat : k + 1 <= n => u[k + 1] = Round(u[k], s)
  <2>1. 0 \in 0 .. n
      OBVIOUS
  <2>2. ASSUME NEW k \in Nat, k + 1 <= n PROVE u[k + 1] = Round(u[k], s)
    <3>1. k + 1 \in 0 .. n /\ k + 1 # 0 /\ (k + 1) - 1 = k
        BY <2>2
    <3> QED
        BY <1>1, <3>1
  <2> QED
      BY <1>1, <2>1, <2>2
<1>3. 0 \in G
    BY <1>2
<1>4. ASSUME NEW k \in Nat, k \in G PROVE k + 1 \in G
  <2> SUFFICES ASSUME k + 1 <= n PROVE Good(u[k + 1])
      OBVIOUS
  <2>1. Good(u[k]) /\ u[k + 1] = Round(u[k], s)
    <3> HIDE DEF Good
    <3> QED
        BY <1>2, <1>4
  <2>2. CASE In(s, u[k])
    <3>1. IndexIn(s, u[k]) \in 1 .. Len(u[k])
        BY <2>1, <2>2, IndexInList
    <3>2. PICK d \in 1 .. Len(u[k]) : u[k + 1] = Drop(u[k], d)
        BY <2>1, <2>2, <3>1 DEF Round
    <3> QED
        BY <2>1, <3>2, DropLists
  <2>3. CASE ~In(s, u[k])
      BY <2>1, <2>3 DEF Round
  <2> QED
      BY <2>2, <2>3
<1>5. n \in G
  <2> HIDE DEF G
  <2> QED
      BY <1>3, <1>4, SetInduction
<1> QED
    BY <1>1, <1>5

\* Subscribing adds entries of the new subscription only.
LEMMA JoinedLists ==
    ASSUME NEW S, NEW seq \in Seq(S), NEW s \in S, NEW n \in Nat,
           NEW new \in Seq(S), Len(new) = n, \A i \in 1 .. n : new[i] = s,
           NEW joined, joined = seq \o new
    PROVE  /\ joined \in Seq(S)
           /\ \A t : t # s /\ In(t, joined) => In(t, seq)
           /\ \A t : t # s /\ Once(t, seq) => Once(t, joined)
           /\ ~In(s, seq) /\ n = 1 => Once(s, joined)
<1>1. Len(new) = n /\ \A i \in 1 .. n : new[i] = s
    OBVIOUS
<1>2. PICK m \in Nat : m = Len(seq)
    OBVIOUS
<1>3. PICK all \in Seq(S) : /\ all = seq \o new /\ Len(all) = m + n
                            /\ \A i \in 1 .. m + n : all[i] = IF i <= m THEN seq[i] ELSE new[i - m]
  <2>1. /\ seq \o new \in Seq(S) /\ Len(seq \o new) = Len(seq) + Len(new)
        /\ \A i \in 1 .. Len(seq) + Len(new) :
                (seq \o new)[i] = IF i <= Len(seq) THEN seq[i] ELSE new[i - Len(seq)]
      OBVIOUS
  <2>2. Len(seq) + Len(new) = m + n
      BY <1>1, <1>2
  <2>3. /\ seq \o new \in Seq(S) /\ Len(seq \o new) = m + n
        /\ \A i \in 1 .. m + n : (seq \o new)[i] = IF i <= m THEN seq[i] ELSE new[i - m]
      BY ONLY <1>2, <2>1, <2>2
  <2> QED
      BY <2>3
<1>4. /\ \A i \in 1 .. m : i \in 1 .. m + n /\ all[i] = seq[i]
      /\ \A i \in 1 .. m + n : i \notin 1 .. m => all[i] = s
  <2>1. ASSUME NEW i \in 1 .. m + n, i \notin 1 .. m PROVE all[i] = s
    <3>1. ~(i <= m) /\ i - m \in 1 .. n
        BY <2>1
    <3> QED
        BY <1>1, <1>3, <3>1
  <2>2. ASSUME NEW i \in 1 .. m PROVE i \in 1 .. m + n /\ all[i] = seq[i]
    <3>1. i \in 1 .. m + n /\ i <= m
        OBVIOUS
    <3> QED
        BY <1>3, <3>1
  <2> QED
      BY <2>1, <2>2
<1>5. ASSUME NEW t, t # s, In(t, all) PROVE In(t, seq)
    BY <1>2, <1>3, <1>4, <1>5 DEF In
<1>6. ASSUME NEW t, t # s, Once(t, seq) PROVE Once(t, all)
  <2> SUFFICES ASSUME NEW i \in 1 .. m + n, NEW j \in 1 .. m + n, all[i] = t, all[j] = t
               PROVE  i = j
      BY <1>3 DEF Once
  <2>1. i \in 1 .. m /\ j \in 1 .. m
      BY <1>4, <1>6
  <2>2. seq[i] = t /\ seq[j] = t
      BY <1>4, <2>1
  <2> QED
      BY <1>2, <1>6, <2>1, <2>2 DEF Once
<1>7. ASSUME ~In(s, seq), n = 1 PROVE Once(s, all)
  <2>1. \A i \in 1 .. m : all[i] # s
      BY <1>2, <1>4, <1>7 DEF In
  <2>2. \A i \in 1 .. m + n : all[i] = s => i = m + 1
      BY <1>7, <2>1
  <2> QED
      BY <1>3, <2>2 DEF Once
<1> QED
    BY <1>1, <1>3, <1>5, <1>6, <1>7

-----------------------------------------------------------------------------
(* What a stream has in its channel and was sent.  *)

Messages == [from : Publishers, n : Nat]

\* The messages of p in the box b are in order, later than the last one sent, and
\* not later than the n published; earlier than the last of these if it is still to come.
Follows(b, p, got, n, awaited) ==
    /\ got <= n /\ (awaited => got < n)
    /\ \A i \in 1 .. Len(b) : b[i].from = p =>
            got < b[i].n /\ b[i].n <= n /\ (awaited => b[i].n < n)
    /\ \A i, j \in 1 .. Len(b) : i < j /\ b[i].from = p /\ b[j].from = p => b[i].n < b[j].n

\* What appending does to a sequence.
LEMMA AppendedAt ==
    ASSUME NEW S, NEW b \in Seq(S), NEW m \in S
    PROVE  \E c \in Seq(S) : /\ c = Append(b, m) /\ Len(c) = Len(b) + 1
                             /\ \A i \in 1 .. Len(b) : c[i] = b[i]
                             /\ c[Len(b) + 1] = m
<1>1. /\ Append(b, m) \in Seq(S) /\ Len(Append(b, m)) = Len(b) + 1
      /\ \A i \in 1 .. Len(b) : Append(b, m)[i] = b[i]
      /\ Append(b, m)[Len(b) + 1] = m
    OBVIOUS
<1> QED
    BY <1>1

\* A new message is later than all.
LEMMA FollowsNext ==
    ASSUME NEW b \in Seq(Messages), NEW p, NEW got \in Nat, NEW n \in Nat, NEW awaited, NEW w,
           Follows(b, p, got, n, awaited)
    PROVE  Follows(b, p, got, n + 1, w)
<1>1. ASSUME NEW i \in 1 .. Len(b) PROVE b[i].n \in Nat
  <2>1. b[i] \in Messages
      OBVIOUS
  <2> QED
      BY <2>1 DEF Messages
<1> QED
    BY <1>1 DEF Follows

\* It need not be sent to the stream, be it closed, its channel full or its turn over.
LEMMA FollowsSkip ==
    ASSUME NEW b, NEW p, NEW got, NEW n, NEW awaited, NEW w,
           Follows(b, p, got, n, awaited), w => awaited
    PROVE  Follows(b, p, got, n, w)
  BY DEF Follows

\* It is appended to the channel, once.
LEMMA FollowsAppend ==
    ASSUME NEW b \in Seq(Messages), NEW p \in Publishers, NEW got \in Nat, NEW n \in Nat,
           Follows(b, p, got, n, TRUE)
    PROVE  Follows(Append(b, [from |-> p, n |-> n]), p, got, n, FALSE)
<1>1. PICK m \in Messages : m = [from |-> p, n |-> n] /\ m.from = p /\ m.n = n
  <2>1. [from |-> p, n |-> n] \in Messages
      BY DEF Messages
  <2> QED
      BY <2>1
<1>2. PICK c \in Seq(Messages) : /\ c = Append(b, m) /\ Len(c) = Len(b) + 1
                                 /\ \A i \in 1 .. Len(b) : c[i] = b[i]
                                 /\ c[Len(b) + 1] = m
    BY AppendedAt
<1>3. ASSUME NEW i \in 1 .. Len(c) PROVE i \in 1 .. Len(b) \/ i = Len(b) + 1
    BY <1>2
<1>4. ASSUME NEW i \in 1 .. Len(c), c[i].from = p PROVE got < c[i].n /\ c[i].n <= n
  <2>1. CASE i \in 1 .. Len(b)
      BY <1>2, <1>4, <2>1 DEF Follows
  <2>2. CASE i = Len(b) + 1
      BY <1>1, <1>2, <2>2 DEF Follows
  <2> QED
      BY <1>3, <2>1, <2>2
<1>5. ASSUME NEW i \in 1 .. Len(c), NEW j \in 1 .. Len(c), i < j, c[i].from = p, c[j].from = p
      PROVE  c[i].n < c[j].n
  <2>1. i \in 1 .. Len(b) /\ c[i] = b[i]
      BY <1>2, <1>3, <1>5
  <2>2. CASE j \in 1 .. Len(b)
      BY <1>2, <1>5, <2>1, <2>2 DEF Follows
  <2>3. CASE j = Len(b) + 1
      BY <1>1, <1>2, <1>5, <2>1, <2>3 DEF Follows
  <2> QED
      BY <1>3, <2>2, <2>3
<1>6. got <= n
    BY DEF Follows
<1>7. Follows(c, p, got, n, FALSE)
    BY <1>4, <1>5, <1>6 DEF Follows
<1> QED
    BY <1>1, <1>2, <1>7

\* A message of another publisher changes nothing.
LEMMA FollowsOther ==
    ASSUME NEW b \in Seq(Messages), NEW p, NEW got, NEW n, NEW awaited, NEW m \in Messages,
           m.from # p, Follows(b, p, got, n, awaited)
    PROVE  Follows(Append(b, m), p, got, n, awaited)
<1>1. PICK c \in Seq(Messages) : /\ c = Append(b, m) /\ Len(c) = Len(b) + 1
                                 /\ \A i \in 1 .. Len(b) : c[i] = b[i]
                                 /\ c[Len(b) + 1] = m
    BY AppendedAt
<1>2. ASSUME NEW i \in 1 .. Len(c), c[i].from = p PROVE i \in 1 .. Len(b) /\ c[i] = b[i]
  <2>1. i # Len(b) + 1
      BY <1>1, <1>2
  <2>2. i \in 1 .. Len(b)
      BY <1>1, <2>1
  <2> QED
      BY <1>1, <2>2
<1>3. Follows(c, p, got, n, awaited)
    BY <1>2 DEF Follows
<1> QED
    BY <1>1, <1>3

\* The oldest message is taken.
LEMMA FollowsTail ==
    ASSUME NEW b \in Seq(Messages), b # <<>>, NEW p, NEW got, NEW n, NEW awaited,
           Follows(b, p, got, n, awaited)
    PROVE  Follows(Tail(b), p, IF Head(b).from = p THEN Head(b).n ELSE got, n, awaited)
<1>1. PICK c \in Seq(Messages) : /\ c = Tail(b) /\ Len(c) = Len(b) - 1
                                 /\ \A i \in 1 .. Len(c) : c[i] = b[i + 1]
  <2>1. /\ Tail(b) \in Seq(Messages) /\ Len(Tail(b)) = Len(b) - 1
        /\ \A i \in 1 .. Len(Tail(b)) : Tail(b)[i] = b[i + 1]
      OBVIOUS
  <2> QED
      BY <2>1
<1>2. Head(b) = b[1] /\ 1 \in 1 .. Len(b)
    OBVIOUS
<1>3. ASSUME NEW i \in 1 .. Len(c) PROVE i + 1 \in 1 .. Len(b) /\ 1 < i + 1 /\ c[i] = b[i + 1]
    BY <1>1
<1>4. \A i, j \in 1 .. Len(c) : i < j => i + 1 < j + 1
    OBVIOUS
<1> DEFINE first == IF Head(b).from = p THEN Head(b).n ELSE got
<1>5. first <= n /\ (awaited => first < n)
    BY <1>2 DEF Follows
<1>6. ASSUME NEW i \in 1 .. Len(c), c[i].from = p
      PROVE  first < c[i].n /\ c[i].n <= n /\ (awaited => c[i].n < n)
  <2>1. i + 1 \in 1 .. Len(b) /\ 1 < i + 1 /\ c[i] = b[i + 1]
      BY <1>3
  <2>2. b[i + 1].from = p
      BY <1>6, <2>1
  <2>3. got < b[i + 1].n /\ b[i + 1].n <= n /\ (awaited => b[i + 1].n < n)
      BY <2>1, <2>2 DEF Follows
  <2>4. b[1].from = p => b[1].n < b[i + 1].n
      BY <1>2, <2>1, <2>2 DEF Follows
  <2> QED
      BY <1>2, <2>1, <2>3, <2>4
<1>7. ASSUME NEW i \in 1 .. Len(c), NEW j \in 1 .. Len(c), i < j, c[i].from = p, c[j].from = p
      PROVE  c[i].n < c[j].n
  <2>1. i + 1 < j + 1
      BY <1>4, <1>7
  <2> QED
      BY <1>3, <1>7, <2>1 DEF Follows
<1>8. Follows(c, p, first, n, awaited)
  <2> HIDE DEF first
  <2> QED
      BY <1>5, <1>6, <1>7 DEF Follows
<1> QED
    BY <1>1, <1>8

-----------------------------------------------------------------------------
(* The invariant. *)

PushTypes ==
    /\ subscribers \in [Channels -> Seq(PubSubs)]
    /\ channelsOf \in [PubSubs -> Seq(Channels)]
    /\ box \in [PubSubs -> Seq(Messages)]
    /\ publisher \in [Publishers -> [n : Nat, rest : Seq(PubSubs)]]
    /\ \A p \in Publishers : publisher[p].n <= MaxMessages[p]
    /\ received \in [Streams -> [Publishers -> Nat]]
    /\ stream \in [Streams -> {"idle", "stored", "open", "gone"}]
    /\ \A s \in Streams : stream[s] # "idle" => stored \in Streams

\* before its stream is open nothing is known of a subscription
Unopened(s) ==
    stream[s] \in {"idle", "stored"} =>
        /\ box[s] = <<>>
        /\ \A ch \in Channels : ~In(s, subscribers[ch]) /\ Times(ch, channelsOf[s]) = 0
        /\ \A p \in Publishers : ~In(s, publisher[p].rest) /\ received[s][p] = 0

\* once it is, it is listed and sent to at most once, and what it holds follows
\* what it was sent
Delivers(s, p) ==
    Times(Topic[p], channelsOf[s]) = 1 =>
        /\ Once(s, subscribers[Topic[p]]) /\ Once(s, publisher[p].rest)
        /\ Follows(box[s], p, received[s][p], publisher[p].n, In(s, publisher[p].rest))

(***************************************************************************)
(* That a stream receives a message once and in order needs the list, the  *)
(* copy of it that each publisher works through, and the stream's channel: *)
(* a subscription that were listed twice would be sent the message twice,  *)
(* and one that waits in the copy must not hold the message already.       *)
(***************************************************************************)
PushInv ==
    /\ PushTypes
    /\ \A s \in Streams : Unopened(s)
    /\ \A s \in Streams, p \in Publishers : Delivers(s, p)

\* A channel is named, and a subscription listed, a number of times.
LEMMA TimesType ==
    ASSUME NEW S, NEW chs \in Seq(S), NEW ch
    PROVE  Times(ch, chs) \in Nat /\ Times(ch, <<>>) = 0
<1>1. Len(chs) \in Nat
    OBVIOUS
<1>2. IsFiniteSet(1 .. Len(chs))
    BY <1>1, FS_Interval
<1>3. {i \in 1 .. Len(chs) : chs[i] = ch} \subseteq 1 .. Len(chs)
    OBVIOUS
<1>4. IsFiniteSet({i \in 1 .. Len(chs) : chs[i] = ch})
    BY <1>2, <1>3, FS_Subset
<1>5. {i \in 1 .. Len(<<>>) : <<>>[i] = ch} = {}
    OBVIOUS
<1> QED
    BY <1>4, <1>5, FS_CardinalityType, FS_EmptySet DEF Times

\* Nothing is delivered at first.
LEMMA PushInvInit == Init => PushInv
<1> SUFFICES ASSUME Init
             PROVE  PushInv
    OBVIOUS
<1>0. Hub \in PubSubs /\ Hub \notin Streams /\ Streams \subseteq PubSubs /\ HubChannels \in Seq(Channels)
    BY PushAssumption DEF PubSubs
<1>1. ASSUME NEW ch \in Channels
      PROVE  /\ subscribers[ch] \in Seq(PubSubs)
             /\ \A s : s # Hub => ~In(s, subscribers[ch])
  <2>1. PICK n \in Nat : n = Times(ch, HubChannels)
      BY <1>0, TimesType
  <2>2. subscribers[ch] = [i \in 1 .. n |-> Hub]
      BY <2>1 DEF Init
  <2>3. [i \in 1 .. n |-> Hub] \in Seq(PubSubs) /\ Len([i \in 1 .. n |-> Hub]) = n
      BY <1>0
  <2> QED
      BY <2>2, <2>3 DEF In
<1>2. PushTypes
  <2>1. subscribers \in [Channels -> Seq(PubSubs)]
      BY <1>1 DEF Init
  <2>2. channelsOf \in [PubSubs -> Seq(Channels)]
    <3>1. <<>> \in Seq(Channels)
        OBVIOUS
    <3> QED
        BY <1>0, <3>1 DEF Init
  <2>3. box \in [PubSubs -> Seq(Messages)]
    <3>1. <<>> \in Seq(Messages)
        OBVIOUS
    <3> QED
        BY <3>1 DEF Init
  <2>4. publisher \in [Publishers -> [n : Nat, rest : Seq(PubSubs)]] /\ \A p \in Publishers : publisher[p].n <= MaxMessages[p]
    <3>1. <<>> \in Seq(PubSubs) /\ \A p \in Publishers : 0 <= MaxMessages[p]
        BY PushAssumption
    <3>2. [n |-> 0, rest |-> <<>>] \in [n : Nat, rest : Seq(PubSubs)]
        BY <3>1
    <3> QED
        BY <3>1, <3>2 DEF Init
  <2>5. /\ received \in [Streams -> [Publishers -> Nat]]
        /\ stream \in [Streams -> {"idle", "stored", "open", "gone"}]
        /\ \A s \in Streams : stream[s] # "idle" => stored \in Streams
      BY DEF Init
  <2> QED
      BY <2>1, <2>2, <2>3, <2>4, <2>5 DEF PushTypes
<1>3. ASSUME NEW s \in Streams
      PROVE  /\ \A ch \in Channels : ~In(s, subscribers[ch]) /\ Times(ch, channelsOf[s]) = 0
             /\ \A p \in Publishers : ~In(s, publisher[p].rest) /\ received[s][p] = 0
  <2>1. channelsOf[s] = <<>> /\ \A p \in Publishers : publisher[p].rest = <<>> /\ received[s][p] = 0
      BY <1>0 DEF Init
  <2>2. \A ch \in Channels : Times(ch, <<>>) = 0
      BY <1>0, TimesType
  <2>3. ~In(s, <<>>)
      BY DEF In
  <2> QED
      BY <1>0, <1>1, <2>1, <2>2, <2>3
<1>4. ASSUME NEW s \in Streams
      PROVE  Unopened(s)
  <2>1. box[s] = <<>>
      BY <1>0 DEF Init
  <2> QED
      BY <1>3, <2>1 DEF Unopened
<1>5. ASSUME NEW s \in Streams, NEW p \in Publishers
      PROVE  Delivers(s, p)
  <2>1. Topic[p] \in Channels
      BY PushAssumption
  <2> QED
      BY <1>3, <2>1 DEF Delivers
<1> QED
    BY <1>2, <1>4, <1>5 DEF PushInv

\* Opening a stream lists it as often as its query maps to the channel.
LEMMA OpenPushes ==
    ASSUME PushInv, NEW s \in Streams, OpenStream(s)
    PROVE  PushInv'
<1>0. s \in PubSubs /\ Streams \subseteq PubSubs /\ stored \in Streams /\ stream[s] = "stored"
    BY DEF PushInv, PushTypes, OpenStream, PubSubs
<1>1. PICK chs \in Seq(Channels) : chs = StreamChannels[<<s, stored>>]
    BY <1>0, PushAssumption
<1>2. /\ channelsOf' = [channelsOf EXCEPT ![s] = chs]
      /\ subscribers' = [ch \in Channels |-> subscribers[ch] \o [i \in 1 .. Times(ch, chs) |-> s]]
      /\ stream' = [stream EXCEPT ![s] = "open"]
      /\ UNCHANGED <<box, publisher, stored, received>>
    BY <1>1 DEF OpenStream, Subscribe
<1>3. ASSUME NEW ch \in Channels
      PROVE  /\ subscribers'[ch] \in Seq(PubSubs)
             /\ \A t : t # s /\ In(t, subscribers'[ch]) => In(t, subscribers[ch])
             /\ \A t : t # s /\ Once(t, subscribers[ch]) => Once(t, subscribers'[ch])
             /\ Times(ch, chs) = 1 => Once(s, subscribers'[ch])
  <2>1. PICK n \in Nat : n = Times(ch, chs)
      BY TimesType
  <2>2. subscribers'[ch] = subscribers[ch] \o [i \in 1 .. n |-> s]
      BY <1>2, <2>1
  <2>3. subscribers[ch] \in Seq(PubSubs) /\ ~In(s, subscribers[ch])
      BY <1>0 DEF PushInv, PushTypes, Unopened
  <2>4. PICK old \in Seq(PubSubs) : old = subscribers[ch]
      BY <2>3
  <2>5. PICK new : new = subscribers'[ch]
      OBVIOUS
  <2>6. /\ new \in Seq(PubSubs)
        /\ \A t : t # s /\ In(t, new) => In(t, old)
        /\ \A t : t # s /\ Once(t, old) => Once(t, new)
        /\ n = 1 => Once(s, new)
    <3>1. [i \in 1 .. n |-> s] \in Seq(PubSubs) /\ Len([i \in 1 .. n |-> s]) = n
        BY <1>0
    <3>2. PICK add \in Seq(PubSubs) : /\ add = [i \in 1 .. n |-> s] /\ Len(add) = n
                                      /\ \A i \in 1 .. n : add[i] = s
        BY <3>1
    <3>3. new = old \o add /\ ~In(s, old)
        BY <2>2, <2>3, <2>4, <2>5, <3>2
    <3>4. s \in PubSubs /\ Len(add) = n /\ (\A i \in 1 .. n : add[i] = s) /\ new = old \o add /\ ~In(s, old)
        BY <1>0, <3>2, <3>3
    <3>5. new \in Seq(PubSubs)
        BY ONLY <3>4, JoinedLists, add \in Seq(PubSubs), old \in Seq(PubSubs), n \in Nat
    <3>6. ASSUME NEW t, t # s, In(t, new) PROVE In(t, old)
        BY ONLY <3>4, <3>6, JoinedLists, add \in Seq(PubSubs), old \in Seq(PubSubs), n \in Nat
    <3>7. \A t : t # s /\ Once(t, old) => Once(t, new)
        BY ONLY <3>4, JoinedLists, add \in Seq(PubSubs), old \in Seq(PubSubs), n \in Nat
    <3>8. n = 1 => Once(s, new)
        BY ONLY <3>4, JoinedLists, add \in Seq(PubSubs), old \in Seq(PubSubs), n \in Nat
    <3> QED
        BY ONLY <3>5, <3>6, <3>7, <3>8
  <2> QED
      BY ONLY <2>1, <2>4, <2>5, <2>6
<1>4. PushTypes'
  <2>1. subscribers' \in [Channels -> Seq(PubSubs)]
      BY <1>2, <1>3
  <2> QED
      BY <1>0, <1>2, <2>1 DEF PushInv, PushTypes
<1>5. ASSUME NEW t \in Streams
      PROVE  Unopened(t)'
  <2>1. CASE t = s
      BY <1>2, <2>1 DEF Unopened, PushInv, PushTypes
  <2>2. CASE t # s
    <3>1. stream'[t] = stream[t] /\ channelsOf'[t] = channelsOf[t]
        BY <1>0, <1>2, <2>2 DEF PushInv, PushTypes
    <3>2. Unopened(t)
        BY DEF PushInv
    <3>3. ASSUME NEW ch \in Channels, ~In(t, subscribers[ch]) PROVE ~In(t, subscribers'[ch])
        BY <1>3, <2>2, <3>3
    <3> QED
        BY <1>2, <3>1, <3>2, <3>3 DEF Unopened
  <2> QED
      BY <2>1, <2>2
<1>6. ASSUME NEW t \in Streams, NEW p \in Publishers
      PROVE  Delivers(t, p)'
  <2>0. PICK ch \in Channels : ch = Topic[p]
      BY PushAssumption
  <2>1. CASE t = s
    <3>1. channelsOf'[s] = chs
        BY <1>0, <1>2 DEF PushInv, PushTypes
    <3>2. Times(ch, chs) = 1 => Once(s, subscribers'[ch])
        BY <1>3
    <3>3. /\ box[s] = <<>> /\ ~In(s, publisher[p].rest) /\ received[s][p] = 0
          /\ publisher[p].n \in Nat
        BY <1>0 DEF PushInv, PushTypes, Unopened
    <3>4. Once(s, publisher[p].rest)
        BY <3>3 DEF In, Once
    <3>5. Follows(box[s], p, received[s][p], publisher[p].n, In(s, publisher[p].rest))
        BY <3>3 DEF Follows
    <3> QED
        BY <1>2, <2>0, <2>1, <3>1, <3>2, <3>4, <3>5 DEF Delivers
  <2>2. CASE t # s
    <3>1. channelsOf'[t] = channelsOf[t]
        BY <1>0, <1>2, <2>2 DEF PushInv, PushTypes
    <3>2. Once(t, subscribers[ch]) => Once(t, subscribers'[ch])
        BY <1>3, <2>2
    <3> QED
        BY <1>2, <2>0, <3>1, <3>2 DEF Delivers, PushInv
  <2> QED
      BY <2>1, <2>2
<1> QED
    BY <1>4, <1>5, <1>6 DEF PushInv

\* The cleanup goroutine unlists, and lists nobody anew.
LEMMA RemovalPushes ==
    ASSUME PushInv, NEW s \in Streams, CleanerRemoves(s)
    PROVE  PushInv'
<1>1. /\ subscribers' = [ch \in Channels |-> Unlisted(subscribers[ch], s, Times(ch, channelsOf[s]))]
      /\ UNCHANGED <<channelsOf, box, publisher, stored, stream, received>>
    BY DEF CleanerRemoves, sseVars
<1>2. ASSUME NEW ch \in Channels
      PROVE  /\ subscribers'[ch] \in Seq(PubSubs)
             /\ \A t : In(t, subscribers'[ch]) => In(t, subscribers[ch])
             /\ \A t : Once(t, subscribers[ch]) => Once(t, subscribers'[ch])
  <2>1. channelsOf[s] \in Seq(Channels)
      BY DEF PushInv, PushTypes, PubSubs
  <2>2. PICK n \in Nat : n = Times(ch, channelsOf[s])
      BY <2>1, TimesType
  <2>3. PICK old \in Seq(PubSubs) : old = subscribers[ch]
      BY DEF PushInv, PushTypes
  <2>4. subscribers'[ch] = Unlisted(old, s, n)
      BY <1>1, <2>2, <2>3
  <2> QED
      BY <2>3, <2>4, UnlistedLists
<1>3. PushTypes'
  <2>1. subscribers' \in [Channels -> Seq(PubSubs)]
      BY <1>1, <1>2
  <2> QED
      BY <1>1, <2>1 DEF PushInv, PushTypes
<1>4. ASSUME NEW t \in Streams
      PROVE  Unopened(t)'
  <2>1. Unopened(t)
      BY DEF PushInv
  <2>2. ASSUME NEW ch \in Channels, ~In(t, subscribers[ch]) PROVE ~In(t, subscribers'[ch])
      BY <1>2, <2>2
  <2> QED
      BY <1>1, <2>1, <2>2 DEF Unopened
<1>5. ASSUME NEW t \in Streams, NEW p \in Publishers
      PROVE  Delivers(t, p)'
  <2>1. Delivers(t, p)
      BY DEF PushInv
  <2>2. Once(t, subscribers[Topic[p]]) => Once(t, subscribers'[Topic[p]])
      BY <1>2, PushAssumption
  <2> QED
      BY <1>1, <2>1, <2>2 DEF Delivers
<1> QED
    BY <1>3, <1>4, <1>5 DEF PushInv

\* Each publisher's bound is a number.
LEMMA BoundIsNat ==
    ASSUME NEW p \in Publishers
    PROVE  MaxMessages[p] \in Nat
BY PushAssumption

\* Publishing copies the list; nobody who is in it has the message.
LEMMA PublishPushes ==
    ASSUME PushInv, NEW c \in Publishers, Publish(c)
    PROVE  PushInv'
<1>0. PICK list \in Seq(PubSubs) : list = subscribers[Topic[c]] /\ Topic[c] \in Channels
    BY PushAssumption DEF PushInv, PushTypes
<1>1. /\ publisher' = [publisher EXCEPT ![c] = [n |-> publisher[c].n + 1, rest |-> list]]
      /\ publisher[c].n < MaxMessages[c]
      /\ UNCHANGED <<subscribers, channelsOf, box, stored, stream, received>>
    BY <1>0 DEF Publish, sseVars
<1>2. PICK n \in Nat : n = publisher[c].n /\ n + 1 <= MaxMessages[c]
  <2>1. publisher[c].n \in Nat
      BY DEF PushInv, PushTypes
  <2> QED
      BY <1>1, <2>1, BoundIsNat
<1>3. /\ publisher'[c] = [n |-> n + 1, rest |-> list]
      /\ publisher'[c].n = n + 1 /\ publisher'[c].rest = list
      /\ \A p \in Publishers : p # c => publisher'[p] = publisher[p]
    BY <1>1, <1>2 DEF PushInv, PushTypes
<1>4. PushTypes'
  <2>1. publisher'[c] \in [n : Nat, rest : Seq(PubSubs)]
      BY <1>2, <1>3
  <2>2. publisher' \in [Publishers -> [n : Nat, rest : Seq(PubSubs)]]
      BY <1>1, <1>3, <2>1 DEF PushInv, PushTypes
  <2>3. \A p \in Publishers : publisher'[p].n <= MaxMessages[p]
      BY <1>2, <1>3 DEF PushInv, PushTypes
  <2> QED
      BY <1>1, <2>2, <2>3 DEF PushInv, PushTypes
<1>5. ASSUME NEW t \in Streams
      PROVE  Unopened(t)'
  <2>1. Unopened(t)
      BY DEF PushInv
  <2>2. ASSUME NEW p \in Publishers, ~In(t, list), ~In(t, publisher[p].rest)
        PROVE  ~In(t, publisher'[p].rest)
      BY <1>3, <2>2
  <2> QED
      BY <1>0, <1>1, <2>1, <2>2 DEF Unopened
<1>6. ASSUME NEW t \in Streams, NEW p \in Publishers
      PROVE  Delivers(t, p)'
  <2>1. Delivers(t, p)
      BY DEF PushInv
  <2>2. CASE p = c
    <3> SUFFICES ASSUME Times(Topic[p], channelsOf[t]) = 1
                 PROVE  /\ Once(t, list)
                        /\ Follows(box[t], p, received[t][p], n + 1, In(t, list))
        BY <1>0, <1>1, <1>3, <2>2 DEF Delivers
    <3>1. Once(t, list)
        BY <1>0, <2>1, <2>2 DEF Delivers
    <3>2. Follows(box[t], p, received[t][p], n, In(t, publisher[p].rest))
        BY <1>2, <2>1, <2>2 DEF Delivers
    <3>3. PICK b \in Seq(Messages), got \in Nat : b = box[t] /\ got = received[t][p]
        BY DEF PushInv, PushTypes, PubSubs
    <3>4. PICK awaited, w : awaited = In(t, publisher[p].rest) /\ w = In(t, list)
        OBVIOUS
    <3>5. Follows(b, p, got, n + 1, w)
      <4>1. Follows(b, p, got, n, awaited)
          BY <3>2, <3>3, <3>4
      <4> QED
          BY ONLY <4>1, FollowsNext, b \in Seq(Messages), got \in Nat, n \in Nat
    <3> QED
        BY <3>1, <3>3, <3>4, <3>5
  <2>3. CASE p # c
      BY <1>1, <1>3, <2>1, <2>3 DEF Delivers
  <2> QED
      BY <2>2, <2>3
<1> QED
    BY <1>4, <1>5, <1>6 DEF PushInv

\* The one whose turn it is gets the message, or does not, and is not sent it again.
LEMMA SendPushes ==
    ASSUME PushInv, NEW c \in Publishers, Send(c)
    PROVE  PushInv'
<1>1. PICK rest \in Seq(PubSubs), n \in Nat :
            publisher[c] = [n |-> n, rest |-> rest] /\ n <= MaxMessages[c]
            /\ rest = publisher[c].rest /\ n = publisher[c].n
  <2>1. publisher[c] \in [n : Nat, rest : Seq(PubSubs)] /\ publisher[c].n <= MaxMessages[c]
      BY DEF PushInv, PushTypes
  <2> QED
      BY <2>1
<1>2. PICK s \in PubSubs : s = Head(rest) /\ rest # <<>>
    BY <1>1 DEF Send
<1>3. PICK msg \in Messages : msg = [from |-> c, n |-> n] /\ msg.from = c
  <2>1. [from |-> c, n |-> n] \in Messages
      BY DEF Messages
  <2> QED
      BY <2>1
<1>4. /\ box' = [box EXCEPT ![s] = IF closed[s] \/ Len(box[s]) = BoxCap THEN box[s] ELSE Append(box[s], msg)]
      /\ publisher' = [publisher EXCEPT ![c].rest = Tail(rest)]
      /\ UNCHANGED <<subscribers, channelsOf, stored, stream, received>>
    BY <1>1, <1>2, <1>3 DEF Send, sseVars
<1>5. /\ Tail(rest) \in Seq(PubSubs)
      /\ \A t : In(t, Tail(rest)) => In(t, rest)
      /\ \A t : Once(t, rest) => Once(t, Tail(rest))
      /\ Once(s, rest) => ~In(s, Tail(rest))
    BY <1>1, <1>2, TailLists
<1>6. PICK after \in Seq(PubSubs) : after = Tail(rest)
    BY <1>5
<1>7. /\ publisher'[c] = [n |-> n, rest |-> after] /\ publisher'[c].n = n /\ publisher'[c].rest = after
      /\ \A p \in Publishers : p # c => publisher'[p] = publisher[p]
    BY <1>1, <1>4, <1>6 DEF PushInv, PushTypes
<1>8. PICK b \in Seq(Messages) : b = box[s]
    BY DEF PushInv, PushTypes
<1>9. /\ box'[s] \in {b, Append(b, msg)} /\ Append(b, msg) \in Seq(Messages)
      /\ \A t \in PubSubs : t # s => box'[t] = box[t]
    BY <1>4, <1>8 DEF PushInv, PushTypes
<1>10. PushTypes'
  <2>1. /\ publisher' \in [Publishers -> [n : Nat, rest : Seq(PubSubs)]]
        /\ \A p \in Publishers : publisher'[p].n <= MaxMessages[p]
    <3>1. publisher'[c] \in [n : Nat, rest : Seq(PubSubs)]
        BY <1>1, <1>7
    <3> QED
        BY <1>1, <1>4, <1>7, <3>1 DEF PushInv, PushTypes
  <2>2. box' \in [PubSubs -> Seq(Messages)]
    <3>1. box'[s] \in Seq(Messages)
        BY <1>9
    <3>2. box' = [t \in PubSubs |-> box'[t]]
        BY <1>4 DEF PushInv, PushTypes
    <3>3. ASSUME NEW t \in PubSubs PROVE box'[t] \in Seq(Messages)
        BY <1>9, <3>1 DEF PushInv, PushTypes
    <3> QED
        BY <3>2, <3>3
  <2> QED
      BY <1>4, <2>1, <2>2 DEF PushInv, PushTypes
<1>11. Streams \subseteq PubSubs
    BY DEF PubSubs
<1>12. ASSUME NEW t \in Streams
       PROVE  Unopened(t)'
  <2>1. Unopened(t)
      BY DEF PushInv
  <2>2. ASSUME NEW p \in Publishers, ~In(t, publisher[p].rest) PROVE ~In(t, publisher'[p].rest)
      BY <1>1, <1>5, <1>6, <1>7, <2>2
  <2>3. stream[t] \in {"idle", "stored"} => t # s
    <3>1. In(s, rest)
        BY <1>1, <1>2 DEF In
    <3> QED
        BY <1>1, <2>1, <3>1 DEF Unopened
  <2>4. stream[t] \in {"idle", "stored"} => box'[t] = box[t]
      BY <1>9, <1>11, <2>3
  <2> QED
      BY <1>4, <2>1, <2>2, <2>4 DEF Unopened
<1>13. ASSUME NEW t \in Streams, NEW p \in Publishers
       PROVE  Delivers(t, p)'
  <2>1. Delivers(t, p)
      BY DEF PushInv
  <2>2. PICK got \in Nat : got = received[t][p]
      BY DEF PushInv, PushTypes
  <2>3. CASE t # s /\ p # c
    <3>1. box'[t] = box[t] /\ publisher'[p] = publisher[p]
        BY <1>7, <1>9, <1>11, <2>3
    <3> QED
        BY <1>4, <2>1, <3>1 DEF Delivers
  <2>4. CASE t # s /\ p = c
    <3> SUFFICES ASSUME Times(Topic[p], channelsOf[t]) = 1
                 PROVE  Once(t, after) /\ Follows(box[t], p, got, n, In(t, after))
        BY <1>4, <1>7, <1>9, <1>11, <2>1, <2>2, <2>4 DEF Delivers
    <3>1. Once(t, rest) /\ Follows(box[t], p, got, n, In(t, rest))
        BY <1>1, <2>1, <2>2, <2>4 DEF Delivers
    <3>2. PICK awaited, w : awaited = In(t, rest) /\ w = In(t, after) /\ (w => awaited)
        BY <1>5, <1>6
    <3>3. PICK bt : bt = box[t]
        OBVIOUS
    <3>4. Follows(bt, p, got, n, w)
      <4>1. Follows(bt, p, got, n, awaited) /\ (w => awaited)
          BY <3>1, <3>2, <3>3
      <4> QED
          BY ONLY <4>1, FollowsSkip
    <3> QED
        BY <1>5, <1>6, <3>1, <3>2, <3>3, <3>4
  <2>5. CASE t = s /\ p # c
    <3> SUFFICES ASSUME Times(Topic[p], channelsOf[t]) = 1
                 PROVE  Follows(box'[s], p, got, publisher[p].n, In(s, publisher[p].rest))
        BY <1>4, <1>7, <2>1, <2>2, <2>5 DEF Delivers
    <3>1. PICK m, awaited : m = publisher[p].n /\ awaited = In(s, publisher[p].rest)
        OBVIOUS
    <3>2. Follows(b, p, got, m, awaited)
        BY <1>8, <2>1, <2>2, <2>5, <3>1 DEF Delivers
    <3>3. Follows(Append(b, msg), p, got, m, awaited)
      <4>1. msg.from # p
          BY <1>3, <2>5
      <4> QED
          BY ONLY <3>2, <4>1, FollowsOther, b \in Seq(Messages), msg \in Messages
    <3> QED
        BY <1>9, <3>1, <3>2, <3>3
  <2>6. CASE t = s /\ p = c
    <3> SUFFICES ASSUME Times(Topic[p], channelsOf[t]) = 1
                 PROVE  Once(s, after) /\ Follows(box'[s], c, got, n, In(s, after))
        BY <1>4, <1>7, <2>1, <2>2, <2>6 DEF Delivers
    <3>1. Once(s, rest) /\ Follows(b, c, got, n, In(s, rest))
        BY <1>1, <1>8, <2>1, <2>2, <2>6 DEF Delivers
    <3>2. In(s, rest)
        BY <1>1, <1>2 DEF In
    <3>3. Follows(b, c, got, n, TRUE)
        BY <3>1, <3>2 DEF Follows
    <3>4. Follows(b, c, got, n, FALSE)
        BY <3>3 DEF Follows
    <3>5. Follows(Append(b, msg), c, got, n, FALSE)
        BY <1>3, <3>3, FollowsAppend
    <3>6. Once(s, after) /\ ~In(s, after)
        BY <1>5, <1>6, <3>1
    <3>7. Follows(box'[s], c, got, n, FALSE)
        BY <1>9, <3>4, <3>5
    <3> QED
        BY <3>6, <3>7 DEF Follows
  <2> QED
      BY <2>3, <2>4, <2>5, <2>6
<1> QED
    BY <1>10, <1>12, <1>13 DEF PushInv

\* A stream is sent the oldest message of its channel.
LEMMA ForwardPushes ==
    ASSUME PushInv, NEW s \in Streams, Forward(s)
    PROVE  PushInv'
<1>0. s \in PubSubs /\ Streams \subseteq PubSubs /\ stream[s] = "open"
    BY DEF PubSubs, Forward
<1>1. PICK b \in Seq(Messages) : b = box[s] /\ b # <<>>
    BY <1>0 DEF PushInv, PushTypes, Forward
<1>2. PICK msg \in Messages : msg = Head(b)
    BY <1>1
<1>3. msg.from \in Publishers /\ msg.n \in Nat
    BY DEF Messages
<1>4. PICK c \in Publishers, m \in Nat : c = msg.from /\ m = msg.n
    BY <1>3
<1>5. PICK last \in Nat : last = received[s][c]
    BY DEF PushInv, PushTypes
<1>6. PICK now \in Nat : now = IF last < m THEN m ELSE MaxMessages[c] + 1
    BY BoundIsNat
<1>7. /\ box' = [box EXCEPT ![s] = Tail(b)]
      /\ received' = [received EXCEPT ![s][c] = now]
      /\ UNCHANGED <<subscribers, channelsOf, publisher, stored, stream>>
    BY <1>1, <1>2, <1>4, <1>5, <1>6 DEF Forward
<1>8. /\ box'[s] = Tail(b) /\ Tail(b) \in Seq(Messages)
      /\ \A t \in PubSubs : t # s => box'[t] = box[t]
    BY <1>0, <1>1, <1>7 DEF PushInv, PushTypes
<1>9. /\ received'[s][c] = now
      /\ \A t \in Streams : t # s => received'[t] = received[t]
      /\ \A p \in Publishers : p # c => received'[s][p] = received[s][p]
    BY <1>7 DEF PushInv, PushTypes
<1>10. PushTypes'
  <2>1. box' \in [PubSubs -> Seq(Messages)]
      BY <1>7, <1>8 DEF PushInv, PushTypes
  <2>2. received' \in [Streams -> [Publishers -> Nat]]
      BY <1>7 DEF PushInv, PushTypes
  <2> QED
      BY <1>7, <2>1, <2>2 DEF PushInv, PushTypes
<1>11. ASSUME NEW t \in Streams
       PROVE  Unopened(t)'
  <2>1. Unopened(t)
      BY DEF PushInv
  <2>2. CASE t = s
      BY <1>0, <1>7, <2>2 DEF Unopened
  <2>3. CASE t # s
    <3>1. box'[t] = box[t] /\ received'[t] = received[t]
        BY <1>0, <1>8, <1>9, <2>3
    <3> QED
        BY <1>7, <2>1, <3>1 DEF Unopened
  <2> QED
      BY <2>2, <2>3
<1>12. ASSUME NEW t \in Streams, NEW p \in Publishers
       PROVE  Delivers(t, p)'
  <2>1. Delivers(t, p)
      BY DEF PushInv
  <2>2. CASE t # s
    <3>1. box'[t] = box[t] /\ received'[t] = received[t]
        BY <1>0, <1>8, <1>9, <2>2
    <3> QED
        BY <1>7, <2>1, <3>1 DEF Delivers
  <2>3. CASE t = s
    <3>1. PICK got, n, awaited : /\ got = received[s][p] /\ n = publisher[p].n
                                 /\ awaited = In(s, publisher[p].rest)
        OBVIOUS
    <3> SUFFICES ASSUME Times(Topic[p], channelsOf[s]) = 1
                 PROVE  Follows(Tail(b), p, received'[s][p], n, awaited)
        BY <1>7, <1>8, <2>1, <2>3, <3>1 DEF Delivers
    <3>2. Follows(b, p, got, n, awaited)
        BY <1>1, <2>1, <2>3, <3>1 DEF Delivers
    <3>3. Follows(Tail(b), p, IF msg.from = p THEN msg.n ELSE got, n, awaited)
        BY <1>1, <1>2, <3>2, FollowsTail
    <3>4. received'[s][p] = IF msg.from = p THEN msg.n ELSE got
      <4>1. CASE p = c
        <5>1. b[1] = msg /\ 1 \in 1 .. Len(b)
            BY <1>1, <1>2
        <5>2. got < b[1].n
            BY <1>4, <3>2, <4>1, <5>1 DEF Follows
        <5>3. last < m
            BY <1>4, <1>5, <3>1, <4>1, <5>1, <5>2
        <5> QED
            BY <1>4, <1>6, <1>9, <4>1, <5>3
      <4>2. CASE p # c
          BY <1>4, <1>9, <3>1, <4>2
      <4> QED
          BY <4>1, <4>2
    <3> QED
        BY <3>3, <3>4
  <2> QED
      BY <2>2, <2>3
<1> QED
    BY <1>10, <1>11, <1>12 DEF PushInv

\* The hub takes the oldest message of its own channel.
LEMMA BroadcastPushes ==
    ASSUME PushInv, Broadcast
    PROVE  PushInv'
<1>0. Hub \in PubSubs /\ Streams \subseteq PubSubs /\ Hub \notin Streams
    BY PushAssumption DEF PubSubs
<1>1. PICK b \in Seq(Messages) : b = box[Hub] /\ b # <<>>
    BY <1>0 DEF PushInv, PushTypes, Broadcast
<1>2. /\ box' = [box EXCEPT ![Hub] = Tail(b)] /\ Tail(b) \in Seq(Messages)
      /\ UNCHANGED <<subscribers, channelsOf, publisher, stored, stream, received>>
    BY <1>1 DEF Broadcast, sseVars
<1>3. \A t \in Streams : box'[t] = box[t]
    BY <1>0, <1>2 DEF PushInv, PushTypes
<1>4. PushTypes'
  <2>1. box' \in [PubSubs -> Seq(Messages)]
      BY <1>2 DEF PushInv, PushTypes
  <2> QED
      BY <1>2, <2>1 DEF PushInv, PushTypes
<1>5. ASSUME NEW t \in Streams PROVE Unopened(t)'
    BY <1>2, <1>3 DEF PushInv, Unopened
<1>6. ASSUME NEW t \in Streams, NEW p \in Publishers PROVE Delivers(t, p)'
    BY <1>2, <1>3 DEF PushInv, Delivers
<1> QED
    BY <1>4, <1>5, <1>6 DEF PushInv

\* A stream begins to open, or ends.
LEMMA StagePushes ==
    ASSUME PushInv, NEW s \in Streams, Connect(s) \/ StreamReturns(s)
    PROVE  PushInv'
<1>1. UNCHANGED <<subscribers, channelsOf, box, publisher, received>>
    BY DEF Connect, StreamReturns, pubsubVars
<1>2. \/ stored' = s /\ stream[s] = "idle" /\ stream' = [stream EXCEPT ![s] = "stored"]
      \/ stored' = stored /\ stream[s] = "open" /\ stream' = [stream EXCEPT ![s] = "gone"]
    BY DEF Connect, StreamReturns
<1>3. \A t \in Streams : stream'[t] \in {"idle", "stored"} => stream[t] \in {"idle", "stored"}
    BY <1>2 DEF PushInv, PushTypes
<1>4. PushTypes'
    BY <1>1, <1>2 DEF PushInv, PushTypes
<1>5. ASSUME NEW t \in Streams PROVE Unopened(t)'
    BY <1>1, <1>3 DEF PushInv, Unopened
<1>6. ASSUME NEW t \in Streams, NEW p \in Publishers PROVE Delivers(t, p)'
    BY <1>1 DEF PushInv, Delivers
<1> QED
    BY <1>4, <1>5, <1>6 DEF PushInv

\* Whatever leaves lists, channels and streams alone keeps the invariant.
LEMMA PushIdle ==
    ASSUME PushInv, UNCHANGED <<subscribers, channelsOf, box, publisher, stored, stream, received>>
    PROVE  PushInv'
  BY DEF PushInv, PushTypes, Unopened, Delivers

\* The invariant is inductive.
LEMMA PushInvStep == PushInv /\ [Next]_vars => PushInv'
<1> SUFFICES ASSUME PushInv, [Next]_vars
             PROVE  PushInv'
    OBVIOUS
<1>1. CASE UNCHANGED vars
    BY <1>1, PushIdle DEF vars, pubsubVars, sseVars
<1>2. ASSUME NEW s \in Streams, StreamNext(s)
      PROVE  PushInv'
  <2>1. CASE Disconnect(s)
      BY <2>1, PushIdle DEF Disconnect, pubsubVars
  <2>2. CASE CleanerWakes(s)
      BY <2>2, PushIdle DEF CleanerWakes, sseVars
  <2> QED
      BY <1>2, <2>1, <2>2, OpenPushes, RemovalPushes, ForwardPushes, StagePushes DEF StreamNext
<1>3. ASSUME NEW c \in Sockets, SocketNext(c)
      PROVE  PushInv'
  <2>1. UNCHANGED <<pubsubVars, sseVars>>
      BY <1>3 DEF SocketNext, Dial, Register, Unregister, FallsIdle, StartUpdate, EndUpdate,
                  ReadFails, Write, WriterReturns, PingFails
  <2> QED
      BY <2>1, PushIdle DEF pubsubVars, sseVars
<1>4. CASE CleanupInactive
    BY <1>4, PushIdle DEF CleanupInactive, pubsubVars, sseVars
<1> QED
    BY <1>1, <1>2, <1>3, <1>4, PublishPushes, SendPushes, BroadcastPushes DEF Next

\* A stream whose query maps to a channel once is sent the messages of each publisher of
\* that channel in order and none of them twice, for any number of streams, of publishers
\* of one channel and of messages, any capacity, and however subscribing, publishing,
\* sending and unlisting interleave (Publish, sendMessage, handleMockPubSub).
THEOREM StreamsInOrderOnce == Spec => []InOrderOnce
<1>1. ASSUME PushInv PROVE InOrderOnce
  <2> SUFFICES ASSUME NEW s \in Streams, NEW p \in Publishers, Times(Topic[p], channelsOf[s]) = 1
               PROVE  received[s][p] <= MaxMessages[p]
      BY DEF InOrderOnce
  <2>1. received[s][p] <= publisher[p].n
      BY <1>1 DEF PushInv, Delivers, Follows
  <2>2. received[s][p] \in Nat /\ publisher[p].n \in Nat /\ publisher[p].n <= MaxMessages[p]
      BY <1>1 DEF PushInv, PushTypes
  <2> QED
      BY <2>1, <2>2, BoundIsNat
<1> QED
    BY <1>1, PushInvInit, PushInvStep, PTL DEF Spec

-----------------------------------------------------------------------------
(* Whoever has left is unlisted: how often a subscription is listed. *)

\* Listed or not, by its count.
LEMMA InByTimes ==
    ASSUME NEW S, NEW seq \in Seq(S), NEW t
    PROVE  /\ IsFiniteSet({i \in 1 .. Len(seq) : seq[i] = t})
           /\ In(t, seq) <=> Times(t, seq) # 0
<1> DEFINE P == {i \in 1 .. Len(seq) : seq[i] = t}
<1>1. IsFiniteSet(1 .. Len(seq)) /\ P \subseteq 1 .. Len(seq)
    BY FS_Interval
<1>2. IsFiniteSet(P)
    BY <1>1, FS_Subset
<1>3. Cardinality(P) = 0 <=> P = {}
    BY <1>2, FS_EmptySet
<1>4. In(t, seq) <=> P # {}
    BY DEF In
<1> QED
    BY <1>2, <1>3, <1>4 DEF Times

\* Taking out an entry of s leaves one entry less of s and no more of the others.
LEMMA DropTimes ==
    ASSUME NEW S, NEW seq \in Seq(S), NEW d \in 1 .. Len(seq), NEW t
    PROVE  /\ Times(t, Drop(seq, d)) <= Times(t, seq)
           /\ seq[d] = t => Times(t, Drop(seq, d)) <= Times(t, seq) - 1
<1>1. PICK n \in Nat : n = Len(seq) /\ d \in 1 .. n
    OBVIOUS
<1>2. PICK out \in Seq(S) : out = Drop(seq, d)
    BY DropAt
<1>3. Len(out) = n - 1 /\ \A i \in 1 .. n - 1 : out[i] = seq[Place(i, d)] /\ Place(i, d) \in 1 .. n
    BY <1>1, <1>2, DropAt
<1> DEFINE P == {i \in 1 .. n : seq[i] = t}
           Q == {i \in 1 .. n - 1 : out[i] = t}
           f == [i \in Q |-> Place(i, d)]
<1>4. IsFiniteSet(P) /\ Times(t, seq) = Cardinality(P) /\ Times(t, out) = Cardinality(Q)
    BY <1>1, <1>3, InByTimes DEF Times
<1>5. ASSUME NEW i \in Q PROVE Place(i, d) \in P \ {d}
  <2>1. Place(i, d) # d
      BY <1>1 DEF Place
  <2> QED
      BY <1>3, <2>1
<1>6. ASSUME NEW i \in Q, NEW j \in Q, Place(i, d) = Place(j, d) PROVE i = j
  <2>1. i \in Int /\ j \in Int /\ d \in Int
      BY <1>1
  <2> QED
      BY <1>6, <2>1 DEF Place
<1>7. f \in Injection(Q, P \ {d})
  <2>1. f \in [Q -> P \ {d}]
      BY <1>5
  <2>2. \A i, j \in Q : f[i] = f[j] => i = j
      BY <1>6
  <2> QED
      BY <2>1, <2>2 DEF Injection, IsInjective
<1>8. IsFiniteSet(P \ {d}) /\ Cardinality(Q) <= Cardinality(P \ {d})
  <2>1. IsFiniteSet(P \ {d})
      BY <1>4, FS_RemoveElement
  <2> HIDE DEF P, Q, f
  <2> QED
      BY <1>7, <2>1, FS_Injection
<1>9. Cardinality(P \ {d}) = IF d \in P THEN Cardinality(P) - 1 ELSE Cardinality(P)
    BY <1>4, FS_RemoveElement
<1>10. Cardinality(P) \in Nat /\ Cardinality(Q) \in Nat
  <2>1. IsFiniteSet(Q)
      BY <1>2, <1>3, InByTimes
  <2> QED
      BY <1>4, <2>1, FS_CardinalityType
<1>11. seq[d] = t => d \in P
    BY <1>1
<1> HIDE DEF P, Q, f
<1> QED
    BY <1>2, <1>4, <1>8, <1>9, <1>10, <1>11

\* Looking for s as often as it may be listed unlists it, and lists nobody more often.
LEMMA UnlistedTimes ==
    ASSUME NEW S, NEW seq \in Seq(S), NEW s, NEW n \in Nat
    PROVE  /\ \A t : Times(t, Unlisted(seq, s, n)) <= Times(t, seq)
           /\ Times(s, seq) <= n => Times(s, Unlisted(seq, s, n)) = 0
<1>1. PICK u : /\ u = [k \in 0 .. n |-> IF k = 0 THEN seq ELSE Round(u[k - 1], s)]
               /\ Unlisted(seq, s, n) = u[n]
    BY RoundsExist
<1> DEFINE Good(v, k) == /\ v \in Seq(S)
                         /\ \A t : Times(t, v) <= Times(t, seq)
                         /\ Times(s, v) # 0 => Times(s, v) + k <= Times(s, seq)
           G == {k \in Nat : k <= n => Good(u[k], k)}
<1>2. u[0] = seq /\ \A k \in Nat : k + 1 <= n => u[k + 1] = Round(u[k], s)
  <2>1. 0 \in 0 .. n
      OBVIOUS
  <2>2. ASSUME NEW k \in Nat, k + 1 <= n PROVE u[k + 1] = Round(u[k], s)
    <3>1. k + 1 \in 0 .. n /\ k + 1 # 0 /\ (k + 1) - 1 = k
        BY <2>2
    <3> QED
        BY <1>1, <3>1
  <2> QED
      BY <1>1, <2>1, <2>2
<1>3. 0 \in G
  <2>1. \A t : Times(t, seq) \in Nat
      BY TimesType
  <2>2. Good(seq, 0)
      BY <2>1
  <2> HIDE DEF Good
  <2> QED
      BY <1>2, <2>2
<1>4. ASSUME NEW k \in Nat, k \in G PROVE k + 1 \in G
  <2> SUFFICES ASSUME k + 1 <= n PROVE Good(u[k + 1], k + 1)
      OBVIOUS
  <2>1. PICK v \in Seq(S) : v = u[k] /\ Good(v, k) /\ u[k + 1] = Round(v, s)
    <3>1. Good(u[k], k) /\ u[k + 1] = Round(u[k], s)
      <4> HIDE DEF Good
      <4> QED
          BY <1>2, <1>4
    <3> QED
        BY <3>1
  <2>2. \A t : Times(t, v) \in Nat /\ Times(t, seq) \in Nat
      BY TimesType
  <2>3. CASE In(s, v)
    <3>1. PICK d \in 1 .. Len(v) : u[k + 1] = Drop(v, d) /\ v[d] = s
        BY <2>1, <2>3, IndexInList DEF Round
    <3>2. PICK w \in Seq(S) : w = Drop(v, d)
        BY DropAt
    <3>3. \A t : Times(t, w) \in Nat
        BY TimesType
    <3>4. (\A t : Times(t, w) <= Times(t, v)) /\ Times(s, w) <= Times(s, v) - 1
        BY <3>1, <3>2, DropTimes
    <3>5. Times(s, v) # 0
        BY <2>3, InByTimes
    <3>6. \A t : Times(t, w) <= Times(t, seq)
      <4> TAKE t
      <4>1. Times(t, w) <= Times(t, v) /\ Times(t, v) <= Times(t, seq)
          BY <2>1, <3>4
      <4> QED
          BY <2>2, <3>3, <4>1
    <3>7. Times(s, w) + (k + 1) <= Times(s, seq)
      <4>1. Times(s, v) + k <= Times(s, seq)
          BY <2>1, <3>5
      <4> QED
          BY <2>2, <3>3, <3>4, <4>1
    <3> QED
        BY <3>1, <3>2, <3>6, <3>7
  <2>4. CASE ~In(s, v)
    <3>1. u[k + 1] = v /\ Times(s, v) = 0
        BY <2>1, <2>4, InByTimes DEF Round
    <3> QED
        BY <2>1, <3>1
  <2> QED
      BY <2>3, <2>4
<1>5. n \in G
  <2> HIDE DEF G
  <2> QED
      BY <1>3, <1>4, SetInduction
<1>6. Good(u[n], n)
    BY <1>5
<1>7. Times(s, u[n]) \in Nat /\ Times(s, seq) \in Nat
    BY <1>6, TimesType
<1> QED
    BY <1>1, <1>6, <1>7

\* Subscribing lists the newcomer as often as said, and the others as before.
LEMMA JoinedTimes ==
    ASSUME NEW S, NEW seq \in Seq(S), NEW s \in S, NEW n \in Nat, ~In(s, seq),
           NEW new \in Seq(S), Len(new) = n, \A i \in 1 .. n : new[i] = s,
           NEW joined, joined = seq \o new
    PROVE  /\ Times(s, joined) <= n
           /\ \A t : t # s => Times(t, joined) <= Times(t, seq)
<1>1. PICK m \in Nat : m = Len(seq)
    OBVIOUS
<1>2. PICK all \in Seq(S) : /\ all = joined /\ Len(all) = m + n
                            /\ \A i \in 1 .. m + n : all[i] = IF i <= m THEN seq[i] ELSE new[i - m]
  <2>1. /\ seq \o new \in Seq(S) /\ Len(seq \o new) = Len(seq) + Len(new)
        /\ \A i \in 1 .. Len(seq) + Len(new) :
                (seq \o new)[i] = IF i <= Len(seq) THEN seq[i] ELSE new[i - Len(seq)]
      BY ONLY seq \in Seq(S), new \in Seq(S)
  <2>2. Len(new) = n /\ joined = seq \o new
      OBVIOUS
  <2> QED
      BY ONLY <1>1, <2>1, <2>2
<1>3. /\ \A i \in 1 .. m + n : i \in 1 .. m => all[i] = seq[i]
      /\ \A i \in 1 .. m + n : i \notin 1 .. m => all[i] = s
  <2>1. ASSUME NEW i \in 1 .. m + n, i \notin 1 .. m PROVE all[i] = s
    <3>1. ~(i <= m) /\ i - m \in 1 .. n
        BY <2>1
    <3>2. \A j \in 1 .. n : new[j] = s
        OBVIOUS
    <3> QED
        BY <1>2, <3>1, <3>2
  <2>2. ASSUME NEW i \in 1 .. m + n, i \in 1 .. m PROVE all[i] = seq[i]
    <3>1. i <= m
        BY <2>2
    <3> QED
        BY <1>2, <3>1
  <2> QED
      BY <2>1, <2>2
<1>4. Times(s, all) <= n
  <2> DEFINE P == {i \in 1 .. Len(all) : all[i] = s}
  <2>1. P \subseteq m + 1 .. m + n
    <3>1. \A i \in 1 .. m : seq[i] # s
        BY <1>1 DEF In
    <3> QED
        BY <1>2, <1>3, <3>1
  <2>2. IsFiniteSet(m + 1 .. m + n) /\ Cardinality(m + 1 .. m + n) = n
    <3>1. PICK a \in Int, b \in Int : a = m + 1 /\ b = m + n
        OBVIOUS
    <3>2. IsFiniteSet(a .. b) /\ Cardinality(a .. b) = IF a > b THEN 0 ELSE b - a + 1
        BY FS_Interval
    <3>3. (IF a > b THEN 0 ELSE b - a + 1) = n
        BY <3>1
    <3> QED
        BY <3>1, <3>2, <3>3
  <2>3. Cardinality(P) <= n
      BY <2>1, <2>2, FS_Subset
  <2> QED
      BY <2>3 DEF Times
<1>5. ASSUME NEW t, t # s PROVE Times(t, all) <= Times(t, seq)
  <2> DEFINE P == {i \in 1 .. Len(all) : all[i] = t}
             Q == {i \in 1 .. Len(seq) : seq[i] = t}
  <2>1. P \subseteq Q
      BY <1>1, <1>2, <1>3, <1>5
  <2>2. IsFiniteSet(Q)
      BY InByTimes
  <2>3. Cardinality(P) <= Cardinality(Q)
      BY <2>1, <2>2, FS_Subset
  <2> QED
      BY <2>3 DEF Times
<1> QED
    BY <1>2, <1>4, <1>5

\* a subscription is listed no more often than its query named the channel, and its
\* cleanup goroutine, once it is through, has left no entry of it
Listing(s, ch) ==
    Times(s, subscribers[ch]) <= IF cleaner[s] = "gone" THEN 0 ELSE Times(ch, channelsOf[s])

(***************************************************************************)
(* A cleanup goroutine looks for its subscription once for each channel    *)
(* the query named, so no subscription may be listed more often than that, *)
(* and a stream that is not open yet has no such goroutine.                *)
(***************************************************************************)
ListInv ==
    /\ PushInv
    /\ cleaner = [s \in PubSubs |-> cleaner[s]]
    /\ \A s \in Streams : cleaner[s] # "none" => stream[s] \in {"open", "gone"}
    /\ \A s \in Streams, ch \in Channels : Listing(s, ch)

\* At first only the hub is listed.
LEMMA ListInvInit == Init => ListInv
<1> SUFFICES ASSUME Init PROVE ListInv
    OBVIOUS
<1>1. PushInv
    BY PushInvInit
<1>2. ASSUME NEW s \in Streams PROVE cleaner[s] = "none" /\ stream[s] = "idle"
    BY PushAssumption DEF Init, PubSubs
<1>3. ASSUME NEW s \in Streams, NEW ch \in Channels PROVE Listing(s, ch)
  <2>1. ~In(s, subscribers[ch]) /\ Times(ch, channelsOf[s]) = 0
      BY <1>1, <1>2 DEF PushInv, Unopened
  <2>2. Times(s, subscribers[ch]) = 0
      BY <1>1, <2>1, InByTimes DEF PushInv, PushTypes
  <2> QED
      BY <1>2, <2>1, <2>2 DEF Listing
<1>4. cleaner = [s \in PubSubs |-> cleaner[s]]
    BY DEF Init
<1> QED
    BY <1>1, <1>2, <1>3, <1>4 DEF ListInv

\* Opening a stream lists it as often as its query maps to the channel, and nobody else.
LEMMA OpenLists ==
    ASSUME ListInv, NEW s \in Streams, OpenStream(s)
    PROVE  ListInv'
<1>0. /\ s \in PubSubs /\ Streams \subseteq PubSubs /\ stored \in Streams /\ stream[s] = "stored"
      /\ PushInv /\ PushTypes
    BY DEF ListInv, PushInv, PushTypes, OpenStream, PubSubs
<1>1. PICK chs \in Seq(Channels) : chs = StreamChannels[<<s, stored>>]
    BY <1>0, PushAssumption
<1>2. /\ channelsOf' = [channelsOf EXCEPT ![s] = chs]
      /\ subscribers' = [ch \in Channels |-> subscribers[ch] \o [i \in 1 .. Times(ch, chs) |-> s]]
      /\ cleaner' = [cleaner EXCEPT ![s] = "waiting"]
      /\ stream' = [stream EXCEPT ![s] = "open"]
    BY <1>1 DEF OpenStream, Subscribe
<1>3. PushInv'
    BY <1>0, OpenPushes
<1>4. ASSUME NEW ch \in Channels
      PROVE  /\ Times(s, subscribers'[ch]) <= Times(ch, chs)
             /\ \A t : t # s => Times(t, subscribers'[ch]) <= Times(t, subscribers[ch])
  <2>1. PICK n \in Nat : n = Times(ch, chs)
      BY TimesType
  <2>2. PICK old \in Seq(PubSubs) : old = subscribers[ch] /\ ~In(s, old)
      BY <1>0 DEF PushInv, PushTypes, Unopened
  <2>3. PICK new : new = subscribers'[ch]
      OBVIOUS
  <2>4. [i \in 1 .. n |-> s] \in Seq(PubSubs) /\ Len([i \in 1 .. n |-> s]) = n
      BY <1>0
  <2>5. PICK add \in Seq(PubSubs) : /\ add = [i \in 1 .. n |-> s] /\ Len(add) = n
                                    /\ \A i \in 1 .. n : add[i] = s
      BY <2>4
  <2>6. /\ s \in PubSubs /\ Len(add) = n /\ (\A i \in 1 .. n : add[i] = s) /\ new = old \o add
        /\ ~In(s, old)
      BY <1>0, <1>2, <2>1, <2>2, <2>3, <2>5
  <2>7. Times(s, new) <= n /\ \A t : t # s => Times(t, new) <= Times(t, old)
      BY ONLY <2>6, JoinedTimes, add \in Seq(PubSubs), old \in Seq(PubSubs), n \in Nat
  <2> QED
      BY ONLY <2>1, <2>2, <2>3, <2>7
<1>5. cleaner' = [t \in PubSubs |-> cleaner'[t]]
    BY <1>2 DEF ListInv
<1>6. \A t \in Streams : /\ t = s => /\ cleaner'[t] = "waiting" /\ channelsOf'[t] = chs
                                     /\ stream'[t] = "open"
                         /\ t # s => /\ cleaner'[t] = cleaner[t] /\ channelsOf'[t] = channelsOf[t]
                                     /\ stream'[t] = stream[t]
    BY <1>0, <1>2 DEF ListInv, PushTypes
<1>7. ASSUME NEW t \in Streams, NEW ch \in Channels PROVE Listing(t, ch)'
  <2>1. CASE t = s
      BY <1>4, <1>6, <2>1 DEF Listing
  <2>2. CASE t # s
    <3>1. Listing(t, ch) /\ Times(t, subscribers'[ch]) <= Times(t, subscribers[ch])
        BY <1>4, <2>2 DEF ListInv
    <3>2. /\ Times(t, subscribers'[ch]) \in Nat /\ Times(t, subscribers[ch]) \in Nat
          /\ Times(ch, channelsOf[t]) \in Nat
      <4>1. subscribers'[ch] \in Seq(PubSubs)
          BY <1>3 DEF PushInv, PushTypes
      <4>2. subscribers[ch] \in Seq(PubSubs) /\ channelsOf[t] \in Seq(Channels)
          BY <1>0 DEF PushTypes
      <4> QED
          BY <4>1, <4>2, TimesType
    <3> QED
        BY <1>6, <2>2, <3>1, <3>2 DEF Listing
  <2> QED
      BY <2>1, <2>2
<1>8. \A t \in Streams : cleaner'[t] # "none" => stream'[t] \in {"open", "gone"}
    BY <1>6 DEF ListInv
<1> QED
    BY <1>3, <1>5, <1>7, <1>8 DEF ListInv

\* The cleanup goroutine leaves no entry of its subscription.
LEMMA RemovalLists ==
    ASSUME ListInv, NEW s \in Streams, CleanerRemoves(s)
    PROVE  ListInv'
<1>0. s \in PubSubs /\ Streams \subseteq PubSubs /\ PushInv /\ PushTypes
    BY DEF ListInv, PushInv, PubSubs
<1>1. /\ cleaner[s] = "removing" /\ cleaner' = [cleaner EXCEPT ![s] = "gone"]
      /\ subscribers' = [ch \in Channels |-> Unlisted(subscribers[ch], s, Times(ch, channelsOf[s]))]
      /\ UNCHANGED <<channelsOf, stream>>
    BY DEF CleanerRemoves, sseVars
<1>2. PushInv'
    BY <1>0, RemovalPushes
<1>3. ASSUME NEW ch \in Channels
      PROVE  /\ Times(s, subscribers'[ch]) = 0
             /\ \A t : Times(t, subscribers'[ch]) <= Times(t, subscribers[ch])
  <2>1. PICK n \in Nat : n = Times(ch, channelsOf[s])
      BY <1>0, TimesType DEF PushTypes
  <2>2. PICK old \in Seq(PubSubs) : old = subscribers[ch]
      BY <1>0 DEF PushTypes
  <2>3. subscribers'[ch] = Unlisted(old, s, n)
      BY <1>1, <2>1, <2>2
  <2>4. Times(s, old) <= n
      BY <1>1, <2>1, <2>2 DEF ListInv, Listing
  <2> QED
      BY <2>2, <2>3, <2>4, UnlistedTimes
<1>4. cleaner' = [t \in PubSubs |-> cleaner'[t]]
    BY <1>1 DEF ListInv
<1>5. \A t \in Streams : cleaner'[t] = IF t = s THEN "gone" ELSE cleaner[t]
    BY <1>0, <1>1 DEF ListInv
<1>6. ASSUME NEW t \in Streams, NEW ch \in Channels PROVE Listing(t, ch)'
  <2>1. CASE t = s
      BY <1>3, <1>5, <2>1 DEF Listing
  <2>2. CASE t # s
    <3>1. Listing(t, ch) /\ Times(t, subscribers'[ch]) <= Times(t, subscribers[ch])
        BY <1>3 DEF ListInv
    <3>2. /\ Times(t, subscribers'[ch]) \in Nat /\ Times(t, subscribers[ch]) \in Nat
          /\ Times(ch, channelsOf[t]) \in Nat
      <4>1. subscribers'[ch] \in Seq(PubSubs)
          BY <1>2 DEF PushInv, PushTypes
      <4>2. subscribers[ch] \in Seq(PubSubs) /\ channelsOf[t] \in Seq(Channels)
          BY <1>0 DEF PushTypes
      <4> QED
          BY <4>1, <4>2, TimesType
    <3> QED
        BY <1>1, <1>5, <2>2, <3>1, <3>2 DEF Listing
  <2> QED
      BY <2>1, <2>2
<1>7. \A t \in Streams : cleaner'[t] # "none" => stream'[t] \in {"open", "gone"}
    BY <1>1, <1>5 DEF ListInv
<1> QED
    BY <1>2, <1>4, <1>6, <1>7 DEF ListInv

\* The stages of a stream and its goroutine go on, and the lists stay.
LEMMA StageLists ==
    ASSUME ListInv, NEW s \in Streams, Connect(s) \/ StreamReturns(s) \/ CleanerWakes(s), PushInv'
    PROVE  ListInv'
<1>0. s \in PubSubs /\ Streams \subseteq PubSubs /\ PushTypes
    BY DEF ListInv, PushInv, PubSubs
<1>1. UNCHANGED <<subscribers, channelsOf>>
    BY DEF Connect, StreamReturns, CleanerWakes, pubsubVars
<1>2. \/ stream[s] = "idle" /\ stream' = [stream EXCEPT ![s] = "stored"] /\ cleaner' = cleaner
      \/ stream[s] = "open" /\ stream' = [stream EXCEPT ![s] = "gone"] /\ cleaner' = cleaner
      \/ cleaner[s] = "waiting" /\ cleaner' = [cleaner EXCEPT ![s] = "removing"] /\ stream' = stream
    BY DEF Connect, StreamReturns, CleanerWakes, pubsubVars, sseVars
<1>3. cleaner' = [t \in PubSubs |-> cleaner'[t]]
    BY <1>2 DEF ListInv
<1>4. \A t \in Streams : /\ cleaner'[t] = "gone" <=> cleaner[t] = "gone"
                         /\ cleaner'[t] = "none" <=> cleaner[t] = "none"
    BY <1>0, <1>2 DEF ListInv
<1>5. \A t \in Streams : stream[t] \in {"open", "gone"} => stream'[t] \in {"open", "gone"}
    BY <1>0, <1>2 DEF PushTypes
<1>6. \A t \in Streams, ch \in Channels : Listing(t, ch)'
    BY <1>1, <1>4 DEF ListInv, Listing
<1> QED
    BY <1>3, <1>4, <1>5, <1>6 DEF ListInv

\* Whatever leaves the lists and the goroutines alone keeps the invariant.
LEMMA ListIdle ==
    ASSUME ListInv, PushInv', UNCHANGED <<subscribers, channelsOf, cleaner, stream>>
    PROVE  ListInv'
  BY DEF ListInv, Listing

\* The invariant is inductive.
LEMMA ListInvStep == ListInv /\ [Next]_vars => ListInv'
<1> SUFFICES ASSUME ListInv, [Next]_vars PROVE ListInv'
    OBVIOUS
<1>0. PushInv'
    BY PushInvStep DEF ListInv
<1>1. CASE UNCHANGED vars
    BY <1>0, <1>1, ListIdle DEF vars, pubsubVars, sseVars
<1>2. ASSUME NEW s \in Streams, StreamNext(s) PROVE ListInv'
  <2>1. CASE Disconnect(s) \/ Forward(s)
    <3>1. UNCHANGED <<subscribers, channelsOf, cleaner, stream>>
        BY <2>1 DEF Disconnect, Forward, pubsubVars
    <3> QED
        BY <1>0, <3>1, ListIdle
  <2> QED
      BY <1>0, <1>2, <2>1, OpenLists, RemovalLists, StageLists DEF StreamNext
<1>3. ASSUME NEW c \in Sockets, SocketNext(c) PROVE ListInv'
  <2>1. UNCHANGED <<pubsubVars, sseVars>>
      BY <1>3 DEF SocketNext, Dial, Register, Unregister, FallsIdle, StartUpdate, EndUpdate,
                  ReadFails, Write, WriterReturns, PingFails
  <2> QED
      BY <1>0, <2>1, ListIdle DEF pubsubVars, sseVars
<1>4. ASSUME NEW p \in Publishers, Publish(p) \/ Send(p) PROVE ListInv'
  <2>1. UNCHANGED <<subscribers, channelsOf, cleaner, stream>>
      BY <1>4 DEF Publish, Send, sseVars
  <2> QED
      BY <1>0, <2>1, ListIdle
<1>5. CASE Broadcast \/ CleanupInactive
  <2>1. UNCHANGED <<subscribers, channelsOf, cleaner, stream>>
      BY <1>5 DEF Broadcast, CleanupInactive, pubsubVars, sseVars
  <2> QED
      BY <1>0, <2>1, ListIdle
<1> QED
    BY <1>1, <1>2, <1>3, <1>4, <1>5 DEF Next

\* A goroutine that is through stays so: no stream is opened twice.
LEMMA GoneForGood ==
    ASSUME ListInv, [Next]_vars, NEW s \in Streams, cleaner[s] = "gone"
    PROVE  cleaner'[s] = "gone"
<1>0. Streams \subseteq PubSubs /\ stream[s] \in {"open", "gone"}
    BY DEF ListInv, PubSubs
<1>1. CASE cleaner' = cleaner
    BY <1>1
<1>2. ASSUME NEW t \in Streams, OpenStream(t) \/ CleanerWakes(t) \/ CleanerRemoves(t)
      PROVE  cleaner'[s] = "gone"
  <2>1. \/ cleaner' = [cleaner EXCEPT ![t] = "gone"]
        \/ t # s /\ \E v : cleaner' = [cleaner EXCEPT ![t] = v]
      BY <1>0, <1>2 DEF OpenStream, Subscribe, CleanerWakes, CleanerRemoves
  <2> QED
      BY <1>0, <2>1 DEF ListInv
<1>3. \/ cleaner' = cleaner
      \/ \E t \in Streams : OpenStream(t) \/ CleanerWakes(t) \/ CleanerRemoves(t)
  <2>1. ASSUME NEW t \in Streams, Connect(t) \/ Disconnect(t) \/ Forward(t) \/ StreamReturns(t)
        PROVE  cleaner' = cleaner
      BY <2>1 DEF Connect, Disconnect, Forward, StreamReturns, pubsubVars
  <2>2. ASSUME NEW c \in Sockets, SocketNext(c) PROVE cleaner' = cleaner
      BY <2>2 DEF SocketNext, Dial, Register, Unregister, FallsIdle, StartUpdate, EndUpdate,
                  ReadFails, Write, WriterReturns, PingFails, pubsubVars
  <2>3. ASSUME NEW p \in Publishers, Publish(p) \/ Send(p) PROVE cleaner' = cleaner
      BY <2>3 DEF Publish, Send
  <2>4. CASE Broadcast \/ CleanupInactive
      BY <2>4 DEF Broadcast, CleanupInactive, pubsubVars
  <2>5. CASE UNCHANGED vars
      BY <2>5 DEF vars, pubsubVars
  <2> QED
      BY <2>1, <2>2, <2>3, <2>4, <2>5 DEF Next, StreamNext
<1> QED
    BY <1>1, <1>2, <1>3

(***************************************************************************)
(* Once the cleanup goroutine of a stream's subscription is through, the   *)
(* subscription is listed under no channel, and never will be again,       *)
(* however often its query names a channel, whoever closed it and whoever  *)
(* else subscribes, publishes or is unlisted meanwhile: the safety half of *)
(* LeftIsUnlisted, for any number of streams (PubSubHub.Subscribe and the  *)
(* goroutine it starts).                                                   *)
(***************************************************************************)
THEOREM GoneIsUnlisted ==
    ASSUME NEW s \in Streams
    PROVE  Spec => [](cleaner[s] = "gone" => [](\A ch \in Channels : ~Listed(s, ch)))
<1> DEFINE Gone == cleaner[s] = "gone"
           Off == \A ch \in Channels : ~Listed(s, ch)
<1>1. ListInv /\ Gone => Off
  <2> SUFFICES ASSUME ListInv, Gone, NEW ch \in Channels PROVE ~Listed(s, ch)
      OBVIOUS
  <2>1. PICK seq \in Seq(PubSubs) : seq = subscribers[ch]
      BY DEF ListInv, PushInv, PushTypes
  <2>2. Times(s, seq) <= 0 /\ Times(s, seq) \in Nat
      BY <2>1, TimesType DEF ListInv, Listing
  <2>3. Times(s, seq) = 0
      BY <2>2
  <2> QED
      BY <2>1, <2>3, InByTimes DEF Listed, In
<1>2. ListInv /\ Gone /\ [Next]_vars => Gone'
    BY GoneForGood
<1> HIDE DEF Gone, Off
<1>3. Spec => [](Gone => []Off)
    BY <1>1, <1>2, ListInvInit, ListInvStep, PTL DEF Spec
<1> QED
    BY <1>3 DEF Gone, Off

=============================================================================
