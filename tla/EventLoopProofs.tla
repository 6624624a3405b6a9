--------------------------- MODULE EventLoopProofs ---------------------------
(***************************************************************************)
(* Theorems about tcpservice, for every value of the constants.  EventLoop *)
(* is its listen thread: its types, the agreement of its registries, and   *)
(* that no event of a batch reaches a unit it was not reported for.        *)
(* TcpService is main, which starts and stops that thread and another: its *)
(* types, and that main and a thread are never in the same pool at once.   *)
(***************************************************************************)
EXTENDS EventLoop, TcpService, TLAPS

(* The part of TypeOK about the registries and the descriptors. *)
RegistryTypes ==
    /\ DOMAIN conn \subseteq Conn /\ conn \in [DOMAIN conn -> Connection]
    /\ DOMAIN m_poll_units \subseteq FD /\ m_poll_units \in [DOMAIN m_poll_units -> Conn]
    /\ DOMAIN m_connections \subseteq FD /\ m_connections \in [DOMAIN m_connections -> Conn]
    /\ DOMAIN epoll \subseteq FD /\ epoll \in [DOMAIN epoll -> SUBSET {"IN", "OUT"}]
    /\ DOMAIN sock \subseteq FD /\ sock \in [DOMAIN sock -> Sockets]

(* The numbers of connections are new, and the listener's event is for one that waits. *)
Numbered ==
    /\ DOMAIN conn \subseteq 1 .. accepted
    /\ Listener \in DOMAIN batch => accepted < arrived

(* The inductive invariant. *)
Registered ==
    /\ TypeOK /\ RegistriesAgree /\ EventsReachTheirUnit /\ CallNotInBatch /\ Numbered

(* What a handler of connection c does to the registries: nobody else notices. *)
Touches(c) ==
    /\ DOMAIN conn' \subseteq DOMAIN conn
    /\ \A d \in DOMAIN conn' : conn'[d].m_fd = conn[d].m_fd
    /\ \A f \in DOMAIN m_poll_units : m_poll_units[f] # c =>
        f \in DOMAIN m_poll_units' /\ m_poll_units'[f] = m_poll_units[f]

------------------------------------------------------------------------------
(* Handlers of one connection. *)

(* delete of a connection removes it everywhere and nothing else anywhere. *)
LEMMA DeleteStep ==
    ASSUME RegistryTypes, RegistriesAgree, NEW c \in DOMAIN conn, Delete(c)
    PROVE  RegistryTypes' /\ RegistriesAgree' /\ Touches(c)
<1>1. c \in Conn /\ conn[c].m_fd \in FD
    BY DEF RegistryTypes, Connection
<1>2. RegistryTypes'
    BY <1>1 DEF RegistryTypes, Delete, Without
<1>3. RegistriesAgree'
    BY <1>1 DEF RegistriesAgree, Delete, Without
<1>4. Touches(c)
    BY <1>1 DEF RegistriesAgree, Delete, Without, Touches
<1>. QED
    BY <1>2, <1>3, <1>4

(* Reading and decoding changes no registry. *)
LEMMA PacketsStep ==
    ASSUME RegistryTypes, RegistriesAgree, NEW c \in DOMAIN conn, NEW n \in Nat, OnPackets(c, n)
    PROVE  RegistryTypes' /\ RegistriesAgree' /\ Touches(c)
<1>1. conn[c] \in Connection /\ conn[c].m_fd \in DOMAIN sock
    BY DEF RegistryTypes, RegistriesAgree
<1>2. /\ DOMAIN conn' = DOMAIN conn /\ conn' \in [DOMAIN conn' -> Connection]
      /\ \A d \in DOMAIN conn : conn'[d].m_fd = conn[d].m_fd
    BY <1>1 DEF OnPackets, RegistryTypes, Connection
<1>3. DOMAIN sock' = DOMAIN sock /\ sock' \in [DOMAIN sock' -> Sockets]
    BY <1>1, ZenonT(30) DEF OnPackets, RegistryTypes, Sockets
<1>4. UNCHANGED <<m_poll_units, m_connections, epoll>>
    BY DEF OnPackets
<1>5. RegistryTypes'
    BY <1>2, <1>3, <1>4 DEF RegistryTypes
<1>6. RegistriesAgree'
    BY <1>2, <1>3, <1>4 DEF RegistriesAgree
<1>. QED
    BY <1>2, <1>4, <1>5, <1>6 DEF Touches

(* What Input leaves typed beside the registries. *)
TaskTypes ==
    work \in [Conn -> Nat] /\ returning \in [Conn -> Nat] /\ requests \in 0 .. MaxReq

LEMMA InputStep ==
    ASSUME RegistryTypes, RegistriesAgree, TaskTypes, NEW c \in DOMAIN conn, Input(c)
    PROVE  RegistryTypes' /\ RegistriesAgree' /\ Touches(c) /\ TaskTypes'
<1>0. c \in Conn /\ MaxReq - requests \in Nat /\ requests \in Nat
    BY EventLoopAssumption DEF RegistryTypes, TaskTypes
<1>1. CASE \E n \in 0 .. MaxReq - requests : OnPackets(c, n)
    <2>1. PICK n \in 0 .. MaxReq - requests : OnPackets(c, n)
        BY <1>1
    <2>2. n \in Nat /\ requests + n \in 0 .. MaxReq
        BY <1>0, EventLoopAssumption DEF TaskTypes
    <2>3. TaskTypes'
        BY <1>0, <2>1, <2>2 DEF OnPackets, TaskTypes
    <2>. QED
        BY <2>1, <2>2, <2>3, PacketsStep
<1>2. CASE Delete(c) /\ UNCHANGED tasks
    BY <1>2, DeleteStep DEF tasks, TaskTypes
<1>3. CASE UNCHANGED <<registries, sock, tasks>>
    BY <1>3 DEF registries, tasks, TaskTypes, RegistryTypes, RegistriesAgree, Touches
<1>. QED
    BY <1>1, <1>2, <1>3 DEF Input

LEMMA WriteBounds ==
    ASSUME RegistryTypes, RegistriesAgree, NEW c \in DOMAIN conn
    PROVE  /\ WriteSize(c) \in Nat
           /\ conn[c].send - WriteSize(c) \in Nat
           /\ sock[conn[c].m_fd].room - WriteSize(c) \in 0 .. SndBuf
<1>1. conn[c] \in Connection /\ sock[conn[c].m_fd] \in Sockets
    BY DEF RegistryTypes, RegistriesAgree
<1>2. conn[c].send \in Nat /\ sock[conn[c].m_fd].room \in 0 .. SndBuf
    BY <1>1 DEF Connection, Sockets
<1>. QED
    BY <1>2, EventLoopAssumption DEF WriteSize, Min2

LEMMA OutputStep ==
    ASSUME RegistryTypes, RegistriesAgree, NEW c \in DOMAIN conn, Output(c)
    PROVE  RegistryTypes' /\ RegistriesAgree' /\ Touches(c)
<1> DEFINE f == conn[c].m_fd
           n == WriteSize(c)
<1>1. CASE Delete(c)
    BY <1>1, DeleteStep
<1>2. CASE /\ conn' = [conn EXCEPT ![c].send = @ - n, ![c].written = @ + n]
           /\ sock' = [sock EXCEPT ![f].room = @ - n]
           /\ epoll' = [epoll EXCEPT ![f] = Interest(conn[c].send - n)]
           /\ UNCHANGED <<m_poll_units, m_connections>>
    <2>1. /\ conn[c] \in Connection /\ f \in DOMAIN sock /\ f \in DOMAIN epoll
          /\ sock[f] \in Sockets /\ n \in Nat
          /\ conn[c].send - n \in Nat /\ sock[f].room - n \in 0 .. SndBuf
        BY WriteBounds DEF RegistryTypes, RegistriesAgree
    <2>. HIDE DEF n
    <2>2. /\ DOMAIN conn' = DOMAIN conn /\ conn' \in [DOMAIN conn' -> Connection]
          /\ \A d \in DOMAIN conn : conn'[d].m_fd = conn[d].m_fd
        BY <1>2, <2>1 DEF RegistryTypes, Connection
    <2>3. DOMAIN sock' = DOMAIN sock /\ sock' \in [DOMAIN sock' -> Sockets]
        BY <1>2, <2>1 DEF RegistryTypes, Sockets
    <2>4. DOMAIN epoll' = DOMAIN epoll /\ epoll' \in [DOMAIN epoll' -> SUBSET {"IN", "OUT"}]
        BY <1>2, <2>1 DEF RegistryTypes, Interest
    <2>5. RegistryTypes'
        BY <1>2, <2>2, <2>3, <2>4 DEF RegistryTypes
    <2>6. RegistriesAgree'
        BY <1>2, <2>2, <2>3, <2>4 DEF RegistriesAgree
    <2>. QED
        BY <1>2, <2>2, <2>5, <2>6 DEF Touches
<1>. QED
    BY <1>1, <1>2 DEF Output

(* A new connection on a free descriptor enters every registry. *)
LEMMA AttachStep ==
    ASSUME RegistryTypes, RegistriesAgree,
           NEW c \in Conn \ DOMAIN conn, NEW f \in FD \ DOMAIN sock, Attach(c, f)
    PROVE  /\ RegistryTypes' /\ RegistriesAgree'
           /\ DOMAIN conn' = DOMAIN conn \cup {c} /\ conn'[c].m_fd = f
           /\ \A d \in DOMAIN conn : conn'[d] = conn[d]
           /\ \A g \in DOMAIN m_poll_units :
                g \in DOMAIN m_poll_units' /\ m_poll_units'[g] = m_poll_units[g]
<1> DEFINE new == [m_fd |-> f, send |-> 0, asked |-> 0, written |-> 0]
<1>1. new \in Connection /\ new.m_fd = f /\ NewSocket \in Sockets
    BY EventLoopAssumption DEF Connection, Sockets, NewSocket
<1>. HIDE DEF new
<1>2. /\ DOMAIN conn' = DOMAIN conn \cup {c} /\ conn'[c] = new
      /\ \A d \in DOMAIN conn : conn'[d] = conn[d]
      /\ conn' \in [DOMAIN conn' -> Connection]
    BY <1>1 DEF Attach, With, RegistryTypes, new
<1>3. /\ DOMAIN m_poll_units' = DOMAIN m_poll_units \cup {f} /\ m_poll_units'[f] = c
      /\ \A g \in DOMAIN m_poll_units : g # f /\ m_poll_units'[g] = m_poll_units[g]
      /\ m_poll_units' \in [DOMAIN m_poll_units' -> Conn]
    BY DEF Attach, With, RegistryTypes, RegistriesAgree
<1>4. m_connections' = m_poll_units'
    BY DEF Attach, With, RegistriesAgree
<1>5. DOMAIN epoll' = DOMAIN epoll \cup {f} /\ epoll' \in [DOMAIN epoll' -> SUBSET {"IN", "OUT"}]
    BY DEF Attach, With, RegistryTypes
<1>6. DOMAIN sock' = DOMAIN sock \cup {f} /\ sock' \in [DOMAIN sock' -> Sockets]
    BY <1>1 DEF Attach, With, RegistryTypes
<1>7. RegistryTypes'
    BY <1>2, <1>3, <1>4, <1>5, <1>6 DEF RegistryTypes
<1>8. RegistriesAgree'
    BY <1>1, <1>2, <1>3, <1>4, <1>5, <1>6, SMTT(30) DEF RegistriesAgree
<1>. QED
    BY <1>1, <1>2, <1>3, <1>7, <1>8

(* Replies lengthen send buffers and ask for EPOLLOUT. *)
LEMMA SendPacketsStep ==
    ASSUME RegistryTypes, RegistriesAgree, returning \in [Conn -> Nat], SendPackets,
           UNCHANGED <<m_poll_units, m_connections, sock>>
    PROVE  /\ RegistryTypes' /\ RegistriesAgree'
           /\ DOMAIN conn' = DOMAIN conn
           /\ \A d \in DOMAIN conn : conn'[d].m_fd = conn[d].m_fd
<1>1. \A d \in DOMAIN conn : /\ conn[d] \in Connection
                             /\ conn[d].send + returning[d] \in Nat
    BY DEF RegistryTypes, Connection
<1>2. /\ DOMAIN conn' = DOMAIN conn /\ conn' \in [DOMAIN conn' -> Connection]
      /\ \A d \in DOMAIN conn : conn'[d].m_fd = conn[d].m_fd
    BY <1>1 DEF SendPackets, Connection
<1>3. DOMAIN epoll' = DOMAIN epoll /\ epoll' \in [DOMAIN epoll' -> SUBSET {"IN", "OUT"}]
    BY DEF SendPackets, RegistryTypes
<1>4. RegistryTypes'
    BY <1>2, <1>3 DEF RegistryTypes
<1>5. RegistriesAgree'
    BY <1>2, <1>3 DEF RegistriesAgree
<1>. QED
    BY <1>2, <1>4, <1>5

------------------------------------------------------------------------------
(* The actions. *)

(* What the environment does to a socket. *)
LEMMA ClientStep ==
    ASSUME Registered, NEW f \in DOMAIN sock, Client(f)
    PROVE  Registered'
<1>1. TypeOK /\ sock[f] \in Sockets
    BY DEF Registered, TypeOK
<1>2. PICK s \in Sockets : Socket(f, s) /\ resets' \in 0 .. MaxReset
    <2>1. CASE ClientSends(f)
        BY <1>1, <2>1 DEF ClientSends, Sockets, TypeOK
    <2>2. CASE ClientReads(f)
        BY <1>1, <2>2, EventLoopAssumption DEF ClientReads, Sockets, TypeOK
    <2>3. CASE ClientShuts(f)
        BY <1>1, <2>3 DEF ClientShuts, Sockets, TypeOK
    <2>4. CASE ClientResets(f)
        BY <1>1, <2>4, EventLoopAssumption DEF ClientResets, Sockets, TypeOK
    <2>. QED
        BY <2>1, <2>2, <2>3, <2>4 DEF Client
<1>3. /\ DOMAIN sock' = DOMAIN sock /\ sock' \in [DOMAIN sock' -> Sockets]
      /\ UNCHANGED <<registries, arrived, accepted, m_defer_accept, batch, call, tasks, crashed>>
    BY <1>1, <1>2 DEF Socket, TypeOK
<1>4. TypeOK'
    BY <1>1, <1>2, <1>3 DEF TypeOK, registries, tasks
<1>. QED
    BY <1>3, <1>4 DEF Registered, RegistriesAgree, EventsReachTheirUnit, CallNotInBatch, Numbered,
                      registries

LEMMA ArriveStep ==
    ASSUME Registered, Arrive
    PROVE  Registered'
<1>1. arrived' \in 0 .. MaxConn /\ accepted \in 0 .. arrived'
    BY EventLoopAssumption DEF Registered, TypeOK, Arrive
<1>2. TypeOK'
    BY <1>1 DEF Registered, TypeOK, Arrive, registries, tasks
<1>3. Listener \in DOMAIN batch => accepted < arrived'
    BY <1>1 DEF Registered, Numbered, Arrive, TypeOK
<1>. QED
    BY <1>2, <1>3 DEF Registered, RegistriesAgree, EventsReachTheirUnit, CallNotInBatch, Numbered,
                      registries, Arrive

LEMMA WorkStep ==
    ASSUME Registered, NEW c \in Conn, WorkNotify(c)
    PROVE  Registered'
<1>1. work' \in [Conn -> Nat] /\ returning' \in [Conn -> Nat]
    BY DEF Registered, TypeOK, WorkNotify
<1>2. TypeOK'
    BY <1>1 DEF Registered, TypeOK, WorkNotify, registries, tasks
<1>. QED
    BY <1>2 DEF Registered, RegistriesAgree, EventsReachTheirUnit, CallNotInBatch, Numbered,
                registries, WorkNotify

(* A new batch holds, for every ready descriptor, the unit registered on it. *)
LEMMA WaitStep ==
    ASSUME Registered, EpollWait
    PROVE  Registered'
<1>0. TypeOK /\ RegistriesAgree /\ Numbered
    BY DEF Registered
<1>1. UNCHANGED <<registries, sock, arrived, accepted, m_defer_accept, call, tasks, resets, crashed>>
    BY DEF EpollWait
<1>2. Ready \subseteq FD \cup {Listener, ReturnPipe}
    BY <1>0 DEF Ready, TypeOK
<1>3. \A u \in DOMAIN epoll : Events(u) \subseteq {"IN", "OUT", "HUP"} /\ m_poll_units[u] \in Conn
    BY <1>0 DEF Events, TypeOK, RegistriesAgree
<1>4. /\ DOMAIN batch' = Ready
      /\ batch' \in [DOMAIN batch' -> Event]
    BY <1>3 DEF EpollWait, Event
<1>5. TypeOK'
    BY <1>0, <1>1, <1>2, <1>4 DEF TypeOK, registries, tasks
<1>6. \A f \in Ready \cap FD : f \in DOMAIN epoll
    BY EventLoopAssumption DEF Ready, Listener, ReturnPipe
<1>7. EventsReachTheirUnit'
    BY <1>0, <1>1, <1>4, <1>6 DEF EventsReachTheirUnit, EpollWait, RegistriesAgree, registries
<1>8. Listener \in Ready => accepted < arrived
    BY <1>0, EventLoopAssumption DEF Ready, Listener, ReturnPipe, TypeOK
<1>9. call' = None /\ call' \notin DOMAIN conn'
    BY <1>0, <1>1 DEF EpollWait, TypeOK, None, Conn, registries
<1>. QED
    BY <1>0, <1>1, <1>4, <1>5, <1>7, <1>8, <1>9
       DEF Registered, RegistriesAgree, CallNotInBatch, Numbered, registries

(* The events left after the one of c are for other connections, whom c's handler leaves alone. *)
LEMMA OthersStay ==
    ASSUME RegistriesAgree, EventsReachTheirUnit, NEW f \in FD, f \in DOMAIN batch,
           batch' = Without(batch, f), Touches(m_poll_units[f])
    PROVE  EventsReachTheirUnit'
<1>1. f \in DOMAIN m_poll_units
    BY DEF EventsReachTheirUnit
<1>2. \A g \in DOMAIN m_poll_units : m_poll_units[g] = m_poll_units[f] => g = f
    BY <1>1 DEF RegistriesAgree
<1>3. \A g \in DOMAIN batch' \cap FD : g # f /\ g \in DOMAIN batch /\ batch'[g] = batch[g]
    BY DEF Without
<1>. QED
    BY <1>2, <1>3 DEF EventsReachTheirUnit, Touches

LEMMA ConnectionStep ==
    ASSUME Registered, NEW f \in FD, ConnectionEvent(f)
    PROVE  Registered'
<1> DEFINE c == m_poll_units[f]
<1>0. /\ TypeOK /\ RegistriesAgree /\ EventsReachTheirUnit /\ Numbered
      /\ RegistryTypes /\ TaskTypes
    BY DEF Registered, TypeOK, RegistryTypes, TaskTypes
<1>1. /\ f \in DOMAIN batch /\ call = None /\ batch' = Without(batch, f)
      /\ UNCHANGED <<arrived, m_defer_accept, resets, accepted, crashed>>
    BY DEF ConnectionEvent, Handle
<1>2. f \in DOMAIN m_poll_units /\ c \in DOMAIN conn /\ c \in Conn /\ conn[c].m_fd = f
    BY <1>0, <1>1 DEF EventsReachTheirUnit, RegistriesAgree, RegistryTypes
<1>3. /\ DOMAIN batch' \subseteq DOMAIN batch /\ f \notin DOMAIN batch'
      /\ batch' \in [DOMAIN batch' -> Event]
    BY <1>0, <1>1 DEF Without, TypeOK
<1>. HIDE DEF c
<1>4. /\ RegistryTypes' /\ RegistriesAgree' /\ Touches(c) /\ TaskTypes'
      /\ call' \in {None, c}
    <2>1. CASE Hangup(f)
        BY <1>0, <1>1, <1>2, <2>1, DeleteStep DEF Hangup, tasks, TaskTypes, c
    <2>2. CASE OutputNotify(f)
        <3>1. Output(c) /\ UNCHANGED tasks /\ call' \in {None, c}
            BY <2>2 DEF OutputNotify, c
        <3>. QED
            BY <1>0, <1>2, <3>1, OutputStep DEF tasks, TaskTypes
    <2>3. CASE InputNotify(f)
        <3>1. Input(c) /\ call' = None
            BY <1>1, <2>3 DEF InputNotify, c
        <3>. QED
            BY <1>0, <1>2, <3>1, InputStep
    <2>. QED
        BY <1>2, <2>1, <2>2, <2>3 DEF ConnectionEvent
<1>5. TypeOK'
    BY <1>0, <1>1, <1>2, <1>3, <1>4 DEF TypeOK, RegistryTypes, TaskTypes
<1>6. EventsReachTheirUnit'
    BY <1>0, <1>1, <1>4, OthersStay DEF c
<1>7. CallNotInBatch'
    <2>1. None \notin DOMAIN conn'
        BY <1>4 DEF RegistryTypes, Conn, None
    <2>. QED
        BY <1>2, <1>3, <1>4, <2>1 DEF CallNotInBatch, Touches
<1>8. Numbered'
    BY <1>0, <1>1, <1>3, <1>4 DEF Numbered, Touches
<1>. QED
    BY <1>4, <1>5, <1>6, <1>7, <1>8 DEF Registered

LEMMA CalledStep ==
    ASSUME Registered, CalledInputNotify
    PROVE  Registered'
<1>0. /\ TypeOK /\ RegistriesAgree /\ EventsReachTheirUnit /\ Numbered /\ CallNotInBatch
      /\ RegistryTypes /\ TaskTypes
    BY DEF Registered, TypeOK, RegistryTypes, TaskTypes
<1>1. /\ call' = None
      /\ UNCHANGED <<arrived, accepted, m_defer_accept, batch, resets>>
    BY DEF CalledInputNotify
<1>2. CASE call \in DOMAIN conn /\ Input(call) /\ UNCHANGED crashed
    <2>1. RegistryTypes' /\ RegistriesAgree' /\ Touches(call) /\ TaskTypes'
        BY <1>0, <1>2, InputStep
    <2>2. TypeOK'
        BY <1>0, <1>1, <1>2, <2>1 DEF TypeOK, RegistryTypes, TaskTypes
    <2>3. \A f \in DOMAIN batch \cap FD : f \in DOMAIN m_poll_units /\ m_poll_units[f] # call
        BY <1>0, <1>2 DEF EventsReachTheirUnit, CallNotInBatch, RegistriesAgree
    <2>4. EventsReachTheirUnit'
        BY <1>0, <1>1, <2>1, <2>3 DEF EventsReachTheirUnit, Touches
    <2>5. CallNotInBatch'
        BY <1>1, <2>1 DEF CallNotInBatch, RegistryTypes, Conn, None
    <2>6. Numbered'
        BY <1>0, <1>1, <2>1 DEF Numbered, Touches
    <2>. QED
        BY <2>1, <2>2, <2>4, <2>5, <2>6 DEF Registered
<1>3. CASE call \notin DOMAIN conn /\ crashed' = TRUE /\ UNCHANGED <<registries, sock, tasks>>
    <2>1. TypeOK'
        BY <1>0, <1>1, <1>3 DEF TypeOK, registries, tasks
    <2>2. CallNotInBatch'
        BY <1>0, <1>1, <1>3 DEF CallNotInBatch, RegistryTypes, Conn, None, registries
    <2>. QED
        BY <1>0, <1>1, <1>3, <2>1, <2>2
           DEF Registered, RegistriesAgree, EventsReachTheirUnit, Numbered, registries
<1>. QED
    BY <1>2, <1>3 DEF CalledInputNotify

(* What accept leaves of the invariants on a free descriptor. *)
LEMMA AcceptStep ==
    ASSUME Registered, Handle(Listener), NEW f \in FD \ DOMAIN sock, Accept(f),
           UNCHANGED <<tasks, crashed>>
    PROVE  Registered'
<1> DEFINE c == accepted + 1
<1>0. /\ TypeOK /\ RegistriesAgree /\ EventsReachTheirUnit /\ Numbered /\ CallNotInBatch
      /\ RegistryTypes
    BY DEF Registered, TypeOK, RegistryTypes
<1>1. /\ Listener \in DOMAIN batch /\ call = None /\ batch' = Without(batch, Listener)
      /\ accepted' = c /\ UNCHANGED <<arrived, m_defer_accept, resets>>
    BY DEF Handle, Accept
<1>2. c \in Conn \ DOMAIN conn /\ c \in 0 .. arrived
    BY <1>0, <1>1, EventLoopAssumption DEF Numbered, TypeOK, Conn
<1>3. /\ DOMAIN batch' = DOMAIN batch \ {Listener} /\ batch' \in [DOMAIN batch' -> Event]
      /\ \A g \in DOMAIN batch' : batch'[g] = batch[g]
    BY <1>0, <1>1 DEF Without, TypeOK
<1>4. f \notin DOMAIN batch
    BY <1>0 DEF EventsReachTheirUnit, RegistriesAgree
<1>5. /\ RegistryTypes' /\ RegistriesAgree'
      /\ DOMAIN conn' \subseteq DOMAIN conn \cup {c}
      /\ \A g \in DOMAIN m_poll_units :
            g \in DOMAIN m_poll_units' /\ m_poll_units'[g] = m_poll_units[g]
      /\ call' = None \/ (call' = c /\ conn'[c].m_fd = f)
    <2>1. CASE Attach(c, f)
        <3>1. call' \in {None, c}
            BY <2>1 DEF Attach
        <3>. QED
            BY <1>0, <1>2, <2>1, <3>1, AttachStep
    <2>2. CASE UNCHANGED <<registries, sock, call>>
        BY <1>0, <1>1, <2>2 DEF registries, RegistryTypes, RegistriesAgree
    <2>. QED
        BY <1>1, <2>1, <2>2 DEF Accept
<1>6. TypeOK'
    BY <1>0, <1>1, <1>2, <1>3, <1>5 DEF TypeOK, RegistryTypes, tasks
<1>7. EventsReachTheirUnit'
    BY <1>0, <1>3, <1>5 DEF EventsReachTheirUnit
<1>8. CallNotInBatch'
    BY <1>3, <1>4, <1>5 DEF CallNotInBatch, RegistryTypes, Conn, None
<1>9. Numbered'
    BY <1>0, <1>1, <1>3, <1>5 DEF Numbered, TypeOK
<1>. QED
    BY <1>5, <1>6, <1>7, <1>8, <1>9 DEF Registered

LEMMA ListenerStep ==
    ASSUME Registered, ListenerEvent
    PROVE  Registered'
<1>1. CASE \E f \in FD \ DOMAIN sock : Accept(f)
    BY <1>1, AcceptStep DEF ListenerEvent
<1>2. CASE UNCHANGED <<accepted, registries, sock, call>>
    <2>1. /\ DOMAIN batch' \subseteq DOMAIN batch /\ batch' \in [DOMAIN batch' -> Event]
          /\ \A g \in DOMAIN batch' : batch'[g] = batch[g] /\ g # Listener
          /\ UNCHANGED <<arrived, m_defer_accept, resets, tasks, crashed>>
        BY DEF ListenerEvent, Handle, Without, Registered, TypeOK
    <2>2. TypeOK'
        BY <1>2, <2>1 DEF Registered, TypeOK, registries, tasks
    <2>. QED
        BY <1>2, <2>1, <2>2 DEF Registered, RegistriesAgree, EventsReachTheirUnit, CallNotInBatch,
                                Numbered, registries
<1>. QED
    BY <1>1, <1>2 DEF ListenerEvent

LEMMA ReturnStep ==
    ASSUME Registered, ReturnEvent
    PROVE  Registered'
<1>0. TypeOK /\ RegistriesAgree /\ RegistryTypes /\ returning \in [Conn -> Nat]
    BY DEF Registered, TypeOK, RegistryTypes
<1>1. /\ DOMAIN batch' \subseteq DOMAIN batch /\ batch' \in [DOMAIN batch' -> Event]
      /\ \A g \in DOMAIN batch' : batch'[g] = batch[g]
      /\ UNCHANGED <<arrived, m_defer_accept, resets>>
    BY <1>0 DEF ReturnEvent, Handle, Without, TypeOK
<1>2. /\ returning' \in [Conn -> Nat]
      /\ UNCHANGED <<m_poll_units, m_connections, sock, call, work, requests, accepted, crashed>>
    BY DEF ReturnEvent
<1>3. /\ RegistryTypes' /\ RegistriesAgree' /\ DOMAIN conn' = DOMAIN conn
      /\ \A d \in DOMAIN conn : conn'[d].m_fd = conn[d].m_fd
    BY <1>0, <1>2, SendPacketsStep DEF ReturnEvent
<1>4. TypeOK'
    BY <1>0, <1>1, <1>2, <1>3 DEF TypeOK, RegistryTypes
<1>. QED
    BY <1>1, <1>2, <1>3, <1>4 DEF Registered, EventsReachTheirUnit, CallNotInBatch, Numbered

------------------------------------------------------------------------------
(* The invariant and the theorems. *)

LEMMA RegisteredInit == Init => Registered
<1>. SUFFICES ASSUME Init PROVE Registered
    OBVIOUS
<1>0. /\ DOMAIN Empty = {}
      /\ Empty \in [DOMAIN Empty -> Connection] /\ Empty \in [DOMAIN Empty -> Conn]
      /\ Empty \in [DOMAIN Empty -> SUBSET {"IN", "OUT"}]
      /\ Empty \in [DOMAIN Empty -> Sockets] /\ Empty \in [DOMAIN Empty -> Event]
    BY DEF Empty
<1>. HIDE DEF Empty
<1>1. TypeOK
    <2>1. /\ DOMAIN conn \subseteq Conn /\ conn \in [DOMAIN conn -> Connection]
          /\ DOMAIN m_poll_units \subseteq FD /\ m_poll_units \in [DOMAIN m_poll_units -> Conn]
          /\ DOMAIN m_connections \subseteq FD /\ m_connections \in [DOMAIN m_connections -> Conn]
          /\ DOMAIN epoll \subseteq FD /\ epoll \in [DOMAIN epoll -> SUBSET {"IN", "OUT"}]
          /\ DOMAIN sock \subseteq FD /\ sock \in [DOMAIN sock -> Sockets]
          /\ DOMAIN batch \subseteq FD \cup {Listener, ReturnPipe}
          /\ batch \in [DOMAIN batch -> Event]
        BY <1>0 DEF Init
    <2>2. /\ arrived \in 0 .. MaxConn /\ accepted \in 0 .. arrived
          /\ work \in [Conn -> Nat] /\ returning \in [Conn -> Nat]
          /\ requests \in 0 .. MaxReq /\ resets \in 0 .. MaxReset
        BY EventLoopAssumption DEF Init
    <2>3. m_defer_accept \in BOOLEAN /\ crashed \in BOOLEAN /\ call \in Conn \cup {None}
        BY DEF Init
    <2>. QED
        BY <2>1, <2>2, <2>3 DEF TypeOK
<1>. QED
    BY <1>0, <1>1 DEF Init, Registered, RegistriesAgree, EventsReachTheirUnit, CallNotInBatch, Numbered

LEMMA RegisteredNext == Registered /\ [Next]_vars => Registered'
<1>. SUFFICES ASSUME Registered, [Next]_vars PROVE Registered'
    OBVIOUS
<1>1. CASE Arrive
    BY <1>1, ArriveStep
<1>2. CASE \E f \in DOMAIN sock : Client(f)
    BY <1>2, ClientStep
<1>3. CASE \E c \in Conn : WorkNotify(c)
    BY <1>3, WorkStep
<1>4. CASE Loop
    BY <1>4, WaitStep, ConnectionStep, CalledStep, ListenerStep, ReturnStep DEF Loop
<1>5. CASE UNCHANGED vars
    <2>1. TypeOK'
        BY <1>5 DEF Registered, TypeOK, vars, registries, tasks
    <2>. QED
        BY <1>5, <2>1 DEF Registered, RegistriesAgree, EventsReachTheirUnit, CallNotInBatch, Numbered,
                          vars, registries
<1>. QED
    BY <1>1, <1>2, <1>3, <1>4, <1>5 DEF Next

LEMMA AlwaysRegistered == SafetySpec => []Registered
    BY RegisteredInit, RegisteredNext, PTL DEF SafetySpec

(* The variables of the event loop keep their types. *)
THEOREM LoopTypeCorrect == SafetySpec => []TypeOK
<1>1. Registered => TypeOK
    BY DEF Registered
<1>. QED
    BY <1>1, AlwaysRegistered, PTL

(***************************************************************************)
(* The pool's and the listener's registries, the epoll set, the open       *)
(* descriptors and the live objects agree after every step of a handler.   *)
(***************************************************************************)
THEOREM RegistriesStayEqual == SafetySpec => []RegistriesAgree
<1>1. Registered => RegistriesAgree
    BY DEF Registered
<1>. QED
    BY <1>1, AlwaysRegistered, PTL

(***************************************************************************)
(* No event of a batch is handled by a connection accepted after it was    *)
(* reported, and none finds its descriptor without a unit, however         *)
(* descriptors are used again.                                             *)
(***************************************************************************)
THEOREM EventsDelivered == SafetySpec => [](EventsReachTheirUnit /\ CallNotInBatch)
<1>1. Registered => EventsReachTheirUnit /\ CallNotInBatch
    BY DEF Registered
<1>. QED
    BY <1>1, AlwaysRegistered, PTL

------------------------------------------------------------------------------
(* Responses. *)

(* A number that no connection has yet has no requests. *)
NoneAhead == \A c \in Conn : c > accepted => work[c] = 0 /\ returning[c] = 0

Accounted == OutputWhenPending /\ ResponsesConserved /\ NoneAhead

(* The numbers a handler of a connection works with. *)
LEMMA Counters ==
    ASSUME Registered, NEW c \in DOMAIN conn
    PROVE  /\ conn[c] \in Connection /\ conn[c].send \in Nat /\ conn[c].asked \in Nat
           /\ conn[c].written \in Nat /\ work[c] \in Nat /\ returning[c] \in Nat
           /\ c \in Conn /\ c \in 1 .. accepted /\ accepted \in Nat
           /\ conn[c].m_fd \in DOMAIN epoll /\ m_poll_units[conn[c].m_fd] = c
BY EventLoopAssumption DEF Registered, TypeOK, Connection, Numbered, RegistriesAgree

LEMMA DeleteAccounts ==
    ASSUME Registered, Accounted, NEW c \in DOMAIN conn, Delete(c), UNCHANGED <<tasks, accepted>>
    PROVE  Accounted'
<1>1. \A d \in DOMAIN conn' : d \in DOMAIN conn /\ conn'[d] = conn[d]
    BY DEF Delete, Without
<1>2. ASSUME NEW d \in DOMAIN conn' PROVE epoll'[conn[d].m_fd] = epoll[conn[d].m_fd]
    <2>1. d \in DOMAIN conn /\ d # c
        BY DEF Delete, Without
    <2>2. conn[d].m_fd # conn[c].m_fd /\ conn[d].m_fd \in DOMAIN epoll
        BY <2>1, Counters
    <2>. QED
        BY <2>2 DEF Delete, Without
<1>. QED
    BY <1>1, <1>2 DEF Accounted, OutputWhenPending, ResponsesConserved, NoneAhead, tasks

LEMMA PacketsAccount ==
    ASSUME Registered, Accounted, NEW c \in DOMAIN conn, NEW n \in Nat, OnPackets(c, n),
           UNCHANGED accepted
    PROVE  Accounted'
<1>1. /\ c \in Conn /\ c \in 1 .. accepted /\ work \in [Conn -> Nat] /\ returning \in [Conn -> Nat]
      /\ accepted \in Nat
    BY Counters DEF Registered, TypeOK
<1>2. /\ \A d \in DOMAIN conn : /\ conn'[d].m_fd = conn[d].m_fd /\ conn'[d].send = conn[d].send
                                /\ conn'[d].written = conn[d].written
                                /\ d # c => conn'[d].asked = conn[d].asked
      /\ DOMAIN conn' = DOMAIN conn /\ conn'[c].asked = conn[c].asked + n
    BY Counters DEF OnPackets, Connection
<1>3. /\ work'[c] = work[c] + n /\ \A d \in Conn : d # c => work'[d] = work[d]
      /\ UNCHANGED <<epoll, returning>>
    BY <1>1 DEF OnPackets
<1>4. OutputWhenPending'
    BY <1>2, <1>3 DEF Accounted, OutputWhenPending
<1>5. ResponsesConserved'
    BY <1>2, <1>3, Counters DEF Accounted, ResponsesConserved
<1>6. NoneAhead'
    BY <1>1, <1>3 DEF Accounted, NoneAhead
<1>. QED
    BY <1>4, <1>5, <1>6 DEF Accounted

LEMMA InputAccounts ==
    ASSUME Registered, Accounted, NEW c \in DOMAIN conn, Input(c), UNCHANGED accepted
    PROVE  Accounted'
<1>1. CASE \E n \in 0 .. MaxReq - requests : OnPackets(c, n)
    <2>1. \A n \in 0 .. MaxReq - requests : n \in Nat
        OBVIOUS
    <2>. QED
        BY <1>1, <2>1, PacketsAccount
<1>2. CASE Delete(c) /\ UNCHANGED tasks
    BY <1>2, DeleteAccounts
<1>3. CASE UNCHANGED <<registries, sock, tasks>>
    BY <1>3 DEF registries, tasks, Accounted, OutputWhenPending, ResponsesConserved, NoneAhead
<1>. QED
    BY <1>1, <1>2, <1>3 DEF Input

LEMMA OutputAccounts ==
    ASSUME Registered, Accounted, NEW c \in DOMAIN conn, Output(c), UNCHANGED <<tasks, accepted>>
    PROVE  Accounted'
<1> DEFINE f == conn[c].m_fd
           n == WriteSize(c)
<1>1. CASE Delete(c)
    BY <1>1, DeleteAccounts
<1>2. CASE /\ conn' = [conn EXCEPT ![c].send = @ - n, ![c].written = @ + n]
           /\ epoll' = [epoll EXCEPT ![f] = Interest(conn[c].send - n)]
    <2>1. RegistryTypes /\ RegistriesAgree
        BY DEF Registered, TypeOK, RegistryTypes
    <2>2. n \in Nat /\ conn[c].send - n \in Nat
        BY <2>1, WriteBounds
    <2>. HIDE DEF n
    <2>3. /\ \A d \in DOMAIN conn : /\ conn'[d].m_fd = conn[d].m_fd
                                    /\ conn'[d].asked = conn[d].asked
                                    /\ d # c => /\ conn'[d].send = conn[d].send
                                                /\ conn'[d].written = conn[d].written
          /\ DOMAIN conn' = DOMAIN conn
          /\ conn'[c].send = conn[c].send - n /\ conn'[c].written = conn[c].written + n
        BY <1>2, Counters DEF Connection
    <2>4. /\ "OUT" \in epoll'[f] <=> conn[c].send - n > 0
          /\ \A d \in DOMAIN conn : d # c => epoll'[conn[d].m_fd] = epoll[conn[d].m_fd]
        BY <1>2, <2>2, Counters DEF Interest
    <2>5. OutputWhenPending'
        BY <2>3, <2>4 DEF Accounted, OutputWhenPending
    <2>6. ResponsesConserved'
        BY <2>2, <2>3, Counters DEF Accounted, ResponsesConserved, tasks
    <2>. QED
        BY <2>5, <2>6 DEF Accounted, NoneAhead, tasks
<1>. QED
    BY <1>1, <1>2 DEF Output

LEMMA AcceptAccounts ==
    ASSUME Registered, Accounted, NEW f \in FD \ DOMAIN sock, Accept(f), Handle(Listener),
           UNCHANGED tasks
    PROVE  Accounted'
<1> DEFINE c == accepted + 1
<1>0. RegistryTypes /\ RegistriesAgree
    BY DEF Registered, TypeOK, RegistryTypes
<1>1. accepted' = c /\ c \in Conn \ DOMAIN conn /\ accepted \in Nat
    BY EventLoopAssumption DEF Registered, Numbered, TypeOK, Conn, Accept, Handle
<1>2. NoneAhead'
    BY <1>1 DEF Accounted, NoneAhead, tasks, Conn
<1>3. CASE UNCHANGED <<registries, sock, call>>
    BY <1>2, <1>3 DEF Accounted, OutputWhenPending, ResponsesConserved, registries, tasks
<1>4. CASE Attach(c, f)
    <2>1. /\ DOMAIN conn' = DOMAIN conn \cup {c}
          /\ conn'[c] = [m_fd |-> f, send |-> 0, asked |-> 0, written |-> 0]
          /\ \A d \in DOMAIN conn : conn'[d] = conn[d]
        BY <1>4, <1>1 DEF Attach, With
    <2>2. epoll'[f] = {"IN"} /\ \A d \in DOMAIN conn : epoll'[conn[d].m_fd] = epoll[conn[d].m_fd]
        BY <1>0, <1>4 DEF Attach, With, RegistriesAgree
    <2>3. OutputWhenPending'
        BY <2>1, <2>2 DEF Accounted, OutputWhenPending
    <2>4. work'[c] = 0 /\ returning'[c] = 0
        BY <1>1 DEF Accounted, NoneAhead, tasks
    <2>5. ResponsesConserved'
        BY <2>1, <2>4 DEF Accounted, ResponsesConserved, tasks
    <2>. QED
        BY <1>2, <2>3, <2>5 DEF Accounted
<1>. QED
    BY <1>1, <1>3, <1>4 DEF Accept

LEMMA ReturnAccounts ==
    ASSUME Registered, Accounted, ReturnEvent
    PROVE  Accounted'
<1>1. /\ DOMAIN conn' = DOMAIN conn
      /\ \A d \in DOMAIN conn : /\ conn'[d].m_fd = conn[d].m_fd
                                /\ conn'[d].asked = conn[d].asked
                                /\ conn'[d].written = conn[d].written
                                /\ conn'[d].send = conn[d].send + returning[d]
    BY Counters DEF ReturnEvent, SendPackets, Connection
<1>2. \A d \in DOMAIN conn : "OUT" \in epoll'[conn[d].m_fd] <=>
                                "OUT" \in epoll[conn[d].m_fd] \/ returning[d] > 0
    BY Counters DEF ReturnEvent, SendPackets
<1>3. OutputWhenPending'
    BY <1>1, <1>2, Counters DEF Accounted, OutputWhenPending
<1>4. \A d \in Conn : returning'[d] = 0 /\ work'[d] = work[d]
    BY DEF ReturnEvent
<1>5. ResponsesConserved'
    BY <1>1, <1>4, Counters DEF Accounted, ResponsesConserved
<1>6. NoneAhead'
    BY <1>4 DEF Accounted, NoneAhead, ReturnEvent
<1>. QED
    BY <1>3, <1>5, <1>6 DEF Accounted

LEMMA WorkAccounts ==
    ASSUME Registered, Accounted, NEW c \in Conn, WorkNotify(c)
    PROVE  Accounted'
<1>1. /\ work'[c] = work[c] - 1 /\ returning'[c] = returning[c] + 1
      /\ work[c] \in Nat /\ returning[c] \in Nat /\ work[c] > 0
      /\ \A d \in Conn : d # c => work'[d] = work[d] /\ returning'[d] = returning[d]
      /\ UNCHANGED <<registries, accepted>>
    BY DEF WorkNotify, Registered, TypeOK
<1>2. \A d \in Conn : work'[d] + returning'[d] = work[d] + returning[d]
    BY <1>1
<1>3. \A d \in DOMAIN conn : /\ d \in Conn /\ conn[d] \in Connection /\ work[d] \in Nat
                             /\ returning[d] \in Nat
    BY Counters
<1>4. ResponsesConserved'
    BY <1>1, <1>2, <1>3 DEF Accounted, ResponsesConserved, registries, Connection
<1>. QED
    BY <1>1, <1>4 DEF Accounted, OutputWhenPending, NoneAhead, registries

LEMMA LoopAccounts ==
    ASSUME Registered, Accounted, Loop
    PROVE  Accounted'
<1>1. CASE EpollWait
    BY <1>1 DEF EpollWait, registries, tasks, Accounted, OutputWhenPending, ResponsesConserved, NoneAhead
<1>2. ASSUME NEW f \in FD, ConnectionEvent(f) PROVE Accounted'
    <2>1. f \in DOMAIN m_poll_units /\ m_poll_units[f] \in DOMAIN conn
        BY <1>2 DEF Registered, EventsReachTheirUnit, RegistriesAgree, ConnectionEvent, Handle
    <2>2. UNCHANGED accepted
        BY <1>2 DEF ConnectionEvent
    <2>. QED
        BY <1>2, <2>1, <2>2, DeleteAccounts, OutputAccounts, InputAccounts
           DEF ConnectionEvent, Hangup, OutputNotify, InputNotify
<1>3. CASE CalledInputNotify
    BY <1>3, InputAccounts DEF CalledInputNotify, registries, tasks, Accounted, OutputWhenPending,
                               ResponsesConserved, NoneAhead
<1>4. CASE ListenerEvent
    BY <1>4, AcceptAccounts DEF ListenerEvent, registries, tasks, Accounted, OutputWhenPending,
                                ResponsesConserved, NoneAhead
<1>. QED
    BY <1>1, <1>2, <1>3, <1>4, ReturnAccounts DEF Loop

LEMMA AccountedNext == Registered /\ Accounted /\ [Next]_vars => Accounted'
<1>. SUFFICES ASSUME Registered, Accounted, [Next]_vars PROVE Accounted'
    OBVIOUS
<1>1. CASE UNCHANGED <<registries, tasks, accepted>>
    BY <1>1 DEF registries, tasks, Accounted, OutputWhenPending, ResponsesConserved, NoneAhead
<1>2. CASE UNCHANGED vars
    BY <1>1, <1>2 DEF vars
<1>3. CASE Arrive
    BY <1>1, <1>3 DEF Arrive
<1>4. CASE \E f \in DOMAIN sock : Client(f)
    BY <1>1, <1>4 DEF Client, ClientSends, ClientReads, ClientShuts, ClientResets, Socket
<1>. QED
    BY <1>2, <1>3, <1>4, WorkAccounts, LoopAccounts DEF Next

LEMMA AlwaysAccounted == SafetySpec => []Accounted
<1>1. Init => Accounted
    <2>. SUFFICES ASSUME Init PROVE Accounted
        OBVIOUS
    <2>1. DOMAIN conn = {}
        BY DEF Init, Empty
    <2>2. \A c \in Conn : work[c] = 0 /\ returning[c] = 0
        BY DEF Init
    <2>. QED
        BY <2>1, <2>2 DEF Accounted, OutputWhenPending, ResponsesConserved, NoneAhead
<1>. QED
    BY <1>1, AlwaysRegistered, AccountedNext, PTL DEF SafetySpec

(***************************************************************************)
(* A connection asks for EPOLLOUT exactly while it has responses to write: *)
(* SendPacket and OutputNotify keep it so between them.                    *)
(***************************************************************************)
THEOREM OutputInterest == SafetySpec => []OutputWhenPending
<1>1. Accounted => OutputWhenPending
    BY DEF Accounted
<1>. QED
    BY <1>1, AlwaysAccounted, PTL

(***************************************************************************)
(* As long as a connection lives, its requests and the responses to them   *)
(* balance: none is lost or sent twice, whatever writev takes.             *)
(***************************************************************************)
THEOREM ResponsesKept == SafetySpec => []ResponsesConserved
<1>1. Accounted => ResponsesConserved
    BY DEF Accounted
<1>. QED
    BY <1>1, AlwaysAccounted, PTL
------------------------------------------------------------------------------
(* main.  PoolNotShared is about few steps of it; Parked says why a thread *)
(* is not in Run on the way up, Stopped why it is not on the way down.     *)

(* Up to the RunningThread of the listen thread. *)
OnTheWayUp ==
    {"pidfile", "start listen", "start work", "work process", "listen server", "release listen"}

(* main has not called RunningThread for t, nor Interrupt. *)
Starting(t) == main \in OnTheWayUp \/ (t = Work /\ main = "release work")

(* main has not called Interrupt for t. *)
NotInterrupted(t) ==
    \/ main \in OnTheWayUp \cup {"release work", "test", "before pause", "pause", "destroy"}
    \/ t = Work /\ main \in {"join listen", "uninit listen", "stop work"}

(* Interrupt has returned for t, and t can still be used. *)
Interrupted(t) ==
    \/ main \in {"uninit work", "delete"}
    \/ t = Listen /\ main \in {"uninit listen", "stop work", "join work"}

(* A thread that has been started waits for the mutex Start has locked. *)
Parked(t) == at[t] \in {"none", "prepare", "parked"} /\ (at[t] # "none" => locked[t])

(* A thread that Interrupt has dealt with has ended, or was skipped. *)
Stopped(t) == t \in skipped \/ at[t] \in {"none", "ended"}

Handed(t) ==
    /\ Starting(t) => Parked(t)
    /\ main # "done" /\ t \notin made => at[t] = "none"
    /\ ~joinable[t] => at[t] \in {"none", "ended"}
    /\ NotInterrupted(t) => ~stop[t]
    /\ Interrupted(t) => Stopped(t)

MainInv == ServiceTypeOK /\ \A t \in Thread : Handed(t)

LEMMA TwoThreads ==
    /\ Listen \in Thread /\ Work \in Thread /\ Listen # Work
    /\ \A t \in Thread : t = Listen \/ t = Work
BY TcpServiceAssumption

(* Before the first step main has touched nothing. *)
LEMMA StartsInv == MainInit => MainInv
<1> SUFFICES ASSUME MainInit PROVE MainInv
  OBVIOUS
<1>1. /\ at = [t \in Thread |-> "none"]
      /\ idle = [t \in Thread |-> FALSE] /\ joinable = [t \in Thread |-> FALSE]
      /\ stop = [t \in Thread |-> FALSE] /\ locked = [t \in Thread |-> FALSE]
      /\ sigint = [t \in Thread |-> FALSE]
  BY DEF MainInit, ThreadInit
<1>2. /\ main = "pidfile" /\ made = {} /\ skipped = {}
      /\ gs_stop = FALSE /\ gs_delete_pidfile = FALSE /\ pidfile = FALSE /\ taken = FALSE
  BY DEF MainInit
<1>3. ServiceTypeOK
  <2>1. ThreadTypeOK
    BY <1>1 DEF ThreadTypeOK, Place
  <2>2. ASSUME NEW t \in Thread PROVE ~idle[t] /\ at[t] = "none"
    BY <1>1
  <2> QED BY <1>2, <2>1, <2>2 DEF ServiceTypeOK, InRun, Step
<1>4. ASSUME NEW t \in Thread PROVE Handed(t)
  <2>1. at[t] = "none" /\ ~stop[t]
    BY <1>1
  <2> QED BY <1>2, <2>1 DEF Handed, Parked, Starting, NotInterrupted, Interrupted, OnTheWayUp
<1> QED BY <1>3, <1>4 DEF MainInv

(* PoolNotShared follows: where main uses a pool its thread is parked or stopped. *)
LEMMA MainInvSafe == MainInv => PoolNotShared
<1> SUFFICES ASSUME MainInv, NEW t \in Thread \ skipped, UsesPool(t) PROVE at[t] \notin InRun
  BY DEF PoolNotShared
<1>1. Handed(t)
  BY DEF MainInv
<1>2. Starting(t) \/ Interrupted(t)
  BY DEF UsesPool, Starting, Interrupted, OnTheWayUp
<1> QED BY <1>1, <1>2 DEF Handed, Parked, Stopped, InRun

(* What main has and has not done does not change while main stands still. *)
LEMMA MainStill == ASSUME UNCHANGED main
                   PROVE \A t \in Thread : /\ Starting(t)' <=> Starting(t)
                                           /\ NotInterrupted(t)' <=> NotInterrupted(t)
                                           /\ Interrupted(t)' <=> Interrupted(t)
BY DEF Starting, NotInterrupted, Interrupted

(* A step of a thread on its own: it leaves Parked only with the mutex, and *)
(* from the end it does not come back.                                      *)
LEMMA RunThreadInv == ASSUME NEW t \in Thread, MainInv, RunThread(t) PROVE MainInv'
<1>1. UNCHANGED mainVars /\ ThreadStep(t)
  BY DEF RunThread
<1>2. ServiceTypeOK /\ \A u \in Thread : Handed(u)
  BY DEF MainInv
<1>3. /\ at' = [at EXCEPT ![t] = at'[t]] /\ at'[t] \in Place \ {"none"}
      /\ UNCHANGED <<joinable, stop, sigint>>
      /\ locked' \in [Thread -> BOOLEAN] /\ idle' \in [Thread -> BOOLEAN]
      /\ \A u \in Thread \ {t} : locked'[u] = locked[u] /\ idle'[u] = idle[u]
      /\ idle'[t] <=> at'[t] \in {"parked", "ending"} \cup InRun
      /\ at[t] \notin {"none", "ended"}
      /\ \/ at'[t] = "parked" /\ locked'[t] = locked[t]
         \/ at[t] # "prepare" /\ ~(at[t] = "parked" /\ locked[t])
  <2> USE <1>1, <1>2 DEF ServiceTypeOK, ThreadTypeOK, Place, InRun
  <2>1. CASE PrepareBase(t) BY <2>1 DEF PrepareBase, Go
  <2>2. CASE Lock(t) BY <2>2 DEF Lock, Go
  <2>3. CASE Test(t) BY <2>3 DEF Test, Go
  <2>4. CASE Epoll(t) BY <2>4 DEF Epoll, Go
  <2>5. CASE DestroyBase(t) BY <2>5 DEF DestroyBase, Go
  <2> QED BY <2>1, <2>2, <2>3, <2>4, <2>5 DEF ThreadStep
<1>4. \A u \in Thread \ {t} : at'[u] = at[u]
  BY <1>2, <1>3 DEF ServiceTypeOK, ThreadTypeOK
<1>5. ServiceTypeOK'
  BY <1>1, <1>2, <1>3, <1>4 DEF ServiceTypeOK, ThreadTypeOK, mainVars, Place
<1>6. ASSUME NEW u \in Thread PROVE Handed(u)'
  <2>1. Handed(u) BY <1>2
  <2>2. /\ Starting(u)' <=> Starting(u)
        /\ NotInterrupted(u)' <=> NotInterrupted(u)
        /\ Interrupted(u)' <=> Interrupted(u)
    BY <1>1, MainStill DEF mainVars
  <2>3. CASE u # t
    BY <2>1, <2>2, <2>3, <1>1, <1>3, <1>4 DEF Handed, Parked, Stopped, mainVars
  <2>4. CASE u = t
    BY <2>1, <2>2, <2>4, <1>1, <1>3 DEF Handed, Parked, Stopped, mainVars
  <2> QED BY <2>3, <2>4
<1> QED BY <1>5, <1>6 DEF MainInv

(* Steps of main that leave the threads alone, and of the signals. *)
LEMMA QuietInv ==
    ASSUME MainInv,
           \/ CreatePidFile \/ InitWorkProcess \/ InitListenServer \/ DaemonWait
           \/ UnInitListen \/ UnInitWork \/ DeleteThreads
           \/ \E stops \in BOOLEAN : CatchSignal(stops)
    PROVE  MainInv'
<1>1. ServiceTypeOK /\ \A t \in Thread : Handed(t)
  BY DEF MainInv
<1>2. /\ UNCHANGED threadVars
      /\ main # "done" /\ main' \in Step /\ UNCHANGED skipped
      /\ made' = made \/ (main' = "done" /\ made' = {})
      /\ gs_stop' \in BOOLEAN /\ gs_delete_pidfile' \in BOOLEAN
      /\ pidfile' \in BOOLEAN /\ taken' \in BOOLEAN
      /\ \A t \in Thread : /\ Starting(t)' => Starting(t)
                           /\ NotInterrupted(t)' => NotInterrupted(t)
                           /\ Interrupted(t)' => Interrupted(t)
  <2>1. CASE CreatePidFile \/ InitWorkProcess \/ InitListenServer
    BY <1>1, <2>1 DEF CreatePidFile, InitWorkProcess, InitListenServer, GetInheritedSocket,
          ServiceTypeOK, At, Step, Starting, NotInterrupted, Interrupted, OnTheWayUp
  <2>2. CASE DaemonWait
    BY <1>1, <2>2 DEF DaemonWait, ServiceTypeOK, At, Step, Starting, NotInterrupted, Interrupted, OnTheWayUp
  <2>3. CASE UnInitListen \/ UnInitWork \/ DeleteThreads
    BY <1>1, <2>3, TwoThreads DEF UnInitListen, UnInitWork, UnInit, DeleteThreads,
          ServiceTypeOK, At, Step, Starting, NotInterrupted, Interrupted, OnTheWayUp
  <2>4. CASE \E stops \in BOOLEAN : CatchSignal(stops)
    <3>1. PICK stops \in BOOLEAN : CatchSignal(stops)
      BY <2>4
    <3> QED BY <1>1, <3>1 DEF CatchSignal, ServiceTypeOK, Step, Starting, NotInterrupted,
                Interrupted, OnTheWayUp
  <2> QED BY <2>1, <2>2, <2>3, <2>4
<1>3. ServiceTypeOK'
  BY <1>1, <1>2 DEF ServiceTypeOK, ThreadTypeOK, threadVars
<1>4. ASSUME NEW t \in Thread PROVE Handed(t)'
  BY <1>1, <1>2, <1>4 DEF Handed, Parked, Stopped, threadVars
<1> QED BY <1>3, <1>4 DEF MainInv

(* catch_signal in a thread. *)
LEMMA CatchInterruptInv == ASSUME NEW t \in Thread, MainInv, CatchInterrupt(t) PROVE MainInv'
<1>1. ServiceTypeOK /\ \A u \in Thread : Handed(u)
  BY DEF MainInv
<1>2. /\ UNCHANGED <<main, made, skipped, pidfile, taken, at, idle, joinable, stop, locked>>
      /\ sigint' \in [Thread -> BOOLEAN]
      /\ gs_stop' \in BOOLEAN /\ gs_delete_pidfile' \in BOOLEAN
  BY <1>1 DEF CatchInterrupt, ServiceTypeOK, ThreadTypeOK
<1>3. ServiceTypeOK'
  BY <1>1, <1>2 DEF ServiceTypeOK, ThreadTypeOK
<1>4. ASSUME NEW u \in Thread PROVE Handed(u)'
  BY <1>1, <1>2, MainStill DEF Handed, Parked, Stopped
<1> QED BY <1>3, <1>4 DEF MainInv

(* What happens to one thread, and that the others are left alone. *)
OnlyThread(t) ==
    \A u \in Thread \ {t} : /\ at'[u] = at[u] /\ idle'[u] = idle[u] /\ joinable'[u] = joinable[u]
                            /\ stop'[u] = stop[u] /\ locked'[u] = locked[u]
                            /\ u \in made' <=> u \in made
                            /\ u \in skipped' <=> u \in skipped

(* InitThread, whether Start succeeds or not. *)
LEMMA StartThreadInv ==
    ASSUME MainInv, StartListen \/ StartWork
    PROVE  MainInv'
<1>1. ServiceTypeOK /\ \A u \in Thread : Handed(u)
  BY DEF MainInv
<1>2. PICK t \in Thread :
        /\ Start(t) \/ StartFails(t)
        /\ made' = made \cup {t}
        /\ UNCHANGED <<gs_stop, gs_delete_pidfile, pidfile, skipped, taken>>
        /\ Starting(t) /\ main' \in Step \ {"done"} /\ main # "done"
        /\ \A u \in Thread : /\ Starting(u)' => Starting(u)
                             /\ NotInterrupted(u)' => NotInterrupted(u)
                             /\ ~Interrupted(u)'
  <2> USE TwoThreads DEF StartThread, At, Step, Starting, NotInterrupted, Interrupted, OnTheWayUp
  <2>1. CASE StartListen BY <2>1 DEF StartListen
  <2>2. CASE StartWork BY <2>2 DEF StartWork
  <2> QED BY <2>1, <2>2
<1>3. /\ ThreadTypeOK' /\ OnlyThread(t) /\ at[t] = "none"
      /\ idle' = idle /\ stop' = stop /\ locked'[t]
      /\ \/ at'[t] = "prepare" /\ joinable'[t]
         \/ at'[t] = "none" /\ joinable'[t] = joinable[t]
  <2>1. /\ at[t] = "none" /\ \E to \in {"none", "prepare"} : at' = [at EXCEPT ![t] = to]
        /\ locked' = [locked EXCEPT ![t] = TRUE]
        /\ UNCHANGED <<idle, stop, sigint>>
        /\ \/ at'[t] = "prepare" /\ joinable' = [joinable EXCEPT ![t] = TRUE]
           \/ at'[t] = "none" /\ joinable' = joinable
    BY <1>1, <1>2 DEF ServiceTypeOK, ThreadTypeOK, Start, StartFails, Go
  <2>2. ThreadTypeOK'
    <3>1. ThreadTypeOK
      BY <1>1 DEF ServiceTypeOK
    <3>2. at' \in [Thread -> Place]
      BY <2>1, <3>1 DEF ThreadTypeOK, Place
    <3>3. locked' \in [Thread -> BOOLEAN] /\ joinable' \in [Thread -> BOOLEAN]
      BY <2>1, <3>1 DEF ThreadTypeOK
    <3> QED BY <2>1, <3>1, <3>2, <3>3 DEF ThreadTypeOK
  <2>3. \A u \in Thread \ {t} : /\ at'[u] = at[u] /\ idle'[u] = idle[u] /\ joinable'[u] = joinable[u]
                               /\ stop'[u] = stop[u] /\ locked'[u] = locked[u]
    BY <1>1, <2>1 DEF ServiceTypeOK, ThreadTypeOK
  <2>4. OnlyThread(t)
    BY <1>2, <2>3 DEF OnlyThread
  <2>5. locked'[t] /\ (at'[t] = "prepare" => joinable'[t])
    BY <1>1, <2>1 DEF ServiceTypeOK, ThreadTypeOK
  <2> QED BY <2>1, <2>2, <2>4, <2>5
<1>4. ServiceTypeOK'
  BY <1>1, <1>2, <1>3 DEF ServiceTypeOK, OnlyThread, InRun
<1>5. ASSUME NEW u \in Thread PROVE Handed(u)'
  <2>1. CASE u = t
    BY <2>1, <1>1, <1>2, <1>3 DEF Handed, Parked
  <2>2. CASE u # t
    BY <2>2, <1>1, <1>2, <1>3 DEF Handed, Parked, OnlyThread
  <2> QED BY <2>1, <2>2
<1> QED BY <1>4, <1>5 DEF MainInv

(* InitThread's end: RunningThread ends the time a thread is parked. *)
LEMMA ReleaseInv == ASSUME MainInv, Release PROVE MainInv'
<1>1. ServiceTypeOK /\ \A u \in Thread : Handed(u)
  BY DEF MainInv
<1>2. PICK t \in Thread :
        /\ RunningThread(t) /\ ~Starting(t)'
        /\ UNCHANGED <<gs_stop, gs_delete_pidfile, pidfile, skipped, taken, made>>
        /\ main' \in Step \ {"done"} /\ main # "done"
        /\ \A u \in Thread : /\ Starting(u)' => Starting(u)
                             /\ NotInterrupted(u)' => NotInterrupted(u)
                             /\ ~Interrupted(u)'
  BY TwoThreads DEF Release, At, Step, Starting, NotInterrupted, Interrupted, OnTheWayUp
<1>3. /\ locked' \in [Thread -> BOOLEAN] /\ UNCHANGED <<at, idle, joinable, stop, sigint>>
      /\ \A u \in Thread \ {t} : locked'[u] = locked[u]
  BY <1>1, <1>2 DEF RunningThread, ServiceTypeOK, ThreadTypeOK
<1>4. ServiceTypeOK'
  BY <1>1, <1>2, <1>3 DEF ServiceTypeOK, ThreadTypeOK
<1>5. ASSUME NEW u \in Thread PROVE Handed(u)'
  BY <1>1, <1>2, <1>3 DEF Handed, Parked
<1> QED BY <1>4, <1>5 DEF MainInv

(* Destroy's Interrupt and Join: a thread that is not skipped has ended. *)
LEMMA StopInv ==
    ASSUME MainInv, StopListen \/ StopWork
    PROVE  MainInv'
<1>1. ServiceTypeOK /\ \A u \in Thread : Handed(u)
  BY DEF MainInv
<1>2. PICK t \in Thread :
        /\ UNCHANGED <<gs_stop, gs_delete_pidfile, pidfile, taken, made>>
        /\ main' \in Step \ {"done"} /\ main # "done"
        /\ \A u \in Thread : /\ Starting(u)' => Starting(u)
                             /\ NotInterrupted(u)' => NotInterrupted(u)
                             /\ u # t => (Interrupted(u)' => Interrupted(u))
        /\ \/ /\ Interrupted(t)' /\ ~NotInterrupted(t)' /\ NotInterrupted(t)
              /\ t \notin made \/ InterruptSkips(t)
              /\ skipped' = skipped \cup ({t} \cap {u \in made : at[u] \in Alive})
              /\ UNCHANGED threadVars
           \/ /\ ~Interrupted(t)' /\ ~NotInterrupted(t)' /\ ~Starting(t)'
              /\ Interrupt(t) /\ UNCHANGED skipped
           \/ /\ Interrupted(t)' /\ ~NotInterrupted(t)' /\ ~Starting(t)'
              /\ Join(t) /\ UNCHANGED skipped
  <2> USE TwoThreads DEF InterruptThread, JoinThread, At, Step, Starting, NotInterrupted,
                         Interrupted, OnTheWayUp
  <2>1. CASE StopListen BY <2>1 DEF StopListen
  <2>2. CASE StopWork BY <2>2 DEF StopWork
  <2> QED BY <2>1, <2>2
<1>3. /\ ThreadTypeOK' /\ UNCHANGED <<at, idle>> /\ skipped' \subseteq Thread
      /\ skipped \subseteq skipped'
      /\ OnlyThread(t)
  <2> USE <1>1, <1>2 DEF ServiceTypeOK, ThreadTypeOK, OnlyThread
  <2>1. CASE UNCHANGED threadVars BY <2>1 DEF threadVars
  <2>2. CASE Interrupt(t) BY <2>2 DEF Interrupt
  <2>3. CASE Join(t) BY <2>3 DEF Join
  <2> QED BY <2>1, <2>2, <2>3
<1>4. ServiceTypeOK'
  BY <1>1, <1>2, <1>3 DEF ServiceTypeOK
<1>5. Handed(t)'
  <2>1. Handed(t) BY <1>1
  <2>2. Interrupted(t)' => Stopped(t)'
    <3>1. CASE UNCHANGED threadVars
      BY <3>1, <2>1, <1>1, <1>2, <1>3
         DEF Handed, Stopped, Alive, InterruptSkips, ServiceTypeOK, ThreadTypeOK, Place, InRun, Interrupt,
             Join, threadVars
    <3>2. CASE ~Interrupted(t)' BY <3>2
    <3>3. CASE Join(t) BY <3>3, <1>3 DEF Join, Stopped
    <3> QED BY <1>2, <3>1, <3>2, <3>3
  <2>3. ~joinable'[t] => at'[t] \in {"none", "ended"}
    BY <2>1, <1>1, <1>2, <1>3 DEF Handed, threadVars, Interrupt, Join
  <2>4. Starting(t)' => Parked(t)'
    BY <2>1, <1>1, <1>2, <1>3 DEF Handed, Parked, threadVars
  <2> QED BY <2>1, <2>2, <2>3, <2>4, <1>2, <1>3 DEF Handed
<1>6. ASSUME NEW u \in Thread, u # t PROVE Handed(u)'
  BY <1>1, <1>2, <1>3, <1>6 DEF Handed, Parked, Stopped, OnlyThread
<1> QED BY <1>4, <1>5, <1>6 DEF MainInv

LEMMA MainNextInv == MainInv /\ [ServiceNext]_serviceVars => MainInv'
<1> SUFFICES ASSUME MainInv, [ServiceNext]_serviceVars PROVE MainInv'
  OBVIOUS
<1>1. CASE MainStep
  BY <1>1, QuietInv, StartThreadInv, ReleaseInv, StopInv DEF MainStep
<1>2. CASE \E stops \in BOOLEAN : CatchSignal(stops)
  BY <1>2, QuietInv
<1>3. ASSUME NEW t \in Thread, CatchInterrupt(t) \/ RunThread(t) PROVE MainInv'
  BY <1>3, CatchInterruptInv, RunThreadInv
<1>4. CASE UNCHANGED serviceVars
  BY <1>4 DEF serviceVars, mainVars, threadVars, MainInv, ServiceTypeOK, ThreadTypeOK, Handed, Starting,
         NotInterrupted, Interrupted, Parked, Stopped
<1> QED BY <1>1, <1>2, <1>3, <1>4 DEF ServiceNext

LEMMA MainInvHolds == ServiceSpec => []MainInv
BY StartsInv, MainNextInv, PTL DEF ServiceSpec

(* The state of main and of its threads is well typed, and m_threadstate,  *)
(* which Interrupt reads without a lock, is THREAD_EXIT exactly before     *)
(* PrepareBase has set it and after DestroyBase (thread_base.cc:657-687).  *)
THEOREM ServiceTypeCorrect == ServiceSpec => []ServiceTypeOK
<1>1. MainInv => ServiceTypeOK
  BY DEF MainInv
<1> QED BY MainInvHolds, <1>1, PTL

(* However signals, failures on the way up and the threads' own steps fall, *)
(* main never attaches, detaches or frees units (main.cc:296-342, 406-440)  *)
(* while the thread of that pool runs its loop, unless Interrupt skipped a  *)
(* thread that had not set its state yet (thread_base.cc:69).               *)
THEOREM PoolsAreNotShared == ServiceSpec => []PoolNotShared
BY MainInvHolds, MainInvSafe, PTL
==============================================================================
