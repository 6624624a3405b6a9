------------------------------ MODULE EventLoop ------------------------------
(***************************************************************************)
(* The listen thread's loop: CPollPool (network/src/pollpool.cc) with the  *)
(* CTcpListener, the connections it accepts and the reader of the return   *)
(* pipe as its units.  The handlers of a batch of events accept and delete *)
(* connections, and file descriptors are used again, while later events of *)
(* the same batch are still waiting.                                       *)
(*                                                                         *)
(* A connection is known by its number, in the order of accept; the kernel *)
(* side of a file descriptor is in sock.  What is in a packet and in which *)
(* order the return pipe holds the replies is not modelled here: TaskPath  *)
(* has the order, and the replies that find their connection gone.         *)
(***************************************************************************)
EXTENDS Naturals, FiniteSets

CONSTANTS
    FD,         \* the descriptors accept(2) can return
    MaxUnits,   \* m_epoll_size, less the units that are always attached
    IOVCount,   \* the responses one writev takes (kDefaultIOVCount, two each)
    SndBuf,     \* the responses a socket's send buffer takes
    MaxConn,    \* bound: connections that arrive
    MaxReq,     \* bound: packets decoded, over all connections
    MaxReset    \* bound: connections the client resets

ASSUME EventLoopAssumption ==
    /\ "CListener" \notin FD /\ "CReturnPipe" \notin FD
    /\ MaxUnits \in Nat /\ MaxConn \in Nat /\ MaxReq \in Nat /\ MaxReset \in Nat
    /\ IOVCount \in Nat \ {0} /\ SndBuf \in Nat \ {0}

VARIABLES
    conn,           \* the live CTcpConnection objects, by number
    m_poll_units,   \* CPollPool::m_poll_units, the connections only
    m_connections,  \* CListener::m_connections
    epoll,          \* the kernel's interest set, the connections only
    sock,           \* the kernel's side of the open descriptors
    arrived,        \* connections that have arrived
    accepted,       \* connections accepted; the others wait in the listen queue
    m_defer_accept, \* whether the listener reads from a new connection at once
    batch,          \* the events of the last epoll_wait that are left
    call,           \* the connection whose InputNotify the running handler calls
    work,           \* requests the work thread has, by connection
    returning,      \* replies in the return pipe, by connection
    requests,       \* packets decoded
    resets,         \* connections reset
    crashed         \* a member function of a deleted connection was called: all stops

registries == <<conn, m_poll_units, m_connections, epoll>>
tasks == <<work, returning, requests>>
vars == <<registries, sock, arrived, accepted, m_defer_accept, batch, call, tasks, resets, crashed>>

None == 0

Conn == 1 .. MaxConn

Listener == "CListener"

ReturnPipe == "CReturnPipe"

Without(f, x) == [y \in DOMAIN f \ {x} |-> f[y]]

With(f, x, v) == [y \in DOMAIN f \cup {x} |-> IF y = x THEN v ELSE f[y]]

Empty == [x \in {} |-> None]

Init ==
    /\ conn = Empty /\ m_poll_units = Empty /\ m_connections = Empty
    /\ epoll = Empty /\ sock = Empty
    /\ arrived = 0 /\ accepted = 0
    /\ m_defer_accept \in BOOLEAN
    /\ batch = Empty /\ call = None
    /\ work = [c \in Conn |-> 0] /\ returning = [c \in Conn |-> 0]
    /\ requests = 0 /\ resets = 0
    /\ crashed = FALSE
------------------------------------------------------------------------------
(* The clients, their network, and the work thread. *)

NewSocket == [data |-> FALSE, peer |-> "up", room |-> SndBuf]

Arrive ==
    /\ ~crashed /\ arrived < MaxConn
    /\ arrived' = arrived + 1
    /\ UNCHANGED <<registries, sock, accepted, m_defer_accept, batch, call, tasks, resets, crashed>>

(* The client of f changes the state of its socket to s. *)
Socket(f, s) ==
    /\ ~crashed
    /\ sock' = [sock EXCEPT ![f] = s]
    /\ UNCHANGED <<registries, arrived, accepted, m_defer_accept, batch, call, tasks, crashed>>

ClientSends(f) ==
    /\ sock[f].peer = "up" /\ ~sock[f].data
    /\ Socket(f, [sock[f] EXCEPT !.data = TRUE])
    /\ UNCHANGED resets

ClientReads(f) ==
    /\ sock[f].peer # "reset" /\ sock[f].room < SndBuf
    /\ Socket(f, [sock[f] EXCEPT !.room = SndBuf])
    /\ UNCHANGED resets

(* End of file: the client sends nothing more, but may go on reading. *)
ClientShuts(f) ==
    /\ sock[f].peer = "up"
    /\ Socket(f, [sock[f] EXCEPT !.peer = "shut"])
    /\ UNCHANGED resets

ClientResets(f) ==
    /\ sock[f].peer # "reset"
    /\ resets < MaxReset
    /\ resets' = resets + 1
    /\ Socket(f, [sock[f] EXCEPT !.peer = "reset"])

WorkNotify(c) ==
    /\ ~crashed /\ work[c] > 0
    /\ work' = [work EXCEPT ![c] = @ - 1]
    /\ returning' = [returning EXCEPT ![c] = @ + 1]
    /\ UNCHANGED <<registries, sock, arrived, accepted, m_defer_accept, batch, call, requests, resets, crashed>>
------------------------------------------------------------------------------
(***************************************************************************)
(* epoll_wait reports every unit that is ready.  Nobody asks for           *)
(* EPOLLRDHUP; EPOLLERR and EPOLLHUP need not be asked for.                *)
(***************************************************************************)
Events(f) ==
    LET ready == (IF sock[f].data \/ sock[f].peer # "up" THEN {"IN"} ELSE {})
                 \cup (IF sock[f].room > 0 \/ sock[f].peer = "reset" THEN {"OUT"} ELSE {})
    IN  (ready \cap epoll[f]) \cup (IF sock[f].peer = "reset" THEN {"HUP"} ELSE {})

Ready ==
    {f \in DOMAIN epoll : Events(f) # {}}
    \cup {u \in {Listener} : accepted < arrived}
    \cup {u \in {ReturnPipe} : \E c \in Conn : returning[c] > 0}

(* meant is the unit that was registered when the event was reported. *)
EpollWait ==
    /\ ~crashed /\ batch = Empty /\ call = None /\ Ready # {}
    /\ batch' = [u \in Ready |->
                    IF u \in DOMAIN epoll
                    THEN [events |-> Events(u), meant |-> m_poll_units[u]]
                    ELSE [events |-> {"IN"}, meant |-> None]]
    /\ UNCHANGED <<registries, sock, arrived, accepted, m_defer_accept, call, tasks, resets, crashed>>

(* Mutant: the batch is gone through twice, for EPOLLOUT and for EPOLLIN. *)
HandleTwice(u) ==
    /\ ~crashed /\ call = None
    /\ u \in DOMAIN batch
    /\ batch' = IF {"IN", "OUT"} \subseteq batch[u].events
                THEN [batch EXCEPT ![u].events = {"IN"}]
                ELSE Without(batch, u)
    /\ UNCHANGED <<arrived, m_defer_accept, resets>>

(***************************************************************************)
(* The loop turns to the event of u.  Nothing else of the loop happens     *)
(* while the handler of an earlier event still has a call to make.         *)
(***************************************************************************)
Handle(u) ==
    /\ ~crashed /\ call = None
    /\ u \in DOMAIN batch
    /\ batch' = Without(batch, u)
    /\ UNCHANGED <<arrived, m_defer_accept, resets>>

(* Mutant: ~CConnection leaves the listener's registry alone. *)
DeleteKeepsListed(c) ==
    /\ conn' = Without(conn, c)
    /\ m_poll_units' = Without(m_poll_units, conn[c].m_fd)
    /\ epoll' = Without(epoll, conn[c].m_fd)
    /\ sock' = Without(sock, conn[c].m_fd)
    /\ UNCHANGED m_connections

(***************************************************************************)
(* delete of a connection: ~CConnection takes it out of the listener,      *)
(* ~CPollUnit out of the pool and the epoll set, and closes it.            *)
(***************************************************************************)
Delete(c) ==
    /\ conn' = Without(conn, c)
    /\ m_connections' = Without(m_connections, conn[c].m_fd)
    /\ m_poll_units' = Without(m_poll_units, conn[c].m_fd)
    /\ epoll' = Without(epoll, conn[c].m_fd)
    /\ sock' = Without(sock, conn[c].m_fd)

(***************************************************************************)
(* CConnection::InputNotify.  One read takes what is there, and decodes to *)
(* n packets, none if the last one is not complete.  Each becomes a task.  *)
(***************************************************************************)
OnPackets(c, n) ==
    /\ requests' = requests + n
    /\ work' = [work EXCEPT ![c] = @ + n]
    /\ conn' = [conn EXCEPT ![c].asked = @ + n]
    /\ sock' = [sock EXCEPT ![conn[c].m_fd].data = FALSE]
    /\ UNCHANGED <<m_poll_units, m_connections, epoll, returning>>

(* Mutant: end of file is taken for EAGAIN. *)
InputIgnoresEnd(c) ==
    LET s == sock[conn[c].m_fd] IN
    \/ s.data /\ \E n \in 0 .. MaxReq - requests : OnPackets(c, n)
    \/ s.data /\ Delete(c) /\ UNCHANGED tasks
    \/ ~s.data /\ UNCHANGED <<registries, sock, tasks>>

Input(c) ==
    LET s == sock[conn[c].m_fd] IN
    \/ s.data /\ \E n \in 0 .. MaxReq - requests : OnPackets(c, n)
    \/ s.data /\ Delete(c) /\ UNCHANGED tasks                  \* OnDecodeError
    \/ ~s.data /\ s.peer # "up" /\ Delete(c) /\ UNCHANGED tasks
    \/ ~s.data /\ s.peer = "up" /\ UNCHANGED <<registries, sock, tasks>>

Min2(a, b) == IF a <= b THEN a ELSE b

WriteSize(c) == Min2(sock[conn[c].m_fd].room, Min2(IOVCount, conn[c].send))

(* Mutant: DisableOutput whether or not something is left. *)
InterestNone(left) == {"IN"}

(* m_events and the kernel's interest change together: epoll is both. *)
Interest(left) == IF left = 0 THEN {"IN"} ELSE {"IN", "OUT"}

(* A reset may have come after the event was reported. *)
WriteFails(c) == conn[c].send > 0 /\ sock[conn[c].m_fd].peer = "reset"

(* CConnection::OutputNotify: one writev, which may take nothing. *)
Output(c) ==
    LET f == conn[c].m_fd
        n == WriteSize(c)
    IN
    \/ /\ WriteFails(c)
       /\ Delete(c)
    \/ /\ ~WriteFails(c)
       /\ conn' = [conn EXCEPT ![c].send = @ - n, ![c].written = @ + n]
       /\ sock' = [sock EXCEPT ![f].room = @ - n]
       /\ epoll' = [epoll EXCEPT ![f] = Interest(conn[c].send - n)]
       /\ UNCHANGED <<m_poll_units, m_connections>>

(* CPollPool::EpollProcess for the event of a connection. *)
Hangup(f) ==
    /\ "HUP" \in batch[f].events
    /\ Delete(m_poll_units[f])
    /\ UNCHANGED <<call, tasks>>

OutputNotify(f) ==
    /\ "HUP" \notin batch[f].events /\ "OUT" \in batch[f].events
    /\ Output(m_poll_units[f])
    /\ call' = IF "IN" \in batch[f].events THEN m_poll_units[f] ELSE None
    /\ UNCHANGED tasks

InputNotify(f) ==
    /\ batch[f].events = {"IN"}
    /\ Input(m_poll_units[f])
    /\ UNCHANGED call

(* An event whose descriptor is in no unit: the descriptor is closed. *)
Invalid(f) ==
    /\ epoll' = Without(epoll, f) /\ sock' = Without(sock, f)
    /\ UNCHANGED <<conn, m_poll_units, m_connections, call, tasks>>

ConnectionEvent(f) ==
    /\ Handle(f)
    /\ IF f \in DOMAIN m_poll_units
       THEN Hangup(f) \/ OutputNotify(f) \/ InputNotify(f)
       ELSE Invalid(f)
    /\ UNCHANGED <<accepted, crashed>>

(* The InputNotify that follows an OutputNotify, or an accept. *)
CalledInputNotify ==
    /\ ~crashed /\ call # None /\ call' = None
    /\ \/ call \in DOMAIN conn /\ Input(call) /\ UNCHANGED crashed
       \/ call \notin DOMAIN conn /\ crashed' = TRUE /\ UNCHANGED <<registries, sock, tasks>>
    /\ UNCHANGED <<arrived, accepted, m_defer_accept, batch, resets>>

(***************************************************************************)
(* CListener::InputNotify: accept, AttachUnit and AttachConnection.  The   *)
(* connection is deleted again if the pool is full or a system call fails. *)
(***************************************************************************)
Attach(c, f) ==
    /\ conn' = With(conn, c, [m_fd |-> f, send |-> 0, asked |-> 0, written |-> 0])
    /\ m_poll_units' = With(m_poll_units, f, c)
    /\ m_connections' = With(m_connections, f, c)
    /\ epoll' = With(epoll, f, {"IN"})
    /\ sock' = With(sock, f, NewSocket)
    /\ call' = IF m_defer_accept THEN c ELSE None

Accept(f) ==
    /\ accepted' = accepted + 1
    /\ \/ Cardinality(DOMAIN m_poll_units) < MaxUnits /\ Attach(accepted', f)
       \/ UNCHANGED <<registries, sock, call>>

ListenerEvent ==
    /\ Handle(Listener)
    /\ \/ \E f \in FD \ DOMAIN sock : Accept(f)
       \/ UNCHANGED <<accepted, registries, sock, call>>     \* accept(2) fails
    /\ UNCHANGED <<tasks, crashed>>

(* Mutant: a response replaces those that are not written yet. *)
SendPacketsReplace ==
    /\ conn' = [c \in DOMAIN conn |->
                    IF returning[c] > 0 THEN [conn[c] EXCEPT !.send = returning[c]] ELSE conn[c]]
    /\ epoll' = [f \in DOMAIN epoll |->
                    epoll[f] \cup IF returning[m_poll_units[f]] > 0 THEN {"OUT"} ELSE {}]

(***************************************************************************)
(* CPipeQueueReader::InputNotify of the return pipe: CClientReply for each *)
(* reply, which is SendPacket for those whose connection is there.         *)
(***************************************************************************)
SendPackets ==
    /\ conn' = [c \in DOMAIN conn |-> [conn[c] EXCEPT !.send = @ + returning[c]]]
    /\ epoll' = [f \in DOMAIN epoll |->
                    epoll[f] \cup IF returning[m_poll_units[f]] > 0 THEN {"OUT"} ELSE {}]

ReturnEvent ==
    /\ Handle(ReturnPipe)
    /\ SendPackets
    /\ returning' = [c \in Conn |-> 0]
    /\ UNCHANGED <<m_poll_units, m_connections, sock, call, work, requests, accepted, crashed>>

Client(f) == ClientSends(f) \/ ClientReads(f) \/ ClientShuts(f) \/ ClientResets(f)

Loop ==
    \/ EpollWait
    \/ \E f \in FD : ConnectionEvent(f)
    \/ CalledInputNotify
    \/ ListenerEvent
    \/ ReturnEvent

Next ==
    \/ Arrive
    \/ \E f \in DOMAIN sock : Client(f)
    \/ \E c \in Conn : WorkNotify(c)
    \/ Loop

(* The loop never stops, and the work thread answers. *)
Fairness == WF_vars(Loop) /\ \A c \in Conn : WF_vars(WorkNotify(c))

SafetySpec == Init /\ [][Next]_vars

Spec == SafetySpec /\ Fairness
------------------------------------------------------------------------------
Connection == [m_fd : FD, send : Nat, asked : Nat, written : Nat]

Sockets == [data : BOOLEAN, peer : {"up", "shut", "reset"}, room : 0 .. SndBuf]

Event == [events : SUBSET {"IN", "OUT", "HUP"}, meant : Conn \cup {None}]

(* What the variables range over. *)
TypeOK ==
    /\ DOMAIN conn \subseteq Conn /\ conn \in [DOMAIN conn -> Connection]
    /\ DOMAIN m_poll_units \subseteq FD /\ m_poll_units \in [DOMAIN m_poll_units -> Conn]
    /\ DOMAIN m_connections \subseteq FD /\ m_connections \in [DOMAIN m_connections -> Conn]
    /\ DOMAIN epoll \subseteq FD /\ epoll \in [DOMAIN epoll -> SUBSET {"IN", "OUT"}]
    /\ DOMAIN sock \subseteq FD /\ sock \in [DOMAIN sock -> Sockets]
    /\ arrived \in 0 .. MaxConn /\ accepted \in 0 .. arrived /\ m_defer_accept \in BOOLEAN
    /\ DOMAIN batch \subseteq FD \cup {Listener, ReturnPipe} /\ batch \in [DOMAIN batch -> Event]
    /\ call \in Conn \cup {None}
    /\ work \in [Conn -> Nat] /\ returning \in [Conn -> Nat]
    /\ requests \in 0 .. MaxReq /\ resets \in 0 .. MaxReset /\ crashed \in BOOLEAN

(***************************************************************************)
(* The five places a connection is known in agree between handlers: the    *)
(* objects, the pool, the listener, the epoll set and the open             *)
(* descriptors.  No descriptor leaks, no registry keeps a freed object.    *)
(***************************************************************************)
RegistriesAgree ==
    /\ m_poll_units = m_connections
    /\ DOMAIN m_poll_units = DOMAIN epoll
    /\ DOMAIN m_poll_units = DOMAIN sock
    /\ \A f \in DOMAIN m_poll_units : /\ m_poll_units[f] \in DOMAIN conn
                                      /\ conn[m_poll_units[f]].m_fd = f
    /\ \A c \in DOMAIN conn : /\ conn[c].m_fd \in DOMAIN m_poll_units
                              /\ m_poll_units[conn[c].m_fd] = c

(***************************************************************************)
(* Every event still waiting in the batch will be handled by the unit it   *)
(* was reported for, although handlers before it accept and delete         *)
(* connections: the branch that closes an unknown descriptor, which may by *)
(* then be another connection's, is never taken.                           *)
(***************************************************************************)
EventsReachTheirUnit ==
    \A f \in DOMAIN batch \cap FD :
        f \in DOMAIN m_poll_units /\ m_poll_units[f] = batch[f].meant

(***************************************************************************)
(* What EventsReachTheirUnit rests on: the connection the running handler  *)
(* is about to call, and may delete, has no event left in the batch.       *)
(***************************************************************************)
CallNotInBatch == call \in DOMAIN conn => conn[call].m_fd \notin DOMAIN batch

(* EPOLLOUT is asked for exactly while responses wait to be written. *)
OutputWhenPending ==
    \A c \in DOMAIN conn : "OUT" \in epoll[conn[c].m_fd] <=> conn[c].send > 0

(* Every request of a connection has one response, and it is somewhere. *)
ResponsesConserved ==
    \A c \in DOMAIN conn :
        conn[c].asked = work[c] + returning[c] + conn[c].send + conn[c].written

(* A connection whose client is gone does not stay: it is deleted. *)
GoneIsDeleted ==
    \A c \in Conn :
        (c \in DOMAIN conn /\ sock[conn[c].m_fd].peer # "up") ~> (c \notin DOMAIN conn \/ crashed)

(* While its client keeps reading, a connection always gets rid of its responses. *)
Flushed ==
    \A c \in Conn :
        []<>(c \in DOMAIN conn => sock[conn[c].m_fd].room > 0)
            => []<>(c \in DOMAIN conn => conn[c].send = 0 \/ crashed)
==============================================================================
