----------------------------- MODULE Win32Accept -----------------------------
(***************************************************************************)
(* How FastCGI applications accept connections on Windows: OS_Accept and   *)
(* OS_IpcClose of os_win32.c in several processes that were started with   *)
(* the same listener, a socket or one instance of a named pipe, and with   *)
(* the same mutex, or none, and the same shutdown event.                   *)
(***************************************************************************)
EXTENDS Integers, FiniteSets

CONSTANTS Processes, Clients,
          MaxUsed,    \* descriptors a process has for connections
          Free      \* nobody

VARIABLES
    listenType,      \* FD_PIPE_SYNC or FD_SOCKET_SYNC
    hasMutex,        \* there is an acceptMutex
    mutex,           \* its owner
    event,           \* the shutdown event has been set
    shutdownPending, \* for each process
    pc,              \* where it is in its loop over OS_Accept and OS_IpcClose
    conn,            \* the client it serves
    used,            \* descriptors it has used
    client,          \* none, waiting, accepted, gone
    pipe             \* the instance: connectable, disconnected, or the client it is connected to

given == <<listenType, hasMutex>>

vars == <<given, mutex, event, shutdownPending, pc, conn, used, client, pipe>>

(* OS_LibInit in every process. *)
Init ==
    /\ listenType \in {"FD_PIPE_SYNC", "FD_SOCKET_SYNC"} /\ hasMutex \in BOOLEAN
    /\ mutex = Free /\ event = FALSE
    /\ shutdownPending = [p \in Processes |-> FALSE]
    /\ pc = [p \in Processes |-> "app"]
    /\ conn = [p \in Processes |-> Free]
    /\ used = [p \in Processes |-> 0]
    /\ client = [c \in Clients |-> "none"]
    /\ pipe = IF listenType = "FD_PIPE_SYNC" THEN "connectable" ELSE Free

Goes(p, from, to) == pc[p] = from /\ pc' = [pc EXCEPT ![p] = to]

Waiting == {c \in Clients : client[c] = "waiting"}
-----------------------------------------------------------------------------
(* The web server's connections, and its wish to stop. *)
Connect(c) ==
    /\ client[c] = "none" /\ client' = [client EXCEPT ![c] = "waiting"]
    /\ IF listenType = "FD_PIPE_SYNC" THEN pipe = "connectable" /\ pipe' = c ELSE UNCHANGED pipe
    /\ UNCHANGED <<given, mutex, event, shutdownPending, pc, conn, used>>

Leave(c) ==
    /\ client[c] \in {"waiting", "accepted"} /\ client' = [client EXCEPT ![c] = "gone"]
    /\ UNCHANGED <<given, mutex, event, shutdownPending, pc, conn, used, pipe>>

SetEvent ==
    /\ ~event /\ event' = TRUE
    /\ UNCHANGED <<given, mutex, shutdownPending, pc, conn, used, client, pipe>>

Outside == SetEvent \/ \E c \in Clients : Connect(c) \/ Leave(c)
-----------------------------------------------------------------------------
(* A process that ends gives up what it holds. *)
Abandoned(p) == IF mutex = p THEN Free ELSE mutex

ExitsAtOnce == listenType = "FD_PIPE_SYNC"

(* ShutdownRequestThread: ConnectNamedPipe cannot be woken up, so that the *)
(* whole process goes, with any request it has.                            *)
ShutdownRequestThread(p) ==
    /\ event /\ ~shutdownPending[p] /\ pc[p] # "ended"
    /\ shutdownPending' = [shutdownPending EXCEPT ![p] = TRUE]
    /\ IF ExitsAtOnce THEN pc' = [pc EXCEPT ![p] = "ended"] /\ mutex' = Abandoned(p)
       ELSE UNCHANGED <<pc, mutex>>
    /\ UNCHANGED <<given, event, conn, used, client, pipe>>

(* ReleaseMutex fails for a process that does not own it. *)
ReleaseMutex(p) == mutex' = IF mutex = p THEN Free ELSE mutex

(* OS_Accept up to the mutex.  OS_LibShutdown releases the mutex, and an   *)
(* application whose OS_Accept fails ends.                                 *)
Enter(p) ==
    /\ \/ shutdownPending[p] /\ Goes(p, "app", "ended") /\ ReleaseMutex(p)
       \/ ~shutdownPending[p] /\ Goes(p, "app", "lock") /\ UNCHANGED mutex
    /\ UNCHANGED <<given, event, shutdownPending, conn, used, client, pipe>>

(* Mutant: the wait for the mutex times out, and only WAIT_FAILED is told. *)
WaitedShort(p) == TRUE

Waited(p) == mutex \in {Free, p}

(* The mutex, and shutdownPending once more behind it. *)
Lock(p) ==
    /\ IF hasMutex THEN Waited(p) /\ mutex' = p ELSE UNCHANGED mutex
    /\ Goes(p, "lock", IF shutdownPending[p] THEN "shutdown" ELSE "accept")
    /\ UNCHANGED <<given, event, shutdownPending, conn, used, client, pipe>>

(* Mutant: a timeout is taken for a connection, and a connection for a timeout. *)
SelectFindsNone == Waiting = {}

SelectFinds == Waiting # {}

(* Mutant: shutdownPending is not looked at. *)
SelectTimeoutNever(p) == FALSE

(* shutdownPending whenever the select of acceptSocket times out. *)
SelectTimeout(p) ==
    /\ listenType = "FD_SOCKET_SYNC" /\ ~SelectFinds
    /\ shutdownPending[p] /\ Goes(p, "accept", "shutdown")
    /\ UNCHANGED <<given, mutex, event, shutdownPending, conn, used, client, pipe>>

(* OS_LibShutdown, in which the mutex is released. *)
OS_LibShutdown(p) ==
    /\ Goes(p, "shutdown", "return") /\ ReleaseMutex(p)
    /\ UNCHANGED <<given, event, shutdownPending, conn, used, client, pipe>>

(* The select of acceptSocket finds a connection, and WSAAccept is called. *)
Select(p) ==
    /\ listenType = "FD_SOCKET_SYNC" /\ SelectFinds /\ Goes(p, "accept", "WSAAccept")
    /\ UNCHANGED <<given, mutex, event, shutdownPending, conn, used, client, pipe>>

(* Win32NewDescriptor, which may find no free descriptor. *)
NewDescriptor(p, c) ==
    IF used[p] < MaxUsed
    THEN conn' = [conn EXCEPT ![p] = c] /\ used' = [used EXCEPT ![p] = @ + 1]
    ELSE UNCHANGED <<conn, used>>

(* WSAAccept waits for a connection, and may turn it down. *)
WSAAccept(p) ==
    /\ \E c \in Waiting :
          \/ /\ Goes(p, "WSAAccept", "return") /\ NewDescriptor(p, c)
             /\ client' = [client EXCEPT ![c] = IF used[p] < MaxUsed THEN "accepted" ELSE "gone"]
          \/ /\ Goes(p, "WSAAccept", "accept") /\ UNCHANGED <<conn, used>>
             /\ client' = [client EXCEPT ![c] = "gone"]
    /\ UNCHANGED <<given, mutex, event, shutdownPending, pipe>>

(* Or it fails in another way, as after a select that has failed; nothing  *)
(* makes it do so.                                                         *)
WSAAcceptFails(p) ==
    /\ listenType = "FD_SOCKET_SYNC"
    /\ Goes(p, "accept", "return") \/ Goes(p, "WSAAccept", "return")
    /\ UNCHANGED <<given, mutex, event, shutdownPending, conn, used, client, pipe>>

(* ConnectNamedPipe lets clients connect, and waits until one has.         *)
Listen(p) ==
    /\ listenType = "FD_PIPE_SYNC" /\ pc[p] = "accept"
    /\ pipe = "disconnected" /\ pipe' = "connectable"
    /\ UNCHANGED <<given, mutex, event, shutdownPending, pc, conn, used, client>>

Accepted(c) == [client EXCEPT ![c] = IF @ = "waiting" THEN "accepted" ELSE @]

CutOff(c) == [client EXCEPT ![c] = "gone"]

(* acceptNamedPipe: a pipe that is connected already is as good as one     *)
(* that has just been, and so is one whose client has gone.  Without a     *)
(* descriptor for it, it is disconnected again.                            *)
AcceptNamedPipe(p) ==
    /\ pipe \in Clients /\ Goes(p, "accept", "return")
    /\ NewDescriptor(p, pipe)
    /\ IF used[p] < MaxUsed THEN client' = Accepted(pipe) /\ UNCHANGED pipe
       ELSE client' = CutOff(pipe) /\ pipe' = "disconnected"
    /\ UNCHANGED <<given, mutex, event, shutdownPending>>

(* The end of OS_Accept. *)
Return(p) ==
    /\ ReleaseMutex(p)
    /\ Goes(p, "return", IF conn[p] = Free THEN "ended" ELSE "serving")
    /\ UNCHANGED <<given, event, shutdownPending, conn, used, client, pipe>>

(* OS_IpcClose.  All processes have the one instance of a pipe: the client *)
(* it is connected to is disconnected, be it the process's own or another  *)
(* one's.  The descriptor is kept when the data cannot be flushed, because *)
(* nobody is connected or the client has gone.                             *)
OS_IpcClose(p) ==
    /\ Goes(p, "serving", "app")
    /\ conn' = [conn EXCEPT ![p] = Free]
    /\ \/ /\ listenType = "FD_SOCKET_SYNC" /\ client' = CutOff(conn[p]) /\ UNCHANGED pipe
          /\ used' = [used EXCEPT ![p] = @ - 1]
       \/ /\ listenType = "FD_PIPE_SYNC" /\ pipe \in Clients /\ client[pipe] # "gone"
          /\ client' = CutOff(pipe) /\ pipe' = "disconnected"
          /\ used' = [used EXCEPT ![p] = @ - 1]
       \/ /\ listenType = "FD_PIPE_SYNC" /\ (pipe \in Clients => client[pipe] = "gone")
          /\ UNCHANGED <<client, pipe, used>>
    /\ UNCHANGED <<given, mutex, event, shutdownPending>>

Process(p) ==
    \/ ShutdownRequestThread(p) \/ Enter(p) \/ Lock(p) \/ Select(p) \/ SelectTimeout(p)
    \/ OS_LibShutdown(p) \/ WSAAccept(p) \/ Listen(p)
    \/ AcceptNamedPipe(p) \/ Return(p) \/ OS_IpcClose(p)

Next == Outside \/ \E p \in Processes : Process(p) \/ WSAAcceptFails(p)
-----------------------------------------------------------------------------
Places == {"app", "lock", "accept", "shutdown", "WSAAccept", "return", "serving", "ended"}

(* What the variables range over. *)
TypeOK ==
    /\ pc \in [Processes -> Places] /\ mutex \in Processes \cup {Free}
    /\ conn \in [Processes -> Clients \cup {Free}]
    /\ used \in [Processes -> 0 .. MaxUsed]
    /\ client \in [Clients -> {"none", "waiting", "accepted", "gone"}]
    /\ pipe \in Clients \cup {Free, "connectable", "disconnected"}
    /\ \A p \in Processes : pc[p] = "serving" => conn[p] # Free /\ used[p] > 0

Accepting(p) == pc[p] \in {"accept", "WSAAccept", "shutdown"}

(* With a mutex only one process is in the accept cycle, although          *)
(* OS_LibShutdown releases it before OS_Accept does so again, and a        *)
(* process may end in between.                                             *)
OneAccepts == hasMutex => Cardinality({p \in Processes : Accepting(p)}) <= 1

(* Once the event is set every process ends: on a socket unless it waits   *)
(* in WSAAccept for a connection that was there when select returned.      *)
ShutdownEnds ==
    \A p \in Processes : event ~> \/ pc[p] \in {"ended", "WSAAccept"}
                                  \/ mutex # Free /\ pc[mutex] = "WSAAccept"

(* A client that waits on a socket is accepted, turned down, or gives up,  *)
(* as long as a process is left.                                           *)
ClientsAccepted ==
    \A c \in Clients :
        client[c] = "waiting" /\ listenType = "FD_SOCKET_SYNC"
            ~> client[c] # "waiting" \/ event \/ \A p \in Processes : pc[p] = "ended"
=============================================================================
