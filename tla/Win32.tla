-------------------------------- MODULE Win32 --------------------------------
(***************************************************************************)
(* os_win32.c as a whole.  OS_LibInit finds out from the standard handles  *)
(* what its process is: with an input handle and no other one it is one of *)
(* several that listen (Win32Accept), or else a program that runs once and *)
(* does its I/O asynchronously, such as cgi-fcgi (Win32Io).                *)
(***************************************************************************)
EXTENDS Naturals

CONSTANTS OpenMax, Handles, MaxOps,         \* as in Win32Io
          Processes, Clients, MaxUsed, Free   \* as in Win32Accept

ASSUME Win32IoAssumption == OpenMax \in Nat /\ OpenMax > 3 /\ Handles \subseteq Nat \ {0} /\ MaxOps \in Nat

ASSUME Win32AcceptAssumption == MaxUsed \in Nat \ {0} /\ Free \notin Processes \cup Clients

VARIABLES
    listening,    \* only the input handle is valid
    fdTable, handles, connected, pending, ioPort, stdinPort, stdinThread, stdinOp,
    ops, closed, called, inCallback,
    listenType, hasMutex, mutex, event, shutdownPending, pc, conn, used, client, pipe

Io == INSTANCE Win32Io

Accept == INSTANCE Win32Accept

ioVars == <<fdTable, handles, connected, pending, ioPort, stdinPort, stdinThread, stdinOp,
            ops, closed, called, inCallback>>

acceptVars == <<listenType, hasMutex, mutex, event, shutdownPending, pc, conn, used, client, pipe>>

vars == <<listening, ioVars, acceptVars>>

(* The part that does not run stays as it is: one such state is enough. *)
Init ==
    /\ listening \in BOOLEAN /\ Io!Init /\ Accept!Init
    /\ IF listening THEN stdinThread = "none" ELSE listenType = "FD_PIPE_SYNC" /\ ~hasMutex

Runs == ~listening /\ Io!Next /\ UNCHANGED <<listening, acceptVars>>

DoIo == ~listening /\ Io!OS_DoIo /\ UNCHANGED <<listening, acceptVars>>

StdinTake == ~listening /\ Io!StdinTake /\ UNCHANGED <<listening, acceptVars>>

Listens == listening /\ Accept!Next /\ UNCHANGED <<listening, ioVars>>

ShutdownRequestThread(p) ==
    listening /\ Accept!ShutdownRequestThread(p) /\ UNCHANGED <<listening, ioVars>>

Loop(p) ==
    /\ listening /\ Accept!Process(p) /\ ~Accept!ShutdownRequestThread(p)
    /\ UNCHANGED <<listening, ioVars>>

Next == Runs \/ Listens

(* The client calls OS_DoIo until it is done and its callbacks return; the *)
(* thread of standard input runs.  Every process that listens runs, and so *)
(* does its thread; the mutex is given to all in turn.                     *)
Fairness ==
    /\ WF_vars(DoIo) /\ WF_vars(StdinTake)
    /\ \A p \in Processes : WF_vars(ShutdownRequestThread(p)) /\ SF_vars(Loop(p))

Spec == Init /\ [][Next]_vars /\ Fairness
-----------------------------------------------------------------------------
(* The types of both parts. *)
TypeOK == Io!TypeOK /\ Accept!TypeOK

(* An operation posted is in one place, and called back once: Win32Io. *)
OnePlace == Io!OnePlace

(* A completion names the handle its operation was posted on: Win32Io. *)
DescriptorsMatch == Io!DescriptorsMatch

(* What completes on a descriptor not closed since is called back: Win32Io. *)
Answered == Io!Answered

(* Nothing is called back after its descriptor was closed: Win32Io. *)
NoCallbackAfterClose == Io!NoCallbackAfterClose

(* With a mutex one process is in the accept cycle: Win32Accept. *)
OneAccepts == Accept!OneAccepts

(* The shutdown event ends every process, but in WSAAccept: Win32Accept. *)
ShutdownEnds == Accept!ShutdownEnds

(* A client that waits on a socket is served: Win32Accept. *)
ClientsAccepted == Accept!ClientsAccepted
=============================================================================
