------------------------------- MODULE Win32Io -------------------------------
(***************************************************************************)
(* Descriptors and asynchronous I/O of os_win32.c, in a client like        *)
(* cgi-fcgi.  A descriptor is an index of fdTable, which remembers the     *)
(* handle.  Operations are overlapped; when one completes Windows queues   *)
(* it on a completion port, from which OS_DoIo takes it and calls the      *)
(* client back.  Standard input cannot do this: a thread of its own takes  *)
(* the requests for it from a second port, reads, and queues the result as *)
(* if Windows had done it.                                                 *)
(***************************************************************************)
EXTENDS Integers, SequencesExt

CONSTANTS OpenMax,   \* WIN32_OPEN_MAX
          Handles,   \* the values handles have
          MaxOps     \* bound on the operations posted

VARIABLES
    fdTable,
    handles,      \* the handles that are open in Windows
    connected,    \* those that have a peer
    pending,      \* overlapped operations Windows has not completed
    ioPort,       \* hIoCompPort
    stdinPort,    \* hStdinCompPort
    stdinThread,  \* none, waiting, reading, ended
    stdinOp,      \* the operation it has taken
    ops,          \* operations posted
    closed,       \* those whose descriptor has been closed since
    called,       \* the operations called back
    inCallback

table == <<fdTable, handles, connected>>

stdinVars == <<stdinPort, stdinThread, stdinOp>>

opVars == <<ops, closed, called>>

vars == <<table, pending, ioPort, stdinVars, opVars, inCallback>>

Slots == 0 .. OpenMax - 1

Stdio == 0 .. 2

Unused == [type |-> "FD_UNUSED", handle |-> 0]

Used == {fd \in Slots : fdTable[fd] # Unused}

NoOp == [no |-> 0, fd |-> 0, handle |-> 0]

(* OS_LibInit with the three standard descriptors.  The thread is started  *)
(* if CONTENT_LENGTH says that there is something to read.                 *)
Init ==
    /\ fdTable = [fd \in Slots |-> IF fd \in Stdio THEN [type |-> "FD_PIPE_SYNC", handle |-> 0]
                                   ELSE Unused]
    /\ handles = {} /\ connected = {}
    /\ pending = {} /\ ioPort = <<>>
    /\ stdinPort = <<>> /\ stdinThread \in {"none", "waiting"} /\ stdinOp = NoOp
    /\ ops = 0 /\ closed = {} /\ called = {} /\ inCallback = FALSE
-----------------------------------------------------------------------------
(* Mutant: a handle that is small enough is its own descriptor.            *)
NewDescriptorBlind(h) ==
    IF h < OpenMax THEN {h}
    ELSE LET free == (1 .. OpenMax - 1) \ Used IN IF free = {} THEN {} ELSE {Min(free)}

(* Win32NewDescriptor: a handle is its own descriptor if it can be, or     *)
(* else gets the first that is free.  The set is empty if none is.         *)
Win32NewDescriptor(h) ==
    IF h < OpenMax /\ h \notin Used THEN {h}
    ELSE LET free == (1 .. OpenMax - 1) \ Used IN IF free = {} THEN {} ELSE {Min(free)}

(* The new handle and its descriptor; without one the handle is closed.    *)
NewHandle(type, peers) ==
    /\ \E h \in Handles \ handles :
          \/ \E fd \in Win32NewDescriptor(h) :
                /\ fdTable' = [fdTable EXCEPT ![fd] = [type |-> type, handle |-> h]]
                /\ handles' = handles \cup {h}
                /\ connected' = connected \cup (IF peers THEN {h} ELSE {})
          \/ Win32NewDescriptor(h) = {} /\ UNCHANGED table
    /\ UNCHANGED <<pending, ioPort, stdinVars, opVars, inCallback>>

(* OS_FcgiConnect to a named pipe. *)
ConnectPipe == NewHandle("FD_PIPE_ASYNC", TRUE)

(* OS_FcgiConnect over TCP takes connect to return 0 when it fails, and    *)
(* OS_SetFlags makes the descriptor asynchronous: a socket that has been   *)
(* connected is closed, one that has not is kept.                          *)
ConnectSocket == NewHandle("FD_SOCKET_ASYNC", FALSE)

NewOp(fd) == [no |-> ops + 1, fd |-> fd, handle |-> fdTable[fd].handle]

(* Mutant: ERROR_IO_PENDING is not told from the other errors. *)
IssueTwice(op) ==
    \/ pending' = pending \cup {op} /\ UNCHANGED ioPort
    \/ pending' = pending \cup {op} /\ ioPort' = Append(ioPort, op)

(* ReadFile and WriteFile: the operation is pending, or it has failed, and *)
(* is queued as one that has transferred nothing.                          *)
Issue(op) ==
    \/ op.handle \in connected /\ pending' = pending \cup {op} /\ UNCHANGED ioPort
    \/ ioPort' = Append(ioPort, op) /\ UNCHANGED pending

(* OS_AsyncRead and OS_AsyncWrite. *)
Async ==
    /\ ops < MaxOps /\ ops' = ops + 1
    /\ \E fd \in Used \ Stdio : Issue(NewOp(fd))
    /\ UNCHANGED <<table, stdinVars, closed, called, inCallback>>

OS_AsyncReadStdin ==
    /\ ops < MaxOps /\ ops' = ops + 1
    /\ stdinPort' = Append(stdinPort, NewOp(0))
    /\ UNCHANGED <<table, pending, ioPort, stdinThread, stdinOp, closed, called, inCallback>>

Win32FreeDescriptor(fd) == fdTable' = [fdTable EXCEPT ![fd] = Unused]

(* OS_Close closes a socket's handle, and Windows ends what is pending on  *)
(* it; the handle of a pipe stays open.                                    *)
OS_Close ==
    /\ \E fd \in Used \ Stdio :
          LET h == fdTable[fd].handle IN
          /\ IF fdTable[fd].type = "FD_SOCKET_ASYNC"
             THEN /\ handles' = handles \ {h} /\ connected' = connected \ {h}
                  /\ pending' = {op \in pending : op.handle # h}
                  /\ ioPort' = ioPort \o SetToSeq(pending \ pending')
             ELSE UNCHANGED <<handles, connected, pending, ioPort>>
          /\ Win32FreeDescriptor(fd)
          /\ closed' = closed \cup {op.no : op \in {o \in pending \cup ToSet(ioPort) : o.fd = fd}}
    /\ UNCHANGED <<stdinVars, ops, called, inCallback>>

Client == ConnectPipe \/ ConnectSocket \/ Async \/ OS_AsyncReadStdin \/ OS_Close
-----------------------------------------------------------------------------
(* Windows: the peer has sent something, taken something, or gone. *)
Complete ==
    /\ \E op \in pending : pending' = pending \ {op} /\ ioPort' = Append(ioPort, op)
    /\ UNCHANGED <<table, stdinVars, opVars, inCallback>>

StdinTake ==
    /\ stdinThread = "waiting" /\ stdinPort # <<>>
    /\ stdinThread' = "reading" /\ stdinOp' = Head(stdinPort) /\ stdinPort' = Tail(stdinPort)
    /\ UNCHANGED <<table, pending, ioPort, opVars, inCallback>>

(* Mutant: the thread stops when there was nothing more to read. *)
StdinReadLast == stdinThread' \in {"waiting", "ended"}

StdinNext == stdinThread' = "waiting"

(* The read has returned something, or the end of a file. *)
StdinRead ==
    /\ stdinThread = "reading"
    /\ ioPort' = Append(ioPort, stdinOp) /\ stdinOp' = NoOp /\ StdinNext
    /\ UNCHANGED <<table, pending, stdinPort, opVars, inCallback>>

(* The read has failed, as it does when the other end of a pipe is closed: *)
(* the thread ends, and nothing is queued.                                 *)
StdinFails ==
    /\ stdinThread = "reading" /\ stdinThread' = "ended"
    /\ UNCHANGED <<table, pending, ioPort, stdinPort, stdinOp, opVars, inCallback>>

StdinThread == StdinTake \/ StdinRead \/ StdinFails

(* OS_DoIo takes one completion.  The instance it compares is never        *)
(* changed, so that it always calls.                                       *)
OS_DoIo ==
    \/ /\ ~inCallback /\ ioPort # <<>>
       /\ ioPort' = Tail(ioPort) /\ called' = called \cup {Head(ioPort).no}
       /\ inCallback' = TRUE
       /\ UNCHANGED <<table, pending, stdinVars, ops, closed>>
    \/ /\ inCallback /\ inCallback' = FALSE
       /\ UNCHANGED <<table, pending, ioPort, stdinVars, opVars>>

Next == Client \/ Complete \/ StdinThread \/ OS_DoIo
-----------------------------------------------------------------------------
Ops == [no : 0 .. MaxOps, fd : Slots, handle : Handles \cup {0}]

(* What the variables range over. *)
TypeOK ==
    /\ \A fd \in Slots : fdTable[fd].handle \in Handles \cup {0}
    /\ \A fd \in Used \ Stdio : fdTable[fd].handle \in handles
    /\ connected \subseteq handles /\ handles \subseteq Handles
    /\ pending \subseteq Ops /\ ToSet(ioPort) \subseteq Ops /\ ToSet(stdinPort) \subseteq Ops
    /\ stdinOp \in Ops /\ closed \subseteq 1 .. ops

InStdin == ToSet(stdinPort) \cup (IF stdinOp = NoOp THEN {} ELSE {stdinOp})

(* An operation posted is in one place, with Windows, on a port, with the  *)
(* thread or called back, and there once: none is called twice, whatever   *)
(* order they complete in and whatever is closed.  One whose read of       *)
(* standard input failed stays with the thread, which has ended.           *)
OnePlace ==
    /\ IsInjective(ioPort)
    /\ pending \cap ToSet(ioPort) = {}
    /\ LET waiting == {op.no : op \in pending \cup ToSet(ioPort) \cup InStdin}
       IN  waiting \cap called = {} /\ waiting \cup called = 1 .. ops

(* While a descriptor has not been closed its completions name the handle  *)
(* they were posted on; two descriptors never share one.                   *)
DescriptorsMatch ==
    /\ \A op \in pending \cup ToSet(ioPort) :
          op.no \notin closed => fdTable[op.fd].handle = op.handle
    /\ \A f, g \in Used \ Stdio : fdTable[f].handle = fdTable[g].handle => f = g

(* What has completed is called back, unless its descriptor was closed,    *)
(* and no request for standard input is left while its thread could take   *)
(* it: there is none, or it is busy with another.  Nothing is said of what *)
(* follows a read that fails, which ends the thread.                       *)
Answered ==
    /\ \A n \in 1 .. MaxOps : (\E op \in ToSet(ioPort) : op.no = n) ~> n \in called \cup closed
    /\ []<>(stdinPort = <<>> \/ stdinThread = "none" \/ stdinOp # NoOp)

(* What os_win32.c:115 and :1496 say of the instance: it does not match    *)
(* after a close, and only what matches is called back.                    *)
NoCallbackAfterClose == [][\A n \in called' \ called : n \notin closed]_vars
=============================================================================
