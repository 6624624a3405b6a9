------------------------------- MODULE UnixIo -------------------------------
(***************************************************************************)
(* Asynchronous I/O of os_unix.c: a client (cgi-fcgi is one) posts reads   *)
(* and writes, OS_DoIo waits in select until some can be done, does them   *)
(* and calls the client back, once for each.  A client may post and close  *)
(* from within a callback, while OS_DoIo is in the middle of its list.     *)
(*                                                                         *)
(* The operation on descriptor fd is entry 2 * fd (a read) or 2 * fd + 1   *)
(* (a write) of asyncIoTable, and is known by that index in the sets of    *)
(* descriptors as well.                                                    *)
(***************************************************************************)
EXTENDS Integers, FiniteSets, FiniteSetsExt

CONSTANTS Fds,        \* descriptors, 0 .. n
          TableSize,  \* asyncIoTableSize to begin with
          MaxPosts    \* bound on the operations posted

ASSUME UnixIoAssumption ==
    /\ IsFiniteSet(Fds) /\ Fds # {} /\ Fds = 0 .. Cardinality(Fds) - 1
    /\ TableSize \in Nat \ {0} /\ MaxPosts \in Nat

VARIABLES
    open,              \* open descriptors
    ready,             \* entries whose read or write would not wait
    inUse,             \* entries in use
    asyncIoTableSize,
    asyncIoInUse,
    fdSet,             \* readFdSet and writeFdSet
    fdSetPost,         \* readFdSetPost and writeFdSetPost
    numPosted,         \* numRdPosted and numWrPosted
    maxFd,
    at,                \* the client is in control (client, callback), or OS_DoIo (loop)
    next,              \* the entry its loop goes on with
    posts              \* operations posted

kernel == <<open, ready>>

tables == <<inUse, asyncIoTableSize, asyncIoInUse, fdSet, maxFd>>

posted == <<fdSetPost, numPosted>>

unixVars == <<kernel, tables, posted, at, next, posts>>

Kinds == {0, 1}

Entries == {2 * fd + k : fd \in Fds, k \in Kinds}

FdOf(i) == i \div 2

EntriesOf(fd) == {2 * fd, 2 * fd + 1}

(* OS_LibInit; standard input is open. *)
UnixInit ==
    /\ open = {0} /\ ready = {}
    /\ inUse = {} /\ asyncIoTableSize = TableSize /\ asyncIoInUse = FALSE
    /\ fdSet = {} /\ fdSetPost = {} /\ numPosted = [k \in Kinds |-> 0]
    /\ maxFd = -1
    /\ at = "client" /\ next = 0 /\ posts = 0

InClient == at \in {"client", "callback"}
-----------------------------------------------------------------------------
(* The client's descriptors, and what arrives on those it waits for. *)
Open ==
    /\ InClient /\ Fds # open /\ posts < MaxPosts
    /\ open' = open \cup {Min(Fds \ open)}
    /\ UNCHANGED <<ready, tables, posted, at, next, posts>>

BecomesReady ==
    /\ \E i \in inUse \ ready : ready' = ready \cup {i}
    /\ UNCHANGED <<open, tables, posted, at, next, posts>>
-----------------------------------------------------------------------------
(* GrowAsyncTable, as often as it takes. *)
Grown(i) == IF i < asyncIoTableSize THEN asyncIoTableSize
            ELSE asyncIoTableSize * 2 ^ Min({n \in 1 .. i + 1 : i < asyncIoTableSize * 2 ^ n})

(* OS_AsyncRead, OS_AsyncWrite and OS_AsyncReadStdin, which does not look  *)
(* at the size of the table: standard input is its first entry.            *)
Async(i) ==
    /\ InClient /\ FdOf(i) \in open /\ i \notin inUse
    /\ posts < MaxPosts /\ posts' = posts + 1
    /\ asyncIoInUse' = TRUE
    /\ maxFd' = Max({maxFd, FdOf(i)})
    /\ asyncIoTableSize' = Grown(i)
    /\ inUse' = inUse \cup {i}
    /\ fdSet' = fdSet \cup {i}
    /\ UNCHANGED <<kernel, posted, at, next>>

(* Mutant: what select has found is not forgotten. *)
UnpostNothing(fd) == UNCHANGED posted

(* A completed event is forgotten, but still counted. *)
Unpost(fd) == fdSetPost' = fdSetPost \ EntriesOf(fd) /\ UNCHANGED numPosted

MaxFdAfter(fd) == IF maxFd = fd THEN maxFd - 1 ELSE maxFd

(* With an entry beyond the table OS_Close and OS_CloseRead look at memory *)
(* outside it, and clear it there: it holds nothing of this state.         *)
OS_Close ==
    /\ InClient
    /\ \E fd \in open :
          /\ open' = open \ {fd}
          /\ ready' = ready \ EntriesOf(fd)
          /\ \/ /\ asyncIoInUse
                /\ fdSet' = fdSet \ EntriesOf(fd)
                /\ inUse' = inUse \ EntriesOf(fd)
                /\ maxFd' = MaxFdAfter(fd)
                /\ Unpost(fd)
             \/ ~asyncIoInUse /\ UNCHANGED <<inUse, fdSet, maxFd, posted>>
    /\ UNCHANGED <<asyncIoTableSize, asyncIoInUse, at, next, posts>>

(* The shutdown of a socket makes its reads return 0 at once. *)
OS_CloseRead ==
    /\ InClient
    /\ \E fd \in open :
          /\ ready' = ready \cup {2 * fd}
          /\ inUse' = inUse \ {2 * fd}
          /\ fdSet' = IF 2 * fd \in inUse THEN fdSet \ {2 * fd} ELSE fdSet
    /\ UNCHANGED <<open, asyncIoTableSize, asyncIoInUse, maxFd, posted, at, next, posts>>
-----------------------------------------------------------------------------
NothingPosted == \A k \in Kinds : numPosted[k] = 0

Count(k, entries) == Cardinality({i \in entries : i % 2 = k})

(* OS_DoIo, when no event of an earlier call is left.  The client waits    *)
(* for as long as it takes, as cgi-fcgi does.                              *)
Select ==
    /\ at = "client" /\ NothingPosted
    /\ LET found == {i \in fdSet \cap ready : FdOf(i) <= maxFd} IN
          /\ found # {}
          /\ fdSetPost' = fdSetPost \cup found
          /\ fdSet' = fdSet \ found
          /\ numPosted' = [k \in Kinds |-> Count(k, found)]
    /\ asyncIoInUse' = TRUE
    /\ at' = "loop"
    /\ UNCHANGED <<kernel, inUse, asyncIoTableSize, maxFd, next, posts>>

(* OS_DoIo with events left over: they are looked for without a select. *)
Resume ==
    /\ at = "client" /\ ~NothingPosted
    /\ asyncIoInUse' = TRUE
    /\ at' = "loop"
    /\ UNCHANGED <<kernel, inUse, asyncIoTableSize, fdSet, maxFd, posted, next, posts>>

(* Mutant: the loop looks at the descriptors that can be read only. *)
ToCallReads == {i \in fdSetPost \cap inUse : i >= next /\ FdOf(i) <= maxFd /\ i % 2 = 0}

(* What the loop still finds on its way to maxFd. *)
ToCall == {i \in fdSetPost \cap inUse : i >= next /\ FdOf(i) <= maxFd}

(* The next read or write is done and the client called back. *)
Dispatch ==
    /\ at = "loop" /\ ToCall # {}
    /\ LET i == Min(ToCall) IN
          /\ numPosted' = [numPosted EXCEPT ![i % 2] = @ - 1]
          /\ fdSetPost' = fdSetPost \ {i}
          /\ inUse' = inUse \ {i}
          /\ ready' = ready \ {i}
          /\ next' = i + 1
    /\ at' = "callback"
    /\ UNCHANGED <<open, asyncIoTableSize, asyncIoInUse, fdSet, maxFd, posts>>

Return ==
    /\ \/ at = "callback" /\ at' = "loop" /\ UNCHANGED next
       \/ at = "loop" /\ ToCall = {} /\ at' = "client" /\ next' = 0
    /\ UNCHANGED <<kernel, tables, posted, posts>>

OS_DoIo == Select \/ Resume \/ Dispatch \/ Return

Client == Open \/ (\E i \in Entries : Async(i)) \/ OS_Close \/ OS_CloseRead

UnixNext == OS_DoIo \/ Client \/ BecomesReady

(* The client calls OS_DoIo again and again, and returns from callbacks. *)
UnixSpec == UnixInit /\ [][UnixNext]_unixVars /\ WF_unixVars(OS_DoIo)
-----------------------------------------------------------------------------
(* What the variables range over. *)
UnixTypeOK ==
    /\ open \subseteq Fds /\ ready \subseteq Entries
    /\ inUse \subseteq Entries /\ fdSet \subseteq Entries /\ fdSetPost \subseteq Entries
    /\ numPosted \in [Kinds -> Nat] /\ maxFd \in Fds \cup {-1}
    /\ at \in {"client", "callback", "loop"}

(* OS_DoIo only reads and writes what is ready, on an open descriptor: it  *)
(* does not wait outside select, although callbacks close descriptors that *)
(* are on its list and open others with the same number.                   *)
OnlyReady == [][at = "loop" /\ at' = "callback" =>
                   \A i \in inUse \ inUse' : i \in ready /\ FdOf(i) \in open]_unixVars

(* More is counted than OS_DoIo can find: an event that was closed. *)
Miscounted == \E k \in Kinds : numPosted[k] # Count(k, fdSetPost \cap inUse)

Called(i) == i \notin inUse

(* What is ready is done, unless an event that select had found was closed *)
(* before its turn.                                                        *)
Dispatched == \A i \in Entries : (i \in inUse /\ i \in ready) ~> (Called(i) \/ Miscounted)

=============================================================================
