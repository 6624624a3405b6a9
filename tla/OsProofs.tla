------------------------------ MODULE OsProofs -------------------------------
(***************************************************************************)
(* Theorems about the two operating system layers of libfcgi.  os_win32.c: *)
(* one process at a time is in the accept cycle; an operation posted is in *)
(* one place and called back once, on the handle it was posted on.         *)
(* os_unix.c: its asynchronous I/O only does what is ready.                *)
(***************************************************************************)
EXTENDS Win32, UnixIo, SequenceLemmas, FiniteSetTheorems, WellFoundedInduction
-----------------------------------------------------------------------------
(* Accepting: whoever is in the accept cycle has the mutex, if there is    *)
(* one; whoever serves a client uses a descriptor for it.                  *)
HoldsMutex(p) == hasMutex /\ Accept!Accepting(p) => mutex = p

AcceptInv ==
    /\ Accept!TypeOK /\ hasMutex \in BOOLEAN
    /\ \A p \in Processes : HoldsMutex(p) /\ (conn[p] # Free => used[p] > 0)

LEMMA NotFree == \A p \in Processes \cup Clients : p # Free
BY Win32AcceptAssumption

LEMMA AcceptInit == Accept!Init => AcceptInv
<1>. SUFFICES ASSUME Accept!Init PROVE AcceptInv
    OBVIOUS
<1>1. /\ listenType \in {"FD_PIPE_SYNC", "FD_SOCKET_SYNC"} /\ hasMutex \in BOOLEAN
      /\ mutex = Free /\ pc = [p \in Processes |-> "app"] /\ conn = [p \in Processes |-> Free]
      /\ used = [p \in Processes |-> 0] /\ client = [c \in Clients |-> "none"]
      /\ pipe \in {"connectable", Free}
    BY DEF Accept!Init
<1>2. Accept!TypeOK
    BY <1>1, Win32AcceptAssumption DEF Accept!TypeOK, Accept!Places
<1>3. \A p \in Processes : HoldsMutex(p) /\ (conn[p] # Free => used[p] > 0)
    BY <1>1 DEF HoldsMutex, Accept!Accepting
<1>. QED
    BY <1>1, <1>2, <1>3 DEF AcceptInv

(* What the web server does touches neither processes nor the mutex. *)
LEMMA OutsideInv == ASSUME AcceptInv, Accept!Outside PROVE AcceptInv'
<1>1. /\ UNCHANGED <<hasMutex, mutex, pc, conn, used>>
      /\ client' \in [Clients -> {"none", "waiting", "accepted", "gone"}]
      /\ pipe' \in Clients \cup {Free, "connectable", "disconnected"}
    <2>. USE DEF AcceptInv, Accept!TypeOK, Accept!given
    <2>1. CASE Accept!SetEvent
        BY <2>1 DEF Accept!SetEvent
    <2>2. ASSUME NEW c \in Clients, Accept!Connect(c) PROVE <1>1
        BY <2>2 DEF Accept!Connect
    <2>3. ASSUME NEW c \in Clients, Accept!Leave(c) PROVE <1>1
        BY <2>3 DEF Accept!Leave
    <2>. QED
        BY <2>1, <2>2, <2>3 DEF Accept!Outside
<1>. QED
    BY <1>1 DEF AcceptInv, Accept!TypeOK, HoldsMutex, Accept!Accepting

(* A process that goes on: the others stay where they are, and what can    *)
(* happen to the mutex is that p gives it up, or takes it while it is free *)
(* or its own.                                                             *)
LEMMA GoesOn ==
    ASSUME AcceptInv, NEW p \in Processes, NEW to \in Accept!Places,
           hasMutex' = hasMutex, pc' = [pc EXCEPT ![p] = to],
           conn' \in [Processes -> Clients \cup {Free}],
           used' \in [Processes -> 0 .. MaxUsed],
           \A q \in Processes \ {p} : conn'[q] = conn[q] /\ used'[q] = used[q],
           conn'[p] # Free => used'[p] > 0,
           to = "serving" => conn'[p] # Free,
           client' \in [Clients -> {"none", "waiting", "accepted", "gone"}],
           pipe' \in Clients \cup {Free, "connectable", "disconnected"},
           \/ mutex' = mutex
           \/ mutex = p /\ mutex' = Free
           \/ mutex \in {Free, p} /\ mutex' = p,
           hasMutex /\ to \in {"accept", "WSAAccept", "shutdown"} => mutex' = p
    PROVE  AcceptInv'
<1>1. /\ pc \in [Processes -> Accept!Places] /\ mutex \in Processes \cup {Free}
      /\ pc'[p] = to /\ \A q \in Processes \ {p} : pc'[q] = pc[q]
    BY DEF AcceptInv, Accept!TypeOK
<1>2. Accept!TypeOK'
    <2>1. pc' \in [Processes -> Accept!Places] /\ mutex' \in Processes \cup {Free}
        BY <1>1
    <2>2. \A q \in Processes : pc'[q] = "serving" => conn'[q] # Free /\ used'[q] > 0
        BY <1>1 DEF AcceptInv, Accept!TypeOK
    <2>. QED
        BY <2>1, <2>2 DEF Accept!TypeOK, Accept!Places
<1>3. ASSUME NEW q \in Processes PROVE HoldsMutex(q)' /\ (conn'[q] # Free => used'[q] > 0)
    <2>1. CASE q = p
        BY <1>1, <2>1 DEF HoldsMutex, Accept!Accepting
    <2>2. CASE q # p
        <3>1. HoldsMutex(q) /\ (conn[q] # Free => used[q] > 0)
            BY DEF AcceptInv
        <3>2. q # Free
            BY NotFree
        <3>. QED
            BY <1>1, <2>2, <3>1, <3>2 DEF HoldsMutex, Accept!Accepting
    <2>. QED
        BY <2>1, <2>2
<1>. QED
    BY <1>2, <1>3 DEF AcceptInv

(* A descriptor for a connection. *)
LEMMA NewDescriptorInv ==
    ASSUME AcceptInv, NEW p \in Processes, NEW c \in Clients, Accept!NewDescriptor(p, c)
    PROVE  /\ conn' \in [Processes -> Clients \cup {Free}]
           /\ used' \in [Processes -> 0 .. MaxUsed]
           /\ \A q \in Processes \ {p} : conn'[q] = conn[q] /\ used'[q] = used[q]
           /\ conn'[p] # Free => used'[p] > 0
<1>1. /\ conn \in [Processes -> Clients \cup {Free}] /\ used \in [Processes -> 0 .. MaxUsed]
      /\ conn[p] # Free => used[p] > 0
    BY DEF AcceptInv, Accept!TypeOK
<1>2. CASE used[p] < MaxUsed
    <2>1. /\ conn' = [conn EXCEPT ![p] = c] /\ used' = [used EXCEPT ![p] = @ + 1]
          /\ used[p] + 1 \in 0 .. MaxUsed /\ used[p] + 1 > 0
        BY <1>1, <1>2, Win32AcceptAssumption DEF Accept!NewDescriptor
    <2>. QED
        BY <1>1, <2>1
<1>3. CASE ~(used[p] < MaxUsed)
    BY <1>1, <1>3 DEF Accept!NewDescriptor
<1>. QED
    BY <1>2, <1>3

(* The steps of a process. *)
LEMMA ProcessInv == ASSUME AcceptInv, NEW p \in Processes, Accept!Process(p) PROVE AcceptInv'
<1>1. /\ Accept!TypeOK /\ hasMutex \in BOOLEAN /\ mutex \in Processes \cup {Free}
      /\ pc \in [Processes -> Accept!Places]
      /\ conn \in [Processes -> Clients \cup {Free}] /\ used \in [Processes -> 0 .. MaxUsed]
      /\ client \in [Clients -> {"none", "waiting", "accepted", "gone"}]
      /\ pipe \in Clients \cup {Free, "connectable", "disconnected"}
      /\ HoldsMutex(p) /\ (conn[p] # Free => used[p] > 0)
    BY DEF AcceptInv, Accept!TypeOK
<1>2. /\ "app" \in Accept!Places /\ "lock" \in Accept!Places /\ "accept" \in Accept!Places
      /\ "shutdown" \in Accept!Places /\ "WSAAccept" \in Accept!Places
      /\ "return" \in Accept!Places /\ "serving" \in Accept!Places /\ "ended" \in Accept!Places
    BY DEF Accept!Places
<1>. USE DEF Accept!given
<1>3. CASE Accept!ShutdownRequestThread(p)
    <2>1. CASE Accept!ExitsAtOnce
        <3>1. /\ pc' = [pc EXCEPT ![p] = "ended"] /\ mutex' = IF mutex = p THEN Free ELSE mutex
              /\ UNCHANGED <<hasMutex, conn, used, client, pipe>>
            BY <1>3, <2>1 DEF Accept!ShutdownRequestThread, Accept!Abandoned
        <3>. QED
            BY <1>1, <1>2, <3>1, GoesOn
    <2>2. CASE ~Accept!ExitsAtOnce
        <3>1. UNCHANGED <<hasMutex, pc, mutex, conn, used, client, pipe>>
            BY <1>3, <2>2 DEF Accept!ShutdownRequestThread
        <3>. QED
            BY <3>1 DEF AcceptInv, Accept!TypeOK, HoldsMutex, Accept!Accepting
    <2>. QED
        BY <2>1, <2>2
<1>4. CASE Accept!Enter(p)
    <2>1. /\ UNCHANGED <<hasMutex, conn, used, client, pipe>>
          /\ \/ pc' = [pc EXCEPT ![p] = "ended"] /\ mutex' = IF mutex = p THEN Free ELSE mutex
             \/ pc' = [pc EXCEPT ![p] = "lock"] /\ mutex' = mutex
        BY <1>4 DEF Accept!Enter, Accept!Goes, Accept!ReleaseMutex
    <2>. QED
        BY <1>1, <1>2, <2>1, GoesOn
<1>5. CASE Accept!Lock(p)
    <2>1. /\ UNCHANGED <<hasMutex, conn, used, client, pipe>>
          /\ pc' = [pc EXCEPT ![p] = "shutdown"] \/ pc' = [pc EXCEPT ![p] = "accept"]
          /\ IF hasMutex THEN mutex \in {Free, p} /\ mutex' = p ELSE mutex' = mutex
        BY <1>5 DEF Accept!Lock, Accept!Goes, Accept!Waited
    <2>. QED
        BY <1>1, <1>2, <2>1, GoesOn
<1>6. CASE Accept!Select(p) \/ Accept!SelectTimeout(p)
    <2>1. /\ UNCHANGED <<hasMutex, mutex, conn, used, client, pipe>> /\ pc[p] = "accept"
          /\ pc' = [pc EXCEPT ![p] = "shutdown"] \/ pc' = [pc EXCEPT ![p] = "WSAAccept"]
        BY <1>6 DEF Accept!Select, Accept!SelectTimeout, Accept!Goes
    <2>2. hasMutex => mutex = p
        BY <1>1, <2>1 DEF HoldsMutex, Accept!Accepting
    <2>. QED
        BY <1>1, <1>2, <2>1, <2>2, GoesOn
<1>7. CASE Accept!OS_LibShutdown(p)
    <2>1. /\ UNCHANGED <<hasMutex, conn, used, client, pipe>>
          /\ pc' = [pc EXCEPT ![p] = "return"] /\ mutex' = IF mutex = p THEN Free ELSE mutex
        BY <1>7 DEF Accept!OS_LibShutdown, Accept!Goes, Accept!ReleaseMutex
    <2>. QED
        BY <1>1, <1>2, <2>1, GoesOn
<1>8. CASE Accept!WSAAccept(p)
    <2>1. UNCHANGED <<hasMutex, mutex, pipe>> /\ pc[p] = "WSAAccept"
        BY <1>8 DEF Accept!WSAAccept, Accept!Goes
    <2>2. hasMutex => mutex = p
        BY <1>1, <2>1 DEF HoldsMutex, Accept!Accepting
    <2>3. PICK c \in Clients :
             \/ /\ pc' = [pc EXCEPT ![p] = "return"] /\ Accept!NewDescriptor(p, c)
                /\ client' = [client EXCEPT ![c] = IF used[p] < MaxUsed THEN "accepted" ELSE "gone"]
             \/ /\ pc' = [pc EXCEPT ![p] = "accept"] /\ UNCHANGED <<conn, used>>
                /\ client' = [client EXCEPT ![c] = "gone"]
        BY <1>8 DEF Accept!WSAAccept, Accept!Goes, Accept!Waiting
    <2>4. client' \in [Clients -> {"none", "waiting", "accepted", "gone"}]
        BY <1>1, <2>3
    <2>5. CASE pc' = [pc EXCEPT ![p] = "return"] /\ Accept!NewDescriptor(p, c)
        BY <1>1, <1>2, <2>1, <2>4, <2>5, GoesOn, NewDescriptorInv
    <2>6. CASE pc' = [pc EXCEPT ![p] = "accept"] /\ UNCHANGED <<conn, used>>
        BY <1>1, <1>2, <2>1, <2>2, <2>4, <2>6, GoesOn
    <2>. QED
        BY <2>3, <2>5, <2>6
<1>9. CASE Accept!Listen(p)
    <2>1. UNCHANGED <<hasMutex, mutex, pc, conn, used, client>> /\ pipe' = "connectable"
        BY <1>9 DEF Accept!Listen
    <2>. QED
        BY <2>1 DEF AcceptInv, Accept!TypeOK, HoldsMutex, Accept!Accepting
<1>10. CASE Accept!AcceptNamedPipe(p)
    <2>1. /\ UNCHANGED <<hasMutex, mutex>> /\ pipe \in Clients
          /\ pc' = [pc EXCEPT ![p] = "return"] /\ Accept!NewDescriptor(p, pipe)
          /\ \/ client' = [client EXCEPT ![pipe] = IF @ = "waiting" THEN "accepted" ELSE @]
             \/ client' = [client EXCEPT ![pipe] = "gone"]
          /\ pipe' \in {pipe, "disconnected"}
        BY <1>10 DEF Accept!AcceptNamedPipe, Accept!Goes, Accept!Accepted, Accept!CutOff
    <2>2. client' \in [Clients -> {"none", "waiting", "accepted", "gone"}]
        BY <1>1, <2>1
    <2>. QED
        BY <1>1, <1>2, <2>1, <2>2, GoesOn, NewDescriptorInv
<1>11. CASE Accept!Return(p)
    <2>1. /\ UNCHANGED <<hasMutex, conn, used, client, pipe>>
          /\ pc' = [pc EXCEPT ![p] = IF conn[p] = Free THEN "ended" ELSE "serving"]
          /\ mutex' = IF mutex = p THEN Free ELSE mutex
        BY <1>11 DEF Accept!Return, Accept!Goes, Accept!ReleaseMutex
    <2>. QED
        BY <1>1, <1>2, <2>1, GoesOn
<1>12. CASE Accept!OS_IpcClose(p)
    <2>1. /\ UNCHANGED <<hasMutex, mutex>> /\ pc[p] = "serving" /\ pc' = [pc EXCEPT ![p] = "app"]
          /\ conn' = [conn EXCEPT ![p] = Free]
          /\ used' = [used EXCEPT ![p] = used[p] - 1] \/ used' = used
          /\ client' = client \/ \E c : client' = [client EXCEPT ![c] = "gone"]
          /\ pipe' \in {pipe, "disconnected"}
        BY <1>12 DEF Accept!OS_IpcClose, Accept!Goes, Accept!CutOff
    <2>2. used[p] > 0 /\ used[p] - 1 \in 0 .. MaxUsed
        BY <1>1, <2>1, Win32AcceptAssumption DEF Accept!TypeOK
    <2>3. /\ conn' \in [Processes -> Clients \cup {Free}] /\ conn'[p] = Free
          /\ used' \in [Processes -> 0 .. MaxUsed]
          /\ \A q \in Processes \ {p} : conn'[q] = conn[q] /\ used'[q] = used[q]
        BY <1>1, <2>1, <2>2
    <2>4. /\ client' \in [Clients -> {"none", "waiting", "accepted", "gone"}]
          /\ pipe' \in Clients \cup {Free, "connectable", "disconnected"}
        BY <1>1, <2>1
    <2>. QED
        BY <1>1, <1>2, <2>1, <2>3, <2>4, GoesOn
<1>. QED
    BY <1>3, <1>4, <1>5, <1>6, <1>7, <1>8, <1>9, <1>10, <1>11, <1>12 DEF Accept!Process

(* An accept that fails. *)
LEMMA FailsInv ==
    ASSUME AcceptInv, NEW p \in Processes, Accept!WSAAcceptFails(p) PROVE AcceptInv'
<1>1. /\ UNCHANGED <<hasMutex, mutex, conn, used, client, pipe>>
      /\ pc' = [pc EXCEPT ![p] = "return"] /\ "return" \in Accept!Places
    BY DEF Accept!WSAAcceptFails, Accept!Goes, Accept!given, Accept!Places
<1>2. /\ conn \in [Processes -> Clients \cup {Free}] /\ used \in [Processes -> 0 .. MaxUsed]
      /\ client \in [Clients -> {"none", "waiting", "accepted", "gone"}]
      /\ pipe \in Clients \cup {Free, "connectable", "disconnected"}
      /\ conn[p] # Free => used[p] > 0
    BY DEF AcceptInv, Accept!TypeOK
<1>. QED
    BY <1>1, <1>2, GoesOn

LEMMA AcceptNext == AcceptInv /\ [Accept!Next]_acceptVars => AcceptInv'
<1>. SUFFICES ASSUME AcceptInv, [Accept!Next]_acceptVars PROVE AcceptInv'
    OBVIOUS
<1>1. CASE Accept!Outside
    BY <1>1, OutsideInv
<1>2. ASSUME NEW p \in Processes, Accept!Process(p) PROVE AcceptInv'
    BY <1>2, ProcessInv
<1>3. ASSUME NEW p \in Processes, Accept!WSAAcceptFails(p) PROVE AcceptInv'
    BY <1>3, FailsInv
<1>4. CASE UNCHANGED acceptVars
    BY <1>4 DEF acceptVars, AcceptInv, Accept!TypeOK, HoldsMutex, Accept!Accepting
<1>. QED
    BY <1>1, <1>2, <1>3, <1>4 DEF Accept!Next

-----------------------------------------------------------------------------
(* Input and output: the operations that have been posted and not called   *)
(* back, wherever they are.                                                *)
Busy == IF stdinOp = Io!NoOp THEN {} ELSE {stdinOp}

Posted == pending \cup Io!ToSet(ioPort) \cup Io!ToSet(stdinPort) \cup Busy

TableEntries == [type : {"FD_UNUSED", "FD_PIPE_SYNC", "FD_PIPE_ASYNC", "FD_SOCKET_ASYNC"},
            handle : Handles \cup {0}]

(* The table: a descriptor in use has an open handle of its own, and those *)
(* of standard input and output stay as they were.                         *)
Table ==
    /\ fdTable \in [Io!Slots -> TableEntries]
    /\ \A fd \in Io!Stdio : fdTable[fd] = [type |-> "FD_PIPE_SYNC", handle |-> 0]
    /\ \A fd \in Io!Used \ Io!Stdio : fdTable[fd].handle \in handles
    /\ \A f, g \in Io!Used \ Io!Stdio : fdTable[f].handle = fdTable[g].handle => f = g
    /\ connected \subseteq handles /\ handles \subseteq Handles

(* The places an operation can be in have none in common. *)
Apart ==
    /\ IsFiniteSet(pending) /\ pending \subseteq Io!Ops
    /\ ioPort \in Seq(Io!Ops) /\ Io!IsInjective(ioPort)
    /\ stdinPort \in Seq(Io!Ops) /\ Io!IsInjective(stdinPort)
    /\ stdinOp \in Io!Ops
    /\ pending \cap Io!ToSet(ioPort) = {} /\ (pending \cup Io!ToSet(ioPort)) \cap Busy = {}
    /\ (pending \cup Io!ToSet(ioPort) \cup Busy) \cap Io!ToSet(stdinPort) = {}
    /\ stdinThread \in {"none", "waiting"} => stdinOp = Io!NoOp
    /\ stdinThread = "reading" => stdinOp # Io!NoOp
    /\ \A op \in Io!ToSet(stdinPort) \cup Busy : op.fd = 0

(* Operations are numbered; the numbers that are not posted have been      *)
(* called back.                                                            *)
Numbered ==
    /\ ops \in 0 .. MaxOps /\ closed \subseteq 1 .. ops
    /\ \A o, p \in Posted : o.no = p.no => o = p
    /\ {op.no : op \in Posted} \cap called = {}
    /\ {op.no : op \in Posted} \cup called = 1 .. ops

(* As long as its descriptor has not been closed an operation is on the    *)
(* descriptor's handle.                                                    *)
OnHandle ==
    \A op \in Posted : op.no \notin closed => op.fd \in Io!Used /\ fdTable[op.fd].handle = op.handle

IoInv == Table /\ Apart /\ Numbered /\ OnHandle

(* Sequences as sets: appending, taking the head, and appending many. *)
LEMMA AppendSet ==
    ASSUME NEW S, NEW s \in Seq(S), NEW x \in S
    PROVE  /\ Append(s, x) \in Seq(S) /\ Io!ToSet(Append(s, x)) = Io!ToSet(s) \cup {x}
           /\ Io!IsInjective(s) /\ x \notin Io!ToSet(s) => Io!IsInjective(Append(s, x))
<1>. DEFINE a == Append(s, x)
            n == Len(s)
<1>1. n \in Nat /\ DOMAIN s = 1 .. n
    OBVIOUS
<1>2. a \in Seq(S) /\ Len(a) = n + 1 /\ DOMAIN a = 1 .. n + 1
    BY <1>1, AppendProperties
<1>3. \A i \in 1 .. n : a[i] = s[i]
    BY AppendProperties
<1>4. a[n + 1] = x
    BY AppendProperties
<1>. HIDE DEF a, n
<1>5. 1 .. n + 1 = (1 .. n) \cup {n + 1} /\ n + 1 \notin 1 .. n
    BY <1>1
<1>6. Io!ToSet(a) = Io!ToSet(s) \cup {x}
    BY <1>1, <1>2, <1>3, <1>4, <1>5 DEF Io!ToSet
<1>7. ASSUME Io!IsInjective(s), x \notin Io!ToSet(s) PROVE Io!IsInjective(a)
    <2>1. \A i, j \in 1 .. n : s[i] = s[j] => i = j
        BY <1>1, <1>7 DEF Io!IsInjective
    <2>2. \A i \in 1 .. n : s[i] # x
        BY <1>1, <1>7 DEF Io!ToSet
    <2>. QED
        BY <1>2, <1>3, <1>4, <1>5, <2>1, <2>2 DEF Io!IsInjective
<1>. QED
    BY <1>2, <1>6, <1>7 DEF a

LEMMA TailSet ==
    ASSUME NEW S, NEW s \in Seq(S), s # <<>>
    PROVE  /\ Head(s) \in S /\ Tail(s) \in Seq(S)
           /\ Io!ToSet(s) = Io!ToSet(Tail(s)) \cup {Head(s)}
           /\ Io!IsInjective(s) => Io!IsInjective(Tail(s)) /\ Head(s) \notin Io!ToSet(Tail(s))
<1>. DEFINE t == Tail(s)
            n == Len(s)
<1>1. n \in Nat /\ n > 0 /\ DOMAIN s = 1 .. n
    BY EmptySeq
<1>2. Head(s) = s[1] /\ Head(s) \in S /\ t \in Seq(S) /\ Len(t) = n - 1
    BY HeadTailProperties
<1>3. DOMAIN t = 1 .. n - 1 /\ \A i \in 1 .. n - 1 : t[i] = s[i + 1]
    BY <1>2, HeadTailProperties
<1>. HIDE DEF t, n
<1>4. \A i \in 1 .. n : i = 1 \/ (i - 1 \in 1 .. n - 1 /\ (i - 1) + 1 = i)
    BY <1>1
<1>5. \A i \in 1 .. n - 1 : i + 1 \in 1 .. n /\ i + 1 # 1
    BY <1>1
<1>6. 1 \in 1 .. n
    BY <1>1
<1>7. Io!ToSet(s) = Io!ToSet(t) \cup {Head(s)}
    <2>1. \A i \in 1 .. n : s[i] = s[1] \/ \E j \in 1 .. n - 1 : s[i] = t[j]
        BY <1>3, <1>4
    <2>2. \A j \in 1 .. n - 1 : \E i \in 1 .. n : t[j] = s[i]
        BY <1>3, <1>5
    <2>3. \A x \in Io!ToSet(s) : x = Head(s) \/ x \in Io!ToSet(t)
        <3>1. \A j \in 1 .. n - 1 : t[j] \in Io!ToSet(t)
            BY <1>3 DEF Io!ToSet
        <3>2. \A i \in 1 .. n : s[i] = Head(s) \/ s[i] \in Io!ToSet(t)
            BY <1>2, <2>1, <3>1
        <3>. QED
            BY <1>1, <3>2 DEF Io!ToSet
    <2>4. \A x \in Io!ToSet(t) : x \in Io!ToSet(s)
        BY <1>1, <1>3, <2>2 DEF Io!ToSet
    <2>5. Head(s) \in Io!ToSet(s)
        BY <1>1, <1>2, <1>6 DEF Io!ToSet
    <2>. QED
        BY <2>3, <2>4, <2>5
<1>8. ASSUME Io!IsInjective(s) PROVE Io!IsInjective(t) /\ Head(s) \notin Io!ToSet(t)
    <2>1. \A i, j \in 1 .. n : s[i] = s[j] => i = j
        BY <1>1, <1>8 DEF Io!IsInjective
    <2>2. \A i, j \in 1 .. n - 1 : t[i] = t[j] => i + 1 = j + 1
        BY <1>3, <1>5, <2>1
    <2>3. \A i \in 1 .. n - 1 : t[i] # s[1]
        BY <1>3, <1>5, <1>6, <2>1
    <2>. QED
        BY <1>1, <1>2, <1>3, <2>2, <2>3 DEF Io!IsInjective, Io!ToSet
<1>. QED
    BY <1>2, <1>7, <1>8 DEF t

LEMMA ConcatSet ==
    ASSUME NEW S, NEW s \in Seq(S), NEW t \in Seq(S)
    PROVE  /\ s \o t \in Seq(S) /\ Io!ToSet(s \o t) = Io!ToSet(s) \cup Io!ToSet(t)
           /\ Io!IsInjective(s) /\ Io!IsInjective(t) /\ Io!ToSet(s) \cap Io!ToSet(t) = {}
                => Io!IsInjective(s \o t)
<1>. DEFINE c == s \o t
            m == Len(s)
            n == Len(t)
<1>1. m \in Nat /\ n \in Nat /\ DOMAIN s = 1 .. m /\ DOMAIN t = 1 .. n
    OBVIOUS
<1>2. c \in Seq(S) /\ DOMAIN c = 1 .. m + n
    BY <1>1, ConcatProperties
<1>3. \A i \in 1 .. m + n : c[i] = IF i <= m THEN s[i] ELSE t[i - m]
    BY <1>1, ConcatProperties
<1>. HIDE DEF c, m, n
<1>4. \A i \in 1 .. m : i \in 1 .. m + n /\ c[i] = s[i]
    BY <1>1, <1>3
<1>5. \A i \in 1 .. n : m + i \in 1 .. m + n /\ c[m + i] = t[i]
    BY <1>1, <1>3
<1>6. \A i \in 1 .. m + n : i \in 1 .. m \/ \E j \in 1 .. n : i = m + j
    <2>. TAKE i \in 1 .. m + n
    <2>1. CASE i > m
        BY <1>1, <2>1, i - m \in 1 .. n, i = m + (i - m)
    <2>. QED
        BY <1>1, <2>1
<1>7. Io!ToSet(c) = Io!ToSet(s) \cup Io!ToSet(t)
    <2>1. \A i \in 1 .. m + n : (\E j \in 1 .. m : c[i] = s[j]) \/ (\E j \in 1 .. n : c[i] = t[j])
        BY <1>4, <1>5, <1>6
    <2>2. \A x \in Io!ToSet(c) : x \in Io!ToSet(s) \/ x \in Io!ToSet(t)
        BY <1>1, <1>2, <2>1 DEF Io!ToSet
    <2>3. \A x \in Io!ToSet(s) : x \in Io!ToSet(c)
        BY <1>1, <1>2, <1>4 DEF Io!ToSet
    <2>4. \A x \in Io!ToSet(t) : x \in Io!ToSet(c)
        BY <1>1, <1>2, <1>5 DEF Io!ToSet
    <2>. QED
        BY <2>2, <2>3, <2>4
<1>8. ASSUME Io!IsInjective(s), Io!IsInjective(t), Io!ToSet(s) \cap Io!ToSet(t) = {}
      PROVE  Io!IsInjective(c)
    <2>1. \A i, j \in 1 .. m : s[i] = s[j] => i = j
        BY <1>1, <1>8 DEF Io!IsInjective
    <2>2. \A i, j \in 1 .. n : t[i] = t[j] => i = j
        BY <1>1, <1>8 DEF Io!IsInjective
    <2>3. \A i \in 1 .. m, j \in 1 .. n : s[i] # t[j]
        BY <1>1, <1>8 DEF Io!ToSet
    <2>4. \A i, j \in 1 .. m + n : c[i] = c[j] => i = j
        BY <1>4, <1>5, <1>6, <2>1, <2>2, <2>3
    <2>. QED
        BY <1>2, <2>4 DEF Io!IsInjective
<1>. QED
    BY <1>2, <1>7, <1>8 DEF c

(* SetToSeq lists a finite set, every element once. *)
LEMMA ListSet ==
    ASSUME NEW S, NEW T \in SUBSET S, IsFiniteSet(T)
    PROVE  /\ Io!SetToSeq(T) \in Seq(S) /\ Io!ToSet(Io!SetToSeq(T)) = T
           /\ Io!IsInjective(Io!SetToSeq(T))
<1>. DEFINE n == Cardinality(T)
            s == Io!SetToSeq(T)
<1>1. n \in Nat /\ ExistsBijection(1 .. n, T)
    BY FS_CardinalityType
<1>2. \E f \in [1 .. n -> T] : Io!IsInjective(f)
    BY <1>1 DEF ExistsBijection, Bijection, Injection, IsInjective, Io!IsInjective
<1>3. s \in [1 .. n -> T] /\ Io!IsInjective(s)
    <2>1. Io!Cardinality(T) = Cardinality(T)
        BY DEF Io!Cardinality, Cardinality
    <2>2. s = CHOOSE f \in [1 .. n -> T] : Io!IsInjective(f)
        BY <2>1 DEF Io!SetToSeq
    <2>. QED
        BY <1>2, <2>2
<1>4. s \in Seq(S)
    BY <1>1, <1>3
<1>. HIDE DEF s
<1>5. s \in Injection(1 .. n, T)
    BY <1>3 DEF Injection, IsInjective, Io!IsInjective
<1>6. IsFiniteSet(1 .. n) /\ Cardinality(1 .. n) = n
    BY <1>1, FS_Interval
<1>7. s \in Surjection(1 .. n, T)
    BY <1>5, <1>6, FS_Injection
<1>8. Io!ToSet(s) = T
    BY <1>3, <1>7 DEF Surjection, Io!ToSet
<1>. QED
    BY <1>3, <1>4, <1>8 DEF s

(* A set of numbers that is not empty has a least one. *)
LEMMA MinIn == ASSUME NEW S \in SUBSET Nat, S # {} PROVE Io!Min(S) \in S
<1>. DEFINE R == OpToRel(<, Nat)
<1>1. \E x \in S : \A y \in S : <<y, x>> \notin R
    <2>1. IsWellFoundedOn(R, Nat)
        BY NatLessThanWellFounded
    <2>. HIDE DEF R
    <2>. QED
        BY <2>1, WFMin
<1>2. \A x, y \in S : <<y, x>> \notin R => x <= y
    BY DEF OpToRel
<1>3. \E x \in S : \A y \in S : x <= y
    BY <1>1, <1>2
<1>. QED
    BY <1>3 DEF Io!Min

(* Operations that only move, or do not even that. *)
LEMMA Moved ==
    ASSUME Numbered, OnHandle, Posted' = Posted, UNCHANGED <<fdTable, ops, closed, called>>
    PROVE  Numbered' /\ OnHandle'
BY DEF Numbered, OnHandle, Io!Used

LEMMA StdioUsed == ASSUME Table PROVE Io!Stdio \subseteq Io!Used /\ Io!Stdio \subseteq Io!Slots
<1>1. Io!Stdio \subseteq Io!Slots
    BY Win32IoAssumption DEF Io!Stdio, Io!Slots
<1>2. \A fd \in Io!Stdio : fdTable[fd].type # "FD_UNUSED"
    BY DEF Table
<1>3. Io!Unused.type = "FD_UNUSED"
    BY DEF Io!Unused
<1>. QED
    BY <1>1, <1>2, <1>3 DEF Io!Used

LEMMA IoInit == Io!Init => IoInv
<1>. SUFFICES ASSUME Io!Init PROVE IoInv
    OBVIOUS
<1>1. /\ fdTable = [fd \in Io!Slots |-> IF fd \in Io!Stdio THEN [type |-> "FD_PIPE_SYNC", handle |-> 0]
                                        ELSE Io!Unused]
      /\ handles = {} /\ connected = {} /\ pending = {} /\ ioPort = <<>> /\ stdinPort = <<>>
      /\ stdinThread \in {"none", "waiting"} /\ stdinOp = Io!NoOp
      /\ ops = 0 /\ closed = {} /\ called = {}
    BY DEF Io!Init
<1>2. Table
    <2>1. Io!Stdio \subseteq Io!Slots
        BY Win32IoAssumption DEF Io!Stdio, Io!Slots
    <2>2. fdTable \in [Io!Slots -> TableEntries]
        BY <1>1 DEF TableEntries, Io!Unused
    <2>3. Io!Used \ Io!Stdio = {}
        BY <1>1 DEF Io!Used
    <2>. QED
        BY <1>1, <2>1, <2>2, <2>3 DEF Table
<1>3. Io!ToSet(<<>>) = {} /\ Io!IsInjective(<<>>)
    BY DEF Io!ToSet, Io!IsInjective
<1>4. Posted = {} /\ Busy = {}
    BY <1>1, <1>3 DEF Posted, Busy
<1>5. Io!NoOp \in Io!Ops
    BY Win32IoAssumption DEF Io!NoOp, Io!Ops, Io!Slots
<1>6. Apart
    BY <1>1, <1>3, <1>4, <1>5, FS_EmptySet DEF Apart
<1>7. Numbered /\ OnHandle
    BY <1>1, <1>4, Win32IoAssumption DEF Numbered, OnHandle
<1>. QED
    BY <1>2, <1>6, <1>7 DEF IoInv

(* A descriptor that Win32NewDescriptor finds is not in use. *)
LEMMA DescriptorFree ==
    ASSUME Table, NEW h \in Handles, NEW fd \in Io!Win32NewDescriptor(h)
    PROVE  fd \in Io!Slots \ Io!Used
<1>1. h \in Nat \ {0} /\ OpenMax \in Nat
    BY Win32IoAssumption
<1>2. CASE h < OpenMax /\ h \notin Io!Used
    BY <1>1, <1>2 DEF Io!Win32NewDescriptor, Io!Slots
<1>3. CASE ~(h < OpenMax /\ h \notin Io!Used)
    <2>. DEFINE free == (1 .. OpenMax - 1) \ Io!Used
    <2>1. free # {} /\ fd = Io!Min(free)
        BY <1>3 DEF Io!Win32NewDescriptor
    <2>2. free \in SUBSET Nat
        BY <1>1
    <2>. HIDE DEF free
    <2>3. fd \in free
        BY <2>1, <2>2, MinIn
    <2>. QED
        BY <1>1, <2>3 DEF free, Io!Slots
<1>. QED
    BY <1>2, <1>3

(* A handle that was not open gets a descriptor that was not in use: no    *)
(* operation that has not been closed is on that descriptor.               *)
LEMMA NewHandleInv ==
    ASSUME IoInv, NEW type \in {"FD_PIPE_ASYNC", "FD_SOCKET_ASYNC"}, NEW peers \in BOOLEAN,
           Io!NewHandle(type, peers)
    PROVE  IoInv'
<1>1. /\ UNCHANGED <<pending, ioPort, stdinPort, stdinThread, stdinOp, ops, closed, called>>
      /\ Posted' = Posted /\ Busy' = Busy
    BY DEF Io!NewHandle, Io!stdinVars, Io!opVars, Posted, Busy
<1>2. Apart' /\ Numbered'
    BY <1>1 DEF IoInv, Apart, Numbered
<1>3. CASE UNCHANGED Io!table
    BY <1>1, <1>2, <1>3 DEF IoInv, Table, OnHandle, Io!Used, Io!table
<1>4. ASSUME NEW h \in Handles \ handles, NEW fd \in Io!Win32NewDescriptor(h),
             fdTable' = [fdTable EXCEPT ![fd] = [type |-> type, handle |-> h]],
             handles' = handles \cup {h},
             connected' = connected \cup (IF peers THEN {h} ELSE {})
      PROVE  Table' /\ OnHandle'
    <2>1. Table /\ OnHandle /\ fdTable \in [Io!Slots -> TableEntries]
        BY DEF IoInv, Table
    <2>2. fd \in Io!Slots \ Io!Used
        BY <2>1, DescriptorFree
    <2>3. fd \notin Io!Stdio
        BY <2>1, <2>2, StdioUsed
    <2>4. /\ fdTable' \in [Io!Slots -> TableEntries] /\ fdTable'[fd] = [type |-> type, handle |-> h]
          /\ \A g \in Io!Slots \ {fd} : fdTable'[g] = fdTable[g]
        BY <1>4, <2>1, <2>2 DEF TableEntries
    <2>5. fdTable'[fd] # Io!Unused /\ fdTable'[fd].handle = h
        BY <2>4 DEF Io!Unused
    <2>6. Io!Used' = Io!Used \cup {fd}
        BY <2>2, <2>4, <2>5 DEF Io!Used
    <2>7. \A g \in Io!Used : fdTable'[g] = fdTable[g]
        BY <2>2, <2>4 DEF Io!Used
    <2>8. OnHandle'
        BY <1>1, <2>1, <2>6, <2>7 DEF OnHandle
    <2>9. \A f, g \in Io!Used' \ Io!Stdio : fdTable'[f].handle = fdTable'[g].handle => f = g
        BY <2>1, <2>5, <2>6, <2>7 DEF Table
    <2>10. \A g \in Io!Stdio : fdTable'[g] = [type |-> "FD_PIPE_SYNC", handle |-> 0]
        BY <2>1, <2>7, StdioUsed DEF Table
    <2>11. \A g \in Io!Used' \ Io!Stdio : fdTable'[g].handle \in handles'
        BY <1>4, <2>1, <2>5, <2>6, <2>7 DEF Table
    <2>12. connected' \subseteq handles' /\ handles' \subseteq Handles
        BY <1>4, <2>1 DEF Table
    <2>. QED
        BY <2>4, <2>8, <2>9, <2>10, <2>11, <2>12 DEF Table
<1>. QED
    BY <1>2, <1>3, <1>4 DEF Io!NewHandle, IoInv

(* A new operation has the next number. *)
LEMMA Added ==
    ASSUME Numbered, OnHandle, ops < MaxOps, ops' = ops + 1, NEW op, op.no = ops + 1,
           op.fd \in Io!Used, fdTable[op.fd].handle = op.handle,
           Posted' = Posted \cup {op}, UNCHANGED <<fdTable, closed, called>>
    PROVE  op \notin Posted /\ Numbered' /\ OnHandle'
<1>1. /\ ops \in Nat /\ ops' \in 0 .. MaxOps /\ closed \subseteq 1 .. ops'
      /\ 1 .. ops' = (1 .. ops) \cup {op.no} /\ op.no \notin 1 .. ops
    BY Win32IoAssumption DEF Numbered
<1>2. \A o \in Posted : o.no \in 1 .. ops
    BY DEF Numbered
<1>3. called \subseteq 1 .. ops
    BY DEF Numbered
<1>4. op \notin Posted
    BY <1>1, <1>2
<1>5. \A o, p \in Posted' : o.no = p.no => o = p
    BY <1>1, <1>2 DEF Numbered
<1>6. {o.no : o \in Posted'} = {o.no : o \in Posted} \cup {op.no}
    OBVIOUS
<1>7. Numbered'
    BY <1>1, <1>3, <1>5, <1>6 DEF Numbered
<1>8. OnHandle'
    BY DEF OnHandle, Io!Used
<1>. QED
    BY <1>4, <1>7, <1>8

LEMMA NewOpType ==
    ASSUME Table, ops \in Nat, ops < MaxOps, NEW fd \in Io!Used
    PROVE  /\ Io!NewOp(fd) \in Io!Ops /\ Io!NewOp(fd).no = ops + 1
           /\ Io!NewOp(fd).fd = fd /\ Io!NewOp(fd).handle = fdTable[fd].handle
<1>1. fd \in Io!Slots /\ fdTable[fd].handle \in Handles \cup {0}
    BY DEF Table, TableEntries, Io!Used
<1>2. ops + 1 \in 0 .. MaxOps
    BY Win32IoAssumption
<1>. QED
    BY <1>1, <1>2 DEF Io!NewOp, Io!Ops

LEMMA AsyncInv == ASSUME IoInv, Io!Async PROVE IoInv'
<1>1. PICK fd \in Io!Used \ Io!Stdio : Io!Issue(Io!NewOp(fd))
    BY DEF Io!Async
<1>2. SUFFICES ASSUME NEW op, op = Io!NewOp(fd) PROVE IoInv'
    OBVIOUS
<1>3. /\ ops < MaxOps /\ ops' = ops + 1
      /\ UNCHANGED <<fdTable, handles, connected, stdinPort, stdinThread, stdinOp, closed, called>>
    BY DEF Io!Async, Io!table, Io!stdinVars
<1>4. Table /\ Apart /\ Numbered /\ OnHandle /\ ops \in Nat /\ Busy' = Busy
    BY <1>3 DEF IoInv, Numbered, Busy
<1>5. op \in Io!Ops /\ op.no = ops + 1 /\ op.fd = fd /\ op.handle = fdTable[fd].handle
    BY <1>2, <1>3, <1>4, NewOpType
<1>6. ioPort \in Seq(Io!Ops) /\ Io!IsInjective(ioPort) /\ IsFiniteSet(pending)
    BY <1>4 DEF Apart
<1>7. \/ pending' = pending \cup {op} /\ ioPort' = ioPort
      \/ ioPort' = Append(ioPort, op) /\ pending' = pending
    BY <1>1, <1>2 DEF Io!Issue
<1>8. /\ ioPort' \in Seq(Io!Ops) /\ IsFiniteSet(pending')
      /\ op \notin Io!ToSet(ioPort) => Io!IsInjective(ioPort')
      /\ \/ pending' = pending \cup {op} /\ Io!ToSet(ioPort') = Io!ToSet(ioPort)
         \/ Io!ToSet(ioPort') = Io!ToSet(ioPort) \cup {op} /\ pending' = pending
    <2>1. CASE pending' = pending \cup {op} /\ ioPort' = ioPort
        <3>1. IsFiniteSet(pending')
            BY <1>6, <2>1, FS_AddElement
        <3>. QED
            BY <1>6, <2>1, <3>1
    <2>2. CASE ioPort' = Append(ioPort, op) /\ pending' = pending
        <3>1. /\ ioPort' \in Seq(Io!Ops) /\ Io!ToSet(ioPort') = Io!ToSet(ioPort) \cup {op}
              /\ op \notin Io!ToSet(ioPort) => Io!IsInjective(ioPort')
            BY <1>5, <1>6, <2>2, AppendSet
        <3>. QED
            BY <1>6, <2>2, <3>1
    <2>. QED
        BY <1>7, <2>1, <2>2
<1>9. Posted' = Posted \cup {op}
    BY <1>3, <1>4, <1>8 DEF Posted
<1>10. op \notin Posted /\ Numbered' /\ OnHandle'
    BY <1>3, <1>4, <1>5, <1>9, Added
<1>11. Apart'
    BY <1>3, <1>4, <1>5, <1>8, <1>10 DEF Apart, Posted
<1>12. Table'
    BY <1>3, <1>4 DEF Table, Io!Used
<1>. QED
    BY <1>10, <1>11, <1>12 DEF IoInv

LEMMA AsyncStdinInv == ASSUME IoInv, Io!OS_AsyncReadStdin PROVE IoInv'
<1>1. SUFFICES ASSUME NEW op, op = Io!NewOp(0) PROVE IoInv'
    OBVIOUS
<1>2. /\ ops < MaxOps /\ ops' = ops + 1 /\ stdinPort' = Append(stdinPort, op)
      /\ UNCHANGED <<fdTable, handles, connected, pending, ioPort, stdinThread, stdinOp, closed, called>>
    BY <1>1 DEF Io!OS_AsyncReadStdin, Io!table
<1>3. Table /\ Apart /\ Numbered /\ OnHandle /\ ops \in Nat /\ Busy' = Busy
    BY <1>2 DEF IoInv, Numbered, Busy
<1>4. 0 \in Io!Used
    BY <1>3, StdioUsed DEF Io!Stdio
<1>5. op \in Io!Ops /\ op.no = ops + 1 /\ op.fd = 0 /\ op.handle = fdTable[0].handle
    BY <1>1, <1>2, <1>3, <1>4, NewOpType
<1>6. stdinPort \in Seq(Io!Ops) /\ Io!IsInjective(stdinPort)
    BY <1>3 DEF Apart
<1>7. /\ stdinPort' \in Seq(Io!Ops) /\ Io!ToSet(stdinPort') = Io!ToSet(stdinPort) \cup {op}
      /\ op \notin Io!ToSet(stdinPort) => Io!IsInjective(stdinPort')
    BY <1>2, <1>5, <1>6, AppendSet
<1>8. Posted' = Posted \cup {op}
    BY <1>2, <1>3, <1>7 DEF Posted
<1>9. op \notin Posted /\ Numbered' /\ OnHandle'
    BY <1>2, <1>3, <1>4, <1>5, <1>8, Added
<1>10. Apart'
    BY <1>2, <1>3, <1>5, <1>7, <1>9 DEF Apart, Posted
<1>11. Table'
    BY <1>2, <1>3 DEF Table, Io!Used
<1>. QED
    BY <1>9, <1>10, <1>11 DEF IoInv

LEMMA CompleteInv == ASSUME IoInv, Io!Complete PROVE IoInv'
<1>1. PICK op \in pending : pending' = pending \ {op} /\ ioPort' = Append(ioPort, op)
    BY DEF Io!Complete
<1>2. UNCHANGED <<fdTable, handles, connected, stdinPort, stdinThread, stdinOp, ops, closed, called>>
    BY DEF Io!Complete, Io!table, Io!stdinVars, Io!opVars
<1>3. Table /\ Apart /\ Numbered /\ OnHandle /\ Busy' = Busy
    BY <1>2 DEF IoInv, Busy
<1>4. /\ ioPort \in Seq(Io!Ops) /\ Io!IsInjective(ioPort) /\ IsFiniteSet(pending)
      /\ op \in Io!Ops /\ op \notin Io!ToSet(ioPort)
    BY <1>3 DEF Apart
<1>5. /\ ioPort' \in Seq(Io!Ops) /\ Io!ToSet(ioPort') = Io!ToSet(ioPort) \cup {op}
      /\ Io!IsInjective(ioPort')
    BY <1>1, <1>4, AppendSet
<1>6. IsFiniteSet(pending')
    BY <1>1, <1>4, FS_RemoveElement
<1>7. Posted' = Posted
    BY <1>1, <1>2, <1>3, <1>5 DEF Posted
<1>8. Numbered' /\ OnHandle'
    BY <1>2, <1>3, <1>7, Moved
<1>9. Apart'
    BY <1>1, <1>2, <1>3, <1>5, <1>6 DEF Apart
<1>10. Table'
    BY <1>2, <1>3 DEF Table, Io!Used
<1>. QED
    BY <1>8, <1>9, <1>10 DEF IoInv

LEMMA CloseInv == ASSUME IoInv, Io!OS_Close PROVE IoInv'
<1>1. PICK fd \in Io!Used \ Io!Stdio :
         /\ \/ /\ handles' = handles \ {fdTable[fd].handle}
               /\ connected' = connected \ {fdTable[fd].handle}
               /\ pending' = {op \in pending : op.handle # fdTable[fd].handle}
               /\ ioPort' = ioPort \o Io!SetToSeq(pending \ pending')
            \/ UNCHANGED <<handles, connected, pending, ioPort>>
         /\ fdTable' = [fdTable EXCEPT ![fd] = Io!Unused]
         /\ closed' = closed \cup {op.no : op \in {o \in pending \cup Io!ToSet(ioPort) : o.fd = fd}}
    BY DEF Io!OS_Close, Io!Win32FreeDescriptor
<1>2. UNCHANGED <<stdinPort, stdinThread, stdinOp, ops, called>>
    BY DEF Io!OS_Close, Io!stdinVars
<1>3. Table /\ Apart /\ Numbered /\ OnHandle /\ Busy' = Busy
    BY <1>2 DEF IoInv, Busy
<1>4. /\ fd \in Io!Slots /\ fdTable \in [Io!Slots -> TableEntries] /\ Io!Unused \in TableEntries
    BY <1>3 DEF Table, Io!Used, Io!Unused, TableEntries
<1>5. fdTable' \in [Io!Slots -> TableEntries] /\ \A g \in Io!Slots \ {fd} : fdTable'[g] = fdTable[g]
    BY <1>1, <1>4
<1>6. Io!Used' = Io!Used \ {fd}
    BY <1>1, <1>4, <1>5 DEF Io!Used
<1>7. Table'
    <2>1. \A g \in Io!Used' : fdTable'[g] = fdTable[g]
        BY <1>5, <1>6 DEF Io!Used
    <2>2. \A g \in Io!Stdio : fdTable'[g] = fdTable[g]
        BY <1>1, <1>3, <1>5, StdioUsed
    <2>3. \A g \in Io!Used' \ Io!Stdio : fdTable[g].handle # fdTable[fd].handle
        BY <1>1, <1>3, <1>6 DEF Table
    <2>4. \A g \in Io!Used' \ Io!Stdio : fdTable'[g].handle \in handles'
        BY <1>1, <1>3, <1>6, <2>1, <2>3 DEF Table
    <2>5. connected' \subseteq handles' /\ handles' \subseteq Handles
        BY <1>1, <1>3 DEF Table
    <2>. QED
        BY <1>3, <1>5, <1>6, <2>1, <2>2, <2>4, <2>5 DEF Table
<1>8. /\ pending \subseteq Io!Ops /\ ioPort \in Seq(Io!Ops) /\ Io!IsInjective(ioPort)
      /\ IsFiniteSet(pending) /\ pending \cap Io!ToSet(ioPort) = {}
    BY <1>3 DEF Apart
<1>9. /\ pending' \subseteq pending /\ IsFiniteSet(pending')
      /\ ioPort' \in Seq(Io!Ops) /\ Io!IsInjective(ioPort')
      /\ Io!ToSet(ioPort') = Io!ToSet(ioPort) \cup (pending \ pending')
    <2>1. CASE UNCHANGED <<pending, ioPort>>
        BY <1>8, <2>1
    <2>2. CASE /\ pending' = {op \in pending : op.handle # fdTable[fd].handle}
               /\ ioPort' = ioPort \o Io!SetToSeq(pending \ pending')
        <3>1. SUFFICES ASSUME NEW ended, ended = pending \ pending' PROVE
                 /\ pending' \subseteq pending /\ IsFiniteSet(pending')
                 /\ ioPort' \in Seq(Io!Ops) /\ Io!IsInjective(ioPort')
                 /\ Io!ToSet(ioPort') = Io!ToSet(ioPort) \cup (pending \ pending')
            OBVIOUS
        <3>2. pending' \in SUBSET pending /\ ended \in SUBSET pending /\ ended \in SUBSET Io!Ops
            BY <1>8, <2>2, <3>1
        <3>3. IsFiniteSet(pending') /\ IsFiniteSet(ended)
            BY <1>8, <3>2, FS_Subset
        <3>4. /\ Io!SetToSeq(ended) \in Seq(Io!Ops) /\ Io!ToSet(Io!SetToSeq(ended)) = ended
              /\ Io!IsInjective(Io!SetToSeq(ended))
            BY <3>2, <3>3, ListSet
        <3>5. ioPort' = ioPort \o Io!SetToSeq(ended) /\ Io!ToSet(ioPort) \cap ended = {}
            BY <1>8, <2>2, <3>1, <3>2
        <3>6. /\ ioPort' \in Seq(Io!Ops) /\ Io!ToSet(ioPort') = Io!ToSet(ioPort) \cup ended
              /\ Io!IsInjective(ioPort')
            BY <1>8, <3>4, <3>5, ConcatSet
        <3>. QED
            BY <3>1, <3>2, <3>3, <3>6
    <2>. QED
        BY <1>1, <2>1, <2>2
<1>10. Posted' = Posted
    BY <1>2, <1>3, <1>9 DEF Posted
<1>11. Apart'
    BY <1>2, <1>3, <1>9 DEF Apart
<1>12. closed \subseteq closed' /\ closed' \subseteq 1 .. ops
    BY <1>1, <1>3 DEF Numbered, Posted
<1>13. Numbered'
    BY <1>2, <1>3, <1>10, <1>12 DEF Numbered
<1>14. OnHandle'
    <2>. SUFFICES ASSUME NEW op \in Posted, op.no \notin closed'
                  PROVE  op.fd \in Io!Used' /\ fdTable'[op.fd].handle = op.handle
        BY <1>10 DEF OnHandle
    <2>1. op.fd \in Io!Used /\ fdTable[op.fd].handle = op.handle
        BY <1>3, <1>12 DEF OnHandle
    <2>2. op.fd # fd
        <3>1. CASE op \in pending \cup Io!ToSet(ioPort)
            BY <1>1, <3>1
        <3>2. CASE op \in Io!ToSet(stdinPort) \cup Busy
            BY <1>1, <1>3, <3>2 DEF Apart, Io!Stdio
        <3>. QED
            BY <3>1, <3>2 DEF Posted
    <2>. QED
        BY <1>5, <1>6, <2>1, <2>2 DEF Io!Used
<1>. QED
    BY <1>7, <1>11, <1>13, <1>14 DEF IoInv

(* The thread of standard input. *)
LEMMA StdinThreadInv == ASSUME IoInv, Io!StdinThread PROVE IoInv'
<1>1. UNCHANGED <<fdTable, handles, connected, pending, ops, closed, called>>
    BY DEF Io!StdinThread, Io!StdinTake, Io!StdinRead, Io!StdinFails, Io!table, Io!opVars
<1>2. Table /\ Apart /\ Numbered /\ OnHandle
    BY DEF IoInv
<1>3. Table'
    BY <1>1, <1>2 DEF Table, Io!Used
<1>4. Apart' /\ Posted' = Posted
    <2>1. /\ ioPort \in Seq(Io!Ops) /\ Io!IsInjective(ioPort)
          /\ stdinPort \in Seq(Io!Ops) /\ Io!IsInjective(stdinPort) /\ stdinOp \in Io!Ops
        BY <1>2 DEF Apart
    <2>2. CASE Io!StdinTake
        <3>1. /\ stdinThread = "waiting" /\ stdinPort # <<>> /\ stdinThread' = "reading"
              /\ stdinOp' = Head(stdinPort) /\ stdinPort' = Tail(stdinPort) /\ ioPort' = ioPort
            BY <2>2 DEF Io!StdinTake
        <3>2. /\ stdinOp' \in Io!Ops /\ stdinPort' \in Seq(Io!Ops) /\ Io!IsInjective(stdinPort')
              /\ Io!ToSet(stdinPort) = Io!ToSet(stdinPort') \cup {stdinOp'}
              /\ stdinOp' \notin Io!ToSet(stdinPort')
            BY <2>1, <3>1, TailSet
        <3>3. Busy = {}
            BY <1>2, <3>1 DEF Apart, Busy
        <3>4. stdinOp'.no \in 1 .. ops
            BY <1>2, <3>2 DEF Numbered, Posted
        <3>5. stdinOp' # Io!NoOp /\ Busy' = {stdinOp'}
            BY <3>4 DEF Busy, Io!NoOp
        <3>6. Posted' = Posted
            BY <1>1, <3>1, <3>2, <3>3, <3>5 DEF Posted
        <3>7. Apart'
            BY <1>1, <1>2, <3>1, <3>2, <3>3, <3>5 DEF Apart
        <3>. QED
            BY <3>6, <3>7
    <2>3. CASE Io!StdinRead
        <3>1. /\ stdinThread = "reading" /\ stdinThread' = "waiting" /\ stdinPort' = stdinPort
              /\ ioPort' = Append(ioPort, stdinOp) /\ stdinOp' = Io!NoOp
            BY <2>3 DEF Io!StdinRead, Io!StdinNext
        <3>2. Busy = {stdinOp} /\ Busy' = {}
            BY <1>2, <3>1 DEF Apart, Busy
        <3>3. stdinOp \notin Io!ToSet(ioPort)
            BY <1>2, <3>2 DEF Apart
        <3>4. /\ ioPort' \in Seq(Io!Ops) /\ Io!ToSet(ioPort') = Io!ToSet(ioPort) \cup {stdinOp}
              /\ Io!IsInjective(ioPort')
            BY <2>1, <3>1, <3>3, AppendSet
        <3>5. Io!NoOp \in Io!Ops
            BY Win32IoAssumption DEF Io!NoOp, Io!Ops, Io!Slots
        <3>6. Posted' = Posted
            BY <1>1, <3>1, <3>2, <3>4 DEF Posted
        <3>7. Apart'
            BY <1>1, <1>2, <3>1, <3>2, <3>4, <3>5 DEF Apart
        <3>. QED
            BY <3>6, <3>7
    <2>4. CASE Io!StdinFails
        <3>1. UNCHANGED <<ioPort, stdinPort, stdinOp>> /\ stdinThread' = "ended"
            BY <2>4 DEF Io!StdinFails
        <3>. QED
            BY <1>1, <1>2, <3>1 DEF Apart, Posted, Busy
    <2>. QED
        BY <2>2, <2>3, <2>4 DEF Io!StdinThread
<1>5. Numbered' /\ OnHandle'
    BY <1>1, <1>2, <1>4, Moved
<1>. QED
    BY <1>3, <1>4, <1>5 DEF IoInv

LEMMA DoIoInv == ASSUME IoInv, Io!OS_DoIo PROVE IoInv'
<1>1. UNCHANGED <<fdTable, handles, connected, pending, stdinPort, stdinThread, stdinOp, ops, closed>>
    BY DEF Io!OS_DoIo, Io!table, Io!stdinVars, Io!opVars
<1>2. Table /\ Apart /\ Numbered /\ OnHandle /\ Busy' = Busy
    BY <1>1 DEF IoInv, Busy
<1>3. Table'
    BY <1>1, <1>2 DEF Table, Io!Used
<1>4. CASE UNCHANGED <<ioPort, called>>
    <2>1. Posted' = Posted
        BY <1>1, <1>2, <1>4 DEF Posted
    <2>2. Apart'
        BY <1>1, <1>2, <1>4 DEF Apart
    <2>. QED
        BY <1>1, <1>2, <1>3, <1>4, <2>1, <2>2, Moved DEF IoInv
<1>5. ASSUME ioPort # <<>>, ioPort' = Tail(ioPort), called' = called \cup {Head(ioPort).no}
      PROVE  Apart' /\ Numbered' /\ OnHandle'
    <2>1. SUFFICES ASSUME NEW op, op = Head(ioPort) PROVE Apart' /\ Numbered' /\ OnHandle'
        OBVIOUS
    <2>2. ioPort \in Seq(Io!Ops) /\ Io!IsInjective(ioPort)
        BY <1>2 DEF Apart
    <2>3. /\ op \in Io!Ops /\ ioPort' \in Seq(Io!Ops) /\ Io!IsInjective(ioPort')
          /\ Io!ToSet(ioPort) = Io!ToSet(ioPort') \cup {op} /\ op \notin Io!ToSet(ioPort')
        BY <1>5, <2>1, <2>2, TailSet
    <2>4. Apart'
        BY <1>1, <1>2, <2>3 DEF Apart
    <2>5. op \in Posted /\ Posted' = Posted \ {op}
        BY <1>1, <1>2, <2>3 DEF Posted, Apart
    <2>6. called' = called \cup {op.no} /\ op.no \in 1 .. ops
        BY <1>2, <1>5, <2>1, <2>5 DEF Numbered
    <2>7. {o.no : o \in Posted'} = {o.no : o \in Posted} \ {op.no}
        BY <1>2, <2>5 DEF Numbered
    <2>8. Numbered'
        BY <1>1, <1>2, <2>5, <2>6, <2>7 DEF Numbered
    <2>9. OnHandle'
        BY <1>1, <1>2, <2>5 DEF OnHandle, Io!Used
    <2>. QED
        BY <2>4, <2>8, <2>9
<1>. QED
    BY <1>3, <1>4, <1>5 DEF Io!OS_DoIo, Io!opVars, IoInv

LEMMA IoNext == IoInv /\ [Io!Next]_ioVars => IoInv'
<1>. SUFFICES ASSUME IoInv, [Io!Next]_ioVars PROVE IoInv'
    OBVIOUS
<1>1. CASE Io!ConnectPipe \/ Io!ConnectSocket
    BY <1>1, NewHandleInv DEF Io!ConnectPipe, Io!ConnectSocket
<1>2. CASE Io!Async \/ Io!OS_AsyncReadStdin \/ Io!OS_Close
    BY <1>2, AsyncInv, AsyncStdinInv, CloseInv
<1>3. CASE Io!Complete \/ Io!StdinThread \/ Io!OS_DoIo
    BY <1>3, CompleteInv, StdinThreadInv, DoIoInv
<1>4. CASE UNCHANGED ioVars
    BY <1>4 DEF ioVars, IoInv, Table, Apart, Numbered, OnHandle, Posted, Busy, Io!Used
<1>. QED
    BY <1>1, <1>2, <1>3, <1>4 DEF Io!Next, Io!Client
-----------------------------------------------------------------------------
(* Whatever the process is, one part runs and the other stays as it is. *)
LEMMA Invariant == Spec => [](AcceptInv /\ IoInv)
<1>1. Init => AcceptInv /\ IoInv
    BY AcceptInit, IoInit DEF Init
<1>2. AcceptInv /\ IoInv /\ [Next]_vars => (AcceptInv /\ IoInv)'
    <2>. SUFFICES ASSUME AcceptInv, IoInv, [Next]_vars PROVE AcceptInv' /\ IoInv'
        OBVIOUS
    <2>1. [Io!Next]_ioVars /\ [Accept!Next]_acceptVars
        BY DEF Next, Runs, Listens, vars
    <2>. QED
        BY <2>1, AcceptNext, IoNext
<1>. QED
    BY <1>1, <1>2, PTL DEF Spec

(* Types: every operation on a port is one that has been posted, and an    *)
(* application that serves a client has a descriptor for it.               *)
THEOREM Win32TypeCorrect == Spec => []TypeOK
<1>1. IoInv => Io!TypeOK
    <2>. SUFFICES ASSUME IoInv PROVE Io!TypeOK
        OBVIOUS
    <2>1. Table /\ Apart /\ Numbered
        BY DEF IoInv
    <2>2. \A fd \in Io!Slots : fdTable[fd].handle \in Handles \cup {0}
        BY <2>1 DEF Table, TableEntries
    <2>3. \A s \in Seq(Io!Ops) : Io!ToSet(s) \subseteq Io!Ops
        BY DEF Io!ToSet
    <2>. QED
        BY <2>1, <2>2, <2>3 DEF Io!TypeOK, Table, Apart, Numbered
<1>2. AcceptInv => Accept!TypeOK
    BY DEF AcceptInv
<1>. QED
    BY <1>1, <1>2, Invariant, PTL DEF TypeOK

(* OS_Accept behind acceptMutex: never two processes in the accept cycle,  *)
(* although OS_LibShutdown releases the mutex before OS_Accept does, a     *)
(* process may be ended by its shutdown thread anywhere, and ReleaseMutex  *)
(* may be called without owning it.                                        *)
THEOREM OneProcessAccepts == Spec => []OneAccepts
<1>1. AcceptInv => OneAccepts
    <2>. SUFFICES ASSUME AcceptInv, hasMutex
                  PROVE  Accept!Cardinality({p \in Processes : Accept!Accepting(p)}) <= 1
        BY DEF OneAccepts, Accept!OneAccepts
    <2>1. SUFFICES ASSUME NEW S, S = {p \in Processes : Accept!Accepting(p)}
                   PROVE  Accept!Cardinality(S) <= 1
        OBVIOUS
    <2>2. S \in SUBSET {mutex}
        BY <2>1 DEF AcceptInv, HoldsMutex
    <2>3. IsFiniteSet({mutex}) /\ Cardinality({mutex}) = 1
        BY FS_Singleton
    <2>4. Cardinality(S) <= 1
        BY <2>2, <2>3, FS_Subset
    <2>5. Accept!Cardinality(S) = Cardinality(S)
        BY DEF Accept!Cardinality, Cardinality
    <2>. QED
        BY <2>4, <2>5
<1>. QED
    BY <1>1, Invariant, PTL

(* Overlapped operations: each one posted is in one place, with Windows,   *)
(* on a port or with the thread of standard input, until it is called      *)
(* back, and that once, whatever is closed and in whatever order they      *)
(* complete.                                                               *)
THEOREM OperationsInOnePlace == Spec => []OnePlace
<1>1. IoInv => OnePlace
    <2>1. pending \cup Io!ToSet(ioPort) \cup Io!InStdin = Posted
        BY DEF Io!InStdin, Posted, Busy
    <2>. QED
        BY <2>1 DEF IoInv, Apart, Numbered, OnePlace, Io!OnePlace
<1>. QED
    BY <1>1, Invariant, PTL

(* Descriptors: a completion names the handle its operation was posted on  *)
(* as long as OS_Close has not been called for the descriptor, though      *)
(* descriptors and handles are used again; no two share a handle.          *)
THEOREM CompletionsMatch == Spec => []DescriptorsMatch
<1>1. IoInv => DescriptorsMatch
    BY DEF IoInv, Table, OnHandle, Posted, DescriptorsMatch, Io!DescriptorsMatch
<1>. QED
    BY <1>1, Invariant, PTL
-----------------------------------------------------------------------------
(* os_unix.c.  What select has found is ready and its descriptor is open:  *)
(* callbacks that close a descriptor take it out of the posted sets, and   *)
(* without asyncIoInUse nothing is in them.  The two counters never fall   *)
(* short of what they count.                                               *)
UnixInv ==
    /\ UnixTypeOK
    /\ fdSetPost \subseteq ready
    /\ \A i \in fdSet \cup fdSetPost : FdOf(i) \in open
    /\ ~asyncIoInUse => fdSet = {} /\ fdSetPost = {}
    /\ \A k \in Kinds : Count(k, fdSetPost) <= numPosted[k]

(* The entries of the tables are natural numbers, finitely many; one       *)
(* belongs to the descriptor it is an entry of.                            *)
LEMMA UnixEntries ==
    /\ 0 \in Fds /\ Fds \subseteq Nat /\ IsFiniteSet(Entries)
    /\ \A n \in Fds : n - 1 \in Fds \cup {-1}
    /\ Entries \subseteq Nat
    /\ \A fd \in Fds : EntriesOf(fd) \subseteq Entries
    /\ \A i \in Entries : FdOf(i) \in Fds /\ i \in EntriesOf(FdOf(i))
    /\ \A i \in Entries : i % 2 \in Kinds
<1>1. PICK n \in Nat : Fds = 0 .. n
    <2>1. Cardinality(Fds) \in Nat /\ Fds = 0 .. Cardinality(Fds) - 1 /\ Fds # {}
        BY UnixIoAssumption, FS_CardinalityType
    <2>2. Cardinality(Fds) - 1 \in Nat
        BY <2>1
    <2>. QED
        BY <2>1, <2>2
<1>2. \A fd \in Fds, k \in Kinds : /\ 2 * fd + k \in Nat /\ 2 * fd + k <= 2 * n + 1
                                        /\ (2 * fd + k) \div 2 = fd /\ (2 * fd + k) % 2 = k
    BY <1>1 DEF Kinds
<1>8. \A i : i \in Entries <=> \E fd \in Fds, k \in Kinds : i = 2 * fd + k
    BY DEF Entries
<1>3. Entries \subseteq 0 .. 2 * n + 1
    <2>. SUFFICES ASSUME NEW i \in Entries PROVE i \in 0 .. 2 * n + 1
        OBVIOUS
    <2>1. PICK fd \in Fds, k \in Kinds : i = 2 * fd + k
        BY <1>8
    <2>2. i \in Nat /\ i <= 2 * n + 1
        BY <1>2, <2>1
    <2>. QED
        BY <2>2
<1>4. IsFiniteSet(0 .. 2 * n + 1)
    BY FS_Interval
<1>5. IsFiniteSet(Entries)
    BY <1>3, <1>4, FS_Subset
<1>6. ASSUME NEW fd \in Fds PROVE EntriesOf(fd) \subseteq Entries
    <2>1. 0 \in Kinds /\ 1 \in Kinds /\ 2 * fd = 2 * fd + 0
        BY <1>1 DEF Kinds
    <2>2. 2 * fd + 0 \in Entries /\ 2 * fd + 1 \in Entries
        BY <2>1, <1>8
    <2>. QED
        BY <2>1, <2>2 DEF EntriesOf
<1>7. ASSUME NEW i \in Entries
      PROVE  FdOf(i) \in Fds /\ i \in EntriesOf(FdOf(i)) /\ i % 2 \in Kinds
    <2>1. PICK fd \in Fds, k \in Kinds : i = 2 * fd + k
        BY <1>8
    <2>2. FdOf(i) = fd /\ i % 2 = k
        BY <1>2, <2>1 DEF FdOf
    <2>3. i = 2 * fd \/ i = 2 * fd + 1
        BY <2>1, <1>1 DEF Kinds
    <2>. QED
        BY <2>2, <2>3 DEF EntriesOf
<1>. QED
    BY <1>1, <1>3, <1>5, <1>6, <1>7

(* Descriptors, and the limit of the loop, are integers. *)
LEMMA DescriptorsInt ==
    /\ \A fd \in Fds \cup {-1} : fd \in Int
    /\ \A i \in Entries : FdOf(i) \in Int
<1>1. \A fd \in Fds : fd \in Int
    BY UnixEntries
<1>2. \A i \in Entries : FdOf(i) \in Fds
    BY UnixEntries
<1>. QED
    BY <1>1, <1>2

(* The least of some entries is one of them, and so is the greatest. *)
LEMMA UnixMin == ASSUME NEW S \in SUBSET Nat, S # {} PROVE Min(S) \in S
<1>1. \E x \in S : \A y \in S : x <= y
    BY LeastIn
<1>. QED
    BY <1>1 DEF Min

(* Fewer entries are counted as fewer, and one less as one less. *)
LEMMA UnixCount ==
    ASSUME NEW S \in SUBSET Entries, NEW T \in SUBSET S, NEW k
    PROVE  /\ Count(k, S) \in Nat /\ Count(k, T) <= Count(k, S)
           /\ \A i \in S \ T : i % 2 = k => Count(k, T) <= Count(k, S) - 1
<1>. DEFINE A == {i \in S : i % 2 = k}
            B == {i \in T : i % 2 = k}
<1>1. IsFiniteSet(A) /\ B \in SUBSET A
    <2>1. A \in SUBSET Entries
        OBVIOUS
    <2>. QED
        BY <2>1, UnixEntries, FS_Subset
<1>2. Count(k, S) = Cardinality(A) /\ Count(k, T) = Cardinality(B)
    BY DEF Count
<1>. HIDE DEF A, B
<1>3. /\ Cardinality(A) \in Nat /\ Cardinality(B) <= Cardinality(A) /\ IsFiniteSet(B)
      /\ Cardinality(B) \in Nat
    BY <1>1, FS_Subset, FS_CardinalityType
<1>4. ASSUME NEW i \in S \ T, i % 2 = k PROVE Cardinality(B) <= Cardinality(A) - 1
    <2>1. i \in A /\ i \notin B
        BY <1>4 DEF A, B
    <2>2. IsFiniteSet(A \ {i}) /\ Cardinality(A \ {i}) = Cardinality(A) - 1
        BY <1>1, <2>1, FS_RemoveElement
    <2>3. B \in SUBSET (A \ {i})
        BY <1>1, <2>1
    <2>. QED
        BY <2>2, <2>3, FS_Subset
<1>. QED
    BY <1>2, <1>3, <1>4

(* OS_LibInit. *)
LEMMA UnixInitInv == ASSUME UnixInit PROVE UnixInv
<1>1. UnixTypeOK
    BY UnixEntries DEF UnixInit, UnixTypeOK, Kinds
<1>2. fdSet = {} /\ fdSetPost = {} /\ ready = {}
    BY DEF UnixInit
<1>3. ASSUME NEW k \in Kinds PROVE Count(k, fdSetPost) <= numPosted[k]
    <2>1. {i \in {} : i % 2 = k} = {} /\ numPosted[k] = 0
        BY DEF UnixInit
    <2>. QED
        BY <1>2, <2>1, FS_EmptySet DEF Count
<1>. QED
    BY <1>1, <1>2, <1>3 DEF UnixInv

(* A step that leaves what select has found alone. *)
LEMMA UnixQuiet ==
    ASSUME UnixInv, UnixTypeOK', UNCHANGED <<fdSetPost, numPosted>>,
           fdSetPost \cap ready \subseteq ready',
           \A i \in fdSet' \cup fdSetPost : FdOf(i) \in open',
           asyncIoInUse' \/ (~asyncIoInUse /\ fdSet' = fdSet)
    PROVE  UnixInv'
<1>1. fdSetPost' = fdSetPost /\ numPosted' = numPosted
    OBVIOUS
<1>2. \A k \in Kinds : Count(k, fdSetPost') <= numPosted'[k]
    BY <1>1 DEF UnixInv
<1>3. (\A k \in Kinds : Count(k, fdSetPost) <= numPosted[k])'
    BY <1>2 DEF Count
<1>4. fdSetPost' \subseteq ready' /\ \A i \in fdSet' \cup fdSetPost' : FdOf(i) \in open'
    BY <1>1 DEF UnixInv
<1>. QED
    BY <1>1, <1>3, <1>4 DEF UnixInv, FdOf

(* The client, and what arrives for it. *)
LEMMA UnixClientInv ==
    ASSUME UnixInv, Client \/ BecomesReady
    PROVE  UnixInv'
<1>. USE UnixEntries
<1>1. CASE Open
    <2>1. (Fds \ open) \in SUBSET Nat /\ Fds \ open # {}
        BY <1>1 DEF Open, UnixInv, UnixTypeOK
    <2>2. Min(Fds \ open) \in Fds
        BY <2>1, UnixMin
    <2>3. UnixTypeOK'
        BY <1>1, <2>2 DEF Open, UnixInv, UnixTypeOK, tables, posted
    <2>. QED
        BY <1>1, <2>3, UnixQuiet DEF Open, UnixInv, tables, posted
<1>2. CASE BecomesReady
    <2>1. UnixTypeOK'
        BY <1>2 DEF BecomesReady, UnixInv, UnixTypeOK, tables, posted
    <2>. QED
        BY <1>2, <2>1, UnixQuiet DEF BecomesReady, UnixInv, tables, posted
<1>3. ASSUME NEW e \in Entries, Async(e) PROVE UnixInv'
    <2>1. Max({maxFd, FdOf(e)}) \in Fds \cup {-1}
        <3>1. maxFd \in Int /\ FdOf(e) \in Int
            BY DescriptorsInt DEF UnixInv, UnixTypeOK
        <3>2. Max({maxFd, FdOf(e)}) \in {maxFd, FdOf(e)}
            BY <3>1 DEF Max
        <3>. QED
            BY <3>2 DEF UnixInv, UnixTypeOK
    <2>2. UnixTypeOK'
        BY <1>3, <2>1 DEF Async, UnixInv, UnixTypeOK, kernel, posted
    <2>. QED
        BY <1>3, <2>2, UnixQuiet DEF Async, UnixInv, kernel, posted
<1>4. CASE OS_Close
    <2>1. PICK fd \in open :
              /\ open' = open \ {fd} /\ ready' = ready \ EntriesOf(fd)
              /\ \/ /\ asyncIoInUse
                    /\ fdSet' = fdSet \ EntriesOf(fd) /\ inUse' = inUse \ EntriesOf(fd)
                    /\ maxFd' = MaxFdAfter(fd)
                    /\ fdSetPost' = fdSetPost \ EntriesOf(fd) /\ UNCHANGED numPosted
                 \/ ~asyncIoInUse /\ UNCHANGED <<inUse, fdSet, maxFd, fdSetPost, numPosted>>
        BY <1>4 DEF OS_Close, Unpost, posted
    <2>2. fdSetPost \subseteq Entries /\ fdSetPost' \in SUBSET fdSetPost /\ UNCHANGED numPosted
        BY <2>1 DEF UnixInv, UnixTypeOK
    <2>3. UnixTypeOK'
        BY <1>4, <2>1 DEF OS_Close, UnixInv, UnixTypeOK, MaxFdAfter
    <2>4. fdSetPost' \subseteq ready'
        BY <2>1 DEF UnixInv
    <2>5. \A i \in fdSet' \cup fdSetPost' : FdOf(i) \in open'
        BY <2>1 DEF UnixInv, UnixTypeOK
    <2>6. ~asyncIoInUse' => fdSet' = {} /\ fdSetPost' = {}
        BY <1>4, <2>1 DEF OS_Close, UnixInv
    <2>7. \A k \in Kinds : Count(k, fdSetPost') <= numPosted'[k]
        <3>. SUFFICES ASSUME NEW k \in Kinds PROVE Count(k, fdSetPost') <= numPosted'[k]
            OBVIOUS
        <3>1. /\ Count(k, fdSetPost') <= Count(k, fdSetPost)
              /\ Count(k, fdSetPost) \in Nat
            BY <2>2, UnixCount
        <3>2. Count(k, fdSetPost') \in Nat
            <4>1. fdSetPost' \in SUBSET Entries /\ {} \in SUBSET fdSetPost'
                BY <2>2
            <4>. QED
                BY <4>1, UnixCount
        <3>3. Count(k, fdSetPost) <= numPosted[k] /\ numPosted[k] \in Nat
            BY DEF UnixInv, UnixTypeOK
        <3>. QED
            BY <2>2, <3>1, <3>2, <3>3
    <2>. QED
        BY <2>3, <2>4, <2>5, <2>6, <2>7 DEF UnixInv, Count, FdOf
<1>5. CASE OS_CloseRead
    <2>1. PICK fd \in open : /\ ready' = ready \cup {2 * fd} /\ inUse' = inUse \ {2 * fd}
                             /\ fdSet' \subseteq fdSet /\ UNCHANGED fdSetPost
        BY <1>5 DEF OS_CloseRead, posted
    <2>2. 2 * fd \in Entries
        BY DEF EntriesOf, UnixInv, UnixTypeOK
    <2>3. UnixTypeOK'
        BY <1>5, <2>1, <2>2 DEF OS_CloseRead, UnixInv, UnixTypeOK, posted
    <2>4. asyncIoInUse' \/ (~asyncIoInUse /\ fdSet' = fdSet)
        BY <1>5, <2>1 DEF OS_CloseRead, UnixInv
    <2>. QED
        BY <1>5, <2>1, <2>3, <2>4, UnixQuiet DEF OS_CloseRead, UnixInv, posted
<1>. QED
    BY <1>1, <1>2, <1>3, <1>4, <1>5 DEF Client

(* The entry the loop comes to next is one that select has found. *)
LEMMA UnixNextCall ==
    ASSUME UnixInv, ToCall # {}
    PROVE  /\ Min(ToCall) \in fdSetPost \cap inUse
           /\ Min(ToCall) \in Entries
           /\ Min(ToCall) % 2 \in Kinds
<1>1. ToCall \subseteq fdSetPost \cap inUse /\ ToCall \in SUBSET Entries
    BY DEF ToCall, UnixInv, UnixTypeOK
<1>2. ToCall \in SUBSET Nat
    BY <1>1, UnixEntries
<1>3. Min(ToCall) \in ToCall
    BY <1>2, UnixMin
<1>. QED
    BY <1>1, <1>3, UnixEntries

(* OS_DoIo. *)
LEMMA UnixLoopInv == ASSUME UnixInv, OS_DoIo PROVE UnixInv'
<1>1. CASE Select
    <2>1. PICK found : /\ found = {i \in fdSet \cap ready : FdOf(i) <= maxFd}
                       /\ fdSetPost' = fdSetPost \cup found /\ fdSet' = fdSet \ found
                       /\ numPosted' = [k \in Kinds |-> Count(k, found)]
        BY <1>1 DEF Select
    <2>2. found \in SUBSET Entries /\ found \subseteq fdSet /\ found \subseteq ready
        BY <2>1 DEF UnixInv, UnixTypeOK
    <2>3. \A k \in Kinds : Count(k, found) \in Nat
        <3>1. {} \in SUBSET found
            OBVIOUS
        <3>. QED
            BY <2>2, <3>1, UnixCount
    <2>4. fdSetPost = {}
        <3>. SUFFICES ASSUME NEW i \in fdSetPost PROVE FALSE
            OBVIOUS
        <3>1. i \in Entries /\ i % 2 \in Kinds /\ fdSetPost \in SUBSET Entries
            BY UnixEntries DEF UnixInv, UnixTypeOK
        <3>2. {} \in SUBSET fdSetPost /\ i \in fdSetPost \ {}
            OBVIOUS
        <3>3. Count(i % 2, {}) <= Count(i % 2, fdSetPost) - 1
            BY <3>1, <3>2, UnixCount
        <3>4. Count(i % 2, {}) \in Nat /\ Count(i % 2, fdSetPost) \in Nat
            BY <3>1, <3>2, UnixCount
        <3>5. Count(i % 2, fdSetPost) <= numPosted[i % 2] /\ numPosted[i % 2] = 0
            BY <1>1, <3>1 DEF UnixInv, Select, NothingPosted
        <3>. QED
            BY <3>3, <3>4, <3>5
    <2>5. fdSetPost' = found
        BY <2>1, <2>4
    <2>6. UnixTypeOK'
        BY <1>1, <2>1, <2>2, <2>3, <2>5 DEF Select, UnixInv, UnixTypeOK, kernel
    <2>7. \A k \in Kinds : Count(k, fdSetPost') <= numPosted'[k]
        <3>. SUFFICES ASSUME NEW k \in Kinds PROVE Count(k, fdSetPost') <= numPosted'[k]
            OBVIOUS
        <3>1. Count(k, fdSetPost') = numPosted'[k] /\ numPosted'[k] \in Nat
            BY <2>1, <2>3, <2>5
        <3>. QED
            BY <3>1
    <2>8. /\ fdSetPost' \subseteq ready' /\ asyncIoInUse'
          /\ \A i \in fdSet' \cup fdSetPost' : FdOf(i) \in open'
        BY <1>1, <2>1, <2>2, <2>5 DEF Select, UnixInv, kernel
    <2>. QED
        BY <2>6, <2>7, <2>8 DEF UnixInv, Count, FdOf
<1>2. CASE Resume \/ Return
    <2>1. UnixTypeOK'
        BY <1>2 DEF Resume, Return, UnixInv, UnixTypeOK, kernel, posted, tables
    <2>. QED
        BY <1>2, <2>1, UnixQuiet
           DEF Resume, Return, UnixInv, kernel, posted, tables
<1>3. CASE Dispatch
    <2>1. PICK e : /\ e = Min(ToCall)
                   /\ numPosted' = [numPosted EXCEPT ![e % 2] = numPosted[e % 2] - 1]
                   /\ fdSetPost' = fdSetPost \ {e} /\ inUse' = inUse \ {e}
                   /\ ready' = ready \ {e}
        BY <1>3 DEF Dispatch
    <2>2. e \in fdSetPost /\ e % 2 \in Kinds
        BY <1>3, <2>1, UnixNextCall DEF Dispatch
    <2>3. /\ fdSetPost \in SUBSET Entries /\ fdSetPost' \in SUBSET fdSetPost
          /\ {} \in SUBSET fdSetPost' /\ fdSetPost' \in SUBSET Entries
        BY <2>1 DEF UnixInv, UnixTypeOK
    <2>4. \A k \in Kinds : /\ Count(k, fdSetPost') \in Nat
                                /\ Count(k, fdSetPost') <= Count(k, fdSetPost)
                                /\ Count(k, fdSetPost) \in Nat
        BY <2>3, UnixCount
    <2>5. Count(e % 2, fdSetPost') <= Count(e % 2, fdSetPost) - 1
        <3>1. e \in fdSetPost \ fdSetPost'
            BY <2>1, <2>2
        <3>. QED
            BY <2>3, <3>1, UnixCount
    <2>6. /\ numPosted \in [Kinds -> Nat]
          /\ \A k \in Kinds : Count(k, fdSetPost) <= numPosted[k] /\ numPosted[k] \in Nat
        BY DEF UnixInv, UnixTypeOK
    <2>7. numPosted[e % 2] - 1 \in Nat
        BY <2>2, <2>4, <2>5, <2>6
    <2>8. numPosted' \in [Kinds -> Nat]
        BY <2>1, <2>2, <2>6, <2>7
    <2>9. \A k \in Kinds : Count(k, fdSetPost') <= numPosted'[k]
        <3>. SUFFICES ASSUME NEW k \in Kinds PROVE Count(k, fdSetPost') <= numPosted'[k]
            OBVIOUS
        <3>1. CASE k = e % 2
            <4>1. numPosted'[k] = numPosted[k] - 1
                BY <2>1, <2>2, <2>6, <3>1
            <4>. QED
                BY <2>4, <2>5, <2>6, <3>1, <4>1
        <3>2. CASE k # e % 2
            <4>1. numPosted'[k] = numPosted[k]
                BY <2>1, <2>2, <2>6, <3>2
            <4>. QED
                BY <2>4, <2>6, <4>1
        <3>. QED
            BY <3>1, <3>2
    <2>10. UnixTypeOK'
        BY <1>3, <2>1, <2>8 DEF Dispatch, UnixInv, UnixTypeOK
    <2>11. /\ fdSetPost' \subseteq ready'
           /\ \A i \in fdSet' \cup fdSetPost' : FdOf(i) \in open'
           /\ ~asyncIoInUse' => fdSet' = {} /\ fdSetPost' = {}
        BY <1>3, <2>1 DEF Dispatch, UnixInv
    <2>. QED
        BY <2>9, <2>10, <2>11 DEF UnixInv, Count, FdOf
<1>. QED
    BY <1>1, <1>2, <1>3 DEF OS_DoIo

LEMMA UnixInvariant == UnixSpec => []UnixInv
<1>1. UnixInit => UnixInv
    BY UnixInitInv
<1>2. UnixInv /\ [UnixNext]_unixVars => UnixInv'
    <2>. SUFFICES ASSUME UnixInv, [UnixNext]_unixVars PROVE UnixInv'
        OBVIOUS
    <2>1. CASE UNCHANGED unixVars
        BY <2>1, UnixQuiet DEF unixVars, kernel, tables, posted, UnixInv, UnixTypeOK
    <2>. QED
        BY <2>1, UnixClientInv, UnixLoopInv DEF UnixNext
<1>. QED
    BY <1>1, <1>2, PTL DEF UnixSpec

(* The types of os_unix.c's asynchronous I/O: the counters of posted       *)
(* events, which OS_Close leaves too high, never go below zero.            *)
THEOREM UnixTypes == UnixSpec => []UnixTypeOK
<1>1. UnixInv => UnixTypeOK
    BY DEF UnixInv
<1>. QED
    BY <1>1, UnixInvariant, PTL

(* OS_DoIo only reads and writes what is ready on an open descriptor,      *)
(* whatever the callbacks close, open and post in the middle of its list.  *)
THEOREM UnixOnlyReady == UnixSpec => OnlyReady
<1>1. UnixInv /\ [UnixNext]_unixVars =>
          (at = "loop" /\ at' = "callback" =>
              \A i \in inUse \ inUse' : i \in ready /\ FdOf(i) \in open)
    <2>. SUFFICES ASSUME UnixInv, [UnixNext]_unixVars, at = "loop", at' = "callback",
                         NEW i \in inUse \ inUse'
                  PROVE  i \in ready /\ FdOf(i) \in open
        OBVIOUS
    <2>1. Dispatch
        BY DEF unixVars, kernel, tables, posted, UnixNext, OS_DoIo,
               Client, Open, Async, OS_Close, OS_CloseRead, InClient,
               BecomesReady, Select, Resume, Return
    <2>2. i = Min(ToCall) /\ ToCall # {}
        BY <2>1 DEF Dispatch
    <2>3. i \in fdSetPost
        BY <2>2, UnixNextCall
    <2>. QED
        BY <2>3 DEF UnixInv
<1>. QED
    BY <1>1, UnixInvariant, PTL DEF UnixSpec, OnlyReady
==============================================================================
