---------------------------- MODULE TaskPathProofs ----------------------------
(***************************************************************************)
(* Theorems about TaskPath: no task is lost, replied to twice or used      *)
(* after its deletion; responses go astray only before a connection's own; *)
(* and the server keeps the promise of Service.                            *)
(*                                                                         *)
(* The two pipes together are one queue: the work thread moves the oldest  *)
(* task of the incoming pipe behind the youngest one of the return pipe.   *)
(* So the identities in the pipes are consecutive (Queued), and what is    *)
(* sent through an address comes in the order of the requests (Ordered).   *)
(*                                                                         *)
(* And theorems about PipeQueue, in the last part: what TaskPath assumes   *)
(* of its pipes, that they are Channels, is what a CPipeQueue is there     *)
(* shown to be.                                                            *)
(***************************************************************************)
EXTENDS TaskPath, PipeQueue, SequenceLemmas

(* The oldest live task, and the oldest one that is not answered. *)
Oldest == made - Len(incoming) - Len(returning) + 1

Unanswered == made - Len(incoming) + 1

(* The tasks are in the pipes in the order in which they were made, and    *)
(* what a task still has to go through is what lies ahead of its pipe.     *)
Queued ==
    /\ Oldest >= 1
    /\ \A i \in 1 .. Len(returning) : returning[i] = Oldest - 1 + i
    /\ \A i \in 1 .. Len(incoming) : incoming[i] = Unanswered - 1 + i
    /\ DOMAIN task = Oldest .. made
    /\ \A t \in DOMAIN task :
          task[t].replies = IF t < Unanswered THEN <<ClientReply>> ELSE <<TaskPipe, ClientReply>>

(* The connection a task came from, and its number among the requests of it. *)
Owner(t) == task[t].packet[1]

Number(t) == task[t].packet[2]

(* Connections are numbered as they are accepted; each has its own address. *)
Numbered ==
    /\ \A a \in Address : conn[a] <= accepted
    /\ \A a, b \in Address : conn[a] = conn[b] /\ conn[a] # None => a = b
    /\ \A c \in Conn : c > accepted => decoded[c] = 0 /\ sent[c] = <<>>
    /\ \A t \in DOMAIN task : Owner(t) <= accepted

(* A connection's address has only tasks of it and of older ones, and the  *)
(* older ones go first.                                                    *)
Ordered ==
    /\ \A t, u \in DOMAIN task :
          t < u /\ task[t].connection = task[u].connection => Owner(t) <= Owner(u)
    /\ \A a \in Address : \A t \in DOMAIN task : conn[a] # None =>
          /\ Owner(t) = conn[a] => task[t].connection = a
          /\ task[t].connection = a =>
                /\ Owner(t) <= conn[a]
                /\ \A i \in 1 .. Len(sent[conn[a]]) : sent[conn[a]][i][1] <= Owner(t)

(* What s, the responses of connection c, looks like: n strays, in the     *)
(* order of their connections, and then c's own, one by one.               *)
Responses(c, s, n) ==
    /\ n \in 0 .. Len(s)
    /\ \A i \in 1 .. n : s[i][1] < c /\ \A j \in 1 .. i : s[j][1] <= s[i][1]
    /\ \A i \in n + 1 .. Len(s) : s[i] = <<c, i - n>>

Answered(c) == Len(sent[c]) - Strays(c, sent[c])

(* The requests of a connection that exists are answered from the first    *)
(* up to some number; for each one after it there is a task, in order.     *)
Owed(c) ==
    /\ Answered(c) <= decoded[c]
    /\ \A t \in DOMAIN task : Owner(t) = c =>
          /\ Number(t) \in Answered(c) + 1 .. decoded[c]
          /\ \A u \in DOMAIN task : Owner(u) = c /\ t < u => Number(t) < Number(u)
    /\ \A n \in Answered(c) + 1 .. decoded[c] :
          \E t \in DOMAIN task : Owner(t) = c /\ Number(t) = n

Inv ==
    /\ TypeOK /\ Queued /\ Numbered /\ Ordered
    /\ \A c \in Conn : Responses(c, sent[c], Strays(c, sent[c]))
    /\ \A c \in Live : Owed(c)

(* A packet and its two parts. *)
LEMMA PacketParts ==
    /\ \A x \in Packet : /\ x = <<x[1], x[2]>> /\ x[1] \in Conn
                         /\ x[1] \in Nat \ {0} /\ x[2] \in Nat \ {0}
    /\ \A c \in Conn : \A n \in Nat \ {0} : <<c, n>> \in Packet
BY DEF Packet, Conn

(* No response is of a younger connection. *)
LEMMA NoYounger ==
    ASSUME NEW c \in Nat, NEW s \in Seq(Packet), NEW n, Responses(c, s, n)
    PROVE  \A i \in 1 .. Len(s) : s[i][1] <= c
<1>. SUFFICES ASSUME NEW i \in 1 .. Len(s) PROVE s[i][1] <= c
    OBVIOUS
<1>1. n \in 0 .. Len(s) /\ Len(s) \in Nat
    BY LenProperties DEF Responses
<1>2. s[i][1] \in Nat
    BY PacketParts, ElementOfSeq
<1>3. CASE i \in 1 .. n
    BY <1>2, <1>3 DEF Responses
<1>4. CASE i \in n + 1 .. Len(s)
    <2>1. s[i] = <<c, i - n>>
        BY <1>4 DEF Responses
    <2>. QED
        BY <2>1
<1>. QED
    BY <1>1, <1>3, <1>4

(* Strays is the n of Responses. *)
LEMMA StraysOf ==
    ASSUME NEW c \in Nat, NEW s \in Seq(Packet), NEW n, Responses(c, s, n)
    PROVE  Strays(c, s) = n
<1>1. Len(s) \in Nat /\ n \in 0 .. Len(s)
    BY DEF Responses
<1>2. \A i \in 1 .. n : s[i][1] # c
    <2>. SUFFICES ASSUME NEW i \in 1 .. n PROVE s[i][1] # c
        OBVIOUS
    <2>1. s[i] \in Packet /\ s[i][1] < c
        BY <1>1, ElementOfSeq DEF Responses
    <2>. QED
        BY <2>1, PacketParts
<1>3. \A i \in n + 1 .. Len(s) : s[i][1] = c
    BY DEF Responses
<1>4. {0} \cup {i \in 1 .. Len(s) : s[i][1] # c} = 0 .. n
    BY <1>1, <1>2, <1>3
<1>5. n \in 0 .. n /\ \A y \in 0 .. n : n >= y
    BY <1>1
<1>6. \A x \in 0 .. n : x >= n => x = n
    BY <1>1
<1>7. (CHOOSE x \in 0 .. n : \A y \in 0 .. n : x >= y) = n
    BY <1>5, <1>6
<1>. QED
    BY <1>4, <1>7 DEF Strays, Max

(* A response of the connection's own, the next one, leaves the strays alone. *)
LEMMA AppendOwn ==
    ASSUME NEW c \in Conn, NEW s \in Seq(Packet), NEW n \in 0 .. Len(s),
           Responses(c, s, n), NEW x \in Packet, x[1] = c, x[2] = Len(s) + 1 - n
    PROVE  /\ Append(s, x) \in Seq(Packet)
           /\ Responses(c, Append(s, x), n) /\ Strays(c, Append(s, x)) = n
<1>. DEFINE r == Append(s, x)
<1>1. Len(s) \in Nat /\ n \in 0 .. Len(s) /\ c \in Nat
    BY DEF Responses, Conn
<1>2. x = <<c, Len(s) + 1 - n>>
    BY PacketParts
<1>3. /\ r \in Seq(Packet) /\ Len(r) = Len(s) + 1
      /\ \A i \in 1 .. Len(s) : r[i] = s[i]
      /\ r[Len(s) + 1] = x
    BY AppendProperties
<1>4. Responses(c, r, n)
    <2>1. n \in 0 .. Len(r)
        BY <1>1, <1>3
    <2>2. \A i \in 1 .. n : r[i][1] < c /\ \A j \in 1 .. i : r[j][1] <= r[i][1]
        BY <1>1, <1>3 DEF Responses
    <2>3. ASSUME NEW i \in n + 1 .. Len(r) PROVE r[i] = <<c, i - n>>
        <3>1. CASE i <= Len(s)
            BY <1>1, <1>3, <3>1 DEF Responses
        <3>2. CASE i = Len(s) + 1
            BY <1>1, <1>2, <1>3, <3>2
        <3>. QED
            BY <1>1, <1>3, <3>1, <3>2
    <2>. QED
        BY <2>1, <2>2, <2>3 DEF Responses
<1>5. Strays(c, r) = n
    BY <1>1, <1>3, <1>4, StraysOf
<1>. QED
    BY <1>3, <1>4, <1>5

(* A response to an older connection is one more stray: there was nothing *)
(* else before it.                                                        *)
LEMMA AppendStray ==
    ASSUME NEW c \in Conn, NEW s \in Seq(Packet), NEW n, Responses(c, s, n),
           NEW x \in Packet, x[1] < c,
           \A i \in 1 .. Len(s) : s[i][1] <= x[1]
    PROVE  /\ n = Len(s)
           /\ Append(s, x) \in Seq(Packet)
           /\ Responses(c, Append(s, x), n + 1) /\ Strays(c, Append(s, x)) = n + 1
<1>. DEFINE r == Append(s, x)
<1>1. Len(s) \in Nat /\ n \in 0 .. Len(s) /\ c \in Nat /\ x[1] \in Nat
    BY PacketParts DEF Responses, Conn
<1>2. n = Len(s)
    <2>1. ASSUME n < Len(s) PROVE FALSE
        <3>1. s[Len(s)] = <<c, Len(s) - n>> /\ s[Len(s)][1] <= x[1]
            BY <1>1, <2>1 DEF Responses
        <3>. QED
            BY <1>1, <3>1
    <2>. QED
        BY <1>1, <2>1
<1>3. /\ r \in Seq(Packet) /\ Len(r) = Len(s) + 1
      /\ \A i \in 1 .. Len(s) : r[i] = s[i]
      /\ r[Len(s) + 1] = x
    BY AppendProperties
<1>4. Responses(c, r, n + 1)
    <2>1. n + 1 \in 0 .. Len(r)
        BY <1>1, <1>3
    <2>2. ASSUME NEW i \in 1 .. n + 1
          PROVE  r[i][1] < c /\ \A j \in 1 .. i : r[j][1] <= r[i][1]
        <3>1. CASE i <= n
            BY <1>1, <1>2, <1>3, <3>1 DEF Responses
        <3>2. CASE i = n + 1
            BY <1>1, <1>2, <1>3, <3>2
        <3>. QED
            BY <1>1, <3>1, <3>2
    <2>3. \A i \in (n + 1) + 1 .. Len(r) : r[i] = <<c, i - (n + 1)>>
        BY <1>1, <1>2, <1>3
    <2>. QED
        BY <1>1, <2>1, <2>2, <2>3 DEF Responses
<1>5. Strays(c, r) = n + 1
    BY <1>1, <1>3, <1>4, StraysOf
<1>. QED
    BY <1>2, <1>3, <1>4, <1>5

(* The fields of a task, and a task from its fields. *)
LEMMA TaskFields ==
    ASSUME NEW x \in Task
    PROVE  /\ x.connection \in Address /\ x.packet \in Packet
           /\ x.replies \in Seq({ClientReply, TaskPipe}) /\ x.answered \in BOOLEAN
           /\ x = [connection |-> x.connection, packet |-> x.packet,
                   replies |-> x.replies, answered |-> x.answered]
BY DEF Task

LEMMA TaskRecord ==
    ASSUME NEW a \in Address, NEW p \in Packet,
           NEW r \in Seq({ClientReply, TaskPipe}), NEW b \in BOOLEAN
    PROVE  [connection |-> a, packet |-> p, replies |-> r, answered |-> b] \in Task
BY DEF Task

LEMMA TaskExcept ==
    ASSUME NEW x \in Task, NEW r, NEW b
    PROVE  [x EXCEPT !.replies = r, !.answered = b]
             = [connection |-> x.connection, packet |-> x.packet, replies |-> r, answered |-> b]
<1>. DEFINE y == [connection |-> x.connection, packet |-> x.packet, replies |-> r,
                  answered |-> x.answered]
<1>1. [x EXCEPT !.replies = r] = y
    BY DEF Task
<1>2. [y EXCEPT !.answered = b]
        = [connection |-> x.connection, packet |-> x.packet, replies |-> r, answered |-> b]
    OBVIOUS
<1>3. [x EXCEPT !.replies = r, !.answered = b] = [[x EXCEPT !.replies = r] EXCEPT !.answered = b]
    OBVIOUS
<1>. QED
    BY <1>1, <1>2, <1>3

(* What TypeOK says of a task's packet and of what a connection has sent. *)
LEMMA Types ==
    ASSUME TypeOK
    PROVE  /\ \A t \in DOMAIN task : /\ task[t].packet = <<Owner(t), Number(t)>>
                                     /\ Owner(t) \in Conn /\ Owner(t) \in Nat \ {0}
                                     /\ Number(t) \in Nat \ {0}
           /\ \A c \in Conn : /\ sent[c] \in Seq(Packet) /\ Len(sent[c]) \in Nat
                              /\ \A i \in 1 .. Len(sent[c]) : sent[c][i][1] \in Nat
           /\ \A a \in Address : conn[a] # None => conn[a] \in Conn
           /\ \A a \in Address : conn[a] \in Nat
           /\ accepted \in Nat /\ made \in Nat /\ \A c \in Conn : decoded[c] \in Nat
           /\ incoming \in Seq(Nat) /\ Len(incoming) \in Nat
           /\ returning \in Seq(Nat) /\ Len(returning) \in Nat
<1>1. ASSUME NEW t \in DOMAIN task
      PROVE  /\ task[t].packet = <<Owner(t), Number(t)>> /\ Owner(t) \in Conn
             /\ Owner(t) \in Nat \ {0} /\ Number(t) \in Nat \ {0}
    <2>1. task[t].packet \in Packet
        BY TaskFields DEF TypeOK
    <2>. QED
        BY <2>1, PacketParts DEF Owner, Number
<1>2. ASSUME NEW c \in Conn
      PROVE  /\ sent[c] \in Seq(Packet) /\ Len(sent[c]) \in Nat
             /\ \A i \in 1 .. Len(sent[c]) : sent[c][i][1] \in Nat
    <2>1. sent[c] \in Seq(Packet) /\ Len(sent[c]) \in Nat
        BY DEF TypeOK
    <2>2. ASSUME NEW i \in 1 .. Len(sent[c]) PROVE sent[c][i][1] \in Nat
        <3>1. sent[c][i] \in Packet
            BY <2>1, ElementOfSeq
        <3>. QED
            BY <3>1, PacketParts
    <2>. QED
        BY <2>1, <2>2
<1>3. \A a \in Address : conn[a] \in Nat /\ (conn[a] # None => conn[a] \in Conn)
    BY TaskPathAssumption DEF TypeOK, Conn, None
<1>4. accepted \in Nat /\ made \in Nat /\ \A c \in Conn : decoded[c] \in Nat
    BY TaskPathAssumption DEF TypeOK
<1>5. incoming \in Seq(Nat) /\ Len(incoming) \in Nat /\ returning \in Seq(Nat) /\ Len(returning) \in Nat
    <2>1. 1 .. made \subseteq Nat /\ incoming \in Seq(1 .. made) /\ returning \in Seq(1 .. made)
        BY <1>4 DEF TypeOK
    <2>. QED
        <3>1. incoming \in Seq(Nat) /\ returning \in Seq(Nat)
            BY <2>1, SeqWiden
        <3>. QED
            BY <3>1, LenProperties
<1>. QED
    BY <1>1, <1>2, <1>3, <1>4, <1>5

(* At the start there is nothing. *)
LEMMA InitInv == Init => Inv
<1>. SUFFICES ASSUME Init PROVE Inv
    OBVIOUS
<1>1. /\ conn = [a \in Address |-> 0] /\ accepted = 0 /\ decoded = [c \in Conn |-> 0]
      /\ task = <<>> /\ made = 0 /\ incoming = <<>> /\ returning = <<>>
      /\ sent = [c \in Conn |-> <<>>] /\ dangling = {}
    BY DEF Init, None, In!Init, Return!Init
<1>2. DOMAIN task = {} /\ Len(incoming) = 0 /\ Len(returning) = 0
    BY <1>1
<1>3. TypeOK
    <2>1. conn \in [Address -> 0 .. MaxConn] /\ accepted \in 0 .. MaxConn /\ made \in 0 .. MaxTask
        BY <1>1, TaskPathAssumption
    <2>2. incoming \in Seq(1 .. made) /\ returning \in Seq(1 .. made)
        BY <1>1
    <2>3. sent \in [Conn -> Seq(Packet)] /\ decoded \in [Conn -> Nat]
        BY <1>1
    <2>. QED
        BY <1>1, <1>2, <2>1, <2>2, <2>3 DEF TypeOK
<1>4. Queued
    BY <1>1, <1>2 DEF Queued, Oldest, Unanswered
<1>5. Numbered
    BY <1>1, <1>2 DEF Numbered, None
<1>6. Ordered
    BY <1>2 DEF Ordered
<1>7. \A c \in Conn : Responses(c, sent[c], Strays(c, sent[c]))
    <2>. SUFFICES ASSUME NEW c \in Conn PROVE Responses(c, <<>>, Strays(c, <<>>))
        BY <1>1
    <2>1. <<>> \in Seq(Packet) /\ Responses(c, <<>>, 0)
        BY DEF Responses
    <2>2. c \in Nat
        BY DEF Conn
    <2>. QED
        BY <2>1, <2>2, StraysOf
<1>. QED
    BY <1>1, <1>3, <1>4, <1>5, <1>6, <1>7 DEF Inv, None, Live

(* What a connection is owed depends on its requests, tasks and responses. *)
LEMMA OwedStill == ASSUME NEW c, UNCHANGED <<decoded, task, sent>> PROVE Owed(c)' <=> Owed(c)
BY DEF Owed, Answered, Owner, Number

(* A new connection has a number no task and no response knows. *)
LEMMA AcceptInv == ASSUME Inv, NEW a \in Address, Accept(a) PROVE Inv'
<1>1. TypeOK /\ Queued /\ Numbered /\ Ordered
    BY DEF Inv
<1>2. /\ conn[a] = None /\ accepted < MaxConn /\ accepted' = accepted + 1
      /\ conn' = [conn EXCEPT ![a] = accepted + 1]
      /\ UNCHANGED <<decoded, task, made, incoming, returning, sent, dangling>>
    BY DEF Accept
<1>3. /\ accepted \in Nat /\ accepted + 1 \in Conn
      /\ conn'[a] = accepted + 1 /\ \A b \in Address \ {a} : conn'[b] = conn[b]
    BY <1>1, <1>2, TaskPathAssumption DEF TypeOK, Conn
<1>4. TypeOK'
    <2>1. accepted + 1 \in 0 .. MaxConn
        BY <1>2, <1>3, TaskPathAssumption
    <2>2. accepted' \in 0 .. MaxConn /\ conn' \in [Address -> 0 .. MaxConn]
        BY <1>1, <1>2, <2>1 DEF TypeOK
    <2>. QED
        BY <1>1, <1>2, <2>2 DEF TypeOK
<1>5. Queued'
    BY <1>1, <1>2 DEF Queued, Oldest, Unanswered
<1>6. Numbered'
    <2>1. \A b \in Address : conn[b] \in Nat /\ conn[b] <= accepted
        BY <1>1, Types DEF Numbered
    <2>2. \A b \in Address : conn'[b] <= accepted'
        BY <1>2, <1>3, <2>1
    <2>3. \A b, d \in Address : conn'[b] = conn'[d] /\ conn'[b] # None => b = d
        <3>1. \A b \in Address \ {a} : conn'[b] # conn'[a]
            BY <1>3, <2>1
        <3>. QED
            BY <1>1, <1>3, <3>1 DEF Numbered
    <2>4. \A c \in Conn : c > accepted' => decoded'[c] = 0 /\ sent'[c] = <<>>
        BY <1>1, <1>2, <1>3 DEF Numbered, Conn
    <2>5. \A t \in DOMAIN task' : Owner(t)' <= accepted'
        <3>1. \A t \in DOMAIN task : Owner(t) <= accepted /\ Owner(t) \in Nat
            BY <1>1, Types DEF Numbered
        <3>. QED
            BY <1>2, <1>3, <3>1 DEF Owner
    <2>. QED
        BY <2>2, <2>3, <2>4, <2>5 DEF Numbered
<1>7. Ordered'
    <2>1. \A t \in DOMAIN task : Owner(t) <= accepted /\ Owner(t) \in Nat
        BY <1>1, Types DEF Numbered
    <2>2. sent[accepted + 1] = <<>>
        BY <1>1, <1>3 DEF Numbered
    <2>3. ASSUME NEW b \in Address, NEW t \in DOMAIN task, conn'[b] # None
          PROVE  /\ Owner(t) = conn'[b] => task[t].connection = b
                 /\ task[t].connection = b =>
                       /\ Owner(t) <= conn'[b]
                       /\ \A i \in 1 .. Len(sent[conn'[b]]) : sent[conn'[b]][i][1] <= Owner(t)
        <3>1. CASE b = a
            <4>1. conn'[b] = accepted + 1 /\ Len(sent[conn'[b]]) = 0
                BY <1>3, <2>2, <3>1
            <4>. QED
                BY <1>3, <2>1, <4>1
        <3>2. CASE b # a
            BY <1>1, <1>3, <2>3, <3>2 DEF Ordered
        <3>. QED
            BY <3>1, <3>2
    <2>4. \A t, u \in DOMAIN task :
             t < u /\ task[t].connection = task[u].connection => Owner(t) <= Owner(u)
        BY <1>1 DEF Ordered
    <2>. QED
        BY <1>2, <2>3, <2>4 DEF Ordered, Owner
<1>8. \A c \in Conn : Responses(c, sent[c], Strays(c, sent[c]))
    BY DEF Inv
<1>9. ASSUME NEW c \in Live' PROVE Owed(c)
    <2>1. CASE c = accepted + 1
        <3>1. decoded[c] = 0 /\ sent[c] = <<>> /\ Responses(c, sent[c], Strays(c, sent[c]))
            BY <1>1, <1>3, <1>8, <2>1 DEF Numbered
        <3>2. Answered(c) = 0
            BY <3>1 DEF Answered, Responses
        <3>3. \A t \in DOMAIN task : Owner(t) # c
            BY <1>1, <1>3, <2>1, Types DEF Numbered
        <3>. QED
            BY <3>1, <3>2, <3>3 DEF Owed
    <2>2. CASE c # accepted + 1
        <3>1. c \in Live
            BY <1>2, <1>3, <2>2 DEF Live
        <3>. QED
            BY <3>1 DEF Inv
    <2>. QED
        BY <2>1, <2>2
<1>10. \A c \in Live' : Owed(c)'
    BY <1>2, <1>9, OwedStill
<1>. QED
    BY <1>2, <1>4, <1>5, <1>6, <1>7, <1>8, <1>10 DEF Inv

(* A connection that goes leaves its tasks where they are. *)
LEMMA DeleteInv == ASSUME Inv, NEW a \in Address, Delete(a) PROVE Inv'
<1>1. TypeOK /\ Queued /\ Numbered /\ Ordered
    BY DEF Inv
<1>2. /\ conn' = [conn EXCEPT ![a] = None]
      /\ UNCHANGED <<accepted, decoded, task, made, incoming, returning, sent, dangling>>
    BY DEF Delete
<1>3. conn'[a] = None /\ \A b \in Address \ {a} : conn'[b] = conn[b]
    BY <1>1, <1>2 DEF TypeOK
<1>4. TypeOK'
    BY <1>1, <1>2, TaskPathAssumption DEF TypeOK, None
<1>5. Queued'
    BY <1>1, <1>2 DEF Queued, Oldest, Unanswered
<1>6. Numbered'
    <2>1. \A b \in Address : conn'[b] <= accepted
        BY <1>1, <1>3, Types DEF Numbered, None
    <2>2. \A b, d \in Address : conn'[b] = conn'[d] /\ conn'[b] # None => b = d
        BY <1>1, <1>3 DEF Numbered
    <2>. QED
        BY <1>1, <1>2, <2>1, <2>2 DEF Numbered, Owner
<1>7. Ordered'
    <2>1. ASSUME NEW b \in Address, NEW t \in DOMAIN task, conn'[b] # None
          PROVE  /\ Owner(t) = conn'[b] => task[t].connection = b
                 /\ task[t].connection = b =>
                       /\ Owner(t) <= conn'[b]
                       /\ \A i \in 1 .. Len(sent[conn'[b]]) : sent[conn'[b]][i][1] <= Owner(t)
        BY <1>1, <1>3, <2>1 DEF Ordered
    <2>2. \A t, u \in DOMAIN task :
             t < u /\ task[t].connection = task[u].connection => Owner(t) <= Owner(u)
        BY <1>1 DEF Ordered
    <2>. QED
        BY <1>2, <2>1, <2>2 DEF Ordered, Owner
<1>8. \A c \in Conn : Responses(c, sent[c], Strays(c, sent[c]))
    BY DEF Inv
<1>9. \A c \in Live' : c \in Live
    BY <1>2, <1>3 DEF Live
<1>10. \A c \in Live' : Owed(c)'
    BY <1>2, <1>9, OwedStill DEF Inv
<1>. QED
    BY <1>2, <1>4, <1>5, <1>6, <1>7, <1>8, <1>10 DEF Inv

(* The packet a connection has just decoded is its last request, and its   *)
(* task the youngest of all.                                               *)
LEMMA OnPacketInv == ASSUME Inv, NEW a \in Address, OnPacket(a) PROVE Inv'
<1>. DEFINE c == conn[a]
            T == made + 1
<1>1. TypeOK /\ Queued /\ Numbered /\ Ordered
    BY DEF Inv
<1>2. /\ c # None /\ made < MaxTask /\ made' = T
      /\ decoded' = [decoded EXCEPT ![c] = @ + 1]
      /\ task' = [t \in DOMAIN task \cup {T} |-> IF t = T THEN NewTask(a) ELSE task[t]]
      /\ incoming' = Append(incoming, T)
      /\ UNCHANGED <<conn, accepted, returning, sent, dangling>>
    BY DEF OnPacket, In!Push
<1>3. /\ c \in Conn /\ c \in Nat \ {0} /\ made \in Nat /\ T \in Nat \ {0} /\ decoded[c] \in Nat
      /\ \A t \in DOMAIN task : Owner(t) \in Nat /\ Number(t) \in Nat
      /\ incoming \in Seq(Nat) /\ Len(incoming) \in Nat /\ Len(returning) \in Nat
    BY <1>1, <1>2, Types DEF Conn
<1>4. DOMAIN task = Oldest .. made /\ Oldest \in Nat /\ \A t \in DOMAIN task : t \in Nat /\ t < T
    BY <1>1, <1>3 DEF Queued, Oldest
<1>5. /\ DOMAIN task' = DOMAIN task \cup {T} /\ T \notin DOMAIN task
      /\ task'[T] = NewTask(a) /\ \A t \in DOMAIN task : task'[t] = task[t]
    BY <1>2, <1>4
<1>6. NewTask(a) = [connection |-> a, packet |-> <<c, decoded[c] + 1>>,
                    replies |-> <<TaskPipe, ClientReply>>, answered |-> FALSE]
    <2>1. <<ClientReply>> \o <<>> = <<ClientReply>>
        OBVIOUS
    <2>2. <<TaskPipe>> \o <<ClientReply>> = <<TaskPipe, ClientReply>>
        BY Pair
    <2>. QED
        BY <2>1, <2>2 DEF NewTask, PushReplyDispatcher
<1>7. /\ decoded' \in [Conn -> Nat] /\ decoded'[c] = decoded[c] + 1
      /\ \A d \in Conn \ {c} : decoded'[d] = decoded[d]
    BY <1>1, <1>2, <1>3 DEF TypeOK
<1>8. /\ \A t \in DOMAIN task : Owner(t)' = Owner(t) /\ Number(t)' = Number(t)
      /\ task'[T].packet[1] = c /\ task'[T].packet[2] = decoded[c] + 1
    BY <1>5, <1>6 DEF Owner, Number
<1>9. TypeOK'
    <2>1. made' \in 0 .. MaxTask /\ DOMAIN task' \subseteq 1 .. made'
        BY <1>1, <1>2, <1>3, <1>5, TaskPathAssumption DEF TypeOK
    <2>2. ASSUME NEW t \in DOMAIN task'
          PROVE  task'[t] \in Task
        <3>1. CASE t = T
            <4>1. <<TaskPipe, ClientReply>> \in Seq({ClientReply, TaskPipe})
                OBVIOUS
            <4>2. <<c, decoded[c] + 1>> \in Packet
                BY <1>3, PacketParts
            <4>3. NewTask(a) \in Task
                <5>. HIDE DEF c
                <5>. QED
                    BY <1>6, <4>1, <4>2, TaskRecord
            <4>. QED
                BY <1>5, <3>1, <4>3
        <3>2. CASE t \in DOMAIN task
            BY <1>1, <1>5, <3>2 DEF TypeOK
        <3>. QED
            BY <1>5, <3>1, <3>2
    <2>3. incoming' \in Seq(1 .. made') /\ returning' \in Seq(1 .. made')
        <3>1. 1 .. made \subseteq 1 .. made' /\ T \in 1 .. made'
            BY <1>2, <1>3
        <3>2. incoming \in Seq(1 .. made) /\ returning \in Seq(1 .. made)
            BY <1>1 DEF TypeOK
        <3>3. incoming \in Seq(1 .. made') /\ returning \in Seq(1 .. made')
            BY <3>1, <3>2, SeqWiden
        <3>. QED
            BY <1>2, <3>1, <3>3, AppendProperties
    <2>. QED
        BY <1>1, <1>2, <1>7, <2>1, <2>2, <2>3 DEF TypeOK
<1>10. Queued'
    <2>1. /\ Len(incoming') = Len(incoming) + 1 /\ incoming'[Len(incoming) + 1] = T
          /\ \A i \in 1 .. Len(incoming) : incoming'[i] = incoming[i]
        BY <1>2, <1>3, AppendProperties
    <2>2. Oldest' = Oldest /\ Unanswered' = Unanswered /\ Unanswered = made - Len(incoming) + 1
        BY <1>2, <1>3, <2>1 DEF Oldest, Unanswered
    <2>3. \A i \in 1 .. Len(incoming') : incoming'[i] = Unanswered - 1 + i
        <3>1. \A i \in 1 .. Len(incoming) : incoming'[i] = Unanswered - 1 + i
            BY <1>1, <2>1 DEF Queued
        <3>2. incoming'[Len(incoming) + 1] = Unanswered - 1 + (Len(incoming) + 1)
            BY <1>3, <2>1, <2>2
        <3>. QED
            BY <1>3, <2>1, <3>1, <3>2, SMTT(30)
    <2>4. DOMAIN task' = Oldest .. made'
        BY <1>2, <1>3, <1>4, <1>5, <2>2, SMTT(30) DEF Oldest, Queued
    <2>5. ASSUME NEW t \in DOMAIN task'
          PROVE  task'[t].replies = IF t < Unanswered THEN <<ClientReply>>
                                    ELSE <<TaskPipe, ClientReply>>
        <3>1. ~(T < Unanswered)
            BY <1>3, <2>2
        <3>. QED
            BY <1>1, <1>5, <1>6, <3>1 DEF Queued
    <2>. QED
        BY <1>1, <1>2, <2>2, <2>3, <2>4, <2>5 DEF Queued
<1>11. Numbered'
    <2>1. c <= accepted
        BY <1>1 DEF Numbered
    <2>2. \A d \in Conn : d > accepted' => decoded'[d] = 0 /\ sent'[d] = <<>>
        BY <1>1, <1>2, <1>3, <1>7, <2>1, Types DEF Numbered
    <2>3. \A t \in DOMAIN task' : Owner(t)' <= accepted'
        BY <1>1, <1>2, <1>5, <1>8, <2>1 DEF Numbered, Owner
    <2>. QED
        BY <1>1, <1>2, <2>2, <2>3 DEF Numbered
<1>12. \A t, u \in DOMAIN task' :
          t < u /\ task'[t].connection = task'[u].connection => Owner(t)' <= Owner(u)'
    <2>. SUFFICES ASSUME NEW t \in DOMAIN task', NEW u \in DOMAIN task',
                         t < u, task'[t].connection = task'[u].connection
                  PROVE  task'[t].packet[1] <= task'[u].packet[1]
        BY DEF Owner
    <2>1. t \in DOMAIN task
        BY <1>3, <1>4, <1>5
    <2>2. CASE u = T
        BY <1>1, <1>2, <1>5, <1>6, <2>1, <2>2 DEF Ordered, Owner
    <2>3. CASE u \in DOMAIN task
        BY <1>1, <1>5, <2>1, <2>3 DEF Ordered, Owner
    <2>. QED
        BY <1>5, <2>2, <2>3
<1>13. \A d \in Conn : Responses(d, sent[d], Strays(d, sent[d]))
    BY DEF Inv
<1>14. Ordered'
    <2>1. ASSUME NEW b \in Address, NEW t \in DOMAIN task', conn[b] # None
          PROVE  /\ task'[t].packet[1] = conn[b] => task'[t].connection = b
                 /\ task'[t].connection = b =>
                       /\ task'[t].packet[1] <= conn[b]
                       /\ \A i \in 1 .. Len(sent[conn[b]]) : sent[conn[b]][i][1] <= task'[t].packet[1]
        <3>1. CASE t = T
            <4>1. c = conn[b] => a = b
                BY <1>1, <1>2 DEF Numbered
            <4>2. \A i \in 1 .. Len(sent[c]) : sent[c][i][1] <= c
                <5>1. Responses(c, sent[c], Strays(c, sent[c]))
                    BY <1>3, <1>13
                <5>2. sent[c] \in Seq(Packet) /\ c \in Nat
                    BY <1>1, <1>3, Types
                <5>. HIDE DEF c
                <5>. QED
                    BY <5>1, <5>2, NoYounger
            <4>. QED
                BY <1>3, <1>5, <1>6, <3>1, <4>1, <4>2
        <3>2. CASE t \in DOMAIN task
            BY <1>1, <1>5, <2>1, <3>2 DEF Ordered, Owner
        <3>. QED
            BY <1>5, <3>1, <3>2
    <2>2. conn' = conn /\ sent' = sent
        BY <1>2
    <2>. QED
        BY <1>12, <2>1, <2>2 DEF Ordered, Owner
<1>15. ASSUME NEW d \in Live PROVE Owed(d)'
    <2>1. Owed(d) /\ d \in Conn
        BY <1>1, Types DEF Inv, Live
    <2>2. Answered(d)' = Answered(d) /\ Answered(d) \in Nat
        <3>1. Responses(d, sent[d], Strays(d, sent[d])) /\ Len(sent[d]) \in Nat
            BY <1>1, <1>13, <2>1, Types
        <3>. QED
            BY <1>2, <3>1 DEF Answered, Responses
    <2>3. CASE d # c
        <3>1. decoded'[d] = decoded[d] /\ task'[T].packet[1] # d
            BY <1>7, <1>8, <2>1, <2>3
        <3>2. Answered(d) <= decoded'[d]
            BY <2>1, <3>1 DEF Owed
        <3>3. ASSUME NEW t \in DOMAIN task', task'[t].packet[1] = d
              PROVE  /\ task'[t].packet[2] \in Answered(d) + 1 .. decoded'[d]
                     /\ \A u \in DOMAIN task' :
                           task'[u].packet[1] = d /\ t < u => task'[t].packet[2] < task'[u].packet[2]
            BY <1>5, <2>1, <3>1, <3>3 DEF Owed, Owner, Number
        <3>4. ASSUME NEW n \in Answered(d) + 1 .. decoded'[d]
              PROVE  \E t \in DOMAIN task' : task'[t].packet[1] = d /\ task'[t].packet[2] = n
            BY <1>5, <2>1, <3>1 DEF Owed, Owner, Number
        <3>. QED
            BY <2>2, <3>2, <3>3, <3>4 DEF Owed, Owner, Number
    <2>4. CASE d = c
        <3>1. Answered(d) <= decoded[d] /\ decoded'[d] = decoded[d] + 1 /\ decoded[d] \in Nat
            BY <1>3, <1>7, <2>1, <2>4 DEF Owed
        <3>2. task'[T].packet[1] = d /\ task'[T].packet[2] = decoded[d] + 1
            BY <1>8, <2>4
        <3>3. ASSUME NEW t \in DOMAIN task', task'[t].packet[1] = d
              PROVE  /\ task'[t].packet[2] \in Answered(d) + 1 .. decoded'[d]
                     /\ \A u \in DOMAIN task' :
                           task'[u].packet[1] = d /\ t < u => task'[t].packet[2] < task'[u].packet[2]
            <4>1. CASE t = T
                <5>1. \A u \in DOMAIN task' : ~(t < u)
                    BY <1>3, <1>4, <1>5, <4>1
                <5>. QED
                    BY <2>2, <3>1, <3>2, <4>1, <5>1
            <4>2. CASE t \in DOMAIN task
                <5>1. Number(t) \in Answered(d) + 1 .. decoded[d] /\ task'[t].packet[2] = Number(t)
                    BY <1>5, <2>1, <3>3, <4>2 DEF Owed, Owner, Number
                <5>2. ASSUME NEW u \in DOMAIN task', task'[u].packet[1] = d, t < u
                      PROVE  Number(t) < task'[u].packet[2]
                    <6>1. CASE u = T
                        BY <2>2, <3>1, <3>2, <5>1, <6>1
                    <6>2. CASE u \in DOMAIN task
                        BY <1>5, <2>1, <3>3, <4>2, <5>2, <6>2 DEF Owed, Owner, Number
                    <6>. QED
                        BY <1>5, <6>1, <6>2
                <5>. QED
                    BY <2>2, <3>1, <5>1, <5>2
            <4>. QED
                BY <1>5, <4>1, <4>2
        <3>4. ASSUME NEW n \in Answered(d) + 1 .. decoded'[d]
              PROVE  \E t \in DOMAIN task' : task'[t].packet[1] = d /\ task'[t].packet[2] = n
            <4>1. CASE n = decoded[d] + 1
                BY <1>5, <3>2, <4>1
            <4>2. CASE n # decoded[d] + 1
                <5>1. n \in Answered(d) + 1 .. decoded[d]
                    BY <2>2, <3>1, <4>2
                <5>. QED
                    BY <1>5, <2>1, <5>1 DEF Owed, Owner, Number
            <4>. QED
                BY <4>1, <4>2
        <3>. QED
            BY <2>2, <3>1, <3>3, <3>4 DEF Owed, Owner, Number
    <2>. QED
        BY <2>3, <2>4
<1>. QED
    BY <1>2, <1>9, <1>10, <1>11, <1>13, <1>14, <1>15 DEF Inv, Live

(* Where the connections, the packets of the tasks and what has been sent  *)
(* do not change, neither does what is known of them.                      *)
LEMMA PathStill ==
    ASSUME UNCHANGED <<conn, accepted, decoded, sent>>, DOMAIN task' = DOMAIN task,
           \A t \in DOMAIN task : /\ task'[t].packet = task[t].packet
                                  /\ task'[t].connection = task[t].connection,
           Numbered, Ordered, \A c \in Live : Owed(c)
    PROVE  Numbered' /\ Ordered' /\ \A c \in Live' : Owed(c)'
<1>1. \A t \in DOMAIN task : task'[t].packet[1] = Owner(t) /\ task'[t].packet[2] = Number(t)
    BY DEF Owner, Number
<1>2. Numbered'
    BY <1>1 DEF Numbered, Owner
<1>3. Ordered'
    <2>1. \A t, u \in DOMAIN task : t < u /\ task'[t].connection = task'[u].connection
                                    => task'[t].packet[1] <= task'[u].packet[1]
        BY <1>1 DEF Ordered
    <2>2. \A a \in Address : \A t \in DOMAIN task : conn[a] # None =>
            /\ task'[t].packet[1] = conn[a] => task'[t].connection = a
            /\ task'[t].connection = a =>
                  /\ task'[t].packet[1] <= conn[a]
                  /\ \A i \in 1 .. Len(sent[conn[a]]) : sent[conn[a]][i][1] <= task'[t].packet[1]
        BY <1>1 DEF Ordered
    <2>. QED
        BY <2>1, <2>2 DEF Ordered, Owner
<1>4. ASSUME NEW c \in Live' PROVE Owed(c)'
    <2>1. Owed(c)
        BY DEF Live
    <2>. QED
        BY <1>1, <2>1 DEF Owed, Answered, Owner, Number
<1>. QED
    BY <1>2, <1>3, <1>4

(* The work thread moves a task from the one pipe to the other. *)
LEMMA WorkNotifyInv == ASSUME Inv, WorkNotify PROVE Inv'
<1>. DEFINE h == Head(incoming)
<1>1. TypeOK /\ Queued /\ Numbered /\ Ordered
    BY DEF Inv
<1>2. /\ incoming # <<>> /\ incoming' = Tail(incoming) /\ returning' = Append(returning, h)
      /\ task[h].replies # <<>> /\ Head(task[h].replies) = TaskPipe
      /\ task' = [task EXCEPT ![h].replies = Tail(@), ![h].answered = TRUE]
      /\ UNCHANGED <<conn, accepted, decoded, made, sent, dangling>>
    BY DEF WorkNotify, In!Deliver, Replies, ReturnPush, Return!Push
<1>3. /\ made \in Nat /\ incoming \in Seq(Nat) /\ Len(incoming) \in Nat \ {0}
      /\ returning \in Seq(Nat) /\ Len(returning) \in Nat
    BY <1>1, <1>2, Types, EmptySeq
<1>4. /\ h = Unanswered /\ h \in 1 .. made /\ h \in DOMAIN task
      /\ task[h].replies = <<TaskPipe, ClientReply>>
    <2>1. Len(incoming) >= 1 /\ h = incoming[1]
        BY <1>2, <1>3, HeadTailProperties
    <2>2. h = Unanswered
        BY <1>1, <1>3, <2>1 DEF Queued, Unanswered
    <2>3. h \in Oldest .. made /\ h \in 1 .. made /\ ~(h < Unanswered)
        BY <1>1, <1>3, <2>2 DEF Queued, Unanswered, Oldest
    <2>. QED
        BY <1>1, <2>2, <2>3 DEF Queued
<1>5. /\ DOMAIN task' = DOMAIN task
      /\ \A t \in DOMAIN task \ {h} : task'[t] = task[t]
      /\ task'[h] = [connection |-> task[h].connection, packet |-> task[h].packet,
                     replies |-> <<ClientReply>>, answered |-> TRUE]
    <2>1. Tail(<<TaskPipe, ClientReply>>) = <<ClientReply>>
        OBVIOUS
    <2>2. task[h] \in Task
        BY <1>1, <1>4 DEF TypeOK
    <2>3. task' = [task EXCEPT ![h] = [@ EXCEPT !.replies = <<ClientReply>>, !.answered = TRUE]]
        BY <1>2, <1>4, <2>1
    <2>4. [task[h] EXCEPT !.replies = <<ClientReply>>, !.answered = TRUE]
            = [connection |-> task[h].connection, packet |-> task[h].packet,
               replies |-> <<ClientReply>>, answered |-> TRUE]
        BY <2>2, TaskExcept
    <2>. QED
        BY <1>4, <2>3, <2>4
<1>6. /\ \A t \in DOMAIN task : /\ task'[t].packet = task[t].packet
                                 /\ task'[t].connection = task[t].connection
       /\ task'[h].replies = <<ClientReply>>
    BY <1>4, <1>5
<1>7. TypeOK'
    <2>1. incoming \in Seq(1 .. made) /\ returning \in Seq(1 .. made)
        BY <1>1 DEF TypeOK
    <2>2. incoming' \in Seq(1 .. made) /\ returning' \in Seq(1 .. made)
        BY <1>2, <1>4, <2>1, HeadTailProperties, AppendProperties
    <2>3. <<ClientReply>> \in Seq({ClientReply, TaskPipe})
        OBVIOUS
    <2>4. ASSUME NEW t \in DOMAIN task'
          PROVE  task'[t] \in Task
        <3>1. CASE t = h
            <4>1. task[h].connection \in Address /\ task[h].packet \in Packet
                BY <1>1, <1>4, TaskFields DEF TypeOK
            <4>. QED
                BY <1>5, <2>3, <3>1, <4>1, TaskRecord
        <3>2. CASE t # h
            BY <1>1, <1>5, <3>2 DEF TypeOK
        <3>. QED
            BY <3>1, <3>2
    <2>. QED
        BY <1>1, <1>2, <1>5, <2>2, <2>4 DEF TypeOK
<1>8. Queued'
    <2>1. /\ Len(incoming') = Len(incoming) - 1
          /\ \A i \in 1 .. Len(incoming') : incoming'[i] = incoming[i + 1]
        BY <1>2, <1>3, HeadTailProperties
    <2>2. /\ Len(returning') = Len(returning) + 1 /\ returning'[Len(returning) + 1] = h
          /\ \A i \in 1 .. Len(returning) : returning'[i] = returning[i]
        BY <1>2, <1>3, <1>4, AppendProperties
    <2>3. Oldest' = Oldest /\ Unanswered' = Unanswered + 1
        <3>1. made' = made
            BY <1>2
        <3>. QED
            BY <1>3, <2>1, <2>2, <3>1 DEF Oldest, Unanswered
    <2>4. Unanswered \in Int /\ Oldest \in Int /\ Oldest = Unanswered - Len(returning)
        BY <1>3 DEF Oldest, Unanswered
    <2>5. ASSUME NEW i \in 1 .. Len(returning') PROVE returning'[i] = Oldest - 1 + i
        <3>1. CASE i <= Len(returning)
            BY <1>1, <1>3, <2>2, <3>1 DEF Queued
        <3>2. CASE i = Len(returning) + 1
            BY <1>3, <1>4, <2>2, <2>4, <3>2
        <3>. QED
            BY <1>3, <2>2, <3>1, <3>2
    <2>6. ASSUME NEW i \in 1 .. Len(incoming') PROVE incoming'[i] = Unanswered + 1 - 1 + i
        <3>1. i + 1 \in 1 .. Len(incoming) /\ incoming'[i] = incoming[i + 1]
            BY <1>3, <2>1
        <3>2. incoming[i + 1] = Unanswered - 1 + (i + 1)
            BY <1>1, <3>1 DEF Queued
        <3>. QED
            BY <2>4, <3>1, <3>2
    <2>7. ASSUME NEW t \in DOMAIN task
          PROVE  task'[t].replies = IF t < Unanswered + 1 THEN <<ClientReply>>
                                    ELSE <<TaskPipe, ClientReply>>
        <3>1. t \in Int /\ (t < Unanswered + 1 <=> t < Unanswered \/ t = h)
            BY <1>1, <1>4, <2>4 DEF Queued
        <3>. QED
            BY <1>1, <1>4, <1>5, <1>6, <3>1 DEF Queued
    <2>. QED
        <3>1. Oldest >= 1 /\ DOMAIN task' = Oldest .. made'
            BY <1>1, <1>2, <1>5 DEF Queued
        <3>2. DOMAIN task' = DOMAIN task
            BY <1>5
        <3>3. \A i \in 1 .. Len(incoming') : incoming'[i] = Unanswered' - 1 + i
            BY <2>3, <2>4, <2>6
        <3>4. \A i \in 1 .. Len(returning') : returning'[i] = Oldest' - 1 + i
            BY <2>3, <2>5
        <3>5. \A t \in DOMAIN task' : task'[t].replies = IF t < Unanswered' THEN <<ClientReply>>
                                                        ELSE <<TaskPipe, ClientReply>>
            BY <2>3, <2>7, <3>2
        <3>. QED
            BY <2>3, <3>1, <3>3, <3>4, <3>5 DEF Queued
<1>9. Numbered' /\ Ordered' /\ \A c \in Live' : Owed(c)'
    BY <1>1, <1>2, <1>5, <1>6, PathStill DEF Inv
<1>. QED
    BY <1>2, <1>7, <1>8, <1>9 DEF Inv

(* The head of the return pipe is the oldest task. *)
LEMMA OldestReturns ==
    ASSUME Inv, returning # <<>>
    PROVE  /\ Head(returning) = Oldest /\ Head(returning) \in DOMAIN task
           /\ \A t \in DOMAIN task \ {Head(returning)} : Head(returning) < t
           /\ Len(returning) \in Nat \ {0} /\ Oldest \in Nat
<1>1. TypeOK /\ Queued
    BY DEF Inv
<1>2. /\ made \in Nat /\ Len(incoming) \in Nat
      /\ returning \in Seq(Nat) /\ Len(returning) \in Nat \ {0}
    BY <1>1, Types, EmptySeq
<1>3. Head(returning) = returning[1]
    BY <1>2, HeadTailProperties
<1>4. Oldest \in Nat \ {0} /\ Oldest <= made
    BY <1>1, <1>2 DEF Queued, Oldest
<1>5. Head(returning) = Oldest
    BY <1>1, <1>2, <1>3, <1>4, SMTT(30) DEF Queued
<1>. QED
    BY <1>1, <1>2, <1>4, <1>5 DEF Queued

(* If it came from a connection that exists it is the next one this        *)
(* connection is owed.                                                     *)
LEMMA NextNumber ==
    ASSUME Inv, returning # <<>>, Owner(Head(returning)) \in Live
    PROVE  LET c == Owner(Head(returning)) IN
           Number(Head(returning)) = Answered(c) + 1 /\ Answered(c) < decoded[c]
<1>. DEFINE h == Head(returning)
            c == Owner(h)
<1>1. h \in DOMAIN task /\ \A t \in DOMAIN task \ {h} : h < t
    BY OldestReturns
<1>2. Owed(c)
    BY DEF Inv
<1>3. c \in Conn /\ decoded[c] \in Nat /\ Number(h) \in Nat
    BY <1>1, Types DEF Inv
<1>4. Answered(c) \in Nat
    <2>1. Responses(c, sent[c], Strays(c, sent[c])) /\ Len(sent[c]) \in Nat
        BY <1>3, Types DEF Inv
    <2>. QED
        BY <2>1 DEF Answered, Responses
<1>5. Number(h) \in Answered(c) + 1 .. decoded[c]
    BY <1>1, <1>2 DEF Owed
<1>6. PICK t \in DOMAIN task : Owner(t) = c /\ Number(t) = Answered(c) + 1
    BY <1>2, <1>3, <1>4, <1>5 DEF Owed
<1>7. CASE t = h
    BY <1>3, <1>4, <1>5, <1>6, <1>7
<1>8. CASE t # h
    BY <1>1, <1>2, <1>3, <1>4, <1>5, <1>6, <1>8 DEF Owed
<1>. QED
    BY <1>7, <1>8

(* What the listen thread does to the pipes and the tasks. *)
LEMMA ReturnNotifyQueues ==
    ASSUME Inv, ReturnNotify
    PROVE  LET h == Head(returning) IN
           /\ returning # <<>> /\ SendPacket(h)
           /\ DOMAIN task' = DOMAIN task \ {h} /\ \A t \in DOMAIN task' : task'[t] = task[t]
           /\ \A t \in DOMAIN task' : Owner(t)' = Owner(t) /\ Number(t)' = Number(t)
           /\ UNCHANGED <<conn, accepted, decoded, made, incoming>>
           /\ returning' \in Seq(1 .. made) /\ Queued'
<1>. DEFINE h == Head(returning)
<1>1. /\ returning # <<>> /\ returning' = Tail(returning) /\ SendPacket(h)
      /\ task' = [t \in DOMAIN task \ {h} |-> task[t]]
      /\ UNCHANGED <<conn, accepted, decoded, made, incoming>>
    BY DEF ReturnNotify, Return!Deliver
<1>2. DOMAIN task' = DOMAIN task \ {h} /\ \A t \in DOMAIN task' : task'[t] = task[t]
    BY <1>1
<1>3. TypeOK /\ Queued /\ returning \in Seq(1 .. made)
    BY DEF Inv, TypeOK
<1>4. /\ h = Oldest /\ Len(returning) \in Nat \ {0} /\ Oldest \in Nat
      /\ made \in Nat /\ Len(incoming) \in Nat
    BY <1>1, <1>3, OldestReturns, Types
<1>5. /\ returning' \in Seq(1 .. made) /\ Len(returning') = Len(returning) - 1
      /\ \A i \in 1 .. Len(returning') : returning'[i] = returning[i + 1]
    BY <1>1, <1>3, HeadTailProperties
<1>6. Queued'
    <2>1. made' = made /\ incoming' = incoming
        BY <1>1
    <2>2. Oldest' = Oldest + 1 /\ Unanswered' = Unanswered
        BY <1>4, <1>5, <2>1 DEF Oldest, Unanswered
    <2>3. ASSUME NEW i \in 1 .. Len(returning') PROVE returning'[i] = Oldest' - 1 + i
        <3>1. i \in 1 .. Len(returning) - 1 /\ returning'[i] = returning[i + 1]
            BY <1>5
        <3>2. i + 1 \in 1 .. Len(returning)
            BY <1>4, <3>1
        <3>3. returning[i + 1] = Oldest - 1 + (i + 1)
            BY <1>3, <3>2 DEF Queued
        <3>. QED
            BY <1>4, <2>2, <3>1, <3>2, <3>3
    <2>4. DOMAIN task' = Oldest' .. made'
        BY <1>2, <1>3, <1>4, <2>1, <2>2 DEF Queued
    <2>5. \A t \in DOMAIN task' : task'[t].replies = IF t < Unanswered' THEN <<ClientReply>>
                                                    ELSE <<TaskPipe, ClientReply>>
        BY <1>2, <1>3, <2>2 DEF Queued
    <2>6. \A i \in 1 .. Len(incoming') : incoming'[i] = Unanswered' - 1 + i
        BY <1>3, <2>1, <2>2 DEF Queued
    <2>7. Oldest' >= 1
        BY <1>4, <2>2
    <2>. QED
        BY <2>3, <2>4, <2>5, <2>6, <2>7 DEF Queued
<1>. QED
    BY <1>1, <1>2, <1>5, <1>6 DEF Owner, Number

(* A connection that exists and does not get the response is not owed it. *)
LEMMA OwedOthers ==
    ASSUME Inv, ReturnNotify, NEW d \in Live, sent'[d] = sent[d],
           d # conn[task[Head(returning)].connection]
    PROVE  Owed(d)'
<1>. DEFINE h == Head(returning)
<1>1. /\ returning # <<>> /\ DOMAIN task' = DOMAIN task \ {h} /\ decoded' = decoded
      /\ \A t \in DOMAIN task' : task'[t].packet[1] = Owner(t) /\ task'[t].packet[2] = Number(t)
    BY ReturnNotifyQueues DEF Owner, Number
<1>2. Owner(h) # d
    <2>1. h \in DOMAIN task
        BY <1>1, OldestReturns
    <2>2. PICK b \in Address : conn[b] = d /\ conn[b] # None
        BY DEF Live
    <2>. QED
        BY <2>1, <2>2 DEF Inv, Ordered
<1>3. Owed(d)
    BY DEF Inv
<1>4. Answered(d)' = Answered(d)
    BY DEF Answered
<1>5. ASSUME NEW t \in DOMAIN task', Owner(t) = d
      PROVE  /\ Number(t) \in Answered(d) + 1 .. decoded[d]
             /\ \A u \in DOMAIN task' : Owner(u) = d /\ t < u => Number(t) < Number(u)
    BY <1>1, <1>3, <1>5 DEF Owed
<1>6. ASSUME NEW n \in Answered(d) + 1 .. decoded[d]
      PROVE  \E t \in DOMAIN task' : Owner(t) = d /\ Number(t) = n
    BY <1>1, <1>2, <1>3 DEF Owed
<1>7. \A t \in DOMAIN task' : Owner(t)' = Owner(t) /\ Number(t)' = Number(t)
    BY <1>1 DEF Owner, Number
<1>. QED
    BY <1>1, <1>3, <1>4, <1>5, <1>6, <1>7 DEF Owed

(* What is known of a connection that exists when the response of the      *)
(* oldest task has been appended to its own.                               *)
LEMMA SentTo ==
    ASSUME Inv, ReturnNotify, NEW c, c = conn[task[Head(returning)].connection], c # None
    PROVE  LET x == task[Head(returning)].packet IN
           /\ c \in Live /\ c \in Conn /\ x \in Packet
           /\ sent'[c] = Append(sent[c], x) /\ \A d \in Conn \ {c} : sent'[d] = sent[d]
           /\ sent' \in [Conn -> Seq(Packet)]
           /\ Responses(c, sent'[c], Strays(c, sent'[c]))
           /\ \A i \in 1 .. Len(sent[c]) : sent[c][i][1] <= x[1]
           /\ Answered(c)' = IF x[1] = c THEN Answered(c) + 1 ELSE Answered(c)
<1>. DEFINE h == Head(returning)
            x == task[h].packet
            s == sent[c]
            n == Strays(c, s)
<1>1. returning # <<>> /\ SendPacket(h) /\ TypeOK
    BY ReturnNotifyQueues DEF Inv
<1>2. h \in DOMAIN task /\ task[h].connection \in Address /\ x \in Packet
    BY <1>1, OldestReturns, TaskFields DEF TypeOK
<1>3. c \in Live /\ c \in Conn
    BY <1>1, <1>2, Types DEF Live
<1>4. sent' = [sent EXCEPT ![c] = Append(@, x)]
    BY <1>1 DEF SendPacket
<1>5. s \in Seq(Packet) /\ Responses(c, s, n) /\ Len(s) \in Nat /\ n \in 0 .. Len(s)
    BY <1>1, <1>3, Types DEF Inv, Responses
<1>6. sent'[c] = Append(s, x) /\ \A d \in Conn \ {c} : sent'[d] = sent[d]
    BY <1>1, <1>3, <1>4 DEF TypeOK
<1>7. Append(s, x) \in Seq(Packet) /\ Len(Append(s, x)) = Len(s) + 1
    BY <1>2, <1>5, AppendProperties
<1>8. sent' \in [Conn -> Seq(Packet)]
    BY <1>1, <1>3, <1>4, <1>7 DEF TypeOK
<1>9. x[1] <= c /\ \A i \in 1 .. Len(s) : s[i][1] <= x[1]
    <2>1. Owner(h) <= c /\ \A i \in 1 .. Len(sent[c]) : sent[c][i][1] <= Owner(h)
        BY <1>2 DEF Inv, Ordered
    <2>. QED
        BY <2>1 DEF Owner
<1>10. Answered(c)' = Len(sent'[c]) - Strays(c, sent'[c]) /\ Answered(c) = Len(s) - n
    BY DEF Answered
<1>11. CASE x[1] = c
    <2>1. x[2] = Len(s) + 1 - n
        <3>1. Owner(h) = c /\ x[2] = Number(h)
            BY <1>11 DEF Owner, Number
        <3>2. Number(h) = Answered(c) + 1
            BY <1>1, <1>3, <3>1, NextNumber
        <3>. HIDE DEF s, n, x
        <3>. QED
            BY <1>5, <1>10, <3>1, <3>2
    <2>2. Responses(c, Append(s, x), n) /\ Strays(c, Append(s, x)) = n
        <3>. HIDE DEF s, n, x
        <3>1. c \in Conn /\ s \in Seq(Packet) /\ n \in 0 .. Len(s) /\ Responses(c, s, n)
            BY <1>3, <1>5
        <3>2. x \in Packet /\ x[1] = c /\ x[2] = Len(s) + 1 - n
            BY <1>2, <1>11, <2>1
        <3>. QED
            BY <3>1, <3>2, AppendOwn
    <2>3. Answered(c)' = Answered(c) + 1
        <3>. HIDE DEF s, n, x
        <3>. QED
            BY <1>5, <1>6, <1>7, <1>10, <2>2
    <2>. QED
        BY <1>2, <1>3, <1>6, <1>8, <1>9, <1>11, <2>2, <2>3
<1>12. CASE x[1] # c
    <2>1. x[1] < c
        BY <1>2, <1>3, <1>9, <1>12, PacketParts DEF Conn
    <2>2. /\ n = Len(s) /\ Responses(c, Append(s, x), n + 1)
          /\ Strays(c, Append(s, x)) = n + 1
        <3>. HIDE DEF s, n, x
        <3>. QED
            BY <1>2, <1>3, <1>5, <1>9, <2>1, AppendStray
    <2>3. Answered(c)' = Answered(c)
        <3>. HIDE DEF s, n, x
        <3>. QED
            BY <1>5, <1>6, <1>7, <1>10, <2>2, SMTT(30)
    <2>. QED
        BY <1>2, <1>3, <1>6, <1>8, <1>9, <1>12, <2>2, <2>3
<1>. QED
    BY <1>11, <1>12

(* The listen thread sends a response and deletes its task. *)
LEMMA ReturnNotifyInv == ASSUME Inv, ReturnNotify PROVE Inv'
<1>. DEFINE h == Head(returning)
            a == task[h].connection
            x == task[h].packet
<1>. SUFFICES ASSUME NEW c, c = conn[a] PROVE Inv'
    OBVIOUS
<1>1. TypeOK /\ Queued /\ Numbered /\ Ordered
    BY DEF Inv
<1>2. /\ returning # <<>> /\ SendPacket(h)
      /\ DOMAIN task' = DOMAIN task \ {h} /\ \A t \in DOMAIN task' : task'[t] = task[t]
      /\ \A t \in DOMAIN task' : Owner(t)' = Owner(t) /\ Number(t)' = Number(t)
      /\ UNCHANGED <<conn, accepted, decoded, made, incoming>>
      /\ returning' \in Seq(1 .. made) /\ Queued'
    BY ReturnNotifyQueues
<1>3. /\ h \in DOMAIN task /\ \A t \in DOMAIN task \ {h} : h < t
      /\ a \in Address /\ x \in Packet
    BY <1>1, <1>2, OldestReturns, TaskFields DEF TypeOK
<1>4. CASE c = None
    <2>1. sent' = sent /\ dangling' = dangling \cup {x}
        BY <1>2, <1>4 DEF SendPacket
    <2>2. TypeOK'
        BY <1>1, <1>2, <1>3, <2>1 DEF TypeOK
    <2>3. Numbered'
        BY <1>1, <1>2, <2>1 DEF Numbered
    <2>4. Ordered'
        BY <1>1, <1>2, <2>1 DEF Ordered
    <2>5. \A d \in Conn : Responses(d, sent'[d], Strays(d, sent'[d]))
        BY <2>1 DEF Inv
    <2>6. Live' = Live /\ \A d \in Live : d # c
        BY <1>2, <1>4 DEF Live
    <2>7. \A d \in Live' : Owed(d)'
        BY <2>1, <2>6, OwedOthers
    <2>. QED
        BY <1>2, <2>2, <2>3, <2>4, <2>5, <2>7 DEF Inv
<1>5. CASE c # None
    <2>1. /\ c \in Live /\ c \in Conn
          /\ sent'[c] = Append(sent[c], x) /\ \A d \in Conn \ {c} : sent'[d] = sent[d]
          /\ sent' \in [Conn -> Seq(Packet)]
          /\ Responses(c, sent'[c], Strays(c, sent'[c]))
          /\ \A i \in 1 .. Len(sent[c]) : sent[c][i][1] <= x[1]
          /\ Answered(c)' = IF x[1] = c THEN Answered(c) + 1 ELSE Answered(c)
        BY <1>5, SentTo
    <2>2. dangling' = dangling
        BY <1>2, <1>5 DEF SendPacket
    <2>3. TypeOK'
        BY <1>1, <1>2, <2>1, <2>2 DEF TypeOK
    <2>4. Numbered'
        <3>1. c <= accepted /\ c \in Nat /\ accepted \in Nat
            BY <1>1, <1>3, <2>1, Types DEF Numbered
        <3>2. \A d \in Conn : d > accepted => d # c
            BY <3>1
        <3>. QED
            BY <1>1, <1>2, <2>1, <3>2 DEF Numbered
    <2>5. Ordered'
        <3>1. /\ Len(sent'[c]) = Len(sent[c]) + 1 /\ Len(sent[c]) \in Nat
              /\ sent'[c][Len(sent[c]) + 1] = x
              /\ \A i \in 1 .. Len(sent[c]) : sent'[c][i] = sent[c][i]
            <4>1. sent[c] \in Seq(Packet)
                BY <1>1, <2>1, Types
            <4>2. x \in Packet /\ sent'[c] = Append(sent[c], x)
                BY <1>3, <2>1
            <4>3. /\ Len(sent[c]) \in Nat /\ Len(Append(sent[c], x)) = Len(sent[c]) + 1
                  /\ Append(sent[c], x)[Len(sent[c]) + 1] = x
                  /\ \A i \in 1 .. Len(sent[c]) : Append(sent[c], x)[i] = sent[c][i]
                <5>. HIDE DEF x
                <5>1. Len(sent[c]) \in Nat
                    BY <4>1, LenProperties
                <5>2. x \in Packet
                    BY <4>2
                <5>3. Len(Append(sent[c], x)) = Len(sent[c]) + 1
                    BY <4>1, <5>2, AppendProperties
                <5>4. Append(sent[c], x)[Len(sent[c]) + 1] = x
                    BY <4>1, <5>2, AppendProperties, SMTT(30)
                <5>5. \A i \in 1 .. Len(sent[c]) : Append(sent[c], x)[i] = sent[c][i]
                    BY <4>1, <5>2, AppendProperties
                <5>. QED
                    BY <5>1, <5>3, <5>4, <5>5
            <4>. QED
                BY <4>2, <4>3
        <3>2. ASSUME NEW t \in DOMAIN task', task[t].connection = a,
                     NEW i \in 1 .. Len(sent'[c])
              PROVE  sent'[c][i][1] <= Owner(t)
            <4>1. CASE i \in 1 .. Len(sent[c])
                BY <1>1, <1>2, <1>3, <1>5, <3>1, <3>2, <4>1 DEF Ordered
            <4>2. CASE i = Len(sent[c]) + 1
                <5>1. Owner(h) <= Owner(t)
                    BY <1>1, <1>2, <1>3, <3>2 DEF Ordered
                <5>. QED
                    BY <3>1, <4>2, <5>1 DEF Owner
            <4>. QED
                <5>1. i \in 1 .. Len(sent[c]) + 1 /\ Len(sent[c]) \in Nat
                    BY <3>1, <3>2
                <5>2. i \in 1 .. Len(sent[c]) \/ i = Len(sent[c]) + 1
                    BY <5>1
                <5>. QED
                    BY <4>1, <4>2, <5>2
        <3>3. ASSUME NEW b \in Address, NEW t \in DOMAIN task', conn[b] # None
              PROVE  /\ Owner(t) = conn[b] => task[t].connection = b
                     /\ task[t].connection = b =>
                           /\ Owner(t) <= conn[b]
                           /\ \A i \in 1 .. Len(sent'[conn[b]]) : sent'[conn[b]][i][1] <= Owner(t)
            <4>1. CASE b = a
                BY <1>1, <1>2, <1>5, <3>2, <4>1 DEF Ordered
            <4>2. CASE b # a
                <5>1. conn[b] # c /\ conn[b] \in Conn
                    BY <1>1, <1>3, <1>5, <3>3, <4>2, Types DEF Numbered
                <5>2. sent'[conn[b]] = sent[conn[b]]
                    BY <2>1, <5>1
                <5>. QED
                    BY <1>1, <1>2, <3>3, <5>2 DEF Ordered
            <4>. QED
                BY <4>1, <4>2
        <3>4. \A t, u \in DOMAIN task' :
                 t < u /\ task[t].connection = task[u].connection => Owner(t) <= Owner(u)
            BY <1>1, <1>2 DEF Ordered
        <3>. QED
            BY <1>2, <3>3, <3>4 DEF Ordered
    <2>6. \A d \in Conn : Responses(d, sent'[d], Strays(d, sent'[d]))
        BY <2>1 DEF Inv
    <2>7. Live' = Live
        BY <1>2 DEF Live
    <2>8. Owed(c)'
        <3>1. Owed(c) /\ decoded' = decoded
            BY <1>2, <2>1 DEF Inv
        <3>2. Answered(c) \in Nat /\ decoded[c] \in Nat
            <4>1. Responses(c, sent[c], Strays(c, sent[c])) /\ Len(sent[c]) \in Nat
                BY <1>1, <2>1, Types DEF Inv
            <4>2. decoded[c] \in Nat
                BY <1>1, <2>1, Types
            <4>3. Strays(c, sent[c]) \in 0 .. Len(sent[c])
                BY <4>1 DEF Responses
            <4>4. \A m \in Nat : \A n \in 0 .. m : m - n \in Nat
                OBVIOUS
            <4>. QED
                BY <4>1, <4>2, <4>3, <4>4 DEF Answered
        <3>3. CASE x[1] = c
            <4>1. Owner(h) = c /\ Number(h) = Answered(c) + 1 /\ Answered(c) < decoded[c]
                <5>1. Owner(h) = c
                    BY <3>3 DEF Owner
                <5>. QED
                    BY <1>2, <2>1, <5>1, NextNumber
            <4>2. Answered(c)' = Answered(c) + 1
                BY <2>1, <3>3
            <4>3. ASSUME NEW t \in DOMAIN task', Owner(t) = c
                  PROVE  /\ Number(t) \in Answered(c) + 2 .. decoded[c]
                         /\ \A u \in DOMAIN task' : Owner(u) = c /\ t < u => Number(t) < Number(u)
                <5>1. t \in DOMAIN task /\ h < t
                    BY <1>2, <1>3
                <5>2. /\ Number(t) \in Answered(c) + 1 .. decoded[c] /\ Number(h) < Number(t)
                      /\ \A u \in DOMAIN task : Owner(u) = c /\ t < u => Number(t) < Number(u)
                    BY <1>3, <3>1, <4>1, <4>3, <5>1 DEF Owed
                <5>. QED
                    BY <1>2, <3>2, <4>1, <5>2, SMTT(30)
            <4>4. ASSUME NEW n \in Answered(c) + 2 .. decoded[c]
                  PROVE  \E t \in DOMAIN task' : Owner(t) = c /\ Number(t) = n
                <5>1. n \in Answered(c) + 1 .. decoded[c] /\ n # Answered(c) + 1
                    BY <3>2
                <5>2. PICK t \in DOMAIN task : Owner(t) = c /\ Number(t) = n
                    BY <3>1, <5>1 DEF Owed
                <5>. QED
                    BY <1>2, <4>1, <5>1, <5>2
            <4>5. Answered(c) + 1 + 1 = Answered(c) + 2 /\ Answered(c) + 1 <= decoded[c]
                BY <3>2, <4>1
            <4>. QED
                <5>1. /\ Answered(c)' <= decoded'[c]
                      /\ \A n : n \in Answered(c)' + 1 .. decoded'[c] <=> n \in Answered(c) + 2 .. decoded[c]
                    BY <3>1, <4>2, <4>5
                <5>2. ASSUME NEW t \in DOMAIN task', Owner(t)' = c
                      PROVE  /\ Number(t)' \in Answered(c)' + 1 .. decoded'[c]
                             /\ \A u \in DOMAIN task' : Owner(u)' = c /\ t < u => Number(t)' < Number(u)'
                    BY <1>2, <4>3, <5>1, <5>2
                <5>3. ASSUME NEW n \in Answered(c)' + 1 .. decoded'[c]
                      PROVE  \E t \in DOMAIN task' : Owner(t)' = c /\ Number(t)' = n
                    BY <1>2, <4>4, <5>1
                <5>. QED
                    BY <5>1, <5>2, <5>3 DEF Owed
        <3>4. CASE x[1] # c
            <4>1. Answered(c)' = Answered(c) /\ Owner(h) # c
                BY <2>1, <3>4 DEF Owner
            <4>2. ASSUME NEW t \in DOMAIN task', Owner(t) = c
                  PROVE  /\ Number(t) \in Answered(c) + 1 .. decoded[c]
                         /\ \A u \in DOMAIN task' : Owner(u) = c /\ t < u => Number(t) < Number(u)
                BY <1>2, <3>1, <4>2 DEF Owed
            <4>3. ASSUME NEW n \in Answered(c) + 1 .. decoded[c]
                  PROVE  \E t \in DOMAIN task' : Owner(t) = c /\ Number(t) = n
                BY <1>2, <3>1, <4>1 DEF Owed
            <4>. QED
                <5>1. /\ Answered(c)' <= decoded'[c]
                      /\ \A n : n \in Answered(c)' + 1 .. decoded'[c] <=> n \in Answered(c) + 1 .. decoded[c]
                    BY <3>1, <4>1 DEF Owed
                <5>2. ASSUME NEW t \in DOMAIN task', Owner(t)' = c
                      PROVE  /\ Number(t)' \in Answered(c)' + 1 .. decoded'[c]
                             /\ \A u \in DOMAIN task' : Owner(u)' = c /\ t < u => Number(t)' < Number(u)'
                    BY <1>2, <4>2, <5>1, <5>2
                <5>3. ASSUME NEW n \in Answered(c)' + 1 .. decoded'[c]
                      PROVE  \E t \in DOMAIN task' : Owner(t)' = c /\ Number(t)' = n
                    BY <1>2, <4>3, <5>1
                <5>. QED
                    BY <5>1, <5>2, <5>3 DEF Owed
        <3>. QED
            BY <3>3, <3>4
    <2>9. ASSUME NEW d \in Live, d # c PROVE Owed(d)'
        <3>1. sent'[d] = sent[d]
            BY <1>1, <2>1, <2>9, Types DEF Live
        <3>. QED
            BY <2>9, <3>1, OwedOthers
    <2>. QED
        <3>1. \A d \in Live' : Owed(d)'
            BY <2>7, <2>8, <2>9
        <3>. QED
            BY <1>2, <2>3, <2>4, <2>5, <2>6, <3>1 DEF Inv
<1>. QED
    BY <1>4, <1>5

(* The invariant holds in every step. *)
LEMMA NextInv == Inv /\ [Next]_vars => Inv'
<1>. SUFFICES ASSUME Inv, [Next]_vars PROVE Inv'
    OBVIOUS
<1>1. ASSUME NEW a \in Address, Accept(a) PROVE Inv'
    BY <1>1, AcceptInv
<1>2. ASSUME NEW a \in Address, Delete(a) PROVE Inv'
    BY <1>2, DeleteInv
<1>3. ASSUME NEW a \in Address, OnPacket(a) PROVE Inv'
    BY <1>3, OnPacketInv
<1>4. CASE WorkNotify
    BY <1>4, WorkNotifyInv
<1>5. CASE ReturnNotify
    BY <1>5, ReturnNotifyInv
<1>6. CASE UNCHANGED vars
    <2>1. /\ UNCHANGED <<conn, accepted, decoded, sent>>
          /\ UNCHANGED <<task, made, incoming, returning, dangling>>
        BY <1>6 DEF vars
    <2>2. TypeOK' /\ Queued' /\ Live' = Live
        BY <2>1 DEF Inv, TypeOK, Queued, Oldest, Unanswered, Live
    <2>3. Numbered' /\ Ordered' /\ \A c \in Live' : Owed(c)'
        BY <2>1, PathStill DEF Inv
    <2>. QED
        BY <2>1, <2>2, <2>3 DEF Inv
<1>. QED
    BY <1>1, <1>2, <1>3, <1>4, <1>5, <1>6 DEF Next

LEMMA Invariant == SafetySpec => []Inv
<1>. QED
    BY InitInv, NextInv, PTL DEF SafetySpec

(* TypeOK holds in every state. *)
THEOREM TaskTypeCorrect == SafetySpec => []TypeOK
<1>1. Inv => TypeOK
    BY DEF Inv
<1>. QED
    BY <1>1, Invariant, PTL

(* Every live CTask is in one of the two pipes of the CTaskPipe, once, and *)
(* whatever is in a pipe is a live CTask.                                  *)
THEOREM TasksInOnePlace == SafetySpec => []OnePlace
<1>1. ASSUME Inv PROVE OnePlace
    <2>. DEFINE I == Len(incoming)
                R == Len(returning)
                both == incoming \o returning
    <2>1. TypeOK /\ Queued
        BY <1>1 DEF Inv
    <2>2. /\ made \in Nat /\ I \in Nat /\ R \in Nat
          /\ incoming \in Seq(Nat) /\ returning \in Seq(Nat)
        BY <2>1, Types
    <2>3. /\ both \in Seq(Nat) /\ Len(both) = I + R /\ DOMAIN both = 1 .. I + R
          /\ \A i \in 1 .. I + R : both[i] = IF i <= I THEN incoming[i] ELSE returning[i - I]
        BY <2>2, ConcatProperties, LenProperties
    <2>4. \A i \in 1 .. I + R : both[i] = IF i <= I THEN made - I + i ELSE made - I - R + (i - I)
        <3>. SUFFICES ASSUME NEW i \in 1 .. I + R
                      PROVE  both[i] = IF i <= I THEN made - I + i ELSE made - I - R + (i - I)
            OBVIOUS
        <3>1. CASE i <= I
            <4>1. incoming[i] = Unanswered - 1 + i
                BY <2>1, <2>2, <3>1 DEF Queued
            <4>. QED
                BY <2>2, <2>3, <3>1, <4>1 DEF Unanswered
        <3>2. CASE i > I
            <4>1. i - I \in 1 .. R
                BY <2>2, <3>2
            <4>2. returning[i - I] = Oldest - 1 + (i - I)
                BY <2>1, <4>1 DEF Queued
            <4>. QED
                BY <2>2, <2>3, <3>2, <4>2 DEF Oldest
        <3>. QED
            BY <2>2, <3>1, <3>2
    <2>5. DOMAIN task = made - I - R + 1 .. made /\ made - I - R + 1 >= 1
        BY <2>1 DEF Queued, Oldest
    <2>. HIDE DEF I, R, both
    <2>6. IsInjective(both)
        <3>1. ASSUME NEW i \in 1 .. I + R, NEW j \in 1 .. I + R, both[i] = both[j] PROVE i = j
            <4>1. /\ both[i] = IF i <= I THEN made - I + i ELSE made - I - R + (i - I)
                  /\ both[j] = IF j <= I THEN made - I + j ELSE made - I - R + (j - I)
                BY <2>4
            <4>2. (IF i <= I THEN made - I + i ELSE made - I - R + (i - I))
                     = IF j <= I THEN made - I + j ELSE made - I - R + (j - I)
                BY <3>1, <4>1
            <4>3. \A x \in Nat : \A k, l \in 1 .. I + R :
                     (IF k <= I THEN x - I + k ELSE x - I - R + (k - I))
                        = (IF l <= I THEN x - I + l ELSE x - I - R + (l - I)) => k = l
                BY <2>2
            <4>. QED
                BY <2>2, <4>2, <4>3
        <3>. QED
            BY <2>3, <3>1 DEF IsInjective
    <2>7. ASSUME NEW i \in 1 .. I + R PROVE both[i] \in DOMAIN task
        <3>1. both[i] = IF i <= I THEN made - I + i ELSE made - I - R + (i - I)
            BY <2>4
        <3>. QED
            BY <2>2, <2>5, <3>1
    <2>8. ASSUME NEW t \in DOMAIN task PROVE \E i \in 1 .. I + R : both[i] = t
        <3>1. CASE t > made - I
            <4>. DEFINE i == t - (made - I)
            <4>1. i \in 1 .. I + R /\ i <= I /\ made - I + i = t
                BY <2>2, <2>5, <3>1
            <4>. HIDE DEF i
            <4>. QED
                BY <2>4, <4>1
        <3>2. CASE t <= made - I
            <4>. DEFINE i == t - (made - I - R) + I
            <4>1. i \in 1 .. I + R /\ ~(i <= I) /\ made - I - R + (i - I) = t
                BY <2>2, <2>5, <3>2
            <4>. HIDE DEF i
            <4>. QED
                BY <2>4, <4>1
        <3>. QED
            BY <2>2, <2>5, <3>1, <3>2
    <2>9. Range(both) = DOMAIN task
        BY <2>3, <2>7, <2>8 DEF Range
    <2>. QED
        BY <2>6, <2>9 DEF OnePlace, both
<1>. QED
    BY <1>1, Invariant, PTL

(* A response that goes astray because an address is used again, goes to a *)
(* younger connection, and before every response of that one's own.        *)
THEOREM StraysComeFirst == SafetySpec => []StrayFirst
<1>1. ASSUME Inv PROVE StrayFirst
    <2>. SUFFICES ASSUME NEW c \in Conn, NEW i \in 1 .. Len(sent[c])
                  PROVE  sent[c][i][1] <= c /\ \A j \in 1 .. i : sent[c][j][1] <= sent[c][i][1]
        BY DEF StrayFirst
    <2>. DEFINE n == Strays(c, sent[c])
    <2>1. Responses(c, sent[c], n) /\ c \in Nat
        BY <1>1 DEF Inv, Conn
    <2>2. Len(sent[c]) \in Nat /\ \A j \in 1 .. Len(sent[c]) : sent[c][j][1] \in Nat
        BY <1>1, Types DEF Inv
    <2>. HIDE DEF n
    <2>3. CASE i <= n
        BY <2>1, <2>2, <2>3 DEF Responses
    <2>4. CASE i > n
        <3>1. /\ \A j \in 1 .. n : sent[c][j][1] < c
              /\ \A j \in n + 1 .. Len(sent[c]) : sent[c][j][1] = c
              /\ n \in 0 .. Len(sent[c])
            BY <2>1 DEF Responses
        <3>. QED
            BY <2>1, <2>2, <2>4, <3>1, SMTT(30)
    <2>. QED
        BY <2>1, <2>2, <2>3, <2>4 DEF Responses
<1>. QED
    BY <1>1, Invariant, PTL

(* What Own makes of the responses of a connection: 1, 2, 3 and so on. *)
LEMMA OwnOf ==
    ASSUME NEW c \in Conn, NEW s \in Seq(Packet), Responses(c, s, Strays(c, s))
    PROVE  /\ Len(s) - Strays(c, s) \in Nat
           /\ Own(c, s) = [i \in 1 .. Len(s) - Strays(c, s) |-> i]
<1>. DEFINE n == Strays(c, s)
<1>1. Len(s) \in Nat /\ n \in 0 .. Len(s) /\ \A i \in n + 1 .. Len(s) : s[i] = <<c, i - n>>
    BY LenProperties DEF Responses
<1>. HIDE DEF n
<1>2. ASSUME NEW i \in 1 .. Len(s) - n PROVE s[n + i][2] = i
    <2>1. n + i \in n + 1 .. Len(s) /\ (n + i) - n = i
        BY <1>1
    <2>2. s[n + i] = <<c, (n + i) - n>>
        BY <1>1, <2>1
    <2>. QED
        BY <2>1, <2>2
<1>. QED
    BY <1>1, <1>2 DEF Own, n

(* One more of them. *)
LEMMA OneMore ==
    ASSUME NEW k \in Nat
    PROVE  [i \in 1 .. k + 1 |-> i] = Append([i \in 1 .. k |-> i], Len([i \in 1 .. k |-> i]) + 1)
<1>. DEFINE s == [i \in 1 .. k |-> i]
            r == Append(s, Len(s) + 1)
<1>1. s \in Seq(Nat) /\ Len(s) = k
    OBVIOUS
<1>2. /\ r \in Seq(Nat) /\ Len(r) = k + 1 /\ r[k + 1] = k + 1
      /\ \A i \in 1 .. k : r[i] = s[i]
    <2>. HIDE DEF s
    <2>. QED
        BY <1>1, AppendProperties
<1>3. [i \in 1 .. k + 1 |-> i] \in Seq(Nat) /\ Len([i \in 1 .. k + 1 |-> i]) = k + 1
    OBVIOUS
<1>4. \A i \in 1 .. k + 1 : r[i] = [j \in 1 .. k + 1 |-> j][i]
    BY <1>2
<1>. HIDE DEF r
<1>5. r = [i \in 1 .. k + 1 |-> i]
    BY <1>2, <1>3, <1>4, SeqEqual
<1>. QED
    BY <1>5 DEF r

(* Seen from the clients: what each connection has been answered. *)
Answers == [c \in Conn |-> Own(c, sent[c])]

(* A response that is sent is the next answer of its connection, or a      *)
(* stray, which is none.                                                   *)
LEMMA ReturnNotifyAnswers ==
    ASSUME Inv, Inv', ReturnNotify
    PROVE  \/ Answers' = Answers
           \/ \E c \in Live : /\ c \in Conn /\ Len(Answers[c]) < decoded[c]
                              /\ Answers' = [Answers EXCEPT ![c] = Append(@, Len(@) + 1)]
<1>. SUFFICES ASSUME NEW c, c = conn[task[Head(returning)].connection]
              PROVE  \/ Answers' = Answers
                     \/ \E d \in Live : /\ d \in Conn /\ Len(Answers[d]) < decoded[d]
                                        /\ Answers' = [Answers EXCEPT ![d] = Append(@, Len(@) + 1)]
    OBVIOUS
<1>1. CASE c = None
    <2>1. sent' = sent
        BY <1>1, ReturnNotifyQueues DEF SendPacket
    <2>. QED
        BY <2>1 DEF Answers
<1>2. CASE c # None
    <2>. DEFINE x == task[Head(returning)].packet
    <2>1. /\ c \in Live /\ c \in Conn
          /\ \A d \in Conn \ {c} : sent'[d] = sent[d]
          /\ Answered(c)' = IF x[1] = c THEN Answered(c) + 1 ELSE Answered(c)
        BY <1>2, SentTo
    <2>2. /\ Answered(c) \in Nat /\ Own(c, sent[c]) = [i \in 1 .. Answered(c) |-> i]
          /\ Own(c, sent'[c]) = [i \in 1 .. Answered(c)' |-> i]
        <3>1. /\ sent[c] \in Seq(Packet) /\ Responses(c, sent[c], Strays(c, sent[c]))
              /\ sent'[c] \in Seq(Packet) /\ Responses(c, sent'[c], Strays(c, sent'[c]))
            BY <2>1 DEF Inv, TypeOK
        <3>. QED
            BY <2>1, <3>1, OwnOf DEF Answered
    <2>3. /\ Answers \in [Conn -> {Answers[d] : d \in Conn}]
          /\ \A d \in Conn : Answers[d] = Own(d, sent[d])
          /\ Answers' = [d \in Conn |-> Own(d, sent'[d])]
        BY DEF Answers
    <2>4. CASE x[1] # c
        <3>1. Own(c, sent'[c]) = Own(c, sent[c])
            BY <2>1, <2>2, <2>4
        <3>2. \A d \in Conn : Own(d, sent'[d]) = Own(d, sent[d])
            BY <2>1, <3>1
        <3>. QED
            BY <3>2 DEF Answers
    <2>5. CASE x[1] = c
        <3>1. Answered(c) < decoded[c]
            <4>1. Owner(Head(returning)) = c
                BY <2>5 DEF Owner
            <4>2. returning # <<>>
                BY ReturnNotifyQueues
            <4>. QED
                BY <2>1, <4>1, <4>2, NextNumber
        <3>2. Own(c, sent'[c]) = Append(Own(c, sent[c]), Len(Own(c, sent[c])) + 1)
            BY <2>1, <2>2, <2>5, OneMore
        <3>3. Len(Answers[c]) = Answered(c)
            <4>1. Answers[c] = [i \in 1 .. Answered(c) |-> i]
                BY <2>1, <2>2, <2>3
            <4>2. \A n \in Nat : Len([i \in 1 .. n |-> i]) = n
                OBVIOUS
            <4>. QED
                BY <2>2, <4>1, <4>2
        <3>4. Answers' = [Answers EXCEPT ![c] = Append(@, Len(@) + 1)]
            <4>1. \A d \in Conn \ {c} : Own(d, sent'[d]) = Own(d, sent[d])
                BY <2>1
            <4>2. Answers = [d \in Conn |-> Own(d, sent[d])]
                BY DEF Answers
            <4>3. Own(c, sent'[c]) = Append(Answers[c], Len(Answers[c]) + 1)
                BY <2>1, <2>3, <3>2
            <4>. QED
                BY <2>1, <2>3, <4>1, <4>2, <4>3, ZenonT(30)
        <3>. QED
            BY <2>1, <3>1, <3>3, <3>4
    <2>. QED
        BY <2>4, <2>5
<1>. QED
    BY <1>1, <1>2

(* Every request of a connection is answered at most once, on that         *)
(* connection, in the order of the requests, and never after the           *)
(* connection is gone: the service implements Service.                     *)
THEOREM KeepsThePromise == SafetySpec => ServiceSafety
<1>1. Init => Client!Init
    <2>. SUFFICES ASSUME Init PROVE Client!Init
        OBVIOUS
    <2>1. /\ conn = [a \in Address |-> 0] /\ decoded = [c \in Conn |-> 0]
          /\ sent = [c \in Conn |-> <<>>]
        BY DEF Init, None
    <2>2. Live = {}
        BY <2>1 DEF Live, None
    <2>3. ASSUME NEW c \in Conn PROVE Own(c, sent[c]) = <<>>
        <3>1. <<>> \in Seq(Packet) /\ Responses(c, <<>>, 0)
            BY DEF Responses
        <3>2. Strays(c, <<>>) = 0
            <4>1. c \in Nat
                BY DEF Conn
            <4>. QED
                BY <3>1, <4>1, StraysOf
        <3>3. Own(c, <<>>) = [i \in 1 .. Len(<<>>) - 0 |-> i]
            BY <3>1, <3>2, OwnOf
        <3>4. Len(<<>>) - 0 = 0 /\ [i \in 1 .. 0 |-> i] = <<>>
            OBVIOUS
        <3>. QED
            BY <2>1, <3>3, <3>4
    <2>. QED
        BY <2>1, <2>2, <2>3 DEF Client!Init
<1>2. ASSUME Inv, Inv', [Next]_vars PROVE [Client!Next]_(Client!vars)
    <2>. USE DEF Client!vars, Client!Next
    <2>1. TypeOK /\ Numbered
        BY <1>2 DEF Inv
    <2>2. ASSUME NEW a \in Address, Accept(a) PROVE [Client!Next]_(Client!vars)
        <3>. DEFINE c == accepted + 1
        <3>1. /\ conn[a] = None /\ conn' = [conn EXCEPT ![a] = c]
              /\ UNCHANGED <<decoded, sent>> /\ accepted < MaxConn
            BY <2>2 DEF Accept
        <3>2. c \in Conn /\ c # None /\ accepted \in Nat
            BY <2>1, <3>1, Types, TaskPathAssumption DEF Conn, None
        <3>3. c \notin Live /\ decoded[c] = 0
            <4>1. \A b \in Address : conn[b] \in Nat /\ conn[b] <= accepted
                BY <2>1, Types DEF Numbered
            <4>. QED
                BY <2>1, <3>2, <4>1 DEF Numbered, Live
        <3>4. Live' = Live \cup {c}
            BY <2>1, <3>1, <3>2 DEF Live, TypeOK
        <3>5. Client!Open(c)
            BY <3>1, <3>3, <3>4 DEF Client!Open
        <3>. QED
            BY <3>2, <3>5
    <2>3. ASSUME NEW a \in Address, Delete(a) PROVE [Client!Next]_(Client!vars)
        <3>1. /\ conn[a] # None /\ conn' = [conn EXCEPT ![a] = None]
              /\ UNCHANGED <<decoded, sent>>
            BY <2>3 DEF Delete
        <3>2. conn[a] \in Conn /\ conn[a] \in Live
            BY <2>1, <3>1, Types DEF Live
        <3>3. Live' = Live \ {conn[a]}
            BY <2>1, <3>1 DEF Live, TypeOK, Numbered
        <3>4. Client!Close(conn[a])
            BY <3>1, <3>2, <3>3 DEF Client!Close
        <3>. QED
            BY <3>2, <3>4
    <2>4. ASSUME NEW a \in Address, OnPacket(a) PROVE [Client!Next]_(Client!vars)
        <3>1. /\ conn[a] # None /\ decoded' = [decoded EXCEPT ![conn[a]] = @ + 1]
              /\ UNCHANGED <<conn, sent>>
            BY <2>4 DEF OnPacket
        <3>2. conn[a] \in Conn /\ conn[a] \in Live /\ Live' = Live
            BY <2>1, <3>1, Types DEF Live
        <3>3. Client!Ask(conn[a])
            BY <3>1, <3>2 DEF Client!Ask
        <3>. QED
            BY <3>2, <3>3
    <2>5. CASE WorkNotify
        BY <2>5 DEF WorkNotify, Live
    <2>6. CASE ReturnNotify
        <3>1. conn' = conn /\ decoded' = decoded /\ Live' = Live
            BY <2>6, ReturnNotifyQueues, <1>2 DEF Live
        <3>2. CASE Answers' = Answers
            BY <3>1, <3>2 DEF Answers
        <3>3. ASSUME NEW c \in Live, c \in Conn, Len(Answers[c]) < decoded[c],
                     Answers' = [Answers EXCEPT ![c] = Append(@, Len(@) + 1)]
              PROVE  Client!Next
            <4>1. Client!Answer(c)
                BY <3>1, <3>3 DEF Client!Answer, Answers
            <4>. QED
                BY <3>3, <4>1
        <3>. QED
            BY <1>2, <2>6, <3>2, <3>3, ReturnNotifyAnswers
    <2>7. CASE UNCHANGED vars
        BY <2>7 DEF vars, Live
    <2>. QED
        BY <1>2, <2>2, <2>3, <2>4, <2>5, <2>6, <2>7 DEF Next
<1>. QED
    BY <1>1, <1>2, Invariant, PTL DEF SafetySpec, ServiceSafety, Client!Spec
-----------------------------------------------------------------------------
(***************************************************************************)
(* One pipe of the path, for every K, sizeof(T), PIPE_BUF, pipe capacity   *)
(* and bound.  The types and the volume invariant are inductive together;  *)
(* the order invariant needs, beside InOrder, that the offset is 0 until a *)
(* write is partial: that is what keeps the wrong address in OutputNotify  *)
(* and the wrong reset in Push from doing harm.                            *)
(***************************************************************************)

(* What a write may take. *)
LEMMA AcceptedBounds ==
    ASSUME PipeTypeOK, NEW n \in Nat, NEW m \in Accepted(n)
    PROVE  m \in Nat /\ m <= n /\ m <= PipeCap - Len(pipe)
<1>. PipeCap \in Nat /\ PipeBuf \in Nat /\ Len(pipe) \in Nat /\ Len(pipe) <= PipeCap
    BY PipeQueueAssumption, EmptySeq DEF PipeTypeOK
<1>. QED
    BY SMTT(30) DEF Accepted, Min2

(* The types a write leaves behind. *)
LEMMA WriteOutType ==
    ASSUME PipeTypeOK, NEW buf \in Seq(Nat), NEW off \in 0 .. Len(buf), WriteOut(buf, off)
    PROVE  /\ m_buf' \in Seq(Nat) /\ m_data_size_offset' \in 0 .. Len(m_buf')
           /\ Len(m_buf') <= Len(buf)
           /\ output' \in BOOLEAN /\ torn' \in BOOLEAN
           /\ pipe' \in Seq(Nat) /\ Len(pipe') <= PipeCap
<1>1. Len(buf) \in Nat /\ Len(buf) - off \in Nat /\ off \in Nat
    BY EmptySeq
<1>2. PICK m \in Accepted(Len(buf) - off) :
            /\ pipe' = pipe \o Written(buf, off, m)
            /\ Drain(buf, off, m)
            /\ torn' = (torn \/ (0 < m /\ m < Len(buf) - off))
    BY DEF WriteOut
<1>3. m \in Nat /\ m <= Len(buf) - off /\ m <= PipeCap - Len(pipe)
    BY <1>1, AcceptedBounds
<1>4. Written(buf, off, m) \in Seq(Nat) /\ Len(Written(buf, off, m)) = m
    <2>1. \A k \in 1 .. m : (IF W * off + k <= Len(buf) THEN buf[W * off + k] ELSE Stray) \in Nat
        <3>1. W * off \in Nat
            BY <1>1, PipeQueueAssumption
        <3>2. \A j \in 1 .. Len(buf) : buf[j] \in Nat
            BY ElementOfSeq
        <3>. QED
            BY <1>1, <1>3, <3>1, <3>2, SMTT(30) DEF Stray
    <2>2. Written(buf, off, m) \in [1 .. m -> Nat]
        BY <2>1 DEF Written
    <2>. QED
        BY <1>3, <2>2
<1>5. pipe' \in Seq(Nat) /\ Len(pipe') <= PipeCap
    <2>1. pipe \in Seq(Nat) /\ Len(pipe) \in Nat /\ PipeCap \in Nat
        BY PipeQueueAssumption, EmptySeq DEF PipeTypeOK
    <2>. QED
        BY <1>2, <1>3, <1>4, <2>1, ConcatProperties
<1>6. /\ m_buf' \in Seq(Nat) /\ m_data_size_offset' \in 0 .. Len(m_buf')
      /\ Len(m_buf') <= Len(buf) /\ output' \in BOOLEAN
    <2>1. CASE off + m >= Len(buf)
        <3>1. m_buf' = <<>> /\ m_data_size_offset' = 0 /\ output' = FALSE
            BY <1>2, <2>1 DEF Drain
        <3>2. <<>> \in Seq(Nat) /\ Len(<<>>) = 0
            BY EmptySeq
        <3>3. m_buf' \in Seq(Nat) /\ Len(m_buf') = 0
            BY <3>1, <3>2
        <3>4. m_data_size_offset' \in 0 .. Len(m_buf')
            BY <3>1, <3>3
        <3>5. output' \in BOOLEAN
            BY <3>1
        <3>. QED
            BY <1>1, <3>3, <3>4, <3>5
    <2>2. CASE ~(off + m >= Len(buf))
        <3>1. m_buf' = buf /\ m_data_size_offset' = off + m /\ output' = TRUE
            BY <1>2, <2>2 DEF Drain
        <3>. QED
            BY <1>1, <1>3, <2>2, <3>1
    <2>. QED
        BY <2>1, <2>2
<1>. QED
    BY <1>2, <1>5, <1>6 DEF PipeTypeOK

(* What Push has in its buffer before a write it may make. *)
LEMMA KeptType ==
    ASSUME PipeTypeOK, WithinVolume, m_buf_volume > 0, NEW data \in Nat
    PROVE  /\ Kept \in Seq(Nat)
           /\ Append(Kept, data) \in Seq(Nat)
           /\ Len(Append(Kept, data)) = Len(Kept) + 1
           /\ (IF Full THEN 0 ELSE m_data_size_offset) \in 0 .. Len(Kept)
           /\ Len(Kept) + 1 <= (IF Grows THEN 2 * m_buf_volume ELSE m_buf_volume)
<1>1. /\ m_buf \in Seq(Nat) /\ Len(m_buf) \in Nat /\ m_buf_volume \in Nat
      /\ m_data_size_offset \in 0 .. Len(m_buf) /\ \A i \in 1 .. Len(m_buf) : m_buf[i] \in Nat
    BY EmptySeq, ElementOfSeq DEF PipeTypeOK
<1>2. Kept \in Seq(Nat) /\ Len(Kept) \in Nat
      /\ Len(Kept) = IF Compacts THEN Len(m_buf) - m_data_size_offset ELSE Len(m_buf)
    <2>1. SubSeq(m_buf, m_data_size_offset + 1, Len(m_buf)) \in Seq(Nat)
          /\ Len(SubSeq(m_buf, m_data_size_offset + 1, Len(m_buf))) = Len(m_buf) - m_data_size_offset
        BY <1>1, SubSeqProperties
    <2>. QED
        BY <1>1, <2>1 DEF Kept
<1>. QED
    BY <1>1, <1>2, AppendProperties DEF Compacts, Grows, Full, WithinVolume

(* Popping gives an element and keeps both places within their capacity. *)
LEMMA PopType ==
    ASSUME PipeTypeOK, Pop
    PROVE  /\ Popped \in Nat
           /\ rbuf' \in Seq(Nat) /\ Len(rbuf') <= K
           /\ pipe' \in Seq(Nat) /\ Len(pipe') <= PipeCap
<1>1. /\ rbuf \in Seq(Nat) /\ pipe \in Seq(Nat) /\ Len(rbuf) \in Nat /\ Len(pipe) \in Nat
      /\ Len(rbuf) <= K /\ Len(pipe) <= PipeCap /\ K \in Nat \ {0} /\ PipeCap \in Nat
    BY PipeQueueAssumption, EmptySeq DEF PipeTypeOK
<1>2. CASE rbuf # <<>> /\ rbuf' = Tail(rbuf) /\ UNCHANGED pipe
    BY <1>1, <1>2, HeadTailProperties DEF Popped
<1>3. CASE /\ rbuf = <<>> /\ pipe # <<>> /\ rbuf' = SubSeq(pipe, 2, ReadSize)
           /\ pipe' = SubSeq(pipe, ReadSize + 1, Len(pipe))
    <2>1. ReadSize \in 1 .. Len(pipe) /\ ReadSize <= K
        BY <1>1, <1>3, EmptySeq DEF ReadSize, Min2
    <2>2. Popped \in Nat
        BY <1>1, <1>3, HeadTailProperties DEF Popped
    <2>3. rbuf' \in Seq(Nat) /\ Len(rbuf') <= ReadSize
        BY <1>1, <1>3, <2>1, TailSplit, SMTT(30)
    <2>4. pipe' \in Seq(Nat) /\ Len(pipe') <= Len(pipe)
        BY <1>1, <1>3, <2>1, TailSplit
    <2>. QED
        BY <1>1, <2>1, <2>2, <2>3, <2>4
<1>. QED
    BY <1>2, <1>3 DEF Pop

(* The writer's buffer has room for what Push stores, torn writes or not. *)
Bounded == PipeTypeOK /\ WithinVolume /\ m_buf_volume > 0

LEMMA BoundedInit == PipeInit => Bounded
<1>1. <<>> \in Seq(Nat) /\ Len(<<>>) = 0
    BY EmptySeq
<1>2. K \in Nat \ {0} /\ PipeCap \in Nat /\ 0 \in 0 .. 0 /\ 0 \in 0 .. 2 * K
      /\ Loads \subseteq Nat
    BY PipeQueueAssumption
<1>3. PipeInit => output \in BOOLEAN /\ torn \in BOOLEAN
    BY DEF PipeInit
<1>. QED
    BY <1>1, <1>2, <1>3 DEF PipeInit, Bounded, PipeTypeOK, WithinVolume

LEMMA BoundedStep == Bounded /\ [PipeNext]_pipeVars => Bounded'
<1> SUFFICES ASSUME Bounded, [PipeNext]_pipeVars PROVE Bounded'
    OBVIOUS
<1>. USE DEF Bounded
<1>0. K \in Nat \ {0} /\ m_buf_volume \in Nat /\ task_num \in 0 .. 2 * K /\ refused \in Nat
    BY PipeQueueAssumption DEF PipeTypeOK
<1>1. CASE Push
    <2>. DEFINE buf == Append(Kept, pushed + 1)
                off == IF Full THEN 0 ELSE m_data_size_offset
    <2>1. pushed + 1 \in Nat
        BY DEF PipeTypeOK
    <2>2. /\ buf \in Seq(Nat) /\ off \in 0 .. Len(buf) /\ Len(buf) \in Nat
          /\ Len(buf) <= (IF Grows THEN 2 * m_buf_volume ELSE m_buf_volume)
        <3>1. Len(Kept) \in Nat
            BY <2>1, KeptType, EmptySeq
        <3>. QED
            BY <2>1, <3>1, KeptType
    <2>3. /\ m_buf_volume' = IF Grows THEN 2 * m_buf_volume ELSE m_buf_volume
          /\ \/ WriteOut(buf, off)
             \/ /\ m_buf' = buf /\ m_data_size_offset' = off /\ output' = TRUE
                /\ UNCHANGED <<pipe, torn>>
        BY <1>1 DEF Push, PushData
    <2>4. /\ m_buf' \in Seq(Nat) /\ m_data_size_offset' \in 0 .. Len(m_buf')
          /\ Len(m_buf') <= Len(buf) /\ output' \in BOOLEAN /\ torn' \in BOOLEAN
          /\ pipe' \in Seq(Nat) /\ Len(pipe') <= PipeCap
        <3>1. CASE WriteOut(buf, off)
            BY <2>2, <3>1, WriteOutType
        <3>2. CASE /\ m_buf' = buf /\ m_data_size_offset' = off /\ output' = TRUE
                   /\ UNCHANGED <<pipe, torn>>
            BY <2>2, <3>2 DEF PipeTypeOK
        <3>. QED
            BY <2>3, <3>1, <3>2
    <2>5. Len(m_buf') \in Nat
        BY <2>4, EmptySeq
    <2>. QED
        BY <1>0, <1>1, <2>1, <2>2, <2>3, <2>4, <2>5, SMTT(30) DEF Push, PipeTypeOK, WithinVolume, reader
<1>2. CASE PushRefused
    BY <1>0, <1>2 DEF PushRefused, PipeTypeOK, WithinVolume, reader
<1>3. CASE OutputNotify
    <2>1. m_buf \in Seq(Nat) /\ m_data_size_offset \in 0 .. Len(m_buf) /\ Len(m_buf) \in Nat
        BY EmptySeq DEF PipeTypeOK
    <2>2. /\ m_buf' \in Seq(Nat) /\ m_data_size_offset' \in 0 .. Len(m_buf')
          /\ Len(m_buf') <= Len(m_buf) /\ output' \in BOOLEAN /\ torn' \in BOOLEAN
          /\ pipe' \in Seq(Nat) /\ Len(pipe') <= PipeCap
        BY <1>3, <2>1, WriteOutType DEF OutputNotify
    <2>3. Len(m_buf') \in Nat
        BY <2>2, EmptySeq
    <2>. QED
        BY <1>0, <1>3, <2>1, <2>2, <2>3 DEF OutputNotify, PipeTypeOK, WithinVolume, reader
<1>4. CASE InputNotify
    BY <1>0, <1>4 DEF InputNotify, PipeTypeOK, WithinVolume, writer
<1>5. CASE TaskNotify
    <2>1. /\ rbuf' \in Seq(Nat) /\ Len(rbuf') <= K
          /\ pipe' \in Seq(Nat) /\ Len(pipe') <= PipeCap
          /\ delivered' \in Seq(Nat)
        BY <1>5, PopType, AppendProperties DEF TaskNotify, PipeTypeOK
    <2>2. task_num' \in 0 .. 2 * K
        BY <1>0, <1>5 DEF TaskNotify, NextTaskNum
    <2>. QED
        BY <1>5, <2>1, <2>2 DEF TaskNotify, PipeTypeOK, WithinVolume, writer
<1>6. CASE PopNull
    <2>1. /\ rbuf' \in Seq(Nat) /\ Len(rbuf') <= K
          /\ pipe' \in Seq(Nat) /\ Len(pipe') <= PipeCap
        BY <1>6, PopType DEF PopNull, PipeTypeOK
    <2>. QED
        BY <1>0, <1>6, <2>1 DEF PopNull, PipeTypeOK, WithinVolume, writer
<1>7. CASE UNCHANGED pipeVars
    BY <1>7 DEF pipeVars, writer, reader, PipeTypeOK, WithinVolume
<1>. QED
    BY <1>1, <1>2, <1>3, <1>4, <1>5, <1>6, <1>7 DEF PipeNext, WriterNext, ReaderNext

(* Every variable keeps its type and every place its capacity, for every *)
(* size of the buffers and the pipe.                                     *)
THEOREM TypeCorrect == PipeSafetySpec => []PipeTypeOK
<1>1. Bounded => PipeTypeOK
    BY DEF Bounded
<1>. QED
    BY <1>1, BoundedInit, BoundedStep, PTL DEF PipeSafetySpec

(* Push never stores beyond the memory realloc gave the writer, whatever *)
(* partial writes have done to the offset before.                        *)
THEOREM VolumeRespected == PipeSafetySpec => []WithinVolume
<1>1. Bounded => WithinVolume
    BY DEF Bounded
<1>. QED
    BY <1>1, BoundedInit, BoundedStep, PTL DEF PipeSafetySpec

(* A write that is not partial moves data without changing its order. *)
LEMMA WholeWrite ==
    ASSUME PipeTypeOK, NEW buf \in Seq(Nat), WriteOut(buf, 0), ~torn'
    PROVE  /\ ~torn
           /\ m_data_size_offset' = 0
           /\ pipe' \in Seq(Nat) /\ m_buf' \in Seq(Nat)
           /\ pipe' \o m_buf' = pipe \o buf
<1>0. pipe \in Seq(Nat) /\ Len(buf) \in Nat
    BY EmptySeq DEF PipeTypeOK
<1>1. PICK m \in Accepted(Len(buf) - 0) :
            /\ pipe' = pipe \o Written(buf, 0, m)
            /\ Drain(buf, 0, m)
            /\ torn' = (torn \/ (0 < m /\ m < Len(buf) - 0))
    BY DEF WriteOut
<1>2. ~torn /\ ~(0 < m /\ m < Len(buf) - 0)
    BY <1>1
<1>3. m = 0 \/ m = Len(buf)
    BY <1>0, <1>2, AcceptedBounds
<1>4. CASE m = Len(buf)
    <2>1. Written(buf, 0, m) = buf
        <3>1. \A k \in 1 .. m : W * 0 + k = k
            BY <1>0, <1>4, PipeQueueAssumption
        <3>2. Written(buf, 0, m) = [k \in 1 .. Len(buf) |-> buf[k]]
            BY <1>4, <3>1 DEF Written
        <3>. QED
            BY <3>2, LenProperties
    <2>2. m_buf' = <<>> /\ m_data_size_offset' = 0
        BY <1>0, <1>1, <1>4 DEF Drain
    <2>3. pipe' = pipe \o buf /\ pipe' \in Seq(Nat)
        BY <1>0, <1>1, <2>1, ConcatProperties
    <2>. QED
        BY <1>2, <2>2, <2>3, ConcatEmptySeq, EmptySeq
<1>5. CASE m = 0 /\ m # Len(buf)
    <2>1. Written(buf, 0, m) = <<>>
        BY <1>5 DEF Written
    <2>2. m_buf' = buf /\ m_data_size_offset' = 0
        BY <1>0, <1>1, <1>5 DEF Drain
    <2>3. pipe' = pipe
        BY <1>0, <1>1, <2>1, ConcatEmptySeq
    <2>. QED
        BY <1>0, <1>2, <2>2, <2>3
<1>. QED
    BY <1>3, <1>4, <1>5

(* After a write EPOLLOUT is asked for exactly if something is left. *)
LEMMA WriteOutInterest ==
    ASSUME PipeTypeOK, NEW buf \in Seq(Nat), NEW off \in 0 .. Len(buf), WriteOut(buf, off)
    PROVE  InterestMatchesPending'
<1>1. Len(buf) \in Nat /\ Len(buf) - off \in Nat
    BY EmptySeq
<1>2. PICK m \in Accepted(Len(buf) - off) : Drain(buf, off, m)
    BY DEF WriteOut
<1>3. m \in Nat
    BY <1>1, AcceptedBounds
<1>4. CASE off + m >= Len(buf)
    <2>1. m_buf' = <<>> /\ m_data_size_offset' = 0 /\ ~output'
        BY <1>2, <1>4 DEF Drain
    <2>2. Pending' = 0
        BY <2>1, EmptySeq DEF Pending
    <2>. QED
        BY <2>1, <2>2 DEF InterestMatchesPending
<1>5. CASE ~(off + m >= Len(buf))
    <2>1. m_buf' = buf /\ m_data_size_offset' = off + m /\ output'
        BY <1>2, <1>5 DEF Drain
    <2>2. Pending' > 0
        BY <1>1, <1>3, <1>5, <2>1 DEF Pending
    <2>. QED
        BY <2>1, <2>2 DEF InterestMatchesPending
<1>. QED
    BY <1>4, <1>5

LEMMA InterestStep == Bounded /\ InterestMatchesPending /\ [PipeNext]_pipeVars => InterestMatchesPending'
<1> SUFFICES ASSUME Bounded, InterestMatchesPending, [PipeNext]_pipeVars
             PROVE  InterestMatchesPending'
    OBVIOUS
<1>0. /\ PipeTypeOK /\ WithinVolume /\ m_buf_volume > 0 /\ pushed + 1 \in Nat
      /\ m_buf \in Seq(Nat) /\ m_data_size_offset \in 0 .. Len(m_buf)
    BY DEF Bounded, PipeTypeOK
<1>1. CASE Push
    <2>. DEFINE buf == Append(Kept, pushed + 1)
                off == IF Full THEN 0 ELSE m_data_size_offset
    <2>1. buf \in Seq(Nat) /\ Len(Kept) \in Nat /\ Len(buf) = Len(Kept) + 1 /\ off \in 0 .. Len(Kept)
        BY <1>0, KeptType, EmptySeq
    <2>2. off \in 0 .. Len(buf) /\ Len(buf) - off > 0
        BY <2>1
    <2>3. CASE WriteOut(buf, off)
        BY <1>0, <2>1, <2>2, <2>3, WriteOutInterest
    <2>4. CASE m_buf' = buf /\ m_data_size_offset' = off /\ output' = TRUE
        <3>1. Pending' > 0
            BY <2>2, <2>4 DEF Pending
        <3>. QED
            BY <2>4, <3>1 DEF InterestMatchesPending
    <2>. QED
        BY <1>1, <2>3, <2>4 DEF Push, PushData
<1>2. CASE OutputNotify
    BY <1>0, <1>2, WriteOutInterest DEF OutputNotify
<1>3. CASE UNCHANGED <<m_buf, m_data_size_offset, output>>
    BY <1>3 DEF InterestMatchesPending, Pending
<1>4. PushRefused \/ InputNotify \/ TaskNotify \/ PopNull \/ UNCHANGED pipeVars
          => UNCHANGED <<m_buf, m_data_size_offset, output>>
    BY DEF PushRefused, InputNotify, TaskNotify, PopNull, pipeVars, writer
<1>. QED
    BY <1>1, <1>2, <1>3, <1>4 DEF PipeNext, WriterNext, ReaderNext

(* EPOLLOUT is registered exactly while data waits in the writer's buffer. *)
THEOREM InterestCorrect == PipeSafetySpec => []InterestMatchesPending
<1>1. PipeInit => InterestMatchesPending
    <2>1. PipeInit => Pending = 0 /\ ~output
        BY EmptySeq DEF PipeInit, Pending
    <2>. QED
        BY <2>1 DEF InterestMatchesPending
<1>2. Bounded /\ InterestMatchesPending /\ [PipeNext]_pipeVars => (Bounded /\ InterestMatchesPending)'
    BY BoundedStep, InterestStep
<1>. QED
    BY <1>1, <1>2, BoundedInit, PTL DEF PipeSafetySpec

(* Until a write is partial the offset is 0 between steps. *)
SerialOrder == ~torn => m_data_size_offset = 0 /\ delivered \o InFlight = [i \in 1 .. pushed |-> i]

InFlightType == rbuf \in Seq(Nat) /\ pipe \in Seq(Nat) /\ m_buf \in Seq(Nat) /\ InFlight \in Seq(Nat)

LEMMA TypeInFlight == PipeTypeOK => InFlightType
BY ConcatProperties DEF PipeTypeOK, InFlight, InFlightType

LEMMA AssociativeSerials ==
    \A s, t, u \in Seq(Nat) : (s \o t) \o u = s \o (t \o u)
<1>1. Associates(Nat)
    BY Associative
<1>. QED
    BY <1>1 DEF Associates

(* A step of the writer that is not partial: an element is appended, or   *)
(* the elements under way only change place.                              *)
LEMMA PushStep ==
    ASSUME Bounded, SerialOrder, Push, ~torn'
    PROVE  /\ ~torn /\ m_data_size_offset' = 0
           /\ InFlight' = Append(InFlight, pushed + 1)
<1>. DEFINE buf == Append(m_buf, pushed + 1)
<1>0. pushed + 1 \in Nat /\ InFlightType /\ PipeTypeOK
    BY TypeInFlight DEF Bounded, PipeTypeOK
<1>1. ~torn
    BY DEF Push, PushData, WriteOut
<1>2. m_data_size_offset = 0
    BY <1>1 DEF SerialOrder
<1>3. Kept = m_buf /\ (IF Full THEN 0 ELSE m_data_size_offset) = 0
    BY <1>2 DEF Kept, Compacts
<1>4. \/ WriteOut(buf, 0)
      \/ m_buf' = buf /\ m_data_size_offset' = 0 /\ UNCHANGED pipe
    BY <1>3 DEF Push, PushData
<1>5. buf \in Seq(Nat)
    BY <1>0, AppendProperties DEF InFlightType
<1>6. /\ m_data_size_offset' = 0 /\ pipe' \in Seq(Nat) /\ m_buf' \in Seq(Nat)
      /\ pipe' \o m_buf' = pipe \o buf
    <2>1. CASE WriteOut(buf, 0)
        BY <1>0, <1>5, <2>1, WholeWrite
    <2>2. CASE m_buf' = buf /\ m_data_size_offset' = 0 /\ UNCHANGED pipe
        BY <1>0, <1>5, <2>2 DEF InFlightType
    <2>. QED
        BY <1>4, <2>1, <2>2
<1>7. rbuf' = rbuf
    BY DEF Push, reader
<1>8. InFlight' = (rbuf \o pipe') \o m_buf'
    BY <1>7 DEF InFlight
<1>9. InFlight' = (rbuf \o pipe) \o buf
    <2>. HIDE DEF buf
    <2>1. /\ rbuf \in Seq(Nat) /\ pipe \in Seq(Nat) /\ buf \in Seq(Nat)
          /\ pipe' \in Seq(Nat) /\ m_buf' \in Seq(Nat)
        BY <1>0, <1>5, <1>6 DEF InFlightType
    <2>2. (rbuf \o pipe') \o m_buf' = rbuf \o (pipe' \o m_buf')
        BY <2>1, AssociativeSerials, ZenonT(30)
    <2>3. (rbuf \o pipe) \o buf = rbuf \o (pipe \o buf)
        BY <2>1, AssociativeSerials, ZenonT(30)
    <2>. QED
        BY <1>6, <1>8, <2>2, <2>3, Zenon
<1>10. (rbuf \o pipe) \o buf = Append(InFlight, pushed + 1)
    BY <1>0, ConcatAppend, ConcatProperties, SMTT(30) DEF InFlight, InFlightType
<1>. QED
    BY <1>1, <1>6, <1>9, <1>10

LEMMA OutputStep ==
    ASSUME Bounded, SerialOrder, OutputNotify, ~torn'
    PROVE  ~torn /\ m_data_size_offset' = 0 /\ InFlight' = InFlight
<1>0. InFlightType /\ PipeTypeOK
    BY TypeInFlight DEF Bounded
<1>1. ~torn
    BY DEF OutputNotify, WriteOut
<1>2. m_data_size_offset = 0 /\ WriteOut(m_buf, 0)
    BY <1>1 DEF SerialOrder, OutputNotify
<1>3. /\ m_data_size_offset' = 0 /\ pipe' \in Seq(Nat) /\ m_buf' \in Seq(Nat)
      /\ pipe' \o m_buf' = pipe \o m_buf /\ rbuf' = rbuf
    BY <1>0, <1>2, WholeWrite DEF InFlightType, OutputNotify, reader
<1>4. InFlight' = (rbuf \o pipe') \o m_buf'
    BY <1>3 DEF InFlight
<1>5. InFlight' = (rbuf \o pipe) \o m_buf
    <2>1. /\ rbuf \in Seq(Nat) /\ pipe \in Seq(Nat) /\ m_buf \in Seq(Nat)
          /\ pipe' \in Seq(Nat) /\ m_buf' \in Seq(Nat)
        BY <1>0, <1>3 DEF InFlightType
    <2>2. (rbuf \o pipe') \o m_buf' = rbuf \o (pipe' \o m_buf')
        BY <2>1, AssociativeSerials, ZenonT(30)
    <2>3. (rbuf \o pipe) \o m_buf = rbuf \o (pipe \o m_buf)
        BY <2>1, AssociativeSerials, ZenonT(30)
    <2>. QED
        BY <1>3, <1>4, <2>2, <2>3, Zenon
<1>. QED
    BY <1>1, <1>3, <1>5 DEF InFlight

(* What the reader takes is the oldest element under way. *)
LEMMA PopStep ==
    ASSUME PipeTypeOK, Pop, UNCHANGED m_buf
    PROVE  /\ InFlight # <<>>
           /\ Popped = Head(InFlight)
           /\ InFlight' = Tail(InFlight)
<1>0. InFlightType /\ pipe \o m_buf \in Seq(Nat)
    BY TypeInFlight, ConcatProperties DEF InFlightType
<1>1. InFlight = rbuf \o (pipe \o m_buf)
    <2>1. rbuf \in Seq(Nat) /\ pipe \in Seq(Nat) /\ m_buf \in Seq(Nat)
        BY <1>0 DEF InFlightType
    <2>. QED
        BY <2>1, AssociativeSerials, Zenon DEF InFlight
<1>2. CASE rbuf # <<>> /\ rbuf' = Tail(rbuf) /\ UNCHANGED pipe
    <2>1. Tail(rbuf) \in Seq(Nat)
        BY <1>0, <1>2, HeadTailProperties DEF InFlightType
    <2>2. InFlight' = (Tail(rbuf) \o pipe) \o m_buf
        BY <1>2 DEF InFlight
    <2>3. pipe \in Seq(Nat) /\ m_buf \in Seq(Nat)
        BY <1>0 DEF InFlightType
    <2>4. (Tail(rbuf) \o pipe) \o m_buf = Tail(rbuf) \o (pipe \o m_buf)
        BY <2>1, <2>3, AssociativeSerials, Zenon
    <2>. QED
        BY <1>0, <1>1, <1>2, <2>2, <2>4, HeadTailConcat DEF InFlightType, Popped
<1>3. CASE /\ rbuf = <<>> /\ pipe # <<>> /\ rbuf' = SubSeq(pipe, 2, ReadSize)
           /\ pipe' = SubSeq(pipe, ReadSize + 1, Len(pipe))
    <2>1. ReadSize \in 1 .. Len(pipe)
        BY <1>0, <1>3, EmptySeq, PipeQueueAssumption DEF ReadSize, Min2, InFlightType
    <2>2. rbuf' \o pipe' = Tail(pipe)
        BY <1>0, <1>3, <2>1, TailSplit DEF InFlightType
    <2>3. InFlight = pipe \o m_buf
        BY <1>0, <1>1, <1>3, ConcatEmptySeq
    <2>4. InFlight' = Tail(pipe) \o m_buf
        BY <2>2 DEF InFlight
    <2>. QED
        BY <1>0, <1>3, <2>3, <2>4, HeadTailConcat DEF InFlightType, Popped
<1>. QED
    BY <1>2, <1>3 DEF Pop

LEMMA SerialOrderInit == PipeInit => SerialOrder
<1> SUFFICES ASSUME PipeInit PROVE SerialOrder
    OBVIOUS
<1>1. InFlight = <<>> /\ delivered = <<>>
    BY EmptySeq, ConcatEmptySeq DEF PipeInit, InFlight
<1>2. delivered \o InFlight = <<>>
    BY <1>1, EmptySeq, ConcatEmptySeq
<1>3. [i \in 1 .. pushed |-> i] = <<>>
    BY DEF PipeInit
<1>. QED
    BY <1>2, <1>3 DEF PipeInit, SerialOrder

(* The serial numbers handed out so far, and one more. *)
LEMMA NextSerial ==
    ASSUME NEW n \in Nat
    PROVE  /\ [i \in 1 .. n |-> i] \in Seq(Nat) /\ Len([i \in 1 .. n |-> i]) = n
           /\ Append([i \in 1 .. n |-> i], n + 1) = [i \in 1 .. n + 1 |-> i]
<1>. DEFINE s == [i \in 1 .. n |-> i]
            t == [i \in 1 .. n + 1 |-> i]
<1>1. s \in Seq(Nat) /\ Len(s) = n /\ t \in Seq(Nat) /\ Len(t) = n + 1
    OBVIOUS
<1>2. Append(s, n + 1) \in Seq(Nat) /\ Len(Append(s, n + 1)) = n + 1
    BY <1>1, AppendProperties
<1>3. \A i \in 1 .. n + 1 : Append(s, n + 1)[i] = t[i]
    BY <1>1, AppendProperties
<1>4. Append(s, n + 1) = t
    <2>. HIDE DEF s, t
    <2>. QED
        BY <1>1, <1>2, <1>3, SeqEqual
<1>. QED
    BY <1>1, <1>4

LEMMA SerialOrderStep == Bounded /\ SerialOrder /\ [PipeNext]_pipeVars => SerialOrder'
<1> SUFFICES ASSUME Bounded, SerialOrder, [PipeNext]_pipeVars, ~torn'
             PROVE  (m_data_size_offset = 0 /\ delivered \o InFlight = [i \in 1 .. pushed |-> i])'
    BY DEF SerialOrder
<1>0. /\ PipeTypeOK /\ InFlight \in Seq(Nat) /\ delivered \in Seq(Nat) /\ pushed \in Nat
    BY TypeInFlight DEF Bounded, PipeTypeOK, InFlightType
<1>1. CASE Push
    <2>1. /\ ~torn /\ m_data_size_offset' = 0 /\ InFlight' = Append(InFlight, pushed + 1)
          /\ pushed' = pushed + 1 /\ delivered' = delivered
        BY <1>1, PushStep DEF Push, reader
    <2>2. delivered \o InFlight = [i \in 1 .. pushed |-> i]
        BY <2>1 DEF SerialOrder
    <2>3. (delivered \o InFlight)' = Append(delivered \o InFlight, pushed + 1)
        BY <1>0, <2>1, ConcatAppend
    <2>. QED
        BY <1>0, <2>1, <2>2, <2>3, NextSerial
<1>2. CASE PushRefused
    BY <1>2 DEF PushRefused, SerialOrder, InFlight, reader
<1>3. CASE OutputNotify
    <2>1. /\ ~torn /\ m_data_size_offset' = 0 /\ InFlight' = InFlight
          /\ pushed' = pushed /\ delivered' = delivered
        BY <1>3, OutputStep DEF OutputNotify, reader
    <2>. QED
        BY <2>1 DEF SerialOrder
<1>4. CASE InputNotify
    BY <1>4 DEF InputNotify, SerialOrder, InFlight, writer
<1>5. CASE TaskNotify
    <2>1. /\ ~torn /\ m_data_size_offset' = m_data_size_offset /\ pushed' = pushed
          /\ delivered' = Append(delivered, Head(InFlight))
          /\ InFlight # <<>> /\ InFlight' = Tail(InFlight)
        BY <1>0, <1>5, PopStep DEF TaskNotify, writer
    <2>2. (delivered \o InFlight)' = delivered \o InFlight
        BY <1>0, <2>1, MoveHead
    <2>. QED
        BY <2>1, <2>2 DEF SerialOrder
<1>6. CASE PopNull
    <2>1. CASE rbuf = <<>> /\ pipe = <<>> /\ UNCHANGED <<rbuf, pipe>>
        BY <1>6, <2>1 DEF PopNull, SerialOrder, InFlight, writer
    <2>2. CASE Pop /\ Popped = Stray
        <3>1. ~torn /\ InFlight # <<>> /\ Head(InFlight) = 0
            BY <1>0, <1>6, <2>2, PopStep DEF PopNull, writer, Stray
        <3>2. delivered \o InFlight = [i \in 1 .. pushed |-> i]
            BY <3>1 DEF SerialOrder
        <3>3. /\ Len(delivered) \in Nat /\ Len(InFlight) \in Nat \ {0}
              /\ Len(delivered) + Len(InFlight) = pushed
            BY <1>0, <3>1, <3>2, EmptySeq, ConcatProperties, NextSerial
        <3>4. (delivered \o InFlight)[Len(delivered) + 1] = InFlight[1]
            BY <1>0, <3>3, ConcatProperties
        <3>5. InFlight[1] = Len(delivered) + 1
            BY <3>2, <3>3, <3>4
        <3>6. Head(InFlight) = InFlight[1]
            BY <1>0, <3>1
        <3>. QED
            BY <3>1, <3>3, <3>5, <3>6
    <2>. QED
        BY <1>6, <2>1, <2>2 DEF PopNull
<1>7. CASE UNCHANGED pipeVars
    BY <1>7 DEF pipeVars, writer, reader, SerialOrder, InFlight
<1>. QED
    BY <1>1, <1>2, <1>3, <1>4, <1>5, <1>6, <1>7 DEF PipeNext, WriterNext, ReaderNext

(* Until a write is partial, nothing Push accepted is lost, duplicated or *)
(* overtaken on its way to TaskNotify.                                    *)
THEOREM DeliveredInOrder == PipeSafetySpec => []InOrder
<1>1. Bounded /\ SerialOrder => InOrder
    BY DEF SerialOrder, InOrder
<1>2. PipeInit => Bounded /\ SerialOrder
    BY BoundedInit, SerialOrderInit
<1>3. Bounded /\ SerialOrder /\ [PipeNext]_pipeVars => (Bounded /\ SerialOrder)'
    BY BoundedStep, SerialOrderStep
<1>. QED
    BY <1>1, <1>2, <1>3, PTL DEF PipeSafetySpec

(* How many elements are under way, while no write was partial. *)
LEMMA InFlightCount ==
    ASSUME PipeTypeOK, SerialOrder, ~torn
    PROVE  Len(rbuf) + Len(pipe) + Len(m_buf) = pushed - Len(delivered)
<1>1. InFlightType /\ delivered \in Seq(Nat) /\ pushed \in Nat
    BY TypeInFlight DEF PipeTypeOK
<1>2. Len(InFlight) = Len(rbuf) + Len(pipe) + Len(m_buf)
    BY <1>1, ConcatProperties DEF InFlightType, InFlight
<1>3. Len(delivered) + Len(InFlight) = pushed
    <2>1. Len(delivered \o InFlight) = Len(delivered) + Len(InFlight)
        BY <1>1, ConcatProperties DEF InFlightType
    <2>2. Len([i \in 1 .. pushed |-> i]) = pushed
        BY <1>1, NextSerial
    <2>. QED
        BY <2>1, <2>2 DEF SerialOrder
<1>. QED
    BY <1>1, <1>2, <1>3, EmptySeq DEF InFlightType

(* A write that fits and is atomic empties the buffer. *)
LEMMA AtomicWrite ==
    ASSUME PipeTypeOK, NEW buf \in Seq(Nat), WriteOut(buf, 0), ~torn,
           Len(buf) <= PipeBuf, Len(buf) <= PipeCap - Len(pipe)
    PROVE  ~torn' /\ m_buf' = <<>>
<1>0. Len(buf) \in Nat /\ Len(pipe) \in Nat /\ PipeBuf \in Nat /\ PipeCap \in Nat
    BY PipeQueueAssumption, EmptySeq DEF PipeTypeOK
<1>1. PICK m \in Accepted(Len(buf) - 0) :
            /\ Drain(buf, 0, m)
            /\ torn' = (torn \/ (0 < m /\ m < Len(buf) - 0))
    BY DEF WriteOut
<1>2. m = Len(buf)
    BY <1>0, <1>1 DEF Accepted
<1>3. ~(m < Len(buf) - 0)
    BY <1>0, <1>2
<1>4. ~torn'
    BY <1>1, <1>3
<1>. QED
    BY <1>0, <1>1, <1>2, <1>4 DEF Drain

Regular == Bounded /\ SerialOrder /\ NeverTorn

(* The load a pipe queue starts with stays. *)
LEMMA LoadStays == [PipeNext]_pipeVars => load' = load /\ (Light' <=> Light)
<1>1. [PipeNext]_pipeVars => load' = load
    BY DEF PipeNext, WriterNext, ReaderNext, Push, PushRefused, OutputNotify, InputNotify, TaskNotify,
           PopNull, pipeVars, writer
<1>. QED
    BY <1>1 DEF Light

LEMMA RegularInit == PipeInit => Regular
<1>1. PipeInit => NeverTorn
    BY PipeQueueAssumption, EmptySeq DEF PipeInit, NeverTorn
<1>. QED
    BY <1>1, BoundedInit, SerialOrderInit DEF Regular

LEMMA RegularStep == Regular /\ [PipeNext]_pipeVars => Regular'
<1> SUFFICES ASSUME Regular, [PipeNext]_pipeVars, Light'
             PROVE  ~torn' /\ refused' = 0 /\ Len(m_buf') < K /\ m_buf_volume' = K
    BY BoundedStep, SerialOrderStep DEF Regular, NeverTorn
<1>0. /\ PipeTypeOK /\ SerialOrder /\ ~torn /\ refused = 0 /\ Len(m_buf) < K /\ m_buf_volume = K
      /\ m_data_size_offset = 0 /\ m_buf \in Seq(Nat) /\ Len(m_buf) \in Nat
      /\ K \in Nat \ {0} /\ PipeBuf \in Nat /\ PipeCap \in Nat /\ K <= PipeBuf
      /\ load \in Nat /\ load <= PipeCap
    BY PipeQueueAssumption, EmptySeq, LoadStays DEF Regular, Bounded, SerialOrder, NeverTorn, PipeTypeOK, Light
<1>1. CASE Push
    <2>. DEFINE buf == Append(m_buf, pushed + 1)
    <2>1. ~Full /\ Kept = m_buf /\ ~Grows
        BY <1>0 DEF Full, Kept, Compacts, Grows
    <2>2. buf \in Seq(Nat) /\ Len(buf) = Len(m_buf) + 1
        BY <1>0, AppendProperties DEF PipeTypeOK
    <2>3. m_buf_volume' = K /\ refused' = 0
        BY <1>0, <1>1, <2>1 DEF Push, PushData
    <2>4. CASE FlushNow(buf, 0) /\ WriteOut(buf, 0)
        <3>1. Len(rbuf) + Len(pipe) + Len(m_buf) < PipeCap
            <4>1. pushed - Len(delivered) < load
                BY <1>1 DEF Push
            <4>2. pushed - Len(delivered) \in Int
                BY <1>0, EmptySeq DEF PipeTypeOK
            <4>. QED
                BY <1>0, <4>1, <4>2, InFlightCount
        <3>2. Len(rbuf) \in Nat /\ Len(pipe) \in Nat
            BY <1>0, EmptySeq DEF PipeTypeOK
        <3>3. Len(buf) <= PipeBuf /\ Len(buf) <= PipeCap - Len(pipe)
            BY <1>0, <2>2, <3>1, <3>2
        <3>4. ~torn' /\ m_buf' = <<>>
            BY <1>0, <2>2, <2>4, <3>3, AtomicWrite
        <3>. QED
            BY <1>0, <2>3, <3>4, EmptySeq
    <2>5. CASE ~FlushNow(buf, 0) /\ m_buf' = buf /\ UNCHANGED torn
        <3>1. Len(buf) # K
            <4>1. K % K = 0 /\ K - 0 >= K
                BY <1>0
            <4>2. ~(Len(buf) - 0 >= K /\ Len(buf) % K = 0)
                BY <2>5 DEF FlushNow
            <4>. QED
                BY <4>1, <4>2, Zenon
        <3>2. Len(buf) < K
            BY <1>0, <2>2, <3>1
        <3>. QED
            BY <1>0, <2>3, <2>5, <3>2
    <2>. QED
        BY <1>0, <1>1, <2>1, <2>4, <2>5 DEF Push, PushData
<1>2. CASE PushRefused
    BY <1>0, <1>2 DEF PushRefused, Grows, Full
<1>3. CASE OutputNotify
    <2>1. WriteOut(m_buf, 0) /\ Len(m_buf) <= PipeBuf /\ Len(m_buf) <= PipeCap - Len(pipe)
        <3>1. PipeCap - Len(pipe) >= PipeBuf /\ Len(pipe) \in Nat
            BY <1>0, <1>3, EmptySeq DEF OutputNotify, PipeTypeOK
        <3>. QED
            BY <1>0, <1>3, <3>1 DEF OutputNotify
    <2>2. ~torn' /\ m_buf' = <<>>
        BY <1>0, <2>1, AtomicWrite
    <2>. QED
        BY <1>0, <1>3, <2>2, EmptySeq DEF OutputNotify
<1>4. CASE InputNotify
    BY <1>0, <1>4 DEF InputNotify, writer
<1>5. CASE TaskNotify
    BY <1>0, <1>5 DEF TaskNotify, writer
<1>6. CASE PopNull
    BY <1>0, <1>6 DEF PopNull, writer
<1>7. CASE UNCHANGED pipeVars
    BY <1>0, <1>7 DEF pipeVars, writer
<1>. QED
    BY <1>1, <1>2, <1>3, <1>4, <1>5, <1>6, <1>7 DEF PipeNext, WriterNext, ReaderNext

(* With no more elements under way than the pipe holds, the writer's buffer *)
(* never fills, never grows and no write is partial, for every K <= PIPE_BUF. *)
THEOREM WritesStayWhole == PipeSafetySpec => []NeverTorn
<1>1. Regular => NeverTorn
    BY DEF Regular
<1>. QED
    BY <1>1, RegularInit, RegularStep, PTL DEF PipeSafetySpec

(***************************************************************************)
(* The pipe implements the safety part of Channel: by the lemmas above a   *)
(* step of the pipe pushes, delivers the oldest element, or leaves the     *)
(* elements under way as they are.                                         *)
(***************************************************************************)
LEMMA ChannelStep ==
    ASSUME Regular, Light, [PipeNext]_pipeVars
    PROVE  [Promise!Next]_InFlight
<1>0. PipeTypeOK /\ Bounded /\ SerialOrder /\ ~torn' /\ pushed \in Nat /\ MaxPush \in Nat
    BY RegularStep, LoadStays, PipeQueueAssumption DEF Regular, Bounded, NeverTorn, PipeTypeOK
<1>1. CASE Push
    <2>1. InFlight' = Append(InFlight, pushed + 1)
        BY <1>0, <1>1, PushStep
    <2>2. pushed + 1 \in 1 .. MaxPush
        BY <1>0, <1>1 DEF Push
    <2>. QED
        BY <2>1, <2>2 DEF Promise!Next, Promise!Push
<1>2. CASE PushRefused
    BY <1>2 DEF PushRefused, InFlight, reader
<1>3. CASE OutputNotify
    BY <1>0, <1>3, OutputStep
<1>4. CASE InputNotify
    BY <1>4 DEF InputNotify, InFlight, writer
<1>5. CASE TaskNotify
    <2>1. InFlight # <<>> /\ InFlight' = Tail(InFlight)
        BY <1>0, <1>5, PopStep DEF TaskNotify, writer
    <2>. QED
        BY <2>1 DEF Promise!Next, Promise!Deliver
<1>6. CASE PopNull
    <2>1. CASE rbuf = <<>> /\ pipe = <<>> /\ UNCHANGED <<rbuf, pipe>>
        BY <1>6, <2>1 DEF PopNull, InFlight, writer
    <2>2. CASE Pop /\ Popped = Stray
        <3>1. InFlight # <<>> /\ InFlight' = Tail(InFlight)
            BY <1>0, <1>6, <2>2, PopStep DEF PopNull, writer
        <3>. QED
            BY <3>1 DEF Promise!Next, Promise!Deliver
    <2>. QED
        BY <1>6, <2>1, <2>2 DEF PopNull
<1>7. CASE UNCHANGED pipeVars
    BY <1>7 DEF pipeVars, writer, reader, InFlight
<1>. QED
    BY <1>1, <1>2, <1>3, <1>4, <1>5, <1>6, <1>7 DEF PipeNext, WriterNext, ReaderNext

(* The pipe queue is a FIFO channel, as long as no more elements are under *)
(* way than the kernel's pipe holds.                                       *)
THEOREM PipeIsChannel == PipeSafetySpec => ChannelSafety
<1>1. PipeInit => Promise!Init
    BY EmptySeq, ConcatEmptySeq DEF PipeInit, Promise!Init, InFlight
<1>2. Regular /\ [PipeNext]_pipeVars => [Light => Promise!Next]_InFlight
    <2>1. CASE Light
        BY <2>1, ChannelStep
    <2>2. CASE ~Light
        BY <2>2
    <2>. QED
        BY <2>1, <2>2
<1>. QED
    BY <1>1, <1>2, RegularInit, RegularStep, PTL DEF PipeSafetySpec, ChannelSafety
===============================================================================
