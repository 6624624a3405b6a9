------------------------------- MODULE TaskPath -------------------------------
(***************************************************************************)
(* The way of a CTask through tcpservice.  The listen thread makes one for *)
(* every packet a connection decodes and pushes it into the incoming pipe  *)
(* of the CTaskPipe; the work thread answers it and replies, which pushes  *)
(* it into the return pipe; the listen thread replies again, which sends   *)
(* the response through the connection the task points to and deletes the  *)
(* task.  Both pipes are Channels, which PipeQueue implements.             *)
(*                                                                         *)
(* A connection is known by its address, as in CTask::m_connection, and    *)
(* the allocator may give the address of a deleted connection to the next  *)
(* one.  The numbers of connections and of packets exist in the model only.*)
(***************************************************************************)
EXTENDS Integers, Sequences, FiniteSets, SequencesExt

CONSTANTS Address,   \* where a CTcpConnection can be allocated
          Slack,     \* what a pipe may hold back (K - 1 of PipeQueue)
          MaxConn,   \* bound: connections accepted
          MaxTask    \* bound: packets decoded

ASSUME TaskPathAssumption == /\ Slack \in Nat
                             /\ MaxConn \in Nat /\ MaxTask \in Nat

VARIABLES
    conn,        \* the number of the connection at an address, None if there is none
    accepted,    \* connections accepted so far
    decoded,     \* packets decoded so far, by connection
    task,        \* the live CTask objects, by identity
    made,        \* tasks made so far
    incoming,    \* CTaskPipe::m_incoming_pipe
    returning,   \* CTaskPipe::m_return_pipe
    sent,        \* the responses SendPacket appended, by connection
    dangling     \* replies that went through an address with no connection

vars == <<conn, accepted, decoded, task, made, incoming, returning, sent, dangling>>

None == 0

Conn == 1 .. MaxConn

ClientReply == "CClientReply"

TaskPipe == "CTaskPipe"

In == INSTANCE Channel WITH Item <- 1 .. MaxTask, queue <- incoming

Return == INSTANCE Channel WITH Item <- 1 .. MaxTask, queue <- returning

Init ==
    /\ conn = [a \in Address |-> None]
    /\ accepted = 0
    /\ decoded = [c \in Conn |-> 0]
    /\ task = <<>> /\ made = 0
    /\ In!Init /\ Return!Init
    /\ sent = [c \in Conn |-> <<>>]
    /\ dangling = {}

(***************************************************************************)
(* CListener::InputNotify: accept, CTcpListener::CreateConnection.         *)
(***************************************************************************)
Accept(a) ==
    /\ conn[a] = None
    /\ accepted < MaxConn
    /\ accepted' = accepted + 1
    /\ conn' = [conn EXCEPT ![a] = accepted']
    /\ UNCHANGED <<decoded, task, made, incoming, returning, sent, dangling>>

(***************************************************************************)
(* delete of a connection in the listen thread: end of file, an error of   *)
(* read or writev, a hangup, or a packet that does not decode.  The tasks  *)
(* that point to it are not told.                                          *)
(***************************************************************************)
Delete(a) ==
    /\ conn[a] # None
    /\ conn' = [conn EXCEPT ![a] = None]
    /\ UNCHANGED <<accepted, decoded, task, made, incoming, returning, sent, dangling>>

(* CTaskReplyList::PushReplyDispatcher. *)
PushReplyDispatcher(replies, proc) == <<proc>> \o replies

(***************************************************************************)
(* CTcpConnection::OnPacket, through CClientProcess::TaskNotify to         *)
(* CTaskPipe::TaskNotify.  A read that decodes several packets is several  *)
(* of these steps: nothing else of the listen thread runs in between, and  *)
(* the work thread neither reads nor writes connections.                   *)
(***************************************************************************)
NewTask(a) ==
    [connection |-> a,
     packet     |-> <<conn[a], decoded[conn[a]] + 1>>,
     replies    |-> PushReplyDispatcher(PushReplyDispatcher(<<>>, ClientReply), TaskPipe),
     answered   |-> FALSE]

OnPacket(a) ==
    /\ conn[a] # None
    /\ made < MaxTask
    /\ made' = made + 1
    /\ decoded' = [decoded EXCEPT ![conn[a]] = @ + 1]
    /\ task' = [t \in DOMAIN task \cup {made'} |-> IF t = made' THEN NewTask(a) ELSE task[t]]
    /\ In!Push(made')
    /\ UNCHANGED <<conn, accepted, returning, sent, dangling>>

(* CTaskReplyList::PopFront within ReplyNotify: the next dispatcher is t's. *)
Replies(t, proc, answered) ==
    /\ task[t].replies # <<>>
    /\ Head(task[t].replies) = proc
    /\ task' = [task EXCEPT ![t].replies = Tail(@), ![t].answered = answered]

(* Mutant: the response goes to whichever connection was accepted last. *)
SendPacketLast(t) ==
    /\ accepted > 0
    /\ sent' = [sent EXCEPT ![accepted] = Append(@, task[t].packet)]
    /\ UNCHANGED dangling

(***************************************************************************)
(* CClientReply::ReplyNotify up to the delete: SendPacket on whatever is   *)
(* at the task's address.  The test NULL != connection never fails, since  *)
(* nothing sets m_connection to NULL before ~CTask.                        *)
(***************************************************************************)
SendPacket(t) ==
    LET c == conn[task[t].connection] IN
    \/ /\ c # None
       /\ sent' = [sent EXCEPT ![c] = Append(@, task[t].packet)]
       /\ UNCHANGED dangling
    \/ /\ c = None
       /\ dangling' = dangling \cup {task[t].packet}
       /\ UNCHANGED sent

(* Mutant: replies overtake each other in the return pipe. *)
ReturnPushFirst(t) == returning' = <<t>> \o returning

(* CTaskPipe::ReplyNotify. *)
ReturnPush(t) == Return!Push(t)

(* Mutant: the work process answers without calling ReplyNotify. *)
WorkNotifyOnly ==
    /\ In!Deliver
    /\ Replies(Head(incoming), TaskPipe, TRUE)
    /\ UNCHANGED <<conn, accepted, decoded, made, returning, sent, dangling>>

(***************************************************************************)
(* The work thread: CIncomingPipe::TaskNotify, CWorkProcess::TaskNotify,   *)
(* which sets the response's body, and CTaskPipe::ReplyNotify.             *)
(***************************************************************************)
WorkNotify ==
    /\ In!Deliver
    /\ Replies(Head(incoming), TaskPipe, TRUE)
    /\ ReturnPush(Head(incoming))
    /\ UNCHANGED <<conn, accepted, decoded, made, sent, dangling>>

(***************************************************************************)
(* The listen thread: CReturnPipe::TaskNotify and CClientReply, which      *)
(* sends through the task's connection and deletes the task.               *)
(***************************************************************************)
ReturnNotify ==
    /\ Return!Deliver
    /\ LET t == Head(returning) IN
        /\ task[t].replies # <<>> /\ Head(task[t].replies) = ClientReply
        /\ SendPacket(t)
        /\ task' = [u \in DOMAIN task \ {t} |-> task[u]]
    /\ UNCHANGED <<conn, accepted, decoded, made, incoming>>

Next ==
    \/ \E a \in Address : Accept(a) \/ Delete(a) \/ OnPacket(a)
    \/ WorkNotify
    \/ ReturnNotify

(* Both threads keep running their loops; clients may stop at any time. *)
Fairness == /\ WF_vars(Len(incoming) > Slack /\ WorkNotify)
            /\ WF_vars(Len(returning) > Slack /\ ReturnNotify)

SafetySpec == Init /\ [][Next]_vars

Spec == SafetySpec /\ Fairness
------------------------------------------------------------------------------
(* A packet is known by its connection and its number among those of it. *)
Packet == Conn \X (Nat \ {0})

(* A CTask. *)
Task == [connection : Address, packet : Packet,
         replies : Seq({ClientReply, TaskPipe}), answered : BOOLEAN]

(* What the variables range over. *)
TypeOK ==
    /\ conn \in [Address -> 0 .. MaxConn] /\ accepted \in 0 .. MaxConn
    /\ decoded \in [Conn -> Nat] /\ made \in 0 .. MaxTask
    /\ DOMAIN task \subseteq 1 .. made
    /\ \A t \in DOMAIN task : task[t] \in Task
    /\ incoming \in Seq(1 .. made) /\ returning \in Seq(1 .. made)
    /\ sent \in [Conn -> Seq(Packet)]
    /\ dangling \subseteq Packet

(***************************************************************************)
(* Every live task is in exactly one of the two pipes, once, and what is   *)
(* in a pipe is a live task: no task is leaked, replied to twice or used   *)
(* after CClientReply has deleted it.                                      *)
(***************************************************************************)
OnePlace ==
    LET both == incoming \o returning IN
    /\ IsInjective(both)
    /\ Range(both) = DOMAIN task

(* How many of the responses s of connection c come up to the last stray,  *)
(* one to a request that is not c's own: by StrayFirst, how many strays.   *)
Strays(c, s) == Max({0} \cup {i \in 1 .. Len(s) : s[i][1] # c})

(* Which of connection c's own requests the responses s are to. *)
Own(c, s) == LET n == Strays(c, s) IN [i \in 1 .. Len(s) - n |-> s[n + i][2]]

(***************************************************************************)
(* A response can only go astray through a reused address, and then those  *)
(* to the older connections come before every response to the connection's *)
(* own requests: the pipes do not let a younger task overtake.             *)
(***************************************************************************)
StrayFirst ==
    \A c \in Conn : \A i \in 1 .. Len(sent[c]) :
        /\ sent[c][i][1] <= c
        /\ \A j \in 1 .. i : sent[c][j][1] <= sent[c][i][1]

(* The connections that exist. *)
Live == {conn[a] : a \in Address} \ {None}

(* The promise of Service, read off the connections' send buffers. *)
Client == INSTANCE Service WITH
    open <- Live, asked <- decoded, answered <- [c \in Conn |-> Own(c, sent[c])]

(* What a client sees on its connection of its own requests. *)
ServiceSafety == Client!Spec

(***************************************************************************)
(* However the clients behave, the server works its backlog off down to    *)
(* what the two pipes may hold back.                                       *)
(***************************************************************************)
BacklogShrinks == []<>(Cardinality(DOMAIN task) <= 2 * Slack)

(***************************************************************************)
(* What the test NULL != connection in CClientReply::ReplyNotify is for: a *)
(* reply is sent only through a connection that exists.                    *)
(***************************************************************************)
ReplyHasConnection == dangling = {}
==============================================================================
