-------------------------------- MODULE Codec --------------------------------
(***************************************************************************)
(* One connection of tcpservice as a codec: the bytes the kernel hands to  *)
(* CConnection::InputNotify in arbitrary pieces become packets, and the    *)
(* responses appended to the send buffers leave through writev, which may  *)
(* take any part of what it is offered.                                    *)
(*                                                                         *)
(* A byte is <<i, k>>: byte k of request or response i.  The header of     *)
(* packet i is known by its bytes, so a decoder that starts in the wrong   *)
(* place finds no header.  Its fields are as a little-endian host reads    *)
(* them from the wire, before ntohs.  A CBuffers is its list of buffers,   *)
(* each the bytes between its offset and its end, and the length it keeps  *)
(* beside them.                                                            *)
(***************************************************************************)
EXTENDS Integers, Sequences, SequencesExt, FiniteSets

CONSTANTS HeaderSize,   \* sizeof(ProtocolHeader)
          ReadSize,     \* kDefaultBufferLength, what one read asks for
          IOVCount,     \* kDefaultIOVCount, the buffers one writev is offered
          Word,         \* 2^64: m_data_length is a uint64_t
          Streams,      \* what a client may send: sequences of headers
          ResponseBody  \* the length of a response's body

ASSUME CodecAssumption ==
    /\ {HeaderSize, ReadSize, IOVCount, Word, ResponseBody} \subseteq Nat \ {0}

VARIABLES
    stream,   \* the headers of the packets this client sends
    unread,   \* the bytes still in the socket
    recv,     \* CConnection::m_recv_buffers
    tasks,    \* the packets given to OnPacket, oldest first
    owed,     \* those whose response has not come back yet
    sent,     \* the responses, in the order of SendPacket
    send,     \* CConnection::m_send_buffers
    output,   \* EPOLLOUT is asked for
    wire,     \* the bytes writev has taken
    alive     \* the connection has not been deleted

vars == <<stream, unread, recv, tasks, owed, sent, send, output, wire, alive>>

kProtocolMagic == 65020

CT_MIN == 0

CT_MAX == 5

ntohs(n) == (n % 256) * 256 + n \div 256

ntohl(n) == ntohs(n % 65536) * 65536 + ntohs(n \div 65536)

DataLength(h) == ntohl(h.data_length)

Bytes(i, size) == [k \in 1 .. size |-> <<i, k>>]

Least(a, b) == IF a < b THEN a ELSE b

Content(b) == FlattenSeq(b.list)

Empty == [list |-> <<>>, data_length |-> 0]

ResponseSize == HeaderSize + ResponseBody

ProtocolHeader == [magic : Nat, cmd : Nat, data_length : Nat]

(* The first k packets of a stream as bytes. *)
PacketsOf(s, k) == FlattenSeq([i \in 1 .. k |-> Bytes(i, HeaderSize + DataLength(s[i]))])

(* No client sends so much that a uint64_t does not count it. *)
ASSUME StreamsAssumption ==
    \A s \in Streams : s \in Seq(ProtocolHeader) /\ Len(PacketsOf(s, Len(s))) < Word

Packets(k) == PacketsOf(stream, k)

Init ==
    /\ stream \in Streams
    /\ unread = Packets(Len(stream))
    /\ recv = Empty /\ send = Empty
    /\ tasks = <<>> /\ owed = {} /\ sent = <<>>
    /\ output = FALSE /\ wire = <<>> /\ alive = TRUE

(* The number of bytes before buffer k of a list. *)
Before(list, k) == Len(FlattenSeq(SubSeq(list, 1, k - 1)))

PushBack(b, buffer) ==
    [list |-> Append(b.list, buffer), data_length |-> (b.data_length + Len(buffer)) % Word]

(* CBuffers::GetData copies from each buffer what overlaps [pos, pos + length). *)
GetData(b, pos, length) ==
    LET end == pos + length
        copied(k) == LET prev == Before(b.list, k)
                     IN  SubSeq(b.list[k], IF pos > prev THEN pos - prev + 1 ELSE 1,
                                           Least(end - prev, Len(b.list[k])))
    IN  IF pos >= b.data_length THEN <<>>
        ELSE FlattenSeq([k \in DOMAIN b.list |-> copied(k)])

(* CBuffer::EraseFront moves the offset, at most to the end. *)
Cut(buffer, count) == SubSeq(buffer, Least(count, Len(buffer)) + 1, Len(buffer))

(* CBuffers::EraseFront deletes buffers while they fit into count and cuts *)
(* the next one.                                                           *)
EraseFront(b, count) ==
    LET whole == {k \in DOMAIN b.list : /\ Before(b.list, k) < count
                                        /\ Before(b.list, k + 1) <= count}
        rest  == SubSeq(b.list, Cardinality(whole) + 1, Len(b.list))
        over  == Least(count, Len(Content(b))) - Before(b.list, Cardinality(whole) + 1)
    IN  [list |-> IF rest = <<>> THEN <<>>
                  ELSE <<Cut(rest[1], over)>> \o Tail(rest),
         data_length |-> (b.data_length - Least(count, Len(Content(b)))) % Word]

(* The packet whose header stands at pos; 0 if that is no header. *)
HeaderAt(b, pos) ==
    LET at == {i \in DOMAIN stream : GetData(b, pos, HeaderSize) = Bytes(i, HeaderSize)}
    IN  IF at = {} THEN 0 ELSE CHOOSE i \in at : TRUE

HeaderValid(h) == /\ ntohs(h.magic) = kProtocolMagic
                  /\ CT_MIN < ntohs(h.cmd) /\ ntohs(h.cmd) < CT_MAX

DecodeHeader(b, pos) ==
    IF b.data_length < HeaderSize + pos \/ Len(GetData(b, pos, HeaderSize)) # HeaderSize THEN 0
    ELSE IF HeaderAt(b, pos) = 0 \/ ~HeaderValid(stream[HeaderAt(b, pos)]) THEN -1
    ELSE HeaderSize

(* Mutant: off by one, a body that ends with the bytes read is waited for. *)
DecodeBodyLate(b, pos, length) ==
    IF b.data_length <= length + pos THEN 0 ELSE length

DecodeBody(b, pos, length) ==
    IF b.data_length < length + pos \/ Len(GetData(b, pos, length)) # length THEN 0 ELSE length

(* CRequestPacket::Decode: a body of length 0 counts as one not yet there. *)
DecodePacket(b, pos) ==
    LET header == DecodeHeader(b, pos)
        body   == DecodeBody(b, pos + HeaderSize, DataLength(stream[HeaderAt(b, pos)]))
    IN  IF header <= 0 THEN header
        ELSE IF body > 0 THEN header + body ELSE 0

(* Mutant: a bad packet counts as an incomplete one. *)
DecodeSwallows(b) ==
    LET from[pos \in 0 .. b.data_length] ==
            LET size == DecodePacket(b, pos)
            IN  IF size > 0
                THEN [from[pos + size] EXCEPT !.packets = <<HeaderAt(b, pos)>> \o @]
                ELSE [packets |-> <<>>, length |-> pos]
    IN  from[0]

(* CTcpConnection::Decode: packets until one is incomplete or bad.  A bad  *)
(* one is reported only when nothing was decoded before it.                *)
Decode(b) ==
    LET from[pos \in 0 .. b.data_length] ==
            LET size == DecodePacket(b, pos)
            IN  IF size > 0
                THEN [from[pos + size] EXCEPT !.packets = <<HeaderAt(b, pos)>> \o @]
                ELSE [packets |-> <<>>, length |-> IF size < 0 /\ pos = 0 THEN -1 ELSE pos]
    IN  from[0]

(***************************************************************************)
(* CConnection::InputNotify with a read of n bytes: decode, erase what was *)
(* decoded, OnPacket for each packet; OnDecodeError deletes the connection.*)
(***************************************************************************)
InputNotify(n) ==
    /\ alive /\ n \in 1 .. Least(ReadSize, Len(unread))
    /\ unread' = SubSeq(unread, n + 1, Len(unread))
    /\ LET full    == PushBack(recv, SubSeq(unread, 1, n))
           decoded == Decode(full)
       IN  /\ recv' = IF decoded.length > 0 THEN EraseFront(full, decoded.length) ELSE full
           /\ tasks' = tasks \o decoded.packets
           /\ owed' = owed \cup ToSet(decoded.packets)
           /\ alive' = (decoded.length >= 0)
    /\ UNCHANGED <<stream, sent, send, output, wire>>

(* read says the peer has closed, or fails: delete this. *)
InputEnd ==
    /\ alive /\ alive' = FALSE
    /\ UNCHANGED <<stream, unread, recv, tasks, owed, sent, send, output, wire>>

(* CResponsePacket::Encode: list::push_back, so m_data_length stays. *)
Encode(b, i) ==
    LET all == Bytes(i, ResponseSize)
    IN  [b EXCEPT !.list = @ \o <<SubSeq(all, 1, HeaderSize),
                                  SubSeq(all, HeaderSize + 1, Len(all))>>]

(* CClientReply::ReplyNotify on a live connection: CConnection::SendPacket. *)
SendPacket(i) ==
    /\ alive /\ i \in owed
    /\ owed' = owed \ {i} /\ sent' = Append(sent, i)
    /\ send' = Encode(send, i)
    /\ output' = TRUE
    /\ UNCHANGED <<stream, unread, recv, tasks, wire, alive>>

(* What one writev is offered. *)
Offered == FlattenSeq(SubSeq(send.list, 1, Least(IOVCount, Len(send.list))))

(* Mutant: all that was offered counts as written. *)
OutputNotifyAll(n) ==
    /\ alive /\ output /\ n \in 1 .. Len(Offered)
    /\ wire' = wire \o SubSeq(Offered, 1, n)
    /\ send' = EraseFront(send, Len(Offered))
    /\ output' = (send'.list # <<>>)
    /\ UNCHANGED <<stream, unread, recv, tasks, owed, sent, alive>>

(* CConnection::OutputNotify when writev takes n bytes. *)
OutputNotify(n) ==
    /\ alive /\ output /\ n \in 1 .. Len(Offered)
    /\ wire' = wire \o SubSeq(Offered, 1, n)
    /\ send' = EraseFront(send, n)
    /\ output' = (send'.list # <<>>)
    /\ UNCHANGED <<stream, unread, recv, tasks, owed, sent, alive>>

(* writev fails for good: delete this. *)
OutputError ==
    /\ alive /\ output /\ Offered # <<>>
    /\ alive' = FALSE
    /\ UNCHANGED <<stream, unread, recv, tasks, owed, sent, send, output, wire>>

Next == \/ \E n \in 1 .. ReadSize : InputNotify(n)
        \/ InputEnd
        \/ \E i \in owed : SendPacket(i)
        \/ \E n \in 1 .. IOVCount * ResponseSize : OutputNotify(n)
        \/ OutputError

(* writev is called while EPOLLOUT is asked for, and at times it takes something. *)
Fairness == WF_vars(\E n \in 1 .. IOVCount * ResponseSize : OutputNotify(n))

Spec == Init /\ [][Next]_vars /\ Fairness
-----------------------------------------------------------------------------
(* How many bytes the first k packets have, and how many bytes were read. *)
BytesOf(k) == Len(Packets(k))

BytesRead == BytesOf(Len(stream)) - Len(unread)

Decodable(i) == HeaderValid(stream[i]) /\ DataLength(stream[i]) > 0

(* The packets a decoder that sees the whole stream finds in what was read. *)
Reference == {k \in DOMAIN stream : BytesOf(k) <= BytesRead /\ \A i \in 1 .. k : Decodable(i)}

(* The header at the front of the receive buffers is there and not valid. *)
BadFront == LET k == Len(tasks) + 1
            IN  /\ k <= Len(stream) /\ ~HeaderValid(stream[k])
                /\ BytesRead >= BytesOf(k - 1) + HeaderSize

(* What the variables range over. *)
TypeOK ==
    /\ stream \in Streams
    /\ \A b \in {recv, send} : b.data_length \in 0 .. Word - 1
    /\ \A i \in DOMAIN tasks : tasks[i] \in DOMAIN stream
    /\ owed \subseteq ToSet(tasks) /\ ToSet(sent) \subseteq ToSet(tasks)
    /\ output \in BOOLEAN /\ alive \in BOOLEAN

(* However the kernel cuts the stream, the packets given to OnPacket are   *)
(* exactly the leading packets of the stream whose bytes have all been     *)
(* read, up to the first one that is bad or has an empty body, in order.   *)
DecodesTheStream == tasks = [k \in 1 .. Cardinality(Reference) |-> k]

(* A header that is not valid is not waited behind for ever: the read      *)
(* after the one that brought it deletes the connection at the latest.     *)
BadFrontDeletes ==
    [][BadFront /\ unread' # unread => ~alive']_vars

(* Whatever each writev takes, and although the length of the send buffers *)
(* wraps around, the bytes on the wire and those still buffered are the    *)
(* responses in the order of SendPacket, each whole and once.              *)
ResponsesWhole ==
    wire \o Content(send)
        = FlattenSeq([k \in DOMAIN sent |-> Bytes(sent[k], ResponseSize)])

==============================================================================
