-------------------------- MODULE FcgxRequestProofs --------------------------
(***************************************************************************)
(* Two theorems about the applications of libfcgi, for every script of the *)
(* web server and all sizes: the answers are well formed, and of a quiet   *)
(* request each stream is read as it was sent.                             *)
(*                                                                         *)
(* The first invariant says of the answer that is being written what is in *)
(* outbox for each of its streams: a stream whose writer is closed has     *)
(* been closed, or was never used; one that is not closed has not, and has *)
(* no record yet if its writer has not written anything.                   *)
(*                                                                         *)
(* The second places the reader in the bytes that the web server sends on  *)
(* the connection: it is at byte p and has those up to byte q ahead, in    *)
(* its buffer or still to arrive.  Where p is in a record says what the    *)
(* fields of the reader are, and what was read of the stream is the        *)
(* content of its records before p.  A step moves p, and the lemmas say    *)
(* which bytes it passes.                                                  *)
(***************************************************************************)
EXTENDS FcgxRequest, SequenceLemmas
-----------------------------------------------------------------------------
(* The records of s since the last end of an answer. *)
Ongoing(s, i) == \A j \in i .. Len(s) : ~IsEnd(s[j])

Now(s, type) == {i \in DOMAIN s : s[i].type = type /\ Ongoing(s, i)}

Shut(s, type) == ClosedOnce(s, Now(s, type))

Unshut(s, type) == \A i \in Now(s, type) : s[i].len # 0

Formed(s) == \A last \in DOMAIN s : IsEnd(s[last]) => WellFormed(s, last)

IsSeq(s) == \E S : s \in Seq(S)

(* t is s and one record more. *)
Longer(s, t, r) ==
    /\ Len(s) \in Nat /\ DOMAIN s = 1 .. Len(s)
    /\ Len(t) = Len(s) + 1 /\ DOMAIN t = 1 .. Len(t)
    /\ t[Len(t)] = r
    /\ \A i \in DOMAIN s : t[i] = s[i]

LEMMA OneMore == ASSUME NEW s, IsSeq(s), NEW r PROVE IsSeq(s \o <<r>>) /\ Longer(s, s \o <<r>>, r)
<1>1. PICK S : s \in Seq(S)
    BY DEF IsSeq
<1>. DEFINE T == S \cup {r}
<1>2. s \in Seq(T) /\ <<r>> \in Seq(T)
    BY <1>1, SeqWiden
<1>3. s \o <<r>> \in Seq(T)
    BY <1>2
<1>4. Longer(s, s \o <<r>>, r)
    BY <1>2 DEF Longer
<1>. QED
    BY <1>3, <1>4 DEF IsSeq

(* What is going on still is, unless the record ends it. *)
LEMMA OngoingAfter ==
    ASSUME NEW s, NEW t, NEW r, Longer(s, t, r), NEW i \in DOMAIN s
    PROVE  Ongoing(t, i) <=> Ongoing(s, i) /\ ~IsEnd(r)
<1>1. Len(t) \in i .. Len(t) /\ i .. Len(s) \subseteq i .. Len(t)
    BY DEF Longer
<1>2. \A j \in i .. Len(s) : t[j] = s[j] /\ j # Len(t)
    BY DEF Longer
<1>3. \A j \in i .. Len(t) : j \in i .. Len(s) \/ j = Len(t)
    BY DEF Longer
<1>4. t[Len(t)] = r
    BY DEF Longer
<1>. QED
    BY <1>1, <1>2, <1>3, <1>4 DEF Ongoing, IsEnd

(* What a record of another stream, which ends nothing, leaves alone. *)
LEMMA RecordElsewhere ==
    ASSUME NEW s, NEW t, NEW r, Longer(s, t, r), ~IsEnd(r), NEW type, r.type # type
    PROVE  /\ Now(t, type) = Now(s, type)
           /\ Shut(t, type) <=> Shut(s, type)
           /\ Unshut(t, type) <=> Unshut(s, type)
<1>1. Now(t, type) = Now(s, type)
    <2>1. \A i \in DOMAIN t : i \in DOMAIN s \/ t[i] = r
        BY DEF Longer
    <2>2. DOMAIN s \subseteq DOMAIN t /\ \A i \in DOMAIN s : t[i] = s[i]
        BY DEF Longer
    <2>3. \A i \in DOMAIN s : Ongoing(t, i) <=> Ongoing(s, i)
        BY OngoingAfter
    <2>. QED
        BY <2>1, <2>2, <2>3 DEF Now
<1>2. \A i \in Now(s, type) : t[i] = s[i]
    BY DEF Now, Longer
<1>. QED
    BY <1>1, <1>2 DEF Shut, Unshut, ClosedOnce

(* A record of the stream: with content it leaves the stream as it is, and *)
(* without it closes the stream.                                           *)
LEMMA RecordOfStream ==
    ASSUME NEW s, NEW t, NEW r, Longer(s, t, r), ~IsEnd(r), NEW type, r.type = type,
           Unshut(s, type)
    PROVE  /\ r.len # 0 => Unshut(t, type)
           /\ r.len = 0 => Shut(t, type)
<1>1. Now(t, type) \subseteq Now(s, type) \cup {Len(t)}
    <2>1. \A i \in DOMAIN t : i \in DOMAIN s \/ i = Len(t)
        BY DEF Longer
    <2>2. \A i \in DOMAIN s : Ongoing(t, i) <=> Ongoing(s, i)
        BY OngoingAfter
    <2>3. \A i \in DOMAIN s : t[i] = s[i]
        BY DEF Longer
    <2>. QED
        BY <2>1, <2>2, <2>3 DEF Now
<1>2. Len(t) \in Now(t, type)
    <2>1. Len(t) \in DOMAIN t /\ t[Len(t)] = r /\ Len(t) \in Nat
        BY DEF Longer
    <2>2. \A j \in Len(t) .. Len(t) : j = Len(t)
        BY <2>1
    <2>. QED
        BY <2>1, <2>2 DEF Now, Ongoing
<1>3. t[Len(t)] = r
    BY DEF Longer
<1>4. \A i \in Now(s, type) : t[i] = s[i] /\ i <= Len(t) /\ i # Len(t) /\ s[i].len # 0
    BY DEF Now, Longer, Unshut
<1>5. Len(t) <= Len(t)
    BY DEF Longer
<1>6. ASSUME r.len # 0 PROVE Unshut(t, type)
    BY <1>1, <1>3, <1>4, <1>6 DEF Unshut
<1>7. ASSUME r.len = 0 PROVE Shut(t, type)
    <2>1. \A j \in Now(t, type) : j <= Len(t) /\ (t[j].len = 0 <=> j = Len(t))
        BY <1>1, <1>3, <1>4, <1>5, <1>7
    <2>. QED
        BY <1>2, <2>1 DEF Shut, ClosedOnce
<1>. QED
    BY <1>6, <1>7

(* An earlier answer stays as it was. *)
LEMMA FormedBefore ==
    ASSUME NEW s, NEW t, NEW r, Longer(s, t, r), Formed(s), NEW last \in DOMAIN s, IsEnd(t[last])
    PROVE  WellFormed(t, last)
<1>1. WellFormed(s, last)
    BY DEF Formed, Longer
<1>2. \A i \in 1 .. last : i \in DOMAIN s /\ t[i] = s[i]
    BY DEF Longer
<1>3. \A i \in 1 .. last : \A j \in i .. last - 1 : t[j] = s[j]
    BY <1>2 DEF Longer
<1>4. ASSUME NEW type PROVE OfAnswer(t, last, type) = OfAnswer(s, last, type)
    BY <1>2, <1>3 DEF OfAnswer
<1>5. ASSUME NEW type, ClosedOnce(s, OfAnswer(s, last, type))
      PROVE  ClosedOnce(t, OfAnswer(t, last, type))
    <2>1. \A i \in OfAnswer(s, last, type) : t[i] = s[i]
        BY <1>2 DEF OfAnswer
    <2>. QED
        BY <1>4, <1>5, <2>1 DEF ClosedOnce
<1>. QED
    BY <1>1, <1>4, <1>5 DEF WellFormed

LEMMA FormedLonger ==
    ASSUME NEW s, NEW t, NEW r, Longer(s, t, r), ~IsEnd(r), Formed(s)
    PROVE  Formed(t)
<1>1. \A last \in DOMAIN t : IsEnd(t[last]) => last \in DOMAIN s
    BY DEF Longer
<1>. QED
    BY <1>1, FormedBefore DEF Formed

(* The end of an answer whose streams have been closed. *)
LEMMA FormedEnd ==
    ASSUME NEW s, NEW t, NEW r, Longer(s, t, r), IsEnd(r), Formed(s), Shut(s, "STDOUT"),
           Now(s, "STDERR") = {} \/ Shut(s, "STDERR")
    PROVE  Formed(t) /\ \A type : Now(t, type) = {}
<1>1. \A type : Now(t, type) = {}
    <2>1. \A i \in DOMAIN t : ~Ongoing(t, i)
        BY DEF Ongoing, Longer
    <2>. QED
        BY <2>1 DEF Now
<1>2. ASSUME NEW type, type # "END_REQUEST" PROVE OfAnswer(t, Len(t), type) = Now(s, type)
    <2>1. r.type = "END_REQUEST" /\ t[Len(t)] = r /\ Len(t) - 1 = Len(s)
        BY DEF Longer, IsEnd
    <2>2. \A i \in 1 .. Len(t) : i \in DOMAIN s \/ i = Len(t)
        BY DEF Longer
    <2>3. DOMAIN s \subseteq 1 .. Len(t) /\ \A i \in DOMAIN s : t[i] = s[i]
        BY DEF Longer
    <2>4. \A i \in DOMAIN s : \A j \in i .. Len(s) : t[j] = s[j]
        BY DEF Longer
    <2>. QED
        BY <1>2, <2>1, <2>2, <2>3, <2>4 DEF OfAnswer, Now, Ongoing
<1>3. ASSUME NEW type, Shut(s, type) PROVE ClosedOnce(t, Now(s, type))
    <2>1. \A i \in Now(s, type) : t[i] = s[i]
        BY DEF Longer, Now
    <2>. QED
        BY <1>3, <2>1 DEF Shut, ClosedOnce
<1>4. WellFormed(t, Len(t))
    BY <1>2, <1>3 DEF WellFormed
<1>5. \A last \in DOMAIN t : last \in DOMAIN s \/ last = Len(t)
    BY DEF Longer
<1>6. Formed(t)
    BY <1>4, <1>5, FormedBefore DEF Formed
<1>. QED
    BY <1>1, <1>6
-----------------------------------------------------------------------------
(* What s holds of the answer's records of writer w. *)
StreamIs(s, w, closed, anything) ==
    IF closed
    THEN Shut(s, TypeOf(w)) \/ (w = "err" /\ Now(s, TypeOf(w)) = {})
    ELSE /\ Unshut(s, TypeOf(w))
         /\ ~anything => Now(s, TypeOf(w)) = {}

LEMMA Types ==
    /\ TypeOf("out") = "STDOUT" /\ TypeOf("err") = "STDERR"
    /\ \A w \in Writer : TypeOf(w) \in {"STDOUT", "STDERR"}
    /\ \A v, w \in Writer : v # w => TypeOf(v) # TypeOf(w)
BY DEF TypeOf, Writer

(* The records written are none, or one that belongs to writer w alone. *)
LEMMA OneRecord ==
    ASSUME NEW w \in Writer, NEW id, NEW n, NEW pad
    PROVE  LET r == MakeHeader(TypeOf(w), id, n, pad)
           IN  ~IsEnd(r) /\ r.type = TypeOf(w) /\ r.len = n
BY Types DEF MakeHeader, IsEnd

LEMMA Nothing == ASSUME NEW s, IsSeq(s) PROVE s \o <<>> = s
<1>1. PICK S : s \in Seq(S)
    BY DEF IsSeq
<1>. QED
    BY <1>1

(* One record of writer w. *)
LEMMA WriteOne ==
    ASSUME NEW s, IsSeq(s), Formed(s), NEW w \in Writer, NEW r,
           ~IsEnd(r), r.type = TypeOf(w), Unshut(s, TypeOf(w))
    PROVE  LET t == s \o <<r>>
           IN  /\ IsSeq(t) /\ Formed(t)
               /\ \A v \in Writer \ {w} : \A c, a :
                     StreamIs(s, v, c, a) => StreamIs(t, v, c, a)
               /\ r.len # 0 => StreamIs(t, w, FALSE, TRUE)
               /\ r.len = 0 => \A a : StreamIs(t, w, TRUE, a)
<1>. DEFINE t == s \o <<r>>
<1>1. IsSeq(t) /\ Longer(s, t, r)
    BY OneMore
<1>. HIDE DEF t
<1>2. Formed(t)
    BY <1>1, FormedLonger
<1>3. ASSUME NEW v \in Writer \ {w}, NEW c, NEW a, StreamIs(s, v, c, a)
      PROVE  StreamIs(t, v, c, a)
    <2>1. r.type # TypeOf(v)
        BY Types
    <2>2. /\ Now(t, TypeOf(v)) = Now(s, TypeOf(v))
          /\ Shut(t, TypeOf(v)) <=> Shut(s, TypeOf(v))
          /\ Unshut(t, TypeOf(v)) <=> Unshut(s, TypeOf(v))
        BY <1>1, <2>1, RecordElsewhere
    <2>. QED
        BY <1>3, <2>2 DEF StreamIs
<1>4. r.len # 0 => StreamIs(t, w, FALSE, TRUE)
    BY <1>1, RecordOfStream DEF StreamIs
<1>5. r.len = 0 => \A a : StreamIs(t, w, TRUE, a)
    BY <1>1, RecordOfStream DEF StreamIs
<1>. QED
    BY <1>1, <1>2, <1>3, <1>4, <1>5 DEF t

(* The content that a writer's buffer holds. *)
LEMMA ContentsKeep ==
    ASSUME NEW s, IsSeq(s), Formed(s), NEW w \in Writer, NEW n \in Nat,
           NEW anything \in BOOLEAN, StreamIs(s, w, FALSE, anything)
    PROVE  LET t == s \o Contents(w, n)
           IN  /\ IsSeq(t) /\ Formed(t)
               /\ \A v \in Writer \ {w} : \A c, a :
                     StreamIs(s, v, c, a) => StreamIs(t, v, c, a)
               /\ StreamIs(t, w, FALSE, anything \/ n # 0)
<1>1. CASE n = 0
    <2>1. Contents(w, n) = <<>>
        BY <1>1 DEF Contents
    <2>2. s \o Contents(w, n) = s
        BY <2>1, Nothing
    <2>. QED
        BY <1>1, <2>2
<1>2. CASE n # 0
    <2>. DEFINE r == MakeHeader(TypeOf(w), request.requestId, n, Padding(n))
    <2>1. Contents(w, n) = <<r>>
        BY <1>2 DEF Contents
    <2>2. ~IsEnd(r) /\ r.type = TypeOf(w) /\ r.len # 0
        BY <1>2, OneRecord
    <2>3. Unshut(s, TypeOf(w))
        BY DEF StreamIs
    <2>4. (anything \/ n # 0) = TRUE
        BY <1>2
    <2>. HIDE DEF r
    <2>. QED
        BY <2>1, <2>2, <2>3, <2>4, WriteOne
<1>. QED
    BY <1>1, <1>2

(* CloseRecords is the record that closes the stream, and the end of the   *)
(* request if this was the last one.                                       *)
Closing(w) ==
    IF w = "err" /\ writer[w].n = 0 /\ ~writer[w].anything THEN <<>>
    ELSE <<MakeHeader(TypeOf(w), request.requestId, 0, 0)>>

Ending == IF nWriters = 1 THEN <<EndRequest(request.requestId, "REQUEST_COMPLETE")>> ELSE <<>>

LEMMA ClosingKeeps ==
    ASSUME NEW s, IsSeq(s), Formed(s), NEW w \in Writer, writer[w].anything \in BOOLEAN,
           StreamIs(s, w, FALSE, writer[w].anything \/ writer[w].n # 0)
    PROVE  LET t == s \o Closing(w)
           IN  /\ IsSeq(t) /\ Formed(t)
               /\ \A v \in Writer \ {w} : \A c, a :
                     StreamIs(s, v, c, a) => StreamIs(t, v, c, a)
               /\ \A a : StreamIs(t, w, TRUE, a)
<1>1. CASE w = "err" /\ writer[w].n = 0 /\ ~writer[w].anything
    <2>1. s \o Closing(w) = s
        BY <1>1, Nothing DEF Closing
    <2>2. Now(s, TypeOf(w)) = {}
        BY <1>1 DEF StreamIs
    <2>. QED
        BY <1>1, <2>1, <2>2 DEF StreamIs
<1>2. CASE ~(w = "err" /\ writer[w].n = 0 /\ ~writer[w].anything)
    <2>. DEFINE r == MakeHeader(TypeOf(w), request.requestId, 0, 0)
    <2>1. Closing(w) = <<r>>
        BY <1>2 DEF Closing
    <2>2. ~IsEnd(r) /\ r.type = TypeOf(w) /\ r.len = 0
        BY OneRecord
    <2>3. Unshut(s, TypeOf(w))
        BY DEF StreamIs
    <2>. HIDE DEF r
    <2>. QED
        BY <2>1, <2>2, <2>3, WriteOne
<1>. QED
    BY <1>1, <1>2

(* With both writers closed the request ends, and a new answer begins. *)
LEMMA EndingKeeps ==
    ASSUME NEW s, IsSeq(s), Formed(s), NEW id,
           \A w \in Writer : StreamIs(s, w, TRUE, TRUE)
    PROVE  LET t == s \o <<EndRequest(id, "REQUEST_COMPLETE")>>
           IN  IsSeq(t) /\ Formed(t) /\ \A w \in Writer : Now(t, TypeOf(w)) = {}
<1>. DEFINE r == EndRequest(id, "REQUEST_COMPLETE")
            t == s \o <<r>>
<1>1. IsEnd(r)
    BY DEF IsEnd, EndRequest
<1>2. Shut(s, "STDOUT") /\ (Now(s, "STDERR") = {} \/ Shut(s, "STDERR"))
    <2>1. StreamIs(s, "out", TRUE, TRUE) /\ StreamIs(s, "err", TRUE, TRUE)
        BY DEF Writer
    <2>. QED
        BY <2>1, Types DEF StreamIs
<1>. HIDE DEF r
<1>3. IsSeq(t) /\ Longer(s, t, r)
    BY OneMore
<1>. HIDE DEF t
<1>4. Formed(t) /\ \A type : Now(t, type) = {}
    BY <1>1, <1>2, <1>3, FormedEnd
<1>. QED
    BY <1>3, <1>4 DEF t, r
-----------------------------------------------------------------------------
WriterState == [n : Nat, put : Nat, anything : BOOLEAN, closed : BOOLEAN, error : BOOLEAN]

InRequest == at \in {"app", "finish"}

Unclosed == (IF writer["out"].closed THEN 0 ELSE 1) + (IF writer["err"].closed THEN 0 ELSE 1)

Written == \A w \in Writer : StreamIs(outbox, w, writer[w].closed, writer[w].anything)

NothingNow == \A w \in Writer : Now(outbox, TypeOf(w)) = {}

Unconnected == {"window", "accepting", "rejected", "spinning", "exit"}

(* The inductive invariant.  When the web server is gone nothing more is   *)
(* said of outbox than that its answers are well formed: it stays as it is *)
(* until the connection is closed.                                         *)
AnswerInv ==
    /\ IsSeq(outbox) /\ Formed(outbox)
    /\ at \in Unconnected => ~fd
    /\ ~fd => ~open /\ outbox = <<>>
    /\ writer \in [Writer -> WriterState]
    /\ ~InRequest => writer = [w \in Writer |-> NewWriter]
    /\ InRequest => nWriters = Unclosed
    /\ open => IF InRequest /\ nWriters > 0 THEN Written ELSE NothingNow

LEMMA EmptyOutbox ==
    IsSeq(<<>>) /\ Formed(<<>>) /\ \A w \in Writer : Now(<<>>, TypeOf(w)) = {}
<1>1. <<>> \in Seq({}) /\ DOMAIN <<>> = {}
    OBVIOUS
<1>. QED
    BY <1>1 DEF IsSeq, Formed, Now

LEMMA NewWriters == [w \in Writer |-> NewWriter] \in [Writer -> WriterState]
BY DEF NewWriter, WriterState

LEMMA AnswerInit == Init => AnswerInv
<1>. SUFFICES ASSUME Init PROVE AnswerInv
    OBVIOUS
<1>1. /\ outbox = <<>> /\ open = FALSE /\ at = "accept"
      /\ writer = [w \in Writer |-> NewWriter]
    BY DEF Init
<1>. QED
    BY <1>1, EmptyOutbox, NewWriters DEF AnswerInv, InRequest, Unconnected

(* Steps that leave the answer alone. *)
LEMMA AnswerQuiet ==
    ASSUME AnswerInv, UNCHANGED <<outbox, writer, nWriters, fd>>, open' => open,
           \/ UNCHANGED at
           \/ at = "app" /\ at' = "finish"
           \/ ~InRequest /\ ~InRequest' /\ (at' \in Unconnected => ~fd)
    PROVE  AnswerInv'
<1>1. InRequest' <=> InRequest
    BY DEF InRequest
<1>2. at' \in Unconnected => ~fd
    BY DEF AnswerInv, Unconnected
<1>3. (Written' <=> Written) /\ (NothingNow' <=> NothingNow) /\ Unclosed' = Unclosed
    BY DEF Written, NothingNow, Unclosed
<1>4. IsSeq(outbox)' /\ Formed(outbox)'
    BY DEF AnswerInv
<1>. QED
    BY <1>1, <1>2, <1>3, <1>4 DEF AnswerInv

(* Of what the stream layer sends, nothing belongs to an answer. *)
Elsewhere(r) == ~IsEnd(r) /\ r.type \notin {"STDOUT", "STDERR"}

SendsElsewhere ==
    /\ UNCHANGED open
    /\ outbox' = outbox \/ (open /\ \E r : Elsewhere(r) /\ outbox' = outbox \o <<r>>)

LEMMA StreamSends == ASSUME StreamStep PROVE SendsElsewhere
<1>1. \A id : Elsewhere(EndRequest(id, "CANT_MPX_CONN"))
    BY DEF EndRequest, IsEnd, Elsewhere
<1>2. /\ Elsewhere(MakeHeader("UNKNOWN_TYPE", 0, BodyLen, 0))
      /\ Elsewhere(MakeHeader("GET_VALUES_RESULT", 0, 0, 0))
    BY DEF MakeHeader, IsEnd, Elsewhere
<1>3. ASSUME NEW r, BeginRecord(r) PROVE SendsElsewhere
    BY <1>1, <1>3 DEF BeginRecord, Local, Answer, Sends, SendsElsewhere
<1>4. ASSUME NEW r, ManagementRecord(r) PROVE SendsElsewhere
    BY <1>2, <1>4 DEF ManagementRecord, Answer, Sends, SendsElsewhere
<1>5. ASSUME NEW h, ProcessHeader(h) PROVE SendsElsewhere
    <2>. DEFINE r == Record(h)
    <2>1. CASE BadVersion \/ StreamRecord(r) \/ Local
        BY <2>1 DEF BadVersion, StreamRecord, Local, SendsElsewhere
    <2>2. BadVersion \/ BeginRecord(r) \/ ManagementRecord(r) \/ StreamRecord(r) \/ Local
        BY <1>5 DEF ProcessHeader
    <2>. QED
        BY <1>3, <1>4, <2>1, <2>2
<1>6. CASE ReadHeader
    <2>1. (\E h : ProcessHeader(h)) \/ Local
        BY <1>6 DEF ReadHeader
    <2>. QED
        BY <1>5, <2>1 DEF Local, SendsElsewhere
<1>7. CASE OS_Read \/ Deliver \/ SkipContent \/ SkipPadding \/ EndOfRecord
    BY <1>7 DEF OS_Read, Deliver, SkipContent, SkipPadding, EndOfRecord, Local, SendsElsewhere
<1>8. CASE ReadNested \/ EndBody
    BY <1>8 DEF ReadNested, EndBody, SendsElsewhere
<1>9. CASE EndValues
    BY <1>2, <1>9 DEF EndValues, Answer, Sends, SendsElsewhere
<1>. QED
    BY <1>6, <1>7, <1>8, <1>9 DEF StreamStep, FillBuffProc

LEMMA AnswerStream == ASSUME AnswerInv, Stream PROVE AnswerInv'
<1>1. UNCHANGED <<fd, at, writer, nWriters>>
    BY DEF Stream, appVars
<1>2. CASE UNCHANGED outbox
    <2>1. UNCHANGED open
        BY StreamSends DEF Stream, SendsElsewhere
    <2>. QED
        BY <1>1, <1>2, <2>1, AnswerQuiet
<1>3. CASE outbox' # outbox
    <2>1. PICK r : /\ ~IsEnd(r) /\ r.type \notin {"STDOUT", "STDERR"}
                   /\ outbox' = outbox \o <<r>> /\ open /\ UNCHANGED open
        BY <1>3, StreamSends DEF Stream, SendsElsewhere, Elsewhere
    <2>2. IsSeq(outbox') /\ Longer(outbox, outbox', r)
        BY <2>1, OneMore DEF AnswerInv
    <2>3. Formed(outbox')
        BY <2>1, <2>2, FormedLonger DEF AnswerInv
    <2>4. ASSUME NEW w \in Writer
          PROVE  /\ Now(outbox', TypeOf(w)) = Now(outbox, TypeOf(w))
                 /\ Shut(outbox', TypeOf(w)) <=> Shut(outbox, TypeOf(w))
                 /\ Unshut(outbox', TypeOf(w)) <=> Unshut(outbox, TypeOf(w))
        <3>1. r.type # TypeOf(w)
            BY <2>1, Types
        <3>. QED
            BY <2>1, <2>2, <3>1, RecordElsewhere
    <2>5. (Written' <=> Written) /\ (NothingNow' <=> NothingNow) /\ Unclosed' = Unclosed
        BY <1>1, <2>4 DEF Written, NothingNow, Unclosed, StreamIs
    <2>6. fd
        BY <2>1 DEF AnswerInv
    <2>7. InRequest' <=> InRequest
        BY <1>1 DEF InRequest
    <2>8. IsSeq(outbox)' /\ Formed(outbox)'
        BY <2>2, <2>3
    <2>. QED
        BY <1>1, <2>1, <2>5, <2>6, <2>7, <2>8 DEF AnswerInv
<1>. QED
    BY <1>2, <1>3
-----------------------------------------------------------------------------
(* A connection accepted is a new one; the streams of a request are new.   *)
LEMMA AnswerAccepted == ASSUME AnswerInv, Accepted PROVE AnswerInv'
<1>1. /\ UNCHANGED <<outbox, writer, nWriters>>
      /\ at = "accepting"
      /\ \/ at' = "begin" /\ fd' = TRUE
         \/ at' = "rejected" /\ UNCHANGED <<fd, open>>
    BY DEF Accepted, Goes, appVars
<1>2. outbox = <<>> /\ ~fd /\ ~open
    BY <1>1 DEF AnswerInv, Unconnected
<1>3. ~InRequest /\ ~InRequest'
    BY <1>1 DEF InRequest
<1>4. NothingNow'
    BY <1>1, <1>2, EmptyOutbox DEF NothingNow
<1>5. IsSeq(outbox)' /\ Formed(outbox)'
    BY <1>1 DEF AnswerInv
<1>6. (at' \in Unconnected => ~fd') /\ (~fd' => ~open' /\ outbox' = <<>>)
    BY <1>1, <1>2 DEF Unconnected
<1>. QED
    BY <1>1, <1>3, <1>4, <1>5, <1>6 DEF AnswerInv

LEMMA AnswerFree ==
    ASSUME AnswerInv, NEW close \in BOOLEAN, FCGX_Free(close), close \/ (open => NothingNow)
    PROVE  AnswerInv'
<1>1. at' = "accept" /\ writer' = [w \in Writer |-> NewWriter]
    BY DEF FCGX_Free
<1>2. ~InRequest' /\ at' \notin Unconnected
    BY <1>1 DEF InRequest, Unconnected
<1>3. CASE close
    <2>1. ~fd' /\ ~open' /\ outbox' = <<>>
        BY <1>3 DEF FCGX_Free
    <2>2. IsSeq(outbox)' /\ Formed(outbox)'
        BY <2>1, EmptyOutbox
    <2>. QED
        BY <1>1, <1>2, <2>1, <2>2, NewWriters DEF AnswerInv
<1>4. CASE ~close
    <2>1. UNCHANGED <<fd, open, outbox>>
        BY <1>4 DEF FCGX_Free
    <2>2. IsSeq(outbox)' /\ Formed(outbox)'
        BY <2>1 DEF AnswerInv
    <2>3. open' => NothingNow'
        BY <1>4, <2>1 DEF NothingNow
    <2>. QED
        BY <1>1, <1>2, <2>1, <2>2, <2>3, NewWriters DEF AnswerInv
<1>. QED
    BY <1>3, <1>4

LEMMA AnswerStart == ASSUME AnswerInv, StartParams \/ EndParams PROVE AnswerInv'
<1>1. CASE FCGX_Free(TRUE)
    BY <1>1, AnswerFree
<1>2. CASE StartParams /\ ~FCGX_Free(TRUE)
    <2>1. /\ at = "reading begin" /\ at' = "reading params"
          /\ UNCHANGED <<outbox, writer, nWriters, fd, open>>
        BY <1>2 DEF StartParams
    <2>. QED
        BY <2>1, AnswerQuiet DEF InRequest, Unconnected
<1>3. CASE EndParams /\ ~FCGX_Free(TRUE)
    <2>1. /\ at = "reading params" /\ at' = "app" /\ nWriters' = 2
          /\ UNCHANGED <<outbox, writer, fd, open>>
        BY <1>3 DEF EndParams
    <2>2. writer = [w \in Writer |-> NewWriter]
        BY <2>1 DEF AnswerInv, InRequest
    <2>3. Unclosed' = 2
        <3>1. \A w \in Writer : writer'[w].closed = FALSE
            BY <2>1, <2>2 DEF NewWriter
        <3>. QED
            BY <3>1 DEF Unclosed, Writer
    <2>4. open => NothingNow
        BY <2>1 DEF AnswerInv, InRequest
    <2>5. open' => Written'
        BY <2>1, <2>2, <2>4 DEF Written, NothingNow, StreamIs, Unshut, NewWriter
    <2>6. InRequest' /\ at' \notin Unconnected
        BY <2>1 DEF InRequest, Unconnected
    <2>7. IsSeq(outbox)' /\ Formed(outbox)'
        BY <2>1 DEF AnswerInv
    <2>8. (~fd' => ~open' /\ outbox' = <<>>) /\ writer' \in [Writer -> WriterState]
        BY <2>1 DEF AnswerInv
    <2>9. open' => Written'
        BY <2>1, <2>5
    <2>10. nWriters' = 2
        BY <2>1
    <2>11. nWriters' = Unclosed' /\ nWriters' > 0
        BY <2>3, <2>10
    <2>. QED
        BY <2>6, <2>7, <2>8, <2>9, <2>11 DEF AnswerInv
<1>. QED
    BY <1>1, <1>2, <1>3 DEF StartParams, EndParams
-----------------------------------------------------------------------------
(* The writers. *)
LEMMA UnclosedCount ==
    ASSUME writer \in [Writer -> WriterState]
    PROVE  /\ Unclosed \in 0 .. 2
           /\ Unclosed = 0 <=> \A w \in Writer : writer[w].closed
           /\ \A w \in Writer : ~writer[w].closed =>
                 /\ Unclosed \in {1, 2}
                 /\ Unclosed = 1 <=> \A v \in Writer \ {w} : writer[v].closed
BY DEF Unclosed, Writer, WriterState

LEMMA OneCloses ==
    ASSUME writer \in [Writer -> WriterState], writer' \in [Writer -> WriterState],
           NEW w \in Writer, ~writer[w].closed, writer'[w].closed,
           \A v \in Writer \ {w} : writer'[v] = writer[v]
    PROVE  Unclosed' = Unclosed - 1
BY DEF Unclosed, Writer, WriterState

LEMMA OneWrites ==
    ASSUME writer \in [Writer -> WriterState], writer' \in [Writer -> WriterState],
           NEW w \in Writer, writer'[w].closed = writer[w].closed,
           \A v \in Writer \ {w} : writer'[v] = writer[v]
    PROVE  Unclosed' = Unclosed
BY DEF Unclosed, Writer, WriterState

LEMMA AnswerPutChar == ASSUME AnswerInv, NEW w \in Writer, PutChar(w) PROVE AnswerInv'
<1>1. /\ UNCHANGED <<outbox, open, fd, at, nWriters>> /\ at = "app"
      /\ writer' = [writer EXCEPT ![w].n = @ + 1, ![w].put = @ + 1]
    BY DEF PutChar, streamVars
<1>2. writer \in [Writer -> WriterState]
    BY DEF AnswerInv
<1>3. writer' \in [Writer -> WriterState]
    BY <1>1, <1>2 DEF WriterState
<1>4. \A v \in Writer : /\ writer'[v].closed = writer[v].closed
                        /\ writer'[v].anything = writer[v].anything
    BY <1>1, <1>2 DEF WriterState
<1>5. (Written' <=> Written) /\ (NothingNow' <=> NothingNow)
    BY <1>1, <1>4 DEF Written, NothingNow
<1>6. Unclosed' = Unclosed
    BY <1>1, <1>4 DEF Unclosed, Writer
<1>7. IsSeq(outbox)' /\ Formed(outbox)'
    BY <1>1 DEF AnswerInv
<1>8. InRequest /\ InRequest' /\ at' \notin Unconnected
    BY <1>1 DEF InRequest, Unconnected
<1>. QED
    BY <1>1, <1>3, <1>5, <1>6, <1>7, <1>8 DEF AnswerInv

(* What EmptyBuffProc does to its writer and to outbox. *)
LEMMA EmptyDoes ==
    ASSUME writer \in [Writer -> WriterState], NEW w \in Writer, NEW records,
           NEW new \in WriterState, Empty(w, records, new)
    PROVE  /\ writer' \in [Writer -> WriterState]
           /\ writer'[w].closed = new.closed
           /\ \A v \in Writer \ {w} : writer'[v] = writer[v]
           /\ UNCHANGED <<open, fd>>
           /\ ~open => UNCHANGED outbox
           /\ open => /\ outbox' = outbox \o records
                      /\ writer'[w].anything = (new.anything \/ records # <<>>)
<1>1. UNCHANGED <<open, fd>>
    BY DEF Empty
<1>2. CASE /\ Sends(records)
           /\ writer' = [writer EXCEPT ![w] =
                 [new EXCEPT !.n = 0, !.anything = @ \/ records # <<>>]]
    <2>. DEFINE after == [new EXCEPT !.n = 0, !.anything = @ \/ records # <<>>]
    <2>1. /\ after \in WriterState /\ after.closed = new.closed
          /\ after.anything = (new.anything \/ records # <<>>)
        BY DEF WriterState
    <2>. HIDE DEF after
    <2>2. writer' = [writer EXCEPT ![w] = after]
        BY <1>2 DEF after
    <2>. QED
        BY <1>1, <1>2, <2>1, <2>2 DEF Sends
<1>3. CASE /\ ~open /\ UNCHANGED outbox
           /\ writer' = [writer EXCEPT ![w] = [new EXCEPT !.error = TRUE]]
    <2>. DEFINE after == [new EXCEPT !.error = TRUE]
    <2>1. after \in WriterState /\ after.closed = new.closed
        BY DEF WriterState
    <2>. HIDE DEF after
    <2>2. writer' = [writer EXCEPT ![w] = after]
        BY <1>3 DEF after
    <2>. QED
        BY <1>1, <1>3, <2>1, <2>2
<1>. QED
    BY <1>2, <1>3 DEF Empty

LEMMA AnswerFFlush == ASSUME AnswerInv, NEW w \in Writer, FFlush(w) PROVE AnswerInv'
<1>. DEFINE n == writer[w].n
            records == Contents(w, n)
<1>1. /\ UNCHANGED <<at, nWriters>> /\ at = "app" /\ ~writer[w].closed /\ n > 0
      /\ Empty(w, records, writer[w])
    BY DEF FFlush, Usable
<1>2. /\ writer \in [Writer -> WriterState] /\ writer[w] \in WriterState
      /\ n \in Nat /\ n # 0 /\ writer[w].anything \in BOOLEAN /\ writer[w].closed = FALSE
    BY <1>1 DEF AnswerInv, WriterState
<1>3. records # <<>>
    BY <1>2 DEF Contents
<1>. HIDE DEF records
<1>4. /\ writer' \in [Writer -> WriterState]
      /\ writer'[w].closed = writer[w].closed
      /\ \A v \in Writer \ {w} : writer'[v] = writer[v]
      /\ UNCHANGED <<open, fd>>
      /\ ~open => UNCHANGED outbox
      /\ open => outbox' = outbox \o records /\ writer'[w].anything = TRUE
    BY <1>1, <1>2, <1>3, EmptyDoes
<1>5. Unclosed' = Unclosed
    BY <1>2, <1>4, OneWrites
<1>6. InRequest /\ InRequest' /\ at' \notin Unconnected
    BY <1>1 DEF InRequest, Unconnected
<1>7. nWriters = Unclosed /\ nWriters > 0
    BY <1>1, <1>2, <1>6, UnclosedCount DEF AnswerInv
<1>8. CASE ~open
    <2>1. IsSeq(outbox)' /\ Formed(outbox)'
        BY <1>4, <1>8 DEF AnswerInv
    <2>. QED
        BY <1>1, <1>4, <1>5, <1>6, <1>7, <1>8, <2>1 DEF AnswerInv
<1>9. CASE open
    <2>1. Written /\ IsSeq(outbox) /\ Formed(outbox) /\ fd
        BY <1>6, <1>7, <1>9 DEF AnswerInv
    <2>2. StreamIs(outbox, w, FALSE, writer[w].anything)
        BY <1>2, <2>1 DEF Written
    <2>3. /\ IsSeq(outbox') /\ Formed(outbox')
          /\ \A v \in Writer \ {w} : \A c, a :
                StreamIs(outbox, v, c, a) => StreamIs(outbox', v, c, a)
          /\ StreamIs(outbox', w, FALSE, writer[w].anything \/ n # 0)
        <3>1. outbox' = outbox \o Contents(w, n)
            BY <1>4, <1>9 DEF records
        <3>. HIDE DEF n
        <3>. QED
            BY <1>2, <2>1, <2>2, <3>1, ContentsKeep
    <2>4. StreamIs(outbox', w, writer'[w].closed, writer'[w].anything)
        <3>1. (writer[w].anything \/ n # 0) = TRUE
            BY <1>2
        <3>. QED
            BY <1>2, <1>4, <1>9, <2>3, <3>1
    <2>5. \A v \in Writer \ {w} : StreamIs(outbox', v, writer'[v].closed, writer'[v].anything)
        BY <1>4, <2>1, <2>3 DEF Written
    <2>6. Written'
        BY <2>4, <2>5 DEF Written
    <2>7. IsSeq(outbox)' /\ Formed(outbox)'
        BY <2>3
    <2>. QED
        BY <1>1, <1>4, <1>5, <1>6, <1>7, <1>9, <2>1, <2>6, <2>7 DEF AnswerInv
<1>. QED
    BY <1>8, <1>9

(* The order in which the parts of a write are put together is no matter.  *)
Grouped(s, a, b, c) == s \o (a \o (b \o c)) = ((s \o a) \o b) \o c

Associated(x, y, z) == (x \o y) \o z = x \o (y \o z)

LEMMA Regroup ==
    ASSUME NEW s, NEW a, NEW b, NEW c, IsSeq(s), IsSeq(a), IsSeq(b), IsSeq(c)
    PROVE  Grouped(s, a, b, c)
<1>1. PICK S : s \in Seq(S)
    BY DEF IsSeq
<1>2. PICK A : a \in Seq(A)
    BY DEF IsSeq
<1>3. PICK B : b \in Seq(B)
    BY DEF IsSeq
<1>4. PICK C : c \in Seq(C)
    BY DEF IsSeq
<1>. DEFINE T == S \cup A \cup B \cup C
<1>5. S \subseteq T /\ A \subseteq T /\ B \subseteq T /\ C \subseteq T
    OBVIOUS
<1>. HIDE DEF T
<1>6. s \in Seq(T) /\ a \in Seq(T) /\ b \in Seq(T) /\ c \in Seq(T)
    BY <1>1, <1>2, <1>3, <1>4, <1>5, SeqWiden
<1>7. b \o c \in Seq(T) /\ s \o a \in Seq(T)
    BY <1>6, ConcatProperties
<1>8. \A x, y, z \in Seq(T) : Associated(x, y, z)
    BY Associative DEF Associates, Associated
<1>9. Associated(s, a, b \o c) /\ Associated(s \o a, b, c)
    BY <1>6, <1>7, <1>8
<1>. QED
    BY <1>9, Zenon DEF Associated, Grouped

LEMMA Parts ==
    ASSUME NEW w, NEW n
    PROVE  /\ IsSeq(Contents(w, n)) /\ IsSeq(Closing(w)) /\ IsSeq(Ending)
           /\ CloseRecords(w) = Closing(w) \o Ending
<1>1. \A r : <<r>> \in Seq({r})
    OBVIOUS
<1>2. IsSeq(<<>>) /\ \A r : IsSeq(<<r>>)
    BY <1>1, EmptyOutbox DEF IsSeq
<1>. QED
    BY <1>2 DEF Contents, Closing, Ending, CloseRecords

LEMMA ShutAnyway ==
    ASSUME NEW s, NEW w, NEW a, NEW b, StreamIs(s, w, TRUE, a) PROVE StreamIs(s, w, TRUE, b)
BY DEF StreamIs

(* What a writer that closes leaves behind: if it was the last one, a new  *)
(* answer may begin.                                                       *)
LEMMA ClosedAnswer ==
    ASSUME AnswerInv, InRequest, open, NEW w \in Writer, ~writer[w].closed,
           NEW t, t = outbox \o (Contents(w, writer[w].n) \o CloseRecords(w))
    PROVE  /\ IsSeq(t) /\ Formed(t)
           /\ nWriters = 1 => \A v \in Writer : Now(t, TypeOf(v)) = {}
           /\ nWriters # 1 => /\ \A a : StreamIs(t, w, TRUE, a)
                              /\ \A v \in Writer \ {w} :
                                    StreamIs(t, v, writer[v].closed, writer[v].anything)
<1>. DEFINE n == writer[w].n
            s1 == outbox \o Contents(w, n)
            s2 == s1 \o Closing(w)
<1>1. /\ writer \in [Writer -> WriterState] /\ writer[w] \in WriterState
      /\ n \in Nat /\ writer[w].anything \in BOOLEAN /\ writer[w].closed = FALSE
    BY DEF AnswerInv, WriterState
<1>2. nWriters = Unclosed /\ nWriters > 0
    BY <1>1, UnclosedCount DEF AnswerInv
<1>3. Written /\ IsSeq(outbox) /\ Formed(outbox)
    BY <1>2 DEF AnswerInv
<1>4. t = s2 \o Ending
    <2>1. t = outbox \o (Contents(w, n) \o (Closing(w) \o Ending))
        BY Parts
    <2>2. IsSeq(Contents(w, n)) /\ IsSeq(Closing(w)) /\ IsSeq(Ending)
        BY Parts
    <2>3. ASSUME NEW a, NEW b, NEW c, IsSeq(a), IsSeq(b), IsSeq(c)
          PROVE  Grouped(outbox, a, b, c)
        BY <1>3, <2>3, Regroup
    <2>. QED
        BY <2>1, <2>2, <2>3 DEF Grouped
<1>5. StreamIs(outbox, w, FALSE, writer[w].anything)
    BY <1>1, <1>3 DEF Written
<1>6. /\ IsSeq(s1) /\ Formed(s1)
      /\ \A v \in Writer \ {w} : \A c, a : StreamIs(outbox, v, c, a) => StreamIs(s1, v, c, a)
      /\ StreamIs(s1, w, FALSE, writer[w].anything \/ n # 0)
    <2>. HIDE DEF n
    <2>. QED
        BY <1>1, <1>3, <1>5, ContentsKeep DEF s1
<1>. HIDE DEF s1
<1>7. /\ IsSeq(s2) /\ Formed(s2)
      /\ \A v \in Writer \ {w} : \A c, a : StreamIs(s1, v, c, a) => StreamIs(s2, v, c, a)
      /\ \A a : StreamIs(s2, w, TRUE, a)
    BY <1>1, <1>6, ClosingKeeps DEF s2
<1>. HIDE DEF s2
<1>8. \A v \in Writer \ {w} : StreamIs(s2, v, writer[v].closed, writer[v].anything)
    BY <1>3, <1>6, <1>7 DEF Written
<1>9. CASE nWriters = 1
    <2>1. \A v \in Writer \ {w} : writer[v].closed = TRUE
        BY <1>1, <1>2, <1>9, UnclosedCount DEF WriterState
    <2>2. \A v \in Writer \ {w} : StreamIs(s2, v, TRUE, TRUE)
        BY <1>8, <2>1, ShutAnyway
    <2>3. \A v \in Writer : StreamIs(s2, v, TRUE, TRUE)
        BY <1>7, <2>2
    <2>4. t = s2 \o <<EndRequest(request.requestId, "REQUEST_COMPLETE")>>
        BY <1>4, <1>9 DEF Ending
    <2>. QED
        BY <1>7, <1>9, <2>3, <2>4, EndingKeeps
<1>10. CASE nWriters # 1
    <2>1. t = s2
        BY <1>4, <1>7, <1>10, Nothing DEF Ending
    <2>. QED
        BY <1>7, <1>8, <1>10, <2>1
<1>. QED
    BY <1>9, <1>10

LEMMA AnswerClose == ASSUME AnswerInv, InRequest, UNCHANGED at, NEW w \in Writer, Close(w) PROVE AnswerInv'
<1>. DEFINE n == writer[w].n
            records == Contents(w, n) \o CloseRecords(w)
            new == [writer[w] EXCEPT !.closed = TRUE]
<1>1. nWriters' = nWriters - 1 /\ ~writer[w].closed /\ Empty(w, records, new)
    BY DEF Close
<1>2. writer \in [Writer -> WriterState] /\ writer[w] \in WriterState
    BY DEF AnswerInv
<1>3. new \in WriterState /\ new.closed
    BY <1>2 DEF WriterState
<1>. HIDE DEF records, new
<1>4. /\ writer' \in [Writer -> WriterState]
      /\ writer'[w].closed = TRUE
      /\ \A v \in Writer \ {w} : writer'[v] = writer[v]
      /\ UNCHANGED <<open, fd>>
      /\ ~open => UNCHANGED outbox
      /\ open => outbox' = outbox \o records
    <2>1. new.closed = TRUE
        BY <1>3 DEF WriterState
    <2>. QED
        BY <1>1, <1>2, <1>3, <2>1, EmptyDoes
<1>5. Unclosed' = Unclosed - 1
    BY <1>1, <1>2, <1>4, OneCloses
<1>6. InRequest' /\ at' \notin Unconnected
    BY DEF InRequest, Unconnected
<1>7. nWriters = Unclosed /\ nWriters \in {1, 2}
    BY <1>1, <1>2, UnclosedCount DEF AnswerInv
<1>8. nWriters' = Unclosed' /\ (nWriters' > 0 <=> nWriters # 1)
    BY <1>1, <1>5, <1>7
<1>9. CASE ~open
    <2>1. IsSeq(outbox)' /\ Formed(outbox)'
        BY <1>4, <1>9 DEF AnswerInv
    <2>2. ~open' /\ (~fd' => outbox' = <<>>)
        BY <1>4, <1>9 DEF AnswerInv
    <2>. QED
        BY <1>4, <1>6, <1>8, <2>1, <2>2 DEF AnswerInv
<1>10. CASE open
    <2>1. outbox' = outbox \o (Contents(w, writer[w].n) \o CloseRecords(w))
        BY <1>4, <1>10 DEF records
    <2>2. /\ IsSeq(outbox') /\ Formed(outbox')
          /\ nWriters = 1 => \A v \in Writer : Now(outbox', TypeOf(v)) = {}
          /\ nWriters # 1 => /\ \A a : StreamIs(outbox', w, TRUE, a)
                             /\ \A v \in Writer \ {w} :
                                   StreamIs(outbox', v, writer[v].closed, writer[v].anything)
        BY <1>1, <1>10, <2>1, ClosedAnswer
    <2>3. IsSeq(outbox)' /\ Formed(outbox)'
        BY <2>2
    <2>4. nWriters = 1 => NothingNow'
        BY <2>2 DEF NothingNow
    <2>5. nWriters # 1 => Written'
        BY <1>4, <2>2 DEF Written
    <2>6. fd' /\ open'
        BY <1>4, <1>10 DEF AnswerInv
    <2>. QED
        BY <1>4, <1>6, <1>8, <2>3, <2>4, <2>5, <2>6 DEF AnswerInv
<1>. QED
    BY <1>9, <1>10

(* FCGX_Free comes after both writers have been closed. *)
LEMMA AnswerFinish == ASSUME AnswerInv, FinishWriters \/ Free PROVE AnswerInv'
<1>1. CASE FinishWriters
    <2>1. InRequest /\ UNCHANGED at /\ \E w \in Writer : Close(w)
        BY <1>1 DEF FinishWriters, InRequest, Writer
    <2>. QED
        BY <2>1, AnswerClose
<1>2. CASE Free
    <2>. DEFINE close == ~request.keepConnection \/ in.error \/ \E w \in Writer : writer[w].error
    <2>1. FCGX_Free(close) /\ InRequest /\ \A w \in Writer : writer[w].closed
        BY <1>2 DEF Free, InRequest
    <2>2. nWriters = 0
        BY <2>1, UnclosedCount DEF AnswerInv
    <2>3. open => NothingNow
        BY <2>1, <2>2 DEF AnswerInv
    <2>4. close \in BOOLEAN
        OBVIOUS
    <2>. HIDE DEF close
    <2>. QED
        BY <2>1, <2>3, <2>4, AnswerFree
<1>. QED
    BY <1>1, <1>2

LEMMA AnswerWriters ==
    ASSUME AnswerInv, NEW w \in Writer, PutChar(w) \/ FFlush(w) \/ FClose(w)
    PROVE  AnswerInv'
<1>1. CASE FClose(w)
    <2>1. InRequest /\ UNCHANGED at /\ Close(w)
        BY <1>1 DEF FClose, InRequest
    <2>. QED
        BY <2>1, AnswerClose
<1>. QED
    BY <1>1, AnswerPutChar, AnswerFFlush

LEMMA AnswerOther ==
    ASSUME AnswerInv,
           \/ OS_Accept \/ OS_AcceptAgain \/ CallAccept \/ Begin \/ ReadParams
           \/ GetStr \/ StartFilterData \/ Finish \/ Send \/ Leave \/ Sigusr1
    PROVE  AnswerInv'
<1>1. /\ UNCHANGED <<outbox, writer, nWriters, fd>> /\ (open' => open)
      /\ \/ UNCHANGED at
         \/ at = "app" /\ at' = "finish"
         \/ /\ ~InRequest /\ ~InRequest'
            /\ at' \in Unconnected => at \in Unconnected \/ ~fd
    <2>1. CASE OS_Accept \/ OS_AcceptAgain \/ CallAccept
        <3>1. /\ UNCHANGED <<outbox, writer, nWriters, fd, open>>
              /\ at \in {"accept", "rejected", "window"}
              /\ at' \in {"exit", "window", "spinning", "accepting"}
              /\ at = "accept" => ~fd
            BY <2>1 DEF OS_Accept, OS_AcceptAgain, CallAccept, Goes, streamVars, appVars
        <3>. QED
            BY <3>1 DEF InRequest, Unconnected
    <2>5. CASE Begin
        BY <2>5 DEF Begin, appVars, InRequest, Unconnected
    <2>6. ASSUME NEW n, Get(n) PROVE <1>1
        BY <2>6 DEF Get
    <2>2. CASE ReadParams \/ GetStr
        BY <2>2, <2>6 DEF ReadParams, GetStr
    <2>7. CASE StartFilterData \/ Finish
        BY <2>7 DEF StartFilterData, Finish, Goes, streamVars, appVars
    <2>3. CASE Send \/ Leave
        BY <2>3 DEF Send, Leave, appVars
    <2>4. CASE Sigusr1
        BY <2>4 DEF Sigusr1, Goes, appVars, InRequest, Unconnected
    <2>. QED
        BY <2>1, <2>2, <2>3, <2>4, <2>5, <2>7
<1>2. at \in Unconnected => ~fd
    BY DEF AnswerInv
<1>. QED
    BY <1>1, <1>2, AnswerQuiet

LEMMA AnswerNext == AnswerInv /\ [Next]_vars => AnswerInv'
<1>. SUFFICES ASSUME AnswerInv, [Next]_vars PROVE AnswerInv'
    OBVIOUS
<1>1. CASE Next
    BY <1>1, AnswerStream, AnswerAccepted, AnswerStart, AnswerFinish, AnswerWriters, AnswerOther
       DEF Next, Library, App
<1>2. CASE UNCHANGED vars
    BY <1>2, AnswerQuiet DEF vars, streamVars
<1>. QED
    BY <1>1, <1>2

(* Whatever the application writes, flushes and closes, in whichever order *)
(* it closes its writers, and whatever it leaves to FCGX_Finish_r, the web *)
(* server sees one answer after the other: STDOUT is closed once, STDERR   *)
(* if it was used, nothing of a stream comes after its close, and          *)
(* END_REQUEST comes last (WriteCloseRecords, fcgiapp.c:1347).             *)
THEOREM AnswersAreWellFormed == Spec => []AnswersWellFormed
<1>1. AnswerInv => AnswersWellFormed
    BY DEF AnswerInv, Formed, AnswersWellFormed
<1>. QED
    BY AnswerInit, AnswerNext, <1>1, PTL DEF Spec
-----------------------------------------------------------------------------
(* Induction over sequences, for a set of them. *)
LEMMA SeqInduct ==
    ASSUME NEW A, NEW P, <<>> \in P,
           \A s \in Seq(A), a \in A : s \in P => s \o <<a>> \in P
    PROVE  \A s \in Seq(A) : s \in P
<1>. DEFINE N == {n \in Nat : \A s \in Seq(A) : Len(s) = n => s \in P}
<1>1. 0 \in N
    BY EmptySeq
<1>2. ASSUME NEW n \in Nat, n \in N PROVE n + 1 \in N
    <2>. SUFFICES ASSUME NEW s \in Seq(A), Len(s) = n + 1 PROVE s \in P
        OBVIOUS
    <2>0. s # <<>>
        BY EmptySeq
    <2>1. PICK t \in Seq(A), a \in A : s = Append(t, a)
        BY <2>0, SequenceEmptyOrAppend
    <2>2. Len(t) = n /\ s = t \o <<a>>
        BY <2>1, AppendProperties, AppendIsConcat
    <2>. QED
        BY <1>2, <2>2
<1>3. ASSUME NEW s \in Seq(A) PROVE Len(s) \in N
    <2>1. Len(s) \in Nat
        BY LenProperties
    <2>. HIDE DEF N
    <2>. QED
        BY <1>1, <1>2, <2>1, Induct
<1>. QED
    BY <1>3

(* What a function makes of the elements of a sequence, one after the other. *)
Pieces(f, s) == [i \in 1 .. Len(s) |-> f[s[i]]]

Gather(f, s) == FlattenSeq(Pieces(f, s))

ArePieces(S, x, f, s) ==
    x \in Lists(S) /\ Len(x) = Len(s) /\ \A i \in 1 .. Len(s) : x[i] = f[s[i]]

LEMMA PiecesAre ==
    ASSUME NEW A, NEW S, NEW f \in [A -> Seq(S)], NEW s \in Seq(A)
    PROVE  ArePieces(S, Pieces(f, s), f, s)
<1>1. Len(s) \in Nat /\ \A i \in 1 .. Len(s) : s[i] \in A
    BY LenProperties, ElementOfSeq
<1>2. Pieces(f, s) \in [1 .. Len(s) -> Seq(S)]
    BY <1>1 DEF Pieces
<1>3. Pieces(f, s) \in Lists(S) /\ Len(Pieces(f, s)) = Len(s)
    BY <1>1, <1>2, FunctionIsList
<1>4. \A i \in 1 .. Len(s) : Pieces(f, s)[i] = f[s[i]]
    BY DEF Pieces
<1>. QED
    BY <1>3, <1>4 DEF ArePieces

LEMMA GatherType ==
    ASSUME NEW A, NEW S, NEW f \in [A -> Seq(S)], NEW s \in Seq(A)
    PROVE  Gather(f, s) \in Seq(S)
<1>1. Pieces(f, s) \in Lists(S)
    BY PiecesAre DEF ArePieces
<1>. QED
    BY <1>1, ListType DEF Gather

LEMMA JoinedLists ==
    ASSUME NEW T, NEW x \in Seq(T), NEW y \in Seq(T), NEW z \in Seq(T), Len(z) = Len(x) + Len(y),
           \A i \in 1 .. Len(x) + Len(y) : z[i] = IF i <= Len(x) THEN x[i] ELSE y[i - Len(x)]
    PROVE  z = x \o y
<1>1. /\ x \o y \in Seq(T) /\ Len(x \o y) = Len(x) + Len(y)
      /\ \A i \in 1 .. Len(x) + Len(y) : (x \o y)[i] = IF i <= Len(x) THEN x[i] ELSE y[i - Len(x)]
    BY ConcatProperties
<1>. QED
    BY <1>1, SeqEqual

LEMMA GatherConcat ==
    ASSUME NEW A, NEW S, NEW f \in [A -> Seq(S)], NEW s \in Seq(A), NEW t \in Seq(A)
    PROVE  Gather(f, s \o t) = Gather(f, s) \o Gather(f, t)
<1>. DEFINE u == s \o t
            x == Pieces(f, s)
            y == Pieces(f, t)
            z == Pieces(f, u)
<1>1. /\ u \in Seq(A) /\ Len(u) = Len(s) + Len(t) /\ Len(s) \in Nat /\ Len(t) \in Nat
      /\ \A i \in 1 .. Len(s) + Len(t) : u[i] = IF i <= Len(s) THEN s[i] ELSE t[i - Len(s)]
    BY ConcatProperties, LenProperties
<1>. HIDE DEF u
<1>2. ArePieces(S, x, f, s) /\ ArePieces(S, y, f, t) /\ ArePieces(S, z, f, u)
    BY <1>1, PiecesAre
<1>. HIDE DEF x, y, z
<1>3. x \in Lists(S) /\ y \in Lists(S) /\ z \in Lists(S)
    BY <1>2 DEF ArePieces
<1>4. Len(x) = Len(s) /\ Len(y) = Len(t) /\ Len(z) = Len(x) + Len(y)
    BY <1>1, <1>2 DEF ArePieces
<1>6. ASSUME NEW i \in 1 .. Len(x) + Len(y)
      PROVE  z[i] = IF i <= Len(x) THEN x[i] ELSE y[i - Len(x)]
    <2>0. i \in 1 .. Len(u) /\ z[i] = f[u[i]]
        BY <1>1, <1>2, <1>4 DEF ArePieces
    <2>1. i <= Len(s) => i \in 1 .. Len(s) /\ x[i] = f[s[i]]
        BY <1>1, <1>2 DEF ArePieces
    <2>3. ~(i <= Len(s)) => i - Len(s) \in 1 .. Len(t)
        BY <1>1, <1>4
    <2>2. ~(i <= Len(s)) => y[i - Len(s)] = f[t[i - Len(s)]]
        BY <1>2, <2>3 DEF ArePieces
    <2>. QED
        BY <1>1, <1>4, <2>0, <2>1, <2>2
<1>7. z = x \o y
    BY <1>3, <1>4, <1>6, JoinedLists DEF Lists
<1>8. FlattenSeq(x \o y) = FlattenSeq(x) \o FlattenSeq(y)
    BY <1>3, ListConcat
<1>. QED
    BY <1>7, <1>8 DEF Gather, x, y, z, u

Joins(f, A) == \A x, y \in Seq(A) : Gather(f, x \o y) = Gather(f, x) \o Gather(f, y)

LEMMA GatherJoins ==
    ASSUME NEW A, NEW S, NEW f \in [A -> Seq(S)]
    PROVE  Joins(f, A)
BY GatherConcat DEF Joins

LEMMA GatherEmpty == \A f : Gather(f, <<>>) = <<>>
<1>. TAKE f
<1>1. Pieces(f, <<>>) = <<>>
    BY DEF Pieces
<1>. QED
    BY <1>1, FlattenEmpty DEF Gather

LEMMA GatherOne ==
    ASSUME NEW A, NEW S, NEW f \in [A -> Seq(S)], NEW a \in A
    PROVE  Gather(f, <<a>>) = f[a]
<1>1. Pieces(f, <<a>>) = <<f[a]>> /\ f[a] \in Seq(S)
    BY DEF Pieces
<1>. QED
    BY <1>1, ListPair DEF Gather

LEMMA GatherNext ==
    ASSUME NEW A, NEW S, NEW f \in [A -> Seq(S)], NEW s \in Seq(A), NEW a \in A
    PROVE  Gather(f, s \o <<a>>) = Gather(f, s) \o f[a]
<1>1. <<a>> \in Seq(A)
    OBVIOUS
<1>2. \A t \in Seq(A) : Gather(f, s \o t) = Gather(f, s) \o Gather(f, t)
    BY GatherConcat
<1>3. Gather(f, <<a>>) = f[a]
    BY GatherOne
<1>. QED
    BY <1>1, <1>2, <1>3, Zenon

(* Of a sequence that ends with a. *)
LEMMA LastOf ==
    ASSUME NEW A, NEW s \in Seq(A), NEW a \in A
    PROVE  /\ s \o <<a>> \in Seq(A) /\ Len(s \o <<a>>) = Len(s) + 1 /\ Len(s) \in Nat
           /\ \A i \in 1 .. Len(s) : (s \o <<a>>)[i] = s[i]
           /\ (s \o <<a>>)[Len(s) + 1] = a
<1>1. s \o <<a>> = Append(s, a)
    BY AppendIsConcat
<1>. QED
    BY <1>1, AppendProperties, LenProperties

LEMMA GatherNone ==
    ASSUME NEW A, NEW S, NEW f \in [A -> Seq(S)], NEW s \in Seq(A),
           \A i \in 1 .. Len(s) : f[s[i]] = <<>>
    PROVE  Gather(f, s) = <<>>
<1>. DEFINE P == {t \in Seq(A) : (\A i \in 1 .. Len(t) : f[t[i]] = <<>>) => Gather(f, t) = <<>>}
<1>1. <<>> \in P
    BY GatherEmpty
<1>2. ASSUME NEW t \in Seq(A), NEW a \in A, t \in P PROVE t \o <<a>> \in P
    <2>1. /\ t \o <<a>> \in Seq(A) /\ Len(t \o <<a>>) = Len(t) + 1 /\ Len(t) \in Nat
          /\ \A i \in 1 .. Len(t) : (t \o <<a>>)[i] = t[i]
          /\ (t \o <<a>>)[Len(t) + 1] = a
        BY LastOf
    <2>. SUFFICES ASSUME \A i \in 1 .. Len(t \o <<a>>) : f[(t \o <<a>>)[i]] = <<>>
                  PROVE  Gather(f, t \o <<a>>) = <<>>
        BY <2>1
    <2>2. \A i \in 1 .. Len(t) : f[t[i]] = <<>>
        BY <2>1
    <2>3. f[a] = <<>>
        BY <2>1
    <2>4. Gather(f, t) = <<>>
        BY <1>2, <2>2
    <2>5. Gather(f, t \o <<a>>) = Gather(f, t) \o f[a]
        BY GatherNext
    <2>. QED
        BY <2>3, <2>4, <2>5
<1>. HIDE DEF P
<1>3. s \in P
    BY <1>1, <1>2, SeqInduct
<1>. QED
    BY <1>3 DEF P

LEMMA GatherAll ==
    ASSUME NEW A, NEW f \in [A -> Seq(A)], NEW s \in Seq(A),
           \A i \in 1 .. Len(s) : f[s[i]] = <<s[i]>>
    PROVE  Gather(f, s) = s
<1>. DEFINE P == {t \in Seq(A) : (\A i \in 1 .. Len(t) : f[t[i]] = <<t[i]>>) => Gather(f, t) = t}
<1>1. <<>> \in P
    BY GatherEmpty
<1>2. ASSUME NEW t \in Seq(A), NEW a \in A, t \in P PROVE t \o <<a>> \in P
    <2>1. /\ t \o <<a>> \in Seq(A) /\ Len(t \o <<a>>) = Len(t) + 1 /\ Len(t) \in Nat
          /\ \A i \in 1 .. Len(t) : (t \o <<a>>)[i] = t[i]
          /\ (t \o <<a>>)[Len(t) + 1] = a
        BY LastOf
    <2>. SUFFICES ASSUME \A i \in 1 .. Len(t \o <<a>>) : f[(t \o <<a>>)[i]] = <<(t \o <<a>>)[i]>>
                  PROVE  Gather(f, t \o <<a>>) = t \o <<a>>
        BY <2>1
    <2>6. \A i \in 1 .. Len(t) : i \in 1 .. Len(t \o <<a>>)
        BY <2>1
    <2>2. \A i \in 1 .. Len(t) : f[t[i]] = <<t[i]>>
        BY <2>1, <2>6, Zenon
    <2>7. Len(t) + 1 \in 1 .. Len(t \o <<a>>)
        BY <2>1
    <2>3. f[a] = <<a>>
        BY <2>1, <2>7, Zenon
    <2>4. Gather(f, t) = t
        BY <1>2, <2>2
    <2>5. Gather(f, t \o <<a>>) = Gather(f, t) \o f[a]
        BY GatherNext, ZenonT(40)
    <2>. QED
        BY <2>3, <2>4, <2>5
<1>. HIDE DEF P
<1>3. s \in P
    BY <1>1, <1>2, SeqInduct
<1>. QED
    BY <1>3 DEF P

Composes(h, g, f, s) == Gather(g, Gather(f, s)) = Gather(h, s)

Composed(h, g, f, A) == \A a \in A : h[a] = Gather(g, f[a])

LEMMA GatherGather ==
    ASSUME NEW A, NEW B, NEW C, NEW f \in [A -> Seq(B)], NEW g \in [B -> Seq(C)],
           NEW h \in [A -> Seq(C)], Composed(h, g, f, A), NEW s \in Seq(A)
    PROVE  Composes(h, g, f, s)
<1>0. \A x, y \in Seq(B) : Gather(g, x \o y) = Gather(g, x) \o Gather(g, y)
    BY GatherJoins DEF Joins
<1>. DEFINE P == {t \in Seq(A) : Gather(g, Gather(f, t)) = Gather(h, t)}
<1>1. <<>> \in P
    BY GatherEmpty
<1>2. ASSUME NEW t \in Seq(A), NEW a \in A, t \in P PROVE t \o <<a>> \in P
    <2>1. t \o <<a>> \in Seq(A)
        BY LastOf
    <2>2. Gather(f, t \o <<a>>) = Gather(f, t) \o f[a] /\ Gather(h, t \o <<a>>) = Gather(h, t) \o h[a]
        BY GatherNext, ZenonT(40)
    <2>3. Gather(f, t) \in Seq(B) /\ f[a] \in Seq(B)
        BY GatherType
    <2>4. Gather(g, Gather(f, t) \o f[a]) = Gather(g, Gather(f, t)) \o Gather(g, f[a])
        BY <1>0, <2>3
    <2>. QED
        BY <1>2, <2>1, <2>2, <2>4 DEF Composed
<1>. HIDE DEF P
<1>3. s \in P
    BY <1>1, <1>2, SeqInduct
<1>. QED
    BY <1>3 DEF P, Composes
-----------------------------------------------------------------------------
(* Records on the wire.  The place of a record is its exchange, of[2], and *)
(* its number in it.                                                       *)
Sized(R) == \A r \in R : {r.len, r.pad, r.no, r.of[2]} \subseteq Nat

Octets(R) == R \X Nat

Size(r) == HeaderLen + r.len + r.pad

LEMMA OctetIs ==
    ASSUME NEW R, NEW b \in Octets(R)
    PROVE  b[1] \in R /\ b[2] \in Nat /\ b = <<b[1], b[2]>>
BY DEF Octets

LEMMA SizeType ==
    ASSUME NEW R, Sized(R), NEW r \in R
    PROVE  /\ Size(r) \in Nat /\ HeaderLen \in 1 .. Size(r) /\ HeaderLen + r.len \in 1 .. Size(r)
           /\ r.len \in Nat /\ r.pad \in Nat /\ r.no \in Nat /\ r.of[2] \in Nat
<1>1. r.len \in Nat /\ r.pad \in Nat /\ r.no \in Nat /\ r.of[2] \in Nat
    BY DEF Sized
<1>. QED
    BY <1>1, FcgiRecordAssumption DEF Size

IsBytes(R, s, r) ==
    /\ s \in Seq(Octets(R)) /\ Len(s) = Size(r) /\ DOMAIN s = 1 .. Size(r)
    /\ \A k \in 1 .. Size(r) : s[k] = <<r, k>>

LEMMA BytesAre == ASSUME NEW R, Sized(R), NEW r \in R PROVE IsBytes(R, Bytes(r), r)
<1>1. Size(r) \in Nat
    BY SizeType
<1>2. Bytes(r) = [k \in 1 .. Size(r) |-> <<r, k>>]
    BY DEF Bytes, Size
<1>3. \A k \in 1 .. Size(r) : <<r, k>> \in Octets(R)
    BY <1>1 DEF Octets
<1>4. Bytes(r) \in Seq(Octets(R)) /\ Len(Bytes(r)) = Size(r)
    BY <1>1, <1>2, <1>3, FunctionIsSeq
<1>. QED
    BY <1>2, <1>4 DEF IsBytes

BytesOf(R) == [r \in R |-> Bytes(r)]

LEMMA WireIs ==
    ASSUME NEW R, Sized(R), NEW l \in Seq(R)
    PROVE  /\ BytesOf(R) \in [R -> Seq(Octets(R))]
           /\ Wire(l) = Gather(BytesOf(R), l) /\ Wire(l) \in Seq(Octets(R))
<1>1. BytesOf(R) \in [R -> Seq(Octets(R))]
    BY BytesAre DEF IsBytes, BytesOf
<1>2. Wire(l) = Gather(BytesOf(R), l)
    <2>1. DOMAIN l = 1 .. Len(l) /\ \A i \in 1 .. Len(l) : l[i] \in R
        BY LenProperties, ElementOfSeq
    <2>2. \A i \in 1 .. Len(l) : BytesOf(R)[l[i]] = Bytes(l[i])
        BY <2>1 DEF BytesOf
    <2>3. [i \in DOMAIN l |-> Bytes(l[i])] = Pieces(BytesOf(R), l)
        BY <2>1, <2>2 DEF Pieces
    <2>. QED
        BY <2>3 DEF Wire, Gather
<1>3. Gather(BytesOf(R), l) \in Seq(Octets(R))
    BY <1>1, GatherType
<1>. QED
    BY <1>1, <1>2, <1>3

LEMMA WireConcat ==
    ASSUME NEW R, Sized(R), NEW l \in Seq(R), NEW m \in Seq(R)
    PROVE  Wire(l \o m) = Wire(l) \o Wire(m)
<1>1. l \o m \in Seq(R)
    OBVIOUS
<1>2. \A k \in Seq(R) : Wire(k) = Gather(BytesOf(R), k)
    BY WireIs
<1>3. BytesOf(R) \in [R -> Seq(Octets(R))]
    BY WireIs
<1>4. Gather(BytesOf(R), l \o m) = Gather(BytesOf(R), l) \o Gather(BytesOf(R), m)
    <2>. DEFINE f == BytesOf(R)
                S == Octets(R)
    <2>. HIDE DEF f, S
    <2>1. f \in [R -> Seq(S)]
        BY <1>3 DEF f, S
    <2>2. Gather(f, l \o m) = Gather(f, l) \o Gather(f, m)
        BY <2>1, GatherConcat
    <2>. QED
        BY <2>2 DEF f
<1>. QED
    BY <1>1, <1>2, <1>4

LEMMA WireNext ==
    ASSUME NEW R, Sized(R), NEW l \in Seq(R), NEW r \in R
    PROVE  Wire(l \o <<r>>) = Wire(l) \o Bytes(r)
<1>1. l \o <<r>> \in Seq(R)
    OBVIOUS
<1>2. \A k \in Seq(R) : Wire(k) = Gather(BytesOf(R), k)
    BY WireIs
<1>3. BytesOf(R) \in [R -> Seq(Octets(R))]
    BY WireIs
<1>4. Gather(BytesOf(R), l \o <<r>>) = Gather(BytesOf(R), l) \o BytesOf(R)[r]
    BY <1>3, GatherNext
<1>. QED
    BY <1>1, <1>2, <1>4 DEF BytesOf

LEMMA WireEmpty == Wire(<<>>) = <<>>
<1>1. [i \in DOMAIN <<>> |-> Bytes(<<>>[i])] = <<>>
    OBVIOUS
<1>. QED
    BY <1>1, FlattenEmpty DEF Wire

(* A byte is among all the bytes of its record, in their order. *)
Whole(w) ==
    \A j \in DOMAIN w :
        /\ w[j][2] \in 1 .. Size(w[j][1])
        /\ \A m \in 1 .. Size(w[j][1]) :
              j - w[j][2] + m \in DOMAIN w /\ w[j - w[j][2] + m] = <<w[j][1], m>>

Earlier(r, s) == r.of[2] < s.of[2] \/ (r.of[2] = s.of[2] /\ r.no < s.no)

Sorted(w) == \A i, j \in DOMAIN w : Earlier(w[i][1], w[j][1]) => i < j

Covers(w, l) ==
    /\ \A j \in DOMAIN w : \E k \in DOMAIN l : w[j][1] = l[k]
    /\ \A k \in DOMAIN l : \E j \in DOMAIN w : w[j] = <<l[k], 1>>

Laid(w, l) == Whole(w) /\ Sorted(w) /\ Covers(w, l)

Rising(l) == \A i, j \in DOMAIN l : i < j => Earlier(l[i], l[j])

(* The bytes of one record behind others. *)
IsJoin(u, w, s) ==
    /\ Len(w) \in Nat /\ Len(s) \in Nat /\ DOMAIN w = 1 .. Len(w)
    /\ Len(u) = Len(w) + Len(s) /\ DOMAIN u = 1 .. Len(u)
    /\ \A i \in DOMAIN w : u[i] = w[i]
    /\ \A i \in 1 .. Len(s) : u[Len(w) + i] = s[i]

LEMMA JoinIs ==
    ASSUME NEW S, NEW w \in Seq(S), NEW s \in Seq(S)
    PROVE  w \o s \in Seq(S) /\ IsJoin(w \o s, w, s)
<1>1. /\ w \o s \in Seq(S) /\ Len(w \o s) = Len(w) + Len(s)
      /\ \A i \in 1 .. Len(w) + Len(s) : (w \o s)[i] = IF i <= Len(w) THEN w[i] ELSE s[i - Len(w)]
    BY ConcatProperties
<1>2. /\ Len(w) \in Nat /\ Len(s) \in Nat /\ DOMAIN w = 1 .. Len(w)
      /\ DOMAIN (w \o s) = 1 .. Len(w \o s)
    BY <1>1, LenProperties
<1>3. \A i \in DOMAIN w : (w \o s)[i] = w[i]
    BY <1>1, <1>2
<1>4. \A i \in 1 .. Len(s) : (w \o s)[Len(w) + i] = s[i]
    BY <1>1, <1>2
<1>. QED
    BY <1>1, <1>2, <1>3, <1>4 DEF IsJoin

LEMMA WholeNext ==
    ASSUME NEW R, Sized(R), NEW w \in Seq(Octets(R)), NEW r \in R, NEW s, IsBytes(R, s, r),
           NEW u, IsJoin(u, w, s), Whole(w)
    PROVE  Whole(u)
<1>0. Len(w) \in Nat /\ Len(s) = Size(r) /\ Size(r) \in Nat /\ Len(u) = Len(w) + Size(r)
    BY SizeType DEF IsJoin, IsBytes
<1>1. ASSUME NEW j \in DOMAIN w
      PROVE  /\ u[j][2] \in 1 .. Size(u[j][1])
             /\ \A m \in 1 .. Size(u[j][1]) :
                   j - u[j][2] + m \in DOMAIN u /\ u[j - u[j][2] + m] = <<u[j][1], m>>
    <2>1. u[j] = w[j] /\ DOMAIN w \subseteq DOMAIN u
        BY <1>0 DEF IsJoin
    <2>2. \A i \in DOMAIN w : u[i] = w[i]
        BY DEF IsJoin
    <2>3. /\ w[j][2] \in 1 .. Size(w[j][1])
          /\ \A m \in 1 .. Size(w[j][1]) :
                j - w[j][2] + m \in DOMAIN w /\ w[j - w[j][2] + m] = <<w[j][1], m>>
        BY <1>1 DEF Whole
    <2>. QED
        BY <2>1, <2>2, <2>3
<1>2. ASSUME NEW j \in DOMAIN u, j \notin DOMAIN w
      PROVE  /\ u[j][2] \in 1 .. Size(u[j][1])
             /\ \A m \in 1 .. Size(u[j][1]) :
                   j - u[j][2] + m \in DOMAIN u /\ u[j - u[j][2] + m] = <<u[j][1], m>>
    <2>. DEFINE k == j - Len(w)
    <2>0. j \in 1 .. Len(w) + Size(r) /\ ~(j \in 1 .. Len(w))
        BY <1>0, <1>2 DEF IsJoin
    <2>1. k \in 1 .. Size(r) /\ j = Len(w) + k /\ j - k = Len(w)
        BY <1>0, <2>0
    <2>. HIDE DEF k
    <2>2. \A m \in 1 .. Size(r) : u[Len(w) + m] = <<r, m>> /\ Len(w) + m \in DOMAIN u
        BY <1>0 DEF IsJoin, IsBytes
    <2>3. u[j] = <<r, k>>
        BY <2>1, <2>2
    <2>4. u[j][1] = r /\ u[j][2] = k
        BY <2>3
    <2>. QED
        BY <2>1, <2>2, <2>4
<1>. QED
    BY <1>1, <1>2 DEF Whole

LEMMA SortedNext ==
    ASSUME NEW R, Sized(R), NEW w \in Seq(Octets(R)), NEW r \in R, NEW s, IsBytes(R, s, r),
           NEW u, IsJoin(u, w, s), Sorted(w), \A j \in DOMAIN w : Earlier(w[j][1], r)
    PROVE  Sorted(u)
<1>0. Len(w) \in Nat /\ Len(s) = Size(r) /\ Size(r) \in Nat /\ Len(u) = Len(w) + Size(r)
    BY SizeType DEF IsJoin, IsBytes
<1>1. \A j \in DOMAIN w : u[j] = w[j] /\ w[j][1] \in R
    <2>1. \A j \in DOMAIN w : w[j] \in Octets(R)
        BY LenProperties, ElementOfSeq
    <2>. QED
        BY <2>1, OctetIs DEF IsJoin
<1>2. \A j \in DOMAIN u : j \notin DOMAIN w => u[j][1] = r
    <2>. SUFFICES ASSUME NEW j \in DOMAIN u, j \notin DOMAIN w PROVE u[j][1] = r
        OBVIOUS
    <2>1. j - Len(w) \in 1 .. Size(r) /\ j = Len(w) + (j - Len(w))
        BY <1>0 DEF IsJoin
    <2>2. u[j] = s[j - Len(w)] /\ s[j - Len(w)] = <<r, j - Len(w)>>
        BY <1>0, <2>1 DEF IsJoin, IsBytes
    <2>. QED
        BY <2>2
<1>3. \A q \in R : {q.no, q.of[2]} \subseteq Nat
    BY DEF Sized
<1>4. ~Earlier(r, r) /\ \A q \in R : Earlier(q, r) => ~Earlier(r, q)
    BY <1>3 DEF Earlier
<1>5. ASSUME NEW i \in DOMAIN u, NEW j \in DOMAIN u, Earlier(u[i][1], u[j][1]) PROVE i < j
    <2>1. CASE i \in DOMAIN w /\ j \in DOMAIN w
        BY <1>1, <1>5, <2>1 DEF Sorted
    <2>2. CASE i \in DOMAIN w /\ j \notin DOMAIN w
        BY <1>0, <2>2 DEF IsJoin
    <2>3. CASE i \notin DOMAIN w /\ j \in DOMAIN w
        BY <1>1, <1>2, <1>4, <1>5, <2>3
    <2>4. CASE i \notin DOMAIN w /\ j \notin DOMAIN w
        BY <1>2, <1>4, <1>5, <2>4
    <2>. QED
        BY <2>1, <2>2, <2>3, <2>4
<1>. QED
    BY <1>5 DEF Sorted

LEMMA CoversNext ==
    ASSUME NEW R, Sized(R), NEW w \in Seq(Octets(R)), NEW r \in R, NEW s, IsBytes(R, s, r),
           NEW u, IsJoin(u, w, s), NEW l, NEW k, IsJoin(k, l, <<r>>), Covers(w, l)
    PROVE  Covers(u, k)
<1>0. Len(w) \in Nat /\ Len(s) = Size(r) /\ Size(r) \in Nat /\ Len(u) = Len(w) + Size(r)
    BY SizeType DEF IsJoin, IsBytes
<1>1. \A i \in DOMAIN l : i \in DOMAIN k /\ k[i] = l[i]
    BY DEF IsJoin
<1>2. /\ Len(l) + 1 \in DOMAIN k /\ k[Len(l) + 1] = r
      /\ \A i \in DOMAIN k : i \in DOMAIN l \/ i = Len(l) + 1
    <2>1. Len(<<r>>) = 1 /\ <<r>>[1] = r /\ 1 \in 1 .. 1
        OBVIOUS
    <2>2. Len(l) \in Nat /\ Len(k) = Len(l) + 1 /\ DOMAIN l = 1 .. Len(l) /\ DOMAIN k = 1 .. Len(k)
        BY <2>1 DEF IsJoin
    <2>3. k[Len(l) + 1] = r
        BY <2>1 DEF IsJoin
    <2>. QED
        BY <2>2, <2>3
<1>3. \A j \in DOMAIN w : j \in DOMAIN u /\ u[j] = w[j]
    BY DEF IsJoin
<1>4. \A m \in 1 .. Size(r) : Len(w) + m \in DOMAIN u /\ u[Len(w) + m] = <<r, m>>
    BY <1>0 DEF IsJoin, IsBytes
<1>5. \A j \in DOMAIN u : j \in DOMAIN w \/ u[j][1] = r
    <2>. SUFFICES ASSUME NEW j \in DOMAIN u, j \notin DOMAIN w PROVE u[j][1] = r
        OBVIOUS
    <2>1. j - Len(w) \in 1 .. Size(r) /\ j = Len(w) + (j - Len(w))
        BY <1>0 DEF IsJoin
    <2>2. u[j] = <<r, j - Len(w)>>
        BY <1>4, <2>1
    <2>. QED
        BY <2>2
<1>6. \A j \in DOMAIN u : \E i \in DOMAIN k : u[j][1] = k[i]
    BY <1>1, <1>2, <1>3, <1>5 DEF Covers
<1>7. \A i \in DOMAIN k : \E j \in DOMAIN u : u[j] = <<k[i], 1>>
    <2>1. 1 \in 1 .. Size(r)
        BY SizeType
    <2>. QED
        BY <1>1, <1>2, <1>3, <1>4, <2>1, ZenonT(40) DEF Covers
<1>. QED
    BY <1>6, <1>7 DEF Covers

LEMMA WireLaid == ASSUME NEW R, Sized(R), NEW l \in Seq(R), Rising(l) PROVE Laid(Wire(l), l)
<1>. DEFINE P == {m \in Seq(R) : Rising(m) => Laid(Wire(m), m)}
<1>1. <<>> \in P
    BY WireEmpty DEF Laid, Whole, Sorted, Covers
<1>2. ASSUME NEW m \in Seq(R), NEW r \in R, m \in P PROVE m \o <<r>> \in P
    <2>. DEFINE k == m \o <<r>>
                w == Wire(m)
                s == Bytes(r)
                u == Wire(k)
    <2>1. <<r>> \in Seq(R)
        OBVIOUS
    <2>2. k \in Seq(R) /\ IsJoin(k, m, <<r>>)
        BY <2>1, JoinIs
    <2>. SUFFICES ASSUME Rising(k) PROVE Laid(u, k)
        BY <2>2
    <2>3. w \in Seq(Octets(R)) /\ IsBytes(R, s, r) /\ u = w \o s
        BY WireIs, BytesAre, WireNext
    <2>4. s \in Seq(Octets(R))
        BY <2>3 DEF IsBytes
    <2>5. IsJoin(u, w, s)
        BY <2>3, <2>4, JoinIs
    <2>. HIDE DEF k, w, s, u
    <2>6. \A i \in DOMAIN m : i \in DOMAIN k /\ k[i] = m[i] /\ i < Len(m) + 1
        BY <2>2 DEF IsJoin
    <2>7. Len(m) + 1 \in DOMAIN k /\ k[Len(m) + 1] = r
        <3>1. Len(<<r>>) = 1 /\ <<r>>[1] = r /\ 1 \in 1 .. 1
            OBVIOUS
        <3>. QED
            BY <2>2, <3>1 DEF IsJoin
    <2>8. Rising(m) /\ \A i \in DOMAIN m : Earlier(m[i], r)
        BY <2>6, <2>7 DEF Rising
    <2>9. Laid(w, m)
        BY <1>2, <2>8 DEF w
    <2>10. \A j \in DOMAIN w : Earlier(w[j][1], r)
        BY <2>8, <2>9 DEF Laid, Covers
    <2>11. Whole(u)
        BY <2>3, <2>5, <2>9, WholeNext DEF Laid
    <2>12. Sorted(u)
        BY <2>3, <2>5, <2>9, <2>10, SortedNext DEF Laid
    <2>13. Covers(u, k)
        BY <2>2, <2>3, <2>5, <2>9, CoversNext DEF Laid
    <2>. QED
        BY <2>11, <2>12, <2>13 DEF Laid
<1>. HIDE DEF P
<1>3. l \in P
    BY <1>1, <1>2, SeqInduct
<1>. QED
    BY <1>3 DEF P
-----------------------------------------------------------------------------
(* Behind the last byte of a record comes the first of another. *)
LEMMA NextRecord ==
    ASSUME NEW R, Sized(R), NEW w \in Seq(Octets(R)), Whole(w), NEW j \in DOMAIN w,
           w[j][2] = Size(w[j][1]), j + 1 \in DOMAIN w
    PROVE  w[j + 1][2] = 1
<1>. DEFINE r == w[j][1]
            q == w[j + 1][1]
            k == w[j + 1][2]
<1>0. DOMAIN w = 1 .. Len(w) /\ Len(w) \in Nat
    BY LenProperties
<1>1. r \in R /\ q \in R /\ k \in Nat
    BY <1>0, ElementOfSeq, OctetIs
<1>2. Size(r) \in Nat /\ Size(q) \in Nat
    BY <1>1, SizeType
<1>3. /\ k \in 1 .. Size(q)
      /\ \A m \in 1 .. Size(q) : (j + 1) - k + m \in DOMAIN w /\ w[(j + 1) - k + m] = <<q, m>>
    BY DEF Whole
<1>. HIDE DEF q, k
<1>4. CASE k = 1
    BY <1>4 DEF k
<1>5. CASE k # 1
    <2>1. k - 1 \in 1 .. Size(q) /\ (j + 1) - k + (k - 1) = j
        BY <1>0, <1>1, <1>2, <1>3, <1>5
    <2>2. w[j] = <<q, k - 1>>
        BY <1>3, <2>1
    <2>3. r = q /\ w[j][2] = k - 1
        BY <2>2
    <2>. QED
        BY <1>1, <1>2, <1>3, <2>3
<1>. QED
    BY <1>4, <1>5

LEMMA FirstRecord ==
    ASSUME NEW R, Sized(R), NEW w \in Seq(Octets(R)), Whole(w), 1 \in DOMAIN w
    PROVE  w[1][2] = 1
<1>. DEFINE q == w[1][1]
            k == w[1][2]
<1>0. DOMAIN w = 1 .. Len(w) /\ Len(w) \in Nat
    BY LenProperties
<1>1. q \in R /\ k \in Nat
    BY <1>0, ElementOfSeq, OctetIs
<1>2. Size(q) \in Nat
    BY <1>1, SizeType
<1>3. k \in 1 .. Size(q) /\ \A m \in 1 .. Size(q) : 1 - k + m \in DOMAIN w
    BY DEF Whole
<1>. HIDE DEF q, k
<1>4. 1 \in 1 .. Size(q)
    BY <1>1, <1>2, <1>3
<1>5. 1 - k + 1 \in DOMAIN w
    BY <1>3, <1>4
<1>6. k = 1
    BY <1>0, <1>1, <1>3, <1>5
<1>. QED
    BY <1>6 DEF k

(* Where record r starts: the bytes before it and it itself. *)
LEMMA RecordAt ==
    ASSUME NEW R, Sized(R), NEW w \in Seq(Octets(R)), Whole(w),
           NEW p \in 0 .. Len(w) - 1, w[p + 1][2] = 1
    PROVE  LET r == w[p + 1][1] IN
           /\ r \in R /\ p + Size(r) <= Len(w)
           /\ \A m \in 1 .. Size(r) : w[p + m] = <<r, m>>
           /\ p + Size(r) < Len(w) => w[p + Size(r) + 1][2] = 1
<1>. DEFINE r == w[p + 1][1]
<1>0. DOMAIN w = 1 .. Len(w) /\ Len(w) \in Nat
    BY LenProperties
<1>1. p + 1 \in DOMAIN w /\ r \in R
    BY <1>0, ElementOfSeq, OctetIs
<1>2. Size(r) \in Nat
    BY <1>1, SizeType
<1>3. \A m \in 1 .. Size(r) : (p + 1) - 1 + m \in DOMAIN w /\ w[(p + 1) - 1 + m] = <<r, m>>
    BY <1>1 DEF Whole
<1>4. \A m \in 1 .. Size(r) : p + m \in DOMAIN w /\ w[p + m] = <<r, m>>
    <2>. SUFFICES ASSUME NEW m \in 1 .. Size(r) PROVE p + m \in DOMAIN w /\ w[p + m] = <<r, m>>
        OBVIOUS
    <2>1. (p + 1) - 1 + m = p + m
        BY <1>2
    <2>. QED
        BY <1>3, <2>1
<1>5. Size(r) \in 1 .. Size(r)
    BY <1>1, <1>2, SizeType
<1>6. p + Size(r) \in DOMAIN w /\ w[p + Size(r)] = <<r, Size(r)>>
    BY <1>4, <1>5
<1>. HIDE DEF r
<1>7. p + Size(r) < Len(w) => w[p + Size(r) + 1][2] = 1
    <2>. SUFFICES ASSUME p + Size(r) < Len(w) PROVE w[p + Size(r) + 1][2] = 1
        OBVIOUS
    <2>. DEFINE j == p + Size(r)
    <2>1. j + 1 \in DOMAIN w /\ j \in DOMAIN w
        BY <1>0, <1>2, <1>6
    <2>2. w[j][2] = Size(w[j][1])
        BY <1>6
    <2>. HIDE DEF j
    <2>3. w[j + 1][2] = 1
        BY <2>1, <2>2, NextRecord
    <2>. QED
        BY <2>3 DEF j
<1>. QED
    BY <1>0, <1>1, <1>4, <1>6, <1>7 DEF r

(* Byte b belongs to the content of stream type of the request that is     *)
(* viewed, and what of a sequence does.                                    *)
Mine(v, type, b) ==
    /\ b[1].of[2] = v.of /\ b[1].id = v.id /\ b[1].type = type
    /\ b[2] \in HeaderLen + 1 .. HeaderLen + b[1].len

Pick(v, type, R) == [b \in Octets(R) |-> IF Mine(v, type, b) THEN <<b>> ELSE <<>>]

Chosen(v, type, s) ==
    FlattenSeq([i \in 1 .. Len(s) |-> IF Mine(v, type, s[i]) THEN <<s[i]>> ELSE <<>>])

LEMMA PickIs ==
    ASSUME NEW R, NEW v, NEW type
    PROVE  /\ Pick(v, type, R) \in [Octets(R) -> Seq(Octets(R))]
           /\ \A b \in Octets(R) : Pick(v, type, R)[b] = IF Mine(v, type, b) THEN <<b>> ELSE <<>>
           /\ \A s \in Seq(Octets(R)) : Chosen(v, type, s) = Gather(Pick(v, type, R), s)
<1>. DEFINE O == Octets(R)
<1>. HIDE DEF O
<1>1. \A b \in O : (IF Mine(v, type, b) THEN <<b>> ELSE <<>>) \in Seq(O)
    OBVIOUS
<1>2. Pick(v, type, R) = [b \in O |-> IF Mine(v, type, b) THEN <<b>> ELSE <<>>]
    BY DEF Pick, O
<1>3. ASSUME NEW s \in Seq(O) PROVE Chosen(v, type, s) = Gather(Pick(v, type, R), s)
    <2>1. \A i \in 1 .. Len(s) : s[i] \in O
        BY ElementOfSeq
    <2>2. Pieces(Pick(v, type, R), s)
              = [i \in 1 .. Len(s) |-> IF Mine(v, type, s[i]) THEN <<s[i]>> ELSE <<>>]
        BY <1>2, <2>1 DEF Pieces
    <2>. QED
        BY <2>2 DEF Chosen, Gather
<1>. QED
    BY <1>1, <1>2, <1>3 DEF O

LEMMA ChosenType ==
    ASSUME NEW R, NEW v, NEW type, NEW s \in Seq(Octets(R))
    PROVE  Chosen(v, type, s) \in Seq(Octets(R))
<1>1. /\ Pick(v, type, R) \in [Octets(R) -> Seq(Octets(R))]
      /\ Chosen(v, type, s) = Gather(Pick(v, type, R), s)
    BY PickIs
<1>. QED
    BY <1>1, GatherType

LEMMA ChosenConcat ==
    ASSUME NEW R, NEW v, NEW type, NEW s \in Seq(Octets(R)), NEW t \in Seq(Octets(R))
    PROVE  Chosen(v, type, s \o t) = Chosen(v, type, s) \o Chosen(v, type, t)
<1>. DEFINE O == Octets(R)
            f == Pick(v, type, R)
<1>1. f \in [O -> Seq(O)] /\ \A u \in Seq(O) : Chosen(v, type, u) = Gather(f, u)
    BY PickIs
<1>2. s \o t \in Seq(O)
    OBVIOUS
<1>. HIDE DEF O, f
<1>3. s \in Seq(O) /\ t \in Seq(O)
    BY DEF O
<1>6. f \in [O -> Seq(O)]
    BY <1>1
<1>5. Joins(f, O)
    BY <1>6, GatherJoins
<1>4. Gather(f, s \o t) = Gather(f, s) \o Gather(f, t)
    BY <1>3, <1>5 DEF Joins
<1>. QED
    BY <1>1, <1>2, <1>3, <1>4

LEMMA ChosenNone ==
    ASSUME NEW R, NEW v, NEW type, NEW s \in Seq(Octets(R)),
           \A i \in 1 .. Len(s) : ~Mine(v, type, s[i])
    PROVE  Chosen(v, type, s) = <<>>
<1>. DEFINE O == Octets(R)
            f == Pick(v, type, R)
<1>1. /\ f \in [O -> Seq(O)] /\ Chosen(v, type, s) = Gather(f, s)
      /\ \A b \in O : f[b] = IF Mine(v, type, b) THEN <<b>> ELSE <<>>
    BY PickIs
<1>. HIDE DEF O, f
<1>2. s \in Seq(O) /\ \A i \in 1 .. Len(s) : s[i] \in O
    BY ElementOfSeq DEF O
<1>3. \A i \in 1 .. Len(s) : f[s[i]] = <<>>
    BY <1>1, <1>2
<1>. QED
    BY <1>1, <1>2, <1>3, GatherNone

LEMMA ChosenAll ==
    ASSUME NEW R, NEW v, NEW type, NEW s \in Seq(Octets(R)),
           \A i \in 1 .. Len(s) : Mine(v, type, s[i])
    PROVE  Chosen(v, type, s) = s
<1>. DEFINE O == Octets(R)
            f == Pick(v, type, R)
<1>1. /\ f \in [O -> Seq(O)] /\ Chosen(v, type, s) = Gather(f, s)
      /\ \A b \in O : f[b] = IF Mine(v, type, b) THEN <<b>> ELSE <<>>
    BY PickIs
<1>. HIDE DEF O, f
<1>2. s \in Seq(O) /\ \A i \in 1 .. Len(s) : s[i] \in O
    BY ElementOfSeq DEF O
<1>3. \A i \in 1 .. Len(s) : f[s[i]] = <<s[i]>>
    BY <1>1, <1>2
<1>. QED
    BY <1>1, <1>2, <1>3, GatherAll

(* What is chosen of the first n bytes, and of the first p of them. *)
LEMMA ChosenSplit ==
    ASSUME NEW R, NEW v, NEW type, NEW w \in Seq(Octets(R)), NEW n \in 0 .. Len(w), NEW p \in 0 .. n
    PROVE  /\ Chosen(v, type, Part(w, 0, n))
                  = Chosen(v, type, Part(w, 0, p)) \o Chosen(v, type, Part(w, p, n))
           /\ Chosen(v, type, Part(w, 0, p)) \in Seq(Octets(R)) /\ Part(w, p, n) \in Seq(Octets(R))
           /\ \A i \in 1 .. Len(Part(w, p, n)) : p + i \in p + 1 .. n /\ Part(w, p, n)[i] = w[p + i]
<1>. DEFINE O == Octets(R)
            a == Part(w, 0, p)
            b == Part(w, p, n)
<1>0. Len(w) \in Nat
    BY LenProperties
<1>1. a \in Seq(O) /\ b \in Seq(O) /\ Part(w, 0, n) = a \o b
    <2>1. p \in 0 .. Len(w) /\ 0 \in 0 .. p
        BY <1>0
    <2>. QED
        BY <2>1, PartType, PartConcat
<1>2. Len(b) = n - p /\ \A i \in 1 .. n - p : b[i] = w[p + i]
    BY PartType
<1>3. \A i \in 1 .. Len(b) : p + i \in p + 1 .. n /\ b[i] = w[p + i]
    BY <1>0, <1>2
<1>. HIDE DEF a, b
<1>4. Chosen(v, type, a \o b) = Chosen(v, type, a) \o Chosen(v, type, b)
    BY <1>1, ChosenConcat
<1>5. Chosen(v, type, a) \in Seq(O)
    BY <1>1, ChosenType
<1>. QED
    BY <1>1, <1>3, <1>4, <1>5 DEF a, b

LEMMA ChosenSkip ==
    ASSUME NEW R, NEW v, NEW type, NEW w \in Seq(Octets(R)), NEW n \in 0 .. Len(w), NEW p \in 0 .. n,
           \A j \in p + 1 .. n : ~Mine(v, type, w[j])
    PROVE  Chosen(v, type, Part(w, 0, n)) = Chosen(v, type, Part(w, 0, p))
<1>. DEFINE a == Part(w, 0, p)
            b == Part(w, p, n)
<1>1. /\ Chosen(v, type, Part(w, 0, n)) = Chosen(v, type, a) \o Chosen(v, type, b)
      /\ Chosen(v, type, a) \in Seq(Octets(R)) /\ b \in Seq(Octets(R))
      /\ \A i \in 1 .. Len(b) : p + i \in p + 1 .. n /\ b[i] = w[p + i]
    BY ChosenSplit
<1>. HIDE DEF a, b
<1>2. \A i \in 1 .. Len(b) : ~Mine(v, type, b[i])
    BY <1>1
<1>3. Chosen(v, type, b) = <<>>
    BY <1>1, <1>2, ChosenNone
<1>. QED
    BY <1>1, <1>3, ConcatEmptySeq DEF a

Takes(v, type, w, p, n) ==
    Chosen(v, type, Part(w, 0, n)) = Chosen(v, type, Part(w, 0, p)) \o Part(w, p, n)

LEMMA ChosenTake ==
    ASSUME NEW R, NEW v, NEW type, NEW w \in Seq(Octets(R)), NEW n \in 0 .. Len(w), NEW p \in 0 .. n,
           \A j \in p + 1 .. n : Mine(v, type, w[j])
    PROVE  Takes(v, type, w, p, n)
<1>. DEFINE a == Part(w, 0, p)
            b == Part(w, p, n)
<1>1. /\ Chosen(v, type, Part(w, 0, n)) = Chosen(v, type, a) \o Chosen(v, type, b)
      /\ Chosen(v, type, a) \in Seq(Octets(R)) /\ b \in Seq(Octets(R))
      /\ \A i \in 1 .. Len(b) : p + i \in p + 1 .. n /\ b[i] = w[p + i]
    BY ChosenSplit
<1>. HIDE DEF a, b
<1>2. \A i \in 1 .. Len(b) : Mine(v, type, b[i])
    BY <1>1
<1>3. Chosen(v, type, b) = b
    BY <1>1, <1>2, ChosenAll
<1>. QED
    BY <1>1, <1>3 DEF a, b, Takes

LEMMA ChosenPrefix ==
    ASSUME NEW R, NEW v, NEW type, NEW w \in Seq(Octets(R)), NEW n \in 0 .. Len(w)
    PROVE  IsPrefix(Chosen(v, type, Part(w, 0, n)), Chosen(v, type, w))
<1>. DEFINE O == Octets(R)
            a == Part(w, 0, n)
            b == Part(w, n, Len(w))
<1>0. Len(w) \in Nat /\ Part(w, 0, Len(w)) = w
    BY LenProperties, SubSeqFull DEF Part
<1>1. a \in Seq(O) /\ b \in Seq(O) /\ w = a \o b
    <2>1. 0 \in 0 .. n /\ n \in 0 .. Len(w) /\ Len(w) \in 0 .. Len(w)
        BY <1>0
    <2>2. a \in Seq(O) /\ b \in Seq(O)
        BY <2>1, PartType
    <2>3. Part(w, 0, n) \o Part(w, n, Len(w)) = Part(w, 0, Len(w))
        BY <2>1, PartConcat
    <2>. QED
        BY <1>0, <2>2, <2>3
<1>. HIDE DEF a, b
<1>2. Chosen(v, type, w) = Chosen(v, type, a) \o Chosen(v, type, b)
    BY <1>1, ChosenConcat
<1>3. Chosen(v, type, a) \in Seq(O) /\ Chosen(v, type, b) \in Seq(O)
    BY <1>1, ChosenType
<1>4. ASSUME NEW s \in Seq(O), NEW t \in Seq(O) PROVE IsPrefix(s, s \o t)
    <2>1. Len(s) \in Nat /\ Len(t) \in Nat /\ Len(s \o t) = Len(s) + Len(t)
        BY LenProperties, ConcatProperties
    <2>2. SubSeq(s \o t, 1, Len(s)) = SubSeq(s, 1, Len(s))
        <3>1. Len(s) \in 0 .. Len(s)
            BY <2>1
        <3>. QED
            BY <3>1, TakeWithin
    <2>. QED
        BY <2>1, <2>2 DEF IsPrefix
<1>. QED
    BY <1>2, <1>3, <1>4 DEF a
(* What is chosen of the bytes of records is the content of those of the   *)
(* request and the stream.                                                 *)
Owned(v, type, R) ==
    [r \in R |-> IF r.of[2] = v.of /\ r.id = v.id /\ r.type = type THEN ContentBytes(r) ELSE <<>>]

LEMMA ChosenNothing == ASSUME NEW v, NEW type PROVE Chosen(v, type, <<>>) = <<>>
<1>1. [i \in 1 .. Len(<<>>) |-> IF Mine(v, type, <<>>[i]) THEN <<<<>>[i]>> ELSE <<>>] = <<>>
    OBVIOUS
<1>. QED
    BY <1>1, FlattenEmpty DEF Chosen

(* Of a sequence that has nothing of it before a and after b. *)
LEMMA ChosenWithin ==
    ASSUME NEW R, NEW v, NEW type, NEW w \in Seq(Octets(R)), NEW b \in 0 .. Len(w), NEW a \in 0 .. b,
           \A k \in 1 .. Len(w) : Mine(v, type, w[k]) <=> k \in a + 1 .. b
    PROVE  Chosen(v, type, w) = Part(w, a, b)
<1>0. Len(w) \in Nat /\ Part(w, 0, Len(w)) = w
    BY LenProperties, SubSeqFull DEF Part
<1>1. Chosen(v, type, Part(w, 0, a)) = <<>>
    <2>1. a \in 0 .. Len(w) /\ 0 \in 0 .. a /\ \A j \in 0 + 1 .. a : ~Mine(v, type, w[j])
        BY <1>0
    <2>2. Chosen(v, type, Part(w, 0, a)) = Chosen(v, type, Part(w, 0, 0))
        BY <2>1, ChosenSkip
    <2>. QED
        BY <2>2, PartEmpty, ChosenNothing
<1>2. Chosen(v, type, Part(w, 0, b)) = Chosen(v, type, Part(w, 0, a)) \o Part(w, a, b)
    <2>1. \A j \in a + 1 .. b : Mine(v, type, w[j])
        BY <1>0
    <2>2. Takes(v, type, w, a, b)
        BY <2>1, ChosenTake
    <2>. QED
        BY <2>2 DEF Takes
<1>3. Chosen(v, type, Part(w, 0, Len(w))) = Chosen(v, type, Part(w, 0, b))
    <2>1. Len(w) \in 0 .. Len(w) /\ b \in 0 .. Len(w) /\ \A j \in b + 1 .. Len(w) : ~Mine(v, type, w[j])
        BY <1>0
    <2>. QED
        BY <2>1, ChosenSkip
<1>4. Part(w, a, b) \in Seq(Octets(R))
    BY PartType
<1>. QED
    BY <1>0, <1>1, <1>2, <1>3, <1>4, ConcatEmptySeq

LEMMA ChosenOfOwn ==
    ASSUME NEW R, Sized(R), NEW r \in R, NEW v, NEW type,
           r.of[2] = v.of, r.id = v.id, r.type = type
    PROVE  Chosen(v, type, Bytes(r)) = ContentBytes(r) /\ ContentBytes(r) \in Seq(Octets(R))
<1>. DEFINE s == Bytes(r)
            a == HeaderLen
            b == HeaderLen + r.len
            c == Part(s, a, b)
            d == ContentBytes(r)
<1>1. IsBytes(R, s, r)
    BY BytesAre
<1>2. /\ s \in Seq(Octets(R)) /\ Len(s) = Size(r) /\ \A k \in 1 .. Size(r) : s[k] = <<r, k>>
    BY <1>1 DEF IsBytes
<1>3. /\ a \in 0 .. b /\ b \in 0 .. Len(s) /\ r.len \in Nat /\ b - a = r.len /\ a \in Nat
    BY <1>2, SizeType, FcgiRecordAssumption
<1>5. d = [i \in 1 .. r.len |-> <<r, a + i>>]
    BY DEF ContentBytes
<1>. HIDE DEF s, d
<1>4. \A k \in 1 .. Len(s) : Mine(v, type, s[k]) <=> k \in a + 1 .. b
    <2>1. \A k \in 1 .. Len(s) : s[k][1] = r /\ s[k][2] = k
        BY <1>2
    <2>. QED
        BY <2>1 DEF Mine
<1>. HIDE DEF a, b
<1>6. Chosen(v, type, s) = c
    BY <1>2, <1>3, <1>4, ChosenWithin
<1>7. c \in Seq(Octets(R)) /\ Len(c) = b - a /\ \A i \in 1 .. b - a : c[i] = s[a + i]
    <2>1. s \in Seq(Octets(R)) /\ b \in 0 .. Len(s) /\ a \in 0 .. b
        BY <1>2, <1>3
    <2>. QED
        BY <2>1, PartType
<1>8. d \in Seq(Octets(R)) /\ Len(d) = r.len /\ \A i \in 1 .. r.len : d[i] = <<r, a + i>>
    <2>1. \A i \in 1 .. r.len : <<r, a + i>> \in Octets(R)
        BY <1>3 DEF Octets
    <2>. QED
        BY <1>3, <1>5, <2>1, FunctionIsSeq
<1>9. \A i \in 1 .. r.len : a + i \in 1 .. Size(r)
    BY <1>2, <1>3
<1>. HIDE DEF c
<1>10. c = d
    <2>1. \A i \in 1 .. Len(c) : c[i] = d[i]
        BY <1>2, <1>3, <1>7, <1>8, <1>9
    <2>2. c \in Seq(Octets(R)) /\ d \in Seq(Octets(R)) /\ Len(c) = Len(d)
        BY <1>3, <1>7, <1>8
    <2>. QED
        BY <2>1, <2>2, SeqEqual
<1>. QED
    BY <1>6, <1>8, <1>10 DEF s, d

LEMMA ChosenOfBytes ==
    ASSUME NEW R, Sized(R), NEW v, NEW type
    PROVE  /\ Owned(v, type, R) \in [R -> Seq(Octets(R))]
           /\ \A r \in R : Owned(v, type, R)[r] = Chosen(v, type, Bytes(r))
<1>1. ASSUME NEW r \in R
      PROVE  /\ Owned(v, type, R)[r] = Chosen(v, type, Bytes(r))
             /\ Owned(v, type, R)[r] \in Seq(Octets(R))
    <2>0. Owned(v, type, R)[r]
              = IF r.of[2] = v.of /\ r.id = v.id /\ r.type = type THEN ContentBytes(r) ELSE <<>>
        BY DEF Owned
    <2>1. CASE r.of[2] = v.of /\ r.id = v.id /\ r.type = type
        BY <2>0, <2>1, ChosenOfOwn
    <2>2. CASE ~(r.of[2] = v.of /\ r.id = v.id /\ r.type = type)
        <3>1. IsBytes(R, Bytes(r), r)
            BY BytesAre
        <3>2. Bytes(r) \in Seq(Octets(R)) /\ \A i \in 1 .. Len(Bytes(r)) : Bytes(r)[i] = <<r, i>>
            BY <3>1 DEF IsBytes
        <3>3. \A i \in 1 .. Len(Bytes(r)) : Bytes(r)[i][1] = r
            BY <3>2
        <3>4. \A i \in 1 .. Len(Bytes(r)) : ~Mine(v, type, Bytes(r)[i])
            BY <2>2, <3>3 DEF Mine
        <3>5. Chosen(v, type, Bytes(r)) = <<>>
            BY <3>2, <3>4, ChosenNone
        <3>. QED
            BY <2>0, <2>2, <3>5
    <2>. QED
        BY <2>1, <2>2
<1>2. Owned(v, type, R) \in [R -> Seq(Octets(R))]
    <2>. DEFINE f == Owned(v, type, R)
                S == Seq(Octets(R))
    <2>1. f = [r \in R |-> f[r]]
        BY DEF Owned
    <2>. HIDE DEF f, S
    <2>2. \A r \in R : f[r] \in S
        BY <1>1 DEF f, S
    <2>3. f \in [R -> S]
        BY <2>1, <2>2
    <2>. QED
        BY <2>3 DEF f, S
<1>. QED
    BY <1>1, <1>2

LEMMA ChosenOfWire ==
    ASSUME NEW R, Sized(R), NEW v, NEW type, NEW l \in Seq(R)
    PROVE  Chosen(v, type, Wire(l)) = Gather(Owned(v, type, R), l)
<1>. DEFINE O == Octets(R)
            f == BytesOf(R)
            g == Pick(v, type, R)
            h == Owned(v, type, R)
<1>1. f \in [R -> Seq(O)] /\ Wire(l) = Gather(f, l) /\ Wire(l) \in Seq(O)
    BY WireIs
<1>2. g \in [O -> Seq(O)] /\ \A s \in Seq(O) : Chosen(v, type, s) = Gather(g, s)
    BY PickIs
<1>3. h \in [R -> Seq(O)] /\ \A r \in R : h[r] = Chosen(v, type, Bytes(r))
    BY ChosenOfBytes
<1>4. \A r \in R : f[r] = Bytes(r)
    BY DEF BytesOf
<1>. HIDE DEF O, f, g, h
<1>5. Composed(h, g, f, R)
    <2>1. \A r \in R : f[r] \in Seq(O)
        BY <1>1
    <2>. QED
        BY <1>2, <1>3, <1>4, <2>1 DEF Composed
<1>6. Composes(h, g, f, l)
    <2>1. f \in [R -> Seq(O)] /\ g \in [O -> Seq(O)] /\ h \in [R -> Seq(O)]
        BY <1>1, <1>2, <1>3
    <2>. QED
        BY <1>5, <2>1, GatherGather
<1>. QED
    BY <1>1, <1>2, <1>6 DEF h, Composes
-----------------------------------------------------------------------------
(* The records of the first n exchanges of a connection. *)
Flat(s, n) == FlattenSeq(SubSeq(s, 1, n))

AtPlace(s) ==
    \A e \in DOMAIN s : \A i \in DOMAIN s[e] : s[e][i].of[2] = e /\ s[e][i].no = i

Holds(l, s, n) ==
    /\ \A k \in DOMAIN l : \E e \in 1 .. n : \E i \in DOMAIN s[e] : l[k] = s[e][i]
    /\ \A e \in 1 .. n : \A i \in DOMAIN s[e] : \E k \in DOMAIN l : l[k] = s[e][i]

LEMMA FlatIs ==
    ASSUME NEW R, NEW s \in Lists(R)
    PROVE  /\ Len(s) \in Nat /\ DOMAIN s = 1 .. Len(s) /\ \A e \in 1 .. Len(s) : s[e] \in Seq(R)
           /\ Flat(s, 0) = <<>>
           /\ \A n \in 1 .. Len(s) : Flat(s, n) = Flat(s, n - 1) \o s[n]
           /\ \A n \in 0 .. Len(s) : Flat(s, n) \in Seq(R)
<1>1. Len(s) \in Nat /\ DOMAIN s = 1 .. Len(s) /\ \A e \in 1 .. Len(s) : s[e] \in Seq(R)
    BY ListType
<1>2. SubSeq(s, 1, 0) = <<>>
    BY SubSeqEmpty
<1>3. \A n \in 1 .. Len(s) : Flat(s, n) = Flat(s, n - 1) \o s[n]
    BY ListNext DEF Flat
<1>4. ASSUME NEW n \in 0 .. Len(s) PROVE Flat(s, n) \in Seq(R)
    <2>1. 1 \in 1 .. Len(s) + 1 /\ n \in 1 - 1 .. Len(s)
        BY <1>1
    <2>2. SubSeq(s, 1, n) \in Lists(R)
        BY <2>1, ListSlice
    <2>. QED
        BY <2>2, ListType DEF Flat
<1>. QED
    BY <1>1, <1>2, <1>3, <1>4, FlattenEmpty DEF Flat

LEMMA FlatHolds ==
    ASSUME NEW R, NEW s \in Lists(R), AtPlace(s), NEW n \in 0 .. Len(s)
    PROVE  Rising(Flat(s, n)) /\ Holds(Flat(s, n), s, n)
<1>. DEFINE P == {m \in Nat : m <= Len(s) => Rising(Flat(s, m)) /\ Holds(Flat(s, m), s, m)}
<1>0. /\ Len(s) \in Nat /\ DOMAIN s = 1 .. Len(s) /\ \A e \in 1 .. Len(s) : s[e] \in Seq(R)
      /\ Flat(s, 0) = <<>>
      /\ \A m \in 1 .. Len(s) : Flat(s, m) = Flat(s, m - 1) \o s[m]
      /\ \A m \in 0 .. Len(s) : Flat(s, m) \in Seq(R)
    BY FlatIs
<1>1. 0 \in P
    BY <1>0 DEF Rising, Holds
<1>2. ASSUME NEW m \in Nat, m \in P PROVE m + 1 \in P
    <2>. SUFFICES ASSUME m + 1 <= Len(s)
                  PROVE  Rising(Flat(s, m + 1)) /\ Holds(Flat(s, m + 1), s, m + 1)
        OBVIOUS
    <2>. DEFINE l == Flat(s, m)
                x == s[m + 1]
                k == Flat(s, m + 1)
    <2>1. m + 1 \in 1 .. Len(s) /\ m \in 0 .. Len(s) /\ (m + 1) - 1 = m
        BY <1>0
    <2>2. l \in Seq(R) /\ x \in Seq(R) /\ k = l \o x
        BY <1>0, <2>1
    <2>3. Rising(l) /\ Holds(l, s, m)
        BY <1>0, <1>2
    <2>4. IsJoin(k, l, x)
        BY <2>2, JoinIs
    <2>5. DOMAIN x = 1 .. Len(x) /\ Len(x) \in Nat /\ Len(l) \in Nat /\ DOMAIN l = 1 .. Len(l)
          /\ DOMAIN k = 1 .. Len(l) + Len(x)
        BY <2>2, <2>4, LenProperties DEF IsJoin
    <2>6. \A i \in DOMAIN x : x[i].of[2] = m + 1 /\ x[i].no = i
        BY <1>0, <2>1 DEF AtPlace
    <2>. HIDE DEF l, x, k
    <2>7. \A i \in DOMAIN l : i \in DOMAIN k /\ k[i] = l[i]
        BY <2>4 DEF IsJoin
    <2>8. \A i \in DOMAIN x : Len(l) + i \in DOMAIN k /\ k[Len(l) + i] = x[i]
        BY <2>4, <2>5 DEF IsJoin
    <2>9. \A i \in DOMAIN k : i \notin DOMAIN l => i - Len(l) \in DOMAIN x /\ k[i] = x[i - Len(l)]
        <3>. SUFFICES ASSUME NEW i \in DOMAIN k, i \notin DOMAIN l
                      PROVE  i - Len(l) \in DOMAIN x /\ k[i] = x[i - Len(l)]
            OBVIOUS
        <3>1. i - Len(l) \in DOMAIN x /\ i = Len(l) + (i - Len(l))
            BY <2>5
        <3>. QED
            BY <2>8, <3>1
    <2>10. \A i \in DOMAIN l : l[i].of[2] \in 1 .. m
        <3>1. \A e \in 1 .. m : e \in DOMAIN s
            BY <1>0, <2>1
        <3>. QED
            BY <2>3, <3>1 DEF Holds, AtPlace
    <2>11. ASSUME NEW i \in DOMAIN k, NEW j \in DOMAIN k, i < j PROVE Earlier(k[i], k[j])
        <3>1. CASE i \in DOMAIN l /\ j \in DOMAIN l
            BY <2>3, <2>7, <2>11, <3>1 DEF Rising
        <3>2. CASE i \in DOMAIN l /\ j \notin DOMAIN l
            <4>1. k[i].of[2] \in 1 .. m
                BY <2>7, <2>10, <3>2
            <4>2. k[j].of[2] = m + 1
                BY <2>6, <2>9, <3>2
            <4>. QED
                BY <4>1, <4>2 DEF Earlier
        <3>3. CASE i \notin DOMAIN l
            <4>1. j \notin DOMAIN l
                BY <2>5, <2>11, <3>3
            <4>2. /\ i - Len(l) \in DOMAIN x /\ k[i] = x[i - Len(l)]
                  /\ j - Len(l) \in DOMAIN x /\ k[j] = x[j - Len(l)]
                BY <2>9, <3>3, <4>1
            <4>3. i - Len(l) < j - Len(l)
                BY <2>5, <2>11
            <4>4. /\ k[i].of[2] = m + 1 /\ k[i].no = i - Len(l)
                  /\ k[j].of[2] = m + 1 /\ k[j].no = j - Len(l)
                BY <2>6, <4>2
            <4>. QED
                BY <4>3, <4>4 DEF Earlier
        <3>. QED
            BY <3>1, <3>2, <3>3
    <2>12. ASSUME NEW j \in DOMAIN k
           PROVE  \E e \in 1 .. m + 1 : \E i \in DOMAIN s[e] : k[j] = s[e][i]
        <3>1. CASE j \in DOMAIN l
            <4>1. \E e \in 1 .. m : \E i \in DOMAIN s[e] : k[j] = s[e][i]
                BY <2>3, <2>7, <3>1 DEF Holds
            <4>2. 1 .. m \subseteq 1 .. m + 1
                OBVIOUS
            <4>. QED
                BY <4>1, <4>2
        <3>2. CASE j \notin DOMAIN l
            <4>1. m + 1 \in 1 .. m + 1
                OBVIOUS
            <4>. QED
                BY <2>9, <3>2, <4>1 DEF x
        <3>. QED
            BY <3>1, <3>2
    <2>13. ASSUME NEW e \in 1 .. m + 1, NEW i \in DOMAIN s[e]
           PROVE  \E j \in DOMAIN k : k[j] = s[e][i]
        <3>1. CASE e \in 1 .. m
            BY <2>3, <2>7, <3>1 DEF Holds
        <3>2. CASE e = m + 1
            BY <2>8, <3>2 DEF x
        <3>. QED
            BY <3>1, <3>2
    <2>. QED
        BY <2>11, <2>12, <2>13 DEF k, Rising, Holds
<1>. HIDE DEF P
<1>3. n \in P
    <2>1. \A m \in Nat : m \in P
        BY <1>1, <1>2, Induct
    <2>2. n \in Nat
        BY <1>0
    <2>. QED
        BY <2>1, <2>2
<1>. QED
    BY <1>0, <1>3 DEF P

(* What is on the wire when n exchanges have been sent. *)
OnWire(R, w, s, n) ==
    /\ w \in Seq(Octets(R)) /\ Whole(w) /\ Sorted(w)
    /\ \A j \in DOMAIN w : \E e \in 1 .. n : \E i \in DOMAIN s[e] : w[j][1] = s[e][i]
    /\ \A e \in 1 .. n : \A i \in DOMAIN s[e] : \E j \in DOMAIN w : w[j] = <<s[e][i], 1>>

LEMMA FlatOnWire ==
    ASSUME NEW R, Sized(R), NEW s \in Lists(R), AtPlace(s), NEW n \in 0 .. Len(s)
    PROVE  OnWire(R, Wire(Flat(s, n)), s, n)
<1>. DEFINE l == Flat(s, n)
            w == Wire(l)
<1>1. l \in Seq(R)
    BY FlatIs
<1>2. Rising(l) /\ Holds(l, s, n)
    BY FlatHolds
<1>. HIDE DEF l
<1>3. w \in Seq(Octets(R)) /\ Laid(w, l)
    BY <1>1, <1>2, WireIs, WireLaid
<1>. HIDE DEF w
<1>4. Whole(w) /\ Sorted(w) /\ Covers(w, l)
    BY <1>3 DEF Laid
<1>5. \A j \in DOMAIN w : \E e \in 1 .. n : \E i \in DOMAIN s[e] : w[j][1] = s[e][i]
    BY <1>2, <1>4 DEF Covers, Holds
<1>6. \A e \in 1 .. n : \A i \in DOMAIN s[e] : \E j \in DOMAIN w : w[j] = <<s[e][i], 1>>
    <2>. SUFFICES ASSUME NEW e \in 1 .. n, NEW i \in DOMAIN s[e]
                  PROVE  \E j \in DOMAIN w : w[j] = <<s[e][i], 1>>
        OBVIOUS
    <2>1. PICK k \in DOMAIN l : l[k] = s[e][i]
        BY <1>2 DEF Holds
    <2>2. \E j \in DOMAIN w : w[j] = <<l[k], 1>>
        BY <1>4 DEF Covers
    <2>. QED
        BY <2>1, <2>2
<1>. QED
    BY <1>3, <1>4, <1>5, <1>6 DEF OnWire, w, l

(* What is chosen of it comes from the exchange that is viewed. *)
LEMMA ChosenOfFlat ==
    ASSUME NEW R, Sized(R), NEW s \in Lists(R), AtPlace(s), NEW v, NEW type,
           v.of \in 1 .. Len(s), NEW n \in v.of .. Len(s)
    PROVE  Chosen(v, type, Wire(Flat(s, n))) = Gather(Owned(v, type, R), s[v.of])
<1>. DEFINE h == Owned(v, type, R)
            e == v.of
            O == Octets(R)
            P == {m \in Nat : m <= Len(s) =>
                    Gather(h, Flat(s, m)) = IF m < e THEN <<>> ELSE Gather(h, s[e])}
<1>0. /\ Len(s) \in Nat /\ DOMAIN s = 1 .. Len(s) /\ \A m \in 1 .. Len(s) : s[m] \in Seq(R)
      /\ Flat(s, 0) = <<>>
      /\ \A m \in 1 .. Len(s) : Flat(s, m) = Flat(s, m - 1) \o s[m]
      /\ \A m \in 0 .. Len(s) : Flat(s, m) \in Seq(R)
    BY FlatIs
<1>1. h \in [R -> Seq(O)]
    BY ChosenOfBytes
<1>2. ASSUME NEW m \in 1 .. Len(s), m # e PROVE Gather(h, s[m]) = <<>>
    <2>1. s[m] \in Seq(R) /\ \A i \in 1 .. Len(s[m]) : s[m][i] \in R /\ s[m][i].of[2] = m
        <3>1. s[m] \in Seq(R) /\ m \in DOMAIN s
            BY <1>0
        <3>2. DOMAIN s[m] = 1 .. Len(s[m]) /\ \A i \in 1 .. Len(s[m]) : s[m][i] \in R
            BY <3>1, LenProperties, ElementOfSeq
        <3>. QED
            BY <3>1, <3>2 DEF AtPlace
    <2>2. \A i \in 1 .. Len(s[m]) : h[s[m][i]] = <<>>
        BY <1>2, <2>1 DEF Owned
    <2>. HIDE DEF h, O
    <2>. QED
        BY <1>1, <2>1, <2>2, GatherNone
<1>. HIDE DEF h, O
<1>3. e \in Nat /\ e > 0 /\ e \in 1 .. Len(s)
    BY <1>0
<1>. HIDE DEF e
<1>4. 0 \in P
    BY <1>0, <1>3, GatherEmpty
<1>5. ASSUME NEW m \in Nat, m \in P PROVE m + 1 \in P
    <2>. SUFFICES ASSUME m + 1 <= Len(s)
                  PROVE  Gather(h, Flat(s, m + 1)) = IF m + 1 < e THEN <<>> ELSE Gather(h, s[e])
        OBVIOUS
    <2>. DEFINE l == Flat(s, m)
                x == s[m + 1]
    <2>1. m + 1 \in 1 .. Len(s) /\ m \in 0 .. Len(s) /\ (m + 1) - 1 = m
        BY <1>0
    <2>2. l \in Seq(R) /\ x \in Seq(R) /\ Flat(s, m + 1) = l \o x
        BY <1>0, <2>1
    <2>3. Gather(h, l) = IF m < e THEN <<>> ELSE Gather(h, s[e])
        BY <1>0, <1>5
    <2>7. m + 1 # e => Gather(h, x) = <<>>
        BY <1>2, <2>1
    <2>. HIDE DEF l
    <2>4. Joins(h, R)
        BY <1>1, GatherJoins
    <2>5. Gather(h, l \o x) = Gather(h, l) \o Gather(h, x)
        BY <2>2, <2>4 DEF Joins
    <2>6. Gather(h, l) \in Seq(O) /\ Gather(h, x) \in Seq(O)
        <3>. HIDE DEF x
        <3>. QED
            BY <1>1, <2>2, GatherType
    <2>8. CASE m + 1 < e
        <3>1. m < e /\ m + 1 # e
            BY <1>3, <2>8
        <3>2. <<>> \o <<>> = <<>>
            OBVIOUS
        <3>. QED
            BY <2>2, <2>3, <2>5, <2>7, <2>8, <3>1, <3>2
    <2>9. CASE m + 1 = e
        <3>1. m < e /\ ~(m + 1 < e) /\ x = s[e]
            BY <1>3, <2>9
        <3>. QED
            BY <2>2, <2>3, <2>5, <2>6, <3>1, ConcatEmptySeq
    <2>10. CASE ~(m + 1 < e) /\ m + 1 # e
        <3>1. ~(m < e)
            BY <1>3, <2>10
        <3>2. Gather(h, x) = <<>>
            BY <2>7, <2>10
        <3>3. Gather(h, l) \o Gather(h, x) = Gather(h, l)
            BY <2>6, <3>2, ConcatEmptySeq
        <3>. QED
            BY <2>2, <2>3, <2>5, <2>10, <3>1, <3>3
    <2>. QED
        BY <2>8, <2>9, <2>10
<1>6. n \in Nat /\ n <= Len(s) /\ ~(n < e)
    BY <1>0, <1>3 DEF e
<1>7. n \in P
    <2>. HIDE DEF P
    <2>. QED
        BY <1>4, <1>5, <1>6, Induct
<1>8. Gather(h, Flat(s, n)) = Gather(h, s[e])
    BY <1>6, <1>7
<1>9. Chosen(v, type, Wire(Flat(s, n))) = Gather(h, Flat(s, n))
    <2>1. Flat(s, n) \in Seq(R)
        BY <1>0, <1>6
    <2>. QED
        BY <2>1, ChosenOfWire DEF h
<1>. QED
    BY <1>8, <1>9 DEF h, e
-----------------------------------------------------------------------------
(* What has been sent on the connection, and the exchanges on it. *)
Sent == IF conn = 0 THEN <<>> ELSE Wire(Flat(script[conn], sent))

Known == RecordsOf(script)

OnConnection == script \in Scripts /\ conn \in DOMAIN script /\ sent \in 0 .. Len(script[conn])

Located(s, n) == \A e \in DOMAIN s : \A i \in DOMAIN s[e] : s[e][i].of = <<n, e>>

LEMMA ScriptIs ==
    ASSUME NEW s \in Scripts
    PROVE  /\ Sized(RecordsOf(s))
           /\ \A n \in DOMAIN s :
                /\ s[n] \in Lists(RecordsOf(s)) /\ AtPlace(s[n]) /\ Located(s[n], n)
                /\ n \in Nat /\ n # 0
<1>. DEFINE R == RecordsOf(s)
            B == Seq(R)
            L == Seq(B)
<1>1. s \in Seq(L)
    BY ScriptsAssumption DEF Placed
<1>2. \A n \in DOMAIN s : \A e \in DOMAIN s[n] : \A i \in DOMAIN s[n][e] :
          /\ s[n][e][i].of = <<n, e>> /\ s[n][e][i].no = i
          /\ s[n][e][i].len \in Nat /\ s[n][e][i].pad \in Nat
    BY ScriptsAssumption DEF Placed
<1>. HIDE DEF L
<1>3. DOMAIN s = 1 .. Len(s) /\ Len(s) \in Nat /\ \A n \in DOMAIN s : s[n] \in L
    BY <1>1, LenProperties, ElementOfSeq
<1>. HIDE DEF B
<1>4. ASSUME NEW n \in DOMAIN s
      PROVE  DOMAIN s[n] = 1 .. Len(s[n]) /\ Len(s[n]) \in Nat /\ \A e \in DOMAIN s[n] : s[n][e] \in B
    BY <1>3, LenProperties, ElementOfSeq DEF L
<1>. HIDE DEF R
<1>5. ASSUME NEW n \in DOMAIN s, NEW e \in DOMAIN s[n]
      PROVE  DOMAIN s[n][e] = 1 .. Len(s[n][e]) /\ Len(s[n][e]) \in Nat
    BY <1>4, LenProperties DEF B
<1>6. ASSUME NEW r \in R PROVE {r.len, r.pad, r.no, r.of[2]} \subseteq Nat
    <2>1. PICK n \in DOMAIN s : \E e \in DOMAIN s[n] : r \in ToSet(s[n][e])
        BY DEF R, RecordsOf
    <2>2. PICK e \in DOMAIN s[n] : r \in ToSet(s[n][e])
        BY <2>1
    <2>3. PICK i \in DOMAIN s[n][e] : r = s[n][e][i]
        BY <2>2 DEF ToSet
    <2>4. r.of = <<n, e>> /\ r.no = i /\ r.len \in Nat /\ r.pad \in Nat
        BY <1>2, <2>3
    <2>5. e \in Nat /\ i \in Nat
        BY <1>4, <1>5
    <2>. QED
        BY <2>4, <2>5
<1>7. Sized(R)
    BY <1>6 DEF Sized
<1>8. ASSUME NEW n \in DOMAIN s
      PROVE  /\ s[n] \in Lists(R) /\ AtPlace(s[n]) /\ Located(s[n], n)
             /\ n \in Nat /\ n # 0
    <2>1. s[n] \in Lists(R)
        BY <1>3 DEF L, B, Lists
    <2>2. AtPlace(s[n]) /\ Located(s[n], n)
        BY <1>2 DEF AtPlace, Located
    <2>. QED
        BY <1>3, <2>1, <2>2
<1>. QED
    BY <1>7, <1>8 DEF R

LEMMA SentIs ==
    ASSUME OnConnection
    PROVE  /\ Sized(Known) /\ script[conn] \in Lists(Known)
           /\ AtPlace(script[conn]) /\ Located(script[conn], conn)
           /\ Sent = Wire(Flat(script[conn], sent))
           /\ OnWire(Known, Sent, script[conn], sent)
<1>1. /\ Sized(Known) /\ script[conn] \in Lists(Known)
      /\ AtPlace(script[conn]) /\ Located(script[conn], conn) /\ conn # 0
    BY ScriptIs DEF OnConnection, Known
<1>2. Sent = Wire(Flat(script[conn], sent))
    BY <1>1 DEF Sent
<1>3. sent \in 0 .. Len(script[conn])
    BY DEF OnConnection
<1>4. OnWire(Known, Wire(Flat(script[conn], sent)), script[conn], sent)
    BY <1>1, <1>3, FlatOnWire
<1>. QED
    BY <1>1, <1>2, <1>4

(* Another exchange is sent. *)
LEMMA SentNext ==
    ASSUME OnConnection, sent < Len(script[conn]), sent' = sent + 1, UNCHANGED <<script, conn>>
    PROVE  /\ Sent' = Sent \o Wire(script[conn][sent + 1])
           /\ Wire(script[conn][sent + 1]) \in Seq(Octets(Known))
<1>. DEFINE s == script[conn]
<1>1. Sized(Known) /\ s \in Lists(Known) /\ Sent = Wire(Flat(s, sent)) /\ conn # 0
    BY SentIs, ScriptIs DEF OnConnection
<1>2. sent + 1 \in 1 .. Len(s) /\ (sent + 1) - 1 = sent /\ sent \in 0 .. Len(s)
    <2>1. Len(s) \in Nat
        BY <1>1, ListType
    <2>. QED
        BY <2>1 DEF OnConnection
<1>3. Sent' = Wire(Flat(s, sent + 1))
    BY <1>1 DEF Sent
<1>. HIDE DEF s
<1>4. Flat(s, sent + 1) = Flat(s, sent) \o s[sent + 1]
    <2>1. \A n \in 1 .. Len(s) : Flat(s, n) = Flat(s, n - 1) \o s[n]
        BY <1>1, FlatIs
    <2>. QED
        BY <1>2, <2>1
<1>5. Flat(s, sent) \in Seq(Known) /\ s[sent + 1] \in Seq(Known)
    BY <1>1, <1>2, FlatIs
<1>6. /\ Wire(Flat(s, sent) \o s[sent + 1]) = Wire(Flat(s, sent)) \o Wire(s[sent + 1])
      /\ Wire(s[sent + 1]) \in Seq(Octets(Known))
    BY <1>1, <1>5, WireConcat, WireIs
<1>. QED
    BY <1>1, <1>3, <1>4, <1>6 DEF s
-----------------------------------------------------------------------------
(* The bytes that were sent and not yet read through, p to q of w, are     *)
(* those of a header hdr, those in the buffer and those on the connection. *)
Splits(s, u, w, p, q) ==
    p + Len(s) \in p .. q /\ s = Part(w, p, p + Len(s)) /\ u = Part(w, p + Len(s), q)

LEMMA SplitPart ==
    ASSUME NEW S, NEW w \in Seq(S), NEW q \in 0 .. Len(w), NEW p \in 0 .. q,
           NEW s \in Seq(S), NEW u \in Seq(S), s \o u = Part(w, p, q)
    PROVE  Splits(s, u, w, p, q)
<1>. DEFINE t == s \o u
            n == Len(s)
<1>0. Len(w) \in Nat /\ n \in Nat /\ Len(u) \in Nat
    BY LenProperties
<1>1. Part(w, p, q) \in Seq(S) /\ Len(Part(w, p, q)) = q - p
    BY PartType
<1>2. t \in Seq(S) /\ Len(t) = n + Len(u)
    BY ConcatProperties
<1>3. n + Len(u) = q - p
    BY <1>1, <1>2
<1>4. Part(t, 0, n) = s
    <2>1. n \in 0 .. Len(s) /\ 0 \in 0 .. n
        BY <1>0
    <2>2. Part(s \o u, 0, n) = Part(s, 0, n)
        BY <2>1, PartOfFirst
    <2>. QED
        BY <2>2, SubSeqFull DEF Part
<1>5. Part(t, n, n + Len(u)) = u
    BY PartIsSecond
<1>6. n \in 0 .. q - p /\ 0 \in 0 .. n /\ q - p \in 0 .. q - p
    BY <1>0, <1>3
<1>. HIDE DEF n
<1>7. Part(Part(w, p, q), 0, n) = Part(w, p + 0, p + n)
    BY <1>6, PartPart
<1>8. Part(Part(w, p, q), n, q - p) = Part(w, p + n, p + (q - p))
    BY <1>6, PartPart
<1>9. p + 0 = p /\ p + (q - p) = q /\ p + n \in p .. q
    BY <1>0, <1>6
<1>. QED
    BY <1>3, <1>4, <1>5, <1>7, <1>8, <1>9 DEF n, Splits

(* What is ahead, and the parts that a step makes of it. *)
IsAhead(h, rd, rest, w, p, q) == h \o (rd \o rest) = Part(w, p, q)

SplitsAt(S, w, p, q, h, rd, rest, n) ==
    LET x == h \o SubSeq(rd, 1, n)   m == p + Len(h) + n IN
    /\ x \in Seq(S) /\ Len(x) = Len(h) + n /\ m \in p .. q
    /\ SubSeq(rd, 1, n) \in Seq(S) /\ Drop(rd, n) \in Seq(S)
    /\ x = Part(w, p, m) /\ Drop(rd, n) \o rest = Part(w, m, q)
    /\ x \o (Drop(rd, n) \o rest) = Part(w, p, q)

LEMMA AheadSplits ==
    ASSUME NEW S, NEW w \in Seq(S), NEW q \in 0 .. Len(w), NEW p \in 0 .. q,
           NEW h \in Seq(S), NEW rd \in Seq(S), NEW rest \in Seq(S),
           IsAhead(h, rd, rest, w, p, q), NEW n \in 0 .. Len(rd)
    PROVE  SplitsAt(S, w, p, q, h, rd, rest, n)
<1>. DEFINE a == SubSeq(rd, 1, n)
            b == Drop(rd, n)
            x == h \o a
            y == b \o rest
            m == p + Len(h) + n
<1>0. Len(h) \in Nat /\ Len(rd) \in Nat
    BY LenProperties
<1>1. a \in Seq(S) /\ Len(a) = n /\ b \in Seq(S) /\ rd = a \o b
    <2>1. a = Part(rd, 0, n) /\ b = Part(rd, n, Len(rd))
        BY DEF Part, Drop
    <2>2. Len(rd) \in 0 .. Len(rd) /\ n \in 0 .. Len(rd) /\ 0 \in 0 .. n
        BY <1>0
    <2>3. Part(rd, 0, n) \in Seq(S) /\ Len(Part(rd, 0, n)) = n - 0
        BY <2>2, PartType
    <2>4. Part(rd, n, Len(rd)) \in Seq(S)
        BY <2>2, PartType
    <2>5. Part(rd, 0, n) \o Part(rd, n, Len(rd)) = Part(rd, 0, Len(rd))
        BY <2>2, PartConcat
    <2>6. Part(rd, 0, Len(rd)) = rd
        BY SubSeqFull DEF Part
    <2>7. n - 0 = n
        BY <1>0
    <2>8. rd = a \o b
        BY <2>1, <2>5, <2>6, Zenon
    <2>. QED
        BY <2>1, <2>3, <2>4, <2>7, <2>8, Zenon
<1>. HIDE DEF a, b
<1>2. x \in Seq(S) /\ y \in Seq(S) /\ Len(x) = Len(h) + n
    BY <1>1, ConcatProperties
<1>3. x \o y = Part(w, p, q)
    <2>1. \A s, t, u \in Seq(S) : (s \o t) \o u = s \o (t \o u)
        <3>1. Associates(S)
            BY Associative
        <3>. QED
            BY <3>1, Zenon DEF Associates
    <2>5. a \in Seq(S)
        BY <1>1
    <2>7. b \in Seq(S)
        BY <1>1
    <2>8. rest \in Seq(S)
        OBVIOUS
    <2>9. h \in Seq(S)
        OBVIOUS
    <2>2. (a \o b) \o rest = a \o y
        BY <2>1, <2>5, <2>7, <2>8, Zenon
    <2>6. y \in Seq(S)
        BY <1>2
    <2>. HIDE DEF y
    <2>4. (h \o a) \o y = h \o (a \o y)
        <3>1. \A u \in Seq(S) : (h \o a) \o u = h \o (a \o u)
            BY <2>1, <2>5, <2>9, Zenon
        <3>. QED
            BY <2>6, <3>1, Zenon
    <2>. QED
        BY <1>1, <2>2, <2>4 DEF IsAhead
<1>. HIDE DEF x, y
<1>4. p + Len(x) \in p .. q /\ x = Part(w, p, p + Len(x)) /\ y = Part(w, p + Len(x), q)
    <2>1. x \in Seq(S) /\ y \in Seq(S)
        BY <1>2
    <2>2. Splits(x, y, w, p, q)
        BY <1>3, <2>1, SplitPart
    <2>. QED
        BY <2>2 DEF Splits
<1>5. p + Len(x) = m
    BY <1>0, <1>2
<1>. QED
    BY <1>1, <1>2, <1>3, <1>4, <1>5 DEF a, b, x, y, SplitsAt
-----------------------------------------------------------------------------
(* The request that is served: the exchange it came in, its id, and the    *)
(* streams whose end is sure to come on the connection.                    *)
View == [of |-> serving[2], id |-> request.requestId,
         watch |-> IF serving[2] < Len(script[conn]) \/ request.role = "FILTER"
                   THEN Streams ELSE {"PARAMS"}]

Ours(v, r) == r.of[2] = v.of /\ r.id = v.id

(* A record after which nothing of a stream comes, and that none of those  *)
(* is among the first n bytes.                                             *)
Stop(v, type, r) == Ours(v, r) /\ ((r.type = type /\ r.len = 0) \/ r.type \in After(type))

Coming(w, v, type, n) ==
    type \in v.watch => \A i \in DOMAIN w : w[i][2] = 1 /\ Stop(v, type, w[i][1]) => n < i

(* What remains of the content of a record. *)
Left(z) == z.avail + z.contentLen

(* The reader z is in the record that has byte p of w, and was given of    *)
(* the stream what is before.                                              *)
Tracks(w, v, z, m, g, p) ==
    LET n == p + Left(z)   l == n + z.paddingLen IN
    /\ l <= Len(w) /\ (l < Len(w) => w[l + 1][2] = 1)
    /\ \A j \in p + 1 .. n : Mine(v, z.type, w[j]) <=> (m = "none" /\ ~z.skip)
    /\ \A j \in n + 1 .. l : ~Mine(v, z.type, w[j])
    /\ z.skip => z.contentLen > 0
    /\ g = Chosen(v, z.type, Part(w, 0, p))
    /\ Coming(w, v, z.type, l)

(* It has lost its place: the next header has no version it knows. *)
Astray(w, v, z, m, g, p) ==
    /\ m = "none" /\ Left(z) = 0 /\ z.paddingLen = 0 /\ ~z.skip
    /\ g = <<>> /\ p < Len(w) /\ w[p + 1][2] # 1
    /\ Coming(w, v, z.type, p)

(* The stream is at its end, and the header that ended it may be the last thing read. *)
Closed(w, v, z, g, p) ==
    /\ ~z.error => g = Chosen(v, z.type, w)
    /\ Coming(w, v, z.type, p + Len(z.hdr) - HeaderLen)

Follows(w, v, z, m, g, p) ==
    IF z.isClosed /\ m = "none" THEN Closed(w, v, z, g, p)
    ELSE Tracks(w, v, z, m, g, p) \/ Astray(w, v, z, m, g, p)

(* What is known of the wire in a request whose exchange is quiet. *)
Ordered(w, v) ==
    \A i, j \in DOMAIN w : Ours(v, w[i][1]) /\ Ours(v, w[j][1]) /\ w[i][1] # w[j][1] =>
        /\ w[i][1].type = "BEGIN_REQUEST" => i < j
        /\ i < j => /\ w[i][1].type \notin After(w[j][1].type)
                    /\ w[i][1].type \in Streams /\ w[i][1].len = 0 => w[i][1].type # w[j][1].type

Calm(v, r) ==
    /\ r.id \in {0, v.id} \/ r.len # 0
    /\ r.id # 0 \/ r.type = "GET_VALUES" \/ r.len = 0

Ends(w, v, type) ==
    /\ type \in v.watch
    /\ \E j \in DOMAIN w : /\ w[j][2] = 1 /\ Ours(v, w[j][1])
                           /\ w[j][1].type = type /\ w[j][1].len = 0

IsLast(w, v) == \A j \in DOMAIN w : w[j][1].of[2] <= v.of

OnTheWire(R, w) == Sized(R) /\ w \in Seq(Octets(R)) /\ Whole(w) /\ Sorted(w)

Scene(R, w, v, type) ==
    /\ OnTheWire(R, w) /\ v.id # 0 /\ v.of \in Nat /\ type \in Streams
    /\ Ordered(w, v)
    /\ \A j \in DOMAIN w : w[j][1].of[2] = v.of => Calm(v, w[j][1])
    /\ IsLast(w, v) \/ Ends(w, v, type)

LEMMA WireByte ==
    ASSUME NEW R, NEW w, OnTheWire(R, w), NEW j \in DOMAIN w
    PROVE  /\ w[j][1] \in R /\ w[j][2] \in Nat /\ w[j] = <<w[j][1], w[j][2]>>
           /\ w[j][1].of[2] \in Nat /\ w[j][1].no \in Nat /\ w[j][1].len \in Nat
           /\ w[j][1].pad \in Nat
<1>1. w \in Seq(Octets(R)) /\ Sized(R)
    BY DEF OnTheWire
<1>2. DOMAIN w = 1 .. Len(w)
    BY <1>1, LenProperties
<1>3. w[j] \in Octets(R)
    BY <1>1, <1>2, ElementOfSeq
<1>4. w[j][1] \in R /\ w[j][2] \in Nat /\ w[j] = <<w[j][1], w[j][2]>>
    BY <1>3, OctetIs
<1>. QED
    BY <1>1, <1>4, SizeType

(* The record that follows is in the exchange that is served. *)
LEMMA NextIsOurs ==
    ASSUME NEW R, NEW w, OnTheWire(R, w), NEW v, v.of \in Nat, NEW p \in Nat, p + 1 \in DOMAIN w,
           NEW b \in 1 .. p, b \in DOMAIN w, w[b][1].of[2] = v.of,
           NEW type, IsLast(w, v) \/ Ends(w, v, type), Coming(w, v, type, p)
    PROVE  w[p + 1][1].of[2] = v.of
<1>0. w[p + 1][1].of[2] \in Nat /\ Sorted(w)
    BY WireByte DEF OnTheWire
<1>1. ~(w[p + 1][1].of[2] < v.of)
    <2>1. Earlier(w[p + 1][1], w[b][1]) => p + 1 < b
        BY <1>0 DEF Sorted
    <2>. QED
        BY <2>1 DEF Earlier
<1>2. CASE IsLast(w, v)
    BY <1>0, <1>1, <1>2 DEF IsLast
<1>3. CASE Ends(w, v, type)
    <2>1. PICK j \in DOMAIN w : /\ w[j][2] = 1 /\ Ours(v, w[j][1])
                                /\ w[j][1].type = type /\ w[j][1].len = 0
        BY <1>3 DEF Ends
    <2>2. p < j
        BY <1>3, <2>1 DEF Ends, Coming, Stop
    <2>3. Earlier(w[j][1], w[p + 1][1]) => j < p + 1
        BY <1>0 DEF Sorted
    <2>4. j \in Nat
        <3>1. w \in Seq(Octets(R))
            BY DEF OnTheWire
        <3>2. DOMAIN w = 1 .. Len(w)
            BY <3>1, LenProperties
        <3>. QED
            BY <3>2
    <2>5. ~(v.of < w[p + 1][1].of[2])
        BY <2>1, <2>2, <2>3, <2>4 DEF Earlier, Ours
    <2>. QED
        BY <1>0, <1>1, <2>5
<1>. QED
    BY <1>2, <1>3

(* The header at the start of a record. *)
LEMMA HeaderAt ==
    ASSUME NEW R, NEW w, OnTheWire(R, w), NEW p \in Nat, p < Len(w), w[p + 1][2] = 1
    PROVE  LET r == w[p + 1][1] IN
           /\ r \in R /\ p + 1 \in DOMAIN w /\ Size(r) = HeaderLen + r.len + r.pad
           /\ p + Size(r) <= Len(w) /\ Len(w) \in Nat /\ DOMAIN w = 1 .. Len(w)
           /\ r.len \in Nat /\ r.pad \in Nat /\ HeaderLen \in Nat /\ HeaderLen > 0
           /\ \A m \in 1 .. Size(r) : w[p + m] = <<r, m>>
           /\ p + Size(r) < Len(w) => w[p + Size(r) + 1][2] = 1
<1>0. Sized(R) /\ w \in Seq(Octets(R)) /\ Whole(w)
    BY DEF OnTheWire
<1>1. Len(w) \in Nat /\ DOMAIN w = 1 .. Len(w)
    BY <1>0, LenProperties
<1>2. p \in 0 .. Len(w) - 1
    BY <1>1
<1>. DEFINE r == w[p + 1][1]
<1>3. /\ r \in R /\ p + Size(r) <= Len(w)
      /\ \A m \in 1 .. Size(r) : w[p + m] = <<r, m>>
      /\ p + Size(r) < Len(w) => w[p + Size(r) + 1][2] = 1
    BY <1>0, <1>2, RecordAt
<1>. HIDE DEF r
<1>4. r.len \in Nat /\ r.pad \in Nat /\ HeaderLen \in Nat /\ HeaderLen > 0
    BY <1>0, <1>3, SizeType, FcgiRecordAssumption
<1>. QED
    BY <1>1, <1>2, <1>3, <1>4 DEF r, Size
-----------------------------------------------------------------------------
(* The reader at the start of a record, when it has the header. *)
AtHeader(w, v, z, g, p) ==
    /\ p \in Nat /\ HeaderLen + p <= Len(w) /\ w[p + 1][2] = 1
    /\ g = Chosen(v, z.type, Part(w, 0, p))
    /\ Coming(w, v, z.type, p)

(* What the reader y is behind the header of r. *)
Heads(r, v, z, y, k) ==
    /\ y.type = z.type /\ y.avail = 0 /\ y.contentLen = r.len /\ y.paddingLen = r.pad
    /\ y.skip => r.len > 0
    /\ ~Stop(v, z.type, r)
    /\ r.len > 0 => (Ours(v, r) /\ r.type = z.type <=> k = "none" /\ ~y.skip)

LEMMA FollowsHeader ==
    ASSUME NEW R, NEW w, OnTheWire(R, w), NEW v, NEW z, NEW y, NEW g, NEW p, NEW k,
           AtHeader(w, v, z, g, p), Heads(w[p + 1][1], v, z, y, k)
    PROVE  Tracks(w, v, y, k, g, p + HeaderLen)
<1>. DEFINE r == w[p + 1][1]
            type == z.type
            n == p + HeaderLen + r.len
            l == n + r.pad
<1>0. p \in Nat /\ p < Len(w) /\ w[p + 1][2] = 1
    <2>1. w \in Seq(Octets(R))
        BY DEF OnTheWire
    <2>. QED
        BY <2>1, LenProperties, FcgiRecordAssumption DEF AtHeader
<1>1. /\ p + 1 \in DOMAIN w /\ Size(r) = HeaderLen + r.len + r.pad
      /\ p + Size(r) <= Len(w) /\ Len(w) \in Nat /\ DOMAIN w = 1 .. Len(w)
      /\ r.len \in Nat /\ r.pad \in Nat /\ HeaderLen \in Nat /\ HeaderLen > 0
      /\ \A m \in 1 .. Size(r) : w[p + m] = <<r, m>>
      /\ p + Size(r) < Len(w) => w[p + Size(r) + 1][2] = 1
    <2>1. OnTheWire(R, w) /\ p \in Nat /\ p < Len(w) /\ w[p + 1][2] = 1
        BY <1>0
    <2>. QED
        BY ONLY <2>1, HeaderAt, SMTT(20)
<1>2. y.type = type /\ y.avail = 0 /\ y.contentLen = r.len /\ y.paddingLen = r.pad
      /\ (y.skip => r.len > 0) /\ ~Stop(v, type, r)
      /\ (r.len > 0 => (Ours(v, r) /\ r.type = type <=> k = "none" /\ ~y.skip))
    BY DEF Heads
<1>3. g = Chosen(v, type, Part(w, 0, p)) /\ Coming(w, v, type, p)
    BY DEF AtHeader
<1>. HIDE DEF r, type
<1>4. \A j \in p + 1 .. p + Size(r) : j - p \in 1 .. Size(r) /\ w[j] = <<r, j - p>>
    <2>. SUFFICES ASSUME NEW j \in p + 1 .. p + Size(r)
                  PROVE  j - p \in 1 .. Size(r) /\ w[j] = <<r, j - p>>
        OBVIOUS
    <2>1. j - p \in 1 .. Size(r) /\ j = p + (j - p)
        BY <1>0, <1>1
    <2>. QED
        BY <1>1, <2>1
<1>5. l = p + Size(r) /\ l <= Len(w) /\ (l < Len(w) => w[l + 1][2] = 1)
    <2>1. l = p + Size(r)
        BY <1>0, <1>1
    <2>. HIDE DEF l
    <2>. QED
        BY <1>1, <2>1
<1>6. \A j \in p + 1 .. l : Mine(v, type, w[j]) <=>
          Ours(v, r) /\ r.type = type /\ j \in p + HeaderLen + 1 .. n
    <2>. SUFFICES ASSUME NEW j \in p + 1 .. p + Size(r)
                  PROVE  Mine(v, type, w[j]) <=>
                             Ours(v, r) /\ r.type = type /\ j \in p + HeaderLen + 1 .. n
        BY <1>5
    <2>1. w[j][1] = r /\ w[j][2] = j - p
        BY <1>4
    <2>2. j - p \in HeaderLen + 1 .. HeaderLen + r.len <=> j \in p + HeaderLen + 1 .. n
        BY <1>0, <1>1
    <2>. QED
        BY <2>1, <2>2 DEF Mine, Ours
<1>7. \A j \in p + HeaderLen + 1 .. n : Mine(v, type, w[j]) <=> k = "none" /\ ~y.skip
    <2>. SUFFICES ASSUME NEW j \in p + HeaderLen + 1 .. n
                  PROVE  Mine(v, type, w[j]) <=> k = "none" /\ ~y.skip
        OBVIOUS
    <2>1. r.len > 0 /\ j \in p + 1 .. l
        BY <1>0, <1>1
    <2>. QED
        BY <1>2, <1>6, <2>1
<1>8. \A j \in n + 1 .. l : ~Mine(v, type, w[j])
    <2>1. \A j \in n + 1 .. l : j \in p + 1 .. l /\ j \notin p + HeaderLen + 1 .. n
        BY <1>0, <1>1
    <2>. QED
        BY <1>6, <2>1
<1>9. g = Chosen(v, type, Part(w, 0, p + HeaderLen))
    <2>1. w \in Seq(Octets(R)) /\ p + HeaderLen \in 0 .. Len(w) /\ p \in 0 .. p + HeaderLen
        BY <1>0, <1>1, <1>5 DEF OnTheWire
    <2>2. \A j \in p + 1 .. p + HeaderLen : ~Mine(v, type, w[j])
        <3>1. \A j \in p + 1 .. p + HeaderLen : j \in p + 1 .. l /\ j \notin p + HeaderLen + 1 .. n
            BY <1>0, <1>1
        <3>. QED
            BY <1>6, <3>1
    <2>3. Chosen(v, type, Part(w, 0, p + HeaderLen)) = Chosen(v, type, Part(w, 0, p))
        <3>. DEFINE a == p + HeaderLen
        <3>. HIDE DEF a
        <3>1. w \in Seq(Octets(R)) /\ a \in 0 .. Len(w) /\ p \in 0 .. a
            BY <2>1 DEF a
        <3>2. \A j \in p + 1 .. a : ~Mine(v, type, w[j])
            BY <2>2 DEF a
        <3>3. Chosen(v, type, Part(w, 0, a)) = Chosen(v, type, Part(w, 0, p))
            BY <3>1, <3>2, ChosenSkip
        <3>. QED
            BY <3>3 DEF a
    <2>. QED
        BY <1>3, <2>3
<1>10. Coming(w, v, type, l)
    <2>. SUFFICES ASSUME type \in v.watch, NEW i \in DOMAIN w, w[i][2] = 1, Stop(v, type, w[i][1])
                  PROVE  l < i
        BY DEF Coming
    <2>1. p < i
        BY <1>3 DEF Coming
    <2>2. i \notin p + 1 .. p + Size(r)
        <3>1. i \in p + 1 .. p + Size(r) => w[i][1] = r
            BY <1>4
        <3>. QED
            BY <1>2, <3>1
    <2>3. i \in Nat
        BY <1>1
    <2>. QED
        BY <1>0, <1>1, <1>5, <2>1, <2>2, <2>3
<1>11. Left(y) = r.len /\ p + HeaderLen + Left(y) = n
    BY <1>1, <1>2 DEF Left
<1>. HIDE DEF n, l
<1>12. y.paddingLen = r.pad /\ n + r.pad = l
    BY <1>2 DEF l
<1>. QED
    BY <1>2, <1>5, <1>7, <1>8, <1>9, <1>10, <1>11, <1>12 DEF Tracks

(* Behind the empty record of a stream comes nothing of it. *)
LEMMA FollowsEnd ==
    ASSUME NEW R, NEW v, NEW z, NEW w, Scene(R, w, v, z.type), NEW g, NEW p,
           AtHeader(w, v, z, g, p), Ours(v, w[p + 1][1]),
           w[p + 1][1].type = z.type, w[p + 1][1].len = 0
    PROVE  g = Chosen(v, z.type, w)
<1>. DEFINE r == w[p + 1][1]
            type == z.type
<1>0. p \in Nat /\ p < Len(w) /\ w[p + 1][2] = 1 /\ w \in Seq(Octets(R)) /\ OnTheWire(R, w)
    <2>1. w \in Seq(Octets(R)) /\ OnTheWire(R, w)
        BY DEF Scene, OnTheWire
    <2>. QED
        BY <2>1, LenProperties, FcgiRecordAssumption DEF AtHeader
<1>1. p + 1 \in DOMAIN w /\ Len(w) \in Nat /\ DOMAIN w = 1 .. Len(w)
    BY <1>0, HeaderAt
<1>2. \A j \in p + 1 .. Len(w) : ~Mine(v, type, w[j])
    <2>. SUFFICES ASSUME NEW j \in p + 1 .. Len(w), Mine(v, type, w[j]) PROVE FALSE
        OBVIOUS
    <2>1. j \in DOMAIN w /\ (j = p + 1 \/ p + 1 < j)
        BY <1>0, <1>1
    <2>2. Ours(v, w[j][1]) /\ w[j][1].type = type
        BY DEF Mine, Ours
    <2>3. w[j][1] # r
        <3>1. w[j][2] \in HeaderLen + 1 .. HeaderLen + w[j][1].len
            BY DEF Mine
        <3>2. HeaderLen + 0 = HeaderLen /\ ~(\E x \in HeaderLen + 1 .. HeaderLen : TRUE)
            BY FcgiRecordAssumption
        <3>. QED
            BY <3>1, <3>2
    <2>4. p + 1 < j
        BY <2>1, <2>3
    <2>5. type \in Streams
        BY DEF Scene
    <2>6. Ordered(w, v)
        BY DEF Scene
    <2>7. r.type \in Streams /\ r.len = 0 => r.type # w[j][1].type
        BY <1>1, <2>1, <2>2, <2>3, <2>4, <2>6 DEF Ordered
    <2>. QED
        BY <2>2, <2>5, <2>7
<1>3. Len(w) \in 0 .. Len(w) /\ p \in 0 .. Len(w)
    BY <1>0, <1>1
<1>4. Chosen(v, type, Part(w, 0, Len(w))) = Chosen(v, type, Part(w, 0, p))
    BY <1>0, <1>2, <1>3, ChosenSkip
<1>5. Part(w, 0, Len(w)) = w
    BY <1>0, SubSeqFull DEF Part
<1>. QED
    BY <1>4, <1>5 DEF AtHeader
-----------------------------------------------------------------------------
(* What the reader knows of the record it is in, and the caller of the     *)
(* stream, as the reader gets on.                                          *)
Counted(z) == {z.avail, z.contentLen, z.paddingLen} \subseteq Nat

(* k bytes of the content are skipped, or taken. *)
LEMMA FollowsContent ==
    ASSUME NEW R, NEW w, OnTheWire(R, w), NEW v, NEW z, NEW y, Counted(z), Counted(y), NEW m,
           NEW g, NEW h, NEW p \in Nat, Tracks(w, v, z, m, g, p), NEW k \in 0 .. Left(z),
           y.type = z.type, Left(y) = Left(z) - k, y.paddingLen = z.paddingLen,
           y.skip => y.contentLen > 0, y.skip = z.skip \/ Left(y) = 0,
           IF m = "none" /\ ~z.skip THEN h = g \o Part(w, p, p + k) ELSE h = g
    PROVE  Tracks(w, v, y, m, h, p + k)
<1>. DEFINE type == z.type
            a == p + k
            n == p + Left(z)
            l == n + z.paddingLen
<1>0. w \in Seq(Octets(R)) /\ Len(w) \in Nat
    BY LenProperties DEF OnTheWire
<1>1. Left(z) \in Nat /\ Left(y) \in Nat /\ z.paddingLen \in Nat /\ k \in Nat
    BY DEF Counted, Left
<1>2. a + Left(y) = n /\ a + Left(y) + y.paddingLen = l /\ a \in p .. n
    BY <1>1
<1>3. /\ l <= Len(w) /\ (l < Len(w) => w[l + 1][2] = 1)
      /\ \A j \in p + 1 .. n : Mine(v, type, w[j]) <=> (m = "none" /\ ~z.skip)
      /\ \A j \in n + 1 .. l : ~Mine(v, type, w[j])
      /\ g = Chosen(v, type, Part(w, 0, p))
      /\ Coming(w, v, type, l)
    BY DEF Tracks
<1>4. a \in 0 .. Len(w) /\ p \in 0 .. a /\ \A j \in p + 1 .. a : j \in p + 1 .. n
    BY <1>0, <1>1, <1>2, <1>3
<1>. HIDE DEF a, n, l, type
<1>5. h = Chosen(v, type, Part(w, 0, a))
    <2>1. CASE m = "none" /\ ~z.skip
        <3>1. \A j \in p + 1 .. a : Mine(v, type, w[j])
            BY <1>3, <1>4, <2>1
        <3>2. Takes(v, type, w, p, a)
            BY <1>0, <1>4, <3>1, ChosenTake
        <3>3. h = g \o Part(w, p, a)
            BY <2>1 DEF a
        <3>. QED
            BY <1>3, <3>2, <3>3 DEF Takes
    <2>2. CASE ~(m = "none" /\ ~z.skip)
        <3>1. \A j \in p + 1 .. a : ~Mine(v, type, w[j])
            BY <1>3, <1>4, <2>2
        <3>2. Chosen(v, type, Part(w, 0, a)) = Chosen(v, type, Part(w, 0, p))
            BY <1>0, <1>4, <3>1, ChosenSkip
        <3>3. h = g
            BY <2>2
        <3>. QED
            BY <1>3, <3>2, <3>3
    <2>. QED
        BY <2>1, <2>2
<1>6. \A j \in a + 1 .. n : Mine(v, type, w[j]) <=> (m = "none" /\ ~y.skip)
    <2>1. \A j \in a + 1 .. n : j \in p + 1 .. n
        BY <1>1, <1>2, <1>4
    <2>2. Left(y) = 0 => ~(\E j \in a + 1 .. n : TRUE)
        <3>1. Left(y) = 0 => a = n /\ a \in Nat
            BY <1>2, <1>4
        <3>. QED
            BY <3>1
    <2>. QED
        BY <1>3, <2>1, <2>2
<1>7. y.type = type
    BY DEF type
<1>. QED
    BY <1>2, <1>3, <1>5, <1>6, <1>7 DEF Tracks, a

(* k bytes of the padding are skipped. *)
LEMMA FollowsPadding ==
    ASSUME NEW R, NEW w, OnTheWire(R, w), NEW v, NEW z, NEW y, Counted(z), Counted(y), NEW m,
           NEW g, NEW p \in Nat, Tracks(w, v, z, m, g, p), NEW k \in 0 .. z.paddingLen,
           y.type = z.type, Left(z) = 0, Left(y) = 0, y.paddingLen = z.paddingLen - k,
           ~y.skip
    PROVE  Tracks(w, v, y, m, g, p + k)
<1>. DEFINE type == z.type
            a == p + k
            l == p + z.paddingLen
<1>0. w \in Seq(Octets(R)) /\ Len(w) \in Nat
    BY LenProperties DEF OnTheWire
<1>1. z.paddingLen \in Nat /\ k \in Nat /\ p + Left(z) = p /\ a + Left(y) = a
    BY DEF Counted
<1>2. a + y.paddingLen = l /\ a \in p .. l
    BY <1>1
<1>3. /\ l <= Len(w) /\ (l < Len(w) => w[l + 1][2] = 1)
      /\ \A j \in p + 1 .. l : ~Mine(v, type, w[j])
      /\ g = Chosen(v, type, Part(w, 0, p))
      /\ Coming(w, v, type, l)
    BY <1>1 DEF Tracks
<1>4. /\ a \in 0 .. Len(w) /\ p \in 0 .. a
      /\ \A j \in p + 1 .. a : j \in p + 1 .. l
      /\ \A j \in a + 1 .. l : j \in p + 1 .. l
      /\ ~(\E j \in a + 1 .. a : TRUE)
    BY <1>0, <1>1, <1>2, <1>3, SMTT(20)
<1>7. y.type = type
    OBVIOUS
<1>. HIDE DEF a, l, type
<1>5. g = Chosen(v, type, Part(w, 0, a))
    <2>1. \A j \in p + 1 .. a : ~Mine(v, type, w[j])
        BY <1>3, <1>4
    <2>2. Chosen(v, type, Part(w, 0, a)) = Chosen(v, type, Part(w, 0, p))
        BY <1>0, <1>4, <2>1, ChosenSkip
    <2>. QED
        BY <1>3, <2>2
<1>6. Tracks(w, v, y, m, g, a)
    BY <1>1, <1>2, <1>3, <1>4, <1>5, <1>7 DEF Tracks
<1>. QED
    BY <1>6 DEF a

(* Whatever the reader is at, it may fail, and no end has been passed. *)
LEMMA FollowsComing ==
    ASSUME NEW w, NEW v, NEW z, NEW m, NEW g, NEW p \in Nat, NEW n \in Int, Counted(z),
           DOMAIN w \subseteq Int, n <= p, Tracks(w, v, z, m, g, p) \/ Astray(w, v, z, m, g, p)
    PROVE  Coming(w, v, z.type, n)
<1>1. Left(z) \in Nat /\ z.paddingLen \in Nat
    BY DEF Counted, Left
<1>2. CASE Tracks(w, v, z, m, g, p)
    <2>. DEFINE l == p + Left(z) + z.paddingLen
    <2>1. Coming(w, v, z.type, l)
        BY <1>2 DEF Tracks
    <2>2. l \in Int /\ n <= l
        BY <1>1
    <2>. HIDE DEF l
    <2>. QED
        BY <2>1, <2>2 DEF Coming
<1>3. CASE Astray(w, v, z, m, g, p)
    BY <1>3 DEF Astray, Coming
<1>. QED
    BY <1>2, <1>3

LEMMA FollowsError ==
    ASSUME NEW w, NEW v, NEW z, NEW y, NEW m, NEW g, NEW p \in Nat, Counted(z),
           DOMAIN w \subseteq Int, Tracks(w, v, z, m, g, p) \/ Astray(w, v, z, m, g, p),
           y.error, y.type = z.type, y.avail = z.avail, y.contentLen = z.contentLen,
           y.paddingLen = z.paddingLen, y.skip = z.skip, Len(y.hdr) \in 0 .. HeaderLen
    PROVE  Follows(w, v, y, m, g, p)
<1>1. Left(y) = Left(z)
    BY DEF Left
<1>2. Tracks(w, v, y, m, g, p) \/ Astray(w, v, y, m, g, p)
    BY <1>1 DEF Tracks, Astray
<1>3. Coming(w, v, z.type, p + Len(y.hdr) - HeaderLen)
    <2>. DEFINE n == p + Len(y.hdr) - HeaderLen
    <2>1. n \in Int /\ n <= p
        BY FcgiRecordAssumption
    <2>. HIDE DEF n
    <2>2. Coming(w, v, z.type, n)
        BY <2>1, FollowsComing
    <2>. QED
        BY <2>2 DEF n
<1>4. Closed(w, v, y, g, p)
    BY <1>3 DEF Closed
<1>. QED
    BY <1>2, <1>4 DEF Follows
-----------------------------------------------------------------------------
(* The reader turns to another stream. *)
Fresh(z) ==
    /\ z.avail = 0 /\ z.contentLen = 0 /\ z.paddingLen = 0
    /\ ~z.skip /\ ~z.isClosed

LEMMA FollowsFresh ==
    ASSUME NEW w, NEW v, NEW z, NEW p \in Nat, Fresh(z), Len(w) \in Nat, p <= Len(w),
           <<>> = Chosen(v, z.type, Part(w, 0, p)), Coming(w, v, z.type, p)
    PROVE  Follows(w, v, z, "none", <<>>, p)
<1>1. Left(z) = 0 /\ z.paddingLen = 0 /\ ~z.skip /\ ~z.isClosed
    BY DEF Fresh, Left
<1>2. p + 0 = p /\ ~(\E j \in p + 1 .. p : TRUE)
    OBVIOUS
<1>3. CASE p < Len(w) /\ w[p + 1][2] # 1
    BY <1>1, <1>3 DEF Follows, Astray
<1>4. CASE ~(p < Len(w) /\ w[p + 1][2] # 1)
    <2>1. Tracks(w, v, z, "none", <<>>, p)
        BY <1>1, <1>2, <1>4 DEF Tracks
    <2>. QED
        BY <1>1, <2>1 DEF Follows
<1>. QED
    BY <1>3, <1>4

(* The first byte of the record that has byte j. *)
FirstIs(w, j, i, r) ==
    /\ i \in DOMAIN w /\ w[i] = <<r, 1>> /\ i \in Nat /\ j \in Nat
    /\ \A m \in 1 .. Size(r) : w[i + (m - 1)] = <<r, m>>
    /\ Size(r) \in Nat /\ HeaderLen \in 1 .. Size(r)

LEMMA FirstByte ==
    ASSUME NEW R, NEW w, OnTheWire(R, w), NEW j \in DOMAIN w
    PROVE  FirstIs(w, j, j - w[j][2] + 1, w[j][1])
<1>. DEFINE r == w[j][1]
            k == w[j][2]
<1>0. w \in Seq(Octets(R)) /\ Whole(w) /\ Sized(R)
    BY DEF OnTheWire
<1>1. DOMAIN w = 1 .. Len(w) /\ j \in Nat
    BY <1>0, LenProperties
<1>2. r \in R /\ k \in Nat
    BY WireByte
<1>3. HeaderLen \in 1 .. Size(r) /\ Size(r) \in Nat
    BY <1>0, <1>2, SizeType
<1>4. k \in 1 .. Size(r) /\ \A m \in 1 .. Size(r) : j - k + m \in DOMAIN w /\ w[j - k + m] = <<r, m>>
    BY <1>0 DEF Whole
<1>. HIDE DEF r, k
<1>5. 1 \in 1 .. Size(r)
    BY <1>3
<1>6. j - k + 1 \in DOMAIN w /\ w[j - k + 1] = <<r, 1>>
    BY <1>4, <1>5
<1>7. ASSUME NEW m \in 1 .. Size(r) PROVE w[(j - k + 1) + (m - 1)] = <<r, m>>
    <2>1. (j - k + 1) + (m - 1) = j - k + m
        BY <1>1, <1>2
    <2>. QED
        BY <1>4, <2>1
<1>8. j - k + 1 \in Nat
    BY <1>1, <1>6
<1>. QED
    BY <1>1, <1>3, <1>6, <1>7, <1>8 DEF r, k, FirstIs

LEMMA FollowsSwitch ==
    ASSUME NEW R, NEW w, OnTheWire(R, w), NEW v, Ordered(w, v), NEW z, NEW y, NEW g,
           NEW p \in Nat, Closed(w, v, z, g, p), Len(z.hdr) \in Nat, p + Len(z.hdr) <= Len(w),
           z.type \in v.watch, y.type \in After(z.type), Fresh(y),
           y.type \in v.watch => Ends(w, v, z.type)
    PROVE  Follows(w, v, y, "none", <<>>, p + Len(z.hdr))
<1>. DEFINE old == z.type
            new == y.type
            a == p + Len(z.hdr)
<1>0. w \in Seq(Octets(R)) /\ Len(w) \in Nat /\ DOMAIN w = 1 .. Len(w)
    BY LenProperties DEF OnTheWire
<1>1. a \in Nat /\ a <= Len(w) /\ HeaderLen \in Nat
    BY FcgiRecordAssumption
<1>2. Coming(w, v, old, a - HeaderLen)
    <2>1. Coming(w, v, z.type, p + Len(z.hdr) - HeaderLen)
        BY DEF Closed
    <2>2. a - HeaderLen = p + Len(z.hdr) - HeaderLen
        BY <1>1
    <2>. QED
        BY <2>1, <2>2
<1>3. old \in v.watch /\ new \in After(old) /\ After(new) \subseteq After(old) /\ old \notin After(old)
    BY DEF After
<1>9. new \in v.watch => Ends(w, v, old)
    OBVIOUS
<1>10. y.type = new
    OBVIOUS
<1>. HIDE DEF a, old, new
<1>4. ASSUME NEW j \in 1 .. a, Mine(v, new, w[j]) PROVE FALSE
    <2>. DEFINE r == w[j][1]
                k == w[j][2]
    <2>1. j \in DOMAIN w
        BY <1>0, <1>1
    <2>2. j - k + 1 \in DOMAIN w /\ w[j - k + 1] = <<r, 1>> /\ j \in Nat /\ k \in Nat
        <3>1. FirstIs(w, j, j - k + 1, r)
            BY <2>1, FirstByte
        <3>2. k \in Nat
            BY <2>1, WireByte
        <3>. QED
            BY <3>1, <3>2 DEF FirstIs
    <2>3. Ours(v, r) /\ r.type = new /\ k \in HeaderLen + 1 .. HeaderLen + r.len
        BY <1>4 DEF Mine, Ours
    <2>. HIDE DEF r, k
    <2>4. Stop(v, old, r)
        BY <1>3, <2>3 DEF Stop
    <2>5. a - HeaderLen < j - k + 1
        BY <1>2, <1>3, <2>2, <2>4 DEF Coming
    <2>. QED
        BY <1>1, <1>4, <2>2, <2>3, <2>5
<1>5. <<>> = Chosen(v, new, Part(w, 0, a))
    <2>1. a \in 0 .. Len(w) /\ 0 \in 0 .. a /\ \A j \in 0 + 1 .. a : ~Mine(v, new, w[j])
        BY <1>0, <1>1, <1>4
    <2>2. Chosen(v, new, Part(w, 0, a)) = Chosen(v, new, Part(w, 0, 0))
        BY <1>0, <2>1, ChosenSkip
    <2>. QED
        BY <2>2, PartEmpty, ChosenNothing
<1>6. Coming(w, v, new, a)
    <2>. SUFFICES ASSUME new \in v.watch, NEW i \in DOMAIN w, w[i][2] = 1, Stop(v, new, w[i][1])
                  PROVE  a < i
        BY DEF Coming
    <2>. DEFINE r == w[i][1]
    <2>1. Ours(v, r) /\ r.type \in After(old)
        BY <1>3 DEF Stop
    <2>2. PICK j \in DOMAIN w : /\ w[j][2] = 1 /\ Ours(v, w[j][1])
                                /\ w[j][1].type = old /\ w[j][1].len = 0
        BY <1>9 DEF Ends
    <2>. DEFINE s == w[j][1]
    <2>3. a - HeaderLen < j
        <3>1. Stop(v, old, s)
            BY <2>2 DEF Stop
        <3>. QED
            BY <1>2, <1>3, <2>2, <3>1 DEF Coming
    <2>4. r # s /\ ~(i < j)
        <3>1. r # s
            BY <1>3, <2>1, <2>2
        <3>. QED
            BY <2>1, <2>2, <3>1 DEF Ordered
    <2>5. /\ \A m \in 1 .. Size(s) : w[j + (m - 1)] = <<s, m>>
          /\ HeaderLen \in 1 .. Size(s) /\ Size(s) \in Nat /\ j \in Nat /\ i \in Nat
        <3>1. FirstIs(w, j, j - w[j][2] + 1, w[j][1])
            BY FirstByte
        <3>2. i \in Nat /\ j \in Nat
            BY <1>0
        <3>3. j - w[j][2] + 1 = j
            BY <2>2, <3>2
        <3>4. FirstIs(w, j, j, s)
            BY <3>1, <3>3
        <3>. QED
            BY <3>2, <3>4 DEF FirstIs
    <2>. HIDE DEF r, s
    <2>8. ~(i - j + 1 \in 1 .. Size(s))
        <3>. SUFFICES ASSUME i - j + 1 \in 1 .. Size(s) PROVE FALSE
            OBVIOUS
        <3>1. j + ((i - j + 1) - 1) = i
            BY <2>5
        <3>2. w[j + ((i - j + 1) - 1)] = <<s, i - j + 1>>
            BY <2>5
        <3>3. w[i] = <<s, i - j + 1>>
            BY <3>1, <3>2
        <3>4. w[i][1] = s
            BY <3>3
        <3>. QED
            BY <2>4, <3>4 DEF r
    <2>. QED
        BY <1>1, <2>3, <2>4, <2>5, <2>8, SMTT(20)
<1>7. Follows(w, v, y, "none", <<>>, a)
    BY <1>0, <1>1, <1>5, <1>6, <1>10, FollowsFresh
<1>. QED
    BY <1>7 DEF a
-----------------------------------------------------------------------------
(* The first stream of a request, behind the record that begins it. *)
LEMMA FollowsBegin ==
    ASSUME NEW R, NEW w, OnTheWire(R, w), NEW v, Ordered(w, v), NEW p \in DOMAIN w,
           Ours(v, w[p][1]), w[p][1].type = "BEGIN_REQUEST",
           NEW y, y.type = "PARAMS", Fresh(y)
    PROVE  Follows(w, v, y, "none", <<>>, p)
<1>0. w \in Seq(Octets(R)) /\ Len(w) \in Nat /\ DOMAIN w = 1 .. Len(w) /\ p \in Nat /\ p <= Len(w)
    BY LenProperties DEF OnTheWire
<1>1. \A i \in DOMAIN w : Ours(v, w[i][1]) /\ w[i][1].type \in Streams => p < i
    <2>1. "BEGIN_REQUEST" \notin Streams
        BY DEF Streams
    <2>. QED
        BY <2>1 DEF Ordered
<1>2. <<>> = Chosen(v, "PARAMS", Part(w, 0, p))
    <2>1. \A j \in 0 + 1 .. p : ~Mine(v, "PARAMS", w[j])
        <3>. SUFFICES ASSUME NEW j \in 0 + 1 .. p, Mine(v, "PARAMS", w[j]) PROVE FALSE
            OBVIOUS
        <3>1. j \in DOMAIN w /\ ~(p < j)
            BY <1>0
        <3>2. Ours(v, w[j][1]) /\ w[j][1].type \in Streams
            BY DEF Mine, Ours, Streams
        <3>. QED
            BY <1>1, <3>1, <3>2
    <2>2. p \in 0 .. Len(w) /\ 0 \in 0 .. p
        BY <1>0
    <2>3. Chosen(v, "PARAMS", Part(w, 0, p)) = Chosen(v, "PARAMS", Part(w, 0, 0))
        BY <1>0, <2>1, <2>2, ChosenSkip
    <2>. QED
        BY <2>3, PartEmpty, ChosenNothing
<1>3. Coming(w, v, "PARAMS", p)
    <2>1. \A r : Stop(v, "PARAMS", r) => Ours(v, r) /\ r.type \in Streams
        BY DEF Stop, After, Streams
    <2>. QED
        BY <1>1, <2>1 DEF Coming
<1>. QED
    BY <1>0, <1>2, <1>3, FollowsFresh

(* More is sent, of another exchange. *)
Extends(R, w, u) ==
    /\ OnTheWire(R, w) /\ OnTheWire(R, u) /\ \E t \in Seq(Octets(R)) : u = w \o t

LEMMA SentMore ==
    ASSUME NEW R, NEW w, NEW u, Extends(R, w, u)
    PROVE  /\ Len(w) \in Nat /\ Len(u) \in Nat /\ Len(w) <= Len(u)
           /\ DOMAIN w = 1 .. Len(w) /\ DOMAIN u = 1 .. Len(u)
           /\ \A j \in DOMAIN w : j \in DOMAIN u /\ u[j] = w[j]
           /\ \A n \in 0 .. Len(w) : Part(u, 0, n) = Part(w, 0, n)
           /\ Len(w) < Len(u) => u[Len(w) + 1][2] = 1
<1>1. PICK t \in Seq(Octets(R)) : u = w \o t
    BY DEF Extends
<1>2. w \in Seq(Octets(R)) /\ Whole(w) /\ Sized(R) /\ u \in Seq(Octets(R)) /\ Whole(u)
    BY DEF Extends, OnTheWire
<1>3. u \in Seq(Octets(R)) /\ IsJoin(u, w, t)
    BY <1>1, <1>2, JoinIs
<1>4. /\ Len(w) \in Nat /\ Len(u) \in Nat /\ Len(w) <= Len(u)
      /\ DOMAIN w = 1 .. Len(w) /\ DOMAIN u = 1 .. Len(u)
      /\ \A j \in DOMAIN w : j \in DOMAIN u /\ u[j] = w[j]
    BY <1>3 DEF IsJoin
<1>5. ASSUME NEW n \in 0 .. Len(w) PROVE Part(u, 0, n) = Part(w, 0, n)
    <2>1. 0 \in 0 .. n
        BY <1>4
    <2>2. Part(w \o t, 0, n) = Part(w, 0, n)
        BY <1>2, <2>1, PartOfFirst
    <2>. QED
        BY <1>1, <2>2
<1>6. ASSUME Len(w) < Len(u) PROVE u[Len(w) + 1][2] = 1
    <2>. DEFINE j == Len(w)
    <2>1. CASE j = 0
        <3>1. 1 \in DOMAIN u
            BY <1>4, <1>6
        <3>2. u[1][2] = 1
            BY <1>2, <3>1, FirstRecord
        <3>. QED
            BY <2>1, <3>2
    <2>2. CASE j # 0
        <3>1. j \in DOMAIN w /\ j \in DOMAIN u /\ j + 1 \in DOMAIN u /\ u[j] = w[j]
            BY <1>4, <1>6, <2>2
        <3>. DEFINE r == w[j][1]
                    k == w[j][2]
        <3>2. /\ k \in 1 .. Size(r)
              /\ \A m \in 1 .. Size(r) : j - k + m \in DOMAIN w
            BY <1>2, <3>1 DEF Whole
        <3>3. r \in R /\ k \in Nat
            BY <3>1, WireByte DEF Extends
        <3>4. Size(r) \in Nat
            BY <1>2, <3>3, SizeType
        <3>. HIDE DEF r, k
        <3>5. j - k + Size(r) \in DOMAIN w
            BY <3>2, <3>3, <3>4
        <3>6. k = Size(r)
            BY <1>4, <3>2, <3>3, <3>4, <3>5
        <3>. HIDE DEF j
        <3>7. u[j][2] = Size(u[j][1])
            BY <3>1, <3>6 DEF r, k
        <3>8. u[j + 1][2] = 1
            BY <1>2, <3>1, <3>7, NextRecord
        <3>. QED
            BY <3>8 DEF j
    <2>. QED
        BY <2>1, <2>2
<1>. QED
    BY <1>4, <1>5, <1>6

LEMMA FollowsSent ==
    ASSUME NEW R, NEW w, NEW u, Extends(R, w, u), NEW v,
           \A j \in DOMAIN u : j \notin DOMAIN w => u[j][1].of[2] # v.of,
           NEW z, Counted(z), NEW m, NEW g, NEW p \in Nat, Len(z.hdr) \in Nat,
           p + Len(z.hdr) <= Len(w), Follows(w, v, z, m, g, p)
    PROVE  Follows(u, v, z, m, g, p)
<1>. DEFINE type == z.type
<1>0. /\ Len(w) \in Nat /\ Len(u) \in Nat /\ Len(w) <= Len(u)
      /\ DOMAIN w = 1 .. Len(w) /\ DOMAIN u = 1 .. Len(u)
      /\ \A j \in DOMAIN w : j \in DOMAIN u /\ u[j] = w[j]
      /\ \A n \in 0 .. Len(w) : Part(u, 0, n) = Part(w, 0, n)
      /\ Len(w) < Len(u) => u[Len(w) + 1][2] = 1
    BY SentMore
<1>1. ASSUME NEW n \in Int, n <= Len(w), Coming(w, v, type, n) PROVE Coming(u, v, type, n)
    <2>. SUFFICES ASSUME type \in v.watch, NEW i \in DOMAIN u, u[i][2] = 1, Stop(v, type, u[i][1])
                  PROVE  n < i
        BY DEF Coming
    <2>1. CASE i \in DOMAIN w
        BY <1>0, <1>1, <2>1 DEF Coming
    <2>2. CASE i \notin DOMAIN w
        BY <1>0, <1>1, <2>2
    <2>. QED
        BY <2>1, <2>2
<1>2. ASSUME Tracks(w, v, z, m, g, p) PROVE Tracks(u, v, z, m, g, p)
    <2>. DEFINE n == p + Left(z)
                l == n + z.paddingLen
    <2>10. Left(z) \in Nat /\ z.paddingLen \in Nat
        BY DEF Counted, Left
    <2>0. n \in Nat /\ l \in Nat /\ n <= l /\ p <= n
        BY <2>10
    <2>1. /\ l <= Len(w) /\ (l < Len(w) => w[l + 1][2] = 1)
          /\ \A j \in p + 1 .. n : Mine(v, type, w[j]) <=> (m = "none" /\ ~z.skip)
          /\ \A j \in n + 1 .. l : ~Mine(v, type, w[j])
          /\ z.skip => z.contentLen > 0
          /\ g = Chosen(v, type, Part(w, 0, p))
          /\ Coming(w, v, type, l)
        BY <1>2 DEF Tracks
    <2>. HIDE DEF n, l
    <2>2. \A j \in p + 1 .. l : u[j] = w[j]
        BY <1>0, <2>0, <2>1
    <2>3. l <= Len(u) /\ (l < Len(u) => u[l + 1][2] = 1)
        <3>1. CASE l < Len(w)
            <4>1. l + 1 \in DOMAIN w
                BY <1>0, <2>0, <3>1
            <4>. QED
                BY <1>0, <2>0, <2>1, <3>1, <4>1
        <3>2. CASE l = Len(w)
            BY <1>0, <3>2
        <3>3. l < Len(w) \/ l = Len(w)
            <4>1. Len(w) \in Nat /\ l \in Nat /\ l <= Len(w)
                BY <1>0, <2>0, <2>1
            <4>. QED
                BY ONLY <4>1
        <3>. QED
            BY <3>1, <3>2, <3>3
    <2>4. \A j \in p + 1 .. n : Mine(v, type, u[j]) <=> (m = "none" /\ ~z.skip)
        <3>1. \A j \in p + 1 .. n : u[j] = w[j]
            BY <2>0, <2>2
        <3>. QED
            BY <2>1, <3>1
    <2>5. \A j \in n + 1 .. l : ~Mine(v, type, u[j])
        <3>1. \A j \in n + 1 .. l : u[j] = w[j]
            BY <2>0, <2>2
        <3>. QED
            BY <2>1, <3>1
    <2>6. g = Chosen(v, type, Part(u, 0, p))
        <3>1. p \in 0 .. Len(w)
            BY <1>0, <2>0, <2>1
        <3>. QED
            BY <1>0, <2>1, <3>1
    <2>7. Coming(u, v, type, l)
        BY <1>1, <2>0, <2>1
    <2>. QED
        BY <2>1, <2>3, <2>4, <2>5, <2>6, <2>7 DEF Tracks, n, l
<1>3. ASSUME Astray(w, v, z, m, g, p) PROVE Astray(u, v, z, m, g, p)
    <2>1. p < Len(w) /\ w[p + 1][2] # 1 /\ Coming(w, v, type, p)
        BY <1>3 DEF Astray
    <2>2. p + 1 \in DOMAIN w /\ p < Len(u)
        BY <1>0, <2>1
    <2>3. Coming(u, v, type, p)
        BY <1>0, <1>1, <2>1
    <2>. QED
        BY <1>0, <1>3, <2>1, <2>2, <2>3 DEF Astray
<1>4. ASSUME Closed(w, v, z, g, p) PROVE Closed(u, v, z, g, p)
    <2>1. Coming(w, v, type, p + Len(z.hdr) - HeaderLen) /\ (~z.error => g = Chosen(v, type, w))
        BY <1>4 DEF Closed
    <2>. DEFINE n == p + Len(z.hdr) - HeaderLen
    <2>2. n \in Int /\ n <= Len(w)
        BY <1>0, FcgiRecordAssumption
    <2>. HIDE DEF n
    <2>3. Coming(w, v, type, n)
        BY <2>1 DEF n
    <2>4. Coming(u, v, type, n)
        BY <1>1, <2>2, <2>3
    <2>5. Chosen(v, type, u) = Chosen(v, type, w)
        <3>1. w \in Seq(Octets(R)) /\ u \in Seq(Octets(R))
            BY DEF Extends, OnTheWire
        <3>2. \A j \in Len(w) + 1 .. Len(u) : ~Mine(v, type, u[j])
            <4>1. \A j \in Len(w) + 1 .. Len(u) : j \in DOMAIN u /\ j \notin DOMAIN w
                BY <1>0
            <4>. QED
                BY <4>1 DEF Mine
        <3>3. Len(u) \in 0 .. Len(u) /\ Len(w) \in 0 .. Len(u)
            BY <1>0
        <3>4. Chosen(v, type, Part(u, 0, Len(u))) = Chosen(v, type, Part(u, 0, Len(w)))
            BY <3>1, <3>2, <3>3, ChosenSkip
        <3>5. Part(u, 0, Len(u)) = u /\ Part(w, 0, Len(w)) = w
            BY <3>1, SubSeqFull DEF Part
        <3>6. Part(u, 0, Len(w)) = Part(w, 0, Len(w))
            BY <1>0
        <3>. QED
            BY <3>4, <3>5, <3>6
    <2>. QED
        BY <2>1, <2>4, <2>5 DEF Closed, n
<1>. QED
    BY <1>2, <1>3, <1>4 DEF Follows
-----------------------------------------------------------------------------
(* What the reader's variables hold between two steps. *)
ReaderState(R) ==
    [type : Streams \cup {"NONE"}, rd : Seq(Octets(R)), avail : Nat, hdr : Seq(Octets(R)),
     contentLen : Nat, paddingLen : Nat, skip : BOOLEAN, eorStop : BOOLEAN,
     isClosed : BOOLEAN, error : BOOLEAN]

IsRequestState(x) ==
    /\ x = [requestId |-> x.requestId, isBeginProcessed |-> x.isBeginProcessed,
            keepConnection |-> x.keepConnection, role |-> x.role]
    /\ x.isBeginProcessed \in BOOLEAN

ReaderTypes ==
    /\ Sized(Known) /\ in \in ReaderState(Known)
    /\ inbox \in Seq(Octets(Known)) /\ taken \in Seq(Octets(Known))
    /\ filling \in BOOLEAN /\ nested \in {"none", "body", "values"}
    /\ IsRequestState(request)

ReaderShape ==
    /\ in.avail <= Len(in.rd) /\ Len(in.hdr) < HeaderLen
    /\ filling \/ in.isClosed => in.avail = 0
    /\ filling => ~in.isClosed
    /\ in.skip => in.avail = 0
    /\ in.eorStop = (nested # "none")
    /\ in.hdr # <<>> => in.avail = 0 /\ in.contentLen = 0 /\ in.paddingLen = 0
    /\ nested = "body" => ~request.isBeginProcessed

Reader == ReaderTypes /\ ReaderShape

LEMMA NewReaderIs ==
    ASSUME NEW R, NEW type \in Streams \cup {"NONE"}
    PROVE  /\ NewReader(type) \in ReaderState(R)
           /\ \A z \in ReaderState(R) : SetReaderType(z, type) \in ReaderState(R)
<1>1. <<>> \in Seq(Octets(R)) /\ 0 \in Nat
    OBVIOUS
<1>2. NewReader(type) \in ReaderState(R)
    BY <1>1 DEF NewReader, ReaderState
<1>3. ASSUME NEW z \in ReaderState(R) PROVE SetReaderType(z, type) \in ReaderState(R)
    BY <1>2 DEF SetReaderType, ReaderState
<1>. QED
    BY <1>2, <1>3

(* Some of the bytes of a sequence, and the others. *)
LEMMA DropIs ==
    ASSUME NEW S, NEW s \in Seq(S), NEW n \in 0 .. Len(s)
    PROVE  /\ SubSeq(s, 1, n) \in Seq(S) /\ Len(SubSeq(s, 1, n)) = n
           /\ Drop(s, n) \in Seq(S) /\ Len(Drop(s, n)) = Len(s) - n
           /\ s = SubSeq(s, 1, n) \o Drop(s, n)
           /\ \A i \in 1 .. n : SubSeq(s, 1, n)[i] = s[i]
<1>0. Len(s) \in Nat
    BY LenProperties
<1>1. SubSeq(s, 1, n) = Part(s, 0, n) /\ Drop(s, n) = Part(s, n, Len(s))
    BY DEF Part, Drop
<1>2. Len(s) \in 0 .. Len(s) /\ 0 \in 0 .. n /\ n \in 0 .. Len(s)
    BY <1>0
<1>3. /\ Part(s, 0, n) \in Seq(S) /\ Len(Part(s, 0, n)) = n - 0
      /\ \A i \in 1 .. n - 0 : Part(s, 0, n)[i] = s[0 + i]
    BY <1>2, PartType
<1>4. Part(s, n, Len(s)) \in Seq(S) /\ Len(Part(s, n, Len(s))) = Len(s) - n
    BY <1>2, PartType
<1>5. Part(s, 0, n) \o Part(s, n, Len(s)) = Part(s, 0, Len(s))
    BY <1>2, PartConcat
<1>6. Part(s, 0, Len(s)) = s
    BY SubSeqFull DEF Part
<1>7. n - 0 = n /\ \A i \in 1 .. n : 0 + i = i
    BY <1>0
<1>8. s = SubSeq(s, 1, n) \o Drop(s, n)
    BY <1>1, <1>5, <1>6, Zenon
<1>. QED
    BY <1>1, <1>3, <1>4, <1>7, <1>8

LEMMA LeastIs ==
    ASSUME NEW a \in Nat, NEW b \in Nat
    PROVE  Least(a, b) \in Nat /\ Least(a, b) <= a /\ Least(a, b) <= b
BY DEF Least

LEMMA ReaderIs ==
    ASSUME ReaderTypes
    PROVE  /\ in.rd \in Seq(Octets(Known)) /\ in.hdr \in Seq(Octets(Known))
           /\ Len(in.rd) \in Nat /\ Len(in.hdr) \in Nat /\ Len(inbox) \in Nat /\ Len(taken) \in Nat
           /\ Counted(in) /\ {in.skip, in.eorStop, in.isClosed, in.error} \subseteq BOOLEAN
<1>1. in \in ReaderState(Known)
    BY DEF ReaderTypes
<1>2. /\ in.rd \in Seq(Octets(Known)) /\ in.hdr \in Seq(Octets(Known))
      /\ Counted(in) /\ {in.skip, in.eorStop, in.isClosed, in.error} \subseteq BOOLEAN
    BY <1>1 DEF ReaderState, Counted
<1>. QED
    BY <1>2, LenProperties DEF ReaderTypes

(* What ReadHeader has when the header is complete. *)
Header == in.hdr \o SubSeq(in.rd, 1, HeaderBytes)

LEMMA HeaderIs ==
    ASSUME ReaderTypes, ReaderShape
    PROVE  /\ HeaderBytes \in 0 .. Len(in.rd) /\ Header \in Seq(Octets(Known))
           /\ Len(Header) = Len(in.hdr) + HeaderBytes
           /\ Len(Header) <= HeaderLen
           /\ Len(Header) # HeaderLen => HeaderBytes = Len(in.rd)
           /\ Len(Header) = HeaderLen => Record(Header) \in Known
<1>1. /\ in.rd \in Seq(Octets(Known)) /\ in.hdr \in Seq(Octets(Known))
      /\ Len(in.rd) \in Nat /\ Len(in.hdr) \in Nat
    BY ReaderIs
<1>2. HeaderLen \in Nat /\ HeaderLen > 0 /\ Len(in.hdr) < HeaderLen
    BY FcgiRecordAssumption DEF ReaderShape
<1>3. /\ HeaderBytes \in 0 .. Len(in.rd) /\ Len(in.hdr) + HeaderBytes <= HeaderLen
      /\ Len(in.hdr) + HeaderBytes # HeaderLen => HeaderBytes = Len(in.rd)
    <2>. DEFINE a == HeaderLen - Len(in.hdr)
                b == Len(in.rd)
    <2>1. a \in Nat /\ b \in Nat /\ Len(in.hdr) + a = HeaderLen
        BY <1>1, <1>2
    <2>2. HeaderBytes = IF a < b THEN a ELSE b
        BY DEF HeaderBytes, Least
    <2>. HIDE DEF a, b
    <2>3. HeaderBytes \in 0 .. b
        BY <2>1, <2>2
    <2>6. HeaderBytes \in Int /\ HeaderBytes <= a
        BY <2>1, <2>2
    <2>. HIDE DEF HeaderBytes
    <2>4. Len(in.hdr) + HeaderBytes <= HeaderLen
        BY <1>1, <1>2, <2>1, <2>6
    <2>5. HeaderBytes # a => HeaderBytes = b
        BY <2>2
    <2>. QED
        BY <2>1, <2>3, <2>4, <2>5 DEF b
<1>4. SubSeq(in.rd, 1, HeaderBytes) \in Seq(Octets(Known))
      /\ Len(SubSeq(in.rd, 1, HeaderBytes)) = HeaderBytes
    BY <1>1, <1>3, DropIs
<1>5. Header \in Seq(Octets(Known)) /\ Len(Header) = Len(in.hdr) + HeaderBytes
    BY <1>1, <1>4, ConcatProperties DEF Header
<1>. HIDE DEF Header, HeaderBytes
<1>6. ASSUME Len(Header) = HeaderLen PROVE Record(Header) \in Known
    <2>1. 1 \in 1 .. Len(Header)
        BY <1>2, <1>6
    <2>2. Header[1] \in Octets(Known)
        BY <1>5, <2>1, ElementOfSeq
    <2>. QED
        BY <2>2, OctetIs DEF Record
<1>. QED
    BY <1>3, <1>5, <1>6
-----------------------------------------------------------------------------
LEMMA KnownSame == ASSUME UNCHANGED script PROVE Known' = Known
BY DEF Known

(* What the operators on the reader make of it. *)
Set(z, type, rd, avail, hdr, contentLen, paddingLen) ==
    /\ z.type = type /\ z.rd = rd /\ z.avail = avail /\ z.hdr = hdr
    /\ z.contentLen = contentLen /\ z.paddingLen = paddingLen

Flags(z, skip, eorStop, isClosed, error) ==
    /\ z.skip = skip /\ z.eorStop = eorStop /\ z.isClosed = isClosed /\ z.error = error

LEMMA StateIs ==
    ASSUME NEW R, NEW z \in ReaderState(R)
    PROVE  /\ \A y : y = z => y \in ReaderState(R)
           /\ z.type \in Streams \cup {"NONE"} /\ z.rd \in Seq(Octets(R)) /\ z.hdr \in Seq(Octets(R))
           /\ z.avail \in Nat /\ z.contentLen \in Nat /\ z.paddingLen \in Nat
           /\ z.skip \in BOOLEAN /\ z.eorStop \in BOOLEAN /\ z.isClosed \in BOOLEAN /\ z.error \in BOOLEAN
BY DEF ReaderState

LEMMA SetErrorIs ==
    ASSUME NEW R, NEW z \in ReaderState(R)
    PROVE  /\ SetError(z) \in ReaderState(R)
           /\ Set(SetError(z), z.type, z.rd, z.avail, z.hdr, z.contentLen, z.paddingLen)
           /\ Flags(SetError(z), z.skip, z.eorStop, TRUE, TRUE)
BY DEF ReaderState, SetError, Set, Flags

LEMMA ResumedIs ==
    ASSUME NEW R, NEW z \in ReaderState(R)
    PROVE  /\ Resumed(z) \in ReaderState(R)
           /\ Set(Resumed(z), z.type, z.rd, z.avail, z.hdr, z.contentLen, z.paddingLen)
           /\ Flags(Resumed(z), z.skip, FALSE, FALSE, z.error)
BY DEF ReaderState, Resumed, Set, Flags

LEMMA EndOfStreamIs ==
    ASSUME NEW R, NEW z \in ReaderState(R)
    PROVE  /\ EndOfStream(z) \in ReaderState(R)
           /\ Set(EndOfStream(z), z.type, z.rd, 0, z.hdr, z.contentLen, z.paddingLen)
           /\ Flags(EndOfStream(z), z.skip, z.eorStop, TRUE, z.error)
BY DEF ReaderState, EndOfStream, Set, Flags

LEMMA TakeIs ==
    ASSUME NEW R, NEW z \in ReaderState(R), NEW n \in 0 .. z.avail, z.avail <= Len(z.rd)
    PROVE  /\ Take(z, n) \in ReaderState(R)
           /\ Set(Take(z, n), z.type, Drop(z.rd, n), z.avail - n, z.hdr, z.contentLen, z.paddingLen)
           /\ Flags(Take(z, n), z.skip, z.eorStop, z.isClosed, z.error)
<1>. DEFINE x == Drop(z.rd, n)
            a == z.avail - n
<1>1. x \in Seq(Octets(R)) /\ a \in Nat
    <2>1. z.rd \in Seq(Octets(R)) /\ z.avail \in Nat /\ Len(z.rd) \in Nat
        BY StateIs, LenProperties
    <2>2. n \in 0 .. Len(z.rd)
        BY <2>1
    <2>. QED
        BY <2>1, <2>2, DropIs
<1>2. Take(z, n) = [z EXCEPT !.rd = x, !.avail = a]
    BY DEF Take
<1>. HIDE DEF x, a
<1>3. /\ Take(z, n) \in ReaderState(R)
      /\ Set(Take(z, n), z.type, x, a, z.hdr, z.contentLen, z.paddingLen)
      /\ Flags(Take(z, n), z.skip, z.eorStop, z.isClosed, z.error)
    BY <1>1, <1>2 DEF ReaderState, Set, Flags
<1>. QED
    BY <1>3 DEF x, a

(* The reader behind a header. *)
Headed(z, skip, eorStop, isClosed, error, r) ==
    /\ z \in ReaderState(Known)
    /\ Set(z, in.type, Drop(in.rd, HeaderBytes), in.avail, <<>>, r.len, r.pad)
    /\ Flags(z, skip, eorStop, isClosed, error)

LEMMA HeaderReadIs ==
    ASSUME ReaderTypes, ReaderShape
    PROVE  /\ HeaderRead \in ReaderState(Known)
           /\ Set(HeaderRead, in.type, Drop(in.rd, HeaderBytes), in.avail, <<>>,
                  in.contentLen, in.paddingLen)
           /\ Flags(HeaderRead, in.skip, in.eorStop, in.isClosed, in.error)
<1>. DEFINE x == Drop(in.rd, HeaderBytes)
<1>1. in \in ReaderState(Known)
    BY DEF ReaderTypes
<1>2. x \in Seq(Octets(Known)) /\ <<>> \in Seq(Octets(Known))
    <2>1. in.rd \in Seq(Octets(Known))
        BY ReaderIs
    <2>2. HeaderBytes \in 0 .. Len(in.rd)
        BY HeaderIs
    <2>. QED
        BY <2>1, <2>2, DropIs
<1>3. HeaderRead = [in EXCEPT !.rd = x, !.hdr = <<>>]
    BY DEF HeaderRead
<1>. HIDE DEF x
<1>4. /\ HeaderRead \in ReaderState(Known)
      /\ Set(HeaderRead, in.type, x, in.avail, <<>>, in.contentLen, in.paddingLen)
      /\ Flags(HeaderRead, in.skip, in.eorStop, in.isClosed, in.error)
    BY <1>1, <1>2, <1>3 DEF ReaderState, Set, Flags
<1>. QED
    BY <1>4 DEF x

LEMMA ParsedIs ==
    ASSUME ReaderTypes, ReaderShape, NEW r \in Known
    PROVE  /\ Headed(Parsed(r), in.skip, in.eorStop, in.isClosed, in.error, r)
           /\ Headed(Skipped(r), TRUE, in.eorStop, in.isClosed, in.error, r)
           /\ Headed([Parsed(r) EXCEPT !.eorStop = TRUE], in.skip, TRUE, in.isClosed, in.error, r)
           /\ Headed(SetError(Parsed(r)), in.skip, in.eorStop, TRUE, TRUE, r)
           /\ in.avail = 0 => Headed(EndOfStream(Parsed(r)), in.skip, in.eorStop, TRUE, in.error, r)
<1>. DEFINE x == Drop(in.rd, HeaderBytes)
<1>0. r.len \in Nat /\ r.pad \in Nat
    BY SizeType DEF ReaderTypes
<1>1. Headed(Parsed(r), in.skip, in.eorStop, in.isClosed, in.error, r)
    <2>1. /\ HeaderRead \in ReaderState(Known)
          /\ Set(HeaderRead, in.type, x, in.avail, <<>>, in.contentLen, in.paddingLen)
          /\ Flags(HeaderRead, in.skip, in.eorStop, in.isClosed, in.error)
        BY HeaderReadIs
    <2>2. Parsed(r) = [HeaderRead EXCEPT !.contentLen = r.len, !.paddingLen = r.pad]
        BY DEF Parsed
    <2>. HIDE DEF x
    <2>3. /\ Parsed(r) \in ReaderState(Known)
          /\ Set(Parsed(r), in.type, x, in.avail, <<>>, r.len, r.pad)
          /\ Flags(Parsed(r), in.skip, in.eorStop, in.isClosed, in.error)
        BY <1>0, <2>1, <2>2 DEF ReaderState, Set, Flags
    <2>. QED
        BY <2>3 DEF Headed, x
<1>. HIDE DEF x
<1>2. Parsed(r) \in ReaderState(Known)
    BY <1>1 DEF Headed
<1>3. Headed(Skipped(r), TRUE, in.eorStop, in.isClosed, in.error, r)
    BY <1>1 DEF Headed, ReaderState, Set, Flags, Skipped
<1>4. Headed([Parsed(r) EXCEPT !.eorStop = TRUE], in.skip, TRUE, in.isClosed, in.error, r)
    BY <1>1 DEF Headed, ReaderState, Set, Flags
<1>5. Headed(SetError(Parsed(r)), in.skip, in.eorStop, TRUE, TRUE, r)
    BY <1>1, <1>2, SetErrorIs DEF Headed, Set, Flags
<1>6. in.avail = 0 => Headed(EndOfStream(Parsed(r)), in.skip, in.eorStop, TRUE, in.error, r)
    BY <1>1, <1>2, EndOfStreamIs DEF Headed, Set, Flags
<1>. QED
    BY <1>1, <1>3, <1>4, <1>5, <1>6
-----------------------------------------------------------------------------
(* What has been sent and not been used: part of a header, the buffer, and *)
(* what is on the connection.                                              *)
Ahead == in.hdr \o (in.rd \o inbox)

(* A step of the stream goes from byte p to byte n of w. *)
Moved(w, p, n, q) ==
    /\ ReaderTypes' /\ ReaderShape' /\ in'.type = in.type
    /\ n \in p .. q /\ Ahead' = Part(w, n, q)

LEMMA AheadDropped ==
    ASSUME ReaderTypes, NEW w \in Seq(Octets(Known)), NEW q \in 0 .. Len(w), NEW p \in 0 .. q,
           Ahead = Part(w, p, q), in.hdr = <<>>, in'.hdr = <<>>, UNCHANGED inbox,
           NEW n \in 0 .. Len(in.rd), in'.rd = Drop(in.rd, n)
    PROVE  p + n \in p .. q /\ Ahead' = Part(w, p + n, q) /\ SubSeq(in.rd, 1, n) = Part(w, p, p + n)
<1>. DEFINE S == Octets(Known)
            rd == in.rd
<1>1. rd \in Seq(S) /\ inbox \in Seq(S) /\ <<>> \in Seq(S) /\ Len(<<>>) = 0
    BY ReaderIs DEF ReaderTypes
<1>2. n \in 0 .. Len(rd) /\ <<>> \o (rd \o inbox) = Part(w, p, q)
    BY DEF Ahead
<1>3. in'.rd = Drop(rd, n)
    OBVIOUS
<1>. HIDE DEF S, rd
<1>4. /\ p + Len(<<>>) + n \in p .. q
      /\ <<>> \o SubSeq(rd, 1, n) = Part(w, p, p + Len(<<>>) + n)
      /\ Drop(rd, n) \o inbox = Part(w, p + Len(<<>>) + n, q)
      /\ SubSeq(rd, 1, n) \in Seq(S) /\ Drop(rd, n) \in Seq(S)
    <2>. DEFINE h == <<>>
    <2>1. w \in Seq(S) /\ h \in Seq(S) /\ rd \in Seq(S) /\ inbox \in Seq(S)
        BY <1>1 DEF S
    <2>2. IsAhead(h, rd, inbox, w, p, q) /\ n \in 0 .. Len(rd)
        BY <1>2 DEF IsAhead
    <2>. HIDE DEF h
    <2>3. SplitsAt(S, w, p, q, h, rd, inbox, n)
        BY <2>1, <2>2, AheadSplits
    <2>. QED
        BY <2>3 DEF h, SplitsAt
<1>5. p + Len(<<>>) + n = p + n
    <2>1. p \in Nat /\ n \in Nat
        OBVIOUS
    <2>. QED
        BY <1>1, <2>1
<1>6. <<>> \o SubSeq(rd, 1, n) = SubSeq(rd, 1, n)
    BY <1>4, ConcatEmptySeq
<1>7. Ahead' = Drop(rd, n) \o inbox
    <2>1. Ahead' = <<>> \o (Drop(rd, n) \o inbox)
        BY <1>3 DEF Ahead
    <2>2. Drop(rd, n) \o inbox \in Seq(S)
        BY <1>1, <1>4, ConcatProperties
    <2>. QED
        BY <2>1, <2>2, ConcatEmptySeq
<1>. QED
    BY <1>4, <1>5, <1>6, <1>7 DEF rd

LEMMA TypesSame ==
    ASSUME ReaderTypes, UNCHANGED <<script, inbox, nested, taken, request>>,
           filling' \in BOOLEAN, in' \in ReaderState(Known)
    PROVE  ReaderTypes'
BY KnownSame DEF ReaderTypes, IsRequestState

(* OS_Read puts bytes of the connection into the buffer, or fails. *)
HasRead ==
    /\ in' \in ReaderState(Known) /\ UNCHANGED filling
    /\ Set(in', in.type, in'.rd, in.avail, in.hdr, in.contentLen, in.paddingLen)
    /\ Flags(in', in.skip, in.eorStop, in.isClosed, in.error)

Failed ==
    /\ in' \in ReaderState(Known) /\ filling' = FALSE
    /\ Set(in', in.type, in.rd, in.avail, in.hdr, in.contentLen, in.paddingLen)
    /\ Flags(in', in.skip, in.eorStop, TRUE, TRUE)

LEMMA ReadIs ==
    ASSUME ReaderTypes, ReaderShape, UNCHANGED script, OS_Read
    PROVE  /\ HasRead \/ Failed
           /\ Ahead' = Ahead /\ ReaderTypes' /\ ReaderShape'
<1>1. in \in ReaderState(Known) /\ inbox \in Seq(Octets(Known)) /\ Len(inbox) \in Nat
    BY ReaderIs DEF ReaderTypes
<1>2. UNCHANGED <<nested, taken, request>> /\ in.rd = <<>> /\ filling = TRUE
    BY DEF OS_Read, ReaderTypes
<1>3. CASE inbox = <<>> /\ ~open /\ Returns(SetError(in)) /\ UNCHANGED inbox
    <2>1. in' = SetError(in) /\ filling' = FALSE /\ UNCHANGED inbox
        BY <1>3 DEF Returns
    <2>2. Failed
        BY <1>1, <2>1, SetErrorIs DEF Failed
    <2>3. Ahead' = Ahead
        BY <2>1, <2>2 DEF Ahead, Failed, Set
    <2>4. ReaderTypes'
        BY <1>2, <2>1, <2>2, TypesSame DEF Failed
    <2>5. ReaderShape'
        BY <1>2, <2>1, <2>2 DEF ReaderShape, Failed, Set, Flags
    <2>. QED
        BY <2>2, <2>3, <2>4, <2>5
<1>4. ASSUME NEW n \in 1 .. Least(BuffLen, Len(inbox)),
             GoesOn([in EXCEPT !.rd = SubSeq(inbox, 1, n)]), inbox' = Drop(inbox, n)
      PROVE  HasRead /\ Ahead' = Ahead /\ ReaderTypes' /\ ReaderShape'
    <2>. DEFINE x == SubSeq(inbox, 1, n)
                y == Drop(inbox, n)
    <2>1. n \in 0 .. Len(inbox)
        <3>1. Least(BuffLen, Len(inbox)) \in Nat /\ Least(BuffLen, Len(inbox)) <= Len(inbox)
            BY <1>1, LeastIs, FcgxStreamAssumption
        <3>. QED
            BY <1>1, <3>1
    <2>2. x \in Seq(Octets(Known)) /\ y \in Seq(Octets(Known)) /\ inbox = x \o y
        BY <1>1, <2>1, DropIs
    <2>3. in' = [in EXCEPT !.rd = x] /\ UNCHANGED filling /\ inbox' = y
        BY <1>4 DEF GoesOn
    <2>8. Len(x) \in Nat
        BY <2>2, LenProperties
    <2>. HIDE DEF x, y
    <2>4. HasRead /\ in'.rd = x
        BY <1>1, <2>2, <2>3 DEF ReaderState, HasRead, Set, Flags
    <2>5. Ahead' = Ahead
        <3>1. Ahead = in.hdr \o (<<>> \o inbox)
            BY <1>2 DEF Ahead
        <3>2. <<>> \o inbox = inbox
            BY <1>1, ConcatEmptySeq
        <3>3. Ahead' = in.hdr \o (x \o y)
            BY <2>3, <2>4 DEF Ahead, HasRead, Set
        <3>. QED
            BY <2>2, <3>1, <3>2, <3>3
    <2>6. ReaderTypes'
        <3>1. Known' = Known
            BY KnownSame
        <3>. QED
            BY <1>2, <2>2, <2>3, <2>4, <3>1 DEF ReaderTypes, HasRead, IsRequestState
    <2>7. ReaderShape'
        BY <1>2, <2>3, <2>4, <2>8 DEF ReaderShape, HasRead, Set, Flags
    <2>. QED
        BY <2>4, <2>5, <2>6, <2>7
<1>. QED
    BY <1>3, <1>4 DEF OS_Read
-----------------------------------------------------------------------------
(* The other steps, as they leave the reader. *)
Becomes(rd, avail, hdr, contentLen, paddingLen, skip, eorStop, isClosed, error) ==
    /\ in' \in ReaderState(Known)
    /\ Set(in', in.type, rd, avail, hdr, contentLen, paddingLen)
    /\ Flags(in', skip, eorStop, isClosed, error)

RestSame == UNCHANGED <<inbox, nested, taken, request>>

LEMMA CountIs ==
    ASSUME ReaderTypes, ReaderShape, HasContent
    PROVE  /\ Count \in 0 .. in.contentLen /\ Count \in 0 .. Len(in.rd)
           /\ in.contentLen - Count \in Nat
           /\ in.hdr = <<>> /\ in.avail = 0 /\ ~in.isClosed /\ filling = TRUE
           /\ in.contentLen \in Nat /\ in.contentLen > 0 /\ Len(in.rd) \in Nat
<1>1. in.contentLen \in Nat /\ Len(in.rd) \in Nat
    BY ReaderIs DEF Counted
<1>2. Count \in Nat /\ Count <= in.contentLen /\ Count <= Len(in.rd)
    BY <1>1, LeastIs DEF Count
<1>. QED
    BY <1>1, <1>2 DEF HasContent, ReaderShape, ReaderTypes

LEMMA DeliverIs ==
    ASSUME ReaderTypes, ReaderShape, UNCHANGED script, Deliver
    PROVE  /\ Becomes(in.rd, Count, in.hdr, in.contentLen - Count, in.paddingLen,
                      in.skip, in.eorStop, in.isClosed, in.error)
           /\ HasContent /\ ~in.skip /\ filling' = FALSE /\ RestSame
           /\ Ahead' = Ahead /\ ReaderTypes' /\ ReaderShape'
<1>. DEFINE c == Count
            d == in.contentLen - c
<1>1. in \in ReaderState(Known)
    BY DEF ReaderTypes
<1>2. HasContent /\ ~in.skip /\ filling' = FALSE /\ RestSame
      /\ in' = [in EXCEPT !.avail = c, !.contentLen = d]
    BY <1>1 DEF Deliver, Returns, Local, RestSame, ReaderState
<1>3. /\ c \in Nat /\ c <= Len(in.rd) /\ d \in Nat
      /\ in.hdr = <<>> /\ ~in.isClosed
    BY <1>2, CountIs
<1>. HIDE DEF c, d
<1>4. Becomes(in.rd, c, in.hdr, d, in.paddingLen, in.skip, in.eorStop, in.isClosed, in.error)
    BY <1>1, <1>2, <1>3 DEF ReaderState, Becomes, Set, Flags
<1>5. Ahead' = Ahead
    BY <1>2, <1>4 DEF Ahead, Becomes, Set, RestSame
<1>6. ReaderTypes'
    BY <1>2, <1>4, TypesSame DEF Becomes, RestSame
<1>7. ReaderShape'
    BY <1>2, <1>3, <1>4 DEF ReaderShape, Becomes, Set, Flags, RestSame
<1>. QED
    BY <1>2, <1>4, <1>5, <1>6, <1>7 DEF c, d

LEMMA SkipContentIs ==
    ASSUME ReaderTypes, ReaderShape, UNCHANGED script, SkipContent
    PROVE  /\ Becomes(Drop(in.rd, Count), in.avail, in.hdr, in.contentLen - Count, in.paddingLen,
                      in.contentLen > Count, in.eorStop, in.isClosed, in.error)
           /\ HasContent /\ in.skip /\ UNCHANGED filling /\ RestSame
           /\ ReaderTypes' /\ ReaderShape'
<1>. DEFINE c == Count
            d == in.contentLen - c
            x == Drop(in.rd, c)
            b == in.contentLen > c
<1>1. in \in ReaderState(Known)
    BY DEF ReaderTypes
<1>2. HasContent /\ in.skip /\ UNCHANGED filling /\ RestSame
      /\ in' = [in EXCEPT !.rd = x, !.contentLen = d, !.skip = b]
    BY <1>1 DEF SkipContent, GoesOn, Local, RestSame, ReaderState
<1>3. /\ c \in 0 .. Len(in.rd) /\ d \in Nat
      /\ in.hdr = <<>> /\ ~in.isClosed /\ in.avail = 0 /\ filling
    BY <1>2, CountIs
<1>4. x \in Seq(Octets(Known)) /\ b \in BOOLEAN
    <2>1. in.rd \in Seq(Octets(Known))
        BY ReaderIs
    <2>. QED
        BY <1>3, <2>1, DropIs
<1>8. Len(x) \in Nat
    BY <1>4, LenProperties
<1>. HIDE DEF c, d, x, b
<1>5. Becomes(x, in.avail, in.hdr, d, in.paddingLen, b, in.eorStop, in.isClosed, in.error)
    BY <1>1, <1>2, <1>3, <1>4 DEF ReaderState, Becomes, Set, Flags
<1>6. ReaderTypes'
    BY <1>2, <1>5, TypesSame DEF Becomes, RestSame, ReaderTypes
<1>7. ReaderShape'
    BY <1>2, <1>3, <1>5, <1>8 DEF ReaderShape, Becomes, Set, Flags, RestSame
<1>. QED
    BY <1>2, <1>5, <1>6, <1>7 DEF c, d, x, b

PaddingBytes == Least(in.paddingLen, Len(in.rd))

(* At the end of the padding of a record that is read through the stream,  *)
(* the stream ends.                                                        *)
LEMMA SkipPaddingIs ==
    ASSUME ReaderTypes, ReaderShape, UNCHANGED script, SkipPadding
    PROVE  /\ PaddingBytes \in 0 .. in.paddingLen /\ PaddingBytes \in 0 .. Len(in.rd)
           /\ \/ /\ Becomes(Drop(in.rd, PaddingBytes), 0, in.hdr, in.contentLen,
                            in.paddingLen - PaddingBytes, in.skip, in.eorStop, TRUE, in.error)
                 /\ in.eorStop /\ filling' = FALSE
              \/ /\ Becomes(Drop(in.rd, PaddingBytes), 0, in.hdr, in.contentLen,
                            in.paddingLen - PaddingBytes, in.skip, in.eorStop, FALSE, in.error)
                 /\ UNCHANGED filling
           /\ filling /\ in.contentLen = 0 /\ in.avail = 0 /\ in.hdr = <<>> /\ ~in.isClosed
           /\ in.paddingLen > 0 /\ RestSame
           /\ ReaderTypes' /\ ReaderShape'
<1>. DEFINE n == PaddingBytes
            d == in.paddingLen - n
            x == Drop(in.rd, n)
            s == [in EXCEPT !.rd = x, !.paddingLen = d]
<1>1. in \in ReaderState(Known) /\ in.paddingLen \in Nat /\ Len(in.rd) \in Nat
    BY ReaderIs DEF ReaderTypes, Counted
<1>2. n \in 0 .. in.paddingLen /\ n \in 0 .. Len(in.rd) /\ d \in Nat
    <2>1. n \in Nat /\ n <= in.paddingLen /\ n <= Len(in.rd)
        BY <1>1, LeastIs DEF PaddingBytes
    <2>. QED
        BY <1>1, <2>1
<1>3. /\ filling = TRUE /\ in.contentLen = 0 /\ in.avail = 0 /\ in.hdr = <<>> /\ in.isClosed = FALSE
      /\ in.paddingLen > 0 /\ RestSame
    <2>1. filling /\ in.contentLen = 0 /\ in.paddingLen > 0 /\ RestSame
        BY DEF SkipPadding, Local, RestSame
    <2>2. filling = TRUE /\ in.isClosed = FALSE
        BY <1>1, <2>1 DEF ReaderTypes, ReaderShape, ReaderState
    <2>. QED
        BY <2>1, <2>2 DEF ReaderShape
<1>4. x \in Seq(Octets(Known)) /\ Len(x) \in Nat
    <2>1. in.rd \in Seq(Octets(Known))
        BY ReaderIs
    <2>2. x \in Seq(Octets(Known))
        BY <1>2, <2>1, DropIs
    <2>. QED
        BY <2>2, LenProperties
<1>5. IF s.paddingLen = 0 /\ s.eorStop THEN Returns(EndOfStream(s)) ELSE GoesOn(s)
    BY DEF SkipPadding, PaddingBytes
<1>. HIDE DEF n, d, x
<1>6. /\ s \in ReaderState(Known)
      /\ Set(s, in.type, x, 0, in.hdr, 0, d)
      /\ Flags(s, in.skip, in.eorStop, FALSE, in.error)
    BY <1>1, <1>2, <1>3, <1>4 DEF ReaderState, Set, Flags
<1>. HIDE DEF s
<1>7. CASE s.paddingLen = 0 /\ s.eorStop
    <2>1. in' = EndOfStream(s) /\ filling' = FALSE
        BY <1>5, <1>7 DEF Returns
    <2>2. Becomes(x, 0, in.hdr, in.contentLen, d, in.skip, in.eorStop, TRUE, in.error) /\ in.eorStop
        BY <1>3, <1>6, <1>7, <2>1, EndOfStreamIs DEF Becomes, Set, Flags
    <2>3. ReaderTypes'
        BY <1>3, <2>1, <2>2, TypesSame DEF Becomes, RestSame, ReaderTypes
    <2>4. ReaderShape'
        <3>1. in'.avail = 0 /\ in'.rd = x /\ in'.hdr = <<>> /\ Len(in'.hdr) < HeaderLen
            BY <1>3, <2>2, FcgiRecordAssumption DEF Becomes, Set
        <3>3. in'.eorStop = in.eorStop
            BY <2>2 DEF Becomes, Flags
        <3>2. (nested = "body" => ~request.isBeginProcessed) /\ in.eorStop = (nested # "none")
            BY DEF ReaderShape
        <3>. QED
            BY <1>3, <1>4, <2>1, <3>1, <3>2, <3>3 DEF ReaderShape, RestSame
    <2>. QED
        BY <1>2, <1>3, <2>1, <2>2, <2>3, <2>4 DEF n, d, x
<1>8. CASE ~(s.paddingLen = 0 /\ s.eorStop)
    <2>1. in' = s /\ filling' = filling
        BY <1>5, <1>8 DEF GoesOn
    <2>2. Becomes(x, 0, in.hdr, in.contentLen, d, in.skip, in.eorStop, FALSE, in.error)
        BY <1>3, <1>6, <2>1 DEF Becomes, Set, Flags
    <2>3. ReaderTypes'
        BY <1>3, <2>1, <2>2, TypesSame DEF Becomes, RestSame, ReaderTypes
    <2>4. ReaderShape'
        BY <1>3, <1>4, <2>1, <2>2 DEF ReaderShape, Becomes, Set, Flags, RestSame
    <2>. QED
        BY <1>2, <1>3, <2>1, <2>2, <2>3, <2>4 DEF n, d, x
<1>. QED
    BY <1>7, <1>8

LEMMA EndOfRecordIs ==
    ASSUME ReaderTypes, ReaderShape, UNCHANGED script, EndOfRecord
    PROVE  /\ Becomes(in.rd, 0, in.hdr, 0, 0, in.skip, in.eorStop, TRUE, in.error)
           /\ filling /\ in.contentLen = 0 /\ in.paddingLen = 0 /\ in.avail = 0 /\ in.eorStop
           /\ filling' = FALSE /\ RestSame
           /\ Ahead' = Ahead /\ ReaderTypes' /\ ReaderShape'
<1>1. in \in ReaderState(Known)
    BY DEF ReaderTypes
<1>2. /\ filling /\ in.contentLen = 0 /\ in.paddingLen = 0 /\ in.avail = 0 /\ in.eorStop
      /\ in' = EndOfStream(in) /\ filling' = FALSE /\ RestSame
    BY DEF EndOfRecord, RecordDone, Returns, Local, RestSame, ReaderShape
<1>3. Becomes(in.rd, 0, in.hdr, 0, 0, in.skip, in.eorStop, TRUE, in.error)
    BY <1>1, <1>2, EndOfStreamIs DEF Becomes, Set, Flags
<1>4. Ahead' = Ahead
    BY <1>2, <1>3 DEF Ahead, Becomes, Set, RestSame
<1>5. ReaderTypes'
    BY <1>2, <1>3, TypesSame DEF Becomes, RestSame
<1>6. ReaderShape'
    BY <1>2, <1>3 DEF ReaderShape, Becomes, Set, Flags, RestSame
<1>. QED
    BY <1>2, <1>3, <1>4, <1>5, <1>6
-----------------------------------------------------------------------------
(* The header. *)
LEMMA PartOfHeaderIs ==
    ASSUME ReaderTypes, ReaderShape, UNCHANGED script, RecordDone, Len(Header) # HeaderLen,
           GoesOn([in EXCEPT !.rd = <<>>, !.hdr = Header]), Local
    PROVE  /\ Becomes(<<>>, 0, Header, 0, 0, in.skip, in.eorStop, in.isClosed, in.error)
           /\ filling /\ in.contentLen = 0 /\ in.paddingLen = 0 /\ in.avail = 0 /\ ~in.isClosed
           /\ UNCHANGED filling /\ RestSame /\ Len(Header) < HeaderLen
           /\ Ahead' = Ahead /\ ReaderTypes' /\ ReaderShape'
<1>. DEFINE h == Header
            S == Octets(Known)
<1>1. in \in ReaderState(Known) /\ inbox \in Seq(S) /\ in.rd \in Seq(S) /\ in.hdr \in Seq(S)
    BY ReaderIs DEF ReaderTypes
<1>2. h \in Seq(S) /\ Len(h) < HeaderLen /\ Len(h) \in Nat /\ HeaderBytes = Len(in.rd)
    <2>1. h \in Seq(S) /\ Len(h) <= HeaderLen /\ HeaderBytes = Len(in.rd)
        BY HeaderIs
    <2>2. Len(h) \in Nat
        BY <2>1, LenProperties
    <2>. QED
        BY <2>1, <2>2, FcgiRecordAssumption
<1>3. /\ filling = TRUE /\ in.contentLen = 0 /\ in.paddingLen = 0 /\ in.avail = 0
      /\ in.isClosed = FALSE
    <2>1. filling /\ in.contentLen = 0 /\ in.paddingLen = 0
        BY DEF RecordDone
    <2>2. filling = TRUE /\ in.isClosed = FALSE
        BY <1>1, <2>1 DEF ReaderTypes, ReaderShape, ReaderState
    <2>. QED
        BY <2>1, <2>2 DEF ReaderShape
<1>4. in' = [in EXCEPT !.rd = <<>>, !.hdr = h] /\ UNCHANGED filling /\ RestSame
    BY DEF GoesOn, Local, RestSame
<1>5. Header = in.hdr \o in.rd
    <2>1. SubSeq(in.rd, 1, HeaderBytes) = in.rd
        BY <1>1, <1>2, SubSeqFull
    <2>. QED
        BY <2>1 DEF Header
<1>. HIDE DEF h
<1>6. Becomes(<<>>, 0, h, 0, 0, in.skip, in.eorStop, in.isClosed, in.error)
    <2>. DEFINE e == <<>>
    <2>1. e \in Seq(Octets(Known)) /\ h \in Seq(Octets(Known)) /\ in' = [in EXCEPT !.rd = e, !.hdr = h]
        BY <1>2, <1>4 DEF S
    <2>. HIDE DEF e
    <2>2. Becomes(e, in.avail, h, in.contentLen, in.paddingLen, in.skip, in.eorStop, in.isClosed, in.error)
        BY <1>1, <2>1 DEF ReaderState, Becomes, Set, Flags
    <2>. QED
        BY <1>3, <2>2 DEF e
<1>7. Ahead' = Ahead
    <2>1. Ahead' = h \o (<<>> \o inbox)
        BY <1>4, <1>6 DEF Ahead, Becomes, Set, RestSame
    <2>2. <<>> \o inbox = inbox
        BY <1>1, ConcatEmptySeq
    <2>3. Associates(S)
        BY Associative
    <2>4. (in.hdr \o in.rd) \o inbox = in.hdr \o (in.rd \o inbox)
        <3>. DEFINE a == in.hdr
                    b == in.rd
        <3>1. a \in Seq(S)
            BY <1>1
        <3>2. b \in Seq(S)
            BY <1>1
        <3>3. inbox \in Seq(S)
            BY <1>1
        <3>. HIDE DEF a, b, S
        <3>4. (a \o b) \o inbox = a \o (b \o inbox)
            BY <2>3, <3>1, <3>2, <3>3, Zenon DEF Associates
        <3>. QED
            BY <3>4 DEF a, b
    <2>. QED
        BY <1>5, <2>1, <2>2, <2>4 DEF Ahead, h
<1>8. ReaderTypes'
    BY <1>4, <1>6, TypesSame DEF Becomes, RestSame, ReaderTypes
<1>9. ReaderShape'
    <2>1. in'.avail = 0 /\ in'.rd = <<>> /\ in'.hdr = h /\ in'.contentLen = 0 /\ in'.paddingLen = 0
        BY <1>6 DEF Becomes, Set
    <2>2. in'.isClosed = in.isClosed /\ in'.eorStop = in.eorStop
        BY <1>6 DEF Becomes, Flags
    <2>3. Len(<<>>) = 0 /\ 0 <= 0
        OBVIOUS
    <2>4. (nested = "body" => ~request.isBeginProcessed) /\ in.eorStop = (nested # "none")
        BY DEF ReaderShape
    <2>. QED
        BY <1>2, <1>3, <1>4, <2>1, <2>2, <2>3, <2>4 DEF ReaderShape, RestSame
<1>. QED
    BY <1>2, <1>3, <1>4, <1>6, <1>7, <1>8, <1>9 DEF h

LEMMA HeaderAhead ==
    ASSUME ReaderTypes, ReaderShape, NEW w \in Seq(Octets(Known)), NEW q \in 0 .. Len(w),
           NEW p \in 0 .. q, Ahead = Part(w, p, q), Len(Header) = HeaderLen
    PROVE  /\ p + HeaderLen \in p .. q /\ Header = Part(w, p, p + HeaderLen)
           /\ Drop(in.rd, HeaderBytes) \in Seq(Octets(Known))
           /\ Drop(in.rd, HeaderBytes) \o inbox = Part(w, p + HeaderLen, q)
<1>. DEFINE S == Octets(Known)
            n == HeaderBytes
            h == in.hdr
            rd == in.rd
<1>1. /\ inbox \in Seq(S) /\ rd \in Seq(S) /\ h \in Seq(S) /\ w \in Seq(S)
      /\ n \in 0 .. Len(rd) /\ Len(h) + n = HeaderLen /\ Len(h) \in Nat /\ Len(rd) \in Nat
    BY ReaderIs, HeaderIs DEF ReaderTypes
<1>2. IsAhead(h, rd, inbox, w, p, q)
    BY DEF Ahead, IsAhead
<1>3. Header = h \o SubSeq(rd, 1, n)
    BY DEF Header
<1>. HIDE DEF S, n, h, rd
<1>4. SplitsAt(S, w, p, q, h, rd, inbox, n)
    BY <1>1, <1>2, AheadSplits
<1>5. p + Len(h) + n = p + HeaderLen
    <2>1. p \in Nat /\ n \in Nat
        BY <1>1
    <2>. QED
        BY <1>1, <2>1
<1>. QED
    BY <1>3, <1>4, <1>5 DEF SplitsAt, S, n, rd

(* Whatever is made of it, the header has been read. *)
LEMMA AheadHeaded ==
    ASSUME ReaderTypes, ReaderShape, NEW w \in Seq(Octets(Known)), NEW q \in 0 .. Len(w),
           NEW p \in 0 .. q, Ahead = Part(w, p, q), Len(Header) = HeaderLen,
           in'.rd = Drop(in.rd, HeaderBytes), in'.hdr = <<>>, UNCHANGED inbox
    PROVE  p + HeaderLen \in p .. q /\ Ahead' = Part(w, p + HeaderLen, q)
<1>. DEFINE y == Drop(in.rd, HeaderBytes)
<1>1. /\ p + HeaderLen \in p .. q /\ y \o inbox = Part(w, p + HeaderLen, q)
      /\ y \in Seq(Octets(Known)) /\ inbox \in Seq(Octets(Known))
    BY HeaderAhead DEF ReaderTypes
<1>2. Ahead' = <<>> \o (y \o inbox)
    BY DEF Ahead
<1>. HIDE DEF y
<1>3. y \o inbox \in Seq(Octets(Known))
    BY <1>1, ConcatProperties
<1>. QED
    BY <1>1, <1>2, <1>3, ConcatEmptySeq

(* What ProcessHeader makes of it: it fails, passes the record over, reads *)
(* the record through the stream, leaves a management record where it is,  *)
(* or comes to the end or to content of the stream.                        *)
Behind(r, skip, eorStop, isClosed, error) ==
    Becomes(Drop(in.rd, HeaderBytes), 0, <<>>, r.len, r.pad, skip, eorStop, isClosed, error)

HeaderFails ==
    /\ \E c, d \in Nat : Becomes(Drop(in.rd, HeaderBytes), 0, <<>>, c, d, in.skip, in.eorStop, TRUE, TRUE)
    /\ filling' = FALSE /\ RestSame

HeaderSkips(r) ==
    /\ IF r.type = "BEGIN_REQUEST" THEN r.id # 0 /\ r.len = BodyLen /\ request.isBeginProcessed
       ELSE r.id # 0 /\ r.id # request.requestId
    /\ Behind(r, TRUE, in.eorStop, in.isClosed, in.error)
    /\ UNCHANGED filling /\ RestSame

HeaderBegins(r) ==
    /\ BeginsRequest(r) /\ ~request.isBeginProcessed
    /\ Behind(r, in.skip, TRUE, in.isClosed, in.error)
    /\ nested' = "body" /\ taken' = <<>> /\ request' = [request EXCEPT !.requestId = r.id]
    /\ UNCHANGED <<inbox, filling>>

HeaderValues(r) ==
    /\ r.id = 0 /\ r.type # "BEGIN_REQUEST"
    /\ Behind(r, in.skip, TRUE, in.isClosed, in.error)
    /\ nested' = "values" /\ taken' = <<>> /\ UNCHANGED <<inbox, request, filling>>

HeaderUnknown(r) ==
    /\ r.id = 0 /\ r.type \notin {"BEGIN_REQUEST", "GET_VALUES"}
    /\ Behind(r, in.skip, in.eorStop, in.isClosed, in.error)
    /\ UNCHANGED filling /\ RestSame

IsOfStream(r) == r.id # 0 /\ r.id = request.requestId /\ r.type # "BEGIN_REQUEST" /\ r.type = in.type

HeaderEnds(r) ==
    /\ IsOfStream(r) /\ r.len = 0
    /\ Behind(r, in.skip, in.eorStop, TRUE, in.error)
    /\ filling' = FALSE /\ RestSame

HeaderContent(r) ==
    /\ IsOfStream(r) /\ r.len # 0
    /\ Behind(r, in.skip, in.eorStop, in.isClosed, in.error)
    /\ UNCHANGED filling /\ RestSame

HeaderStep(r) ==
    \/ HeaderFails
    \/ /\ IsHeader(Header)
       /\ \/ HeaderSkips(r) \/ HeaderBegins(r) \/ HeaderValues(r) \/ HeaderUnknown(r)
          \/ HeaderEnds(r) \/ HeaderContent(r)

LEMMA FailsIs ==
    ASSUME ReaderTypes, ReaderShape, NEW r \in Known, in.avail = 0,
           NEW z, z \in {Parsed(r), HeaderRead}, Returns(SetError(z)), RestSame
    PROVE  HeaderFails
<1>1. in' = SetError(z) /\ filling' = FALSE
    BY DEF Returns
<1>2. CASE z = Parsed(r)
    <2>1. r.len \in Nat /\ r.pad \in Nat
        BY SizeType DEF ReaderTypes
    <2>2. Headed(SetError(Parsed(r)), in.skip, in.eorStop, TRUE, TRUE, r)
        BY ParsedIs
    <2>3. Becomes(Drop(in.rd, HeaderBytes), 0, <<>>, r.len, r.pad, in.skip, in.eorStop, TRUE, TRUE)
        BY <1>1, <1>2, <2>2 DEF Headed, Becomes
    <2>. QED
        BY <1>1, <2>1, <2>3 DEF HeaderFails
<1>3. CASE z = HeaderRead
    <2>0. in.contentLen \in Nat /\ in.paddingLen \in Nat
        BY ReaderIs DEF Counted
    <2>1. /\ z \in ReaderState(Known)
          /\ Set(z, in.type, Drop(in.rd, HeaderBytes), in.avail, <<>>, in.contentLen, in.paddingLen)
          /\ Flags(z, in.skip, in.eorStop, in.isClosed, in.error)
        BY <1>3, HeaderReadIs
    <2>2. /\ SetError(z) \in ReaderState(Known)
          /\ Set(SetError(z), z.type, z.rd, z.avail, z.hdr, z.contentLen, z.paddingLen)
          /\ Flags(SetError(z), z.skip, z.eorStop, TRUE, TRUE)
        BY <2>1, SetErrorIs
    <2>3. Becomes(Drop(in.rd, HeaderBytes), 0, <<>>, in.contentLen, in.paddingLen,
                  in.skip, in.eorStop, TRUE, TRUE)
        BY <1>1, <2>1, <2>2 DEF Becomes, Set, Flags
    <2>. QED
        BY <1>1, <2>0, <2>3 DEF HeaderFails
<1>. QED
    BY <1>2, <1>3

LEMMA HeaderStepIs ==
    ASSUME ReaderTypes, ReaderShape, RecordDone, Len(Header) = HeaderLen, ProcessHeader(Header)
    PROVE  HeaderStep(Record(Header))
<1>. DEFINE r == Record(Header)
<1>1. r \in Known
    BY HeaderIs
<1>2. in.avail = 0 /\ filling
    BY DEF RecordDone, ReaderShape
<1>3. /\ Headed(Parsed(r), in.skip, in.eorStop, in.isClosed, in.error, r)
      /\ Headed(Skipped(r), TRUE, in.eorStop, in.isClosed, in.error, r)
      /\ Headed([Parsed(r) EXCEPT !.eorStop = TRUE], in.skip, TRUE, in.isClosed, in.error, r)
      /\ Headed(EndOfStream(Parsed(r)), in.skip, in.eorStop, TRUE, in.error, r)
    BY <1>1, <1>2, ParsedIs
<1>4. ASSUME NEW z, in' = z, NEW a, NEW b, NEW c, NEW d, Headed(z, a, b, c, d, r)
      PROVE  Behind(r, a, b, c, d)
    BY <1>2, <1>4 DEF Headed, Behind, Becomes
<1>5. /\ ~IsHeader(Header) => BadVersion
      /\ IsHeader(Header) =>
            IF r.type = "BEGIN_REQUEST" THEN BeginRecord(r)
            ELSE IF r.id = 0 THEN ManagementRecord(r)
            ELSE IF r.id # request.requestId THEN GoesOn(Skipped(r)) /\ Local
            ELSE StreamRecord(r)
    BY DEF ProcessHeader
<1>. HIDE DEF r
<1>6. Local => RestSame
    BY DEF Local, RestSame
<1>7. CASE ~IsHeader(Header)
    <2>1. Returns(SetError(HeaderRead)) /\ RestSame
        BY <1>5, <1>6, <1>7 DEF BadVersion
    <2>2. HeaderFails
        BY <1>1, <1>2, <2>1, FailsIs
    <2>. QED
        BY <2>2 DEF HeaderStep
<1>8. CASE IsHeader(Header) /\ r.type = "BEGIN_REQUEST"
    <2>0. BeginRecord(r)
        BY <1>5, <1>8
    <2>1. CASE Returns(SetError(Parsed(r))) /\ Local
        BY <1>1, <1>2, <1>6, <2>1, FailsIs DEF HeaderStep
    <2>2. CASE /\ r.id # 0 /\ r.len = BodyLen /\ request.isBeginProcessed
               /\ Answer(EndRequest(r.id, "CANT_MPX_CONN"), Parsed(r), GoesOn(Skipped(r)))
               /\ UNCHANGED <<nested, taken>>
        <3>0. RestSame
            BY <2>2 DEF Answer, RestSame
        <3>1. CASE GoesOn(Skipped(r))
            <4>1. in' = Skipped(r) /\ UNCHANGED filling
                BY <3>1 DEF GoesOn
            <4>2. Behind(r, TRUE, in.eorStop, in.isClosed, in.error)
                BY <1>3, <1>4, <4>1
            <4>3. HeaderSkips(r)
                BY <1>8, <2>2, <3>0, <4>1, <4>2 DEF HeaderSkips
            <4>. QED
                BY <1>8, <4>3 DEF HeaderStep, r
        <3>2. CASE Returns(SetError(Parsed(r)))
            BY <1>1, <1>2, <3>0, <3>2, FailsIs DEF HeaderStep
        <3>. QED
            BY <2>2, <3>1, <3>2 DEF Answer
    <2>3. CASE /\ r.id # 0 /\ r.len = BodyLen /\ ~request.isBeginProcessed
               /\ request' = [request EXCEPT !.requestId = r.id]
               /\ GoesOn([Parsed(r) EXCEPT !.eorStop = TRUE])
               /\ nested' = "body" /\ taken' = <<>>
               /\ UNCHANGED <<inbox, open, outbox>>
        <3>1. in' = [Parsed(r) EXCEPT !.eorStop = TRUE] /\ UNCHANGED filling
            BY <2>3 DEF GoesOn
        <3>2. Behind(r, in.skip, TRUE, in.isClosed, in.error)
            BY <1>3, <1>4, <3>1
        <3>3. HeaderBegins(r)
            BY <1>8, <2>3, <3>1, <3>2 DEF HeaderBegins, BeginsRequest
        <3>. QED
            BY <1>8, <3>3 DEF HeaderStep, r
    <2>. QED
        BY <2>0, <2>1, <2>2, <2>3 DEF BeginRecord
<1>9. CASE IsHeader(Header) /\ r.type # "BEGIN_REQUEST" /\ r.id = 0
    <2>0. ManagementRecord(r)
        BY <1>5, <1>9
    <2>1. CASE /\ GoesOn([Parsed(r) EXCEPT !.eorStop = TRUE])
               /\ nested' = "values" /\ taken' = <<>>
               /\ UNCHANGED <<inbox, open, outbox, request>>
        <3>1. in' = [Parsed(r) EXCEPT !.eorStop = TRUE] /\ UNCHANGED filling
            BY <2>1 DEF GoesOn
        <3>2. Behind(r, in.skip, TRUE, in.isClosed, in.error)
            BY <1>3, <1>4, <3>1
        <3>3. HeaderValues(r)
            BY <1>9, <2>1, <3>1, <3>2 DEF HeaderValues
        <3>. QED
            BY <1>9, <3>3 DEF HeaderStep, r
    <2>2. CASE /\ r.type # "GET_VALUES"
               /\ Answer(MakeHeader("UNKNOWN_TYPE", 0, BodyLen, 0), Parsed(r), GoesOn(Parsed(r)))
               /\ UNCHANGED <<nested, taken>>
        <3>0. RestSame
            BY <2>2 DEF Answer, RestSame
        <3>1. CASE GoesOn(Parsed(r))
            <4>1. in' = Parsed(r) /\ UNCHANGED filling
                BY <3>1 DEF GoesOn
            <4>2. Behind(r, in.skip, in.eorStop, in.isClosed, in.error)
                BY <1>3, <1>4, <4>1
            <4>3. HeaderUnknown(r)
                BY <1>9, <2>2, <3>0, <4>1, <4>2 DEF HeaderUnknown
            <4>. QED
                BY <1>9, <4>3 DEF HeaderStep, r
        <3>2. CASE Returns(SetError(Parsed(r)))
            BY <1>1, <1>2, <3>0, <3>2, FailsIs DEF HeaderStep
        <3>. QED
            BY <2>2, <3>1, <3>2 DEF Answer
    <2>. QED
        BY <2>0, <2>1, <2>2 DEF ManagementRecord
<1>10. CASE IsHeader(Header) /\ r.type # "BEGIN_REQUEST" /\ r.id # 0 /\ r.id # request.requestId
    <2>1. in' = Skipped(r) /\ UNCHANGED filling /\ RestSame
        BY <1>5, <1>6, <1>10 DEF GoesOn
    <2>2. Behind(r, TRUE, in.eorStop, in.isClosed, in.error)
        BY <1>3, <1>4, <2>1
    <2>3. HeaderSkips(r)
        BY <1>10, <2>1, <2>2 DEF HeaderSkips
    <2>. QED
        BY <1>10, <2>3 DEF HeaderStep, r
<1>11. CASE IsHeader(Header) /\ r.type # "BEGIN_REQUEST" /\ r.id # 0 /\ r.id = request.requestId
    <2>0. /\ RestSame
          /\ IF r.type # in.type THEN Returns(SetError(Parsed(r)))
             ELSE IF r.len = 0 THEN Returns(EndOfStream(Parsed(r)))
             ELSE GoesOn(Parsed(r))
        BY <1>5, <1>6, <1>11 DEF StreamRecord
    <2>1. CASE r.type # in.type
        BY <1>1, <1>2, <2>0, <2>1, FailsIs DEF HeaderStep
    <2>2. CASE r.type = in.type /\ r.len = 0
        <3>1. in' = EndOfStream(Parsed(r)) /\ filling' = FALSE
            BY <2>0, <2>2 DEF Returns
        <3>2. Behind(r, in.skip, in.eorStop, TRUE, in.error)
            BY <1>3, <1>4, <3>1
        <3>3. HeaderEnds(r)
            BY <1>11, <2>0, <2>2, <3>1, <3>2 DEF HeaderEnds, IsOfStream
        <3>. QED
            BY <1>11, <3>3 DEF HeaderStep, r
    <2>3. CASE r.type = in.type /\ r.len # 0
        <3>1. in' = Parsed(r) /\ UNCHANGED filling
            BY <2>0, <2>3 DEF GoesOn
        <3>2. Behind(r, in.skip, in.eorStop, in.isClosed, in.error)
            BY <1>3, <1>4, <3>1
        <3>3. HeaderContent(r)
            BY <1>11, <2>0, <2>3, <3>1, <3>2 DEF HeaderContent, IsOfStream
        <3>. QED
            BY <1>11, <3>3 DEF HeaderStep, r
    <2>. QED
        BY <2>1, <2>2, <2>3
<1>. QED
    BY <1>7, <1>8, <1>9, <1>10, <1>11

LEMMA ShapeBehind ==
    ASSUME ReaderTypes, ReaderShape, in'.avail = 0, in'.hdr = <<>>,
           in'.rd = Drop(in.rd, HeaderBytes), filling' => ~in'.isClosed,
           in'.eorStop = (nested' # "none"), nested' = "body" => ~request'.isBeginProcessed
    PROVE  ReaderShape'
<1>1. Len(in'.rd) \in Nat
    <2>1. in.rd \in Seq(Octets(Known)) /\ HeaderBytes \in 0 .. Len(in.rd)
        BY ReaderIs, HeaderIs
    <2>2. Drop(in.rd, HeaderBytes) \in Seq(Octets(Known))
        BY <2>1, DropIs
    <2>. QED
        BY <2>2, LenProperties
<1>2. Len(in'.hdr) < HeaderLen
    BY FcgiRecordAssumption
<1>. QED
    BY <1>1, <1>2 DEF ReaderShape

HeaderMoved ==
    /\ ReaderTypes' /\ ReaderShape' /\ in'.type = in.type
    /\ in'.rd = Drop(in.rd, HeaderBytes) /\ in'.hdr = <<>> /\ UNCHANGED inbox

LEMMA HeaderMoves ==
    ASSUME ReaderTypes, ReaderShape, UNCHANGED script, RecordDone, ~in.eorStop,
           Len(Header) = HeaderLen, HeaderStep(Record(Header))
    PROVE  HeaderMoved
<1>. DEFINE r == Record(Header)
            x == Drop(in.rd, HeaderBytes)
<1>0. Known' = Known
    BY KnownSame
<1>1. /\ in.eorStop = FALSE /\ nested = "none" /\ filling = TRUE /\ in.isClosed = FALSE
      /\ IsRequestState(request)
    <2>1. in.eorStop = (nested # "none") /\ (filling => ~in.isClosed) /\ filling
        BY DEF ReaderShape, RecordDone
    <2>2. {in.eorStop, in.isClosed, filling} \subseteq BOOLEAN
        BY ReaderIs DEF ReaderTypes
    <2>. QED
        BY <2>1, <2>2 DEF ReaderTypes
<1>. HIDE DEF r, x
<1>2. ASSUME NEW c, NEW d, NEW s, NEW e, NEW f, NEW g, Becomes(x, 0, <<>>, c, d, s, e, f, g)
      PROVE  /\ in' \in ReaderState(Known) /\ in'.type = in.type
             /\ in'.rd = x /\ in'.hdr = <<>> /\ in'.avail = 0
             /\ in'.eorStop = e /\ in'.isClosed = f
    BY <1>2 DEF Becomes, Set, Flags
<1>3. ASSUME in' \in ReaderState(Known), in'.type = in.type,
             in'.rd = x, in'.hdr = <<>>, in'.avail = 0, UNCHANGED inbox,
             filling' \in BOOLEAN, filling' => ~in'.isClosed,
             nested' \in {"none", "body", "values"}, in'.eorStop = (nested' # "none"),
             taken' \in Seq(Octets(Known)), IsRequestState(request'),
             nested' = "body" => ~request'.isBeginProcessed
      PROVE  HeaderMoved
    <2>1. ReaderTypes'
        BY <1>0, <1>3 DEF ReaderTypes
    <2>2. ReaderShape'
        <3>1. in'.rd = Drop(in.rd, HeaderBytes)
            BY <1>3 DEF x
        <3>. QED
            BY <1>3, <3>1, ShapeBehind
    <2>. QED
        BY <1>3, <2>1, <2>2 DEF HeaderMoved, x
<1>4. ASSUME RestSame
      PROVE  /\ UNCHANGED inbox /\ nested' = "none" /\ taken' \in Seq(Octets(Known))
             /\ IsRequestState(request')
    BY <1>1, <1>4 DEF RestSame, ReaderTypes, IsRequestState
<1>5. CASE HeaderFails
    <2>1. PICK c, d \in Nat : Becomes(x, 0, <<>>, c, d, in.skip, in.eorStop, TRUE, TRUE)
        BY <1>5 DEF HeaderFails, x
    <2>2. in' \in ReaderState(Known) /\ in'.type = in.type /\ in'.rd = x /\ in'.hdr = <<>>
          /\ in'.avail = 0 /\ in'.eorStop = in.eorStop
        BY <1>2, <2>1
    <2>3. filling' = FALSE /\ RestSame
        BY <1>5 DEF HeaderFails
    <2>. QED
        BY <1>1, <1>3, <1>4, <2>2, <2>3
<1>6. ASSUME NEW s, Behind(r, s, in.eorStop, in.isClosed, in.error), UNCHANGED filling, RestSame
      PROVE  HeaderMoved
    <2>1. in' \in ReaderState(Known) /\ in'.type = in.type /\ in'.rd = x /\ in'.hdr = <<>>
          /\ in'.avail = 0 /\ in'.eorStop = in.eorStop /\ in'.isClosed = in.isClosed
        BY <1>2, <1>6 DEF Behind, x
    <2>. QED
        BY <1>1, <1>3, <1>4, <1>6, <2>1
<1>7. CASE HeaderSkips(r) \/ HeaderUnknown(r) \/ HeaderContent(r)
    BY <1>6, <1>7 DEF HeaderSkips, HeaderUnknown, HeaderContent
<1>8. CASE HeaderEnds(r)
    <2>1. in' \in ReaderState(Known) /\ in'.type = in.type /\ in'.rd = x /\ in'.hdr = <<>>
          /\ in'.avail = 0 /\ in'.eorStop = in.eorStop
        BY <1>2, <1>8 DEF HeaderEnds, Behind, x
    <2>2. filling' = FALSE /\ RestSame
        BY <1>8 DEF HeaderEnds
    <2>. QED
        BY <1>1, <1>3, <1>4, <2>1, <2>2
<1>9. CASE HeaderValues(r)
    <2>1. in' \in ReaderState(Known) /\ in'.type = in.type /\ in'.rd = x /\ in'.hdr = <<>>
          /\ in'.avail = 0 /\ in'.eorStop = TRUE /\ in'.isClosed = in.isClosed
        <3>. DEFINE t == TRUE
        <3>1. Becomes(x, 0, <<>>, r.len, r.pad, in.skip, t, in.isClosed, in.error)
            BY <1>9 DEF HeaderValues, Behind, x
        <3>. HIDE DEF t
        <3>2. in' \in ReaderState(Known) /\ in'.type = in.type /\ in'.rd = x /\ in'.hdr = <<>>
              /\ in'.avail = 0 /\ in'.eorStop = t /\ in'.isClosed = in.isClosed
            BY <1>2, <3>1
        <3>. QED
            BY <3>2 DEF t
    <2>2. nested' = "values" /\ taken' = <<>> /\ UNCHANGED <<inbox, request, filling>>
        BY <1>9 DEF HeaderValues
    <2>3. IsRequestState(request') /\ taken' \in Seq(Octets(Known))
        BY <1>1, <2>2
    <2>. QED
        BY <1>1, <1>3, <2>1, <2>2, <2>3
<1>10. CASE HeaderBegins(r)
    <2>1. in' \in ReaderState(Known) /\ in'.type = in.type /\ in'.rd = x /\ in'.hdr = <<>>
          /\ in'.avail = 0 /\ in'.eorStop = TRUE /\ in'.isClosed = in.isClosed
        <3>. DEFINE t == TRUE
        <3>1. Becomes(x, 0, <<>>, r.len, r.pad, in.skip, t, in.isClosed, in.error)
            BY <1>10 DEF HeaderBegins, Behind, x
        <3>. HIDE DEF t
        <3>2. in' \in ReaderState(Known) /\ in'.type = in.type /\ in'.rd = x /\ in'.hdr = <<>>
              /\ in'.avail = 0 /\ in'.eorStop = t /\ in'.isClosed = in.isClosed
            BY <1>2, <3>1
        <3>. QED
            BY <3>2 DEF t
    <2>2. /\ nested' = "body" /\ taken' = <<>> /\ UNCHANGED <<inbox, filling>>
          /\ request' = [request EXCEPT !.requestId = r.id] /\ ~request.isBeginProcessed
        BY <1>10 DEF HeaderBegins
    <2>3. IsRequestState(request') /\ taken' \in Seq(Octets(Known)) /\ ~request'.isBeginProcessed
        BY <1>1, <2>2 DEF IsRequestState
    <2>. QED
        BY <1>1, <1>3, <2>1, <2>2, <2>3
<1>11. HeaderStep(r)
    BY DEF r
<1>. QED
    BY <1>5, <1>7, <1>8, <1>9, <1>10, <1>11 DEF HeaderStep
-----------------------------------------------------------------------------
(* ProcessHeader reads a record through the stream, and returns. *)
LEMMA DropNone == ASSUME NEW S, NEW s \in Seq(S) PROVE Drop(s, 0) = s
<1>1. 0 + 1 = 1 /\ SubSeq(s, 1, Len(s)) = s
    BY SubSeqFull
<1>. QED
    BY <1>1 DEF Drop

LEMMA ReadNestedIs ==
    ASSUME ReaderTypes, ReaderShape, UNCHANGED script, ReadNested
    PROVE  /\ Becomes(Drop(in.rd, in.avail), 0, in.hdr, in.contentLen, in.paddingLen,
                      in.skip, in.eorStop, in.isClosed, in.error)
           /\ nested # "none" /\ ~in.isClosed
           /\ taken' = taken \o SubSeq(in.rd, 1, in.avail)
           /\ filling' = (nested = "values" \/ Len(taken') < BodyLen)
           /\ UNCHANGED <<inbox, nested, request>>
           /\ in.avail \in 0 .. Len(in.rd) /\ SubSeq(in.rd, 1, in.avail) \in Seq(Octets(Known))
           /\ ReaderTypes' /\ ReaderShape'
<1>. DEFINE a == in.avail
            x == Drop(in.rd, a)
            y == SubSeq(in.rd, 1, a)
            b == (nested = "values" \/ Len(taken') < BodyLen)
<1>1. /\ in \in ReaderState(Known) /\ in.rd \in Seq(Octets(Known)) /\ a \in 0 .. Len(in.rd)
      /\ a \in 0 .. a /\ taken \in Seq(Octets(Known)) /\ a - a = 0
    <2>1. a \in Nat /\ in.rd \in Seq(Octets(Known)) /\ Len(in.rd) \in Nat
        BY ReaderIs DEF Counted
    <2>2. a <= Len(in.rd)
        BY DEF ReaderShape
    <2>. HIDE DEF a
    <2>3. a \in 0 .. Len(in.rd) /\ a \in 0 .. a /\ a - a = 0
        BY <2>1, <2>2
    <2>. QED
        BY <2>1, <2>3 DEF ReaderTypes
<1>2. /\ nested # "none" /\ ~in.isClosed /\ in' = Take(in, a) /\ taken' = taken \o y
      /\ filling' = b /\ UNCHANGED <<inbox, nested, request>>
    BY DEF ReadNested
<1>3. x \in Seq(Octets(Known)) /\ y \in Seq(Octets(Known)) /\ Len(x) \in Nat
    <2>1. x \in Seq(Octets(Known)) /\ y \in Seq(Octets(Known))
        BY <1>1, DropIs
    <2>. QED
        BY <2>1, LenProperties
<1>4. Becomes(x, 0, in.hdr, in.contentLen, in.paddingLen, in.skip, in.eorStop, in.isClosed, in.error)
    <2>1. /\ Take(in, a) \in ReaderState(Known)
          /\ Set(Take(in, a), in.type, x, a - a, in.hdr, in.contentLen, in.paddingLen)
          /\ Flags(Take(in, a), in.skip, in.eorStop, in.isClosed, in.error)
        BY <1>1, TakeIs DEF ReaderShape
    <2>. QED
        BY <1>1, <1>2, <2>1 DEF Becomes
<1>. HIDE DEF a, x, y, b
<1>5. b \in BOOLEAN
    BY DEF b
<1>6. taken' \in Seq(Octets(Known))
    BY <1>1, <1>2, <1>3, ConcatProperties
<1>7. ReaderTypes'
    BY <1>2, <1>4, <1>5, <1>6, KnownSame DEF ReaderTypes, Becomes, IsRequestState
<1>8. ReaderShape'
    BY <1>2, <1>3, <1>4 DEF ReaderShape, Becomes, Set, Flags
<1>. QED
    BY <1>1, <1>2, <1>3, <1>4, <1>7, <1>8 DEF a, x, y, b

Stays(eorStop, isClosed, error) ==
    Becomes(in.rd, in.avail, in.hdr, in.contentLen, in.paddingLen, in.skip, eorStop, isClosed, error)

BodyIsRead ==
    /\ Len(taken) = BodyLen /\ Stays(FALSE, FALSE, in.error)
    /\ request' = [request EXCEPT !.isBeginProcessed = TRUE,
                                  !.keepConnection = Record(taken).keep,
                                  !.role = Record(taken).role]

BodyIsShort == Stays(FALSE, TRUE, TRUE) /\ in.isClosed /\ UNCHANGED request

LEMMA ResumesIs ==
    ASSUME ReaderTypes
    PROVE  /\ in' = Resumed(in) => Stays(FALSE, FALSE, in.error)
           /\ in' = SetError(Resumed(in)) => Stays(FALSE, TRUE, TRUE)
<1>1. in \in ReaderState(Known)
    BY DEF ReaderTypes
<1>2. /\ Resumed(in) \in ReaderState(Known)
      /\ Set(Resumed(in), in.type, in.rd, in.avail, in.hdr, in.contentLen, in.paddingLen)
      /\ Flags(Resumed(in), in.skip, FALSE, FALSE, in.error)
    BY <1>1, ResumedIs
<1>. DEFINE z == Resumed(in)
<1>3. /\ SetError(z) \in ReaderState(Known)
      /\ Set(SetError(z), z.type, z.rd, z.avail, z.hdr, z.contentLen, z.paddingLen)
      /\ Flags(SetError(z), z.skip, z.eorStop, TRUE, TRUE)
    BY <1>2, SetErrorIs
<1>4. in' = z => Stays(FALSE, FALSE, in.error)
    BY <1>2 DEF Stays, Becomes
<1>5. in' = SetError(z) => Stays(FALSE, TRUE, TRUE)
    BY <1>2, <1>3 DEF Stays, Becomes, Set, Flags
<1>. QED
    BY <1>4, <1>5

LEMMA ShapeStays ==
    ASSUME ReaderTypes, ReaderShape, NEW b \in BOOLEAN, NEW c, Stays(FALSE, b, c), nested' = "none",
           filling' => in.avail = 0 /\ ~b, b => in.avail = 0
    PROVE  ReaderShape'
<1>. DEFINE f == FALSE
<1>1. Stays(f, b, c) /\ f \in BOOLEAN /\ ~f
    OBVIOUS
<1>. HIDE DEF f
<1>2. /\ in'.avail = in.avail /\ in'.rd = in.rd /\ in'.hdr = in.hdr
      /\ in'.contentLen = in.contentLen /\ in'.paddingLen = in.paddingLen
    BY <1>1 DEF Stays, Becomes, Set
<1>3. in'.skip = in.skip /\ in'.eorStop = f /\ in'.isClosed = b
    BY <1>1 DEF Stays, Becomes, Flags
<1>4. in'.eorStop = (nested' # "none")
    BY <1>1, <1>3
<1>. QED
    BY <1>2, <1>3, <1>4 DEF ReaderShape

LEMMA EndBodyIs ==
    ASSUME ReaderTypes, ReaderShape, UNCHANGED script, EndBody
    PROVE  /\ BodyIsRead \/ BodyIsShort
           /\ nested = "body" /\ nested' = "none" /\ ~filling /\ UNCHANGED <<inbox, filling, taken>>
           /\ Ahead' = Ahead /\ ReaderTypes' /\ ReaderShape'
<1>1. nested = "body" /\ nested' = "none" /\ ~filling /\ UNCHANGED <<inbox, filling, taken>>
    BY DEF EndBody
<1>2. CASE Len(taken) = BodyLen /\ in' = Resumed(in)
           /\ request' = LET r == Record(taken) IN
                         [request EXCEPT !.isBeginProcessed = TRUE,
                                         !.keepConnection = r.keep, !.role = r.role]
    <2>1. Stays(FALSE, FALSE, in.error)
        BY <1>2, ResumesIs
    <2>2. BodyIsRead
        BY <1>2, <2>1 DEF BodyIsRead
    <2>3. IsRequestState(request')
        BY <2>2 DEF BodyIsRead, ReaderTypes, IsRequestState
    <2>4. in' \in ReaderState(Known) /\ in'.hdr = in.hdr /\ in'.rd = in.rd
        BY <2>1 DEF Stays, Becomes, Set
    <2>5. ReaderTypes'
        BY <1>1, <2>3, <2>4, KnownSame DEF ReaderTypes
    <2>6. ReaderShape'
        BY <1>1, <2>1, ShapeStays
    <2>7. Ahead' = Ahead
        BY <1>1, <2>4 DEF Ahead
    <2>. QED
        BY <1>1, <2>2, <2>5, <2>6, <2>7
<1>3. CASE Len(taken) < BodyLen /\ in.isClosed /\ in' = SetError(Resumed(in)) /\ UNCHANGED request
    <2>1. Stays(FALSE, TRUE, TRUE)
        BY <1>3, ResumesIs
    <2>2. BodyIsShort
        BY <1>3, <2>1 DEF BodyIsShort
    <2>4. in' \in ReaderState(Known) /\ in'.hdr = in.hdr /\ in'.rd = in.rd
        BY <2>1 DEF Stays, Becomes, Set
    <2>5. ReaderTypes'
        BY <1>1, <1>3, <2>4, KnownSame DEF ReaderTypes, IsRequestState
    <2>6. ReaderShape'
        <3>1. in.avail = 0
            BY <1>3 DEF ReaderShape
        <3>. QED
            BY <1>1, <2>1, <3>1, ShapeStays
    <2>7. Ahead' = Ahead
        BY <1>1, <2>4 DEF Ahead
    <2>. QED
        BY <1>1, <2>2, <2>5, <2>6, <2>7
<1>. QED
    BY <1>2, <1>3 DEF EndBody

LEMMA EndValuesIs ==
    ASSUME ReaderTypes, ReaderShape, UNCHANGED script, EndValues
    PROVE  /\ \/ Stays(FALSE, TRUE, TRUE) /\ filling' = FALSE
              \/ Stays(FALSE, FALSE, in.error) /\ filling' = TRUE /\ in.contentLen = 0 /\ ~in.error
           /\ nested = "values" /\ nested' = "none" /\ in.avail = 0 /\ in.isClosed
           /\ UNCHANGED <<inbox, taken, request>>
           /\ Ahead' = Ahead /\ ReaderTypes' /\ ReaderShape'
<1>1. /\ nested = "values" /\ nested' = "none" /\ in.isClosed /\ in.avail = 0
      /\ UNCHANGED <<inbox, taken, request>>
    BY DEF EndValues, Answer, ReaderShape
<1>2. CASE Returns(SetError(Resumed(in)))
    <2>1. Stays(FALSE, TRUE, TRUE) /\ filling' = FALSE
        BY <1>2, ResumesIs DEF Returns
    <2>2. in' \in ReaderState(Known) /\ in'.hdr = in.hdr /\ in'.rd = in.rd
        BY <2>1 DEF Stays, Becomes, Set
    <2>3. ReaderTypes'
        BY <1>1, <2>1, <2>2, KnownSame DEF ReaderTypes, IsRequestState
    <2>4. ReaderShape'
        BY <1>1, <2>1, ShapeStays
    <2>5. Ahead' = Ahead
        BY <1>1, <2>2 DEF Ahead
    <2>. QED
        BY <1>1, <2>1, <2>3, <2>4, <2>5
<1>3. CASE ~in.error /\ in.contentLen = 0 /\ in' = Resumed(in) /\ filling' = TRUE
    <2>1. Stays(FALSE, FALSE, in.error)
        BY <1>3, ResumesIs
    <2>2. in' \in ReaderState(Known) /\ in'.hdr = in.hdr /\ in'.rd = in.rd
        BY <2>1 DEF Stays, Becomes, Set
    <2>3. ReaderTypes'
        BY <1>1, <1>3, <2>2, KnownSame DEF ReaderTypes, IsRequestState
    <2>4. ReaderShape'
        BY <1>1, <2>1, ShapeStays
    <2>5. Ahead' = Ahead
        BY <1>1, <2>2 DEF Ahead
    <2>. QED
        BY <1>1, <1>3, <2>1, <2>3, <2>4, <2>5
<1>. QED
    BY <1>2, <1>3 DEF EndValues, Answer
-----------------------------------------------------------------------------
(* Steps of the stream while the request is served. *)
Watched(w, v, g, p, q) ==
    /\ ReaderTypes /\ ReaderShape
    /\ Scene(Known, w, v, in.type) /\ v.id = request.requestId
    /\ request.isBeginProcessed /\ nested # "body"
    /\ q \in 0 .. Len(w) /\ p \in 0 .. q /\ Ahead = Part(w, p, q)
    /\ \E b \in 1 .. p : w[b][1].of[2] = v.of
    /\ Follows(w, v, in, nested, g, p)

Progress(w, v, g, p, q) ==
    \E n \in p .. q : /\ Moved(w, p, n, q) /\ UNCHANGED request /\ nested' # "body"
                      /\ Follows(w, v, in', nested', g, n)

LEMMA WatchedIs ==
    ASSUME NEW w, NEW v, NEW g, NEW p, NEW q, Watched(w, v, g, p, q)
    PROVE  /\ w \in Seq(Octets(Known)) /\ OnTheWire(Known, w) /\ Len(w) \in Nat
           /\ DOMAIN w = 1 .. Len(w) /\ DOMAIN w \subseteq Int
           /\ p \in Nat /\ q \in Nat /\ p <= q /\ q <= Len(w) /\ p \in p .. q
           /\ Counted(in) /\ Len(in.hdr) \in 0 .. HeaderLen /\ Len(in.rd) \in Nat
           /\ {in.skip, in.eorStop, in.isClosed, in.error, filling} \subseteq BOOLEAN
<1>1. OnTheWire(Known, w) /\ ReaderTypes /\ ReaderShape /\ q \in 0 .. Len(w) /\ p \in 0 .. q
    BY DEF Watched, Scene
<1>2. w \in Seq(Octets(Known))
    BY <1>1 DEF OnTheWire
<1>3. Len(w) \in Nat /\ DOMAIN w = 1 .. Len(w)
    BY <1>2, LenProperties
<1>4. /\ Counted(in) /\ Len(in.rd) \in Nat /\ Len(in.hdr) \in Nat
      /\ {in.skip, in.eorStop, in.isClosed, in.error} \subseteq BOOLEAN
    BY <1>1, ReaderIs
<1>5. Len(in.hdr) \in 0 .. HeaderLen
    BY <1>1, <1>4, FcgiRecordAssumption DEF ReaderShape
<1>. QED
    BY <1>1, <1>2, <1>3, <1>4, <1>5 DEF ReaderTypes

(* Another reader in the same place. *)
Like(y, z) ==
    /\ y.type = z.type /\ y.avail = z.avail /\ y.contentLen = z.contentLen
    /\ y.paddingLen = z.paddingLen /\ y.skip = z.skip

LEMMA FollowsLike ==
    ASSUME NEW w, NEW v, NEW z, NEW y, NEW m, NEW g, NEW p, Like(y, z),
           ~(z.isClosed /\ m = "none"), ~(y.isClosed /\ m = "none"),
           Follows(w, v, z, m, g, p)
    PROVE  Follows(w, v, y, m, g, p)
<1>1. Left(y) = Left(z)
    BY DEF Like, Left
<1>2. Tracks(w, v, z, m, g, p) \/ Astray(w, v, z, m, g, p)
    BY DEF Follows
<1>3. Tracks(w, v, y, m, g, p) \/ Astray(w, v, y, m, g, p)
    BY <1>1, <1>2 DEF Like, Tracks, Astray
<1>. QED
    BY <1>3 DEF Follows

LEMMA FollowsRead ==
    ASSUME NEW w, NEW v, NEW g, NEW p, NEW q, Watched(w, v, g, p, q),
           UNCHANGED script, OS_Read
    PROVE  Progress(w, v, g, p, q)
<1>1. /\ ReaderTypes /\ ReaderShape /\ Ahead = Part(w, p, q) /\ nested # "body"
      /\ Follows(w, v, in, nested, g, p)
    BY DEF Watched
<1>2. (HasRead \/ Failed) /\ Ahead' = Ahead /\ ReaderTypes' /\ ReaderShape'
    BY <1>1, ReadIs
<1>3. UNCHANGED <<nested, request>> /\ filling
    BY DEF OS_Read
<1>4. ~in.isClosed
    BY <1>1, <1>3 DEF ReaderShape
<1>5. Follows(w, v, in', nested, g, p)
    <2>1. CASE HasRead
        <3>1. Like(in', in) /\ in'.isClosed = in.isClosed
            BY <2>1 DEF HasRead, Set, Flags, Like
        <3>2. ~in'.isClosed
            BY <1>4, <3>1
        <3>. QED
            BY <1>1, <1>4, <3>1, <3>2, FollowsLike
    <2>2. CASE Failed
        <3>1. /\ in'.error /\ in'.type = in.type /\ in'.avail = in.avail
              /\ in'.contentLen = in.contentLen /\ in'.paddingLen = in.paddingLen
              /\ in'.skip = in.skip /\ in'.hdr = in.hdr
            BY <2>2 DEF Failed, Set, Flags
        <3>2. Tracks(w, v, in, nested, g, p) \/ Astray(w, v, in, nested, g, p)
            BY <1>1, <1>4 DEF Follows
        <3>. DEFINE y == in'
        <3>3. /\ y.error /\ y.type = in.type /\ y.avail = in.avail
              /\ y.contentLen = in.contentLen /\ y.paddingLen = in.paddingLen
              /\ y.skip = in.skip /\ Len(y.hdr) \in 0 .. HeaderLen
            BY <3>1, WatchedIs
        <3>4. p \in Nat /\ Counted(in) /\ DOMAIN w \subseteq Int
            BY WatchedIs
        <3>. HIDE DEF y
        <3>5. Follows(w, v, y, nested, g, p)
            BY <3>2, <3>3, <3>4, FollowsError
        <3>. QED
            BY <3>5 DEF y
    <2>. QED
        BY <1>2, <2>1, <2>2
<1>6. Moved(w, p, p, q)
    <2>1. in'.type = in.type
        BY <1>2 DEF HasRead, Failed, Set
    <2>2. p \in p .. q
        BY WatchedIs
    <2>. QED
        BY <1>1, <1>2, <2>1, <2>2 DEF Moved
<1>7. p \in p .. q
    BY WatchedIs
<1>. QED
    BY <1>1, <1>3, <1>5, <1>6, <1>7 DEF Progress

LEMMA TracksLike ==
    ASSUME NEW w, NEW v, NEW z, NEW y, NEW m, NEW g, NEW p, Left(y) = Left(z), y.type = z.type,
           y.paddingLen = z.paddingLen, y.skip = z.skip, y.skip => y.contentLen > 0,
           ~(y.isClosed /\ m = "none"), Tracks(w, v, z, m, g, p)
    PROVE  Follows(w, v, y, m, g, p)
<1>1. Tracks(w, v, y, m, g, p)
    BY DEF Tracks
<1>. QED
    BY <1>1 DEF Follows

LEMMA FollowsDeliver ==
    ASSUME NEW w, NEW v, NEW g, NEW p, NEW q, Watched(w, v, g, p, q),
           UNCHANGED script, Deliver
    PROVE  Progress(w, v, g, p, q)
<1>1. /\ ReaderTypes /\ ReaderShape /\ Ahead = Part(w, p, q) /\ nested # "body"
      /\ Follows(w, v, in, nested, g, p)
    BY DEF Watched
<1>2. /\ Becomes(in.rd, Count, in.hdr, in.contentLen - Count, in.paddingLen,
                 in.skip, in.eorStop, in.isClosed, in.error)
      /\ HasContent /\ ~in.skip /\ filling' = FALSE /\ RestSame
      /\ Ahead' = Ahead /\ ReaderTypes' /\ ReaderShape'
    BY <1>1, DeliverIs
<1>3. /\ Count \in 0 .. in.contentLen /\ in.contentLen \in Nat /\ in.contentLen > 0
      /\ in.avail = 0 /\ ~in.isClosed
    BY <1>1, <1>2, CountIs
<1>4. Tracks(w, v, in, nested, g, p)
    <2>1. Left(in) # 0
        BY <1>3 DEF Left
    <2>. QED
        BY <1>1, <1>3, <2>1 DEF Follows, Astray
<1>5. /\ in'.type = in.type /\ in'.paddingLen = in.paddingLen /\ in'.skip = in.skip
      /\ in'.isClosed = in.isClosed /\ in'.avail = Count /\ in'.contentLen = in.contentLen - Count
    BY <1>2 DEF Becomes, Set, Flags
<1>6. Left(in') = Left(in)
    <2>1. Count + (in.contentLen - Count) = 0 + in.contentLen
        BY <1>3
    <2>. QED
        BY <1>3, <1>5, <2>1 DEF Left
<1>7. Follows(w, v, in', nested, g, p)
    <2>1. ~in'.skip /\ ~in'.isClosed
        BY <1>2, <1>3, <1>5
    <2>. QED
        BY <1>4, <1>5, <1>6, <2>1, TracksLike
<1>8. p \in p .. q
    BY WatchedIs
<1>9. Moved(w, p, p, q)
    BY <1>1, <1>2, <1>5, <1>8 DEF Moved
<1>. QED
    BY <1>1, <1>2, <1>7, <1>8, <1>9 DEF Progress, RestSame

LEMMA FollowsSkipContent ==
    ASSUME NEW w, NEW v, NEW g, NEW p, NEW q, Watched(w, v, g, p, q),
           UNCHANGED script, SkipContent
    PROVE  Progress(w, v, g, p, q)
<1>. DEFINE c == Count
            d == in.contentLen - c
            b == in.contentLen > c
            y == in'
<1>1. /\ ReaderTypes /\ ReaderShape /\ Ahead = Part(w, p, q) /\ nested # "body"
      /\ Follows(w, v, in, nested, g, p) /\ q \in 0 .. Len(w) /\ p \in 0 .. q
    BY DEF Watched
<1>2. /\ Becomes(Drop(in.rd, c), in.avail, in.hdr, d, in.paddingLen,
                 b, in.eorStop, in.isClosed, in.error)
      /\ HasContent /\ in.skip /\ UNCHANGED filling /\ RestSame
      /\ ReaderTypes' /\ ReaderShape'
    BY <1>1, SkipContentIs
<1>3. /\ c \in 0 .. in.contentLen /\ in.contentLen \in Nat /\ in.contentLen > 0
      /\ in.avail = 0 /\ ~in.isClosed /\ in.hdr = <<>> /\ c \in 0 .. Len(in.rd) /\ d \in Nat
    BY <1>1, <1>2, CountIs
<1>4. Tracks(w, v, in, nested, g, p)
    <2>1. Left(in) # 0
        BY <1>3 DEF Left
    <2>. QED
        BY <1>1, <1>3, <2>1 DEF Follows, Astray
<1>11. (b => d > 0) /\ (b \/ d = 0) /\ b \in BOOLEAN
    BY <1>3
<1>12. /\ in.avail + d = (in.avail + in.contentLen) - c /\ c \in 0 .. in.avail + in.contentLen
       /\ d = in.avail + d
    BY <1>3
<1>. HIDE DEF c, d, b
<1>5. /\ y.type = in.type /\ y.paddingLen = in.paddingLen /\ y.skip = b
      /\ y.isClosed = in.isClosed /\ y.avail = in.avail /\ y.contentLen = d
      /\ y.rd = Drop(in.rd, c) /\ y.hdr = in.hdr
    BY <1>2 DEF Becomes, Set, Flags
<1>6. p + c \in p .. q /\ Ahead' = Part(w, p + c, q)
    <2>1. w \in Seq(Octets(Known)) /\ UNCHANGED inbox
        BY <1>2, WatchedIs DEF RestSame
    <2>. QED
        BY <1>1, <1>3, <1>5, <2>1, AheadDropped
<1>. HIDE DEF y
<1>7. Tracks(w, v, y, nested, g, p + c)
    <2>1. OnTheWire(Known, w) /\ Counted(in) /\ p \in Nat
        BY WatchedIs
    <2>2. Counted(y)
        BY <1>3, <1>5, <2>1 DEF Counted
    <2>3. c \in 0 .. Left(in) /\ Left(y) = Left(in) - c
        BY <1>5, <1>12 DEF Left
    <2>4. (y.skip => y.contentLen > 0) /\ y.type = in.type /\ y.paddingLen = in.paddingLen
        BY <1>5, <1>11
    <2>6. Left(y) = d
        BY <1>5, <1>12 DEF Left
    <2>7. in.skip = TRUE
        <3>1. in.skip \in BOOLEAN
            BY WatchedIs
        <3>. QED
            BY <1>2, <3>1
    <2>8. IF nested = "none" /\ ~in.skip THEN g = g \o Part(w, p, p + c) ELSE g = g
        BY <1>2
    <2>9. Tracks(w, v, in, nested, g, p)
        BY <1>4
    <2>10. y.skip = in.skip \/ Left(y) = 0
        BY <1>5, <1>11, <2>6, <2>7
    <2>. QED
        BY <2>1, <2>2, <2>3, <2>4, <2>8, <2>9, <2>10, FollowsContent
<1>8. Follows(w, v, y, nested, g, p + c)
    BY <1>3, <1>5, <1>7 DEF Follows
<1>9. Moved(w, p, p + c, q)
    BY <1>1, <1>2, <1>5, <1>6 DEF Moved, y
<1>. QED
    BY <1>1, <1>2, <1>6, <1>8, <1>9 DEF Progress, RestSame, y

LEMMA FollowsSkipPadding ==
    ASSUME NEW w, NEW v, NEW g, NEW p, NEW q, Watched(w, v, g, p, q),
           UNCHANGED script, SkipPadding
    PROVE  Progress(w, v, g, p, q)
<1>. DEFINE c == PaddingBytes
            d == in.paddingLen - c
            y == in'
<1>1. /\ ReaderTypes /\ ReaderShape /\ Ahead = Part(w, p, q) /\ nested # "body"
      /\ Follows(w, v, in, nested, g, p) /\ q \in 0 .. Len(w) /\ p \in 0 .. q
    BY DEF Watched
<1>2. /\ c \in 0 .. in.paddingLen /\ c \in 0 .. Len(in.rd)
      /\ \/ Becomes(Drop(in.rd, c), 0, in.hdr, in.contentLen, d, in.skip, in.eorStop, TRUE, in.error)
            /\ in.eorStop
         \/ Becomes(Drop(in.rd, c), 0, in.hdr, in.contentLen, d, in.skip, in.eorStop, FALSE, in.error)
      /\ in.contentLen = 0 /\ in.avail = 0 /\ in.hdr = <<>> /\ ~in.isClosed
      /\ in.paddingLen > 0 /\ RestSame
      /\ ReaderTypes' /\ ReaderShape'
    BY <1>1, SkipPaddingIs
<1>3. in.paddingLen \in Nat /\ d \in Nat /\ Counted(in) /\ OnTheWire(Known, w) /\ p \in Nat
    <2>1. Counted(in) /\ OnTheWire(Known, w) /\ p \in Nat
        BY WatchedIs
    <2>2. in.paddingLen \in Nat
        BY <2>1 DEF Counted
    <2>. QED
        BY <1>2, <2>1, <2>2
<1>4. Left(in) = 0
    BY <1>2 DEF Left
<1>5. Tracks(w, v, in, nested, g, p)
    BY <1>1, <1>2 DEF Follows, Astray
<1>6. ~in.skip
    BY <1>2, <1>5 DEF Tracks
<1>. HIDE DEF c, d
<1>7. /\ y.type = in.type /\ y.paddingLen = d /\ y.skip = in.skip
      /\ y.avail = 0 /\ y.contentLen = 0 /\ y.rd = Drop(in.rd, c) /\ y.hdr = <<>>
      /\ y.isClosed => in.eorStop
    BY <1>2 DEF Becomes, Set, Flags
<1>8. p + c \in p .. q /\ Ahead' = Part(w, p + c, q)
    <2>1. w \in Seq(Octets(Known)) /\ UNCHANGED inbox
        BY <1>2, WatchedIs DEF RestSame
    <2>. QED
        BY <1>1, <1>2, <1>7, <2>1, AheadDropped
<1>. HIDE DEF y
<1>9. Tracks(w, v, y, nested, g, p + c)
    <2>1. Counted(y)
        BY <1>3, <1>7 DEF Counted
    <2>2. Left(y) = 0
        BY <1>7 DEF Left
    <2>3. ~y.skip
        BY <1>6, <1>7
    <2>4. y.paddingLen = in.paddingLen - c /\ c \in 0 .. in.paddingLen
        BY <1>2, <1>7 DEF d
    <2>5. y.type = in.type
        BY <1>7
    <2>. QED
        BY <1>3, <1>4, <1>5, <2>1, <2>2, <2>3, <2>4, <2>5, FollowsPadding
<1>10. Follows(w, v, y, nested, g, p + c)
    <2>1. y.isClosed => nested # "none"
        BY <1>1, <1>7 DEF ReaderShape
    <2>. QED
        BY <1>9, <2>1 DEF Follows
<1>11. Moved(w, p, p + c, q)
    BY <1>1, <1>2, <1>7, <1>8 DEF Moved, y
<1>. QED
    BY <1>1, <1>2, <1>8, <1>10, <1>11 DEF Progress, RestSame, y

LEMMA FollowsEndOfRecord ==
    ASSUME NEW w, NEW v, NEW g, NEW p, NEW q, Watched(w, v, g, p, q),
           UNCHANGED script, EndOfRecord
    PROVE  Progress(w, v, g, p, q)
<1>1. /\ ReaderTypes /\ ReaderShape /\ Ahead = Part(w, p, q) /\ nested # "body"
      /\ Follows(w, v, in, nested, g, p)
    BY DEF Watched
<1>2. /\ Becomes(in.rd, 0, in.hdr, 0, 0, in.skip, in.eorStop, TRUE, in.error)
      /\ filling /\ in.contentLen = 0 /\ in.paddingLen = 0 /\ in.avail = 0 /\ in.eorStop
      /\ filling' = FALSE /\ RestSame
      /\ Ahead' = Ahead /\ ReaderTypes' /\ ReaderShape'
    BY <1>1, EndOfRecordIs
<1>3. nested # "none" /\ ~in.isClosed
    BY <1>1, <1>2 DEF ReaderShape
<1>4. Like(in', in) /\ in'.type = in.type
    BY <1>2 DEF Becomes, Set, Flags, Like
<1>5. Follows(w, v, in', nested, g, p)
    BY <1>1, <1>3, <1>4, FollowsLike
<1>6. p \in p .. q
    BY WatchedIs
<1>7. Moved(w, p, p, q)
    BY <1>1, <1>2, <1>4, <1>6 DEF Moved
<1>. QED
    BY <1>1, <1>2, <1>5, <1>6, <1>7 DEF Progress, RestSame

LEMMA FollowsPartOfHeader ==
    ASSUME NEW w, NEW v, NEW g, NEW p, NEW q, Watched(w, v, g, p, q),
           UNCHANGED script, RecordDone, Len(Header) # HeaderLen,
           GoesOn([in EXCEPT !.rd = <<>>, !.hdr = Header]), Local
    PROVE  Progress(w, v, g, p, q)
<1>1. /\ ReaderTypes /\ ReaderShape /\ Ahead = Part(w, p, q) /\ nested # "body"
      /\ Follows(w, v, in, nested, g, p)
    BY DEF Watched
<1>2. /\ Becomes(<<>>, 0, Header, 0, 0, in.skip, in.eorStop, in.isClosed, in.error)
      /\ filling /\ in.contentLen = 0 /\ in.paddingLen = 0 /\ in.avail = 0 /\ ~in.isClosed
      /\ UNCHANGED filling /\ RestSame
      /\ Ahead' = Ahead /\ ReaderTypes' /\ ReaderShape'
    BY <1>1, PartOfHeaderIs
<1>3. Like(in', in) /\ in'.type = in.type /\ in'.isClosed = in.isClosed
    BY <1>2 DEF Becomes, Set, Flags, Like
<1>4. Follows(w, v, in', nested, g, p)
    <2>1. ~in'.isClosed
        BY <1>2, <1>3
    <2>. QED
        BY <1>1, <1>2, <1>3, <2>1, FollowsLike
<1>5. p \in p .. q
    BY WatchedIs
<1>6. Moved(w, p, p, q)
    BY <1>1, <1>2, <1>3, <1>5 DEF Moved
<1>. QED
    BY <1>1, <1>2, <1>4, <1>5, <1>6 DEF Progress, RestSame

LEMMA NestedAhead ==
    ASSUME ReaderTypes, ReaderShape, NEW w \in Seq(Octets(Known)), NEW q \in 0 .. Len(w),
           NEW p \in 0 .. q, Ahead = Part(w, p, q), UNCHANGED <<script, inbox>>,
           in'.rd = Drop(in.rd, in.avail), in'.hdr = in.hdr
    PROVE  /\ p + in.avail \in p .. q /\ Ahead' = Part(w, p + in.avail, q)
           /\ in.avail \in 0 .. Len(in.rd)
           /\ in.hdr = <<>> => SubSeq(in.rd, 1, in.avail) = Part(w, p, p + in.avail)
<1>0. in.avail \in 0 .. Len(in.rd) /\ in.avail \in Nat
    <2>1. in.avail \in Nat /\ Len(in.rd) \in Nat
        BY ReaderIs DEF Counted
    <2>. QED
        BY <2>1 DEF ReaderShape
<1>1. CASE in.hdr = <<>>
    BY <1>0, <1>1, AheadDropped
<1>2. CASE in.hdr # <<>>
    <2>1. in.avail = 0 /\ in.rd \in Seq(Octets(Known))
        BY <1>2, ReaderIs DEF ReaderShape
    <2>2. Drop(in.rd, 0) = in.rd
        BY <2>1, DropNone
    <2>3. Ahead' = Ahead
        BY <2>1, <2>2 DEF Ahead
    <2>4. p + 0 = p /\ p \in p .. q
        OBVIOUS
    <2>. QED
        BY <1>0, <1>2, <2>1, <2>3, <2>4
<1>. QED
    BY <1>1, <1>2

LEMMA FollowsNested ==
    ASSUME NEW w, NEW v, NEW g, NEW p, NEW q, Watched(w, v, g, p, q),
           UNCHANGED script, ReadNested
    PROVE  Progress(w, v, g, p, q)
<1>. DEFINE c == in.avail
            y == in'
<1>1. /\ ReaderTypes /\ ReaderShape /\ Ahead = Part(w, p, q) /\ nested # "body"
      /\ Follows(w, v, in, nested, g, p) /\ q \in 0 .. Len(w) /\ p \in 0 .. q
    BY DEF Watched
<1>2. /\ Becomes(Drop(in.rd, c), 0, in.hdr, in.contentLen, in.paddingLen,
                 in.skip, in.eorStop, in.isClosed, in.error)
      /\ nested # "none" /\ ~in.isClosed
      /\ UNCHANGED <<inbox, nested, request>>
      /\ ReaderTypes' /\ ReaderShape'
    BY <1>1, ReadNestedIs
<1>3. Counted(in) /\ OnTheWire(Known, w) /\ p \in Nat /\ w \in Seq(Octets(Known))
    BY WatchedIs
<1>4. Tracks(w, v, in, nested, g, p)
    BY <1>1, <1>2 DEF Follows, Astray
<1>5. /\ y.type = in.type /\ y.paddingLen = in.paddingLen /\ y.skip = in.skip
      /\ y.isClosed = in.isClosed /\ y.avail = 0 /\ y.contentLen = in.contentLen
      /\ y.rd = Drop(in.rd, c) /\ y.hdr = in.hdr
    BY <1>2 DEF Becomes, Set, Flags
<1>6. p + c \in p .. q /\ Ahead' = Part(w, p + c, q)
    <2>1. in'.rd = Drop(in.rd, in.avail) /\ in'.hdr = in.hdr
        BY <1>5
    <2>2. UNCHANGED <<script, inbox>> /\ w \in Seq(Octets(Known))
        BY <1>2, <1>3
    <2>3. ReaderTypes /\ ReaderShape /\ Ahead = Part(w, p, q) /\ q \in 0 .. Len(w) /\ p \in 0 .. q
        BY <1>1
    <2>4. p + in.avail \in p .. q /\ Ahead' = Part(w, p + in.avail, q)
        BY <2>1, <2>2, <2>3, NestedAhead
    <2>. QED
        BY <2>4
<1>. HIDE DEF y
<1>7. Tracks(w, v, y, nested, g, p + c)
    <2>1. c \in 0 .. Left(in) /\ Left(y) = Left(in) - c /\ Counted(y)
        <3>1. in.avail \in Nat /\ in.contentLen \in Nat /\ in.paddingLen \in Nat
            BY <1>3 DEF Counted
        <3>2. c \in 0 .. in.avail + in.contentLen
            BY <3>1
        <3>3. 0 + in.contentLen = (in.avail + in.contentLen) - c
            BY <3>1
        <3>. QED
            BY <1>5, <3>1, <3>2, <3>3 DEF Left, Counted
    <2>2. y.skip => y.contentLen > 0
        BY <1>4, <1>5 DEF Tracks
    <2>3. IF nested = "none" /\ ~in.skip THEN g = g \o Part(w, p, p + c) ELSE g = g
        BY <1>2
    <2>4. y.type = in.type /\ y.paddingLen = in.paddingLen
        BY <1>5
    <2>5. y.skip = in.skip \/ Left(y) = 0
        BY <1>5
    <2>. HIDE DEF c
    <2>. QED
        BY <1>3, <1>4, <2>1, <2>2, <2>3, <2>4, <2>5, FollowsContent
<1>8. Follows(w, v, y, nested, g, p + c)
    BY <1>2, <1>7 DEF Follows
<1>9. Moved(w, p, p + c, q)
    BY <1>1, <1>2, <1>5, <1>6 DEF Moved, y
<1>. QED
    BY <1>1, <1>2, <1>6, <1>8, <1>9 DEF Progress, y

LEMMA FollowsValues ==
    ASSUME NEW w, NEW v, NEW g, NEW p, NEW q, Watched(w, v, g, p, q),
           UNCHANGED script, EndValues
    PROVE  Progress(w, v, g, p, q)
<1>. DEFINE y == in'
<1>1. /\ ReaderTypes /\ ReaderShape /\ Ahead = Part(w, p, q) /\ nested # "body"
      /\ Follows(w, v, in, nested, g, p)
    BY DEF Watched
<1>2. /\ \/ Stays(FALSE, TRUE, TRUE)
         \/ Stays(FALSE, FALSE, in.error) /\ in.contentLen = 0
      /\ nested = "values" /\ nested' = "none" /\ in.avail = 0 /\ in.isClosed
      /\ UNCHANGED <<inbox, taken, request>>
      /\ Ahead' = Ahead /\ ReaderTypes' /\ ReaderShape'
    BY <1>1, EndValuesIs
<1>3. Tracks(w, v, in, nested, g, p)
    BY <1>1, <1>2 DEF Follows, Astray
<1>4. /\ y.type = in.type /\ y.avail = in.avail /\ y.contentLen = in.contentLen
      /\ y.paddingLen = in.paddingLen /\ y.skip = in.skip /\ y.hdr = in.hdr
    BY <1>2 DEF Stays, Becomes, Set, Flags
<1>5. Counted(in) /\ DOMAIN w \subseteq Int /\ p \in Nat /\ Len(in.hdr) \in 0 .. HeaderLen
    BY WatchedIs
<1>6. ASSUME Stays(FALSE, TRUE, TRUE) PROVE Follows(w, v, y, "none", g, p)
    <2>1. y.error /\ y.isClosed
        BY <1>6 DEF Stays, Becomes, Flags
    <2>2. Coming(w, v, in.type, p + Len(in.hdr) - HeaderLen)
        <3>. DEFINE n == p + Len(in.hdr) - HeaderLen
        <3>1. n \in Int /\ n <= p
            BY <1>5, FcgiRecordAssumption
        <3>. HIDE DEF n
        <3>2. Coming(w, v, in.type, n)
            BY <1>3, <1>5, <3>1, FollowsComing
        <3>. QED
            BY <3>2 DEF n
    <2>. HIDE DEF y
    <2>3. Closed(w, v, y, g, p)
        BY <1>4, <2>1, <2>2 DEF Closed
    <2>. QED
        BY <2>1, <2>3 DEF Follows
<1>7. ASSUME Stays(FALSE, FALSE, in.error) /\ in.contentLen = 0
      PROVE  Follows(w, v, y, "none", g, p)
    <2>1. ~y.isClosed
        BY <1>7 DEF Stays, Becomes, Flags
    <2>2. ~in.skip /\ Left(in) = 0
        BY <1>2, <1>3, <1>7 DEF Tracks, Left
    <2>. HIDE DEF y
    <2>3. Left(y) = 0
        BY <1>4, <2>2 DEF Left
    <2>4. p + 0 = p /\ \A j \in p + 1 .. p : FALSE
        BY <1>5
    <2>5. Tracks(w, v, y, "none", g, p)
        <3>. DEFINE l == p + in.paddingLen
        <3>1. /\ l <= Len(w) /\ (l < Len(w) => w[l + 1][2] = 1)
              /\ \A j \in p + 1 .. l : ~Mine(v, in.type, w[j])
              /\ g = Chosen(v, in.type, Part(w, 0, p))
              /\ Coming(w, v, in.type, l)
            BY <1>3, <2>2, <2>4 DEF Tracks
        <3>. QED
            BY <1>4, <2>2, <2>3, <2>4, <3>1 DEF Tracks
    <2>. QED
        BY <2>1, <2>5 DEF Follows
<1>8. Follows(w, v, in', nested', g, p)
    BY <1>2, <1>6, <1>7 DEF y
<1>9. p \in p .. q
    BY WatchedIs
<1>10. Moved(w, p, p, q)
    BY <1>1, <1>2, <1>4, <1>9 DEF Moved, y
<1>. QED
    BY <1>2, <1>8, <1>9, <1>10 DEF Progress
-----------------------------------------------------------------------------
(* The header on the wire. *)
LEMMA HeaderOnWire ==
    ASSUME ReaderTypes, ReaderShape, NEW w \in Seq(Octets(Known)), NEW q \in 0 .. Len(w),
           NEW p \in 0 .. q, Ahead = Part(w, p, q), Len(Header) = HeaderLen
    PROVE  /\ Record(Header) \in Known /\ w[p + 1][1] = Record(Header)
           /\ p + HeaderLen \in p .. q
           /\ IsHeader(Header) => \A i \in 1 .. HeaderLen : w[p + i] = <<Record(Header), i>>
<1>. DEFINE r == Record(Header)
            a == p + HeaderLen
<1>1. a \in p .. q /\ Header = Part(w, p, a)
    BY HeaderAhead
<1>2. r \in Known /\ Sized(Known)
    BY HeaderIs DEF ReaderTypes
<1>3. Len(w) \in Nat /\ HeaderLen \in Nat /\ HeaderLen > 0
    BY LenProperties, FcgiRecordAssumption
<1>4. a \in 0 .. Len(w) /\ p \in 0 .. a /\ a - p = HeaderLen
    BY <1>1, <1>3
<1>5. \A i \in 1 .. HeaderLen : Header[i] = w[p + i]
    <2>. HIDE DEF a
    <2>1. \A i \in 1 .. a - p : Part(w, p, a)[i] = w[p + i]
        BY <1>4, PartType
    <2>. QED
        BY <1>1, <1>4, <2>1
<1>6. w[p + 1][1] = r
    <2>1. 1 \in 1 .. HeaderLen
        BY <1>3
    <2>. QED
        BY <1>5, <2>1 DEF Record
<1>. HIDE DEF r
<1>7. ASSUME IsHeader(Header), NEW i \in 1 .. HeaderLen PROVE w[p + i] = <<r, i>>
    <2>. DEFINE b == Bytes(r)
    <2>1. /\ b \in Seq(Octets(Known)) /\ Len(b) = Size(r)
          /\ \A k \in 1 .. Size(r) : b[k] = <<r, k>>
        BY <1>2, BytesAre DEF IsBytes
    <2>2. HeaderLen \in 1 .. Size(r) /\ Size(r) \in Nat
        BY <1>2, SizeType
    <2>3. Header = SubSeq(b, 1, HeaderLen)
        BY <1>7 DEF IsHeader, r
    <2>. HIDE DEF b
    <2>4. \A k \in 1 .. HeaderLen : SubSeq(b, 1, HeaderLen)[k] = b[k]
        <3>1. HeaderLen \in 0 .. Len(b)
            BY <1>3, <2>1, <2>2
        <3>. QED
            BY <2>1, <3>1, DropIs
    <2>5. i \in 1 .. Size(r)
        BY <1>3, <2>2
    <2>. QED
        BY <1>5, <2>1, <2>3, <2>4, <2>5
<1>. QED
    BY <1>1, <1>2, <1>6, <1>7 DEF r

LEMMA FollowsHeaderStep ==
    ASSUME NEW w, NEW v, NEW g, NEW p, NEW q, Watched(w, v, g, p, q), UNCHANGED script,
           RecordDone, ~in.eorStop, Len(Header) = HeaderLen, ProcessHeader(Header)
    PROVE  Progress(w, v, g, p, q)
<1>. DEFINE r == Record(Header)
            a == p + HeaderLen
            y == in'
            type == in.type
<1>1. /\ ReaderTypes /\ ReaderShape /\ Ahead = Part(w, p, q)
      /\ Follows(w, v, in, nested, g, p) /\ q \in 0 .. Len(w) /\ p \in 0 .. q
      /\ Scene(Known, w, v, type) /\ v.id = request.requestId /\ request.isBeginProcessed
    BY DEF Watched
<1>2. /\ w \in Seq(Octets(Known)) /\ OnTheWire(Known, w) /\ Len(w) \in Nat /\ p \in Nat
      /\ Counted(in) /\ DOMAIN w \subseteq Int /\ DOMAIN w = 1 .. Len(w)
      /\ HeaderLen \in Nat /\ HeaderLen > 0 /\ q \in Nat /\ q <= Len(w)
    BY WatchedIs, FcgiRecordAssumption
<1>3. HeaderStep(r) /\ HeaderMoved
    <2>1. HeaderStep(Record(Header))
        BY <1>1, HeaderStepIs
    <2>. QED
        BY <1>1, <2>1, HeaderMoves
<1>4. /\ r \in Known /\ w[p + 1][1] = r /\ a \in p .. q
      /\ IsHeader(Header) => \A i \in 1 .. HeaderLen : w[p + i] = <<r, i>>
    BY <1>1, <1>2, HeaderOnWire
<1>5. Ahead' = Part(w, a, q)
    BY <1>1, <1>2, <1>3, AheadHeaded DEF HeaderMoved
<1>6. Moved(w, p, a, q)
    BY <1>3, <1>4, <1>5 DEF Moved, HeaderMoved
<1>7. /\ nested = "none" /\ ~in.isClosed /\ in.avail = 0 /\ in.contentLen = 0 /\ in.paddingLen = 0
      /\ Left(in) = 0
    <2>1. filling /\ in.contentLen = 0 /\ in.paddingLen = 0
        BY DEF RecordDone
    <2>2. in.eorStop = (nested # "none") /\ ~in.isClosed /\ in.avail = 0
        BY <1>1, <2>1 DEF ReaderShape
    <2>3. nested = "none"
        BY <2>2
    <2>. QED
        BY <2>1, <2>2, <2>3 DEF Left
<1>8. Tracks(w, v, in, nested, g, p) \/ Astray(w, v, in, nested, g, p)
    BY <1>1, <1>7 DEF Follows
<1>9. Coming(w, v, type, p)
    <2>1. p \in Int /\ p <= p
        BY <1>2
    <2>. QED
        BY <1>2, <1>8, <2>1, FollowsComing
<1>10. r.len \in Nat /\ r.pad \in Nat
    BY <1>2, <1>4, SizeType DEF OnTheWire
<1>. HIDE DEF r
<1>. SUFFICES /\ UNCHANGED request /\ nested' # "body"
              /\ Follows(w, v, in', nested', g, a)
    BY <1>4, <1>6 DEF Progress
<1>11. a + 0 - HeaderLen = p
    BY <1>2
<1>12. CASE HeaderFails
    <2>1. PICK c, d \in Nat : Becomes(Drop(in.rd, HeaderBytes), 0, <<>>, c, d, in.skip, in.eorStop, TRUE, TRUE)
        BY <1>12 DEF HeaderFails
    <2>2. y.error /\ y.isClosed /\ y.type = type /\ y.hdr = <<>>
        BY <2>1 DEF Becomes, Set, Flags
    <2>3. UNCHANGED request /\ nested' = "none"
        BY <1>7, <1>12 DEF HeaderFails, RestSame
    <2>4. a + Len(y.hdr) - HeaderLen = p
        BY <1>11, <2>2
    <2>. HIDE DEF y
    <2>5. Closed(w, v, y, g, a)
        BY <1>9, <2>2, <2>4 DEF Closed
    <2>. QED
        BY <2>2, <2>3, <2>5 DEF Follows, y
<1>13. CASE IsHeader(Header)
    <2>1. w[p + 1] = <<r, 1>> /\ w[p + 1][2] = 1
        <3>1. 1 \in 1 .. HeaderLen
            BY <1>2
        <3>. QED
            BY <1>4, <1>13, <3>1
    <2>2. Tracks(w, v, in, nested, g, p)
        BY <1>8, <2>1 DEF Astray
    <2>3. AtHeader(w, v, in, g, p)
        <3>1. HeaderLen + p <= Len(w)
            BY <1>2, <1>4
        <3>. QED
            BY <1>2, <1>9, <2>1, <2>2, <3>1 DEF AtHeader, Tracks
    <2>4. ~in.skip
        BY <1>7, <2>2 DEF Tracks
    <2>5. p + 1 \in DOMAIN w
        BY <1>2, <1>4
    <2>6. r.of[2] = v.of
        <3>1. PICK b \in 1 .. p : w[b][1].of[2] = v.of
            BY DEF Watched
        <3>2. b \in DOMAIN w
            BY <1>2, <2>5
        <3>3. v.of \in Nat /\ (IsLast(w, v) \/ Ends(w, v, type))
            BY <1>1 DEF Scene
        <3>4. w[p + 1][1].of[2] = v.of
            <4>1. OnTheWire(Known, w) /\ p \in Nat
                BY <1>2
            <4>. HIDE DEF type
            <4>. QED
                BY <1>9, <2>5, <3>1, <3>2, <3>3, <4>1, NextIsOurs
        <3>. QED
            BY <1>4, <3>4
    <2>7. Calm(v, r)
        BY <1>1, <1>4, <2>5, <2>6 DEF Scene
    <2>8. type \in Streams /\ v.id # 0
        BY <1>1 DEF Scene
    <2>9. ASSUME NEW s, NEW e, NEW f, Behind(r, s, e, in.isClosed, f), NEW k,
                 s => r.len > 0, ~Stop(v, type, r),
                 r.len > 0 => (Ours(v, r) /\ r.type = type <=> k = "none" /\ ~s)
          PROVE  Follows(w, v, y, k, g, a)
        <3>1. /\ y.type = type /\ y.avail = 0 /\ y.contentLen = r.len /\ y.paddingLen = r.pad
              /\ y.skip = s /\ y.isClosed = in.isClosed
            BY <2>9 DEF Behind, Becomes, Set, Flags
        <3>2. Heads(w[p + 1][1], v, in, y, k)
            BY <1>4, <2>9, <3>1 DEF Heads
        <3>. HIDE DEF y
        <3>3. Tracks(w, v, y, k, g, p + HeaderLen)
            <4>1. OnTheWire(Known, w)
                BY <1>2
            <4>. QED
                BY <2>3, <3>2, <4>1, FollowsHeader
        <3>. QED
            BY <1>7, <3>1, <3>3 DEF Follows
    <2>10. CASE HeaderSkips(r)
        <3>1. /\ Behind(r, TRUE, in.eorStop, in.isClosed, in.error)
              /\ UNCHANGED request /\ nested' = "none"
            BY <1>7, <2>10 DEF HeaderSkips, RestSame
        <3>2. r.len > 0 /\ ~Stop(v, type, r) /\ ~(Ours(v, r) /\ r.type = type)
            <4>1. CASE r.type = "BEGIN_REQUEST"
                <5>1. r.len = BodyLen /\ BodyLen > 0
                    BY <2>10, <4>1, FcgiRecordAssumption DEF HeaderSkips
                <5>2. r.type # type /\ r.type \notin After(type)
                    BY <2>8, <4>1 DEF Streams, After
                <5>. QED
                    BY <5>1, <5>2 DEF Stop
            <4>2. CASE r.type # "BEGIN_REQUEST"
                <5>1. r.id # 0 /\ r.id # v.id
                    BY <1>1, <2>10, <4>2 DEF HeaderSkips
                <5>2. r.len > 0
                    BY <1>10, <2>7, <5>1 DEF Calm
                <5>. QED
                    BY <5>1, <5>2 DEF Stop, Ours
            <4>. QED
                BY <4>1, <4>2
        <3>. DEFINE t == TRUE
        <3>3. Behind(r, t, in.eorStop, in.isClosed, in.error) /\ t
            BY <3>1
        <3>. HIDE DEF t
        <3>4. Follows(w, v, y, "none", g, a)
            BY <2>9, <3>2, <3>3
        <3>. QED
            BY <3>1, <3>4 DEF y
    <2>11. CASE HeaderBegins(r)
        BY <1>1, <2>11 DEF HeaderBegins
    <2>12. CASE HeaderValues(r)
        <3>1. /\ Behind(r, in.skip, TRUE, in.isClosed, in.error)
              /\ UNCHANGED request /\ nested' = "values" /\ r.id = 0
            BY <2>12 DEF HeaderValues
        <3>2. ~Ours(v, r) /\ ~Stop(v, type, r)
            BY <2>8, <3>1 DEF Ours, Stop
        <3>. DEFINE t == TRUE
        <3>3. Behind(r, in.skip, t, in.isClosed, in.error)
            BY <3>1
        <3>. HIDE DEF t
        <3>4. Follows(w, v, y, "values", g, a)
            BY <2>4, <2>9, <3>2, <3>3
        <3>. QED
            BY <3>1, <3>4 DEF y
    <2>13. CASE HeaderUnknown(r)
        <3>1. /\ Behind(r, in.skip, in.eorStop, in.isClosed, in.error)
              /\ UNCHANGED request /\ nested' = "none" /\ r.id = 0 /\ r.type # "GET_VALUES"
            BY <1>7, <2>13 DEF HeaderUnknown, RestSame
        <3>2. ~Ours(v, r) /\ ~Stop(v, type, r)
            BY <2>8, <3>1 DEF Ours, Stop
        <3>3. ~(r.len > 0)
            BY <2>7, <3>1 DEF Calm
        <3>4. Follows(w, v, y, "none", g, a)
            BY <2>4, <2>9, <3>1, <3>2, <3>3
        <3>. QED
            BY <3>1, <3>4 DEF y
    <2>14. ASSUME IsOfStream(r) PROVE Ours(v, r) /\ r.type = type /\ r.type \notin After(type)
        BY <1>1, <2>6, <2>14 DEF IsOfStream, Ours, After
    <2>15. CASE HeaderEnds(r)
        <3>1. /\ Behind(r, in.skip, in.eorStop, TRUE, in.error)
              /\ UNCHANGED request /\ nested' = "none" /\ IsOfStream(r) /\ r.len = 0
            BY <1>7, <2>15 DEF HeaderEnds, RestSame
        <3>2. g = Chosen(v, type, w)
            <4>1. Ours(v, w[p + 1][1]) /\ w[p + 1][1].type = in.type /\ w[p + 1][1].len = 0
                BY <1>4, <2>14, <3>1
            <4>2. Scene(Known, w, v, in.type)
                BY <1>1
            <4>. QED
                BY <2>3, <4>1, <4>2, FollowsEnd
        <3>3. y.isClosed /\ y.type = type /\ y.hdr = <<>>
            BY <3>1 DEF Behind, Becomes, Set, Flags
        <3>4. a + Len(y.hdr) - HeaderLen = p
            BY <1>11, <3>3
        <3>. HIDE DEF y
        <3>5. Closed(w, v, y, g, a)
            BY <1>9, <3>2, <3>3, <3>4 DEF Closed
        <3>. QED
            BY <3>1, <3>3, <3>5 DEF Follows, y
    <2>16. CASE HeaderContent(r)
        <3>1. /\ Behind(r, in.skip, in.eorStop, in.isClosed, in.error)
              /\ UNCHANGED request /\ nested' = "none" /\ IsOfStream(r) /\ r.len # 0
            BY <1>7, <2>16 DEF HeaderContent, RestSame
        <3>2. Ours(v, r) /\ r.type = type /\ ~Stop(v, type, r)
            BY <2>14, <3>1 DEF Stop
        <3>4. Follows(w, v, y, "none", g, a)
            BY <2>4, <2>9, <3>1, <3>2
        <3>. QED
            BY <3>1, <3>4 DEF y
    <2>. QED
        BY <1>3, <1>12, <2>10, <2>11, <2>12, <2>13, <2>15, <2>16 DEF HeaderStep
<1>. QED
    BY <1>3, <1>12, <1>13 DEF HeaderStep

LEMMA StreamFollows ==
    ASSUME NEW w, NEW v, NEW g, NEW p, NEW q, Watched(w, v, g, p, q), UNCHANGED script, StreamStep
    PROVE  Progress(w, v, g, p, q)
<1>1. CASE ReadHeader
    <2>0. /\ RecordDone /\ ~in.eorStop
          /\ IF Len(Header) = HeaderLen THEN ProcessHeader(Header)
             ELSE GoesOn([in EXCEPT !.rd = <<>>, !.hdr = Header]) /\ Local
        BY <1>1 DEF ReadHeader, Header
    <2>1. CASE Len(Header) = HeaderLen
        BY <2>0, <2>1, FollowsHeaderStep
    <2>2. CASE Len(Header) # HeaderLen
        BY <2>0, <2>2, FollowsPartOfHeader
    <2>. QED
        BY <2>1, <2>2
<1>2. ~EndBody
    BY DEF Watched, EndBody
<1>. QED
    BY <1>1, <1>2, FollowsRead, FollowsDeliver, FollowsSkipContent, FollowsSkipPadding,
       FollowsEndOfRecord, FollowsNested, FollowsValues DEF StreamStep, FillBuffProc
-----------------------------------------------------------------------------
(* Steps of the stream while BEGIN_REQUEST is read: either its content is  *)
(* skipped, as that of a record that was to be, or what has been read of   *)
(* it is what the wire has before byte p.                                  *)
BodyAhead == nested = "body" /\ taken = <<>> /\ in.avail = 0 /\ (in.skip \/ in.contentLen = 0)

BodyIn(w, p) ==
    /\ in.hdr = <<>> /\ ~in.skip /\ (filling => Len(taken) < BodyLen)
    /\ p > 0
    /\ LET r == w[p][1] IN
       /\ BeginsRequest(r) /\ r.id = request.requestId
       /\ w[p] = <<r, HeaderLen + Len(taken)>>
       /\ Len(taken) + Left(in) = BodyLen
       /\ taken # <<>> => Record(taken) = r
       /\ request.isBeginProcessed =>
             nested = "none" /\ request.role = r.role /\ Len(taken) = BodyLen

BeginIs(w, p) == nested = "body" \/ request.isBeginProcessed => BodyAhead \/ BodyIn(w, p)

Opening(w, p, q) ==
    /\ ReaderTypes /\ ReaderShape /\ OnTheWire(Known, w)
    /\ q \in 0 .. Len(w) /\ p \in 0 .. q /\ Ahead = Part(w, p, q)
    /\ BeginIs(w, p)

Opened(w, p, q) == \E n \in p .. q : Moved(w, p, n, q) /\ BeginIs(w, n)'

LEMMA OpeningIs ==
    ASSUME NEW w, NEW p, NEW q, Opening(w, p, q)
    PROVE  /\ w \in Seq(Octets(Known)) /\ Len(w) \in Nat /\ DOMAIN w = 1 .. Len(w)
           /\ p \in Nat /\ q \in Nat /\ p <= q /\ q <= Len(w) /\ p \in p .. q
           /\ Counted(in) /\ Len(in.rd) \in Nat /\ Len(taken) \in Nat /\ BodyLen \in Nat /\ BodyLen > 0
<1>1. OnTheWire(Known, w) /\ ReaderTypes /\ q \in 0 .. Len(w) /\ p \in 0 .. q
    BY DEF Opening
<1>2. w \in Seq(Octets(Known))
    BY <1>1 DEF OnTheWire
<1>3. Len(w) \in Nat /\ DOMAIN w = 1 .. Len(w)
    BY <1>2, LenProperties
<1>4. Counted(in) /\ Len(in.rd) \in Nat /\ Len(taken) \in Nat
    BY <1>1, ReaderIs
<1>. QED
    BY <1>1, <1>2, <1>3, <1>4, FcgiRecordAssumption

LEMMA BeginSame ==
    ASSUME NEW w, NEW p, BeginIs(w, p), UNCHANGED <<taken, request, nested>>,
           in'.hdr = in.hdr, in'.skip = in.skip, Left(in') = Left(in), filling' => filling,
           BodyAhead => BodyAhead'
    PROVE  BeginIs(w, p)'
<1>1. BodyIn(w, p) => BodyIn(w, p)'
    <2>1. Left(in)' = Left(in)
        BY DEF Left
    <2>. QED
        BY <2>1 DEF BodyIn
<1>. QED
    BY <1>1 DEF BeginIs

LEMMA OpensRead ==
    ASSUME NEW w, NEW p, NEW q, Opening(w, p, q), UNCHANGED script, OS_Read
    PROVE  Opened(w, p, q)
<1>1. ReaderTypes /\ ReaderShape /\ Ahead = Part(w, p, q) /\ BeginIs(w, p)
    BY DEF Opening
<1>2. (HasRead \/ Failed) /\ Ahead' = Ahead /\ ReaderTypes' /\ ReaderShape'
    BY <1>1, ReadIs
<1>3. UNCHANGED <<taken, nested, request>> /\ filling
    BY DEF OS_Read
<1>4. /\ in'.type = in.type /\ in'.avail = in.avail /\ in'.contentLen = in.contentLen
      /\ in'.skip = in.skip /\ in'.hdr = in.hdr
    BY <1>2 DEF HasRead, Failed, Set, Flags
<1>5. BodyAhead => BodyAhead'
    BY <1>3, <1>4 DEF BodyAhead
<1>6. Left(in') = Left(in)
    BY <1>4 DEF Left
<1>7. BeginIs(w, p)'
    BY <1>1, <1>3, <1>4, <1>5, <1>6, BeginSame
<1>8. p \in p .. q
    BY OpeningIs
<1>9. Moved(w, p, p, q)
    BY <1>1, <1>2, <1>4, <1>8 DEF Moved
<1>. QED
    BY <1>7, <1>8, <1>9 DEF Opened

LEMMA OpensDeliver ==
    ASSUME NEW w, NEW p, NEW q, Opening(w, p, q), UNCHANGED script, Deliver
    PROVE  Opened(w, p, q)
<1>1. ReaderTypes /\ ReaderShape /\ Ahead = Part(w, p, q) /\ BeginIs(w, p)
    BY DEF Opening
<1>2. /\ Becomes(in.rd, Count, in.hdr, in.contentLen - Count, in.paddingLen,
                 in.skip, in.eorStop, in.isClosed, in.error)
      /\ HasContent /\ ~in.skip /\ filling' = FALSE /\ RestSame
      /\ Ahead' = Ahead /\ ReaderTypes' /\ ReaderShape'
    BY <1>1, DeliverIs
<1>3. /\ Count \in 0 .. in.contentLen /\ in.contentLen \in Nat /\ in.contentLen > 0
      /\ in.avail = 0
    BY <1>1, <1>2, CountIs
<1>4. /\ in'.type = in.type /\ in'.avail = Count /\ in'.contentLen = in.contentLen - Count
      /\ in'.skip = in.skip /\ in'.hdr = in.hdr
    BY <1>2 DEF Becomes, Set, Flags
<1>5. ~BodyAhead
    BY <1>2, <1>3 DEF BodyAhead
<1>6. Left(in') = Left(in)
    <2>1. Count + (in.contentLen - Count) = 0 + in.contentLen
        BY <1>3
    <2>. QED
        BY <1>3, <1>4, <2>1 DEF Left
<1>7. BeginIs(w, p)'
    <2>1. UNCHANGED <<taken, request, nested>> /\ ~filling'
        BY <1>2 DEF RestSame
    <2>. QED
        BY <1>1, <1>4, <1>5, <1>6, <2>1, BeginSame
<1>8. p \in p .. q
    BY OpeningIs
<1>9. Moved(w, p, p, q)
    BY <1>1, <1>2, <1>4, <1>8 DEF Moved
<1>. QED
    BY <1>7, <1>8, <1>9 DEF Opened

LEMMA OpensSkipContent ==
    ASSUME NEW w, NEW p, NEW q, Opening(w, p, q), UNCHANGED script, SkipContent
    PROVE  Opened(w, p, q)
<1>. DEFINE c == Count
            d == in.contentLen - c
            b == in.contentLen > c
<1>1. /\ ReaderTypes /\ ReaderShape /\ Ahead = Part(w, p, q) /\ BeginIs(w, p)
      /\ q \in 0 .. Len(w) /\ p \in 0 .. q
    BY DEF Opening
<1>2. /\ Becomes(Drop(in.rd, c), in.avail, in.hdr, d, in.paddingLen,
                 b, in.eorStop, in.isClosed, in.error)
      /\ HasContent /\ in.skip /\ UNCHANGED filling /\ RestSame
      /\ ReaderTypes' /\ ReaderShape'
    BY <1>1, SkipContentIs
<1>3. /\ c \in 0 .. in.contentLen /\ in.contentLen \in Nat
      /\ in.avail = 0 /\ in.hdr = <<>> /\ c \in 0 .. Len(in.rd)
    BY <1>1, <1>2, CountIs
<1>4. b \/ d = 0
    BY <1>3
<1>. HIDE DEF c, d, b
<1>5. /\ in'.type = in.type /\ in'.skip = b /\ in'.avail = in.avail /\ in'.contentLen = d
      /\ in'.rd = Drop(in.rd, c) /\ in'.hdr = in.hdr
    BY <1>2 DEF Becomes, Set, Flags
<1>6. p + c \in p .. q /\ Ahead' = Part(w, p + c, q)
    <2>1. w \in Seq(Octets(Known)) /\ UNCHANGED inbox
        BY <1>2, OpeningIs DEF RestSame
    <2>. QED
        BY <1>1, <1>3, <1>5, <2>1, AheadDropped
<1>9. PICK n \in p .. q : n = p + c
    BY <1>6
<1>7. BeginIs(w, n)'
    <2>1. BodyAhead => BodyAhead'
        BY <1>2, <1>3, <1>4, <1>5 DEF BodyAhead, RestSame
    <2>2. ~BodyIn(w, p)
        BY <1>2 DEF BodyIn
    <2>. QED
        BY <1>1, <1>2, <2>1, <2>2 DEF BeginIs, RestSame
<1>8. Moved(w, p, n, q)
    BY <1>1, <1>2, <1>5, <1>6, <1>9 DEF Moved
<1>. QED
    BY <1>7, <1>8 DEF Opened

(* Behind its content, the body is complete. *)
LEMMA NoBodyLeft ==
    ASSUME NEW w, NEW p, NEW q, Opening(w, p, q), filling, Left(in) = 0
    PROVE  ~BodyIn(w, p)
<1>1. Len(taken) + 0 = Len(taken) /\ ~(BodyLen < BodyLen)
    BY OpeningIs
<1>. QED
    BY <1>1 DEF BodyIn

LEMMA OpensSkipPadding ==
    ASSUME NEW w, NEW p, NEW q, Opening(w, p, q), UNCHANGED script, SkipPadding
    PROVE  Opened(w, p, q)
<1>. DEFINE c == PaddingBytes
            d == in.paddingLen - c
<1>1. /\ ReaderTypes /\ ReaderShape /\ Ahead = Part(w, p, q) /\ BeginIs(w, p)
      /\ q \in 0 .. Len(w) /\ p \in 0 .. q
    BY DEF Opening
<1>2. /\ c \in 0 .. in.paddingLen /\ c \in 0 .. Len(in.rd)
      /\ \/ Becomes(Drop(in.rd, c), 0, in.hdr, in.contentLen, d, in.skip, in.eorStop, TRUE, in.error)
         \/ Becomes(Drop(in.rd, c), 0, in.hdr, in.contentLen, d, in.skip, in.eorStop, FALSE, in.error)
      /\ filling /\ in.contentLen = 0 /\ in.avail = 0 /\ in.hdr = <<>> /\ RestSame
      /\ ReaderTypes' /\ ReaderShape'
    BY <1>1, SkipPaddingIs
<1>. HIDE DEF c, d
<1>3. /\ in'.type = in.type /\ in'.avail = 0 /\ in'.contentLen = 0
      /\ in'.rd = Drop(in.rd, c) /\ in'.hdr = <<>>
    BY <1>2 DEF Becomes, Set
<1>4. p + c \in p .. q /\ Ahead' = Part(w, p + c, q)
    <2>1. w \in Seq(Octets(Known)) /\ UNCHANGED inbox
        BY <1>2, OpeningIs DEF RestSame
    <2>. QED
        BY <1>1, <1>2, <1>3, <2>1, AheadDropped
<1>7. PICK n \in p .. q : n = p + c
    BY <1>4
<1>5. BeginIs(w, n)'
    <2>1. BodyAhead => BodyAhead'
        BY <1>2, <1>3 DEF BodyAhead, RestSame
    <2>2. ~BodyIn(w, p)
        <3>1. Left(in) = 0
            BY <1>2 DEF Left
        <3>. QED
            BY <1>2, <3>1, NoBodyLeft
    <2>. QED
        BY <1>1, <1>2, <2>1, <2>2 DEF BeginIs, RestSame
<1>6. Moved(w, p, n, q)
    BY <1>1, <1>2, <1>3, <1>4, <1>7 DEF Moved
<1>. QED
    BY <1>5, <1>6 DEF Opened

LEMMA OpensEndOfRecord ==
    ASSUME NEW w, NEW p, NEW q, Opening(w, p, q), UNCHANGED script, EndOfRecord
    PROVE  Opened(w, p, q)
<1>1. ReaderTypes /\ ReaderShape /\ Ahead = Part(w, p, q) /\ BeginIs(w, p)
    BY DEF Opening
<1>2. /\ Becomes(in.rd, 0, in.hdr, 0, 0, in.skip, in.eorStop, TRUE, in.error)
      /\ filling /\ in.contentLen = 0 /\ in.avail = 0 /\ RestSame
      /\ Ahead' = Ahead /\ ReaderTypes' /\ ReaderShape'
    BY <1>1, EndOfRecordIs
<1>3. in'.type = in.type /\ in'.avail = 0 /\ in'.contentLen = 0
    BY <1>2 DEF Becomes, Set
<1>4. BeginIs(w, p)'
    <2>1. BodyAhead => BodyAhead'
        BY <1>2, <1>3 DEF BodyAhead, RestSame
    <2>2. ~BodyIn(w, p)
        <3>1. Left(in) = 0
            BY <1>2 DEF Left
        <3>. QED
            BY <1>2, <3>1, NoBodyLeft
    <2>. QED
        BY <1>1, <1>2, <2>1, <2>2 DEF BeginIs, RestSame
<1>5. p \in p .. q
    BY OpeningIs
<1>6. Moved(w, p, p, q)
    BY <1>1, <1>2, <1>3, <1>5 DEF Moved
<1>. QED
    BY <1>4, <1>5, <1>6 DEF Opened

(* Between two records, outside ProcessHeader, no body is under way. *)
LEMMA NoBody ==
    ASSUME NEW w, NEW p, NEW q, Opening(w, p, q), RecordDone, ~in.eorStop
    PROVE  nested = "none" /\ ~request.isBeginProcessed /\ in.avail = 0
<1>1. filling /\ in.contentLen = 0 /\ in.avail = 0 /\ nested = "none"
    <2>1. filling /\ in.contentLen = 0
        BY DEF RecordDone
    <2>2. ReaderShape
        BY DEF Opening
    <2>. QED
        BY <2>1, <2>2 DEF ReaderShape
<1>2. Left(in) = 0
    BY <1>1 DEF Left
<1>3. ~BodyIn(w, p) /\ ~BodyAhead
    BY <1>1, <1>2, NoBodyLeft DEF BodyAhead
<1>. QED
    BY <1>1, <1>3 DEF Opening, BeginIs

LEMMA OpensPartOfHeader ==
    ASSUME NEW w, NEW p, NEW q, Opening(w, p, q), UNCHANGED script, RecordDone, ~in.eorStop,
           Len(Header) # HeaderLen, GoesOn([in EXCEPT !.rd = <<>>, !.hdr = Header]), Local
    PROVE  Opened(w, p, q)
<1>1. ReaderTypes /\ ReaderShape /\ Ahead = Part(w, p, q)
    BY DEF Opening
<1>2. /\ Becomes(<<>>, 0, Header, 0, 0, in.skip, in.eorStop, in.isClosed, in.error)
      /\ RestSame /\ Ahead' = Ahead /\ ReaderTypes' /\ ReaderShape'
    BY <1>1, PartOfHeaderIs
<1>3. in'.type = in.type
    BY <1>2 DEF Becomes, Set
<1>4. BeginIs(w, p)'
    BY <1>2, NoBody DEF BeginIs, RestSame
<1>5. p \in p .. q
    BY OpeningIs
<1>6. Moved(w, p, p, q)
    BY <1>1, <1>2, <1>3, <1>5 DEF Moved
<1>. QED
    BY <1>4, <1>5, <1>6 DEF Opened

LEMMA OpensHeaderStep ==
    ASSUME NEW w, NEW p, NEW q, Opening(w, p, q), UNCHANGED script, RecordDone, ~in.eorStop,
           Len(Header) = HeaderLen, ProcessHeader(Header)
    PROVE  Opened(w, p, q)
<1>. DEFINE r == Record(Header)
<1>1. /\ ReaderTypes /\ ReaderShape /\ Ahead = Part(w, p, q)
      /\ q \in 0 .. Len(w) /\ p \in 0 .. q
    BY DEF Opening
<1>2. /\ w \in Seq(Octets(Known)) /\ p \in Nat
      /\ HeaderLen \in Nat /\ HeaderLen > 0 /\ BodyLen \in Nat /\ BodyLen > 0
    BY OpeningIs, FcgiRecordAssumption
<1>3. HeaderStep(r) /\ HeaderMoved
    <2>1. HeaderStep(Record(Header))
        BY <1>1, HeaderStepIs
    <2>. QED
        BY <1>1, <2>1, HeaderMoves
<1>4. /\ p + HeaderLen \in p .. q
      /\ IsHeader(Header) => \A i \in 1 .. HeaderLen : w[p + i] = <<r, i>>
    BY <1>1, <1>2, HeaderOnWire
<1>5. Ahead' = Part(w, p + HeaderLen, q)
    BY <1>1, <1>2, <1>3, AheadHeaded DEF HeaderMoved
<1>6. PICK n \in p .. q : n = p + HeaderLen
    BY <1>4
<1>7. Moved(w, p, n, q)
    BY <1>3, <1>5, <1>6 DEF Moved, HeaderMoved
<1>8. nested = "none" /\ ~request.isBeginProcessed /\ in.avail = 0
    BY NoBody
<1>. HIDE DEF r
<1>9. CASE ~HeaderBegins(r)
    <2>1. nested' # "body" /\ UNCHANGED request
        BY <1>3, <1>8, <1>9 DEF HeaderStep, HeaderFails, HeaderSkips, HeaderValues, HeaderUnknown,
                                HeaderEnds, HeaderContent, RestSame
    <2>2. BeginIs(w, n)'
        BY <1>8, <2>1 DEF BeginIs
    <2>. QED
        BY <1>7, <2>2 DEF Opened
<1>10. CASE HeaderBegins(r)
    <2>1. /\ BeginsRequest(r) /\ nested' = "body" /\ taken' = <<>>
          /\ request' = [request EXCEPT !.requestId = r.id]
        BY <1>10 DEF HeaderBegins
    <2>2. request'.requestId = r.id /\ ~request'.isBeginProcessed
        BY <1>1, <1>8, <2>1 DEF ReaderTypes, IsRequestState
    <2>3. /\ in'.skip = in.skip /\ in'.avail = 0 /\ in'.contentLen = r.len /\ in'.hdr = <<>>
        <3>. DEFINE t == TRUE
        <3>1. Behind(r, in.skip, t, in.isClosed, in.error)
            BY <1>10 DEF HeaderBegins
        <3>. HIDE DEF t
        <3>. QED
            BY <3>1 DEF Behind, Becomes, Set, Flags
    <2>4. CASE in.skip
        <3>1. BodyAhead'
            BY <2>1, <2>3, <2>4 DEF BodyAhead
        <3>. QED
            BY <1>7, <3>1 DEF Opened, BeginIs
    <2>5. CASE ~in.skip
        <3>1. IsHeader(Header)
            BY <1>3, <1>10 DEF HeaderStep, HeaderFails, HeaderBegins, Behind, Becomes, Set, Flags
        <3>2. w[n] = <<r, HeaderLen>>
            BY <1>2, <1>4, <1>6, <3>1
        <3>3. n > 0 /\ HeaderLen + 0 = HeaderLen /\ 0 + (0 + BodyLen) = BodyLen
            BY <1>2, <1>6
        <3>4. r.len = BodyLen /\ w[n][1] = r
            BY <2>1, <3>2 DEF BeginsRequest
        <3>5. Len(taken') = 0
            BY <2>1
        <3>6. Len(taken') + Left(in)' = BodyLen
            BY <2>3, <3>3, <3>4, <3>5 DEF Left
        <3>7. BodyIn(w, n)'
            BY <1>2, <2>1, <2>2, <2>3, <2>5, <3>2, <3>3, <3>4, <3>5, <3>6 DEF BodyIn
        <3>. QED
            BY <1>7, <3>7 DEF Opened, BeginIs
    <2>. QED
        BY <2>4, <2>5
<1>. QED
    BY <1>9, <1>10

(* The bytes of a record follow one another. *)
LEMMA BytesFollow ==
    ASSUME NEW R, NEW w, OnTheWire(R, w), NEW j \in DOMAIN w, NEW i \in Nat,
           w[j][2] + i <= Size(w[j][1])
    PROVE  w[j + i] = <<w[j][1], w[j][2] + i>>
<1>. DEFINE r == w[j][1]
            k == w[j][2]
<1>1. k \in 1 .. Size(r) /\ \A m \in 1 .. Size(r) : w[j - k + m] = <<r, m>>
    BY DEF OnTheWire, Whole
<1>2. r \in R /\ k \in Nat /\ Size(r) \in Nat
    BY WireByte, SizeType DEF OnTheWire
<1>3. j \in Nat
    <2>1. w \in Seq(Octets(R))
        BY DEF OnTheWire
    <2>2. DOMAIN w = 1 .. Len(w)
        BY <2>1, LenProperties
    <2>. QED
        BY <2>2
<1>. HIDE DEF r, k
<1>4. k + i \in 1 .. Size(r) /\ j - k + (k + i) = j + i
    <2>1. k + i <= Size(r)
        BY DEF r, k
    <2>. QED
        BY <1>1, <1>2, <1>3, <2>1
<1>5. w[j - k + (k + i)] = <<r, k + i>>
    BY <1>1, <1>4
<1>. QED
    BY <1>4, <1>5 DEF r, k

(* What has been read of the body with c more of its bytes. *)
ReadsOfBody(w, p, n, c, t) ==
    /\ c = in.avail /\ SubSeq(in.rd, 1, c) = Part(w, p, p + c)
    /\ SubSeq(in.rd, 1, c) \in Seq(Octets(Known)) /\ n = p + c /\ n <= Len(w)
    /\ t = taken \o SubSeq(in.rd, 1, c)

LEMMA BodyGoesOn ==
    ASSUME NEW w, NEW p, NEW q, Opening(w, p, q), BodyIn(w, p), ~request.isBeginProcessed,
           NEW n, NEW c, NEW t, ReadsOfBody(w, p, n, c, t)
    PROVE  /\ w[n] = <<w[p][1], HeaderLen + Len(t)>> /\ w[n][1] = w[p][1]
           /\ Len(t) = Len(taken) + c
           /\ t # <<>> => Record(t) = w[p][1]
<1>. DEFINE r == w[p][1]
            x == SubSeq(in.rd, 1, c)
<1>0. /\ c = in.avail /\ SubSeq(in.rd, 1, c) = Part(w, p, p + c)
      /\ SubSeq(in.rd, 1, c) \in Seq(Octets(Known)) /\ n = p + c /\ n <= Len(w)
      /\ t = taken \o SubSeq(in.rd, 1, c)
    BY DEF ReadsOfBody
<1>1. /\ w \in Seq(Octets(Known)) /\ OnTheWire(Known, w) /\ p \in DOMAIN w /\ p \in Nat
      /\ taken \in Seq(Octets(Known)) /\ Len(w) \in Nat /\ Len(taken) \in Nat
      /\ c \in Nat /\ in.contentLen \in Nat /\ DOMAIN w = 1 .. Len(w)
    <2>1. /\ w \in Seq(Octets(Known)) /\ p \in Nat /\ Len(w) \in Nat /\ DOMAIN w = 1 .. Len(w)
          /\ Counted(in) /\ Len(taken) \in Nat /\ p <= Len(w)
        BY OpeningIs
    <2>2. p > 0
        BY DEF BodyIn
    <2>. QED
        BY <1>0, <2>1, <2>2 DEF Opening, ReaderTypes, Counted
<1>2. /\ w[p] = <<r, HeaderLen + Len(taken)>> /\ r.len = BodyLen
      /\ Len(taken) + (c + in.contentLen) = BodyLen /\ (taken # <<>> => Record(taken) = r)
    BY <1>0 DEF BodyIn, Left, BeginsRequest
<1>3. HeaderLen \in Nat /\ BodyLen \in Nat
    BY FcgiRecordAssumption
<1>4. r \in Known /\ r.pad \in Nat /\ Size(r) = HeaderLen + r.len + r.pad
    BY <1>1, WireByte DEF Size
<1>5. Len(x) = c /\ x = Part(w, p, n)
    <2>1. n \in 0 .. Len(w) /\ p \in 0 .. n /\ n - p = c
        BY <1>0, <1>1
    <2>2. Len(Part(w, p, n)) = n - p
        BY <1>1, <2>1, PartType
    <2>. QED
        BY <1>0, <2>1, <2>2
<1>. HIDE DEF x
<1>6. Len(t) = Len(taken) + c
    <2>1. x \in Seq(Octets(Known)) /\ t = taken \o x
        BY <1>0 DEF x
    <2>. QED
        BY <1>1, <1>5, <2>1, ConcatProperties
<1>7. w[p][2] = HeaderLen + Len(taken)
    BY <1>2
<1>. HIDE DEF r
<1>8. ASSUME NEW i \in 0 .. c PROVE w[p + i] = <<r, HeaderLen + (Len(taken) + i)>>
    <2>1. w[p][2] + i <= Size(w[p][1]) /\ i \in Nat
        <3>1. i \in Nat /\ Len(taken) + i <= BodyLen
            BY <1>1, <1>2, <1>3
        <3>2. (HeaderLen + Len(taken)) + i <= HeaderLen + BodyLen + r.pad
            BY <1>1, <1>3, <1>4, <3>1
        <3>3. w[p][2] + i <= Size(r)
            BY <1>2, <1>4, <1>7, <3>2
        <3>. QED
            BY <3>1, <3>3 DEF r
    <2>2. w[p + i] = <<w[p][1], w[p][2] + i>>
        <3>1. OnTheWire(Known, w) /\ p \in DOMAIN w /\ i \in Nat /\ w[p][2] + i <= Size(w[p][1])
            BY <1>1, <2>1
        <3>. QED
            BY ONLY <3>1, BytesFollow
    <2>3. w[p][2] + i = HeaderLen + (Len(taken) + i)
        BY <1>1, <1>3, <1>7
    <2>. QED
        BY <2>2, <2>3 DEF r
<1>9. w[n] = <<r, HeaderLen + Len(t)>>
    <2>1. c \in 0 .. c
        BY <1>1
    <2>2. w[p + c] = <<r, HeaderLen + (Len(taken) + c)>>
        BY <1>8, <2>1
    <2>. QED
        BY <1>0, <1>6, <2>2
<1>10. ASSUME t # <<>> PROVE Record(t) = r
    <2>1. t = taken \o x /\ x \in Seq(Octets(Known))
        BY <1>0 DEF x
    <2>2. CASE taken # <<>>
        <3>1. t[1] = taken[1]
            BY <1>1, <2>1, <2>2
        <3>. QED
            BY <1>2, <2>2, <3>1 DEF Record
    <2>3. CASE taken = <<>>
        <3>1. t = x
            BY <2>1, <2>3, ConcatEmptySeq
        <3>2. c # 0
            <4>1. x # <<>>
                BY <1>10, <3>1
            <4>. QED
                BY <1>5, <2>1, <4>1, EmptySeq
        <3>3. x[1] = w[p + 1]
            <4>1. n \in 0 .. Len(w) /\ p \in 0 .. n /\ 1 \in 1 .. n - p
                BY <1>0, <1>1, <3>2
            <4>2. \A i \in 1 .. n - p : Part(w, p, n)[i] = w[p + i]
                BY <1>1, <4>1, PartType
            <4>. QED
                BY <1>5, <4>1, <4>2
        <3>4. 1 \in 0 .. c
            BY <1>1, <3>2
        <3>5. w[p + 1] = <<r, HeaderLen + (Len(taken) + 1)>>
            BY <1>8, <3>4
        <3>6. t[1] = <<r, HeaderLen + (Len(taken) + 1)>>
            BY <3>1, <3>3, <3>5
        <3>. QED
            BY ONLY <3>6 DEF Record
    <2>. QED
        BY <2>2, <2>3
<1>11. w[n][1] = r
    BY <1>9
<1>. QED
    BY <1>6, <1>9, <1>10, <1>11 DEF r

LEMMA OpensNested ==
    ASSUME NEW w, NEW p, NEW q, Opening(w, p, q), UNCHANGED script, ReadNested
    PROVE  Opened(w, p, q)
<1>. DEFINE c == in.avail
<1>1. /\ ReaderTypes /\ ReaderShape /\ Ahead = Part(w, p, q) /\ BeginIs(w, p)
      /\ q \in 0 .. Len(w) /\ p \in 0 .. q
    BY DEF Opening
<1>2. /\ Becomes(Drop(in.rd, c), 0, in.hdr, in.contentLen, in.paddingLen,
                 in.skip, in.eorStop, in.isClosed, in.error)
      /\ nested # "none" /\ UNCHANGED <<inbox, nested, request>>
      /\ taken' = taken \o SubSeq(in.rd, 1, c)
      /\ filling' = (nested = "values" \/ Len(taken') < BodyLen)
      /\ SubSeq(in.rd, 1, c) \in Seq(Octets(Known))
      /\ ReaderTypes' /\ ReaderShape'
    BY <1>1, ReadNestedIs
<1>3. /\ in'.type = in.type /\ in'.skip = in.skip /\ in'.avail = 0
      /\ in'.contentLen = in.contentLen /\ in'.rd = Drop(in.rd, c) /\ in'.hdr = in.hdr
    BY <1>2 DEF Becomes, Set, Flags
<1>4. /\ p + c \in p .. q /\ Ahead' = Part(w, p + c, q)
      /\ in.hdr = <<>> => SubSeq(in.rd, 1, c) = Part(w, p, p + c)
    <2>1. w \in Seq(Octets(Known)) /\ UNCHANGED inbox
        BY <1>2, OpeningIs
    <2>2. in'.rd = Drop(in.rd, in.avail) /\ in'.hdr = in.hdr
        BY <1>3
    <2>. QED
        BY <1>1, <2>1, <2>2, NestedAhead
<1>5. PICK n \in p .. q : n = p + c
    BY <1>4
<1>6. Moved(w, p, n, q)
    BY <1>2, <1>3, <1>4, <1>5 DEF Moved
<1>7. SUFFICES ASSUME nested = "body" PROVE BeginIs(w, n)'
    <2>1. CASE nested # "body"
        <3>1. ~request.isBeginProcessed
            BY <1>1, <1>2, <2>1 DEF BeginIs, BodyAhead, BodyIn
        <3>2. BeginIs(w, n)'
            BY <1>2, <2>1, <3>1 DEF BeginIs
        <3>. QED
            BY <1>6, <3>2 DEF Opened
    <2>2. (nested = "body" => BeginIs(w, n)') => Opened(w, p, q)
        BY <1>6, <2>1 DEF Opened
    <2>. QED
        BY <2>2
<1>8. ~request.isBeginProcessed
    BY <1>1, <1>7 DEF ReaderShape
<1>9. CASE BodyAhead
    <2>1. taken' = <<>>
        <3>1. taken = <<>> /\ SubSeq(in.rd, 1, c) = <<>>
            BY <1>9 DEF BodyAhead
        <3>. QED
            BY <1>2, <3>1
    <2>2. BodyAhead'
        BY <1>2, <1>3, <1>9, <2>1 DEF BodyAhead
    <2>. QED
        BY <2>2 DEF BeginIs
<1>10. CASE BodyIn(w, p)
    <2>0. /\ Len(w) \in Nat /\ p \in Nat /\ q <= Len(w) /\ p > 0 /\ in.hdr = <<>> /\ ~in.skip
          /\ Len(taken) \in Nat /\ c \in Nat /\ in.contentLen \in Nat /\ q \in Nat
        <3>1. p > 0 /\ in.hdr = <<>> /\ ~in.skip
            BY <1>10 DEF BodyIn
        <3>. QED
            BY <3>1, OpeningIs DEF Counted
    <2>. DEFINE r == w[p][1]
    <2>1. BeginsRequest(r) /\ r.id = request.requestId /\ Len(taken) + (c + in.contentLen) = BodyLen
        BY <1>10 DEF BodyIn, Left
    <2>2. SubSeq(in.rd, 1, c) = Part(w, p, p + c) /\ n <= Len(w)
        BY <1>4, <2>0
    <2>3. PICK t : t = taken \o SubSeq(in.rd, 1, c)
        OBVIOUS
    <2>. HIDE DEF r, c
    <2>4. /\ w[n] = <<w[p][1], HeaderLen + Len(t)>> /\ w[n][1] = w[p][1]
          /\ Len(t) = Len(taken) + c /\ (t # <<>> => Record(t) = w[p][1])
        <3>1. Opening(w, p, q) /\ BodyIn(w, p) /\ ~request.isBeginProcessed
              /\ ReadsOfBody(w, p, n, c, t)
            BY <1>2, <1>5, <1>8, <1>10, <2>2, <2>3 DEF c, ReadsOfBody
        <3>. QED
            BY ONLY <3>1, BodyGoesOn
    <2>5. taken' = t
        BY <1>2, <2>3
    <2>6. Len(taken') + Left(in)' = BodyLen
        <3>1. (Len(taken) + c) + (0 + in.contentLen) = BodyLen
            BY <2>0, <2>1
        <3>. QED
            BY <1>3, <2>4, <2>5, <3>1 DEF Left
    <2>7. n > 0 /\ filling' = (Len(taken') < BodyLen)
        BY <1>2, <1>5, <1>7, <2>0
    <2>8. BodyIn(w, n)'
        BY <1>2, <1>3, <1>8, <2>0, <2>1, <2>4, <2>5, <2>6, <2>7 DEF BodyIn, r
    <2>. QED
        BY <2>8 DEF BeginIs
<1>. QED
    BY <1>1, <1>7, <1>9, <1>10 DEF BeginIs

LEMMA OpensEndBody ==
    ASSUME NEW w, NEW p, NEW q, Opening(w, p, q), UNCHANGED script, EndBody
    PROVE  Opened(w, p, q)
<1>1. ReaderTypes /\ ReaderShape /\ Ahead = Part(w, p, q) /\ BeginIs(w, p)
    BY DEF Opening
<1>2. /\ BodyIsRead \/ BodyIsShort
      /\ nested = "body" /\ nested' = "none" /\ ~filling /\ UNCHANGED <<inbox, filling, taken>>
      /\ Ahead' = Ahead /\ ReaderTypes' /\ ReaderShape'
    BY <1>1, EndBodyIs
<1>3. /\ in'.type = in.type /\ in'.avail = in.avail /\ in'.contentLen = in.contentLen
      /\ in'.skip = in.skip /\ in'.hdr = in.hdr
    BY <1>2 DEF BodyIsRead, BodyIsShort, Stays, Becomes, Set, Flags
<1>4. p \in p .. q
    BY OpeningIs
<1>5. Moved(w, p, p, q)
    BY <1>1, <1>2, <1>3, <1>4 DEF Moved
<1>6. CASE BodyIsRead
    <2>1. /\ Len(taken) = BodyLen
          /\ request' = [request EXCEPT !.isBeginProcessed = TRUE,
                                        !.keepConnection = Record(taken).keep,
                                        !.role = Record(taken).role]
        BY <1>6 DEF BodyIsRead
    <2>2. request'.requestId = request.requestId /\ request'.role = Record(taken).role
        BY <1>1, <2>1 DEF ReaderTypes, IsRequestState
    <2>3. taken # <<>>
        <3>1. Len(<<>>) = 0 /\ BodyLen # 0
            BY OpeningIs
        <3>. QED
            BY <2>1, <3>1
    <2>4. BodyIn(w, p)
        BY <1>1, <1>2, <2>3 DEF BeginIs, BodyAhead
    <2>5. Record(taken) = w[p][1]
        BY <2>3, <2>4 DEF BodyIn
    <2>6. Left(in)' = Left(in)
        BY <1>3 DEF Left
    <2>7. BodyIn(w, p)'
        BY <1>2, <1>3, <2>1, <2>2, <2>4, <2>5, <2>6 DEF BodyIn
    <2>. QED
        BY <1>4, <1>5, <2>7 DEF Opened, BeginIs
<1>7. CASE BodyIsShort
    <2>1. ~request'.isBeginProcessed
        BY <1>1, <1>2, <1>7 DEF ReaderShape, BodyIsShort
    <2>2. BeginIs(w, p)'
        BY <1>2, <2>1 DEF BeginIs
    <2>. QED
        BY <1>4, <1>5, <2>2 DEF Opened
<1>. QED
    BY <1>2, <1>6, <1>7

LEMMA OpensEndValues ==
    ASSUME NEW w, NEW p, NEW q, Opening(w, p, q), UNCHANGED script, EndValues
    PROVE  Opened(w, p, q)
<1>1. ReaderTypes /\ ReaderShape /\ Ahead = Part(w, p, q) /\ BeginIs(w, p)
    BY DEF Opening
<1>2. /\ Stays(FALSE, TRUE, TRUE) \/ Stays(FALSE, FALSE, in.error)
      /\ nested = "values" /\ nested' = "none" /\ UNCHANGED <<inbox, taken, request>>
      /\ Ahead' = Ahead /\ ReaderTypes' /\ ReaderShape'
    BY <1>1, EndValuesIs
<1>3. in'.type = in.type
    BY <1>2 DEF Stays, Becomes, Set
<1>4. BeginIs(w, p)'
    BY <1>1, <1>2 DEF BeginIs, BodyAhead, BodyIn
<1>5. p \in p .. q
    BY OpeningIs
<1>6. Moved(w, p, p, q)
    BY <1>1, <1>2, <1>3, <1>5 DEF Moved
<1>. QED
    BY <1>4, <1>5, <1>6 DEF Opened

LEMMA StreamOpens ==
    ASSUME NEW w, NEW p, NEW q, Opening(w, p, q), UNCHANGED script, StreamStep
    PROVE  Opened(w, p, q)
<1>1. CASE ReadHeader
    <2>0. /\ RecordDone /\ ~in.eorStop
          /\ IF Len(Header) = HeaderLen THEN ProcessHeader(Header)
             ELSE GoesOn([in EXCEPT !.rd = <<>>, !.hdr = Header]) /\ Local
        BY <1>1 DEF ReadHeader, Header
    <2>1. CASE Len(Header) = HeaderLen
        BY <2>0, <2>1, OpensHeaderStep
    <2>2. CASE Len(Header) # HeaderLen
        BY <2>0, <2>2, OpensPartOfHeader
    <2>. QED
        BY <2>1, <2>2
<1>. QED
    BY <1>1, OpensRead, OpensDeliver, OpensSkipContent, OpensSkipPadding, OpensEndOfRecord,
       OpensNested, OpensEndBody, OpensEndValues DEF StreamStep, FillBuffProc
-----------------------------------------------------------------------------
(* Steps of the stream in a request that is not followed. *)
Passing(w, p, q) ==
    /\ ReaderTypes /\ ReaderShape /\ w \in Seq(Octets(Known))
    /\ q \in 0 .. Len(w) /\ p \in 0 .. q /\ Ahead = Part(w, p, q)
    /\ request.isBeginProcessed /\ nested # "body"

Passed(w, p, q) ==
    \E n \in p .. q : Moved(w, p, n, q) /\ UNCHANGED request /\ nested' # "body"

LEMMA PassesStill ==
    ASSUME NEW w, NEW p, NEW q, Passing(w, p, q), ReaderTypes', ReaderShape', in'.type = in.type,
           Ahead' = Ahead, UNCHANGED request, nested' # "body"
    PROVE  Passed(w, p, q)
<1>1. p \in p .. q
    <2>1. Len(w) \in Nat
        BY LenProperties DEF Passing
    <2>. QED
        BY <2>1 DEF Passing
<1>2. Moved(w, p, p, q)
    BY <1>1 DEF Moved, Passing
<1>. QED
    BY <1>1, <1>2 DEF Passed

LEMMA PassesDropped ==
    ASSUME NEW w, NEW p, NEW q, Passing(w, p, q), ReaderTypes', ReaderShape', in'.type = in.type,
           in.hdr = <<>>, in'.hdr = <<>>, UNCHANGED <<inbox, request>>, nested' # "body",
           NEW c \in 0 .. Len(in.rd), in'.rd = Drop(in.rd, c)
    PROVE  Passed(w, p, q)
<1>1. p + c \in p .. q /\ Ahead' = Part(w, p + c, q)
    BY AheadDropped DEF Passing
<1>2. PICK n \in p .. q : n = p + c
    BY <1>1
<1>3. Moved(w, p, n, q)
    BY <1>1, <1>2 DEF Moved
<1>. QED
    BY <1>3 DEF Passed

LEMMA StreamPasses ==
    ASSUME NEW w, NEW p, NEW q, Passing(w, p, q), UNCHANGED script, StreamStep
    PROVE  Passed(w, p, q)
<1>0. /\ ReaderTypes /\ ReaderShape /\ request.isBeginProcessed /\ nested # "body"
      /\ w \in Seq(Octets(Known)) /\ q \in 0 .. Len(w) /\ p \in 0 .. q /\ Ahead = Part(w, p, q)
    BY DEF Passing
<1>1. CASE OS_Read
    <2>1. (HasRead \/ Failed) /\ Ahead' = Ahead /\ ReaderTypes' /\ ReaderShape'
        BY <1>0, <1>1, ReadIs
    <2>2. UNCHANGED <<nested, request>> /\ in'.type = in.type
        BY <1>1, <2>1 DEF OS_Read, HasRead, Failed, Set
    <2>. QED
        BY <1>0, <2>1, <2>2, PassesStill
<1>2. CASE Deliver
    <2>1. /\ in'.type = in.type /\ UNCHANGED <<nested, request>>
          /\ Ahead' = Ahead /\ ReaderTypes' /\ ReaderShape'
        BY <1>0, <1>2, DeliverIs DEF Becomes, Set, RestSame
    <2>. QED
        BY <1>0, <2>1, PassesStill
<1>3. CASE SkipContent
    <2>. DEFINE c == Count
    <2>1. /\ in'.type = in.type /\ UNCHANGED <<inbox, nested, request>> /\ in'.rd = Drop(in.rd, c)
          /\ in'.hdr = in.hdr /\ HasContent /\ ReaderTypes' /\ ReaderShape'
        BY <1>0, <1>3, SkipContentIs DEF Becomes, Set, RestSame
    <2>2. c \in 0 .. Len(in.rd) /\ in.hdr = <<>>
        BY <1>0, <2>1, CountIs
    <2>. HIDE DEF c
    <2>. QED
        BY <1>0, <2>1, <2>2, PassesDropped
<1>4. CASE SkipPadding
    <2>. DEFINE c == PaddingBytes
    <2>1. /\ in'.type = in.type /\ UNCHANGED <<inbox, nested, request>> /\ in'.rd = Drop(in.rd, c)
          /\ in'.hdr = in.hdr /\ in.hdr = <<>> /\ c \in 0 .. Len(in.rd) /\ ReaderTypes' /\ ReaderShape'
        BY <1>0, <1>4, SkipPaddingIs DEF Becomes, Set, RestSame
    <2>. HIDE DEF c
    <2>. QED
        BY <1>0, <2>1, PassesDropped
<1>5. CASE EndOfRecord
    <2>1. /\ in'.type = in.type /\ UNCHANGED <<nested, request>>
          /\ Ahead' = Ahead /\ ReaderTypes' /\ ReaderShape'
        BY <1>0, <1>5, EndOfRecordIs DEF Becomes, Set, RestSame
    <2>. QED
        BY <1>0, <2>1, PassesStill
<1>6. CASE ReadHeader
    <2>0. /\ RecordDone /\ ~in.eorStop
          /\ IF Len(Header) = HeaderLen THEN ProcessHeader(Header)
             ELSE GoesOn([in EXCEPT !.rd = <<>>, !.hdr = Header]) /\ Local
        BY <1>6 DEF ReadHeader, Header
    <2>1. CASE Len(Header) = HeaderLen
        <3>1. HeaderStep(Record(Header))
            BY <1>0, <2>0, <2>1, HeaderStepIs
        <3>2. HeaderMoved
            BY <1>0, <2>0, <2>1, <3>1, HeaderMoves
        <3>3. p + HeaderLen \in p .. q /\ Ahead' = Part(w, p + HeaderLen, q)
            BY <1>0, <2>1, <3>2, AheadHeaded DEF HeaderMoved
        <3>4. PICK n \in p .. q : n = p + HeaderLen
            BY <3>3
        <3>5. Moved(w, p, n, q)
            BY <3>2, <3>3, <3>4 DEF Moved, HeaderMoved
        <3>6. nested = "none"
            BY <1>0, <2>0 DEF ReaderShape
        <3>7. UNCHANGED request /\ nested' # "body"
            BY <1>0, <3>1, <3>6 DEF HeaderStep, HeaderFails, HeaderSkips, HeaderBegins, HeaderValues,
                               HeaderUnknown, HeaderEnds, HeaderContent, RestSame
        <3>. QED
            BY <3>5, <3>7 DEF Passed
    <2>2. CASE Len(Header) # HeaderLen
        <3>1. /\ in'.type = in.type /\ UNCHANGED <<nested, request>>
              /\ Ahead' = Ahead /\ ReaderTypes' /\ ReaderShape'
            BY <1>0, <2>0, <2>2, PartOfHeaderIs DEF Becomes, Set, RestSame
        <3>. QED
            BY <1>0, <3>1, PassesStill
    <2>. QED
        BY <2>1, <2>2
<1>7. CASE ReadNested
    <2>1. /\ in'.type = in.type /\ in'.rd = Drop(in.rd, in.avail) /\ in'.hdr = in.hdr
          /\ UNCHANGED <<inbox, nested, request>> /\ ReaderTypes' /\ ReaderShape'
        BY <1>0, <1>7, ReadNestedIs DEF Becomes, Set
    <2>2. p + in.avail \in p .. q /\ Ahead' = Part(w, p + in.avail, q)
        BY <1>0, <2>1, NestedAhead
    <2>3. PICK n \in p .. q : n = p + in.avail
        BY <2>2
    <2>4. Moved(w, p, n, q)
        BY <2>1, <2>2, <2>3 DEF Moved
    <2>. QED
        BY <1>0, <2>1, <2>4 DEF Passed
<1>8. ~EndBody
    BY <1>0 DEF EndBody
<1>9. CASE EndValues
    <2>1. /\ in'.type = in.type /\ nested' = "none" /\ UNCHANGED request
          /\ Ahead' = Ahead /\ ReaderTypes' /\ ReaderShape'
        BY <1>0, <1>9, EndValuesIs DEF Stays, Becomes, Set
    <2>. QED
        BY <1>0, <2>1, PassesStill
<1>. QED
    BY <1>1, <1>2, <1>3, <1>4, <1>5, <1>6, <1>7, <1>8, <1>9 DEF StreamStep, FillBuffProc
-----------------------------------------------------------------------------
(* What is known of the wire from the script: the request that record r    *)
(* begins is alone there in the end, or all its streams end on it.         *)
ViewOf(e, id, role) ==
    [of |-> e, id |-> id,
     watch |-> IF e < Len(script[conn]) \/ role = "FILTER" THEN Streams ELSE {"PARAMS"}]

StreamsOf(role) == IF role = "FILTER" THEN Streams ELSE {"PARAMS", "STDIN"}

Surrounds(w, v, role) ==
    /\ OnTheWire(Known, w) /\ v.id # 0 /\ v.of \in Nat /\ Ordered(w, v)
    /\ \/ IsLast(w, v) /\ v.watch = {"PARAMS"}
       \/ v.watch = Streams /\ \A type \in StreamsOf(role) : Ends(w, v, type)

(* A record on the wire is that of the script. *)
InScript(w, s) ==
    \A j \in DOMAIN w : LET r == w[j][1] IN
        /\ r.of[2] \in 1 .. sent /\ r.of = <<conn, r.of[2]>> /\ r.of[2] \in DOMAIN s
        /\ r.no \in DOMAIN s[r.of[2]] /\ r = s[r.of[2]][r.no]

LEMMA WireInScript ==
    ASSUME OnConnection
    PROVE  InScript(Sent, script[conn]) /\ OnTheWire(Known, Sent)
<1>. DEFINE s == script[conn]
            w == Sent
<1>1. /\ Sized(Known) /\ s \in Lists(Known) /\ AtPlace(s) /\ Located(s, conn)
      /\ OnWire(Known, w, s, sent)
    BY SentIs
<1>2. Len(s) \in Nat /\ DOMAIN s = 1 .. Len(s) /\ sent \in 0 .. Len(s)
    BY <1>1, FlatIs DEF OnConnection
<1>3. OnTheWire(Known, w)
    BY <1>1 DEF OnTheWire, OnWire
<1>4. ASSUME NEW j \in DOMAIN w
      PROVE  LET r == w[j][1] IN
             /\ r.of[2] \in 1 .. sent /\ r.of = <<conn, r.of[2]>> /\ r.of[2] \in DOMAIN s
             /\ r.no \in DOMAIN s[r.of[2]] /\ r = s[r.of[2]][r.no]
    <2>1. PICK e \in 1 .. sent : \E i \in DOMAIN s[e] : w[j][1] = s[e][i]
        BY <1>1 DEF OnWire
    <2>2. PICK i \in DOMAIN s[e] : w[j][1] = s[e][i]
        BY <2>1
    <2>3. e \in DOMAIN s
        BY <1>2
    <2>. HIDE DEF s, w
    <2>4. s[e][i].of[2] = e /\ s[e][i].no = i /\ s[e][i].of = <<conn, e>>
        BY <1>1, <2>3 DEF AtPlace, Located
    <2>. QED
        BY <2>2, <2>3, <2>4
<1>. QED
    BY <1>3, <1>4 DEF InScript

LEMMA WireOrdered ==
    ASSUME OnConnection, NEW v, v.of \in 1 .. sent, v.id # 0
    PROVE  Ordered(Sent, v)
<1>. DEFINE s == script[conn]
            w == Sent
            x == s[v.of]
<1>1. InScript(w, s) /\ OnTheWire(Known, w) /\ Sorted(w)
    BY WireInScript DEF OnTheWire
<1>2. /\ s \in Lists(Known) /\ AtPlace(s) /\ Orderly(x) /\ v.of \in DOMAIN s
      /\ \A i \in DOMAIN x : x[i].of[2] = v.of /\ x[i].no = i
      /\ DOMAIN x = 1 .. Len(x)
    <2>1. s \in Lists(Known) /\ AtPlace(s)
        BY SentIs
    <2>2. v.of \in DOMAIN s /\ \A e \in DOMAIN s : s[e] \in Seq(Known)
        <3>1. Len(s) \in Nat /\ DOMAIN s = 1 .. Len(s) /\ (\A e \in 1 .. Len(s) : s[e] \in Seq(Known))
            BY <2>1, FlatIs
        <3>. QED
            BY <3>1 DEF OnConnection
    <2>3. Orderly(x)
        BY <2>2, ScriptsAssumption DEF OnConnection
    <2>4. DOMAIN x = 1 .. Len(x)
        <3>1. x \in Seq(Known)
            BY <2>2
        <3>. QED
            BY <3>1, LenProperties
    <2>. QED
        BY <2>1, <2>2, <2>3, <2>4 DEF AtPlace
<1>. HIDE DEF s, w, x
<1>3. ASSUME NEW j \in DOMAIN w, Ours(v, w[j][1])
      PROVE  LET r == w[j][1] IN r.no \in DOMAIN x /\ r = x[r.no] /\ r.no \in Nat
    BY <1>1, <1>2, <1>3, WireByte DEF InScript, Ours, x
<1>4. ASSUME NEW i \in DOMAIN w, NEW j \in DOMAIN w, Ours(v, w[i][1]), Ours(v, w[j][1]),
             w[i][1].no < w[j][1].no
      PROVE  i < j
    BY <1>1, <1>4 DEF Sorted, Earlier, Ours
<1>5. \A j \in DOMAIN w : j \in Nat
    <2>1. w \in Seq(Octets(Known))
        BY <1>1 DEF OnTheWire
    <2>2. DOMAIN w = 1 .. Len(w)
        BY <2>1, LenProperties
    <2>. QED
        BY <2>2
<1>6. ASSUME NEW i \in DOMAIN w, NEW j \in DOMAIN w, Ours(v, w[i][1]), Ours(v, w[j][1]),
             w[i][1] # w[j][1]
      PROVE  /\ w[i][1].type = "BEGIN_REQUEST" => i < j
             /\ i < j => /\ w[i][1].type \notin After(w[j][1].type)
                         /\ w[i][1].type \in Streams /\ w[i][1].len = 0 => w[i][1].type # w[j][1].type
    <2>. DEFINE a == w[i][1]
                b == w[j][1]
    <2>1. /\ a.no \in DOMAIN x /\ a = x[a.no] /\ a.no \in Nat
          /\ b.no \in DOMAIN x /\ b = x[b.no] /\ b.no \in Nat
        BY <1>3, <1>6
    <2>2. a.id = v.id /\ b.id = v.id
        BY <1>6 DEF Ours
    <2>3. a.no # b.no
        BY <1>6, <2>1
    <2>. HIDE DEF a, b
    <2>4. /\ a.type = "BEGIN_REQUEST" => a.no <= b.no
          /\ a.no < b.no => /\ a.type \notin After(b.type)
                            /\ a.type \in Streams /\ a.len = 0 => a.type # b.type
        <3>1. x[a.no].id # 0 /\ x[a.no].id = x[b.no].id
            BY <1>6, <2>1, <2>2
        <3>2. /\ x[a.no].type = "BEGIN_REQUEST" => a.no <= b.no
              /\ a.no < b.no => /\ x[a.no].type \notin After(x[b.no].type)
                                /\ x[a.no].type \in Streams /\ x[a.no].len = 0
                                      => x[a.no].type # x[b.no].type
            BY <1>2, <2>1, <3>1 DEF Orderly
        <3>. QED
            BY <2>1, <3>2
    <2>5. a.no < b.no => i < j
        BY <1>4, <1>6 DEF a, b
    <2>6. i < j => a.no < b.no
        <3>1. b.no < a.no => j < i
            BY <1>4, <1>6 DEF a, b
        <3>. QED
            BY <1>5, <2>1, <2>3, <3>1
    <2>. QED
        BY <2>1, <2>3, <2>4, <2>5, <2>6 DEF a, b
<1>. QED
    BY <1>6 DEF Ordered, w

LEMMA WireSurrounds ==
    ASSUME OnConnection, NEW b \in DOMAIN Sent, NEW r, r = Sent[b][1], BeginsRequest(r)
    PROVE  Surrounds(Sent, ViewOf(r.of[2], r.id, r.role), r.role)
<1>. DEFINE s == script[conn]
            w == Sent
            e == r.of[2]
            x == s[e]
            v == ViewOf(e, r.id, r.role)
<1>1. InScript(w, s) /\ OnTheWire(Known, w) /\ OnWire(Known, w, s, sent)
    BY WireInScript, SentIs
<1>2. r.id # 0 /\ e \in 1 .. sent /\ e \in DOMAIN s /\ r.no \in DOMAIN x /\ r = x[r.no]
    BY <1>1 DEF InScript, BeginsRequest
<1>3. v.id = r.id /\ v.of = e
    BY DEF ViewOf
<1>4. Ordered(w, v)
    BY <1>2, <1>3, WireOrdered
<1>5. AtPlace(s) /\ Len(s) \in Nat /\ DOMAIN s = 1 .. Len(s) /\ sent \in 0 .. Len(s)
    BY SentIs, FlatIs DEF OnConnection
<1>6. Complete(x, r.no) \/ (e = Len(s) /\ r.role # "FILTER")
    BY <1>2, ScriptsAssumption DEF OnConnection
<1>7. v.watch = IF e < Len(s) \/ r.role = "FILTER" THEN Streams ELSE {"PARAMS"}
    BY DEF ViewOf
<1>. HIDE DEF v
<1>8. CASE e = Len(s) /\ r.role # "FILTER"
    <2>1. v.watch = {"PARAMS"}
        BY <1>5, <1>7, <1>8
    <2>2. ASSUME NEW j \in DOMAIN w PROVE w[j][1].of[2] <= v.of
        <3>1. w[j][1].of[2] \in 1 .. sent
            BY <1>1 DEF InScript
        <3>. HIDE DEF w, s, e
        <3>. QED
            BY <1>3, <1>5, <1>8, <3>1
    <2>3. IsLast(w, v)
        BY <2>2 DEF IsLast
    <2>. QED
        BY <1>1, <1>2, <1>3, <1>4, <1>5, <2>1, <2>3 DEF Surrounds, v
<1>9. CASE ~(e = Len(s) /\ r.role # "FILTER")
    <2>1. Complete(x, r.no)
        BY <1>6, <1>9
    <2>2. v.watch = Streams
        <3>. HIDE DEF s, e, x
        <3>1. e \in Nat /\ sent \in Nat /\ e <= sent /\ sent <= Len(s)
            BY <1>2, <1>5
        <3>2. e = Len(s) \/ e < Len(s)
            <4>1. Len(s) \in Nat
                BY <1>5
            <4>. QED
                BY ONLY <3>1, <4>1
        <3>3. e < Len(s) \/ r.role = "FILTER"
            BY ONLY <1>9, <3>2
        <3>. QED
            BY ONLY <1>7, <3>3
    <2>3. ASSUME NEW type \in StreamsOf(r.role) PROVE Ends(w, v, type)
        <3>1. type \in Streams
            BY DEF StreamsOf, Streams
        <3>2. PICK i \in DOMAIN x : x[i].id = r.id /\ x[i].type = type /\ x[i].len = 0
            <4>1. \E i \in DOMAIN x : x[i].id = x[r.no].id /\ x[i].type = type /\ x[i].len = 0
                <5>. HIDE DEF x
                <5>1. \A t \in StreamsOf(x[r.no].role) :
                        \E i \in DOMAIN x : x[i].id = x[r.no].id /\ x[i].type = t /\ x[i].len = 0
                    BY <2>1 DEF Complete, StreamsOf
                <5>2. type \in StreamsOf(x[r.no].role)
                    BY <1>2
                <5>. QED
                    BY <5>1, <5>2
            <4>. QED
                BY <1>2, <4>1
        <3>3. PICK j \in DOMAIN w : w[j] = <<x[i], 1>>
            BY <1>1, <1>2, <3>2 DEF OnWire
        <3>4. x[i].of[2] = e
            BY <1>2, <1>5, <3>2 DEF AtPlace
        <3>. HIDE DEF x, w
        <3>. QED
            BY <1>3, <2>2, <3>1, <3>2, <3>3, <3>4 DEF Ends, Ours
    <2>. QED
        BY <1>1, <1>2, <1>3, <1>4, <1>5, <2>2, <2>3 DEF Surrounds, v
<1>. QED
    BY <1>8, <1>9
-----------------------------------------------------------------------------
(* The inductive invariant: the reader is at byte p of the wire and what   *)
(* it has ahead of it goes up to byte q.                                   *)
Position(w, p, q) ==
    /\ q \in 0 .. Len(w) /\ p \in 0 .. q
    /\ Ahead = Part(w, p, q) /\ (open => q = Len(w))

Begun(w, p) ==
    \E b \in 1 .. p : LET r == w[b][1] IN
        BeginsRequest(r) /\ r.id = request.requestId /\ r.of[2] = serving[2] /\ r.role = request.role

(* Of a request that is served. *)
Attends(w, p) ==
    /\ serving[1] = conn /\ serving[2] \in 1 .. sent
    /\ request.isBeginProcessed /\ nested # "body"
    /\ IF at = "reading params" THEN in.type = "PARAMS"
       ELSE in.type = "STDIN" \/ (in.type = "DATA" /\ request.role = "FILTER")
    /\ \A t \in After(in.type) : got[t] = <<>>
    /\ Begun(w, p)

(* The caller has of each stream what is in some first bytes of the wire. *)
Chose(w, v) == \A t \in Streams : \E n \in 0 .. Len(w) : got[t] = Chosen(v, t, Part(w, 0, n))

Reads(w, v, p) == Chose(w, v) /\ Follows(w, v, in, nested, got[in.type], p)

Active == {"reading begin", "reading params", "app", "finish"}

Resting == in = NewReader("NONE") /\ ~filling /\ nested = "none"

Settled ==
    /\ script \in Scripts
    /\ (conn = 0 /\ sent = 0) \/ OnConnection
    /\ fd => conn # 0
    /\ ~fd => inbox = <<>>
    /\ at \in Active => fd
    /\ at \notin Active => Resting
    /\ at = "finish" => Back
    /\ got \in [Streams -> Seq(Octets(Known))]
    /\ ~Serving => got = NothingRead

Here(w, p, q) ==
    /\ Reader /\ Settled /\ w = Sent /\ Position(w, p, q)
    /\ at = "reading begin" => BeginIs(w, p)
    /\ Serving => Attends(w, p)
    /\ Serving /\ Quiet(Exchange(serving)) => Reads(w, View, p)

ReadInv == \E w \in {Sent} : \E q \in 0 .. Len(w) : \E p \in 0 .. q : Here(w, p, q)

LEMMA HereIs == ASSUME NEW w, NEW p, NEW q, Here(w, p, q) PROVE ReadInv
BY DEF ReadInv, Here, Position

LEMMA HereNext == ASSUME NEW w, NEW p, NEW q, Here(w, p, q)' PROVE ReadInv'
BY DEF ReadInv, Here, Position

LEMMA SentOnTheWire ==
    ASSUME Settled
    PROVE  /\ OnTheWire(Known, Sent) /\ Sent \in Seq(Octets(Known)) /\ Len(Sent) \in Nat
           /\ Sent # <<>> => OnConnection
<1>1. CASE OnConnection
    <2>1. OnTheWire(Known, Sent)
        BY <1>1, WireInScript
    <2>. QED
        BY <1>1, <2>1, LenProperties DEF OnTheWire
<1>2. CASE conn = 0 /\ sent = 0
    <2>1. Sent = <<>>
        BY <1>2 DEF Sent
    <2>2. Sized(Known)
        BY ScriptIs DEF Settled, Known
    <2>3. <<>> \in Seq(Octets(Known)) /\ DOMAIN <<>> = {} /\ Len(<<>>) = 0
        OBVIOUS
    <2>4. Whole(<<>>) /\ Sorted(<<>>)
        BY <2>3 DEF Whole, Sorted
    <2>. QED
        BY <2>1, <2>2, <2>3, <2>4 DEF OnTheWire
<1>. QED
    BY <1>1, <1>2 DEF Settled

LEMMA PositionIs ==
    ASSUME NEW w, NEW p, NEW q, Here(w, p, q)
    PROVE  /\ OnTheWire(Known, w) /\ w \in Seq(Octets(Known)) /\ Len(w) \in Nat
           /\ q \in 0 .. Len(w) /\ p \in 0 .. q /\ p \in Nat /\ q \in Nat
           /\ Ahead = Part(w, p, q) /\ ReaderTypes /\ ReaderShape
           /\ w # <<>> => OnConnection
<1>1. OnTheWire(Known, w) /\ w \in Seq(Octets(Known)) /\ Len(w) \in Nat /\ (w # <<>> => OnConnection)
    BY SentOnTheWire DEF Here
<1>2. q \in 0 .. Len(w) /\ p \in 0 .. q /\ Ahead = Part(w, p, q) /\ ReaderTypes /\ ReaderShape
    BY DEF Here, Position, Reader
<1>3. p \in Nat /\ q \in Nat
    BY <1>1, <1>2
<1>. QED
    BY <1>1, <1>2, <1>3

(* What is known of a request that is served. *)
LEMMA ServingIs ==
    ASSUME NEW w, NEW p, NEW q, Here(w, p, q), Serving
    PROVE  /\ OnConnection /\ Attends(w, p)
           /\ Surrounds(w, View, request.role)
           /\ in.type \in StreamsOf(request.role) /\ in.type \in Streams
           /\ \E b \in 1 .. p : w[b][1].of[2] = View.of
           /\ View.id = request.requestId /\ View.of = serving[2]
<1>1. Attends(w, p) /\ w = Sent
    BY DEF Here
<1>2. OnConnection
    <2>1. serving[2] \in 1 .. sent
        BY <1>1 DEF Attends
    <2>2. sent # 0
        BY <2>1
    <2>. QED
        BY <2>2 DEF Here, Settled
<1>3. /\ Len(w) \in Nat /\ DOMAIN w = 1 .. Len(w) /\ p \in Nat /\ p <= Len(w)
    <2>1. w \in Seq(Octets(Known)) /\ q \in 0 .. Len(w) /\ p \in 0 .. q /\ Len(w) \in Nat
        BY PositionIs
    <2>. QED
        BY <2>1, LenProperties
<1>4. PICK b \in 1 .. p : LET r == w[b][1] IN
        BeginsRequest(r) /\ r.id = request.requestId /\ r.of[2] = serving[2] /\ r.role = request.role
    BY <1>1 DEF Attends, Begun
<1>5. b \in DOMAIN w
    BY <1>3
<1>6. Surrounds(w, ViewOf(serving[2], request.requestId, request.role), request.role)
    BY <1>1, <1>2, <1>4, <1>5, WireSurrounds
<1>7. View = ViewOf(serving[2], request.requestId, request.role)
    BY DEF View, ViewOf
<1>8. View.id = request.requestId /\ View.of = serving[2]
    BY DEF View
<1>9. in.type \in StreamsOf(request.role) /\ in.type \in Streams
    BY <1>1 DEF Attends, StreamsOf, Streams
<1>. QED
    BY <1>1, <1>2, <1>4, <1>6, <1>7, <1>8, <1>9

LEMMA SceneIs ==
    ASSUME NEW w, NEW p, NEW q, Here(w, p, q), Serving, Quiet(Exchange(serving)), NEW v, v = View
    PROVE  Scene(Known, w, v, in.type)
<1>1. /\ OnConnection /\ Surrounds(w, v, request.role) /\ in.type \in StreamsOf(request.role)
      /\ in.type \in Streams /\ v.id = request.requestId /\ v.of = serving[2] /\ w = Sent
    BY ServingIs DEF Here
<1>2. serving[1] = conn
    BY DEF Here, Attends
<1>3. InScript(w, script[conn])
    BY <1>1, WireInScript
<1>4. IsLast(w, v) \/ Ends(w, v, in.type)
    BY <1>1 DEF Surrounds
<1>5. ASSUME NEW j \in DOMAIN w, w[j][1].of[2] = v.of
      PROVE  Calm(v, w[j][1])
    <2>. DEFINE r == w[j][1]
                x == Exchange(serving)
    <2>1. r.no \in DOMAIN x /\ r = x[r.no]
        BY <1>1, <1>2, <1>3, <1>5 DEF InScript, Exchange
    <2>2. ~Upsets(r)
        BY <2>1 DEF Quiet
    <2>3. r.len \in Nat
        BY <1>1, WireByte DEF Surrounds
    <2>. HIDE DEF r, x
    <2>4. Calm(v, r)
        BY <1>1, <2>2, <2>3 DEF Upsets, Calm
    <2>. QED
        BY <2>4 DEF r
<1>. HIDE DEF View
<1>. QED
    BY <1>1, <1>4, <1>5 DEF Scene, Surrounds

LEMMA AttendsMoved ==
    ASSUME NEW w, NEW p \in Nat, NEW n \in Nat, p <= n, Attends(w, p),
           UNCHANGED <<at, conn, sent, serving, request>>, in'.type = in.type, nested' # "body",
           \A t \in After(in.type) : got'[t] = got[t]
    PROVE  Attends(w, n)'
<1>1. Begun(w, p)
    BY DEF Attends
<1>2. 1 .. p \subseteq 1 .. n
    OBVIOUS
<1>3. Begun(w, n)
    BY <1>1, <1>2 DEF Begun
<1>4. Begun(w, n)'
    BY <1>3 DEF Begun
<1>. QED
    BY <1>4 DEF Attends

LEMMA ServingSame ==
    ASSUME UNCHANGED <<at, script, conn, sent, serving, got, request>>
    PROVE  /\ Serving' = Serving /\ View' = View /\ Sent' = Sent /\ Known' = Known
           /\ Quiet(Exchange(serving))' = Quiet(Exchange(serving))
           /\ OnConnection' = OnConnection /\ NothingRead' = NothingRead
<1>1. Exchange(serving)' = Exchange(serving)
    BY DEF Exchange
<1>2. Quiet(Exchange(serving))' = Quiet(Exchange(serving))
    BY <1>1 DEF Quiet, Upsets
<1>3. View' = View
    BY DEF View
<1>4. Sent' = Sent /\ OnConnection' = OnConnection
    BY DEF Sent, OnConnection
<1>. QED
    BY <1>2, <1>3, <1>4 DEF Serving, Known, NothingRead

(* The stream is read between Begin and FCGX_Free only. *)
LEMMA StreamWhenActive == ASSUME Settled, StreamStep PROVE at \in Active /\ fd /\ at # "finish"
<1>1. filling \/ nested # "none"
    BY DEF StreamStep, FillBuffProc, OS_Read, Deliver, SkipContent, SkipPadding, EndOfRecord,
           ReadHeader, RecordDone, HasContent, ReadNested, EndBody, EndValues
<1>. QED
    BY <1>1 DEF Settled, Resting, Back

LEMMA SettledActive ==
    ASSUME Settled, fd, at \in Active \ {"finish"},
           UNCHANGED <<script, conn, sent, fd, at, got>>
    PROVE  Settled'
<1>1. OnConnection' = OnConnection /\ Known' = Known /\ Serving' = Serving
    BY DEF OnConnection, Known, Serving
<1>2. NothingRead' = NothingRead
    BY DEF NothingRead
<1>. QED
    BY <1>1, <1>2 DEF Settled

LEMMA HereServes ==
    ASSUME NEW w, NEW p, NEW q, Here(w, p, q), Serving, at # "finish",
           UNCHANGED <<script, conn, sent, fd, at, serving, got, request, open>>,
           NEW n \in p .. q, Moved(w, p, n, q), nested' # "body",
           Quiet(Exchange(serving)) => Follows(w, View, in', nested', got[in.type], n)
    PROVE  Here(w, n, q)'
<1>1. /\ w \in Seq(Octets(Known)) /\ Len(w) \in Nat
      /\ q \in 0 .. Len(w) /\ p \in 0 .. q /\ p \in Nat /\ q \in Nat
    BY PositionIs
<1>2. n \in 0 .. q /\ n \in Nat /\ p <= n
    BY <1>1
<1>3. Reader' /\ in'.type = in.type
    BY DEF Moved, Reader
<1>4. Position(w, n, q)'
    BY <1>1, <1>2 DEF Moved, Position, Here
<1>5. at \in Active \ {"finish"} /\ at' # "reading begin"
    BY DEF Serving, Active
<1>6. Settled'
    BY <1>5, SettledActive DEF Here, Settled
<1>7. /\ Serving' = Serving /\ View' = View /\ Sent' = Sent
      /\ Quiet(Exchange(serving))' = Quiet(Exchange(serving))
    BY ServingSame
<1>8. Attends(w, n)'
    <2>1. Attends(w, p)
        BY DEF Here
    <2>. QED
        BY <1>1, <1>2, <1>3, <2>1, AttendsMoved
<1>9. Serving' /\ Quiet(Exchange(serving))' => Reads(w, View, n)'
    <2>1. Serving /\ Quiet(Exchange(serving))' => Chose(w, View)
        BY <1>7 DEF Here, Reads
    <2>2. Chose(w, View)' <=> Chose(w, View)
        BY <1>7 DEF Chose
    <2>3. Follows(w, View, in', nested', got[in.type], n) <=>
          Follows(w, View, in, nested, got[in.type], n)'
        BY <1>3, <1>7
    <2>. QED
        BY <1>7, <2>1, <2>2, <2>3 DEF Reads
<1>. QED
    BY <1>3, <1>4, <1>5, <1>6, <1>7, <1>8, <1>9 DEF Here

LEMMA ReadStream == ASSUME NEW w, NEW p, NEW q, Here(w, p, q), Stream PROVE ReadInv'
<1>1. StreamStep /\ UNCHANGED <<script, conn, sent, fd, at, serving, got>>
    BY DEF Stream, serverVars, appVars
<1>2. Settled /\ at \in Active \ {"finish"} /\ at \in Active /\ fd
    BY <1>1, StreamWhenActive DEF Here
<1>3. UNCHANGED open
    BY <1>1, StreamSends DEF SendsElsewhere
<1>4. /\ OnTheWire(Known, w) /\ w \in Seq(Octets(Known)) /\ Len(w) \in Nat
      /\ q \in 0 .. Len(w) /\ p \in 0 .. q /\ p \in Nat /\ q \in Nat
      /\ Ahead = Part(w, p, q) /\ ReaderTypes /\ ReaderShape
    BY PositionIs
<1>5. CASE at = "reading begin"
    <2>1. Opening(w, p, q)
        BY <1>4, <1>5 DEF Opening, Here
    <2>2. Opened(w, p, q)
        BY <1>1, <2>1, StreamOpens
    <2>3. PICK n \in p .. q : Moved(w, p, n, q) /\ BeginIs(w, n)'
        BY <2>2 DEF Opened
    <2>4. n \in 0 .. q
        BY <1>4
    <2>5. Reader' /\ Position(w, n, q)'
        BY <1>3, <1>4, <2>3, <2>4 DEF Moved, Reader, Position, Here
    <2>6. Settled'
        BY <1>1, <1>2, SettledActive
    <2>7. Sent' = Sent /\ ~Serving'
        BY <1>1, <1>5 DEF Sent, Serving
    <2>8. Here(w, n, q)'
        BY <2>3, <2>5, <2>6, <2>7 DEF Here
    <2>. QED
        BY <2>8, HereNext
<1>6. CASE at # "reading begin"
    <2>1. Serving /\ at # "finish"
        BY <1>2, <1>6 DEF Active, Serving
    <2>2. Attends(w, p)
        BY <2>1 DEF Here
    <2>3. CASE Quiet(Exchange(serving))
        <3>1. PICK v : v = View
            OBVIOUS
        <3>2. Scene(Known, w, v, in.type)
            BY <2>1, <2>3, <3>1, SceneIs
        <3>3. v.id = request.requestId /\ \E b \in 1 .. p : w[b][1].of[2] = v.of
            BY <2>1, <3>1, ServingIs
        <3>4. Follows(w, v, in, nested, got[in.type], p)
            BY <2>1, <2>3, <3>1 DEF Here, Reads
        <3>5. PICK g : g = got[in.type]
            OBVIOUS
        <3>6. Watched(w, v, g, p, q)
            BY <1>4, <2>2, <3>2, <3>3, <3>4, <3>5 DEF Watched, Attends
        <3>7. Progress(w, v, g, p, q)
            BY <1>1, <3>6, StreamFollows
        <3>8. PICK n \in p .. q : /\ Moved(w, p, n, q) /\ UNCHANGED request /\ nested' # "body"
                                  /\ Follows(w, v, in', nested', g, n)
            BY <3>7 DEF Progress
        <3>9. Here(w, n, q)'
            BY <1>1, <1>3, <2>1, <3>1, <3>5, <3>8, HereServes
        <3>. QED
            BY <3>9, HereNext
    <2>4. CASE ~Quiet(Exchange(serving))
        <3>1. Passing(w, p, q)
            BY <1>4, <2>2 DEF Passing, Attends
        <3>2. Passed(w, p, q)
            BY <1>1, <3>1, StreamPasses
        <3>3. PICK n \in p .. q : Moved(w, p, n, q) /\ UNCHANGED request /\ nested' # "body"
            BY <3>2 DEF Passed
        <3>4. Here(w, n, q)'
            BY <1>1, <1>3, <2>1, <2>4, <3>3, HereServes
        <3>. QED
            BY <3>4, HereNext
    <2>. QED
        BY <2>3, <2>4
<1>. QED
    BY <1>5, <1>6

(* Steps that leave the reader alone. *)
ReaderSame == UNCHANGED <<inbox, in, filling, nested, taken, request>>

LEMMA StateSame ==
    ASSUME Reader, ReaderSame, UNCHANGED script
    PROVE  Reader' /\ Ahead' = Ahead /\ Known' = Known
<1>1. Known' = Known
    BY DEF Known
<1>2. ReaderTypes'
    BY <1>1 DEF Reader, ReaderTypes, ReaderSame, IsRequestState
<1>3. ReaderShape' /\ Ahead' = Ahead
    BY DEF Reader, ReaderShape, ReaderSame, Ahead
<1>. QED
    BY <1>1, <1>2, <1>3 DEF Reader

AtSimilar ==
    \/ UNCHANGED at
    \/ at \notin Active /\ at' \notin Active
    \/ at = "app" /\ at' = "finish" /\ Back

LEMMA ReadIdle ==
    ASSUME NEW w, NEW p, NEW q, Here(w, p, q), ReaderSame, AtSimilar, open' => open,
           UNCHANGED <<script, conn, sent, fd, serving, got>>
    PROVE  ReadInv'
<1>1. Reader' /\ Ahead' = Ahead /\ Known' = Known
    BY StateSame DEF Here
<1>2. /\ Serving' <=> Serving
      /\ at' \in Active <=> at \in Active
      /\ at' = "reading begin" <=> at = "reading begin"
      /\ Serving => (at' = "reading params" <=> at = "reading params")
    <2>1. CASE UNCHANGED at
        BY <2>1 DEF Serving
    <2>2. CASE at \notin Active /\ at' \notin Active
        BY <2>2 DEF Serving, Active
    <2>3. CASE at = "app" /\ at' = "finish"
        BY <2>3 DEF Serving, Active
    <2>. QED
        BY <2>1, <2>2, <2>3 DEF AtSimilar
<1>3. View' = View /\ Sent' = Sent /\ OnConnection' = OnConnection /\ NothingRead' = NothingRead
    BY DEF View, Sent, OnConnection, NothingRead, ReaderSame
<1>4. Quiet(Exchange(serving))' = Quiet(Exchange(serving))
    BY DEF Quiet, Exchange, Upsets, ReaderSame
<1>5. Position(w, p, q)'
    BY <1>1 DEF Here, Position
<1>6. Settled'
    <2>1. at' = "finish" => Back
        BY DEF AtSimilar, Active, Here, Settled
    <2>2. Back' <=> Back
        BY DEF Back, ReaderSame
    <2>3. Resting' <=> Resting
        BY DEF Resting, ReaderSame
    <2>. QED
        BY <1>1, <1>2, <1>3, <2>1, <2>2, <2>3 DEF Here, Settled, ReaderSame
<1>7. at' = "reading begin" => BeginIs(w, p)'
    BY <1>2 DEF Here, BeginIs, BodyAhead, BodyIn, ReaderSame, Left
<1>8. Begun(w, p)' <=> Begun(w, p)
    BY DEF Begun, ReaderSame
<1>9. Serving' => Attends(w, p)'
    BY <1>2, <1>8 DEF Here, Attends, ReaderSame
<1>10. Serving' /\ Quiet(Exchange(serving))' => Reads(w, View, p)'
    <2>1. Reads(w, View, p)' = Reads(w, View, p)
        BY <1>3 DEF Reads, Chose, ReaderSame
    <2>. QED
        BY <1>2, <1>4, <2>1 DEF Here
<1>11. Here(w, p, q)'
    BY <1>1, <1>3, <1>5, <1>6, <1>7, <1>9, <1>10 DEF Here
<1>. QED
    BY <1>11, HereNext

LEMMA ReadOther ==
    ASSUME NEW w, NEW p, NEW q, Here(w, p, q), AnswerInv,
           \/ OS_Accept \/ OS_AcceptAgain \/ CallAccept \/ Finish \/ FinishWriters
           \/ (\E x \in Writer : PutChar(x) \/ FFlush(x) \/ FClose(x))
           \/ (Sigusr1 /\ UNCHANGED in) \/ UNCHANGED vars
    PROVE  ReadInv'
<1>1. CASE OS_Accept
    <2>1. /\ UNCHANGED streamVars /\ UNCHANGED serverVars /\ UNCHANGED appVars /\ UNCHANGED fd
          /\ AtSimilar
        BY <1>1 DEF OS_Accept, Goes, AtSimilar, Active
    <2>. QED
        BY <2>1, ReadIdle DEF streamVars, serverVars, appVars, ReaderSame
<1>2. CASE OS_AcceptAgain
    <2>1. /\ UNCHANGED streamVars /\ UNCHANGED serverVars /\ UNCHANGED appVars /\ UNCHANGED fd
          /\ AtSimilar
        BY <1>2 DEF OS_AcceptAgain, Goes, AtSimilar, Active
    <2>. QED
        BY <2>1, ReadIdle DEF streamVars, serverVars, appVars, ReaderSame
<1>3. CASE CallAccept
    <2>1. /\ UNCHANGED streamVars /\ UNCHANGED serverVars /\ UNCHANGED appVars /\ UNCHANGED fd
          /\ AtSimilar
        BY <1>3 DEF CallAccept, Goes, AtSimilar, Active
    <2>. QED
        BY <2>1, ReadIdle DEF streamVars, serverVars, appVars, ReaderSame
<1>4. CASE Finish
    <2>1. /\ UNCHANGED streamVars /\ UNCHANGED serverVars /\ UNCHANGED appVars /\ UNCHANGED fd
          /\ AtSimilar
        BY <1>4 DEF Finish, Goes, AtSimilar
    <2>. QED
        BY <2>1, ReadIdle DEF streamVars, serverVars, appVars, ReaderSame
<1>5. ASSUME NEW x, NEW records, NEW new, Empty(x, records, new)
      PROVE  UNCHANGED <<open, fd, serving, got>> /\ ReaderSame /\ UNCHANGED serverVars
    BY <1>5 DEF Empty, ReaderSame
<1>6. CASE FinishWriters
    <2>1. /\ UNCHANGED <<open, fd, serving, got>> /\ ReaderSame /\ UNCHANGED serverVars
          /\ UNCHANGED at
        BY <1>5, <1>6 DEF FinishWriters, Close
    <2>. QED
        BY <2>1, ReadIdle DEF serverVars, AtSimilar
<1>7. ASSUME NEW x \in Writer, PutChar(x) \/ FFlush(x) \/ FClose(x) PROVE ReadInv'
    <2>1. CASE PutChar(x)
        <3>1. UNCHANGED <<at, fd, serving, got>> /\ UNCHANGED streamVars /\ UNCHANGED serverVars
            BY <2>1 DEF PutChar
        <3>. QED
            BY <3>1, ReadIdle DEF streamVars, serverVars, ReaderSame, AtSimilar
    <2>2. CASE FFlush(x) \/ FClose(x)
        <3>1. /\ UNCHANGED <<open, fd, serving, got>> /\ ReaderSame /\ UNCHANGED serverVars
              /\ UNCHANGED at
            BY <1>5, <2>2 DEF FFlush, FClose, Close
        <3>. QED
            BY <3>1, ReadIdle DEF serverVars, AtSimilar
    <2>. QED
        BY <1>7, <2>1, <2>2
<1>8. CASE Sigusr1 /\ UNCHANGED in
    <2>1. UNCHANGED <<inbox, open, nested, taken, request, fd>> /\ UNCHANGED serverVars
          /\ UNCHANGED appVars
        BY <1>8 DEF Sigusr1
    <2>2. UNCHANGED filling /\ AtSimilar
        <3>1. CASE InRead /\ Returns(SetError(in))
            <4>1. in'.isClosed = TRUE /\ filling
                BY <3>1 DEF Returns, SetError, InRead, Here, Reader, ReaderTypes, ReaderState
            <4>2. ~in.isClosed
                BY <4>1 DEF Here, Reader, ReaderShape
            <4>. QED
                BY <1>8, <4>1, <4>2
        <3>2. CASE ~(InRead /\ Returns(SetError(in)))
            BY <1>8, <3>2 DEF Sigusr1, Goes, AtSimilar, Active
        <3>. QED
            BY <3>1, <3>2
    <2>. QED
        BY <1>8, <2>1, <2>2, ReadIdle DEF serverVars, appVars, ReaderSame
<1>9. CASE UNCHANGED vars
    BY <1>9, ReadIdle DEF vars, streamVars, ReaderSame, AtSimilar
<1>. QED
    BY <1>1, <1>2, <1>3, <1>4, <1>6, <1>7, <1>8, <1>9

LEMMA AheadParts ==
    ASSUME NEW w, NEW p, NEW q, Here(w, p, q)
    PROVE  LET s == in.hdr \o in.rd   n == p + Len(s) IN
           /\ n \in p .. q /\ inbox = Part(w, n, q)
           /\ in.hdr \o (in.rd \o <<>>) = Part(w, p, n) /\ Len(s) = Len(in.hdr) + Len(in.rd)
<1>. DEFINE s == in.hdr \o in.rd
<1>1. /\ w \in Seq(Octets(Known)) /\ q \in 0 .. Len(w) /\ p \in 0 .. q
      /\ Ahead = Part(w, p, q) /\ ReaderTypes
    BY PositionIs
<1>2. in.hdr \in Seq(Octets(Known)) /\ in.rd \in Seq(Octets(Known)) /\ inbox \in Seq(Octets(Known))
    BY <1>1, ReaderIs DEF ReaderTypes
<1>3. s \in Seq(Octets(Known)) /\ Len(s) = Len(in.hdr) + Len(in.rd)
    BY <1>2, ConcatProperties
<1>4. Associates(Octets(Known)) /\ <<>> \in Seq(Octets(Known))
    BY Associative
<1>5. (in.hdr \o in.rd) \o inbox = in.hdr \o (in.rd \o inbox)
    BY <1>2, <1>4, Zenon DEF Associates
<1>6. in.rd \o <<>> = in.rd
    BY <1>2, ConcatEmptySeq
<1>7. s \o inbox = Part(w, p, q)
    BY <1>1, <1>5 DEF Ahead
<1>. HIDE DEF s
<1>8. Splits(s, inbox, w, p, q)
    BY <1>1, <1>2, <1>3, <1>7, SplitPart
<1>. QED
    BY <1>3, <1>6, <1>8 DEF Splits, s

LEMMA ReadBegin == ASSUME NEW w, NEW p, NEW q, Here(w, p, q), Begin PROVE ReadInv'
<1>1. /\ at \notin Active /\ at' = "reading begin" /\ in' = NewReader("NONE") /\ filling' = TRUE
      /\ request' = [request EXCEPT !.isBeginProcessed = FALSE] /\ fd
      /\ UNCHANGED <<inbox, open, nested, taken, fd, script, conn, sent, serving, got>>
    BY DEF Begin, serverVars, appVars, Active
<1>2. UNCHANGED in /\ nested = "none"
    BY <1>1 DEF Here, Settled, Resting
<1>3. Known' = Known /\ Sent' = Sent /\ OnConnection' = OnConnection /\ NothingRead' = NothingRead
    BY <1>1 DEF Known, Sent, OnConnection, NothingRead
<1>4. ReaderTypes'
    BY <1>1, <1>2, <1>3 DEF Here, Reader, ReaderTypes, IsRequestState
<1>5. in.avail = 0 /\ ~in.isClosed
    <2>1. in = NewReader("NONE")
        BY <1>1, <1>2
    <2>. QED
        BY ONLY <2>1 DEF NewReader
<1>6. ReaderShape'
    BY <1>1, <1>2, <1>5 DEF Here, Reader, ReaderShape
<1>7. Position(w, p, q)'
    BY <1>1, <1>2 DEF Here, Position, Ahead
<1>8. ~Serving /\ ~Serving' /\ at' \in Active
    BY <1>1 DEF Serving, Active
<1>9. Settled'
    BY <1>1, <1>3, <1>8 DEF Here, Settled
<1>10. request'.isBeginProcessed = FALSE
    BY <1>1 DEF Here, Reader, ReaderTypes, IsRequestState
<1>11. BeginIs(w, p)'
    BY <1>1, <1>2, <1>10 DEF BeginIs
<1>12. Here(w, p, q)'
    BY <1>3, <1>4, <1>6, <1>7, <1>8, <1>9, <1>11 DEF Here, Reader
<1>. QED
    BY <1>12, HereNext

LEMMA ReadAccepted == ASSUME NEW w, NEW p, NEW q, Here(w, p, q), AnswerInv, Accepted PROVE ReadInv'
<1>1. /\ at = "accepting" /\ at' \in {"begin", "rejected"} /\ (at' = "rejected" => ~fd' /\ ~open')
      /\ conn < Len(script) /\ conn' = conn + 1 /\ sent' = 0
      /\ UNCHANGED <<script, inbox, in, filling, nested, taken, request, serving, got>>
      /\ ~fd
    <2>1. at = "accepting"
        BY DEF Accepted, Goes
    <2>2. ~fd /\ ~open
        BY <2>1 DEF AnswerInv, Unconnected
    <2>. QED
        BY <2>1, <2>2 DEF Accepted, Goes, appVars
<1>2. inbox = <<>> /\ Resting /\ got = NothingRead
    BY <1>1 DEF Here, Settled, Active, Serving
<1>3. in.hdr = <<>> /\ in.rd = <<>>
    BY <1>2 DEF Resting, NewReader
<1>4. Ahead' = <<>>
    BY <1>1, <1>2, <1>3 DEF Ahead
<1>5. Reader' /\ Known' = Known
    BY <1>1, StateSame DEF Here, ReaderSame
<1>6. conn' \in DOMAIN script /\ conn' # 0
    <2>1. Len(script) \in Nat /\ DOMAIN script = 1 .. Len(script)
        BY ScriptsAssumption, LenProperties DEF Here, Settled, Placed
    <2>2. conn \in Nat
        <3>1. conn = 0 \/ conn \in DOMAIN script
            BY DEF Here, Settled, OnConnection
        <3>. QED
            BY ONLY <2>1, <3>1
    <2>. QED
        BY <1>1, <2>1, <2>2
<1>7. script[conn'] \in Lists(Known)
    BY <1>6, ScriptIs DEF Here, Settled, Known
<1>8. OnConnection'
    <2>1. Len(script[conn']) \in Nat
        BY <1>7, FlatIs
    <2>. QED
        BY <1>1, <1>6, <2>1 DEF OnConnection, Here, Settled
<1>9. Sent' = <<>>
    BY <1>1, <1>6, <1>7, FlatIs, WireEmpty DEF Sent
<1>10. Position(<<>>, 0, 0)'
    <2>1. Part(<<>>, 0, 0) = <<>>
        BY PartEmpty
    <2>2. Len(<<>>) = 0
        OBVIOUS
    <2>. QED
        BY <1>4, <2>1, <2>2 DEF Position
<1>11. at' \notin Active /\ ~Serving' /\ at' # "reading begin" /\ at' # "finish"
    BY <1>1 DEF Active, Serving
<1>12. NothingRead' = NothingRead /\ Resting' = Resting
    BY <1>1 DEF NothingRead, Resting
<1>13. Settled'
    BY <1>1, <1>2, <1>5, <1>6, <1>8, <1>11, <1>12 DEF Here, Settled
<1>14. Here(<<>>, 0, 0)'
    BY <1>5, <1>9, <1>10, <1>11, <1>13 DEF Here
<1>. QED
    BY <1>14, HereNext

LEMMA ReadFree ==
    ASSUME NEW w, NEW p, NEW q, Here(w, p, q), AnswerInv, NEW close \in BOOLEAN, FCGX_Free(close),
           Back
    PROVE  ReadInv'
<1>1. /\ at' = "accept" /\ in' = NewReader("NONE") /\ taken' = <<>> /\ got' = NothingRead
      /\ UNCHANGED <<filling, nested, request, script, conn, sent>>
      /\ (fd' => fd)
      /\ (open' => open)
      /\ \/ UNCHANGED inbox /\ UNCHANGED fd
         \/ inbox' = <<>>
      /\ ~filling /\ nested = "none"
    BY DEF FCGX_Free, serverVars, Back
<1>2. Known' = Known /\ Sent' = Sent /\ OnConnection' = OnConnection /\ NothingRead' = NothingRead
    BY <1>1 DEF Known, Sent, OnConnection, NothingRead
<1>3. /\ w \in Seq(Octets(Known)) /\ q \in 0 .. Len(w) /\ p \in 0 .. q /\ Len(w) \in Nat
      /\ ReaderTypes /\ (open => q = Len(w)) /\ w = Sent
    BY PositionIs DEF Here, Position
<1>4. inbox' \in Seq(Octets(Known))
    <2>1. inbox \in Seq(Octets(Known)) /\ <<>> \in Seq(Octets(Known))
        BY <1>3 DEF ReaderTypes
    <2>. QED
        BY <1>1, <2>1
<1>5. ReaderTypes'
    <2>1. in' \in ReaderState(Known)
        BY <1>1, NewReaderIs
    <2>2. taken' \in Seq(Octets(Known))
        BY <1>1
    <2>. QED
        BY <1>1, <1>2, <1>3, <1>4, <2>1, <2>2 DEF ReaderTypes, IsRequestState
<1>6. /\ in'.hdr = <<>> /\ in'.rd = <<>> /\ in'.avail = 0
      /\ ~in'.skip /\ ~in'.isClosed /\ in'.eorStop = FALSE
    BY <1>1 DEF NewReader
<1>7. ReaderShape'
    <2>1. Len(in'.hdr) = 0 /\ Len(in'.rd) = 0 /\ HeaderLen > 0
        BY <1>6, FcgiRecordAssumption
    <2>2. in'.eorStop = (nested' # "none")
        BY <1>1, <1>6
    <2>3. ~filling' /\ nested' = "none"
        BY <1>1
    <2>. QED
        BY <1>6, <2>1, <2>2, <2>3 DEF ReaderShape
<1>8. Ahead' = inbox'
    <2>1. <<>> \o inbox' = inbox'
        BY <1>4, ConcatEmptySeq
    <2>. QED
        BY <1>6, <2>1 DEF Ahead
<1>9. \E n \in 0 .. Len(w) : \E m \in 0 .. n : Position(w, m, n)'
    <2>1. CASE inbox' = <<>>
        <3>1. Part(w, Len(w), Len(w)) = <<>>
            BY <1>3, PartEmpty
        <3>2. Position(w, Len(w), Len(w))'
            BY <1>3, <1>8, <2>1, <3>1 DEF Position
        <3>3. Len(w) \in 0 .. Len(w)
            BY <1>3
        <3>. QED
            BY <3>2, <3>3
    <2>2. CASE UNCHANGED inbox
        <3>1. PICK n \in p .. q : inbox = Part(w, n, q)
            BY AheadParts
        <3>2. n \in 0 .. q
            BY <1>3
        <3>3. Position(w, n, q)'
            BY <1>1, <1>3, <1>8, <2>2, <3>1, <3>2 DEF Position
        <3>. QED
            BY <1>3, <3>2, <3>3
    <2>. QED
        BY <1>1, <2>1, <2>2
<1>10. ~Serving' /\ at' \notin Active /\ at' # "reading begin" /\ at' # "finish"
    BY <1>1 DEF Serving, Active
<1>11. Settled'
    <2>1. NothingRead \in [Streams -> Seq(Octets(Known))]
        BY DEF NothingRead
    <2>2. Resting'
        BY <1>1 DEF Resting
    <2>. QED
        BY <1>1, <1>2, <1>10, <2>1, <2>2 DEF Here, Settled
<1>12. PICK n \in 0 .. Len(w) : \E m \in 0 .. n : Position(w, m, n)'
    BY <1>9
<1>13. PICK m \in 0 .. n : Position(w, m, n)'
    BY <1>12
<1>14. Here(w, m, n)'
    BY <1>2, <1>3, <1>5, <1>7, <1>10, <1>11, <1>13 DEF Here, Reader
<1>. QED
    BY <1>14, HereNext

LEMMA ReadLeave == ASSUME NEW w, NEW p, NEW q, Here(w, p, q), AnswerInv, Leave PROVE ReadInv'
<1>1. /\ open' = FALSE /\ inbox' \in {<<>>, inbox}
      /\ UNCHANGED <<in, filling, nested, taken, request, script, conn, sent, at, fd, serving, got>>
    BY DEF Leave, serverVars, appVars
<1>2. CASE UNCHANGED inbox
    BY <1>1, <1>2, ReadIdle DEF ReaderSame, AtSimilar
<1>3. CASE inbox' = <<>>
    <2>1. Known' = Known /\ Sent' = Sent /\ OnConnection' = OnConnection
          /\ NothingRead' = NothingRead /\ (Serving' <=> Serving) /\ View' = View
          /\ (Back' <=> Back) /\ (Resting' <=> Resting)
        BY <1>1 DEF Known, Sent, OnConnection, NothingRead, Serving, View, Back, Resting
    <2>2. Quiet(Exchange(serving))' <=> Quiet(Exchange(serving))
        BY <1>1 DEF Quiet, Exchange, Upsets
    <2>3. ReaderTypes'
        <3>1. inbox' \in Seq(Octets(Known))
            BY <1>3
        <3>. QED
            BY <1>1, <2>1, <3>1 DEF Here, Reader, ReaderTypes, IsRequestState
    <2>4. ReaderShape'
        BY <1>1 DEF Here, Reader, ReaderShape
    <2>5. Settled'
        BY <1>1, <1>3, <2>1 DEF Here, Settled
    <2>6. w \in Seq(Octets(Known)) /\ q \in 0 .. Len(w) /\ p \in 0 .. q /\ Len(w) \in Nat
        BY PositionIs
    <2>7. PICK n \in p .. q : in.hdr \o (in.rd \o <<>>) = Part(w, p, n)
        BY AheadParts
    <2>8. n \in 0 .. Len(w) /\ p \in 0 .. n
        BY <2>6
    <2>9. Position(w, p, n)'
        BY <1>1, <1>3, <2>7, <2>8 DEF Position, Ahead
    <2>10. at' = "reading begin" => BeginIs(w, p)'
        BY <1>1 DEF Here, BeginIs, BodyAhead, BodyIn, Left
    <2>11. Serving' => Attends(w, p)'
        <3>1. Begun(w, p)' <=> Begun(w, p)
            BY <1>1 DEF Begun
        <3>. QED
            BY <1>1, <2>1, <3>1 DEF Here, Attends
    <2>12. Serving' /\ Quiet(Exchange(serving))' => Reads(w, View, p)'
        <3>1. Reads(w, View, p)' <=> Reads(w, View, p)
            BY <1>1, <2>1 DEF Reads, Chose
        <3>. QED
            BY <2>1, <2>2, <3>1 DEF Here
    <2>13. Here(w, p, n)'
        BY <2>1, <2>3, <2>4, <2>5, <2>9, <2>10, <2>11, <2>12 DEF Here, Reader
    <2>. QED
        BY <2>13, HereNext
<1>. QED
    BY <1>1, <1>2, <1>3

(* The bytes of one exchange are of its records. *)
LEMMA WireOfExchange ==
    ASSUME OnConnection, sent < Len(script[conn])
    PROVE  LET t == Wire(script[conn][sent + 1]) IN
           \A j \in DOMAIN t : t[j][1].of[2] = sent + 1
<1>. DEFINE s == script[conn]
            e == sent + 1
            l == s[e]
            t == Wire(l)
<1>1. Sized(Known) /\ s \in Lists(Known) /\ AtPlace(s)
    BY SentIs
<1>2. e \in DOMAIN s /\ l \in Seq(Known)
    <2>1. Len(s) \in Nat /\ DOMAIN s = 1 .. Len(s) /\ (\A n \in 1 .. Len(s) : s[n] \in Seq(Known))
        BY <1>1, FlatIs
    <2>2. sent \in 0 .. Len(s) /\ sent < Len(s)
        BY DEF OnConnection
    <2>3. e \in 1 .. Len(s)
        BY <2>1, <2>2
    <2>. HIDE DEF e, s
    <2>. QED
        BY <2>1, <2>3
<1>3. \A i \in DOMAIN l : l[i].of[2] = e /\ l[i].no = i
    <2>. HIDE DEF e, s
    <2>. QED
        BY <1>1, <1>2 DEF AtPlace
<1>. HIDE DEF t, l
<1>4. Rising(l)
    BY <1>3 DEF Rising, Earlier
<1>5. Laid(t, l)
    BY <1>1, <1>2, <1>4, WireLaid DEF t
<1>6. \A j \in DOMAIN t : t[j][1].of[2] = e
    BY <1>3, <1>5 DEF Laid, Covers
<1>. QED
    BY <1>6 DEF t, l

(* Another exchange is sent: u is then on the wire. *)
LEMMA SentExtends ==
    ASSUME OnConnection, sent < Len(script[conn]), sent' = sent + 1, UNCHANGED <<script, conn>>,
           NEW w, w = Sent, NEW u, u = Sent', NEW t, t = Wire(script[conn][sent + 1])
    PROVE  /\ Extends(Known, w, u) /\ OnConnection'
           /\ t \in Seq(Octets(Known)) /\ u = w \o t
           /\ \A j \in DOMAIN u : j \notin DOMAIN w => u[j][1].of[2] = sent + 1
<1>1. u = w \o t /\ t \in Seq(Octets(Known))
    BY SentNext
<1>2. Sized(Known) /\ script[conn] \in Lists(Known) /\ AtPlace(script[conn])
    BY SentIs
<1>3. OnTheWire(Known, w) /\ w \in Seq(Octets(Known))
    BY WireInScript DEF OnTheWire
<1>4. sent + 1 \in 0 .. Len(script[conn]) /\ Len(script[conn]) \in Nat
    <2>1. Len(script[conn]) \in Nat /\ sent \in 0 .. Len(script[conn])
        BY <1>2, FlatIs DEF OnConnection
    <2>. QED
        BY <2>1
<1>5. conn # 0
    BY ScriptIs DEF OnConnection
<1>6. u = Wire(Flat(script[conn], sent + 1))
    BY <1>5 DEF Sent
<1>7. OnWire(Known, u, script[conn], sent + 1)
    BY <1>2, <1>4, <1>6, FlatOnWire
<1>8. OnTheWire(Known, u)
    BY <1>2, <1>7 DEF OnWire, OnTheWire
<1>9. Extends(Known, w, u)
    BY <1>1, <1>3, <1>8 DEF Extends
<1>10. OnConnection'
    BY <1>4 DEF OnConnection
<1>11. \A j \in DOMAIN u : j \notin DOMAIN w => u[j][1].of[2] = sent + 1
    <2>1. \A j \in DOMAIN t : t[j][1].of[2] = sent + 1
        BY WireOfExchange
    <2>2. IsJoin(u, w, t)
        BY <1>1, <1>3, JoinIs
    <2>3. DOMAIN t = 1 .. Len(t)
        BY <1>1, LenProperties
    <2>4. ASSUME NEW j \in DOMAIN u, j \notin DOMAIN w PROVE u[j][1].of[2] = sent + 1
        <3>1. j - Len(w) \in 1 .. Len(t) /\ Len(w) + (j - Len(w)) = j
            BY <2>2, <2>4 DEF IsJoin
        <3>2. u[j] = t[j - Len(w)]
            BY <2>2, <3>1 DEF IsJoin
        <3>. QED
            BY <2>1, <2>3, <3>1, <3>2
    <2>. QED
        BY <2>4
<1>. QED
    BY <1>1, <1>9, <1>10, <1>11

LEMMA ReadSend == ASSUME NEW w, NEW p, NEW q, Here(w, p, q), AnswerInv, Send PROVE ReadInv'
<1>1. /\ open /\ sent < Len(script[conn]) /\ sent' = sent + 1
      /\ inbox' = inbox \o Wire(script[conn][sent + 1])
      /\ UNCHANGED <<open, in, filling, nested, taken, request, script, conn, at, fd, serving, got>>
    BY DEF Send, appVars
<1>2. OnConnection /\ fd
    BY <1>1 DEF AnswerInv, Here, Settled
<1>3. PICK u : u = Sent'
    OBVIOUS
<1>4. PICK t : t = Wire(script[conn][sent + 1])
    OBVIOUS
<1>5. w = Sent
    BY DEF Here
<1>6. /\ Extends(Known, w, u) /\ OnConnection'
      /\ t \in Seq(Octets(Known)) /\ u = w \o t
      /\ \A j \in DOMAIN u : j \notin DOMAIN w => u[j][1].of[2] = sent + 1
    BY <1>1, <1>2, <1>3, <1>4, <1>5, SentExtends
<1>7. /\ Len(w) \in Nat /\ Len(u) \in Nat /\ Len(w) <= Len(u)
      /\ DOMAIN w = 1 .. Len(w) /\ DOMAIN u = 1 .. Len(u)
      /\ \A j \in DOMAIN w : j \in DOMAIN u /\ u[j] = w[j]
      /\ \A n \in 0 .. Len(w) : Part(u, 0, n) = Part(w, 0, n)
    BY <1>6, SentMore
<1>8. /\ w \in Seq(Octets(Known)) /\ q = Len(w) /\ p \in 0 .. Len(w) /\ p \in Nat
      /\ Ahead = Part(w, p, Len(w)) /\ ReaderTypes /\ ReaderShape
    <2>1. q = Len(w)
        BY <1>1 DEF Here, Position
    <2>. QED
        BY <2>1, PositionIs
<1>9. Known' = Known /\ NothingRead' = NothingRead /\ (Serving' <=> Serving) /\ View' = View
      /\ (Back' <=> Back) /\ (Resting' <=> Resting)
    BY <1>1 DEF Known, NothingRead, Serving, View, Back, Resting
<1>10. Quiet(Exchange(serving))' <=> Quiet(Exchange(serving))
    BY <1>1 DEF Quiet, Exchange, Upsets
<1>11. inbox \in Seq(Octets(Known)) /\ in.rd \in Seq(Octets(Known)) /\ in.hdr \in Seq(Octets(Known))
    BY <1>8, ReaderIs DEF ReaderTypes
<1>12. Reader'
    <2>1. inbox' \in Seq(Octets(Known))
        BY <1>1, <1>4, <1>6, <1>11, ConcatProperties
    <2>2. ReaderTypes'
        BY <1>1, <1>8, <1>9, <2>1 DEF ReaderTypes, IsRequestState
    <2>3. ReaderShape'
        BY <1>1, <1>8 DEF ReaderShape
    <2>. QED
        BY <2>2, <2>3 DEF Reader
<1>13. Settled'
    BY <1>1, <1>2, <1>6, <1>9 DEF Here, Settled
<1>14. Position(u, p, Len(u))'
    <2>1. Ahead' = Ahead \o t
        <3>1. Associates(Octets(Known))
            BY Associative
        <3>2. in.rd \o inbox \in Seq(Octets(Known))
            BY <1>11, ConcatProperties
        <3>3. (in.hdr \o (in.rd \o inbox)) \o t = in.hdr \o ((in.rd \o inbox) \o t)
            BY <1>6, <1>11, <3>1, <3>2, ZenonT(40) DEF Associates
        <3>4. (in.rd \o inbox) \o t = in.rd \o (inbox \o t)
            BY <1>6, <1>11, <3>1, ZenonT(40) DEF Associates
        <3>. QED
            BY <1>1, <1>4, <3>3, <3>4 DEF Ahead
    <2>2. Part(u, p, Len(u)) = Part(u, p, Len(w)) \o Part(u, Len(w), Len(u))
        <3>1. u \in Seq(Octets(Known))
            BY <1>6, <1>8, ConcatProperties
        <3>2. Len(u) \in 0 .. Len(u) /\ Len(w) \in 0 .. Len(u) /\ p \in 0 .. Len(w)
            BY <1>7, <1>8
        <3>. QED
            BY <3>1, <3>2, PartConcat
    <2>3. Part(u, p, Len(w)) = Part(w, p, Len(w))
        <3>1. Len(w) \in 0 .. Len(w)
            BY <1>7
        <3>. QED
            BY <1>6, <1>8, <3>1, PartOfFirst
    <2>4. Part(u, Len(w), Len(u)) = t
        <3>1. Len(u) = Len(w) + Len(t)
            BY <1>6, <1>8, ConcatProperties
        <3>. QED
            BY <1>6, <1>8, <3>1, PartIsSecond
    <2>5. Len(u) \in 0 .. Len(u) /\ p \in 0 .. Len(u)
        BY <1>7, <1>8
    <2>. QED
        BY <1>8, <2>1, <2>2, <2>3, <2>4, <2>5 DEF Position
<1>15. at' = "reading begin" => BeginIs(u, p)'
    <2>1. at = "reading begin" => BeginIs(w, p)
        BY DEF Here
    <2>2. ASSUME BodyIn(w, p) PROVE BodyIn(u, p)'
        <3>1. p \in DOMAIN w
            BY <1>7, <1>8, <2>2 DEF BodyIn
        <3>2. u[p] = w[p]
            BY <1>7, <3>1
        <3>. QED
            BY <1>1, <2>2, <3>2 DEF BodyIn, Left
    <2>3. BodyAhead' <=> BodyAhead
        BY <1>1 DEF BodyAhead
    <2>. QED
        BY <1>1, <2>1, <2>2, <2>3 DEF BeginIs
<1>16. Serving' => Attends(u, p)'
    <2>1. ASSUME Serving PROVE Attends(u, p)'
        <3>1. Attends(w, p)
            BY <2>1 DEF Here
        <3>2. 1 .. p \subseteq DOMAIN w
            BY <1>7, <1>8
        <3>3. Begun(w, p)
            BY <3>1 DEF Attends
        <3>4. Begun(u, p)
            BY <1>7, <3>2, <3>3 DEF Begun
        <3>5. Begun(u, p)'
            BY <1>1, <3>4 DEF Begun
        <3>6. sent \in Nat
            BY <1>2, <1>7, SentIs, FlatIs DEF OnConnection
        <3>7. serving[2] \in 1 .. sent'
            <4>1. serving[2] \in 1 .. sent /\ sent' = sent + 1
                BY <1>1, <3>1 DEF Attends
            <4>. QED
                BY ONLY <3>6, <4>1
        <3>. QED
            BY <1>1, <3>1, <3>5, <3>7 DEF Attends
    <2>. QED
        BY <1>9, <2>1
<1>17. Serving' /\ Quiet(Exchange(serving))' => Reads(u, View, p)'
    <2>1. ASSUME Serving, Quiet(Exchange(serving)) PROVE Reads(u, View, p)'
        <3>1. PICK v : v = View
            OBVIOUS
        <3>2. Reads(w, v, p) /\ Attends(w, p)
            BY <2>1, <3>1 DEF Here
        <3>3. Chose(u, v)
            <4>1. ASSUME NEW type \in Streams
                  PROVE  \E n \in 0 .. Len(u) : got[type] = Chosen(v, type, Part(u, 0, n))
                <5>1. PICK n \in 0 .. Len(w) : got[type] = Chosen(v, type, Part(w, 0, n))
                    BY <3>2 DEF Reads, Chose
                <5>2. n \in 0 .. Len(u) /\ Part(u, 0, n) = Part(w, 0, n)
                    BY <1>7
                <5>. QED
                    BY <5>1, <5>2
            <4>. QED
                BY <4>1 DEF Chose
        <3>4. Follows(u, v, in, nested, got[in.type], p)
            <4>1. \A j \in DOMAIN u : j \notin DOMAIN w => u[j][1].of[2] # v.of
                <5>1. v.of \in 1 .. sent
                    BY <3>1, <3>2 DEF Attends, View
                <5>2. v.of # sent + 1
                    <6>1. sent \in Nat
                        BY <1>2, SentIs, FlatIs DEF OnConnection
                    <6>. QED
                        BY ONLY <5>1, <6>1
                <5>. QED
                    BY <1>6, <5>2
            <4>2. Counted(in) /\ Len(in.hdr) \in Nat /\ Len(in.rd) \in Nat
                BY <1>8, ReaderIs
            <4>3. p + Len(in.hdr) <= Len(w)
                <5>1. p + (Len(in.hdr) + Len(in.rd)) \in p .. q
                    BY AheadParts
                <5>2. q = Len(w) /\ Len(w) \in Nat /\ p \in Nat
                    BY <1>7, <1>8
                <5>3. ASSUME NEW a \in Nat, NEW b \in Nat, NEW l \in Nat, p + (a + b) \in p .. l
                      PROVE  p + a <= l
                    BY ONLY <5>2, <5>3
                <5>. QED
                    BY ONLY <4>2, <5>1, <5>2, <5>3
            <4>4. Follows(w, v, in, nested, got[in.type], p)
                BY <3>2 DEF Reads
            <4>. QED
                BY <1>6, <1>8, <4>1, <4>2, <4>3, <4>4, FollowsSent
        <3>5. Reads(u, v, p)
            BY <3>3, <3>4 DEF Reads
        <3>6. Reads(u, v, p)'
            BY <1>1, <3>5 DEF Reads, Chose
        <3>. QED
            BY <1>9, <3>1, <3>6
    <2>. QED
        BY <1>9, <1>10, <2>1
<1>18. Here(u, p, Len(u))'
    BY <1>3, <1>12, <1>13, <1>14, <1>15, <1>16, <1>17 DEF Here
<1>. QED
    BY <1>18, HereNext

(* The application takes n of the bytes that are available. *)
Taking(n) ==
    /\ n \in 1 .. in.avail /\ in' = Take(in, n)
    /\ got' = [got EXCEPT ![in.type] = @ \o SubSeq(in.rd, 1, n)]
    /\ UNCHANGED filling

LEMMA ReadTake ==
    ASSUME NEW w, NEW p, NEW q, Here(w, p, q), Serving, at # "finish", Back, ~in.isClosed,
           NEW c, Taking(c),
           UNCHANGED <<inbox, open, nested, taken, request, script, conn, sent, at, fd, serving>>
    PROVE  ReadInv'
<1>1. /\ w \in Seq(Octets(Known)) /\ q \in 0 .. Len(w) /\ p \in 0 .. q /\ p \in Nat /\ q \in Nat
      /\ Ahead = Part(w, p, q) /\ ReaderTypes /\ ReaderShape /\ OnTheWire(Known, w)
      /\ Len(w) \in Nat
    BY PositionIs
<1>2. /\ OnConnection /\ Attends(w, p) /\ in.type \in Streams
    BY ServingIs
<1>3. /\ in \in ReaderState(Known) /\ in.avail \in Nat /\ in.rd \in Seq(Octets(Known))
      /\ Len(in.rd) \in Nat /\ in.avail <= Len(in.rd) /\ Counted(in)
    <2>1. in \in ReaderState(Known) /\ in.avail <= Len(in.rd)
        BY <1>1 DEF ReaderTypes, ReaderShape
    <2>2. in.rd \in Seq(Octets(Known)) /\ Len(in.rd) \in Nat /\ Counted(in)
        BY <1>1, ReaderIs
    <2>. QED
        BY <2>1, <2>2 DEF Counted
<1>4. c \in 1 .. in.avail /\ c \in 0 .. in.avail /\ c \in 0 .. Len(in.rd) /\ c \in Nat /\ in.avail # 0
    BY <1>3 DEF Taking
<1>5. /\ in' \in ReaderState(Known)
      /\ Set(in', in.type, Drop(in.rd, c), in.avail - c, in.hdr, in.contentLen, in.paddingLen)
      /\ Flags(in', in.skip, in.eorStop, in.isClosed, in.error)
    BY <1>3, <1>4, TakeIs DEF Taking
<1>6. in.hdr = <<>> /\ ~in.skip /\ ~filling /\ nested = "none"
    BY <1>1, <1>4 DEF ReaderShape, Back
<1>7. Known' = Known /\ Sent' = Sent /\ OnConnection' = OnConnection /\ NothingRead' = NothingRead
      /\ (Serving' <=> Serving) /\ View' = View
    BY DEF Known, Sent, OnConnection, NothingRead, Serving, View
<1>8. Quiet(Exchange(serving))' <=> Quiet(Exchange(serving))
    BY DEF Quiet, Exchange, Upsets
<1>9. ReaderTypes'
    BY <1>1, <1>5, <1>7 DEF Taking, ReaderTypes, IsRequestState
<1>10. ReaderShape'
    <2>1. Len(Drop(in.rd, c)) = Len(in.rd) - c
        BY <1>3, <1>4, DropIs
    <2>2. in'.avail = in.avail - c /\ in'.rd = Drop(in.rd, c) /\ in'.hdr = <<>> /\ ~in'.skip
          /\ in'.eorStop = in.eorStop /\ ~in'.isClosed
        BY <1>5, <1>6 DEF Set, Flags
    <2>3. in'.avail <= Len(in'.rd)
        BY <1>3, <1>4, <2>1, <2>2
    <2>4. ~filling' /\ nested' = "none"
        BY <1>6 DEF Taking
    <2>. QED
        BY <1>1, <1>6, <2>2, <2>3, <2>4 DEF ReaderShape
<1>11. /\ p + c \in p .. q /\ Ahead' = Part(w, p + c, q)
       /\ SubSeq(in.rd, 1, c) = Part(w, p, p + c)
    BY <1>1, <1>4, <1>5, <1>6, AheadDropped DEF Set
<1>12. PICK m \in p .. q : m = p + c
    BY <1>11
<1>13. m \in Nat /\ p <= m /\ m \in 0 .. q /\ m \in 0 .. Len(w)
    BY <1>1
<1>14. Position(w, m, q)'
    BY <1>1, <1>11, <1>12, <1>13 DEF Position, Here
<1>15. in'.type = in.type
    BY <1>5 DEF Set
<1>16. got \in [Streams -> Seq(Octets(Known))]
    BY DEF Here, Settled
<1>17. /\ got' \in [Streams -> Seq(Octets(Known))]
       /\ got'[in.type] = got[in.type] \o SubSeq(in.rd, 1, c)
       /\ \A t \in Streams : t # in.type => got'[t] = got[t]
    <2>1. SubSeq(in.rd, 1, c) \in Seq(Octets(Known))
        BY <1>3, <1>4, DropIs
    <2>2. got[in.type] \o SubSeq(in.rd, 1, c) \in Seq(Octets(Known))
        BY <1>2, <1>16, <2>1, ConcatProperties
    <2>. QED
        BY <1>2, <1>16, <2>2 DEF Taking
<1>18. Settled'
    BY <1>7, <1>17 DEF Here, Settled, Active, Serving
<1>19. Attends(w, m)'
    <2>1. \A t \in After(in.type) : got'[t] = got[t]
        BY <1>17 DEF After, Streams
    <2>2. nested' # "body"
        BY <1>6
    <2>. QED
        BY <1>1, <1>2, <1>13, <1>15, <2>1, <2>2, AttendsMoved
<1>20. Serving' /\ Quiet(Exchange(serving))' => Reads(w, View, m)'
    <2>1. ASSUME Quiet(Exchange(serving)) PROVE Reads(w, View, m)'
        <3>1. PICK v : v = View
            OBVIOUS
        <3>2. Chose(w, v) /\ Follows(w, v, in, nested, got[in.type], p)
            BY <2>1, <3>1 DEF Here, Reads
        <3>3. Tracks(w, v, in, nested, got[in.type], p)
            <4>1. Left(in) # 0
                BY <1>3, <1>4 DEF Left, Counted
            <4>. QED
                BY <3>2, <4>1 DEF Follows, Astray
        <3>4. /\ in'.avail = in.avail - c /\ in'.contentLen = in.contentLen
              /\ in'.paddingLen = in.paddingLen /\ ~in'.skip /\ in'.skip = in.skip /\ ~in'.isClosed
            BY <1>5, <1>6 DEF Set, Flags
        <3>5. Counted(in') /\ c \in 0 .. Left(in) /\ Left(in') = Left(in) - c
            BY <1>3, <1>4, <3>4 DEF Counted, Left
        <3>6. got'[in.type] = got[in.type] \o Part(w, p, p + c)
            BY <1>11, <1>17
        <3>7. PICK y : y = in'
            OBVIOUS
        <3>8. PICK h : h = got'[in.type]
            OBVIOUS
        <3>9. Tracks(w, v, y, nested, h, p + c)
            <4>1. /\ Counted(y) /\ y.type = in.type /\ Left(y) = Left(in) - c
                  /\ y.paddingLen = in.paddingLen /\ ~y.skip /\ y.skip = in.skip
                  /\ h = got[in.type] \o Part(w, p, p + c)
                BY <1>15, <3>4, <3>5, <3>6, <3>7, <3>8
            <4>. QED
                BY <1>1, <1>3, <1>6, <3>3, <3>5, <4>1, FollowsContent
        <3>10. Follows(w, v, y, nested, h, m)
            BY <1>12, <3>4, <3>7, <3>9 DEF Follows
        <3>11. Follows(w, v, in, nested, got[in.type], m)'
            BY <1>15, <3>7, <3>8, <3>10
        <3>12. h = Chosen(v, in.type, Part(w, 0, m))
            BY <1>12, <1>15, <3>7, <3>9 DEF Tracks
        <3>13. Chose(w, v)'
            <4>1. ASSUME NEW t \in Streams
                  PROVE  \E n \in 0 .. Len(w) : got'[t] = Chosen(v, t, Part(w, 0, n))
                <5>1. CASE t = in.type
                    BY <1>13, <3>8, <3>12, <5>1
                <5>2. CASE t # in.type
                    BY <1>17, <3>2, <5>2 DEF Chose
                <5>. QED
                    BY <5>1, <5>2
            <4>. QED
                BY <4>1 DEF Chose
        <3>. QED
            BY <1>7, <3>1, <3>11, <3>13 DEF Reads
    <2>. QED
        BY <1>8, <2>1
<1>21. at' # "reading begin"
    BY DEF Serving
<1>22. Here(w, m, q)'
    BY <1>7, <1>9, <1>10, <1>14, <1>18, <1>19, <1>20, <1>21 DEF Here, Reader
<1>. QED
    BY <1>22, HereNext

(* It asks for more, or a signal cuts a read. *)
LEMMA ReadMore ==
    ASSUME NEW w, NEW p, NEW q, Here(w, p, q), Serving, at # "finish", Back, ~in.isClosed,
           in.avail = 0, filling' = TRUE,
           UNCHANGED <<inbox, open, in, nested, taken, request, script, conn, sent, at, fd,
                       serving, got>>
    PROVE  ReadInv'
<1>1. ReaderTypes /\ ReaderShape /\ p \in 0 .. q /\ Ahead = Part(w, p, q) /\ p \in Nat /\ q \in Nat
    BY PositionIs
<1>2. p \in p .. q
    BY <1>1
<1>3. ReaderTypes'
    BY <1>1, KnownSame DEF ReaderTypes, IsRequestState
<1>4. ReaderShape'
    BY <1>1 DEF ReaderShape
<1>5. Moved(w, p, p, q)
    BY <1>1, <1>2, <1>3, <1>4 DEF Moved, Ahead
<1>6. nested' # "body"
    BY DEF Back
<1>7. Quiet(Exchange(serving)) => Follows(w, View, in', nested', got[in.type], p)
    BY DEF Here, Reads
<1>8. Here(w, p, q)'
    BY <1>2, <1>5, <1>6, <1>7, HereServes
<1>. QED
    BY <1>8, HereNext

LEMMA ReadCut ==
    ASSUME NEW w, NEW p, NEW q, Here(w, p, q), InRead, Returns(SetError(in)),
           UNCHANGED <<inbox, open, nested, taken, request, script, conn, sent, at, fd, serving, got>>
    PROVE  ReadInv'
<1>1. /\ ReaderTypes /\ ReaderShape /\ p \in 0 .. q /\ Ahead = Part(w, p, q) /\ p \in Nat /\ q \in Nat
      /\ q \in 0 .. Len(w) /\ Len(w) \in Nat /\ w \in Seq(Octets(Known))
    BY PositionIs
<1>2. filling /\ ~in.isClosed /\ in.avail = 0 /\ filling' = FALSE
    BY <1>1 DEF InRead, ReaderShape, Returns
<1>3. /\ in' \in ReaderState(Known)
      /\ Set(in', in.type, in.rd, in.avail, in.hdr, in.contentLen, in.paddingLen)
      /\ Flags(in', in.skip, in.eorStop, TRUE, TRUE)
    BY <1>1, SetErrorIs DEF ReaderTypes, Returns
<1>4. p \in p .. q
    BY <1>1
<1>5. ReaderTypes'
    BY <1>1, <1>2, <1>3, KnownSame DEF ReaderTypes, IsRequestState
<1>6. ReaderShape'
    BY <1>1, <1>2, <1>3 DEF ReaderShape, Set, Flags
<1>7. Moved(w, p, p, q)
    BY <1>1, <1>3, <1>4, <1>5, <1>6 DEF Moved, Ahead, Set
<1>8. at \in Active \ {"finish"}
    BY <1>2 DEF Here, Settled, Resting, Back
<1>9. CASE at = "reading begin"
    <2>1. Settled'
        BY <1>8, SettledActive DEF Here, Settled
    <2>2. Reader' /\ Position(w, p, q)'
        BY <1>1, <1>7 DEF Moved, Reader, Position, Here
    <2>3. Sent' = Sent /\ ~Serving'
        BY <1>9 DEF Sent, Serving
    <2>4. BeginIs(w, p)'
        <3>1. BeginIs(w, p)
            BY <1>9 DEF Here
        <3>2. in'.hdr = in.hdr /\ in'.skip = in.skip /\ Left(in') = Left(in) /\ (filling' => filling)
              /\ in'.avail = in.avail /\ in'.contentLen = in.contentLen
            BY <1>2, <1>3 DEF Set, Flags, Left
        <3>3. BodyAhead => BodyAhead'
            BY <3>2 DEF BodyAhead
        <3>. QED
            BY <3>1, <3>2, <3>3, BeginSame
    <2>5. Here(w, p, q)'
        BY <2>1, <2>2, <2>3, <2>4 DEF Here
    <2>. QED
        BY <2>5, HereNext
<1>10. CASE at # "reading begin"
    <2>1. Serving /\ at # "finish"
        BY <1>8, <1>10 DEF Active, Serving
    <2>2. nested' # "body"
        BY <2>1 DEF Here, Attends
    <2>3. ASSUME Quiet(Exchange(serving)) PROVE Follows(w, View, in', nested', got[in.type], p)
        <3>1. PICK v : v = View
            OBVIOUS
        <3>2. Tracks(w, v, in, nested, got[in.type], p) \/ Astray(w, v, in, nested, got[in.type], p)
            BY <1>2, <2>1, <2>3, <3>1 DEF Here, Reads, Follows
        <3>3. Counted(in) /\ DOMAIN w \subseteq Int /\ Len(in.hdr) \in 0 .. HeaderLen
            <4>1. Counted(in) /\ Len(in.hdr) \in Nat
                BY <1>1, ReaderIs
            <4>2. Len(in.hdr) < HeaderLen
                BY <1>1 DEF ReaderShape
            <4>3. DOMAIN w = 1 .. Len(w)
                BY <1>1, LenProperties
            <4>. QED
                BY <4>1, <4>2, <4>3, FcgiRecordAssumption
        <3>4. PICK y : y = in'
            OBVIOUS
        <3>5. /\ y.error /\ y.type = in.type /\ y.avail = in.avail /\ y.contentLen = in.contentLen
              /\ y.paddingLen = in.paddingLen /\ y.skip = in.skip /\ Len(y.hdr) \in 0 .. HeaderLen
            BY <1>3, <3>3, <3>4 DEF Set, Flags
        <3>6. Follows(w, v, y, nested, got[in.type], p)
            BY <1>1, <3>2, <3>3, <3>5, FollowsError
        <3>. QED
            BY <3>1, <3>4, <3>6
    <2>4. Here(w, p, q)'
        BY <1>4, <1>7, <2>1, <2>2, <2>3, HereServes
    <2>. QED
        BY <2>4, HereNext
<1>. QED
    BY <1>9, <1>10
-----------------------------------------------------------------------------
(* The reader turns to another stream. *)
Turned(type) ==
    /\ in' = SetReaderType(in, type)
    /\ in' \in ReaderState(Known) /\ in'.type = type /\ in'.rd = in.rd /\ in'.hdr = <<>>
    /\ Fresh(in') /\ in'.eorStop = FALSE

LEMMA SetReaderTypeIs ==
    ASSUME ReaderTypes, NEW type \in Streams, in' = SetReaderType(in, type)
    PROVE  Turned(type)
<1>1. in' \in ReaderState(Known)
    BY NewReaderIs DEF ReaderTypes
<1>2. /\ in'.type = type /\ in'.rd = in.rd /\ in'.hdr = <<>> /\ in'.eorStop = FALSE
      /\ in'.avail = 0 /\ in'.contentLen = 0 /\ in'.paddingLen = 0 /\ ~in'.skip /\ ~in'.isClosed
    BY DEF SetReaderType, NewReader
<1>. QED
    BY <1>1, <1>2 DEF Turned, Fresh

LEMMA TurnedReader ==
    ASSUME Reader, NEW type, Turned(type), Back,
           UNCHANGED <<inbox, filling, nested, taken, request, script>>
    PROVE  Reader' /\ Known' = Known /\ Ahead' = in.rd \o inbox
<1>1. Known' = Known
    BY KnownSame
<1>2. ReaderTypes'
    BY <1>1 DEF Turned, Reader, ReaderTypes, IsRequestState
<1>3. ReaderShape'
    <2>1. Len(in'.hdr) = 0 /\ HeaderLen > 0 /\ Len(in'.rd) \in Nat
        BY FcgiRecordAssumption, ReaderIs DEF Turned, Reader
    <2>2. /\ in'.avail = 0 /\ ~in'.skip /\ ~in'.isClosed /\ in'.hdr = <<>> /\ in'.eorStop = FALSE
          /\ nested' = "none" /\ ~filling'
        BY DEF Turned, Fresh, Back
    <2>3. in'.avail <= Len(in'.rd) /\ Len(in'.hdr) < HeaderLen
        BY <2>1, <2>2, FcgiRecordAssumption
    <2>4. in'.eorStop = (nested' # "none")
        BY <2>2
    <2>. QED
        BY <2>2, <2>3, <2>4 DEF ReaderShape
<1>4. Ahead' = in.rd \o inbox
    <2>1. in.rd \o inbox \in Seq(Octets(Known))
        <3>1. in.rd \in Seq(Octets(Known)) /\ inbox \in Seq(Octets(Known))
            BY ReaderIs DEF Reader, ReaderTypes
        <3>. QED
            BY <3>1, ConcatProperties
    <2>2. <<>> \o (in.rd \o inbox) = in.rd \o inbox
        BY <2>1, ConcatEmptySeq
    <2>. QED
        BY <2>2 DEF Turned, Ahead
<1>. QED
    BY <1>1, <1>2, <1>3, <1>4 DEF Reader

(* It has its header behind it. *)
LEMMA AheadBare ==
    ASSUME NEW w, NEW p, NEW q, Here(w, p, q)
    PROVE  LET n == p + Len(in.hdr) IN n \in p .. q /\ in.rd \o inbox = Part(w, n, q)
<1>1. /\ w \in Seq(Octets(Known)) /\ q \in 0 .. Len(w) /\ p \in 0 .. q
      /\ Ahead = Part(w, p, q) /\ ReaderTypes
    BY PositionIs
<1>2. in.hdr \in Seq(Octets(Known)) /\ in.rd \in Seq(Octets(Known)) /\ inbox \in Seq(Octets(Known))
    BY <1>1, ReaderIs DEF ReaderTypes
<1>3. in.rd \o inbox \in Seq(Octets(Known))
    BY <1>2, ConcatProperties
<1>4. Splits(in.hdr, in.rd \o inbox, w, p, q)
    BY <1>1, <1>2, <1>3, SplitPart DEF Ahead
<1>. QED
    BY <1>4 DEF Splits

LEMMA ReadSwitch ==
    ASSUME NEW w, NEW p, NEW q, Here(w, p, q), Serving, Back, in.isClosed,
           at # "finish", at' = "app", NEW type \in After(in.type),
           type = "STDIN" \/ (type = "DATA" /\ request.role = "FILTER"),
           in' = SetReaderType(in, type),
           UNCHANGED <<inbox, open, filling, nested, taken, request, script, conn, sent, fd,
                       serving, got>>
    PROVE  ReadInv'
<1>1. /\ ReaderTypes /\ ReaderShape /\ p \in 0 .. q /\ Ahead = Part(w, p, q) /\ p \in Nat /\ q \in Nat
      /\ q \in 0 .. Len(w) /\ Len(w) \in Nat /\ w \in Seq(Octets(Known)) /\ OnTheWire(Known, w)
    BY PositionIs
<1>2. type \in Streams
    BY DEF Streams
<1>3. Turned(type)
    BY <1>1, <1>2, SetReaderTypeIs
<1>4. Reader' /\ Known' = Known /\ Ahead' = in.rd \o inbox
    BY <1>3, TurnedReader DEF Here
<1>5. PICK n \in p .. q : n = p + Len(in.hdr) /\ in.rd \o inbox = Part(w, n, q)
    BY AheadBare
<1>6. n \in 0 .. q /\ n \in Nat /\ p <= n /\ n <= Len(w)
    BY <1>1
<1>7. Position(w, n, q)'
    BY <1>1, <1>4, <1>5, <1>6 DEF Here, Position
<1>8. Sent' = Sent /\ OnConnection' = OnConnection /\ NothingRead' = NothingRead /\ View' = View
    BY DEF Sent, OnConnection, NothingRead, View
<1>9. Quiet(Exchange(serving))' <=> Quiet(Exchange(serving))
    BY DEF Quiet, Exchange, Upsets
<1>10. Serving' /\ at' \in Active /\ at \in Active /\ at' # "reading begin"
    BY DEF Serving, Active
<1>11. Settled'
    BY <1>4, <1>8, <1>10 DEF Here, Settled
<1>12. nested = "none"
    BY DEF Back
<1>13. Attends(w, p)
    BY DEF Here
<1>14. in'.type = type
    BY <1>3 DEF Turned
<1>15. got[type] = <<>>
    BY <1>13 DEF Attends
<1>16. Attends(w, n)'
    <2>1. Begun(w, p)
        BY <1>13 DEF Attends
    <2>2. 1 .. p \subseteq 1 .. n
        BY <1>1, <1>6
    <2>3. Begun(w, n)
        BY <2>1, <2>2 DEF Begun
    <2>4. Begun(w, n)'
        BY <2>3 DEF Begun
    <2>5. \A t \in After(type) : got[t] = <<>>
        <3>1. \A t \in After(in.type) : got[t] = <<>>
            BY <1>13 DEF Attends
        <3>2. After(type) \subseteq After(in.type)
            BY DEF After
        <3>. QED
            BY <3>1, <3>2
    <2>. QED
        BY <1>12, <1>13, <1>14, <2>4, <2>5 DEF Attends
<1>17. Serving' /\ Quiet(Exchange(serving))' => Reads(w, View, n)'
    <2>1. ASSUME Quiet(Exchange(serving)) PROVE Reads(w, View, n)'
        <3>1. PICK v : v = View
            OBVIOUS
        <3>2. Reads(w, v, p)
            BY <2>1, <3>1 DEF Here
        <3>3. PICK g : g = got[in.type]
            OBVIOUS
        <3>4. Closed(w, v, in, g, p)
            BY <1>12, <3>2, <3>3 DEF Reads, Follows
        <3>5. PICK y : y = in'
            OBVIOUS
        <3>6. Surrounds(w, v, request.role) /\ in.type \in StreamsOf(request.role)
            BY <3>1, ServingIs
        <3>7. Ordered(w, v)
            BY <3>6 DEF Surrounds
        <3>8. in.type \in v.watch /\ (type \in v.watch => Ends(w, v, in.type))
            <4>1. CASE IsLast(w, v) /\ v.watch = {"PARAMS"}
                <5>1. type # "PARAMS"
                    OBVIOUS
                <5>2. request.role # "FILTER"
                    <6>1. request.role = "FILTER" => v.watch = Streams
                        BY <3>1 DEF View
                    <6>. QED
                        BY <4>1, <6>1 DEF Streams
                <5>3. type = "STDIN"
                    BY <5>2
                <5>4. in.type = "PARAMS"
                    BY <5>3 DEF After
                <5>. QED
                    BY <4>1, <5>1, <5>4
            <4>2. CASE v.watch = Streams /\ \A t \in StreamsOf(request.role) : Ends(w, v, t)
                <5>1. in.type \in Streams
                    BY <3>6 DEF StreamsOf, Streams
                <5>. QED
                    BY <3>6, <4>2, <5>1
            <4>. QED
                BY <3>6, <4>1, <4>2 DEF Surrounds
        <3>9. Len(in.hdr) \in Nat
            BY <1>1, ReaderIs
        <3>10. y.type = type /\ Fresh(y)
            BY <1>3, <3>5 DEF Turned
        <3>11. Follows(w, v, y, "none", <<>>, p + Len(in.hdr))
            <4>1. /\ p + Len(in.hdr) <= Len(w) /\ y.type \in After(in.type)
                  /\ y.type \in v.watch => Ends(w, v, in.type)
                BY <1>5, <1>6, <3>8, <3>10
            <4>2. in.type \in v.watch
                BY <3>8
            <4>. QED
                BY <1>1, <3>4, <3>7, <3>9, <3>10, <4>1, <4>2, FollowsSwitch
        <3>12. Follows(w, v, in, nested, got[in.type], n)'
            BY <1>5, <1>12, <1>14, <1>15, <3>5, <3>11
        <3>13. Chose(w, v)'
            BY <3>2 DEF Reads, Chose
        <3>. QED
            BY <1>8, <3>1, <3>12, <3>13 DEF Reads
    <2>. QED
        BY <1>9, <2>1
<1>18. Here(w, n, q)'
    BY <1>4, <1>7, <1>8, <1>10, <1>11, <1>16, <1>17 DEF Here
<1>. QED
    BY <1>18, HereNext

LEMMA ReadParamsStart ==
    ASSUME NEW w, NEW p, NEW q, Here(w, p, q), at = "reading begin", Back,
           request.isBeginProcessed, at' = "reading params", in' = SetReaderType(in, "PARAMS"),
           serving' = Record(taken).of,
           UNCHANGED <<inbox, open, filling, nested, taken, request, script, conn, sent, fd, got>>
    PROVE  ReadInv'
<1>1. /\ ReaderTypes /\ ReaderShape /\ p \in 0 .. q /\ Ahead = Part(w, p, q) /\ p \in Nat /\ q \in Nat
      /\ q \in 0 .. Len(w) /\ Len(w) \in Nat /\ w \in Seq(Octets(Known)) /\ OnTheWire(Known, w)
      /\ w = Sent /\ (w # <<>> => OnConnection)
    BY PositionIs DEF Here
<1>2. BodyIn(w, p) /\ nested = "none"
    BY DEF Here, BeginIs, BodyAhead, Back
<1>3. PICK r : r = w[p][1]
    OBVIOUS
<1>4. /\ in.hdr = <<>> /\ p > 0 /\ BeginsRequest(r) /\ r.id = request.requestId
      /\ Len(taken) = BodyLen /\ (taken # <<>> => Record(taken) = r) /\ request.role = r.role
    BY <1>2, <1>3 DEF BodyIn
<1>5. Record(taken) = r
    <2>1. BodyLen > 0
        BY ONLY FcgiRecordAssumption
    <2>2. Len(<<>>) = 0
        OBVIOUS
    <2>3. taken # <<>>
        BY ONLY <1>4, <2>1, <2>2
    <2>. QED
        BY <1>4, <2>3
<1>6. p \in DOMAIN w /\ OnConnection
    <2>1. DOMAIN w = 1 .. Len(w)
        BY <1>1, LenProperties
    <2>2. p \in DOMAIN w
        BY ONLY <1>1, <1>4, <2>1
    <2>3. w # <<>>
        BY ONLY <2>2
    <2>. QED
        BY <1>1, <2>2, <2>3
<1>7. r.of[2] \in 1 .. sent /\ r.of = <<conn, r.of[2]>> /\ serving' = r.of /\ serving'[1] = conn
    <2>1. InScript(w, script[conn])
        BY <1>1, <1>6, WireInScript
    <2>2. r.of[2] \in 1 .. sent /\ r.of = <<conn, r.of[2]>>
        BY <1>3, <1>6, <2>1 DEF InScript
    <2>3. r.of[1] = conn
        BY ONLY <2>2
    <2>. QED
        BY <1>5, <2>2, <2>3
<1>8. Turned("PARAMS")
    <2>1. "PARAMS" \in Streams
        BY DEF Streams
    <2>. QED
        BY <1>1, <2>1, SetReaderTypeIs
<1>9. Reader' /\ Known' = Known /\ Ahead' = Ahead
    <2>1. Reader' /\ Known' = Known /\ Ahead' = in.rd \o inbox
        BY <1>8, TurnedReader DEF Here
    <2>2. in.rd \o inbox = Ahead
        <3>1. in.rd \in Seq(Octets(Known)) /\ inbox \in Seq(Octets(Known))
            BY <1>1, ReaderIs DEF ReaderTypes
        <3>2. in.rd \o inbox \in Seq(Octets(Known))
            BY <3>1, ConcatProperties
        <3>3. <<>> \o (in.rd \o inbox) = in.rd \o inbox
            BY <3>2, ConcatEmptySeq
        <3>. QED
            BY <1>4, <3>3 DEF Ahead
    <2>. QED
        BY <2>1, <2>2
<1>10. Position(w, p, q)'
    BY <1>1, <1>9 DEF Here, Position
<1>11. Sent' = Sent /\ OnConnection' = OnConnection /\ NothingRead' = NothingRead
    BY DEF Sent, OnConnection, NothingRead
<1>12. Serving' /\ at' \in Active /\ at \in Active /\ at' # "reading begin" /\ at' # "finish"
       /\ ~Serving
    BY DEF Serving, Active
<1>13. Settled' /\ got = NothingRead
    BY <1>9, <1>11, <1>12 DEF Here, Settled
<1>14. in'.type = "PARAMS" /\ Fresh(in')
    BY <1>8 DEF Turned
<1>15. \A t \in Streams : got[t] = <<>>
    BY <1>13 DEF NothingRead
<1>16. Attends(w, p)'
    <2>1. Begun(w, p)'
        <3>1. p \in 1 .. p
            BY ONLY <1>1, <1>4
        <3>2. r.id = request'.requestId /\ r.of[2] = serving'[2] /\ r.role = request'.role
            BY <1>4, <1>7
        <3>3. \E b \in 1 .. p : LET k == w[b][1] IN
                BeginsRequest(k) /\ k.id = request'.requestId /\ k.of[2] = serving'[2]
                /\ k.role = request'.role
            BY <1>3, <1>4, <3>1, <3>2
        <3>. QED
            BY <3>3 DEF Begun
    <2>2. \A t \in After("PARAMS") : got'[t] = <<>>
        BY <1>15 DEF After, Streams
    <2>3. serving'[2] \in 1 .. sent'
        BY <1>7
    <2>. QED
        BY <1>2, <1>7, <1>14, <2>1, <2>2, <2>3 DEF Attends
<1>17. Reads(w, View, p)'
    <2>1. PICK v : v = View'
        OBVIOUS
    <2>2. v.of = r.of[2] /\ v.id = r.id
        BY <1>4, <1>7, <2>1 DEF View
    <2>3. Ordered(w, v)
        <3>1. v.of \in 1 .. sent /\ v.id # 0
            BY <1>4, <1>7, <2>2 DEF BeginsRequest
        <3>. QED
            BY <1>1, <1>6, <3>1, WireOrdered
    <2>4. PICK y : y = in'
        OBVIOUS
    <2>5. Follows(w, v, y, "none", <<>>, p)
        <3>1. Ours(v, w[p][1]) /\ w[p][1].type = "BEGIN_REQUEST"
            BY <1>3, <1>4, <2>2 DEF Ours, BeginsRequest
        <3>2. y.type = "PARAMS" /\ Fresh(y)
            BY <1>14, <2>4
        <3>. QED
            BY <1>1, <1>6, <2>3, <3>1, <3>2, FollowsBegin
    <2>6. got["PARAMS"] = <<>>
        BY <1>15 DEF Streams
    <2>7. Follows(w, v, in, nested, got[in.type], p)'
        BY <1>2, <1>14, <2>4, <2>5, <2>6
    <2>8. Chose(w, v)'
        <3>1. ASSUME NEW t \in Streams
              PROVE  \E n \in 0 .. Len(w) : got'[t] = Chosen(v, t, Part(w, 0, n))
            <4>1. Part(w, 0, 0) = <<>>
                BY ONLY PartEmpty
            <4>2. got'[t] = Chosen(v, t, Part(w, 0, 0))
                BY <1>15, <4>1, ChosenNothing
            <4>3. 0 \in 0 .. Len(w)
                BY ONLY <1>1
            <4>. QED
                BY <4>2, <4>3
        <3>. QED
            BY <3>1 DEF Chose
    <2>. QED
        BY <2>1, <2>7, <2>8 DEF Reads
<1>18. Here(w, p, q)'
    BY <1>1, <1>9, <1>10, <1>11, <1>12, <1>13, <1>16, <1>17 DEF Here
<1>. QED
    BY <1>18, HereNext
-----------------------------------------------------------------------------
LEMMA ReadInit == Init => ReadInv
<1>. SUFFICES ASSUME Init PROVE ReadInv
    OBVIOUS
<1>1. /\ inbox = <<>> /\ open = FALSE /\ in = NewReader("NONE") /\ filling = FALSE
      /\ nested = "none" /\ taken = <<>> /\ script \in Scripts /\ conn = 0 /\ sent = 0
      /\ fd = FALSE /\ at = "accept" /\ got = NothingRead
      /\ request = [requestId |-> 0, isBeginProcessed |-> FALSE, keepConnection |-> FALSE,
                    role |-> "NONE"]
    BY DEF Init, NothingRead
<1>2. /\ in.hdr = <<>> /\ in.rd = <<>> /\ in.avail = 0 /\ ~in.skip /\ ~in.isClosed
      /\ in.eorStop = FALSE
    BY <1>1 DEF NewReader
<1>3. at \notin Active /\ ~Serving
    BY <1>1 DEF Active, Serving
<1>4. got \in [Streams -> Seq(Octets(Known))]
    BY <1>1 DEF NothingRead
<1>5. Settled
    BY <1>1, <1>3, <1>4 DEF Settled, Resting, Active
<1>6. ReaderTypes
    <2>1. in \in ReaderState(Known)
        BY <1>1, NewReaderIs
    <2>2. Sized(Known)
        BY <1>1, ScriptIs DEF Known
    <2>3. IsRequestState(request)
        BY <1>1 DEF IsRequestState
    <2>4. inbox \in Seq(Octets(Known)) /\ taken \in Seq(Octets(Known))
        BY <1>1
    <2>. QED
        BY <1>1, <2>1, <2>2, <2>3, <2>4 DEF ReaderTypes
<1>7. ReaderShape
    <2>1. Len(in.hdr) = 0 /\ Len(in.rd) = 0 /\ HeaderLen > 0
        BY <1>2, FcgiRecordAssumption
    <2>2. in.eorStop = (nested # "none") /\ ~filling /\ nested = "none"
        BY <1>1, <1>2
    <2>. QED
        BY <1>2, <2>1, <2>2 DEF ReaderShape
<1>8. Sent = <<>>
    BY <1>1 DEF Sent
<1>9. Position(<<>>, 0, 0)
    <2>1. Part(<<>>, 0, 0) = <<>>
        BY PartEmpty
    <2>2. Len(<<>>) = 0 /\ <<>> \o (<<>> \o <<>>) = <<>>
        OBVIOUS
    <2>3. Ahead = <<>> \o (<<>> \o <<>>)
        BY <1>1, <1>2 DEF Ahead
    <2>4. 0 \in 0 .. Len(<<>>) /\ 0 \in 0 .. 0
        BY ONLY <2>2
    <2>. QED
        BY <1>1, <2>1, <2>2, <2>3, <2>4 DEF Position
<1>10. Here(<<>>, 0, 0)
    BY <1>1, <1>3, <1>5, <1>6, <1>7, <1>8, <1>9 DEF Here, Reader
<1>. QED
    BY <1>10, HereIs

LEMMA ReadGet ==
    ASSUME NEW w, NEW p, NEW q, Here(w, p, q), at \in {"reading params", "app"}, NEW n, Get(n)
    PROVE  ReadInv'
<1>1. /\ Back /\ ~in.isClosed
      /\ UNCHANGED <<inbox, open, nested, taken, request, script, conn, sent, at, fd, serving>>
      /\ Taking(n) \/ (in.avail = 0 /\ filling' = TRUE /\ UNCHANGED <<in, got>>)
    BY DEF Get, Taking, serverVars
<1>2. Serving /\ at # "finish"
    BY DEF Serving
<1>3. CASE Taking(n)
    BY <1>1, <1>2, <1>3, ReadTake
<1>4. CASE in.avail = 0 /\ filling' = TRUE /\ UNCHANGED <<in, got>>
    BY <1>1, <1>2, <1>4, ReadMore
<1>. QED
    BY <1>1, <1>3, <1>4

LEMMA ReadStart ==
    ASSUME NEW w, NEW p, NEW q, Here(w, p, q), AnswerInv,
           StartParams \/ EndParams \/ StartFilterData \/ Free
    PROVE  ReadInv'
<1>1. ASSUME Back, NEW close \in BOOLEAN, FCGX_Free(close) PROVE ReadInv'
    BY <1>1, ReadFree
<1>2. CASE StartParams
    <2>1. CASE FCGX_Free(TRUE)
        BY <1>1, <1>2, <2>1 DEF StartParams
    <2>2. CASE ~FCGX_Free(TRUE)
        <3>1. /\ at = "reading begin" /\ Back /\ request.isBeginProcessed /\ at' = "reading params"
              /\ in' = SetReaderType(in, "PARAMS") /\ serving' = Record(taken).of
              /\ UNCHANGED <<inbox, open, filling, nested, taken, request, fd, got>>
              /\ UNCHANGED <<script, conn, sent>>
            BY <1>2, <2>2 DEF StartParams, serverVars
        <3>. QED
            BY <3>1, ReadParamsStart
    <2>. QED
        BY <2>1, <2>2
<1>3. CASE EndParams
    <2>1. CASE FCGX_Free(TRUE)
        BY <1>1, <1>3, <2>1 DEF EndParams
    <2>2. CASE ~FCGX_Free(TRUE)
        <3>1. /\ at = "reading params" /\ Back /\ in.isClosed /\ at' = "app"
              /\ in' = SetReaderType(in, "STDIN")
              /\ UNCHANGED <<inbox, open, filling, nested, taken, request, fd, serving, got>>
              /\ UNCHANGED <<script, conn, sent>>
            BY <1>3, <2>2 DEF EndParams, serverVars
        <3>2. Serving
            BY <3>1 DEF Serving
        <3>3. in.type = "PARAMS"
            BY <3>1, <3>2 DEF Here, Attends
        <3>4. "STDIN" \in After(in.type)
            BY <3>3 DEF After
        <3>. QED
            BY <3>1, <3>2, <3>4, ReadSwitch
    <2>. QED
        BY <2>1, <2>2
<1>4. CASE StartFilterData
    <2>1. /\ at = "app" /\ at' = "app" /\ Back /\ in.isClosed /\ in.type = "STDIN"
          /\ request.role = "FILTER" /\ in' = SetReaderType(in, "DATA")
          /\ UNCHANGED <<inbox, open, filling, nested, taken, request, fd, serving, got>>
          /\ UNCHANGED <<script, conn, sent>>
        BY <1>4 DEF StartFilterData, serverVars, appVars
    <2>2. Serving
        BY <2>1 DEF Serving
    <2>3. "DATA" \in After(in.type)
        BY <2>1 DEF After
    <2>. QED
        BY <2>1, <2>2, <2>3, ReadSwitch
<1>5. CASE Free
    <2>. DEFINE close == ~request.keepConnection \/ in.error \/ \E x \in Writer : writer[x].error
    <2>1. FCGX_Free(close) /\ at = "finish"
        BY <1>5 DEF Free
    <2>2. close \in BOOLEAN
        OBVIOUS
    <2>3. Back
        BY <2>1 DEF Here, Settled
    <2>. HIDE DEF close
    <2>. QED
        BY <1>1, <2>1, <2>2, <2>3
<1>. QED
    BY <1>2, <1>3, <1>4, <1>5

LEMMA ReadNext == ReadInv /\ AnswerInv /\ [Next]_vars => ReadInv'
<1>. SUFFICES ASSUME ReadInv, AnswerInv, [Next]_vars PROVE ReadInv'
    OBVIOUS
<1>1. PICK w \in {Sent} : \E q \in 0 .. Len(w) : \E p \in 0 .. q : Here(w, p, q)
    BY DEF ReadInv
<1>2. PICK q \in 0 .. Len(w) : \E p \in 0 .. q : Here(w, p, q)
    BY <1>1
<1>3. PICK p \in 0 .. q : Here(w, p, q)
    BY <1>2
<1>4. CASE Stream
    BY <1>3, <1>4, ReadStream
<1>5. CASE \/ OS_Accept \/ OS_AcceptAgain \/ CallAccept \/ Finish \/ FinishWriters
           \/ (\E x \in Writer : PutChar(x) \/ FFlush(x) \/ FClose(x))
           \/ (Sigusr1 /\ UNCHANGED in) \/ UNCHANGED vars
    BY <1>3, <1>5, ReadOther
<1>6. CASE Accepted
    BY <1>3, <1>6, ReadAccepted
<1>7. CASE Begin
    BY <1>3, <1>7, ReadBegin
<1>8. CASE StartParams \/ EndParams \/ StartFilterData \/ Free
    BY <1>3, <1>8, ReadStart
<1>9. CASE ReadParams
    BY <1>3, <1>9, ReadGet DEF ReadParams
<1>10. CASE GetStr
    BY <1>3, <1>10, ReadGet DEF GetStr
<1>11. CASE Send
    BY <1>3, <1>11, ReadSend
<1>12. CASE Leave
    BY <1>3, <1>12, ReadLeave
<1>13. CASE Sigusr1 /\ in' # in
    <2>1. InRead /\ Returns(SetError(in)) /\ UNCHANGED at
        BY <1>13 DEF Sigusr1
    <2>2. UNCHANGED <<inbox, open, nested, taken, request, script, conn, sent, fd, serving, got>>
        BY <1>13 DEF Sigusr1, serverVars, appVars
    <2>. QED
        BY <1>3, <2>1, <2>2, ReadCut
<1>. QED
    BY <1>4, <1>5, <1>6, <1>7, <1>8, <1>9, <1>10, <1>11, <1>12, <1>13 DEF Next, Library, App

(* The content of the exchange is what is chosen of the wire. *)
LEMMA ContentIs ==
    ASSUME NEW w, NEW p, NEW q, Here(w, p, q), Serving, NEW type \in Streams
    PROVE  ContentOf(serving, type) = Chosen(View, type, w)
<1>. DEFINE s == script[conn]
            v == View
            x == s[v.of]
            f == Owned(v, type, Known)
<1>1. /\ OnConnection /\ Attends(w, p) /\ v.id = request.requestId /\ v.of = serving[2] /\ w = Sent
    BY ServingIs DEF Here
<1>2. /\ Sized(Known) /\ s \in Lists(Known) /\ AtPlace(s) /\ w = Wire(Flat(s, sent))
    BY <1>1, SentIs
<1>3. /\ Len(s) \in Nat /\ DOMAIN s = 1 .. Len(s) /\ sent \in 0 .. Len(s)
      /\ v.of \in 1 .. sent /\ Exchange(serving) = x
      /\ \A e \in 1 .. Len(s) : s[e] \in Seq(Known)
    BY <1>1, <1>2, FlatIs DEF OnConnection, Attends, Exchange
<1>4. v.of \in 1 .. Len(s) /\ sent \in v.of .. Len(s) /\ v.of \in DOMAIN s
    <2>1. v.of \in 1 .. sent /\ sent \in 0 .. Len(s) /\ Len(s) \in Nat /\ DOMAIN s = 1 .. Len(s)
        BY <1>3
    <2>. HIDE DEF v, s
    <2>. QED
        BY ONLY <2>1
<1>5. x \in Seq(Known) /\ DOMAIN x = 1 .. Len(x)
    <2>1. x \in Seq(Known)
        BY <1>3, <1>4
    <2>. QED
        BY <2>1, LenProperties
<1>6. Chosen(v, type, w) = Gather(f, x)
    <2>. HIDE DEF s, v
    <2>. QED
        BY <1>2, <1>4, ChosenOfFlat
<1>7. ASSUME NEW i \in 1 .. Len(x) PROVE f[x[i]] = OwnContent(x[i], type)
    <2>1. x[i] \in Known
        BY <1>5, ElementOfSeq
    <2>2. x[i].of[2] = v.of
        <3>. HIDE DEF s, v
        <3>. QED
            BY <1>2, <1>4, <1>5 DEF AtPlace
    <2>. HIDE DEF x, v
    <2>3. f[x[i]] = IF x[i].of[2] = v.of /\ x[i].id = v.id /\ x[i].type = type
                    THEN ContentBytes(x[i]) ELSE <<>>
        BY <2>1 DEF Owned
    <2>. QED
        BY <1>1, <2>2, <2>3 DEF OwnContent
<1>8. Pieces(f, x) = [i \in 1 .. Len(x) |-> OwnContent(x[i], type)]
    <2>. HIDE DEF f, x
    <2>. QED
        BY <1>7 DEF Pieces
<1>9. ContentOf(serving, type) = FlattenSeq([i \in 1 .. Len(x) |-> OwnContent(x[i], type)])
    BY <1>3 DEF ContentOf
<1>. HIDE DEF s, v, x, f
<1>10. ContentOf(serving, type) = Chosen(v, type, w)
    BY <1>6, <1>8, <1>9 DEF Gather
<1>. QED
    BY <1>10 DEF v

LEMMA ReadInvReads == ReadInv => ReadsItsQuietRecords
<1>. SUFFICES ASSUME ReadInv, Serving, Quiet(Exchange(serving)), NEW type \in Streams
              PROVE  ReadsAre(serving, type)
    BY DEF ReadsItsQuietRecords, ReadsItsRecords
<1>1. PICK w \in {Sent} : \E q \in 0 .. Len(w) : \E p \in 0 .. q : Here(w, p, q)
    BY DEF ReadInv
<1>2. PICK q \in 0 .. Len(w) : \E p \in 0 .. q : Here(w, p, q)
    BY <1>1
<1>3. PICK p \in 0 .. q : Here(w, p, q)
    BY <1>2
<1>4. PICK v : v = View
    OBVIOUS
<1>5. PICK all : all = Chosen(v, type, w)
    OBVIOUS
<1>6. ContentOf(serving, type) = all
    BY <1>3, <1>4, <1>5, ContentIs
<1>7. Reads(w, v, p) /\ w \in Seq(Octets(Known))
    BY <1>3, <1>4, PositionIs DEF Here
<1>8. IsPrefix(got[type], all)
    <2>1. PICK n \in 0 .. Len(w) : got[type] = Chosen(v, type, Part(w, 0, n))
        BY <1>7 DEF Reads, Chose
    <2>2. IsPrefix(Chosen(v, type, Part(w, 0, n)), Chosen(v, type, w))
        BY <1>7, ChosenPrefix
    <2>. QED
        BY <1>5, <2>1, <2>2
<1>9. in.type = type /\ in.isClosed /\ Back /\ ~in.error => got[type] = all
    BY <1>5, <1>7 DEF Reads, Follows, Closed, Back
<1>. QED
    BY <1>6, <1>8, <1>9 DEF ReadsAre

(* In a request whose exchange has no record that upsets the reader the    *)
(* application gets of each stream the content of its records and nothing  *)
(* else, in order, and its end only after all of it: whatever the web      *)
(* server sends in an orderly way (ScriptsAssumption), however the         *)
(* connection is cut into reads, wherever the buffer ends in a header,     *)
(* content or padding, with management records and those of other requests *)
(* in between, and if the connection is lost or a signal comes             *)
(* (FillBuffProc, ProcessHeader and FCGX_GetStr).                          *)
THEOREM QuietRecordsAreRead == Spec => []ReadsItsQuietRecords
<1>1. Init => ReadInv /\ AnswerInv
    BY ReadInit, AnswerInit
<1>2. ReadInv /\ AnswerInv /\ [Next]_vars => ReadInv' /\ AnswerInv'
    BY ReadNext, AnswerNext
<1>3. ReadInv => ReadsItsQuietRecords
    BY ReadInvReads
<1>. QED
    BY <1>1, <1>2, <1>3, PTL DEF Spec
==============================================================================
