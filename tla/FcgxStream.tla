----------------------------- MODULE FcgxStream ------------------------------
(***************************************************************************)
(* The input stream of a FastCGI request: FillBuffProc reads the           *)
(* connection in pieces of any size, takes records apart, answers what is  *)
(* not for the application and hands it the content of the one stream it   *)
(* reads.  ProcessHeader reads the content of BEGIN_REQUEST and GET_VALUES *)
(* through the same stream, with eorStop set.                              *)
(***************************************************************************)
EXTENDS FcgiRecord, FiniteSets

CONSTANTS BuffLen,  \* the size of the reader's buffer
          PairLen   \* the bytes of one name-value pair

ASSUME FcgxStreamAssumption == {BuffLen, PairLen} \subseteq Nat \ {0}

VARIABLES
    inbox,    \* the bytes on the connection that have not been read
    open,     \* the web server has not closed the connection
    outbox,   \* the records the web server has been sent
    in,       \* the stream and its FCGX_Stream_Data
    filling,  \* in FillBuffProc
    nested,   \* what ProcessHeader reads through the stream: none, body or values
    taken,    \* the bytes of it read so far
    request   \* requestId, isBeginProcessed, keepConnection and role

streamVars == <<inbox, open, outbox, in, filling, nested, taken, request>>

(* Fields of in: rd is what the buffer holds from rdNext to buffStop, and  *)
(* avail of it, up to stop, may be taken by the caller.                    *)
NewReader(type) ==
    [type |-> type, rd |-> <<>>, avail |-> 0, hdr |-> <<>>, contentLen |-> 0,
     paddingLen |-> 0, skip |-> FALSE, eorStop |-> FALSE, isClosed |-> FALSE,
     error |-> FALSE]

(* Mutant: what is in the buffer is forgotten. *)
SetReaderTypeForgets(s, type) == [NewReader(type) EXCEPT !.error = s.error]

SetReaderType(s, type) ==
    [NewReader(type) EXCEPT !.rd = s.rd, !.error = s.error]

SetError(s) == [s EXCEPT !.isClosed = TRUE, !.error = TRUE]

EndOfStream(s) == [s EXCEPT !.avail = 0, !.isClosed = TRUE]

(* The caller takes n bytes of what is available. *)
Take(s, n) == [s EXCEPT !.rd = Drop(@, n), !.avail = @ - n]

GoesOn(s) == in' = s /\ UNCHANGED filling

Returns(s) == in' = s /\ filling' = FALSE

Local == UNCHANGED <<inbox, open, outbox, nested, taken, request>>

(* OS_Read: some of the bytes that are there, or the end of the connection. *)
OS_Read ==
    /\ filling /\ in.rd = <<>>
    /\ \/ \E n \in 1 .. Least(BuffLen, Len(inbox)) :
             /\ GoesOn([in EXCEPT !.rd = SubSeq(inbox, 1, n)])
             /\ inbox' = Drop(inbox, n)
       \/ inbox = <<>> /\ ~open /\ Returns(SetError(in)) /\ UNCHANGED inbox
    /\ UNCHANGED <<open, outbox, nested, taken, request>>

HasContent == filling /\ in.rd # <<>> /\ in.contentLen > 0

Count == Least(in.contentLen, Len(in.rd))

(* Mutant: everything in the buffer is delivered, padding and header too. *)
DeliverAll ==
    /\ HasContent /\ ~in.skip
    /\ Returns([in EXCEPT !.avail = Len(in.rd), !.contentLen = @ - Count])
    /\ Local

Deliver ==
    /\ HasContent /\ ~in.skip
    /\ Returns([in EXCEPT !.avail = Count, !.contentLen = @ - Count])
    /\ Local

SkipContent ==
    /\ HasContent /\ in.skip
    /\ GoesOn([in EXCEPT !.rd = Drop(@, Count), !.contentLen = @ - Count,
                         !.skip = in.contentLen > Count])
    /\ Local

(* The content is done with.  At the end of the padding eorStop is tested  *)
(* at once; without padding only when there is something in the buffer.    *)
SkipPadding ==
    /\ filling /\ in.rd # <<>> /\ in.contentLen = 0 /\ in.paddingLen > 0
    /\ LET n == Least(in.paddingLen, Len(in.rd))
           s == [in EXCEPT !.rd = Drop(@, n), !.paddingLen = @ - n]
       IN  IF s.paddingLen = 0 /\ s.eorStop THEN Returns(EndOfStream(s)) ELSE GoesOn(s)
    /\ Local

RecordDone == filling /\ in.rd # <<>> /\ in.contentLen = 0 /\ in.paddingLen = 0

EndOfRecord == RecordDone /\ in.eorStop /\ Returns(EndOfStream(in)) /\ Local

(* What the buffer holds of the header that is being read. *)
HeaderBytes == Least(HeaderLen - Len(in.hdr), Len(in.rd))

HeaderRead == [in EXCEPT !.rd = Drop(@, HeaderBytes), !.hdr = <<>>]

(* The stream after the header of record r. *)
Parsed(r) == [HeaderRead EXCEPT !.contentLen = r.len, !.paddingLen = r.pad]

Skipped(r) == [Parsed(r) EXCEPT !.skip = TRUE]

BadVersion == Returns(SetError(HeaderRead)) /\ Local

(* What is written reaches the web server while it is there. *)
Sends(records) == outbox' = IF open THEN outbox \o records ELSE outbox

(* write_it_all: a write may fail once the web server is gone. *)
Answer(r, s, success) ==
    /\ \/ Sends(<<r>>) /\ success
       \/ ~open /\ Returns(SetError(s)) /\ UNCHANGED outbox
    /\ UNCHANGED <<inbox, open, request>>

EndRequest(id, status) ==
    [type |-> "END_REQUEST", id |-> id, len |-> BodyLen, pad |-> 0, status |-> status]

(* ProcessBeginRecord up to the read of the body. *)
BeginRecord(r) ==
    \/ /\ r.id = 0 \/ r.len # BodyLen
       /\ Returns(SetError(Parsed(r))) /\ Local
    \/ /\ r.id # 0 /\ r.len = BodyLen /\ request.isBeginProcessed
       /\ Answer(EndRequest(r.id, "CANT_MPX_CONN"), Parsed(r), GoesOn(Skipped(r)))
       /\ UNCHANGED <<nested, taken>>
    \/ /\ r.id # 0 /\ r.len = BodyLen /\ ~request.isBeginProcessed
       /\ request' = [request EXCEPT !.requestId = r.id]
       /\ GoesOn([Parsed(r) EXCEPT !.eorStop = TRUE])
       /\ nested' = "body" /\ taken' = <<>>
       /\ UNCHANGED <<inbox, open, outbox>>

(* ProcessManagementRecord up to the read of the names.  The content of a  *)
(* record it does not know is left where it is.                            *)
ManagementRecord(r) ==
    \/ /\ r.type = "GET_VALUES"
       /\ GoesOn([Parsed(r) EXCEPT !.eorStop = TRUE])
       /\ nested' = "values" /\ taken' = <<>>
       /\ UNCHANGED <<inbox, open, outbox, request>>
    \/ /\ r.type # "GET_VALUES"
       /\ Answer(MakeHeader("UNKNOWN_TYPE", 0, BodyLen, 0), Parsed(r), GoesOn(Parsed(r)))
       /\ UNCHANGED <<nested, taken>>

StreamRecord(r) ==
    /\ IF r.type # in.type THEN Returns(SetError(Parsed(r)))
       ELSE IF r.len = 0 THEN Returns(EndOfStream(Parsed(r)))
       ELSE GoesOn(Parsed(r))
    /\ Local

ProcessHeader(h) ==
    LET r == Record(h) IN
    IF ~IsHeader(h) THEN BadVersion
    ELSE IF r.type = "BEGIN_REQUEST" THEN BeginRecord(r)
    ELSE IF r.id = 0 THEN ManagementRecord(r)
    ELSE IF r.id # request.requestId THEN GoesOn(Skipped(r)) /\ Local
    ELSE StreamRecord(r)

(* The header may come in several reads. *)
ReadHeader ==
    /\ RecordDone /\ ~in.eorStop
    /\ LET h == in.hdr \o SubSeq(in.rd, 1, HeaderBytes)
       IN  IF Len(h) = HeaderLen THEN ProcessHeader(h)
           ELSE GoesOn([in EXCEPT !.rd = <<>>, !.hdr = h]) /\ Local

FillBuffProc == OS_Read \/ Deliver \/ SkipContent \/ SkipPadding \/ EndOfRecord
                \/ ReadHeader

(* ProcessHeader returns: eorStop and isClosed are reset. *)
Resumed(s) == [s EXCEPT !.eorStop = FALSE, !.isClosed = FALSE]

(* A read inside ProcessHeader: it takes what FillBuffProc has delivered   *)
(* and calls it again while something is missing.                          *)
ReadNested ==
    /\ nested # "none" /\ ~filling /\ ~in.isClosed
    /\ ~(nested = "body" /\ Len(taken) = BodyLen)
    /\ taken' = taken \o SubSeq(in.rd, 1, in.avail)
    /\ in' = Take(in, in.avail)
    /\ filling' = (nested = "values" \/ Len(taken') < BodyLen)
    /\ UNCHANGED <<inbox, open, outbox, nested, request>>

(* The rest of ProcessBeginRecord; FillBuffProc returns to its caller. *)
EndBody ==
    /\ nested = "body" /\ ~filling
    /\ nested' = "none"
    /\ \/ /\ Len(taken) = BodyLen
          /\ in' = Resumed(in)
          /\ request' = LET r == Record(taken) IN
                        [request EXCEPT !.isBeginProcessed = TRUE,
                                        !.keepConnection = r.keep, !.role = r.role]
       \/ /\ Len(taken) < BodyLen /\ in.isClosed
          /\ in' = SetError(Resumed(in)) /\ UNCHANGED request
    /\ UNCHANGED <<inbox, open, outbox, filling, taken>>

(* ReadParams has read pairs until the end of the stream, or of the record. *)
BadPairs == Len(taken) % PairLen # 0

(* The rest of ProcessManagementRecord; FillBuffProc goes on. *)
EndValues ==
    /\ nested = "values" /\ ~filling /\ in.isClosed
    /\ nested' = "none"
    /\ \/ /\ in.error \/ BadPairs \/ in.contentLen # 0
          /\ Returns(SetError(Resumed(in)))
          /\ UNCHANGED <<inbox, open, outbox, request>>
       \/ /\ ~in.error /\ ~BadPairs /\ in.contentLen = 0
          /\ Answer(MakeHeader("GET_VALUES_RESULT", 0, 0, 0), Resumed(in),
                    in' = Resumed(in) /\ filling' = TRUE)
    /\ UNCHANGED taken

StreamStep == FillBuffProc \/ ReadNested \/ EndBody \/ EndValues
==============================================================================
