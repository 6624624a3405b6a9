------------------------------- MODULE CgiFcgi -------------------------------
(***************************************************************************)
(* cgi-fcgi, the bridge from CGI to FastCGI: a process the web server      *)
(* starts for one request.  It connects to the application, sends it the   *)
(* request and its standard input as STDIN records, copies the content of  *)
(* STDOUT and STDERR records to its own output and error, and exits with   *)
(* the status of END_REQUEST.                                              *)
(*                                                                         *)
(* It has one thread and never waits but in the select of OS_DoIo.         *)
(* ScheduleIo posts what is to be read or written next, OS_DoIo does what  *)
(* is ready and calls the handlers: standard input first, then the reading *)
(* end of the socket, then the writing end.  A write to the web server may *)
(* block but is taken at once here.                                        *)
(***************************************************************************)
EXTENDS FcgiRecord

CONSTANTS BuffLen,   \* BUFFLEN
          SockBuf,   \* what the socket to the application takes before it is read
          Requests   \* CONTENT_LENGTH, the bytes there are, the records of the answer

(* The records of all answers. *)
Records == UNION {ToSet(r[3]) : r \in Requests}

ASSUME CgiFcgiAssumption ==
    /\ BuffLen \in Nat /\ BuffLen > HeaderLen /\ SockBuf \in Nat \ {0}
    /\ Requests \subseteq Int \X Nat \X Seq(Records)
    /\ \A r \in Records : {r.len, r.pad} \subseteq Nat

VARIABLES
    input,     \* the bytes of standard input not read yet
    sending,   \* they are there
    ws,        \* the web server's end of it: open, closed, broken
    answer,    \* what the application answers
    answered,  \* it has
    app,       \* the application's end of the socket: open, closed, reset
    fromApp,   \* bytes for the bridge to read
    toApp,     \* bytes the bridge has written
    read,      \* how many of them the application has read
    bytesToRead, webServerReadHandlerEOF, fromWS, header, contentLen, paddingLen,
    readingEndRequestBody, exitStatusSet,
    fromAS,    \* what AppServerReadHandler still has to take apart
    posted,    \* wsReadPending, fcgiReadPending, fcgiWritePending
    ready,     \* what select has found ready and OS_DoIo has not done yet
    out,       \* the content written to standard output and error
    exit       \* how the process has ended

outside == <<input, sending, ws, answer, answered, app, read>>

stdinVars == <<bytesToRead, webServerReadHandlerEOF, fromWS, toApp>>

recordVars == <<header, contentLen, paddingLen, readingEndRequestBody, exitStatusSet, out>>

vars == <<outside, fromApp, stdinVars, recordVars, fromAS, posted, ready, exit>>

requestId == 1

Events == {"stdin", "read", "write"}

Output == {"STDOUT", "STDERR"}

Init ==
    /\ \E r \in Requests : bytesToRead = r[1] /\ input = r[2] /\ answer = r[3]
    /\ sending = FALSE /\ ws = "open"
    /\ answered = FALSE /\ app = "open"
    /\ fromApp = <<>> /\ toApp = <<>> /\ read = 0
    /\ webServerReadHandlerEOF = FALSE /\ fromWS = <<>>
    /\ header = <<>> /\ contentLen = 0 /\ paddingLen = 0
    /\ readingEndRequestBody = FALSE /\ exitStatusSet = FALSE
    /\ fromAS = <<>> /\ posted = {} /\ ready = {}
    /\ out = [t \in Output |-> <<>>]
    /\ exit = "starting"
-----------------------------------------------------------------------------
(* The web server and the application. *)

WebServerSends ==
    /\ ~sending /\ sending' = TRUE
    /\ UNCHANGED <<input, ws, answer, answered, app, read, fromApp>>

WebServerEnds ==
    /\ sending /\ ws = "open" /\ ws' \in {"closed", "broken"}
    /\ UNCHANGED <<input, sending, answer, answered, app, read, fromApp>>

AppReads ==
    /\ app = "open" /\ read < Len(toApp) /\ read' = Len(toApp)
    /\ UNCHANGED <<input, sending, ws, answer, answered, app, fromApp>>

AppAnswers ==
    /\ app = "open" /\ toApp # <<>> /\ ~answered /\ answered' = TRUE
    /\ fromApp' = fromApp \o Wire(answer)
    /\ UNCHANGED <<input, sending, ws, answer, app, read>>

(* Unread input may reset the connection, and what was answered is lost. *)
AppCloses ==
    /\ app = "open" /\ toApp # <<>>
    /\ \/ app' = "closed" /\ UNCHANGED fromApp
       \/ read < Len(toApp) /\ app' = "reset" /\ fromApp' = <<>>
    /\ UNCHANGED <<input, sending, ws, answer, answered, read>>

Outside ==
    /\ exit \in {"starting", "none"}
    /\ WebServerSends \/ WebServerEnds \/ AppReads \/ AppAnswers \/ AppCloses
    /\ UNCHANGED <<stdinVars, recordVars, fromAS, posted, ready, exit>>
-----------------------------------------------------------------------------
(* Mutant: the read from the application is not posted again. *)
ScheduleIoOnce(p) ==
    posted' = p \cup (IF fromWS' # <<>> THEN {"write"} ELSE {})
                \cup (IF exit = "starting" THEN {"read"} ELSE {})
                \cup (IF bytesToRead' > 0 /\ ~webServerReadHandlerEOF' /\ fromWS' = <<>>
                      THEN {"stdin"} ELSE {})

(* p is pending.  A write is posted for what fromWS holds, and standard    *)
(* input is read only into an empty fromWS.                                *)
ScheduleIo(p) ==
    posted' = p \cup {"read"}
                \cup (IF fromWS' # <<>> THEN {"write"} ELSE {})
                \cup (IF bytesToRead' > 0 /\ ~webServerReadHandlerEOF' /\ fromWS' = <<>>
                      THEN {"stdin"} ELSE {})

Stdin(n, from) == [type |-> "STDIN", id |-> requestId, len |-> n, pad |-> 0, from |-> from]

StdinRecord(n) == Stdin(n, input)

EofRecord == Stdin(0, 0)

Preamble == <<MakeHeader("BEGIN_REQUEST", requestId, BodyLen, 0),
              MakeHeader("PARAMS", requestId, 1, 0), MakeHeader("PARAMS", requestId, 0, 0)>>

Exit(how) == exit' = how /\ UNCHANGED <<outside, fromApp, stdinVars, recordVars, fromAS, posted, ready>>

(* main up to the event loop: connect, and the request in blocking writes. *)
(* The last of them is taken to succeed: main does not look at its result. *)
Connect ==
    /\ exit = "starting"
    /\ \/ /\ exit' = "none"
          /\ toApp' = Wire(Preamble)
          /\ fromWS' = (IF bytesToRead <= 0 THEN Bytes(EofRecord) ELSE <<>>)
          /\ UNCHANGED <<bytesToRead, webServerReadHandlerEOF>>
          /\ ScheduleIo({})
          /\ UNCHANGED <<outside, fromApp, recordVars, fromAS, ready>>
       \/ Exit("errno")

IsReady(e) ==
    CASE e = "stdin" -> sending /\ (input > 0 \/ ws # "open")
      [] e = "read"  -> fromApp # <<>> \/ app # "open"
      [] e = "write" -> app # "open" \/ Len(toApp) - read < SockBuf

InDoIo == exit = "none" /\ fromAS = <<>>

(* The loop of main, and the select of OS_DoIo. *)
Select ==
    /\ InDoIo /\ ready = {} /\ ~exitStatusSet
    /\ ready' = {e \in posted : IsReady(e)} /\ ready' # {}
    /\ UNCHANGED <<outside, fromApp, stdinVars, recordVars, fromAS, posted, exit>>

ExitWithStatus == InDoIo /\ ready = {} /\ exitStatusSet /\ Exit("status")

(* OS_DoIo: the first of what is ready is done. *)
Done(e) ==
    /\ InDoIo /\ e \in ready /\ ready' = ready \ {e}
    /\ e # "stdin" => "stdin" \notin ready
    /\ e = "write" => "read" \notin ready

(* The read of standard input and WebServerReadHandler, n bytes being read. *)
HandleInput(n) ==
    /\ input' = input - n
    /\ bytesToRead' = bytesToRead - n
    /\ webServerReadHandlerEOF' = (n = 0)
    /\ fromWS' = Bytes(StdinRecord(n))
                 \o (IF bytesToRead' <= 0 THEN Bytes(EofRecord) ELSE <<>>)
    /\ exit' = IF Len(fromWS') > BuffLen THEN "overrun" ELSE exit
    /\ ScheduleIo(posted \ {"stdin"})
    /\ UNCHANGED <<sending, ws, answer, answered, app, read, fromApp, toApp, recordVars, fromAS>>

WebServerReadHandler ==
    \/ /\ Done("stdin")
       /\ \E n \in (IF input = 0 THEN {0} ELSE 1 .. Least(BuffLen - HeaderLen, input)) :
             (n = 0 => ws = "closed") /\ HandleInput(n)
    \/ InDoIo /\ "stdin" \in ready /\ input = 0 /\ ws = "broken" /\ Exit("errno")

(* The read of the socket; AppServerReadHandler at the end of the answer:  *)
(* the status was not set before, or there would have been no more reads.  *)
ReadApp ==
    \/ /\ Done("read") /\ posted' = posted \ {"read"}
       /\ \E n \in 1 .. Least(BuffLen, Len(fromApp)) :
             fromAS' = SubSeq(fromApp, 1, n) /\ fromApp' = Drop(fromApp, n)
       /\ UNCHANGED <<outside, stdinVars, recordVars, exit>>
    \/ /\ InDoIo /\ {"stdin", "read"} \cap ready = {"read"} /\ fromApp = <<>>
       /\ Exit(IF app = "reset" THEN "errno" ELSE "protocol")

InHandler == exit = "none" /\ fromAS # <<>>

(* Mutant: the unwritten rest of the buffer is dropped. *)
WrittenAll(n) == <<>>

Written(n) == Drop(fromWS, n)

(* The write to the socket and AppServerWriteHandler.  A write to an       *)
(* application that has gone fails, or is taken by the kernel.             *)
AppServerWriteHandler ==
    \/ /\ Done("write")
       /\ \E n \in 1 .. Len(fromWS) :
             /\ app = "open" => n <= SockBuf - (Len(toApp) - read)
             /\ toApp' = toApp \o SubSeq(fromWS, 1, n)
             /\ fromWS' = Written(n)
       /\ UNCHANGED <<bytesToRead, webServerReadHandlerEOF>>
       /\ ScheduleIo(posted \ {"write"})
       /\ UNCHANGED <<outside, fromApp, recordVars, fromAS, exit>>
    \/ InDoIo /\ ready = {"write"} /\ app # "open" /\ Exit("errno")
-----------------------------------------------------------------------------
(* The loop of AppServerReadHandler; at its end ScheduleIo. *)
Rest(n) ==
    /\ fromAS' = Drop(fromAS, n)
    /\ UNCHANGED stdinVars
    /\ IF fromAS' = <<>> THEN ScheduleIo(posted) ELSE UNCHANGED posted
    /\ UNCHANGED <<outside, fromApp, ready, exit>>

(* The rest of a header that a read has cut is copied behind the header,   *)
(* not into it, and nothing can be said of what follows.  A header of      *)
(* another request ends the process; so does one of another version, of    *)
(* which there is none here.                                               *)
ReadHeader ==
    /\ InHandler /\ Len(header) < HeaderLen
    /\ LET h == SubSeq(fromAS, 1, Least(HeaderLen, Len(fromAS))) IN
       \/ header # <<>> /\ Exit("undefined")
       \/ /\ header = <<>> /\ Len(h) = HeaderLen /\ Record(h).id # requestId
          /\ Exit("protocol")
       \/ /\ header = <<>> /\ (Len(h) = HeaderLen => Record(h).id = requestId)
          /\ header' = h
          /\ IF Len(h) = HeaderLen
             THEN contentLen' = Record(h).len /\ paddingLen' = Record(h).pad
             ELSE UNCHANGED <<contentLen, paddingLen>>
          /\ UNCHANGED <<readingEndRequestBody, exitStatusSet, out>>
          /\ Rest(Len(h))

Count == Least(contentLen, Len(fromAS))

Padding == IF Count = contentLen THEN Least(paddingLen, Len(fromAS) - Count) ELSE 0

(* Mutant: the header is discarded before its padding is skipped. *)
ConsumeNoPadding ==
    /\ contentLen' = contentLen - Count
    /\ paddingLen' = 0
    /\ header' = IF contentLen' = 0 THEN <<>> ELSE header
    /\ Rest(Count)

(* Content and padding are taken; when both are, the header is discarded. *)
Consume ==
    /\ contentLen' = contentLen - Count
    /\ paddingLen' = paddingLen - Padding
    /\ header' = IF contentLen' = 0 /\ paddingLen' = 0 THEN <<>> ELSE header
    /\ Rest(Count + Padding)

InContent(types) == InHandler /\ Len(header) = HeaderLen /\ Record(header).type \in types

WriteOutput ==
    /\ InContent(Output)
    /\ out' = [out EXCEPT ![Record(header).type] = @ \o SubSeq(fromAS, 1, Count)]
    /\ UNCHANGED <<readingEndRequestBody, exitStatusSet>>
    /\ Consume

(* The body cannot be put together from two reads either. *)
EndRequest ==
    /\ InContent({"END_REQUEST"})
    /\ \/ ~readingEndRequestBody /\ contentLen # BodyLen /\ Exit("protocol")
       \/ readingEndRequestBody /\ contentLen < BodyLen /\ Exit("undefined")
       \/ /\ contentLen = BodyLen /\ Count = contentLen
          /\ Record(header).status # "REQUEST_COMPLETE" /\ Exit("protocol")
       \/ /\ contentLen = BodyLen
          /\ Count = contentLen => Record(header).status = "REQUEST_COMPLETE"
          /\ readingEndRequestBody' = (Count < contentLen)
          /\ exitStatusSet' = (Count = contentLen)
          /\ UNCHANGED out
          /\ Consume

OtherRecord ==
    /\ InHandler /\ Len(header) = HeaderLen
    /\ Record(header).type \notin Output \cup {"END_REQUEST"}
    /\ Exit("protocol")

AppServerReadHandler == ReadApp \/ ReadHeader \/ WriteOutput \/ EndRequest \/ OtherRecord

Bridge == \/ Connect \/ Select \/ WebServerReadHandler \/ AppServerReadHandler
          \/ AppServerWriteHandler \/ ExitWithStatus

Next == Bridge \/ Outside

Spec == Init /\ [][Next]_vars /\ WF_vars(Bridge) /\ WF_vars(Outside /\ AppReads)
-----------------------------------------------------------------------------
Exits == {"status", "protocol", "errno", "undefined", "overrun"}

(* What the variables range over. *)
TypeOK ==
    /\ exit \in Exits \cup {"starting", "none"}
    /\ ready \subseteq posted /\ posted \subseteq Events
    /\ contentLen \in Nat /\ paddingLen \in Nat /\ Len(header) <= HeaderLen
    /\ exit # "overrun" => Len(fromWS) <= BuffLen
    /\ exit = "none" => ("write" \in posted <=> fromWS # <<>>)
    /\ "stdin" \in posted => fromWS = <<>>

(* The content of the first n records of the answer for one stream. *)
OutputOf(type, n) ==
    FlattenSeq([i \in 1 .. n |->
                   IF answer[i].type = type THEN ContentBytes(answer[i]) ELSE <<>>])

Ends == {i \in DOMAIN answer : answer[i].type = "END_REQUEST"}

(* The web server gets what the application wrote to each stream, in       *)
(* order; and all that came before END_REQUEST before the process exits    *)
(* with the application's status, wherever the reads cut content and       *)
(* padding.  A cut through a header or the body of END_REQUEST is followed *)
(* by "undefined", and nothing is said of it.                              *)
OutputWhole ==
    \A t \in Output :
        /\ IsPrefix(out[t], OutputOf(t, Len(answer)))
        /\ exit = "status" => \E i \in Ends : IsPrefix(OutputOf(t, i), out[t])

(* The records that begin in what was sent or is waiting to be sent. *)
Sent == LET all == toApp \o fromWS
        IN  FlattenSeq([k \in DOMAIN all |-> IF all[k][2] = 1 THEN <<all[k][1]>> ELSE <<>>])

(* The application gets whole records: the request, then the input piece   *)
(* by piece in order, then at most one empty record, whatever the pieces   *)
(* in which the input is read and the socket takes it.                     *)
InputWhole ==
    LET stdin == Drop(Sent, Len(Preamble))
    IN  /\ toApp \o fromWS = Wire(Sent)
        /\ toApp # <<>> => IsPrefix(Preamble, Sent)
        /\ \A i \in DOMAIN stdin : /\ stdin[i].type = "STDIN"
                                   /\ stdin[i].len = 0 => i = Len(stdin)
        /\ \A i \in 1 .. Len(stdin) - 1 :
              stdin[i + 1].len > 0 => stdin[i + 1].from = stdin[i].from - stdin[i].len

Concluded == app # "open" \/ (answered /\ answer # <<>>)

InputEnds == bytesToRead <= 0 \/ (sending /\ ws = "closed")

EndSent == toApp # <<>> /\ Last(toApp) = Last(Bytes(EofRecord))

(* The process ends once the application has answered or gone, and an      *)
(* application that reads gets the end of its input.                       *)
Progress ==
    /\ Concluded ~> exit \in Exits
    /\ InputEnds ~> (EndSent \/ exit \in Exits \/ app # "open")
==============================================================================
