----------------------------- MODULE FcgxRequest -----------------------------
(***************************************************************************)
(* An application that serves requests with FCGX_Accept_r and              *)
(* FCGX_Finish_r, and the web server at the other end.  Accept_r keeps or  *)
(* takes a connection, reads BEGIN_REQUEST and the environment; the        *)
(* application reads what it likes of its input, writes to out and err,    *)
(* and comes back for the next request.                                    *)
(*                                                                         *)
(* The web server sends exchange after exchange: a request or management   *)
(* records.  It waits for the answers in between unless it pipelines, and  *)
(* may go away at any time.  The application answers in records: the       *)
(* kernel takes whatever it writes, and content is only counted.           *)
(***************************************************************************)
EXTENDS FcgxStream

CONSTANTS Scripts,   \* what the web server sends: connections of exchanges of records
          Pipelined, \* the scripts sent without waiting for answers
          WriterLen, \* the content the buffer of a writer holds
          Align,     \* records are padded to multiples of this
          MaxPut     \* bound: bytes the application writes in a request

Streams == {"PARAMS", "STDIN", "DATA"}

(* The streams of a request that come after one of them. *)
After(type) ==
    IF type = "PARAMS" THEN {"STDIN", "DATA"} ELSE IF type = "STDIN" THEN {"DATA"} ELSE {}

(* The web server begins a request before it sends its streams, sends them *)
(* one after the other, and nothing of a stream behind its empty record.   *)
Orderly(x) ==
    \A i, j \in DOMAIN x : x[i].id # 0 /\ x[i].id = x[j].id =>
        /\ x[i].type = "BEGIN_REQUEST" => i <= j
        /\ i < j => /\ x[i].type \notin After(x[j].type)
                    /\ x[i].type \in Streams /\ x[i].len = 0 => x[i].type # x[j].type

BeginsRequest(r) == r.type = "BEGIN_REQUEST" /\ r.id # 0 /\ r.len = BodyLen

(* It ends all streams of the request that record i begins. *)
Complete(x, i) ==
    \A type \in IF x[i].role = "FILTER" THEN Streams ELSE {"PARAMS", "STDIN"} :
        \E j \in DOMAIN x : x[j].id = x[i].id /\ x[j].type = type /\ x[j].len = 0

RecordsOf(s) == UNION {UNION {ToSet(s[n][e]) : e \in DOMAIN s[n]} : n \in DOMAIN s}

(* A record knows its place in the script, so that each byte is unique. *)
Placed(s) ==
    /\ s \in Seq(Seq(Seq(RecordsOf(s))))
    /\ \A n \in DOMAIN s : \A e \in DOMAIN s[n] : \A i \in DOMAIN s[n][e] :
          LET r == s[n][e][i] IN r.of = <<n, e>> /\ r.no = i /\ {r.len, r.pad} \subseteq Nat

ASSUME FcgxRequestAssumption ==
    /\ {WriterLen, Align} \subseteq Nat \ {0} /\ MaxPut \in Nat
    /\ WriterLen % Align = 0

(* Only the last request on a connection may be incomplete, and no filter. *)
ASSUME ScriptsAssumption ==
    \A s \in Scripts :
        /\ Placed(s)
        /\ \A n \in DOMAIN s : \A e \in DOMAIN s[n] :
              /\ Orderly(s[n][e])
              /\ \A i \in DOMAIN s[n][e] : BeginsRequest(s[n][e][i]) =>
                    Complete(s[n][e], i) \/ (e = Len(s[n]) /\ s[n][e][i].role # "FILTER")

VARIABLES
    script, conn, sent,  \* the web server's script, the connection it is at, exchanges sent on it
    fd,        \* ipcFd is open
    at,        \* where the application is
    serving,   \* the exchange BEGIN_REQUEST was read from: <<connection, exchange>>
    got,       \* the bytes the application has read from each stream
    writer,    \* out and err
    nWriters,
    unread,    \* a request was ended before its input was read to the end
    shutdown   \* shutdownPending

vars == <<streamVars, script, conn, sent, fd, at, serving, got, writer, nWriters,
          unread, shutdown>>

serverVars == <<script, conn, sent>>

appVars == <<serving, got, writer, nWriters, unread>>

Writer == {"out", "err"}

TypeOf(w) == IF w = "out" THEN "STDOUT" ELSE "STDERR"

NewWriter == [n |-> 0, put |-> 0, anything |-> FALSE, closed |-> FALSE, error |-> FALSE]

NoExchange == <<0, 0>>

Exchange(e) == script[e[1]][e[2]]

Init ==
    /\ inbox = <<>> /\ open = FALSE /\ outbox = <<>>
    /\ in = NewReader("NONE") /\ filling = FALSE /\ nested = "none" /\ taken = <<>>
    /\ request = [requestId |-> 0, isBeginProcessed |-> FALSE, keepConnection |-> FALSE,
                  role |-> "NONE"]
    /\ script \in Scripts /\ conn = 0 /\ sent = 0
    /\ fd = FALSE /\ at = "accept"
    /\ serving = NoExchange
    /\ got = [t \in Streams |-> <<>>]
    /\ writer = [w \in Writer |-> NewWriter] /\ nWriters = 0
    /\ unread = FALSE /\ shutdown = FALSE
-----------------------------------------------------------------------------
(* The web server. *)

Completed == SelectSeq(outbox, LAMBDA r : r.type = "END_REQUEST" /\ r.status = "REQUEST_COMPLETE")

Replies == SelectSeq(outbox, LAMBDA r : r.id = 0)

IsRequest(x) == \E i \in DOMAIN x : x[i].type = "BEGIN_REQUEST"

(* Everything sent on this connection has been answered. *)
Answered ==
    LET now == SubSeq(script[conn], 1, sent)
    IN  /\ Len(Completed) >= Len(SelectSeq(now, IsRequest))
        /\ Len(Replies) >= Len(SelectSeq(FlattenSeq(now), LAMBDA r : r.id = 0))

Send ==
    /\ open /\ sent < Len(script[conn])
    /\ Answered \/ script \in Pipelined
    /\ sent' = sent + 1
    /\ inbox' = inbox \o Wire(script[conn][sent + 1])
    /\ UNCHANGED <<open, outbox, in, filling, nested, taken, request>>
    /\ UNCHANGED <<script, conn, fd, at, shutdown>> /\ UNCHANGED appVars

(* It closes the connection when it is done, or in the middle of anything, *)
(* and what is under way is lost or still arrives.                         *)
Leave ==
    /\ open /\ open' = FALSE
    /\ inbox' \in {<<>>, inbox}
    /\ UNCHANGED <<outbox, in, filling, nested, taken, request>>
    /\ UNCHANGED <<fd, at, shutdown>> /\ UNCHANGED serverVars /\ UNCHANGED appVars
-----------------------------------------------------------------------------
(* FCGX_Accept_r *)

Goes(from, to) == at = from /\ at' = to

(* Mutant: shutdownPending is not tested. *)
OS_AcceptBlind ==
    /\ ~fd /\ Goes("accept", "window")
    /\ UNCHANGED <<fd, shutdown>> /\ UNCHANGED streamVars
    /\ UNCHANGED serverVars /\ UNCHANGED appVars

(* OS_Accept tests shutdownPending and then calls accept. *)
OS_Accept ==
    /\ ~fd /\ Goes("accept", IF shutdown THEN "exit" ELSE "window")
    /\ UNCHANGED <<fd, shutdown>> /\ UNCHANGED streamVars
    /\ UNCHANGED serverVars /\ UNCHANGED appVars

(* After a rejected connection OS_Accept goes round, with its descriptor   *)
(* still in socket: if a signal has come meanwhile, the test leaves the    *)
(* loop for accept with what looks like a connection, which is rejected    *)
(* and closed again, for ever.                                             *)
OS_AcceptAgain ==
    /\ Goes("rejected", IF shutdown THEN "spinning" ELSE "window")
    /\ UNCHANGED <<fd, shutdown>> /\ UNCHANGED streamVars
    /\ UNCHANGED serverVars /\ UNCHANGED appVars

CallAccept ==
    /\ Goes("window", "accepting")
    /\ UNCHANGED <<fd, shutdown>> /\ UNCHANGED streamVars
    /\ UNCHANGED serverVars /\ UNCHANGED appVars

(* accept returns.  A connection from an address that is not allowed, or   *)
(* on which nothing arrives in time, is closed again.                      *)
Accepted ==
    /\ conn < Len(script) /\ conn' = conn + 1 /\ sent' = 0
    /\ \/ Goes("accepting", "begin") /\ fd' = TRUE /\ open' = TRUE
       \/ Goes("accepting", "rejected") /\ UNCHANGED <<fd, open>>
    /\ UNCHANGED <<inbox, outbox, script, in, filling, nested, taken, request, shutdown>>
    /\ UNCHANGED appVars

(* The connection is there: a new reader, and FillBuffProc. *)
Begin ==
    /\ fd /\ at \in {"accept", "begin"} /\ at' = "reading begin"
    /\ in' = NewReader("NONE") /\ filling' = TRUE
    /\ request' = [request EXCEPT !.isBeginProcessed = FALSE]
    /\ UNCHANGED <<inbox, open, outbox, nested, taken, fd, shutdown>>
    /\ UNCHANGED serverVars /\ UNCHANGED appVars

Back == ~filling /\ nested = "none"

NothingRead == [t \in Streams |-> <<>>]

(* FCGX_Free: the streams go, with what the reader still holds; so does    *)
(* the connection if it is to be closed.                                   *)
FCGX_Free(close) ==
    /\ at' = "accept"
    /\ in' = NewReader("NONE") /\ taken' = <<>>
    /\ serving' = NoExchange /\ got' = NothingRead
    /\ writer' = [w \in Writer |-> NewWriter] /\ nWriters' = 0
    /\ IF close
       THEN /\ fd' = FALSE /\ open' = FALSE /\ inbox' = <<>> /\ outbox' = <<>>
            /\ unread' = FALSE
       ELSE UNCHANGED <<fd, open, inbox, outbox, unread>>
    /\ UNCHANGED <<filling, nested, request, shutdown>> /\ UNCHANGED serverVars

(* The request is of a known role, or the connection is tried no longer. *)
StartParams ==
    /\ at = "reading begin" /\ Back
    /\ \/ /\ request.isBeginProcessed /\ request.role # "UNKNOWN"
          /\ at' = "reading params"
          /\ in' = SetReaderType(in, "PARAMS")
          /\ serving' = Record(taken).of
          /\ UNCHANGED <<inbox, open, outbox, filling, nested, taken, request, fd, shutdown>>
          /\ UNCHANGED <<got, writer, nWriters, unread>> /\ UNCHANGED serverVars
       \/ /\ ~request.isBeginProcessed \/ request.role = "UNKNOWN"
          /\ FCGX_Free(TRUE)

(* The caller takes n of the available bytes, or FillBuffProc gets more. *)
Get(n) ==
    /\ Back /\ ~in.isClosed
    /\ \/ /\ n \in 1 .. in.avail
          /\ in' = Take(in, n)
          /\ got' = [got EXCEPT ![in.type] = @ \o SubSeq(in.rd, 1, n)]
          /\ UNCHANGED filling
       \/ in.avail = 0 /\ n = 0 /\ filling' = TRUE /\ UNCHANGED <<in, got>>
    /\ UNCHANGED <<inbox, open, outbox, nested, taken, request>>
    /\ UNCHANGED <<fd, at, shutdown, serving, writer, nWriters, unread>>
    /\ UNCHANGED serverVars

ReadParams == at = "reading params" /\ Get(in.avail)

(* ReadParams returns: an error that falls between two pairs looks like    *)
(* the end of the environment.                                             *)
EndParams ==
    /\ at = "reading params" /\ Back /\ in.isClosed
    /\ \/ /\ Len(got["PARAMS"]) % PairLen # 0
          /\ FCGX_Free(TRUE)
       \/ /\ Len(got["PARAMS"]) % PairLen = 0
          /\ at' = "app"
          /\ in' = SetReaderType(in, "STDIN") /\ nWriters' = 2
          /\ UNCHANGED <<inbox, open, outbox, filling, nested, taken, request, fd, shutdown>>
          /\ UNCHANGED <<serving, got, writer, unread>> /\ UNCHANGED serverVars
-----------------------------------------------------------------------------
(* The application and its writers. *)

GetStr == at = "app" /\ \E n \in 0 .. BuffLen : Get(n)

StartFilterData ==
    /\ at = "app" /\ Back /\ request.role = "FILTER"
    /\ in.isClosed /\ in.type = "STDIN"
    /\ in' = SetReaderType(in, "DATA")
    /\ UNCHANGED <<inbox, open, outbox, filling, nested, taken, request>>
    /\ UNCHANGED <<fd, at, shutdown>> /\ UNCHANGED serverVars /\ UNCHANGED appVars

Padding(n) == (Align - (n % Align)) % Align

Contents(w, n) ==
    IF n = 0 THEN <<>> ELSE <<MakeHeader(TypeOf(w), request.requestId, n, Padding(n))>>

(* Mutant: each writer ends the request. *)
CloseRecordsEach(w) ==
    <<MakeHeader(TypeOf(w), request.requestId, 0, 0),
      EndRequest(request.requestId, "REQUEST_COMPLETE")>>

(* Mutant: off by one, no writer is the last. *)
CloseRecordsNever(w) ==
    (IF w = "err" /\ writer[w].n = 0 /\ ~writer[w].anything THEN <<>>
     ELSE <<MakeHeader(TypeOf(w), request.requestId, 0, 0)>>)
    \o (IF nWriters = 0 THEN <<EndRequest(request.requestId, "REQUEST_COMPLETE")>> ELSE <<>>)

(* WriteCloseRecords *)
CloseRecords(w) ==
    (IF w = "err" /\ writer[w].n = 0 /\ ~writer[w].anything THEN <<>>
     ELSE <<MakeHeader(TypeOf(w), request.requestId, 0, 0)>>)
    \o (IF nWriters = 1 THEN <<EndRequest(request.requestId, "REQUEST_COMPLETE")>> ELSE <<>>)

(* EmptyBuffProc and write_it_all; the write may fail once the web server is gone. *)
Empty(w, records, new) ==
    /\ \/ /\ Sends(records)
          /\ writer' = [writer EXCEPT ![w] =
                [new EXCEPT !.n = 0, !.anything = @ \/ records # <<>>]]
       \/ /\ ~open /\ records # <<>>
          /\ writer' = [writer EXCEPT ![w] = [new EXCEPT !.error = TRUE]]
          /\ UNCHANGED outbox
    /\ UNCHANGED <<inbox, open, in, filling, nested, taken, request>>
    /\ UNCHANGED <<fd, shutdown, serving, got>> /\ UNCHANGED serverVars

Usable(w) == ~writer[w].closed /\ ~writer[w].error

PutChar(w) ==
    /\ at = "app" /\ Back /\ Usable(w) /\ writer["out"].put + writer["err"].put < MaxPut
    /\ writer[w].n < WriterLen
    /\ writer' = [writer EXCEPT ![w].n = @ + 1, ![w].put = @ + 1]
    /\ UNCHANGED <<at, fd, shutdown, serving, got, nWriters, unread>>
    /\ UNCHANGED streamVars /\ UNCHANGED serverVars

(* PutChar finds the buffer full, or FCGX_FFlush. *)
FFlush(w) ==
    /\ at = "app" /\ Back /\ Usable(w) /\ writer[w].n > 0
    /\ Empty(w, Contents(w, writer[w].n), writer[w])
    /\ UNCHANGED <<at, nWriters, unread>>

(* The application has read its input to the end. *)
InputRead == in.isClosed /\ (request.role = "FILTER" => in.type = "DATA")

(* FCGX_FClose, by the application or by Finish_r. *)
Close(w) ==
    /\ ~writer[w].closed
    /\ Empty(w, Contents(w, writer[w].n) \o CloseRecords(w), [writer[w] EXCEPT !.closed = TRUE])
    /\ nWriters' = nWriters - 1
    /\ unread' = (unread \/ (nWriters = 1 /\ ~InputRead))

FClose(w) == at = "app" /\ Back /\ Close(w) /\ UNCHANGED at

(* FCGX_Finish_r: err, out, then FCGX_Free. *)
Finish ==
    /\ Back /\ Goes("app", "finish")
    /\ UNCHANGED <<fd, shutdown>> /\ UNCHANGED streamVars
    /\ UNCHANGED serverVars /\ UNCHANGED appVars

FinishWriters ==
    \/ at = "finish" /\ Close("err") /\ UNCHANGED at
    \/ at = "finish" /\ writer["err"].closed /\ Close("out") /\ UNCHANGED at

Free ==
    /\ at = "finish" /\ \A w \in Writer : writer[w].closed
    /\ FCGX_Free(~request.keepConnection \/ in.error \/ \E w \in Writer : writer[w].error)
-----------------------------------------------------------------------------
InRead == filling /\ in.rd = <<>> /\ inbox = <<>>

(* SIGUSR1 interrupts accept, and a read that waits.  Anywhere else it only *)
(* sets the flag, and as nothing looks at that before the next OS_Accept,   *)
(* such a signal is taken to come there.                                    *)
Sigusr1 ==
    /\ ~shutdown /\ shutdown' = TRUE
    /\ \/ InRead /\ Returns(SetError(in)) /\ UNCHANGED at
       \/ at \in {"accept", "window", "rejected"} /\ UNCHANGED <<in, filling, at>>
       \/ Goes("accepting", "exit") /\ UNCHANGED <<in, filling>>
    /\ UNCHANGED <<inbox, open, outbox, nested, taken, request, fd>>
    /\ UNCHANGED serverVars /\ UNCHANGED appVars

Stream ==
    /\ StreamStep
    /\ UNCHANGED <<fd, at, shutdown>> /\ UNCHANGED serverVars /\ UNCHANGED appVars

Library == Stream \/ OS_Accept \/ OS_AcceptAgain \/ CallAccept \/ Accepted \/ Begin
           \/ StartParams \/ ReadParams \/ EndParams \/ FinishWriters \/ Free

App == \/ GetStr \/ StartFilterData \/ Finish
       \/ \E w \in Writer : PutChar(w) \/ FFlush(w) \/ FClose(w)

Next == Library \/ App \/ Send \/ Leave \/ Sigusr1

Spec == Init /\ [][Next]_vars /\ WF_vars(Library) /\ WF_vars(App)
-----------------------------------------------------------------------------
(* What record r has for one stream of the request, and exchange e. *)
OwnContent(r, type) ==
    IF r.type = type /\ r.id = request.requestId THEN ContentBytes(r) ELSE <<>>

ContentOf(e, type) ==
    FlattenSeq([i \in 1 .. Len(Exchange(e)) |-> OwnContent(Exchange(e)[i], type)])

(* A record that upsets the reader: an empty one for another request makes *)
(* it skip the next record, and the content of a management record it does *)
(* not know is delivered.                                                  *)
Upsets(r) == \/ r.id \notin {0, request.requestId} /\ r.len = 0
             \/ r.id = 0 /\ r.type # "GET_VALUES" /\ r.len > 0

Quiet(x) == \A i \in DOMAIN x : ~Upsets(x[i])

Serving == at \in {"reading params", "app", "finish"}

(* What the variables range over. *)
TypeOK ==
    /\ {open, filling, fd, unread, shutdown} \subseteq BOOLEAN
    /\ nested \in {"none", "body", "values"}
    /\ in.avail \in 0 .. Len(in.rd) /\ Len(in.rd) <= BuffLen
    /\ in.contentLen \in Nat /\ in.paddingLen \in Nat
    /\ in.eorStop = (nested # "none")
    /\ nWriters \in 0 .. 2 /\ \A w \in Writer : writer[w].n \in 0 .. WriterLen

(* However the connection is cut into reads, the application gets of each  *)
(* stream the content of its records and nothing else, in order, and the   *)
(* end of the stream only after all of it.                                 *)
ReadsAre(e, type) ==
    LET all == ContentOf(e, type)
    IN  /\ IsPrefix(got[type], all)
        /\ (in.type = type /\ in.isClosed /\ Back /\ ~in.error => got[type] = all)

ReadsItsRecords == Serving => \A t \in Streams : ReadsAre(serving, t)

(* The same as long as no record upsets the reader. *)
ReadsItsQuietRecords == Serving /\ Quiet(Exchange(serving)) => ReadsItsRecords

IsEnd(r) == r.type = "END_REQUEST" /\ r.status = "REQUEST_COMPLETE"

(* The records for one stream in the answer that ends with record last of s. *)
OfAnswer(s, last, type) ==
    {i \in 1 .. last : s[i].type = type /\ \A j \in i .. last - 1 : ~IsEnd(s[j])}

(* The last one, and no other, is the empty record that closes the stream. *)
ClosedOnce(s, records) ==
    \E i \in records : \A j \in records : j <= i /\ (s[j].len = 0 <=> j = i)

WellFormed(s, last) ==
    /\ ClosedOnce(s, OfAnswer(s, last, "STDOUT"))
    /\ OfAnswer(s, last, "STDERR") = {} \/ ClosedOnce(s, OfAnswer(s, last, "STDERR"))

(* The web server sees one answer after the other: each stream is closed   *)
(* once with nothing after it, STDERR only if it was used, and the request *)
(* ends after that.                                                        *)
AnswersWellFormed == \A last \in DOMAIN outbox : IsEnd(outbox[last]) => WellFormed(outbox, last)

(* A connection is closed only for a reason: the web server did not ask to *)
(* keep it or is gone, the exchange is bad, input was left unread or sent  *)
(* too early, or a signal cut a read.                                      *)
BadExchange(x) == ~Quiet(x) \/ \E i \in DOMAIN x : x[i].bad

ClosedForCause ==
    [][fd /\ ~fd' => \/ ~request.keepConnection \/ ~open \/ unread \/ shutdown
                     \/ script \in Pipelined
                     \/ \E e \in 1 .. sent : BadExchange(script[conn][e])]_vars

Waiting == fd /\ open /\ sent > 0 /\ ~Answered

(* GET_VALUES without padding was the last thing in the buffer: the reader *)
(* waits for more before it answers.                                       *)
ReadsOn == nested = "values" /\ filling /\ in.rd = <<>> /\ inbox = <<>>

(* What was sent before the answer is lost with the reader's buffer. *)
Lost == script \in Pipelined

(* An error between two pairs was taken for the end of the environment, and *)
(* the application reads on from the middle of a record.                   *)
ReadsAstray == in.error /\ filling

(* An open connection on which nothing comes is read, not given up. *)
Idle == InRead /\ open

(* SIGUSR1 ends the application when it comes for the next connection, and *)
(* a kept connection is served until it is closed.  Only a signal between  *)
(* the test in OS_Accept and accept waits for one more connection, and one *)
(* while a connection is being rejected makes OS_Accept spin.              *)
ShutdownEnds ==
    (shutdown /\ at \notin {"window", "accepting", "rejected", "spinning"})
    ~> (at = "exit" \/ Idle)

(* Whatever the web server sends is answered, or it sees the connection closed. *)
Served == Waiting ~> (~Waiting \/ ReadsOn \/ ReadsAstray \/ Lost)
==============================================================================
