------------------------------ MODULE FcgiStdio ------------------------------
(***************************************************************************)
(* An application written against fcgi_stdio: stdin, stdout and stderr are *)
(* entries of a table that FCGI_Accept points at the streams of the next   *)
(* request, or at the C library's own when the program runs as a CGI.      *)
(* Output goes through FcgxWriter and is read here by the web server,      *)
(* byte by byte.  Requests are accepted as a whole: FcgxRequest has their  *)
(* reading.  The web server may leave at any time.                         *)
(***************************************************************************)
EXTENDS FcgxWriter, FiniteSets

CONSTANTS Statuses,    \* the exit statuses the application uses
          MaxRequests, \* bound: requests accepted
          MaxPut,      \* bound: bytes written
          MaxCalls,    \* bound: other calls that change a stream
          MaxSignals   \* bound: SIGUSR1

ASSUME FcgiStdioAssumption ==
    /\ Statuses \subseteq Nat /\ 0 \in Statuses
    /\ {MaxRequests, MaxPut, MaxCalls, MaxSignals} \subseteq Nat

VARIABLES
    isCGI, acceptCalled,
    file,    \* _fcgi_sF: the C library's FILE and the stream of a request
    environ, \* the request whose parameters it is
    at,      \* where the application is, and
    call,    \* what it has called: Accept, Finish, or exit
    request, \* its number; fd is open, keepConnection, live until it is freed
    in,      \* its input stream has an error
    s,       \* its output streams
    c,       \* what they share: its nWriters and appStatus, the connection, the signals left
    close,   \* FCGX_Finish_r will close the connection
    server,  \* what the web server has made of the bytes so far
    put,     \* bytes written to each stream without an error
    calls,   \* bytes written and other calls so far, in all requests
    asked    \* the status this request's application set last, if its call was lost,
             \* and what has happened on this connection

vars == <<isCGI, acceptCalled, file, environ, at, call, request, in, s, c, close,
          server, put, calls, asked>>

File == {"stdin", "stdout", "stderr"}

StreamOf(f) == CASE f = "stdin" -> "in" [] f = "stdout" -> "out" [] f = "stderr" -> "err"

NoStream == <<0, "none">>

shutdown == c.signals < MaxSignals
-----------------------------------------------------------------------------
(* The web server takes records apart. *)

NewServer == [hdr |-> <<>>, left |-> 0, pad |-> 0, type |-> "none", good |-> TRUE,
              next |-> [w \in Writer |-> 0], eof |-> {}, ended |-> -1]

ServerHeader(v, r) ==
    LET w == {x \in Writer : TypeOf(x) = r.type}
    IN  [v EXCEPT !.hdr = <<>>, !.left = r.len, !.pad = r.pad, !.type = r.type,
                  !.good = w \cap v.eof = {} /\ v.ended = -1,
                  !.eof = IF r.len = 0 THEN @ \cup w ELSE @]

ServerContent(v, byte) ==
    LET w == {x \in Writer : TypeOf(x) = v.type /\ byte = Data(x, v.next[x] + 1)}
        more == [v EXCEPT !.left = @ - 1]
    IN  IF v.type = "END_REQUEST"
        THEN [more EXCEPT !.ended = IF more.left = 0 THEN Record(<<byte>>).status ELSE @]
        ELSE [more EXCEPT !.good = w # {},
                          !.next = [x \in Writer |-> IF x \in w THEN @[x] + 1 ELSE @[x]]]

Receive(v, byte) ==
    LET h == Append(v.hdr, byte)
        r == Record(h)
    IN  IF ~v.good THEN v
        ELSE IF v.left > 0 THEN ServerContent(v, byte)
        ELSE IF v.pad > 0 THEN [v EXCEPT !.pad = @ - 1]
        ELSE IF byte[2] = 0 \/ h # SubSeq(Bytes(r), 1, Len(h)) THEN [v EXCEPT !.good = FALSE]
        ELSE IF Len(h) < HeaderLen THEN [v EXCEPT !.hdr = h]
        ELSE ServerHeader(v, r)

(* Byte after byte. *)
Received(v, bytes) ==
    LET f[n \in 0 .. Len(bytes)] == IF n = 0 THEN v ELSE Receive(f[n - 1], bytes[n])
    IN  f[Len(bytes)]

Boundary(v) == v.good /\ v.hdr = <<>> /\ v.left = 0 /\ v.pad = 0

(* An operation on stream w has outcome o. *)
Does(w, o) ==
    /\ s' = [s EXCEPT ![w] = o.s]
    /\ c' = [o.c EXCEPT !.sent = <<>>]
    /\ server' = IF o.c.open THEN Received(server, o.c.sent) ELSE NewServer
    /\ asked' = [asked EXCEPT !.failed = @ \/ o.s.error]
-----------------------------------------------------------------------------
NewStreams == [w \in Writer |-> NewStream(w)]

NothingPut == [w \in Writer |-> 0]

Init ==
    /\ isCGI \in BOOLEAN /\ acceptCalled = FALSE
    /\ file = [f \in File |-> [stdio |-> "none", fcgx |-> NoStream]]
    /\ environ = 0 /\ at = "app" /\ call = "none"
    /\ request = [no |-> 0, fd |-> FALSE, keep |-> FALSE, live |-> FALSE]
    /\ in = FALSE /\ s = NewStreams /\ put = NothingPut
    /\ calls = [bytes |-> 0, other |-> 0]
    /\ c = [id |-> 1, nWriters |-> 0, appStatus |-> 0, open |-> FALSE,
            signals |-> MaxSignals, sent |-> <<>>]
    /\ close = FALSE
    /\ server = NewServer
    /\ asked = [status |-> -1, lost |-> FALSE, cleared |-> FALSE, failed |-> FALSE]

StreamVars == <<request, in, s, c, close, server, put, calls, asked>>

(* The C library's FILEs take the place of the streams. *)
UsesStdio == file' = [f \in File |-> [stdio |-> "std", fcgx |-> NoStream]]

(* FCGI_Accept up to FCGX_Finish_r. *)
FCGI_Accept ==
    /\ at = "app" /\ call' = "Accept" /\ acceptCalled' = TRUE
    /\ \/ isCGI /\ ~acceptCalled /\ UsesStdio /\ at' = "app"
       \/ isCGI /\ acceptCalled /\ at' = "failed" /\ UNCHANGED file
       \/ ~isCGI /\ at' = "finish" /\ UNCHANGED file
    /\ UNCHANGED <<isCGI, environ>> /\ UNCHANGED StreamVars

(* FCGI_Finish up to FCGX_Finish_r.  exit calls it once Accept has been    *)
(* called: an exit within a request is this Finish, and the exit after it. *)
FCGI_Finish ==
    /\ \/ at = "app" /\ call' = "Finish"
       \/ at \in {"app", "failed"} /\ ~request.live /\ call' = "exit"
    /\ at' = IF acceptCalled /\ ~isCGI THEN "finish" ELSE IF call' = "exit" THEN "exited" ELSE "app"
    /\ UNCHANGED <<isCGI, acceptCalled, file, environ>> /\ UNCHANGED StreamVars

(* FCGX_Finish_r: err is closed, then out; their results and the error of  *)
(* the input decide whether the connection is closed too.                  *)
FinishStart ==
    /\ at = "finish" /\ at' = IF request.live THEN "err" ELSE "free"
    /\ close' = ~request.keep
    /\ UNCHANGED <<isCGI, acceptCalled, file, environ, call, request, in, s, c, server, put, calls, asked>>

FinishClose(w, next) ==
    /\ at = w /\ at' = next
    /\ \E o \in FClose(s[w], c) : Does(w, o) /\ close' = (close \/ ~o.ok)
    /\ UNCHANGED <<isCGI, acceptCalled, file, environ, call, request, in, put, calls>>

FinishStreams == FinishClose("err", "out") \/ FinishClose("out", "free")

(* The rest of FCGI_Finish. *)
Finished ==
    /\ at' = IF call = "exit" THEN "exited" ELSE "app"
    /\ file' = [f \in File |-> [file[f] EXCEPT !.fcgx = NoStream]]
    /\ environ' = 0

(* FCGX_Free: the streams go, those of the next request will be new ones.  *)
(* Back to FCGI_Finish, or on to the next request.                         *)
FCGX_Free ==
    /\ at = "free"
    /\ LET closes == close \/ (request.live /\ in)
       IN  /\ request' = [request EXCEPT !.live = FALSE, !.fd = @ /\ ~closes]
           /\ c' = [c EXCEPT !.open = @ /\ ~closes]
           /\ server' = IF closes THEN NewServer ELSE server
    /\ close' = FALSE
    /\ \/ call = "Accept" /\ at' = "accept" /\ UNCHANGED <<file, environ>>
       \/ call # "Accept" /\ Finished
    /\ in' = FALSE /\ s' = NewStreams /\ put' = NothingPut
    /\ UNCHANGED <<isCGI, acceptCalled, call, calls, asked>>

(* FCGX_Accept_r has a request: the streams are new, appStatus is not. *)
NewRequest ==
    /\ request.no < MaxRequests
    /\ \E keep \in BOOLEAN :
           /\ keep => request.no + 1 < MaxRequests \* nothing follows the last one
           /\ request' = [no |-> request.no + 1, fd |-> TRUE, keep |-> keep, live |-> TRUE]
    /\ UNCHANGED <<in, s, put, calls>>
    /\ file' = [f \in File |-> [stdio |-> "none", fcgx |-> <<request.no + 1, StreamOf(f)>>]]
    /\ environ' = request.no + 1
    /\ at' = "app"
    /\ UNCHANGED <<isCGI, acceptCalled, call, close>>

(* The web server sends it on a new connection, *)
AcceptNew ==
    /\ at = "accept" /\ ~request.fd /\ ~shutdown
    /\ NewRequest
    /\ c' = [c EXCEPT !.nWriters = 2, !.open = TRUE]
    /\ server' = NewServer
    /\ asked' = [status |-> -1, lost |-> FALSE, cleared |-> FALSE, failed |-> FALSE]

(* or on the one that was kept, with what it makes of the bytes on it, *)
AcceptKept ==
    /\ at = "accept" /\ request.fd /\ c.open
    /\ NewRequest
    /\ c' = [c EXCEPT !.nWriters = 2]
    /\ server' = IF Boundary(server) THEN NewServer ELSE [server EXCEPT !.ended = -1]
    /\ asked' = [asked EXCEPT !.status = -1, !.lost = FALSE]

(* or is gone, so that the kept connection is closed. *)
AcceptGone ==
    /\ at = "accept" /\ request.fd
    /\ ~c.open
    /\ request' = [request EXCEPT !.fd = FALSE]
    /\ UNCHANGED <<isCGI, acceptCalled, file, environ, at, call, in, s, c, close, server, put,
                   calls, asked>>

(* OS_Accept fails: FCGI_Accept leaves the table as it is. *)
AcceptFails ==
    /\ at = "accept" /\ ~request.fd /\ at' = "failed"
    /\ UNCHANGED <<isCGI, acceptCalled, file, environ, call>> /\ UNCHANGED StreamVars
-----------------------------------------------------------------------------
(* The application.  Without a stream of the request the C library's FILE  *)
(* is used, or there is nothing to use.                                    *)

Uses(f) == at = "app" /\ request.live /\ file[f].fcgx = <<request.no, StreamOf(f)>>

Fixed == UNCHANGED <<isCGI, acceptCalled, environ, at, call, request, close>>

Output == Fixed /\ UNCHANGED <<file, in>>

Writing(n) == calls.bytes + n <= MaxPut /\ calls' = [calls EXCEPT !.bytes = @ + n]

Control == Fixed /\ calls.other < MaxCalls /\ calls' = [calls EXCEPT !.other = @ + 1]

NextBytes(w, n) == [k \in 1 .. n |-> Data(w, put[w] + k)]

(* FCGI_fputc, FCGI_fputs, FCGI_fwrite *)
Puts(f, w) ==
    /\ w = StreamOf(f) /\ Uses(f) /\ file[f].stdio = "none"
    /\ \E n \in 1 .. BuffLen - HeaderLen :
           Writing(n) /\ \E o \in PutStr(s[w], c, NextBytes(w, n)) :
               Does(w, o) /\ put' = [put EXCEPT ![w] = IF o.ok THEN @ + n ELSE @]
    /\ Output

(* FCGI_puts and FCGI_fprintf write in pieces, two here, and stop at the   *)
(* first that fails; FCGI_perror does not stop.                            *)
Pieces(f, w, stops) ==
    /\ w = StreamOf(f) /\ Uses(f) /\ file[f].stdio = "none"
    /\ Writing(2)
    /\ \E first \in PutStr(s[w], c, NextBytes(w, 1)) :
           \E o \in IF first.ok \/ ~stops
                    THEN PutStr(first.s, first.c, <<Data(w, put[w] + 2)>>) ELSE {first} :
               Does(w, o) /\ put' = [put EXCEPT ![w] = IF first.ok /\ o.ok THEN @ + 2 ELSE @]
    /\ Output

FCGI_fprintf(f, w) == Pieces(f, w, TRUE)

FCGI_perror == Pieces("stderr", "err", FALSE)

FCGI_fflush(f, w) ==
    /\ w = StreamOf(f) /\ Uses(f) /\ file[f].stdio = "none"
    /\ \E o \in FFlush(s[w], c) : Does(w, o)
    /\ Output /\ UNCHANGED <<put, calls>>

(* FCGX_FClose of the stream of file f. *)
CloseStream(f) ==
    \/ /\ f = "stdin" /\ UNCHANGED <<in, s, c, server, asked>>
    \/ \E w \in Writer : /\ w = StreamOf(f) /\ \E o \in FClose(s[w], c) : Does(w, o)
                         /\ UNCHANGED in

FCGI_fclose(f) ==
    /\ at = "app" /\ file[f] # [stdio |-> "none", fcgx |-> NoStream]
    /\ \/ /\ file[f].stdio # "none"
          /\ file' = [file EXCEPT ![f].stdio = "none"]
          /\ UNCHANGED <<in, s, c, server, asked>>
       \/ /\ file[f].stdio = "none" /\ Uses(f) /\ CloseStream(f)
          /\ file' = [file EXCEPT ![f].fcgx = NoStream]
    /\ Control /\ UNCHANGED put

(* The stream is closed whether the new file can be opened or not. *)
FCGI_freopen(f) ==
    /\ Uses(f) /\ file[f].stdio = "none" /\ CloseStream(f)
    /\ file' \in {file, [file EXCEPT ![f] = [stdio |-> "file", fcgx |-> NoStream]]}
    /\ Control /\ UNCHANGED put

FCGI_clearerr(f) ==
    /\ Uses(f) /\ file[f].stdio = "none"
    /\ \/ f = "stdin" /\ in /\ in' = FALSE /\ UNCHANGED s
       \/ \E w \in Writer : /\ w = StreamOf(f) /\ s[w].error
                            /\ s' = [s EXCEPT ![w] = ClearError(s[w])]
                            /\ UNCHANGED in
    /\ asked' = [asked EXCEPT !.cleared = TRUE]
    /\ Control /\ UNCHANGED <<file, c, server, put>>

(* A read that fails, or FCGI_StartFilterData out of turn. *)
InputFails ==
    /\ Uses("stdin") /\ file["stdin"].stdio = "none" /\ ~in
    /\ in' = TRUE
    /\ Control /\ UNCHANGED <<file, s, c, server, put, asked>>

(* Mutant: the first status stands. *)
StatusSetOnce(status) == [c EXCEPT !.appStatus = IF @ = 0 THEN status ELSE @]

StatusSet(status) == [c EXCEPT !.appStatus = status]

(* FCGI_SetExitStatus finds the request through stdin: with stdin closed   *)
(* or reopened it does nothing.  With both output streams closed it is too *)
(* late for this request.                                                  *)
FCGI_SetExitStatus ==
    /\ at = "app" /\ request.live
    /\ \E status \in Statuses :
          \/ /\ Uses("stdin") /\ c' = StatusSet(status)
             /\ asked' = [asked EXCEPT !.status = status, !.lost = c.nWriters = 0]
          \/ /\ file["stdin"].fcgx = NoStream /\ UNCHANGED c
             /\ asked' = [asked EXCEPT !.status = status, !.lost = TRUE]
    /\ Control /\ UNCHANGED <<file, in, s, server, put>>

(* The web server leaves between two requests.  When it leaves earlier it  *)
(* is a write that shows it, which is one of the outcomes of write_it_all. *)
Leave ==
    /\ at = "accept" /\ c.open /\ c' = [c EXCEPT !.open = FALSE] /\ server' = NewServer
    /\ UNCHANGED <<isCGI, acceptCalled, file, environ, at, call, request, in, s, close, put,
                   calls, asked>>

(* A signal outside a write has an effect on the next OS_Accept only. *)
Sigusr1 ==
    /\ at = "accept" /\ c.signals > 0 /\ c' = [c EXCEPT !.signals = @ - 1]
    /\ UNCHANGED <<isCGI, acceptCalled, file, environ, at, call, request, in, s, close,
                   server, put, calls, asked>>

Library == FCGI_Accept \/ FCGI_Finish \/ FinishStart \/ FinishStreams \/ FCGX_Free
           \/ AcceptNew \/ AcceptKept \/ AcceptGone \/ AcceptFails

App == \/ \E f \in File, w \in Writer : Puts(f, w) \/ FCGI_fprintf(f, w) \/ FCGI_fflush(f, w)
       \/ \E f \in File : FCGI_fclose(f) \/ FCGI_freopen(f) \/ FCGI_clearerr(f)
       \/ FCGI_perror \/ InputFails \/ FCGI_SetExitStatus

Next == Library \/ App \/ Leave \/ Sigusr1

Spec == Init /\ [][Next]_vars
-----------------------------------------------------------------------------
(* No write of this connection has failed. *)
Undisturbed == c.open /\ ~asked.failed

(* As long as no write fails, the web server finds records where it looks  *)
(* for them, and in them the bytes of each stream in the order in which    *)
(* they were written, all of them once the request has ended: however they *)
(* were divided into writes, flushes and closes of either stream.          *)
OutputArrives ==
    Undisturbed /\ request.live =>
        /\ Boundary(server)
        /\ \A w \in Writer : server.next[w] <= put[w]
        /\ (server.ended # -1 => /\ server.next = put
                                 /\ "out" \in server.eof
                                 /\ (put["err"] > 0 => "err" \in server.eof))

(* A connection is used for the next request only if the web server is at  *)
(* the end of the answer to the one before: a cut write never goes         *)
(* unnoticed, unless the application clears the error of a stream, which   *)
(* FCGX_Finish_r relies on.                                                *)
KeptInStep ==
    [][AcceptKept => (Boundary(server) /\ server.ended # -1) \/ asked.cleared]_vars

(* The call that set the status last reached the request before its end.  *)
InTime(a) == a.status # -1 /\ ~a.lost

(* A request that is over has ended for the web server, and with the       *)
(* status its own application set last, whatever was set before it and in  *)
(* earlier requests, if that call came while an output stream was open and *)
(* found the request through stdin.                                        *)
EndsWithStatus ==
    at = "free" /\ request.live /\ Undisturbed =>
        /\ server.ended # -1
        /\ InTime(asked) => server.ended = asked.status

(* What fcgi_stdio.c:224 and fcgiapp.c:2309 say: the last call before the  *)
(* request ends determines the status of the current request, in which a   *)
(* request without a call has the 0 of a program that sets none.           *)
StatusOfItsOwn ==
    at = "free" /\ request.live /\ Undisturbed =>
        server.ended = IF asked.status = -1 THEN 0 ELSE asked.status

==============================================================================
