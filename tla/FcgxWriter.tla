----------------------------- MODULE FcgxWriter ------------------------------
(***************************************************************************)
(* The output streams of a FastCGI request, byte for byte: a buffer that   *)
(* starts with room for a header, and is written to the connection as one  *)
(* record when it is full, flushed or closed.  A write may be refused or   *)
(* cut by a signal or by the web server's leaving, so each operation on a  *)
(* stream s and its connection c is the set of its outcomes.               *)
(***************************************************************************)
EXTENDS FcgiRecord

CONSTANTS BuffLen, \* the size of a stream's buffer, a multiple of Align
          Align    \* records are padded to multiples of this, and so are headers

ASSUME FcgxWriterAssumption ==
    /\ {BuffLen, Align} \subseteq Nat \ {0}
    /\ BuffLen % Align = 0 /\ HeaderLen % Align = 0 /\ BuffLen > HeaderLen

Writer == {"out", "err"}

TypeOf(w) == IF w = "out" THEN "STDOUT" ELSE "STDERR"

(* A byte the application writes, and one nobody does. *)
Data(w, n) == <<[type |-> "DATA", of |-> w, no |-> n], 0>>

Pad(n) == [k \in 1 .. n |-> <<[type |-> "PAD"], 0>>]

Reserved == Pad(HeaderLen)

Header(r) == SubSeq(Bytes(r), 1, HeaderLen)

NewStream(w) ==
    [type |-> TypeOf(w), buff |-> Reserved, stop |-> BuffLen, isClosed |-> FALSE,
     wasFCloseCalled |-> FALSE, error |-> FALSE, isAnythingWritten |-> FALSE,
     rawWrite |-> FALSE]

Room(s) == s.stop - Len(s.buff)

Outcome(s, c, ok) == [s |-> s, c |-> c, ok |-> ok]

Store(s, bytes) == [s EXCEPT !.buff = @ \o bytes]

SetError(s) == [s EXCEPT !.isClosed = TRUE, !.error = TRUE]

Sent(c, bytes) == [c EXCEPT !.sent = @ \o bytes]

(* A write that waits is cut by a signal, and fails if nothing was written *)
(* by then: the handler is installed without SA_RESTART, so what follows a *)
(* first, partial write fails with the second signal.  Or the web server   *)
(* goes, with or without a part of what was written.                       *)
write_it_all(c, bytes) ==
    {[c |-> Sent(c, bytes), ok |-> TRUE], [c |-> [c EXCEPT !.open = FALSE], ok |-> FALSE]}
    \cup {[c |-> [Sent(c, SubSeq(bytes, 1, j)) EXCEPT !.signals = @ - (IF j = 0 THEN 1 ELSE 2)],
           ok |-> FALSE] :
            j \in {i \in 0 .. Len(bytes) - 1 : c.signals >= IF i = 0 THEN 1 ELSE 2}}

(* Mutant: the buffer is not emptied. *)
WriteBufferKeeps(s, c) ==
    LET empty(t) == IF t.rawWrite THEN t ELSE Store(t, Reserved)
        written  == [s EXCEPT !.isAnythingWritten = TRUE]
    IN  IF s.buff = <<>> THEN {Outcome(empty(s), c, TRUE)}
        ELSE {IF w.ok THEN Outcome(empty(written), w.c, TRUE)
              ELSE Outcome(SetError(written), w.c, FALSE) : w \in write_it_all(c, s.buff)}

(* EmptyBuffProc once the record is complete: what is in the buffer goes   *)
(* to the connection, or stays there with the error.                       *)
WriteBuffer(s, c) ==
    LET emptied(t) == [t EXCEPT !.buff = IF t.rawWrite THEN <<>> ELSE Reserved]
        written    == [s EXCEPT !.isAnythingWritten = TRUE]
    IN  IF s.buff = <<>> THEN {Outcome(emptied(s), c, TRUE)}
        ELSE {IF w.ok THEN Outcome(emptied(written), w.c, TRUE)
              ELSE Outcome(SetError(written), w.c, FALSE) : w \in write_it_all(c, s.buff)}

Padding(n) == (Align - (n % Align)) % Align

(* The header is filled in and the content padded, or the room is taken back. *)
Encapsulated(s, c) ==
    LET cLen == Len(s.buff) - HeaderLen
        pad  == Padding(cLen)
    IN  IF s.rawWrite THEN s
        ELSE IF cLen <= 0 THEN [s EXCEPT !.buff = <<>>]
        ELSE [s EXCEPT !.buff = Header(MakeHeader(s.type, c.id, cLen, pad))
                                \o Drop(@, HeaderLen) \o Pad(pad)]

Flush(s, c) == WriteBuffer(Encapsulated(s, c), c)

(* FCGX_PutStr of a string that fits in an empty buffer.  What fits in the *)
(* rest of it is taken whether the stream is closed or not.                *)
PutStr(s, c, bytes) ==
    LET n == Room(s)
        t == Store(s, SubSeq(bytes, 1, n))
    IN  IF Len(bytes) <= n THEN {Outcome(Store(s, bytes), c, TRUE)}
        ELSE IF s.isClosed THEN {Outcome(t, c, FALSE)}
        ELSE {IF f.ok THEN Outcome(Store(f.s, Drop(bytes, n)), f.c, TRUE)
              ELSE Outcome(f.s, f.c, FALSE) : f \in Flush(t, c)}

EndRequest(c) ==
    [type |-> "END_REQUEST", id |-> c.id, len |-> BodyLen, pad |-> 0, status |-> c.appStatus]

(* WriteCloseRecords goes on when PutStr fails. *)
WriteCloseRecords(s, c) ==
    LET raw   == [s EXCEPT !.rawWrite = TRUE]
        quiet == s.type = "STDERR" /\ s.buff = <<>> /\ ~s.isAnythingWritten
        ends  == IF quiet THEN {Outcome(raw, c, TRUE)}
                 ELSE PutStr(raw, c, Header(MakeHeader(s.type, c.id, 0, 0)))
        last(e) == IF e.c.nWriters = 1 THEN PutStr(e.s, e.c, Bytes(EndRequest(e.c))) ELSE {e}
    IN  {[l EXCEPT !.c.nWriters = @ - 1] : l \in UNION {last(e) : e \in ends}}

EmptyBuffProc(s, c, doClose) ==
    IF doClose
    THEN UNION {WriteBuffer(w.s, w.c) : w \in WriteCloseRecords(Encapsulated(s, c), c)}
    ELSE Flush(s, c)

FFlush(s, c) ==
    IF s.isClosed THEN {Outcome(s, c, TRUE)}
    ELSE {[f EXCEPT !.ok = ~f.s.isClosed] : f \in EmptyBuffProc(s, c, FALSE)}

(* Mutant: the result of this close only. *)
FCloseForgets(s, c) ==
    LET closed(t) == [t EXCEPT !.wasFCloseCalled = TRUE, !.isClosed = TRUE, !.stop = Len(t.buff)]
    IN  IF s.wasFCloseCalled THEN {Outcome(s, c, TRUE)}
        ELSE {[f EXCEPT !.s = closed(f.s)] : f \in EmptyBuffProc(s, c, TRUE)}

(* FCGX_FClose: once, and with the stream's error whenever it is called. *)
FClose(s, c) ==
    LET closed(t) == [t EXCEPT !.wasFCloseCalled = TRUE, !.isClosed = TRUE, !.stop = Len(t.buff)]
    IN  IF s.wasFCloseCalled THEN {Outcome(s, c, ~s.error)}
        ELSE {Outcome(closed(f.s), f.c, ~f.s.error) : f \in EmptyBuffProc(s, c, TRUE)}

ClearError(s) == [s EXCEPT !.error = FALSE]
==============================================================================
