----------------------------- MODULE FcgiRecord ------------------------------
(***************************************************************************)
(* The FastCGI record on the wire: a header, content and padding.  A byte  *)
(* of record r is <<r, k>>; HeaderLen of them in the order of one record   *)
(* are its header, and any others are read as a header of no version this  *)
(* library knows.                                                          *)
(***************************************************************************)
EXTENDS Integers, Sequences, SequencesExt

CONSTANTS HeaderLen,  \* sizeof(FCGI_Header)
          BodyLen     \* sizeof(FCGI_BeginRequestBody) and of FCGI_EndRequestBody

ASSUME FcgiRecordAssumption == {HeaderLen, BodyLen} \subseteq Nat \ {0}

Least(a, b) == IF a < b THEN a ELSE b

Drop(s, n) == SubSeq(s, n + 1, Len(s))

MakeHeader(type, id, len, pad) == [type |-> type, id |-> id, len |-> len, pad |-> pad]

Bytes(r) == [k \in 1 .. HeaderLen + r.len + r.pad |-> <<r, k>>]

ContentBytes(r) == [k \in 1 .. r.len |-> <<r, HeaderLen + k>>]

Record(h) == h[1][1]

IsHeader(h) == h = SubSeq(Bytes(Record(h)), 1, HeaderLen)

Wire(records) == FlattenSeq([i \in DOMAIN records |-> Bytes(records[i])])
==============================================================================
