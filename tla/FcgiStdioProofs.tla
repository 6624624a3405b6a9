--------------------------- MODULE FcgiStdioProofs ---------------------------
(***************************************************************************)
(* Theorems about fcgi_stdio, for all buffer sizes, numbers of requests,   *)
(* bytes, calls and signals: the output arrives, the request ends with its *)
(* status, and a connection is kept only if the web server is in step.     *)
(*                                                                         *)
(* The first part follows the web server through one record, byte after    *)
(* byte; the second says which records an operation on a stream writes;    *)
(* the third is about the steps of the application and the library.        *)
(***************************************************************************)
EXTENDS FcgiStdio, SequenceLemmas
-----------------------------------------------------------------------------
(* The web server, byte after byte: there is one path through the bytes,   *)
(* and Received is where it ends.                                          *)
IsPath(f, v, bytes) ==
    f = [n \in 0 .. Len(bytes) |-> IF n = 0 THEN v ELSE Receive(f[n - 1], bytes[n])]

LEMMA PathExists ==
    ASSUME NEW v, NEW bytes, Len(bytes) \in Nat
    PROVE  \E f : IsPath(f, v, bytes) /\ Received(v, bytes) = f[Len(bytes)]
<1>. DEFINE F(f, m) == f = [n \in 0 .. m |-> IF n = 0 THEN v ELSE Receive(f[n - 1], bytes[n])]
            P == {m \in Nat : \E f : F(f, m)}
<1>1. 0 \in P
    <2>. DEFINE e == [n \in 0 .. 0 |-> v]
    <2>1. F(e, 0)
        <3>1. \A n \in 0 .. 0 : n = 0
            OBVIOUS
        <3>. QED
            BY <3>1
    <2>. HIDE DEF F, e
    <2>2. \E f : F(f, 0)
        BY <2>1
    <2>. QED
        BY <2>2
<1>2. ASSUME NEW m \in Nat, m \in P PROVE m + 1 \in P
    <2>1. PICK f : F(f, m)
        BY <1>2
    <2>2. ASSUME NEW g, g = [n \in 0 .. m + 1 |-> IF n <= m THEN f[n]
                                                  ELSE Receive(f[n - 1], bytes[n])]
          PROVE  F(g, m + 1)
        <3>1. ASSUME NEW n \in 0 .. m + 1
              PROVE  g[n] = IF n = 0 THEN v ELSE Receive(g[n - 1], bytes[n])
            <4>1. n # 0 => n - 1 \in 0 .. m /\ n - 1 <= m /\ n - 1 \in 0 .. m + 1
                OBVIOUS
            <4>2. n # 0 => g[n - 1] = f[n - 1]
                BY <2>2, <4>1
            <4>3. CASE n <= m
                <5>1. n \in 0 .. m
                    BY <4>3
                <5>2. f[n] = IF n = 0 THEN v ELSE Receive(f[n - 1], bytes[n])
                    BY <2>1, <5>1
                <5>. QED
                    BY <2>2, <4>2, <4>3, <5>2
            <4>4. CASE ~(n <= m)
                <5>1. n # 0
                    BY <4>4
                <5>. QED
                    BY <2>2, <4>2, <4>4, <5>1
            <4>. QED
                BY <4>3, <4>4
        <3>. QED
            BY <2>2, <3>1
    <2>. DEFINE e == [n \in 0 .. m + 1 |-> IF n <= m THEN f[n] ELSE Receive(f[n - 1], bytes[n])]
    <2>3. F(e, m + 1)
        <3>. HIDE DEF F
        <3>. QED
            BY <2>2
    <2>4. \E g : F(g, m + 1)
        <3>. HIDE DEF F, e
        <3>. QED
            BY <2>3
    <2>. QED
        <3>. HIDE DEF F
        <3>. QED
            BY <2>4
<1>3. Len(bytes) \in P
    <2>. HIDE DEF P
    <2>. QED
        BY <1>1, <1>2, Induct
<1>4. \E f : IsPath(f, v, bytes)
    BY <1>3 DEF IsPath
<1>5. Received(v, bytes) = (CHOOSE f : IsPath(f, v, bytes))[Len(bytes)]
    BY DEF Received, IsPath
<1>. QED
    BY <1>4, <1>5

Leads(f, v, bytes, m) ==
    /\ f[0] = v /\ Received(v, bytes) = f[m]
    /\ \A n \in 1 .. m : f[n] = Receive(f[n - 1], bytes[n])

LEMMA Path ==
    ASSUME NEW v, NEW bytes, NEW m \in Nat, Len(bytes) = m
    PROVE  \E f : Leads(f, v, bytes, m)
<1>1. PICK f : IsPath(f, v, bytes) /\ Received(v, bytes) = f[Len(bytes)]
    BY PathExists
<1>2. ASSUME NEW n \in 0 .. m PROVE f[n] = IF n = 0 THEN v ELSE Receive(f[n - 1], bytes[n])
    BY <1>1, ZenonT(30) DEF IsPath
<1>3. 0 \in 0 .. m /\ \A n \in 1 .. m : n \in 0 .. m /\ n # 0
    OBVIOUS
<1>. QED
    BY <1>1, <1>2, <1>3 DEF Leads

LEMMA Traced ==
    ASSUME NEW v, NEW bytes, Len(bytes) \in Nat, NEW f, f[0] = v,
           \A n \in 1 .. Len(bytes) : f[n] = Receive(f[n - 1], bytes[n])
    PROVE  Received(v, bytes) = f[Len(bytes)]
<1>1. PICK g : IsPath(g, v, bytes) /\ Received(v, bytes) = g[Len(bytes)]
    BY PathExists
<1>. DEFINE P == {m \in Nat : m <= Len(bytes) => f[m] = g[m]}
<1>2. 0 \in P
    <2>1. 0 \in 0 .. Len(bytes)
        OBVIOUS
    <2>. QED
        BY <1>1, <2>1 DEF IsPath
<1>3. ASSUME NEW m \in Nat, m \in P PROVE m + 1 \in P
    <2>. SUFFICES ASSUME m + 1 <= Len(bytes) PROVE f[m + 1] = g[m + 1]
        OBVIOUS
    <2>1. m + 1 \in 0 .. Len(bytes) /\ m + 1 \in 1 .. Len(bytes) /\ (m + 1) - 1 = m /\ m + 1 # 0
        OBVIOUS
    <2>2. f[m] = g[m]
        BY <1>3, <2>1
    <2>3. g[m + 1] = Receive(g[m], bytes[m + 1])
        BY <1>1, <2>1, ZenonT(30) DEF IsPath
    <2>4. f[m + 1] = Receive(f[m], bytes[m + 1])
        BY <2>1
    <2>. QED
        BY <2>2, <2>3, <2>4
<1>4. Len(bytes) \in P
    <2>. HIDE DEF P
    <2>. QED
        BY <1>2, <1>3, Induct
<1>. QED
    BY <1>1, <1>4

IsSeq(x) == \E S : x \in Seq(S)

(* Sequences of anything, and what is appended to them. *)
LEMMA TwoSeqs ==
    ASSUME NEW x, IsSeq(x), NEW y, IsSeq(y)
    PROVE  \E S : x \in Seq(S) /\ y \in Seq(S)
<1>1. PICK S : x \in Seq(S)
    BY DEF IsSeq
<1>2. PICK T : y \in Seq(T)
    BY DEF IsSeq
<1>3. S \subseteq S \cup T /\ T \subseteq S \cup T
    OBVIOUS
<1>. DEFINE U == S \cup T
<1>4. x \in Seq(U) /\ y \in Seq(U)
    <2>1. S \subseteq U /\ T \subseteq U
        BY <1>3
    <2>. HIDE DEF U
    <2>. QED
        BY <1>1, <1>2, <2>1, SeqWiden
<1>. QED
    BY <1>4

LEMMA ConcatIs ==
    ASSUME NEW x, IsSeq(x), NEW y, IsSeq(y)
    PROVE  /\ IsSeq(x \o y) /\ Len(x) \in Nat /\ Len(y) \in Nat
           /\ Len(x \o y) = Len(x) + Len(y)
           /\ \A i \in 1 .. Len(x) + Len(y) :
                 (x \o y)[i] = IF i <= Len(x) THEN x[i] ELSE y[i - Len(x)]
<1>1. PICK S : x \in Seq(S) /\ y \in Seq(S)
    BY TwoSeqs
<1>. QED
    BY <1>1, ConcatProperties DEF IsSeq

LEMMA ConcatNothing == ASSUME NEW x, IsSeq(x) PROVE x \o <<>> = x /\ <<>> \o x = x
BY ConcatEmptySeq DEF IsSeq

LEMMA Grouping ==
    ASSUME NEW x, IsSeq(x), NEW y, IsSeq(y), NEW z, IsSeq(z)
    PROVE  (x \o y) \o z = x \o (y \o z)
<1>1. PICK S : x \in Seq(S) /\ y \in Seq(S)
    BY TwoSeqs
<1>2. PICK T : z \in Seq(T)
    BY DEF IsSeq
<1>. DEFINE U == S \cup T
<1>3. x \in Seq(U) /\ y \in Seq(U) /\ z \in Seq(U)
    <2>1. S \subseteq U /\ T \subseteq U
        OBVIOUS
    <2>. HIDE DEF U
    <2>. QED
        BY <1>1, <1>2, <2>1, SeqWiden
<1>. HIDE DEF U
<1>. QED
    BY <1>3, ConcatAssociative

LEMMA ReceivedNothing == ASSUME NEW v PROVE Received(v, <<>>) = v
<1>1. Len(<<>>) = 0
    OBVIOUS
<1>2. PICK g : IsPath(g, v, <<>>) /\ Received(v, <<>>) = g[Len(<<>>)]
    BY <1>1, PathExists
<1>. QED
    BY <1>1, <1>2 DEF IsPath

(* What comes in two parts. *)
LEMMA ReceivedConcat ==
    ASSUME NEW v, NEW x, IsSeq(x), NEW y, IsSeq(y)
    PROVE  Received(v, x \o y) = Received(Received(v, x), y)
<1>0. /\ Len(x) \in Nat /\ Len(y) \in Nat /\ Len(x \o y) = Len(x) + Len(y)
      /\ \A i \in 1 .. Len(x) + Len(y) :
            (x \o y)[i] = IF i <= Len(x) THEN x[i] ELSE y[i - Len(x)]
    BY ConcatIs
<1>1. PICK f : IsPath(f, v, x) /\ Received(v, x) = f[Len(x)]
    BY <1>0, PathExists
<1>2. PICK g : IsPath(g, Received(v, x), y) /\ Received(Received(v, x), y) = g[Len(y)]
    BY <1>0, PathExists
<1>. DEFINE h == [n \in 0 .. Len(x) + Len(y) |-> IF n <= Len(x) THEN f[n] ELSE g[n - Len(x)]]
<1>3. h[0] = v
    <2>1. 0 \in 0 .. Len(x) /\ 0 \in 0 .. Len(x) + Len(y) /\ 0 <= Len(x)
        BY <1>0
    <2>2. f[0] = v
        BY <1>1, <2>1 DEF IsPath
    <2>. QED
        BY <2>1, <2>2
<1>4. g[0] = f[Len(x)]
    <2>1. 0 \in 0 .. Len(y)
        BY <1>0
    <2>. QED
        BY <1>1, <1>2, <2>1 DEF IsPath
<1>5. ASSUME NEW n \in 1 .. Len(x \o y) PROVE h[n] = Receive(h[n - 1], (x \o y)[n])
    <2>1. n \in 0 .. Len(x) + Len(y) /\ n - 1 \in 0 .. Len(x) + Len(y) /\ n \in 1 .. Len(x) + Len(y)
        BY <1>0
    <2>2. CASE n <= Len(x)
        <3>1. n \in 0 .. Len(x) /\ n # 0 /\ n - 1 <= Len(x)
            BY <1>0, <2>2
        <3>2. f[n] = Receive(f[n - 1], x[n])
            BY <1>1, <3>1, ZenonT(30) DEF IsPath
        <3>. QED
            BY <1>0, <2>1, <2>2, <3>1, <3>2
    <2>3. CASE ~(n <= Len(x))
        <3>1. n - Len(x) \in 0 .. Len(y) /\ n - Len(x) # 0 /\ (n - Len(x)) - 1 = (n - 1) - Len(x)
            BY <1>0, <2>1, <2>3
        <3>2. g[n - Len(x)] = Receive(g[(n - Len(x)) - 1], y[n - Len(x)])
            BY <1>2, <3>1, ZenonT(30) DEF IsPath
        <3>3. h[n - 1] = g[(n - Len(x)) - 1]
            <4>1. CASE n - 1 <= Len(x)
                <5>1. n - 1 = Len(x) /\ (n - 1) - Len(x) = 0
                    BY <1>0, <2>3, <4>1
                <5>. QED
                    BY <1>4, <2>1, <3>1, <5>1
            <4>2. CASE ~(n - 1 <= Len(x))
                BY <2>1, <3>1, <4>2
            <4>. QED
                BY <4>1, <4>2
        <3>4. h[n] = g[n - Len(x)] /\ (x \o y)[n] = y[n - Len(x)]
            BY <1>0, <2>1, <2>3
        <3>. QED
            BY <3>2, <3>3, <3>4
    <2>. QED
        BY <2>2, <2>3
<1>6. h[Len(x \o y)] = g[Len(y)]
    <2>1. Len(x) + Len(y) \in 0 .. Len(x) + Len(y) /\ (Len(x) + Len(y)) - Len(x) = Len(y)
        BY <1>0
    <2>2. CASE Len(y) = 0
        BY <1>0, <1>4, <2>1, <2>2
    <2>3. CASE Len(y) # 0
        <3>1. ~(Len(x) + Len(y) <= Len(x))
            BY <1>0, <2>3
        <3>. QED
            BY <1>0, <2>1, <3>1
    <2>. QED
        BY <2>2, <2>3
<1>7. Received(v, x \o y) = h[Len(x \o y)]
    <2>1. Len(x \o y) \in Nat
        BY <1>0
    <2>. HIDE DEF h
    <2>. QED
        BY <1>3, <1>5, <2>1, Traced
<1>. QED
    BY <1>2, <1>6, <1>7
-----------------------------------------------------------------------------
(* The web server after k bytes of the header of r, and past the header    *)
(* with left bytes of content and pad of padding to come.                  *)
IsServer(v) ==
    DOMAIN v = {"hdr", "left", "pad", "type", "good", "next", "eof", "ended"} /\ v.good

Sees(v, next, eof, ended) == v.next = next /\ v.eof = eof /\ v.ended = ended

Reading(v, r, k) ==
    IsServer(v) /\ v.hdr = SubSeq(Bytes(r), 1, k) /\ v.left = 0 /\ v.pad = 0

Past(v, left, pad, type) ==
    IsServer(v) /\ v.hdr = <<>> /\ v.left = left /\ v.pad = pad /\ v.type = type

Sizes(r) == r.len \in Nat /\ r.pad \in Nat

LEMMA Lengths == /\ HeaderLen \in Nat \ {0} /\ BodyLen \in Nat \ {0}
                 /\ BuffLen \in Nat \ {0} /\ Align \in Nat \ {0} /\ BuffLen > HeaderLen
BY FcgiRecordAssumption, FcgxWriterAssumption

LEMMA BytesIs ==
    ASSUME NEW r, Sizes(r)
    PROVE  /\ IsSeq(Bytes(r)) /\ Len(Bytes(r)) = HeaderLen + r.len + r.pad
           /\ \A k \in 1 .. HeaderLen + r.len + r.pad : Bytes(r)[k] = <<r, k>>
<1>. DEFINE n == HeaderLen + r.len + r.pad
            S == {<<r, k>> : k \in 1 .. n}
<1>1. n \in Nat
    BY Lengths DEF Sizes
<1>2. Bytes(r) \in [1 .. n -> S]
    BY DEF Bytes
<1>3. \A k \in 1 .. n : Bytes(r)[k] = <<r, k>>
    BY DEF Bytes
<1>4. Bytes(r) \in Seq(S) /\ Len(Bytes(r)) = n
    <2>. HIDE DEF n, S
    <2>. QED
        BY <1>1, <1>2, FunctionIsSeq
<1>. QED
    BY <1>3, <1>4 DEF IsSeq

LEMMA PrefixIs ==
    ASSUME NEW r, Sizes(r), NEW k \in 0 .. HeaderLen
    PROVE  LET h == SubSeq(Bytes(r), 1, k)
           IN  IsSeq(h) /\ Len(h) = k /\ \A i \in 1 .. k : h[i] = <<r, i>>
<1>. DEFINE b == Bytes(r)
<1>1. PICK S : b \in Seq(S)
    BY BytesIs DEF IsSeq
<1>2. Len(b) = HeaderLen + r.len + r.pad /\ \A i \in 1 .. Len(b) : b[i] = <<r, i>>
    BY BytesIs
<1>3. HeaderLen \in Nat /\ r.len \in Nat /\ r.pad \in Nat
    BY Lengths DEF Sizes
<1>. HIDE DEF b
<1>4. 1 \in 1 .. Len(b) + 1 /\ k \in 1 - 1 .. Len(b)
    BY <1>2, <1>3
<1>5. /\ SubSeq(b, 1, k) \in Seq(S) /\ Len(SubSeq(b, 1, k)) = k - 1 + 1
      /\ \A i \in 1 .. k - 1 + 1 : SubSeq(b, 1, k)[i] = b[1 + i - 1]
    BY <1>1, <1>4, Slice
<1>6. \A i \in 1 .. k : i \in 1 .. k - 1 + 1 /\ i \in 1 .. Len(b) /\ 1 + i - 1 = i
    BY <1>2, <1>3
<1>7. \A i \in 1 .. k : SubSeq(b, 1, k)[i] = <<r, i>>
    BY <1>2, <1>5, <1>6
<1>8. k - 1 + 1 = k
    BY <1>3
<1>. QED
    BY <1>5, <1>7, <1>8 DEF b, IsSeq

LEMMA PrefixGrows ==
    ASSUME NEW r, Sizes(r), NEW k \in 0 .. HeaderLen - 1
    PROVE  Append(SubSeq(Bytes(r), 1, k), <<r, k + 1>>) = SubSeq(Bytes(r), 1, k + 1)
<1>. DEFINE h == SubSeq(Bytes(r), 1, k)
            g == SubSeq(Bytes(r), 1, k + 1)
            x == <<r, k + 1>>
<1>0. k \in Nat /\ k \in 0 .. HeaderLen /\ k + 1 \in 0 .. HeaderLen
    BY Lengths
<1>1. IsSeq(h) /\ Len(h) = k /\ \A i \in 1 .. k : h[i] = <<r, i>>
    BY <1>0, PrefixIs
<1>2. IsSeq(g) /\ Len(g) = k + 1 /\ \A i \in 1 .. k + 1 : g[i] = <<r, i>>
    BY <1>0, PrefixIs
<1>. HIDE DEF h, g
<1>3. PICK S : h \in Seq(S)
    BY <1>1 DEF IsSeq
<1>4. PICK R : g \in Seq(R)
    BY <1>2 DEF IsSeq
<1>. DEFINE T == S \cup {x}
<1>5. h \in Seq(T) /\ x \in T
    BY <1>3, SeqWiden
<1>. HIDE DEF T, x
<1>6. /\ Append(h, x) \in Seq(T) /\ Len(Append(h, x)) = k + 1
      /\ Append(h, x)[k + 1] = x /\ \A i \in 1 .. k : Append(h, x)[i] = h[i]
    BY <1>1, <1>5, AppendProperties
<1>7. \A i \in 1 .. k + 1 : i \in 1 .. k \/ i = k + 1
    BY <1>0
<1>8. \A i \in 1 .. k + 1 : Append(h, x)[i] = g[i]
    BY <1>0, <1>1, <1>2, <1>6, <1>7 DEF x
<1>9. Append(h, x) = g
    BY <1>2, <1>4, <1>6, <1>8, SeqEqual
<1>. QED
    BY <1>9 DEF h, g, x

(* The type of a record is that of one stream at most. *)
Of(type) == {x \in Writer : TypeOf(x) = type}

EndedBy(eof, r) == IF r.len = 0 THEN eof \cup Of(r.type) ELSE eof

(* One byte of a header: the last one must not be of a stream that has ended. *)
LEMMA ReceiveHeader ==
    ASSUME NEW r, Sizes(r), NEW k \in 0 .. HeaderLen - 1, NEW v, Reading(v, r, k),
           NEW next, NEW eof, Sees(v, next, eof, -1), Of(r.type) \cap eof = {}
    PROVE  LET w == Receive(v, <<r, k + 1>>)
           IN  IF k + 1 < HeaderLen THEN Reading(w, r, k + 1) /\ Sees(w, next, eof, -1)
               ELSE Past(w, r.len, r.pad, r.type) /\ Sees(w, next, EndedBy(eof, r), -1)
<1>. DEFINE g == SubSeq(Bytes(r), 1, k + 1)
            byte == <<r, k + 1>>
<1>0. k \in Nat /\ k + 1 \in 0 .. HeaderLen /\ 1 \in 1 .. k + 1 /\ k + 1 # 0
    BY Lengths
<1>1. Len(g) = k + 1 /\ \A i \in 1 .. k + 1 : g[i] = <<r, i>>
    BY <1>0, PrefixIs
<1>2. Append(v.hdr, byte) = g
    BY PrefixGrows DEF Reading
<1>3. Record(g) = r
    BY <1>0, <1>1 DEF Record
<1>4. v.good /\ ~(v.left > 0) /\ ~(v.pad > 0) /\ byte[2] = k + 1
    BY DEF Reading, IsServer
<1>5. g = SubSeq(Bytes(r), 1, Len(g))
    BY <1>1
<1>6. CASE k + 1 < HeaderLen
    <2>1. Reading([v EXCEPT !.hdr = g], r, k + 1) /\ Sees([v EXCEPT !.hdr = g], next, eof, -1)
        BY DEF Reading, Sees, IsServer
    <2>. HIDE DEF g, byte
    <2>2. Receive(v, byte) = [v EXCEPT !.hdr = g]
        BY <1>0, <1>1, <1>2, <1>3, <1>4, <1>5, <1>6 DEF Receive
    <2>. QED
        BY <1>6, <2>1, <2>2 DEF byte
<1>7. CASE ~(k + 1 < HeaderLen)
    <2>. DEFINE w == ServerHeader(v, r)
    <2>1. Past(w, r.len, r.pad, r.type)
        BY DEF Reading, Sees, IsServer, Past, ServerHeader, Of
    <2>2. Sees(w, next, EndedBy(eof, r), -1)
        BY DEF Reading, Sees, IsServer, ServerHeader, Of, EndedBy
    <2>. HIDE DEF g, byte, w
    <2>3. Receive(v, byte) = w
        BY <1>0, <1>1, <1>2, <1>3, <1>4, <1>5, <1>7 DEF Receive, w
    <2>. QED
        BY <1>7, <2>1, <2>2, <2>3 DEF byte
<1>. QED
    BY <1>6, <1>7

LEMMA ReadingNothing == ASSUME NEW r, NEW v PROVE (\E t : Past(v, 0, 0, t)) <=> Reading(v, r, 0)
<1>1. SubSeq(Bytes(r), 1, 0) = <<>>
    BY SubSeqEmpty
<1>. QED
    BY <1>1 DEF Reading, Past

(* Between two records. *)
Resting(v) == \E t : Past(v, 0, 0, t)

(* What holds of the first n bytes if it holds of none and after each. *)
LEMMA HeaderReceived ==
    ASSUME NEW r, Sizes(r), NEW v, Resting(v),
           NEW next, NEW eof, Sees(v, next, eof, -1), Of(r.type) \cap eof = {}
    PROVE  LET w == Received(v, Header(r))
           IN  Past(w, r.len, r.pad, r.type) /\ Sees(w, next, EndedBy(eof, r), -1)
<1>0. HeaderLen \in Nat /\ 0 < HeaderLen
    BY Lengths
<1>1. Len(Header(r)) = HeaderLen /\ \A i \in 1 .. HeaderLen : Header(r)[i] = <<r, i>>
    <2>1. HeaderLen \in 0 .. HeaderLen
        BY <1>0
    <2>. QED
        BY <2>1, PrefixIs DEF Header
<1>2. PICK f : Leads(f, v, Header(r), HeaderLen)
    BY <1>0, <1>1, Path
<1>. DEFINE P == {n \in Nat : n < HeaderLen => Reading(f[n], r, n) /\ Sees(f[n], next, eof, -1)}
<1>3. 0 \in P
    BY <1>2, ReadingNothing DEF Resting, Leads
<1>4. ASSUME NEW n \in Nat, n \in P PROVE n + 1 \in P
    <2>. SUFFICES ASSUME n + 1 < HeaderLen
                  PROVE  Reading(f[n + 1], r, n + 1) /\ Sees(f[n + 1], next, eof, -1)
        OBVIOUS
    <2>1. n + 1 \in 1 .. HeaderLen /\ (n + 1) - 1 = n /\ n \in 0 .. HeaderLen - 1 /\ n < HeaderLen
        BY <1>0
    <2>2. f[n + 1] = Receive(f[n], <<r, n + 1>>)
        BY <1>1, <1>2, <2>1 DEF Leads
    <2>3. Reading(f[n], r, n) /\ Sees(f[n], next, eof, -1)
        BY <1>4, <2>1
    <2>. QED
        BY <2>1, <2>2, <2>3, ReceiveHeader
<1>5. \A n \in Nat : n \in P
    <2>. HIDE DEF P
    <2>. QED
        BY <1>3, <1>4, Induct
<1>. DEFINE k == HeaderLen - 1
<1>6. /\ k \in Nat /\ k \in 0 .. HeaderLen - 1
      /\ k + 1 = HeaderLen /\ k + 1 \in 1 .. HeaderLen /\ (k + 1) - 1 = k
    BY <1>0
<1>7. Reading(f[k], r, k) /\ Sees(f[k], next, eof, -1)
    BY <1>5, <1>6
<1>. HIDE DEF k
<1>8. f[k + 1] = Receive(f[k], <<r, k + 1>>)
    BY <1>1, <1>2, <1>6 DEF Leads
<1>9. Received(v, Header(r)) = f[k + 1]
    BY <1>2, <1>6 DEF Leads
<1>. QED
    BY <1>6, <1>7, <1>8, <1>9, ReceiveHeader
-----------------------------------------------------------------------------
LEMMA Types ==
    /\ TypeOf("out") = "STDOUT" /\ TypeOf("err") = "STDERR"
    /\ \A w \in Writer : Of(TypeOf(w)) = {w} /\ TypeOf(w) # "END_REQUEST"
    /\ Of("END_REQUEST") = {}
BY DEF TypeOf, Writer, Of

(* What has been read of each stream, with m bytes of stream w. *)
Counting(next, w, m) == [x \in Writer |-> IF x = w THEN m ELSE next[x]]

(* One byte of content, of padding and of the end of the request. *)
LEMMA ReceiveContent ==
    ASSUME NEW w \in Writer, NEW left \in Nat \ {0}, NEW pad, NEW v, Past(v, left, pad, TypeOf(w)),
           NEW next, NEW eof, NEW ended, Sees(v, next, eof, ended), DOMAIN next = Writer
    PROVE  LET u == Receive(v, Data(w, next[w] + 1))
           IN  /\ Past(u, left - 1, pad, TypeOf(w))
               /\ Sees(u, Counting(next, w, next[w] + 1), eof, ended)
<1>. DEFINE byte == Data(w, next[w] + 1)
            u == ServerContent(v, byte)
<1>1. {x \in Writer : TypeOf(x) = v.type /\ byte = Data(x, v.next[x] + 1)} = {w}
    <2>1. \A x \in Writer : TypeOf(x) = v.type <=> x = w
        BY Types DEF Past, Of
    <2>2. v.next = next
        BY DEF Sees
    <2>. QED
        BY <2>1, <2>2
<1>2. v.type # "END_REQUEST"
    BY Types DEF Past
<1>3. Past(u, left - 1, pad, TypeOf(w))
    <2>. HIDE DEF byte
    <2>. QED
        BY <1>1, <1>2 DEF ServerContent, Past, IsServer
<1>4. Sees(u, Counting(next, w, next[w] + 1), eof, ended)
    <2>1. u.eof = eof /\ u.ended = ended
        <3>. HIDE DEF byte
        <3>. QED
            BY <1>1, <1>2 DEF ServerContent, Past, IsServer, Sees
    <2>2. u.next = [x \in Writer |-> IF x \in {w} THEN next[x] + 1 ELSE next[x]]
        <3>. HIDE DEF byte
        <3>. QED
            BY <1>1, <1>2 DEF ServerContent, Past, IsServer, Sees
    <2>3. u.next = Counting(next, w, next[w] + 1)
        BY <2>2 DEF Counting
    <2>. QED
        BY <2>1, <2>3 DEF Sees
<1>. HIDE DEF byte, u
<1>5. Receive(v, byte) = u
    BY DEF Receive, Past, IsServer, u
<1>. QED
    BY <1>3, <1>4, <1>5 DEF byte

LEMMA ReceivePadding ==
    ASSUME NEW pad \in Nat \ {0}, NEW type, NEW v, Past(v, 0, pad, type),
           NEW next, NEW eof, NEW ended, Sees(v, next, eof, ended), NEW byte
    PROVE  LET u == Receive(v, byte)
           IN  Past(u, 0, pad - 1, type) /\ Sees(u, next, eof, ended)
<1>1. Receive(v, byte) = [v EXCEPT !.pad = @ - 1]
    BY DEF Receive, Past, IsServer
<1>. QED
    BY <1>1 DEF Past, IsServer, Sees

LEMMA ReceiveEnd ==
    ASSUME NEW left \in Nat \ {0}, NEW v, Past(v, left, 0, "END_REQUEST"),
           NEW next, NEW eof, NEW ended, Sees(v, next, eof, ended), NEW r, NEW k
    PROVE  LET u == Receive(v, <<r, k>>)
           IN  /\ Past(u, left - 1, 0, "END_REQUEST")
               /\ Sees(u, next, eof, IF left - 1 = 0 THEN r.status ELSE ended)
<1>. DEFINE byte == <<r, k>>
            u == ServerContent(v, byte)
<1>1. Record(<<byte>>) = r
    BY DEF Record
<1>2. Past(u, left - 1, 0, "END_REQUEST")
    BY <1>1 DEF ServerContent, Past, IsServer
<1>3. Sees(u, next, eof, IF left - 1 = 0 THEN r.status ELSE ended)
    <2>. HIDE DEF byte
    <2>. QED
        BY <1>1 DEF ServerContent, Past, IsServer, Sees
<1>. HIDE DEF byte, u
<1>4. Receive(v, byte) = u
    BY DEF Receive, Past, IsServer, u
<1>. QED
    BY <1>2, <1>3, <1>4 DEF byte

(* What writer w was given after its first from bytes. *)
IsRun(bytes, w, from) ==
    IsSeq(bytes) /\ \A k \in 1 .. Len(bytes) : bytes[k] = Data(w, from + k)

(* And all of it. *)
LEMMA ContentReceived ==
    ASSUME NEW w \in Writer, NEW m \in Nat, NEW pad, NEW v, Past(v, m, pad, TypeOf(w)),
           NEW next \in [Writer -> Nat], NEW eof, NEW ended, Sees(v, next, eof, ended),
           NEW bytes, Len(bytes) = m, IsRun(bytes, w, next[w])
    PROVE  LET u == Received(v, bytes)
           IN  Past(u, 0, pad, TypeOf(w)) /\ Sees(u, Counting(next, w, next[w] + m), eof, ended)
<1>1. PICK f : Leads(f, v, bytes, m)
    BY Path
<1>. DEFINE P == {n \in Nat : n <= m => /\ Past(f[n], m - n, pad, TypeOf(w))
                                        /\ Sees(f[n], Counting(next, w, next[w] + n), eof, ended)}
<1>2. 0 \in P
    <2>1. Counting(next, w, next[w] + 0) = next
        BY DEF Counting
    <2>. QED
        BY <1>1, <2>1 DEF Leads
<1>3. ASSUME NEW n \in Nat, n \in P PROVE n + 1 \in P
    <2>. DEFINE now == Counting(next, w, next[w] + n)
    <2>. SUFFICES ASSUME n + 1 <= m
                  PROVE  /\ Past(f[n + 1], m - (n + 1), pad, TypeOf(w))
                         /\ Sees(f[n + 1], Counting(next, w, next[w] + (n + 1)), eof, ended)
        OBVIOUS
    <2>1. n + 1 \in 1 .. m /\ (n + 1) - 1 = n /\ n <= m /\ m - n \in Nat \ {0}
          /\ (m - n) - 1 = m - (n + 1)
        OBVIOUS
    <2>2. now[w] = next[w] + n /\ now[w] + 1 = next[w] + (n + 1) /\ DOMAIN now = Writer
        BY DEF Counting
    <2>3. f[n + 1] = Receive(f[n], Data(w, now[w] + 1))
        BY <1>1, <2>1, <2>2 DEF IsRun, Leads
    <2>4. Past(f[n], m - n, pad, TypeOf(w)) /\ Sees(f[n], now, eof, ended)
        BY <1>3, <2>1
    <2>5. Counting(now, w, now[w] + 1) = Counting(next, w, next[w] + (n + 1))
        BY <2>2 DEF Counting
    <2>. HIDE DEF now, P
    <2>6. /\ Past(f[n + 1], (m - n) - 1, pad, TypeOf(w))
          /\ Sees(f[n + 1], Counting(now, w, now[w] + 1), eof, ended)
        BY <2>1, <2>2, <2>3, <2>4, ReceiveContent
    <2>. QED
        BY <2>1, <2>5, <2>6
<1>4. m \in P
    <2>. HIDE DEF P
    <2>. QED
        BY <1>2, <1>3, Induct
<1>5. m - m = 0
    OBVIOUS
<1>. QED
    BY <1>1, <1>4, <1>5 DEF Leads

LEMMA PaddingReceived ==
    ASSUME NEW m \in Nat, NEW type, NEW v, Past(v, 0, m, type),
           NEW next, NEW eof, NEW ended, Sees(v, next, eof, ended), NEW bytes, Len(bytes) = m
    PROVE  LET u == Received(v, bytes) IN Past(u, 0, 0, type) /\ Sees(u, next, eof, ended)
<1>1. PICK f : Leads(f, v, bytes, m)
    BY Path
<1>. DEFINE P == {n \in Nat : n <= m => Past(f[n], 0, m - n, type) /\ Sees(f[n], next, eof, ended)}
<1>2. 0 \in P
    BY <1>1 DEF Leads
<1>3. ASSUME NEW n \in Nat, n \in P PROVE n + 1 \in P
    <2>. SUFFICES ASSUME n + 1 <= m
                  PROVE  Past(f[n + 1], 0, m - (n + 1), type) /\ Sees(f[n + 1], next, eof, ended)
        OBVIOUS
    <2>1. n + 1 \in 1 .. m /\ (n + 1) - 1 = n /\ n <= m /\ m - n \in Nat \ {0}
          /\ (m - n) - 1 = m - (n + 1)
        OBVIOUS
    <2>2. f[n + 1] = Receive(f[n], bytes[n + 1])
        BY <1>1, <2>1 DEF Leads
    <2>3. Past(f[n], 0, m - n, type) /\ Sees(f[n], next, eof, ended)
        BY <1>3, <2>1
    <2>. HIDE DEF P
    <2>4. Past(f[n + 1], 0, (m - n) - 1, type) /\ Sees(f[n + 1], next, eof, ended)
        BY <2>1, <2>2, <2>3, ReceivePadding
    <2>. QED
        BY <2>1, <2>4
<1>4. m \in P
    <2>. HIDE DEF P
    <2>. QED
        BY <1>2, <1>3, Induct
<1>5. m - m = 0
    OBVIOUS
<1>. QED
    BY <1>1, <1>4, <1>5 DEF Leads

LEMMA EndReceived ==
    ASSUME NEW m \in Nat \ {0}, NEW v, Past(v, m, 0, "END_REQUEST"),
           NEW next, NEW eof, NEW ended, Sees(v, next, eof, ended), NEW r,
           NEW bytes, Len(bytes) = m, \A k \in 1 .. m : \E j : bytes[k] = <<r, j>>
    PROVE  LET u == Received(v, bytes)
           IN  Past(u, 0, 0, "END_REQUEST") /\ Sees(u, next, eof, r.status)
<1>1. PICK f : Leads(f, v, bytes, m)
    BY Path
<1>. DEFINE so(n) == IF n = m THEN r.status ELSE ended
            P == {n \in Nat : n <= m => /\ Past(f[n], m - n, 0, "END_REQUEST")
                                        /\ Sees(f[n], next, eof, so(n))}
<1>2. 0 \in P
    BY <1>1 DEF Leads
<1>3. ASSUME NEW n \in Nat, n \in P PROVE n + 1 \in P
    <2>. SUFFICES ASSUME n + 1 <= m
                  PROVE  /\ Past(f[n + 1], m - (n + 1), 0, "END_REQUEST")
                         /\ Sees(f[n + 1], next, eof, so(n + 1))
        OBVIOUS
    <2>1. n + 1 \in 1 .. m /\ (n + 1) - 1 = n /\ n <= m /\ m - n \in Nat \ {0}
          /\ (m - n) - 1 = m - (n + 1) /\ ((m - n) - 1 = 0 <=> n + 1 = m) /\ n # m
        OBVIOUS
    <2>2. PICK j : bytes[n + 1] = <<r, j>>
        BY <2>1
    <2>3. f[n + 1] = Receive(f[n], <<r, j>>)
        BY <1>1, <2>1, <2>2 DEF Leads
    <2>4. Past(f[n], m - n, 0, "END_REQUEST") /\ Sees(f[n], next, eof, ended)
        BY <1>3, <2>1
    <2>. HIDE DEF P
    <2>5. /\ Past(f[n + 1], (m - n) - 1, 0, "END_REQUEST")
          /\ Sees(f[n + 1], next, eof, IF (m - n) - 1 = 0 THEN r.status ELSE ended)
        BY <2>1, <2>3, <2>4, ReceiveEnd
    <2>. QED
        BY <2>1, <2>5
<1>4. m \in P
    <2>. HIDE DEF P
    <2>. QED
        BY <1>2, <1>3, Induct
<1>5. m - m = 0
    OBVIOUS
<1>. QED
    BY <1>1, <1>4, <1>5 DEF Leads
-----------------------------------------------------------------------------
(* The three records an output stream writes. *)
At(v, next, eof, ended) == Resting(v) /\ Sees(v, next, eof, ended)

LEMMA PaddingType == ASSUME NEW n \in Nat PROVE Padding(n) \in 0 .. Align - 1
<1>1. Align \in Nat \ {0} /\ \A i \in Int : i % Align \in 0 .. Align - 1
    BY Lengths
<1>2. Align - (n % Align) \in Int
    BY <1>1
<1>. QED
    BY <1>1, <1>2 DEF Padding

LEMMA PadIs == ASSUME NEW n \in Nat PROVE IsSeq(Pad(n)) /\ Len(Pad(n)) = n
<1>. DEFINE b == <<[type |-> "PAD"], 0>>
<1>1. Pad(n) \in [1 .. n -> {b}]
    BY DEF Pad
<1>. HIDE DEF b
<1>2. Pad(n) \in Seq({b}) /\ Len(Pad(n)) = n
    BY <1>1, FunctionIsSeq
<1>. QED
    BY <1>2 DEF IsSeq

LEMMA HeaderIs == ASSUME NEW r, Sizes(r) PROVE IsSeq(Header(r)) /\ Len(Header(r)) = HeaderLen
<1>1. HeaderLen \in 0 .. HeaderLen
    BY Lengths
<1>. QED
    BY <1>1, PrefixIs DEF Header

ContentRecord(w, id, bytes) ==
    Header(MakeHeader(TypeOf(w), id, Len(bytes), Padding(Len(bytes)))) \o bytes
        \o Pad(Padding(Len(bytes)))

LEMMA ContentRecordIs ==
    ASSUME NEW w, NEW id, NEW bytes, IsSeq(bytes)
    PROVE  LET r == ContentRecord(w, id, bytes)
           IN  IsSeq(r) /\ Len(r) = HeaderLen + Len(bytes) + Padding(Len(bytes))
<1>. DEFINE m == Len(bytes)
            pad == Padding(m)
            r == MakeHeader(TypeOf(w), id, m, pad)
<1>1. m \in Nat /\ pad \in Nat
    <2>1. m \in Nat
        BY DEF IsSeq
    <2>2. pad \in 0 .. Align - 1
        BY <2>1, PaddingType
    <2>. QED
        BY <2>1, <2>2
<1>2. Sizes(r)
    BY <1>1 DEF Sizes, MakeHeader
<1>. HIDE DEF r, pad, m
<1>3. IsSeq(Header(r)) /\ Len(Header(r)) = HeaderLen
    BY <1>2, HeaderIs
<1>4. IsSeq(Header(r) \o bytes) /\ Len(Header(r) \o bytes) = HeaderLen + m
    BY <1>3, ConcatIs DEF m
<1>5. IsSeq(Pad(pad)) /\ Len(Pad(pad)) = pad
    BY <1>1, PadIs
<1>6. /\ IsSeq(Header(r) \o bytes \o Pad(pad))
      /\ Len(Header(r) \o bytes \o Pad(pad)) = HeaderLen + m + pad
    BY <1>4, <1>5, ConcatIs
<1>. QED
    BY <1>6 DEF ContentRecord, r, pad, m

LEMMA ContentRecordReceived ==
    ASSUME NEW w \in Writer, NEW id, NEW bytes, bytes # <<>>,
           NEW next \in [Writer -> Nat], IsRun(bytes, w, next[w]), NEW eof, w \notin eof,
           NEW v, At(v, next, eof, -1)
    PROVE  At(Received(v, ContentRecord(w, id, bytes)),
              Counting(next, w, next[w] + Len(bytes)), eof, -1)
<1>. DEFINE m == Len(bytes)
            pad == Padding(m)
            r == MakeHeader(TypeOf(w), id, m, pad)
            h == Header(r)
            p == Pad(pad)
            a == Received(v, h)
            b == Received(a, bytes)
            d == Received(b, p)
            now == Counting(next, w, next[w] + m)
<1>1. m \in Nat /\ m # 0 /\ pad \in Nat
    <2>1. m \in Nat /\ m # 0
        BY EmptySeq DEF IsSeq, IsRun
    <2>2. pad \in 0 .. Align - 1
        BY <2>1, PaddingType
    <2>. QED
        BY <2>1, <2>2
<1>2. Sizes(r) /\ r.len = m /\ r.pad = pad /\ r.type = TypeOf(w)
    BY <1>1 DEF Sizes, MakeHeader
<1>3. Of(r.type) \cap eof = {} /\ EndedBy(eof, r) = eof
    BY <1>1, <1>2, Types DEF EndedBy
<1>4. Received(v, ContentRecord(w, id, bytes)) = d
    <2>. HIDE DEF r, pad
    <2>1. IsSeq(bytes) /\ IsSeq(h) /\ IsSeq(p) /\ IsSeq(h \o bytes)
        BY <1>1, <1>2, HeaderIs, PadIs, ConcatIs DEF IsRun
    <2>2. Received(v, h \o bytes) = b
        <3>. HIDE DEF h, p
        <3>. QED
            BY <2>1, ReceivedConcat
    <2>3. Received(v, (h \o bytes) \o p) = d
        <3>. HIDE DEF h, p
        <3>. QED
            BY <2>1, <2>2, ReceivedConcat
    <2>4. (h \o bytes) \o p = ContentRecord(w, id, bytes)
        BY DEF ContentRecord, r, pad
    <2>. QED
        BY <2>3, <2>4
<1>5. Resting(v) /\ Sees(v, next, eof, -1)
    BY DEF At
<1>. HIDE DEF a, b, d, r, pad, now
<1>6. Past(a, m, pad, TypeOf(w)) /\ Sees(a, next, eof, -1)
    BY <1>2, <1>3, <1>5, HeaderReceived DEF a
<1>7. Past(b, 0, pad, TypeOf(w)) /\ Sees(b, now, eof, -1)
    <2>. HIDE DEF h, p, m
    <2>1. Len(bytes) = m
        BY DEF m
    <2>. QED
        BY <1>1, <1>6, <2>1, ContentReceived DEF b, now
<1>8. Len(p) = pad
    BY <1>1, PadIs
<1>. HIDE DEF p
<1>9. Past(d, 0, 0, TypeOf(w)) /\ Sees(d, now, eof, -1)
    BY <1>1, <1>7, <1>8, PaddingReceived DEF d
<1>10. At(d, now, eof, -1)
    BY <1>9 DEF At, Resting
<1>. QED
    BY <1>4, <1>10 DEF now, m

CloseRecord(w, id) == Header(MakeHeader(TypeOf(w), id, 0, 0))

LEMMA CloseRecordIs ==
    ASSUME NEW w, NEW id PROVE IsSeq(CloseRecord(w, id)) /\ Len(CloseRecord(w, id)) = HeaderLen
<1>1. Sizes(MakeHeader(TypeOf(w), id, 0, 0))
    BY DEF Sizes, MakeHeader
<1>. QED
    BY <1>1, HeaderIs DEF CloseRecord

LEMMA CloseRecordReceived ==
    ASSUME NEW w \in Writer, NEW id, NEW next, NEW eof, w \notin eof, NEW v, At(v, next, eof, -1)
    PROVE  At(Received(v, CloseRecord(w, id)), next, eof \cup {w}, -1)
<1>. DEFINE r == MakeHeader(TypeOf(w), id, 0, 0)
            u == Received(v, Header(r))
<1>1. Sizes(r) /\ r.len = 0 /\ r.pad = 0 /\ r.type = TypeOf(w)
    BY DEF Sizes, MakeHeader
<1>2. Of(r.type) \cap eof = {} /\ EndedBy(eof, r) = eof \cup {w}
    BY <1>1, Types DEF EndedBy
<1>3. Resting(v) /\ Sees(v, next, eof, -1)
    BY DEF At
<1>. HIDE DEF r
<1>4. Past(u, r.len, r.pad, r.type) /\ Sees(u, next, EndedBy(eof, r), -1)
    BY <1>1, <1>2, <1>3, HeaderReceived
<1>5. At(u, next, eof \cup {w}, -1)
    BY <1>1, <1>2, <1>4 DEF At, Resting
<1>. QED
    BY <1>5 DEF CloseRecord, r

LEMMA EndRecordIs ==
    ASSUME NEW k
    PROVE  /\ IsSeq(Bytes(EndRequest(k))) /\ Len(Bytes(EndRequest(k))) = HeaderLen + BodyLen
           /\ Sizes(EndRequest(k))
<1>1. Sizes(EndRequest(k)) /\ EndRequest(k).len = BodyLen /\ EndRequest(k).pad = 0
    BY Lengths DEF Sizes, EndRequest
<1>2. HeaderLen + BodyLen + 0 = HeaderLen + BodyLen
    BY Lengths
<1>. QED
    BY <1>1, <1>2, BytesIs

LEMMA EndRecordReceived ==
    ASSUME NEW k, NEW next, NEW eof, NEW v, At(v, next, eof, -1)
    PROVE  At(Received(v, Bytes(EndRequest(k))), next, eof, k.appStatus)
<1>. DEFINE r == EndRequest(k)
            b == Bytes(r)
            l == HeaderLen + BodyLen
            body == SubSeq(b, HeaderLen + 1, l)
            a == Received(v, Header(r))
            u == Received(a, body)
<1>0. HeaderLen \in Nat /\ BodyLen \in Nat \ {0} /\ l \in Nat
    BY Lengths
<1>1. /\ Sizes(r) /\ r.len = BodyLen /\ r.pad = 0 /\ r.type = "END_REQUEST"
      /\ r.status = k.appStatus
    BY EndRecordIs DEF EndRequest
<1>2. Of(r.type) \cap eof = {} /\ EndedBy(eof, r) = eof
    BY <1>0, <1>1, Types DEF EndedBy
<1>3. IsSeq(b) /\ Len(b) = l /\ \A i \in 1 .. l : b[i] = <<r, i>>
    <2>. HIDE DEF r
    <2>1. HeaderLen + r.len + r.pad = l
        BY <1>0, <1>1
    <2>. QED
        BY <1>1, <2>1, BytesIs
<1>. HIDE DEF r
<1>4. PICK S : b \in Seq(S)
    BY <1>3 DEF IsSeq
<1>5. Header(r) = SubSeq(b, 1, HeaderLen)
    BY DEF Header
<1>. HIDE DEF b
<1>6. /\ body \in Seq(S) /\ Len(body) = BodyLen
      /\ \A i \in 1 .. BodyLen : \E j : body[i] = <<r, j>>
    <2>1. HeaderLen + 1 \in 1 .. Len(b) + 1 /\ l \in (HeaderLen + 1) - 1 .. Len(b)
        BY <1>0, <1>3
    <2>2. /\ body \in Seq(S) /\ Len(body) = l - (HeaderLen + 1) + 1
          /\ \A i \in 1 .. l - (HeaderLen + 1) + 1 : body[i] = b[HeaderLen + 1 + i - 1]
        BY <1>4, <2>1, Slice
    <2>3. l - (HeaderLen + 1) + 1 = BodyLen
        BY <1>0
    <2>4. \A i \in 1 .. BodyLen : HeaderLen + 1 + i - 1 \in 1 .. l
        BY <1>0
    <2>. QED
        BY <1>3, <2>2, <2>3, <2>4
<1>7. b = Header(r) \o body
    <2>1. 1 \in 1 .. Len(b) + 1 /\ HeaderLen \in 1 - 1 .. Len(b) /\ l \in HeaderLen .. Len(b)
        BY <1>0, <1>3
    <2>2. SubSeq(b, 1, HeaderLen) \o SubSeq(b, HeaderLen + 1, l) = SubSeq(b, 1, l)
        BY <1>4, <2>1, ConcatAdjacentSubSeq
    <2>3. SubSeq(b, 1, l) = b
        BY <1>3, <1>4, SubSeqFull
    <2>. QED
        BY <1>5, <2>2, <2>3
<1>8. IsSeq(Header(r)) /\ IsSeq(body)
    BY <1>1, <1>6, HeaderIs DEF IsSeq
<1>. HIDE DEF body
<1>9. Received(v, b) = u
    <2>. DEFINE h == Header(r)
    <2>. HIDE DEF h
    <2>. QED
        BY <1>7, <1>8, ReceivedConcat DEF h
<1>. HIDE DEF a, u
<1>10. Resting(v) /\ Sees(v, next, eof, -1)
    BY DEF At
<1>11. Past(a, r.len, r.pad, r.type) /\ Sees(a, next, EndedBy(eof, r), -1)
    BY <1>1, <1>2, <1>10, HeaderReceived DEF a
<1>12. Past(a, BodyLen, 0, "END_REQUEST") /\ Sees(a, next, eof, -1)
    BY <1>1, <1>2, <1>11
<1>13. Past(u, 0, 0, "END_REQUEST") /\ Sees(u, next, eof, r.status)
    BY <1>0, <1>6, <1>12, EndReceived DEF u
<1>14. At(u, next, eof, k.appStatus)
    BY <1>1, <1>13 DEF At, Resting
<1>. QED
    BY <1>9, <1>14 DEF b, r
-----------------------------------------------------------------------------
(* The operations on a stream: whatever their outcome is, an error is not  *)
(* forgotten, a connection stays closed, and the status stays as it is.    *)
IsStream(t) ==
    DOMAIN t = {"type", "buff", "stop", "isClosed", "wasFCloseCalled", "error",
                "isAnythingWritten", "rawWrite"}

IsConnection(k) == DOMAIN k = {"id", "nWriters", "appStatus", "open", "signals", "sent"}

IsOutcome(o) == DOMAIN o = {"s", "c", "ok"}

Lasting(t, u) == IsStream(u) /\ (t.error => u.error)

Staying(k, l) == IsConnection(l) /\ (l.open => k.open) /\ l.appStatus = k.appStatus

Keeps(t, k, o) == IsOutcome(o) /\ Lasting(t, o.s) /\ Staying(k, o.c)

LEMMA OutcomeIs ==
    ASSUME NEW t, NEW k, NEW ok, NEW o, o = Outcome(t, k, ok)
    PROVE  IsOutcome(o) /\ o.s = t /\ o.c = k /\ o.ok = ok
BY DEF Outcome, IsOutcome

LEMMA StoreLasts ==
    ASSUME NEW t, IsStream(t), NEW bytes
    PROVE  Lasting(t, Store(t, bytes))
BY DEF Store, Lasting, IsStream

LEMMA WriteStays ==
    ASSUME NEW k, IsConnection(k), NEW bytes, NEW w \in write_it_all(k, bytes)
    PROVE  Staying(k, w.c)
<1>1. \/ w = [c |-> Sent(k, bytes), ok |-> TRUE]
      \/ w = [c |-> [k EXCEPT !.open = FALSE], ok |-> FALSE]
      \/ \E j \in Int : w = [c |-> [Sent(k, SubSeq(bytes, 1, j)) EXCEPT
                                      !.signals = @ - (IF j = 0 THEN 1 ELSE 2)], ok |-> FALSE]
    BY DEF write_it_all
<1>2. \A x : Staying(k, Sent(k, x)) /\ IsConnection(Sent(k, x))
    BY DEF Sent, Staying, IsConnection
<1>3. CASE w = [c |-> Sent(k, bytes), ok |-> TRUE]
    BY <1>2, <1>3
<1>4. CASE w = [c |-> [k EXCEPT !.open = FALSE], ok |-> FALSE]
    BY <1>4 DEF Staying, IsConnection
<1>5. ASSUME NEW j, w = [c |-> [Sent(k, SubSeq(bytes, 1, j)) EXCEPT
                                   !.signals = @ - (IF j = 0 THEN 1 ELSE 2)], ok |-> FALSE]
      PROVE  Staying(k, w.c)
    <2>. DEFINE l == Sent(k, SubSeq(bytes, 1, j))
    <2>1. Staying(k, l) /\ IsConnection(l)
        BY <1>2
    <2>. HIDE DEF l
    <2>2. w.c = [l EXCEPT !.signals = @ - (IF j = 0 THEN 1 ELSE 2)]
        BY <1>5 DEF l
    <2>. QED
        BY <2>1, <2>2 DEF Staying, IsConnection
<1>. QED
    BY <1>1, <1>3, <1>4, <1>5

LEMMA WriteBufferKeeps1 ==
    ASSUME NEW t, IsStream(t), NEW k, IsConnection(k), NEW o \in WriteBuffer(t, k)
    PROVE  Keeps(t, k, o)
<1>1. Staying(k, k)
    BY DEF Staying
<1>2. CASE t.buff = <<>>
    <2>. DEFINE u == [t EXCEPT !.buff = IF t.rawWrite THEN <<>> ELSE Reserved]
    <2>1. Lasting(t, u)
        BY DEF Lasting, IsStream
    <2>2. o = Outcome(u, k, TRUE)
        BY <1>2 DEF WriteBuffer
    <2>. QED
        BY <1>1, <2>1, <2>2 DEF Keeps, Outcome, IsOutcome
<1>3. CASE t.buff # <<>>
    <2>. DEFINE u == [t EXCEPT !.isAnythingWritten = TRUE]
                x == [u EXCEPT !.buff = IF u.rawWrite THEN <<>> ELSE Reserved]
    <2>1. Lasting(t, x) /\ Lasting(t, SetError(u))
        BY DEF Lasting, IsStream, SetError
    <2>2. PICK w \in write_it_all(k, t.buff) :
              o = IF w.ok THEN Outcome(x, w.c, TRUE) ELSE Outcome(SetError(u), w.c, FALSE)
        BY <1>3 DEF WriteBuffer
    <2>3. Staying(k, w.c)
        BY WriteStays
    <2>. HIDE DEF u, x
    <2>. QED
        BY <2>1, <2>2, <2>3 DEF Keeps, Outcome, IsOutcome
<1>. QED
    BY <1>2, <1>3

LEMMA KeepsOn ==
    ASSUME NEW t, NEW u, Lasting(t, u), NEW k, NEW l, Staying(k, l), NEW o, Keeps(u, l, o)
    PROVE  Keeps(t, k, o)
BY DEF Keeps, Lasting, Staying

LEMMA StaysItself == ASSUME NEW k, IsConnection(k) PROVE Staying(k, k)
BY DEF Staying

LEMMA EncapsulatedLasts ==
    ASSUME NEW t, IsStream(t), NEW k PROVE Lasting(t, Encapsulated(t, k))
<1>. DEFINE cLen == Len(t.buff) - HeaderLen
            x == [t EXCEPT !.buff = <<>>]
            y == [t EXCEPT !.buff = Header(MakeHeader(t.type, k.id, cLen, Padding(cLen)))
                                    \o Drop(@, HeaderLen) \o Pad(Padding(cLen))]
<1>1. Lasting(t, t) /\ Lasting(t, x) /\ Lasting(t, y)
    BY DEF Lasting, IsStream
<1>2. Encapsulated(t, k) \in {t, x, y}
    BY DEF Encapsulated
<1>. HIDE DEF x, y
<1>. QED
    BY <1>1, <1>2

LEMMA FlushKeeps ==
    ASSUME NEW t, IsStream(t), NEW k, IsConnection(k), NEW o \in Flush(t, k)
    PROVE  Keeps(t, k, o)
<1>1. Lasting(t, Encapsulated(t, k))
    BY EncapsulatedLasts
<1>2. o \in WriteBuffer(Encapsulated(t, k), k)
    BY DEF Flush
<1>3. Keeps(Encapsulated(t, k), k, o)
    BY <1>1, <1>2, WriteBufferKeeps1 DEF Lasting
<1>. QED
    BY <1>1, <1>3, StaysItself, KeepsOn

LEMMA PutStrKeeps ==
    ASSUME NEW t, IsStream(t), NEW k, IsConnection(k), NEW bytes, NEW o \in PutStr(t, k, bytes)
    PROVE  Keeps(t, k, o)
<1>. DEFINE n == Room(t)
            u == Store(t, SubSeq(bytes, 1, n))
            rest == Drop(bytes, n)
<1>1. Lasting(t, u) /\ Lasting(t, Store(t, bytes))
    BY StoreLasts
<1>2. \/ o = Outcome(Store(t, bytes), k, TRUE)
      \/ o = Outcome(u, k, FALSE)
      \/ \E f \in Flush(u, k) : o = IF f.ok THEN Outcome(Store(f.s, rest), f.c, TRUE)
                                ELSE Outcome(f.s, f.c, FALSE)
    BY DEF PutStr
<1>. HIDE DEF u, rest
<1>3. CASE o = Outcome(Store(t, bytes), k, TRUE) \/ o = Outcome(u, k, FALSE)
    BY <1>1, <1>3, StaysItself DEF Keeps, Outcome, IsOutcome
<1>4. ASSUME NEW f \in Flush(u, k), o = IF f.ok THEN Outcome(Store(f.s, rest), f.c, TRUE)
                                        ELSE Outcome(f.s, f.c, FALSE)
      PROVE  Keeps(t, k, o)
    <2>1. Keeps(u, k, f)
        BY <1>1, FlushKeeps DEF Lasting
    <2>2. Lasting(f.s, Store(f.s, rest)) /\ Lasting(u, f.s)
        BY <2>1, StoreLasts DEF Keeps, Lasting
    <2>3. Lasting(u, Store(f.s, rest))
        BY <2>2 DEF Lasting
    <2>4. Keeps(u, k, o)
        BY <1>4, <2>1, <2>2, <2>3 DEF Keeps, Outcome, IsOutcome
    <2>. QED
        BY <1>1, <2>4, StaysItself, KeepsOn
<1>. QED
    BY <1>2, <1>3, <1>4

LEMMA CloseRecordsKeep ==
    ASSUME NEW t, IsStream(t), NEW k, IsConnection(k), NEW o \in WriteCloseRecords(t, k)
    PROVE  Keeps(t, k, o)
<1>. DEFINE raw == [t EXCEPT !.rawWrite = TRUE]
            quiet == t.type = "STDERR" /\ t.buff = <<>> /\ ~t.isAnythingWritten
            ends == IF quiet THEN {Outcome(raw, k, TRUE)}
                    ELSE PutStr(raw, k, Header(MakeHeader(t.type, k.id, 0, 0)))
            last(e) == IF e.c.nWriters = 1 THEN PutStr(e.s, e.c, Bytes(EndRequest(e.c))) ELSE {e}
<1>0. PICK e \in ends : \E l \in last(e) : o = [l EXCEPT !.c.nWriters = @ - 1]
    <2>1. o \in {[l EXCEPT !.c.nWriters = @ - 1] : l \in UNION {last(e) : e \in ends}}
        BY DEF WriteCloseRecords
    <2>. HIDE DEF ends, last
    <2>. QED
        BY <2>1
<1>1. PICK l \in last(e) : o = [l EXCEPT !.c.nWriters = @ - 1]
    BY <1>0
<1>2. Lasting(t, raw)
    BY DEF Lasting, IsStream
<1>. HIDE DEF raw
<1>3. Keeps(t, k, e)
    <2>1. Keeps(raw, k, e)
        <3>1. CASE quiet
            <4>1. e = Outcome(raw, k, TRUE)
                BY <3>1
            <4>. QED
                BY <1>2, <4>1, StaysItself DEF Keeps, Lasting, Outcome, IsOutcome
        <3>2. CASE ~quiet
            BY <1>2, <3>2, PutStrKeeps DEF Lasting
        <3>. QED
            BY <3>1, <3>2
    <2>. QED
        BY <1>2, <2>1, StaysItself, KeepsOn
<1>4. Keeps(t, k, l)
    <2>1. IsStream(e.s) /\ IsConnection(e.c) /\ Lasting(t, e.s) /\ Staying(k, e.c)
        BY <1>3 DEF Keeps, Lasting, Staying
    <2>2. CASE e.c.nWriters = 1
        <3>1. l \in PutStr(e.s, e.c, Bytes(EndRequest(e.c)))
            BY <2>2
        <3>2. Keeps(e.s, e.c, l)
            BY <2>1, <3>1, PutStrKeeps
        <3>. QED
            BY <2>1, <3>2, KeepsOn
    <2>3. CASE e.c.nWriters # 1
        BY <1>3, <2>3
    <2>. QED
        BY <2>2, <2>3
<1>. HIDE DEF ends, last
<1>5. /\ IsOutcome(o) /\ o.s = l.s /\ IsConnection(o.c) /\ o.c.open = l.c.open
      /\ o.c.appStatus = l.c.appStatus
    BY <1>1, <1>4 DEF Keeps, Staying, IsOutcome, IsConnection
<1>. QED
    BY <1>4, <1>5 DEF Keeps, Staying

LEMMA EmptyBuffKeeps ==
    ASSUME NEW t, IsStream(t), NEW k, IsConnection(k), NEW doClose \in BOOLEAN,
           NEW o \in EmptyBuffProc(t, k, doClose)
    PROVE  Keeps(t, k, o)
<1>1. CASE doClose
    <2>1. PICK w \in WriteCloseRecords(Encapsulated(t, k), k) : o \in WriteBuffer(w.s, w.c)
        BY <1>1 DEF EmptyBuffProc
    <2>2. Lasting(t, Encapsulated(t, k))
        BY EncapsulatedLasts
    <2>3. Keeps(Encapsulated(t, k), k, w)
        BY <2>2, CloseRecordsKeep DEF Lasting
    <2>4. Keeps(t, k, w)
        BY <2>2, <2>3, StaysItself, KeepsOn
    <2>5. Keeps(w.s, w.c, o)
        BY <2>1, <2>4, WriteBufferKeeps1 DEF Keeps, Lasting, Staying
    <2>. QED
        BY <2>4, <2>5, KeepsOn DEF Keeps
<1>2. CASE ~doClose
    BY <1>2, FlushKeeps DEF EmptyBuffProc
<1>. QED
    BY <1>1, <1>2

LEMMA FFlushKeeps ==
    ASSUME NEW t, IsStream(t), NEW k, IsConnection(k), NEW o \in FFlush(t, k)
    PROVE  Keeps(t, k, o)
<1>1. CASE t.isClosed
    <2>1. o = Outcome(t, k, TRUE)
        BY <1>1 DEF FFlush
    <2>. QED
        BY <2>1, StaysItself DEF Keeps, Lasting, Outcome, IsOutcome
<1>2. CASE ~t.isClosed
    <2>1. PICK f \in EmptyBuffProc(t, k, FALSE) : o = [f EXCEPT !.ok = ~f.s.isClosed]
        BY <1>2 DEF FFlush
    <2>2. Keeps(t, k, f)
        BY EmptyBuffKeeps
    <2>3. IsOutcome(o) /\ o.s = f.s /\ o.c = f.c
        BY <2>1, <2>2 DEF Keeps, IsOutcome
    <2>. QED
        BY <2>2, <2>3 DEF Keeps
<1>. QED
    BY <1>1, <1>2

LEMMA FCloseKeeps ==
    ASSUME NEW t, IsStream(t), NEW k, IsConnection(k), NEW o \in FClose(t, k)
    PROVE  Keeps(t, k, o) /\ (o.ok <=> ~o.s.error)
<1>1. CASE t.wasFCloseCalled
    <2>1. o = Outcome(t, k, ~t.error)
        BY <1>1 DEF FClose
    <2>. DEFINE q == ~t.error
    <2>2. o = Outcome(t, k, q)
        BY <2>1
    <2>. HIDE DEF q
    <2>3. IsOutcome(o) /\ o.s = t /\ o.c = k /\ o.ok = q
        BY <2>2, OutcomeIs
    <2>. QED
        BY <2>3, StaysItself DEF Keeps, Lasting, q
<1>2. CASE ~t.wasFCloseCalled
    <2>. DEFINE closed(u) ==
            [u EXCEPT !.wasFCloseCalled = TRUE, !.isClosed = TRUE, !.stop = Len(u.buff)]
    <2>1. PICK f \in EmptyBuffProc(t, k, TRUE) : o = Outcome(closed(f.s), f.c, ~f.s.error)
        BY <1>2 DEF FClose
    <2>2. Keeps(t, k, f)
        BY EmptyBuffKeeps
    <2>3. Lasting(f.s, closed(f.s)) /\ (closed(f.s).error <=> f.s.error)
        BY <2>2 DEF Keeps, Lasting, IsStream
    <2>. DEFINE q == ~f.s.error
                u == closed(f.s)
    <2>4. o = Outcome(u, f.c, q)
        BY <2>1
    <2>. HIDE DEF q, u
    <2>5. IsOutcome(o) /\ o.s = u /\ o.c = f.c /\ o.ok = q
        BY <2>4, OutcomeIs
    <2>6. Lasting(f.s, u) /\ (u.error <=> f.s.error)
        BY <2>3 DEF u
    <2>. QED
        BY <2>2, <2>5, <2>6 DEF Keeps, Lasting, q
<1>. QED
    BY <1>1, <1>2
-----------------------------------------------------------------------------
(* And what they write if they do not fail.  A stream that is open has in  *)
(* its buffer the room for a header and bytes; one that is being closed    *)
(* has what it has not written.                                            *)
Like(t, u) ==
    /\ IsStream(u) /\ u.type = t.type /\ u.stop = t.stop
    /\ u.isClosed <=> t.isClosed
    /\ u.wasFCloseCalled <=> t.wasFCloseCalled
    /\ u.rawWrite <=> t.rawWrite

IsOpen(w, t) ==
    /\ IsStream(t) /\ t.type = TypeOf(w) /\ t.stop = BuffLen
    /\ ~t.error /\ ~t.isClosed /\ ~t.wasFCloseCalled

Holds(w, t, bytes) == IsOpen(w, t) /\ ~t.rawWrite /\ IsSeq(bytes) /\ t.buff = Reserved \o bytes

HoldsRaw(w, t, bytes) == IsOpen(w, t) /\ t.rawWrite /\ IsSeq(bytes) /\ t.buff = bytes

Grown(k, l, bytes) ==
    /\ IsConnection(l) /\ l.sent = k.sent \o bytes
    /\ l.id = k.id /\ l.nWriters = k.nWriters /\ l.appStatus = k.appStatus

LEMMA WriteGrows ==
    ASSUME NEW k, IsConnection(k), NEW bytes, NEW w \in write_it_all(k, bytes), w.ok
    PROVE  Grown(k, w.c, bytes)
<1>1. w.c = Sent(k, bytes)
    BY DEF write_it_all
<1>. QED
    BY <1>1 DEF Sent, Grown, IsConnection

LEMMA Written ==
    ASSUME NEW t, IsStream(t), NEW k, IsConnection(k), IsSeq(k.sent),
           NEW o \in WriteBuffer(t, k), ~o.s.error
    PROVE  /\ IsOutcome(o) /\ o.ok
           /\ Like(t, o.s) /\ Grown(k, o.c, t.buff)
           /\ o.s.buff = IF t.rawWrite THEN <<>> ELSE Reserved
           /\ o.s.isAnythingWritten <=> t.isAnythingWritten \/ t.buff # <<>>
<1>1. CASE t.buff = <<>>
    <2>. DEFINE u == [t EXCEPT !.buff = IF t.rawWrite THEN <<>> ELSE Reserved]
    <2>1. /\ Like(t, u) /\ u.buff = IF t.rawWrite THEN <<>> ELSE Reserved
          /\ u.isAnythingWritten <=> t.isAnythingWritten
        BY DEF Like, IsStream
    <2>2. o = Outcome(u, k, TRUE)
        BY <1>1 DEF WriteBuffer
    <2>. HIDE DEF u
    <2>3. IsOutcome(o) /\ o.s = u /\ o.c = k /\ o.ok
        BY <2>2 DEF Outcome, IsOutcome
    <2>4. Grown(k, k, <<>>)
        BY ConcatNothing DEF Grown
    <2>. QED
        BY <1>1, <2>1, <2>3, <2>4
<1>2. CASE t.buff # <<>>
    <2>. DEFINE v == [t EXCEPT !.isAnythingWritten = TRUE]
                u == [v EXCEPT !.buff = IF v.rawWrite THEN <<>> ELSE Reserved]
    <2>1. /\ Like(t, u) /\ u.isAnythingWritten
          /\ SetError(v).error
        BY DEF Like, IsStream, SetError
    <2>2. u.buff = IF t.rawWrite THEN <<>> ELSE Reserved
        <3>1. IsStream(v) /\ (v.rawWrite <=> t.rawWrite)
            BY DEF IsStream
        <3>. HIDE DEF v
        <3>. QED
            BY <3>1 DEF IsStream
    <2>3. PICK w \in write_it_all(k, t.buff) :
              o = IF w.ok THEN Outcome(u, w.c, TRUE) ELSE Outcome(SetError(v), w.c, FALSE)
        BY <1>2 DEF WriteBuffer
    <2>. HIDE DEF u, v
    <2>4. w.ok
        BY <2>1, <2>3 DEF Outcome
    <2>5. Grown(k, w.c, t.buff)
        BY <2>4, WriteGrows
    <2>6. IsOutcome(o) /\ o.s = u /\ o.c = w.c /\ o.ok
        BY <2>3, <2>4 DEF Outcome, IsOutcome
    <2>. QED
        BY <1>2, <2>1, <2>2, <2>5, <2>6
<1>. QED
    BY <1>1, <1>2

LEMMA ReservedIs == IsSeq(Reserved) /\ Len(Reserved) = HeaderLen
<1>1. HeaderLen \in Nat
    BY Lengths
<1>. QED
    BY <1>1, PadIs DEF Reserved

(* No content makes no record. *)
RecordOf(w, id, bytes) == IF bytes = <<>> THEN <<>> ELSE ContentRecord(w, id, bytes)

LEMMA DropReserved ==
    ASSUME NEW x, IsSeq(x), NEW y, IsSeq(y) PROVE Drop(x \o y, Len(x)) = y
<1>1. PICK S : x \in Seq(S) /\ y \in Seq(S)
    BY TwoSeqs
<1>2. Len(x \o y) = Len(x) + Len(y)
    BY ConcatIs
<1>3. Part(x \o y, Len(x), Len(x) + Len(y)) = y
    BY <1>1, PartIsSecond
<1>. QED
    BY <1>2, <1>3 DEF Drop, Part

LEMMA EncapsulatedIs ==
    ASSUME NEW w, NEW t, NEW bytes, Holds(w, t, bytes), NEW k
    PROVE  LET u == Encapsulated(t, k)
           IN  /\ Like(t, u) /\ ~u.error
               /\ u.isAnythingWritten <=> t.isAnythingWritten
               /\ u.buff = RecordOf(w, k.id, bytes)
<1>. DEFINE cLen == Len(t.buff) - HeaderLen
            x == [t EXCEPT !.buff = <<>>]
            z == Header(MakeHeader(t.type, k.id, cLen, Padding(cLen)))
                     \o Drop(t.buff, HeaderLen) \o Pad(Padding(cLen))
            y == [t EXCEPT !.buff = z]
<1>1. IsStream(t) /\ ~t.error /\ ~t.rawWrite /\ t.type = TypeOf(w) /\ t.buff = Reserved \o bytes
    BY DEF Holds, IsOpen
<1>2. IsSeq(bytes) /\ IsSeq(Reserved) /\ Len(Reserved) = HeaderLen /\ Len(bytes) \in Nat
    BY ReservedIs, ConcatIs DEF Holds
<1>3. cLen = Len(bytes)
    <2>1. Len(Reserved \o bytes) = HeaderLen + Len(bytes)
        BY <1>2, ConcatIs
    <2>. QED
        BY <1>1, <1>2, <2>1, Lengths
<1>4. Drop(t.buff, HeaderLen) = bytes
    BY <1>1, <1>2, DropReserved
<1>5. z = ContentRecord(w, k.id, bytes)
    BY <1>1, <1>3, <1>4 DEF ContentRecord
<1>6. Encapsulated(t, k) = IF cLen <= 0 THEN x ELSE y
    <2>1. y = [t EXCEPT !.buff = Header(MakeHeader(t.type, k.id, cLen, Padding(cLen)))
                                 \o Drop(@, HeaderLen) \o Pad(Padding(cLen))]
        OBVIOUS
    <2>. HIDE DEF y
    <2>. QED
        BY <1>1, <2>1, Zenon DEF Encapsulated
<1>7. cLen <= 0 <=> bytes = <<>>
    BY <1>2, <1>3, EmptySeq DEF IsSeq
<1>. HIDE DEF z, cLen
<1>8. /\ Like(t, x) /\ (x.error <=> t.error) /\ (x.isAnythingWritten <=> t.isAnythingWritten)
      /\ x.buff = <<>>
    BY <1>1 DEF Like, IsStream
<1>9. /\ Like(t, y) /\ (y.error <=> t.error) /\ (y.isAnythingWritten <=> t.isAnythingWritten)
      /\ y.buff = z
    BY <1>1 DEF Like, IsStream
<1>. HIDE DEF x, y
<1>. QED
    BY <1>1, <1>5, <1>6, <1>7, <1>8, <1>9 DEF RecordOf

LEMMA RecordOfIs ==
    ASSUME NEW w, NEW id, NEW bytes, IsSeq(bytes)
    PROVE  IsSeq(RecordOf(w, id, bytes)) /\ (RecordOf(w, id, bytes) = <<>> <=> bytes = <<>>)
<1>1. IsSeq(<<>>)
    <2>1. <<>> \in Seq({})
        OBVIOUS
    <2>. QED
        BY <2>1 DEF IsSeq
<1>2. CASE bytes = <<>>
    BY <1>1, <1>2 DEF RecordOf
<1>3. CASE bytes # <<>>
    <2>1. /\ IsSeq(ContentRecord(w, id, bytes))
          /\ Len(ContentRecord(w, id, bytes)) = HeaderLen + Len(bytes) + Padding(Len(bytes))
        BY ContentRecordIs
    <2>2. Len(bytes) \in Nat /\ Padding(Len(bytes)) \in Nat /\ HeaderLen \in Nat \ {0}
        BY PaddingType, Lengths DEF IsSeq
    <2>3. Len(ContentRecord(w, id, bytes)) # 0
        BY <2>1, <2>2
    <2>4. ContentRecord(w, id, bytes) # <<>>
        BY <2>3
    <2>. QED
        BY <1>3, <2>1, <2>4 DEF RecordOf
<1>. QED
    BY <1>2, <1>3

(* A flush writes what there is as a record. *)
LEMMA Flushed ==
    ASSUME NEW w, NEW t, NEW bytes, Holds(w, t, bytes), NEW k, IsConnection(k), IsSeq(k.sent),
           NEW o \in Flush(t, k), ~o.s.error
    PROVE  /\ IsOutcome(o) /\ o.ok
           /\ Holds(w, o.s, <<>>) /\ Grown(k, o.c, RecordOf(w, k.id, bytes))
           /\ o.s.isAnythingWritten <=> t.isAnythingWritten \/ bytes # <<>>
<1>. DEFINE u == Encapsulated(t, k)
<1>1. /\ Like(t, u) /\ ~u.error /\ (u.isAnythingWritten <=> t.isAnythingWritten)
      /\ u.buff = RecordOf(w, k.id, bytes)
    BY EncapsulatedIs
<1>2. o \in WriteBuffer(u, k)
    BY DEF Flush
<1>. HIDE DEF u
<1>3. IsStream(u) /\ ~u.rawWrite
    BY <1>1 DEF Like, Holds
<1>4. /\ IsOutcome(o) /\ o.ok /\ Like(u, o.s) /\ Grown(k, o.c, u.buff)
      /\ o.s.buff = IF u.rawWrite THEN <<>> ELSE Reserved
      /\ o.s.isAnythingWritten <=> u.isAnythingWritten \/ u.buff # <<>>
    BY <1>2, <1>3, Written
<1>5. IsSeq(<<>>) /\ Reserved \o <<>> = Reserved
    <2>1. <<>> \in Seq({})
        OBVIOUS
    <2>. QED
        BY <2>1, ReservedIs, ConcatNothing DEF IsSeq
<1>6. IsOpen(w, o.s) /\ ~o.s.rawWrite
    BY <1>1, <1>4 DEF Like, Holds, IsOpen
<1>7. Holds(w, o.s, <<>>)
    BY <1>3, <1>4, <1>5, <1>6 DEF Holds
<1>8. u.buff # <<>> <=> bytes # <<>>
    BY <1>1, RecordOfIs DEF Holds
<1>. QED
    BY <1>1, <1>4, <1>7, <1>8

LEMMA Split ==
    ASSUME NEW b, IsSeq(b), NEW n \in 0 .. Len(b)
    PROVE  /\ IsSeq(SubSeq(b, 1, n)) /\ IsSeq(Drop(b, n)) /\ Len(Drop(b, n)) = Len(b) - n
           /\ SubSeq(b, 1, n) \o Drop(b, n) = b
<1>1. PICK S : b \in Seq(S)
    BY DEF IsSeq
<1>2. Len(b) \in Nat
    BY <1>1
<1>3. 1 \in 1 .. Len(b) + 1 /\ n \in 1 - 1 .. Len(b) /\ n + 1 \in 1 .. Len(b) + 1
      /\ Len(b) \in (n + 1) - 1 .. Len(b) /\ Len(b) - (n + 1) + 1 = Len(b) - n
      /\ Len(b) \in n .. Len(b)
    BY <1>2
<1>4. SubSeq(b, 1, n) \in Seq(S)
    BY <1>1, <1>3, Slice
<1>5. SubSeq(b, n + 1, Len(b)) \in Seq(S) /\ Len(SubSeq(b, n + 1, Len(b))) = Len(b) - (n + 1) + 1
    BY <1>1, <1>3, Slice
<1>6. SubSeq(b, 1, n) \o SubSeq(b, n + 1, Len(b)) = SubSeq(b, 1, Len(b))
    BY <1>1, <1>3, ConcatAdjacentSubSeq
<1>7. SubSeq(b, 1, Len(b)) = b
    BY <1>1, SubSeqFull
<1>. QED
    BY <1>3, <1>4, <1>5, <1>6, <1>7 DEF IsSeq, Drop

LEMMA Division ==
    ASSUME NEW a \in Nat \ {0}, NEW n \in Nat, NEW d \in Int, d = n \div a,
           NEW r \in Int, r = n % a
    PROVE  n = a * d + r
OBVIOUS

LEMMA Multiple ==
    ASSUME NEW a \in Nat \ {0}, NEW n \in Nat
    PROVE  \E q \in Nat : n = a * q + (n % a)
<1>1. /\ n \div a \in Int
      /\ n % a \in 0 .. a - 1
      /\ n = a * (n \div a) + (n % a)
    <2>1. n \div a \in Int
        OBVIOUS
    <2>2. n % a \in 0 .. a - 1
        OBVIOUS
    <2>3. n % a \in Int
        BY <2>2
    <2>4. n = a * (n \div a) + (n % a)
        BY <2>1, <2>3, Division
    <2>. QED
        BY <2>1, <2>2, <2>4
<1>2. ASSUME n \div a < 0 PROVE FALSE
    <2>. DEFINE q == n \div a
    <2>1. q \in Int /\ q <= -1
        BY <1>1, <1>2
    <2>. HIDE DEF q
    <2>2. a * q <= -a
        BY <2>1
    <2>. QED
        BY <1>1, <2>2 DEF q
<1>3. n \div a \in Nat
    BY <1>1, <1>2
<1>. DEFINE d == n \div a
<1>4. d \in Nat /\ n = a * d + (n % a)
    BY <1>1, <1>3
<1>. HIDE DEF d
<1>. QED
    BY <1>4

LEMMA FewerTimes ==
    ASSUME NEW a \in Nat \ {0}, NEW p \in Int, NEW q \in Int, a * p < a * q
    PROVE  a * (p + 1) <= a * q
<1>1. p < q
    <2>. SUFFICES ASSUME q <= p PROVE FALSE
        OBVIOUS
    <2>. QED
        OBVIOUS
<1>. QED
    BY <1>1

(* A buffer has room for the record of what it holds. *)
LEMMA RoomForRecord ==
    ASSUME NEW n \in Nat, n <= BuffLen - HeaderLen
    PROVE  HeaderLen + n + Padding(n) <= BuffLen
<1>0. HeaderLen \in Nat /\ BuffLen \in Nat /\ Align \in Nat \ {0}
    BY Lengths
<1>1. PICK x \in Nat : HeaderLen = Align * x
    <2>1. PICK x \in Nat : HeaderLen = Align * x + (HeaderLen % Align)
        BY <1>0, Multiple
    <2>2. HeaderLen % Align = 0 /\ Align * x \in Int
        BY <1>0, FcgxWriterAssumption
    <2>. QED
        BY <2>1, <2>2
<1>2. PICK y \in Nat : BuffLen = Align * y
    <2>1. PICK y \in Nat : BuffLen = Align * y + (BuffLen % Align)
        BY <1>0, Multiple
    <2>2. BuffLen % Align = 0 /\ Align * y \in Int
        BY <1>0, FcgxWriterAssumption
    <2>. QED
        BY <2>1, <2>2
<1>3. PICK q \in Nat : n = Align * q + (n % Align)
    BY <1>0, Multiple
<1>. DEFINE m == n % Align
<1>4. m \in 0 .. Align - 1
    BY <1>0
<1>5. CASE m = 0
    <2>1. Align - m = Align /\ Align % Align = 0
        BY <1>0, <1>5
    <2>2. Padding(n) = 0
        BY <2>1 DEF Padding
    <2>. QED
        BY <1>0, <2>2
<1>6. CASE m # 0
    <2>1. Align - m \in 0 .. Align - 1
        BY <1>0, <1>4, <1>6
    <2>2. Padding(n) = Align - m
        BY <1>0, <2>1 DEF Padding
    <2>. HIDE DEF m
    <2>3. Align * (q + x) < Align * y
        <3>1. Align * (q + x) = Align * q + Align * x
            BY <1>0
        <3>2. Align * q \in Int /\ Align * x \in Int
            BY <1>0
        <3>3. Align * q < n
            <4>1. n = Align * q + m
                BY <1>3 DEF m
            <4>. QED
                BY <1>0, <1>4, <1>6, <3>2, <4>1
        <3>. QED
            BY <1>0, <1>1, <1>2, <3>1, <3>2, <3>3
    <2>4. Align * (q + x + 1) <= Align * y
        BY <1>0, <2>3, FewerTimes
    <2>5. Align * (q + x + 1) = Align * q + Align * x + Align
        BY <1>0
    <2>6. n + (Align - m) = Align * q + Align
        <3>1. Align * q \in Int
            BY <1>0
        <3>2. n = Align * q + m
            BY <1>3 DEF m
        <3>. QED
            BY <1>0, <1>4, <3>1, <3>2
    <2>7. Align * q \in Int /\ Align * x \in Int /\ Align * y \in Int
        BY <1>0
    <2>. QED
        BY <1>0, <1>1, <1>2, <1>4, <2>2, <2>4, <2>5, <2>6, <2>7
<1>. QED
    BY <1>5, <1>6

(* What is stored is held. *)
LEMMA Stored ==
    ASSUME NEW w, NEW t, IsOpen(w, t), IsSeq(t.buff), NEW b, IsSeq(b)
    PROVE  LET u == Store(t, b)
           IN  /\ IsOpen(w, u) /\ u.buff = t.buff \o b
               /\ u.rawWrite <=> t.rawWrite
               /\ u.isAnythingWritten <=> t.isAnythingWritten
               /\ u.isClosed <=> t.isClosed
               /\ \A x : Holds(w, t, x) => Holds(w, u, x \o b)
               /\ \A x : HoldsRaw(w, t, x) => HoldsRaw(w, u, x \o b)
<1>. DEFINE u == Store(t, b)
<1>1. /\ IsOpen(w, u) /\ u.buff = t.buff \o b
      /\ u.rawWrite <=> t.rawWrite
      /\ u.isAnythingWritten <=> t.isAnythingWritten
      /\ u.isClosed <=> t.isClosed
    BY DEF IsOpen, IsStream, Store
<1>. HIDE DEF u
<1>2. ASSUME NEW x, Holds(w, t, x) PROVE Holds(w, u, x \o b)
    <2>1. IsSeq(x) /\ IsSeq(Reserved)
        BY <1>2, ReservedIs DEF Holds
    <2>2. IsSeq(x \o b)
        BY <2>1, ConcatIs
    <2>3. (Reserved \o x) \o b = Reserved \o (x \o b)
        BY <2>1, Grouping
    <2>. QED
        BY <1>1, <1>2, <2>2, <2>3 DEF Holds
<1>3. ASSUME NEW x, HoldsRaw(w, t, x) PROVE HoldsRaw(w, u, x \o b)
    <2>1. IsSeq(x) /\ IsSeq(x \o b)
        BY <1>3, ConcatIs DEF HoldsRaw
    <2>. QED
        BY <1>1, <1>3, <2>1 DEF HoldsRaw
<1>. QED
    BY <1>1, <1>2, <1>3 DEF u

LEMMA FlushedRaw ==
    ASSUME NEW w, NEW t, NEW bytes, HoldsRaw(w, t, bytes), NEW k, IsConnection(k), IsSeq(k.sent),
           NEW o \in Flush(t, k), ~o.s.error
    PROVE  IsOutcome(o) /\ o.ok /\ HoldsRaw(w, o.s, <<>>) /\ Grown(k, o.c, bytes)
<1>1. IsStream(t) /\ t.rawWrite /\ t.buff = bytes
    BY DEF HoldsRaw, IsOpen
<1>2. Encapsulated(t, k) = t
    BY <1>1, Zenon DEF Encapsulated
<1>3. /\ IsOutcome(o) /\ o.ok /\ Like(t, o.s) /\ Grown(k, o.c, t.buff)
      /\ o.s.buff = IF t.rawWrite THEN <<>> ELSE Reserved
    BY <1>1, <1>2, Written DEF Flush
<1>4. IsOpen(w, o.s) /\ o.s.rawWrite
    BY <1>1, <1>3 DEF Like, HoldsRaw, IsOpen
<1>5. IsSeq(<<>>)
    <2>1. <<>> \in Seq({})
        OBVIOUS
    <2>. QED
        BY <2>1 DEF IsSeq
<1>. QED
    BY <1>1, <1>3, <1>4, <1>5 DEF HoldsRaw

(* FCGX_PutStr: x of what there is goes to the connection, y stays. *)
PutsOut(w, t, k, o, x, y) ==
    /\ IsOutcome(o) /\ o.ok /\ IsSeq(x)
    /\ Holds(w, o.s, y) /\ Len(y) <= BuffLen - HeaderLen
    /\ Grown(k, o.c, RecordOf(w, k.id, x))
    /\ o.s.isAnythingWritten <=> t.isAnythingWritten \/ x # <<>>

PutsRaw(w, k, o, x, y) ==
    IsOutcome(o) /\ o.ok /\ IsSeq(x) /\ HoldsRaw(w, o.s, y) /\ Grown(k, o.c, x)

PutCases(t, k, bytes, o) ==
    LET n == Room(t)
        u == Store(t, SubSeq(bytes, 1, n))
    IN  \/ Len(bytes) <= n /\ o = Outcome(Store(t, bytes), k, TRUE)
        \/ /\ ~(Len(bytes) <= n)
           /\ \E f \in Flush(u, k) :
                 IF f.ok THEN o = Outcome(Store(f.s, Drop(bytes, n)), f.c, TRUE)
                 ELSE ~f.s.error

LEMMA PutStrCases ==
    ASSUME NEW t, ~t.isClosed, NEW k, NEW bytes, NEW o \in PutStr(t, k, bytes), ~o.s.error
    PROVE  PutCases(t, k, bytes, o)
<1>. DEFINE n == Room(t)
            u == Store(t, SubSeq(bytes, 1, n))
<1>1. CASE Len(bytes) <= n
    BY <1>1 DEF PutStr, PutCases
<1>2. CASE ~(Len(bytes) <= n)
    <2>1. PICK f \in Flush(u, k) :
              o = IF f.ok THEN Outcome(Store(f.s, Drop(bytes, n)), f.c, TRUE)
                  ELSE Outcome(f.s, f.c, FALSE)
        BY <1>2 DEF PutStr
    <2>2. ~f.ok => o.s = f.s
        BY <2>1 DEF Outcome
    <2>. QED
        BY <1>2, <2>1, <2>2 DEF PutCases
<1>. QED
    BY <1>1, <1>2

Splits(w, t, k, held, bytes, o) ==
    \E x, y : x \o y = held \o bytes /\ PutsOut(w, t, k, o, x, y)

SplitsRaw(w, k, held, bytes, o) ==
    \E x, y : /\ x \o y = held \o bytes /\ PutsRaw(w, k, o, x, y)
              /\ Len(bytes) <= BuffLen => Len(y) <= BuffLen

LEMMA PutGrows ==
    ASSUME NEW w, NEW t, NEW held, Holds(w, t, held), Len(held) <= BuffLen - HeaderLen,
           NEW k, IsConnection(k), IsSeq(k.sent),
           NEW bytes, IsSeq(bytes), Len(bytes) <= BuffLen - HeaderLen,
           NEW o \in PutStr(t, k, bytes), ~o.s.error
    PROVE  Splits(w, t, k, held, bytes, o)
<1>. DEFINE n == Room(t)
            u == Store(t, SubSeq(bytes, 1, n))
<1>1. /\ IsOpen(w, t) /\ IsStream(t) /\ ~t.isClosed /\ ~t.rawWrite /\ t.stop = BuffLen
      /\ IsSeq(held) /\ t.buff = Reserved \o held
    BY DEF Holds, IsOpen
<1>2. /\ IsSeq(Reserved) /\ Len(Reserved) = HeaderLen /\ Len(held) \in Nat /\ Len(bytes) \in Nat
      /\ HeaderLen \in Nat /\ BuffLen \in Nat
    BY <1>1, ReservedIs, ConcatIs, Lengths
<1>3. IsSeq(t.buff) /\ Len(t.buff) = HeaderLen + Len(held)
    BY <1>1, <1>2, ConcatIs
<1>4. n = BuffLen - HeaderLen - Len(held) /\ n \in Nat
    BY <1>1, <1>2, <1>3 DEF Room
<1>5. \/ Len(bytes) <= n /\ o = Outcome(Store(t, bytes), k, TRUE)
      \/ /\ ~(Len(bytes) <= n)
         /\ \E f \in Flush(u, k) :
               IF f.ok THEN o = Outcome(Store(f.s, Drop(bytes, n)), f.c, TRUE)
               ELSE ~f.s.error
    <2>1. ~t.isClosed
        BY <1>1
    <2>2. PutCases(t, k, bytes, o)
        BY <2>1, PutStrCases
    <2>. QED
        BY <2>2 DEF PutCases
<1>. HIDE DEF n, u
<1>6. IsSeq(<<>>) /\ Len(<<>>) = 0
    <2>1. <<>> \in Seq({})
        OBVIOUS
    <2>. QED
        BY <2>1 DEF IsSeq
<1>7. CASE Len(bytes) <= n /\ o = Outcome(Store(t, bytes), k, TRUE)
    <2>. DEFINE y == held \o bytes
                z == Store(t, bytes)
    <2>1. Holds(w, z, y) /\ (z.isAnythingWritten <=> t.isAnythingWritten)
        BY <1>1, <1>3, Stored
    <2>2. IsSeq(y) /\ Len(y) = Len(held) + Len(bytes) /\ <<>> \o y = y
        BY <1>1, ConcatIs, ConcatNothing
    <2>3. Len(y) <= BuffLen - HeaderLen
        BY <1>2, <1>4, <1>7, <2>2
    <2>. HIDE DEF y, z
    <2>4. IsOutcome(o) /\ o.s = z /\ o.c = k /\ o.ok
        BY <1>7 DEF Outcome, IsOutcome, z
    <2>5. Grown(k, k, RecordOf(w, k.id, <<>>))
        BY ConcatNothing DEF Grown, RecordOf
    <2>6. PutsOut(w, t, k, o, <<>>, y)
        BY <1>6, <2>1, <2>3, <2>4, <2>5 DEF PutsOut
    <2>. QED
        BY <2>2, <2>6 DEF y, Splits
<1>8. ASSUME ~(Len(bytes) <= n), NEW f \in Flush(u, k),
             IF f.ok THEN o = Outcome(Store(f.s, Drop(bytes, n)), f.c, TRUE) ELSE ~f.s.error
      PROVE  Splits(w, t, k, held, bytes, o)
    <2>. DEFINE b == SubSeq(bytes, 1, n)
                y == Drop(bytes, n)
                x == held \o b
                z == Store(f.s, y)
    <2>1. n \in 0 .. Len(bytes)
        BY <1>2, <1>4, <1>8
    <2>2. IsSeq(b) /\ IsSeq(y) /\ Len(y) = Len(bytes) - n /\ b \o y = bytes
        BY <2>1, Split
    <2>. HIDE DEF b, y
    <2>3. u = Store(t, b)
        BY DEF u, b
    <2>4. Holds(w, u, x) /\ (u.isAnythingWritten <=> t.isAnythingWritten)
        BY <1>1, <1>3, <2>2, <2>3, Stored
    <2>5. x \o y = held \o bytes /\ IsSeq(x)
        <3>1. (held \o b) \o y = held \o (b \o y)
            <4>1. IsSeq(held) /\ IsSeq(b) /\ IsSeq(y)
                BY <1>1, <2>2
            <4>. QED
                BY <4>1, Grouping
        <3>2. IsSeq(held \o b)
            BY <1>1, <2>2, ConcatIs
        <3>. QED
            BY <2>2, <3>1, <3>2
    <2>. HIDE DEF x, z
    <2>6. ~f.s.error
        <3>. SUFFICES ASSUME f.ok PROVE ~f.s.error
            BY <1>8
        <3>1. o = Outcome(z, f.c, TRUE)
            BY <1>8 DEF z, y
        <3>2. o.s = z
            BY <3>1 DEF Outcome
        <3>3. Keeps(u, k, f)
            BY <2>4, FlushKeeps DEF Holds, IsOpen
        <3>4. Lasting(f.s, z)
            BY <3>3, StoreLasts DEF Keeps, Lasting, z
        <3>. QED
            BY <3>2, <3>4 DEF Lasting
    <2>7. /\ IsOutcome(f) /\ f.ok
          /\ Holds(w, f.s, <<>>) /\ Grown(k, f.c, RecordOf(w, k.id, x))
          /\ f.s.isAnythingWritten <=> u.isAnythingWritten \/ x # <<>>
        BY <2>4, <2>6, Flushed
    <2>8. Holds(w, z, y) /\ (z.isAnythingWritten <=> f.s.isAnythingWritten)
        <3>1. IsOpen(w, f.s) /\ f.s.buff = Reserved
            BY <1>2, <2>7, ConcatNothing DEF Holds
        <3>2. /\ Holds(w, z, <<>> \o y)
              /\ z.isAnythingWritten <=> f.s.isAnythingWritten
            BY <1>2, <2>2, <2>7, <3>1, Stored DEF z
        <3>. QED
            BY <2>2, <3>2, ConcatNothing
    <2>9. o = Outcome(z, f.c, TRUE)
        BY <1>8, <2>7 DEF z, y
    <2>10. IsOutcome(o) /\ o.s = z /\ o.c = f.c /\ o.ok
        BY <2>9 DEF Outcome, IsOutcome
    <2>11. Len(y) <= BuffLen - HeaderLen
        BY <1>2, <1>4, <2>2
    <2>12. PutsOut(w, t, k, o, x, y)
        BY <2>4, <2>5, <2>7, <2>8, <2>10, <2>11 DEF PutsOut
    <2>. QED
        BY <2>5, <2>12 DEF Splits
<1>. QED
    BY <1>5, <1>7, <1>8

LEMMA PutRawGrows ==
    ASSUME NEW w, NEW t, NEW held, HoldsRaw(w, t, held), Len(held) <= BuffLen,
           NEW k, IsConnection(k), IsSeq(k.sent),
           NEW bytes, IsSeq(bytes), NEW o \in PutStr(t, k, bytes), ~o.s.error
    PROVE  SplitsRaw(w, k, held, bytes, o)
<1>. DEFINE n == Room(t)
            u == Store(t, SubSeq(bytes, 1, n))
<1>1. /\ IsOpen(w, t) /\ IsStream(t) /\ ~t.isClosed /\ t.rawWrite /\ t.stop = BuffLen
      /\ IsSeq(held) /\ t.buff = held
    BY DEF HoldsRaw, IsOpen
<1>2. Len(held) \in Nat /\ Len(bytes) \in Nat /\ BuffLen \in Nat
    BY <1>1, ConcatIs, Lengths
<1>3. n = BuffLen - Len(held) /\ n \in Nat
    BY <1>1, <1>2 DEF Room
<1>4. \/ Len(bytes) <= n /\ o = Outcome(Store(t, bytes), k, TRUE)
      \/ /\ ~(Len(bytes) <= n)
         /\ \E f \in Flush(u, k) :
               IF f.ok THEN o = Outcome(Store(f.s, Drop(bytes, n)), f.c, TRUE)
               ELSE ~f.s.error
    <2>1. ~t.isClosed
        BY <1>1
    <2>2. PutCases(t, k, bytes, o)
        BY <2>1, PutStrCases
    <2>. QED
        BY <2>2 DEF PutCases
<1>. HIDE DEF n, u
<1>5. IsSeq(<<>>)
    <2>1. <<>> \in Seq({})
        OBVIOUS
    <2>. QED
        BY <2>1 DEF IsSeq
<1>6. CASE Len(bytes) <= n /\ o = Outcome(Store(t, bytes), k, TRUE)
    <2>. DEFINE y == held \o bytes
                z == Store(t, bytes)
    <2>1. HoldsRaw(w, z, y)
        BY <1>1, Stored
    <2>2. IsSeq(y) /\ Len(y) = Len(held) + Len(bytes) /\ <<>> \o y = y
        BY <1>1, ConcatIs, ConcatNothing
    <2>3. Len(y) <= BuffLen
        BY <1>2, <1>3, <1>6, <2>2
    <2>. HIDE DEF y, z
    <2>4. IsOutcome(o) /\ o.s = z /\ o.c = k /\ o.ok
        BY <1>6 DEF Outcome, IsOutcome, z
    <2>5. Grown(k, k, <<>>)
        BY ConcatNothing DEF Grown
    <2>6. PutsRaw(w, k, o, <<>>, y)
        BY <1>5, <2>1, <2>4, <2>5 DEF PutsRaw
    <2>. QED
        BY <2>2, <2>3, <2>6 DEF y, SplitsRaw
<1>7. ASSUME ~(Len(bytes) <= n), NEW f \in Flush(u, k),
             IF f.ok THEN o = Outcome(Store(f.s, Drop(bytes, n)), f.c, TRUE) ELSE ~f.s.error
      PROVE  SplitsRaw(w, k, held, bytes, o)
    <2>. DEFINE b == SubSeq(bytes, 1, n)
                y == Drop(bytes, n)
                x == held \o b
                z == Store(f.s, y)
    <2>1. n \in 0 .. Len(bytes)
        BY <1>2, <1>3, <1>7
    <2>2. IsSeq(b) /\ IsSeq(y) /\ Len(y) = Len(bytes) - n /\ b \o y = bytes
        BY <2>1, Split
    <2>. HIDE DEF b, y
    <2>3. u = Store(t, b)
        BY DEF u, b
    <2>4. HoldsRaw(w, u, x)
        BY <1>1, <2>2, <2>3, Stored
    <2>5. x \o y = held \o bytes /\ IsSeq(x)
        <3>1. IsSeq(held) /\ IsSeq(b) /\ IsSeq(y)
            BY <1>1, <2>2
        <3>2. (held \o b) \o y = held \o (b \o y)
            BY <3>1, Grouping
        <3>3. IsSeq(held \o b)
            BY <3>1, ConcatIs
        <3>. QED
            BY <2>2, <3>2, <3>3
    <2>. HIDE DEF x, z
    <2>6. ~f.s.error
        <3>. SUFFICES ASSUME f.ok PROVE ~f.s.error
            BY <1>7
        <3>1. o = Outcome(z, f.c, TRUE)
            BY <1>7 DEF z, y
        <3>2. o.s = z
            BY <3>1 DEF Outcome
        <3>3. Keeps(u, k, f)
            BY <2>4, FlushKeeps DEF HoldsRaw, IsOpen
        <3>4. Lasting(f.s, z)
            BY <3>3, StoreLasts DEF Keeps, Lasting, z
        <3>. QED
            BY <3>2, <3>4 DEF Lasting
    <2>7. IsOutcome(f) /\ f.ok /\ HoldsRaw(w, f.s, <<>>) /\ Grown(k, f.c, x)
        BY <2>4, <2>6, FlushedRaw
    <2>8. HoldsRaw(w, z, y)
        <3>1. IsOpen(w, f.s) /\ f.s.buff = <<>>
            BY <2>7 DEF HoldsRaw
        <3>2. HoldsRaw(w, z, <<>> \o y)
            BY <1>5, <2>2, <2>7, <3>1, Stored DEF z
        <3>. QED
            BY <2>2, <3>2, ConcatNothing
    <2>9. o = Outcome(z, f.c, TRUE)
        BY <1>7, <2>7 DEF z, y
    <2>10. IsOutcome(o) /\ o.s = z /\ o.c = f.c /\ o.ok
        BY <2>9 DEF Outcome, IsOutcome
    <2>11. Len(bytes) <= BuffLen => Len(y) <= BuffLen
        BY <1>2, <1>3, <2>2
    <2>12. PutsRaw(w, k, o, x, y)
        BY <2>5, <2>7, <2>8, <2>10 DEF PutsRaw
    <2>. QED
        BY <2>5, <2>11, <2>12 DEF SplitsRaw
<1>. QED
    BY <1>4, <1>6, <1>7

(* A stream that has been closed takes nothing. *)
ClosedAs(w, t) ==
    /\ IsStream(t) /\ ~t.error /\ t.isClosed /\ t.wasFCloseCalled
    /\ t.buff = <<>> /\ t.stop = 0

LEMMA PutOnClosed ==
    ASSUME NEW w, NEW t, ClosedAs(w, t), NEW k, NEW bytes, IsSeq(bytes), bytes # <<>>,
           NEW o \in PutStr(t, k, bytes)
    PROVE  IsOutcome(o) /\ ClosedAs(w, o.s) /\ o.c = k /\ ~o.ok
<1>0. Len(<<>>) = 0 /\ 0 - 0 = 0
    OBVIOUS
<1>1. Room(t) = 0
    BY <1>0 DEF Room, ClosedAs
<1>2. ~(Len(bytes) <= 0)
    <2>1. Len(bytes) \in Nat /\ Len(bytes) # 0
        BY EmptySeq DEF IsSeq
    <2>. QED
        BY <2>1
<1>. DEFINE u == Store(t, SubSeq(bytes, 1, 0))
<1>3. ClosedAs(w, u)
    <2>1. SubSeq(bytes, 1, 0) = <<>>
        BY SubSeqEmpty DEF IsSeq
    <2>2. <<>> \o <<>> = <<>>
        OBVIOUS
    <2>. DEFINE b == SubSeq(bytes, 1, 0)
    <2>. HIDE DEF b
    <2>3. <<>> \o b = <<>>
        BY <2>1, <2>2 DEF b
    <2>4. ClosedAs(w, Store(t, b))
        BY <2>3 DEF Store, ClosedAs, IsStream
    <2>. QED
        BY <2>4 DEF b
<1>4. o = Outcome(u, k, FALSE)
    <2>1. o \in {Outcome(u, k, FALSE)}
        BY <1>1, <1>2, Zenon DEF PutStr, ClosedAs
    <2>. QED
        BY <2>1
<1>. HIDE DEF u
<1>. QED
    BY <1>3, <1>4 DEF Outcome, IsOutcome
-----------------------------------------------------------------------------
(* FCGX_FFlush and FCGX_FClose. *)
LEMMA FFlushGrows ==
    ASSUME NEW w, NEW t, NEW held, Holds(w, t, held), NEW k, IsConnection(k), IsSeq(k.sent),
           NEW o \in FFlush(t, k), ~o.s.error
    PROVE  /\ Holds(w, o.s, <<>>) /\ Grown(k, o.c, RecordOf(w, k.id, held))
           /\ o.s.isAnythingWritten <=> t.isAnythingWritten \/ held # <<>>
<1>1. ~t.isClosed /\ IsStream(t)
    BY DEF Holds, IsOpen
<1>2. PICK f \in Flush(t, k) : o = [f EXCEPT !.ok = ~f.s.isClosed]
    BY <1>1 DEF FFlush, EmptyBuffProc
<1>3. IsOutcome(f)
    BY <1>1, FlushKeeps DEF Keeps
<1>4. o.s = f.s /\ o.c = f.c
    BY <1>2, <1>3 DEF IsOutcome
<1>. QED
    BY <1>4, Flushed

LEMMA FFlushOnClosed ==
    ASSUME NEW w, NEW t, ClosedAs(w, t), NEW k, NEW o \in FFlush(t, k)
    PROVE  o.s = t /\ o.c = k
<1>1. o = Outcome(t, k, TRUE)
    BY DEF FFlush, ClosedAs
<1>. QED
    BY <1>1 DEF Outcome

LEMMA FCloseOnClosed ==
    ASSUME NEW w, NEW t, ClosedAs(w, t), NEW k, NEW o \in FClose(t, k)
    PROVE  o.s = t /\ o.c = k
<1>1. o = Outcome(t, k, ~t.error)
    BY DEF FClose, ClosedAs
<1>. QED
    BY <1>1 DEF Outcome

Closing(w, id, quiet) == IF quiet THEN <<>> ELSE CloseRecord(w, id)

Ending(k) == IF k.nWriters = 1 THEN Bytes(EndRequest(k)) ELSE <<>>

Quiet(t) == t.type = "STDERR" /\ t.buff = <<>> /\ ~t.isAnythingWritten

EndsWith(k, l, bytes) ==
    /\ IsConnection(l) /\ l.sent = k.sent \o bytes
    /\ l.nWriters = k.nWriters - 1 /\ l.appStatus = k.appStatus

EndsRaw(w, k, o, x, y) ==
    IsOutcome(o) /\ IsSeq(x) /\ HoldsRaw(w, o.s, y) /\ EndsWith(k, o.c, x)

LEMMA NothingIs == IsSeq(<<>>) /\ Len(<<>>) = 0
<1>1. <<>> \in Seq({})
    OBVIOUS
<1>. QED
    BY <1>1 DEF IsSeq

LEMMA ClosingIs == ASSUME NEW w, NEW id, NEW quiet PROVE IsSeq(Closing(w, id, quiet))
BY NothingIs, CloseRecordIs DEF Closing

LEMMA EndingIs == ASSUME NEW k PROVE IsSeq(Ending(k))
BY NothingIs, EndRecordIs DEF Ending

LEMMA GrownIs ==
    ASSUME NEW k, IsSeq(k.sent), NEW x, IsSeq(x), NEW l, Grown(k, l, x)
    PROVE  IsConnection(l) /\ IsSeq(l.sent)
BY ConcatIs DEF Grown

CloseSplit(w, k, held, quiet, o) ==
    \E x, y : /\ x \o y = held \o Closing(w, k.id, quiet) /\ PutsRaw(w, k, o, x, y)
              /\ Len(y) <= BuffLen

EndSplit(w, k, held, o) ==
    \E x, y : /\ x \o y = held \o Ending(k) /\ IsOutcome(o) /\ IsSeq(x)
              /\ HoldsRaw(w, o.s, y) /\ Grown(k, o.c, x)

(* The first of the two records, unless there is nothing to close, *)
LEMMA CloseRecordGrows ==
    ASSUME NEW w, NEW t, NEW held, HoldsRaw(w, t, held), Len(held) <= BuffLen,
           NEW k, IsConnection(k), IsSeq(k.sent), NEW quiet,
           NEW o \in IF quiet THEN {Outcome(t, k, TRUE)}
                     ELSE PutStr(t, k, Header(MakeHeader(t.type, k.id, 0, 0))), ~o.s.error
    PROVE  CloseSplit(w, k, held, quiet, o)
<1>1. IsSeq(held) /\ t.type = TypeOf(w)
    BY DEF HoldsRaw, IsOpen
<1>2. CASE quiet
    <2>1. o = Outcome(t, k, TRUE)
        BY <1>2
    <2>2. IsOutcome(o) /\ o.s = t /\ o.c = k /\ o.ok
        BY <2>1 DEF Outcome, IsOutcome
    <2>3. Grown(k, k, <<>>) /\ <<>> \o held = held \o <<>>
        BY <1>1, ConcatNothing DEF Grown
    <2>4. PutsRaw(w, k, o, <<>>, held)
        BY <2>2, <2>3, NothingIs DEF PutsRaw
    <2>. QED
        BY <1>2, <2>3, <2>4 DEF Closing, CloseSplit
<1>3. CASE ~quiet
    <2>. DEFINE bytes == CloseRecord(w, k.id)
    <2>1. o \in PutStr(t, k, bytes)
        BY <1>1, <1>3 DEF CloseRecord
    <2>2. IsSeq(bytes) /\ Len(bytes) <= BuffLen
        BY CloseRecordIs, Lengths
    <2>. HIDE DEF bytes
    <2>3. SplitsRaw(w, k, held, bytes, o)
        BY <2>1, <2>2, PutRawGrows
    <2>. QED
        BY <1>3, <2>2, <2>3 DEF Closing, bytes, SplitsRaw, CloseSplit
<1>. QED
    BY <1>2, <1>3

(* and the second, if this is the last stream. *)
LEMMA EndRecordGrows ==
    ASSUME NEW w, NEW t, NEW held, HoldsRaw(w, t, held), Len(held) <= BuffLen,
           NEW k, IsConnection(k), IsSeq(k.sent), NEW e, IsOutcome(e), e.s = t, e.c = k,
           NEW o \in IF k.nWriters = 1 THEN PutStr(t, k, Bytes(EndRequest(k))) ELSE {e}, ~o.s.error
    PROVE  EndSplit(w, k, held, o)
<1>1. IsSeq(held)
    BY DEF HoldsRaw
<1>2. CASE k.nWriters # 1
    <2>1. o = e
        BY <1>2
    <2>2. Grown(k, k, <<>>) /\ <<>> \o held = held \o <<>>
        BY <1>1, ConcatNothing DEF Grown
    <2>. QED
        BY <1>2, <2>1, <2>2, NothingIs DEF Ending, EndSplit
<1>3. CASE k.nWriters = 1
    <2>. DEFINE bytes == Bytes(EndRequest(k))
    <2>1. o \in PutStr(t, k, bytes)
        BY <1>3
    <2>2. IsSeq(bytes)
        BY EndRecordIs
    <2>. HIDE DEF bytes
    <2>3. SplitsRaw(w, k, held, bytes, o)
        BY <2>1, <2>2, PutRawGrows
    <2>. QED
        BY <1>3, <2>3 DEF Ending, bytes, PutsRaw, SplitsRaw, EndSplit
<1>. QED
    BY <1>2, <1>3

LEMMA SentOn ==
    ASSUME NEW a, IsSeq(a), NEW x, IsSeq(x), NEW y, IsSeq(y), NEW b, b = a \o x, NEW d, d = b \o y
    PROVE  d = a \o (x \o y)
<1>1. (a \o x) \o y = a \o (x \o y)
    BY Grouping
<1>. QED
    BY <1>1

CloseRecordsSplit(w, k, held, quiet, o) ==
    \E x, y : /\ x \o y = (held \o Closing(w, k.id, quiet)) \o Ending(k)
              /\ EndsRaw(w, k, o, x, y)

LEMMA CloseRecordsGrow ==
    ASSUME NEW w, NEW u, IsOpen(w, u), IsSeq(u.buff), Len(u.buff) <= BuffLen,
           NEW k, IsConnection(k), IsSeq(k.sent), NEW o \in WriteCloseRecords(u, k), ~o.s.error
    PROVE  CloseRecordsSplit(w, k, u.buff, Quiet(u), o)
<1>. DEFINE raw == [u EXCEPT !.rawWrite = TRUE]
            quiet == Quiet(u)
            ends == IF quiet THEN {Outcome(raw, k, TRUE)}
                    ELSE PutStr(raw, k, Header(MakeHeader(u.type, k.id, 0, 0)))
            last(e) == IF e.c.nWriters = 1 THEN PutStr(e.s, e.c, Bytes(EndRequest(e.c))) ELSE {e}
<1>1. PICK e \in ends : \E l \in last(e) : o = [l EXCEPT !.c.nWriters = @ - 1]
    <2>1. o \in {[l EXCEPT !.c.nWriters = @ - 1] : l \in UNION {last(e) : e \in ends}}
        BY DEF WriteCloseRecords, Quiet
    <2>. HIDE DEF ends, last
    <2>. QED
        BY <2>1
<1>2. PICK l \in last(e) : o = [l EXCEPT !.c.nWriters = @ - 1]
    BY <1>1
<1>3. HoldsRaw(w, raw, u.buff) /\ IsStream(raw) /\ raw.type = u.type
    BY DEF HoldsRaw, IsOpen, IsStream
<1>. HIDE DEF raw, quiet
<1>4. IsOutcome(e) /\ IsStream(e.s) /\ IsConnection(e.c)
    <2>1. CASE quiet
        <3>1. e = Outcome(raw, k, TRUE)
            BY <2>1
        <3>. QED
            BY <1>3, <3>1 DEF Outcome, IsOutcome
    <2>2. CASE ~quiet
        <3>1. Keeps(raw, k, e)
            BY <1>3, <2>2, PutStrKeeps
        <3>. QED
            BY <3>1 DEF Keeps, Lasting, Staying
    <2>. QED
        BY <2>1, <2>2
<1>5. IsOutcome(l) /\ IsConnection(l.c) /\ (e.s.error => l.s.error)
    <2>1. CASE e.c.nWriters = 1
        <3>1. Keeps(e.s, e.c, l)
            BY <1>4, <2>1, PutStrKeeps
        <3>. QED
            BY <3>1 DEF Keeps, Lasting, Staying
    <2>2. CASE e.c.nWriters # 1
        BY <1>4, <2>2
    <2>. QED
        BY <2>1, <2>2
<1>6. /\ IsOutcome(o) /\ o.s = l.s /\ IsConnection(o.c) /\ o.c.nWriters = l.c.nWriters - 1
      /\ o.c.sent = l.c.sent /\ o.c.appStatus = l.c.appStatus
    BY <1>2, <1>5 DEF IsOutcome, IsConnection
<1>7. ~l.s.error /\ ~e.s.error
    BY <1>5, <1>6
<1>8. e \in IF quiet THEN {Outcome(raw, k, TRUE)}
            ELSE PutStr(raw, k, Header(MakeHeader(raw.type, k.id, 0, 0)))
    BY <1>3
<1>9. CloseSplit(w, k, u.buff, quiet, e)
    <2>. HIDE DEF ends, last
    <2>. QED
        BY <1>3, <1>7, <1>8, CloseRecordGrows
<1>10. PICK x, y : /\ x \o y = u.buff \o Closing(w, k.id, quiet) /\ PutsRaw(w, k, e, x, y)
                   /\ Len(y) <= BuffLen
    BY <1>9 DEF CloseSplit
<1>11. IsSeq(x) /\ IsSeq(y) /\ HoldsRaw(w, e.s, y) /\ Grown(k, e.c, x)
    BY <1>10 DEF PutsRaw, HoldsRaw
<1>12. IsSeq(e.c.sent)
    BY <1>11, GrownIs
<1>13. EndSplit(w, e.c, y, l)
    <2>. HIDE DEF ends
    <2>1. l \in IF e.c.nWriters = 1 THEN PutStr(e.s, e.c, Bytes(EndRequest(e.c))) ELSE {e}
        BY <1>2
    <2>. HIDE DEF last
    <2>. QED
        BY <1>4, <1>7, <1>10, <1>11, <1>12, <2>1, EndRecordGrows
<1>. HIDE DEF ends, last
<1>14. PICK x2, y2 : /\ x2 \o y2 = y \o Ending(e.c) /\ IsOutcome(l) /\ IsSeq(x2)
                     /\ HoldsRaw(w, l.s, y2) /\ Grown(e.c, l.c, x2)
    BY <1>13 DEF EndSplit
<1>15. Ending(e.c) = Ending(k)
    BY <1>11 DEF Ending, EndRequest, Grown
<1>16. (x \o x2) \o y2 = (u.buff \o Closing(w, k.id, quiet)) \o Ending(k) /\ IsSeq(x \o x2)
    <2>1. IsSeq(y2) /\ IsSeq(Ending(k)) /\ IsSeq(x) /\ IsSeq(y) /\ IsSeq(x2)
        BY <1>11, <1>14, EndingIs DEF HoldsRaw
    <2>2. (x \o x2) \o y2 = x \o (x2 \o y2)
        <3>1. IsSeq(x) /\ IsSeq(x2) /\ IsSeq(y2)
            BY <2>1
        <3>. QED
            BY <3>1, Grouping
    <2>3. (x \o y) \o Ending(k) = x \o (y \o Ending(k))
        <3>1. IsSeq(x) /\ IsSeq(y) /\ IsSeq(Ending(k))
            BY <2>1
        <3>. QED
            BY <3>1, Grouping
    <2>4. IsSeq(x \o x2)
        BY <2>1, ConcatIs
    <2>. QED
        BY <1>10, <1>14, <1>15, <2>2, <2>3, <2>4
<1>17. EndsWith(k, o.c, x \o x2)
    <2>0. IsSeq(k.sent) /\ IsSeq(x) /\ IsSeq(x2)
        BY <1>11, <1>14
    <2>1. e.c.sent = k.sent \o x /\ l.c.sent = e.c.sent \o x2
        BY <1>11, <1>14 DEF Grown
    <2>. DEFINE a == k.sent
                b == e.c.sent
                d == l.c.sent
    <2>. HIDE DEF a, b, d
    <2>2. IsSeq(a) /\ b = a \o x /\ d = b \o x2
        BY <2>0, <2>1 DEF a, b, d
    <2>3. d = a \o (x \o x2)
        BY <2>0, <2>2, SentOn
    <2>. QED
        BY <1>6, <1>11, <1>14, <2>3 DEF Grown, EndsWith, a, b, d
<1>18. EndsRaw(w, k, o, x \o x2, y2)
    BY <1>6, <1>14, <1>16, <1>17 DEF EndsRaw
<1>. QED
    BY <1>16, <1>18 DEF CloseRecordsSplit, quiet

LastBytes(w, k, held, quiet) == (RecordOf(w, k.id, held) \o Closing(w, k.id, quiet)) \o Ending(k)

LEMMA FCloseGrows ==
    ASSUME NEW w \in Writer, NEW t, NEW held, Holds(w, t, held), Len(held) <= BuffLen - HeaderLen,
           NEW k, IsConnection(k), IsSeq(k.sent), NEW o \in FClose(t, k), ~o.s.error,
           NEW quiet, quiet <=> w = "err" /\ held = <<>> /\ ~t.isAnythingWritten
    PROVE  ClosedAs(w, o.s) /\ EndsWith(k, o.c, LastBytes(w, k, held, quiet))
<1>. DEFINE u == Encapsulated(t, k)
            r == RecordOf(w, k.id, held)
            all == LastBytes(w, k, held, quiet)
<1>1. IsStream(t) /\ ~t.wasFCloseCalled /\ IsSeq(held) /\ IsOpen(w, t)
    BY DEF Holds, IsOpen
<1>. DEFINE closed(f) ==
        [f EXCEPT !.wasFCloseCalled = TRUE, !.isClosed = TRUE, !.stop = Len(f.buff)]
<1>2. PICK f \in EmptyBuffProc(t, k, TRUE) : o = Outcome(closed(f.s), f.c, ~f.s.error)
    BY <1>1 DEF FClose
<1>3. PICK l \in WriteCloseRecords(u, k) : f \in WriteBuffer(l.s, l.c)
    BY DEF EmptyBuffProc
<1>4. o.s = closed(f.s) /\ o.c = f.c
    BY <1>2 DEF Outcome
<1>5. /\ Like(t, u) /\ ~u.error /\ (u.isAnythingWritten <=> t.isAnythingWritten)
      /\ u.buff = r
    BY EncapsulatedIs
<1>. HIDE DEF u, r
<1>6. IsOpen(w, u) /\ IsStream(u)
    BY <1>1, <1>5 DEF Like, IsOpen
<1>7. IsSeq(r) /\ (r = <<>> <=> held = <<>>) /\ Len(r) <= BuffLen
    <2>1. IsSeq(r) /\ (r = <<>> <=> held = <<>>)
        BY <1>1, RecordOfIs DEF r
    <2>2. Len(held) \in Nat /\ BuffLen \in Nat
        BY <1>1, Lengths, ConcatIs
    <2>3. CASE held = <<>>
        BY <2>2, <2>3, NothingIs DEF r, RecordOf
    <2>4. CASE held # <<>>
        <3>1. Len(r) = HeaderLen + Len(held) + Padding(Len(held))
            BY <1>1, <2>4, ContentRecordIs DEF r, RecordOf
        <3>2. HeaderLen + Len(held) + Padding(Len(held)) <= BuffLen
            BY <2>2, RoomForRecord
        <3>. QED
            BY <2>1, <3>1, <3>2
    <2>. QED
        BY <2>1, <2>3, <2>4
<1>8. Keeps(u, k, l) /\ Keeps(l.s, l.c, f)
    <2>1. Keeps(u, k, l)
        BY <1>6, CloseRecordsKeep
    <2>. QED
        BY <2>1, <1>3, WriteBufferKeeps1 DEF Keeps, Lasting, Staying
<1>9. ~l.s.error /\ ~f.s.error
    <2>1. IsStream(f.s) /\ (l.s.error => f.s.error)
        BY <1>8 DEF Keeps, Lasting
    <2>2. closed(f.s).error <=> f.s.error
        BY <2>1 DEF IsStream
    <2>. QED
        BY <1>4, <2>1, <2>2
<1>10. Quiet(u) <=> quiet
    BY <1>5, <1>6, <1>7 DEF Quiet, IsOpen, Writer, TypeOf
<1>11. CloseRecordsSplit(w, k, u.buff, Quiet(u), l)
    BY <1>5, <1>6, <1>7, <1>9, CloseRecordsGrow
<1>12. PICK x, y : /\ x \o y = (r \o Closing(w, k.id, quiet)) \o Ending(k)
                   /\ EndsRaw(w, k, l, x, y)
    BY <1>5, <1>10, <1>11 DEF CloseRecordsSplit, Closing
<1>13. x \o y = all
    BY <1>12 DEF LastBytes, r
<1>. HIDE DEF all
<1>14. IsSeq(x) /\ IsSeq(y) /\ l.s.buff = y /\ l.s.rawWrite /\ EndsWith(k, l.c, x)
    BY <1>12 DEF EndsRaw, HoldsRaw
<1>15. IsSeq(l.c.sent) /\ IsConnection(l.c) /\ IsStream(l.s)
    BY <1>8, <1>14, ConcatIs DEF EndsWith, Keeps, Lasting
<1>16. IsStream(f.s) /\ Grown(l.c, f.c, y) /\ f.s.buff = <<>>
    BY <1>3, <1>9, <1>14, <1>15, Written DEF Like
<1>17. EndsWith(k, f.c, all)
    <2>0. IsSeq(k.sent) /\ IsSeq(x) /\ IsSeq(y)
        BY <1>14
    <2>1. l.c.sent = k.sent \o x /\ f.c.sent = l.c.sent \o y
        BY <1>14, <1>16 DEF Grown, EndsWith
    <2>. DEFINE a == k.sent
                b == l.c.sent
                d == f.c.sent
    <2>. HIDE DEF a, b, d
    <2>2. IsSeq(a) /\ b = a \o x /\ d = b \o y
        BY <2>0, <2>1 DEF a, b, d
    <2>3. d = a \o (x \o y)
        BY <2>0, <2>2, SentOn
    <2>. QED
        BY <1>13, <1>14, <1>16, <2>3 DEF Grown, EndsWith, a, b, d
<1>18. ClosedAs(w, closed(f.s))
    BY <1>9, <1>16, NothingIs DEF ClosedAs, IsStream
<1>. QED
    BY <1>4, <1>17, <1>18 DEF all
-----------------------------------------------------------------------------
(* What the web server knows of a stream, n bytes of which have been       *)
(* written: the bytes it has not got are in the stream's buffer.           *)
Server(v) == Resting(v) /\ v.next \in [Writer -> Nat] /\ v.eof \subseteq Writer

HoldsRest(w, t, from, n) ==
    \E held : /\ Holds(w, t, held) /\ IsRun(held, w, from) /\ Len(held) = n - from
              /\ Len(held) <= BuffLen - HeaderLen

OpenAt(w, t, v, n) ==
    /\ w \notin v.eof /\ ~t.wasFCloseCalled
    /\ HoldsRest(w, t, v.next[w], n)
    /\ ~t.isAnythingWritten => v.next[w] = 0

ClosedAt(w, t, v, n) ==
    /\ ClosedAs(w, t) /\ v.next[w] = n
    /\ w \in v.eof \/ (w = "err" /\ n = 0)

InStep(w, t, v, n) == OpenAt(w, t, v, n) \/ ClosedAt(w, t, v, n)

(* An operation on stream w leaves what it knows of the other one. *)
Moves(w, v, u) ==
    /\ Server(u)
    /\ \A x \in Writer \ {w} : u.next[x] = v.next[x] /\ (x \in u.eof <=> x \in v.eof)

LEMMA RunParts ==
    ASSUME NEW w, NEW a, NEW b, IsSeq(a), IsSeq(b), NEW from \in Nat, IsRun(a \o b, w, from)
    PROVE  IsRun(a, w, from) /\ IsRun(b, w, from + Len(a))
<1>1. /\ Len(a) \in Nat /\ Len(b) \in Nat /\ Len(a \o b) = Len(a) + Len(b)
      /\ \A i \in 1 .. Len(a) + Len(b) :
            (a \o b)[i] = IF i <= Len(a) THEN a[i] ELSE b[i - Len(a)]
    BY ConcatIs
<1>2. \A i \in 1 .. Len(a) + Len(b) : (a \o b)[i] = Data(w, from + i)
    BY <1>1 DEF IsRun
<1>3. ASSUME NEW i \in 1 .. Len(a) PROVE a[i] = Data(w, from + i)
    <2>1. i \in 1 .. Len(a) + Len(b) /\ i <= Len(a)
        BY <1>1
    <2>. QED
        BY <1>1, <1>2, <2>1
<1>4. ASSUME NEW i \in 1 .. Len(b) PROVE b[i] = Data(w, (from + Len(a)) + i)
    <2>. DEFINE j == i + Len(a)
    <2>1. j \in 1 .. Len(a) + Len(b) /\ ~(j <= Len(a)) /\ j - Len(a) = i
          /\ from + j = (from + Len(a)) + i
        BY <1>1
    <2>. HIDE DEF j
    <2>2. (a \o b)[j] = b[j - Len(a)]
        BY <1>1, <2>1
    <2>. QED
        BY <1>2, <2>1, <2>2
<1>. QED
    BY <1>3, <1>4 DEF IsRun

LEMMA RunConcat ==
    ASSUME NEW w, NEW a, NEW b, NEW from \in Nat, IsRun(a, w, from), IsRun(b, w, from + Len(a))
    PROVE  IsRun(a \o b, w, from)
<1>1. IsSeq(a) /\ IsSeq(b)
    BY DEF IsRun
<1>2. /\ Len(a) \in Nat /\ Len(b) \in Nat /\ Len(a \o b) = Len(a) + Len(b) /\ IsSeq(a \o b)
      /\ \A i \in 1 .. Len(a) + Len(b) :
            (a \o b)[i] = IF i <= Len(a) THEN a[i] ELSE b[i - Len(a)]
    BY <1>1, ConcatIs
<1>3. ASSUME NEW i \in 1 .. Len(a) + Len(b) PROVE (a \o b)[i] = Data(w, from + i)
    <2>1. CASE i <= Len(a)
        <3>1. i \in 1 .. Len(a)
            BY <1>2, <2>1
        <3>2. a[i] = Data(w, from + i)
            BY <3>1 DEF IsRun
        <3>. QED
            BY <1>2, <2>1, <3>2
    <2>2. CASE ~(i <= Len(a))
        <3>. DEFINE j == i - Len(a)
        <3>1. j \in 1 .. Len(b) /\ (from + Len(a)) + j = from + i
            BY <1>2, <2>2
        <3>2. b[j] = Data(w, (from + Len(a)) + j)
            BY <3>1 DEF IsRun
        <3>. QED
            BY <1>2, <2>2, <3>1, <3>2
    <2>. QED
        BY <2>1, <2>2
<1>. QED
    BY <1>2, <1>3 DEF IsRun

LEMMA ServerAt ==
    ASSUME NEW v, Server(v), v.ended = -1
    PROVE  At(v, v.next, v.eof, -1)
BY DEF Server, At, Sees

(* A record of content, *)
LEMMA RecordSeen ==
    ASSUME NEW w \in Writer, NEW id, NEW v, Server(v), v.ended = -1, w \notin v.eof,
           NEW x, IsRun(x, w, v.next[w]), NEW u, u = Received(v, RecordOf(w, id, x))
    PROVE  Moves(w, v, u) /\ u.ended = -1 /\ u.eof = v.eof /\ u.next[w] = v.next[w] + Len(x)
<1>1. v.next \in [Writer -> Nat] /\ v.next[w] \in Nat
    BY DEF Server
<1>2. CASE x = <<>>
    <2>1. u = v
        BY <1>2, ReceivedNothing DEF RecordOf
    <2>2. v.next[w] + 0 = v.next[w]
        BY <1>1
    <2>. QED
        BY <1>2, <2>1, <2>2, NothingIs DEF Moves
<1>3. CASE x # <<>>
    <2>. DEFINE n == v.next[w] + Len(x)
                now == Counting(v.next, w, n)
    <2>1. u = Received(v, ContentRecord(w, id, x))
        BY <1>3 DEF RecordOf
    <2>2. At(v, v.next, v.eof, -1)
        BY ServerAt
    <2>3. At(u, now, v.eof, -1)
        BY <1>1, <1>3, <2>1, <2>2, ContentRecordReceived
    <2>4. n \in Nat
        BY <1>1, ConcatIs DEF IsRun
    <2>. HIDE DEF n
    <2>5. now \in [Writer -> Nat] /\ now[w] = n /\ \A y \in Writer \ {w} : now[y] = v.next[y]
        BY <1>1, <2>4 DEF Counting
    <2>. HIDE DEF now
    <2>6. u.next = now /\ u.eof = v.eof /\ u.ended = -1 /\ Resting(u)
        BY <2>3 DEF At, Sees
    <2>. QED
        BY <2>5, <2>6 DEF Moves, Server, n
<1>. QED
    BY <1>2, <1>3

(* the end of a stream, *)
LEMMA ClosingSeen ==
    ASSUME NEW w \in Writer, NEW id, NEW v, Server(v), v.ended = -1, w \notin v.eof,
           NEW quiet, NEW u, u = Received(v, Closing(w, id, quiet))
    PROVE  /\ Moves(w, v, u) /\ u.ended = -1 /\ u.next = v.next
           /\ ~quiet => w \in u.eof
<1>1. CASE quiet
    <2>1. u = v
        BY <1>1, ReceivedNothing DEF Closing
    <2>. QED
        BY <1>1, <2>1 DEF Moves
<1>2. CASE ~quiet
    <2>1. u = Received(v, CloseRecord(w, id))
        BY <1>2 DEF Closing
    <2>2. At(u, v.next, v.eof \cup {w}, -1)
        BY <2>1, ServerAt, CloseRecordReceived
    <2>3. u.next = v.next /\ u.eof = v.eof \cup {w} /\ u.ended = -1 /\ Resting(u)
        BY <2>2 DEF At, Sees
    <2>. QED
        BY <1>2, <2>3 DEF Moves, Server
<1>. QED
    BY <1>1, <1>2

(* and of the request. *)
LEMMA EndingSeen ==
    ASSUME NEW w, NEW k, NEW v, Server(v), v.ended = -1, NEW u, u = Received(v, Ending(k))
    PROVE  /\ Moves(w, v, u) /\ u.next = v.next /\ u.eof = v.eof
           /\ u.ended = IF k.nWriters = 1 THEN k.appStatus ELSE -1
<1>1. CASE k.nWriters # 1
    <2>1. u = v
        BY <1>1, ReceivedNothing DEF Ending
    <2>. QED
        BY <1>1, <2>1 DEF Moves
<1>2. CASE k.nWriters = 1
    <2>1. u = Received(v, Bytes(EndRequest(k)))
        BY <1>2 DEF Ending
    <2>2. At(u, v.next, v.eof, k.appStatus)
        BY <2>1, ServerAt, EndRecordReceived
    <2>3. u.next = v.next /\ u.eof = v.eof /\ u.ended = k.appStatus /\ Resting(u)
        BY <2>2 DEF At, Sees
    <2>. QED
        BY <1>2, <2>3 DEF Moves, Server
<1>. QED
    BY <1>1, <1>2

Same(k, l) == IsConnection(l) /\ l.nWriters = k.nWriters /\ l.appStatus = k.appStatus

(* A write of the next bytes of a stream, *)
Wrote(z, w, v, k, t, n, o, u) ==
    /\ u = Received(z, o.c.sent) /\ IsSeq(o.c.sent) /\ Same(k, o.c) /\ o.ok
    /\ Moves(w, v, u) /\ u.ended = -1 /\ OpenAt(w, o.s, u, n)

LEMMA PutInStep ==
    ASSUME NEW w \in Writer, NEW z, NEW k, IsConnection(k), IsSeq(k.sent),
           NEW v, v = Received(z, k.sent), Server(v), v.ended = -1,
           NEW n \in Nat, NEW t, OpenAt(w, t, v, n),
           NEW bytes, IsRun(bytes, w, n), Len(bytes) <= BuffLen - HeaderLen,
           NEW o \in PutStr(t, k, bytes), ~o.s.error
    PROVE  \E u : Wrote(z, w, v, k, t, n + Len(bytes), o, u)
<1>. DEFINE from == v.next[w]
<1>1. PICK held : /\ Holds(w, t, held) /\ IsRun(held, w, from) /\ Len(held) = n - from
                  /\ Len(held) <= BuffLen - HeaderLen
    BY DEF OpenAt, HoldsRest
<1>2. from \in Nat /\ w \notin v.eof
    BY DEF Server, OpenAt
<1>3. IsSeq(held) /\ IsSeq(bytes) /\ Len(held) \in Nat /\ Len(bytes) \in Nat
    BY <1>1, ConcatIs DEF IsRun
<1>4. from + Len(held) = n
    BY <1>1, <1>2, <1>3
<1>5. Splits(w, t, k, held, bytes, o)
    BY <1>1, <1>3, PutGrows
<1>6. PICK x, y : x \o y = held \o bytes /\ PutsOut(w, t, k, o, x, y)
    BY <1>5 DEF Splits
<1>7. /\ IsSeq(x) /\ IsSeq(y) /\ o.ok /\ Holds(w, o.s, y) /\ Len(y) <= BuffLen - HeaderLen
      /\ Grown(k, o.c, RecordOf(w, k.id, x))
      /\ o.s.isAnythingWritten <=> t.isAnythingWritten \/ x # <<>>
    BY <1>6 DEF PutsOut, Holds
<1>. DEFINE r == RecordOf(w, k.id, x)
            u == Received(v, r)
<1>. HIDE DEF from
<1>8. IsRun(held \o bytes, w, from)
    BY <1>1, <1>2, <1>4, RunConcat
<1>9. IsRun(x, w, from) /\ IsRun(y, w, from + Len(x))
    BY <1>2, <1>6, <1>7, <1>8, RunParts
<1>10. Moves(w, v, u) /\ u.ended = -1 /\ u.eof = v.eof /\ u.next[w] = from + Len(x)
    BY <1>2, <1>9, RecordSeen DEF from
<1>11. Len(x) \in Nat /\ Len(y) \in Nat /\ Len(x) + Len(y) = Len(held) + Len(bytes)
    <2>1. Len(x) \in Nat /\ Len(y) \in Nat /\ Len(x \o y) = Len(x) + Len(y)
        BY <1>7, ConcatIs
    <2>2. Len(held \o bytes) = Len(held) + Len(bytes)
        BY <1>3, ConcatIs
    <2>. QED
        BY <1>6, <2>1, <2>2
<1>12. IsSeq(r)
    BY <1>7, RecordOfIs
<1>. HIDE DEF r, u
<1>13. u = Received(z, o.c.sent) /\ IsSeq(o.c.sent) /\ Same(k, o.c)
    <2>1. o.c.sent = k.sent \o r /\ Same(k, o.c)
        BY <1>7 DEF Grown, Same, r
    <2>. DEFINE a == k.sent
                d == o.c.sent
    <2>2. IsSeq(a) /\ v = Received(z, a) /\ d = a \o r
        BY <2>1
    <2>. HIDE DEF a, d
    <2>3. Received(z, a \o r) = Received(Received(z, a), r) /\ IsSeq(a \o r)
        BY <1>12, <2>2, ReceivedConcat, ConcatIs
    <2>4. Received(z, d) = Received(v, r) /\ IsSeq(d)
        BY <2>2, <2>3
    <2>. QED
        BY <2>1, <2>4 DEF u, d
<1>14. HoldsRest(w, o.s, u.next[w], n + Len(bytes))
    <2>1. Len(y) = (n + Len(bytes)) - (from + Len(x))
        BY <1>2, <1>3, <1>4, <1>11
    <2>. QED
        BY <1>7, <1>9, <1>10, <2>1 DEF HoldsRest
<1>15. ~o.s.isAnythingWritten => u.next[w] = 0
    <2>. SUFFICES ASSUME ~o.s.isAnythingWritten PROVE u.next[w] = 0
        OBVIOUS
    <2>1. x = <<>> /\ ~t.isAnythingWritten
        BY <1>7
    <2>2. from = 0 /\ Len(x) = 0
        BY <2>1, NothingIs DEF OpenAt, from
    <2>. QED
        BY <1>10, <2>2
<1>16. OpenAt(w, o.s, u, n + Len(bytes))
    BY <1>2, <1>7, <1>10, <1>14, <1>15 DEF OpenAt, Holds, IsOpen
<1>. QED
    BY <1>7, <1>10, <1>13, <1>16 DEF Wrote

LEMMA PutClosed ==
    ASSUME NEW w, NEW v, NEW n, NEW t, ClosedAt(w, t, v, n),
           NEW k, NEW bytes, IsSeq(bytes), bytes # <<>>, NEW o \in PutStr(t, k, bytes)
    PROVE  ClosedAt(w, o.s, v, n) /\ o.c = k /\ ~o.ok
<1>1. ClosedAs(w, t)
    BY DEF ClosedAt
<1>2. ClosedAs(w, o.s) /\ o.c = k /\ ~o.ok
    BY <1>1, PutOnClosed
<1>. QED
    BY <1>2 DEF ClosedAt

(* a flush *)
LEMMA FlushInStep ==
    ASSUME NEW w \in Writer, NEW z, NEW k, IsConnection(k), IsSeq(k.sent),
           NEW v, v = Received(z, k.sent), Server(v), v.ended = -1,
           NEW n \in Nat, NEW t, OpenAt(w, t, v, n), NEW o \in FFlush(t, k), ~o.s.error
    PROVE  \E u : /\ u = Received(z, o.c.sent) /\ Same(k, o.c) /\ Moves(w, v, u) /\ u.ended = -1
                  /\ OpenAt(w, o.s, u, n)
<1>. DEFINE from == v.next[w]
<1>1. PICK held : /\ Holds(w, t, held) /\ IsRun(held, w, from) /\ Len(held) = n - from
                  /\ Len(held) <= BuffLen - HeaderLen
    BY DEF OpenAt, HoldsRest
<1>2. from \in Nat /\ w \notin v.eof
    BY DEF Server, OpenAt
<1>3. IsSeq(held) /\ Len(held) \in Nat
    BY <1>1, ConcatIs DEF IsRun
<1>4. from + Len(held) = n /\ n - n = 0
    BY <1>1, <1>2, <1>3
<1>. DEFINE r == RecordOf(w, k.id, held)
            u == Received(v, r)
<1>5. /\ Holds(w, o.s, <<>>) /\ Grown(k, o.c, r)
      /\ o.s.isAnythingWritten <=> t.isAnythingWritten \/ held # <<>>
    BY <1>1, FFlushGrows
<1>6. Moves(w, v, u) /\ u.ended = -1 /\ u.eof = v.eof /\ u.next[w] = n
    BY <1>1, <1>2, <1>4, RecordSeen
<1>7. IsSeq(r)
    BY <1>3, RecordOfIs
<1>. HIDE DEF r, u, from
<1>8. u = Received(z, o.c.sent) /\ Same(k, o.c)
    <2>1. o.c.sent = k.sent \o r /\ Same(k, o.c)
        BY <1>5 DEF Grown, Same
    <2>. DEFINE a == k.sent
                d == o.c.sent
    <2>2. IsSeq(a) /\ v = Received(z, a) /\ d = a \o r
        BY <2>1
    <2>. HIDE DEF a, d
    <2>3. Received(z, a \o r) = Received(Received(z, a), r) /\ IsSeq(a \o r)
        BY <1>7, <2>2, ReceivedConcat, ConcatIs
    <2>4. Received(z, d) = Received(v, r) /\ IsSeq(d)
        BY <2>2, <2>3
    <2>. QED
        BY <2>1, <2>4 DEF u, d
<1>9. HoldsRest(w, o.s, n, n)
    <2>1. IsRun(<<>>, w, n)
        BY NothingIs DEF IsRun
    <2>2. 0 <= BuffLen - HeaderLen
        BY Lengths
    <2>. QED
        BY <1>4, <1>5, <2>1, <2>2, NothingIs DEF HoldsRest
<1>10. ~o.s.isAnythingWritten => n = 0
    <2>. SUFFICES ASSUME ~o.s.isAnythingWritten PROVE n = 0
        OBVIOUS
    <2>1. held = <<>> /\ ~t.isAnythingWritten
        BY <1>5
    <2>2. from = 0 /\ Len(held) = 0
        BY <2>1, NothingIs DEF OpenAt, from
    <2>. QED
        BY <1>4, <2>2
<1>11. OpenAt(w, o.s, u, n)
    BY <1>2, <1>5, <1>6, <1>9, <1>10 DEF OpenAt, Holds, IsOpen
<1>. QED
    BY <1>6, <1>8, <1>11

(* and a close. *)
Closes(z, w, v, k, n, o, u) ==
    /\ u = Received(z, o.c.sent) /\ Moves(w, v, u)
    /\ u.ended = (IF k.nWriters = 1 THEN k.appStatus ELSE -1)
    /\ ClosedAt(w, o.s, u, n) /\ IsConnection(o.c)
    /\ o.c.nWriters = k.nWriters - 1 /\ o.c.appStatus = k.appStatus

LEMMA CloseInStep ==
    ASSUME NEW w \in Writer, NEW z, NEW k, IsConnection(k), IsSeq(k.sent),
           NEW v, v = Received(z, k.sent), Server(v), v.ended = -1,
           NEW n \in Nat, NEW t, OpenAt(w, t, v, n), NEW o \in FClose(t, k), ~o.s.error
    PROVE  \E u : Closes(z, w, v, k, n, o, u)
<1>. DEFINE from == v.next[w]
<1>1. PICK held : /\ Holds(w, t, held) /\ IsRun(held, w, from) /\ Len(held) = n - from
                  /\ Len(held) <= BuffLen - HeaderLen
    BY DEF OpenAt, HoldsRest
<1>2. from \in Nat /\ w \notin v.eof
    BY DEF Server, OpenAt
<1>3. IsSeq(held) /\ Len(held) \in Nat
    BY <1>1, ConcatIs DEF IsRun
<1>4. from + Len(held) = n
    BY <1>1, <1>2, <1>3
<1>. DEFINE quiet == w = "err" /\ held = <<>> /\ ~t.isAnythingWritten
<1>5. quiet => w = "err" /\ n = 0
    <2>. SUFFICES ASSUME quiet PROVE n = 0
        OBVIOUS
    <2>1. Len(held) = 0 /\ from = 0
        BY NothingIs DEF OpenAt
    <2>. QED
        BY <1>4, <2>1
<1>6. quiet <=> w = "err" /\ held = <<>> /\ ~t.isAnythingWritten
    OBVIOUS
<1>. HIDE DEF quiet
<1>7. ClosedAs(w, o.s) /\ EndsWith(k, o.c, LastBytes(w, k, held, quiet))
    BY <1>1, <1>6, FCloseGrows
<1>. DEFINE r == RecordOf(w, k.id, held)
            h == Closing(w, k.id, quiet)
            e == Ending(k)
            a == Received(v, r)
            b == Received(a, h)
            u == Received(b, e)
<1>8. IsSeq(r) /\ IsSeq(h) /\ IsSeq(e)
    BY <1>3, RecordOfIs, ClosingIs, EndingIs
<1>9. Moves(w, v, a) /\ a.ended = -1 /\ a.eof = v.eof /\ a.next[w] = n
    BY <1>1, <1>2, <1>4, RecordSeen
<1>. HIDE DEF a
<1>10. Moves(w, a, b) /\ b.ended = -1 /\ b.next = a.next /\ (~quiet => w \in b.eof)
    BY <1>2, <1>9, ClosingSeen DEF Moves
<1>. HIDE DEF b
<1>11. /\ Moves(w, b, u) /\ u.next = b.next /\ u.eof = b.eof
       /\ u.ended = IF k.nWriters = 1 THEN k.appStatus ELSE -1
    BY <1>10, EndingSeen DEF Moves
<1>. HIDE DEF u, r, h, e, from
<1>12. Received(z, o.c.sent) = u
    <2>1. IsSeq(r \o h) /\ IsSeq((r \o h) \o e)
        BY <1>8, ConcatIs
    <2>2. Received(v, r \o h) = b
        BY <1>8, ReceivedConcat DEF a, b
    <2>3. Received(v, (r \o h) \o e) = u
        BY <1>8, <2>1, <2>2, ReceivedConcat DEF u
    <2>4. o.c.sent = k.sent \o ((r \o h) \o e)
        BY <1>7 DEF EndsWith, LastBytes, r, h, e
    <2>. DEFINE all == (r \o h) \o e
    <2>. HIDE DEF all
    <2>. DEFINE p == k.sent
                d == o.c.sent
    <2>5. IsSeq(p) /\ v = Received(z, p) /\ d = p \o all /\ IsSeq(all)
        BY <2>1, <2>4 DEF all
    <2>. HIDE DEF p, d
    <2>6. Received(z, p \o all) = Received(Received(z, p), all)
        BY <2>5, ReceivedConcat
    <2>. QED
        BY <2>3, <2>5, <2>6 DEF all, d
<1>13. Moves(w, v, u)
    BY <1>9, <1>10, <1>11 DEF Moves
<1>14. ClosedAt(w, o.s, u, n)
    BY <1>5, <1>7, <1>9, <1>10, <1>11 DEF ClosedAt
<1>. QED
    BY <1>7, <1>11, <1>12, <1>13, <1>14 DEF EndsWith, Closes
-----------------------------------------------------------------------------
(* The two streams together, with the writers that are left.               *)
Left(t) == IF t.wasFCloseCalled THEN 0 ELSE 1

Agrees(ss, left, v, p) ==
    /\ Server(v) /\ p \in [Writer -> Nat] /\ DOMAIN ss = Writer
    /\ \A w \in Writer : InStep(w, ss[w], v, p[w])
    /\ left = Left(ss["out"]) + Left(ss["err"])
    /\ v.ended = -1 <=> left > 0

(* The status is the one at the end. *)
Tells(k, v, l, u) ==
    l.nWriters = 0 => u.ended = k.appStatus \/ (k.nWriters = 0 /\ u.ended = v.ended)

After(w, ss, k, v, p, o, n) ==
    LET u == Received(v, o.c.sent)
    IN  /\ Agrees([ss EXCEPT ![w] = o.s], o.c.nWriters, u, [p EXCEPT ![w] = n])
        /\ Tells(k, v, o.c, u)

LEMMA OpenLeft ==
    ASSUME NEW ss, NEW left, NEW v, NEW p, Agrees(ss, left, v, p), NEW w \in Writer
    PROVE  /\ OpenAt(w, ss[w], v, p[w]) => left > 0 /\ v.ended = -1 /\ Left(ss[w]) = 1
           /\ ClosedAt(w, ss[w], v, p[w]) => Left(ss[w]) = 0
           /\ left \in Nat
<1>1. \A t : Left(t) \in {0, 1}
    BY DEF Left
<1>. DEFINE a == Left(ss["out"])
            b == Left(ss["err"])
<1>2. a \in {0, 1} /\ b \in {0, 1} /\ left = a + b /\ (v.ended = -1 <=> left > 0)
    BY <1>1 DEF Agrees
<1>3. Left(ss[w]) = a \/ Left(ss[w]) = b
    BY DEF Writer
<1>. HIDE DEF a, b
<1>4. OpenAt(w, ss[w], v, p[w]) => Left(ss[w]) = 1
    BY DEF OpenAt, Left
<1>5. ClosedAt(w, ss[w], v, p[w]) => Left(ss[w]) = 0
    BY DEF ClosedAt, ClosedAs, Left
<1>6. Left(ss[w]) = 1 => left > 0
    BY <1>2, <1>3
<1>. QED
    BY <1>2, <1>4, <1>5, <1>6

LEMMA OtherStream ==
    ASSUME NEW w, NEW v, NEW u, Moves(w, v, u), NEW x \in Writer \ {w},
           NEW t, NEW n, InStep(x, t, v, n)
    PROVE  InStep(x, t, u, n)
<1>1. u.next[x] = v.next[x] /\ (x \in u.eof <=> x \in v.eof)
    BY DEF Moves
<1>. QED
    BY <1>1 DEF InStep, OpenAt, ClosedAt

LEMMA AgreesOn ==
    ASSUME NEW ss, NEW left, NEW v, NEW p, Agrees(ss, left, v, p), NEW w \in Writer,
           NEW u, Moves(w, v, u), NEW n \in Nat, NEW t, InStep(w, t, u, n), NEW now,
           now = left - Left(ss[w]) + Left(t), u.ended = -1 <=> now > 0
    PROVE  Agrees([ss EXCEPT ![w] = t], now, u, [p EXCEPT ![w] = n])
<1>. DEFINE tt == [ss EXCEPT ![w] = t]
            q == [p EXCEPT ![w] = n]
<1>1. /\ DOMAIN tt = Writer /\ tt[w] = t /\ \A x \in Writer \ {w} : tt[x] = ss[x]
      /\ q \in [Writer -> Nat] /\ q[w] = n /\ \A x \in Writer \ {w} : q[x] = p[x]
    BY DEF Agrees
<1>. HIDE DEF tt, q
<1>2. Server(u)
    BY DEF Moves
<1>3. ASSUME NEW x \in Writer PROVE InStep(x, tt[x], u, q[x])
    <2>1. CASE x = w
        BY <1>1, <2>1
    <2>2. CASE x # w
        <3>1. InStep(x, ss[x], v, p[x])
            BY DEF Agrees
        <3>2. InStep(x, ss[x], u, p[x])
            BY <2>2, <3>1, OtherStream
        <3>. QED
            BY <1>1, <2>2, <3>2
    <2>. QED
        BY <2>1, <2>2
<1>4. now = Left(tt["out"]) + Left(tt["err"])
    <2>1. \A y : Left(y) \in Int
        BY DEF Left
    <2>2. left = Left(ss["out"]) + Left(ss["err"])
        BY DEF Agrees
    <2>3. CASE w = "out"
        <3>1. tt["out"] = t /\ tt["err"] = ss["err"]
            BY <1>1, <2>3 DEF Writer
        <3>. QED
            BY <2>1, <2>2, <2>3, <3>1
    <2>4. CASE w = "err"
        <3>1. tt["err"] = t /\ tt["out"] = ss["out"]
            BY <1>1, <2>4 DEF Writer
        <3>. QED
            BY <2>1, <2>2, <2>4, <3>1
    <2>. QED
        BY <2>3, <2>4 DEF Writer
<1>5. Agrees(tt, now, u, q)
    BY <1>1, <1>2, <1>3, <1>4 DEF Agrees
<1>. QED
    BY <1>5 DEF tt, q

(* An operation that changes nothing, *)
LEMMA AfterNothing ==
    ASSUME NEW ss, NEW k, k.sent = <<>>, NEW v, NEW p, Agrees(ss, k.nWriters, v, p),
           NEW w \in Writer,
           ClosedAt(w, ss[w], v, p[w]), NEW o, ClosedAt(w, o.s, v, p[w]), o.c = k
    PROVE  After(w, ss, k, v, p, o, p[w])
<1>1. Received(v, o.c.sent) = v
    BY ReceivedNothing
<1>2. Moves(w, v, v)
    BY DEF Moves, Agrees
<1>3. Left(ss[w]) = 0 /\ k.nWriters \in Nat
    BY OpenLeft
<1>4. Left(o.s) = 0
    BY DEF ClosedAt, ClosedAs, Left
<1>5. k.nWriters = k.nWriters - 0 + 0 /\ (v.ended = -1 <=> k.nWriters > 0) /\ p[w] \in Nat
    BY <1>3 DEF Agrees
<1>6. InStep(w, o.s, v, p[w])
    BY DEF InStep
<1>7. Agrees([ss EXCEPT ![w] = o.s], k.nWriters, v, [p EXCEPT ![w] = p[w]])
    <2>. DEFINE left == k.nWriters
                n == p[w]
                t == o.s
    <2>1. /\ Agrees(ss, left, v, p) /\ n \in Nat /\ InStep(w, t, v, n)
          /\ left = left - Left(ss[w]) + Left(t) /\ (v.ended = -1 <=> left > 0)
        BY <1>3, <1>4, <1>5, <1>6
    <2>. HIDE DEF left, n, t
    <2>2. Agrees([ss EXCEPT ![w] = t], left, v, [p EXCEPT ![w] = n])
        BY <1>2, <2>1, AgreesOn
    <2>. QED
        BY <2>2 DEF left, n, t
<1>. QED
    BY <1>1, <1>7 DEF After, Tells

(* one that leaves the stream open, *)
LEMMA AfterOpen ==
    ASSUME NEW ss, NEW k, NEW v, NEW p, Agrees(ss, k.nWriters, v, p), NEW w \in Writer,
           OpenAt(w, ss[w], v, p[w]), NEW o, o.c.nWriters = k.nWriters,
           NEW u, u = Received(v, o.c.sent), Moves(w, v, u), u.ended = -1,
           NEW n \in Nat, OpenAt(w, o.s, u, n)
    PROVE  After(w, ss, k, v, p, o, n)
<1>1. Left(ss[w]) = 1 /\ k.nWriters \in Nat /\ k.nWriters > 0
    BY OpenLeft
<1>2. Left(o.s) = 1
    BY DEF OpenAt, Left
<1>3. InStep(w, o.s, u, n)
    BY DEF InStep
<1>4. Agrees([ss EXCEPT ![w] = o.s], k.nWriters, u, [p EXCEPT ![w] = n])
    <2>. DEFINE left == k.nWriters
                t == o.s
    <2>1. /\ Agrees(ss, left, v, p) /\ InStep(w, t, u, n)
          /\ left = left - Left(ss[w]) + Left(t) /\ (u.ended = -1 <=> left > 0)
        BY <1>1, <1>2, <1>3
    <2>. HIDE DEF left, t
    <2>2. Agrees([ss EXCEPT ![w] = t], left, u, [p EXCEPT ![w] = n])
        BY <2>1, AgreesOn
    <2>. QED
        BY <2>2 DEF left, t
<1>. QED
    BY <1>1, <1>4 DEF After, Tells

(* and a close. *)
LEMMA AfterClose ==
    ASSUME NEW ss, NEW k, k.appStatus \in Nat, NEW v, NEW p, Agrees(ss, k.nWriters, v, p),
           NEW w \in Writer,
           OpenAt(w, ss[w], v, p[w]), NEW o, o.c.nWriters = k.nWriters - 1,
           NEW u, u = Received(v, o.c.sent), Moves(w, v, u),
           u.ended = (IF k.nWriters = 1 THEN k.appStatus ELSE -1), ClosedAt(w, o.s, u, p[w])
    PROVE  After(w, ss, k, v, p, o, p[w])
<1>1. Left(ss[w]) = 1 /\ k.nWriters \in Nat /\ k.nWriters > 0
    BY OpenLeft
<1>2. Left(o.s) = 0
    BY DEF ClosedAt, ClosedAs, Left
<1>3. InStep(w, o.s, u, p[w]) /\ p[w] \in Nat
    BY DEF InStep, Agrees
<1>4. Agrees([ss EXCEPT ![w] = o.s], k.nWriters - 1, u, [p EXCEPT ![w] = p[w]])
    <2>. DEFINE left == k.nWriters
                now == left - 1
                t == o.s
                n == p[w]
    <2>1. /\ Agrees(ss, left, v, p) /\ InStep(w, t, u, n) /\ n \in Nat
          /\ now = left - Left(ss[w]) + Left(t) /\ (u.ended = -1 <=> now > 0)
        BY <1>1, <1>2, <1>3
    <2>. HIDE DEF left, t, n, now
    <2>2. Agrees([ss EXCEPT ![w] = t], now, u, [p EXCEPT ![w] = n])
        BY <2>1, AgreesOn
    <2>. QED
        BY <2>2 DEF left, t, n, now
<1>5. k.nWriters - 1 = 0 => u.ended = k.appStatus
    BY <1>1
<1>. QED
    BY <1>4, <1>5 DEF After, Tells

LEMMA EitherWay ==
    ASSUME NEW ss, NEW left, NEW v, NEW p, Agrees(ss, left, v, p), NEW w \in Writer
    PROVE  /\ OpenAt(w, ss[w], v, p[w]) \/ ClosedAt(w, ss[w], v, p[w])
           /\ p[w] \in Nat /\ Server(v)
BY DEF Agrees, InStep

(* What each of them has done, if it did not fail. *)
LEMMA PutAfter ==
    ASSUME NEW ss, NEW k, IsConnection(k), k.sent = <<>>,
           NEW v, NEW p, Agrees(ss, k.nWriters, v, p),
           NEW w \in Writer, NEW bytes, IsRun(bytes, w, p[w]), bytes # <<>>,
           Len(bytes) <= BuffLen - HeaderLen, NEW o \in PutStr(ss[w], k, bytes), ~o.s.error
    PROVE  After(w, ss, k, v, p, o, IF o.ok THEN p[w] + Len(bytes) ELSE p[w])
<1>. DEFINE t == ss[w]
            n == p[w]
<1>1. /\ OpenAt(w, t, v, n) \/ ClosedAt(w, t, v, n)
      /\ n \in Nat /\ Server(v)
    BY EitherWay
<1>2. IsSeq(bytes) /\ Len(bytes) \in Nat
    BY DEF IsRun, IsSeq
<1>3. CASE OpenAt(w, t, v, n)
    <2>1. v.ended = -1
        BY <1>3, OpenLeft
    <2>2. IsSeq(k.sent) /\ v = Received(v, k.sent)
        BY NothingIs, ReceivedNothing
    <2>3. IsRun(bytes, w, n) /\ o \in PutStr(t, k, bytes)
        OBVIOUS
    <2>. HIDE DEF t, n
    <2>4. \E u : Wrote(v, w, v, k, t, n + Len(bytes), o, u)
        BY <1>1, <1>3, <2>1, <2>2, <2>3, PutInStep
    <2>5. PICK u : Wrote(v, w, v, k, t, n + Len(bytes), o, u)
        BY <2>4
    <2>6. n + Len(bytes) \in Nat
        BY <1>1, <1>2
    <2>. DEFINE m == n + Len(bytes)
    <2>7. /\ u = Received(v, o.c.sent) /\ o.c.nWriters = k.nWriters /\ o.ok /\ m \in Nat
          /\ Moves(w, v, u) /\ u.ended = -1 /\ OpenAt(w, o.s, u, m)
        BY <2>5, <2>6 DEF Wrote, Same
    <2>. HIDE DEF m
    <2>8. After(w, ss, k, v, p, o, m)
        BY <1>3, <2>7, AfterOpen DEF t, n
    <2>. QED
        BY <2>7, <2>8 DEF m, n
<1>4. CASE ClosedAt(w, t, v, n)
    <2>1. ClosedAt(w, o.s, v, n) /\ o.c = k /\ ~o.ok
        BY <1>2, <1>4, PutClosed
    <2>2. After(w, ss, k, v, p, o, p[w])
        BY <1>4, <2>1, AfterNothing
    <2>. QED
        BY <2>1, <2>2
<1>. QED
    BY <1>1, <1>3, <1>4

LEMMA PiecesAfter ==
    ASSUME NEW ss, NEW k, IsConnection(k), k.sent = <<>>,
           NEW v, NEW p, Agrees(ss, k.nWriters, v, p),
           NEW w \in Writer, IsStream(ss[w]),
           NEW b, IsRun(b, w, p[w]), Len(b) = 1, NEW d, IsRun(d, w, p[w] + 1), Len(d) = 1,
           NEW first \in PutStr(ss[w], k, b), NEW stops,
           NEW o \in IF first.ok \/ ~stops THEN PutStr(first.s, first.c, d) ELSE {first}, ~o.s.error
    PROVE  After(w, ss, k, v, p, o, IF first.ok /\ o.ok THEN p[w] + 2 ELSE p[w])
<1>. DEFINE t == ss[w]
            n == p[w]
<1>1. /\ OpenAt(w, t, v, n) \/ ClosedAt(w, t, v, n)
      /\ n \in Nat /\ Server(v)
    BY EitherWay
<1>2. IsSeq(b) /\ b # <<>> /\ IsSeq(d) /\ d # <<>> /\ 1 <= BuffLen - HeaderLen
    <2>1. 1 <= BuffLen - HeaderLen
        BY Lengths
    <2>2. \A x : Len(x) = 1 => x # <<>>
        <3>1. Len(<<>>) = 0
            OBVIOUS
        <3>. TAKE x
        <3>. SUFFICES ASSUME x = <<>> PROVE Len(x) # 1
            OBVIOUS
        <3>. QED
            BY <3>1
    <2>. QED
        BY <2>1, <2>2 DEF IsRun
<1>3. ~first.s.error
    <2>1. Keeps(t, k, first)
        BY PutStrKeeps
    <2>2. CASE first.ok \/ ~stops
        <3>1. Keeps(first.s, first.c, o)
            BY <2>1, <2>2, PutStrKeeps DEF Keeps, Lasting, Staying
        <3>. QED
            BY <3>1 DEF Keeps, Lasting
    <2>3. CASE ~(first.ok \/ ~stops)
        BY <2>3
    <2>. QED
        BY <2>2, <2>3
<1>4. CASE OpenAt(w, t, v, n)
    <2>1. v.ended = -1
        BY <1>4, OpenLeft
    <2>2. IsSeq(k.sent) /\ v = Received(v, k.sent)
        BY NothingIs, ReceivedNothing
    <2>3. IsRun(b, w, n) /\ first \in PutStr(t, k, b) /\ IsRun(d, w, n + 1)
        OBVIOUS
    <2>. HIDE DEF t, n
    <2>4. \E u : Wrote(v, w, v, k, t, n + Len(b), first, u)
        BY <1>1, <1>2, <1>3, <1>4, <2>1, <2>2, <2>3, PutInStep
    <2>5. PICK u : Wrote(v, w, v, k, t, n + 1, first, u)
        BY <2>4
    <2>. DEFINE l == first.c
                m == n + 1
    <2>6. /\ u = Received(v, l.sent) /\ IsSeq(l.sent) /\ IsConnection(l) /\ first.ok
          /\ l.nWriters = k.nWriters /\ l.appStatus = k.appStatus
          /\ Moves(w, v, u) /\ Server(u) /\ u.ended = -1 /\ OpenAt(w, first.s, u, m) /\ m \in Nat
        BY <1>1, <2>5 DEF Wrote, Same, Moves
    <2>7. o \in PutStr(first.s, l, d) /\ IsRun(d, w, m)
        BY <2>3, <2>6
    <2>. HIDE DEF l, m
    <2>8. \E x : Wrote(v, w, u, l, first.s, m + Len(d), o, x)
        BY <1>2, <2>6, <2>7, PutInStep
    <2>9. PICK x : Wrote(v, w, u, l, first.s, m + 1, o, x)
        BY <2>8
    <2>. DEFINE q == m + 1
    <2>10. /\ x = Received(v, o.c.sent) /\ o.c.nWriters = k.nWriters /\ o.ok /\ q \in Nat
           /\ Moves(w, u, x) /\ x.ended = -1 /\ OpenAt(w, o.s, x, q)
        BY <2>6, <2>9 DEF Wrote, Same
    <2>11. Moves(w, v, x)
        BY <2>6, <2>10 DEF Moves
    <2>. HIDE DEF q
    <2>12. After(w, ss, k, v, p, o, q)
        BY <1>4, <2>10, <2>11, AfterOpen DEF t, n
    <2>13. q = p[w] + 2
        BY <1>1 DEF q, m, n
    <2>. QED
        BY <2>6, <2>10, <2>12, <2>13
<1>5. CASE ClosedAt(w, t, v, n)
    <2>1. ClosedAt(w, first.s, v, n) /\ first.c = k /\ ~first.ok
        BY <1>2, <1>5, PutClosed
    <2>2. ClosedAt(w, o.s, v, n) /\ o.c = k
        <3>1. CASE first.ok \/ ~stops
            BY <1>2, <2>1, <3>1, PutClosed
        <3>2. CASE ~(first.ok \/ ~stops)
            BY <2>1, <3>2
        <3>. QED
            BY <3>1, <3>2
    <2>3. After(w, ss, k, v, p, o, p[w])
        BY <1>5, <2>2, AfterNothing
    <2>. QED
        BY <2>1, <2>3
<1>. QED
    BY <1>1, <1>4, <1>5

LEMMA FlushAfter ==
    ASSUME NEW ss, NEW k, IsConnection(k), k.sent = <<>>,
           NEW v, NEW p, Agrees(ss, k.nWriters, v, p),
           NEW w \in Writer, NEW o \in FFlush(ss[w], k), ~o.s.error
    PROVE  After(w, ss, k, v, p, o, p[w])
<1>. DEFINE t == ss[w]
            n == p[w]
<1>1. /\ OpenAt(w, t, v, n) \/ ClosedAt(w, t, v, n)
      /\ n \in Nat /\ Server(v)
    BY EitherWay
<1>2. CASE OpenAt(w, t, v, n)
    <2>1. v.ended = -1 /\ IsSeq(k.sent) /\ v = Received(v, k.sent)
        BY <1>2, OpenLeft, NothingIs, ReceivedNothing
    <2>2. PICK u : /\ u = Received(v, o.c.sent) /\ Same(k, o.c) /\ Moves(w, v, u) /\ u.ended = -1
                   /\ OpenAt(w, o.s, u, n)
        BY <1>1, <1>2, <2>1, FlushInStep
    <2>. QED
        BY <1>1, <1>2, <2>2, AfterOpen DEF Same
<1>3. CASE ClosedAt(w, t, v, n)
    <2>1. o.s = t /\ o.c = k
        BY <1>3, FFlushOnClosed DEF ClosedAt
    <2>. QED
        BY <1>3, <2>1, AfterNothing
<1>. QED
    BY <1>1, <1>2, <1>3

LEMMA CloseAfter ==
    ASSUME NEW ss, NEW k, IsConnection(k), k.sent = <<>>, k.appStatus \in Nat,
           NEW v, NEW p, Agrees(ss, k.nWriters, v, p),
           NEW w \in Writer, NEW o \in FClose(ss[w], k), ~o.s.error
    PROVE  After(w, ss, k, v, p, o, p[w]) /\ o.s.wasFCloseCalled
<1>. DEFINE t == ss[w]
            n == p[w]
<1>1. /\ OpenAt(w, t, v, n) \/ ClosedAt(w, t, v, n)
      /\ n \in Nat /\ Server(v)
    BY EitherWay
<1>2. CASE OpenAt(w, t, v, n)
    <2>1. v.ended = -1 /\ IsSeq(k.sent) /\ v = Received(v, k.sent)
        BY <1>2, OpenLeft, NothingIs, ReceivedNothing
    <2>. HIDE DEF t, n
    <2>2. \E u : Closes(v, w, v, k, n, o, u)
        <3>1. o \in FClose(t, k)
            BY DEF t
        <3>. QED
            BY <1>1, <1>2, <2>1, <3>1, CloseInStep
    <2>3. PICK u : Closes(v, w, v, k, n, o, u)
        BY <2>2
    <2>4. /\ u = Received(v, o.c.sent) /\ Moves(w, v, u)
          /\ u.ended = (IF k.nWriters = 1 THEN k.appStatus ELSE -1)
          /\ ClosedAt(w, o.s, u, n) /\ o.c.nWriters = k.nWriters - 1
        BY <2>3 DEF Closes
    <2>5. After(w, ss, k, v, p, o, p[w])
        BY <1>2, <2>4, AfterClose DEF t, n
    <2>. QED
        BY <2>4, <2>5 DEF ClosedAt, ClosedAs
<1>3. CASE ClosedAt(w, t, v, n)
    <2>1. o.s = t /\ o.c = k
        BY <1>3, FCloseOnClosed DEF ClosedAt
    <2>2. After(w, ss, k, v, p, o, p[w])
        BY <1>3, <2>1, AfterNothing
    <2>. QED
        BY <1>3, <2>1, <2>2 DEF ClosedAt, ClosedAs
<1>. QED
    BY <1>1, <1>2, <1>3
-----------------------------------------------------------------------------
(* The inductive invariant. *)
IsAsked(a) == DOMAIN a = {"status", "lost", "cleared", "failed"}

IsRequest(r) == DOMAIN r = {"no", "fd", "keep", "live"}

Shape ==
    /\ IsConnection(c) /\ c.sent = <<>> /\ IsAsked(asked) /\ IsRequest(request)
    /\ c.appStatus \in Nat /\ (InTime(asked) => c.appStatus = asked.status)
    /\ DOMAIN s = Writer /\ \A w \in Writer : IsStream(s[w])

Place ==
    /\ c.open => request.fd
    /\ at = "accept" => ~request.live
    /\ at \in {"err", "out"} => request.live
    /\ ~request.live => s = NewStreams /\ put = NothingPut

(* As long as nothing has failed, the web server has what the streams have *)
(* written, and the close of a request leaves no stream open.              *)
Exact ==
    c.open /\ request.live /\ ~asked.failed =>
        /\ Agrees(s, c.nWriters, server, put)
        /\ c.nWriters = 0 /\ InTime(asked) => server.ended = asked.status
        /\ at = "out" => s["err"].wasFCloseCalled
        /\ at = "free" => c.nWriters = 0

(* What has failed is an error of a stream, until FCGX_Finish_r has seen it. *)
Noticed ==
    c.open /\ request.live /\ asked.failed /\ ~asked.cleared =>
        /\ \E w \in Writer : s[w].error
        /\ at = "out" /\ s["err"].error => close
        /\ at = "free" => close

Between ==
    c.open /\ ~request.live =>
        IF asked.failed THEN asked.cleared ELSE Boundary(server) /\ server.ended # -1

Inv == Shape /\ Place /\ Exact /\ Noticed /\ Between

(* The outcome of an operation becomes the state. *)
LEMMA Outcomes ==
    ASSUME Inv, NEW w \in Writer, NEW o, Keeps(s[w], c, o), Does(w, o), request' = request
    PROVE  /\ Shape' /\ (c'.open => c.open) /\ c'.nWriters = o.c.nWriters
           /\ s' = [s EXCEPT ![w] = o.s] /\ s'[w] = o.s /\ \A x \in Writer \ {w} : s'[x] = s[x]
           /\ c'.open => server' = Received(server, o.c.sent)
           /\ asked'.status = asked.status
           /\ InTime(asked') <=> InTime(asked)
           /\ asked'.cleared <=> asked.cleared
           /\ asked'.failed <=> asked.failed \/ o.s.error
<1>1. /\ IsOutcome(o) /\ IsStream(o.s) /\ IsConnection(o.c) /\ (o.c.open => c.open)
      /\ o.c.appStatus = c.appStatus
    BY DEF Keeps, Lasting, Staying
<1>2. Shape
    BY DEF Inv
<1>3. /\ s' = [s EXCEPT ![w] = o.s]
      /\ c' = [o.c EXCEPT !.sent = <<>>]
      /\ server' = IF o.c.open THEN Received(server, o.c.sent) ELSE NewServer
    BY DEF Does
<1>4. /\ IsConnection(c') /\ c'.sent = <<>> /\ c'.appStatus = c.appStatus
      /\ c'.nWriters = o.c.nWriters /\ (c'.open <=> o.c.open)
    BY <1>1, <1>3 DEF IsConnection
<1>5. /\ DOMAIN s' = Writer /\ s'[w] = o.s /\ \A x \in Writer \ {w} : s'[x] = s[x]
      /\ \A x \in Writer : IsStream(s'[x])
    BY <1>1, <1>2, <1>3 DEF Shape
<1>. DEFINE q == asked.failed \/ o.s.error
<1>6. asked' = [asked EXCEPT !.failed = q]
    BY DEF Does
<1>. HIDE DEF q
<1>7. /\ IsAsked(asked') /\ asked'.status = asked.status /\ asked'.lost = asked.lost
      /\ asked'.cleared = asked.cleared /\ asked'.failed = q
    BY <1>2, <1>6 DEF Shape, IsAsked
<1>8. InTime(asked') <=> InTime(asked)
    BY <1>7 DEF InTime
<1>9. IsRequest(request) /\ c.appStatus \in Nat /\ (InTime(asked) => c.appStatus = asked.status)
    BY <1>2 DEF Shape
<1>. QED
    BY <1>1, <1>3, <1>4, <1>5, <1>7, <1>8, <1>9 DEF Shape, q

LEMMA Performed ==
    ASSUME Inv, at = "app", at' = at, request' = request, request.live,
           NEW w \in Writer, NEW o, Keeps(s[w], c, o), Does(w, o), NEW n,
           c.open /\ ~asked.failed /\ ~o.s.error =>
               After(w, s, c, server, put, o, n) /\ put' = [put EXCEPT ![w] = n]
    PROVE  Inv'
<1>1. /\ Shape' /\ (c'.open => c.open) /\ c'.nWriters = o.c.nWriters
      /\ s' = [s EXCEPT ![w] = o.s] /\ s'[w] = o.s /\ \A x \in Writer \ {w} : s'[x] = s[x]
      /\ c'.open => server' = Received(server, o.c.sent)
      /\ asked'.status = asked.status
      /\ InTime(asked') <=> InTime(asked)
      /\ asked'.cleared <=> asked.cleared
      /\ asked'.failed <=> asked.failed \/ o.s.error
    BY Outcomes
<1>2. Place'
    BY <1>1 DEF Inv, Place
<1>3. Exact'
    <2>. SUFFICES ASSUME c'.open, ~asked'.failed
                  PROVE  /\ Agrees(s', c'.nWriters, server', put')
                         /\ c'.nWriters = 0 /\ InTime(asked') => server'.ended = asked'.status
        BY DEF Exact
    <2>1. After(w, s, c, server, put, o, n) /\ put' = [put EXCEPT ![w] = n]
        BY <1>1
    <2>2. Agrees(s', c'.nWriters, server', put')
        BY <1>1, <2>1 DEF After
    <2>3. Tells(c, server, o.c, server')
        BY <1>1, <2>1 DEF After
    <2>4. ASSUME c'.nWriters = 0, InTime(asked') PROVE server'.ended = asked'.status
        <3>1. c.appStatus = asked.status
            BY <1>1, <2>4 DEF Inv, Shape
        <3>2. c.nWriters = 0 => server.ended = asked.status
            BY <1>1, <2>4 DEF Inv, Exact
        <3>. QED
            BY <1>1, <2>3, <2>4, <3>1, <3>2 DEF Tells
    <2>. QED
        BY <2>2, <2>4
<1>4. Noticed'
    <2>. SUFFICES ASSUME c'.open, asked'.failed, ~asked'.cleared
                  PROVE  \E x \in Writer : s'[x].error
        BY DEF Noticed
    <2>1. CASE o.s.error
        BY <1>1, <2>1
    <2>2. CASE ~o.s.error
        <3>1. PICK x \in Writer : s[x].error
            BY <1>1, <2>2 DEF Inv, Noticed
        <3>2. x # w
            BY <2>2, <3>1 DEF Keeps, Lasting
        <3>. QED
            BY <1>1, <3>1, <3>2
    <2>. QED
        BY <2>1, <2>2
<1>5. Between'
    BY DEF Between
<1>. QED
    BY <1>1, <1>2, <1>3, <1>4, <1>5 DEF Inv

LEMMA Elsewhere ==
    ASSUME Inv, UNCHANGED <<request, s, c, server, put, asked>>,
           at' \notin {"accept", "err", "out", "free"} \/ UNCHANGED <<at, close>>
    PROVE  Inv'
<1>1. Shape'
    BY DEF Inv, Shape
<1>2. Place'
    BY DEF Inv, Place
<1>3. Exact'
    BY DEF Inv, Exact
<1>4. Noticed'
    BY DEF Inv, Noticed
<1>5. Between'
    BY DEF Inv, Between, Boundary
<1>. QED
    BY <1>1, <1>2, <1>3, <1>4, <1>5 DEF Inv

LEMMA NextBytesIs ==
    ASSUME NEW w, NEW n \in Nat
    PROVE  IsRun(NextBytes(w, n), w, put[w]) /\ Len(NextBytes(w, n)) = n
<1>. DEFINE b == NextBytes(w, n)
            S == {Data(w, put[w] + k) : k \in 1 .. n}
<1>1. b \in [1 .. n -> S] /\ \A k \in 1 .. n : b[k] = Data(w, put[w] + k)
    BY DEF NextBytes
<1>. HIDE DEF b, S
<1>2. b \in Seq(S) /\ Len(b) = n
    BY <1>1, FunctionIsSeq
<1>. QED
    BY <1>1, <1>2 DEF IsRun, IsSeq, b

LEMMA StreamIs ==
    ASSUME Inv, NEW w \in Writer
    PROVE  IsStream(s[w]) /\ IsConnection(c) /\ c.sent = <<>>
BY DEF Inv, Shape

LEMMA AgreesIs ==
    ASSUME Inv, c.open, request.live, ~asked.failed
    PROVE  Agrees(s, c.nWriters, server, put) /\ c.appStatus \in Nat /\ put \in [Writer -> Nat]
BY DEF Inv, Exact, Agrees, Shape

LEMMA PutsKeep == ASSUME Inv, NEW f, NEW w \in Writer, Puts(f, w) PROVE Inv'
<1>1. PICK n \in 1 .. BuffLen - HeaderLen : \E o \in PutStr(s[w], c, NextBytes(w, n)) :
               Does(w, o) /\ put' = [put EXCEPT ![w] = IF o.ok THEN @ + n ELSE @]
    BY DEF Puts
<1>. DEFINE bytes == NextBytes(w, n)
<1>2. PICK o \in PutStr(s[w], c, bytes) :
               Does(w, o) /\ put' = [put EXCEPT ![w] = IF o.ok THEN @ + n ELSE @]
    BY <1>1
<1>3. /\ at = "app" /\ at' = at /\ request' = request /\ request.live
    BY DEF Puts, Uses, Output, Fixed
<1>4. n \in Nat /\ n # 0 /\ n <= BuffLen - HeaderLen
    BY Lengths
<1>5. IsRun(bytes, w, put[w]) /\ Len(bytes) = n
    BY <1>4, NextBytesIs
<1>. HIDE DEF bytes
<1>6. IsStream(s[w]) /\ IsConnection(c) /\ c.sent = <<>>
    BY StreamIs
<1>7. Keeps(s[w], c, o)
    BY <1>6, PutStrKeeps
<1>. DEFINE m == IF o.ok THEN put[w] + n ELSE put[w]
<1>8. ASSUME c.open, ~asked.failed, ~o.s.error
      PROVE  After(w, s, c, server, put, o, m) /\ put' = [put EXCEPT ![w] = m]
    <2>1. Agrees(s, c.nWriters, server, put)
        BY <1>3, <1>8, AgreesIs
    <2>2. bytes # <<>>
        BY <1>4, <1>5, NothingIs
    <2>3. After(w, s, c, server, put, o, IF o.ok THEN put[w] + Len(bytes) ELSE put[w])
        BY <1>4, <1>5, <1>6, <1>8, <2>1, <2>2, PutAfter
    <2>. QED
        BY <1>2, <1>5, <2>3
<1>. HIDE DEF m
<1>. QED
    BY <1>2, <1>3, <1>7, <1>8, Performed

LEMMA PiecesKeep == ASSUME Inv, NEW f, NEW w \in Writer, NEW stops, Pieces(f, w, stops) PROVE Inv'
<1>. DEFINE b == NextBytes(w, 1)
            d == <<Data(w, put[w] + 2)>>
<1>1. PICK first \in PutStr(s[w], c, b) :
          \E o \in IF first.ok \/ ~stops THEN PutStr(first.s, first.c, d) ELSE {first} :
              Does(w, o) /\ put' = [put EXCEPT ![w] = IF first.ok /\ o.ok THEN @ + 2 ELSE @]
    BY DEF Pieces
<1>2. PICK o \in IF first.ok \/ ~stops THEN PutStr(first.s, first.c, d) ELSE {first} :
              Does(w, o) /\ put' = [put EXCEPT ![w] = IF first.ok /\ o.ok THEN @ + 2 ELSE @]
    BY <1>1
<1>3. /\ at = "app" /\ at' = at /\ request' = request /\ request.live
    BY DEF Pieces, Uses, Output, Fixed
<1>4. IsRun(b, w, put[w]) /\ Len(b) = 1
    BY NextBytesIs
<1>5. put[w] \in Nat => IsRun(d, w, put[w] + 1) /\ Len(d) = 1
    <2>. SUFFICES ASSUME put[w] \in Nat PROVE IsRun(d, w, put[w] + 1) /\ Len(d) = 1
        OBVIOUS
    <2>. DEFINE x == Data(w, put[w] + 2)
    <2>1. put[w] + 2 = (put[w] + 1) + 1
        OBVIOUS
    <2>2. x = Data(w, (put[w] + 1) + 1)
        BY <2>1
    <2>3. d = <<x>>
        OBVIOUS
    <2>. HIDE DEF x, d
    <2>4. d \in Seq({x}) /\ Len(d) = 1 /\ d[1] = x
        BY <2>3
    <2>5. \A k \in 1 .. Len(d) : d[k] = Data(w, (put[w] + 1) + k)
        BY <2>2, <2>4
    <2>. QED
        BY <2>4, <2>5 DEF IsRun, IsSeq
<1>. HIDE DEF b, d
<1>6. IsStream(s[w]) /\ IsConnection(c) /\ c.sent = <<>>
    BY StreamIs
<1>7. Keeps(s[w], c, o)
    <2>1. Keeps(s[w], c, first)
        BY <1>6, PutStrKeeps
    <2>2. CASE first.ok \/ ~stops
        <3>1. Keeps(first.s, first.c, o)
            BY <2>1, <2>2, PutStrKeeps DEF Keeps, Lasting, Staying
        <3>. QED
            BY <2>1, <3>1, KeepsOn DEF Keeps
    <2>3. CASE ~(first.ok \/ ~stops)
        BY <2>1, <2>3
    <2>. QED
        BY <2>2, <2>3
<1>. DEFINE m == IF first.ok /\ o.ok THEN put[w] + 2 ELSE put[w]
<1>8. ASSUME c.open, ~asked.failed, ~o.s.error
      PROVE  After(w, s, c, server, put, o, m) /\ put' = [put EXCEPT ![w] = m]
    <2>1. Agrees(s, c.nWriters, server, put) /\ put[w] \in Nat
        BY <1>3, <1>8, AgreesIs
    <2>2. After(w, s, c, server, put, o, IF first.ok /\ o.ok THEN put[w] + 2 ELSE put[w])
        BY <1>4, <1>5, <1>6, <1>8, <2>1, PiecesAfter
    <2>. QED
        BY <1>2, <2>2
<1>. HIDE DEF m
<1>. QED
    BY <1>2, <1>3, <1>7, <1>8, Performed

LEMMA FlushKeepsInv == ASSUME Inv, NEW f, NEW w \in Writer, FCGI_fflush(f, w) PROVE Inv'
<1>1. PICK o \in FFlush(s[w], c) : Does(w, o)
    BY DEF FCGI_fflush
<1>2. /\ at = "app" /\ at' = at /\ request' = request /\ request.live /\ put' = put
    BY DEF FCGI_fflush, Uses, Output, Fixed
<1>3. IsStream(s[w]) /\ IsConnection(c) /\ c.sent = <<>>
    BY StreamIs
<1>4. Keeps(s[w], c, o)
    BY <1>3, FFlushKeeps
<1>. DEFINE m == put[w]
<1>5. ASSUME c.open, ~asked.failed, ~o.s.error
      PROVE  After(w, s, c, server, put, o, m) /\ put' = [put EXCEPT ![w] = m]
    <2>1. Agrees(s, c.nWriters, server, put) /\ put \in [Writer -> Nat]
        BY <1>2, <1>5, AgreesIs
    <2>2. After(w, s, c, server, put, o, m)
        BY <1>3, <1>5, <2>1, FlushAfter
    <2>. QED
        BY <1>2, <2>1, <2>2
<1>. HIDE DEF m
<1>. QED
    BY <1>1, <1>2, <1>4, <1>5, Performed

LEMMA CloseStreamKeeps ==
    ASSUME Inv, NEW f, CloseStream(f), at = "app", request.live,
           UNCHANGED <<at, close, request, put>>
    PROVE  Inv' \/ UNCHANGED <<s, c, server, asked>>
<1>. SUFFICES ASSUME NEW w \in Writer, NEW o \in FClose(s[w], c), Does(w, o) PROVE Inv'
    BY DEF CloseStream
<1>3. IsStream(s[w]) /\ IsConnection(c) /\ c.sent = <<>>
    BY StreamIs
<1>4. Keeps(s[w], c, o)
    BY <1>3, FCloseKeeps
<1>. DEFINE m == put[w]
<1>5. ASSUME c.open, ~asked.failed, ~o.s.error
      PROVE  After(w, s, c, server, put, o, m) /\ put' = [put EXCEPT ![w] = m]
    <2>1. Agrees(s, c.nWriters, server, put) /\ put \in [Writer -> Nat] /\ c.appStatus \in Nat
        BY <1>5, AgreesIs
    <2>2. After(w, s, c, server, put, o, m)
        BY <1>3, <1>5, <2>1, CloseAfter
    <2>. QED
        BY <2>1, <2>2
<1>. HIDE DEF m
<1>. QED
    BY <1>4, <1>5, Performed

LEMMA CloseFileKeeps == ASSUME Inv, NEW f, FCGI_fclose(f) \/ FCGI_freopen(f) PROVE Inv'
<1>1. UNCHANGED <<at, close, request, put>> /\ at = "app"
    BY DEF FCGI_fclose, FCGI_freopen, Control, Fixed, Uses
<1>2. \/ UNCHANGED <<s, c, server, asked>>
      \/ CloseStream(f) /\ request.live
    BY DEF FCGI_fclose, FCGI_freopen, Uses
<1>3. Inv' \/ UNCHANGED <<s, c, server, asked>>
    BY <1>1, <1>2, CloseStreamKeeps
<1>. QED
    BY <1>1, <1>3, Elsewhere

LEMMA ErrorFree ==
    ASSUME Inv, c.open, request.live, ~asked.failed, NEW w \in Writer PROVE ~s[w].error
<1>1. InStep(w, s[w], server, put[w])
    BY AgreesIs DEF Agrees
<1>. QED
    BY <1>1 DEF InStep, OpenAt, HoldsRest, Holds, IsOpen, ClosedAt, ClosedAs

LEMMA ClearKeeps == ASSUME Inv, NEW f, FCGI_clearerr(f) PROVE Inv'
<1>1. /\ at = "app" /\ request.live /\ UNCHANGED <<at, close, request, put, c, server>>
      /\ asked' = [asked EXCEPT !.cleared = TRUE]
      /\ UNCHANGED s \/ \E w \in Writer : s[w].error /\ s' = [s EXCEPT ![w] = ClearError(s[w])]
    BY DEF FCGI_clearerr, Control, Fixed, Uses
<1>2. Shape /\ Place
    BY DEF Inv
<1>3. /\ IsAsked(asked') /\ asked'.cleared /\ asked'.status = asked.status
      /\ (InTime(asked') <=> InTime(asked)) /\ asked'.failed = asked.failed
    BY <1>1, <1>2 DEF Shape, IsAsked, InTime
<1>4. DOMAIN s' = Writer /\ \A w \in Writer : IsStream(s'[w])
    <2>1. CASE UNCHANGED s
        BY <1>2, <2>1 DEF Shape
    <2>2. ASSUME NEW w \in Writer, s' = [s EXCEPT ![w] = ClearError(s[w])]
          PROVE  DOMAIN s' = Writer /\ \A x \in Writer : IsStream(s'[x])
        <3>1. IsStream(ClearError(s[w]))
            BY <1>2 DEF Shape, ClearError, IsStream
        <3>. QED
            BY <1>2, <2>2, <3>1 DEF Shape
    <2>. QED
        BY <1>1, <2>1, <2>2
<1>5. Shape'
    BY <1>1, <1>2, <1>3, <1>4 DEF Shape
<1>6. Place'
    BY <1>1, <1>2 DEF Place
<1>7. Exact'
    <2>1. c.open /\ ~asked.failed => UNCHANGED s
        BY <1>1, ErrorFree
    <2>. QED
        BY <1>1, <1>3, <2>1 DEF Inv, Exact
<1>8. Noticed' /\ Between'
    BY <1>1, <1>3 DEF Noticed, Between
<1>. QED
    BY <1>5, <1>6, <1>7, <1>8 DEF Inv

LEMMA StatusKeeps == ASSUME Inv, FCGI_SetExitStatus PROVE Inv'
<1>1. PICK status \in Statuses, lost \in BOOLEAN :
          /\ asked' = [asked EXCEPT !.status = status, !.lost = lost]
          /\ \/ c' = [c EXCEPT !.appStatus = status] /\ (c.nWriters = 0 => lost)
             \/ c' = c /\ lost
    <2>1. PICK status \in Statuses :
              \/ /\ c' = [c EXCEPT !.appStatus = status]
                 /\ asked' = [asked EXCEPT !.status = status, !.lost = (c.nWriters = 0)]
              \/ /\ c' = c
                 /\ asked' = [asked EXCEPT !.status = status, !.lost = TRUE]
        BY DEF FCGI_SetExitStatus, StatusSet
    <2>2. (c.nWriters = 0) \in BOOLEAN
        OBVIOUS
    <2>. QED
        BY <2>1, <2>2
<1>2. at = "app" /\ request.live /\ UNCHANGED <<at, close, request, put, s, server>>
    BY DEF FCGI_SetExitStatus, Control, Fixed
<1>3. Shape /\ Place /\ status \in Nat
    BY FcgiStdioAssumption DEF Inv
<1>4. /\ IsAsked(asked') /\ asked'.status = status /\ asked'.cleared = asked.cleared
      /\ asked'.failed = asked.failed /\ asked'.lost = lost
    BY <1>1, <1>3 DEF Shape, IsAsked
<1>5. InTime(asked') => ~lost /\ c' = [c EXCEPT !.appStatus = status] /\ ~(c.nWriters = 0)
    BY <1>1, <1>4 DEF InTime
<1>6. /\ IsConnection(c') /\ c'.sent = c.sent /\ c'.appStatus \in Nat /\ c'.open = c.open
      /\ c'.nWriters = c.nWriters /\ (InTime(asked') => c'.appStatus = status)
    BY <1>1, <1>3, <1>5 DEF Shape, IsConnection
<1>7. Shape'
    BY <1>2, <1>3, <1>4, <1>6 DEF Shape
<1>8. Place'
    BY <1>2, <1>3, <1>6 DEF Place
<1>9. Exact'
    BY <1>2, <1>4, <1>5, <1>6 DEF Inv, Exact
<1>10. Noticed' /\ Between'
    BY <1>2, <1>4, <1>6 DEF Inv, Noticed, Between
<1>. QED
    BY <1>7, <1>8, <1>9, <1>10 DEF Inv

LEMMA FinishStartKeeps == ASSUME Inv, FinishStart PROVE Inv'
<1>1. /\ at = "finish" /\ at' = (IF request.live THEN "err" ELSE "free")
      /\ UNCHANGED <<request, s, c, server, put, asked>>
    BY DEF FinishStart
<1>2. Shape' /\ Between'
    BY <1>1 DEF Inv, Shape, Between, Boundary
<1>3. Place'
    BY <1>1 DEF Inv, Place
<1>4. Exact'
    BY <1>1 DEF Inv, Exact
<1>5. Noticed'
    BY <1>1 DEF Inv, Noticed
<1>. QED
    BY <1>2, <1>3, <1>4, <1>5 DEF Inv

(* FCGX_Finish_r sees the error of either stream. *)
LEMMA FinishCloseKeeps ==
    ASSUME Inv, NEW w, NEW next, FinishClose(w, next),
           (w = "err" /\ next = "out") \/ (w = "out" /\ next = "free")
    PROVE  Inv'
<1>1. PICK o \in FClose(s[w], c) : Does(w, o) /\ close' = (close \/ ~o.ok)
    BY DEF FinishClose
<1>2. at = w /\ at' = next /\ request' = request /\ put' = put
    BY DEF FinishClose
<1>3. w \in Writer /\ request.live
    BY <1>2 DEF Writer, Inv, Place
<1>4. IsStream(s[w]) /\ IsConnection(c) /\ c.sent = <<>>
    BY <1>3, StreamIs
<1>5. Keeps(s[w], c, o) /\ (o.ok <=> ~o.s.error)
    BY <1>4, FCloseKeeps
<1>6. /\ Shape' /\ (c'.open => c.open) /\ c'.nWriters = o.c.nWriters
      /\ s' = [s EXCEPT ![w] = o.s] /\ s'[w] = o.s /\ \A x \in Writer \ {w} : s'[x] = s[x]
      /\ c'.open => server' = Received(server, o.c.sent)
      /\ asked'.status = asked.status
      /\ InTime(asked') <=> InTime(asked)
      /\ asked'.cleared <=> asked.cleared
      /\ asked'.failed <=> asked.failed \/ o.s.error
    BY <1>1, <1>2, <1>3, <1>5, Outcomes
<1>7. close' <=> close \/ o.s.error
    <2>. DEFINE q == close \/ ~o.ok
    <2>1. close' = q
        BY <1>1
    <2>. HIDE DEF q
    <2>. QED
        BY <1>5, <2>1 DEF q
<1>8. Place'
    BY <1>2, <1>3, <1>6 DEF Inv, Place
<1>9. Exact'
    <2>. SUFFICES ASSUME c'.open, ~asked'.failed
                  PROVE  /\ Agrees(s', c'.nWriters, server', put')
                         /\ c'.nWriters = 0 /\ InTime(asked') => server'.ended = asked'.status
                         /\ at' = "out" => s'["err"].wasFCloseCalled
                         /\ at' = "free" => c'.nWriters = 0
        BY DEF Exact
    <2>1. c.open /\ ~asked.failed /\ ~o.s.error
        BY <1>6
    <2>2. Agrees(s, c.nWriters, server, put) /\ put \in [Writer -> Nat] /\ c.appStatus \in Nat
        BY <1>3, <2>1, AgreesIs
    <2>3. After(w, s, c, server, put, o, put[w]) /\ o.s.wasFCloseCalled
        BY <1>3, <1>4, <2>1, <2>2, CloseAfter
    <2>4. [put EXCEPT ![w] = put[w]] = put
        BY <2>2
    <2>5. Agrees(s', c'.nWriters, server', put')
        BY <1>2, <1>6, <2>3, <2>4 DEF After
    <2>6. ASSUME c'.nWriters = 0, InTime(asked') PROVE server'.ended = asked'.status
        <3>1. Tells(c, server, o.c, server')
            BY <1>6, <2>3 DEF After
        <3>2. c.appStatus = asked.status
            BY <1>6, <2>6 DEF Inv, Shape
        <3>3. c.nWriters = 0 => server.ended = asked.status
            BY <1>3, <1>6, <2>1, <2>6 DEF Inv, Exact
        <3>. QED
            BY <1>6, <2>6, <3>1, <3>2, <3>3 DEF Tells
    <2>7. at' = "out" => s'["err"].wasFCloseCalled
        BY <1>2, <1>6, <2>3
    <2>8. ASSUME at' = "free" PROVE c'.nWriters = 0
        <3>1. w = "out" /\ at = "out"
            BY <1>2, <2>8
        <3>2. s["err"].wasFCloseCalled /\ s'["err"] = s["err"]
            BY <1>3, <1>6, <2>1, <3>1 DEF Inv, Exact, Writer
        <3>3. s'["out"].wasFCloseCalled
            BY <1>6, <2>3, <3>1
        <3>4. Left(s'["out"]) = 0 /\ Left(s'["err"]) = 0
            BY <3>2, <3>3 DEF Left
        <3>. QED
            BY <2>5, <3>4 DEF Agrees
    <2>. QED
        BY <2>5, <2>6, <2>7, <2>8
<1>10. Noticed'
    <2>. SUFFICES ASSUME c'.open, asked'.failed, ~asked'.cleared
                  PROVE  /\ \E x \in Writer : s'[x].error
                         /\ at' = "out" /\ s'["err"].error => close'
                         /\ at' = "free" => close'
        BY DEF Noticed
    <2>1. s[w].error => o.s.error
        BY <1>5 DEF Keeps, Lasting
    <2>2. CASE o.s.error
        BY <1>3, <1>6, <1>7, <2>2
    <2>3. CASE ~o.s.error
        <3>1. /\ \E x \in Writer : s[x].error
              /\ at = "out" /\ s["err"].error => close
            BY <1>3, <1>6, <2>3 DEF Inv, Noticed
        <3>2. PICK x \in Writer : s[x].error
            BY <3>1
        <3>3. x # w /\ s'[x] = s[x]
            BY <1>6, <2>1, <2>3, <3>2
        <3>4. at' = "out" => w = "err" /\ ~s'["err"].error
            BY <1>2, <1>6, <2>3
        <3>5. at' = "free" => close'
            <4>. SUFFICES ASSUME at' = "free" PROVE close'
                OBVIOUS
            <4>1. w = "out" /\ at = "out"
                BY <1>2
            <4>2. x = "err"
                BY <3>3, <4>1 DEF Writer
            <4>. QED
                BY <1>7, <3>1, <3>2, <4>1, <4>2
        <3>. QED
            BY <3>2, <3>3, <3>4, <3>5
    <2>. QED
        BY <2>2, <2>3
<1>11. Between'
    BY <1>2, <1>3 DEF Between
<1>. QED
    BY <1>6, <1>8, <1>9, <1>10, <1>11 DEF Inv

LEMMA NewStreamIs ==
    ASSUME NEW w
    PROVE  IsStream(NewStream(w)) /\ IsOpen(w, NewStream(w)) /\ Holds(w, NewStream(w), <<>>)
<1>1. /\ IsStream(NewStream(w)) /\ IsOpen(w, NewStream(w))
      /\ ~NewStream(w).rawWrite /\ NewStream(w).buff = Reserved
    BY DEF NewStream, IsStream, IsOpen
<1>2. Reserved \o <<>> = Reserved
    BY ReservedIs, ConcatNothing
<1>. QED
    BY <1>1, <1>2, NothingIs DEF Holds

LEMMA FreeKeeps == ASSUME Inv, FCGX_Free PROVE Inv'
<1>. DEFINE q == close \/ (request.live /\ in)
            a == request.fd /\ ~q
            b == c.open /\ ~q
<1>1. /\ at = "free" /\ at' \notin {"err", "out", "free"}
      /\ request' = [request EXCEPT !.live = FALSE, !.fd = a]
      /\ c' = [c EXCEPT !.open = b]
      /\ server' = IF q THEN NewServer ELSE server
      /\ s' = NewStreams /\ put' = NothingPut /\ asked' = asked
    BY DEF FCGX_Free, Finished
<1>. HIDE DEF a, b
<1>2. Shape /\ Place
    BY DEF Inv
<1>3. IsRequest(request') /\ ~request'.live /\ request'.fd = a
    BY <1>1, <1>2 DEF Shape, IsRequest
<1>4. /\ IsConnection(c') /\ c'.sent = c.sent /\ c'.appStatus = c.appStatus /\ c'.open = b
      /\ c'.nWriters = c.nWriters
    BY <1>1, <1>2 DEF Shape, IsConnection
<1>5. Shape'
    <2>1. DOMAIN s' = Writer /\ \A w \in Writer : IsStream(s'[w])
        BY <1>1, NewStreamIs DEF NewStreams
    <2>. QED
        BY <1>1, <1>2, <1>3, <1>4, <2>1 DEF Shape
<1>6. Place'
    BY <1>1, <1>2, <1>3, <1>4 DEF Place, a, b
<1>7. Exact' /\ Noticed'
    BY <1>3 DEF Exact, Noticed
<1>8. Between'
    <2>. SUFFICES ASSUME c'.open
                  PROVE  IF asked'.failed THEN asked'.cleared
                         ELSE Boundary(server') /\ server'.ended # -1
        BY DEF Between
    <2>1. c.open /\ ~q
        BY <1>4 DEF b
    <2>2. server' = server /\ asked' = asked /\ ~close
        BY <1>1, <2>1
    <2>3. CASE ~request.live
        BY <2>1, <2>2, <2>3 DEF Inv, Between
    <2>4. CASE request.live
        <3>1. CASE asked.failed
            BY <1>1, <2>1, <2>2, <2>4, <3>1 DEF Inv, Noticed
        <3>2. CASE ~asked.failed
            <4>1. c.nWriters = 0
                BY <1>1, <2>1, <2>4, <3>2 DEF Inv, Exact
            <4>2. Server(server) /\ ~(server.ended = -1)
                BY <2>1, <2>4, <3>2, <4>1, AgreesIs DEF Agrees
            <4>3. Boundary(server)
                BY <4>2 DEF Server, Resting, Past, IsServer, Boundary
            <4>. QED
                BY <2>2, <3>2, <4>2, <4>3
        <3>. QED
            BY <3>1, <3>2
    <2>. QED
        BY <2>3, <2>4
<1>. QED
    BY <1>5, <1>6, <1>7, <1>8 DEF Inv

LEMMA NewAgrees == Agrees(NewStreams, 2, NewServer, NothingPut)
<1>1. /\ Server(NewServer) /\ NewServer.ended = -1 /\ NewServer.eof = {}
      /\ \A w \in Writer : NewServer.next[w] = 0
    <2>1. /\ NewServer.next \in [Writer -> Nat] /\ NewServer.eof = {} /\ NewServer.ended = -1
          /\ \A w \in Writer : NewServer.next[w] = 0
        BY DEF NewServer
    <2>2. Past(NewServer, 0, 0, "none")
        BY DEF NewServer, Past, IsServer
    <2>. QED
        BY <2>1, <2>2 DEF Server, Resting
<1>2. NothingPut \in [Writer -> Nat] /\ DOMAIN NewStreams = Writer
    BY DEF NothingPut, NewStreams
<1>3. ASSUME NEW w \in Writer
      PROVE  InStep(w, NewStreams[w], NewServer, NothingPut[w]) /\ Left(NewStreams[w]) = 1
    <2>1. NewStreams[w] = NewStream(w) /\ NothingPut[w] = 0
        BY DEF NewStreams, NothingPut
    <2>2. ~NewStream(w).wasFCloseCalled
        BY NewStreamIs DEF IsOpen
    <2>3. HoldsRest(w, NewStream(w), 0, 0)
        <3>1. IsRun(<<>>, w, 0)
            BY NothingIs DEF IsRun
        <3>2. 0 <= BuffLen - HeaderLen /\ 0 = 0 - 0
            BY Lengths
        <3>. QED
            BY <3>1, <3>2, NewStreamIs, NothingIs DEF HoldsRest
    <2>. QED
        BY <1>1, <2>1, <2>2, <2>3 DEF InStep, OpenAt, Left
<1>4. Left(NewStreams["out"]) = 1 /\ Left(NewStreams["err"]) = 1 /\ 2 = 1 + 1 /\ 2 > 0
    BY <1>3 DEF Writer
<1>. QED
    BY <1>1, <1>2, <1>3, <1>4 DEF Agrees

(* A request on a new connection, or on the same one after the one before. *)
LEMMA AcceptNewKeeps == ASSUME Inv, AcceptNew PROVE Inv'
<1>1. /\ at = "accept" /\ at' = "app" /\ s' = s /\ put' = put /\ server' = NewServer
      /\ c' = [c EXCEPT !.nWriters = 2, !.open = TRUE]
      /\ asked' = [status |-> -1, lost |-> FALSE, cleared |-> FALSE, failed |-> FALSE]
    BY DEF AcceptNew, NewRequest
<1>2. PICK keep : request' = [no |-> request.no + 1, fd |-> TRUE, keep |-> keep, live |-> TRUE]
    BY DEF AcceptNew, NewRequest
<1>3. Shape /\ Place
    BY DEF Inv
<1>4. IsRequest(request') /\ request'.fd /\ request'.live
    BY <1>2 DEF IsRequest
<1>5. IsConnection(c') /\ c'.sent = c.sent /\ c'.appStatus = c.appStatus /\ c'.nWriters = 2
    BY <1>1, <1>3 DEF Shape, IsConnection
<1>6. IsAsked(asked') /\ ~InTime(asked') /\ ~asked'.failed
    BY <1>1 DEF IsAsked, InTime
<1>7. s = NewStreams /\ put = NothingPut
    BY <1>1, <1>3 DEF Place
<1>8. Shape'
    BY <1>1, <1>3, <1>4, <1>5, <1>6 DEF Shape
<1>9. Place'
    BY <1>1, <1>4 DEF Place
<1>10. Exact'
    BY <1>1, <1>5, <1>7, NewAgrees DEF Exact
<1>11. Noticed' /\ Between'
    BY <1>4, <1>6 DEF Noticed, Between
<1>. QED
    BY <1>8, <1>9, <1>10, <1>11 DEF Inv

LEMMA AcceptKeptKeeps == ASSUME Inv, AcceptKept PROVE Inv'
<1>1. /\ at = "accept" /\ at' = "app" /\ c.open /\ s' = s /\ put' = put
      /\ server' = IF Boundary(server) THEN NewServer ELSE [server EXCEPT !.ended = -1]
      /\ c' = [c EXCEPT !.nWriters = 2]
      /\ asked' = [asked EXCEPT !.status = -1, !.lost = FALSE]
    BY DEF AcceptKept, NewRequest
<1>2. PICK keep : request' = [no |-> request.no + 1, fd |-> TRUE, keep |-> keep, live |-> TRUE]
    BY DEF AcceptKept, NewRequest
<1>3. Shape /\ Place
    BY DEF Inv
<1>4. IsRequest(request') /\ request'.fd /\ request'.live
    BY <1>2 DEF IsRequest
<1>5. IsConnection(c') /\ c'.sent = c.sent /\ c'.appStatus = c.appStatus /\ c'.nWriters = 2
    BY <1>1, <1>3 DEF Shape, IsConnection
<1>6. /\ IsAsked(asked') /\ ~InTime(asked') /\ asked'.failed = asked.failed
      /\ asked'.cleared = asked.cleared
    BY <1>1, <1>3 DEF Shape, IsAsked, InTime
<1>7. s = NewStreams /\ put = NothingPut /\ ~request.live
    BY <1>1, <1>3 DEF Place
<1>8. IF asked.failed THEN asked.cleared ELSE Boundary(server)
    BY <1>1, <1>7 DEF Inv, Between
<1>9. Shape'
    BY <1>1, <1>3, <1>4, <1>5, <1>6 DEF Shape
<1>10. Place'
    BY <1>1, <1>4 DEF Place
<1>11. Exact'
    BY <1>1, <1>5, <1>6, <1>7, <1>8, NewAgrees DEF Exact
<1>12. Noticed' /\ Between'
    BY <1>4, <1>6, <1>8 DEF Noticed, Between
<1>. QED
    BY <1>9, <1>10, <1>11, <1>12 DEF Inv

(* Or no request, and the web server leaving. *)
LEMMA GoneKeeps == ASSUME Inv, AcceptGone PROVE Inv'
<1>1. /\ ~c.open /\ request' = [request EXCEPT !.fd = FALSE]
      /\ UNCHANGED <<at, s, c, close, server, put, asked>>
    BY DEF AcceptGone
<1>2. Shape /\ Place
    BY DEF Inv
<1>3. IsRequest(request') /\ request'.live = request.live
    BY <1>1, <1>2 DEF Shape, IsRequest
<1>4. Shape'
    BY <1>1, <1>2, <1>3 DEF Shape
<1>5. Place'
    BY <1>1, <1>2, <1>3 DEF Place
<1>6. Exact' /\ Noticed' /\ Between'
    BY <1>1 DEF Exact, Noticed, Between
<1>. QED
    BY <1>4, <1>5, <1>6 DEF Inv

LEMMA LeaveKeeps == ASSUME Inv, Leave PROVE Inv'
<1>1. /\ c' = [c EXCEPT !.open = FALSE] /\ UNCHANGED <<at, request, s, close, put, asked>>
    BY DEF Leave
<1>2. Shape /\ Place
    BY DEF Inv
<1>3. /\ IsConnection(c') /\ c'.sent = c.sent /\ c'.appStatus = c.appStatus /\ ~c'.open
    BY <1>1, <1>2 DEF Shape, IsConnection
<1>4. Shape'
    BY <1>1, <1>2, <1>3 DEF Shape
<1>5. Place'
    BY <1>1, <1>2, <1>3 DEF Place
<1>6. Exact' /\ Noticed' /\ Between'
    BY <1>3 DEF Exact, Noticed, Between
<1>. QED
    BY <1>4, <1>5, <1>6 DEF Inv

LEMMA SignalKeeps == ASSUME Inv, Sigusr1 PROVE Inv'
<1>1. /\ c' = [c EXCEPT !.signals = c.signals - 1]
      /\ UNCHANGED <<at, request, s, close, server, put, asked>>
    BY DEF Sigusr1
<1>2. Shape /\ Place
    BY DEF Inv
<1>3. /\ IsConnection(c') /\ c'.sent = c.sent /\ c'.appStatus = c.appStatus /\ c'.open = c.open
      /\ c'.nWriters = c.nWriters
    BY <1>1, <1>2 DEF Shape, IsConnection
<1>4. Shape'
    BY <1>1, <1>2, <1>3 DEF Shape
<1>5. Place'
    BY <1>1, <1>2, <1>3 DEF Place
<1>6. Exact'
    BY <1>1, <1>3 DEF Inv, Exact
<1>7. Noticed' /\ Between'
    BY <1>1, <1>3 DEF Inv, Noticed, Between, Boundary
<1>. QED
    BY <1>4, <1>5, <1>6, <1>7 DEF Inv

LEMMA InitInv == Init => Inv
<1>. SUFFICES ASSUME Init PROVE Inv
    OBVIOUS
<1>1. IsConnection(c) /\ c.sent = <<>> /\ ~c.open /\ c.appStatus = 0
    BY DEF Init, IsConnection
<1>2. IsAsked(asked) /\ ~InTime(asked) /\ IsRequest(request) /\ ~request.live
    BY DEF Init, IsAsked, InTime, IsRequest
<1>3. s = NewStreams /\ put = NothingPut /\ at = "app"
    BY DEF Init
<1>4. Shape
    BY <1>1, <1>2, <1>3, NewStreamIs DEF Shape, NewStreams
<1>5. Place
    BY <1>1, <1>2, <1>3 DEF Place
<1>6. Exact /\ Noticed /\ Between
    BY <1>1 DEF Exact, Noticed, Between
<1>. QED
    BY <1>4, <1>5, <1>6 DEF Inv

LEMMA NextKeepsInv == Inv /\ [Next]_vars => Inv'
<1>. SUFFICES ASSUME Inv, [Next]_vars PROVE Inv'
    OBVIOUS
<1>1. CASE FCGI_Accept \/ FCGI_Finish \/ AcceptFails
    <2>1. UNCHANGED <<request, s, c, server, put, asked>>
        BY <1>1 DEF FCGI_Accept, FCGI_Finish, AcceptFails, StreamVars
    <2>2. at' \notin {"accept", "err", "out", "free"}
        BY <1>1 DEF FCGI_Accept, FCGI_Finish, AcceptFails
    <2>. QED
        BY <2>1, <2>2, Elsewhere
<1>2. CASE FinishStart
    BY <1>2, FinishStartKeeps
<1>3. CASE FinishStreams
    BY <1>3, FinishCloseKeeps DEF FinishStreams
<1>4. CASE FCGX_Free
    BY <1>4, FreeKeeps
<1>5. CASE AcceptNew
    BY <1>5, AcceptNewKeeps
<1>6. CASE AcceptKept
    BY <1>6, AcceptKeptKeeps
<1>7. CASE AcceptGone
    BY <1>7, GoneKeeps
<1>8. ASSUME NEW f \in File, NEW w \in Writer, Puts(f, w) \/ FCGI_fprintf(f, w) \/ FCGI_fflush(f, w)
      PROVE  Inv'
    <2>1. CASE Puts(f, w)
        BY <2>1, PutsKeep
    <2>2. CASE FCGI_fprintf(f, w)
        <3>1. Pieces(f, w, TRUE)
            BY <2>2 DEF FCGI_fprintf
        <3>. QED
            BY <3>1, PiecesKeep
    <2>3. CASE FCGI_fflush(f, w)
        BY <2>3, FlushKeepsInv
    <2>. QED
        BY <1>8, <2>1, <2>2, <2>3
<1>9. ASSUME NEW f \in File, FCGI_fclose(f) \/ FCGI_freopen(f) \/ FCGI_clearerr(f)
      PROVE  Inv'
    BY <1>9, CloseFileKeeps, ClearKeeps
<1>10. CASE FCGI_perror
    <2>1. Pieces("stderr", "err", FALSE) /\ "err" \in Writer
        BY <1>10 DEF FCGI_perror, Writer
    <2>. QED
        BY <2>1, PiecesKeep
<1>11. CASE InputFails
    BY <1>11, Elsewhere DEF InputFails, Control, Fixed
<1>12. CASE FCGI_SetExitStatus
    BY <1>12, StatusKeeps
<1>13. CASE Leave
    BY <1>13, LeaveKeeps
<1>14. CASE Sigusr1
    BY <1>14, SignalKeeps
<1>15. CASE UNCHANGED vars
    BY <1>15, Elsewhere DEF vars
<1>. QED
    BY <1>1, <1>2, <1>3, <1>4, <1>5, <1>6, <1>7, <1>8, <1>9, <1>10, <1>11, <1>12, <1>13, <1>14,
       <1>15
       DEF Next, Library, App

LEMMA InvIsInvariant == Spec => []Inv
<1>. QED
    BY InitInv, NextKeepsInv, PTL DEF Spec
-----------------------------------------------------------------------------
(* What the web server makes of a request whose answer has ended. *)
LEMMA AllClosed ==
    ASSUME Inv, Undisturbed, request.live, server.ended # -1
    PROVE  \A w \in Writer : ClosedAt(w, s[w], server, put[w])
<1>1. Agrees(s, c.nWriters, server, put)
    BY AgreesIs DEF Undisturbed
<1>2. ASSUME NEW w \in Writer PROVE ClosedAt(w, s[w], server, put[w])
    <2>1. OpenAt(w, s[w], server, put[w]) => server.ended = -1
        BY <1>1, OpenLeft
    <2>. QED
        BY <1>1, <2>1, EitherWay
<1>. QED
    BY <1>2

(* FcgiStdio: however output is divided into writes, flushes and closes of *)
(* the two streams, the web server finds a record wherever one starts, the *)
(* bytes of each stream in order, and at the end all of them.              *)
THEOREM OutputOfStdioArrives == Spec => []OutputArrives
<1>1. Inv => OutputArrives
    <2>. SUFFICES ASSUME Inv, Undisturbed, request.live
                  PROVE  /\ Boundary(server)
                         /\ \A w \in Writer : server.next[w] <= put[w]
                         /\ (server.ended # -1 => /\ server.next = put
                                                  /\ "out" \in server.eof
                                                  /\ (put["err"] > 0 => "err" \in server.eof))
        BY DEF OutputArrives
    <2>1. Agrees(s, c.nWriters, server, put)
        BY AgreesIs DEF Undisturbed
    <2>2. Server(server) /\ put \in [Writer -> Nat]
        BY <2>1 DEF Agrees
    <2>3. Boundary(server)
        BY <2>2 DEF Server, Resting, Past, IsServer, Boundary
    <2>4. ASSUME NEW w \in Writer PROVE server.next[w] <= put[w]
        <3>. DEFINE m == server.next[w]
                    n == put[w]
        <3>1. m \in Nat /\ n \in Nat
            BY <2>2 DEF Server
        <3>2. CASE OpenAt(w, s[w], server, put[w])
            <4>1. PICK held : IsRun(held, w, m) /\ Len(held) = n - m
                BY <3>2 DEF OpenAt, HoldsRest
            <4>2. Len(held) \in Nat
                BY <4>1 DEF IsRun, IsSeq
            <4>. QED
                BY <3>1, <4>1, <4>2
        <3>3. CASE ClosedAt(w, s[w], server, put[w])
            BY <3>1, <3>3 DEF ClosedAt
        <3>. QED
            BY <2>1, <3>2, <3>3, EitherWay
    <2>5. ASSUME server.ended # -1
          PROVE  /\ server.next = put
                 /\ "out" \in server.eof
                 /\ (put["err"] > 0 => "err" \in server.eof)
        <3>1. \A w \in Writer : ClosedAt(w, s[w], server, put[w])
            BY <2>5, AllClosed
        <3>2. \A w \in Writer : server.next[w] = put[w]
            BY <3>1 DEF ClosedAt
        <3>3. server.next = put
            BY <2>2, <3>2 DEF Server
        <3>4. "out" \in server.eof
            BY <3>1 DEF ClosedAt, Writer
        <3>5. ClosedAt("err", s["err"], server, put["err"]) /\ put["err"] \in Nat
            BY <2>2, <3>1 DEF Writer
        <3>6. put["err"] > 0 => "err" \in server.eof
            BY <3>5 DEF ClosedAt
        <3>. QED
            BY <3>3, <3>4, <3>6
    <2>. QED
        BY <2>3, <2>4, <2>5
<1>. QED
    BY <1>1, InvIsInvariant, PTL

(* FcgiStdio: a request that FCGX_Finish_r has closed has ended for the    *)
(* web server, and with the status that its last FCGI_SetExitStatus gave   *)
(* it, if that call was in time: no other request's, and none before it.   *)
THEOREM RequestEndsWithStatus == Spec => []EndsWithStatus
<1>1. Inv => EndsWithStatus
    <2>. SUFFICES ASSUME Inv, at = "free", request.live, c.open, ~asked.failed
                  PROVE  server.ended # -1 /\ (InTime(asked) => server.ended = asked.status)
        BY DEF EndsWithStatus, Undisturbed
    <2>1. c.nWriters = 0 /\ (InTime(asked) => server.ended = asked.status)
        BY DEF Inv, Exact
    <2>2. ~(server.ended = -1)
        BY <2>1, AgreesIs DEF Agrees
    <2>. QED
        BY <2>1, <2>2
<1>. QED
    BY <1>1, InvIsInvariant, PTL

(* FcgiStdio: FCGX_Finish_r keeps a connection only if the answer on it is *)
(* complete, since every failed write is an error of a stream it closes,   *)
(* unless the application has cleared one.                                 *)
THEOREM ConnectionsAreKeptInStep == Spec => KeptInStep
<1>1. Inv /\ [Next]_vars =>
          [AcceptKept => (Boundary(server) /\ server.ended # -1) \/ asked.cleared]_vars
    BY DEF Inv, Place, Between, AcceptKept
<1>. QED
    BY <1>1, InvIsInvariant, PTL DEF Spec, KeptInStep
==============================================================================
