---------------------------- MODULE CgiFcgiProofs ----------------------------
(***************************************************************************)
(* Proofs about the bridge: the application gets whole records, with its   *)
(* input in order, and the web server gets the application's output, in    *)
(* order, however the socket cuts the one, and wherever it cuts content    *)
(* and padding of the other.                                               *)
(***************************************************************************)
EXTENDS CgiFcgi, SequenceLemmas

-----------------------------------------------------------------------------
(* Records and their bytes. *)

Octets(R) == R \X Nat

(* Records whose lengths are numbers. *)
Sized(R) == \A r \in R : r.len \in Nat /\ r.pad \in Nat

Size(r) == HeaderLen + r.len + r.pad

LEMMA Lengths == HeaderLen \in Nat \ {0} /\ BodyLen \in Nat \ {0} /\ BuffLen \in Nat
                 /\ BuffLen > HeaderLen
BY FcgiRecordAssumption, CgiFcgiAssumption

LEMMA BytesType ==
    ASSUME NEW R, Sized(R), NEW r \in R
    PROVE  /\ r.len \in Nat /\ r.pad \in Nat /\ Size(r) \in Nat \ {0} /\ HeaderLen <= Size(r)
           /\ Bytes(r) \in Seq(Octets(R)) /\ Len(Bytes(r)) = Size(r)
           /\ \A k \in 1 .. Size(r) : Bytes(r)[k] = <<r, k>>
<1>1. r.len \in Nat /\ r.pad \in Nat
    BY DEF Sized
<1>2. Size(r) \in Nat \ {0} /\ HeaderLen <= Size(r)
    BY <1>1, Lengths DEF Size
<1>3. Bytes(r) = [k \in 1 .. Size(r) |-> <<r, k>>]
    BY DEF Bytes, Size
<1>4. Bytes(r) \in [1 .. Size(r) -> Octets(R)]
    <2>1. \A k \in 1 .. Size(r) : <<r, k>> \in Octets(R)
        BY <1>2 DEF Octets
    <2>. QED
        BY <1>3, <2>1
<1>5. Bytes(r) \in Seq(Octets(R)) /\ Len(Bytes(r)) = Size(r)
    BY <1>2, <1>4, FunctionIsSeq
<1>6. \A k \in 1 .. Size(r) : Bytes(r)[k] = <<r, k>>
    BY <1>3
<1>. QED
    BY <1>1, <1>2, <1>5, <1>6

LEMMA ContentType ==
    ASSUME NEW R, Sized(R), NEW r \in R
    PROVE  /\ ContentBytes(r) \in Seq(Octets(R)) /\ Len(ContentBytes(r)) = r.len
           /\ \A k \in 1 .. r.len : ContentBytes(r)[k] = <<r, HeaderLen + k>>
<1>1. r.len \in Nat
    BY DEF Sized
<1>2. ContentBytes(r) \in [1 .. r.len -> Octets(R)]
    <2>1. \A k \in 1 .. r.len : <<r, HeaderLen + k>> \in Octets(R)
        BY <1>1, Lengths DEF Octets
    <2>. QED
        BY <2>1 DEF ContentBytes
<1>3. ContentBytes(r) \in Seq(Octets(R)) /\ Len(ContentBytes(r)) = r.len
    BY <1>1, <1>2, FunctionIsSeq
<1>4. \A k \in 1 .. r.len : ContentBytes(r)[k] = <<r, HeaderLen + k>>
    BY DEF ContentBytes
<1>. QED
    BY <1>3, <1>4

(* The content of a record stands behind its header. *)
LEMMA ContentPart ==
    ASSUME NEW R, Sized(R), NEW r \in R, NEW b \in 0 .. r.len, NEW a \in 0 .. b
    PROVE  Part(Bytes(r), HeaderLen + a, HeaderLen + b) = Part(ContentBytes(r), a, b)
<1>. DEFINE x == HeaderLen + a
            y == HeaderLen + b
            p == Part(Bytes(r), x, y)
            q == Part(ContentBytes(r), a, b)
<1>1. /\ r.len \in Nat /\ r.pad \in Nat /\ Bytes(r) \in Seq(Octets(R))
      /\ Len(Bytes(r)) = Size(r)
      /\ \A k \in 1 .. Size(r) : Bytes(r)[k] = <<r, k>>
    BY BytesType
<1>2. /\ ContentBytes(r) \in Seq(Octets(R)) /\ Len(ContentBytes(r)) = r.len
      /\ \A k \in 1 .. r.len : ContentBytes(r)[k] = <<r, HeaderLen + k>>
    BY ContentType
<1>3. /\ y \in 0 .. Len(Bytes(r)) /\ x \in 0 .. y /\ y - x = b - a
      /\ b \in 0 .. Len(ContentBytes(r)) /\ a \in 0 .. b
    BY <1>1, <1>2, Lengths DEF Size
<1>4. \A i \in 1 .. b - a :
         /\ x + i \in 1 .. Size(r) /\ a + i \in 1 .. r.len /\ x + i = HeaderLen + (a + i)
    BY <1>1, <1>3, Lengths DEF Size
<1>. HIDE DEF x, y
<1>5. p \in Seq(Octets(R)) /\ Len(p) = y - x /\ \A i \in 1 .. y - x : p[i] = Bytes(r)[x + i]
    BY <1>1, <1>3, PartType
<1>6. /\ q \in Seq(Octets(R)) /\ Len(q) = b - a
      /\ \A i \in 1 .. b - a : q[i] = ContentBytes(r)[a + i]
    BY <1>2, <1>3, PartType
<1>. HIDE DEF p, q
<1>7. Len(p) = Len(q) /\ \A i \in 1 .. Len(p) : p[i] = q[i]
    <2>1. Len(p) = b - a /\ Len(q) = b - a
        BY <1>3, <1>5, <1>6
    <2>2. ASSUME NEW i \in 1 .. b - a PROVE p[i] = q[i]
        <3>1. p[i] = <<r, x + i>>
            BY <1>1, <1>3, <1>4, <1>5
        <3>2. q[i] = <<r, HeaderLen + (a + i)>>
            BY <1>2, <1>4, <1>6
        <3>. QED
            BY <1>4, <3>1, <3>2
    <2>. QED
        BY <2>1, <2>2
<1>8. p = q
    BY <1>5, <1>6, <1>7, SeqEqual
<1>. QED
    BY <1>8 DEF p, q, x, y

(* A part that begins behind a first sequence is one of the second. *)
LEMMA PartOfSecond ==
    ASSUME NEW S, NEW s \in Seq(S), NEW t \in Seq(S), NEW b \in 0 .. Len(t), NEW a \in 0 .. b
    PROVE  Part(s \o t, Len(s) + a, Len(s) + b) = Part(t, a, b)
<1>. DEFINE l == Len(s)
            n == Len(s) + Len(t)
            all == s \o t
<1>1. l \in Nat /\ Len(t) \in Nat
    BY LenProperties
<1>2. all \in Seq(S) /\ Len(all) = n
    BY ConcatProperties
<1>3. Part(all, l, n) = t
    BY PartIsSecond
<1>4. n \in 0 .. Len(all) /\ l \in 0 .. n /\ b \in 0 .. n - l /\ a \in 0 .. b
    BY <1>1, <1>2
<1>. HIDE DEF l, n, all
<1>5. Part(Part(all, l, n), a, b) = Part(all, l + a, l + b)
    BY <1>2, <1>4, PartPart
<1>. QED
    BY <1>3, <1>5 DEF l, all

(* What comes out of concatenating the first sequences of a family. *)
First(f, k) == FlattenSeq([i \in 1 .. k |-> f[i]])

LEMMA FirstStep ==
    ASSUME NEW S, NEW n \in Nat, NEW f \in [1 .. n -> Seq(S)]
    PROVE  /\ First(f, 0) = <<>>
           /\ \A k \in 0 .. n : First(f, k) \in Seq(S) /\ Len(First(f, k)) \in Nat
           /\ \A k \in 1 .. n : First(f, k) = First(f, k - 1) \o f[k]
<1>. DEFINE upto(k) == [i \in 1 .. k |-> f[i]]
<1>1. ASSUME NEW k \in 0 .. n
      PROVE  /\ upto(k) \in Lists(S) /\ Len(upto(k)) = k
             /\ \A i \in 1 .. k : upto(k)[i] = f[i]
    <2>1. k \in Nat /\ upto(k) \in [1 .. k -> Seq(S)]
        OBVIOUS
    <2>2. \A i \in 1 .. k : upto(k)[i] = f[i]
        OBVIOUS
    <2>. HIDE DEF upto
    <2>. QED
        BY <2>1, <2>2, FunctionIsList
<1>2. \A k \in 0 .. n : First(f, k) = FlattenSeq(upto(k))
    BY DEF First
<1>. HIDE DEF upto
<1>3. 0 \in 0 .. n
    OBVIOUS
<1>4. upto(0) = <<>>
    BY <1>1, <1>3, ListEmpty
<1>5. \A k \in 0 .. n : First(f, k) \in Seq(S) /\ Len(First(f, k)) \in Nat
    BY <1>1, <1>2, ListType
<1>6. ASSUME NEW k \in 1 .. n PROVE First(f, k) = First(f, k - 1) \o f[k]
    <2>1. k \in 0 .. n /\ k - 1 \in 0 .. n /\ k = (k - 1) + 1
        OBVIOUS
    <2>2. \A i \in 1 .. k - 1 : i \in 1 .. k
        OBVIOUS
    <2>3. Len(upto(k)) = Len(upto(k - 1)) + 1
        BY <1>1, <2>1
    <2>4. \A i \in 1 .. Len(upto(k - 1)) : upto(k - 1)[i] = upto(k)[i]
        BY <1>1, <2>1, <2>2
    <2>5. upto(k) \in Lists(S) /\ upto(k - 1) \in Lists(S)
        BY <1>1, <2>1
    <2>6. FlattenSeq(upto(k)) = FlattenSeq(upto(k - 1)) \o upto(k)[Len(upto(k))]
        BY <2>3, <2>4, <2>5, ListLast
    <2>7. upto(k)[Len(upto(k))] = f[k]
        BY <1>1, <2>1
    <2>. QED
        BY <1>2, <2>1, <2>6, <2>7
<1>. QED
    BY <1>2, <1>3, <1>4, <1>5, <1>6, FlattenEmpty

(* b begins with a. *)
Begins(S, a, b) == \E u \in Seq(S) : b = a \o u

(* The first ones are the beginning of more. *)
LEMMA FirstGrows ==
    ASSUME NEW S, NEW n \in Nat, NEW f \in [1 .. n -> Seq(S)]
    PROVE  \A k \in 0 .. n : \A j \in 0 .. k : Begins(S, First(f, j), First(f, k))
<1>. SUFFICES ASSUME NEW k \in 0 .. n, NEW j \in 0 .. k
              PROVE  \E u \in Seq(S) : First(f, k) = First(f, j) \o u
    BY DEF Begins
<1>. DEFINE P == {d \in Nat : j + d \in 0 .. n =>
                                  \E u \in Seq(S) : First(f, j + d) = First(f, j) \o u}
<1>1. j \in 0 .. n /\ j \in Nat /\ j + 0 = j /\ k - j \in Nat /\ j + (k - j) = k
    OBVIOUS
<1>2. First(f, j) \in Seq(S)
    BY <1>1, FirstStep
<1>3. 0 \in P
    <2>1. <<>> \in Seq(S) /\ First(f, j) \o <<>> = First(f, j)
        BY <1>2, EmptySeq, ConcatEmptySeq
    <2>. QED
        BY <1>1, <2>1
<1>4. ASSUME NEW d \in Nat, d \in P PROVE d + 1 \in P
    <2>. SUFFICES ASSUME j + (d + 1) \in 0 .. n
                  PROVE  \E u \in Seq(S) : First(f, j + (d + 1)) = First(f, j) \o u
        OBVIOUS
    <2>. DEFINE m == j + (d + 1)
    <2>1. j + d \in 0 .. n /\ m \in 1 .. n /\ m - 1 = j + d
        BY <1>1
    <2>2. PICK u \in Seq(S) : First(f, j + d) = First(f, j) \o u
        BY <1>4, <2>1
    <2>. HIDE DEF m
    <2>3. First(f, m) = First(f, m - 1) \o f[m] /\ f[m] \in Seq(S)
        BY <2>1, FirstStep
    <2>4. (First(f, j) \o u) \o f[m] = First(f, j) \o (u \o f[m])
        <3>1. \A a, b, c \in Seq(S) : (a \o b) \o c = a \o (b \o c)
            <4>1. Associates(S)
                BY Associative
            <4>. QED
                BY <4>1 DEF Associates
        <3>. QED
            BY <1>2, <2>3, <3>1
    <2>5. u \o f[m] \in Seq(S)
        BY <2>3, ConcatProperties
    <2>6. First(f, m) = First(f, j) \o (u \o f[m])
        BY <2>1, <2>2, <2>3, <2>4
    <2>. QED
        BY <2>5, <2>6 DEF m
<1>5. k - j \in P
    <2>. HIDE DEF P
    <2>. QED
        BY <1>1, <1>3, <1>4, Induct
<1>. QED
    BY <1>1, <1>5

-----------------------------------------------------------------------------
(* The records that begin in a sequence of bytes. *)

StartsAt(all) == [k \in DOMAIN all |-> IF all[k][2] = 1 THEN <<all[k][1]>> ELSE <<>>]

Starts(all) == FlattenSeq(StartsAt(all))

LEMMA SentIs == Sent = Starts(toApp \o fromWS)
BY DEF Sent, Starts, StartsAt

LEMMA StartsAtType ==
    ASSUME NEW R, NEW all \in Seq(Octets(R))
    PROVE  /\ StartsAt(all) \in Lists(R) /\ Len(StartsAt(all)) = Len(all)
           /\ \A k \in 1 .. Len(all) :
                 StartsAt(all)[k] = IF all[k][2] = 1 THEN <<all[k][1]>> ELSE <<>>
<1>1. Len(all) \in Nat /\ DOMAIN all = 1 .. Len(all)
    BY LenProperties
<1>2. ASSUME NEW k \in 1 .. Len(all)
      PROVE  (IF all[k][2] = 1 THEN <<all[k][1]>> ELSE <<>>) \in Seq(R)
    <2>1. all[k] \in Octets(R)
        BY ElementOfSeq
    <2>2. all[k][1] \in R
        BY <2>1 DEF Octets
    <2>3. <<all[k][1]>> \in Seq(R)
        BY <2>2, PairIn
    <2>. QED
        BY <2>3, EmptySeq
<1>3. StartsAt(all) \in [1 .. Len(all) -> Seq(R)]
    BY <1>1, <1>2 DEF StartsAt
<1>4. \A k \in 1 .. Len(all) :
         StartsAt(all)[k] = IF all[k][2] = 1 THEN <<all[k][1]>> ELSE <<>>
    BY <1>1 DEF StartsAt
<1>. QED
    BY <1>1, <1>3, <1>4, FunctionIsList

LEMMA StartsType ==
    ASSUME NEW R, NEW all \in Seq(Octets(R))
    PROVE  Starts(all) \in Seq(R)
BY StartsAtType, ListType DEF Starts

LEMMA StartsConcat ==
    ASSUME NEW R, NEW a \in Seq(Octets(R)), NEW b \in Seq(Octets(R))
    PROVE  Starts(a \o b) = Starts(a) \o Starts(b)
<1>. DEFINE all == a \o b
            s == StartsAt(all)
            t == StartsAt(a) \o StartsAt(b)
<1>1. /\ Len(a) \in Nat /\ Len(b) \in Nat
      /\ all \in Seq(Octets(R)) /\ Len(all) = Len(a) + Len(b)
      /\ \A k \in 1 .. Len(a) : all[k] = a[k]
      /\ \A k \in 1 .. Len(b) : all[Len(a) + k] = b[k]
    <2>1. Len(a) \in Nat /\ Len(b) \in Nat /\ all \in Seq(Octets(R))
          /\ Len(all) = Len(a) + Len(b)
        BY LenProperties, ConcatProperties
    <2>2. \A k \in 1 .. Len(a) + Len(b) :
             all[k] = IF k <= Len(a) THEN a[k] ELSE b[k - Len(a)]
        BY ConcatProperties
    <2>3. \A k \in 1 .. Len(a) : k \in 1 .. Len(a) + Len(b) /\ k <= Len(a)
        BY <2>1
    <2>4. \A k \in 1 .. Len(b) : /\ Len(a) + k \in 1 .. Len(a) + Len(b) /\ ~(Len(a) + k <= Len(a))
                                 /\ (Len(a) + k) - Len(a) = k
        BY <2>1
    <2>. HIDE DEF all
    <2>. QED
        BY <2>1, <2>2, <2>3, <2>4
<1>. HIDE DEF all
<1>2. /\ s \in Lists(R) /\ Len(s) = Len(a) + Len(b)
      /\ \A k \in 1 .. Len(a) + Len(b) :
            s[k] = IF all[k][2] = 1 THEN <<all[k][1]>> ELSE <<>>
    BY <1>1, StartsAtType
<1>3. /\ StartsAt(a) \in Lists(R) /\ Len(StartsAt(a)) = Len(a)
      /\ \A k \in 1 .. Len(a) : StartsAt(a)[k] = IF a[k][2] = 1 THEN <<a[k][1]>> ELSE <<>>
    BY StartsAtType
<1>4. /\ StartsAt(b) \in Lists(R) /\ Len(StartsAt(b)) = Len(b)
      /\ \A k \in 1 .. Len(b) : StartsAt(b)[k] = IF b[k][2] = 1 THEN <<b[k][1]>> ELSE <<>>
    BY StartsAtType
<1>. HIDE DEF s
<1>5. /\ t \in Lists(R) /\ Len(t) = Len(a) + Len(b)
      /\ FlattenSeq(t) = FlattenSeq(StartsAt(a)) \o FlattenSeq(StartsAt(b))
    <2>1. StartsAt(a) \in Lists(R) /\ StartsAt(b) \in Lists(R)
        BY <1>3, <1>4
    <2>2. /\ t \in Lists(R) /\ Len(t) = Len(StartsAt(a)) + Len(StartsAt(b))
          /\ FlattenSeq(t) = FlattenSeq(StartsAt(a)) \o FlattenSeq(StartsAt(b))
        BY <2>1, ListConcat
    <2>3. Len(StartsAt(a)) = Len(a) /\ Len(StartsAt(b)) = Len(b)
        BY <1>3, <1>4
    <2>. HIDE DEF t
    <2>. QED
        BY <2>2, <2>3
<1>6. \A k \in 1 .. Len(a) + Len(b) :
         t[k] = IF k <= Len(a) THEN StartsAt(a)[k] ELSE StartsAt(b)[k - Len(a)]
    BY <1>3, <1>4, ConcatProperties DEF Lists
<1>. HIDE DEF t
<1>7. ASSUME NEW k \in 1 .. Len(a) + Len(b) PROVE s[k] = t[k]
    <2>1. CASE k <= Len(a)
        <3>1. k \in 1 .. Len(a)
            BY <1>1, <2>1
        <3>2. all[k] = a[k]
            BY <1>1, <3>1
        <3>3. t[k] = IF a[k][2] = 1 THEN <<a[k][1]>> ELSE <<>>
            BY <1>3, <1>6, <2>1, <3>1
        <3>4. s[k] = IF all[k][2] = 1 THEN <<all[k][1]>> ELSE <<>>
            BY <1>2
        <3>. QED
            BY <3>2, <3>3, <3>4
    <2>2. CASE ~(k <= Len(a))
        <3>1. k - Len(a) \in 1 .. Len(b) /\ Len(a) + (k - Len(a)) = k
            BY <1>1, <2>2
        <3>2. all[k] = b[k - Len(a)]
            BY <1>1, <3>1
        <3>. QED
            BY <1>2, <1>4, <1>6, <2>2, <3>1, <3>2
    <2>. QED
        BY <2>1, <2>2
<1>8. s = t
    BY <1>2, <1>5, <1>7, SeqEqual DEF Lists
<1>. QED
    BY <1>5, <1>8 DEF Starts, s, all

(* In the bytes of a record, that record. *)
LEMMA StartsOfBytes ==
    ASSUME NEW R, Sized(R), NEW r \in R
    PROVE  Starts(Bytes(r)) = <<r>>
<1>. DEFINE all == Bytes(r)
            n == Size(r)
            s == StartsAt(all)
            P == {d \in Nat : d + 1 \in 1 .. n => FlattenSeq(SubSeq(s, 1, d + 1)) = <<r>>}
<1>1. all \in Seq(Octets(R)) /\ Len(all) = n /\ \A k \in 1 .. n : all[k] = <<r, k>>
    BY BytesType
<1>2. n \in Nat \ {0}
    BY BytesType
<1>. HIDE DEF all, n
<1>3. s \in Lists(R) /\ Len(s) = n /\ \A k \in 1 .. n : s[k] = IF k = 1 THEN <<r>> ELSE <<>>
    BY <1>1, StartsAtType
<1>. HIDE DEF s
<1>4. 1 \in 1 .. n /\ <<r>> \in Seq(R) /\ 1 - 1 = 0
    BY <1>2, PairIn
<1>5. FlattenSeq(SubSeq(s, 1, 1)) = <<r>>
    <2>1. FlattenSeq(SubSeq(s, 1, 1)) = FlattenSeq(SubSeq(s, 1, 1 - 1)) \o s[1]
        BY <1>3, <1>4, ListNext
    <2>2. FlattenSeq(SubSeq(s, 1, 1 - 1)) = <<>>
        <3>1. SubSeq(s, 1, 1 - 1) = <<>>
            BY SubSeqEmpty
        <3>. QED
            BY <3>1, FlattenEmpty
    <2>3. <<>> \o <<r>> = <<r>>
        BY <1>4, ConcatEmptySeq
    <2>. QED
        BY <1>3, <1>4, <2>1, <2>2, <2>3
<1>6. 0 \in P
    BY <1>5
<1>7. ASSUME NEW d \in Nat, d \in P PROVE d + 1 \in P
    <2>. SUFFICES ASSUME (d + 1) + 1 \in 1 .. n
                  PROVE  FlattenSeq(SubSeq(s, 1, (d + 1) + 1)) = <<r>>
        OBVIOUS
    <2>. DEFINE k == (d + 1) + 1
    <2>1. k \in 1 .. n /\ k - 1 = d + 1 /\ d + 1 \in 1 .. n /\ k # 1
        BY <1>2
    <2>2. FlattenSeq(SubSeq(s, 1, d + 1)) = <<r>>
        BY <1>7, <2>1
    <2>. HIDE DEF k
    <2>3. FlattenSeq(SubSeq(s, 1, k)) = FlattenSeq(SubSeq(s, 1, k - 1)) \o s[k]
        BY <1>3, <2>1, ListNext
    <2>4. <<r>> \o <<>> = <<r>>
        BY <1>4, ConcatEmptySeq
    <2>5. s[k] = <<>>
        BY <1>3, <2>1
    <2>. QED
        BY <2>1, <2>2, <2>3, <2>4, <2>5 DEF k
<1>8. n - 1 \in Nat /\ (n - 1) + 1 = n /\ n \in 1 .. n
    BY <1>2
<1>9. n - 1 \in P
    <2>. HIDE DEF P
    <2>. QED
        BY <1>6, <1>7, <1>8, Induct
<1>10. FlattenSeq(SubSeq(s, 1, n)) = <<r>>
    BY <1>8, <1>9
<1>11. SubSeq(s, 1, n) = s
    BY <1>3, SubSeqFull DEF Lists
<1>. QED
    BY <1>10, <1>11 DEF Starts, s, all

-----------------------------------------------------------------------------
(* Records as bytes on the wire. *)

WireOf(records) == [i \in DOMAIN records |-> Bytes(records[i])]

LEMMA WireOfType ==
    ASSUME NEW R, Sized(R), NEW s \in Seq(R)
    PROVE  /\ WireOf(s) \in Lists(Octets(R)) /\ Len(WireOf(s)) = Len(s)
           /\ WireOf(s) \in [1 .. Len(s) -> Seq(Octets(R))]
           /\ \A k \in 1 .. Len(s) : WireOf(s)[k] = Bytes(s[k])
           /\ Wire(s) = FlattenSeq(WireOf(s)) /\ Wire(s) \in Seq(Octets(R))
<1>1. Len(s) \in Nat /\ DOMAIN s = 1 .. Len(s)
    BY LenProperties
<1>2. \A k \in 1 .. Len(s) : Bytes(s[k]) \in Seq(Octets(R))
    BY ElementOfSeq, BytesType
<1>3. WireOf(s) \in [1 .. Len(s) -> Seq(Octets(R))]
    BY <1>1, <1>2 DEF WireOf
<1>4. \A k \in 1 .. Len(s) : WireOf(s)[k] = Bytes(s[k])
    BY <1>1 DEF WireOf
<1>5. WireOf(s) \in Lists(Octets(R)) /\ Len(WireOf(s)) = Len(s)
    BY <1>1, <1>3, FunctionIsList
<1>6. Wire(s) = FlattenSeq(WireOf(s))
    BY DEF Wire, WireOf
<1>7. Wire(s) \in Seq(Octets(R))
    BY <1>5, <1>6, ListType
<1>. QED
    BY <1>3, <1>4, <1>5, <1>6, <1>7

LEMMA WireAppend ==
    ASSUME NEW R, Sized(R), NEW s \in Seq(R), NEW r \in R
    PROVE  Wire(Append(s, r)) = Wire(s) \o Bytes(r)
<1>. DEFINE t == Append(s, r)
<1>1. /\ t \in Seq(R) /\ Len(t) = Len(s) + 1
      /\ \A k \in 1 .. Len(s) : t[k] = s[k]
      /\ t[Len(s) + 1] = r
    BY AppendProperties
<1>2. Len(s) \in Nat
    BY LenProperties
<1>. HIDE DEF t
<1>3. /\ WireOf(s) \in Lists(Octets(R)) /\ Len(WireOf(s)) = Len(s)
      /\ \A k \in 1 .. Len(s) : WireOf(s)[k] = Bytes(s[k])
      /\ Wire(s) = FlattenSeq(WireOf(s))
    BY WireOfType
<1>4. /\ WireOf(t) \in Lists(Octets(R)) /\ Len(WireOf(t)) = Len(t)
      /\ \A k \in 1 .. Len(t) : WireOf(t)[k] = Bytes(t[k])
      /\ Wire(t) = FlattenSeq(WireOf(t))
    BY <1>1, WireOfType
<1>5. \A k \in 1 .. Len(s) : k \in 1 .. Len(t)
    BY <1>1, <1>2
<1>6. \A k \in 1 .. Len(WireOf(s)) : WireOf(s)[k] = WireOf(t)[k]
    BY <1>1, <1>3, <1>4, <1>5
<1>7. Len(WireOf(t)) = Len(WireOf(s)) + 1
    BY <1>1, <1>3, <1>4
<1>8. FlattenSeq(WireOf(t)) = FlattenSeq(WireOf(s)) \o WireOf(t)[Len(WireOf(t))]
    BY <1>3, <1>4, <1>6, <1>7, ListLast
<1>9. Len(t) \in 1 .. Len(t)
    BY <1>1, <1>2
<1>10. WireOf(t)[Len(WireOf(t))] = Bytes(r)
    BY <1>1, <1>4, <1>9
<1>. QED
    BY <1>3, <1>4, <1>8, <1>10 DEF t

(* A whole record behind whole records. *)
LEMMA OneMoreRecord ==
    ASSUME NEW R, Sized(R), NEW all \in Seq(Octets(R)), NEW r \in R, all = Wire(Starts(all))
    PROVE  /\ all \o Bytes(r) \in Seq(Octets(R))
           /\ Starts(all \o Bytes(r)) = Append(Starts(all), r)
           /\ all \o Bytes(r) = Wire(Starts(all \o Bytes(r)))
<1>1. Bytes(r) \in Seq(Octets(R))
    BY BytesType
<1>2. Starts(all) \in Seq(R)
    BY StartsType
<1>3. Starts(all \o Bytes(r)) = Starts(all) \o <<r>>
    <2>1. Starts(all \o Bytes(r)) = Starts(all) \o Starts(Bytes(r))
        BY <1>1, StartsConcat
    <2>2. Starts(Bytes(r)) = <<r>>
        BY StartsOfBytes
    <2>. QED
        BY <2>1, <2>2
<1>4. Starts(all) \o <<r>> = Append(Starts(all), r)
    BY <1>2, AppendIsConcat
<1>5. Wire(Append(Starts(all), r)) = Wire(Starts(all)) \o Bytes(r)
    BY <1>2, WireAppend
<1>. QED
    BY <1>1, <1>3, <1>4, <1>5, ConcatProperties

-----------------------------------------------------------------------------
(* What is sent to the application. *)

StdinFrames == [type : {"STDIN"}, id : Nat, len : Nat, pad : Nat, from : Nat]

Frames == [type : {"BEGIN_REQUEST", "PARAMS"}, id : Nat, len : Nat, pad : Nat] \cup StdinFrames

(* Pieces of the input in order, and nothing after an empty one. *)
Chain(s) ==
    /\ s \in Seq(StdinFrames)
    /\ \A i \in 1 .. Len(s) : s[i].len = 0 => i = Len(s)
    /\ \A i \in 1 .. Len(s) - 1 : s[i + 1].len > 0 => s[i + 1].from = s[i].from - s[i].len

(* Where the input goes on. *)
GoesOn(s) ==
    s # <<>> => IF s[Len(s)].len = 0 THEN bytesToRead <= 0 \/ webServerReadHandlerEOF
                ELSE input = s[Len(s)].from - s[Len(s)].len

(* When standard input may be posted to be read. *)
MayRead == fromWS = <<>> /\ bytesToRead > 0 /\ ~webServerReadHandlerEOF

Posted ==
    /\ ready \subseteq posted /\ posted \subseteq Events
    /\ "stdin" \in posted => MayRead
    /\ exit = "none" => ("write" \in posted <=> fromWS # <<>>)

Pieces ==
    /\ input \in Nat /\ bytesToRead \in Int /\ webServerReadHandlerEOF \in BOOLEAN
    /\ toApp \in Seq(Octets(Frames)) /\ fromWS \in Seq(Octets(Frames))
    /\ toApp \o fromWS = Wire(Sent)
    /\ toApp = <<>> => fromWS = <<>>
    /\ toApp # <<>> => \E s : Chain(s) /\ GoesOn(s) /\ Sent = Preamble \o s

InputInv ==
    /\ Pieces
    /\ Posted
    /\ exit \in Exits \cup {"starting", "none"}
    /\ exit = "starting" => toApp = <<>> /\ posted = {}
    /\ exit = "none" => toApp # <<>>
    /\ exit # "overrun" => Len(fromWS) <= BuffLen

LEMMA FramesSized == Sized(Frames) /\ Sized(StdinFrames) /\ StdinFrames \subseteq Frames
BY DEF Sized, Frames, StdinFrames

LEMMA PreambleType ==
    /\ Preamble \in Seq(Frames) /\ Len(Preamble) = 3
    /\ Preamble = Append(Append(Append(<<>>, Preamble[1]), Preamble[2]), Preamble[3])
    /\ Preamble[1] \in Frames /\ Preamble[2] \in Frames /\ Preamble[3] \in Frames
<1>. DEFINE a == MakeHeader("BEGIN_REQUEST", requestId, BodyLen, 0)
            b == MakeHeader("PARAMS", requestId, 1, 0)
            c == MakeHeader("PARAMS", requestId, 0, 0)
<1>1. a \in Frames /\ b \in Frames /\ c \in Frames
    BY Lengths DEF Frames, MakeHeader, requestId
<1>2. Preamble = <<a, b, c>>
    BY DEF Preamble
<1>. HIDE DEF a, b, c
<1>. QED
    BY <1>1, <1>2

LEMMA FrameTypes ==
    /\ \A n, from \in Nat : Stdin(n, from) \in StdinFrames /\ Stdin(n, from).len = n
                            /\ Stdin(n, from).from = from
    /\ EofRecord \in StdinFrames /\ EofRecord.len = 0
BY DEF StdinFrames, Stdin, EofRecord, requestId

(* The pieces of the input behind the request. *)
LEMMA StdinIs ==
    ASSUME NEW s \in Seq(Frames), Sent = Preamble \o s
    PROVE  Drop(Sent, Len(Preamble)) = s /\ IsPrefix(Preamble, Sent) /\ Sent # <<>>
<1>1. Preamble \in Seq(Frames) /\ Len(Preamble) = 3
    BY PreambleType
<1>2. Len(Sent) = Len(Preamble) + Len(s) /\ Sent \in Seq(Frames) /\ Len(s) \in Nat
    BY <1>1, ConcatProperties, LenProperties
<1>3. Part(Preamble \o s, Len(Preamble), Len(Preamble) + Len(s)) = s
    BY <1>1, PartIsSecond
<1>4. Drop(Sent, Len(Preamble)) = s
    BY <1>2, <1>3 DEF Drop, Part
<1>5. SubSeq(Sent, 1, Len(Preamble)) = SubSeq(Preamble, 1, Len(Preamble))
    <2>1. Len(Preamble) \in 0 .. Len(Preamble)
        BY <1>1
    <2>. QED
        BY <1>1, <2>1, TakeWithin
<1>6. Len(Preamble) <= Len(Sent) /\ Len(Sent) # 0
    BY <1>1, <1>2
<1>7. Sent # <<>>
    BY <1>6, EmptySeq
<1>. QED
    BY <1>4, <1>5, <1>6, <1>7 DEF IsPrefix

LEMMA InputIsWhole == InputInv => InputWhole
<1>. SUFFICES ASSUME InputInv PROVE InputWhole
    OBVIOUS
<1>. DEFINE stdin == Drop(Sent, Len(Preamble))
<1>1. toApp \o fromWS = Wire(Sent)
    BY DEF InputInv, Pieces
<1>2. CASE toApp = <<>>
    <2>1. fromWS = <<>>
        BY <1>2 DEF InputInv, Pieces
    <2>2. Sent = <<>>
        <3>1. <<>> \o <<>> = <<>> /\ <<>> \in Seq(Octets(Frames)) /\ Len(<<>>) = 0
            BY EmptySeq, ConcatEmptySeq
        <3>2. Starts(<<>>) = <<>>
            BY <3>1, StartsAtType, ListEmpty, FlattenEmpty DEF Starts
        <3>. QED
            BY <1>2, <2>1, <3>1, <3>2, SentIs
    <2>3. stdin = <<>>
        <3>1. Len(Preamble) + 1 = 4 /\ Len(<<>>) = 0
            BY PreambleType, EmptySeq
        <3>2. SubSeq(<<>>, 4, 0) = <<>>
            BY SubSeqEmpty
        <3>. QED
            BY <2>2, <3>1, <3>2 DEF Drop
    <2>4. DOMAIN stdin = {} /\ 1 .. Len(stdin) - 1 = {}
        <3>1. DOMAIN <<>> = {} /\ Len(<<>>) = 0
            BY EmptySeq
        <3>2. 1 .. 0 - 1 = {}
            OBVIOUS
        <3>. QED
            BY <2>3, <3>1, <3>2
    <2>. HIDE DEF stdin
    <2>. QED
        BY <1>1, <1>2, <2>4 DEF InputWhole, stdin
<1>3. CASE toApp # <<>>
    <2>1. PICK s : Chain(s) /\ GoesOn(s) /\ Sent = Preamble \o s
        BY <1>3 DEF InputInv, Pieces
    <2>2. s \in Seq(StdinFrames) /\ DOMAIN s = 1 .. Len(s)
        BY <2>1, LenProperties DEF Chain
    <2>3. s \in Seq(Frames)
        BY <2>2, FramesSized, SeqWiden
    <2>4. stdin = s /\ IsPrefix(Preamble, Sent)
        BY <2>1, <2>3, StdinIs
    <2>5. \A i \in 1 .. Len(s) : s[i].type = "STDIN"
        <3>. SUFFICES ASSUME NEW i \in 1 .. Len(s) PROVE s[i].type = "STDIN"
            OBVIOUS
        <3>1. s[i] \in StdinFrames
            BY <2>2, ElementOfSeq
        <3>. QED
            BY <3>1 DEF StdinFrames
    <2>. HIDE DEF stdin
    <2>. QED
        BY <1>1, <2>1, <2>2, <2>4, <2>5 DEF InputWhole, stdin, Chain
<1>. QED
    BY <1>2, <1>3

(* One more piece, with what it leaves of the input. *)
LEMMA ChainNext ==
    ASSUME NEW s, Chain(s), NEW r \in StdinFrames,
           s # <<>> => s[Len(s)].len > 0,
           s # <<>> /\ r.len > 0 => r.from = s[Len(s)].from - s[Len(s)].len
    PROVE  /\ Chain(Append(s, r)) /\ Append(s, r) # <<>>
           /\ Append(s, r)[Len(Append(s, r))] = r
<1>. DEFINE t == Append(s, r)
<1>1. s \in Seq(StdinFrames) /\ Len(s) \in Nat
    BY LenProperties DEF Chain
<1>2. /\ t \in Seq(StdinFrames) /\ Len(t) = Len(s) + 1
      /\ \A k \in 1 .. Len(s) : t[k] = s[k]
      /\ t[Len(s) + 1] = r
    BY <1>1, AppendProperties
<1>. HIDE DEF t
<1>3. \A k \in 1 .. Len(s) : s[k].len = 0 => k = Len(s)
    BY DEF Chain
<1>4. Len(s) # 0 => s # <<>>
    BY EmptySeq
<1>5. \A k \in 1 .. Len(t) : t[k].len = 0 => k = Len(t)
    <2>. SUFFICES ASSUME NEW k \in 1 .. Len(t), t[k].len = 0, k # Len(t) PROVE FALSE
        OBVIOUS
    <2>1. k \in 1 .. Len(s) /\ s[k].len = 0
        BY <1>1, <1>2
    <2>2. k = Len(s) /\ Len(s) # 0
        BY <1>1, <1>3, <2>1
    <2>. QED
        BY <1>4, <2>1, <2>2
<1>6. \A k \in 1 .. Len(t) - 1 : t[k + 1].len > 0 => t[k + 1].from = t[k].from - t[k].len
    <2>. SUFFICES ASSUME NEW k \in 1 .. Len(t) - 1, t[k + 1].len > 0
                  PROVE  t[k + 1].from = t[k].from - t[k].len
        OBVIOUS
    <2>1. k \in 1 .. Len(s) /\ t[k] = s[k] /\ Len(s) # 0
        BY <1>1, <1>2
    <2>2. CASE k = Len(s)
        BY <1>2, <1>4, <2>1, <2>2
    <2>3. CASE k # Len(s)
        <3>1. k \in 1 .. Len(s) - 1 /\ k + 1 \in 1 .. Len(s)
            BY <1>1, <2>1, <2>3
        <3>2. t[k + 1] = s[k + 1]
            BY <1>2, <3>1
        <3>. QED
            BY <2>1, <3>1, <3>2 DEF Chain
    <2>. QED
        BY <2>2, <2>3
<1>7. t # <<>>
    <2>1. Len(t) # 0
        BY <1>1, <1>2
    <2>. QED
        BY <2>1, EmptySeq
<1>. QED
    BY <1>2, <1>5, <1>6, <1>7 DEF Chain, t

-----------------------------------------------------------------------------
(* Every step keeps the invariant of the input. *)

LEMMA NothingOnTheWire == Wire(<<>>) = <<>>
<1>1. <<>> \in Seq(Frames) /\ Len(<<>>) = 0 /\ Sized(Frames)
    BY EmptySeq, FramesSized
<1>2. /\ WireOf(<<>>) \in Lists(Octets(Frames)) /\ Len(WireOf(<<>>)) = Len(<<>>)
      /\ Wire(<<>>) = FlattenSeq(WireOf(<<>>))
    BY <1>1, WireOfType
<1>3. WireOf(<<>>) = <<>>
    BY <1>1, <1>2, ListEmpty
<1>. QED
    BY <1>2, <1>3, FlattenEmpty

LEMMA InputInit == Init => InputInv
<1>. SUFFICES ASSUME Init PROVE InputInv
    OBVIOUS
<1>1. input \in Nat /\ bytesToRead \in Int
    BY CgiFcgiAssumption DEF Init
<1>2. toApp = <<>> /\ fromWS = <<>> /\ posted = {} /\ ready = {} /\ exit = "starting"
      /\ webServerReadHandlerEOF = FALSE
    BY DEF Init
<1>3. <<>> \in Seq(Octets(Frames)) /\ <<>> \o <<>> = <<>> /\ Len(<<>>) = 0 /\ <<>> \in Seq(Frames)
    BY EmptySeq, ConcatEmptySeq
<1>4. Sent = <<>>
    <2>1. Starts(<<>>) = <<>>
        BY <1>3, StartsAtType, ListEmpty, FlattenEmpty DEF Starts
    <2>. QED
        BY <1>2, <1>3, <2>1, SentIs
<1>5. Wire(<<>>) = <<>>
    BY NothingOnTheWire
<1>6. Pieces
    BY <1>1, <1>2, <1>3, <1>4, <1>5 DEF Pieces
<1>7. Posted
    BY <1>2 DEF Posted
<1>8. Len(fromWS) <= BuffLen
    BY <1>2, <1>3, Lengths
<1>. QED
    BY <1>2, <1>6, <1>7, <1>8 DEF InputInv

(* A step that does not touch the input. *)
LEMMA InputUntouched ==
    ASSUME InputInv, UNCHANGED <<input, stdinVars>>, Posted', exit \in {"starting", "none"},
           \/ exit' = exit /\ (exit = "starting" => posted' = posted)
           \/ exit' \in Exits
    PROVE  InputInv'
<1>1. /\ input' = input /\ bytesToRead' = bytesToRead /\ fromWS' = fromWS /\ toApp' = toApp
      /\ webServerReadHandlerEOF' = webServerReadHandlerEOF
    BY DEF stdinVars
<1>2. Sent' = Sent
    BY <1>1 DEF Sent
<1>3. \A s : GoesOn(s)' <=> GoesOn(s)
    BY <1>1 DEF GoesOn
<1>4. Pieces'
    BY <1>1, <1>2, <1>3 DEF InputInv, Pieces
<1>5. exit # "overrun" /\ "none" \notin Exits /\ "starting" \notin Exits
    BY DEF Exits
<1>. QED
    BY <1>1, <1>4, <1>5 DEF InputInv

LEMMA ExitKeepsInput ==
    ASSUME InputInv, exit \in {"starting", "none"}, NEW how \in Exits, Exit(how)
    PROVE  InputInv'
<1>1. /\ UNCHANGED <<input, stdinVars>> /\ exit' = how /\ posted' = posted /\ ready' = ready
    BY DEF Exit, outside
<1>2. Posted'
    BY <1>1 DEF InputInv, Posted, MayRead, stdinVars, Exits
<1>. QED
    BY <1>1, <1>2, InputUntouched

(* What ScheduleIo posts, when p was rightly posted before. *)
LEMMA Schedules ==
    ASSUME NEW p, p \subseteq Events, ScheduleIo(p), ready' \subseteq p,
           "stdin" \in p => MayRead', "write" \in p => fromWS' # <<>>
    PROVE  Posted'
BY DEF ScheduleIo, Posted, MayRead, Events

LEMMA ConnectKeepsInput == ASSUME InputInv, Connect PROVE InputInv'
<1>1. exit = "starting" /\ toApp = <<>> /\ fromWS = <<>> /\ posted = {} /\ ready = {}
    BY DEF Connect, InputInv, Pieces, Posted
<1>2. CASE Exit("errno")
    <2>1. "errno" \in Exits
        BY DEF Exits
    <2>. QED
        BY <1>1, <1>2, <2>1, ExitKeepsInput
<1>3. CASE /\ exit' = "none"
           /\ toApp' = Wire(Preamble)
           /\ fromWS' = (IF bytesToRead <= 0 THEN Bytes(EofRecord) ELSE <<>>)
           /\ UNCHANGED <<bytesToRead, webServerReadHandlerEOF>>
           /\ ScheduleIo({})
           /\ UNCHANGED <<outside, fromApp, recordVars, fromAS, ready>>
    <2>. DEFINE a == Preamble[1]
                b == Preamble[2]
                c == Preamble[3]
                w == Wire(Preamble)
    <2>1. /\ Preamble \in Seq(Frames) /\ Preamble = Append(Append(Append(<<>>, a), b), c)
          /\ a \in Frames /\ b \in Frames /\ c \in Frames /\ Preamble # <<>>
        <3>1. Len(Preamble) # 0
            BY PreambleType
        <3>. QED
            BY <3>1, PreambleType, EmptySeq
    <2>2. <<>> \in Seq(Octets(Frames)) /\ <<>> \in Seq(Frames) /\ Len(<<>>) = 0
        BY EmptySeq
    <2>3. Starts(<<>>) = <<>> /\ <<>> = Wire(<<>>)
        BY <2>2, NothingOnTheWire, StartsAtType, ListEmpty, FlattenEmpty DEF Starts
    <2>. HIDE DEF a, b, c
    <2>4. w \in Seq(Octets(Frames)) /\ Starts(w) = Preamble /\ w = Wire(Starts(w))
        <3>. DEFINE x == <<>> \o Bytes(a)
                    y == x \o Bytes(b)
                    z == y \o Bytes(c)
        <3>1. x \in Seq(Octets(Frames)) /\ Starts(x) = Append(<<>>, a) /\ x = Wire(Starts(x))
            <4>1. <<>> = Wire(Starts(<<>>))
                BY <2>3
            <4>. QED
                BY <2>1, <2>2, <2>3, <4>1, FramesSized, OneMoreRecord
        <3>. HIDE DEF x
        <3>2. /\ y \in Seq(Octets(Frames)) /\ Starts(y) = Append(Append(<<>>, a), b)
              /\ y = Wire(Starts(y))
            BY <2>1, <3>1, FramesSized, OneMoreRecord
        <3>. HIDE DEF y
        <3>3. /\ z \in Seq(Octets(Frames)) /\ Starts(z) = Append(Append(Append(<<>>, a), b), c)
              /\ z = Wire(Starts(z))
            BY <2>1, <3>2, FramesSized, OneMoreRecord
        <3>. HIDE DEF z
        <3>4. Starts(z) = Preamble /\ z = w
            BY <2>1, <3>3
        <3>. QED
            BY <3>3, <3>4
    <2>5. w # <<>>
        BY <2>1, <2>3, <2>4
    <2>6. EofRecord \in StdinFrames /\ EofRecord \in Frames /\ EofRecord.len = 0
        BY FrameTypes, FramesSized
    <2>7. toApp' = w /\ input' = input /\ ready' = {}
        BY <1>1, <1>3 DEF outside
    <2>. HIDE DEF w
    <2>8. Pieces' /\ (exit # "overrun" => TRUE) /\ Len(fromWS') <= BuffLen
        <3>1. CASE bytesToRead <= 0
            <4>. DEFINE e == Bytes(EofRecord)
                        s == Append(<<>>, EofRecord)
            <4>1. fromWS' = e
                BY <1>3, <3>1
            <4>2. /\ w \o e \in Seq(Octets(Frames)) /\ Starts(w \o e) = Append(Preamble, EofRecord)
                  /\ w \o e = Wire(Starts(w \o e))
                BY <2>4, <2>6, FramesSized, OneMoreRecord
            <4>3. e \in Seq(Octets(Frames)) /\ Len(e) = HeaderLen
                <5>1. Len(e) = Size(EofRecord) /\ e \in Seq(Octets(Frames))
                    BY <2>6, FramesSized, BytesType
                <5>2. EofRecord.pad = 0
                    BY DEF EofRecord, Stdin
                <5>. QED
                    BY <2>6, <5>1, <5>2, Lengths DEF Size
            <4>4. Chain(s) /\ s # <<>> /\ s[Len(s)] = EofRecord
                <5>1. <<>> \in Seq(StdinFrames) /\ Len(<<>>) = 0 /\ 1 .. 0 = {} /\ 1 .. 0 - 1 = {}
                    BY EmptySeq
                <5>2. Chain(<<>>)
                    BY <5>1 DEF Chain
                <5>. QED
                    BY <2>6, <5>2, ChainNext
            <4>5. Append(Preamble, EofRecord) = Preamble \o s
                <5>1. Preamble \o Append(<<>>, EofRecord) = Append(Preamble \o <<>>, EofRecord)
                    BY <2>1, <2>2, <2>6, ConcatAppend
                <5>2. Preamble \o <<>> = Preamble
                    BY <2>1, ConcatEmptySeq
                <5>. QED
                    BY <5>1, <5>2
            <4>. HIDE DEF e, s
            <4>6. Sent' = Starts(w \o e)
                <5>1. Sent' = Starts(toApp' \o fromWS')
                    BY DEF Sent, Starts, StartsAt
                <5>. QED
                    BY <2>7, <4>1, <5>1
            <4>7. GoesOn(s)'
                BY <1>3, <2>6, <3>1, <4>4 DEF GoesOn
            <4>8. Len(fromWS') <= BuffLen
                BY <4>1, <4>3, Lengths
            <4>9. Sent' = Preamble \o s /\ toApp' \o fromWS' = Wire(Sent')
                BY <2>7, <4>1, <4>2, <4>5, <4>6
            <4>10. input' \in Nat /\ bytesToRead' \in Int /\ webServerReadHandlerEOF' \in BOOLEAN
                BY <1>3, <2>7 DEF InputInv, Pieces
            <4>. QED
                BY <2>4, <2>5, <2>7, <4>1, <4>3, <4>4, <4>7, <4>8, <4>9, <4>10 DEF Pieces
        <3>2. CASE ~(bytesToRead <= 0)
            <4>1. fromWS' = <<>>
                BY <1>3, <3>2
            <4>2. toApp' \o fromWS' = w
                BY <2>4, <2>7, <4>1, ConcatEmptySeq
            <4>3. Sent' = Preamble
                <5>1. Sent' = Starts(toApp' \o fromWS')
                    BY DEF Sent, Starts, StartsAt
                <5>. QED
                    BY <2>4, <4>2, <5>1
            <4>4. Chain(<<>>)
                <5>1. <<>> \in Seq(StdinFrames) /\ Len(<<>>) = 0 /\ 1 .. 0 = {} /\ 1 .. 0 - 1 = {}
                    BY EmptySeq
                <5>. QED
                    BY <5>1 DEF Chain
            <4>5. GoesOn(<<>>)'
                BY DEF GoesOn
            <4>6. Preamble \o <<>> = Preamble
                BY <2>1, ConcatEmptySeq
            <4>7. Len(fromWS') <= BuffLen
                BY <2>2, <4>1, Lengths
            <4>8. input' \in Nat /\ bytesToRead' \in Int /\ webServerReadHandlerEOF' \in BOOLEAN
                BY <1>3, <2>7 DEF InputInv, Pieces
            <4>. QED
                BY <2>2, <2>4, <2>5, <2>7, <4>1, <4>2, <4>3, <4>4, <4>5, <4>6, <4>7, <4>8 DEF Pieces
        <3>. QED
            BY <3>1, <3>2
    <2>9. Posted'
        <3>1. ScheduleIo({}) /\ {} \subseteq Events /\ ready' \subseteq {}
            BY <1>3, <2>7
        <3>. QED
            BY <3>1, Schedules
    <2>. QED
        BY <1>3, <2>5, <2>7, <2>8, <2>9 DEF InputInv
<1>. QED
    BY <1>2, <1>3 DEF Connect

LEMMA SentNext == Sent' = Starts(toApp' \o fromWS')
BY DEF Sent, Starts, StartsAt

LEMMA HandleInputKeeps ==
    ASSUME InputInv, Done("stdin"), NEW n \in Nat, n <= input, HandleInput(n)
    PROVE  InputInv'
<1>. DEFINE r == StdinRecord(n)
            R == Frames
            one == toApp \o Bytes(r)
            e == EofRecord
            two == one \o Bytes(e)
<1>1. MayRead /\ exit = "none" /\ toApp # <<>>
    BY DEF InputInv, Posted, Done, InDoIo
<1>2. PICK s : Chain(s) /\ GoesOn(s) /\ Sent = Preamble \o s
    BY <1>1 DEF InputInv, Pieces
<1>3. /\ input \in Nat /\ bytesToRead \in Int /\ fromWS = <<>> /\ bytesToRead > 0
      /\ ~webServerReadHandlerEOF /\ toApp \in Seq(Octets(R))
    BY <1>1 DEF MayRead, InputInv, Pieces
<1>4. /\ r \in StdinFrames /\ r \in R /\ r.len = n /\ r.from = input
      /\ e \in StdinFrames /\ e \in R /\ e.len = 0
    BY <1>3, FrameTypes, FramesSized DEF StdinRecord
<1>5. /\ input' = input - n /\ bytesToRead' = bytesToRead - n
      /\ webServerReadHandlerEOF' = (n = 0) /\ toApp' = toApp
      /\ fromWS' = Bytes(r) \o (IF bytesToRead' <= 0 THEN Bytes(e) ELSE <<>>)
      /\ exit' = IF Len(fromWS') > BuffLen THEN "overrun" ELSE exit
      /\ ScheduleIo(posted \ {"stdin"})
    BY DEF HandleInput
<1>6. Sized(R)
    BY FramesSized
<1>7. toApp = Wire(Starts(toApp)) /\ Starts(toApp) = Preamble \o s
    <2>1. toApp \o fromWS = toApp
        BY <1>3, ConcatEmptySeq
    <2>. QED
        BY <1>2, <2>1, SentIs DEF InputInv, Pieces
<1>8. s \in Seq(StdinFrames) /\ s \in Seq(R) /\ Len(s) \in Nat /\ Preamble \in Seq(R)
    BY <1>2, FramesSized, SeqWiden, LenProperties, PreambleType DEF Chain
<1>9. /\ Bytes(r) \in Seq(Octets(R)) /\ Len(Bytes(r)) # 0 /\ Len(Bytes(r)) \in Nat
      /\ Bytes(e) \in Seq(Octets(R)) /\ Len(Bytes(e)) \in Nat
    BY <1>4, <1>6, BytesType
<1>. HIDE DEF r, e, one, two, R
<1>10. /\ one \in Seq(Octets(R)) /\ Starts(one) = Preamble \o Append(s, r)
       /\ one = Wire(Starts(one))
    <2>1. /\ one \in Seq(Octets(R)) /\ Starts(one) = Append(Preamble \o s, r)
          /\ one = Wire(Starts(one))
        BY <1>3, <1>4, <1>6, <1>7, OneMoreRecord DEF one
    <2>2. Preamble \o Append(s, r) = Append(Preamble \o s, r)
        BY <1>4, <1>8, ConcatAppend
    <2>. QED
        BY <2>1, <2>2
<1>11. PICK u : u = Append(s, r)
    OBVIOUS
<1>12. Chain(u) /\ u # <<>> /\ u[Len(u)] = r
    <2>1. s # <<>> => s[Len(s)].len > 0 /\ input = s[Len(s)].from - s[Len(s)].len
        <3>. SUFFICES ASSUME s # <<>>
                      PROVE  s[Len(s)].len > 0 /\ input = s[Len(s)].from - s[Len(s)].len
            OBVIOUS
        <3>1. Len(s) \in 1 .. Len(s)
            BY <1>8, EmptySeq
        <3>2. s[Len(s)] \in StdinFrames
            BY <1>8, <3>1, ElementOfSeq
        <3>3. s[Len(s)].len \in Nat
            BY <3>2 DEF StdinFrames
        <3>4. s[Len(s)].len # 0 /\ input = s[Len(s)].from - s[Len(s)].len
            BY <1>2, <1>3 DEF GoesOn
        <3>. QED
            BY <3>3, <3>4
    <2>. QED
        BY <1>2, <1>4, <1>11, <2>1, ChainNext
<1>13. /\ Posted' /\ fromWS' # <<>> /\ fromWS' \in Seq(Octets(R))
       /\ \E t : Chain(t) /\ GoesOn(t)' /\ Sent' = Preamble \o t
       /\ toApp' \o fromWS' = Wire(Sent')
    <2>1. CASE bytesToRead' <= 0
        <3>0. PICK t : t = Append(u, e)
            OBVIOUS
        <3>1. n > 0
            BY <1>3, <1>5, <2>1
        <3>2. Chain(t) /\ t # <<>> /\ t[Len(t)] = e
            <4>1. u[Len(u)].len > 0 /\ ~(e.len > 0) /\ Chain(u)
                BY <1>4, <1>12, <3>1
            <4>. QED
                BY <1>4, <3>0, <4>1, ChainNext
        <3>3. GoesOn(t)'
            BY <1>4, <2>1, <3>2 DEF GoesOn
        <3>4. /\ two \in Seq(Octets(R)) /\ Starts(two) = Append(Starts(one), e)
              /\ two = Wire(Starts(two))
            BY <1>4, <1>6, <1>10, OneMoreRecord DEF two
        <3>5. Starts(two) = Preamble \o t
            <4>1. u \in Seq(R)
                BY <1>4, <1>8, <1>11, AppendProperties
            <4>2. Preamble \o Append(u, e) = Append(Preamble \o u, e)
                BY <1>4, <1>8, <4>1, ConcatAppend
            <4>. QED
                BY <1>10, <1>11, <3>0, <3>4, <4>2
        <3>6. fromWS' = Bytes(r) \o Bytes(e)
            BY <1>5, <2>1
        <3>7. toApp' \o fromWS' = two
            <4>1. \A x, y, z \in Seq(Octets(R)) : (x \o y) \o z = x \o (y \o z)
                <5>1. Associates(Octets(R))
                    BY Associative
                <5>. QED
                    BY <5>1 DEF Associates
            <4>2. toApp \in Seq(Octets(R)) /\ Bytes(r) \in Seq(Octets(R)) /\ Bytes(e) \in Seq(Octets(R))
                BY <1>3, <1>9
            <4>3. (toApp \o Bytes(r)) \o Bytes(e) = toApp \o (Bytes(r) \o Bytes(e))
                BY <4>1, <4>2
            <4>. QED
                BY <1>5, <3>6, <4>3 DEF two, one
        <3>8. /\ Bytes(r) \o Bytes(e) \in Seq(Octets(R))
              /\ Len(Bytes(r) \o Bytes(e)) = Len(Bytes(r)) + Len(Bytes(e))
            BY <1>9, ConcatProperties
        <3>9. fromWS' # <<>>
            <4>1. Len(fromWS') # 0
                BY <1>9, <3>6, <3>8
            <4>. QED
                BY <4>1, EmptySeq
        <3>10. Posted'
            <4>1. /\ posted \ {"stdin"} \subseteq Events /\ ready' \subseteq posted \ {"stdin"}
                BY DEF Done, InputInv, Posted
            <4>. QED
                BY <1>5, <3>9, <4>1, Schedules
        <3>. QED
            BY <3>2, <3>3, <3>4, <3>5, <3>6, <3>7, <3>8, <3>9, <3>10, SentNext
    <2>2. CASE ~(bytesToRead' <= 0)
        <3>1. fromWS' = Bytes(r)
            <4>1. fromWS' = Bytes(r) \o <<>>
                BY <1>5, <2>2
            <4>2. Bytes(r) \o <<>> = Bytes(r)
                BY <1>9, ConcatEmptySeq
            <4>. QED
                BY <4>1, <4>2
        <3>2. fromWS' # <<>>
            BY <1>9, <3>1, EmptySeq
        <3>3. toApp' \o fromWS' = one
            BY <1>5, <3>1 DEF one
        <3>4. GoesOn(u)'
            BY <1>4, <1>5, <1>12 DEF GoesOn
        <3>5. Posted'
            <4>1. /\ posted \ {"stdin"} \subseteq Events /\ ready' \subseteq posted \ {"stdin"}
                BY DEF Done, InputInv, Posted
            <4>. QED
                BY <1>5, <3>2, <4>1, Schedules
        <3>. QED
            BY <1>9, <1>10, <1>11, <1>12, <3>1, <3>2, <3>3, <3>4, <3>5, SentNext
    <2>. QED
        BY <2>1, <2>2
<1>14. Pieces'
    <2>1. input' \in Nat /\ bytesToRead' \in Int /\ webServerReadHandlerEOF' \in BOOLEAN
        BY <1>3, <1>5
    <2>. QED
        BY <1>1, <1>3, <1>5, <1>13, <2>1 DEF Pieces, R
<1>15. Len(fromWS') \in Nat
    BY <1>13, LenProperties
<1>16. exit' # "overrun" => Len(fromWS') <= BuffLen /\ exit' = "none"
    BY <1>1, <1>5, <1>15, Lengths
<1>. QED
    BY <1>1, <1>5, <1>13, <1>14, <1>16 DEF InputInv, Exits

LEMMA WriteKeepsInput ==
    ASSUME InputInv, Done("write"), NEW n \in 1 .. Len(fromWS),
           toApp' = toApp \o SubSeq(fromWS, 1, n), fromWS' = Written(n),
           UNCHANGED <<bytesToRead, webServerReadHandlerEOF, input, exit>>,
           ScheduleIo(posted \ {"write"})
    PROVE  InputInv'
<1>. DEFINE T == Octets(Frames)
            l == Len(fromWS)
            a == SubSeq(fromWS, 1, n)
            b == SubSeq(fromWS, n + 1, l)
<1>1. exit = "none" /\ fromWS # <<>> /\ toApp # <<>> /\ "stdin" \notin posted
    BY DEF InputInv, Posted, MayRead, Done, InDoIo
<1>2. /\ toApp \in Seq(T) /\ fromWS \in Seq(T) /\ toApp \o fromWS = Wire(Sent)
    BY DEF InputInv, Pieces
<1>3. l \in Nat /\ n \in Nat /\ n <= l /\ n > 0
    BY <1>2, LenProperties
<1>4. /\ a \in Seq(T) /\ Len(a) = n /\ b \in Seq(T) /\ Len(b) = l - n /\ a \o b = fromWS
    <2>1. n \in 0 .. l /\ l \in 0 .. Len(fromWS) /\ 0 \in 0 .. n /\ n \in 0 .. Len(fromWS)
        BY <1>3
    <2>2. /\ Part(fromWS, 0, n) \in Seq(T) /\ Len(Part(fromWS, 0, n)) = n - 0
          /\ Part(fromWS, n, l) \in Seq(T) /\ Len(Part(fromWS, n, l)) = l - n
        BY <1>2, <2>1, PartType
    <2>3. Part(fromWS, 0, n) \o Part(fromWS, n, l) = Part(fromWS, 0, l)
        BY <1>2, <2>1, PartConcat
    <2>4. Part(fromWS, 0, n) = a /\ Part(fromWS, n, l) = b /\ Part(fromWS, 0, l) = SubSeq(fromWS, 1, l)
        BY DEF Part
    <2>5. SubSeq(fromWS, 1, l) = fromWS
        BY <1>2, SubSeqFull
    <2>6. n - 0 = n
        BY <1>3
    <2>. HIDE DEF a, b, l, T
    <2>. QED
        BY <2>2, <2>3, <2>4, <2>5, <2>6
<1>5. toApp' = toApp \o a /\ fromWS' = b
    BY DEF Written, Drop
<1>. HIDE DEF a, b, l, T
<1>6. /\ toApp \o a \in Seq(T) /\ (toApp \o a) \o b = toApp \o fromWS
      /\ Len(toApp \o a) = Len(toApp) + Len(a) /\ Len(toApp) \in Nat
    <2>1. \A x, y, z \in Seq(T) : (x \o y) \o z = x \o (y \o z)
        <3>1. Associates(T)
            BY Associative
        <3>. QED
            BY <3>1 DEF Associates
    <2>2. (toApp \o a) \o b = toApp \o (a \o b)
        BY <1>2, <1>4, <2>1
    <2>3. toApp \o a \in Seq(T) /\ Len(toApp \o a) = Len(toApp) + Len(a)
        BY <1>2, <1>4, ConcatProperties
    <2>. QED
        BY <1>2, <1>4, <2>2, <2>3, LenProperties
<1>7. toApp' # <<>>
    <2>1. Len(toApp') # 0
        BY <1>3, <1>4, <1>5, <1>6
    <2>. QED
        BY <2>1, EmptySeq
<1>8. Sent' = Sent /\ toApp' \o fromWS' = Wire(Sent')
    <2>1. toApp' \o fromWS' = toApp \o fromWS
        BY <1>5, <1>6
    <2>2. Sent' = Sent
        BY <2>1, SentIs, SentNext
    <2>. QED
        BY <1>2, <2>1, <2>2
<1>9. \A s : GoesOn(s) => GoesOn(s)'
    BY DEF GoesOn
<1>10. Pieces'
    BY <1>1, <1>4, <1>5, <1>6, <1>7, <1>8, <1>9 DEF InputInv, Pieces, T
<1>11. Posted'
    <2>1. /\ posted \ {"write"} \subseteq Events /\ ready' \subseteq posted \ {"write"}
          /\ "stdin" \notin posted \ {"write"} /\ "write" \notin posted \ {"write"}
        BY <1>1 DEF Done, InputInv, Posted
    <2>. HIDE DEF Posted
    <2>. QED
        BY <2>1, Schedules
<1>12. Len(fromWS') <= BuffLen
    <2>1. l <= BuffLen
        BY <1>1 DEF InputInv, l
    <2>. QED
        BY <1>3, <1>4, <1>5, <2>1, Lengths
<1>. QED
    BY <1>1, <1>7, <1>10, <1>11, <1>12 DEF InputInv

(* The steps that take the answer apart post at most what was posted. *)
LEMMA RestKeepsInput ==
    ASSUME InputInv, InHandler, NEW n, Rest(n)
    PROVE  InputInv'
<1>1. /\ UNCHANGED <<input, stdinVars, exit, ready>> /\ exit = "none"
      /\ ScheduleIo(posted) \/ posted' = posted
    BY DEF Rest, outside, InHandler
<1>2. MayRead' = MayRead /\ fromWS' = fromWS
    BY <1>1 DEF MayRead, stdinVars
<1>3. Posted'
    <2>1. /\ posted \subseteq Events /\ ready' \subseteq posted
          /\ "stdin" \in posted => MayRead' /\ ("write" \in posted => fromWS' # <<>>)
        BY <1>1, <1>2 DEF InputInv, Posted
    <2>2. CASE ScheduleIo(posted)
        <3>1. "write" \in posted => fromWS' # <<>>
            BY <1>1, <1>2 DEF InputInv, Posted
        <3>. QED
            BY <2>1, <2>2, <3>1, Schedules
    <2>3. CASE posted' = posted
        BY <1>1, <1>2, <2>3 DEF InputInv, Posted
    <2>. QED
        BY <1>1, <2>2, <2>3
<1>. QED
    BY <1>1, <1>3, InputUntouched

LEMMA InputStep == InputInv /\ [Next]_vars => InputInv'
<1>. SUFFICES ASSUME InputInv, [Next]_vars PROVE InputInv'
    OBVIOUS
<1>1. CASE Connect
    BY <1>1, ConnectKeepsInput
<1>2. CASE Select
    <2>1. /\ UNCHANGED <<input, stdinVars, exit, posted>> /\ exit = "none"
          /\ ready' \subseteq posted
        BY <1>2 DEF Select, InDoIo, outside
    <2>2. Posted'
        BY <2>1 DEF InputInv, Posted, MayRead, stdinVars
    <2>. QED
        BY <2>1, <2>2, InputUntouched
<1>3. CASE WebServerReadHandler
    <2>1. CASE InDoIo /\ "stdin" \in ready /\ input = 0 /\ ws = "broken" /\ Exit("errno")
        <3>1. exit = "none" /\ "errno" \in Exits
            BY <2>1 DEF InDoIo, Exits
        <3>. QED
            BY <2>1, <3>1, ExitKeepsInput
    <2>2. CASE /\ Done("stdin")
               /\ \E n \in (IF input = 0 THEN {0} ELSE 1 .. Least(BuffLen - HeaderLen, input)) :
                     (n = 0 => ws = "closed") /\ HandleInput(n)
        <3>1. PICK n \in (IF input = 0 THEN {0} ELSE 1 .. Least(BuffLen - HeaderLen, input)) :
                 HandleInput(n)
            BY <2>2
        <3>2. input \in Nat
            BY DEF InputInv, Pieces
        <3>3. n \in Nat /\ n <= input
            BY <3>1, <3>2, Lengths DEF Least
        <3>. QED
            BY <2>2, <3>1, <3>3, HandleInputKeeps
    <2>. QED
        BY <1>3, <2>1, <2>2 DEF WebServerReadHandler
<1>4. CASE AppServerWriteHandler
    <2>1. CASE InDoIo /\ ready = {"write"} /\ app # "open" /\ Exit("errno")
        <3>1. exit = "none" /\ "errno" \in Exits
            BY <2>1 DEF InDoIo, Exits
        <3>. QED
            BY <2>1, <3>1, ExitKeepsInput
    <2>2. CASE ~(InDoIo /\ ready = {"write"} /\ app # "open" /\ Exit("errno"))
        <3>1. /\ Done("write")
              /\ \E n \in 1 .. Len(fromWS) :
                    toApp' = toApp \o SubSeq(fromWS, 1, n) /\ fromWS' = Written(n)
              /\ UNCHANGED <<bytesToRead, webServerReadHandlerEOF, input, exit>>
              /\ ScheduleIo(posted \ {"write"})
            BY <1>4, <2>2 DEF AppServerWriteHandler, outside
        <3>. QED
            BY <3>1, WriteKeepsInput
    <2>. QED
        BY <2>1, <2>2
<1>5. CASE ReadApp
    <2>1. CASE /\ Done("read") /\ posted' = posted \ {"read"}
               /\ UNCHANGED <<outside, stdinVars, recordVars, exit>>
        <3>1. UNCHANGED <<input, stdinVars, exit>> /\ exit = "none" /\ ready' = ready \ {"read"}
            BY <2>1 DEF Done, InDoIo, outside
        <3>2. Posted'
            BY <2>1, <3>1 DEF InputInv, Posted, MayRead, stdinVars
        <3>. QED
            BY <3>1, <3>2, InputUntouched
    <2>2. CASE InDoIo /\ Exit(IF app = "reset" THEN "errno" ELSE "protocol")
        <3>1. exit = "none" /\ (IF app = "reset" THEN "errno" ELSE "protocol") \in Exits
            BY <2>2 DEF InDoIo, Exits
        <3>. QED
            BY <2>2, <3>1, ExitKeepsInput
    <2>. QED
        BY <1>5, <2>1, <2>2 DEF ReadApp
<1>6. CASE ReadHeader
    <2>1. exit = "none" /\ InHandler
        BY <1>6 DEF ReadHeader, InHandler
    <2>2. \/ Exit("undefined") \/ Exit("protocol") \/ \E n : Rest(n)
        BY <1>6 DEF ReadHeader
    <2>3. "undefined" \in Exits /\ "protocol" \in Exits
        BY DEF Exits
    <2>. QED
        BY <2>1, <2>2, <2>3, ExitKeepsInput, RestKeepsInput
<1>7. CASE WriteOutput
    <2>1. InHandler /\ \E n : Rest(n)
        BY <1>7 DEF WriteOutput, InContent, Consume
    <2>. QED
        BY <2>1, RestKeepsInput
<1>8. CASE EndRequest
    <2>1. exit = "none" /\ InHandler
        BY <1>8 DEF EndRequest, InContent, InHandler
    <2>2. \/ Exit("undefined") \/ Exit("protocol") \/ \E n : Rest(n)
        BY <1>8 DEF EndRequest, Consume
    <2>3. "undefined" \in Exits /\ "protocol" \in Exits
        BY DEF Exits
    <2>. QED
        BY <2>1, <2>2, <2>3, ExitKeepsInput, RestKeepsInput
<1>9. CASE OtherRecord
    <2>1. exit = "none" /\ Exit("protocol") /\ "protocol" \in Exits
        BY <1>9 DEF OtherRecord, InHandler, Exits
    <2>. QED
        BY <2>1, ExitKeepsInput
<1>10. CASE ExitWithStatus
    <2>1. exit = "none" /\ Exit("status") /\ "status" \in Exits
        BY <1>10 DEF ExitWithStatus, InDoIo, Exits
    <2>. QED
        BY <2>1, ExitKeepsInput
<1>11. CASE Outside
    <2>1. /\ UNCHANGED <<input, stdinVars, posted, ready, exit>> /\ exit \in {"starting", "none"}
        BY <1>11 DEF Outside, WebServerSends, WebServerEnds, AppReads, AppAnswers, AppCloses
    <2>2. Posted'
        BY <2>1 DEF InputInv, Posted, MayRead, stdinVars
    <2>. QED
        BY <2>1, <2>2, InputUntouched
<1>12. CASE UNCHANGED vars
    <2>1. /\ input' = input /\ bytesToRead' = bytesToRead /\ fromWS' = fromWS /\ toApp' = toApp
          /\ webServerReadHandlerEOF' = webServerReadHandlerEOF
          /\ posted' = posted /\ ready' = ready /\ exit' = exit
        BY <1>12 DEF vars, outside, stdinVars
    <2>2. Sent' = Sent
        BY <2>1 DEF Sent
    <2>3. \A s : GoesOn(s)' <=> GoesOn(s)
        BY <2>1 DEF GoesOn
    <2>4. Pieces'
        BY <2>1, <2>2, <2>3 DEF InputInv, Pieces
    <2>5. Posted'
        BY <2>1 DEF InputInv, Posted, MayRead
    <2>. QED
        BY <2>1, <2>4, <2>5 DEF InputInv
<1>. QED
    BY <1>1, <1>2, <1>3, <1>4, <1>5, <1>6, <1>7, <1>8, <1>9, <1>10, <1>11, <1>12
       DEF Next, Bridge, AppServerReadHandler

(* The application gets whole records: the request, then its input piece   *)
(* by piece in order, then at most one empty record, in whatever pieces    *)
(* WebServerReadHandler reads it and AppServerWriteHandler writes it.      *)
THEOREM InputArrivesWhole == Spec => []InputWhole
<1>1. Init => InputInv
    BY InputInit
<1>2. InputInv /\ [Next]_vars => InputInv'
    BY InputStep
<1>3. InputInv => InputWhole
    BY InputIsWhole
<1>. QED
    BY <1>1, <1>2, <1>3, PTL DEF Spec

-----------------------------------------------------------------------------
(* Where the reading of the answer is. *)

All == Wire(answer)

(* The bytes of the first i records. *)
At(i) == Len(First(WireOf(answer), i))

(* In the content or padding of a record; it counts as read. *)
InRecord == Len(header) = HeaderLen

Taken(r) == HeaderLen + (r.len - contentLen) + (r.pad - paddingLen)

Pos(i) == At(i) + IF InRecord THEN Taken(answer[i + 1]) ELSE Len(header)

(* i records have been taken apart, and a part of the next one. *)
Reads(i) ==
    /\ i \in 0 .. Len(answer) /\ contentLen \in Nat /\ paddingLen \in Nat
    /\ Len(header) \in 0 .. HeaderLen
    /\ header # <<>> => /\ i < Len(answer)
                        /\ header = Part(Bytes(answer[i + 1]), 0, Len(header))
    /\ InRecord => /\ contentLen <= answer[i + 1].len /\ paddingLen <= answer[i + 1].pad
                   /\ contentLen > 0 => paddingLen = answer[i + 1].pad

(* What has been written of the record that is being taken apart. *)
Begun(t, i) ==
    IF InRecord /\ answer[i + 1].type = t
    THEN Part(ContentBytes(answer[i + 1]), 0, answer[i + 1].len - contentLen) ELSE <<>>

Writes(i) == /\ out \in [Output -> Seq(Octets(Records))]
             /\ \A t \in Output : out[t] = OutputOf(t, i) \o Begun(t, i)

EndSeen(i) == exitStatusSet => \E e \in Ends : e <= i \/ (InRecord /\ e = i + 1)

(* What can still be read is the answer from there up to q, where a reset  *)
(* has cut it off.                                                         *)
Unread(i, q) ==
    /\ fromAS \in Seq(Octets(Records)) /\ fromApp \in Seq(Octets(Records))
    /\ q \in Pos(i) .. Len(All)
    /\ fromAS \o fromApp = Part(All, Pos(i), q)
    /\ ~answered => q = 0

OutputInv ==
    /\ answer \in Seq(Records)
    /\ exit = "status" => exitStatusSet
    /\ exitStatusSet \in BOOLEAN
    /\ \E i, q \in Nat : Reads(i) /\ Writes(i) /\ EndSeen(i) /\ Unread(i, q)

LEMMA RecordsSized == Sized(Records)
BY CgiFcgiAssumption DEF Sized

(* The first n of a, and what is left of it, when a and b are a part of s. *)
TakenOff(S, s, a, b, p, q, n) ==
    /\ p + n \in p .. q /\ q - p = Len(a) + Len(b)
    /\ SubSeq(a, 1, n) = Part(s, p, p + n) /\ SubSeq(a, 1, n) \in Seq(S)
    /\ Drop(a, n) \in Seq(S) /\ Drop(a, n) \o b = Part(s, p + n, q)

LEMMA FromFront ==
    ASSUME NEW S, NEW s \in Seq(S), NEW a \in Seq(S), NEW b \in Seq(S),
           NEW q \in 0 .. Len(s), NEW p \in 0 .. q, a \o b = Part(s, p, q), NEW n \in 0 .. Len(a)
    PROVE  TakenOff(S, s, a, b, p, q, n)
<1>. DEFINE l == Len(a) + Len(b)
            c == a \o b
            x == Part(s, p, q)
<1>1. Len(a) \in Nat /\ Len(b) \in Nat /\ Len(s) \in Nat
    BY LenProperties
<1>2. Len(c) = l /\ c \in Seq(S)
    BY ConcatProperties
<1>3. x \in Seq(S) /\ Len(x) = q - p
    BY PartType
<1>4. c = x
    OBVIOUS
<1>5. q - p = l
    BY <1>2, <1>3, <1>4
<1>6. /\ l \in Nat /\ n \in Nat /\ p \in Nat /\ q \in Nat /\ n <= Len(a) /\ n <= l
      /\ p + n \in p .. q /\ n \in 0 .. l /\ 0 \in 0 .. n /\ n \in 0 .. q - p /\ l \in 0 .. q - p
      /\ p + l = q /\ p + 0 = p
    BY <1>1, <1>5
<1>7. SubSeq(a, 1, n) = Part(x, 0, n)
    <2>1. SubSeq(c, 1, n) = SubSeq(a, 1, n)
        BY TakeWithin
    <2>. QED
        BY <1>4, <2>1 DEF Part
<1>8. Drop(a, n) \o b = Part(x, n, l)
    <2>1. SubSeq(c, n + 1, l) = SubSeq(a, n + 1, Len(a)) \o b
        BY DropWithin
    <2>. HIDE DEF c, l
    <2>. QED
        BY <1>4, <2>1 DEF Part, Drop
<1>9. Part(x, 0, n) = Part(s, p + 0, p + n) /\ Part(x, n, l) = Part(s, p + n, p + l)
    <2>. HIDE DEF l
    <2>. QED
        BY <1>6, PartPart
<1>10. SubSeq(a, 1, n) \in Seq(S) /\ Drop(a, n) \in Seq(S)
    <2>1. Part(a, 0, n) \in Seq(S) /\ Part(a, n, Len(a)) \in Seq(S)
        <3>1. Len(a) \in 0 .. Len(a) /\ n \in 0 .. Len(a) /\ 0 \in 0 .. n
            BY <1>1
        <3>. QED
            BY <3>1, PartType
    <2>. QED
        BY <2>1 DEF Part, Drop
<1>. HIDE DEF x, c
<1>. QED
    BY <1>5, <1>6, <1>7, <1>8, <1>9, <1>10 DEF x, TakenOff

(* The bytes of the answer, and those of each record within them. *)
LEMMA AllIs ==
    ASSUME answer \in Seq(Records)
    PROVE  /\ All \in Seq(Octets(Records)) /\ Len(All) \in Nat /\ Len(answer) \in Nat
           /\ WireOf(answer) \in [1 .. Len(answer) -> Seq(Octets(Records))]
           /\ All = First(WireOf(answer), Len(answer))
           /\ At(0) = 0 /\ At(Len(answer)) = Len(All)
           /\ \A i \in 0 .. Len(answer) : At(i) \in Nat /\ At(i) <= Len(All)
<1>. DEFINE f == WireOf(answer)
            n == Len(answer)
            T == Octets(Records)
<1>1. /\ f \in [1 .. n -> Seq(T)] /\ All = FlattenSeq(f) /\ All \in Seq(T)
    BY RecordsSized, WireOfType DEF All
<1>2. Len(All) \in Nat /\ n \in Nat
    BY <1>1, LenProperties
<1>. HIDE DEF f, n, T
<1>3. All = First(f, n)
    <2>1. [i \in 1 .. n |-> f[i]] = f
        BY <1>1
    <2>. QED
        BY <1>1, <2>1 DEF First
<1>4. /\ First(f, 0) = <<>>
      /\ \A k \in 0 .. n : First(f, k) \in Seq(T) /\ Len(First(f, k)) \in Nat
    BY <1>1, <1>2, FirstStep
<1>5. Len(First(f, 0)) = 0
    BY <1>4, EmptySeq
<1>6. \A i \in 0 .. n : Len(First(f, i)) <= Len(All)
    <2>. SUFFICES ASSUME NEW i \in 0 .. n PROVE Len(First(f, i)) <= Len(All)
        OBVIOUS
    <2>1. n \in 0 .. n /\ i \in 0 .. n
        BY <1>2
    <2>. Begins(T, First(f, i), First(f, n))
        BY <1>1, <1>2, <2>1, FirstGrows
    <2>2. PICK u \in Seq(T) : First(f, n) = First(f, i) \o u
        BY DEF Begins
    <2>3. Len(All) = Len(First(f, i)) + Len(u)
        BY <1>3, <1>4, <2>2, ConcatProperties
    <2>4. Len(u) \in Nat
        BY LenProperties
    <2>. QED
        BY <1>4, <2>3, <2>4
<1>. QED
    BY <1>1, <1>2, <1>3, <1>4, <1>5, <1>6 DEF At, f, n, T

LEMMA RecordPart ==
    ASSUME answer \in Seq(Records), NEW i \in 0 .. Len(answer) - 1
    PROVE  /\ answer[i + 1] \in Records /\ i + 1 \in 1 .. Len(answer)
           /\ At(i + 1) = At(i) + Size(answer[i + 1])
           /\ \A y \in 0 .. Size(answer[i + 1]) : \A x \in 0 .. y :
                 Part(All, At(i) + x, At(i) + y) = Part(Bytes(answer[i + 1]), x, y)
<1>. DEFINE f == WireOf(answer)
            n == Len(answer)
            T == Octets(Records)
            r == answer[i + 1]
            k == i + 1
            a == First(f, i)
            b == Bytes(r)
            c == First(f, k)
<1>1. f \in [1 .. n -> Seq(T)] /\ n \in Nat /\ All = First(f, n)
    BY AllIs
<1>2. k \in 1 .. n /\ k \in 0 .. n /\ i \in 0 .. n /\ k - 1 = i /\ n \in 0 .. n
    BY <1>1
<1>3. r \in Records
    BY <1>2, ElementOfSeq
<1>4. b \in Seq(T) /\ Len(b) = Size(r) /\ Size(r) \in Nat
    BY <1>3, RecordsSized, BytesType
<1>5. f[k] = b
    BY <1>2, LenProperties DEF WireOf
<1>. HIDE DEF f, n, T, k
<1>6. a \in Seq(T) /\ Len(a) \in Nat /\ c = a \o f[k] /\ c \in Seq(T)
    BY <1>1, <1>2, FirstStep
<1>7. PICK u \in Seq(T) : First(f, n) = c \o u
    <2>1. Begins(T, c, First(f, n))
        BY <1>1, <1>2, FirstGrows
    <2>. QED
        BY <2>1 DEF Begins
<1>. HIDE DEF r, b, c, a
<1>8. c = a \o b /\ Len(c) = Len(a) + Size(r)
    <2>1. Len(a \o b) = Len(a) + Len(b)
        BY <1>4, <1>6, ConcatProperties
    <2>. QED
        BY <1>4, <1>5, <1>6, <2>1
<1>9. ASSUME NEW y \in 0 .. Size(r), NEW x \in 0 .. y
      PROVE  Part(All, Len(a) + x, Len(a) + y) = Part(b, x, y)
    <2>1. /\ Len(a) + y \in 0 .. Len(c) /\ Len(a) + x \in 0 .. Len(a) + y
          /\ y \in 0 .. Len(b)
        BY <1>4, <1>6, <1>8
    <2>2. Part(a \o b, Len(a) + x, Len(a) + y) = Part(b, x, y)
        BY <1>4, <1>6, <2>1, PartOfSecond
    <2>. DEFINE v == Len(a) + x
                w == Len(a) + y
    <2>. HIDE DEF v, w
    <2>3. Part(c \o u, v, w) = Part(c, v, w)
        <3>1. w \in 0 .. Len(c) /\ v \in 0 .. w
            BY <2>1 DEF v, w
        <3>. QED
            BY <1>6, <1>7, <3>1, PartOfFirst
    <2>. QED
        BY <1>1, <1>7, <1>8, <2>2, <2>3 DEF v, w
<1>10. Len(c) = Len(a) + Size(r) /\ At(i) = Len(a) /\ At(k) = Len(c)
    BY <1>8 DEF At, a, c, f
<1>. QED
    BY <1>2, <1>3, <1>9, <1>10 DEF r, k, n, b

LEMMA OutputOfStep ==
    ASSUME answer \in Seq(Records), NEW t
    PROVE  /\ OutputOf(t, 0) = <<>>
           /\ \A i \in 0 .. Len(answer) : OutputOf(t, i) \in Seq(Octets(Records))
           /\ \A i \in 0 .. Len(answer) - 1 :
                 OutputOf(t, i + 1) = OutputOf(t, i) \o (IF answer[i + 1].type = t
                                                         THEN ContentBytes(answer[i + 1]) ELSE <<>>)
           /\ \A k \in 0 .. Len(answer) : \A j \in 0 .. k :
                 Begins(Octets(Records), OutputOf(t, j), OutputOf(t, k))
<1>. DEFINE n == Len(answer)
            T == Octets(Records)
            g(i) == IF answer[i].type = t THEN ContentBytes(answer[i]) ELSE <<>>
            f == [i \in 1 .. n |-> g(i)]
<1>1. n \in Nat
    BY LenProperties
<1>2. ASSUME NEW i \in 1 .. n PROVE g(i) \in Seq(T)
    <2>1. answer[i] \in Records
        BY ElementOfSeq
    <2>2. ContentBytes(answer[i]) \in Seq(T)
        BY <2>1, RecordsSized, ContentType
    <2>. QED
        BY <2>2, EmptySeq
<1>3. f \in [1 .. n -> Seq(T)] /\ \A i \in 1 .. n : f[i] = g(i)
    <2>. HIDE DEF g, T, n
    <2>. QED
        BY <1>2
<1>4. \A k \in 0 .. n : OutputOf(t, k) = First(f, k)
    <2>. SUFFICES ASSUME NEW k \in 0 .. n PROVE OutputOf(t, k) = First(f, k)
        OBVIOUS
    <2>1. [i \in 1 .. k |-> f[i]] = [i \in 1 .. k |-> g(i)]
        <3>1. \A i \in 1 .. k : i \in 1 .. n
            BY <1>1
        <3>. HIDE DEF f, g, n
        <3>. QED
            BY <1>3, <3>1
    <2>. QED
        BY <2>1 DEF OutputOf, First
<1>. HIDE DEF f
<1>5. /\ First(f, 0) = <<>>
      /\ \A k \in 0 .. n : First(f, k) \in Seq(T)
      /\ \A k \in 1 .. n : First(f, k) = First(f, k - 1) \o f[k]
    <2>. HIDE DEF T, n
    <2>. QED
        BY <1>1, <1>3, FirstStep
<1>6. \A k \in 0 .. n : \A j \in 0 .. k : Begins(T, First(f, j), First(f, k))
    <2>. HIDE DEF T, n
    <2>. QED
        BY <1>1, <1>3, FirstGrows
<1>7. ASSUME NEW i \in 0 .. n - 1 PROVE OutputOf(t, i + 1) = OutputOf(t, i) \o g(i + 1)
    <2>1. i + 1 \in 1 .. n /\ i + 1 \in 0 .. n /\ i \in 0 .. n /\ (i + 1) - 1 = i
        BY <1>1
    <2>. HIDE DEF g, T, n
    <2>. QED
        BY <1>3, <1>4, <1>5, <2>1
<1>8. ASSUME NEW k \in 0 .. n, NEW j \in 0 .. k
      PROVE  Begins(T, OutputOf(t, j), OutputOf(t, k))
    <2>1. j \in 0 .. n
        BY <1>1
    <2>. HIDE DEF g, T, n
    <2>. QED
        BY <1>4, <1>6, <2>1
<1>9. 0 \in 0 .. n
    BY <1>1
<1>. QED
    BY <1>4, <1>5, <1>7, <1>8, <1>9

-----------------------------------------------------------------------------
(* Every step keeps the invariant of the output. *)

LEMMA NotYetInRecord == header = <<>> => ~InRecord /\ Len(header) = 0
BY Lengths, EmptySeq DEF InRecord

LEMMA OutputInit == Init => OutputInv
<1>. SUFFICES ASSUME Init PROVE OutputInv
    OBVIOUS
<1>1. answer \in Seq(Records)
    <2>1. PICK r \in Requests : answer = r[3]
        BY DEF Init
    <2>2. r \in Int \X Nat \X Seq(Records)
        BY <2>1, CgiFcgiAssumption
    <2>. QED
        BY <2>1, <2>2
<1>2. /\ answered = FALSE /\ fromApp = <<>> /\ header = <<>> /\ contentLen = 0 /\ paddingLen = 0
      /\ exitStatusSet = FALSE /\ fromAS = <<>> /\ out = [t \in Output |-> <<>>]
      /\ exit = "starting"
    BY DEF Init
<1>3. ~InRecord /\ Len(header) = 0
    BY <1>2, NotYetInRecord
<1>4. At(0) = 0 /\ Len(All) \in Nat /\ Len(answer) \in Nat
    BY <1>1, AllIs
<1>5. Pos(0) = 0
    BY <1>3, <1>4 DEF Pos
<1>6. Reads(0)
    BY <1>2, <1>3, <1>4, Lengths DEF Reads
<1>7. Writes(0)
    <2>1. <<>> \in Seq(Octets(Records)) /\ <<>> \o <<>> = <<>>
        BY EmptySeq, ConcatEmptySeq
    <2>2. \A t \in Output : out[t] = <<>> /\ OutputOf(t, 0) = <<>> /\ Begun(t, 0) = <<>>
        BY <1>1, <1>2, <1>3, OutputOfStep DEF Begun
    <2>. QED
        BY <1>2, <2>1, <2>2 DEF Writes
<1>8. EndSeen(0)
    BY <1>2 DEF EndSeen
<1>9. Unread(0, 0)
    <2>1. <<>> \in Seq(Octets(Records)) /\ <<>> \o <<>> = <<>>
        BY EmptySeq, ConcatEmptySeq
    <2>2. Part(All, 0, 0) = <<>>
        BY PartEmpty
    <2>. QED
        BY <1>2, <1>4, <1>5, <2>1, <2>2 DEF Unread
<1>. QED
    BY <1>1, <1>2, <1>6, <1>7, <1>8, <1>9 DEF OutputInv

LEMMA AnswerTouched ==
    ASSUME UNCHANGED <<answer, recordVars>>
    PROVE  /\ All' = All
           /\ \A i : /\ Reads(i)' = Reads(i) /\ Writes(i)' = Writes(i)
                     /\ EndSeen(i)' = EndSeen(i) /\ Pos(i)' = Pos(i)
<1>1. /\ answer' = answer /\ header' = header /\ contentLen' = contentLen
      /\ paddingLen' = paddingLen /\ exitStatusSet' = exitStatusSet /\ out' = out
    BY DEF recordVars
<1>. QED
    BY <1>1 DEF All, Reads, Writes, EndSeen, Pos, At, First, WireOf, Taken, InRecord, Begun, OutputOf,
                Ends

(* A step that reads nothing of the answer. *)
LEMMA OutputUntouched ==
    ASSUME OutputInv, UNCHANGED <<answer, answered, recordVars, fromAS, fromApp>>,
           exit' = "status" => exit = "status" \/ exitStatusSet
    PROVE  OutputInv'
<1>1. PICK i, q \in Nat : Reads(i) /\ Writes(i) /\ EndSeen(i) /\ Unread(i, q)
    BY DEF OutputInv
<1>2. Unread(i, q)'
    BY <1>1, AnswerTouched DEF Unread
<1>3. Reads(i)' /\ Writes(i)' /\ EndSeen(i)'
    BY <1>1, AnswerTouched
<1>4. answer' = answer /\ exitStatusSet' = exitStatusSet
    BY DEF recordVars
<1>. QED
    BY <1>1, <1>2, <1>3, <1>4 DEF OutputInv

LEMMA ReadAppKeepsOutput ==
    ASSUME OutputInv, fromAS = <<>>, UNCHANGED <<answer, answered, recordVars, exit>>,
           NEW n \in 1 .. Len(fromApp),
           fromAS' = SubSeq(fromApp, 1, n), fromApp' = Drop(fromApp, n)
    PROVE  OutputInv'
<1>. DEFINE T == Octets(Records)
            p == Part(fromApp, 0, n)
            r == Part(fromApp, n, Len(fromApp))
<1>1. PICK i, q \in Nat : Reads(i) /\ Writes(i) /\ EndSeen(i) /\ Unread(i, q)
    BY DEF OutputInv
<1>2. fromApp \in Seq(T) /\ Len(fromApp) \in Nat
    BY <1>1, LenProperties DEF Unread
<1>3. p \in Seq(T) /\ r \in Seq(T) /\ p \o r = fromApp
    <2>1. /\ n \in 0 .. Len(fromApp) /\ 0 \in 0 .. n /\ Len(fromApp) \in 0 .. Len(fromApp)
        BY <1>2
    <2>2. Part(fromApp, 0, n) \o Part(fromApp, n, Len(fromApp)) = Part(fromApp, 0, Len(fromApp))
        BY <1>2, <2>1, PartConcat
    <2>3. Part(fromApp, 0, Len(fromApp)) = fromApp
        BY <1>2, SubSeqFull DEF Part
    <2>4. p \in Seq(T) /\ r \in Seq(T)
        BY <1>2, <2>1, PartType
    <2>. QED
        BY <2>2, <2>3, <2>4
<1>4. fromAS' = p /\ fromApp' = r
    BY DEF Part, Drop
<1>5. fromAS \o fromApp = fromApp
    BY <1>2, ConcatEmptySeq
<1>. HIDE DEF p, r
<1>6. Unread(i, q)'
    <2>1. /\ fromAS' \in Seq(T) /\ fromApp' \in Seq(T) /\ fromAS' \o fromApp' = fromAS \o fromApp
        BY <1>3, <1>4, <1>5
    <2>. QED
        BY <1>1, <2>1, AnswerTouched DEF Unread
<1>7. Reads(i)' /\ Writes(i)' /\ EndSeen(i)'
    BY <1>1, AnswerTouched
<1>8. answer' = answer /\ exitStatusSet' = exitStatusSet
    BY DEF recordVars
<1>. QED
    BY <1>1, <1>6, <1>7, <1>8 DEF OutputInv

(* Where the reading is, within the answer. *)
LEMMA PosType ==
    ASSUME answer \in Seq(Records), NEW i, Reads(i)
    PROVE  /\ i \in 0 .. Len(answer) /\ At(i) \in Nat /\ Pos(i) \in Nat /\ Pos(i) >= At(i)
<1>1. i \in 0 .. Len(answer) /\ At(i) \in Nat
    BY AllIs DEF Reads
<1>2. CASE InRecord
    <2>1. header # <<>>
        BY <1>2, NotYetInRecord
    <2>2. i \in 0 .. Len(answer) - 1
        BY <1>1, <2>1, AllIs DEF Reads
    <2>3. answer[i + 1].len \in Nat /\ answer[i + 1].pad \in Nat
        BY <2>2, RecordPart, RecordsSized DEF Sized
    <2>4. Taken(answer[i + 1]) \in Nat
        <3>1. /\ contentLen \in Nat /\ contentLen <= answer[i + 1].len
              /\ paddingLen \in Nat /\ paddingLen <= answer[i + 1].pad
            BY <1>2 DEF Reads
        <3>2. answer[i + 1].len - contentLen \in Nat /\ answer[i + 1].pad - paddingLen \in Nat
            BY <2>3, <3>1
        <3>. QED
            BY <3>2, Lengths, SMTT(30) DEF Taken
    <2>. QED
        BY <1>1, <1>2, <2>4 DEF Pos
<1>3. CASE ~InRecord
    BY <1>1, <1>3, Lengths DEF Pos, Reads
<1>. QED
    BY <1>1, <1>2, <1>3

LEMMA AppAnswersKeepsOutput == ASSUME OutputInv, AppAnswers, UNCHANGED <<recordVars, fromAS, exit>> PROVE OutputInv'
<1>1. PICK i, q \in Nat : Reads(i) /\ Writes(i) /\ EndSeen(i) /\ Unread(i, q)
    BY DEF OutputInv
<1>2. /\ answer \in Seq(Records) /\ ~answered /\ answered' = TRUE /\ answer' = answer
      /\ fromApp' = fromApp \o All /\ exitStatusSet' = exitStatusSet
    BY DEF OutputInv, AppAnswers, All, recordVars
<1>3. All \in Seq(Octets(Records)) /\ Len(All) \in Nat
    BY <1>2, AllIs
<1>4. q = 0 /\ Pos(i) = 0 /\ Pos(i) \in Nat
    BY <1>1, <1>2, PosType DEF Unread
<1>5. fromAS \in Seq(Octets(Records)) /\ fromApp \in Seq(Octets(Records)) /\ fromAS \o fromApp = <<>>
    <2>1. Part(All, 0, 0) = <<>>
        BY PartEmpty
    <2>. QED
        BY <1>1, <1>4, <2>1 DEF Unread
<1>6. fromAS = <<>> /\ fromApp = <<>>
    <2>1. /\ Len(fromAS \o fromApp) = Len(fromAS) + Len(fromApp)
          /\ Len(fromAS) \in Nat /\ Len(fromApp) \in Nat
        BY <1>5, ConcatProperties, LenProperties
    <2>2. Len(fromAS) + Len(fromApp) = 0
        BY <1>5, <2>1, EmptySeq
    <2>3. Len(fromAS) = 0 /\ Len(fromApp) = 0
        BY <2>1, <2>2
    <2>. QED
        BY <1>5, <2>3, EmptySeq
<1>7. Unread(i, Len(All))'
    <2>1. fromApp' = All /\ fromAS' \o fromApp' = All /\ fromAS' = <<>>
        BY <1>2, <1>3, <1>6, ConcatEmptySeq
    <2>2. Part(All, 0, Len(All)) = All
        BY <1>3, SubSeqFull DEF Part
    <2>3. All' = All /\ Pos(i)' = 0
        BY <1>2, <1>4, AnswerTouched
    <2>4. <<>> \in Seq(Octets(Records)) /\ Len(All) \in 0 .. Len(All)
        BY <1>3, EmptySeq
    <2>. QED
        BY <1>2, <1>3, <2>1, <2>2, <2>3, <2>4 DEF Unread
<1>8. Reads(i)' /\ Writes(i)' /\ EndSeen(i)'
    BY <1>1, <1>2, AnswerTouched
<1>. QED
    BY <1>2, <1>3, <1>7, <1>8 DEF OutputInv

(* The first n bytes that the handler still has to take apart. *)
LEMMA FrontOfAnswer ==
    ASSUME answer \in Seq(Records), NEW i \in Nat, NEW q \in Nat, Reads(i), Unread(i, q),
           NEW n \in 0 .. Len(fromAS)
    PROVE  TakenOff(Octets(Records), All, fromAS, fromApp, Pos(i), q, n)
<1>. DEFINE T == Octets(Records)
            w == All
            p == Pos(i)
<1>1. /\ w \in Seq(T) /\ Len(w) \in Nat /\ p \in Nat
      /\ fromAS \in Seq(T) /\ fromApp \in Seq(T) /\ fromAS \o fromApp = Part(w, p, q)
      /\ q \in p .. Len(w)
    BY AllIs, PosType DEF Unread
<1>. HIDE DEF T, w, p
<1>2. q \in 0 .. Len(w) /\ p \in 0 .. q
    BY <1>1
<1>3. TakenOff(T, w, fromAS, fromApp, p, q, n)
    BY <1>1, <1>2, FromFront
<1>. QED
    BY <1>3 DEF T, w, p

(* What a reset has not let through is not missed. *)
LEMMA ResetKeepsOutput ==
    ASSUME OutputInv, UNCHANGED <<answer, answered, recordVars, fromAS, exit>>, fromApp' = <<>>
    PROVE  OutputInv'
<1>1. PICK i, q \in Nat : Reads(i) /\ Writes(i) /\ EndSeen(i) /\ Unread(i, q)
    BY DEF OutputInv
<1>. DEFINE n == Len(fromAS)
            p == Pos(i)
<1>2. /\ answer \in Seq(Records) /\ answer' = answer /\ exitStatusSet' = exitStatusSet
      /\ All \in Seq(Octets(Records)) /\ Len(All) \in Nat /\ p \in Nat
    BY <1>1, AllIs, PosType DEF OutputInv, recordVars
<1>3. /\ fromAS \in Seq(Octets(Records)) /\ fromApp \in Seq(Octets(Records))
      /\ q \in p .. Len(All) /\ fromAS \o fromApp = Part(All, p, q) /\ (~answered => q = 0)
    BY <1>1 DEF Unread
<1>4. n \in 0 .. n /\ n \in Nat
    BY <1>3, LenProperties
<1>. HIDE DEF p
<1>5. p + n \in p .. q /\ SubSeq(fromAS, 1, n) = Part(All, p, p + n)
    <2>. HIDE DEF n
    <2>1. TakenOff(Octets(Records), All, fromAS, fromApp, p, q, n)
        BY <1>1, <1>2, <1>4, FrontOfAnswer DEF p, n
    <2>. QED
        BY <2>1 DEF TakenOff
<1>6. fromAS' \o fromApp' = Part(All, p, p + n)
    <2>1. SubSeq(fromAS, 1, n) = fromAS
        BY <1>3, SubSeqFull
    <2>2. fromAS' \o fromApp' = fromAS
        BY <1>3, ConcatEmptySeq
    <2>. QED
        BY <1>5, <2>1, <2>2
<1>7. PICK m \in Nat : m = p + n
    BY <1>2, <1>4
<1>8. Unread(i, m)'
    <2>1. All' = All /\ Pos(i)' = p
        BY AnswerTouched DEF p
    <2>2. <<>> \in Seq(Octets(Records)) /\ m \in p .. Len(All) /\ (~answered => m = 0)
        BY <1>2, <1>3, <1>4, <1>5, <1>7, EmptySeq
    <2>. QED
        BY <1>2, <1>3, <1>6, <1>7, <2>1, <2>2 DEF Unread
<1>9. Reads(i)' /\ Writes(i)' /\ EndSeen(i)'
    BY <1>1, <1>2, AnswerTouched
<1>. QED
    BY <1>2, <1>7, <1>8, <1>9 DEF OutputInv

(* The handler takes the first n bytes, and the reading is n further. *)
LEMMA RestUnread ==
    ASSUME answer \in Seq(Records), NEW i \in Nat, NEW q \in Nat, Reads(i), Unread(i, q),
           NEW n \in 0 .. Len(fromAS), Rest(n), NEW j, Pos(j)' = Pos(i) + n
    PROVE  Unread(j, q)'
<1>1. TakenOff(Octets(Records), All, fromAS, fromApp, Pos(i), q, n)
    BY FrontOfAnswer
<1>2. /\ Drop(fromAS, n) \in Seq(Octets(Records))
      /\ Drop(fromAS, n) \o fromApp = Part(All, Pos(i) + n, q) /\ Pos(i) + n \in Pos(i) .. q
    BY <1>1 DEF TakenOff
<1>3. /\ fromAS' = Drop(fromAS, n) /\ fromApp' = fromApp /\ answered' = answered
      /\ answer' = answer
    BY DEF Rest, outside
<1>4. All' = All
    BY <1>3 DEF All
<1>5. /\ q \in Pos(i) .. Len(All) /\ (~answered => q = 0) /\ fromApp \in Seq(Octets(Records))
      /\ Pos(i) \in Nat /\ Len(All) \in Nat
    BY PosType, AllIs DEF Unread
<1>6. q \in Pos(i) + n .. Len(All)
    BY <1>2, <1>5
<1>7. /\ q \in Pos(j)' .. Len(All') /\ fromAS' \o fromApp' = Part(All', Pos(j)', q)
      /\ fromAS' \in Seq(Octets(Records)) /\ fromApp' \in Seq(Octets(Records))
      /\ (~answered' => q = 0)
    <2>1. fromAS' \o fromApp' = Part(All, Pos(i) + n, q)
        BY <1>2, <1>3
    <2>. QED
        BY <1>2, <1>3, <1>4, <1>5, <1>6, <2>1
<1>. QED
    BY <1>7 DEF Unread

LEMMA NotEmptyFront == fromAS # <<>> /\ fromAS \in Seq(Octets(Records)) => Len(fromAS) \in Nat \ {0}
<1>. SUFFICES ASSUME fromAS # <<>>, fromAS \in Seq(Octets(Records))
              PROVE  Len(fromAS) \in Nat \ {0}
    OBVIOUS
<1>1. Len(fromAS) \in Nat
    BY LenProperties
<1>2. Len(fromAS) # 0
    BY EmptySeq
<1>. QED
    BY <1>1, <1>2

LEMMA HeaderKeepsOutput ==
    ASSUME OutputInv, InHandler, header = <<>>,
           NEW h, h = SubSeq(fromAS, 1, Least(HeaderLen, Len(fromAS))),
           header' = h,
           IF Len(h) = HeaderLen
           THEN contentLen' = Record(h).len /\ paddingLen' = Record(h).pad
           ELSE UNCHANGED <<contentLen, paddingLen>>,
           UNCHANGED <<readingEndRequestBody, exitStatusSet, out>>,
           Rest(Len(h))
    PROVE  OutputInv'
<1>. DEFINE T == Octets(Records)
            n == Least(HeaderLen, Len(fromAS))
<1>1. PICK i, q \in Nat : Reads(i) /\ Writes(i) /\ EndSeen(i) /\ Unread(i, q)
    BY DEF OutputInv
<1>. DEFINE r == answer[i + 1]
<1>2. answer \in Seq(Records) /\ exit = "none" /\ exit' = exit /\ answer' = answer
    BY DEF OutputInv, InHandler, Rest, outside
<1>3. ~InRecord /\ Len(header) = 0
    BY NotYetInRecord
<1>4. Pos(i) = At(i) /\ At(i) \in Nat
    <2>1. At(i) \in Nat
        BY <1>1, <1>2, PosType
    <2>. QED
        BY <1>3, <2>1 DEF Pos
<1>5. Len(fromAS) \in Nat \ {0} /\ n \in 1 .. Len(fromAS) /\ n <= HeaderLen /\ n \in 0 .. Len(fromAS)
    <2>1. Len(fromAS) \in Nat \ {0}
        BY <1>1, NotEmptyFront DEF InHandler, Unread
    <2>. QED
        BY <2>1, Lengths DEF Least
<1>. HIDE DEF n
<1>6. /\ At(i) + n \in At(i) .. q /\ h = Part(All, At(i), At(i) + n) /\ h \in Seq(T)
    <2>1. TakenOff(Octets(Records), All, fromAS, fromApp, Pos(i), q, n)
        BY <1>1, <1>2, <1>5, FrontOfAnswer
    <2>. QED
        BY <1>4, <2>1 DEF TakenOff, n
<1>7. i \in 0 .. Len(answer) - 1
    <2>1. i \in 0 .. Len(answer) /\ Len(answer) \in Nat /\ Len(All) \in Nat
        BY <1>1, <1>2, PosType, AllIs
    <2>2. q <= Len(All)
        BY <1>1, <1>4, <2>1 DEF Unread
    <2>3. At(i) # Len(All)
        BY <1>4, <1>5, <1>6, <2>1, <2>2
    <2>4. i # Len(answer)
        BY <1>2, <2>3, AllIs
    <2>. QED
        BY <2>1, <2>4
<1>8. r \in Records /\ r.len \in Nat /\ r.pad \in Nat
    BY <1>2, <1>7, RecordPart, RecordsSized DEF Sized
<1>9. /\ Size(r) \in Nat /\ HeaderLen <= Size(r) /\ Bytes(r) \in Seq(T) /\ Len(Bytes(r)) = Size(r)
      /\ \A k \in 1 .. Size(r) : Bytes(r)[k] = <<r, k>>
    BY <1>8, RecordsSized, BytesType
<1>. HIDE DEF r
<1>10. h = Part(Bytes(r), 0, n) /\ Len(h) = n /\ h[1] = <<r, 1>>
    <2>1. n \in 0 .. Size(r) /\ 0 \in 0 .. n /\ At(i) + 0 = At(i) /\ n \in 0 .. Len(Bytes(r))
          /\ 1 \in 1 .. n - 0 /\ 0 + 1 \in 1 .. Size(r) /\ 0 + 1 = 1 /\ n - 0 = n
        BY <1>4, <1>5, <1>9, Lengths
    <2>2. Part(All, At(i) + 0, At(i) + n) = Part(Bytes(r), 0, n)
        BY <1>2, <1>7, <2>1, RecordPart DEF r
    <2>. DEFINE b == Bytes(r)
    <2>. HIDE DEF b, T
    <2>3. /\ Len(Part(b, 0, n)) = n - 0
          /\ \A k \in 1 .. n - 0 : Part(b, 0, n)[k] = b[0 + k]
        <3>1. b \in Seq(T) /\ n \in 0 .. Len(b)
            BY <1>9, <2>1 DEF b
        <3>. QED
            BY <2>1, <3>1, PartType
    <2>4. Part(b, 0, n)[1] = <<r, 1>>
        <3>1. Part(b, 0, n)[1] = b[0 + 1]
            BY <2>1, <2>3
        <3>2. 1 \in 1 .. Size(r)
            BY <2>1
        <3>. QED
            BY <1>9, <2>1, <3>1, <3>2 DEF b
    <2>5. h = Part(b, 0, n)
        BY <1>6, <2>1, <2>2 DEF b
    <2>. QED
        BY <2>1, <2>3, <2>4, <2>5 DEF b
<1>11. Record(h) = r
    <2>1. <<r, 1>>[1] = r
        OBVIOUS
    <2>2. Record(h) = h[1][1]
        BY DEF Record
    <2>. QED
        BY <1>10, <2>1, <2>2
<1>12. /\ contentLen \in Nat /\ paddingLen \in Nat
    BY <1>1 DEF Reads
<1>13. Reads(i)'
    <2>1. answer'[i + 1] = r
        BY <1>2 DEF r
    <2>2. InRecord' => contentLen' = r.len /\ paddingLen' = r.pad
        BY <1>11 DEF InRecord
    <2>3. contentLen' \in Nat /\ paddingLen' \in Nat
        BY <1>8, <1>11, <1>12
    <2>4. header' = Part(Bytes(r), 0, Len(header')) /\ Len(header') \in 0 .. HeaderLen
        <3>1. Len(header') = n
            BY <1>10
        <3>2. n \in 0 .. HeaderLen
            BY <1>5, Lengths
        <3>. QED
            BY <1>10, <3>1, <3>2
    <2>5. i \in 0 .. Len(answer) /\ i < Len(answer)
        BY <1>2, <1>7, AllIs
    <2>6. InRecord' => /\ contentLen' <= r.len /\ paddingLen' <= r.pad
                       /\ contentLen' > 0 => paddingLen' = r.pad
        BY <1>8, <2>2
    <2>. QED
        BY <1>2, <2>1, <2>3, <2>4, <2>5, <2>6 DEF Reads
<1>14. Pos(i)' = Pos(i) + n
    <2>1. At(i)' = At(i)
        BY <1>2 DEF At, First, WireOf
    <2>2. CASE InRecord'
        <3>1. n = HeaderLen /\ contentLen' = r.len /\ paddingLen' = r.pad
            BY <1>10, <1>11, <2>2 DEF InRecord
        <3>2. Taken(r)' = HeaderLen + (r'.len - contentLen') + (r'.pad - paddingLen')
            BY DEF Taken
        <3>3. r' = r
            BY <1>2 DEF r
        <3>4. Taken(r)' = HeaderLen
            BY <1>8, <3>1, <3>2, <3>3, Lengths
        <3>5. Pos(i)' = At(i)' + Taken(r)'
            BY <2>2 DEF Pos, r
        <3>. QED
            BY <1>4, <2>1, <3>1, <3>4, <3>5
    <2>3. CASE ~InRecord'
        BY <1>4, <1>10, <2>1, <2>3 DEF Pos
    <2>. QED
        BY <2>2, <2>3
<1>15. Unread(i, q)'
    BY <1>1, <1>2, <1>5, <1>10, <1>14, RestUnread
<1>16. Writes(i)'
    <2>. SUFFICES \A t \in Output : OutputOf(t, i)' = OutputOf(t, i) /\ Begun(t, i)' = Begun(t, i)
        BY <1>1 DEF Writes
    <2>. SUFFICES ASSUME NEW t \in Output
                  PROVE  OutputOf(t, i)' = OutputOf(t, i) /\ Begun(t, i)' = Begun(t, i)
        OBVIOUS
    <2>1. OutputOf(t, i)' = OutputOf(t, i)
        BY <1>2 DEF OutputOf
    <2>2. Begun(t, i) = <<>>
        BY <1>3 DEF Begun
    <2>3. CASE InRecord' /\ r.type = t
        <3>1. r'= r /\ contentLen' = r.len
            BY <1>2, <1>11, <2>3 DEF InRecord, r
        <3>2. Begun(t, i)' = Part(ContentBytes(r), 0, r.len - r.len)
            BY <2>3, <3>1 DEF Begun, r
        <3>3. r.len - r.len = 0 /\ Part(ContentBytes(r), 0, 0) = <<>>
            BY <1>8, PartEmpty
        <3>. QED
            BY <2>1, <2>2, <3>2, <3>3
    <2>4. CASE ~(InRecord' /\ r.type = t)
        <3>1. Begun(t, i)' = <<>>
            BY <1>2, <2>4 DEF Begun, r
        <3>. QED
            BY <2>1, <2>2, <3>1
    <2>. QED
        BY <2>3, <2>4
<1>17. EndSeen(i)'
    <2>1. Ends' = Ends
        BY <1>2 DEF Ends
    <2>. QED
        BY <1>1, <1>3, <2>1 DEF EndSeen
<1>18. exit # "status" /\ answer' \in Seq(Records) /\ exitStatusSet' \in BOOLEAN
    BY <1>2 DEF OutputInv
<1>. QED
    BY <1>1, <1>2, <1>13, <1>15, <1>16, <1>17, <1>18 DEF OutputInv

(* The header of the record that is being taken apart. *)
LEMMA HeaderIs ==
    ASSUME answer \in Seq(Records), NEW i \in Nat, Reads(i), InRecord
    PROVE  /\ i \in 0 .. Len(answer) - 1 /\ Record(header) = answer[i + 1]
           /\ answer[i + 1] \in Records /\ answer[i + 1].len \in Nat /\ answer[i + 1].pad \in Nat
           /\ contentLen \in Nat /\ paddingLen \in Nat
           /\ contentLen <= answer[i + 1].len /\ paddingLen <= answer[i + 1].pad
           /\ contentLen > 0 => paddingLen = answer[i + 1].pad
<1>. DEFINE r == answer[i + 1]
            b == Bytes(r)
            T == Octets(Records)
<1>1. header # <<>> /\ Len(header) = HeaderLen
    BY NotYetInRecord DEF InRecord
<1>2. i \in 0 .. Len(answer) - 1
    BY <1>1, AllIs DEF Reads
<1>3. r \in Records /\ r.len \in Nat /\ r.pad \in Nat
    BY <1>2, RecordPart, RecordsSized DEF Sized
<1>4. /\ Size(r) \in Nat /\ HeaderLen <= Size(r) /\ b \in Seq(T) /\ Len(b) = Size(r)
      /\ \A k \in 1 .. Size(r) : b[k] = <<r, k>>
    BY <1>3, RecordsSized, BytesType
<1>5. header = Part(b, 0, HeaderLen)
    BY <1>1 DEF Reads
<1>. HIDE DEF r, b, T
<1>6. Record(header) = r
    <2>1. /\ HeaderLen \in 0 .. Len(b) /\ 0 \in 0 .. HeaderLen /\ 1 \in 1 .. HeaderLen - 0
          /\ 1 \in 1 .. Size(r) /\ 0 + 1 = 1
        BY <1>4, Lengths
    <2>2. \A k \in 1 .. HeaderLen - 0 : Part(b, 0, HeaderLen)[k] = b[0 + k]
        BY <1>4, <2>1, PartType
    <2>3. header[1] = b[1]
        BY <1>5, <2>1, <2>2
    <2>4. b[1] = <<r, 1>>
        BY <1>4, <2>1
    <2>5. Record(header) = header[1][1] /\ <<r, 1>>[1] = r
        BY DEF Record
    <2>. QED
        BY <2>3, <2>4, <2>5
<1>7. /\ contentLen \in Nat /\ paddingLen \in Nat
      /\ contentLen <= r.len /\ paddingLen <= r.pad
      /\ contentLen > 0 => paddingLen = r.pad
    BY DEF Reads, r
<1>. QED
    BY <1>2, <1>3, <1>6, <1>7 DEF r

(* What Consume takes: a part of the content, and of the padding when no   *)
(* content is left.                                                        *)
LEMMA Consumes ==
    ASSUME answer \in Seq(Records), NEW i \in Nat, NEW q \in Nat, Reads(i), Unread(i, q),
           InRecord, InHandler, Consume
    PROVE  /\ contentLen' \in Nat /\ Count \in Nat /\ contentLen' = contentLen - Count
           /\ SubSeq(fromAS, 1, Count) = Part(ContentBytes(answer[i + 1]),
                                              answer[i + 1].len - contentLen,
                                              answer[i + 1].len - contentLen')
           /\ \/ Reads(i)' /\ Unread(i, q)' /\ InRecord'
              \/ Reads(i + 1)' /\ Unread(i + 1, q)' /\ ~InRecord' /\ contentLen' = 0
<1>. DEFINE r == answer[i + 1]
            b == Bytes(r)
            T == Octets(Records)
            len == r.len
            pad == r.pad
            c == contentLen
            p == paddingLen
            n == Count
            m == Padding
            l == Len(fromAS)
            x == len - c
            y == len - contentLen'
            k == i + 1
<1>1. /\ i \in 0 .. Len(answer) - 1 /\ r \in Records /\ len \in Nat /\ pad \in Nat
      /\ c \in Nat /\ p \in Nat /\ c <= len /\ p <= pad /\ (c > 0 => p = pad)
    BY HeaderIs
<1>2. l \in Nat \ {0}
    BY NotEmptyFront DEF InHandler, Unread
<1>3. /\ contentLen' = c - n /\ paddingLen' = p - m
      /\ header' = (IF contentLen' = 0 /\ paddingLen' = 0 THEN <<>> ELSE header)
      /\ Rest(n + m) /\ answer' = answer
    BY DEF Consume, Rest, outside
<1>4. n = (IF c < l THEN c ELSE l) /\ m = (IF n = c THEN IF p < l - n THEN p ELSE l - n ELSE 0)
    BY DEF Count, Padding, Least
<1>5. /\ At(i) \in Nat /\ At(k) = At(i) + Size(r) /\ Size(r) = HeaderLen + len + pad
      /\ Pos(i) = At(i) + (HeaderLen + x + (pad - p))
      /\ \A v \in 0 .. Size(r) : \A u \in 0 .. v : Part(All, At(i) + u, At(i) + v) = Part(b, u, v)
    <2>1. At(i) \in Nat /\ At(k) = At(i) + Size(r)
          /\ \A v \in 0 .. Size(r) : \A u \in 0 .. v : Part(All, At(i) + u, At(i) + v) = Part(b, u, v)
        BY <1>1, RecordPart, PosType
    <2>2. Pos(i) = At(i) + Taken(r)
        BY DEF Pos
    <2>3. Taken(r) = HeaderLen + x + (pad - p)
        BY DEF Taken
    <2>4. Size(r) = HeaderLen + len + pad
        BY DEF Size
    <2>. QED
        BY <2>1, <2>2, <2>3, <2>4
<1>6. TakenOff(T, All, fromAS, fromApp, Pos(i), q, n)
    <2>1. n \in 0 .. Len(fromAS)
        BY <1>1, <1>2, <1>4
    <2>. HIDE DEF n
    <2>. QED
        BY <2>1, FrontOfAnswer
<1>7. header # <<>> /\ Len(header) = HeaderLen /\ Len(<<>>) = 0 /\ HeaderLen \in Nat \ {0}
    BY NotYetInRecord, Lengths, EmptySeq DEF InRecord
<1>8. answer'[k] = r /\ At(i)' = At(i) /\ At(k)' = At(k)
    BY <1>3 DEF At, First, WireOf
<1>9. /\ i + 1 \in 0 .. Len(answer) /\ i < Len(answer) /\ i \in 0 .. Len(answer)
      /\ Len(answer) \in Nat
    BY <1>1, AllIs
<1>10. header = Part(b, 0, Len(header))
    BY <1>7 DEF Reads
<1>11. Pos(i)' = At(i) + IF InRecord' THEN Taken(r)' ELSE Len(header')
    BY <1>8 DEF Pos
<1>12. Taken(r)' = HeaderLen + (len - contentLen') + (pad - paddingLen')
    BY <1>3 DEF Taken
<1>13. Pos(k)' = At(k) + IF InRecord' THEN Taken(answer[k + 1])' ELSE Len(header')
    BY <1>8 DEF Pos
<1>. HIDE DEF r, b, T, c, p, n, m, l, len, pad, k
<1>14. /\ n \in Nat /\ m \in Nat /\ n + m \in 0 .. l /\ n \in 0 .. l /\ n <= c /\ m <= p
       /\ contentLen' \in Nat /\ paddingLen' \in Nat
       /\ contentLen' > 0 => m = 0 /\ paddingLen' = p /\ c > 0
       /\ n > 0 => c > 0
    BY <1>1, <1>2, <1>3, <1>4
<1>15. SubSeq(fromAS, 1, n) = Part(ContentBytes(r), x, y)
    <2>1. CASE n = 0
        <3>1. Part(ContentBytes(r), x, y) = <<>>
            <4>1. x = y /\ x \in Int
                BY <1>1, <1>3, <2>1
            <4>. HIDE DEF x, y
            <4>. QED
                BY <4>1, PartEmpty
        <3>2. SubSeq(fromAS, 1, n) = <<>>
            BY <2>1, SubSeqEmpty
        <3>. QED
            BY <3>1, <3>2
    <2>2. CASE n # 0
        <3>1. c > 0 /\ p = pad
            BY <1>1, <1>14, <2>2
        <3>2. /\ Pos(i) = At(i) + (HeaderLen + x) /\ Pos(i) + n = At(i) + (HeaderLen + y)
              /\ y \in 0 .. len /\ x \in 0 .. y
              /\ HeaderLen + y \in 0 .. Size(r) /\ HeaderLen + x \in 0 .. HeaderLen + y
            BY <1>1, <1>3, <1>5, <1>7, <1>14, <3>1
        <3>3. SubSeq(fromAS, 1, n) = Part(All, Pos(i), Pos(i) + n)
            BY <1>6 DEF TakenOff
        <3>. HIDE DEF x, y
        <3>4. Part(All, At(i) + (HeaderLen + x), At(i) + (HeaderLen + y))
                  = Part(b, HeaderLen + x, HeaderLen + y)
            BY <1>5, <3>2
        <3>5. Part(b, HeaderLen + x, HeaderLen + y) = Part(ContentBytes(r), x, y)
            BY <1>1, <3>2, RecordsSized, ContentPart DEF b, len
        <3>. QED
            BY <3>2, <3>3, <3>4, <3>5
    <2>. QED
        BY <2>1, <2>2
<1>16. n + m \in 0 .. Len(fromAS) /\ Rest(n + m)
    BY <1>3, <1>14 DEF l
<1>17. CASE contentLen' = 0 /\ paddingLen' = 0
    <2>1. header' = <<>> /\ ~InRecord' /\ Len(header') = 0
        BY <1>3, <1>7, <1>17 DEF InRecord
    <2>2. Reads(k)'
        BY <1>3, <1>7, <1>9, <1>17, <2>1 DEF Reads, k
    <2>3. n = c /\ m = p
        BY <1>1, <1>3, <1>14, <1>17
    <2>4. Pos(k)' = Pos(i) + (n + m)
        BY <1>1, <1>5, <1>7, <1>13, <2>1, <2>3
    <2>5. Unread(k, q)'
        BY <1>16, <2>4, RestUnread
    <2>. QED
        BY <1>3, <1>14, <1>15, <1>17, <2>1, <2>2, <2>5 DEF r, c, n, len, k
<1>18. CASE ~(contentLen' = 0 /\ paddingLen' = 0)
    <2>1. header' = header
        BY <1>3, <1>18
    <2>2. InRecord'
        BY <1>7, <2>1 DEF InRecord
    <2>3. contentLen' <= len /\ paddingLen' <= pad /\ (contentLen' > 0 => paddingLen' = pad)
        BY <1>1, <1>3, <1>14
    <2>4. Reads(i)'
        <3>1. header' = Part(b, 0, Len(header')) /\ Len(header') \in 0 .. HeaderLen
            BY <1>7, <1>10, <2>1
        <3>. QED
            BY <1>3, <1>8, <1>9, <1>14, <2>3, <3>1 DEF Reads, r, len, pad, b, k
    <2>5. Pos(i)' = Pos(i) + (n + m)
        BY <1>1, <1>3, <1>5, <1>7, <1>11, <1>12, <1>14, <2>2
    <2>6. Unread(i, q)'
        BY <1>16, <2>5, RestUnread
    <2>. QED
        BY <1>3, <1>14, <1>15, <2>2, <2>4, <2>6 DEF r, c, n, len
<1>. QED
    BY <1>17, <1>18

LEMMA ConsumeKeepsOutput ==
    ASSUME OutputInv, InHandler, InRecord, Consume, exitStatusSet' \in BOOLEAN,
           exitStatusSet' => exitStatusSet \/ Record(header).type = "END_REQUEST",
           out' \in [Output -> Seq(Octets(Records))],
           \A t \in Output : out'[t] = IF Record(header).type = t
                                       THEN out[t] \o SubSeq(fromAS, 1, Count) ELSE out[t]
    PROVE  OutputInv'
<1>1. PICK i, q \in Nat : Reads(i) /\ Writes(i) /\ EndSeen(i) /\ Unread(i, q)
    BY DEF OutputInv
<1>. DEFINE r == answer[i + 1]
            T == Octets(Records)
            C == ContentBytes(r)
            x == r.len - contentLen
            y == r.len - contentLen'
            here == Reads(i)' /\ Unread(i, q)' /\ InRecord'
            next == Reads(i + 1)' /\ Unread(i + 1, q)' /\ ~InRecord' /\ contentLen' = 0
<1>2. answer \in Seq(Records) /\ answer' = answer /\ exit = "none" /\ exit' = exit
    BY DEF OutputInv, Consume, Rest, InHandler, outside
<1>3. /\ i \in 0 .. Len(answer) - 1 /\ Record(header) = r /\ r \in Records /\ r.len \in Nat
      /\ contentLen \in Nat /\ contentLen <= r.len
    BY <1>1, <1>2, HeaderIs
<1>4. /\ contentLen' \in Nat /\ Count \in Nat /\ contentLen' = contentLen - Count
      /\ SubSeq(fromAS, 1, Count) = Part(C, x, y)
      /\ here \/ next
    BY <1>1, <1>2, Consumes
<1>5. C \in Seq(T) /\ Len(C) = r.len
    BY <1>3, RecordsSized, ContentType
<1>6. answer'[i + 1] = r /\ i + 1 \in 0 .. Len(answer) /\ i \in 0 .. Len(answer) /\ i + 1 \in Nat
      /\ i + 1 \in 1 .. Len(answer)
    BY <1>2, <1>3, AllIs
<1>7. /\ Part(C, 0, x) \in Seq(T) /\ Part(C, x, y) \in Seq(T)
      /\ Part(C, 0, x) \o Part(C, x, y) = Part(C, 0, y) /\ (contentLen' = 0 => Part(C, 0, y) = C)
    <2>1. /\ y \in 0 .. Len(C) /\ x \in 0 .. y /\ 0 \in 0 .. x /\ x \in 0 .. Len(C)
          /\ (contentLen' = 0 => y = Len(C))
        BY <1>3, <1>4, <1>5, SMTT(30)
    <2>. HIDE DEF x, y, C, T
    <2>2. Part(C, 0, x) \in Seq(T) /\ Part(C, x, y) \in Seq(T)
        BY <1>5, <2>1, PartType
    <2>3. Part(C, 0, x) \o Part(C, x, y) = Part(C, 0, y)
        BY <1>5, <2>1, PartConcat
    <2>4. contentLen' = 0 => Part(C, 0, y) = C
        BY <1>5, <2>1, SubSeqFull DEF Part
    <2>. QED
        BY <2>2, <2>3, <2>4
<1>8. ASSUME NEW t \in Output
      PROVE  /\ here => out'[t] = OutputOf(t, i)' \o Begun(t, i)'
             /\ next => out'[t] = OutputOf(t, i + 1)' \o Begun(t, i + 1)'
    <2>. DEFINE O == OutputOf(t, i)
                P == OutputOf(t, i + 1)
    <2>1. /\ O \in Seq(T) /\ P \in Seq(T) /\ O \o <<>> = O /\ P \o <<>> = P
          /\ P = O \o (IF r.type = t THEN C ELSE <<>>)
        <3>1. O \in Seq(T) /\ P \in Seq(T)
            BY <1>2, <1>6, OutputOfStep
        <3>2. P = O \o (IF r.type = t THEN C ELSE <<>>)
            BY <1>2, <1>3, OutputOfStep
        <3>. HIDE DEF O, P
        <3>. QED
            BY <3>1, <3>2, ConcatEmptySeq
    <2>2. OutputOf(t, i)' = O /\ OutputOf(t, i + 1)' = P
        BY <1>2 DEF OutputOf
    <2>3. Begun(t, i)' = IF InRecord' /\ r.type = t THEN Part(C, 0, y) ELSE <<>>
        BY <1>2 DEF Begun
    <2>4. next => Begun(t, i + 1)' = <<>>
        BY DEF Begun
    <2>5. out[t] = O \o Begun(t, i)
        BY <1>1 DEF Writes
    <2>. HIDE DEF O, P
    <2>6. CASE r.type = t
        <3>1. Begun(t, i) = Part(C, 0, x)
            BY <2>6 DEF Begun
        <3>2. out'[t] = (O \o Part(C, 0, x)) \o Part(C, x, y)
            <4>1. out'[t] = out[t] \o SubSeq(fromAS, 1, Count)
                BY <1>3, <2>6
            <4>. HIDE DEF C, x, y, here, next
            <4>2. SubSeq(fromAS, 1, Count) = Part(C, x, y)
                BY <1>4
            <4>. QED
                BY <2>5, <3>1, <4>1, <4>2
        <3>3. \A a, b, c \in Seq(T) : (a \o b) \o c = a \o (b \o c)
            <4>1. Associates(T)
                BY Associative
            <4>. QED
                BY <4>1 DEF Associates
        <3>4. (O \o Part(C, 0, x)) \o Part(C, x, y) = O \o (Part(C, 0, x) \o Part(C, x, y))
            <4>. HIDE DEF C, x, y, T
            <4>. QED
                BY <1>7, <2>1, <3>3, SMTT(30)
        <3>5. out'[t] = O \o Part(C, 0, y)
            BY <1>7, <3>2, <3>4
        <3>6. here => out'[t] = OutputOf(t, i)' \o Begun(t, i)'
            BY <2>2, <2>3, <2>6, <3>5
        <3>7. next => out'[t] = OutputOf(t, i + 1)' \o Begun(t, i + 1)'
            <4>1. next => out'[t] = P
                BY <1>7, <2>1, <2>6, <3>5
            <4>. QED
                BY <2>1, <2>2, <2>4, <4>1
        <3>. QED
            BY <3>6, <3>7
    <2>7. CASE r.type # t
        <3>1. Begun(t, i) = <<>> /\ Begun(t, i)' = <<>>
            BY <2>3, <2>7 DEF Begun
        <3>2. out'[t] = O \o <<>>
            BY <1>3, <2>5, <2>7, <3>1
        <3>3. P = O
            BY <2>1, <2>7
        <3>. QED
            BY <2>1, <2>2, <2>4, <3>1, <3>2, <3>3
    <2>. QED
        BY <2>6, <2>7
<1>9. /\ here => Writes(i)'
      /\ next => Writes(i + 1)'
    BY <1>8 DEF Writes
<1>10. /\ here => EndSeen(i)'
       /\ next => EndSeen(i + 1)'
    <2>1. Ends' = Ends
        BY <1>2 DEF Ends
    <2>2. exitStatusSet' => \E e \in Ends : e \in Nat /\ e <= i + 1 /\ (e <= i \/ e = i + 1)
        <3>1. CASE exitStatusSet
            <4>1. PICK e \in Ends : e <= i \/ (InRecord /\ e = i + 1)
                BY <1>1, <3>1 DEF EndSeen
            <4>2. e \in Nat
                BY <1>2, LenProperties DEF Ends
            <4>3. e <= i + 1
                BY <4>1, <4>2
            <4>. QED
                BY <4>1, <4>2, <4>3
        <3>2. CASE Record(header).type = "END_REQUEST"
            <4>1. i + 1 \in DOMAIN answer
                BY <1>2, <1>6, LenProperties
            <4>2. i + 1 \in Ends
                BY <1>3, <3>2, <4>1 DEF Ends
            <4>. QED
                BY <1>6, <4>2
        <3>. QED
            BY <3>1, <3>2
    <2>. QED
        BY <2>1, <2>2 DEF EndSeen
<1>11. \E j, p \in Nat : Reads(j)' /\ Writes(j)' /\ EndSeen(j)' /\ Unread(j, p)'
    BY <1>4, <1>6, <1>9, <1>10
<1>. QED
    BY <1>2, <1>11 DEF OutputInv

LEMMA OutputStep == OutputInv /\ [Next]_vars => OutputInv'
<1>. SUFFICES ASSUME OutputInv, [Next]_vars PROVE OutputInv'
    OBVIOUS
<1>. DEFINE quiet == UNCHANGED <<answer, answered, recordVars, fromAS, fromApp>>
<1>1. ASSUME NEW how, Exit(how), how = "status" => exitStatusSet PROVE OutputInv'
    <2>1. quiet /\ exit' = how
        BY <1>1 DEF Exit, outside
    <2>. QED
        BY <1>1, <2>1, OutputUntouched
<1>2. CASE Connect
    <2>1. ASSUME ~Exit("errno") PROVE quiet /\ exit' = "none"
        <3>1. UNCHANGED <<outside, recordVars, fromAS, fromApp>> /\ exit' = "none"
            BY <1>2, <2>1 DEF Connect
        <3>. QED
            BY <3>1 DEF outside
    <2>. QED
        BY <1>1, <2>1, OutputUntouched
<1>3. CASE Select
    <2>1. quiet /\ exit' = exit
        BY <1>3 DEF Select, outside
    <2>. QED
        BY <2>1, OutputUntouched
<1>4. CASE WebServerReadHandler
    <2>1. \/ Exit("errno")
          \/ quiet /\ (exit' = "overrun" \/ exit' = exit)
        BY <1>4 DEF WebServerReadHandler, HandleInput
    <2>. QED
        BY <1>1, <2>1, OutputUntouched
<1>5. CASE AppServerWriteHandler
    <2>1. ASSUME ~Exit("errno") PROVE quiet /\ exit' = exit
        <3>1. UNCHANGED <<outside, recordVars, fromAS, fromApp>> /\ exit' = exit
            BY <1>5, <2>1 DEF AppServerWriteHandler
        <3>. QED
            BY <3>1 DEF outside
    <2>. QED
        BY <1>1, <2>1, OutputUntouched
<1>6. CASE ReadApp
    <2>1. \/ Exit(IF app = "reset" THEN "errno" ELSE "protocol")
          \/ /\ fromAS = <<>> /\ UNCHANGED <<answer, answered, recordVars, exit>>
             /\ \E n \in 1 .. Len(fromApp) :
                   fromAS' = SubSeq(fromApp, 1, n) /\ fromApp' = Drop(fromApp, n)
        <3>1. \/ Exit(IF app = "reset" THEN "errno" ELSE "protocol")
              \/ /\ Done("read") /\ UNCHANGED <<outside, recordVars, exit>>
                 /\ \E n \in 1 .. Len(fromApp) :
                       fromAS' = SubSeq(fromApp, 1, n) /\ fromApp' = Drop(fromApp, n)
            <4>. DEFINE how == IF app = "reset" THEN "errno" ELSE "protocol"
            <4>1. Exit(how) \/ /\ Done("read")
                               /\ UNCHANGED <<outside, stdinVars, recordVars, exit>>
                BY <1>6 DEF ReadApp
            <4>2. Exit(how) \/ \E n \in 1 .. Len(fromApp) :
                                  fromAS' = SubSeq(fromApp, 1, n) /\ fromApp' = Drop(fromApp, n)
                <5>1. Exit(how) \/ \E n \in 1 .. Least(BuffLen, Len(fromApp)) :
                                      fromAS' = SubSeq(fromApp, 1, n) /\ fromApp' = Drop(fromApp, n)
                    BY <1>6 DEF ReadApp
                <5>2. \E i, q \in Nat : Unread(i, q)
                    BY DEF OutputInv
                <5>3. Len(fromApp) \in Nat
                    BY <5>2, LenProperties DEF Unread
                <5>4. \A n \in 1 .. Least(BuffLen, Len(fromApp)) : n \in 1 .. Len(fromApp)
                    BY <5>3, Lengths DEF Least
                <5>. QED
                    BY <5>1, <5>4
            <4>. QED
                BY <4>1, <4>2
        <3>2. Done("read") => fromAS = <<>>
            BY DEF Done, InDoIo
        <3>3. UNCHANGED outside => UNCHANGED <<answer, answered>>
            BY DEF outside
        <3>. QED
            BY <3>1, <3>2, <3>3
    <2>2. CASE Exit(IF app = "reset" THEN "errno" ELSE "protocol")
        <3>1. (IF app = "reset" THEN "errno" ELSE "protocol") # "status"
            OBVIOUS
        <3>. QED
            BY <1>1, <2>2, <3>1
    <2>. QED
        BY <2>1, <2>2, ReadAppKeepsOutput
<1>7. CASE ReadHeader
    <2>. DEFINE h == SubSeq(fromAS, 1, Least(HeaderLen, Len(fromAS)))
    <2>1. \/ Exit("undefined") \/ Exit("protocol")
          \/ /\ InHandler /\ header = <<>> /\ header' = h
             /\ IF Len(h) = HeaderLen
                THEN contentLen' = Record(h).len /\ paddingLen' = Record(h).pad
                ELSE UNCHANGED <<contentLen, paddingLen>>
             /\ UNCHANGED <<readingEndRequestBody, exitStatusSet, out>>
             /\ Rest(Len(h))
        BY <1>7 DEF ReadHeader
    <2>2. h = SubSeq(fromAS, 1, Least(HeaderLen, Len(fromAS)))
        OBVIOUS
    <2>. HIDE DEF h
    <2>. QED
        BY <1>1, <2>1, <2>2, HeaderKeepsOutput
<1>8. CASE WriteOutput
    <2>. DEFINE u == Record(header).type
                T == Octets(Records)
                w == SubSeq(fromAS, 1, Count)
    <2>1. /\ InHandler /\ InRecord /\ u \in Output /\ Consume /\ exitStatusSet' = exitStatusSet
          /\ out' = [out EXCEPT ![u] = out[u] \o w]
        BY <1>8 DEF WriteOutput, InContent, InRecord
    <2>2. out \in [Output -> Seq(T)] /\ exitStatusSet \in BOOLEAN
        BY DEF OutputInv, Writes
    <2>3. w \in Seq(T)
        <3>1. PICK i, q \in Nat : Reads(i) /\ Unread(i, q)
            BY DEF OutputInv
        <3>2. answer \in Seq(Records)
            BY DEF OutputInv
        <3>3. Len(fromAS) \in Nat /\ contentLen \in Nat
            BY <3>1, LenProperties DEF Unread, Reads
        <3>4. Count \in 0 .. Len(fromAS)
            BY <3>3 DEF Count, Least
        <3>5. TakenOff(T, All, fromAS, fromApp, Pos(i), q, Count)
            BY <3>1, <3>2, <3>4, FrontOfAnswer
        <3>. QED
            BY <3>5 DEF TakenOff
    <2>. HIDE DEF w, u, T
    <2>4. out[u] \o w \in Seq(T)
        BY <2>1, <2>2, <2>3, ConcatProperties
    <2>. DEFINE v == out[u] \o w
    <2>. HIDE DEF v
    <2>5. v \in Seq(T) /\ out' = [out EXCEPT ![u] = v]
        BY <2>1, <2>4 DEF v
    <2>6. out' \in [Output -> Seq(T)] /\ \A t \in Output : out'[t] = IF u = t THEN v ELSE out[t]
        BY <2>1, <2>2, <2>5
    <2>7. \A t \in Output : out'[t] = IF u = t THEN out[t] \o w ELSE out[t]
        BY <2>6 DEF v
    <2>. QED
        BY <2>1, <2>2, <2>6, <2>7, ConsumeKeepsOutput DEF T, u, w
<1>9. CASE EndRequest
    <2>1. \/ Exit("undefined") \/ Exit("protocol")
          \/ Consume /\ out' = out /\ exitStatusSet' \in BOOLEAN
        BY <1>9 DEF EndRequest
    <2>2. InHandler /\ InRecord /\ Record(header).type = "END_REQUEST"
        BY <1>9 DEF EndRequest, InContent, InRecord
    <2>3. \A t \in Output : t # "END_REQUEST"
        BY DEF Output
    <2>4. out \in [Output -> Seq(Octets(Records))]
        BY DEF OutputInv, Writes
    <2>. QED
        BY <1>1, <2>1, <2>2, <2>3, <2>4, ConsumeKeepsOutput
<1>10. CASE OtherRecord
    BY <1>1, <1>10 DEF OtherRecord
<1>11. CASE ExitWithStatus
    BY <1>1, <1>11 DEF ExitWithStatus
<1>12. CASE Outside
    <2>1. UNCHANGED <<recordVars, fromAS, exit>>
        BY <1>12 DEF Outside
    <2>2. CASE AppAnswers
        BY <2>1, <2>2, AppAnswersKeepsOutput
    <2>3. CASE AppCloses
        <3>1. UNCHANGED <<answer, answered>> /\ (fromApp' = fromApp \/ fromApp' = <<>>)
            BY <2>3 DEF AppCloses
        <3>. QED
            BY <2>1, <3>1, OutputUntouched, ResetKeepsOutput
    <2>4. CASE WebServerSends \/ WebServerEnds \/ AppReads
        <3>1. UNCHANGED <<answer, answered, fromApp>>
            BY <2>4 DEF WebServerSends, WebServerEnds, AppReads
        <3>. QED
            BY <2>1, <3>1, OutputUntouched
    <2>. QED
        BY <1>12, <2>2, <2>3, <2>4 DEF Outside
<1>13. CASE UNCHANGED vars
    <2>1. quiet /\ exit' = exit
        BY <1>13 DEF vars, outside
    <2>. QED
        BY <2>1, OutputUntouched
<1>. QED
    BY <1>2, <1>3, <1>4, <1>5, <1>6, <1>7, <1>8, <1>9, <1>10, <1>11, <1>12, <1>13
       DEF Next, Bridge, AppServerReadHandler

LEMMA PrefixOfConcat ==
    ASSUME NEW S, NEW s \in Seq(S), NEW u \in Seq(S)
    PROVE  IsPrefix(s, s \o u)
<1>1. Len(s \o u) = Len(s) + Len(u) /\ Len(s) \in Nat /\ Len(u) \in Nat
    BY ConcatProperties, LenProperties
<1>2. SubSeq(s \o u, 1, Len(s)) = SubSeq(s, 1, Len(s))
    <2>1. Len(s) \in 0 .. Len(s)
        BY <1>1
    <2>. QED
        BY <2>1, TakeWithin
<1>3. Len(s) <= Len(s \o u)
    BY <1>1
<1>. QED
    BY <1>2, <1>3 DEF IsPrefix

LEMMA OutputIsWhole == OutputInv => OutputWhole
<1>. SUFFICES ASSUME OutputInv PROVE OutputWhole
    OBVIOUS
<1>1. PICK i, q \in Nat : Reads(i) /\ Writes(i) /\ EndSeen(i) /\ Unread(i, q)
    BY DEF OutputInv
<1>2. answer \in Seq(Records) /\ (exit = "status" => exitStatusSet)
    BY DEF OutputInv
<1>. DEFINE T == Octets(Records)
            r == answer[i + 1]
            n == Len(answer)
<1>3. n \in Nat /\ i \in 0 .. n /\ i \in Nat /\ n \in 0 .. n
    BY <1>1, <1>2, AllIs, PosType
<1>4. \A a, b, c \in Seq(T) : (a \o b) \o c = a \o (b \o c)
    <2>1. Associates(T)
        BY Associative
    <2>. QED
        BY <2>1 DEF Associates
<1>5. ASSUME NEW t \in Output PROVE IsPrefix(out[t], OutputOf(t, n))
    <2>. DEFINE O == OutputOf(t, i)
                A == OutputOf(t, n)
                P == OutputOf(t, i + 1)
    <2>1. O \in Seq(T) /\ A \in Seq(T) /\ out[t] = O \o Begun(t, i) /\ out[t] \in Seq(T)
        BY <1>1, <1>2, <1>3, OutputOfStep DEF Writes
    <2>2. CASE InRecord /\ r.type = t
        <3>. DEFINE C == ContentBytes(r)
                    x == r.len - contentLen
        <3>1. /\ i \in 0 .. n - 1 /\ r \in Records /\ r.len \in Nat
              /\ contentLen \in Nat /\ contentLen <= r.len
            BY <1>1, <1>2, <2>2, HeaderIs
        <3>2. C \in Seq(T) /\ Len(C) = r.len
            BY <3>1, RecordsSized, ContentType
        <3>3. P = O \o C
            BY <1>2, <2>2, <3>1, OutputOfStep
        <3>4. Begins(T, P, A)
            <4>1. i + 1 \in 0 .. n
                BY <1>3, <3>1
            <4>. QED
                BY <1>2, <1>3, <4>1, OutputOfStep
        <3>5. PICK u \in Seq(T) : A = P \o u
            BY <3>4 DEF Begins
        <3>6. Begun(t, i) = Part(C, 0, x)
            BY <2>2 DEF Begun
        <3>7. /\ x \in 0 .. Len(C) /\ 0 \in 0 .. x /\ Len(C) \in 0 .. Len(C)
            BY <3>1, <3>2
        <3>. HIDE DEF C, x, T, O, A, P
        <3>8. /\ Part(C, 0, x) \in Seq(T) /\ Part(C, x, Len(C)) \in Seq(T)
              /\ Part(C, 0, x) \o Part(C, x, Len(C)) = C
            <4>1. Part(C, 0, Len(C)) = C
                BY <3>2, SubSeqFull DEF Part
            <4>2. Part(C, 0, x) \o Part(C, x, Len(C)) = Part(C, 0, Len(C))
                BY <3>2, <3>7, PartConcat
            <4>3. Part(C, 0, x) \in Seq(T) /\ Part(C, x, Len(C)) \in Seq(T)
                BY <3>2, <3>7, PartType
            <4>. QED
                BY <4>1, <4>2, <4>3
        <3>. DEFINE a == Part(C, 0, x)
                    b == Part(C, x, Len(C))
        <3>9. a \in Seq(T) /\ b \in Seq(T) /\ a \o b = C /\ out[t] = O \o a
            BY <2>1, <3>6, <3>8
        <3>. HIDE DEF a, b
        <3>10. P = out[t] \o b
            <4>1. (O \o a) \o b = O \o (a \o b)
                BY <1>4, <2>1, <3>9, ZenonT(30)
            <4>2. P = O \o (a \o b)
                BY <3>3, <3>9
            <4>. QED
                BY <3>9, <4>1, <4>2
        <3>11. A = out[t] \o (b \o u)
            <4>1. (out[t] \o b) \o u = out[t] \o (b \o u)
                BY <1>4, <2>1, <3>5, <3>9, ZenonT(30)
            <4>. QED
                BY <3>5, <3>10, <4>1
        <3>12. b \o u \in Seq(T)
            BY <3>9, ConcatProperties
        <3>13. IsPrefix(out[t], out[t] \o (b \o u))
            <4>. DEFINE d == b \o u
            <4>1. d \in Seq(T)
                BY <3>12
            <4>. HIDE DEF d
            <4>2. IsPrefix(out[t], out[t] \o d)
                BY <2>1, <4>1, PrefixOfConcat
            <4>. QED
                BY <4>2 DEF d
        <3>. QED
            BY <3>11, <3>13 DEF A
    <2>3. CASE ~(InRecord /\ r.type = t)
        <3>1. Begun(t, i) = <<>>
            BY <2>3 DEF Begun
        <3>2. out[t] = O
            BY <2>1, <3>1, ConcatEmptySeq
        <3>3. Begins(T, O, A)
            BY <1>2, <1>3, OutputOfStep
        <3>4. PICK u \in Seq(T) : A = O \o u
            BY <3>3 DEF Begins
        <3>. HIDE DEF T, O
        <3>5. IsPrefix(O, O \o u)
            BY <2>1, <3>4, PrefixOfConcat
        <3>. QED
            BY <3>2, <3>4, <3>5
    <2>. QED
        BY <2>2, <2>3
<1>6. ASSUME NEW t \in Output, exit = "status"
      PROVE  \E e \in Ends : IsPrefix(OutputOf(t, e), out[t])
    <2>1. PICK e \in Ends : e <= i \/ (InRecord /\ e = i + 1)
        BY <1>1, <1>2, <1>6 DEF EndSeen
    <2>2. e \in 1 .. n /\ answer[e].type = "END_REQUEST" /\ t # "END_REQUEST"
        BY <1>2, LenProperties DEF Ends, Output
    <2>. DEFINE O == OutputOf(t, i)
                E == OutputOf(t, e)
                g == Begun(t, i)
    <2>3. O \in Seq(T) /\ E \in Seq(T) /\ out[t] = O \o g /\ out[t] \in Seq(T)
        <3>1. e \in 0 .. n
            BY <1>3, <2>2
        <3>. QED
            BY <1>1, <1>2, <1>3, <3>1, OutputOfStep DEF Writes
    <2>4. g \in Seq(T)
        <3>1. CASE InRecord /\ r.type = t
            <4>. DEFINE x == r.len - contentLen
            <4>1. r \in Records /\ r.len \in Nat /\ x \in 0 .. r.len /\ 0 \in 0 .. x
                BY <1>1, <1>2, <3>1, HeaderIs
            <4>2. ContentBytes(r) \in Seq(T) /\ Len(ContentBytes(r)) = r.len
                BY <4>1, RecordsSized, ContentType
            <4>3. Part(ContentBytes(r), 0, x) \in Seq(T)
                <5>. HIDE DEF x, T
                <5>. QED
                    BY <4>1, <4>2, PartType
            <4>. QED
                BY <3>1, <4>3 DEF Begun
        <3>2. CASE ~(InRecord /\ r.type = t)
            BY <3>2, EmptySeq DEF Begun
        <3>. QED
            BY <3>1, <3>2
    <2>5. CASE e <= i
        <3>1. e \in 0 .. i
            BY <1>3, <2>2, <2>5
        <3>2. Begins(T, E, O)
            BY <1>2, <1>3, <3>1, OutputOfStep
        <3>3. PICK u \in Seq(T) : O = E \o u
            BY <3>2 DEF Begins
        <3>. DEFINE d == u \o g
        <3>. HIDE DEF T, O, E, g
        <3>4. out[t] = E \o d
            BY <1>4, <2>3, <2>4, <3>3, SMTT(30)
        <3>5. d \in Seq(T)
            BY <2>4, <3>3, ConcatProperties
        <3>. HIDE DEF d
        <3>6. IsPrefix(E, E \o d)
            BY <2>3, <3>5, PrefixOfConcat
        <3>7. IsPrefix(E, out[t])
            BY <3>4, <3>6
        <3>. QED
            BY <3>7 DEF E
    <2>6. CASE ~(e <= i) /\ InRecord /\ e = i + 1
        <3>1. r.type # t /\ i \in 0 .. n - 1
            BY <1>3, <2>2, <2>6
        <3>2. E = O \o <<>>
            BY <1>2, <2>6, <3>1, OutputOfStep
        <3>3. g = <<>>
            BY <3>1 DEF Begun
        <3>4. out[t] = E
            BY <2>3, <3>2, <3>3
        <3>5. <<>> \in Seq(T) /\ E \o <<>> = E
            BY <2>3, EmptySeq, ConcatEmptySeq
        <3>. HIDE DEF T, E
        <3>6. IsPrefix(E, E \o <<>>)
            BY <2>3, <3>5, PrefixOfConcat
        <3>7. IsPrefix(E, out[t])
            BY <3>4, <3>5, <3>6
        <3>. QED
            BY <3>7 DEF E
    <2>. QED
        BY <2>1, <2>5, <2>6
<1>. QED
    BY <1>5, <1>6 DEF OutputWhole

(* The web server gets what the application wrote to each stream, in       *)
(* order, and all that came before END_REQUEST before the process exits    *)
(* with its status, wherever a read cuts content and padding; after a cut  *)
(* through a header or the body of END_REQUEST the process is out of it.   *)
THEOREM OutputArrivesWhole == Spec => []OutputWhole
<1>1. Init => OutputInv
    BY OutputInit
<1>2. OutputInv /\ [Next]_vars => OutputInv'
    BY OutputStep
<1>3. OutputInv => OutputWhole
    BY OutputIsWhole
<1>. QED
    BY <1>1, <1>2, <1>3, PTL DEF Spec

(* The variables of the bridge stay in their ranges: among them, a write   *)
(* is pending exactly when fromWS holds something, and standard input is   *)
(* read only into an empty fromWS.                                         *)
THEOREM BridgeTypeCorrect == Spec => []TypeOK
<1>1. Init => InputInv /\ OutputInv
    BY InputInit, OutputInit
<1>2. InputInv /\ OutputInv /\ [Next]_vars => InputInv' /\ OutputInv'
    BY InputStep, OutputStep
<1>3. InputInv /\ OutputInv => TypeOK
    <2>. SUFFICES ASSUME InputInv, OutputInv PROVE TypeOK
        OBVIOUS
    <2>1. PICK i \in Nat : Reads(i)
        BY DEF OutputInv
    <2>2. contentLen \in Nat /\ paddingLen \in Nat /\ Len(header) <= HeaderLen
        BY <2>1, Lengths DEF Reads
    <2>. QED
        BY <2>2 DEF TypeOK, InputInv, Posted, MayRead
<1>. QED
    BY <1>1, <1>2, <1>3, PTL DEF Spec
==============================================================================
