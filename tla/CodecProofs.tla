----------------------------- MODULE CodecProofs -----------------------------
(***************************************************************************)
(* Proofs about the codec: what CBuffers computes for every list of        *)
(* buffers, that the responses leave whole and in order, and that the      *)
(* packets are decoded as they were sent however the reads cut them.       *)
(***************************************************************************)
EXTENDS Codec, SequenceLemmas, FiniteSetTheorems

-----------------------------------------------------------------------------
(* The number of bytes before a buffer, added up buffer by buffer. *)

LEMMA BeforeStep ==
    ASSUME NEW S, NEW list \in Lists(S)
    PROVE  /\ \A k \in 1 .. Len(list) + 1 : Before(list, k) \in Nat
           /\ \A k \in 1 .. Len(list) : Before(list, k + 1) = Before(list, k) + Len(list[k])
           /\ Before(list, 1) = 0
           /\ Before(list, Len(list) + 1) = Len(FlattenSeq(list))
<1>1. Len(list) \in Nat
    BY ListType
<1>2. ASSUME NEW k \in 1 .. Len(list) + 1
      PROVE  /\ k - 1 \in 1 - 1 .. Len(list) /\ SubSeq(list, 1, k - 1) \in Lists(S)
             /\ FlattenSeq(SubSeq(list, 1, k - 1)) \in Seq(S) /\ Before(list, k) \in Nat
    <2>1. 1 \in 1 .. Len(list) + 1 /\ k - 1 \in 1 - 1 .. Len(list)
        BY <1>1
    <2>2. SubSeq(list, 1, k - 1) \in Lists(S)
        BY <2>1, ListSlice
    <2>3. /\ FlattenSeq(SubSeq(list, 1, k - 1)) \in Seq(S)
          /\ Len(FlattenSeq(SubSeq(list, 1, k - 1))) \in Nat
        BY <2>2, ListType
    <2>. QED
        BY <2>1, <2>2, <2>3 DEF Before
<1>3. ASSUME NEW k \in 1 .. Len(list)
      PROVE  Before(list, k + 1) = Before(list, k) + Len(list[k])
    <2>1. k \in 1 .. Len(list) + 1 /\ (k + 1) - 1 = k
        BY <1>1
    <2>2. FlattenSeq(SubSeq(list, 1, k)) = FlattenSeq(SubSeq(list, 1, k - 1)) \o list[k]
        BY ListNext
    <2>3. FlattenSeq(SubSeq(list, 1, k - 1)) \in Seq(S) /\ list[k] \in Seq(S)
        BY <1>2, <2>1, ListType
    <2>4. Len(FlattenSeq(SubSeq(list, 1, k)))
              = Len(FlattenSeq(SubSeq(list, 1, k - 1))) + Len(list[k])
        BY <2>2, <2>3, ConcatProperties
    <2>. QED
        BY <2>1, <2>4 DEF Before
<1>4. SubSeq(list, 1, 1 - 1) = <<>>
    BY SubSeqEmpty
<1>5. Before(list, 1) = 0
    <2>1. Len(<<>>) = 0
        BY EmptySeq
    <2>. QED
        BY <1>4, <2>1, FlattenEmpty DEF Before
<1>6. SubSeq(list, 1, (Len(list) + 1) - 1) = list
    BY <1>1, SubSeqFull DEF Lists
<1>. QED
    BY <1>2, <1>3, <1>5, <1>6 DEF Before

LEMMA BeforeMonotone ==
    ASSUME NEW S, NEW list \in Lists(S),
           NEW j \in 1 .. Len(list) + 1, NEW k \in 1 .. Len(list) + 1, j <= k
    PROVE  Before(list, j) <= Before(list, k)
<1>. DEFINE P == {d \in Nat : \A i \in 1 .. Len(list) + 1 :
                    i + d \in 1 .. Len(list) + 1 => Before(list, i) <= Before(list, i + d)}
<1>1. Len(list) \in Nat /\ \A i \in 1 .. Len(list) + 1 : Before(list, i) \in Nat
    BY BeforeStep, ListType
<1>2. 0 \in P
    BY <1>1
<1>3. ASSUME NEW d \in Nat, d \in P PROVE d + 1 \in P
    <2>. SUFFICES ASSUME NEW i \in 1 .. Len(list) + 1, i + (d + 1) \in 1 .. Len(list) + 1
                  PROVE  Before(list, i) <= Before(list, i + (d + 1))
        OBVIOUS
    <2>1. i + d \in 1 .. Len(list) /\ i + d \in 1 .. Len(list) + 1 /\ i + (d + 1) = (i + d) + 1
        BY <1>1
    <2>2. Before(list, i) <= Before(list, i + d)
        BY <1>3, <2>1
    <2>3. Before(list, (i + d) + 1) = Before(list, i + d) + Len(list[i + d])
        BY <2>1, BeforeStep
    <2>4. Len(list[i + d]) \in Nat
        BY <2>1, ListType, LenProperties
    <2>5. Before(list, i) \in Nat /\ Before(list, i + d) \in Nat
        BY <1>1, <2>1
    <2>. QED
        BY <2>1, <2>2, <2>3, <2>4, <2>5
<1>4. k - j \in Nat /\ j + (k - j) = k
    BY <1>1
<1>5. k - j \in P
    <2>. HIDE DEF P
    <2>. QED
        BY <1>2, <1>3, <1>4, Induct
<1>. QED
    BY <1>4, <1>5

(* A set of numbers that has with each one all smaller ones. *)
LEMMA InitialSegment ==
    ASSUME NEW N \in Nat, NEW W \in SUBSET (1 .. N), \A k \in W : \A j \in 1 .. k : j \in W
    PROVE  Cardinality(W) \in 0 .. N /\ W = 1 .. Cardinality(W)
<1>. DEFINE Out == {n \in Nat : n + 1 \notin W}
<1>1. N \in Out /\ Out \in SUBSET Nat
    OBVIOUS
<1>2. PICK m \in Out : \A n \in Out : m <= n
    BY <1>1, LeastIn
<1>3. m \in Nat /\ m <= N /\ m + 1 \notin W
    BY <1>1, <1>2
<1>4. ASSUME NEW k \in 1 .. m PROVE k \in W
    <2>1. k - 1 \in Nat /\ ~(m <= k - 1) /\ (k - 1) + 1 = k
        BY <1>3
    <2>. QED
        BY <1>2, <2>1
<1>5. ASSUME NEW k \in W PROVE k \in 1 .. m
    <2>1. k \in 1 .. N
        OBVIOUS
    <2>2. CASE k > m
        <3>1. m + 1 \in 1 .. k
            BY <1>3, <2>1, <2>2
        <3>. QED
            BY <1>3, <3>1
    <2>. QED
        BY <1>3, <2>1, <2>2
<1>6. W = 1 .. m
    BY <1>4, <1>5
<1>7. Cardinality(1 .. m) = m
    BY <1>3, FS_Interval
<1>. QED
    BY <1>3, <1>6, <1>7

-----------------------------------------------------------------------------
(* CBuffers::EraseFront takes the bytes it was asked to take off the front, *)
(* and no other, however the bytes are spread over buffers.                 *)

(* The buffers that go as a whole are the first ones. *)
LEMMA WholeBuffers ==
    ASSUME NEW S, NEW list \in Lists(S), NEW count \in 0 .. Len(FlattenSeq(list)),
           NEW W, W = {k \in DOMAIN list : /\ Before(list, k) < count
                                           /\ Before(list, k + 1) <= count},
           NEW m, m = Cardinality(W)
    PROVE  /\ m \in 0 .. Len(list)
           /\ Before(list, m + 1) \in 0 .. count
           /\ m < Len(list) => count - Before(list, m + 1) \in 0 .. Len(list[m + 1])
<1>1. /\ Len(list) \in Nat /\ DOMAIN list = 1 .. Len(list)
      /\ \A k \in 1 .. Len(list) : Len(list[k]) \in Nat
      /\ Len(FlattenSeq(list)) \in Nat
    BY ListType, LenProperties
<1>2. \A k \in 1 .. Len(list) + 1 : Before(list, k) \in Nat
    BY BeforeStep
<1>3. \A k \in 1 .. Len(list) : Before(list, k + 1) = Before(list, k) + Len(list[k])
    BY BeforeStep
<1>4. Before(list, 1) = 0
    BY BeforeStep
<1>5. W \in SUBSET (1 .. Len(list))
    BY <1>1
<1>6. ASSUME NEW k \in W, NEW j \in 1 .. k PROVE j \in W
    <2>1. k \in 1 .. Len(list) /\ Before(list, k) < count /\ Before(list, k + 1) <= count
        BY <1>1
    <2>2. /\ j \in 1 .. Len(list) /\ j \in 1 .. Len(list) + 1 /\ k \in 1 .. Len(list) + 1
          /\ j + 1 \in 1 .. Len(list) + 1 /\ k + 1 \in 1 .. Len(list) + 1
          /\ j <= k /\ j + 1 <= k + 1
        BY <1>1, <2>1
    <2>3. Before(list, j) <= Before(list, k)
        BY <2>2, BeforeMonotone
    <2>4. Before(list, j + 1) <= Before(list, k + 1)
        BY <2>2, BeforeMonotone
    <2>5. /\ Before(list, j) \in Nat /\ Before(list, k) \in Nat
          /\ Before(list, j + 1) \in Nat /\ Before(list, k + 1) \in Nat
        BY <1>2, <2>2
    <2>6. Before(list, j) < count /\ Before(list, j + 1) <= count
        BY <1>1, <2>1, <2>3, <2>4, <2>5
    <2>. QED
        BY <1>1, <2>2, <2>6
<1>7. m \in 0 .. Len(list) /\ W = 1 .. m
    BY <1>1, <1>5, <1>6, InitialSegment
<1>8. Before(list, m + 1) \in 0 .. count
    <2>1. CASE m = 0
        BY <1>1, <1>4, <2>1
    <2>2. CASE m # 0
        <3>0. m \in 1 .. m /\ m + 1 \in 1 .. Len(list) + 1
            BY <1>1, <1>7, <2>2
        <3>1. m \in W /\ m + 1 \in 1 .. Len(list) + 1
            BY <1>7, <3>0
        <3>2. Before(list, m + 1) <= count
            BY <3>1
        <3>. QED
            BY <1>1, <1>2, <3>1, <3>2
    <2>. QED
        BY <2>1, <2>2
<1>9. ASSUME m < Len(list) PROVE count - Before(list, m + 1) \in 0 .. Len(list[m + 1])
    <2>0. m + 1 \in 1 .. Len(list) /\ m + 1 \notin 1 .. m /\ (m + 1) + 1 \in 1 .. Len(list) + 1
        BY <1>1, <1>7, <1>9
    <2>1. m + 1 \in 1 .. Len(list) /\ m + 1 \notin W /\ (m + 1) + 1 \in 1 .. Len(list) + 1
        BY <1>7, <2>0
    <2>2. ~(Before(list, m + 1) < count /\ Before(list, (m + 1) + 1) <= count)
        BY <1>1, <2>1
    <2>3. Before(list, (m + 1) + 1) = Before(list, m + 1) + Len(list[m + 1])
        BY <1>3, <2>1
    <2>4. Before(list, m + 1) \in Nat /\ Len(list[m + 1]) \in Nat /\ count \in Nat
        BY <1>1, <1>2, <1>7, <2>1
    <2>. QED
        BY <1>8, <2>2, <2>3, <2>4
<1>. QED
    BY <1>7, <1>8, <1>9

(* What a cut of the first buffer of a list takes. *)
LEMMA CutFront ==
    ASSUME NEW S, NEW list \in Lists(S), list # <<>>, NEW over \in 0 .. Len(list[1])
    PROVE  LET left == <<Cut(list[1], over)>> \o Tail(list)
               all  == FlattenSeq(list)
           IN  left \in Lists(S) /\ FlattenSeq(left) = SubSeq(all, over + 1, Len(all))
<1>. DEFINE first == list[1]
            cut == SubSeq(first, over + 1, Len(first))
            tail == Tail(list)
<1>1. Len(list) \in Nat \ {0} /\ 1 \in 1 .. Len(list)
    BY EmptySeq DEF Lists
<1>2. first \in Seq(S) /\ Len(first) \in Nat /\ FlattenSeq(list) \in Seq(S)
    BY <1>1, ListType, LenProperties
<1>3. Cut(first, over) = cut
    <2>1. Least(over, Len(first)) = over
        BY <1>2 DEF Least
    <2>. QED
        BY <2>1 DEF Cut
<1>4. cut \in Seq(S)
    <2>1. over + 1 \in 1 .. Len(first) + 1 /\ Len(first) \in (over + 1) - 1 .. Len(first)
        BY <1>2
    <2>. QED
        BY <1>2, <2>1, Slice
<1>5. tail \in Lists(S) /\ list = <<first>> \o tail
    <2>1. tail = SubSeq(list, 2, Len(list))
        BY TailIsSubSeq DEF Lists
    <2>2. 2 \in 1 .. Len(list) + 1 /\ Len(list) \in 2 - 1 .. Len(list)
        BY <1>1
    <2>3. tail \in Lists(S)
        BY <2>1, <2>2, ListSlice
    <2>4. SubSeq(list, 1, Len(list)) = <<list[1]>> \o SubSeq(list, 1 + 1, Len(list))
        BY <1>1, SubSeqRecursiveFirst DEF Lists
    <2>5. SubSeq(list, 1, Len(list)) = list
        BY SubSeqFull DEF Lists
    <2>. QED
        BY <2>1, <2>3, <2>4, <2>5
<1>. HIDE DEF first, cut, tail
<1>6. FlattenSeq(list) = first \o FlattenSeq(tail) /\ FlattenSeq(tail) \in Seq(S)
    <2>1. <<first>> \in Lists(S) /\ FlattenSeq(<<first>>) = first
        BY <1>2, ListPair
    <2>2. FlattenSeq(<<first>> \o tail) = FlattenSeq(<<first>>) \o FlattenSeq(tail)
        BY <1>5, <2>1, ListConcat
    <2>. QED
        BY <1>5, <2>1, <2>2, ListType
<1>7. <<cut>> \o tail \in Lists(S) /\ FlattenSeq(<<cut>> \o tail) = cut \o FlattenSeq(tail)
    <2>1. <<cut>> \in Lists(S) /\ FlattenSeq(<<cut>>) = cut
        BY <1>4, ListPair
    <2>. QED
        BY <1>5, <2>1, ListConcat
<1>8. SubSeq(first \o FlattenSeq(tail), over + 1, Len(first) + Len(FlattenSeq(tail)))
          = SubSeq(first, over + 1, Len(first)) \o FlattenSeq(tail)
    <2>1. over \in 0 .. Len(first)
        BY DEF first
    <2>. QED
        BY <1>2, <1>6, <2>1, DropWithin
<1>9. Len(FlattenSeq(list)) = Len(first) + Len(FlattenSeq(tail))
    BY <1>2, <1>6, ConcatProperties
<1>10. FlattenSeq(<<cut>> \o tail) = SubSeq(FlattenSeq(list), over + 1, Len(FlattenSeq(list)))
    BY <1>6, <1>7, <1>8, <1>9 DEF cut
<1>11. <<Cut(list[1], over)>> \o Tail(list) = <<cut>> \o tail
    BY <1>3 DEF first, tail
<1>. QED
    BY <1>7, <1>10, <1>11

LEMMA EraseFrontDrops ==
    ASSUME NEW S, NEW b, b.list \in Lists(S), NEW count \in 0 .. Len(Content(b))
    PROVE  /\ EraseFront(b, count).list \in Lists(S)
           /\ Content(EraseFront(b, count)) = Part(Content(b), count, Len(Content(b)))
           /\ EraseFront(b, count).data_length = (b.data_length - count) % Word
<1>. DEFINE list == b.list
            all == FlattenSeq(list)
            W == {k \in DOMAIN list : /\ Before(list, k) < count
                                      /\ Before(list, k + 1) <= count}
            m == Cardinality(W)
            rest == SubSeq(list, m + 1, Len(list))
            over == Least(count, Len(all)) - Before(list, m + 1)
            left == IF rest = <<>> THEN <<>> ELSE <<Cut(rest[1], over)>> \o Tail(rest)
<1>1. /\ list \in Lists(S) /\ Len(list) \in Nat /\ all \in Seq(S) /\ Len(all) \in Nat
      /\ count \in 0 .. Len(all)
    BY ListType DEF Content
<1>2. EraseFront(b, count)
          = [list |-> left, data_length |-> (b.data_length - Least(count, Len(all))) % Word]
    BY DEF EraseFront, Content
<1>3. Least(count, Len(all)) = count
    BY <1>1 DEF Least
<1>4. /\ m \in 0 .. Len(list) /\ Before(list, m + 1) \in 0 .. count
      /\ m < Len(list) => count - Before(list, m + 1) \in 0 .. Len(list[m + 1])
    <2>. HIDE DEF list
    <2>. QED
        BY <1>1, WholeBuffers
<1>. HIDE DEF list, W, m
<1>5. /\ rest \in Lists(S) /\ Len(rest) = Len(list) - m
      /\ \A i \in 1 .. Len(list) - m : rest[i] = list[m + i]
    <2>1. Len(list) \in 0 .. Len(list) /\ m \in 0 .. Len(list)
        BY <1>1, <1>4
    <2>. QED
        BY <1>1, <2>1, PartOfList DEF Part
<1>6. all = FlattenSeq(SubSeq(list, 1, m)) \o FlattenSeq(rest)
    BY <1>1, <1>4, ListSplit
<1>7. /\ FlattenSeq(SubSeq(list, 1, m)) \in Seq(S)
      /\ Len(FlattenSeq(SubSeq(list, 1, m))) = Before(list, m + 1)
    <2>1. 1 \in 1 .. Len(list) + 1 /\ m \in 1 - 1 .. Len(list) /\ (m + 1) - 1 = m
        BY <1>1, <1>4
    <2>2. SubSeq(list, 1, m) \in Lists(S)
        BY <1>1, <2>1, ListSlice
    <2>. QED
        BY <2>1, <2>2, ListType DEF Before
<1>8. left \in Lists(S) /\ FlattenSeq(left) = Part(all, count, Len(all))
    <2>1. CASE rest = <<>>
        <3>1. m = Len(list)
            <4>. HIDE DEF rest
            <4>1. Len(rest) = 0
                BY <2>1, EmptySeq
            <4>. QED
                BY <1>1, <1>4, <1>5, <4>1
        <3>2. Before(list, m + 1) = Len(all)
            BY <1>1, <3>1, BeforeStep
        <3>3. count = Len(all)
            BY <1>1, <1>4, <3>2
        <3>4. Part(all, count, Len(all)) = <<>>
            BY <1>1, <3>3, PartEmpty
        <3>. QED
            BY <2>1, <3>4, FlattenEmpty, ListEmpty
    <2>2. CASE rest # <<>>
        <3>1. m < Len(list) /\ rest[1] = list[m + 1] /\ over = count - Before(list, m + 1)
            <4>1. Len(rest) # 0 /\ Len(rest) \in Nat
                <5>. HIDE DEF rest
                <5>. QED
                    BY <1>5, <2>2, ListEmpty, ListType
            <4>2. m < Len(list) /\ 1 \in 1 .. Len(list) - m
                BY <1>1, <1>4, <1>5, <4>1
            <4>. QED
                BY <1>3, <1>5, <4>2
        <3>2. over \in 0 .. Len(rest[1])
            BY <1>4, <3>1
        <3>. HIDE DEF rest, over
        <3>3. /\ <<Cut(rest[1], over)>> \o Tail(rest) \in Lists(S)
              /\ FlattenSeq(<<Cut(rest[1], over)>> \o Tail(rest))
                     = SubSeq(FlattenSeq(rest), over + 1, Len(FlattenSeq(rest)))
            BY <1>5, <2>2, <3>2, CutFront
        <3>4. FlattenSeq(rest) \in Seq(S) /\ Len(FlattenSeq(rest)) \in Nat
            BY <1>5, ListType
        <3>5. Len(all) = Before(list, m + 1) + Len(FlattenSeq(rest))
            BY <1>6, <1>7, <3>4, ConcatProperties
        <3>6. Part(all, count, Len(all))
                  = SubSeq(FlattenSeq(rest), count - Before(list, m + 1) + 1, Len(FlattenSeq(rest)))
            <4>1. count \in Before(list, m + 1) .. Before(list, m + 1) + Len(FlattenSeq(rest))
                BY <1>1, <1>4, <3>5
            <4>. QED
                BY <1>6, <1>7, <3>4, <3>5, <4>1, DropBeyond DEF Part
        <3>. QED
            BY <2>2, <3>1, <3>3, <3>6
    <2>. QED
        BY <2>1, <2>2
<1>. HIDE DEF left
<1>9. Content(EraseFront(b, count)) = FlattenSeq(left) /\ Content(b) = all
    BY <1>2 DEF Content, list
<1>. QED
    BY <1>2, <1>3, <1>8, <1>9

-----------------------------------------------------------------------------
(* CBuffers::GetData copies the bytes from pos on, as many as were asked   *)
(* for and are there, however they are spread over buffers.                *)

LEMMA Copied ==
    ASSUME NEW S, NEW c \in Seq(S), NEW prev \in Nat, NEW end \in Nat, NEW pos \in 0 .. end
    PROVE  SubSeq(c, IF pos > prev THEN pos - prev + 1 ELSE 1, Least(end - prev, Len(c)))
               = Part(c, Beyond(prev, Least(pos, prev + Len(c))),
                         Beyond(prev, Least(end, prev + Len(c))))
<1>. DEFINE from == IF pos > prev THEN pos - prev + 1 ELSE 1
            to == Least(end - prev, Len(c))
            x == Beyond(prev, Least(pos, prev + Len(c)))
            y == Beyond(prev, Least(end, prev + Len(c)))
<1>1. Len(c) \in Nat
    BY LenProperties
<1>2. from \in Int /\ to \in Int /\ x \in Int /\ y \in Int
    BY <1>1 DEF Least, Beyond
<1>3. (from = x + 1 /\ to = y) \/ (to < from /\ y <= x)
    <2>1. CASE end <= prev
        BY <1>1, <2>1 DEF Least, Beyond
    <2>2. CASE end > prev /\ pos <= prev
        BY <1>1, <2>2 DEF Least, Beyond
    <2>3. CASE pos > prev
        BY <1>1, <2>3 DEF Least, Beyond
    <2>. QED
        BY <2>1, <2>2, <2>3
<1>. HIDE DEF from, to, x, y
<1>4. CASE from = x + 1 /\ to = y
    BY <1>4 DEF Part, from, to, x, y
<1>5. CASE to < from /\ y <= x
    <2>1. SubSeq(c, from, to) = <<>> /\ Part(c, x, y) = <<>>
        BY <1>2, <1>5, SubSeqEmpty, PartEmpty
    <2>. QED
        BY <2>1 DEF from, to, x, y
<1>. QED
    BY <1>3, <1>4, <1>5

LEMMA GetDataIsPart ==
    ASSUME NEW S, NEW b, b.list \in Lists(S), b.data_length = Len(Content(b)),
           NEW pos \in Nat, NEW length \in Nat
    PROVE  GetData(b, pos, length)
               = IF pos >= Len(Content(b)) THEN <<>>
                 ELSE Part(Content(b), pos, Least(pos + length, Len(Content(b))))
<1>. DEFINE list == b.list
            n == Len(list)
            end == pos + length
            from(k) == IF pos > Before(list, k) THEN pos - Before(list, k) + 1 ELSE 1
            copied(k) == SubSeq(list[k], from(k), Least(end - Before(list, k), Len(list[k])))
            G == [k \in 1 .. n |-> copied(k)]
            A(k) == FlattenSeq(SubSeq(list, 1, k))
            B(k) == Before(list, k + 1)
            P == {k \in Nat : k \in 0 .. n =>
                     FlattenSeq(SubSeq(G, 1, k)) = Part(A(k), Least(pos, B(k)), Least(end, B(k)))}
<1>1. list \in Lists(S) /\ n \in Nat /\ DOMAIN list = 1 .. n /\ end \in Nat /\ pos \in 0 .. end
    BY ListType
<1>2. GetData(b, pos, length) = IF pos >= Len(Content(b)) THEN <<>> ELSE FlattenSeq(G)
    BY <1>1 DEF GetData
<1>. HIDE DEF list, n, end
<1>3. /\ \A k \in 0 .. n : B(k) \in Nat
      /\ \A k \in 1 .. n : B(k) = B(k - 1) + Len(list[k]) /\ B(k - 1) = Before(list, k)
      /\ B(0) = 0 /\ B(n) = Len(FlattenSeq(list))
    <2>1. /\ \A k \in 1 .. n + 1 : Before(list, k) \in Nat
          /\ \A k \in 1 .. n : Before(list, k + 1) = Before(list, k) + Len(list[k])
          /\ Before(list, 1) = 0 /\ Before(list, n + 1) = Len(FlattenSeq(list))
        BY <1>1, BeforeStep DEF n
    <2>2. /\ \A k \in 0 .. n : k + 1 \in 1 .. n + 1
          /\ \A k \in 1 .. n : (k - 1) + 1 = k
          /\ 0 + 1 = 1
        BY <1>1
    <2>. QED
        BY <2>1, <2>2
<1>4. \A k \in 0 .. n : A(k) \in Seq(S) /\ Len(A(k)) = B(k)
    <2>. TAKE k \in 0 .. n
    <2>1. 1 \in 1 .. Len(list) + 1 /\ k \in 1 - 1 .. Len(list) /\ (k + 1) - 1 = k
        BY <1>1 DEF n
    <2>2. SubSeq(list, 1, k) \in Lists(S)
        BY <1>1, <2>1, ListSlice
    <2>. QED
        BY <2>1, <2>2, ListType DEF Before
<1>5. \A k \in 1 .. n :
          /\ list[k] \in Seq(S) /\ Len(list[k]) \in Nat
          /\ copied(k) = Part(list[k], Beyond(B(k - 1), Least(pos, B(k))),
                                       Beyond(B(k - 1), Least(end, B(k))))
          /\ copied(k) \in Seq(S)
    <2>. TAKE k \in 1 .. n
    <2>1. list[k] \in Seq(S) /\ Len(list[k]) \in Nat
        BY <1>1, ListType, LenProperties DEF n
    <2>2. k - 1 \in 0 .. n /\ B(k - 1) \in Nat /\ B(k) = B(k - 1) + Len(list[k])
          /\ B(k - 1) = Before(list, k)
        <3>. HIDE DEF B, G, P, A
        <3>1. k \in 1 .. n /\ k - 1 \in 0 .. n
            BY <1>1
        <3>. QED
            BY <1>3, <2>1, <3>1
    <2>. DEFINE x == Beyond(B(k - 1), Least(pos, B(k)))
                y == Beyond(B(k - 1), Least(end, B(k)))
    <2>3. copied(k) = Part(list[k], x, y)
        <3>. SUFFICES ASSUME NEW prev \in Nat
                      PROVE  SubSeq(list[k], IF pos > prev THEN pos - prev + 1 ELSE 1,
                                             Least(end - prev, Len(list[k])))
                                 = Part(list[k], Beyond(prev, Least(pos, prev + Len(list[k]))),
                                                 Beyond(prev, Least(end, prev + Len(list[k]))))
            BY <2>2
        <3>. HIDE DEF B, G, P, A
        <3>. QED
            BY <1>1, <2>1, Copied
    <2>4. y \in 0 .. Len(list[k]) /\ x \in 0 .. y
        <3>. HIDE DEF B, G, P, A
        <3>. QED
            BY <1>1, <2>1, <2>2 DEF Beyond, Least
    <2>5. Part(list[k], x, y) \in Seq(S)
        <3>. HIDE DEF x, y
        <3>. QED
            BY <2>1, <2>4, PartType
    <2>. QED
        BY <2>1, <2>3, <2>5
<1>6. G \in Lists(S) /\ Len(G) = n /\ \A k \in 1 .. n : G[k] = copied(k)
    <2>1. G \in [1 .. n -> Seq(S)]
        <3>. HIDE DEF copied
        <3>. QED
            BY <1>5
    <2>2. \A k \in 1 .. n : G[k] = copied(k)
        <3>. HIDE DEF copied
        <3>. QED
            OBVIOUS
    <2>. HIDE DEF G
    <2>. QED
        BY <1>1, <2>1, <2>2, FunctionIsList
<1>. HIDE DEF G, B, copied
<1>7. 0 \in P
    <2>1. SubSeq(G, 1, 0) = <<>>
        BY SubSeqEmpty
    <2>2. Least(pos, B(0)) = 0 /\ Least(end, B(0)) = 0
        BY <1>1, <1>3 DEF Least
    <2>3. Part(A(0), 0, 0) = <<>>
        BY PartEmpty
    <2>. QED
        BY <2>1, <2>2, <2>3, FlattenEmpty
<1>8. ASSUME NEW j \in Nat, j \in P PROVE j + 1 \in P
    <2>. SUFFICES ASSUME j + 1 \in 1 .. n
                  PROVE  FlattenSeq(SubSeq(G, 1, j + 1))
                             = Part(A(j + 1), Least(pos, B(j + 1)), Least(end, B(j + 1)))
        BY <1>1
    <2>. DEFINE k == j + 1
                c == list[k]
    <2>1. j \in 0 .. n /\ k \in 1 .. n /\ k - 1 = j /\ k \in 0 .. n
        BY <1>1
    <2>2. FlattenSeq(SubSeq(G, 1, j)) = Part(A(j), Least(pos, B(j)), Least(end, B(j)))
        BY <1>8, <2>1
    <2>. HIDE DEF k
    <2>3. FlattenSeq(SubSeq(G, 1, k)) = FlattenSeq(SubSeq(G, 1, j)) \o copied(k)
        BY <1>6, <2>1, ListNext
    <2>4. A(k) = A(j) \o c
        BY <1>1, <2>1, ListNext DEF n
    <2>5. A(j) \in Seq(S) /\ Len(A(j)) = B(j) /\ c \in Seq(S) /\ Len(c) \in Nat
        BY <1>4, <1>5, <2>1
    <2>6. B(j) \in Nat /\ B(k) = B(j) + Len(c)
        BY <1>3, <2>1
    <2>. DEFINE x == Least(pos, B(k))
                y == Least(end, B(k))
    <2>7. /\ y \in 0 .. B(j) + Len(c) /\ x \in 0 .. y
          /\ Within(B(j), x) = Least(pos, B(j)) /\ Within(B(j), y) = Least(end, B(j))
        BY <1>1, <2>5, <2>6, SMTT(30) DEF Within, Least
    <2>8. copied(k) = Part(c, Beyond(B(j), x), Beyond(B(j), y))
        BY <1>5, <2>1
    <2>. HIDE DEF x, y, c, A
    <2>9. Part(A(j) \o c, x, y)
              = Part(A(j), Within(B(j), x), Within(B(j), y))
                    \o Part(c, Beyond(B(j), x), Beyond(B(j), y))
        <3>1. y \in 0 .. Len(A(j)) + Len(c) /\ x \in 0 .. y
            BY <2>5, <2>7
        <3>2. Part(A(j) \o c, x, y)
                  = Part(A(j), Within(Len(A(j)), x), Within(Len(A(j)), y))
                        \o Part(c, Beyond(Len(A(j)), x), Beyond(Len(A(j)), y))
            BY <2>5, <3>1, PartOfConcat
        <3>. QED
            BY <2>5, <3>2
    <2>10. FlattenSeq(SubSeq(G, 1, k)) = Part(A(k), x, y)
        BY <2>2, <2>3, <2>4, <2>7, <2>8, <2>9
    <2>. QED
        BY <2>10 DEF k, x, y
<1>9. n \in P
    <2>. HIDE DEF P
    <2>. QED
        BY <1>1, <1>7, <1>8, Induct
<1>10. SubSeq(G, 1, n) = G /\ A(n) = FlattenSeq(list)
    <2>1. SubSeq(G, 1, n) = G
        BY <1>6, SubSeqFull DEF Lists
    <2>2. SubSeq(list, 1, n) = list
        BY <1>1, SubSeqFull DEF Lists, n
    <2>. QED
        BY <2>1, <2>2
<1>11. FlattenSeq(G)
           = Part(FlattenSeq(list), Least(pos, Len(FlattenSeq(list))), Least(end, Len(FlattenSeq(list))))
    <2>1. n \in 0 .. n
        BY <1>1
    <2>2. FlattenSeq(SubSeq(G, 1, n)) = Part(A(n), Least(pos, B(n)), Least(end, B(n)))
        BY <1>9, <2>1
    <2>3. B(n) = Len(FlattenSeq(list))
        BY <1>3
    <2>. HIDE DEF A
    <2>. QED
        BY <1>10, <2>2, <2>3
<1>12. pos < Len(FlattenSeq(list)) => Least(pos, Len(FlattenSeq(list))) = pos
    BY DEF Least
<1>13. Content(b) = FlattenSeq(list) /\ Len(FlattenSeq(list)) \in Nat
    BY <1>1, ListType DEF Content, list
<1>14. CASE pos >= Len(Content(b))
    BY <1>2, <1>14
<1>15. CASE pos < Len(Content(b))
    BY <1>2, <1>11, <1>12, <1>13, <1>15 DEF end
<1>. QED
    BY <1>13, <1>14, <1>15

-----------------------------------------------------------------------------
(* The stream of a client as bytes. *)

Octets == Nat \X Nat

SizeOf(s, k) == HeaderSize + DataLength(s[k])

LEMMA BytesType ==
    ASSUME NEW i \in Nat, NEW size \in Nat
    PROVE  /\ Bytes(i, size) \in Seq(Octets) /\ Len(Bytes(i, size)) = size
           /\ \A k \in 1 .. size : Bytes(i, size)[k] = <<i, k>>
<1>1. Bytes(i, size) \in [1 .. size -> Octets]
    BY DEF Bytes, Octets
<1>2. \A k \in 1 .. size : Bytes(i, size)[k] = <<i, k>>
    BY DEF Bytes
<1>. QED
    BY <1>1, <1>2, FunctionIsSeq

LEMMA BytesPart ==
    ASSUME NEW i \in Nat, NEW size \in Nat, NEW k \in 0 .. size
    PROVE  Part(Bytes(i, size), 0, k) = Bytes(i, k)
<1>1. /\ Bytes(i, size) \in Seq(Octets) /\ Len(Bytes(i, size)) = size
      /\ \A j \in 1 .. size : Bytes(i, size)[j] = <<i, j>>
    BY BytesType
<1>2. /\ Bytes(i, k) \in Seq(Octets) /\ Len(Bytes(i, k)) = k
      /\ \A j \in 1 .. k : Bytes(i, k)[j] = <<i, j>>
    BY BytesType
<1>3. k \in 0 .. Len(Bytes(i, size)) /\ 0 \in 0 .. k /\ k - 0 = k
    BY <1>1
<1>. DEFINE x == Bytes(i, size)
<1>. HIDE DEF x
<1>4. /\ Part(x, 0, k) \in Seq(Octets) /\ Len(Part(x, 0, k)) = k - 0
      /\ \A j \in 1 .. k - 0 : Part(x, 0, k)[j] = x[0 + j]
    BY <1>1, <1>3, PartType DEF x
<1>5. \A j \in 1 .. k : j \in 1 .. size /\ 0 + j = j
    OBVIOUS
<1>6. \A j \in 1 .. k : Part(x, 0, k)[j] = Bytes(i, k)[j]
    BY <1>1, <1>2, <1>3, <1>4, <1>5 DEF x
<1>7. Part(x, 0, k) = Bytes(i, k)
    BY <1>2, <1>3, <1>4, <1>6, SeqEqual
<1>. QED
    BY <1>7 DEF x

LEMMA LengthType ==
    ASSUME NEW s \in Seq(ProtocolHeader), NEW k \in 1 .. Len(s)
    PROVE  DataLength(s[k]) \in Nat /\ SizeOf(s, k) \in Nat /\ HeaderSize <= SizeOf(s, k)
           /\ HeaderSize \in Nat \ {0} /\ k \in Nat
<1>1. s[k] \in ProtocolHeader
    BY ElementOfSeq
<1>2. s[k].data_length \in Nat
    BY <1>1 DEF ProtocolHeader
<1>3. \A n \in Nat : n % 256 \in Nat /\ n \div 256 \in Nat /\ n % 65536 \in Nat /\ n \div 65536 \in Nat
    OBVIOUS
<1>4. \A n \in Nat : ntohs(n) \in Nat
    BY <1>3 DEF ntohs
<1>5. \A n \in Nat : ntohl(n) \in Nat
    <2>1. \A x, y \in Nat : x * 65536 + y \in Nat
        OBVIOUS
    <2>. TAKE n \in Nat
    <2>2. ntohs(n % 65536) \in Nat /\ ntohs(n \div 65536) \in Nat
        BY <1>3, <1>4, SMTT(30)
    <2>3. ntohl(n) = ntohs(n % 65536) * 65536 + ntohs(n \div 65536)
        BY DEF ntohl
    <2>. HIDE DEF ntohs
    <2>. QED
        BY <2>1, <2>2, <2>3
<1>6. HeaderSize \in Nat \ {0} /\ k \in Nat
    BY CodecAssumption
<1>7. DataLength(s[k]) \in Nat
    BY <1>2, <1>5 DEF DataLength
<1>. QED
    BY <1>6, <1>7 DEF SizeOf

LEMMA PacketsStep ==
    ASSUME NEW s \in Seq(ProtocolHeader)
    PROVE  /\ PacketsOf(s, 0) = <<>>
           /\ \A k \in 0 .. Len(s) : PacketsOf(s, k) \in Seq(Octets) /\ Len(PacketsOf(s, k)) \in Nat
           /\ \A k \in 1 .. Len(s) :
                 /\ PacketsOf(s, k) = PacketsOf(s, k - 1) \o Bytes(k, SizeOf(s, k))
                 /\ Len(PacketsOf(s, k)) = Len(PacketsOf(s, k - 1)) + SizeOf(s, k)
<1>. DEFINE L(k) == [i \in 1 .. k |-> Bytes(i, SizeOf(s, i))]
<1>1. Len(s) \in Nat
    BY LenProperties
<1>2. ASSUME NEW k \in 0 .. Len(s)
      PROVE  /\ L(k) \in Lists(Octets) /\ Len(L(k)) = k
             /\ \A i \in 1 .. k : L(k)[i] = Bytes(i, SizeOf(s, i))
             /\ PacketsOf(s, k) = FlattenSeq(L(k))
    <2>1. \A i \in 1 .. k : Bytes(i, SizeOf(s, i)) \in Seq(Octets)
        <3>. TAKE i \in 1 .. k
        <3>1. i \in 1 .. Len(s)
            BY <1>1
        <3>. QED
            BY <3>1, LengthType, BytesType
    <2>2. L(k) \in [1 .. k -> Seq(Octets)]
        BY <2>1
    <2>3. \A i \in 1 .. k : L(k)[i] = Bytes(i, SizeOf(s, i))
        OBVIOUS
    <2>4. PacketsOf(s, k) = FlattenSeq(L(k))
        BY DEF PacketsOf, SizeOf
    <2>5. k \in Nat
        OBVIOUS
    <2>. HIDE DEF L
    <2>. QED
        BY <2>2, <2>3, <2>4, <2>5, FunctionIsList
<1>3. L(0) = <<>>
    <2>. HIDE DEF L
    <2>. QED
        BY <1>1, <1>2, ListEmpty
<1>. HIDE DEF L
<1>4. PacketsOf(s, 0) = <<>>
    BY <1>1, <1>2, <1>3, FlattenEmpty
<1>5. \A k \in 0 .. Len(s) : PacketsOf(s, k) \in Seq(Octets) /\ Len(PacketsOf(s, k)) \in Nat
    BY <1>2, ListType
<1>6. ASSUME NEW k \in 1 .. Len(s)
      PROVE  /\ PacketsOf(s, k) = PacketsOf(s, k - 1) \o Bytes(k, SizeOf(s, k))
             /\ Len(PacketsOf(s, k)) = Len(PacketsOf(s, k - 1)) + SizeOf(s, k)
    <2>1. k - 1 \in 0 .. Len(s) /\ k \in 0 .. Len(s) /\ (k - 1) + 1 = k /\ k \in 1 .. k
        BY <1>1
    <2>2. \A i \in 1 .. k - 1 : i \in 1 .. k
        OBVIOUS
    <2>3. /\ L(k - 1) \in Lists(Octets) /\ L(k) \in Lists(Octets) /\ Len(L(k)) = Len(L(k - 1)) + 1
          /\ \A i \in 1 .. Len(L(k - 1)) : L(k - 1)[i] = L(k)[i]
        BY <1>2, <2>1, <2>2
    <2>4. FlattenSeq(L(k)) = FlattenSeq(L(k - 1)) \o L(k)[Len(L(k))]
        BY <2>3, ListLast
    <2>5. PacketsOf(s, k) = PacketsOf(s, k - 1) \o Bytes(k, SizeOf(s, k))
        BY <1>2, <2>1, <2>4
    <2>6. Bytes(k, SizeOf(s, k)) \in Seq(Octets) /\ Len(Bytes(k, SizeOf(s, k))) = SizeOf(s, k)
        BY LengthType, BytesType
    <2>7. PacketsOf(s, k - 1) \in Seq(Octets)
        BY <1>5, <2>1
    <2>8. Len(PacketsOf(s, k - 1) \o Bytes(k, SizeOf(s, k)))
              = Len(PacketsOf(s, k - 1)) + Len(Bytes(k, SizeOf(s, k)))
        BY <2>6, <2>7, ConcatProperties
    <2>. QED
        BY <2>5, <2>6, <2>8
<1>. QED
    BY <1>4, <1>5, <1>6

(* The position after packet k in the stream, and what is between two. *)
LEMMA PacketsMonotone ==
    ASSUME NEW s \in Seq(ProtocolHeader), NEW k \in 0 .. Len(s), NEW j \in 0 .. k
    PROVE  /\ Len(PacketsOf(s, j)) <= Len(PacketsOf(s, k))
           /\ j < k => Len(PacketsOf(s, j)) < Len(PacketsOf(s, k))
           /\ \A b \in 0 .. Len(PacketsOf(s, j)), a \in 0 .. Len(PacketsOf(s, j)) :
                 a <= b => Part(PacketsOf(s, k), a, b) = Part(PacketsOf(s, j), a, b)
<1>. DEFINE Q(n) == /\ Len(PacketsOf(s, j)) <= Len(PacketsOf(s, n))
                    /\ j < n => Len(PacketsOf(s, j)) < Len(PacketsOf(s, n))
                    /\ \A b \in 0 .. Len(PacketsOf(s, j)), a \in 0 .. Len(PacketsOf(s, j)) :
                          a <= b => Part(PacketsOf(s, n), a, b) = Part(PacketsOf(s, j), a, b)
            P == {d \in Nat : j + d \in 0 .. Len(s) => Q(j + d)}
<1>1. Len(s) \in Nat /\ j \in 0 .. Len(s)
    BY LenProperties
<1>2. \A i \in 0 .. Len(s) : PacketsOf(s, i) \in Seq(Octets) /\ Len(PacketsOf(s, i)) \in Nat
    BY PacketsStep
<1>3. 0 \in P
    <2>1. Q(j)
        BY <1>1, <1>2
    <2>2. j + 0 = j
        BY <1>1
    <2>. HIDE DEF Q
    <2>. QED
        BY <2>1, <2>2
<1>4. ASSUME NEW d \in Nat, d \in P PROVE d + 1 \in P
    <2>. SUFFICES ASSUME j + (d + 1) \in 0 .. Len(s) PROVE Q(j + (d + 1))
        OBVIOUS
    <2>. DEFINE n == j + d
                c == Bytes(n + 1, SizeOf(s, n + 1))
    <2>1. n \in 0 .. Len(s) /\ n + 1 \in 1 .. Len(s) /\ (n + 1) - 1 = n /\ n + 1 = j + (d + 1)
        BY <1>1
    <2>2. Q(n)
        <3>. HIDE DEF Q
        <3>. QED
            BY <1>4, <2>1
    <2>. HIDE DEF n
    <2>3. /\ PacketsOf(s, n + 1) = PacketsOf(s, n) \o c
          /\ Len(PacketsOf(s, n + 1)) = Len(PacketsOf(s, n)) + SizeOf(s, n + 1)
        BY <2>1, PacketsStep
    <2>4. SizeOf(s, n + 1) \in Nat \ {0} /\ c \in Seq(Octets)
        BY <2>1, LengthType, BytesType, SMTT(30)
    <2>5. PacketsOf(s, n) \in Seq(Octets) /\ Len(PacketsOf(s, n)) \in Nat
          /\ Len(PacketsOf(s, j)) \in Nat
        BY <1>1, <1>2, <2>1
    <2>6. Len(PacketsOf(s, j)) < Len(PacketsOf(s, n + 1))
        BY <2>2, <2>3, <2>4, <2>5
    <2>7. ASSUME NEW b \in 0 .. Len(PacketsOf(s, j)), NEW a \in 0 .. Len(PacketsOf(s, j)), a <= b
          PROVE  Part(PacketsOf(s, n + 1), a, b) = Part(PacketsOf(s, j), a, b)
        <3>1. b \in 0 .. Len(PacketsOf(s, n)) /\ a \in 0 .. b
            BY <2>2, <2>5, <2>7
        <3>. HIDE DEF c
        <3>2. Part(PacketsOf(s, n) \o c, a, b) = Part(PacketsOf(s, n), a, b)
            BY <2>4, <2>5, <3>1, PartOfFirst
        <3>. QED
            BY <2>2, <2>3, <2>7, <3>2
    <2>8. Q(n + 1)
        BY <2>5, <2>6, <2>7, <2>3, <2>4
    <2>. HIDE DEF Q
    <2>. QED
        BY <2>1, <2>8
<1>5. k - j \in Nat /\ j + (k - j) = k /\ k \in 0 .. Len(s)
    BY <1>1
<1>6. k - j \in P
    <2>. HIDE DEF P
    <2>. QED
        BY <1>3, <1>4, <1>5, Induct
<1>7. Q(k)
    <2>. HIDE DEF Q
    <2>. QED
        BY <1>5, <1>6
<1>. QED
    BY <1>7

-----------------------------------------------------------------------------
(* What is decoded at a position where a packet of the stream begins. *)

(* What a buffer b holds when p packets were decoded and r bytes were read. *)
Holds(b, p, r) ==
    /\ stream \in Seq(ProtocolHeader)
    /\ b.list \in Lists(Octets) /\ b.data_length = Len(Content(b))
    /\ p \in 0 .. Len(stream) /\ r \in BytesOf(p) .. BytesOf(Len(stream))
    /\ Content(b) = Part(Packets(Len(stream)), BytesOf(p), r)

LEMMA StreamBytes ==
    ASSUME stream \in Seq(ProtocolHeader)
    PROVE  /\ Len(stream) \in Nat /\ BytesOf(0) = 0
           /\ \A k \in 0 .. Len(stream) : Packets(k) \in Seq(Octets) /\ BytesOf(k) \in Nat
           /\ \A k \in 1 .. Len(stream) : BytesOf(k) = BytesOf(k - 1) + SizeOf(stream, k)
           /\ \A k \in 0 .. Len(stream) : \A j \in 0 .. k :
                 BytesOf(j) <= BytesOf(k) /\ (j < k => BytesOf(j) < BytesOf(k))
<1>1. Len(stream) \in Nat
    BY LenProperties
<1>2. \A k \in 0 .. Len(stream) : Packets(k) \in Seq(Octets) /\ BytesOf(k) \in Nat
    BY PacketsStep DEF Packets, BytesOf
<1>3. \A k \in 1 .. Len(stream) : BytesOf(k) = BytesOf(k - 1) + SizeOf(stream, k)
    BY PacketsStep DEF Packets, BytesOf
<1>4. \A k \in 0 .. Len(stream) : \A j \in 0 .. k :
          BytesOf(j) <= BytesOf(k) /\ (j < k => BytesOf(j) < BytesOf(k))
    BY PacketsMonotone DEF Packets, BytesOf
<1>5. BytesOf(0) = 0
    BY PacketsStep, EmptySeq DEF Packets, BytesOf
<1>. QED
    BY <1>1, <1>2, <1>3, <1>4, <1>5

LEMMA HoldsLength ==
    ASSUME NEW b, NEW p, NEW r, Holds(b, p, r)
    PROVE  /\ Content(b) \in Seq(Octets) /\ Len(Content(b)) = r - BytesOf(p)
           /\ p \in Nat /\ r \in Nat /\ BytesOf(p) \in Nat /\ BytesOf(p) <= r
<1>1. /\ BytesOf(p) \in Nat /\ BytesOf(Len(stream)) \in Nat /\ Len(stream) \in Nat
      /\ Packets(Len(stream)) \in Seq(Octets)
    BY StreamBytes DEF Holds
<1>2. r \in 0 .. Len(Packets(Len(stream))) /\ BytesOf(p) \in 0 .. r
    BY <1>1 DEF Holds, BytesOf
<1>3. p \in Nat /\ r \in Nat /\ BytesOf(p) <= r
    BY <1>1 DEF Holds
<1>4. Content(b) = Part(Packets(Len(stream)), BytesOf(p), r)
    BY DEF Holds
<1>5. Part(Packets(Len(stream)), BytesOf(p), r) \in Seq(Octets)
      /\ Len(Part(Packets(Len(stream)), BytesOf(p), r)) = r - BytesOf(p)
    BY <1>1, <1>2, PartType
<1>. QED
    BY <1>1, <1>3, <1>4, <1>5

LEMMA GetDataLength ==
    ASSUME NEW S, NEW b, b.list \in Lists(S), b.data_length = Len(Content(b)),
           NEW pos \in Nat, NEW length \in Nat, pos + length <= Len(Content(b))
    PROVE  Len(GetData(b, pos, length)) = length
<1>1. Content(b) \in Seq(S) /\ Len(Content(b)) \in Nat
    BY ListType DEF Content
<1>2. GetData(b, pos, length)
          = IF pos >= Len(Content(b)) THEN <<>>
            ELSE Part(Content(b), pos, Least(pos + length, Len(Content(b))))
    BY GetDataIsPart
<1>3. Least(pos + length, Len(Content(b))) = pos + length
    BY <1>1 DEF Least
<1>4. CASE pos >= Len(Content(b))
    <2>1. length = 0
        BY <1>1, <1>4
    <2>. QED
        BY <1>2, <1>4, <2>1, EmptySeq
<1>5. CASE pos < Len(Content(b))
    <2>1. pos + length \in 0 .. Len(Content(b)) /\ pos \in 0 .. pos + length
          /\ (pos + length) - pos = length
        BY <1>1
    <2>. DEFINE e == pos + length
    <2>. HIDE DEF e
    <2>2. Len(Part(Content(b), pos, e)) = e - pos
        BY <1>1, <2>1, PartType DEF e
    <2>3. GetData(b, pos, length) = Part(Content(b), pos, e)
        BY <1>1, <1>2, <1>3, <1>5 DEF e
    <2>. QED
        BY <2>1, <2>2, <2>3 DEF e
<1>. QED
    BY <1>1, <1>4, <1>5

(* Positions in the stream and in the buffers differ by what was erased. *)
LEMMA Shifted ==
    \A erased, at, size, end \in Nat :
        /\ at - erased \in Int /\ (at - erased) + size \in Int /\ end - erased \in Int
        /\ at + size <= end <=> (at - erased) + size <= end - erased
OBVIOUS

(* The header of the packet there, as bytes. *)
LEMMA HeaderBytes ==
    ASSUME NEW b, NEW p, NEW r, Holds(b, p, r),
           NEW q \in p .. Len(stream), q < Len(stream), BytesOf(q) + HeaderSize <= r
    PROVE  GetData(b, BytesOf(q) - BytesOf(p), HeaderSize) = Bytes(q + 1, HeaderSize)
<1>. DEFINE k == q + 1
            pos == BytesOf(q) - BytesOf(p)
            all == Packets(Len(stream))
            c == Bytes(k, SizeOf(stream, k))
            e == BytesOf(q) + HeaderSize
<1>1. /\ stream \in Seq(ProtocolHeader) /\ b.list \in Lists(Octets)
      /\ b.data_length = Len(Content(b))
      /\ Content(b) = Part(all, BytesOf(p), r)
      /\ p \in 0 .. Len(stream) /\ r \in BytesOf(p) .. BytesOf(Len(stream))
    BY DEF Holds
<1>2. /\ Content(b) \in Seq(Octets) /\ Len(Content(b)) = r - BytesOf(p)
      /\ p \in Nat /\ r \in Nat /\ BytesOf(p) \in Nat /\ BytesOf(p) <= r
    BY HoldsLength
<1>3. /\ Len(stream) \in Nat /\ q \in 0 .. Len(stream) /\ q \in Nat
      /\ k \in 1 .. Len(stream) /\ k - 1 = q /\ k \in 0 .. Len(stream) /\ k \in Nat
      /\ p \in 0 .. q /\ q \in 0 .. k /\ q < k /\ Len(stream) \in 0 .. Len(stream)
    BY <1>1, StreamBytes
<1>. HIDE DEF k
<1>4. /\ BytesOf(q) \in Nat /\ BytesOf(p) <= BytesOf(q)
      /\ all \in Seq(Octets) /\ Packets(q) \in Seq(Octets)
      /\ BytesOf(k) = BytesOf(q) + SizeOf(stream, k)
      /\ BytesOf(k) \in Nat /\ BytesOf(Len(stream)) \in Nat
    BY <1>1, <1>3, StreamBytes
<1>5. /\ HeaderSize \in Nat \ {0} /\ SizeOf(stream, k) \in Nat
      /\ HeaderSize <= SizeOf(stream, k)
    BY <1>1, <1>3, LengthType
<1>6. GetData(b, pos, HeaderSize) = Part(Content(b), pos, pos + HeaderSize)
    <2>1. pos \in Nat /\ pos < Len(Content(b)) /\ HeaderSize \in Nat
        BY <1>2, <1>4, <1>5, SMTT(30)
    <2>2. Least(pos + HeaderSize, Len(Content(b))) = pos + HeaderSize
        <3>1. /\ pos + HeaderSize <= Len(Content(b))
              /\ pos + HeaderSize \in Int /\ Len(Content(b)) \in Int
            <4>1. /\ (BytesOf(q) - BytesOf(p)) + HeaderSize <= r - BytesOf(p)
                  /\ (BytesOf(q) - BytesOf(p)) + HeaderSize \in Int /\ r - BytesOf(p) \in Int
                BY <1>2, <1>4, <1>5, Shifted
            <4>. QED
                BY <1>2, <4>1
        <3>. QED
            BY <3>1 DEF Least
    <2>. HIDE DEF pos
    <2>3. GetData(b, pos, HeaderSize)
              = IF pos >= Len(Content(b)) THEN <<>>
                ELSE Part(Content(b), pos, Least(pos + HeaderSize, Len(Content(b))))
        BY <1>1, <2>1, GetDataIsPart
    <2>. QED
        BY <1>2, <2>1, <2>2, <2>3
<1>7. Part(Content(b), pos, pos + HeaderSize) = Part(all, BytesOf(q), e)
    <2>. DEFINE x == BytesOf(p)
                y == pos + HeaderSize
    <2>1. r \in 0 .. Len(all) /\ x \in 0 .. r /\ y \in 0 .. r - x /\ pos \in 0 .. y
        BY <1>1, <1>2, <1>4, <1>5, SMTT(30) DEF BytesOf
    <2>2. x + pos = BytesOf(q) /\ x + y = e
        BY <1>2, <1>4, <1>5, SMTT(30)
    <2>. HIDE DEF x, y, pos, e, all
    <2>3. Part(Part(all, x, r), pos, y) = Part(all, x + pos, x + y)
        BY <1>4, <2>1, PartPart
    <2>. QED
        BY <1>1, <2>2, <2>3 DEF x, y
<1>8. Part(all, BytesOf(q), e) = Part(Packets(k), BytesOf(q), e)
    <2>1. e \in 0 .. BytesOf(k) /\ BytesOf(q) \in 0 .. BytesOf(k) /\ BytesOf(q) <= e
        BY <1>4, <1>5
    <2>. HIDE DEF e
    <2>2. \A y \in 0 .. BytesOf(k), x \in 0 .. BytesOf(k) :
              x <= y => Part(all, x, y) = Part(Packets(k), x, y)
        BY <1>1, <1>3, PacketsMonotone DEF Packets, BytesOf
    <2>. QED
        BY <2>1, <2>2
<1>9. Packets(k) = Packets(q) \o c /\ c \in Seq(Octets) /\ Len(c) = SizeOf(stream, k)
    BY <1>1, <1>3, <1>5, PacketsStep, BytesType DEF Packets
<1>10. Part(Packets(q) \o c, BytesOf(q), e) = Bytes(k, HeaderSize)
    <2>. DEFINE w == Packets(q) \o c
                l == BytesOf(q)
                m == BytesOf(q) + Len(c)
    <2>1. Part(w, l, m) = c
        BY <1>4, <1>9, PartIsSecond DEF BytesOf
    <2>2. w \in Seq(Octets) /\ Len(w) = m
        BY <1>4, <1>9, ConcatProperties DEF BytesOf
    <2>3. m \in 0 .. Len(w) /\ l \in 0 .. m /\ HeaderSize \in 0 .. m - l /\ 0 \in 0 .. HeaderSize
          /\ l + 0 = l /\ l + HeaderSize = e
        BY <1>4, <1>5, <1>9, <2>2
    <2>4. Part(c, 0, HeaderSize) = Bytes(k, HeaderSize)
        BY <1>3, <1>5, BytesPart
    <2>. HIDE DEF w, l, m, c
    <2>5. Part(Part(w, l, m), 0, HeaderSize) = Part(w, l + 0, l + HeaderSize)
        BY <2>2, <2>3, PartPart
    <2>. QED
        BY <2>1, <2>3, <2>4, <2>5 DEF w, l
<1>. QED
    BY <1>6, <1>7, <1>8, <1>9, <1>10 DEF k

(* A header read in full is one of the stream's, the right one. *)
LEMMA HeaderThere ==
    ASSUME NEW b, NEW p, NEW r, Holds(b, p, r),
           NEW q \in p .. Len(stream), q < Len(stream), BytesOf(q) + HeaderSize <= r
    PROVE  /\ HeaderAt(b, BytesOf(q) - BytesOf(p)) = q + 1
           /\ DecodeHeader(b, BytesOf(q) - BytesOf(p))
                  = IF HeaderValid(stream[q + 1]) THEN HeaderSize ELSE -1
<1>. DEFINE k == q + 1
            pos == BytesOf(q) - BytesOf(p)
            at == {i \in DOMAIN stream : GetData(b, pos, HeaderSize) = Bytes(i, HeaderSize)}
<1>1. /\ stream \in Seq(ProtocolHeader) /\ b.data_length = r - BytesOf(p)
      /\ p \in Nat /\ r \in Nat /\ BytesOf(p) \in Nat
    BY HoldsLength DEF Holds
<1>2. /\ Len(stream) \in Nat /\ DOMAIN stream = 1 .. Len(stream)
      /\ q \in 0 .. Len(stream) /\ k \in 1 .. Len(stream)
    BY <1>1, LenProperties
<1>3. BytesOf(q) \in Nat /\ HeaderSize \in Nat \ {0}
    BY <1>1, <1>2, StreamBytes, CodecAssumption
<1>4. GetData(b, pos, HeaderSize) = Bytes(k, HeaderSize)
    BY HeaderBytes
<1>5. \A i \in 1 .. Len(stream) : Len(Bytes(i, HeaderSize)) = HeaderSize
                                  /\ Bytes(i, HeaderSize)[1] = <<i, 1>>
    <2>. TAKE i \in 1 .. Len(stream)
    <2>1. i \in Nat /\ HeaderSize \in Nat /\ 1 \in 1 .. HeaderSize
        BY <1>2, <1>3
    <2>. QED
        BY <2>1, BytesType
<1>. HIDE DEF k, pos
<1>6. at = {k}
    <2>1. \A i \in 1 .. Len(stream) : Bytes(k, HeaderSize) = Bytes(i, HeaderSize) => i = k
        BY <1>2, <1>5
    <2>. QED
        BY <1>2, <1>4, <2>1
<1>7. HeaderAt(b, pos) = k /\ k # 0
    <2>1. at # {} /\ (CHOOSE i \in at : TRUE) = k
        BY <1>6
    <2>. QED
        BY <1>2, <2>1 DEF HeaderAt
<1>8. ~(b.data_length < HeaderSize + pos) /\ Len(GetData(b, pos, HeaderSize)) = HeaderSize
    BY <1>1, <1>2, <1>3, <1>4, <1>5 DEF pos
<1>9. DecodeHeader(b, pos) = IF HeaderValid(stream[k]) THEN HeaderSize ELSE -1
    BY <1>7, <1>8 DEF DecodeHeader
<1>. QED
    BY <1>7, <1>9 DEF pos, k

LEMMA DecodePacketAt ==
    ASSUME NEW b, NEW p, NEW r, Holds(b, p, r), NEW q \in p .. Len(stream), BytesOf(q) <= r
    PROVE  LET pos == BytesOf(q) - BytesOf(p)
               whole == /\ q < Len(stream) /\ Decodable(q + 1) /\ BytesOf(q + 1) <= r
               bad == /\ q < Len(stream) /\ BytesOf(q) + HeaderSize <= r
                      /\ ~HeaderValid(stream[q + 1])
           IN  /\ whole => DecodePacket(b, pos) = SizeOf(stream, q + 1) /\ HeaderAt(b, pos) = q + 1
               /\ bad => DecodePacket(b, pos) = -1
               /\ ~whole /\ ~bad => DecodePacket(b, pos) = 0
<1>. DEFINE k == q + 1
            pos == BytesOf(q) - BytesOf(p)
            length == DataLength(stream[HeaderAt(b, pos)])
            body == DecodeBody(b, pos + HeaderSize, length)
<1>1. /\ stream \in Seq(ProtocolHeader) /\ b.data_length = r - BytesOf(p)
      /\ b.list \in Lists(Octets) /\ b.data_length = Len(Content(b))
      /\ p \in Nat /\ r \in Nat /\ BytesOf(p) \in Nat /\ r <= BytesOf(Len(stream))
      /\ p \in 0 .. Len(stream)
    <2>1. BytesOf(p) \in Nat /\ r \in Nat /\ p \in Nat /\ Len(Content(b)) = r - BytesOf(p)
        BY HoldsLength
    <2>2. /\ stream \in Seq(ProtocolHeader) /\ b.list \in Lists(Octets)
          /\ b.data_length = Len(Content(b))
          /\ p \in 0 .. Len(stream) /\ r \in BytesOf(p) .. BytesOf(Len(stream))
        BY DEF Holds
    <2>3. BytesOf(Len(stream)) \in Nat
        BY <2>2, StreamBytes
    <2>. QED
        BY <2>1, <2>2, <2>3
<1>2. /\ Len(stream) \in Nat /\ q \in 0 .. Len(stream) /\ q \in Nat /\ p \in 0 .. q
      /\ BytesOf(q) \in Nat /\ BytesOf(p) <= BytesOf(q) /\ pos \in Nat
    <2>1. Len(stream) \in Nat /\ q \in 0 .. Len(stream) /\ q \in Nat /\ p \in 0 .. q
        BY <1>1, StreamBytes
    <2>2. BytesOf(q) \in Nat /\ BytesOf(p) <= BytesOf(q)
        BY <1>1, <2>1, StreamBytes
    <2>. QED
        BY <1>1, <2>1, <2>2
<1>3. HeaderSize \in Nat \ {0}
    BY CodecAssumption
<1>4. DecodePacket(b, pos) = IF DecodeHeader(b, pos) <= 0 THEN DecodeHeader(b, pos)
                             ELSE IF body > 0 THEN DecodeHeader(b, pos) + body ELSE 0
    BY DEF DecodePacket
<1>. HIDE DEF k, pos
<1>5. CASE ~(q < Len(stream) /\ BytesOf(q) + HeaderSize <= r)
    <2>1. b.data_length < HeaderSize + pos
        <3>1. CASE BytesOf(q) + HeaderSize <= r
            <4>1. q = Len(stream)
                BY <1>2, <1>5, <3>1
            <4>2. r <= BytesOf(q)
                BY <1>1, <4>1
            <4>. QED
                BY <1>1, <1>2, <1>3, <3>1, <4>2
        <3>2. CASE ~(BytesOf(q) + HeaderSize <= r)
            BY <1>1, <1>2, <1>3, <3>2 DEF pos
        <3>. QED
            BY <3>1, <3>2
    <2>2. DecodePacket(b, pos) = 0
        BY <1>4, <2>1 DEF DecodeHeader
    <2>3. ~(q < Len(stream) /\ BytesOf(k) <= r)
        <3>. SUFFICES ASSUME q < Len(stream), BytesOf(k) <= r PROVE FALSE
            OBVIOUS
        <3>1. k \in 1 .. Len(stream) /\ k - 1 = q
            BY <1>2 DEF k
        <3>2. BytesOf(k) = BytesOf(q) + SizeOf(stream, k)
            BY <1>1, <3>1, StreamBytes
        <3>3. SizeOf(stream, k) \in Nat /\ HeaderSize <= SizeOf(stream, k)
            BY <1>1, <3>1, LengthType
        <3>. QED
            BY <1>1, <1>2, <1>3, <1>5, <3>2, <3>3
    <2>. QED
        BY <1>5, <2>2, <2>3 DEF pos, k
<1>6. CASE q < Len(stream) /\ BytesOf(q) + HeaderSize <= r
    <2>1. HeaderAt(b, pos) = k /\ DecodeHeader(b, pos) = IF HeaderValid(stream[k]) THEN HeaderSize ELSE -1
        BY <1>6, HeaderThere DEF pos, k
    <2>2. CASE ~HeaderValid(stream[k])
        <3>1. DecodePacket(b, pos) = -1
            BY <1>4, <2>1, <2>2
        <3>. QED
            BY <1>6, <2>2, <3>1 DEF Decodable, pos, k
    <2>3. CASE HeaderValid(stream[k])
        <3>1. k \in 1 .. Len(stream) /\ k - 1 = q
            BY <1>2, <1>6 DEF k
        <3>2. BytesOf(k) = BytesOf(q) + SizeOf(stream, k)
            BY <1>1, <3>1, StreamBytes
        <3>3. length = DataLength(stream[k]) /\ length \in Nat
              /\ SizeOf(stream, k) = HeaderSize + length
            BY <1>1, <2>1, <3>1, LengthType DEF SizeOf
        <3>. HIDE DEF length
        <3>4. DecodePacket(b, pos) = IF body > 0 THEN HeaderSize + body ELSE 0
            BY <1>3, <1>4, <2>1, <2>3
        <3>5. CASE BytesOf(k) <= r /\ length > 0
            <4>1. pos + HeaderSize \in Nat /\ pos + HeaderSize + length <= b.data_length
                <5>1. /\ BytesOf(q) + (HeaderSize + length) <= r
                      /\ HeaderSize + length \in Nat
                    BY <1>2, <1>3, <3>2, <3>3, <3>5
                <5>2. (BytesOf(q) - BytesOf(p)) + (HeaderSize + length) <= r - BytesOf(p)
                    BY <1>1, <1>2, <5>1, Shifted
                <5>3. pos \in Nat /\ pos + HeaderSize \in Nat
                      /\ pos + (HeaderSize + length) = (pos + HeaderSize) + length
                    BY <1>2, <1>3, <3>3
                <5>. QED
                    BY <1>1, <5>2, <5>3 DEF pos
            <4>2. Len(GetData(b, pos + HeaderSize, length)) = length
                <5>. DEFINE x == pos + HeaderSize
                <5>. HIDE DEF x
                <5>1. x \in Nat /\ x + length <= Len(Content(b))
                    BY <1>1, <4>1 DEF x
                <5>2. Len(GetData(b, x, length)) = length
                    BY <1>1, <3>3, <5>1, GetDataLength
                <5>. QED
                    BY <5>2 DEF x
            <4>3. ~(b.data_length < length + (pos + HeaderSize))
                BY <1>1, <1>2, <1>3, <3>3, <4>1
            <4>4. body = length
                BY <4>2, <4>3 DEF DecodeBody
            <4>5. DecodePacket(b, pos) = SizeOf(stream, k)
                BY <3>3, <3>4, <3>5, <4>4
            <4>6. Decodable(k)
                BY <2>3, <3>3, <3>5 DEF Decodable
            <4>. QED
                BY <1>6, <2>1, <2>3, <3>5, <4>5, <4>6 DEF pos, k
        <3>6. CASE ~(BytesOf(k) <= r /\ length > 0)
            <4>1. body = 0
                <5>1. CASE length = 0
                    BY <5>1 DEF DecodeBody
                <5>2. CASE length # 0
                    <6>1. b.data_length < length + (pos + HeaderSize)
                        <7>1. /\ ~(BytesOf(q) + (HeaderSize + length) <= r)
                              /\ HeaderSize + length \in Nat
                            BY <1>2, <1>3, <3>2, <3>3, <3>6, <5>2
                        <7>2. ~((BytesOf(q) - BytesOf(p)) + (HeaderSize + length) <= r - BytesOf(p))
                            BY <1>1, <1>2, <7>1, Shifted
                        <7>3. pos \in Nat /\ r - BytesOf(p) \in Int
                              /\ pos + (HeaderSize + length) = length + (pos + HeaderSize)
                              /\ pos + (HeaderSize + length) \in Int
                            BY <1>1, <1>2, <1>3, <3>3, SMTT(30)
                        <7>4. ~(pos + (HeaderSize + length) <= r - BytesOf(p))
                            BY <7>2 DEF pos
                        <7>5. r - BytesOf(p) < pos + (HeaderSize + length)
                            BY <7>3, <7>4
                        <7>. QED
                            BY <1>1, <7>3, <7>5
                    <6>. QED
                        BY <6>1 DEF DecodeBody
                <5>. QED
                    BY <5>1, <5>2
            <4>2. DecodePacket(b, pos) = 0
                BY <3>4, <4>1
            <4>3. ~(Decodable(k) /\ BytesOf(k) <= r)
                BY <3>3, <3>6 DEF Decodable
            <4>. QED
                BY <2>3, <4>2, <4>3 DEF pos, k
        <3>. QED
            BY <3>5, <3>6
    <2>. QED
        BY <2>2, <2>3
<1>. QED
    BY <1>5, <1>6

-----------------------------------------------------------------------------
(* CTcpConnection::Decode as the recursion it is: it ends, because what is *)
(* decoded is never empty and lies within the buffers.                     *)

LEMMA DecodePacketBound ==
    ASSUME stream \in Seq(ProtocolHeader), NEW b, b.data_length \in Nat,
           NEW pos \in Nat, DecodePacket(b, pos) > 0
    PROVE  DecodePacket(b, pos) \in Nat /\ pos + DecodePacket(b, pos) \in 0 .. b.data_length
<1>. DEFINE header == DecodeHeader(b, pos)
            length == DataLength(stream[HeaderAt(b, pos)])
            body == DecodeBody(b, pos + HeaderSize, length)
<1>1. HeaderSize \in Nat \ {0}
    BY CodecAssumption
<1>2. DecodePacket(b, pos) = IF header <= 0 THEN header ELSE IF body > 0 THEN header + body ELSE 0
    BY DEF DecodePacket
<1>3. header \in {0, -1, HeaderSize}
    BY DEF DecodeHeader
<1>4. header = HeaderSize
    <2>1. header <= 0 => ~(DecodePacket(b, pos) > 0)
        BY <1>1, <1>2, <1>3
    <2>. QED
        BY <1>1, <1>3, <2>1
<1>5. HeaderAt(b, pos) \in 1 .. Len(stream)
    <2>. DEFINE at == {i \in DOMAIN stream : GetData(b, pos, HeaderSize) = Bytes(i, HeaderSize)}
    <2>1. HeaderAt(b, pos) # 0
        BY <1>1, <1>4 DEF DecodeHeader
    <2>2. HeaderAt(b, pos) = IF at = {} THEN 0 ELSE CHOOSE i \in at : TRUE
        BY DEF HeaderAt
    <2>. HIDE DEF at
    <2>3. HeaderAt(b, pos) \in at
        BY <2>1, <2>2
    <2>. QED
        BY <2>3, LenProperties DEF at
<1>6. length \in Nat
    BY <1>5, LengthType
<1>. HIDE DEF header, length
<1>7. body \in {0, length} /\ (body # 0 => ~(b.data_length < length + (pos + HeaderSize)))
    BY DEF DecodeBody
<1>8. body > 0
    BY <1>1, <1>2, <1>4
<1>9. body = length /\ DecodePacket(b, pos) = HeaderSize + length
    BY <1>1, <1>2, <1>4, <1>6, <1>7, <1>8
<1>. QED
    BY <1>1, <1>6, <1>7, <1>8, <1>9

(* One round of the loop at pos, f being what the later rounds give. *)
Round(f, b, pos) ==
    LET size == DecodePacket(b, pos)
    IN  IF size > 0
        THEN [f[pos + size] EXCEPT !.packets = <<HeaderAt(b, pos)>> \o @]
        ELSE [packets |-> <<>>, length |-> IF size < 0 /\ pos = 0 THEN -1 ELSE pos]

LEMMA SameRound ==
    ASSUME NEW f, NEW g, NEW b, NEW pos,
           DecodePacket(b, pos) > 0 => f[pos + DecodePacket(b, pos)] = g[pos + DecodePacket(b, pos)]
    PROVE  Round(f, b, pos) = Round(g, b, pos)
BY DEF Round

LEMMA DecodeIsRounds ==
    ASSUME stream \in Seq(ProtocolHeader), NEW b, b.data_length \in Nat
    PROVE  \E f : /\ f = [pos \in 0 .. b.data_length |-> Round(f, b, pos)]
                  /\ Decode(b) = f[0]
<1>. DEFINE n == b.data_length
            F(f, k) == f = [pos \in k .. n |-> Round(f, b, pos)]
            P == {d \in Nat : d <= n + 1 => \E f : F(f, (n + 1) - d)}
<1>. HIDE DEF n
<1>1. n \in Nat
    BY DEF n
<1>2. 0 \in P
    <2>1. F(<<>>, n + 1)
        <3>1. (n + 1) .. n = {}
            BY <1>1
        <3>2. <<>> = [pos \in {} |-> Round(<<>>, b, pos)]
            OBVIOUS
        <3>. QED
            BY <3>1, <3>2
    <2>2. (n + 1) - 0 = n + 1
        BY <1>1
    <2>. HIDE DEF F
    <2>. QED
        BY <2>1, <2>2
<1>3. ASSUME NEW d \in Nat, d \in P PROVE d + 1 \in P
    <2>. SUFFICES ASSUME d + 1 <= n + 1 PROVE \E f : F(f, (n + 1) - (d + 1))
        BY <1>1
    <2>. DEFINE k == n - d
    <2>1. k \in Nat /\ (n + 1) - d = k + 1 /\ (n + 1) - (d + 1) = k /\ d <= n + 1
        BY <1>1
    <2>2. PICK f : F(f, k + 1)
        <3>. HIDE DEF F
        <3>. QED
            BY <1>3, <2>1
    <2>. HIDE DEF k
    <2>3. ASSUME NEW g, g = [pos \in k .. n |-> IF pos = k THEN Round(f, b, k) ELSE f[pos]]
          PROVE  F(g, k)
        <3>1. ASSUME NEW pos \in k .. n PROVE g[pos] = Round(g, b, pos)
            <4>1. Round(f, b, pos) = Round(g, b, pos)
                <5>. SUFFICES ASSUME DecodePacket(b, pos) > 0
                              PROVE  f[pos + DecodePacket(b, pos)] = g[pos + DecodePacket(b, pos)]
                    BY SameRound
                <5>1. pos \in Nat
                    BY <1>1, <2>1
                <5>2. DecodePacket(b, pos) \in Nat /\ pos + DecodePacket(b, pos) \in 0 .. n
                    BY <5>1, DecodePacketBound DEF n
                <5>3. pos + DecodePacket(b, pos) \in k .. n /\ pos + DecodePacket(b, pos) # k
                    BY <1>1, <2>1, <5>1, <5>2
                <5>. QED
                    BY <2>3, <5>3
            <4>2. CASE pos = k
                BY <2>3, <4>1, <4>2
            <4>3. CASE pos # k
                <5>1. pos \in k + 1 .. n
                    BY <1>1, <2>1, <4>3
                <5>2. f[pos] = Round(f, b, pos)
                    BY <2>2, <5>1
                <5>. QED
                    BY <2>3, <4>1, <4>3, <5>2
            <4>. QED
                BY <4>2, <4>3
        <3>. QED
            BY <2>3, <3>1
    <2>4. \E g : g = [pos \in k .. n |-> IF pos = k THEN Round(f, b, k) ELSE f[pos]]
        OBVIOUS
    <2>. HIDE DEF F
    <2>. QED
        BY <2>1, <2>3, <2>4
<1>4. \E f : F(f, 0)
    <2>1. n + 1 \in P
        <3>. HIDE DEF P
        <3>. QED
            BY <1>1, <1>2, <1>3, Induct
    <2>2. (n + 1) - (n + 1) = 0 /\ n + 1 <= n + 1
        BY <1>1
    <2>. HIDE DEF F
    <2>. QED
        BY <2>1, <2>2
<1>5. Decode(b) = (CHOOSE f : f = [pos \in 0 .. n |-> Round(f, b, pos)])[0]
    BY DEF Decode, Round, n
<1>. QED
    BY <1>4, <1>5 DEF n

(* Counting on from q + 1. *)
LEMMA RunOf ==
    ASSUME NEW q \in Nat, NEW d \in Nat
    PROVE  /\ [j \in 1 .. d |-> q + j] \in Seq(Nat) /\ Len([j \in 1 .. d |-> q + j]) = d
           /\ [j \in 1 .. 0 |-> q + j] = <<>>
           /\ <<q + 1>> \o [j \in 1 .. d |-> (q + 1) + j] = [j \in 1 .. d + 1 |-> q + j]
<1>. DEFINE R(i, n) == [j \in 1 .. n |-> i + j]
<1>1. ASSUME NEW i \in Nat, NEW n \in Nat
      PROVE  R(i, n) \in Seq(Nat) /\ Len(R(i, n)) = n /\ \A j \in 1 .. n : R(i, n)[j] = i + j
    <2>1. R(i, n) \in [1 .. n -> Nat]
        OBVIOUS
    <2>2. \A j \in 1 .. n : R(i, n)[j] = i + j
        OBVIOUS
    <2>. HIDE DEF R
    <2>. QED
        BY <2>1, <2>2, FunctionIsSeq
<1>. HIDE DEF R
<1>2. R(q, 0) = <<>>
    BY <1>1, EmptySeq
<1>3. <<q + 1>> \o R(q + 1, d) = R(q, d + 1)
    <2>. DEFINE a == <<q + 1>>
                c == R(q + 1, d)
                e == R(q, d + 1)
    <2>1. a \in Seq(Nat) /\ Len(a) = 1 /\ a[1] = q + 1
        OBVIOUS
    <2>2. c \in Seq(Nat) /\ Len(c) = d /\ \A j \in 1 .. d : c[j] = (q + 1) + j
        BY <1>1
    <2>3. e \in Seq(Nat) /\ Len(e) = d + 1 /\ \A j \in 1 .. d + 1 : e[j] = q + j
        BY <1>1
    <2>. HIDE DEF a, c, e
    <2>4. /\ a \o c \in Seq(Nat) /\ Len(a \o c) = Len(a) + Len(c)
          /\ \A j \in 1 .. Len(a) + Len(c) : (a \o c)[j] = IF j <= Len(a) THEN a[j] ELSE c[j - Len(a)]
        <3>1. a \in Seq(Nat) /\ c \in Seq(Nat)
            BY <2>1, <2>2
        <3>. QED
            BY <3>1, ConcatProperties
    <2>5. ASSUME NEW j \in 1 .. d + 1 PROVE (a \o c)[j] = e[j]
        <3>1. (a \o c)[j] = IF j <= 1 THEN a[j] ELSE c[j - 1]
            BY <2>1, <2>2, <2>4
        <3>2. CASE j = 1
            BY <2>1, <2>3, <3>1, <3>2
        <3>3. CASE j # 1
            <4>1. j - 1 \in 1 .. d /\ (q + 1) + (j - 1) = q + j /\ ~(j <= 1)
                BY <3>3
            <4>. QED
                BY <2>2, <2>3, <3>1, <4>1
        <3>. QED
            BY <3>2, <3>3
    <2>6. a \o c = e
        <3>1. Len(a \o c) = d + 1
            BY <2>1, <2>2, <2>4
        <3>2. Len(a \o c) = Len(e) /\ \A j \in 1 .. Len(a \o c) : (a \o c)[j] = e[j]
            BY <2>3, <2>5, <3>1
        <3>. QED
            BY <2>3, <2>4, <3>2, SeqEqual
    <2>. QED
        BY <2>6 DEF a, c, e
<1>. QED
    BY <1>1, <1>2, <1>3 DEF R

(* Packet m is the last one that can be decoded of the r bytes read, when *)
(* p were decoded before.                                                 *)
LastOf(p, m, r) ==
    /\ m \in p .. Len(stream) /\ BytesOf(m) <= r
    /\ \A i \in p + 1 .. m : Decodable(i)
    /\ ~(m < Len(stream) /\ Decodable(m + 1) /\ BytesOf(m + 1) <= r)

BadAt(p, m, r) ==
    m = p /\ m < Len(stream) /\ BytesOf(m) + HeaderSize <= r /\ ~HeaderValid(stream[m + 1])

LEMMA DecodeRun ==
    ASSUME NEW b, NEW p, NEW r, Holds(b, p, r), NEW m, LastOf(p, m, r)
    PROVE  Decode(b) = [packets |-> [j \in 1 .. m - p |-> p + j],
                        length |-> IF BadAt(p, m, r) THEN -1 ELSE BytesOf(m) - BytesOf(p)]
<1>. DEFINE pos(q) == BytesOf(q) - BytesOf(p)
            end == IF BadAt(p, m, r) THEN -1 ELSE BytesOf(m) - BytesOf(p)
<1>1. /\ stream \in Seq(ProtocolHeader) /\ b.data_length = r - BytesOf(p)
      /\ b.data_length \in Nat
      /\ p \in Nat /\ r \in Nat /\ BytesOf(p) \in Nat /\ p \in 0 .. Len(stream)
    BY HoldsLength DEF Holds
<1>2. /\ Len(stream) \in Nat /\ m \in p .. Len(stream) /\ m \in Nat /\ BytesOf(m) <= r
      /\ m - p \in Nat
    BY <1>1, StreamBytes DEF LastOf
<1>3. PICK f : /\ f = [x \in 0 .. b.data_length |-> Round(f, b, x)]
               /\ Decode(b) = f[0]
    BY <1>1, DecodeIsRounds
<1>. DEFINE P == {d \in Nat : \A q \in p .. m : q + d = m =>
                    f[pos(q)] = [packets |-> [j \in 1 .. d |-> q + j], length |-> end]}
<1>4. ASSUME NEW q \in p .. m
      PROVE  /\ q \in Nat /\ q \in p .. Len(stream) /\ q \in 0 .. Len(stream)
             /\ BytesOf(q) \in Nat /\ BytesOf(q) <= r /\ pos(q) \in 0 .. b.data_length
             /\ (q = p => pos(q) = 0) /\ (q # p => pos(q) # 0)
    <2>1. q \in Nat /\ q \in p .. Len(stream) /\ q \in 0 .. Len(stream) /\ p \in 0 .. q
          /\ q \in 0 .. m /\ m \in 0 .. Len(stream)
        BY <1>1, <1>2
    <2>2. /\ BytesOf(q) \in Nat /\ BytesOf(m) \in Nat /\ BytesOf(q) <= BytesOf(m)
          /\ BytesOf(p) <= BytesOf(q) /\ (p < q => BytesOf(p) < BytesOf(q))
        BY <1>1, <2>1, StreamBytes
    <2>3. BytesOf(q) <= r
        BY <1>1, <1>2, <2>2
    <2>. QED
        BY <1>1, <2>1, <2>2, <2>3
<1>5. 0 \in P
    <2>1. m \in p .. m /\ \A q \in p .. m : q + 0 = m => q = m
        BY <1>1, <1>2
    <2>2. f[pos(m)] = Round(f, b, pos(m))
        BY <1>3, <1>4, <2>1
    <2>3. [j \in 1 .. 0 |-> m + j] = <<>>
        BY <1>2, RunOf
    <2>. DEFINE bad == /\ m < Len(stream) /\ BytesOf(m) + HeaderSize <= r
                       /\ ~HeaderValid(stream[m + 1])
    <2>4. DecodePacket(b, pos(m)) = IF bad THEN -1 ELSE 0
        <3>1. ~(m < Len(stream) /\ Decodable(m + 1) /\ BytesOf(m + 1) <= r)
            BY DEF LastOf
        <3>2. m \in p .. Len(stream) /\ BytesOf(m) <= r
            BY <1>2
        <3>. QED
            BY <3>1, <3>2, DecodePacketAt
    <2>5. BadAt(p, m, r) <=> bad /\ pos(m) = 0
        BY <1>4, <2>1 DEF BadAt
    <2>6. Round(f, b, pos(m)) = [packets |-> <<>>, length |-> end]
        <3>. HIDE DEF bad
        <3>. QED
            BY <2>4, <2>5 DEF Round
    <2>. HIDE DEF pos, end
    <2>. QED
        BY <2>1, <2>2, <2>3, <2>6
<1>6. ASSUME NEW d \in Nat, d \in P PROVE d + 1 \in P
    <2>. SUFFICES ASSUME NEW q \in p .. m, q + (d + 1) = m
                  PROVE  f[pos(q)] = [packets |-> [j \in 1 .. d + 1 |-> q + j], length |-> end]
        OBVIOUS
    <2>. DEFINE k == q + 1
    <2>1. /\ q \in Nat /\ k \in p .. m /\ k + d = m /\ k \in p + 1 .. m /\ q < Len(stream)
          /\ k \in 1 .. Len(stream) /\ k - 1 = q
        BY <1>1, <1>2
    <2>2. Decodable(k) /\ BytesOf(k) <= r
        <3>. HIDE DEF k
        <3>. QED
            BY <1>4, <2>1 DEF LastOf
    <2>3. DecodePacket(b, pos(q)) = SizeOf(stream, k) /\ HeaderAt(b, pos(q)) = k
        <3>1. q \in p .. Len(stream) /\ BytesOf(q) <= r
            BY <1>4
        <3>. QED
            BY <2>1, <2>2, <3>1, DecodePacketAt
    <2>. HIDE DEF k
    <2>4. BytesOf(k) = BytesOf(q) + SizeOf(stream, k) /\ SizeOf(stream, k) \in Nat \ {0}
        BY <1>1, <2>1, StreamBytes, LengthType, SMTT(30)
    <2>5. pos(q) + DecodePacket(b, pos(q)) = pos(k) /\ DecodePacket(b, pos(q)) > 0
        BY <1>1, <1>4, <2>3, <2>4
    <2>6. f[pos(k)] = [packets |-> [j \in 1 .. d |-> k + j], length |-> end]
        <3>. HIDE DEF pos, end
        <3>. QED
            BY <1>6, <2>1
    <2>7. f[pos(q)] = Round(f, b, pos(q))
        BY <1>3, <1>4
    <2>8. Round(f, b, pos(q)) = [f[pos(k)] EXCEPT !.packets = <<k>> \o @]
        BY <2>3, <2>5 DEF Round
    <2>9. <<k>> \o [j \in 1 .. d |-> k + j] = [j \in 1 .. d + 1 |-> q + j]
        BY <2>1, RunOf DEF k
    <2>. HIDE DEF pos, end
    <2>. DEFINE R == [j \in 1 .. d |-> k + j]
                X == [packets |-> R, length |-> end]
    <2>. HIDE DEF R
    <2>10. [X EXCEPT !.packets = <<k>> \o @] = [packets |-> <<k>> \o R, length |-> end]
        <3>1. X.packets = R
            OBVIOUS
        <3>2. ASSUME NEW Y PROVE [X EXCEPT !.packets = Y] = [packets |-> Y, length |-> end]
            OBVIOUS
        <3>3. [X EXCEPT !.packets = <<k>> \o @] = [X EXCEPT !.packets = <<k>> \o X.packets]
            OBVIOUS
        <3>. HIDE DEF X
        <3>. QED
            BY <3>1, <3>2, <3>3
    <2>11. f[pos(k)] = X
        BY <2>6 DEF R
    <2>. HIDE DEF X
    <2>. QED
        BY <2>7, <2>8, <2>9, <2>10, <2>11 DEF R
<1>7. m - p \in P
    <2>. HIDE DEF P
    <2>. QED
        BY <1>2, <1>5, <1>6, Induct
<1>8. p \in p .. m /\ p + (m - p) = m
    BY <1>1, <1>2
<1>9. pos(p) = 0
    BY <1>1
<1>10. f[pos(p)] = [packets |-> [j \in 1 .. m - p |-> p + j], length |-> end]
    <2>. HIDE DEF pos, end
    <2>. QED
        BY <1>7, <1>8
<1>. QED
    BY <1>3, <1>9, <1>10

-----------------------------------------------------------------------------
(***************************************************************************)
(* The inductive invariant.  As many packets were decoded as the bytes     *)
(* read so far allow; the receive buffers hold what was read after them;   *)
(* and what writev took and the send buffers hold are the responses.       *)
(***************************************************************************)

RecvInv ==
    /\ stream \in Streams
    /\ Holds(recv, Len(tasks), BytesRead)
    /\ unread = Part(Packets(Len(stream)), BytesRead, BytesOf(Len(stream)))
    /\ tasks = [k \in 1 .. Len(tasks) |-> k]
    /\ LastOf(0, Len(tasks), BytesRead)

SendInv ==
    /\ send \in [list : Lists(Octets), data_length : 0 .. Word - 1]
    /\ wire \in Seq(Octets) /\ sent \in Seq(Nat)
    /\ owed \subseteq ToSet(tasks) /\ ToSet(sent) \subseteq ToSet(tasks)
    /\ output \in BOOLEAN /\ alive \in BOOLEAN
    /\ ResponsesWhole

LEMMA SmallModulo == ASSUME NEW w \in Nat \ {0}, NEW x \in 0 .. w - 1 PROVE x % w = x
OBVIOUS

LEMMA ModuloType == ASSUME NEW w \in Nat \ {0}, NEW x \in Int PROVE x % w \in 0 .. w - 1
OBVIOUS

-----------------------------------------------------------------------------
(* A read: what is decoded, and what is left. *)

UpTo(n) == [k \in 1 .. n |-> k]

LEMMA UpToType ==
    ASSUME NEW n \in Nat
    PROVE  /\ UpTo(n) \in Seq(Nat) /\ Len(UpTo(n)) = n /\ \A k \in 1 .. n : UpTo(n)[k] = k
           /\ ToSet(UpTo(n)) = 1 .. n
<1>1. UpTo(n) \in [1 .. n -> Nat]
    BY DEF UpTo
<1>2. \A k \in 1 .. n : UpTo(n)[k] = k
    BY DEF UpTo
<1>3. UpTo(n) \in Seq(Nat) /\ Len(UpTo(n)) = n
    BY <1>1, FunctionIsSeq
<1>4. ToSet(UpTo(n)) = 1 .. n
    BY <1>1, <1>2 DEF ToSet
<1>. QED
    BY <1>2, <1>3, <1>4

LEMMA UpToConcat ==
    ASSUME NEW p \in Nat, NEW d \in Nat
    PROVE  UpTo(p) \o [j \in 1 .. d |-> p + j] = UpTo(p + d)
<1>. DEFINE a == UpTo(p)
            c == [j \in 1 .. d |-> p + j]
            e == UpTo(p + d)
<1>1. a \in Seq(Nat) /\ Len(a) = p /\ \A k \in 1 .. p : a[k] = k
    BY UpToType
<1>2. e \in Seq(Nat) /\ Len(e) = p + d /\ \A k \in 1 .. p + d : e[k] = k
    <2>1. p + d \in Nat
        OBVIOUS
    <2>. QED
        BY <2>1, UpToType
<1>3. c \in Seq(Nat) /\ Len(c) = d
    BY RunOf
<1>4. \A j \in 1 .. d : c[j] = p + j
    OBVIOUS
<1>. HIDE DEF a, c, e
<1>5. a \in Seq(Nat) /\ c \in Seq(Nat)
    BY <1>1, <1>3
<1>6. /\ a \o c \in Seq(Nat) /\ Len(a \o c) = Len(a) + Len(c)
      /\ \A j \in 1 .. Len(a) + Len(c) : (a \o c)[j] = IF j <= Len(a) THEN a[j] ELSE c[j - Len(a)]
    BY <1>5, ConcatProperties
<1>7. ASSUME NEW j \in 1 .. p + d PROVE (a \o c)[j] = e[j]
    <2>1. (a \o c)[j] = IF j <= p THEN a[j] ELSE c[j - p]
        BY <1>1, <1>3, <1>6
    <2>2. CASE j <= p
        <3>1. j \in 1 .. p
            BY <2>2
        <3>. QED
            BY <1>1, <1>2, <2>1, <2>2, <3>1
    <2>3. CASE ~(j <= p)
        <3>1. j - p \in 1 .. d /\ p + (j - p) = j
            BY <2>3
        <3>. QED
            BY <1>2, <1>4, <2>1, <2>3, <3>1
    <2>. QED
        BY <2>2, <2>3
<1>8. Len(a \o c) = p + d
    BY <1>1, <1>3, <1>6
<1>9. Len(a \o c) = Len(e) /\ \A j \in 1 .. Len(a \o c) : (a \o c)[j] = e[j]
    BY <1>2, <1>7, <1>8
<1>10. a \o c = e
    BY <1>2, <1>6, <1>9, SeqEqual
<1>. QED
    BY <1>10 DEF a, c, e

(* There is a last packet that can be decoded. *)
LEMMA LastExists ==
    ASSUME stream \in Seq(ProtocolHeader), NEW p \in 0 .. Len(stream), NEW r \in Nat, BytesOf(p) <= r
    PROVE  \E m : LastOf(p, m, r)
<1>. DEFINE more(k) == k < Len(stream) /\ Decodable(k + 1) /\ BytesOf(k + 1) <= r
            D == {d \in Nat : ~more(p + d)}
<1>1. Len(stream) \in Nat /\ p \in Nat
    BY StreamBytes
<1>2. D \in SUBSET Nat /\ D # {}
    <2>1. Len(stream) - p \in Nat /\ p + (Len(stream) - p) = Len(stream)
        BY <1>1
    <2>2. ~more(Len(stream))
        BY <1>1
    <2>. HIDE DEF more
    <2>3. Len(stream) - p \in D
        BY <2>1, <2>2
    <2>. QED
        BY <2>3
<1>3. PICK d \in D : \A e \in D : d <= e
    <2>. HIDE DEF D
    <2>. QED
        BY <1>2, LeastIn
<1>4. d \in Nat /\ ~more(p + d)
    OBVIOUS
<1>5. \A e \in Nat : e < d => more(p + e)
    <2>. HIDE DEF more
    <2>. QED
        BY <1>3, <1>4
<1>. DEFINE m == p + d
<1>6. CASE d = 0
    <2>1. m = p /\ m \in p .. Len(stream) /\ p + 1 .. m = {}
        BY <1>1, <1>6
    <2>2. LastOf(p, m, r)
        BY <1>4, <2>1 DEF LastOf
    <2>. QED
        BY <2>2
<1>7. CASE d # 0
    <2>1. d - 1 \in Nat /\ d - 1 < d /\ (p + (d - 1)) + 1 = m
        BY <1>1, <1>4, <1>7
    <2>2. more(p + (d - 1))
        <3>. HIDE DEF more
        <3>. QED
            BY <1>5, <2>1
    <2>3. m \in p .. Len(stream) /\ BytesOf(m) <= r
        BY <1>1, <1>4, <2>1, <2>2
    <2>4. ASSUME NEW i \in p + 1 .. m PROVE Decodable(i)
        <3>1. i - (p + 1) \in Nat /\ i - (p + 1) < d /\ (p + (i - (p + 1))) + 1 = i
            BY <1>1, <1>4
        <3>2. more(p + (i - (p + 1)))
            <4>. HIDE DEF more
            <4>. QED
                BY <1>5, <3>1
        <3>. QED
            BY <3>1, <3>2
    <2>5. LastOf(p, m, r)
        BY <1>4, <2>3, <2>4 DEF LastOf
    <2>. QED
        BY <2>5
<1>. QED
    BY <1>6, <1>7

LEMMA LastFromStart ==
    ASSUME stream \in Seq(ProtocolHeader), NEW p, NEW m, NEW r0, NEW r,
           LastOf(0, p, r0), LastOf(p, m, r)
    PROVE  LastOf(0, m, r)
<1>1. Len(stream) \in Nat /\ p \in 0 .. Len(stream) /\ m \in p .. Len(stream)
    BY StreamBytes DEF LastOf
<1>2. m \in 0 .. Len(stream) /\ \A i \in 0 + 1 .. m : i \in 0 + 1 .. p \/ i \in p + 1 .. m
    BY <1>1
<1>. QED
    BY <1>2 DEF LastOf

(* What the receive buffers hold once the bytes of a read are appended. *)
LEMMA FullHolds ==
    ASSUME RecvInv, NEW n \in 1 .. Len(unread)
    PROVE  /\ Holds(PushBack(recv, SubSeq(unread, 1, n)), Len(tasks), BytesRead + n)
           /\ SubSeq(unread, n + 1, Len(unread))
                  = Part(Packets(Len(stream)), BytesRead + n, BytesOf(Len(stream)))
           /\ Len(SubSeq(unread, n + 1, Len(unread))) = Len(unread) - n
           /\ BytesRead \in Nat /\ BytesRead + n \in Nat
<1>. DEFINE all == Packets(Len(stream))
            p == Len(tasks)
            r == BytesRead
            N == BytesOf(Len(stream))
            piece == SubSeq(unread, 1, n)
            full == PushBack(recv, piece)
<1>1. /\ stream \in Streams /\ stream \in Seq(ProtocolHeader)
      /\ recv.list \in Lists(Octets) /\ recv.data_length = Len(Content(recv))
      /\ p \in 0 .. Len(stream) /\ r \in BytesOf(p) .. N
      /\ Content(recv) = Part(all, BytesOf(p), r)
      /\ unread = Part(all, r, N)
    BY DEF RecvInv, Holds
<1>2. /\ Len(stream) \in Nat /\ all \in Seq(Octets) /\ N \in Nat /\ BytesOf(p) \in Nat
      /\ Len(all) = N
    BY <1>1, StreamBytes DEF BytesOf
<1>3. N < Word /\ Word \in Nat \ {0}
    BY <1>1, StreamsAssumption, CodecAssumption DEF BytesOf, Packets
<1>. HIDE DEF all, p, r, N
<1>4. /\ Content(recv) \in Seq(Octets) /\ Len(Content(recv)) = r - BytesOf(p)
      /\ unread \in Seq(Octets) /\ Len(unread) = N - r
    <2>1. /\ r \in 0 .. Len(all) /\ BytesOf(p) \in 0 .. r
          /\ N \in 0 .. Len(all) /\ r \in 0 .. N
        BY <1>1, <1>2
    <2>2. Part(all, BytesOf(p), r) \in Seq(Octets) /\ Len(Part(all, BytesOf(p), r)) = r - BytesOf(p)
        BY <1>2, <2>1, PartType
    <2>3. Part(all, r, N) \in Seq(Octets) /\ Len(Part(all, r, N)) = N - r
        BY <1>2, <2>1, PartType
    <2>. QED
        BY <1>1, <2>2, <2>3
<1>5. r \in Nat /\ n \in Nat /\ n >= 1 /\ r + n \in BytesOf(p) .. N /\ r + n \in Nat /\ BytesOf(p) <= r
    BY <1>1, <1>2, <1>4
<1>6. piece = Part(all, r, r + n)
    <2>1. N \in 0 .. Len(all) /\ r \in 0 .. N /\ n \in 0 .. N - r /\ 0 \in 0 .. n /\ r + 0 = r
        BY <1>1, <1>2, <1>5
    <2>2. Part(Part(all, r, N), 0, n) = Part(all, r + 0, r + n)
        BY <1>2, <2>1, PartPart
    <2>3. piece = Part(unread, 0, n)
        BY DEF Part
    <2>. QED
        BY <1>1, <2>1, <2>2, <2>3
<1>7. SubSeq(unread, n + 1, Len(unread)) = Part(all, r + n, N)
    <2>. DEFINE y == N - r
    <2>1. N \in 0 .. Len(all) /\ r \in 0 .. N /\ y \in 0 .. N - r /\ n \in 0 .. y /\ r + y = N
        BY <1>1, <1>2, <1>5
    <2>. HIDE DEF y
    <2>2. Part(Part(all, r, N), n, y) = Part(all, r + n, r + y)
        BY <1>2, <2>1, PartPart
    <2>3. SubSeq(unread, n + 1, Len(unread)) = Part(unread, n, y)
        BY <1>4 DEF Part, y
    <2>. QED
        BY <1>1, <2>1, <2>2, <2>3
<1>8. Len(SubSeq(unread, n + 1, Len(unread))) = Len(unread) - n
    <2>. DEFINE v == r + n
    <2>1. N \in 0 .. Len(all) /\ v \in 0 .. N /\ N - v = Len(unread) - n
        BY <1>1, <1>2, <1>4, <1>5
    <2>. HIDE DEF v
    <2>2. Len(Part(all, v, N)) = N - v
        BY <1>2, <2>1, PartType
    <2>. QED
        BY <1>7, <2>1, <2>2 DEF v
<1>9. piece \in Seq(Octets) /\ Len(piece) = n
    <2>. DEFINE v == r + n
    <2>1. v \in 0 .. Len(all) /\ r \in 0 .. v /\ v - r = n
        BY <1>1, <1>2, <1>5
    <2>. HIDE DEF v, piece
    <2>2. Part(all, r, v) \in Seq(Octets) /\ Len(Part(all, r, v)) = v - r
        BY <1>2, <2>1, PartType
    <2>. QED
        BY <1>6, <2>1, <2>2 DEF v
<1>. HIDE DEF piece
<1>10. full.list = Append(recv.list, piece) /\ full.data_length = (recv.data_length + n) % Word
    BY <1>9 DEF PushBack
<1>11. full.list \in Lists(Octets) /\ Content(full) = Content(recv) \o piece
    <2>. HIDE DEF full
    <2>1. /\ Append(recv.list, piece) \in Lists(Octets)
          /\ FlattenSeq(Append(recv.list, piece)) = FlattenSeq(recv.list) \o piece
        BY <1>1, <1>9, ListAppend
    <2>. QED
        BY <1>10, <2>1 DEF Content
<1>12. Content(full) = Part(all, BytesOf(p), r + n)
    <2>. DEFINE v == r + n
    <2>1. v \in 0 .. Len(all) /\ r \in 0 .. v /\ BytesOf(p) \in 0 .. r
        BY <1>1, <1>2, <1>5
    <2>. HIDE DEF v
    <2>2. Part(all, BytesOf(p), r) \o Part(all, r, v) = Part(all, BytesOf(p), v)
        BY <1>2, <2>1, PartConcat
    <2>. QED
        BY <1>1, <1>6, <1>11, <2>2 DEF v
<1>13. full.data_length = Len(Content(full))
    <2>1. Len(Content(full)) = (r - BytesOf(p)) + n
        BY <1>4, <1>9, <1>11, ConcatProperties
    <2>2. recv.data_length + n = (r - BytesOf(p)) + n /\ (r - BytesOf(p)) + n \in 0 .. Word - 1
        BY <1>1, <1>2, <1>3, <1>4, <1>5, SMTT(30)
    <2>. QED
        BY <1>3, <1>10, <2>1, <2>2, SmallModulo
<1>14. Holds(full, p, r + n)
    BY <1>1, <1>5, <1>11, <1>12, <1>13 DEF Holds, all, N
<1>. QED
    BY <1>5, <1>7, <1>8, <1>14 DEF all, p, r, N, piece

(* A read of n bytes: m is the last packet decoded then, and bad says that *)
(* the header in front is there and not valid.                             *)
LEMMA InputStep ==
    ASSUME RecvInv, NEW n, InputNotify(n)
    PROVE  \E m :
             LET p    == Len(tasks)
                 r    == BytesRead + n
                 full == PushBack(recv, SubSeq(unread, 1, n))
             IN  /\ LastOf(p, m, r) /\ LastOf(0, m, r) /\ m \in Nat /\ p \in Nat
                 /\ Holds(full, p, r)
                 /\ Holds(recv', m, r)
                 /\ recv'.data_length \in 0 .. Word - 1
                 /\ unread' = Part(Packets(Len(stream)), r, BytesOf(Len(stream)))
                 /\ Len(unread') = Len(unread) - n
                 /\ tasks' = UpTo(m)
                 /\ owed' = owed \cup {p + j : j \in 1 .. m - p}
                 /\ alive' = ~BadAt(p, m, r)
<1>. DEFINE p == Len(tasks)
            r == BytesRead + n
            full == PushBack(recv, SubSeq(unread, 1, n))
<1>1. n \in 1 .. Len(unread)
    <2>1. Len(unread) \in Nat
        <3>1. /\ BytesOf(Len(stream)) \in Nat /\ Packets(Len(stream)) \in Seq(Octets)
              /\ BytesRead \in 0 .. BytesOf(Len(stream)) /\ Len(stream) \in Nat
            BY StreamBytes DEF RecvInv, Holds
        <3>2. /\ BytesOf(Len(stream)) \in 0 .. Len(Packets(Len(stream)))
              /\ BytesRead \in 0 .. BytesOf(Len(stream))
            BY <3>1 DEF BytesOf
        <3>3. Len(Part(Packets(Len(stream)), BytesRead, BytesOf(Len(stream))))
                  = BytesOf(Len(stream)) - BytesRead
            BY <3>1, <3>2, PartType
        <3>. QED
            BY <3>1, <3>3 DEF RecvInv
    <2>. QED
        BY <2>1, CodecAssumption DEF InputNotify, Least
<1>2. /\ Holds(full, p, r)
      /\ SubSeq(unread, n + 1, Len(unread)) = Part(Packets(Len(stream)), r, BytesOf(Len(stream)))
      /\ Len(SubSeq(unread, n + 1, Len(unread))) = Len(unread) - n
      /\ r \in Nat
    BY <1>1, FullHolds
<1>. HIDE DEF r, full
<1>3. /\ stream \in Seq(ProtocolHeader) /\ p \in 0 .. Len(stream) /\ p \in Nat /\ BytesOf(p) <= r
      /\ BytesOf(p) \in Nat /\ Len(stream) \in Nat
      /\ r \in BytesOf(p) .. BytesOf(Len(stream)) /\ full.list \in Lists(Octets)
      /\ full.data_length = Len(Content(full)) /\ Content(full) = Part(Packets(Len(stream)), BytesOf(p), r)
    BY <1>2, HoldsLength, StreamBytes DEF Holds
<1>4. PICK m : LastOf(p, m, r)
    BY <1>2, <1>3, LastExists
<1>5. LastOf(0, m, r)
    BY <1>3, <1>4, LastFromStart DEF RecvInv
<1>6. /\ m \in p .. Len(stream) /\ m \in Nat /\ BytesOf(m) <= r /\ m - p \in Nat /\ p + (m - p) = m
      /\ m \in 0 .. Len(stream)
    BY <1>3, <1>4 DEF LastOf
<1>. DEFINE packets == [j \in 1 .. m - p |-> p + j]
            length == IF BadAt(p, m, r) THEN -1 ELSE BytesOf(m) - BytesOf(p)
<1>7. Decode(full) = [packets |-> packets, length |-> length]
    BY <1>2, <1>4, DecodeRun
<1>8. /\ unread' = SubSeq(unread, n + 1, Len(unread))
      /\ recv' = IF Decode(full).length > 0 THEN EraseFront(full, Decode(full).length) ELSE full
      /\ tasks' = tasks \o Decode(full).packets
      /\ owed' = owed \cup ToSet(Decode(full).packets)
      /\ alive' = (Decode(full).length >= 0)
    BY DEF InputNotify, full
<1>9. Decode(full).packets = packets /\ Decode(full).length = length
    BY <1>7
<1>10. tasks' = UpTo(m)
    <2>1. tasks = UpTo(p)
        BY DEF RecvInv, UpTo
    <2>2. UpTo(p) \o packets = UpTo(p + (m - p))
        BY <1>3, <1>6, UpToConcat
    <2>. HIDE DEF packets
    <2>. QED
        BY <1>6, <1>8, <1>9, <2>1, <2>2
<1>11. ToSet(packets) = {p + j : j \in 1 .. m - p}
    BY DEF ToSet
<1>12. BytesOf(m) \in Nat /\ BytesOf(p) <= BytesOf(m) /\ (p < m => BytesOf(p) < BytesOf(m))
    BY <1>3, <1>6, StreamBytes
<1>13. alive' = ~BadAt(p, m, r)
    <2>. HIDE DEF packets
    <2>. QED
        BY <1>3, <1>8, <1>9, <1>12
<1>14. Len(Content(full)) = r - BytesOf(p) /\ Content(full) \in Seq(Octets)
    BY <1>2, HoldsLength
<1>15. BytesOf(Len(stream)) < Word /\ Word \in Nat \ {0} /\ BytesOf(Len(stream)) \in Nat
    BY <1>3, StreamsAssumption, CodecAssumption, StreamBytes DEF BytesOf, Packets, RecvInv
<1>. HIDE DEF packets
<1>16. Holds(recv', m, r) /\ recv'.data_length \in 0 .. Word - 1
    <2>1. CASE length > 0
        <3>. DEFINE count == BytesOf(m) - BytesOf(p)
        <3>1. length = count /\ recv' = EraseFront(full, count)
            BY <1>8, <1>9, <2>1
        <3>2. count \in 0 .. Len(Content(full))
            BY <1>2, <1>3, <1>6, <1>12, <1>14, SMTT(30)
        <3>. HIDE DEF count
        <3>3. /\ recv'.list \in Lists(Octets)
              /\ Content(recv') = Part(Content(full), count, Len(Content(full)))
              /\ recv'.data_length = (full.data_length - count) % Word
            BY <1>3, <3>1, <3>2, EraseFrontDrops
        <3>4. Content(recv') = Part(Packets(Len(stream)), BytesOf(m), r)
            <4>. DEFINE a == BytesOf(p)
                        all == Packets(Len(stream))
                        y == r - a
            <4>1. all \in Seq(Octets) /\ Len(all) = BytesOf(Len(stream))
                BY <1>3, StreamBytes DEF BytesOf
            <4>2. /\ r \in 0 .. Len(all) /\ a \in 0 .. r /\ y \in 0 .. r - a /\ count \in 0 .. y
                  /\ a + count = BytesOf(m) /\ a + y = r
                <5>1. /\ r \in Nat /\ BytesOf(p) \in Nat /\ BytesOf(m) \in Nat
                      /\ BytesOf(p) <= BytesOf(m) /\ BytesOf(m) <= r /\ r <= Len(all)
                      /\ Len(all) \in Nat
                    BY <1>2, <1>3, <1>6, <1>12, <1>15, <4>1
                <5>. HIDE DEF all
                <5>2. \A x, z \in Nat : x <= z /\ z <= r =>
                          z - x \in 0 .. r - x /\ r - x \in 0 .. r - x /\ x + (z - x) = z
                    BY <5>1
                <5>3. /\ BytesOf(m) - BytesOf(p) \in 0 .. r - BytesOf(p)
                      /\ BytesOf(p) + (BytesOf(m) - BytesOf(p)) = BytesOf(m)
                      /\ r - BytesOf(p) \in 0 .. r - BytesOf(p)
                      /\ BytesOf(p) + (r - BytesOf(p)) = r
                    BY <5>1, <5>2
                <5>. QED
                    BY <5>1, <5>3 DEF count
            <4>3. Content(recv') = Part(Part(all, a, r), count, y)
                BY <1>3, <1>14, <3>3
            <4>. HIDE DEF a, all, y
            <4>4. Part(Part(all, a, r), count, y) = Part(all, a + count, a + y)
                BY <4>1, <4>2, PartPart
            <4>. QED
                BY <4>2, <4>3, <4>4 DEF all
        <3>5. Len(Content(recv')) = r - BytesOf(m)
            <4>. DEFINE all == Packets(Len(stream))
                        a == BytesOf(m)
            <4>1. all \in Seq(Octets) /\ Len(all) = BytesOf(Len(stream))
                BY <1>3, StreamBytes DEF BytesOf
            <4>2. r \in 0 .. Len(all) /\ a \in 0 .. r
                BY <1>2, <1>3, <1>6, <1>12, <4>1
            <4>. HIDE DEF all, a
            <4>3. Len(Part(all, a, r)) = r - a
                BY <4>1, <4>2, PartType
            <4>. QED
                BY <3>4, <4>3 DEF all, a
        <3>6. full.data_length - count = r - BytesOf(m) /\ r - BytesOf(m) \in 0 .. Word - 1
            BY <1>2, <1>3, <1>6, <1>12, <1>14, <1>15, SMTT(30) DEF count
        <3>7. recv'.data_length = r - BytesOf(m)
            BY <1>15, <3>3, <3>6, SmallModulo
        <3>8. r \in BytesOf(m) .. BytesOf(Len(stream))
            BY <1>2, <1>3, <1>6, <1>12, <1>15
        <3>. QED
            BY <1>3, <1>6, <3>3, <3>4, <3>5, <3>6, <3>7, <3>8 DEF Holds
    <2>2. CASE ~(length > 0)
        <3>1. m = p
            BY <1>3, <1>6, <1>12, <2>2 DEF BadAt
        <3>2. recv' = full
            BY <1>8, <1>9, <2>2
        <3>3. full.data_length \in 0 .. Word - 1
            BY <1>2, <1>3, <1>14, <1>15
        <3>. QED
            BY <1>2, <3>1, <3>2, <3>3
    <2>. QED
        BY <2>1, <2>2
<1>. HIDE DEF length
<1>17. owed' = owed \cup {p + j : j \in 1 .. m - p}
    BY <1>8, <1>9, <1>11
<1>18. unread' = Part(Packets(Len(stream)), r, BytesOf(Len(stream))) /\ Len(unread') = Len(unread) - n
    BY <1>2, <1>8
<1>. HIDE DEF p
<1>. QED
    BY <1>2, <1>3, <1>4, <1>5, <1>6, <1>10, <1>13, <1>16, <1>17, <1>18 DEF p, r, full

(* The packets decoded are those of the reference. *)
LEMMA ReferenceIs ==
    ASSUME stream \in Seq(ProtocolHeader), NEW m, LastOf(0, m, BytesRead), BytesRead \in Nat
    PROVE  Reference = 1 .. m /\ Cardinality(Reference) = m
<1>1. Len(stream) \in Nat /\ DOMAIN stream = 1 .. Len(stream) /\ m \in 0 .. Len(stream)
    BY LenProperties DEF LastOf
<1>2. ASSUME NEW k \in 1 .. m PROVE k \in Reference
    <2>1. k \in 1 .. Len(stream) /\ k \in 0 .. m /\ k \in 0 .. Len(stream)
        BY <1>1
    <2>2. BytesOf(k) <= BytesOf(m) /\ BytesOf(k) \in Nat /\ BytesOf(m) \in Nat
        BY <1>1, <2>1, StreamBytes
    <2>3. BytesOf(m) <= BytesRead /\ \A i \in 1 .. k : Decodable(i)
        BY <1>1 DEF LastOf
    <2>. QED
        BY <1>1, <2>1, <2>2, <2>3 DEF Reference
<1>3. ASSUME NEW k \in Reference PROVE k \in 1 .. m
    <2>1. k \in 1 .. Len(stream) /\ BytesOf(k) <= BytesRead /\ \A i \in 1 .. k : Decodable(i)
        BY <1>1 DEF Reference
    <2>2. CASE k > m
        <3>1. m + 1 \in 1 .. k /\ m + 1 \in 0 .. k /\ k \in 0 .. Len(stream) /\ m < Len(stream)
              /\ m + 1 \in 0 .. Len(stream)
            BY <1>1, <2>1, <2>2
        <3>2. Decodable(m + 1)
            BY <2>1, <3>1
        <3>3. BytesOf(m + 1) <= BytesOf(k) /\ BytesOf(m + 1) \in Nat /\ BytesOf(k) \in Nat
            BY <3>1, StreamBytes
        <3>4. BytesOf(m + 1) <= BytesRead
            BY <2>1, <3>3
        <3>. QED
            BY <3>1, <3>2, <3>4 DEF LastOf
    <2>. QED
        BY <1>1, <2>1, <2>2
<1>4. Reference = 1 .. m
    BY <1>2, <1>3
<1>5. Cardinality(1 .. m) = m
    BY <1>1, FS_Interval
<1>. QED
    BY <1>4, <1>5

LEMMA RecvDecodes == RecvInv => DecodesTheStream
<1>. SUFFICES ASSUME RecvInv PROVE DecodesTheStream
    OBVIOUS
<1>1. stream \in Seq(ProtocolHeader) /\ LastOf(0, Len(tasks), BytesRead) /\ BytesRead \in Nat
    BY HoldsLength DEF RecvInv, Holds
<1>2. Cardinality(Reference) = Len(tasks)
    BY <1>1, ReferenceIs
<1>. QED
    BY <1>2 DEF DecodesTheStream, RecvInv

(* Nothing of this depends on a variable but the stream, which stays. *)
LEMMA RecvInvNext ==
    ASSUME RecvInv, stream' = stream, NEW m, NEW r, Holds(recv', m, r), LastOf(0, m, r),
           m \in Nat, tasks' = UpTo(m), BytesRead' = r,
           unread' = Part(Packets(Len(stream)), r, BytesOf(Len(stream)))
    PROVE  RecvInv'
<1>1. Len(tasks') = m
    BY UpToType
<1>2. (stream \in Streams)'
    BY DEF RecvInv
<1>3. Holds(recv, Len(tasks), BytesRead)'
    BY <1>1 DEF Holds, BytesOf, Packets, Content
<1>4. (unread = Part(Packets(Len(stream)), BytesRead, BytesOf(Len(stream))))'
    BY DEF BytesOf, Packets
<1>5. (tasks = [k \in 1 .. Len(tasks) |-> k])'
    BY <1>1 DEF UpTo
<1>6. LastOf(0, Len(tasks), BytesRead)'
    BY <1>1 DEF LastOf, Decodable, BytesOf, Packets
<1>. QED
    BY <1>2, <1>3, <1>4, <1>5, <1>6 DEF RecvInv

LEMMA RecvInvUnchanged ==
    ASSUME RecvInv, UNCHANGED <<stream, unread, recv, tasks>>
    PROVE  RecvInv'
BY DEF RecvInv, Holds, LastOf, Decodable, BytesRead, BytesOf, Packets, Content

LEMMA BytesReadNext ==
    ASSUME RecvInv, stream' = stream, NEW n \in Int, Len(unread') = Len(unread) - n
    PROVE  BytesRead' = BytesRead + n
<1>1. /\ BytesOf(Len(stream)) \in Nat /\ BytesRead \in Nat /\ Len(unread) \in Int
    <2>1. stream \in Seq(ProtocolHeader) /\ BytesRead \in Nat
        BY HoldsLength DEF RecvInv, Holds
    <2>2. BytesOf(Len(stream)) \in Nat /\ Len(stream) \in Nat
          /\ Packets(Len(stream)) \in Seq(Octets)
        BY <2>1, StreamBytes
    <2>3. /\ BytesOf(Len(stream)) \in 0 .. Len(Packets(Len(stream)))
          /\ BytesRead \in 0 .. BytesOf(Len(stream))
        BY <2>1, <2>2 DEF BytesOf, RecvInv, Holds
    <2>4. Len(Part(Packets(Len(stream)), BytesRead, BytesOf(Len(stream))))
              = BytesOf(Len(stream)) - BytesRead
        BY <2>2, <2>3, PartType
    <2>. QED
        BY <2>1, <2>2, <2>4 DEF RecvInv
<1>2. BytesRead' = BytesOf(Len(stream)) - Len(unread')
    BY DEF BytesRead, BytesOf, Packets
<1>3. BytesRead = BytesOf(Len(stream)) - Len(unread)
    BY DEF BytesRead
<1>. QED
    BY <1>1, <1>2, <1>3

-----------------------------------------------------------------------------
(* What is appended and what leaves. *)

Answers(s) == [k \in DOMAIN s |-> Bytes(s[k], ResponseSize)]

LEMMA ResponseSizes ==
    HeaderSize \in Nat \ {0} /\ ResponseBody \in Nat \ {0} /\ ResponseSize \in Nat
BY CodecAssumption DEF ResponseSize

LEMMA AnswersType ==
    ASSUME NEW s \in Seq(Nat)
    PROVE  /\ Answers(s) \in Lists(Octets) /\ Len(Answers(s)) = Len(s)
           /\ \A k \in 1 .. Len(s) : Answers(s)[k] = Bytes(s[k], ResponseSize)
<1>1. Len(s) \in Nat /\ DOMAIN s = 1 .. Len(s)
    BY LenProperties
<1>2. \A k \in 1 .. Len(s) : Bytes(s[k], ResponseSize) \in Seq(Octets)
    BY ResponseSizes, ElementOfSeq, BytesType
<1>3. Answers(s) \in [1 .. Len(s) -> Seq(Octets)]
    BY <1>1, <1>2 DEF Answers
<1>4. \A k \in 1 .. Len(s) : Answers(s)[k] = Bytes(s[k], ResponseSize)
    BY <1>1 DEF Answers
<1>. QED
    BY <1>1, <1>3, <1>4, FunctionIsList

LEMMA AnswersAppend ==
    ASSUME NEW s \in Seq(Nat), NEW i \in Nat
    PROVE  FlattenSeq(Answers(Append(s, i))) = FlattenSeq(Answers(s)) \o Bytes(i, ResponseSize)
<1>. DEFINE t == Append(s, i)
<1>1. /\ t \in Seq(Nat) /\ Len(t) = Len(s) + 1
      /\ \A k \in 1 .. Len(s) : t[k] = s[k]
      /\ t[Len(s) + 1] = i
    BY AppendProperties
<1>2. Len(s) \in Nat
    BY LenProperties
<1>. HIDE DEF t
<1>3. /\ Answers(s) \in Lists(Octets) /\ Len(Answers(s)) = Len(s)
      /\ \A k \in 1 .. Len(s) : Answers(s)[k] = Bytes(s[k], ResponseSize)
    BY AnswersType
<1>4. /\ Answers(t) \in Lists(Octets) /\ Len(Answers(t)) = Len(t)
      /\ \A k \in 1 .. Len(t) : Answers(t)[k] = Bytes(t[k], ResponseSize)
    BY <1>1, AnswersType
<1>5. \A k \in 1 .. Len(s) : k \in 1 .. Len(t)
    BY <1>1, <1>2
<1>6. \A k \in 1 .. Len(Answers(s)) : Answers(s)[k] = Answers(t)[k]
    BY <1>1, <1>3, <1>4, <1>5
<1>7. Len(Answers(t)) = Len(Answers(s)) + 1
    BY <1>1, <1>3, <1>4
<1>8. FlattenSeq(Answers(t)) = FlattenSeq(Answers(s)) \o Answers(t)[Len(Answers(t))]
    BY <1>3, <1>4, <1>6, <1>7, ListLast
<1>9. Len(t) \in 1 .. Len(t) /\ Len(t) = Len(s) + 1
    BY <1>1, <1>2
<1>10. Answers(t)[Len(Answers(t))] = Bytes(i, ResponseSize)
    BY <1>1, <1>4, <1>9
<1>. QED
    BY <1>8, <1>10 DEF t

LEMMA ResponsesAre ==
    ResponsesWhole <=> wire \o Content(send) = FlattenSeq(Answers(sent))
BY DEF ResponsesWhole, Answers

LEMMA ToSetAppend ==
    ASSUME NEW T, NEW s \in Seq(T), NEW x \in T
    PROVE  ToSet(Append(s, x)) = ToSet(s) \cup {x}
<1>1. Len(s) \in Nat /\ DOMAIN s = 1 .. Len(s)
    BY LenProperties
<1>2. /\ Append(s, x) \in Seq(T) /\ Len(Append(s, x)) = Len(s) + 1
      /\ \A k \in 1 .. Len(s) : Append(s, x)[k] = s[k]
      /\ Append(s, x)[Len(s) + 1] = x
    BY AppendProperties
<1>3. DOMAIN Append(s, x) = 1 .. Len(s) + 1
    BY <1>2, LenProperties
<1>4. \A k \in 1 .. Len(s) + 1 : k \in 1 .. Len(s) \/ k = Len(s) + 1
    BY <1>1
<1>5. (1 .. Len(s)) \cup {Len(s) + 1} = 1 .. Len(s) + 1
    BY <1>1
<1>. DEFINE t == Append(s, x)
<1>. HIDE DEF t
<1>6. \A y : y \in ToSet(t) => y \in ToSet(s) \cup {x}
    BY <1>1, <1>2, <1>3, <1>4 DEF ToSet, t
<1>7. \A y : y \in ToSet(s) \cup {x} => y \in ToSet(t)
    BY <1>1, <1>2, <1>3, <1>5 DEF ToSet, t
<1>. QED
    BY <1>6, <1>7 DEF t

(* A response goes to the end of the send buffers, in two buffers. *)
LEMMA EncodeAppends ==
    ASSUME NEW b \in [list : Lists(Octets), data_length : 0 .. Word - 1], NEW i \in Nat
    PROVE  /\ Encode(b, i) \in [list : Lists(Octets), data_length : 0 .. Word - 1]
           /\ Content(Encode(b, i)) = Content(b) \o Bytes(i, ResponseSize)
<1>. DEFINE all == Bytes(i, ResponseSize)
            head == SubSeq(all, 1, HeaderSize)
            tail == SubSeq(all, HeaderSize + 1, Len(all))
            list == b.list \o <<head, tail>>
<1>1. all \in Seq(Octets) /\ Len(all) = ResponseSize
    BY ResponseSizes, BytesType
<1>2. /\ HeaderSize \in 0 .. Len(all) /\ 0 \in 0 .. HeaderSize
      /\ Len(all) \in 0 .. Len(all) /\ HeaderSize \in 0 .. Len(all)
    BY <1>1, ResponseSizes DEF ResponseSize
<1>. HIDE DEF all
<1>3. head = Part(all, 0, HeaderSize) /\ tail = Part(all, HeaderSize, Len(all))
    BY DEF Part
<1>4. head \in Seq(Octets) /\ tail \in Seq(Octets)
    <2>1. Part(all, 0, HeaderSize) \in Seq(Octets)
        BY <1>1, <1>2, PartType
    <2>2. Part(all, HeaderSize, Len(all)) \in Seq(Octets)
        BY <1>1, <1>2, PartType
    <2>. QED
        BY <1>3, <2>1, <2>2
<1>5. head \o tail = all
    <2>1. Part(all, 0, HeaderSize) \o Part(all, HeaderSize, Len(all)) = Part(all, 0, Len(all))
        BY <1>1, <1>2, PartConcat
    <2>2. Part(all, 0, Len(all)) = all
        BY <1>1, SubSeqFull DEF Part
    <2>. QED
        BY <1>3, <2>1, <2>2
<1>6. Encode(b, i) = [b EXCEPT !.list = list]
    BY DEF Encode, all
<1>. HIDE DEF head, tail
<1>7. b.list \in Lists(Octets) /\ <<head, tail>> \in Lists(Octets)
      /\ FlattenSeq(<<head, tail>>) = all
    BY <1>4, <1>5, ListPair
<1>8. list \in Lists(Octets) /\ FlattenSeq(list) = FlattenSeq(b.list) \o all
    BY <1>7, ListConcat
<1>. HIDE DEF list
<1>9. Encode(b, i) = [list |-> list, data_length |-> b.data_length]
    BY <1>6
<1>. QED
    BY <1>8, <1>9 DEF Content, all

(* What writev is offered is the front of what is buffered. *)
LEMMA OfferedFirst ==
    ASSUME send.list \in Lists(Octets), NEW n \in 1 .. Len(Offered)
    PROVE  /\ n \in 0 .. Len(Content(send)) /\ Content(send) \in Seq(Octets)
           /\ SubSeq(Offered, 1, n) = Part(Content(send), 0, n)
<1>. DEFINE list == send.list
            k == Least(IOVCount, Len(list))
            rest == SubSeq(list, k + 1, Len(list))
<1>1. Len(list) \in Nat
    BY ListType
<1>2. k \in 0 .. Len(list)
    BY <1>1, CodecAssumption DEF Least
<1>3. Offered = FlattenSeq(SubSeq(list, 1, k))
    BY DEF Offered
<1>. HIDE DEF list, k
<1>4. /\ 1 \in 1 .. Len(list) + 1 /\ k \in 1 - 1 .. Len(list)
      /\ k + 1 \in 1 .. Len(list) + 1 /\ Len(list) \in (k + 1) - 1 .. Len(list)
    BY <1>1, <1>2
<1>5. SubSeq(list, 1, k) \in Lists(Octets) /\ rest \in Lists(Octets)
    BY <1>4, ListSlice DEF list
<1>6. Content(send) = Offered \o FlattenSeq(rest)
    BY <1>2, <1>3, ListSplit DEF Content, list
<1>. HIDE DEF rest
<1>7. Offered \in Seq(Octets) /\ FlattenSeq(rest) \in Seq(Octets)
      /\ Len(Offered) \in Nat /\ Len(FlattenSeq(rest)) \in Nat
    BY <1>3, <1>5, ListType
<1>8. Content(send) \in Seq(Octets) /\ Len(Content(send)) = Len(Offered) + Len(FlattenSeq(rest))
    BY <1>6, <1>7, ConcatProperties
<1>9. n \in 0 .. Len(Offered) /\ 0 \in 0 .. n /\ n \in 0 .. Len(Content(send))
    BY <1>7, <1>8
<1>10. Part(Offered \o FlattenSeq(rest), 0, n) = Part(Offered, 0, n)
    BY <1>7, <1>9, PartOfFirst
<1>. QED
    BY <1>6, <1>8, <1>9, <1>10 DEF Part

-----------------------------------------------------------------------------
(* The two invariants hold at the start, and every step keeps them. *)

LEMMA StartsEmpty ==
    ASSUME NEW S
    PROVE  /\ <<>> \in Seq(S) /\ Len(<<>>) = 0 /\ ToSet(<<>>) = {}
           /\ Empty.list \in Lists(S) /\ Empty.data_length = 0 /\ Content(Empty) = <<>>
<1>1. <<>> \in Seq(S) /\ Len(<<>>) = 0
    BY EmptySeq
<1>2. DOMAIN <<>> = {}
    BY EmptySeq
<1>3. ToSet(<<>>) = {}
    BY <1>2 DEF ToSet
<1>. QED
    BY <1>1, <1>3, ListEmpty, FlattenEmpty DEF Empty, Content

LEMMA InitRecv == Init => RecvInv
<1>. SUFFICES ASSUME Init PROVE RecvInv
    OBVIOUS
<1>1. stream \in Streams /\ recv = Empty /\ tasks = <<>> /\ unread = Packets(Len(stream))
    BY DEF Init
<1>2. stream \in Seq(ProtocolHeader)
    BY <1>1, StreamsAssumption
<1>3. /\ Len(stream) \in Nat /\ BytesOf(0) = 0
      /\ \A k \in 0 .. Len(stream) : Packets(k) \in Seq(Octets) /\ BytesOf(k) \in Nat
      /\ \A k \in 0 .. Len(stream) : \A j \in 0 .. k :
             BytesOf(j) <= BytesOf(k) /\ (j < k => BytesOf(j) < BytesOf(k))
    BY <1>2, StreamBytes
<1>4. Len(tasks) = 0 /\ 0 \in 0 .. Len(stream) /\ Len(stream) \in 0 .. Len(stream)
    BY <1>1, <1>3, StartsEmpty
<1>5. Packets(Len(stream)) \in Seq(Octets) /\ BytesOf(Len(stream)) = Len(Packets(Len(stream)))
      /\ BytesOf(Len(stream)) \in Nat
    BY <1>3, <1>4 DEF BytesOf
<1>6. BytesRead = 0
    BY <1>1, <1>5 DEF BytesRead
<1>7. unread = Part(Packets(Len(stream)), 0, BytesOf(Len(stream)))
    BY <1>1, <1>5, SubSeqFull DEF Part
<1>8. Holds(recv, 0, 0)
    <2>1. Part(Packets(Len(stream)), 0, 0) = <<>>
        BY PartEmpty
    <2>2. recv.list \in Lists(Octets) /\ recv.data_length = 0 /\ Content(recv) = <<>>
        BY <1>1, StartsEmpty
    <2>3. 0 \in BytesOf(0) .. BytesOf(Len(stream)) /\ Len(<<>>) = 0
        BY <1>3, <1>5, StartsEmpty
    <2>. QED
        BY <1>2, <1>3, <1>4, <2>1, <2>2, <2>3 DEF Holds
<1>9. tasks = [k \in 1 .. 0 |-> k]
    BY <1>1
<1>10. LastOf(0, 0, 0)
    <2>1. ASSUME 0 < Len(stream) PROVE ~(BytesOf(1) <= 0)
        <3>1. 1 \in 0 .. Len(stream) /\ 0 \in 0 .. 1
            BY <1>3, <2>1
        <3>2. BytesOf(0) < BytesOf(1) /\ BytesOf(1) \in Nat
            BY <1>3, <3>1
        <3>. QED
            BY <1>3, <3>2
    <2>. QED
        BY <1>3, <1>4, <2>1 DEF LastOf
<1>. QED
    BY <1>1, <1>4, <1>6, <1>7, <1>8, <1>9, <1>10 DEF RecvInv

LEMMA InitSend == Init => SendInv
<1>. SUFFICES ASSUME Init PROVE SendInv
    OBVIOUS
<1>1. /\ send = Empty /\ wire = <<>> /\ sent = <<>> /\ owed = {} /\ tasks = <<>>
      /\ output = FALSE /\ alive = TRUE
    BY DEF Init
<1>2. send \in [list : Lists(Octets), data_length : 0 .. Word - 1]
    <2>1. 0 \in 0 .. Word - 1
        BY CodecAssumption
    <2>2. send = [list |-> Empty.list, data_length |-> Empty.data_length]
        BY <1>1 DEF Empty
    <2>. QED
        BY <2>1, <2>2, StartsEmpty
<1>3. wire \in Seq(Octets) /\ sent \in Seq(Nat)
    BY <1>1, StartsEmpty
<1>4. owed \subseteq ToSet(tasks) /\ ToSet(sent) \subseteq ToSet(tasks)
    BY <1>1, StartsEmpty
<1>5. wire \o Content(send) = FlattenSeq(Answers(sent))
    <2>1. Answers(sent) \in Lists(Octets) /\ Len(Answers(sent)) = 0
        BY <1>1, <1>3, AnswersType, StartsEmpty
    <2>2. FlattenSeq(Answers(sent)) = <<>>
        BY <2>1, ListEmpty, FlattenEmpty
    <2>3. Content(send) = <<>>
        BY <1>1, StartsEmpty
    <2>4. <<>> \o <<>> = <<>>
        BY EmptySeq
    <2>. QED
        BY <1>1, <2>2, <2>3, <2>4
<1>. QED
    BY <1>1, <1>2, <1>3, <1>4, <1>5, ResponsesAre DEF SendInv

LEMMA NextRecv == RecvInv /\ [Next]_vars => RecvInv'
<1>. SUFFICES ASSUME RecvInv, [Next]_vars PROVE RecvInv'
    OBVIOUS
<1>1. ASSUME NEW n \in 1 .. ReadSize, InputNotify(n) PROVE RecvInv'
    <2>. DEFINE r == BytesRead + n
    <2>1. PICK m : /\ LastOf(0, m, r) /\ m \in Nat /\ Holds(recv', m, r)
                   /\ unread' = Part(Packets(Len(stream)), r, BytesOf(Len(stream)))
                   /\ Len(unread') = Len(unread) - n
                   /\ tasks' = UpTo(m)
        BY <1>1, InputStep
    <2>2. stream' = stream
        BY <1>1 DEF InputNotify
    <2>3. BytesRead' = r
        BY <2>1, <2>2, BytesReadNext
    <2>. HIDE DEF r
    <2>. QED
        BY <2>1, <2>2, <2>3, RecvInvNext
<1>2. CASE InputEnd
    BY <1>2, RecvInvUnchanged DEF InputEnd
<1>3. ASSUME NEW i \in owed, SendPacket(i) PROVE RecvInv'
    BY <1>3, RecvInvUnchanged DEF SendPacket
<1>4. ASSUME NEW n, OutputNotify(n) PROVE RecvInv'
    BY <1>4, RecvInvUnchanged DEF OutputNotify
<1>5. CASE OutputError
    BY <1>5, RecvInvUnchanged DEF OutputError
<1>6. CASE UNCHANGED vars
    BY <1>6, RecvInvUnchanged DEF vars
<1>. QED
    BY <1>1, <1>2, <1>3, <1>4, <1>5, <1>6 DEF Next

(* What the responses say, and the rest of SendInv. *)
LEMMA SendInvUnchanged ==
    ASSUME SendInv, UNCHANGED <<tasks, owed, sent, send, output, wire>>, alive' \in BOOLEAN
    PROVE  SendInv'
<1>1. ResponsesWhole'
    BY DEF SendInv, ResponsesWhole, Content
<1>. QED
    BY <1>1 DEF SendInv

LEMMA NextSendPacket ==
    ASSUME RecvInv, SendInv, NEW i, SendPacket(i) PROVE SendInv'
<1>1. /\ i \in owed /\ owed' = owed \ {i} /\ sent' = Append(sent, i) /\ send' = Encode(send, i)
      /\ output' = TRUE /\ alive' = alive /\ tasks' = tasks /\ wire' = wire
    BY DEF SendPacket
<1>2. i \in ToSet(tasks) /\ ToSet(tasks) \subseteq Nat
    <2>1. Len(tasks) \in Nat /\ tasks = UpTo(Len(tasks))
        BY HoldsLength DEF RecvInv, UpTo
    <2>2. ToSet(tasks) = 1 .. Len(tasks)
        BY <2>1, UpToType
    <2>. QED
        BY <1>1, <2>1, <2>2 DEF SendInv
<1>3. i \in Nat /\ sent \in Seq(Nat) /\ wire \in Seq(Octets)
      /\ send \in [list : Lists(Octets), data_length : 0 .. Word - 1]
    BY <1>2 DEF SendInv
<1>4. send' \in [list : Lists(Octets), data_length : 0 .. Word - 1]
      /\ Content(send') = Content(send) \o Bytes(i, ResponseSize)
    BY <1>1, <1>3, EncodeAppends
<1>5. sent' \in Seq(Nat) /\ ToSet(sent') = ToSet(sent) \cup {i}
    BY <1>1, <1>3, ToSetAppend, AppendProperties
<1>6. ResponsesWhole'
    <2>1. wire \o Content(send) = FlattenSeq(Answers(sent))
        BY ResponsesAre DEF SendInv
    <2>2. FlattenSeq(Answers(sent')) = FlattenSeq(Answers(sent)) \o Bytes(i, ResponseSize)
        BY <1>1, <1>3, AnswersAppend
    <2>3. Content(send) \in Seq(Octets) /\ Bytes(i, ResponseSize) \in Seq(Octets)
        <3>1. send.list \in Lists(Octets)
            BY <1>3
        <3>. QED
            BY <1>3, <3>1, ListType, ResponseSizes, BytesType DEF Content
    <2>4. (wire \o Content(send)) \o Bytes(i, ResponseSize)
              = wire \o (Content(send) \o Bytes(i, ResponseSize))
        <3>1. wire \in Seq(Octets)
            BY <1>3
        <3>. QED
            <4>1. Associates(Octets)
                BY Associative
            <4>. QED
                BY <2>3, <3>1, <4>1 DEF Associates
    <2>5. wire' \o Content(send') = FlattenSeq(Answers(sent'))
        BY <1>1, <1>4, <2>1, <2>2, <2>4
    <2>. QED
        BY <2>5 DEF ResponsesWhole, Answers, Content
<1>. QED
    BY <1>1, <1>2, <1>4, <1>5, <1>6 DEF SendInv

LEMMA NextOutputNotify ==
    ASSUME SendInv, NEW n, OutputNotify(n) PROVE SendInv'
<1>1. /\ n \in 1 .. Len(Offered) /\ wire' = wire \o SubSeq(Offered, 1, n)
      /\ send' = EraseFront(send, n) /\ output' = (send'.list # <<>>)
      /\ UNCHANGED <<tasks, owed, sent, alive>>
    BY DEF OutputNotify
<1>2. /\ send.list \in Lists(Octets) /\ send.data_length \in 0 .. Word - 1
      /\ wire \in Seq(Octets)
    BY DEF SendInv
<1>3. /\ n \in 0 .. Len(Content(send)) /\ Content(send) \in Seq(Octets)
      /\ SubSeq(Offered, 1, n) = Part(Content(send), 0, n)
    BY <1>1, <1>2, OfferedFirst
<1>4. /\ send'.list \in Lists(Octets)
      /\ Content(send') = Part(Content(send), n, Len(Content(send)))
      /\ send'.data_length = (send.data_length - n) % Word
    <2>1. /\ EraseFront(send, n).list \in Lists(Octets)
          /\ Content(EraseFront(send, n)) = Part(Content(send), n, Len(Content(send)))
          /\ EraseFront(send, n).data_length = (send.data_length - n) % Word
        BY <1>2, <1>3, EraseFrontDrops
    <2>. QED
        BY <1>1, <2>1
<1>5. send' \in [list : Lists(Octets), data_length : 0 .. Word - 1]
    <2>1. send'.data_length \in 0 .. Word - 1
        <3>1. Word \in Nat \ {0} /\ send.data_length - n \in Int
            BY <1>2, <1>3, CodecAssumption
        <3>. QED
            BY <1>4, <3>1, ModuloType
    <2>2. send' = [list |-> send'.list, data_length |-> send'.data_length]
        BY <1>1 DEF EraseFront
    <2>. QED
        BY <1>4, <2>1, <2>2
<1>6. /\ Part(Content(send), 0, n) \in Seq(Octets)
      /\ Part(Content(send), n, Len(Content(send))) \in Seq(Octets)
      /\ Part(Content(send), 0, n) \o Part(Content(send), n, Len(Content(send))) = Content(send)
    <2>1. /\ Len(Content(send)) \in 0 .. Len(Content(send)) /\ n \in 0 .. Len(Content(send))
          /\ 0 \in 0 .. n
        BY <1>3
    <2>2. Part(Content(send), 0, Len(Content(send))) = Content(send)
        BY <1>3, SubSeqFull DEF Part
    <2>. QED
        BY <1>3, <2>1, <2>2, PartType, PartConcat
<1>7. wire' \in Seq(Octets)
    BY <1>1, <1>2, <1>3, <1>6, ConcatProperties
<1>8. ResponsesWhole'
    <2>1. wire \o Content(send) = FlattenSeq(Answers(sent))
        BY ResponsesAre DEF SendInv
    <2>2. (wire \o Part(Content(send), 0, n)) \o Part(Content(send), n, Len(Content(send)))
              = wire \o (Part(Content(send), 0, n)
                            \o Part(Content(send), n, Len(Content(send))))
        <3>1. Associates(Octets)
            BY Associative
        <3>. QED
            BY <1>2, <1>6, <3>1 DEF Associates
    <2>3. wire' \o Content(send') = FlattenSeq(Answers(sent'))
        BY <1>1, <1>3, <1>4, <1>6, <2>1, <2>2
    <2>. QED
        BY <2>3 DEF ResponsesWhole, Answers, Content
<1>9. output' \in BOOLEAN
    BY <1>1
<1>. QED
    BY <1>1, <1>5, <1>7, <1>8, <1>9 DEF SendInv

LEMMA NextSend == RecvInv /\ SendInv /\ [Next]_vars => SendInv'
<1>. SUFFICES ASSUME RecvInv, SendInv, [Next]_vars PROVE SendInv'
    OBVIOUS
<1>1. ASSUME NEW n \in 1 .. ReadSize, InputNotify(n) PROVE SendInv'
    <2>. DEFINE p == Len(tasks)
                r == BytesRead + n
    <2>1. PICK m : /\ LastOf(p, m, r) /\ m \in Nat /\ p \in Nat
                   /\ tasks' = UpTo(m)
                   /\ owed' = owed \cup {p + j : j \in 1 .. m - p}
                   /\ alive' = ~BadAt(p, m, r)
        BY <1>1, InputStep
    <2>2. UNCHANGED <<sent, send, output, wire>>
        BY <1>1 DEF InputNotify
    <2>3. tasks = UpTo(p)
        BY DEF RecvInv, UpTo
    <2>4. p <= m
        BY <2>1 DEF LastOf
    <2>. HIDE DEF p, r
    <2>5. ToSet(tasks) = 1 .. p /\ ToSet(tasks') = 1 .. m
        BY <2>1, <2>3, UpToType
    <2>6. 1 .. p \subseteq 1 .. m /\ {p + j : j \in 1 .. m - p} \subseteq 1 .. m
        BY <2>1, <2>4
    <2>7. owed' \subseteq ToSet(tasks') /\ ToSet(sent') \subseteq ToSet(tasks')
        BY <2>1, <2>2, <2>5, <2>6 DEF SendInv
    <2>8. ResponsesWhole'
        BY <2>2 DEF SendInv, ResponsesWhole, Content
    <2>9. alive' \in BOOLEAN
        BY <2>1
    <2>. QED
        BY <2>2, <2>7, <2>8, <2>9 DEF SendInv
<1>2. CASE InputEnd
    BY <1>2, SendInvUnchanged DEF InputEnd
<1>3. ASSUME NEW i \in owed, SendPacket(i) PROVE SendInv'
    BY <1>3, NextSendPacket
<1>4. ASSUME NEW n, OutputNotify(n) PROVE SendInv'
    BY <1>4, NextOutputNotify
<1>5. CASE OutputError
    BY <1>5, SendInvUnchanged DEF OutputError
<1>6. CASE UNCHANGED vars
    <2>1. alive' \in BOOLEAN
        BY <1>6 DEF vars, SendInv
    <2>. QED
        BY <1>6, <2>1, SendInvUnchanged DEF vars
<1>. QED
    BY <1>1, <1>2, <1>3, <1>4, <1>5, <1>6 DEF Next

LEMMA Invariant == Spec => [](RecvInv /\ SendInv)
<1>1. Init => RecvInv /\ SendInv
    BY InitRecv, InitSend
<1>2. (RecvInv /\ SendInv) /\ [Next]_vars => (RecvInv /\ SendInv)'
    BY NextRecv, NextSend
<1>. QED
    BY <1>1, <1>2, PTL DEF Spec

-----------------------------------------------------------------------------
(* What CBuffers and its readers are typed: the lengths kept beside the    *)
(* lists are 64-bit numbers, the tasks are packets of this stream, and     *)
(* only a packet that was decoded is owed or was given a response.         *)
THEOREM CodecTypeCorrect == Spec => []TypeOK
<1>1. RecvInv /\ SendInv => TypeOK
    <2>. SUFFICES ASSUME RecvInv, SendInv PROVE TypeOK
        OBVIOUS
    <2>1. recv.data_length \in 0 .. Word - 1
        <3>1. /\ stream \in Seq(ProtocolHeader) /\ BytesRead <= BytesOf(Len(stream))
              /\ recv.data_length = BytesRead - BytesOf(Len(tasks))
              /\ BytesRead \in Nat /\ BytesOf(Len(tasks)) \in Nat
              /\ BytesOf(Len(tasks)) <= BytesRead
            BY HoldsLength DEF RecvInv, Holds
        <3>2. BytesOf(Len(stream)) < Word /\ BytesOf(Len(stream)) \in Nat
            <4>1. BytesOf(Len(stream)) < Word
                BY StreamsAssumption DEF RecvInv, BytesOf, Packets
            <4>2. Len(stream) \in 0 .. Len(stream)
                BY <3>1, LenProperties
            <4>. QED
                BY <3>1, <4>1, <4>2, StreamBytes
        <3>3. Word \in Nat
            BY CodecAssumption
        <3>. QED
            BY <3>1, <3>2, <3>3
    <2>2. send.data_length \in 0 .. Word - 1
        BY DEF SendInv
    <2>3. \A i \in DOMAIN tasks : tasks[i] \in DOMAIN stream
        <3>1. Len(tasks) \in 0 .. Len(stream) /\ stream \in Seq(ProtocolHeader)
            BY DEF RecvInv, Holds
        <3>2. Len(stream) \in Nat /\ DOMAIN stream = 1 .. Len(stream)
            BY <3>1, LenProperties
        <3>3. DOMAIN tasks = 1 .. Len(tasks) /\ \A i \in 1 .. Len(tasks) : tasks[i] = i
            BY DEF RecvInv
        <3>. QED
            BY <3>1, <3>2, <3>3
    <2>. QED
        BY <2>1, <2>2, <2>3 DEF TypeOK, RecvInv, SendInv
<1>. QED
    BY <1>1, Invariant, PTL

(* However the kernel cuts the stream into reads, OnPacket gets the        *)
(* packets a decoder that sees the whole stream finds in what was read.    *)
THEOREM PacketsAsSent == Spec => []DecodesTheStream
BY RecvDecodes, Invariant, PTL

(* However writev cuts the buffers, and although the length kept beside    *)
(* the send buffers wraps around, the bytes that left and those buffered   *)
(* are the responses in order, each whole and once.                        *)
THEOREM ResponsesAsSent == Spec => []ResponsesWhole
<1>1. SendInv => ResponsesWhole
    BY DEF SendInv
<1>. QED
    BY <1>1, Invariant, PTL

(* A read behind a bad header deletes the connection: the decoder cannot   *)
(* pass a header it found invalid at the front of the receive buffers.     *)
THEOREM BadHeaderDeletes == Spec => BadFrontDeletes
<1>1. ASSUME RecvInv, [Next]_vars, BadFront, unread' # unread PROVE ~alive'
    <2>1. PICK n \in 1 .. ReadSize : InputNotify(n)
        BY <1>1 DEF Next, vars, InputEnd, SendPacket, OutputNotify, OutputError
    <2>. DEFINE p == Len(tasks)
                r == BytesRead + n
    <2>2. PICK m : /\ LastOf(p, m, r) /\ m \in Nat /\ p \in Nat
                   /\ alive' = ~BadAt(p, m, r)
        BY <1>1, <2>1, InputStep
    <2>3. /\ p + 1 <= Len(stream) /\ ~HeaderValid(stream[p + 1])
          /\ BytesRead >= BytesOf((p + 1) - 1) + HeaderSize
        BY <1>1 DEF BadFront
    <2>4. /\ BytesRead \in Nat /\ BytesOf(p) \in Nat /\ HeaderSize \in Nat
          /\ stream \in Seq(ProtocolHeader) /\ Len(stream) \in Nat
        BY <1>1, HoldsLength, ResponseSizes, LenProperties DEF RecvInv, Holds
    <2>5. m = p
        <3>1. ~Decodable(p + 1)
            BY <2>3 DEF Decodable
        <3>2. CASE m # p
            <4>1. p + 1 \in p + 1 .. m
                BY <2>2, <3>2 DEF LastOf
            <4>. QED
                BY <2>2, <3>1, <4>1 DEF LastOf
        <3>. QED
            BY <3>2
    <2>6. (p + 1) - 1 = p
        BY <2>2
    <2>7. BytesOf(p) + HeaderSize <= r /\ p < Len(stream)
        <3>. HIDE DEF p
        <3>. QED
            BY <2>1, <2>2, <2>3, <2>4, <2>6
    <2>. QED
        BY <2>2, <2>3, <2>5, <2>7 DEF BadAt
<1>2. RecvInv /\ [Next]_vars => [BadFront /\ unread' # unread => ~alive']_vars
    BY <1>1
<1>. QED
    BY <1>2, Invariant, PTL DEF Spec, BadFrontDeletes
==============================================================================
