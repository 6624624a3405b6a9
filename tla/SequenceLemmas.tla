---------------------------- MODULE SequenceLemmas ----------------------------
(* Facts about sequences that the proofs about the queues rest on. *)
EXTENDS Integers, SequencesExt, SequenceTheorems, WellFoundedInduction, TLAPS

(* Appending to the second of two sequences appends to their concatenation. *)
LEMMA ConcatAppend ==
    ASSUME NEW S, NEW s \in Seq(S), NEW t \in Seq(S), NEW x \in S
    PROVE  s \o Append(t, x) = Append(s \o t, x)
<1>1. <<x>> \in Seq(S)
    OBVIOUS
<1>2. Append(t, x) = t \o <<x>> /\ Append(s \o t, x) = (s \o t) \o <<x>>
    BY AppendIsConcat, ConcatProperties
<1>. QED
    BY <1>1, <1>2, ConcatAssociative

(* Moving the head of the second sequence to the end of the first. *)
LEMMA MoveHead ==
    ASSUME NEW S, NEW s \in Seq(S), NEW q \in Seq(S), q # <<>>
    PROVE  Append(s, Head(q)) \o Tail(q) = s \o q
<1>1. Head(q) \in S /\ Tail(q) \in Seq(S)
    BY HeadTailProperties
<1>2. <<Head(q)>> \in Seq(S)
    BY <1>1
<1>3. <<Head(q)>> \o Tail(q) = q
    BY <1>1
<1>4. Append(s, Head(q)) = s \o <<Head(q)>>
    BY <1>1, AppendIsConcat
<1>5. (s \o <<Head(q)>>) \o Tail(q) = s \o (<<Head(q)>> \o Tail(q))
    BY <1>1, <1>2, ConcatAssociative
<1>. QED
    BY <1>3, <1>4, <1>5

(* The head and the tail of a concatenation. *)
LEMMA HeadTailConcat ==
    ASSUME NEW S, NEW s \in Seq(S), NEW t \in Seq(S), s # <<>>
    PROVE  /\ s \o t # <<>>
           /\ Head(s \o t) = Head(s)
           /\ Tail(s \o t) = Tail(s) \o t
<1>1. Len(s) \in Nat \ {0} /\ Len(t) \in Nat
    BY EmptySeq
<1>2. s \o t \in Seq(S) /\ Len(s \o t) = Len(s) + Len(t) /\ s \o t # <<>>
    BY <1>1, ConcatProperties, EmptySeq
<1>3. Head(s \o t) = Head(s)
    BY <1>1, <1>2, ConcatProperties
<1>4. Tail(s) \in Seq(S) /\ Len(Tail(s)) = Len(s) - 1
    BY HeadTailProperties
<1>5. /\ Tail(s \o t) \in Seq(S) /\ Len(Tail(s \o t)) = Len(s) + Len(t) - 1
      /\ \A i \in 1 .. Len(Tail(s \o t)) : Tail(s \o t)[i] = (s \o t)[i + 1]
    BY <1>2, HeadTailProperties
<1>6. /\ Tail(s) \o t \in Seq(S) /\ Len(Tail(s) \o t) = Len(s) + Len(t) - 1
      /\ \A i \in 1 .. Len(s) + Len(t) - 1 :
            (Tail(s) \o t)[i] = IF i <= Len(s) - 1 THEN Tail(s)[i] ELSE t[i - (Len(s) - 1)]
    BY <1>1, <1>4, ConcatProperties
<1>7. ASSUME NEW i \in 1 .. Len(s) + Len(t) - 1
      PROVE  Tail(s \o t)[i] = (Tail(s) \o t)[i]
    <2>1. Tail(s \o t)[i] = (s \o t)[i + 1]
        BY <1>5
    <2>2. (s \o t)[i + 1] = IF i + 1 <= Len(s) THEN s[i + 1] ELSE t[(i + 1) - Len(s)]
        BY <1>1, ConcatProperties
    <2>3. i <= Len(s) - 1 => Tail(s)[i] = s[i + 1]
        BY <1>1, <1>4, HeadTailProperties
    <2>. QED
        BY <1>1, <1>6, <2>1, <2>2, <2>3
<1>8. Tail(s \o t) = Tail(s) \o t
    BY <1>5, <1>6, <1>7, SeqEqual
<1>. QED
    BY <1>2, <1>3, <1>8

(* What a read of the first r elements leaves, its first one taken, *)
(* followed by what it left in the pipe, is the tail of the pipe.   *)
LEMMA TailSplit ==
    ASSUME NEW S, NEW s \in Seq(S), s # <<>>, NEW r \in 1 .. Len(s)
    PROVE  /\ SubSeq(s, 2, r) \in Seq(S) /\ Len(SubSeq(s, 2, r)) = r - 1
           /\ SubSeq(s, r + 1, Len(s)) \in Seq(S)
           /\ Len(SubSeq(s, r + 1, Len(s))) = Len(s) - r
           /\ SubSeq(s, 2, r) \o SubSeq(s, r + 1, Len(s)) = Tail(s)
<1>1. Len(s) \in Nat \ {0} /\ \A i \in 1 .. Len(s) : s[i] \in S
    BY EmptySeq, ElementOfSeq
<1>2. SubSeq(s, 2, r) \in Seq(S) /\ Len(SubSeq(s, 2, r)) = r - 1
    BY <1>1, SubSeqProperties
<1>3. SubSeq(s, r + 1, Len(s)) \in Seq(S) /\ Len(SubSeq(s, r + 1, Len(s))) = Len(s) - r
    BY <1>1, SubSeqProperties
<1>4. SubSeq(s, 2, r) \o SubSeq(s, r + 1, Len(s)) = SubSeq(s, 2, Len(s))
    <2>1. 2 \in 1 .. Len(s) + 1 /\ r \in 2 - 1 .. Len(s) /\ Len(s) \in r .. Len(s)
        BY <1>1
    <2>. QED
        BY <2>1, ConcatAdjacentSubSeq
<1>. QED
    BY <1>2, <1>3, <1>4, TailIsSubSeq

(* ConcatAssociative in a form the provers instantiate more easily. *)
Associates(S) == \A s, t, u \in Seq(S) : (s \o t) \o u = s \o (t \o u)

LEMMA Associative == ASSUME NEW S PROVE Associates(S)
BY ConcatAssociative DEF Associates

(* The concatenation of two sequences of one element. *)
LEMMA Pair == ASSUME NEW x, NEW y PROVE <<x>> \o <<y>> = <<x, y>>
<1>. DEFINE S == {x, y}
            a == Append(<<x>>, y)
<1>1. <<x>> \in Seq(S) /\ <<y>> \in Seq(S) /\ <<x, y>> \in Seq(S)
    OBVIOUS
<1>2. /\ Len(<<x>>) = 1 /\ <<x>>[1] = x
      /\ Len(<<x, y>>) = 2 /\ <<x, y>>[1] = x /\ <<x, y>>[2] = y
    OBVIOUS
<1>3. <<x>> \o <<y>> = a
    BY <1>1, AppendIsConcat
<1>4. a \in Seq(S) /\ Len(a) = Len(<<x>>) + 1
    BY <1>1, AppendProperties
<1>5. a[Len(<<x>>) + 1] = y
    BY <1>1, AppendProperties
<1>6. \A i \in 1 .. Len(<<x>>) : a[i] = <<x>>[i]
    BY <1>1, AppendProperties
<1>7. Len(a) = 2 /\ a[1] = x /\ a[2] = y
    BY <1>2, <1>4, <1>5, <1>6
<1>8. \A i \in 1 .. 2 : i = 1 \/ i = 2
    OBVIOUS
<1>9. \A i \in 1 .. Len(a) : a[i] = <<x, y>>[i]
    BY <1>2, <1>7, <1>8
<1>10. a = <<x, y>>
    <2>. HIDE DEF a, S
    <2>. QED
        BY <1>1, <1>2, <1>4, <1>7, <1>9, SeqEqual
<1>. QED
    BY <1>3, <1>10

(* A sequence over a set is one over a larger set. *)
LEMMA SeqWiden == ASSUME NEW S, NEW T, S \subseteq T, NEW s \in Seq(S) PROVE s \in Seq(T)
<1>1. Len(s) \in Nat /\ s = [i \in 1 .. Len(s) |-> s[i]] /\ \A i \in 1 .. Len(s) : s[i] \in T
    BY ElementOfSeq
<1>. QED
    BY <1>1

(* A set of natural numbers that is not empty has a least one, so that a   *)
(* set of them with 0 and with every successor is all of them: induction,  *)
(* in a form that needs no predicate.                                      *)
LEMMA LeastIn == ASSUME NEW S \in SUBSET Nat, S # {} PROVE \E x \in S : \A y \in S : x <= y
<1>. DEFINE R == OpToRel(<, Nat)
<1>1. \E x \in S : \A y \in S : <<y, x>> \notin R
    <2>1. IsWellFoundedOn(R, Nat)
        BY NatLessThanWellFounded
    <2>. HIDE DEF R
    <2>. QED
        BY <2>1, WFMin
<1>2. \A x, y \in S : <<y, x>> \notin R => x <= y
    BY DEF OpToRel
<1>. QED
    BY <1>1, <1>2

LEMMA Induct ==
    ASSUME NEW S, 0 \in S, \A n \in Nat : n \in S => n + 1 \in S
    PROVE  \A n \in Nat : n \in S
<1>. SUFFICES ASSUME NEW k \in Nat, k \notin S PROVE FALSE
    OBVIOUS
<1>1. PICK n \in Nat \ S : \A m \in Nat \ S : n <= m
    <2>1. Nat \ S \in SUBSET Nat /\ Nat \ S # {}
        OBVIOUS
    <2>. QED
        BY <2>1, LeastIn
<1>2. n # 0 /\ n - 1 \in Nat /\ ~(n <= n - 1)
    OBVIOUS
<1>3. n - 1 \in S
    BY <1>1, <1>2
<1>4. (n - 1) + 1 \in S
    BY <1>2, <1>3
<1>. QED
    BY <1>1, <1>4

(* FlattenSeq is defined by recursion over the sequences: there is such a  *)
(* function.                                                               *)
IsFlattening(f, ss) ==
    f = [i \in 1 .. Len(ss) |-> IF i = 1 THEN ss[i] ELSE f[i - 1] \o ss[i]]

LEMMA FlattenSeqDef ==
    ASSUME NEW T, NEW ss \in Seq(T), ss # <<>>
    PROVE  \E f : IsFlattening(f, ss) /\ FlattenSeq(ss) = f[Len(ss)]
<1>. DEFINE F(f, n) == f = [i \in 1 .. n |-> IF i = 1 THEN ss[i] ELSE f[i - 1] \o ss[i]]
            P == {n \in Nat : \E f : F(f, n)}
<1>1. Len(ss) \in Nat /\ Len(ss) # 0
    BY EmptySeq
<1>2. 0 \in P
    <2>1. F(<<>>, 0)
        OBVIOUS
    <2>. QED
        BY <2>1
<1>3. ASSUME NEW n \in Nat, n \in P PROVE n + 1 \in P
    <2>1. PICK f : F(f, n)
        BY <1>3
    <2>2. ASSUME NEW g, g = [i \in 1 .. n + 1 |-> IF i <= n THEN f[i]
                                ELSE IF i = 1 THEN ss[i] ELSE f[i - 1] \o ss[i]]
          PROVE  F(g, n + 1)
        <3>1. ASSUME NEW i \in 1 .. n + 1
              PROVE  g[i] = IF i = 1 THEN ss[i] ELSE g[i - 1] \o ss[i]
            <4>1. i # 1 => i - 1 \in 1 .. n /\ i - 1 <= n /\ i - 1 \in 1 .. n + 1
                OBVIOUS
            <4>2. i # 1 => g[i - 1] = f[i - 1]
                BY <2>2, <4>1
            <4>3. CASE i <= n
                <5>1. i \in 1 .. n
                    BY <4>3
                <5>2. f[i] = IF i = 1 THEN ss[i] ELSE f[i - 1] \o ss[i]
                    BY <2>1, <5>1
                <5>. QED
                    BY <2>2, <4>2, <4>3, <5>2
            <4>4. CASE ~(i <= n)
                BY <2>2, <4>2, <4>4
            <4>. QED
                BY <4>3, <4>4
        <3>. QED
            BY <2>2, <3>1
    <2>. DEFINE e == [i \in 1 .. n + 1 |-> IF i <= n THEN f[i]
                         ELSE IF i = 1 THEN ss[i] ELSE f[i - 1] \o ss[i]]
    <2>3. F(e, n + 1)
        <3>. HIDE DEF F
        <3>. QED
            BY <2>2
    <2>4. \E g : F(g, n + 1)
        <3>. HIDE DEF F, e
        <3>. QED
            BY <2>3
    <2>. QED
        <3>. HIDE DEF F
        <3>. QED
            BY <2>4
<1>4. Len(ss) \in P
    <2>. HIDE DEF P
    <2>. QED
        BY <1>1, <1>2, <1>3, Induct
<1>5. \E f : IsFlattening(f, ss)
    BY <1>4 DEF IsFlattening
<1>6. FlattenSeq(ss) = (CHOOSE f : IsFlattening(f, ss))[Len(ss)]
    BY <1>1 DEF FlattenSeq, IsFlattening
<1>. QED
    BY <1>5, <1>6

(* There is only one: on what two sequences have in common they flatten to *)
(* the same.                                                               *)
LEMMA SameFlattening ==
    ASSUME NEW T, NEW ss \in Seq(T), NEW tt \in Seq(T), NEW f, NEW g,
           IsFlattening(f, ss), IsFlattening(g, tt),
           NEW n \in 1 .. Len(ss), n <= Len(tt), \A i \in 1 .. n : ss[i] = tt[i]
    PROVE  f[n] = g[n]
<1>. DEFINE P == {i \in Nat : i \in 1 .. n => f[i] = g[i]}
<1>0. Len(ss) \in Nat /\ Len(tt) \in Nat /\ n \in Nat
    OBVIOUS
<1>1. 0 \in P
    OBVIOUS
<1>2. ASSUME NEW i \in Nat, i \in P PROVE i + 1 \in P
    <2>. SUFFICES ASSUME i + 1 \in 1 .. n PROVE f[i + 1] = g[i + 1]
        OBVIOUS
    <2>1. i + 1 \in 1 .. Len(ss) /\ i + 1 \in 1 .. Len(tt) /\ (i + 1) - 1 = i
        BY <1>0
    <2>2. /\ f[i + 1] = IF i + 1 = 1 THEN ss[i + 1] ELSE f[i] \o ss[i + 1]
          /\ g[i + 1] = IF i + 1 = 1 THEN tt[i + 1] ELSE g[i] \o tt[i + 1]
        BY <2>1, ZenonT(30) DEF IsFlattening
    <2>3. CASE i = 0
        BY <2>2, <2>3
    <2>4. CASE i # 0
        BY <1>2, <2>2, <2>4
    <2>. QED
        BY <2>3, <2>4
<1>3. \A i \in Nat : i \in P
    <2>. HIDE DEF P
    <2>. QED
        BY <1>1, <1>2, Induct
<1>. QED
    BY <1>0, <1>3

LEMMA FlattenEmpty == FlattenSeq(<<>>) = <<>>
BY DEF FlattenSeq

LEMMA FlattenLast ==
    ASSUME NEW T, NEW ss \in Seq(T), NEW tt \in Seq(T), tt # <<>>, Len(tt) = Len(ss) + 1,
           \A i \in 1 .. Len(ss) : ss[i] = tt[i]
    PROVE  FlattenSeq(tt) = IF ss = <<>> THEN tt[Len(tt)] ELSE FlattenSeq(ss) \o tt[Len(tt)]
<1>1. Len(ss) \in Nat
    BY EmptySeq
<1>2. PICK g : IsFlattening(g, tt) /\ FlattenSeq(tt) = g[Len(tt)]
    BY FlattenSeqDef
<1>3. g[Len(tt)] = IF Len(ss) = 0 THEN tt[Len(tt)] ELSE g[Len(ss)] \o tt[Len(tt)]
    <2>1. Len(tt) \in 1 .. Len(tt) /\ Len(tt) - 1 = Len(ss) /\ (Len(tt) = 1 <=> Len(ss) = 0)
        BY <1>1
    <2>. QED
        BY <1>2, <2>1 DEF IsFlattening
<1>4. CASE ss = <<>>
    BY <1>2, <1>3, <1>4
<1>5. CASE ss # <<>>
    <2>1. PICK f : IsFlattening(f, ss) /\ FlattenSeq(ss) = f[Len(ss)]
        BY <1>5, FlattenSeqDef
    <2>2. Len(ss) # 0 /\ Len(ss) \in 1 .. Len(ss) /\ Len(ss) <= Len(tt)
        BY <1>1, <1>5, EmptySeq
    <2>3. IsFlattening(f, ss) /\ IsFlattening(g, tt)
        BY <1>2, <2>1
    <2>4. f[Len(ss)] = g[Len(ss)]
        BY <2>2, <2>3, SameFlattening
    <2>. QED
        BY <1>2, <1>3, <1>5, <2>1, <2>2, <2>4
<1>. QED
    BY <1>4, <1>5

(* What is needed of sequences when they are elements themselves. *)
Monoid(T) ==
    /\ <<>> \in T /\ \A a \in T : <<>> \o a = a /\ a \o <<>> = a
    /\ \A a, b \in T : a \o b \in T
    /\ \A a, b, c \in T : (a \o b) \o c = a \o (b \o c)

LEMMA SeqMonoid == \A S : Monoid(Seq(S))
<1>. TAKE S
<1>1. <<>> \in Seq(S)
    OBVIOUS
<1>2. \A a \in Seq(S) : <<>> \o a = a /\ a \o <<>> = a
    BY ConcatEmptySeq
<1>3. \A a, b \in Seq(S) : a \o b \in Seq(S)
    BY ConcatProperties
<1>4. \A a, b, c \in Seq(S) : (a \o b) \o c = a \o (b \o c)
    BY ConcatAssociative
<1>. QED
    BY <1>1, <1>2, <1>3, <1>4 DEF Monoid

LEMMA FlattenAppendIn ==
    ASSUME NEW T, Monoid(T), NEW ss \in Seq(T), NEW s \in T
    PROVE  FlattenSeq(Append(ss, s)) = FlattenSeq(ss) \o s
<1>1. /\ Append(ss, s) \in Seq(T) /\ Append(ss, s) # <<>> /\ Len(Append(ss, s)) = Len(ss) + 1
      /\ \A i \in 1 .. Len(ss) : ss[i] = Append(ss, s)[i]
      /\ Append(ss, s)[Len(Append(ss, s))] = s
    BY AppendProperties
<1>2. FlattenSeq(Append(ss, s)) = IF ss = <<>> THEN s ELSE FlattenSeq(ss) \o s
    BY <1>1, FlattenLast
<1>3. <<>> \o s = s
    BY DEF Monoid
<1>. QED
    BY <1>2, <1>3, FlattenEmpty

LEMMA FlattenIn == ASSUME NEW T, Monoid(T), NEW ss \in Seq(T) PROVE FlattenSeq(ss) \in T
<1>. DEFINE P == {n \in Nat : \A uu \in Seq(T) : Len(uu) = n => FlattenSeq(uu) \in T}
<1>1. 0 \in P
    BY EmptySeq, FlattenEmpty DEF Monoid
<1>2. ASSUME NEW n \in Nat, n \in P PROVE n + 1 \in P
    <2>. SUFFICES ASSUME NEW uu \in Seq(T), Len(uu) = n + 1 PROVE FlattenSeq(uu) \in T
        OBVIOUS
    <2>0. uu # <<>>
        BY EmptySeq
    <2>1. PICK vv \in Seq(T), s \in T : uu = Append(vv, s)
        BY <2>0, SequenceEmptyOrAppend
    <2>2. Len(vv) = n
        BY <2>1, AppendProperties
    <2>3. FlattenSeq(uu) = FlattenSeq(vv) \o s /\ FlattenSeq(vv) \in T
        BY <1>2, <2>1, <2>2, FlattenAppendIn
    <2>. QED
        BY <2>1, <2>3 DEF Monoid
<1>3. Len(ss) \in P
    <2>. HIDE DEF P
    <2>1. Len(ss) \in Nat
        BY EmptySeq
    <2>. QED
        BY <1>1, <1>2, <2>1, Induct
<1>. QED
    BY <1>3

LEMMA FlattenConcatIn ==
    ASSUME NEW T, Monoid(T), NEW ss \in Seq(T), NEW tt \in Seq(T)
    PROVE  FlattenSeq(ss \o tt) = FlattenSeq(ss) \o FlattenSeq(tt)
<1>. DEFINE P == {n \in Nat : \A uu \in Seq(T) : Len(uu) = n =>
                                  FlattenSeq(ss \o uu) = FlattenSeq(ss) \o FlattenSeq(uu)}
<1>1. 0 \in P
    <2>. SUFFICES ASSUME NEW uu \in Seq(T), Len(uu) = 0
                  PROVE  FlattenSeq(ss \o uu) = FlattenSeq(ss) \o FlattenSeq(uu)
        OBVIOUS
    <2>1. uu = <<>> /\ ss \o uu = ss /\ FlattenSeq(uu) = <<>>
        BY EmptySeq, ConcatEmptySeq, FlattenEmpty
    <2>2. FlattenSeq(ss) \in T
        BY FlattenIn
    <2>. QED
        BY <2>1, <2>2 DEF Monoid
<1>2. ASSUME NEW n \in Nat, n \in P PROVE n + 1 \in P
    <2>. SUFFICES ASSUME NEW uu \in Seq(T), Len(uu) = n + 1
                  PROVE  FlattenSeq(ss \o uu) = FlattenSeq(ss) \o FlattenSeq(uu)
        OBVIOUS
    <2>0. uu # <<>>
        BY EmptySeq
    <2>1. PICK vv \in Seq(T), s \in T : uu = Append(vv, s)
        BY <2>0, SequenceEmptyOrAppend
    <2>2. Len(vv) = n
        BY <2>1, AppendProperties
    <2>3. FlattenSeq(ss \o vv) = FlattenSeq(ss) \o FlattenSeq(vv)
        BY <1>2, <2>2
    <2>4. ss \o uu = Append(ss \o vv, s) /\ ss \o vv \in Seq(T)
        BY <2>1, ConcatAppend, ConcatProperties
    <2>5. /\ FlattenSeq(ss \o uu) = FlattenSeq(ss \o vv) \o s
          /\ FlattenSeq(uu) = FlattenSeq(vv) \o s
        BY <2>1, <2>4, FlattenAppendIn
    <2>6. FlattenSeq(ss) \in T /\ FlattenSeq(vv) \in T
        BY FlattenIn
    <2>7. (FlattenSeq(ss) \o FlattenSeq(vv)) \o s = FlattenSeq(ss) \o (FlattenSeq(vv) \o s)
        <3>1. \A a, b, c \in T : (a \o b) \o c = a \o (b \o c)
            BY DEF Monoid
        <3>. QED
            BY <2>1, <2>6, <3>1
    <2>. QED
        BY <2>3, <2>5, <2>7
<1>3. Len(tt) \in P
    <2>. HIDE DEF P
    <2>1. Len(tt) \in Nat
        BY EmptySeq
    <2>. QED
        BY <1>1, <1>2, <2>1, Induct
<1>. QED
    BY <1>3

(* The same for sequences of sequences over a set. *)
LEMMA FlattenLemmas ==
    ASSUME NEW S
    PROVE  /\ \A ss \in Seq(Seq(S)) : FlattenSeq(ss) \in Seq(S)
           /\ \A ss \in Seq(Seq(S)), s \in Seq(S) :
                 FlattenSeq(Append(ss, s)) = FlattenSeq(ss) \o s
           /\ \A ss, tt \in Seq(Seq(S)) :
                 FlattenSeq(ss \o tt) = FlattenSeq(ss) \o FlattenSeq(tt)
<1>. SUFFICES ASSUME NEW T, Monoid(T)
              PROVE  /\ \A ss \in Seq(T) : FlattenSeq(ss) \in T
                     /\ \A ss \in Seq(T), s \in T : FlattenSeq(Append(ss, s)) = FlattenSeq(ss) \o s
                     /\ \A ss, tt \in Seq(T) :
                           FlattenSeq(ss \o tt) = FlattenSeq(ss) \o FlattenSeq(tt)
    BY SeqMonoid
<1>. QED
    BY FlattenIn, FlattenAppendIn, FlattenConcatIn

(* A part of a sequence, and the parts of a concatenation. *)
LEMMA Slice ==
    ASSUME NEW S, NEW s \in Seq(S), NEW m \in 1 .. Len(s) + 1, NEW n \in m - 1 .. Len(s)
    PROVE  /\ SubSeq(s, m, n) \in Seq(S) /\ Len(SubSeq(s, m, n)) = n - m + 1
           /\ \A i \in 1 .. n - m + 1 : SubSeq(s, m, n)[i] = s[m + i - 1]
<1>1. Len(s) \in Nat /\ m \in Int /\ n \in Int
    BY LenProperties
<1>2. \A i \in m .. n : s[i] \in S
    BY <1>1, ElementOfSeq
<1>3. SubSeq(s, m, n) \in Seq(S)
    BY <1>1, <1>2, SubSeqProperties
<1>4. Len(SubSeq(s, m, n)) = IF m <= n THEN n - m + 1 ELSE 0
    BY <1>1, <1>2, SubSeqProperties
<1>5. \A i \in 1 .. n - m + 1 : SubSeq(s, m, n)[i] = s[m + i - 1]
    BY <1>1, <1>2, SubSeqProperties
<1>. QED
    BY <1>1, <1>3, <1>4, <1>5

(* The same for an application of it: what the slice is, under a name. *)
IsSlice(S, x, s, m, n) ==
    /\ x \in Seq(S) /\ Len(x) = n - m + 1
    /\ \A i \in 1 .. n - m + 1 : x[i] = s[m + i - 1]

LEMMA SliceIs ==
    ASSUME NEW S, NEW s \in Seq(S), NEW m \in 1 .. Len(s) + 1, NEW n \in m - 1 .. Len(s)
    PROVE  IsSlice(S, SubSeq(s, m, n), s, m, n)
<1>. DEFINE x == SubSeq(s, m, n)
<1>1. /\ x \in Seq(S) /\ Len(x) = n - m + 1
      /\ \A i \in 1 .. n - m + 1 : x[i] = s[m + i - 1]
    BY Slice
<1>. HIDE DEF x
<1>2. IsSlice(S, x, s, m, n)
    BY <1>1 DEF IsSlice
<1>. QED
    BY <1>2 DEF x

LEMMA SliceConcat ==
    ASSUME NEW S, NEW a \in Seq(S), NEW c \in Seq(S), NEW n \in 0 .. Len(a) + Len(c)
    PROVE  /\ SubSeq(a \o c, 1, n) \in Seq(S) /\ Len(SubSeq(a \o c, 1, n)) = n
           /\ \A i \in 1 .. n : SubSeq(a \o c, 1, n)[i] = (a \o c)[i]
           /\ SubSeq(a \o c, n + 1, Len(a) + Len(c)) \in Seq(S)
           /\ Len(SubSeq(a \o c, n + 1, Len(a) + Len(c))) = Len(a) + Len(c) - n
           /\ \A i \in 1 .. Len(a) + Len(c) - n :
                 SubSeq(a \o c, n + 1, Len(a) + Len(c))[i] = (a \o c)[n + i]
<1>. DEFINE d == a \o c
            l == Len(a) + Len(c)
<1>1. Len(a) \in Nat /\ Len(c) \in Nat
    BY LenProperties
<1>2. d \in Seq(S) /\ Len(d) = l
    BY ConcatProperties
<1>3. /\ 1 \in 1 .. Len(d) + 1 /\ n \in 1 - 1 .. Len(d)
      /\ n + 1 \in 1 .. Len(d) + 1 /\ l \in (n + 1) - 1 .. Len(d)
    BY <1>1, <1>2
<1>. HIDE DEF d
<1>4. /\ SubSeq(d, 1, n) \in Seq(S) /\ Len(SubSeq(d, 1, n)) = n - 1 + 1
      /\ \A i \in 1 .. n - 1 + 1 : SubSeq(d, 1, n)[i] = d[1 + i - 1]
    BY <1>2, <1>3, Slice
<1>5. /\ SubSeq(d, n + 1, l) \in Seq(S) /\ Len(SubSeq(d, n + 1, l)) = l - (n + 1) + 1
      /\ \A i \in 1 .. l - (n + 1) + 1 : SubSeq(d, n + 1, l)[i] = d[(n + 1) + i - 1]
    BY <1>2, <1>3, Slice
<1>6. n \in Int /\ l \in Int
    BY <1>1
<1>7. n - 1 + 1 = n /\ l - (n + 1) + 1 = l - n
    BY <1>6
<1>8. \A i \in Int : 1 + i - 1 = i /\ (n + 1) + i - 1 = n + i
    BY <1>6
<1>9. \A i \in 1 .. n : SubSeq(d, 1, n)[i] = d[i]
    BY <1>4, <1>7, <1>8
<1>10. \A i \in 1 .. l - n : SubSeq(d, n + 1, l)[i] = d[n + i]
    BY <1>5, <1>7, <1>8
<1>. QED
    BY <1>4, <1>5, <1>7, <1>9, <1>10, SMTT(30) DEF d

LEMMA TakeWithin ==
    ASSUME NEW S, NEW a \in Seq(S), NEW c \in Seq(S), NEW n \in 0 .. Len(a)
    PROVE  SubSeq(a \o c, 1, n) = SubSeq(a, 1, n)
<1>1. Len(a) \in Nat /\ Len(c) \in Nat /\ n \in 0 .. Len(a) + Len(c)
    BY LenProperties
<1>2. /\ SubSeq(a \o c, 1, n) \in Seq(S) /\ Len(SubSeq(a \o c, 1, n)) = n
      /\ \A i \in 1 .. n : SubSeq(a \o c, 1, n)[i] = (a \o c)[i]
    BY <1>1, SliceConcat
<1>3. 1 \in 1 .. Len(a) + 1 /\ n \in 1 - 1 .. Len(a) /\ n - 1 + 1 = n
    BY <1>1
<1>4. /\ SubSeq(a, 1, n) \in Seq(S) /\ Len(SubSeq(a, 1, n)) = n
      /\ \A i \in 1 .. n : SubSeq(a, 1, n)[i] = a[1 + i - 1]
    BY <1>3, Slice
<1>5. \A i \in 1 .. n : (a \o c)[i] = a[i] /\ 1 + i - 1 = i
    <2>. TAKE i \in 1 .. n
    <2>1. i \in 1 .. Len(a) + Len(c) /\ i <= Len(a) /\ 1 + i - 1 = i
        BY <1>1
    <2>. QED
        BY <2>1, ConcatProperties
<1>6. \A i \in 1 .. n : SubSeq(a \o c, 1, n)[i] = SubSeq(a, 1, n)[i]
    BY <1>2, <1>4, <1>5
<1>. QED
    BY <1>2, <1>4, <1>6, SeqEqual

LEMMA DropWithin ==
    ASSUME NEW S, NEW a \in Seq(S), NEW c \in Seq(S), NEW n \in 0 .. Len(a)
    PROVE  SubSeq(a \o c, n + 1, Len(a) + Len(c)) = SubSeq(a, n + 1, Len(a)) \o c
<1>. DEFINE x == SubSeq(a \o c, n + 1, Len(a) + Len(c))
            y == SubSeq(a, n + 1, Len(a))
<1>1. Len(a) \in Nat /\ Len(c) \in Nat /\ n \in 0 .. Len(a) + Len(c)
    BY LenProperties
<1>2. /\ x \in Seq(S) /\ Len(x) = Len(a) + Len(c) - n
      /\ \A i \in 1 .. Len(a) + Len(c) - n : x[i] = (a \o c)[n + i]
    BY <1>1, SliceConcat
<1>3. /\ n + 1 \in 1 .. Len(a) + 1 /\ Len(a) \in (n + 1) - 1 .. Len(a)
      /\ Len(a) - (n + 1) + 1 = Len(a) - n
    BY <1>1
<1>4. /\ y \in Seq(S) /\ Len(y) = Len(a) - n
      /\ \A i \in 1 .. Len(a) - n : y[i] = a[(n + 1) + i - 1]
    <2>1. IsSlice(S, SubSeq(a, n + 1, Len(a)), a, n + 1, Len(a))
        BY <1>3, SliceIs
    <2>. QED
        BY <1>3, <2>1 DEF IsSlice
<1>. HIDE DEF x, y
<1>5. /\ y \o c \in Seq(S) /\ Len(y \o c) = Len(y) + Len(c)
      /\ \A i \in 1 .. Len(y) + Len(c) :
            (y \o c)[i] = IF i <= Len(y) THEN y[i] ELSE c[i - Len(y)]
    BY <1>4, ConcatProperties
<1>6. ASSUME NEW i \in 1 .. Len(a) + Len(c) - n PROVE x[i] = (y \o c)[i]
    <2>1. n + i \in 1 .. Len(a) + Len(c) /\ i \in 1 .. Len(y) + Len(c) /\ (n + 1) + i - 1 = n + i
        BY <1>1, <1>4
    <2>2. (a \o c)[n + i] = IF n + i <= Len(a) THEN a[n + i] ELSE c[(n + i) - Len(a)]
        BY <2>1, ConcatProperties
    <2>3. (y \o c)[i] = IF i <= Len(y) THEN y[i] ELSE c[i - Len(y)]
        BY <1>5, <2>1
    <2>4. (i <= Len(y) <=> n + i <= Len(a)) /\ i - Len(y) = (n + i) - Len(a)
        BY <1>1, <1>4
    <2>5. i <= Len(y) => y[i] = a[n + i]
        BY <1>1, <1>4, <2>1
    <2>. QED
        BY <1>2, <2>2, <2>3, <2>4, <2>5
<1>7. Len(x) = Len(y \o c)
    BY <1>1, <1>2, <1>4, <1>5
<1>8. x = y \o c
    BY <1>2, <1>5, <1>6, <1>7, SeqEqual
<1>. QED
    BY <1>8 DEF x, y

LEMMA DropBeyond ==
    ASSUME NEW S, NEW a \in Seq(S), NEW c \in Seq(S), NEW n \in Len(a) .. Len(a) + Len(c)
    PROVE  SubSeq(a \o c, n + 1, Len(a) + Len(c)) = SubSeq(c, n - Len(a) + 1, Len(c))
<1>. DEFINE x == SubSeq(a \o c, n + 1, Len(a) + Len(c))
            y == SubSeq(c, n - Len(a) + 1, Len(c))
<1>1. Len(a) \in Nat /\ Len(c) \in Nat /\ n \in 0 .. Len(a) + Len(c)
    BY LenProperties
<1>2. /\ x \in Seq(S) /\ Len(x) = Len(a) + Len(c) - n
      /\ \A i \in 1 .. Len(a) + Len(c) - n : x[i] = (a \o c)[n + i]
    BY <1>1, SliceConcat
<1>3. /\ n - Len(a) + 1 \in 1 .. Len(c) + 1 /\ Len(c) \in (n - Len(a) + 1) - 1 .. Len(c)
      /\ Len(c) - (n - Len(a) + 1) + 1 = Len(a) + Len(c) - n
    BY <1>1
<1>4. /\ y \in Seq(S) /\ Len(y) = Len(a) + Len(c) - n
      /\ \A i \in 1 .. Len(a) + Len(c) - n : y[i] = c[(n - Len(a) + 1) + i - 1]
    <2>1. IsSlice(S, y, c, n - Len(a) + 1, Len(c))
        BY <1>3, SliceIs
    <2>. HIDE DEF y
    <2>. QED
        BY <1>3, <2>1 DEF IsSlice
<1>. HIDE DEF x, y
<1>5. ASSUME NEW i \in 1 .. Len(a) + Len(c) - n PROVE x[i] = y[i]
    <2>1. /\ n + i \in 1 .. Len(a) + Len(c) /\ ~(n + i <= Len(a))
          /\ (n - Len(a) + 1) + i - 1 = (n + i) - Len(a)
        BY <1>1
    <2>2. (a \o c)[n + i] = c[(n + i) - Len(a)]
        BY <2>1, ConcatProperties
    <2>. QED
        BY <1>2, <1>4, <2>1, <2>2
<1>6. x = y
    BY <1>2, <1>4, <1>5, SeqEqual
<1>. QED
    BY <1>6 DEF x, y

(* The flattening of one element, of the first k and of the others. *)
LEMMA FlattenOneIn == ASSUME NEW T, Monoid(T), NEW s \in T PROVE FlattenSeq(<<s>>) = s
<1>1. <<>> \in Seq(T) /\ Append(<<>>, s) = <<s>>
    OBVIOUS
<1>2. FlattenSeq(Append(<<>>, s)) = FlattenSeq(<<>>) \o s
    BY <1>1, FlattenAppendIn
<1>3. <<>> \o s = s
    BY DEF Monoid
<1>. QED
    BY <1>1, <1>2, <1>3, FlattenEmpty

LEMMA FlattenNextIn ==
    ASSUME NEW T, Monoid(T), NEW ss \in Seq(T), NEW k \in 1 .. Len(ss)
    PROVE  FlattenSeq(SubSeq(ss, 1, k)) = FlattenSeq(SubSeq(ss, 1, k - 1)) \o ss[k]
<1>1. Len(ss) \in Nat /\ ss[k] \in T
    BY LenProperties, ElementOfSeq
<1>2. 1 \in 1 .. Len(ss) /\ k \in 1 .. Len(ss) /\ 1 \in 1 .. Len(ss) + 1 /\ k - 1 \in 1 - 1 .. Len(ss)
    BY <1>1
<1>3. SubSeq(ss, 1, k - 1) \in Seq(T)
    BY <1>2, Slice
<1>4. SubSeq(ss, 1, k) = SubSeq(ss, 1, k - 1) \o <<ss[k]>>
    BY <1>2, SubSeqRecursiveSecond
<1>5. SubSeq(ss, 1, k - 1) \o <<ss[k]>> = Append(SubSeq(ss, 1, k - 1), ss[k])
    BY <1>1, <1>3, AppendIsConcat
<1>. QED
    BY <1>1, <1>3, <1>4, <1>5, FlattenAppendIn

LEMMA FlattenSplitIn ==
    ASSUME NEW T, Monoid(T), NEW ss \in Seq(T), NEW k \in 0 .. Len(ss)
    PROVE  FlattenSeq(ss)
               = FlattenSeq(SubSeq(ss, 1, k)) \o FlattenSeq(SubSeq(ss, k + 1, Len(ss)))
<1>1. Len(ss) \in Nat
    BY LenProperties
<1>2. /\ 1 \in 1 .. Len(ss) + 1 /\ k \in 1 - 1 .. Len(ss) /\ Len(ss) \in k .. Len(ss)
      /\ k + 1 \in 1 .. Len(ss) + 1 /\ Len(ss) \in (k + 1) - 1 .. Len(ss)
    BY <1>1
<1>3. SubSeq(ss, 1, k) \in Seq(T) /\ SubSeq(ss, k + 1, Len(ss)) \in Seq(T)
    BY <1>2, Slice
<1>4. SubSeq(ss, 1, k) \o SubSeq(ss, k + 1, Len(ss)) = SubSeq(ss, 1, Len(ss))
    BY <1>2, ConcatAdjacentSubSeq
<1>5. SubSeq(ss, 1, Len(ss)) = ss
    BY SubSeqFull
<1>. DEFINE x == SubSeq(ss, 1, k)
            y == SubSeq(ss, k + 1, Len(ss))
<1>6. x \in Seq(T) /\ y \in Seq(T) /\ ss = x \o y
    BY <1>3, <1>4, <1>5
<1>7. FlattenSeq(x \o y) = FlattenSeq(x) \o FlattenSeq(y)
    <2>. HIDE DEF x, y
    <2>. QED
        BY <1>6, FlattenConcatIn
<1>. QED
    BY <1>6, <1>7

(* A list of buffers: what the provers need to know of it. *)
Lists(S) == Seq(Seq(S))

LEMMA ListType ==
    ASSUME NEW S, NEW list \in Lists(S)
    PROVE  /\ Len(list) \in Nat /\ DOMAIN list = 1 .. Len(list)
           /\ \A k \in 1 .. Len(list) : list[k] \in Seq(S)
           /\ FlattenSeq(list) \in Seq(S) /\ Len(FlattenSeq(list)) \in Nat
<1>1. FlattenSeq(list) \in Seq(S)
    BY SeqMonoid, FlattenIn DEF Lists
<1>2. Len(list) \in Nat /\ DOMAIN list = 1 .. Len(list)
    BY LenProperties DEF Lists
<1>3. \A k \in 1 .. Len(list) : list[k] \in Seq(S)
    BY ElementOfSeq DEF Lists
<1>. QED
    BY <1>1, <1>2, <1>3, LenProperties

LEMMA ListSlice ==
    ASSUME NEW S, NEW list \in Lists(S), NEW m \in 1 .. Len(list) + 1,
           NEW n \in m - 1 .. Len(list)
    PROVE  /\ SubSeq(list, m, n) \in Lists(S) /\ Len(SubSeq(list, m, n)) = n - m + 1
           /\ \A i \in 1 .. n - m + 1 : SubSeq(list, m, n)[i] = list[m + i - 1]
<1>1. SubSeq(list, m, n) \in Lists(S)
    BY Slice DEF Lists
<1>2. Len(SubSeq(list, m, n)) = n - m + 1
    BY Slice DEF Lists
<1>3. \A i \in 1 .. n - m + 1 : SubSeq(list, m, n)[i] = list[m + i - 1]
    BY Slice DEF Lists
<1>. QED
    BY <1>1, <1>2, <1>3

LEMMA ListEmpty ==
    ASSUME NEW S
    PROVE  /\ <<>> \in Lists(S)
           /\ \A list \in Lists(S) : Len(list) = 0 <=> list = <<>>
BY EmptySeq DEF Lists

LEMMA ListAppend ==
    ASSUME NEW S, NEW list \in Lists(S), NEW s \in Seq(S)
    PROVE  /\ Append(list, s) \in Lists(S)
           /\ Len(Append(list, s)) = Len(list) + 1
           /\ FlattenSeq(Append(list, s)) = FlattenSeq(list) \o s
<1>1. FlattenSeq(Append(list, s)) = FlattenSeq(list) \o s
    BY SeqMonoid, FlattenAppendIn DEF Lists
<1>2. Append(list, s) \in Lists(S) /\ Len(Append(list, s)) = Len(list) + 1
    BY AppendProperties DEF Lists
<1>. QED
    BY <1>1, <1>2

LEMMA ListConcat ==
    ASSUME NEW S, NEW list \in Lists(S), NEW more \in Lists(S)
    PROVE  /\ list \o more \in Lists(S)
           /\ Len(list \o more) = Len(list) + Len(more)
           /\ FlattenSeq(list \o more) = FlattenSeq(list) \o FlattenSeq(more)
<1>1. FlattenSeq(list \o more) = FlattenSeq(list) \o FlattenSeq(more)
    BY SeqMonoid, FlattenConcatIn DEF Lists
<1>2. list \o more \in Lists(S) /\ Len(list \o more) = Len(list) + Len(more)
    BY ConcatProperties DEF Lists
<1>. QED
    BY <1>1, <1>2

LEMMA PairIn ==
    ASSUME NEW T, NEW s \in T, NEW t \in T
    PROVE  <<s>> \in Seq(T) /\ <<s, t>> \in Seq(T) /\ Append(<<s>>, t) = <<s, t>>
<1>1. <<s>> \in Seq(T)
    OBVIOUS
<1>2. <<s, t>> \in Seq(T)
    OBVIOUS
<1>3. Append(<<s>>, t) = <<s>> \o <<t>>
    BY <1>1, AppendIsConcat
<1>. QED
    BY <1>1, <1>2, <1>3, Pair

LEMMA ListPair ==
    ASSUME NEW S, NEW s \in Seq(S), NEW t \in Seq(S)
    PROVE  /\ <<s>> \in Lists(S) /\ FlattenSeq(<<s>>) = s
           /\ <<s, t>> \in Lists(S) /\ FlattenSeq(<<s, t>>) = s \o t
<1>1. <<s>> \in Lists(S) /\ <<s, t>> \in Lists(S) /\ Append(<<s>>, t) = <<s, t>>
    BY PairIn DEF Lists
<1>2. FlattenSeq(<<s>>) = s
    BY SeqMonoid, FlattenOneIn
<1>3. FlattenSeq(Append(<<s>>, t)) = FlattenSeq(<<s>>) \o t
    BY <1>1, ListAppend
<1>. QED
    BY <1>1, <1>2, <1>3

LEMMA ListNext ==
    ASSUME NEW S, NEW list \in Lists(S), NEW k \in 1 .. Len(list)
    PROVE  FlattenSeq(SubSeq(list, 1, k)) = FlattenSeq(SubSeq(list, 1, k - 1)) \o list[k]
BY SeqMonoid, FlattenNextIn DEF Lists

LEMMA ListSplit ==
    ASSUME NEW S, NEW list \in Lists(S), NEW k \in 0 .. Len(list)
    PROVE  FlattenSeq(list)
               = FlattenSeq(SubSeq(list, 1, k)) \o FlattenSeq(SubSeq(list, k + 1, Len(list)))
BY SeqMonoid, FlattenSplitIn DEF Lists

LEMMA ListLast ==
    ASSUME NEW S, NEW list \in Lists(S), NEW more \in Lists(S), Len(more) = Len(list) + 1,
           \A k \in 1 .. Len(list) : list[k] = more[k]
    PROVE  FlattenSeq(more) = FlattenSeq(list) \o more[Len(more)]
<1>1. Len(list) \in Nat /\ Len(more) \in 1 .. Len(more) /\ more # <<>>
    BY ListType, ListEmpty
<1>2. FlattenSeq(more) = IF list = <<>> THEN more[Len(more)]
                         ELSE FlattenSeq(list) \o more[Len(more)]
    BY <1>1, FlattenLast DEF Lists
<1>3. <<>> \o more[Len(more)] = more[Len(more)]
    BY <1>1, ListType, ConcatEmptySeq
<1>. QED
    BY <1>2, <1>3, FlattenEmpty

(* What of a sequence comes after its first a elements, up to element b. *)
Part(s, a, b) == SubSeq(s, a + 1, b)

LEMMA PartType ==
    ASSUME NEW S, NEW s \in Seq(S), NEW b \in 0 .. Len(s), NEW a \in 0 .. b
    PROVE  /\ Part(s, a, b) \in Seq(S) /\ Len(Part(s, a, b)) = b - a
           /\ \A i \in 1 .. b - a : Part(s, a, b)[i] = s[a + i]
<1>1. Len(s) \in Nat
    BY LenProperties
<1>2. a + 1 \in 1 .. Len(s) + 1 /\ b \in (a + 1) - 1 .. Len(s) /\ b - (a + 1) + 1 = b - a
    BY <1>1
<1>3. \A i \in Int : (a + 1) + i - 1 = a + i
    BY <1>2
<1>. SUFFICES ASSUME NEW m \in 1 .. Len(s) + 1, b \in m - 1 .. Len(s), b - m + 1 = b - a,
                     \A i \in Int : m + i - 1 = a + i
              PROVE  /\ SubSeq(s, m, b) \in Seq(S) /\ Len(SubSeq(s, m, b)) = b - a
                     /\ \A i \in 1 .. b - a : SubSeq(s, m, b)[i] = s[a + i]
    BY <1>2, <1>3 DEF Part
<1>. QED
    BY Slice

LEMMA PartOfList ==
    ASSUME NEW S, NEW list \in Lists(S), NEW b \in 0 .. Len(list), NEW a \in 0 .. b
    PROVE  /\ Part(list, a, b) \in Lists(S) /\ Len(Part(list, a, b)) = b - a
           /\ \A i \in 1 .. b - a : Part(list, a, b)[i] = list[a + i]
<1>1. Part(list, a, b) \in Lists(S) /\ Len(Part(list, a, b)) = b - a
    BY PartType DEF Lists
<1>2. \A i \in 1 .. b - a : Part(list, a, b)[i] = list[a + i]
    BY PartType DEF Lists
<1>. QED
    BY <1>1, <1>2

LEMMA PartConcat ==
    ASSUME NEW S, NEW s \in Seq(S), NEW c \in 0 .. Len(s), NEW b \in 0 .. c, NEW a \in 0 .. b
    PROVE  Part(s, a, b) \o Part(s, b, c) = Part(s, a, c)
<1>1. Len(s) \in Nat
    BY LenProperties
<1>2. a + 1 \in 1 .. Len(s) + 1 /\ b \in (a + 1) - 1 .. Len(s) /\ c \in b .. Len(s)
    BY <1>1
<1>. QED
    BY <1>2, ConcatAdjacentSubSeq DEF Part

LEMMA PartPart ==
    ASSUME NEW S, NEW s \in Seq(S), NEW b \in 0 .. Len(s), NEW a \in 0 .. b,
           NEW y \in 0 .. b - a, NEW x \in 0 .. y
    PROVE  Part(Part(s, a, b), x, y) = Part(s, a + x, a + y)
<1>1. Len(s) \in Nat
    BY LenProperties
<1>2. /\ Part(s, a, b) \in Seq(S) /\ Len(Part(s, a, b)) = b - a
      /\ \A i \in 1 .. b - a : Part(s, a, b)[i] = s[a + i]
    BY PartType
<1>3. a + y \in 0 .. Len(s) /\ a + x \in 0 .. a + y /\ (a + y) - (a + x) = y - x
    BY <1>1
<1>. DEFINE p == Part(s, a, b)
            u == a + x
            v == a + y
<1>4. p \in Seq(S) /\ y \in 0 .. Len(p) /\ x \in 0 .. y
    BY <1>1, <1>2
<1>5. v \in 0 .. Len(s) /\ u \in 0 .. v /\ v - u = y - x
    BY <1>3
<1>. HIDE DEF p, u, v
<1>8. /\ Part(p, x, y) \in Seq(S) /\ Len(Part(p, x, y)) = y - x
      /\ \A i \in 1 .. y - x : Part(p, x, y)[i] = p[x + i]
    BY <1>4, PartType
<1>9. /\ Part(s, u, v) \in Seq(S) /\ Len(Part(s, u, v)) = y - x
      /\ \A i \in 1 .. y - x : Part(s, u, v)[i] = s[u + i]
    <2>1. /\ Part(s, u, v) \in Seq(S) /\ Len(Part(s, u, v)) = v - u
          /\ \A i \in 1 .. v - u : Part(s, u, v)[i] = s[u + i]
        BY <1>5, PartType
    <2>. QED
        BY <1>5, <2>1
<1>6. ASSUME NEW i \in 1 .. y - x PROVE Part(p, x, y)[i] = Part(s, u, v)[i]
    <2>1. x + i \in 1 .. b - a /\ a + (x + i) = u + i
        BY <1>1 DEF u
    <2>. QED
        BY <1>2, <1>8, <1>9, <2>1 DEF p
<1>7. Part(p, x, y) = Part(s, u, v)
    BY <1>8, <1>9, <1>6, SeqEqual
<1>. QED
    BY <1>7 DEF p, u, v

LEMMA PartEmpty == ASSUME NEW s, NEW a \in Int, NEW b \in Int, b <= a PROVE Part(s, a, b) = <<>>
BY SubSeqEmpty DEF Part

(* A part of a concatenation has one part of each. *)
Within(l, a) == IF a <= l THEN a ELSE l

Beyond(l, a) == IF a <= l THEN 0 ELSE a - l

LEMMA PartOfConcat ==
    ASSUME NEW S, NEW s \in Seq(S), NEW t \in Seq(S),
           NEW b \in 0 .. Len(s) + Len(t), NEW a \in 0 .. b
    PROVE  Part(s \o t, a, b) = Part(s, Within(Len(s), a), Within(Len(s), b))
                                    \o Part(t, Beyond(Len(s), a), Beyond(Len(s), b))
<1>. DEFINE a1 == Within(Len(s), a)
            b1 == Within(Len(s), b)
            a2 == Beyond(Len(s), a)
            b2 == Beyond(Len(s), b)
            w == s \o t
            x == Part(s, a1, b1)
            y == Part(t, a2, b2)
<1>1. Len(s) \in Nat /\ Len(t) \in Nat
    BY LenProperties
<1>2. /\ w \in Seq(S) /\ Len(w) = Len(s) + Len(t)
      /\ \A i \in 1 .. Len(s) + Len(t) : w[i] = IF i <= Len(s) THEN s[i] ELSE t[i - Len(s)]
    BY ConcatProperties
<1>12. /\ a1 = (IF a <= Len(s) THEN a ELSE Len(s)) /\ a2 = (IF a <= Len(s) THEN 0 ELSE a - Len(s))
       /\ b1 = (IF b <= Len(s) THEN b ELSE Len(s)) /\ b2 = (IF b <= Len(s) THEN 0 ELSE b - Len(s))
    BY DEF Within, Beyond
<1>. HIDE DEF a1, b1, a2, b2
<1>3. b1 \in 0 .. Len(s) /\ a1 \in 0 .. b1 /\ b2 \in 0 .. Len(t) /\ a2 \in 0 .. b2
    BY <1>1, <1>12
<1>4. /\ x \in Seq(S) /\ Len(x) = b1 - a1
      /\ \A i \in 1 .. b1 - a1 : x[i] = s[a1 + i]
    BY <1>3, PartType
<1>5. /\ y \in Seq(S) /\ Len(y) = b2 - a2
      /\ \A i \in 1 .. b2 - a2 : y[i] = t[a2 + i]
    BY <1>3, PartType
<1>. HIDE DEF w, x, y
<1>6. /\ Part(w, a, b) \in Seq(S) /\ Len(Part(w, a, b)) = b - a
      /\ \A i \in 1 .. b - a : Part(w, a, b)[i] = w[a + i]
    <2>1. b \in 0 .. Len(w)
        BY <1>2
    <2>. QED
        BY <1>2, <2>1, PartType, ZenonT(30)
<1>7. /\ x \o y \in Seq(S) /\ Len(x \o y) = Len(x) + Len(y)
      /\ \A i \in 1 .. Len(x) + Len(y) :
            (x \o y)[i] = IF i <= Len(x) THEN x[i] ELSE y[i - Len(x)]
    BY <1>4, <1>5, ConcatProperties
<1>8. (b1 - a1) + (b2 - a2) = b - a
    BY <1>1, <1>12
<1>9. ASSUME NEW i \in 1 .. b - a PROVE Part(w, a, b)[i] = (x \o y)[i]
    <2>1. a + i \in 1 .. Len(s) + Len(t) /\ i \in 1 .. (b1 - a1) + (b2 - a2)
        BY <1>1, <1>8
    <2>2. Part(w, a, b)[i] = IF a + i <= Len(s) THEN s[a + i] ELSE t[(a + i) - Len(s)]
        BY <1>2, <1>6, <2>1
    <2>3. (x \o y)[i] = IF i <= b1 - a1 THEN x[i] ELSE y[i - (b1 - a1)]
        BY <1>4, <1>5, <1>7, <2>1
    <2>4. CASE a + i <= Len(s)
        <3>1. i <= b1 - a1 /\ a1 + i = a + i /\ i \in 1 .. b1 - a1
            BY <1>1, <1>12, <2>4
        <3>. QED
            BY <1>4, <2>2, <2>3, <2>4, <3>1
    <2>5. CASE ~(a + i <= Len(s))
        <3>1. /\ ~(i <= b1 - a1) /\ a2 + (i - (b1 - a1)) = (a + i) - Len(s)
              /\ i - (b1 - a1) \in 1 .. b2 - a2
            <4>1. b1 = Len(s) /\ b2 = b - Len(s) /\ a \in Int /\ b \in Int /\ i \in Int
                BY <1>1, <1>12, <2>1, <2>5
            <4>2. CASE a <= Len(s)
                <5>1. a1 = a /\ a2 = 0
                    BY <1>12, <4>2
                <5>. QED
                    BY <1>1, <2>1, <2>5, <4>1, <5>1
            <4>3. CASE ~(a <= Len(s))
                <5>1. a1 = Len(s) /\ a2 = a - Len(s)
                    BY <1>12, <4>3
                <5>. QED
                    BY <1>1, <2>1, <4>1, <4>3, <5>1
            <4>. QED
                BY <4>2, <4>3
        <3>. QED
            BY <1>5, <2>2, <2>3, <2>5, <3>1
    <2>. QED
        BY <2>4, <2>5
<1>10. Len(Part(w, a, b)) = Len(x \o y)
    BY <1>4, <1>5, <1>6, <1>7, <1>8
<1>11. Part(w, a, b) = x \o y
    BY <1>6, <1>7, <1>9, <1>10, SeqEqual
<1>. QED
    BY <1>11 DEF w, x, y, a1, b1, a2, b2

(* A function on 1 .. n is a sequence. *)
LEMMA FunctionIsSeq ==
    ASSUME NEW T, NEW n \in Nat, NEW f \in [1 .. n -> T]
    PROVE  f \in Seq(T) /\ Len(f) = n
OBVIOUS

LEMMA FunctionIsList ==
    ASSUME NEW S, NEW n \in Nat, NEW f \in [1 .. n -> Seq(S)]
    PROVE  f \in Lists(S) /\ Len(f) = n
BY FunctionIsSeq DEF Lists

(* The parts of a concatenation that are in the first, and the second itself. *)
LEMMA PartOfFirst ==
    ASSUME NEW S, NEW s \in Seq(S), NEW t \in Seq(S), NEW b \in 0 .. Len(s), NEW a \in 0 .. b
    PROVE  Part(s \o t, a, b) = Part(s, a, b)
<1>1. Len(s) \in Nat /\ Len(t) \in Nat
    BY LenProperties
<1>2. b \in 0 .. Len(s) + Len(t)
    BY <1>1
<1>3. /\ Within(Len(s), a) = a /\ Within(Len(s), b) = b
      /\ Beyond(Len(s), a) = 0 /\ Beyond(Len(s), b) = 0
    BY <1>1 DEF Within, Beyond
<1>4. Part(s \o t, a, b) = Part(s, a, b) \o Part(t, 0, 0)
    <2>1. Part(s \o t, a, b) = Part(s, Within(Len(s), a), Within(Len(s), b))
                                    \o Part(t, Beyond(Len(s), a), Beyond(Len(s), b))
        BY <1>2, PartOfConcat
    <2>. QED
        BY <1>3, <2>1
<1>5. Part(t, 0, 0) = <<>>
    BY PartEmpty
<1>6. Part(s, a, b) \in Seq(S)
    BY PartType
<1>. QED
    BY <1>4, <1>5, <1>6, ConcatEmptySeq

LEMMA PartIsSecond ==
    ASSUME NEW S, NEW s \in Seq(S), NEW t \in Seq(S)
    PROVE  Part(s \o t, Len(s), Len(s) + Len(t)) = t
<1>1. Len(s) \in Nat /\ Len(t) \in Nat
    BY LenProperties
<1>2. Len(s) + Len(t) \in 0 .. Len(s) + Len(t) /\ Len(s) \in 0 .. Len(s) + Len(t)
    BY <1>1
<1>3. /\ Within(Len(s), Len(s)) = Len(s) /\ Within(Len(s), Len(s) + Len(t)) = Len(s)
      /\ Beyond(Len(s), Len(s)) = 0 /\ Beyond(Len(s), Len(s) + Len(t)) = Len(t)
    BY <1>1 DEF Within, Beyond
<1>4. Part(s \o t, Len(s), Len(s) + Len(t)) = Part(s, Len(s), Len(s)) \o Part(t, 0, Len(t))
    <2>. DEFINE b == Len(s) + Len(t)
                a == Len(s)
    <2>. HIDE DEF a, b
    <2>1. b \in 0 .. Len(s) + Len(t) /\ a \in 0 .. b
        BY <1>2 DEF a, b
    <2>2. Part(s \o t, a, b) = Part(s, Within(Len(s), a), Within(Len(s), b))
                                    \o Part(t, Beyond(Len(s), a), Beyond(Len(s), b))
        BY <2>1, PartOfConcat
    <2>. QED
        BY <1>3, <2>2 DEF a, b
<1>5. Part(s, Len(s), Len(s)) = <<>> /\ Part(t, 0, Len(t)) = t
    BY <1>1, PartEmpty, SubSeqFull DEF Part
<1>. QED
    BY <1>4, <1>5, ConcatEmptySeq
===============================================================================
