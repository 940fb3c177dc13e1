------------------------ MODULE PacketDispatchProofs ------------------------
(***************************************************************************)
(* Theorems about PacketDispatch, for all captures that DispatchAssumption   *)
(* admits: packets with any number of frames of any length, cut anywhere.     *)
(***************************************************************************)
EXTENDS PacketDispatch, SequenceTheorems, NaturalsInduction, WellFoundedInduction, TLAPS

\* The naturals are the only set of naturals with 0 and the successor of each member:
\* induction over a set, for the library's theorem takes an operator.
LEMMA NaturalsReached ==
  ASSUME NEW T, T \subseteq Nat, 0 \in T, \A n \in T : n + 1 \in T
  PROVE  T = Nat
<1> SUFFICES ASSUME Nat \ T # {} PROVE FALSE
  OBVIOUS
<1>1. PICK x \in Nat \ T : \A y \in Nat \ T : ~ (<<y, x>> \in OpToRel(<, Nat))
  BY NatLessThanWellFounded, WFMin
<1>2. x \in Nat /\ x # 0
  OBVIOUS
<1>3. x - 1 \in Nat /\ (x - 1) + 1 = x /\ x - 1 < x
  BY <1>2
<1>4. x - 1 \notin T
  BY <1>1, <1>3
<1> QED BY <1>1, <1>3, <1>4 DEF OpToRel

\* Two recursions with the same steps agree.
SameSteps(f, g, lo, N) ==
  \A i \in lo..N : i = lo \/ f[i - 1] = g[i - 1] => f[i] = g[i]

SameValues(f, g, lo, N) == \A i \in lo..N : f[i] = g[i]

LEMMA SameRecursion ==
  ASSUME NEW lo \in Nat, NEW N \in Nat, NEW f, NEW g, SameSteps(f, g, lo, N)
  PROVE  SameValues(f, g, lo, N)
<1> DEFINE T == {n \in Nat : n \in lo..N => f[n] = g[n]}
<1>1. 0 \in T
  <2>1. 0 \in lo..N => 0 = lo
    OBVIOUS
  <2> QED BY <2>1 DEF SameSteps
<1>2. ASSUME NEW n \in T PROVE n + 1 \in T
  <2> SUFFICES ASSUME n + 1 \in lo..N PROVE f[n + 1] = g[n + 1]
    OBVIOUS
  <2>1. n \in Nat /\ (n + 1) - 1 = n /\ (n + 1 = lo \/ n \in lo..N)
    OBVIOUS
  <2> QED BY <2>1 DEF SameSteps
<1>3. T = Nat
  <2> HIDE DEF T
  <2>1. T \subseteq Nat
    BY DEF T
  <2> QED BY <1>1, <1>2, <2>1, NaturalsReached
<1> QED BY <1>3 DEF SameValues

\* FlattenSeq is the end of its recursion.
LEMMA FlattenIs ==
  ASSUME NEW S, NEW seqs \in Seq(S), Len(seqs) > 0, NEW w,
         w = [i \in 1..Len(seqs) |-> IF i = 1 THEN seqs[i] ELSE w[i - 1] \o seqs[i]]
  PROVE  FlattenSeq(seqs) = w[Len(seqs)]
<1> DEFINE L == Len(seqs)
           Steps(f) == [i \in 1..L |-> IF i = 1 THEN seqs[i] ELSE f[i - 1] \o seqs[i]]
           c == CHOOSE f : f = Steps(f)
<1>1. L \in Nat /\ L # 0 /\ L \in 1..L
  OBVIOUS
<1>2. FlattenSeq(seqs) = c[L]
  BY <1>1 DEF FlattenSeq
<1>3. w = Steps(w)
  OBVIOUS
<1> HIDE DEF Steps
<1>4. c = Steps(c)
  BY <1>3
<1> HIDE DEF c
<1>5. SameSteps(c, w, 1, L)
  <2> SUFFICES ASSUME NEW i \in 1..L, i = 1 \/ c[i - 1] = w[i - 1] PROVE c[i] = w[i]
    BY DEF SameSteps
  <2>1. Steps(c)[i] = Steps(w)[i]
    BY Zenon DEF Steps
  <2> QED BY <1>3, <1>4, <2>1
<1> HIDE DEF L
<1>6. \A i \in 1..L : c[i] = w[i]
  <2> DEFINE lo == 1
  <2>1. lo \in Nat /\ SameSteps(c, w, lo, L)
    BY <1>5
  <2> HIDE DEF lo
  <2>2. SameValues(c, w, lo, L)
    BY ONLY <1>1, <2>1, SameRecursion
  <2> QED BY <2>2 DEF SameValues, lo
<1> QED BY <1>1, <1>2, <1>6 DEF L

-----------------------------------------------------------------------------
(* The stream.                                                               *)

WellFormed(frames) == frames \in Seq(Range(frames)) /\ \A f \in Range(frames) : IsFrame(f)

LEMMA ByteType ==
  \A x : x \in Byte <=> x \in Nat /\ x <= 255
  BY DEF Byte

LEMMA WordsType ==
  \A w \in Words : w \in Nat /\ w <= 65535
<1> DEFINE n == 65535
<1>1. n \in Nat
  OBVIOUS
<1>2. Words = 0..n
  BY DEF Words
<1> HIDE DEF n
<1>3. \A w \in Words : w \in Nat /\ w <= n
  BY <1>1, <1>2
<1> QED BY <1>3 DEF n

\* Two bytes are the word they were made from.
LEMMA WordOfBytes ==
  ASSUME NEW w \in Words
  PROVE  w \div 256 \in Byte /\ w % 256 \in Byte /\ Word(w \div 256, w % 256) = w
<1>1. w \in Nat /\ w <= 65535
  BY WordsType
<1>2. w \div 256 \in Nat /\ w % 256 \in Nat
  BY <1>1
<1>3. w \div 256 <= 255 /\ w % 256 <= 255
  BY <1>1
<1>4. (w \div 256) * 256 + (w % 256) = w
  BY <1>1
<1> QED BY <1>2, <1>3, <1>4, ByteType DEF Word

LEMMA WordType ==
  ASSUME NEW high \in Byte, NEW low \in Byte
  PROVE  Word(high, low) \in Nat
  BY ByteType DEF Word

\* What is true of a concatenation.
LEMMA ConcatAt ==
  ASSUME NEW X, NEW a \in Seq(X), NEW b \in Seq(X)
  PROVE  /\ a \o b \in Seq(X)
         /\ Len(a) \in Nat /\ Len(b) \in Nat /\ Len(a \o b) = Len(a) + Len(b)
         /\ \A j \in 1..Len(a) : (a \o b)[j] = a[j]
         /\ \A j \in 1..Len(b) : (a \o b)[Len(a) + j] = b[j]
  OBVIOUS

\* The types of the fields of a frame.
LEMMA FrameType ==
  ASSUME NEW f, IsFrame(f)
  PROVE  /\ f.id \in Words /\ f.pdu \in Seq(Byte) /\ f.values \in Seq(Int)
         /\ Len(f.pdu) + 1 \in Words /\ Len(f.pdu) \in Nat /\ Len(f.pdu) > 0
<1>1. /\ f.id \in Words /\ f.pdu \in Seq(Byte) /\ f.pdu # <<>> /\ f.values \in Seq(Int)
      /\ Len(f.pdu) + 1 \in Words
  BY Zenon DEF IsFrame
<1>2. Len(f.pdu) \in Nat /\ Len(f.pdu) > 0
  BY <1>1
<1> QED BY <1>1, <1>2

\* A header of seven bytes and what follows it.
Headed(h, s, a) ==
  /\ a \in Seq(Byte) /\ Len(a) = Len(s) + 7
  /\ a[1] = h[1] /\ a[2] = h[2] /\ a[5] = h[5] /\ a[6] = h[6]
  /\ \A j \in 1..Len(s) : a[7 + j] = s[j]

LEMMA HeaderAndRest ==
  ASSUME NEW h \in Seq(Byte), NEW s \in Seq(Byte)
  PROVE  Len(h) = 7 => Headed(h, s, h \o s)
<1> DEFINE n == 7
<1>1. n \in Nat /\ 1 \in 1..n /\ 2 \in 1..n /\ 5 \in 1..n /\ 6 \in 1..n
  OBVIOUS
<1> HIDE DEF n
<1>2. Len(h) = n =>
         /\ h \o s \in Seq(Byte) /\ Len(h \o s) = Len(s) + n
         /\ \A j \in 1..n : (h \o s)[j] = h[j]
         /\ \A j \in 1..Len(s) : (h \o s)[n + j] = s[j]
  OBVIOUS
<1>3. Len(h) = n =>
         /\ h \o s \in Seq(Byte) /\ Len(h \o s) = Len(s) + n
         /\ (h \o s)[1] = h[1] /\ (h \o s)[2] = h[2] /\ (h \o s)[5] = h[5] /\ (h \o s)[6] = h[6]
         /\ \A j \in 1..Len(s) : (h \o s)[n + j] = s[j]
  BY <1>1, <1>2, Zenon
<1> QED BY <1>3, Zenon DEF Headed, n

\* An ADU has a header of seven bytes, with the identity and the length of the frame,
\* and the PDU.
LEMMA AduLayout ==
  ASSUME NEW f, IsFrame(f)
  PROVE  /\ Adu(f) \in Seq(Byte) /\ Len(Adu(f)) = Len(f.pdu) + 7
         /\ Word(Adu(f)[1], Adu(f)[2]) = f.id
         /\ Word(Adu(f)[5], Adu(f)[6]) = Len(f.pdu) + 1
         /\ \A j \in 1..Len(f.pdu) : Adu(f)[7 + j] = f.pdu[j]
<1> DEFINE n == Len(f.pdu) + 1
           h == <<f.id \div 256, f.id % 256, 0, 0, n \div 256, n % 256, 1>>
<1>1. f.id \in Words /\ f.pdu \in Seq(Byte) /\ n \in Words
  BY FrameType
<1>2. Adu(f) = h \o f.pdu
  BY DEF Adu
<1> HIDE DEF n
<1>3. /\ f.id \div 256 \in Byte /\ f.id % 256 \in Byte
      /\ n \div 256 \in Byte /\ n % 256 \in Byte
      /\ Word(f.id \div 256, f.id % 256) = f.id /\ Word(n \div 256, n % 256) = n
  BY ONLY <1>1, WordOfBytes
<1>4. 0 \in Byte /\ 1 \in Byte
  BY ByteType
<1>5. /\ h \in Seq(Byte) /\ Len(h) = 7
      /\ h[1] = f.id \div 256 /\ h[2] = f.id % 256 /\ h[5] = n \div 256 /\ h[6] = n % 256
  BY ONLY <1>3, <1>4
<1> HIDE DEF h
<1>6. /\ Adu(f) \in Seq(Byte) /\ Len(Adu(f)) = Len(f.pdu) + 7
      /\ Adu(f)[1] = h[1] /\ Adu(f)[2] = h[2] /\ Adu(f)[5] = h[5] /\ Adu(f)[6] = h[6]
      /\ \A j \in 1..Len(f.pdu) : Adu(f)[7 + j] = f.pdu[j]
  <2> DEFINE s == f.pdu
  <2>1. s \in Seq(Byte) /\ h \in Seq(Byte) /\ Len(h) = 7 /\ Adu(f) = h \o s
    BY <1>1, <1>2, <1>5
  <2> HIDE DEF s
  <2>2. Headed(h, s, h \o s)
    BY <2>1, HeaderAndRest
  <2> QED BY <2>1, <2>2, Zenon DEF Headed, s
<1>7. Word(Adu(f)[1], Adu(f)[2]) = f.id /\ Word(Adu(f)[5], Adu(f)[6]) = n
  <2> DEFINE a == Adu(f)
  <2>1. /\ a[1] = f.id \div 256 /\ a[2] = f.id % 256 /\ a[5] = n \div 256 /\ a[6] = n % 256
        /\ Word(f.id \div 256, f.id % 256) = f.id /\ Word(n \div 256, n % 256) = n
    BY <1>3, <1>5, <1>6
  <2> HIDE DEF a
  <2>2. Word(a[1], a[2]) = f.id /\ Word(a[5], a[6]) = n
    BY ONLY <2>1
  <2> QED BY <2>2 DEF a
<1> QED BY <1>6, <1>7, Zenon DEF n

\* What is on the wire after each frame.
WireAfter(frames, b) ==
  /\ b \in [0..Len(frames) -> Seq(Byte)]
  /\ b[0] = <<>>
  /\ \A k \in 1..Len(frames) : b[k] = b[k - 1] \o Adu(frames[k])

LEMMA FrameAt ==
  ASSUME NEW frames, WellFormed(frames), NEW k \in 1..Len(frames)
  PROVE  IsFrame(frames[k])
  BY DEF WellFormed, Range

LEMMA PrefixesExist ==
  ASSUME NEW frames, WellFormed(frames)
  PROVE  \E b : WireAfter(frames, b)
<1> DEFINE N == Len(frames)
           Upto(n, b) == /\ b \in [0..n -> Seq(Byte)]
                         /\ b[0] = <<>>
                         /\ \A k \in 1..n : b[k] = b[k - 1] \o Adu(frames[k])
           Good == {n \in Nat : n <= N => \E b : Upto(n, b)}
<1>0. N \in Nat
  BY DEF WellFormed
<1>1. 0 \in Good
  <2>1. Upto(0, [k \in 0..0 |-> <<>>])
    OBVIOUS
  <2> QED BY <2>1
<1> HIDE DEF Upto, N
<1>2. ASSUME NEW n \in Good PROVE n + 1 \in Good
  <2> SUFFICES ASSUME n + 1 <= N PROVE \E b : Upto(n + 1, b)
    OBVIOUS
  <2>1. n \in Nat /\ n <= N /\ n + 1 \in 1..N
    BY <1>0
  <2>2. PICK b : Upto(n, b)
    BY <2>1
  <2> USE DEF Upto, N
  <2>3. Adu(frames[n + 1]) \in Seq(Byte)
    BY <2>1, FrameAt, AduLayout
  <2> DEFINE a == Adu(frames[n + 1])
             c == [k \in 0..(n + 1) |-> IF k = n + 1 THEN b[n] \o a ELSE b[k]]
  <2>4. b[n] \o a \in Seq(Byte)
    <3>1. b[n] \in Seq(Byte)
      BY <2>1, <2>2
    <3> HIDE DEF a
    <3> QED BY <2>3, <3>1 DEF a
  <2>5. c \in [0..(n + 1) -> Seq(Byte)]
    <3>1. \A k \in 0..(n + 1) : k # n + 1 => k \in 0..n
      BY <2>1
    <3> HIDE DEF a
    <3> QED BY <2>2, <2>4, <3>1
  <2>6. c[0] = <<>>
    BY <2>1, <2>2
  <2>7. ASSUME NEW k \in 1..(n + 1) PROVE c[k] = c[k - 1] \o Adu(frames[k])
    <3>1. k - 1 \in 0..n /\ k - 1 # n + 1 /\ k \in 0..(n + 1) /\ k - 1 \in 0..(n + 1)
      BY <2>1
    <3>2. c[k - 1] = b[k - 1]
      BY <3>1
    <3>3. CASE k = n + 1
      <4>1. k - 1 = n
        BY <2>1, <3>3
      <4> QED BY <3>1, <3>2, <3>3, <4>1
    <3>4. CASE k # n + 1
      <4>1. k \in 1..n
        BY <2>1, <3>4
      <4> QED BY <2>2, <3>1, <3>2, <3>4, <4>1
    <3> QED BY <3>3, <3>4
  <2> HIDE DEF c
  <2>8. Upto(n + 1, c)
    BY <2>5, <2>6, <2>7
  <2> QED BY <2>8
<1>3. Good = Nat
  <2> HIDE DEF Good
  <2>1. Good \subseteq Nat
    BY DEF Good
  <2> QED BY <1>1, <1>2, <2>1, NaturalsReached
<1>4. \E b : Upto(N, b)
  BY <1>0, <1>3
<1> QED BY <1>4, Zenon DEF Upto, N, WireAfter

\* Each frame comes behind those before it.
Follows(frames, b, k) ==
  /\ Len(b[k - 1]) \in Nat /\ Len(frames[k].pdu) \in Nat /\ Len(frames[k].pdu) > 0
  /\ Len(b[k]) = Len(b[k - 1]) + Len(frames[k].pdu) + 7
  /\ \A i \in 1..Len(b[k - 1]) : b[k][i] = b[k - 1][i]
  /\ \A j \in 1..Len(Adu(frames[k])) : b[k][Len(b[k - 1]) + j] = Adu(frames[k])[j]

LEMMA PrefixLength ==
  ASSUME NEW frames, WellFormed(frames), NEW b, WireAfter(frames, b), NEW k \in 1..Len(frames)
  PROVE  Follows(frames, b, k)
<1>1. IsFrame(frames[k])
  BY FrameAt
<1> DEFINE a == Adu(frames[k])
<1>2. a \in Seq(Byte) /\ Len(a) = Len(frames[k].pdu) + 7
  BY <1>1, AduLayout
<1>3. Len(frames[k].pdu) \in Nat /\ Len(frames[k].pdu) > 0
  BY <1>1, FrameType
<1>4. k - 1 \in 0..Len(frames)
  BY DEF WellFormed
<1>5. b[k - 1] \in Seq(Byte) /\ b[k] = b[k - 1] \o a
  BY <1>4 DEF WireAfter
<1> DEFINE c == b[k - 1]
<1> HIDE DEF a, c
<1>6. c \in Seq(Byte) /\ a \in Seq(Byte) /\ b[k] = c \o a
  BY <1>2, <1>5 DEF c
<1>7. /\ Len(c) \in Nat /\ Len(c \o a) = Len(c) + Len(a)
      /\ \A i \in 1..Len(c) : (c \o a)[i] = c[i]
      /\ \A j \in 1..Len(a) : (c \o a)[Len(c) + j] = a[j]
  BY <1>6, ConcatAt
<1>8. /\ Len(c) \in Nat /\ Len(b[k]) = Len(c) + Len(a)
      /\ \A i \in 1..Len(c) : b[k][i] = c[i]
      /\ \A j \in 1..Len(a) : b[k][Len(c) + j] = a[j]
  BY <1>6, <1>7, Zenon
<1>9. Len(b[k]) = Len(c) + Len(frames[k].pdu) + 7
  BY <1>2, <1>3, <1>8
<1> QED BY <1>3, <1>8, <1>9, Zenon DEF Follows, a, c

\* What is on the wire after k frames is how it begins after n.
Begins(b, k, n) ==
  /\ Len(b[k]) \in Nat /\ Len(b[n]) \in Nat /\ Len(b[k]) + (n - k) <= Len(b[n])
  /\ \A i \in 1..Len(b[k]) : b[n][i] = b[k][i]

LEMMA PrefixesGrow ==
  ASSUME NEW frames, WellFormed(frames), NEW b, WireAfter(frames, b)
  PROVE  \A n \in 0..Len(frames) : \A k \in 0..n : Begins(b, k, n)
<1> DEFINE N == Len(frames)
           T == {n \in Nat : n <= N => \A k \in 0..n : Begins(b, k, n)}
<1>0. N \in Nat
  BY DEF WellFormed
<1>1. \A k \in 0..N : b[k] \in Seq(Byte) /\ Len(b[k]) \in Nat
  BY DEF WireAfter
<1>2. \A k \in 0..N : Begins(b, k, k)
  BY <1>0, <1>1 DEF Begins
<1>3. 0 \in T
  BY <1>0, <1>2
<1>4. ASSUME NEW n \in T PROVE n + 1 \in T
  <2> SUFFICES ASSUME n + 1 <= N, NEW k \in 0..(n + 1) PROVE Begins(b, k, n + 1)
    BY <1>0
  <2>1. n \in Nat /\ n + 1 \in 1..N /\ n + 1 \in 0..N /\ (n + 1) - 1 = n
    BY <1>0
  <2>2. CASE k = n + 1
    BY <1>2, <2>1, <2>2
  <2>3. CASE k # n + 1
    <3>1. k \in 0..n /\ k \in 0..N
      BY <1>0, <2>1, <2>3
    <3>2. Begins(b, k, n)
      BY <1>0, <2>1, <3>1
    <3> DEFINE l == Len(frames[n + 1].pdu)
    <3>3. /\ Len(b[n]) \in Nat /\ l \in Nat /\ Len(b[n + 1]) = Len(b[n]) + l + 7
          /\ \A i \in 1..Len(b[n]) : b[n + 1][i] = b[n][i]
      <4> DEFINE m == n + 1
      <4>1. m \in 1..Len(frames) /\ m - 1 = n
        BY <2>1
      <4> HIDE DEF m
      <4>2. Follows(frames, b, m)
        BY <4>1, PrefixLength
      <4> QED BY <4>1, <4>2, Zenon DEF Follows, m
    <3> HIDE DEF l
    <3>4. \A i \in 1..Len(b[k]) : i \in 1..Len(b[n])
      BY <2>1, <3>1, <3>2, <3>3 DEF Begins
    <3>5. /\ Len(b[k]) \in Nat /\ Len(b[n + 1]) \in Nat
          /\ Len(b[k]) + ((n + 1) - k) <= Len(b[n + 1])
      <4>1. Len(b[k]) \in Nat /\ Len(b[k]) + (n - k) <= Len(b[n])
        BY <3>2, Zenon DEF Begins
      <4>2. Len(b[n + 1]) \in Nat
        BY <3>3
      <4>3. k \in Nat /\ n \in Nat
        BY <2>1, <3>1
      <4> DEFINE x == Len(b[k])  y == Len(b[n])  z == Len(b[n + 1])
      <4>4. x \in Nat /\ y \in Nat /\ z \in Nat /\ l \in Nat /\ x + (n - k) <= y /\ z = y + l + 7
        BY <3>3, <4>1, <4>2
      <4> HIDE DEF x, y, z
      <4>5. x + ((n + 1) - k) <= z
        BY <4>3, <4>4
      <4> QED BY <4>4, <4>5 DEF x, z
    <3> QED BY <3>2, <3>3, <3>4, <3>5, Zenon DEF Begins
  <2> QED BY <2>2, <2>3
<1>5. T = Nat
  <2> HIDE DEF T
  <2>1. T \subseteq Nat
    BY DEF T
  <2> QED BY <1>3, <1>4, <2>1, NaturalsReached
<1> QED BY <1>0, <1>5

\* The stream of the first k frames.
LEMMA StreamOfFirst ==
  ASSUME NEW frames, WellFormed(frames), NEW b, WireAfter(frames, b), NEW k \in 0..Len(frames)
  PROVE  Stream(SubSeq(frames, 1, k)) = b[k]
<1> DEFINE s == SubSeq(frames, 1, k)
           seqs == [i \in DOMAIN s |-> Adu(s[i])]
<1>1. k \in Nat /\ Len(frames) \in Nat /\ k <= Len(frames)
  BY DEF WellFormed
<1>2. DOMAIN s = 1..k /\ \A i \in 1..k : s[i] = frames[i]
  BY <1>1 DEF WellFormed
<1>3. DOMAIN seqs = 1..k /\ \A i \in 1..k : seqs[i] = Adu(frames[i]) /\ i \in 1..Len(frames)
  BY <1>1, <1>2
<1>4. \A i \in 1..k : Adu(frames[i]) \in Seq(Byte)
  BY <1>3, FrameAt, AduLayout
<1>5. seqs = [i \in 1..k |-> seqs[i]]
  BY <1>2
<1>6. Stream(s) = FlattenSeq(seqs)
  BY DEF Stream
<1> HIDE DEF seqs
<1>7. seqs \in Seq(Seq(Byte)) /\ Len(seqs) = k
  <2> DEFINE B == Seq(Byte)
  <2>1. \A i \in 1..k : seqs[i] \in B
    BY <1>3, <1>4
  <2> HIDE DEF B
  <2>2. seqs \in Seq(B) /\ Len(seqs) = k
    BY ONLY <1>1, <1>5, <2>1
  <2> QED BY <2>2 DEF B
<1>8. CASE k = 0
  <2>1. seqs = <<>>
    BY <1>7, <1>8
  <2>2. FlattenSeq(seqs) = seqs
    BY <1>7, <1>8 DEF FlattenSeq
  <2> QED BY <1>6, <1>8, <2>1, <2>2 DEF WireAfter
<1>9. CASE k # 0
  <2> DEFINE w == [i \in 1..k |-> b[i]]
  <2>1. w = [i \in 1..k |-> IF i = 1 THEN seqs[i] ELSE w[i - 1] \o seqs[i]]
    <3>1. ASSUME NEW i \in 1..k, i = 1 PROVE w[i] = seqs[i]
      <4>1. b[1] = b[0] \o Adu(frames[1]) /\ b[0] = <<>> /\ 1 \in 1..k
        <5>1. 1 \in 1..k /\ 1 \in 1..Len(frames) /\ 1 - 1 = 0
          BY <1>1, <3>1
        <5>2. b[1] = b[1 - 1] \o Adu(frames[1]) /\ b[0] = <<>>
          BY <5>1, Zenon DEF WireAfter
        <5> QED BY <5>1, <5>2
      <4>2. Adu(frames[1]) \in Seq(Byte)
        BY <1>4, <4>1
      <4>3. b[1] = Adu(frames[1])
        BY <4>1, <4>2, ConcatEmptySeq
      <4> QED BY <1>3, <3>1, <4>3
    <3>2. ASSUME NEW i \in 1..k, i # 1 PROVE w[i] = w[i - 1] \o seqs[i]
      <4>1. i - 1 \in 1..k
        BY <1>1, <3>2
      <4>2. b[i] = b[i - 1] \o Adu(frames[i])
        BY <1>3 DEF WireAfter
      <4> QED BY <1>3, <4>1, <4>2
    <3>3. \A i \in 1..k : w[i] = IF i = 1 THEN seqs[i] ELSE w[i - 1] \o seqs[i]
      BY <3>1, <3>2, Zenon
    <3> DEFINE v == [i \in 1..k |-> IF i = 1 THEN seqs[i] ELSE w[i - 1] \o seqs[i]]
    <3>4. w = [i \in 1..k |-> w[i]]
      OBVIOUS
    <3> HIDE DEF w
    <3> QED BY <3>3, <3>4, Zenon
  <2>2. k \in 1..k /\ w[k] = b[k]
    BY <1>1, <1>9
  <2> HIDE DEF w
  <2>3. Len(seqs) > 0
    BY <1>1, <1>7, <1>9
  <2> DEFINE B == Seq(Byte)
  <2>4. seqs \in Seq(B)
    BY <1>7
  <2>5. w = [i \in 1..Len(seqs) |-> IF i = 1 THEN seqs[i] ELSE w[i - 1] \o seqs[i]]
    BY <1>7, <2>1, Zenon
  <2> HIDE DEF B
  <2>6. FlattenSeq(seqs) = w[Len(seqs)]
    BY ONLY <2>3, <2>4, <2>5, FlattenIs, Zenon
  <2> QED BY <1>6, <1>7, <2>2, <2>6, Zenon
<1> QED BY <1>8, <1>9

-----------------------------------------------------------------------------
(* The decoder, one call.                                                    *)

\* Part r of s, from place m to n.
IsPart(s, m, n, r) ==
  /\ r \in Seq(Byte)
  /\ Len(r) = IF m <= n THEN n - m + 1 ELSE 0
  /\ \A i \in 1..(n - m + 1) : r[i] = s[m + i - 1]

LEMMA PartOf ==
  ASSUME NEW s \in Seq(Byte), NEW m \in Nat \ {0}, NEW n \in Nat, n <= Len(s)
  PROVE  IsPart(s, m, n, SubSeq(s, m, n))
<1>1. \A i \in m..n : s[i] \in Byte
  <2>1. \A i \in m..n : i \in 1..Len(s)
    OBVIOUS
  <2> QED BY <2>1, ElementOfSeq
<1>2. m \in Int /\ n \in Int
  OBVIOUS
<1> QED BY <1>1, <1>2, SubSeqProperties DEF IsPart

Call(packet, data, address) == [packet |-> packet, data |-> data, lastAddress |-> address]

\* What the decoder makes of a frame.
RecordOf(f, address, stray) ==
  [id |-> f.id, length |-> Len(f.pdu), hex |-> f.pdu,
   reply |-> AnalyzeModbusPacket(f.pdu, address, stray)]

\* A packet begins with a frame.
FrameFirst(packet, f) ==
  /\ packet \in Seq(Byte) /\ Len(f.pdu) + 7 <= Len(packet)
  /\ \A i \in 1..(Len(f.pdu) + 7) : packet[i] = Adu(f)[i]

\* A packet is the beginning of a frame, without its end.
FrameCut(packet, f) ==
  /\ packet \in Seq(Byte) /\ Len(packet) < Len(f.pdu) + 7
  /\ \A i \in 1..Len(packet) : packet[i] = Adu(f)[i]

LEMMA ByteRead ==
  ASSUME NEW packet \in Seq(Byte), NEW stray \in Byte, NEW i \in Nat
  PROVE  /\ ByteAt(packet, i, stray) \in Byte
         /\ i \in 1..Len(packet) => ByteAt(packet, i, stray) = packet[i]
<1>1. CASE i \in DOMAIN packet
  <2>1. i \in 1..Len(packet)
    BY <1>1
  <2>2. packet[i] \in Byte
    BY <2>1, ElementOfSeq
  <2> QED BY <1>1, <2>2 DEF ByteAt
<1>2. CASE i \notin DOMAIN packet
  <2>1. i \notin 1..Len(packet)
    BY <1>2
  <2> QED BY <1>2, <2>1 DEF ByteAt
<1> QED BY <1>1, <1>2

\* A call that finds no end of an ADU, or nothing, is the last one.
LEMMA CallStays ==
  ASSUME NEW packet, NEW data, NEW address, NEW stray,
         packet = <<>> \/ Len(packet) < AduLength(packet, stray) + 6
  PROVE  ProcessModbusPacket(Call(packet, data, address), stray) = Call(packet, data, address)
BY DEF ProcessModbusPacket, Call

\* A whole frame is taken off, and one record is added.
LEMMA FrameTaken ==
  ASSUME NEW f, IsFrame(f), NEW packet, FrameFirst(packet, f), NEW data, NEW address,
         NEW stray \in Byte
  PROVE  ProcessModbusPacket(Call(packet, data, address), stray) =
           Call(SubSeq(packet, Len(f.pdu) + 8, Len(packet)),
                Append(data, RecordOf(f, address, stray)), LastAddress(f.pdu, address))
<1> DEFINE n == Len(f.pdu)
           l == AduLength(packet, stray)
<1>1. n \in Nat /\ f.pdu \in Seq(Byte)
  BY FrameType
<1>2. packet \in Seq(Byte) /\ Len(packet) \in Nat /\ n + 7 <= Len(packet)
  BY <1>1 DEF FrameFirst
<1>3. \A i \in 1..(n + 7) : packet[i] = Adu(f)[i]
  BY DEF FrameFirst
<1>4. /\ Word(packet[1], packet[2]) = f.id
      /\ Word(packet[5], packet[6]) = n + 1
  <2>1. 1 \in 1..(n + 7) /\ 2 \in 1..(n + 7) /\ 5 \in 1..(n + 7) /\ 6 \in 1..(n + 7)
    BY <1>1
  <2>2. packet[1] = Adu(f)[1] /\ packet[2] = Adu(f)[2] /\ packet[5] = Adu(f)[5] /\ packet[6] = Adu(f)[6]
    BY <1>3, <2>1
  <2>3. Word(Adu(f)[1], Adu(f)[2]) = f.id /\ Word(Adu(f)[5], Adu(f)[6]) = n + 1
    BY AduLayout
  <2> QED BY <2>2, <2>3
<1>5. l = n + 1
  <2>1. 5 \in 1..Len(packet) /\ 6 \in 1..Len(packet)
    BY <1>1, <1>2
  <2>2. ByteAt(packet, 5, stray) = packet[5] /\ ByteAt(packet, 6, stray) = packet[6]
    BY <1>2, <2>1, ByteRead
  <2> QED BY <1>4, <2>2 DEF AduLength
<1>6. SubSeq(packet, 8, n + 7) = f.pdu
  <2> DEFINE r == SubSeq(packet, 8, n + 7)
  <2>1. IsPart(packet, 8, n + 7, r)
    BY <1>1, <1>2, PartOf
  <2> HIDE DEF r
  <2>2. r \in Seq(Byte) /\ Len(r) = n
    BY <1>1, <2>1 DEF IsPart
  <2>3. \A i \in 1..n : r[i] = packet[7 + i]
    BY <1>1, <2>1 DEF IsPart
  <2>4. \A i \in 1..n : Adu(f)[7 + i] = f.pdu[i]
    BY AduLayout
  <2>5. \A i \in 1..n : 7 + i \in 1..(n + 7)
    BY <1>1
  <2>6. \A i \in 1..n : r[i] = f.pdu[i]
    BY <1>3, <2>3, <2>4, <2>5
  <2>7. r = f.pdu
    BY <1>1, <2>2, <2>6, SeqEqual
  <2> QED BY <2>7 DEF r
<1>7. packet # <<>> /\ ~ (Len(packet) < l + 6)
  BY <1>1, <1>2, <1>5
<1>8. l + 6 = n + 7 /\ l + 7 = n + 8 /\ l - 1 = n
  BY <1>1, <1>5
<1> HIDE DEF n, l
<1> DEFINE pdu == SubSeq(packet, 8, l + 6)
           record == [id |-> Word(packet[1], packet[2]), length |-> l - 1, hex |-> pdu,
                      reply |-> AnalyzeModbusPacket(pdu, address, stray)]
<1>9. pdu = f.pdu
  BY <1>6, <1>8
<1>10. ProcessModbusPacket(Call(packet, data, address), stray) =
         [packet |-> SubSeq(packet, l + 7, Len(packet)),
          data |-> Append(data, record),
          lastAddress |-> LastAddress(pdu, address)]
  <2> DEFINE call == Call(packet, data, address)
  <2>1. call.packet = packet /\ call.data = data /\ call.lastAddress = address
    BY DEF Call
  <2> HIDE DEF call
  <2>2. ProcessModbusPacket(call, stray) =
         [packet |-> SubSeq(packet, l + 7, Len(packet)),
          data |-> Append(data, record),
          lastAddress |-> LastAddress(pdu, address)]
    BY <1>7, <2>1, Zenon DEF ProcessModbusPacket, l
  <2> QED BY <2>2 DEF call
<1>11. record = RecordOf(f, address, stray)
  BY <1>4, <1>8, <1>9 DEF RecordOf, n
<1> HIDE DEF record, pdu
<1> QED BY <1>8, <1>9, <1>10, <1>11, Zenon DEF Call, n

\* A frame that is cut off stays.
LEMMA FrameLeft ==
  ASSUME NEW f, IsFrame(f), NEW packet, FrameCut(packet, f), NEW stray \in Byte
  PROVE  Len(packet) < AduLength(packet, stray) + 6
<1> DEFINE n == Len(f.pdu)
<1>1. n \in Nat
  BY FrameType
<1>2. packet \in Seq(Byte) /\ Len(packet) \in Nat /\ Len(packet) < n + 7
  BY DEF FrameCut
<1>3. AduLength(packet, stray) \in Nat
  <2>1. ByteAt(packet, 5, stray) \in Byte /\ ByteAt(packet, 6, stray) \in Byte
    BY <1>2, ByteRead
  <2> QED BY <2>1, WordType DEF AduLength
<1>4. CASE Len(packet) < 6
  BY <1>2, <1>3, <1>4
<1>5. CASE Len(packet) >= 6
  <2>1. 5 \in 1..Len(packet) /\ 6 \in 1..Len(packet)
    BY <1>2, <1>5
  <2>2. ByteAt(packet, 5, stray) = packet[5] /\ ByteAt(packet, 6, stray) = packet[6]
    BY <1>2, <2>1, ByteRead
  <2>3. packet[5] = Adu(f)[5] /\ packet[6] = Adu(f)[6]
    BY <2>1 DEF FrameCut
  <2>4. Word(Adu(f)[5], Adu(f)[6]) = n + 1
    BY AduLayout
  <2>5. AduLength(packet, stray) = n + 1
    BY <2>2, <2>3, <2>4 DEF AduLength
  <2> QED BY <1>1, <1>2, <2>5
<1> QED BY <1>2, <1>4, <1>5

-----------------------------------------------------------------------------
(* The decoder, a segment.                                                   *)

\* The calls for a segment.
Calls(segment, stray, E) ==
  E = [n \in 0..Len(segment) |-> IF n = 0 THEN Call(segment, <<>>, 0)
                                 ELSE ProcessModbusPacket(E[n - 1], stray)]
ResultOf(call) == IF call.packet = <<>> THEN [emitted |-> TRUE, data |-> call.data] ELSE Nothing

LEMMA DecodeIs ==
  ASSUME NEW segment \in Seq(Byte), NEW stray, NEW E, Calls(segment, stray, E)
  PROVE  Decode(segment, stray) = ResultOf(E[Len(segment)])
<1> DEFINE L == Len(segment)
           Steps(f) == [n \in 0..L |-> IF n = 0 THEN [packet |-> segment, data |-> <<>>, lastAddress |-> 0]
                                       ELSE ProcessModbusPacket(f[n - 1], stray)]
           c == CHOOSE f : f = Steps(f)
<1>1. L \in Nat /\ 0 \in Nat
  OBVIOUS
<1>2. Decode(segment, stray) = ResultOf(c[L])
  BY DEF Decode, ResultOf
<1>3. E = Steps(E)
  BY DEF Calls, Call
<1> HIDE DEF Steps
<1>4. c = Steps(c)
  BY <1>3
<1> HIDE DEF c
<1>5. SameSteps(c, E, 0, L)
  <2> SUFFICES ASSUME NEW i \in 0..L, i = 0 \/ c[i - 1] = E[i - 1] PROVE c[i] = E[i]
    BY DEF SameSteps
  <2>1. Steps(c)[i] = Steps(E)[i]
    BY Zenon DEF Steps
  <2> QED BY <1>3, <1>4, <2>1
<1> HIDE DEF L
<1>6. \A i \in 0..L : c[i] = E[i]
  <2> DEFINE lo == 0
  <2>1. lo \in Nat /\ SameSteps(c, E, lo, L)
    BY <1>5
  <2> HIDE DEF lo
  <2>2. SameValues(c, E, lo, L)
    BY ONLY <1>1, <2>1, SameRecursion
  <2> QED BY <2>2 DEF SameValues, lo
<1>7. c[L] = E[L]
  BY <1>1, <1>6
<1> QED BY <1>2, <1>7 DEF L

\* The answers of three registers among the first n frames: the decoder takes their
\* registers for an address.
Mistaken(frames, n) == {k \in 1..n : frames[k].kind = "answer" /\ Len(frames[k].values) = 3}
KnownAddress(frames, n) ==
  IF Mistaken(frames, n) = {} THEN 0
  ELSE Word(frames[Max(Mistaken(frames, n))].pdu[2], frames[Max(Mistaken(frames, n))].pdu[3])

LEMMA MistakenFrame ==
  ASSUME NEW f, IsFrame(f)
  PROVE  Len(f.pdu) = 8 /\ f.pdu[1] \in {3, 4} <=> f.kind = "answer" /\ Len(f.values) = 3
<1>1. Len(f.pdu) \in Nat /\ Len(f.values) \in Nat
  BY FrameType
<1>2. KindFits(f)
  BY DEF IsFrame
<1>3. CASE f.kind = "query" /\ Len(f.pdu) = 5
  BY <1>3
<1>4. CASE /\ f.kind = "answer" /\ f.pdu[1] \in {3, 4} /\ Len(f.pdu) = 3 - 1 + 2 * Len(f.values)
  <2> DEFINE v == Len(f.values)
  <2>1. v \in Nat /\ Len(f.pdu) = 2 + 2 * v
    BY <1>1, <1>4
  <2> HIDE DEF v
  <2>2. Len(f.pdu) = 8 <=> v = 3
    BY <2>1
  <2> QED BY <1>4, <2>2, Zenon DEF v
<1>5. CASE f.kind = "write" /\ f.pdu[1] = 16
  BY <1>5
<1>6. CASE f.kind = "other" /\ f.pdu[1] \notin {3, 4}
  BY <1>6
<1> QED BY <1>2, <1>3, <1>4, <1>5, <1>6, Zenon DEF KindFits, HasRegisters

LEMMA MaxAdded ==
  ASSUME NEW n \in Nat, NEW S, S \subseteq 1..n
  PROVE  Max(S \cup {n + 1}) = n + 1
<1> DEFINE T == S \cup {n + 1}
           Best(x) == \A y \in T : x >= y
<1>1. n + 1 \in T /\ Best(n + 1)
  OBVIOUS
<1>2. Max(T) = CHOOSE x \in T : Best(x)
  BY DEF Max
<1>3. Max(T) \in T /\ Best(Max(T))
  <2> HIDE DEF T, Best
  <2> QED BY <1>1, <1>2
<1>4. \A x \in T : x \in Nat /\ x <= n + 1
  OBVIOUS
<1>5. Max(T) >= n + 1
  BY <1>1, <1>3
<1>6. Max(T) \in Nat /\ Max(T) <= n + 1
  BY <1>3, <1>4
<1> QED BY <1>5, <1>6

LEMMA AddressKnown ==
  ASSUME NEW frames, WellFormed(frames)
  PROVE  /\ KnownAddress(frames, 0) = 0
         /\ \A n \in Nat : n < Len(frames) =>
              LastAddress(frames[n + 1].pdu, KnownAddress(frames, n)) = KnownAddress(frames, n + 1)
<1>1. KnownAddress(frames, 0) = 0
  BY DEF KnownAddress, Mistaken
<1>2. ASSUME NEW n \in Nat, n < Len(frames)
      PROVE  LastAddress(frames[n + 1].pdu, KnownAddress(frames, n)) = KnownAddress(frames, n + 1)
  <2> DEFINE M == Mistaken(frames, n)
             f == frames[n + 1]
  <2>1. M \subseteq 1..n
    BY DEF Mistaken
  <2>2. IsFrame(f)
    <3>1. n + 1 \in 1..Len(frames)
      BY <1>2 DEF WellFormed
    <3> QED BY <3>1, FrameAt
  <2>3. CASE f.kind = "answer" /\ Len(f.values) = 3
    <3>1. Mistaken(frames, n + 1) = M \cup {n + 1}
      BY <2>3 DEF Mistaken
    <3>2. Max(Mistaken(frames, n + 1)) = n + 1
      BY <2>1, <3>1, MaxAdded
    <3>3. KnownAddress(frames, n + 1) = Word(f.pdu[2], f.pdu[3])
      BY <3>1, <3>2 DEF KnownAddress
    <3>4. Len(f.pdu) = 8 /\ f.pdu[1] \in {3, 4}
      BY <2>2, <2>3, MistakenFrame
    <3> QED BY <3>3, <3>4 DEF LastAddress
  <2>4. CASE ~ (f.kind = "answer" /\ Len(f.values) = 3)
    <3>1. Mistaken(frames, n + 1) = M
      BY <2>4 DEF Mistaken
    <3>2. KnownAddress(frames, n + 1) = KnownAddress(frames, n)
      BY <3>1 DEF KnownAddress
    <3>3. ~ (Len(f.pdu) = 8 /\ f.pdu[1] \in {3, 4})
      BY <2>2, <2>4, MistakenFrame
    <3> QED BY <3>2, <3>3 DEF LastAddress
  <2> QED BY <2>3, <2>4
<1> QED BY <1>1, <1>2

\* The rest of the rest of a segment.
LEMMA RestOfRest ==
  ASSUME NEW s \in Seq(Byte), NEW a \in Nat, NEW c \in Nat, a + c <= Len(s)
  PROVE  LET r == SubSeq(s, a + 1, Len(s))
         IN SubSeq(r, c + 1, Len(r)) = SubSeq(s, a + c + 1, Len(s))
<1> DEFINE r == SubSeq(s, a + 1, Len(s))
           q == SubSeq(r, c + 1, Len(r))
           t == SubSeq(s, a + c + 1, Len(s))
           l == Len(s)
<1>1. l \in Nat /\ a + 1 \in Nat \ {0} /\ a + c + 1 \in Nat \ {0} /\ c + 1 \in Nat \ {0}
  OBVIOUS
<1>2. IsPart(s, a + 1, l, r) /\ IsPart(s, a + c + 1, l, t)
  BY <1>1, PartOf
<1> HIDE DEF r, t
<1>3. r \in Seq(Byte) /\ Len(r) = l - a /\ \A i \in 1..(l - a) : r[i] = s[a + i]
  <2> HIDE DEF l
  <2>1. r \in Seq(Byte) /\ Len(r) = IF a + 1 <= l THEN l - (a + 1) + 1 ELSE 0
    BY <1>2, Zenon DEF IsPart
  <2>2. \A i \in 1..(l - (a + 1) + 1) : r[i] = s[a + 1 + i - 1]
    BY <1>2, Zenon DEF IsPart
  <2>3. l - (a + 1) + 1 = l - a /\ \A i \in 1..(l - a) : a + 1 + i - 1 = a + i
    BY <1>1
  <2>4. a + c <= l
    BY DEF l
  <2>5. Len(r) = l - a
    BY <1>1, <2>1, <2>4
  <2> QED BY <2>1, <2>2, <2>3, <2>5, Zenon
<1>4. t \in Seq(Byte) /\ Len(t) = l - (a + c) /\ \A i \in 1..(l - (a + c)) : t[i] = s[a + c + i]
  <2> HIDE DEF l
  <2>1. t \in Seq(Byte) /\ Len(t) = IF a + c + 1 <= l THEN l - (a + c + 1) + 1 ELSE 0
    BY <1>2, Zenon DEF IsPart
  <2>2. \A i \in 1..(l - (a + c + 1) + 1) : t[i] = s[a + c + 1 + i - 1]
    BY <1>2, Zenon DEF IsPart
  <2>3. l - (a + c + 1) + 1 = l - (a + c) /\ \A i \in 1..(l - (a + c)) : a + c + 1 + i - 1 = a + c + i
    BY <1>1
  <2>4. a + c <= l
    BY DEF l
  <2>5. Len(t) = l - (a + c)
    BY <1>1, <2>1, <2>4
  <2> QED BY <2>1, <2>2, <2>3, <2>5, Zenon
<1>5. Len(r) \in Nat
  BY <1>3
<1>6. IsPart(r, c + 1, Len(r), q)
  BY <1>1, <1>3, <1>5, PartOf
<1> HIDE DEF q
<1>7. q \in Seq(Byte) /\ Len(q) = Len(t) /\ \A i \in 1..Len(t) : q[i] = t[i]
  <2> HIDE DEF l
  <2>1. q \in Seq(Byte) /\ Len(q) = IF c + 1 <= Len(r) THEN Len(r) - (c + 1) + 1 ELSE 0
    BY <1>6, Zenon DEF IsPart
  <2>2. \A i \in 1..(Len(r) - (c + 1) + 1) : q[i] = r[c + 1 + i - 1]
    BY <1>6, Zenon DEF IsPart
  <2>3. a + c <= l
    BY DEF l
  <2>4. /\ Len(r) - (c + 1) + 1 = Len(t)
        /\ \A i \in 1..Len(t) : /\ c + 1 + i - 1 = c + i /\ c + i \in 1..(l - a)
                                /\ a + (c + i) = a + c + i /\ i \in 1..(l - (a + c))
    BY <1>1, <1>3, <1>4, <2>3
  <2>5. Len(q) = Len(t)
    BY <1>1, <1>3, <1>4, <2>1, <2>3
  <2>6. ASSUME NEW i \in 1..Len(t) PROVE q[i] = t[i]
    <3>1. /\ c + 1 + i - 1 = c + i /\ c + i \in 1..(l - a)
          /\ a + (c + i) = a + c + i /\ i \in 1..(l - (a + c))
      BY <2>4
    <3>2. i \in 1..(Len(r) - (c + 1) + 1)
      BY <2>4
    <3>3. q[i] = r[c + i]
      BY <2>2, <3>1, <3>2
    <3>4. r[c + i] = s[a + c + i]
      BY <1>3, <3>1
    <3>5. t[i] = s[a + c + i]
      BY <1>4, <3>1
    <3> QED BY <3>3, <3>4, <3>5
  <2> QED BY <2>1, <2>5, <2>6
<1>8. q = t
  BY <1>4, <1>7, SeqEqual
<1> QED BY <1>8 DEF q, r, t, l

\* A segment ends within frame K + 1, or with frame K.
Carries(pay, frames, b, K) ==
  /\ pay \in Seq(Byte) /\ K \in 0..Len(frames)
  /\ Len(b[K]) <= Len(pay) /\ Len(pay) <= Len(b[Len(frames)])
  /\ K < Len(frames) => Len(pay) < Len(b[K + 1])
  /\ \A i \in 1..Len(pay) : pay[i] = b[Len(frames)][i]

\* What the decoder has emitted of n frames, and what is left of the segment.
Records(frames, n, stray) ==
  [i \in 1..n |-> RecordOf(frames[i], KnownAddress(frames, i - 1), stray)]
Rest(pay, b, n) == SubSeq(pay, Len(b[n]) + 1, Len(pay))
CallAfter(pay, frames, b, n, stray) ==
  Call(Rest(pay, b, n), Records(frames, n, stray), KnownAddress(frames, n))

LEMMA RecordAdded ==
  ASSUME NEW frames, NEW n \in Nat, NEW stray
  PROVE  Append(Records(frames, n, stray), RecordOf(frames[n + 1], KnownAddress(frames, n), stray)) =
           Records(frames, n + 1, stray)
<1> DEFINE R(i) == RecordOf(frames[i], KnownAddress(frames, i - 1), stray)
           S == {R(i) : i \in 1..(n + 1)}
           r == Records(frames, n, stray)
           q == Records(frames, n + 1, stray)
<1>1. R(n + 1) = RecordOf(frames[n + 1], KnownAddress(frames, n), stray)
  <2>1. (n + 1) - 1 = n
    OBVIOUS
  <2> QED BY <2>1
<1>2. r = [i \in 1..n |-> R(i)] /\ q = [i \in 1..(n + 1) |-> R(i)]
  BY DEF Records
<1> HIDE DEF R, r, q
<1>3. Append(r, R(n + 1)) = q
  <2>1. \A i \in 1..(n + 1) : R(i) \in S
    OBVIOUS
  <2>2. \A i \in 1..n : i \in 1..(n + 1)
    OBVIOUS
  <2>3. n + 1 \in 1..(n + 1)
    OBVIOUS
  <2> HIDE DEF S
  <2>4. r \in Seq(S) /\ Len(r) = n /\ q \in Seq(S) /\ Len(q) = n + 1
    BY <1>2, <2>1, <2>2
  <2>5. /\ Append(r, R(n + 1)) \in Seq(S) /\ Len(Append(r, R(n + 1))) = n + 1
        /\ \A i \in 1..n : Append(r, R(n + 1))[i] = r[i]
        /\ Append(r, R(n + 1))[n + 1] = R(n + 1)
    BY <2>1, <2>3, <2>4, AppendProperties
  <2>6. ASSUME NEW i \in 1..(n + 1) PROVE Append(r, R(n + 1))[i] = q[i]
    <3>1. CASE i = n + 1
      BY <1>2, <2>3, <2>5, <3>1, Zenon
    <3>2. CASE i # n + 1
      <4>1. i \in 1..n
        BY <3>2
      <4> QED BY <1>2, <2>5, <4>1, Zenon
    <3> QED BY <3>1, <3>2
  <2> QED BY <2>4, <2>5, <2>6, SeqEqual
<1> QED BY <1>1, <1>3 DEF r, q

\* What remains behind n frames.
Remains(pay, frames, b, n) ==
  /\ Len(b[n]) \in Nat /\ Len(pay) \in Nat /\ Len(b[n]) <= Len(pay)
  /\ Rest(pay, b, n) \in Seq(Byte) /\ Len(Rest(pay, b, n)) = Len(pay) - Len(b[n])
  /\ \A i \in 1..(Len(pay) - Len(b[n])) : Rest(pay, b, n)[i] = b[Len(frames)][Len(b[n]) + i]

LEMMA RestAt ==
  ASSUME NEW frames, WellFormed(frames), NEW b, WireAfter(frames, b), NEW K,
         NEW pay, Carries(pay, frames, b, K), NEW n \in 0..K
  PROVE  Remains(pay, frames, b, n)
<1> DEFINE N == Len(frames)  x == Len(b[n])  y == Len(pay)  r == Rest(pay, b, n)
<1>1. /\ N \in Nat /\ K \in 0..N /\ n \in 0..N
  BY DEF WellFormed, Carries
<1>2. Begins(b, n, K)
  BY <1>1, PrefixesGrow
<1>3. pay \in Seq(Byte) /\ y \in Nat /\ Len(b[K]) <= y
  BY DEF Carries
<1>4. x \in Nat /\ x <= y
  <2>1. Len(b[n]) \in Nat /\ Len(b[K]) \in Nat /\ Len(b[n]) + (K - n) <= Len(b[K])
    BY <1>2, Zenon DEF Begins
  <2> QED BY <1>1, <1>3, <2>1
<1>5. IsPart(pay, x + 1, y, r)
  BY <1>3, <1>4, PartOf DEF Rest
<1> HIDE DEF r, x, y
<1>6. r \in Seq(Byte) /\ Len(r) = y - x /\ \A i \in 1..(y - x) : r[i] = pay[x + i]
  <2>1. r \in Seq(Byte) /\ Len(r) = IF x + 1 <= y THEN y - (x + 1) + 1 ELSE 0
    BY <1>5, Zenon DEF IsPart
  <2>2. \A i \in 1..(y - (x + 1) + 1) : r[i] = pay[x + 1 + i - 1]
    BY <1>5, Zenon DEF IsPart
  <2>3. y - (x + 1) + 1 = y - x /\ \A i \in 1..(y - x) : x + 1 + i - 1 = x + i
    BY <1>3, <1>4
  <2>4. Len(r) = y - x
    BY <1>3, <1>4, <2>1
  <2> QED BY <2>1, <2>2, <2>3, <2>4, Zenon
<1>7. \A i \in 1..(y - x) : x + i \in 1..y
  BY <1>3, <1>4
<1>8. \A i \in 1..y : pay[i] = b[N][i]
  BY DEF Carries, y
<1>9. \A i \in 1..(y - x) : r[i] = b[N][x + i]
  BY <1>6, <1>7, <1>8, Zenon
<1> QED BY <1>3, <1>4, <1>6, <1>9, Zenon DEF Remains, r, x, y

\* The bytes of frame n + 1 are on the wire behind those of n frames.
OnWire(frames, b, n) ==
  /\ IsFrame(frames[n + 1]) /\ Len(frames[n + 1].pdu) \in Nat
  /\ Len(b[n]) \in Nat /\ Len(b[n + 1]) = Len(b[n]) + (Len(frames[n + 1].pdu) + 7)
  /\ \A i \in 1..(Len(frames[n + 1].pdu) + 7) :
       b[Len(frames)][Len(b[n]) + i] = Adu(frames[n + 1])[i]

LEMMA FrameOnWire ==
  ASSUME NEW frames, WellFormed(frames), NEW b, WireAfter(frames, b),
         NEW n \in 0..(Len(frames) - 1)
  PROVE  OnWire(frames, b, n)
<1> DEFINE N == Len(frames)  m == n + 1  l == Len(frames[m].pdu)  x == Len(b[n])
<1>1. N \in Nat /\ m \in 1..N /\ m - 1 = n /\ m \in 0..N
  BY DEF WellFormed
<1> HIDE DEF m
<1>2. Follows(frames, b, m)
  BY <1>1, PrefixLength
<1>3. IsFrame(frames[m])
  BY <1>1, FrameAt
<1>4. Len(Adu(frames[m])) = l + 7
  BY <1>3, AduLayout
<1>5. Begins(b, m, N)
  BY <1>1, PrefixesGrow
<1>6. /\ x \in Nat /\ l \in Nat /\ Len(b[m]) = x + l + 7
      /\ \A j \in 1..Len(Adu(frames[m])) : b[m][x + j] = Adu(frames[m])[j]
  BY <1>1, <1>2, Zenon DEF Follows
<1>7. \A i \in 1..Len(b[m]) : b[N][i] = b[m][i]
  BY <1>5, Zenon DEF Begins
<1> HIDE DEF x, l
<1>8. Len(b[m]) = x + (l + 7) /\ \A i \in 1..(l + 7) : x + i \in 1..Len(b[m])
  BY <1>6
<1>9. \A i \in 1..(l + 7) : b[m][x + i] = Adu(frames[m])[i]
  BY <1>4, <1>6, Zenon
<1>10. \A i \in 1..(l + 7) : b[N][x + i] = Adu(frames[m])[i]
  BY <1>7, <1>8, <1>9, Zenon
<1> QED BY <1>3, <1>6, <1>8, <1>10, Zenon DEF OnWire, m, l, x

\* A call takes the next whole frame.
LEMMA NextFrame ==
  ASSUME NEW frames, WellFormed(frames), NEW b, WireAfter(frames, b), NEW K,
         NEW pay, Carries(pay, frames, b, K), NEW stray \in Byte, NEW n \in 0..(K - 1)
  PROVE  ProcessModbusPacket(CallAfter(pay, frames, b, n, stray), stray) =
           CallAfter(pay, frames, b, n + 1, stray)
<1> DEFINE N == Len(frames)  f == frames[n + 1]  l == Len(f.pdu)
           x == Len(b[n])  y == Len(pay)  r == Rest(pay, b, n)
<1>1. /\ N \in Nat /\ K \in 0..N /\ n \in 0..K /\ n \in 0..(N - 1) /\ n + 1 \in 0..K
      /\ n \in Nat /\ n < N
  BY DEF WellFormed, Carries
<1>2. /\ x \in Nat /\ y \in Nat /\ x <= y /\ r \in Seq(Byte) /\ Len(r) = y - x
      /\ \A i \in 1..(y - x) : r[i] = b[N][x + i]
  <2>1. Remains(pay, frames, b, n)
    BY <1>1, RestAt
  <2> QED BY <2>1, Zenon DEF Remains
<1>3. /\ IsFrame(f) /\ l \in Nat /\ Len(b[n + 1]) = x + (l + 7)
      /\ \A i \in 1..(l + 7) : b[N][x + i] = Adu(f)[i]
  <2>1. OnWire(frames, b, n)
    BY <1>1, FrameOnWire
  <2> QED BY <2>1, Zenon DEF OnWire
<1>4. Len(b[n + 1]) <= y
  <2>1. Remains(pay, frames, b, n + 1)
    BY <1>1, RestAt
  <2> QED BY <2>1, Zenon DEF Remains
<1>5. pay \in Seq(Byte)
  BY DEF Carries
<1>6. FrameFirst(r, f)
  <2> HIDE DEF r, x, y, l, f
  <2>1. l + 7 <= Len(r) /\ \A i \in 1..(l + 7) : i \in 1..(y - x)
    BY <1>2, <1>3, <1>4
  <2>2. \A i \in 1..(l + 7) : r[i] = Adu(f)[i]
    BY <1>2, <1>3, <2>1, Zenon
  <2> QED BY <1>2, <2>1, <2>2 DEF FrameFirst, l
<1> DEFINE data == Records(frames, n, stray)  address == KnownAddress(frames, n)
<1>7. ProcessModbusPacket(Call(r, data, address), stray) =
        Call(SubSeq(r, l + 8, Len(r)), Append(data, RecordOf(f, address, stray)),
             LastAddress(f.pdu, address))
  <2> HIDE DEF r, data, address, f
  <2> QED BY <1>3, <1>6, FrameTaken
<1>8. SubSeq(r, l + 8, Len(r)) = Rest(pay, b, n + 1)
  <2> DEFINE c == l + 7
  <2>1. c \in Nat /\ x + c <= y /\ c + 1 = l + 8 /\ x + c + 1 = Len(b[n + 1]) + 1
    <3>1. x \in Nat /\ l \in Nat /\ Len(b[n + 1]) = x + (l + 7) /\ Len(b[n + 1]) <= y
      BY <1>2, <1>3, <1>4
    <3> HIDE DEF x, y, l
    <3> QED BY <3>1
  <2>2. r = SubSeq(pay, x + 1, y)
    BY DEF Rest
  <2>3. Rest(pay, b, n + 1) = SubSeq(pay, Len(b[n + 1]) + 1, y)
    BY DEF Rest
  <2> HIDE DEF c, r, x, f
  <2>4. SubSeq(SubSeq(pay, x + 1, Len(pay)), c + 1, Len(SubSeq(pay, x + 1, Len(pay)))) =
          SubSeq(pay, x + c + 1, Len(pay))
    BY <1>2, <1>5, <2>1, RestOfRest, Zenon
  <2> QED BY <2>1, <2>2, <2>3, <2>4, Zenon DEF y
<1>9. Append(data, RecordOf(f, address, stray)) = Records(frames, n + 1, stray)
  BY <1>1, RecordAdded
<1>10. LastAddress(f.pdu, address) = KnownAddress(frames, n + 1)
  BY <1>1, AddressKnown
<1> QED BY <1>7, <1>8, <1>9, <1>10, Zenon DEF CallAfter

\* Behind the last whole frame, a call finds none.
LEMMA NoNextFrame ==
  ASSUME NEW frames, WellFormed(frames), NEW b, WireAfter(frames, b), NEW K,
         NEW pay, Carries(pay, frames, b, K), NEW stray \in Byte
  PROVE  /\ ProcessModbusPacket(CallAfter(pay, frames, b, K, stray), stray) =
              CallAfter(pay, frames, b, K, stray)
         /\ Rest(pay, b, K) = <<>> <=> Len(b[K]) = Len(pay)
<1> DEFINE N == Len(frames)  f == frames[K + 1]  l == Len(f.pdu)
           x == Len(b[K])  y == Len(pay)  r == Rest(pay, b, K)
<1>1. N \in Nat /\ K \in 0..N /\ K \in 0..K /\ pay \in Seq(Byte) /\ y <= Len(b[N])
  BY DEF WellFormed, Carries
<1>2. /\ x \in Nat /\ y \in Nat /\ x <= y /\ r \in Seq(Byte) /\ Len(r) = y - x
      /\ \A i \in 1..(y - x) : r[i] = b[N][x + i]
  <2>1. Remains(pay, frames, b, K)
    BY <1>1, RestAt
  <2> QED BY <2>1, Zenon DEF Remains
<1>3. r = <<>> <=> x = y
  <2> HIDE DEF r, x, y
  <2> QED BY <1>2
<1>4. ASSUME r # <<>> PROVE Len(r) < AduLength(r, stray) + 6
  <2>1. x # y
    BY <1>3, <1>4
  <2>2. K < N
    BY <1>1, <1>2, <2>1
  <2>3. K \in 0..(N - 1)
    BY <1>1, <2>2
  <2>4. /\ IsFrame(f) /\ l \in Nat /\ Len(b[K + 1]) = x + (l + 7)
        /\ \A i \in 1..(l + 7) : b[N][x + i] = Adu(f)[i]
    <3>1. OnWire(frames, b, K)
      BY <2>3, FrameOnWire
    <3> QED BY <3>1, Zenon DEF OnWire
  <2>5. y < Len(b[K + 1])
    BY <2>2 DEF Carries
  <2>6. FrameCut(r, f)
    <3> HIDE DEF r, x, y, l, f
    <3>1. Len(r) < l + 7 /\ \A i \in 1..Len(r) : i \in 1..(y - x) /\ i \in 1..(l + 7)
      BY <1>2, <2>4, <2>5
    <3>2. \A i \in 1..Len(r) : r[i] = Adu(f)[i]
      BY <1>2, <2>4, <3>1, Zenon
    <3> QED BY <1>2, <3>1, <3>2 DEF FrameCut, l
  <2> HIDE DEF r, f
  <2> QED BY <2>4, <2>6, FrameLeft
<1> HIDE DEF r, x, y
<1>5. ProcessModbusPacket(Call(r, Records(frames, K, stray), KnownAddress(frames, K)), stray) =
        Call(r, Records(frames, K, stray), KnownAddress(frames, K))
  BY <1>4, CallStays
<1> QED BY <1>3, <1>5, Zenon DEF CallAfter, r, x, y

\* A segment gives the records of its frames if it ends with one, else nothing.
LEMMA SegmentDecoded ==
  ASSUME NEW frames, WellFormed(frames), NEW b, WireAfter(frames, b), NEW K,
         NEW pay, Carries(pay, frames, b, K), NEW stray \in Byte
  PROVE  Decode(pay, stray).data = IF Len(b[K]) = Len(pay) THEN Records(frames, K, stray) ELSE <<>>
<1> DEFINE N == Len(frames)  L == Len(pay)  C(n) == CallAfter(pay, frames, b, n, stray)
           E == [n \in 0..L |-> C(IF n <= K THEN n ELSE K)]
<1>1. N \in Nat /\ K \in 0..N /\ K \in Nat /\ pay \in Seq(Byte) /\ L \in Nat /\ Len(b[K]) <= L
  BY DEF WellFormed, Carries
<1>2. K <= L
  <2>1. Begins(b, 0, K)
    BY <1>1, PrefixesGrow
  <2>2. Len(b[0]) \in Nat /\ Len(b[K]) \in Nat /\ Len(b[0]) + (K - 0) <= Len(b[K])
    BY <2>1, Zenon DEF Begins
  <2> QED BY <1>1, <2>2
<1>3. C(0) = Call(pay, <<>>, 0)
  <2>1. Rest(pay, b, 0) = pay
    <3>1. b[0] = <<>>
      BY DEF WireAfter
    <3>2. Len(b[0]) + 1 = 1
      BY <3>1
    <3> QED BY <1>1, <3>2, SubSeqFull DEF Rest
  <2>2. Records(frames, 0, stray) = <<>>
    BY DEF Records
  <2>3. KnownAddress(frames, 0) = 0
    BY AddressKnown
  <2> QED BY <2>1, <2>2, <2>3 DEF CallAfter
<1>4. \A n \in 0..(K - 1) : ProcessModbusPacket(C(n), stray) = C(n + 1)
  BY NextFrame
<1>5. ProcessModbusPacket(C(K), stray) = C(K) /\ (Rest(pay, b, K) = <<>> <=> Len(b[K]) = L)
  BY NoNextFrame
<1>6. C(K).packet = Rest(pay, b, K) /\ C(K).data = Records(frames, K, stray)
  BY DEF CallAfter, Call
<1> HIDE DEF C
<1>7. ASSUME NEW n \in 0..L
      PROVE  E[n] = IF n = 0 THEN Call(pay, <<>>, 0) ELSE ProcessModbusPacket(E[n - 1], stray)
  <2>1. CASE n = 0
    BY <1>1, <1>3, <2>1
  <2>2. CASE n # 0 /\ n <= K
    <3>1. n - 1 \in 0..(K - 1) /\ n - 1 \in 0..L /\ (n - 1) + 1 = n /\ n - 1 <= K
      BY <1>1, <2>2
    <3>2. E[n] = C(n) /\ E[n - 1] = C(n - 1)
      BY <2>2, <3>1
    <3>3. ProcessModbusPacket(C(n - 1), stray) = C((n - 1) + 1)
      BY <1>4, <3>1
    <3> QED BY <2>2, <3>1, <3>2, <3>3
  <2>3. CASE n > K
    <3>1. n # 0 /\ n - 1 \in 0..L /\ ~ (n <= K)
      BY <1>1, <2>3
    <3>2. n - 1 <= K => n - 1 = K
      BY <1>1, <2>3
    <3>3. E[n] = C(K) /\ E[n - 1] = C(K)
      BY <3>1, <3>2
    <3> QED BY <1>5, <3>1, <3>3
  <2> QED BY <1>1, <2>1, <2>2, <2>3
<1>8. E[L] = C(K)
  BY <1>1, <1>2
<1>9. Calls(pay, stray, E)
  <2> DEFINE e == E
  <2>1. e = [n \in 0..L |-> e[n]]
    OBVIOUS
  <2>2. \A n \in 0..L : e[n] = IF n = 0 THEN Call(pay, <<>>, 0) ELSE ProcessModbusPacket(e[n - 1], stray)
    BY <1>7
  <2> HIDE DEF e
  <2>3. Calls(pay, stray, e)
    BY <2>1, <2>2, Zenon DEF Calls
  <2> QED BY <2>3 DEF e
<1>10. Decode(pay, stray) = ResultOf(C(K))
  <2> DEFINE e == E
  <2>1. Calls(pay, stray, e) /\ e[L] = C(K)
    BY <1>8, <1>9
  <2> HIDE DEF e
  <2>2. Decode(pay, stray) = ResultOf(e[Len(pay)])
    BY <1>1, <2>1, DecodeIs
  <2> QED BY <2>1, <2>2
<1> QED BY <1>5, <1>6, <1>10 DEF ResultOf, Nothing

\* Every segment ends within one frame, or with one.
LEMMA SomeFrameReached ==
  ASSUME NEW frames, WellFormed(frames), NEW b, WireAfter(frames, b),
         NEW y \in Nat, y <= Len(b[Len(frames)])
  PROVE  \E K \in 0..Len(frames) : Len(b[K]) <= y /\ (K < Len(frames) => y < Len(b[K + 1]))
<1> DEFINE N == Len(frames)
           T == {n \in Nat : n <= N => Len(b[n]) <= y}
<1>1. N \in Nat
  BY DEF WellFormed
<1> SUFFICES ASSUME \A K \in 0..N : ~ (Len(b[K]) <= y /\ (K < N => y < Len(b[K + 1])))
             PROVE  FALSE
  OBVIOUS
<1>2. \A n \in 0..N : Len(b[n]) \in Nat
  BY DEF WireAfter
<1>3. 0 \in T
  <2>1. b[0] = <<>>
    BY DEF WireAfter
  <2> QED BY <2>1
<1>4. ASSUME NEW n \in T PROVE n + 1 \in T
  <2> SUFFICES ASSUME n + 1 <= N PROVE Len(b[n + 1]) <= y
    OBVIOUS
  <2>1. n \in 0..N /\ n < N /\ n + 1 \in 0..N
    BY <1>1
  <2>2. Len(b[n]) <= y
    BY <2>1
  <2>3. ~ (y < Len(b[n + 1]))
    BY <2>1, <2>2
  <2>4. Len(b[n + 1]) \in Nat
    BY <1>2, <2>1
  <2> QED BY <2>3, <2>4
<1>5. T = Nat
  <2> HIDE DEF T
  <2>1. T \subseteq Nat
    BY DEF T
  <2> QED BY <1>3, <1>4, <2>1, NaturalsReached
<1>6. N \in 0..N /\ Len(b[N]) <= y
  BY <1>1, <1>5
<1> QED BY <1>1, <1>6

-----------------------------------------------------------------------------
(* What a record says of its frame.                                          *)

\* The registers are read where the frame has them.
LEMMA RegistersRead ==
  ASSUME NEW f, IsFrame(f), NEW first \in Nat, first >= 3, HasRegisters(f, first),
         NEW label \in Nat, NEW stray \in Byte
  PROVE  LET r == Registers(f.pdu, f.pdu[first - 1], first, label, stray)
         IN /\ [k \in DOMAIN r |-> r[k][2]] = f.values
            /\ r # <<>> => r[1][1] = label
<1> DEFINE n == Len(f.values)  l == Len(f.pdu)
           At(i) == first + 2 * (i - 1)
           V(i) == Signed(Word(ByteAt(f.pdu, At(i), stray), ByteAt(f.pdu, At(i) + 1, stray)))
           r == Registers(f.pdu, f.pdu[first - 1], first, label, stray)
<1>1. f.pdu \in Seq(Byte) /\ f.values \in Seq(Int) /\ l \in Nat /\ n \in Nat
  BY FrameType
<1>2. /\ l = first - 1 + 2 * n /\ f.pdu[first - 1] = 2 * n
      /\ \A k \in 1..n : f.values[k] = Signed(Word(f.pdu[At(k)], f.pdu[At(k) + 1]))
  <2>1. DOMAIN f.values = 1..n
    BY <1>1
  <2> QED BY <2>1, Zenon DEF HasRegisters
<1>3. f.pdu[first - 1] \div 2 = n
  <2> HIDE DEF n
  <2>1. (2 * n) \div 2 = n
    BY <1>1
  <2> QED BY <1>2, <2>1
<1>4. r = [i \in 1..n |-> <<label + i - 1, V(i)>>]
  BY <1>3 DEF Registers
<1>5. \A k \in 1..n : V(k) = f.values[k]
  <2> SUFFICES ASSUME NEW k \in 1..n PROVE V(k) = f.values[k]
    OBVIOUS
  <2>1. At(k) \in Nat /\ At(k) + 1 \in Nat /\ At(k) \in 1..l /\ At(k) + 1 \in 1..l
    <3> HIDE DEF n, l
    <3>1. k \in Nat /\ k >= 1 /\ k <= n
      BY <1>1
    <3>2. n \in Nat /\ l \in Nat /\ l = first - 1 + 2 * n
      BY <1>1, <1>2
    <3> QED BY <3>1, <3>2
  <2> HIDE DEF At
  <2>2. ByteAt(f.pdu, At(k), stray) = f.pdu[At(k)] /\ ByteAt(f.pdu, At(k) + 1, stray) = f.pdu[At(k) + 1]
    BY <1>1, <2>1, ByteRead
  <2> QED BY <1>2, <2>2
<1> HIDE DEF V, r
<1>6. DOMAIN r = 1..n /\ \A k \in 1..n : r[k][2] = f.values[k] /\ r[k][1] = label + k - 1
  BY <1>4, <1>5
<1>7. [k \in DOMAIN r |-> r[k][2]] = f.values
  <2>1. f.values = [k \in 1..n |-> f.values[k]]
    <3> DEFINE v == f.values
    <3>1. v \in [1..Len(v) -> Int]
      BY <1>1, LenProperties
    <3> HIDE DEF v
    <3> QED BY <3>1 DEF v
  <2> HIDE DEF n
  <2> QED BY <1>6, <2>1
<1>8. r # <<>> => r[1][1] = label
  <2>1. n = 0 => r = <<>>
    BY <1>4
  <2>2. n # 0 => 1 \in 1..n
    BY <1>1
  <2>3. label + 1 - 1 = label
    OBVIOUS
  <2> HIDE DEF n
  <2> QED BY <1>6, <2>1, <2>2, <2>3
<1> QED BY <1>7, <1>8 DEF r

\* A reply about a frame: it is defined, its registers are those of the frame, with
\* the label of a write or the known address.
ReplyFits(f, address, reply) ==
  /\ reply.kind # "undefined"
  /\ reply.kind = "registers" =>
       /\ [k \in DOMAIN reply.items |-> reply.items[k][2]] = f.values
       /\ f.kind \in {"write", "answer"}
       /\ reply.items # <<>> =>
            reply.items[1][1] = IF f.kind = "write" THEN f.address ELSE address
  /\ f.kind = "write" /\ Len(f.values) >= 2 => reply.kind = "registers"
  /\ f.kind = "answer" /\ Len(f.values) >= 4 => reply.kind = "registers"

LEMMA NoReplyFits ==
  ASSUME NEW f, NEW address, NEW reply, reply.kind \notin {"undefined", "registers"},
         f.kind = "write" => ~ (Len(f.values) >= 2),
         f.kind = "answer" => ~ (Len(f.values) >= 4)
  PROVE  ReplyFits(f, address, reply)
BY DEF ReplyFits

\* What is known of the bytes of a frame.
LEMMA BytesOfFrame ==
  ASSUME NEW f, IsFrame(f)
  PROVE  /\ KindFits(f) /\ Len(f.pdu) \in Nat /\ Len(f.values) \in Nat
         /\ \A i \in 1..Len(f.pdu) : f.pdu[i] \in Nat /\ f.pdu[i] \in Byte
         /\ 1 \in 1..Len(f.pdu)
<1>1. KindFits(f)
  BY Zenon DEF IsFrame
<1>2. f.pdu \in Seq(Byte) /\ Len(f.pdu) \in Nat /\ Len(f.pdu) > 0 /\ f.values \in Seq(Int)
  BY FrameType
<1>3. \A i \in 1..Len(f.pdu) : f.pdu[i] \in Byte
  BY <1>2, ElementOfSeq
<1> QED BY <1>1, <1>2, <1>3, ByteType

LEMMA QueryAnalyzed ==
  ASSUME NEW f, IsFrame(f), f.kind = "query", NEW address \in Nat, NEW stray \in Byte
  PROVE  ReplyFits(f, address, AnalyzeModbusPacket(f.pdu, address, stray))
<1>1. f.pdu[1] \in {3, 4} /\ Len(f.pdu) = 5
  BY BytesOfFrame DEF KindFits
<1>2. AnalyzeModbusPacket(f.pdu, address, stray) = NoReply
  BY <1>1 DEF AnalyzeModbusPacket
<1>3. NoReply.kind = "none"
  BY DEF NoReply
<1> QED BY <1>2, <1>3, NoReplyFits

LEMMA AnswerAnalyzed ==
  ASSUME NEW f, IsFrame(f), f.kind = "answer", NEW address \in Nat, NEW stray \in Byte
  PROVE  ReplyFits(f, address, AnalyzeModbusPacket(f.pdu, address, stray))
<1> DEFINE n == Len(f.values)  l == Len(f.pdu)  reply == AnalyzeModbusPacket(f.pdu, address, stray)
<1>1. f.pdu[1] \in {3, 4} /\ HasRegisters(f, 3) /\ n \in Nat /\ l \in Nat /\ n # 0
  BY BytesOfFrame DEF KindFits
<1>2. l = 3 - 1 + 2 * n
  BY <1>1, Zenon DEF HasRegisters
<1> HIDE DEF n, l, reply
<1>3. l = 2 + 2 * n
  BY <1>1, <1>2
<1>4. CASE n <= 3
  <2>1. reply = NoReply \/ reply.kind = "start"
    <3>1. CASE n = 1
      <4>1. l = 4
        BY <1>3, <3>1
      <4> QED BY <4>1 DEF AnalyzeModbusPacket, l, reply
    <3>2. CASE n = 2
      <4>1. l = 6
        BY <1>3, <3>2
      <4> QED BY <1>1, <4>1 DEF AnalyzeModbusPacket, l, reply
    <3>3. CASE n = 3
      <4>1. l = 8
        BY <1>3, <3>3
      <4> QED BY <1>1, <4>1 DEF AnalyzeModbusPacket, l, reply, Reply
    <3> QED BY <1>1, <1>4, <3>1, <3>2, <3>3
  <2>2. reply.kind \notin {"undefined", "registers"}
    BY <2>1 DEF NoReply
  <2>3. ~ (n >= 4)
    BY <1>1, <1>4
  <2> QED BY <2>2, <2>3, NoReplyFits DEF n, reply
<1>5. CASE n > 3
  <2>1. l > 8
    BY <1>1, <1>3, <1>5
  <2>2. reply = Reply("registers", f.pdu[1], Registers(f.pdu, f.pdu[2], 3, address, stray))
    <3>1. l \notin 5..7 /\ ~ (l < 5) /\ l >= 8 /\ l # 8 /\ ~ (f.pdu[1] >= 128)
      BY <1>1, <2>1
    <3> QED BY <1>1, <3>1 DEF AnalyzeModbusPacket, l, reply
  <2> DEFINE r == Registers(f.pdu, f.pdu[2], 3, address, stray)
  <2>3. [k \in DOMAIN r |-> r[k][2]] = f.values /\ (r # <<>> => r[1][1] = address)
    <3> DEFINE first == 3
    <3>1. first \in Nat /\ first >= 3 /\ first - 1 = 2 /\ HasRegisters(f, first)
      BY <1>1
    <3>2. r = Registers(f.pdu, f.pdu[first - 1], first, address, stray)
      BY <3>1
    <3> HIDE DEF first, r
    <3> DEFINE q == Registers(f.pdu, f.pdu[first - 1], first, address, stray)
    <3>3. [k \in DOMAIN q |-> q[k][2]] = f.values /\ (q # <<>> => q[1][1] = address)
      BY <3>1, RegistersRead
    <3> QED BY <3>2, <3>3, Zenon
  <2> HIDE DEF r
  <2>4. reply.kind = "registers" /\ reply.items = r
    BY <2>2 DEF Reply, r
  <2> HIDE DEF reply
  <2>5. [k \in DOMAIN reply.items |-> reply.items[k][2]] = f.values
    BY <2>3, <2>4
  <2> QED BY <2>3, <2>4, <2>5 DEF ReplyFits, reply
<1> QED BY <1>1, <1>4, <1>5

LEMMA WriteAnalyzed ==
  ASSUME NEW f, IsFrame(f), f.kind = "write", NEW address \in Nat, NEW stray \in Byte
  PROVE  ReplyFits(f, address, AnalyzeModbusPacket(f.pdu, address, stray))
<1> DEFINE n == Len(f.values)  l == Len(f.pdu)  reply == AnalyzeModbusPacket(f.pdu, address, stray)
<1>1. /\ f.pdu[1] = 16 /\ HasRegisters(f, 7) /\ n \in Nat /\ l \in Nat
      /\ f.address = Word(f.pdu[2], f.pdu[3])
  BY BytesOfFrame DEF KindFits
<1>2. l = 7 - 1 + 2 * n
  BY <1>1, Zenon DEF HasRegisters
<1>3. f.address \in Nat
  <2>1. 2 \in 1..l /\ 3 \in 1..l
    <3> HIDE DEF l, n
    <3> QED BY <1>1, <1>2
  <2>2. f.pdu[2] \in Byte /\ f.pdu[3] \in Byte
    BY <2>1, BytesOfFrame
  <2> QED BY <1>1, <2>2, WordType
<1> HIDE DEF n, l, reply
<1>4. l = 6 + 2 * n
  BY <1>1, <1>2
<1>5. CASE n <= 1
  <2>1. reply = NoReply \/ reply.kind = "function"
    <3>1. CASE n = 0
      <4>1. l = 6
        BY <1>4, <3>1
      <4> QED BY <1>1, <4>1 DEF AnalyzeModbusPacket, l, reply
    <3>2. CASE n = 1
      <4>1. l = 8
        BY <1>4, <3>2
      <4> QED BY <1>1, <4>1 DEF AnalyzeModbusPacket, l, reply, Reply
    <3> QED BY <1>1, <1>5, <3>1, <3>2
  <2>2. reply.kind \notin {"undefined", "registers"}
    BY <2>1 DEF NoReply
  <2>3. ~ (n >= 2)
    BY <1>1, <1>5
  <2> QED BY <2>2, <2>3, NoReplyFits DEF n, reply
<1>6. CASE n > 1
  <2>1. l > 8
    BY <1>1, <1>4, <1>6
  <2> DEFINE r == Registers(f.pdu, f.pdu[6], 7, f.address, stray)
  <2>2. reply = Reply("registers", 16, r)
    <3>1. l \notin 5..7 /\ ~ (l < 5) /\ l >= 8 /\ l # 8 /\ ~ (f.pdu[1] >= 128)
      BY <1>1, <2>1
    <3> QED BY <1>1, <3>1 DEF AnalyzeModbusPacket, l, reply
  <2>3. [k \in DOMAIN r |-> r[k][2]] = f.values /\ (r # <<>> => r[1][1] = f.address)
    <3> DEFINE first == 7
    <3>1. first \in Nat /\ first >= 3 /\ first - 1 = 6 /\ HasRegisters(f, first)
      BY <1>1
    <3>2. r = Registers(f.pdu, f.pdu[first - 1], first, f.address, stray)
      BY <3>1
    <3> HIDE DEF first, r
    <3> DEFINE q == Registers(f.pdu, f.pdu[first - 1], first, f.address, stray)
    <3>3. [k \in DOMAIN q |-> q[k][2]] = f.values /\ (q # <<>> => q[1][1] = f.address)
      BY <1>3, <3>1, RegistersRead
    <3> QED BY <3>2, <3>3, Zenon
  <2> HIDE DEF r
  <2>4. reply.kind = "registers" /\ reply.items = r
    BY <2>2 DEF Reply
  <2> HIDE DEF reply
  <2>5. [k \in DOMAIN reply.items |-> reply.items[k][2]] = f.values
    BY <2>3, <2>4
  <2> QED BY <2>3, <2>4, <2>5 DEF ReplyFits, reply
<1> QED BY <1>1, <1>5, <1>6

LEMMA OtherAnalyzed ==
  ASSUME NEW f, IsFrame(f), f.kind = "other", NEW address \in Nat, NEW stray \in Byte
  PROVE  ReplyFits(f, address, AnalyzeModbusPacket(f.pdu, address, stray))
<1> DEFINE l == Len(f.pdu)  c == f.pdu[1]  reply == AnalyzeModbusPacket(f.pdu, address, stray)
<1>1. /\ c \in Nat /\ l \in Nat /\ c \notin {3, 4}
      /\ c = 16 => l = 5
      /\ c >= 128 => l = 2
  BY BytesOfFrame DEF KindFits
<1>2. reply = NoReply \/ reply.kind \in {"function", "subfunction"}
  <2>1. CASE l < 5
    BY <2>1 DEF AnalyzeModbusPacket
  <2>2. CASE l \in 5..7 /\ ~ (c >= 128) /\ c < 128
    <3>1. ~ (l < 5) /\ l >= 5 /\ ~ (l >= 8)
      <4> HIDE DEF l, c
      <4> QED BY <1>1, <2>2
    <3> QED BY <2>2, <3>1, Zenon DEF AnalyzeModbusPacket
  <2>3. CASE l >= 8 /\ ~ (c >= 128) /\ c < 128
    <3>1. ~ (l < 5) /\ l \notin 5..7 /\ c # 16
      <4> HIDE DEF l, c
      <4> QED BY <1>1, <2>3
    <3>2. CASE c = 8
      BY <1>1, <2>3, <3>1, <3>2 DEF AnalyzeModbusPacket, Reply
    <3>3. CASE c # 8
      BY <1>1, <2>3, <3>1, <3>3 DEF AnalyzeModbusPacket, Reply
    <3> QED BY <3>2, <3>3
  <2> HIDE DEF l, c
  <2>4. l < 5 \/ (l \in 5..7 /\ ~ (c >= 128) /\ c < 128) \/ (l >= 8 /\ ~ (c >= 128) /\ c < 128)
    BY <1>1
  <2> QED BY <2>1, <2>2, <2>3, <2>4
<1>3. reply.kind \notin {"undefined", "registers"}
  BY <1>2 DEF NoReply
<1> HIDE DEF reply
<1> QED BY <1>3, NoReplyFits DEF reply

LEMMA FrameAnalyzed ==
  ASSUME NEW f, IsFrame(f), NEW address \in Nat, NEW stray \in Byte
  PROVE  ReplyFits(f, address, AnalyzeModbusPacket(f.pdu, address, stray))
<1>1. f.kind = "query" \/ f.kind = "answer" \/ f.kind = "write" \/ f.kind = "other"
  BY BytesOfFrame DEF KindFits
<1> QED BY <1>1, QueryAnalyzed, AnswerAnalyzed, WriteAnalyzed, OtherAnalyzed

\* A set of places has a last one.
LEMMA LastPlace ==
  ASSUME NEW n \in Nat, NEW S, S \subseteq 1..n, S # {}
  PROVE  Max(S) \in S
<1> DEFINE Best(U, x) == \A y \in U : x >= y
           T == {m \in Nat : \A U : U \subseteq 1..m /\ U # {} => \E x \in U : Best(U, x)}
<1>1. 0 \in T
  OBVIOUS
<1>2. ASSUME NEW m \in T PROVE m + 1 \in T
  <2> SUFFICES ASSUME NEW U, U \subseteq 1..(m + 1), U # {} PROVE \E x \in U : Best(U, x)
    OBVIOUS
  <2>1. m \in Nat
    OBVIOUS
  <2>2. CASE m + 1 \in U
    <3>1. Best(U, m + 1)
      BY <2>1
    <3> QED BY <2>2, <3>1
  <2>3. CASE m + 1 \notin U
    <3>1. U \subseteq 1..m
      BY <2>1, <2>3
    <3> QED BY <3>1
  <2> QED BY <2>2, <2>3
<1>3. T = Nat
  <2> HIDE DEF T
  <2>1. T \subseteq Nat
    BY DEF T
  <2> QED BY <1>1, <1>2, <2>1, NaturalsReached
<1>4. \E x \in S : Best(S, x)
  BY <1>3
<1>5. Max(S) = CHOOSE x \in S : Best(S, x)
  BY DEF Max
<1> HIDE DEF Best
<1> QED BY <1>4, <1>5

\* The known address is a word of an answer before.
LEMMA AddressType ==
  ASSUME NEW frames, WellFormed(frames), NEW n \in 0..Len(frames)
  PROVE  KnownAddress(frames, n) \in Nat
<1> DEFINE M == Mistaken(frames, n)  k == Max(M)
<1>1. CASE M = {}
  BY <1>1 DEF KnownAddress
<1>2. CASE M # {}
  <2>1. n \in Nat /\ M \subseteq 1..n /\ 1..n \subseteq 1..Len(frames)
    BY DEF WellFormed, Mistaken
  <2>2. k \in M
    BY <1>2, <2>1, LastPlace
  <2> HIDE DEF k
  <2>3. k \in 1..Len(frames) /\ frames[k].kind = "answer" /\ Len(frames[k].values) = 3
    BY <2>1, <2>2 DEF Mistaken
  <2>4. IsFrame(frames[k])
    BY <2>3, FrameAt
  <2>5. Len(frames[k].pdu) = 8
    BY <2>3, <2>4, MistakenFrame
  <2>6. frames[k].pdu[2] \in Byte /\ frames[k].pdu[3] \in Byte
    BY <2>4, <2>5, BytesOfFrame
  <2> QED BY <1>2, <2>6, WordType DEF KnownAddress, k
<1> QED BY <1>1, <1>2

-----------------------------------------------------------------------------
(* A packet.                                                                 *)

LEMMA LargerOfTwo ==
  ASSUME NEW x \in Int
  PROVE  /\ Max({0, x}) \in Nat
         /\ x <= 0 => Max({0, x}) = 0
         /\ x >= 0 => Max({0, x}) = x
<1> DEFINE Best(m) == \A y \in {0, x} : m >= y
           m == IF x >= 0 THEN x ELSE 0
<1>1. Max({0, x}) = CHOOSE k \in {0, x} : Best(k)
  BY DEF Max
<1>2. m \in {0, x} /\ Best(m)
  OBVIOUS
<1>3. \A k \in {0, x} : Best(k) => k = m
  OBVIOUS
<1> HIDE DEF Best
<1>4. Max({0, x}) = m
  BY <1>1, <1>2, <1>3
<1> QED BY <1>4

LEMMA SmallerOfTwo ==
  ASSUME NEW x \in Int, NEW z \in Int
  PROVE  Min({x, z}) = IF x <= z THEN x ELSE z
<1> DEFINE Best(m) == \A y \in {x, z} : m <= y
           m == IF x <= z THEN x ELSE z
<1>1. Min({x, z}) = CHOOSE k \in {x, z} : Best(k)
  BY DEF Min
<1>2. m \in {x, z} /\ Best(m)
  OBVIOUS
<1>3. \A k \in {x, z} : Best(k) => k = m
  OBVIOUS
<1> HIDE DEF Best
<1>4. Min({x, z}) = m
  BY <1>1, <1>2, <1>3
<1> QED BY <1>4

LEMMA FramesOfPacket ==
  ASSUME NEW p, IsPacket(p)
  PROVE  WellFormed(p.frames)
BY DEF IsPacket, WellFormed

\* The stream of all frames.
LEMMA StreamIs ==
  ASSUME NEW frames, WellFormed(frames), NEW b, WireAfter(frames, b)
  PROVE  /\ Stream(frames) = b[Len(frames)] /\ Stream(frames) \in Seq(Byte)
         /\ Len(Stream(frames)) \in Nat
<1>1. Len(frames) \in 0..Len(frames) /\ SubSeq(frames, 1, Len(frames)) = frames
  BY SubSeqFull DEF WellFormed
<1>2. Stream(SubSeq(frames, 1, Len(frames))) = b[Len(frames)]
  BY <1>1, StreamOfFirst
<1>3. b[Len(frames)] \in Seq(Byte)
  BY <1>1 DEF WireAfter
<1>4. Stream(frames) = b[Len(frames)] /\ Stream(frames) \in Seq(Byte)
  BY <1>1, <1>2, <1>3, Zenon
<1> QED BY <1>4

\* The lengths in a packet.
Sizes(p) ==
  /\ Headers(p) \in Nat /\ Headers(p) >= 54
  /\ Segment(p) \in Seq(Byte) /\ Len(Segment(p)) \in Nat
  /\ p.from \in Nat \ {0} /\ p.to \in Nat /\ p.to <= Len(Stream(p.frames))
  /\ Len(Segment(p)) = IF p.from <= p.to THEN p.to - p.from + 1 ELSE 0
  /\ Padding(p) \in Nat
  /\ Padding(p) # 0 => Headers(p) + Len(Segment(p)) + Padding(p) = MinLen
  /\ PacketLen(p) = Headers(p) + Len(Segment(p)) + Padding(p)
  /\ PayloadLen(p) = Len(Segment(p)) + Padding(p)
  /\ CapLen(p) = IF PacketLen(p) <= SnapLen THEN PacketLen(p) ELSE SnapLen

LEMMA PacketSizes ==
  ASSUME NEW p, IsPacket(p)
  PROVE  Sizes(p)
<1> DEFINE h == Headers(p)  s == Segment(p)  l == Len(s)  d == Padding(p)  W == Stream(p.frames)
<1>1. h \in Nat /\ h >= 54
  <2>1. p.sizeIp \in Nat /\ p.sizeIp >= 20 /\ p.sizeTcp \in Nat /\ p.sizeTcp >= 20
    BY Zenon DEF IsPacket
  <2>2. h = 14 + p.sizeIp + p.sizeTcp
    BY DEF Headers, EtherHeader
  <2> HIDE DEF h
  <2> QED BY <2>1, <2>2
<1>2. WellFormed(p.frames)
  BY FramesOfPacket
<1>3. PICK b : WireAfter(p.frames, b)
  BY <1>2, PrefixesExist
<1>4. W \in Seq(Byte) /\ Len(W) \in Nat
  BY <1>2, <1>3, StreamIs
<1>5. p.from \in Nat \ {0} /\ p.to \in Nat /\ p.to <= Len(W)
  <2>1. p.from \in Nat \ {0} /\ p.to \in 0..Len(W)
    BY Zenon DEF IsPacket
  <2> HIDE DEF W
  <2> QED BY <1>4, <2>1
<1>6. IsPart(W, p.from, p.to, s)
  <2>1. s = SubSeq(W, p.from, p.to)
    BY DEF Segment
  <2> HIDE DEF W, s
  <2> QED BY <1>4, <1>5, <2>1, PartOf
<1> HIDE DEF s, h, W
<1>7. s \in Seq(Byte) /\ l \in Nat /\ l = IF p.from <= p.to THEN p.to - p.from + 1 ELSE 0
  <2>1. s \in Seq(Byte) /\ l = IF p.from <= p.to THEN p.to - p.from + 1 ELSE 0
    BY <1>6, Zenon DEF IsPart
  <2> QED BY <1>5, <2>1
<1> HIDE DEF l
<1>8. MinLen \in Int /\ SnapLen \in Int
  BY DispatchAssumption
<1>9. d \in Nat /\ (d # 0 => h + l + d = MinLen)
  <2>1. d = IF p.padded THEN Max({0, MinLen - h - l}) ELSE 0
    BY Zenon DEF Padding, h, l, s
  <2> DEFINE x == MinLen - h - l
  <2>2. x \in Int /\ h + l + x = MinLen
    BY <1>1, <1>7, <1>8
  <2> HIDE DEF x, d
  <2>3. Max({0, x}) \in Nat /\ (Max({0, x}) # 0 => Max({0, x}) = x)
    <3>1. Max({0, x}) \in Nat /\ (x <= 0 => Max({0, x}) = 0) /\ (x >= 0 => Max({0, x}) = x)
      BY <2>2, LargerOfTwo
    <3> QED BY <2>2, <3>1
  <2>4. d = IF p.padded THEN Max({0, x}) ELSE 0
    BY <2>1 DEF x
  <2> QED BY <2>2, <2>3, <2>4
<1> HIDE DEF d
<1>10. PacketLen(p) = h + l + d
  BY DEF PacketLen, h, l, s, d
<1>11. PayloadLen(p) = l + d
  <2>1. PayloadLen(p) = PacketLen(p) - h
    BY DEF PayloadLen, h
  <2> QED BY <1>1, <1>7, <1>9, <1>10, <2>1
<1>12. CapLen(p) = IF PacketLen(p) <= SnapLen THEN PacketLen(p) ELSE SnapLen
  <2>1. PacketLen(p) \in Int
    BY <1>1, <1>7, <1>9, <1>10
  <2> QED BY <1>8, <2>1, SmallerOfTwo DEF CapLen
<1> QED BY <1>1, <1>5, <1>7, <1>9, <1>10, <1>11, <1>12, Zenon DEF Sizes, h, s, l, d, W

\* What the decoder gets of a packet that was captured in full.
LEMMA PayloadInFull ==
  ASSUME NEW p, IsPacket(p), PacketLen(p) <= SnapLen, NEW stray
  PROVE  Payload(p, stray) =
           [i \in 1..PayloadLen(p) |-> (Segment(p) \o [k \in 1..Padding(p) |-> 0])[i]]
<1> DEFINE w == Segment(p) \o [k \in 1..Padding(p) |-> 0]
           h == Headers(p)  l == PayloadLen(p)
<1>1. Sizes(p)
  BY PacketSizes
<1>2. h \in Nat /\ l \in Nat /\ CapLen(p) = h + l
  <2> DEFINE s == Len(Segment(p))  d == Padding(p)
  <2>1. /\ h \in Nat /\ s \in Nat /\ d \in Nat /\ l = s + d /\ PacketLen(p) = h + s + d
        /\ CapLen(p) = PacketLen(p)
    BY <1>1, Zenon DEF Sizes
  <2> HIDE DEF s, d, h, l
  <2> QED BY <2>1
<1>3. \A i \in 1..l : h + i <= CapLen(p)
  BY <1>2
<1>4. Payload(p, stray) = [i \in 1..l |-> IF h + i <= CapLen(p) THEN w[i] ELSE stray]
  BY Zenon DEF Payload
<1> HIDE DEF w, h, l
<1>5. Payload(p, stray) = [i \in 1..l |-> w[i]]
  BY <1>3, <1>4
<1> QED BY <1>5 DEF w, l

\* A clean packet carries the beginning of its stream.
LEMMA CleanPayload ==
  ASSUME NEW p, IsPacket(p), Clean(p), NEW stray
  PROVE  /\ Payload(p, stray) \in Seq(Byte) /\ Len(Payload(p, stray)) = p.to
         /\ p.to \in Nat /\ p.to <= Len(Stream(p.frames))
         /\ \A i \in 1..p.to : Payload(p, stray)[i] = Stream(p.frames)[i]
<1> DEFINE s == Segment(p)  W == Stream(p.frames)  t == p.to
<1>1. Sizes(p)
  BY PacketSizes
<1>2. p.from = 1 /\ Padding(p) = 0 /\ PacketLen(p) <= SnapLen
  BY DEF Clean
<1>3. /\ s \in Seq(Byte) /\ t \in Nat /\ t <= Len(W)
      /\ Len(s) = IF 1 <= t THEN t - 1 + 1 ELSE 0
      /\ PayloadLen(p) = Len(s) + 0
  BY <1>1, <1>2, Zenon DEF Sizes
<1>4. WellFormed(p.frames)
  BY FramesOfPacket
<1>5. PICK b : WireAfter(p.frames, b)
  BY <1>4, PrefixesExist
<1>6. W \in Seq(Byte)
  BY <1>4, <1>5, StreamIs
<1>7. s = SubSeq(W, 1, t)
  BY <1>2 DEF Segment
<1> HIDE DEF s, W, t
<1>8. Len(s) = t /\ PayloadLen(p) = t
  <2>1. Len(s) = t
    BY <1>3
  <2> QED BY <1>3, <2>1
<1>9. \A i \in 1..t : s[i] = W[i]
  <2>1. IsPart(W, 1, t, s)
    BY <1>3, <1>6, <1>7, PartOf
  <2>2. \A i \in 1..(t - 1 + 1) : s[i] = W[1 + i - 1]
    BY <2>1, Zenon DEF IsPart
  <2>3. t - 1 + 1 = t /\ \A i \in 1..t : 1 + i - 1 = i
    BY <1>3
  <2> QED BY <2>2, <2>3, Zenon
<1>10. Payload(p, stray) = s
  <2>1. Payload(p, stray) = [i \in 1..PayloadLen(p) |-> (s \o [k \in 1..Padding(p) |-> 0])[i]]
    BY <1>2, PayloadInFull DEF s
  <2>2. [k \in 1..Padding(p) |-> 0] = <<>>
    BY <1>2
  <2>3. s \o <<>> = s
    BY <1>3, ConcatEmptySeq
  <2>4. Payload(p, stray) = [i \in 1..t |-> s[i]]
    BY <1>8, <2>1, <2>2, <2>3, Zenon
  <2>5. s = [i \in 1..t |-> s[i]]
    BY <1>3, <1>8
  <2> QED BY <2>4, <2>5
<1> QED BY <1>3, <1>8, <1>9, <1>10, Zenon DEF W, t

\* A clean packet is whole if the last frame that begins in it ends with it.
LEMMA WholeIs ==
  ASSUME NEW p, IsPacket(p), Clean(p), NEW b, WireAfter(p.frames, b), NEW K,
         NEW pay, Carries(pay, p.frames, b, K), Len(pay) = p.to
  PROVE  /\ Whole(p) <=> Len(b[K]) = p.to
         /\ Whole(p) => Carried(p) = SubSeq(p.frames, 1, K)
<1> DEFINE frames == p.frames  N == Len(frames)  t == p.to
           Ending(k) == Len(Stream(SubSeq(frames, 1, k)))
<1>1. WellFormed(frames)
  BY FramesOfPacket
<1>2. N \in Nat /\ K \in 0..N /\ Len(b[K]) <= t /\ (K < N => t < Len(b[K + 1])) /\ t \in Nat
  BY <1>1 DEF WellFormed, Carries
<1>3. \A k \in 0..N : Ending(k) = Len(b[k])
  BY <1>1, StreamOfFirst
<1>4. ASSUME NEW k \in 0..N, Len(b[k]) = t PROVE k = K
  <2>1. CASE k < K
    <3>1. Begins(b, k, K)
      BY <1>1, <1>2, <2>1, PrefixesGrow
    <3>2. Len(b[k]) \in Nat /\ Len(b[K]) \in Nat /\ Len(b[k]) + (K - k) <= Len(b[K])
      BY <3>1, Zenon DEF Begins
    <3>3. k \in Nat /\ K \in Nat
      BY <1>2
    <3> QED BY <1>2, <1>4, <2>1, <3>2, <3>3
  <2>2. CASE k > K
    <3>1. K < N /\ K + 1 \in 0..k /\ K + 1 \in Nat /\ k \in Nat
      BY <1>2, <2>2
    <3>2. Begins(b, K + 1, k)
      BY <1>1, <3>1, PrefixesGrow
    <3>3. Len(b[K + 1]) \in Nat /\ Len(b[k]) \in Nat /\ Len(b[K + 1]) + (k - (K + 1)) <= Len(b[k])
      BY <3>2, Zenon DEF Begins
    <3>4. t < Len(b[K + 1]) /\ k - (K + 1) \in Nat
      BY <1>2, <3>1
    <3> QED BY <1>2, <1>4, <3>3, <3>4
  <2> QED BY <1>2, <2>1, <2>2
<1> HIDE DEF Ending
<1>5. Whole(p) <=> \E k \in 0..N : Ending(k) = t
  <2>1. Ends(frames) = {Ending(k) : k \in 0..N}
    BY Zenon DEF Ends, Ending
  <2> QED BY <2>1 DEF Whole
<1>6. Whole(p) <=> Len(b[K]) = t
  BY <1>2, <1>3, <1>4, <1>5
<1>7. ASSUME Len(b[K]) = t PROVE (CHOOSE k \in 0..N : Ending(k) = t) = K
  <2>1. K \in 0..N /\ Ending(K) = t
    BY <1>2, <1>3, <1>7
  <2>2. \A k \in 0..N : Ending(k) = t => k = K
    BY <1>3, <1>4
  <2> QED BY <2>1, <2>2
<1>8. Carried(p) = SubSeq(frames, 1, CHOOSE k \in 0..N : Ending(k) = t)
  BY Zenon DEF Carried, Ending
<1> QED BY <1>6, <1>7, <1>8

\* The first frames of a stream are frames, and know the same addresses.
LEMMA FirstFrames ==
  ASSUME NEW frames, WellFormed(frames), NEW K \in 0..Len(frames), NEW stray
  PROVE  LET s == SubSeq(frames, 1, K)
         IN /\ WellFormed(s) /\ Len(s) = K
            /\ Records(s, K, stray) = Records(frames, K, stray)
<1> DEFINE s == SubSeq(frames, 1, K)
<1>1. Len(frames) \in Nat /\ K \in Nat /\ 1..K \subseteq 1..Len(frames)
  BY DEF WellFormed
<1>2. s \in Seq(Range(frames)) /\ Len(s) = K /\ \A i \in 1..K : s[i] = frames[i]
  BY <1>1 DEF WellFormed
<1> HIDE DEF s
<1>3. Range(s) \subseteq Range(frames)
  BY <1>1, <1>2 DEF Range
<1>4. WellFormed(s)
  <2>1. s \in Seq(Range(s))
    BY <1>2 DEF Range
  <2> QED BY <1>3, <2>1 DEF WellFormed
<1>5. ASSUME NEW n \in 0..K PROVE KnownAddress(s, n) = KnownAddress(frames, n)
  <2> DEFINE M == Mistaken(frames, n)  k == Max(M)
  <2>1. n \in Nat /\ M \subseteq 1..n /\ 1..n \subseteq 1..K
    BY <1>1 DEF Mistaken
  <2>2. Mistaken(s, n) = M
    BY <1>2, <2>1 DEF Mistaken
  <2>3. CASE M = {}
    BY <2>2, <2>3 DEF KnownAddress
  <2>4. CASE M # {}
    <3>1. k \in M
      BY <2>1, <2>4, LastPlace
    <3>2. s[k] = frames[k]
      BY <1>2, <2>1, <3>1
    <3> QED BY <2>2, <2>4, <3>2 DEF KnownAddress
  <2> QED BY <2>3, <2>4
<1>6. Records(s, K, stray) = Records(frames, K, stray)
  <2>1. \A i \in 1..K : i - 1 \in 0..K
    BY <1>1
  <2>2. \A i \in 1..K : RecordOf(s[i], KnownAddress(s, i - 1), stray) =
                        RecordOf(frames[i], KnownAddress(frames, i - 1), stray)
    BY <1>2, <1>5, <2>1
  <2> QED BY <2>2 DEF Records
<1> QED BY <1>2, <1>4, <1>6 DEF s

\* A clean packet gives one record of each of its frames, or nothing.
LEMMA CleanDecoded ==
  ASSUME NEW p, IsPacket(p), Clean(p), NEW stray \in Byte
  PROVE  /\ Whole(p) => WellFormed(Carried(p))
         /\ Decode(Payload(p, stray), stray).data =
              IF Whole(p) THEN Records(Carried(p), Len(Carried(p)), stray) ELSE <<>>
<1> DEFINE frames == p.frames  N == Len(frames)  pay == Payload(p, stray)  t == p.to
<1>1. WellFormed(frames)
  BY FramesOfPacket
<1>2. PICK b : WireAfter(frames, b)
  BY <1>1, PrefixesExist
<1>3. Stream(frames) = b[N]
  BY <1>1, <1>2, StreamIs
<1>4. /\ pay \in Seq(Byte) /\ Len(pay) = t /\ t \in Nat /\ t <= Len(b[N])
      /\ \A i \in 1..t : pay[i] = b[N][i]
  BY <1>3, CleanPayload
<1>5. PICK K \in 0..N : Len(b[K]) <= t /\ (K < N => t < Len(b[K + 1]))
  BY <1>1, <1>2, <1>4, SomeFrameReached
<1> HIDE DEF pay
<1>6. Carries(pay, frames, b, K)
  BY <1>4, <1>5 DEF Carries
<1>7. (Whole(p) <=> Len(b[K]) = t) /\ (Whole(p) => Carried(p) = SubSeq(frames, 1, K))
  BY <1>2, <1>4, <1>6, WholeIs
<1>8. Decode(pay, stray).data = IF Len(b[K]) = t THEN Records(frames, K, stray) ELSE <<>>
  BY <1>1, <1>2, <1>4, <1>6, SegmentDecoded
<1> DEFINE s == SubSeq(frames, 1, K)
<1>9. WellFormed(s) /\ Len(s) = K /\ Records(s, K, stray) = Records(frames, K, stray)
  BY <1>1, <1>5, FirstFrames
<1> HIDE DEF s, t
<1>10. Whole(p) => WellFormed(Carried(p))
  BY <1>7, <1>9 DEF s
<1>11. Decode(pay, stray).data = IF Whole(p) THEN Records(Carried(p), Len(Carried(p)), stray) ELSE <<>>
  BY <1>7, <1>8, <1>9 DEF s
<1> QED BY <1>10, <1>11 DEF pay

\* A decoder that has nothing to do after its first call.
LEMMA OneCall ==
  ASSUME NEW segment \in Seq(Byte), Len(segment) > 0, NEW stray, NEW c,
         ProcessModbusPacket(Call(segment, <<>>, 0), stray) = c,
         ProcessModbusPacket(c, stray) = c
  PROVE  Decode(segment, stray) = ResultOf(c)
<1> DEFINE L == Len(segment)  start == Call(segment, <<>>, 0)
           E == [n \in 0..L |-> IF n = 0 THEN start ELSE c]
<1>1. L \in Nat /\ L # 0 /\ L \in 0..L
  OBVIOUS
<1> HIDE DEF start, L
<1>2. ASSUME NEW n \in 0..L
      PROVE  E[n] = IF n = 0 THEN start ELSE ProcessModbusPacket(E[n - 1], stray)
  <2>1. CASE n = 0
    BY <2>1
  <2>2. CASE n # 0
    <3>1. n - 1 \in 0..L /\ E[n] = c
      BY <1>1, <2>2
    <3>2. E[n - 1] = start \/ E[n - 1] = c
      BY <3>1
    <3> QED BY <2>2, <3>1, <3>2 DEF start
  <2> QED BY <2>1, <2>2
<1> DEFINE e == E
<1>3. e = [n \in 0..L |-> e[n]] /\ e[L] = c
  BY <1>1
<1>4. \A n \in 0..L : e[n] = IF n = 0 THEN start ELSE ProcessModbusPacket(e[n - 1], stray)
  BY <1>2
<1> HIDE DEF e
<1>5. Calls(segment, stray, e)
  BY <1>3, <1>4, Zenon DEF Calls, L, start
<1>6. Decode(segment, stray) = ResultOf(e[Len(segment)])
  BY <1>5, DecodeIs
<1> QED BY <1>3, <1>6, Zenon DEF L

EmptyRecord == [id |-> 0, length |-> -1, hex |-> <<>>, reply |-> NoReply]

\* Up to six zeros give no record but an empty one.
LEMMA ZerosDecoded ==
  ASSUME NEW n \in 1..6, NEW pay, pay = [i \in 1..n |-> 0], NEW stray \in Byte
  PROVE  LET data == Decode(pay, stray).data
         IN Len(data) <= 1 /\ \A d \in Range(data) : d = EmptyRecord
<1> DEFINE first == Call(pay, <<>>, 0)  data == Decode(pay, stray).data
<1>0. 0 \in Byte
  BY ByteType
<1>1. n \in Nat /\ n >= 1 /\ n <= 6
  OBVIOUS
<1>2. pay \in Seq(Byte) /\ Len(pay) = n /\ \A i \in 1..n : pay[i] = 0
  BY <1>0, <1>1
<1>3. AduLength(pay, stray) \in Nat
  <2>1. ByteAt(pay, 5, stray) \in Byte /\ ByteAt(pay, 6, stray) \in Byte
    BY <1>2, ByteRead
  <2> QED BY <2>1, WordType DEF AduLength
<1>4. CASE n < 6
  <2>1. Len(pay) < AduLength(pay, stray) + 6
    BY <1>1, <1>2, <1>3, <1>4
  <2>2. ProcessModbusPacket(first, stray) = first
    BY <2>1, CallStays
  <2>3. Decode(pay, stray) = ResultOf(first)
    BY <1>1, <1>2, <2>2, OneCall
  <2>4. pay # <<>>
    BY <1>1, <1>2
  <2>5. data = <<>>
    BY <2>3, <2>4 DEF ResultOf, Call, Nothing
  <2> HIDE DEF data
  <2>6. Len(data) = 0 /\ Range(data) = {}
    BY <2>5 DEF Range
  <2> QED BY <2>6 DEF data
<1>5. CASE n = 6
  <2>1. 5 \in 1..Len(pay) /\ 6 \in 1..Len(pay) /\ 1 \in 1..n /\ 2 \in 1..n
    BY <1>2, <1>5
  <2>2. AduLength(pay, stray) = Word(0, 0)
    <3>1. ByteAt(pay, 5, stray) = pay[5] /\ ByteAt(pay, 6, stray) = pay[6]
      BY <1>2, <2>1, ByteRead
    <3>2. pay[5] = 0 /\ pay[6] = 0
      BY <1>2, <2>1
    <3> QED BY <3>1, <3>2 DEF AduLength
  <2>3. Word(0, 0) = 0
    BY DEF Word
  <2>4. SubSeq(pay, 8, 6) = <<>> /\ SubSeq(pay, 7, 6) = <<>>
    BY SubSeqEmpty
  <2>5. AnalyzeModbusPacket(<<>>, 0, stray) = NoReply
    <3>1. Len(<<>>) < 5
      OBVIOUS
    <3> QED BY <3>1 DEF AnalyzeModbusPacket
  <2> DEFINE c == Call(<<>>, Append(<<>>, EmptyRecord), LastAddress(<<>>, 0))
  <2>6. ProcessModbusPacket(first, stray) = c
    <3>1. first.packet = pay /\ first.data = <<>> /\ first.lastAddress = 0
      BY DEF Call
    <3>2. AduLength(pay, stray) = 0 /\ pay # <<>> /\ ~ (Len(pay) < 0 + 6) /\ Len(pay) = 6
      BY <1>2, <1>5, <2>2, <2>3
    <3>3. SubSeq(pay, 8, 0 + 6) = <<>> /\ SubSeq(pay, 0 + 7, Len(pay)) = <<>> /\ 0 - 1 = -1
      BY <2>4, <3>2
    <3>4. Word(pay[1], pay[2]) = 0
      BY <1>2, <2>1, <2>3
    <3> HIDE DEF first
    <3> QED BY <2>5, <3>1, <3>2, <3>3, <3>4, Zenon DEF ProcessModbusPacket, EmptyRecord, Call
  <2>7. ProcessModbusPacket(c, stray) = c
    BY CallStays
  <2>8. Decode(pay, stray) = ResultOf(c)
    <3> HIDE DEF c
    <3> QED BY <1>1, <1>2, <2>6, <2>7, OneCall
  <2>9. data = Append(<<>>, EmptyRecord)
    BY <2>8 DEF ResultOf, Call
  <2> DEFINE x == EmptyRecord
  <2>10. data = Append(<<>>, x)
    BY <2>9
  <2> HIDE DEF data, x
  <2>11. Append(<<>>, x) = <<x>>
    OBVIOUS
  <2>12. Len(<<x>>) = 1 /\ Range(<<x>>) = {x}
    BY DEF Range
  <2>13. Len(data) <= 1 /\ \A d \in Range(data) : d = x
    BY <2>10, <2>11, <2>12
  <2> QED BY <2>13, Zenon DEF data, x
<1>6. n < 6 \/ n = 6
  BY <1>1
<1> QED BY <1>4, <1>5, <1>6, Zenon

\* A packet without data has at most its padding decoded.
LEMMA PaddingDecoded ==
  ASSUME NEW p, IsPacket(p), p.to < p.from, PayloadLen(p) > 0, NEW stray \in Byte
  PROVE  LET data == Decode(Payload(p, stray), stray).data
         IN Len(data) <= 1 /\ \A d \in Range(data) : d = EmptyRecord
<1> DEFINE s == Segment(p)  n == Padding(p)  h == Headers(p)  zeros == [k \in 1..n |-> 0]
           pay == Payload(p, stray)
<1>1. /\ h \in Nat /\ h >= 54 /\ s \in Seq(Byte) /\ n \in Nat
      /\ Len(s) = IF p.from <= p.to THEN p.to - p.from + 1 ELSE 0
      /\ n # 0 => h + Len(s) + n = MinLen
      /\ PacketLen(p) = h + Len(s) + n
      /\ PayloadLen(p) = Len(s) + n
      /\ p.from \in Nat \ {0} /\ p.to \in Nat
  BY PacketSizes, Zenon DEF Sizes
<1>2. MinLen \in Nat /\ MinLen <= 60 /\ SnapLen \in Nat /\ SnapLen >= 60
  BY DispatchAssumption
<1> HIDE DEF s, n, h, pay
<1>3. Len(s) = 0
  BY <1>1
<1>4. s = <<>>
  BY <1>1, <1>3
<1>5. PayloadLen(p) = n /\ n \in 1..6 /\ PacketLen(p) <= SnapLen
  BY <1>1, <1>2, <1>3
<1>6. pay = [i \in 1..PayloadLen(p) |-> (s \o zeros)[i]]
  BY <1>5, PayloadInFull DEF s, n, pay
<1>7. zeros \in Seq(Byte)
  <2>1. 0 \in Byte
    BY ByteType
  <2> QED BY <1>1, <2>1
<1>8. s \o zeros = zeros
  <2> HIDE DEF zeros
  <2> QED BY <1>4, <1>7, ConcatEmptySeq
<1>9. pay = [i \in 1..n |-> 0]
  <2>1. pay = [i \in 1..n |-> zeros[i]]
    <3> HIDE DEF zeros
    <3> QED BY <1>5, <1>6, <1>8
  <2> QED BY <2>1
<1>10. LET data == Decode(pay, stray).data
       IN Len(data) <= 1 /\ \A d \in Range(data) : d = EmptyRecord
  BY <1>5, <1>9, ZerosDecoded
<1> QED BY <1>10 DEF pay

-----------------------------------------------------------------------------
(* The invariant.                                                            *)

Packets == UNION {Range(c) : c \in Captures}
Report ==
  [packet : Nat,
   type : {"Modbus Response Packet", "Modbus Query Packet", ""},
   modbus : {Decode(Payload(p, stray), stray) : p \in Packets, stray \in Stray}]

\* Report r is about a Modbus packet of t, and says what decoding it gives.
ReportOf(r, t) ==
  /\ r.packet \in 1..Len(t)
  /\ IsModbus(t[r.packet])
  /\ \E stray \in Stray : r.modbus = Decode(Payload(t[r.packet], stray), stray)

DispatchType ==
  /\ coming \in Seq(Packets)
  /\ taken \in Seq(Packets)
  /\ idle \in 0..MaxIdle
  /\ reports \in Seq(Report)
ReportsRight == \A i \in 1..Len(reports) : ReportOf(reports[i], taken)
ReportsInOrder ==
  \A i, j \in 1..Len(reports) : i <= j => reports[i].packet <= reports[j].packet
AllReported ==
  \A n \in 1..Len(taken) :
    IsModbus(taken[n]) => \E i \in 1..Len(reports) : reports[i].packet = n
DispatchInv == DispatchType /\ ReportsRight /\ ReportsInOrder /\ AllReported

LEMMA PacketsAre ==
  /\ \A c \in Captures : c \in Seq(Packets)
  /\ \A p \in Packets : IsPacket(p)
<1>1. ASSUME NEW c \in Captures PROVE c \in Seq(Packets)
  <2>1. c \in Seq(Range(c))
    BY DispatchAssumption
  <2>2. Range(c) \subseteq Packets
    BY DEF Packets
  <2> QED BY <2>1, <2>2, SeqMonotonic
<1>2. \A p \in Packets : IsPacket(p)
  BY DispatchAssumption DEF Packets
<1> QED BY <1>1, <1>2

LEMMA DispatchInit ==
  ASSUME Init
  PROVE  DispatchInv
<1>1. /\ coming \in Seq(Packets) /\ taken = <<>> /\ idle = 0 /\ reports = <<>>
      /\ MaxIdle \in Nat
  BY PacketsAre, DispatchAssumption DEF Init
<1> HIDE DEF Packets, Report
<1>2. taken \in Seq(Packets) /\ reports \in Seq(Report) /\ Len(reports) = 0 /\ Len(taken) = 0
  BY <1>1
<1>3. idle \in 0..MaxIdle
  BY <1>1
<1>4. DispatchType
  BY <1>1, <1>2, <1>3 DEF DispatchType
<1> QED BY <1>2, <1>4 DEF DispatchInv, ReportsRight, ReportsInOrder, AllReported

\* The reports after packet n of those taken, the last one, is processed.
LEMMA Processed ==
  ASSUME DispatchInv, taken' \in Seq(Packets), NEW n \in 1..Len(taken'),
         \A m \in 1..Len(taken) : m \in 1..Len(taken') /\ m <= n /\ taken'[m] = taken[m],
         \A m \in 1..Len(taken') : m \in 1..Len(taken) \/ m = n,
         ProcessPacket(n)
  PROVE  reports' \in Seq(Report) /\ ReportsRight' /\ ReportsInOrder' /\ AllReported'
<1> DEFINE t == taken'  L == Len(reports)
<1>1. /\ reports \in Seq(Report) /\ L \in Nat
      /\ \A i \in 1..L : ReportOf(reports[i], taken)
      /\ \A i, j \in 1..L : i <= j => reports[i].packet <= reports[j].packet
      /\ \A m \in 1..Len(taken) : IsModbus(taken[m]) => \E i \in 1..L : reports[i].packet = m
  BY DEF DispatchInv, DispatchType, ReportsRight, ReportsInOrder, AllReported
<1>2. \A i \in 1..L : reports[i].packet \in 1..Len(taken)
  BY <1>1 DEF ReportOf
<1>3. \A i \in 1..L : ReportOf(reports[i], t)
  <2> SUFFICES ASSUME NEW i \in 1..L PROVE ReportOf(reports[i], t)
    OBVIOUS
  <2>1. ReportOf(reports[i], taken)
    BY <1>1
  <2>2. reports[i].packet \in 1..Len(t) /\ t[reports[i].packet] = taken[reports[i].packet]
    BY <1>2
  <2> QED BY <2>1, <2>2, Zenon DEF ReportOf
<1>4. CASE IsModbus(t[n])
  <2>1. PICK stray \in Stray :
          reports' = Append(reports, [packet |-> n, type |-> PacketType(t[n]),
                                      modbus |-> Decode(Payload(t[n], stray), stray)])
    BY <1>4 DEF ProcessPacket
  <2> DEFINE r == [packet |-> n, type |-> PacketType(t[n]),
                   modbus |-> Decode(Payload(t[n], stray), stray)]
  <2>2. r \in Report
    <3> DEFINE types == {"Modbus Response Packet", "Modbus Query Packet", ""}
               results == {Decode(Payload(p, s), s) : p \in Packets, s \in Stray}
               type == PacketType(t[n])
               modbus == Decode(Payload(t[n], stray), stray)
    <3>1. t[n] \in Packets
      BY ElementOfSeq
    <3>2. type \in types
      BY DEF PacketType
    <3>3. modbus \in results
      <4> HIDE DEF Packets, t
      <4> QED BY <3>1
    <3>4. n \in Nat
      OBVIOUS
    <3>5. r = [packet |-> n, type |-> type, modbus |-> modbus]
      OBVIOUS
    <3>6. Report = [packet : Nat, type : types, modbus : results]
      BY DEF Report
    <3> HIDE DEF r, types, results, type, modbus
    <3> QED BY <3>2, <3>3, <3>4, <3>5, <3>6
  <2>3. ReportOf(r, t) /\ r.packet = n
    BY <1>4 DEF ReportOf
  <2> HIDE DEF r
  <2>4. reports' = Append(reports, r)
    BY <2>1 DEF r
  <2>5. /\ reports' \in Seq(Report) /\ Len(reports') = L + 1
        /\ \A i \in 1..L : reports'[i] = reports[i]
        /\ reports'[L + 1] = r
    BY <1>1, <2>2, <2>4, AppendProperties
  <2>6. \A i \in 1..(L + 1) : i \in 1..L \/ i = L + 1
    BY <1>1
  <2>7. ReportsRight'
    <3>1. \A i \in 1..Len(reports') : ReportOf(reports'[i], t)
      BY <1>3, <2>3, <2>5, <2>6, Zenon
    <3> QED BY <3>1 DEF ReportsRight
  <2>8. ReportsInOrder'
    <3> SUFFICES ASSUME NEW i \in 1..(L + 1), NEW j \in 1..(L + 1), i <= j
                 PROVE  reports'[i].packet <= reports'[j].packet
      BY <2>5 DEF ReportsInOrder
    <3>1. CASE j \in 1..L
      <4>1. i \in 1..L
        BY <1>1, <3>1
      <4> QED BY <1>1, <2>5, <3>1, <4>1
    <3>2. CASE j = L + 1 /\ i \in 1..L
      <4>1. reports'[j].packet = n /\ reports'[i].packet = reports[i].packet
        BY <2>3, <2>5, <3>2, Zenon
      <4>2. reports[i].packet <= n
        BY <1>2, <3>2
      <4> QED BY <4>1, <4>2, Zenon
    <3>3. CASE j = L + 1 /\ i = L + 1
      <4>1. reports'[j].packet = n /\ reports'[i].packet = n
        BY <2>3, <2>5, <3>3, Zenon
      <4> QED BY <4>1
    <3> QED BY <2>6, <3>1, <3>2, <3>3
  <2>9. AllReported'
    <3> SUFFICES ASSUME NEW m \in 1..Len(t), IsModbus(t[m])
                 PROVE  \E i \in 1..Len(reports') : reports'[i].packet = m
      BY DEF AllReported
    <3>1. L + 1 \in 1..(L + 1) /\ \A i \in 1..L : i \in 1..(L + 1)
      BY <1>1
    <3>2. CASE m = n
      <4>1. reports'[L + 1].packet = m
        BY <2>3, <2>5, <3>2
      <4> QED BY <2>5, <3>1, <4>1
    <3>3. CASE m \in 1..Len(taken)
      <4>1. IsModbus(taken[m])
        BY <3>3
      <4>2. PICK i \in 1..L : reports[i].packet = m
        BY <1>1, <3>3, <4>1
      <4> QED BY <2>5, <3>1, <4>2
    <3> QED BY <3>2, <3>3
  <2> QED BY <2>5, <2>7, <2>8, <2>9
<1>5. CASE ~ IsModbus(t[n])
  <2>1. reports' = reports
    BY <1>5 DEF ProcessPacket
  <2>2. ReportsRight'
    BY <1>3, <2>1 DEF ReportsRight
  <2>3. ReportsInOrder'
    BY <1>1, <2>1 DEF ReportsInOrder
  <2>4. AllReported'
    <3> SUFFICES ASSUME NEW m \in 1..Len(t), IsModbus(t[m])
                 PROVE  \E i \in 1..L : reports[i].packet = m
      BY <2>1 DEF AllReported
    <3>1. m \in 1..Len(taken)
      BY <1>5
    <3>2. IsModbus(taken[m])
      BY <3>1
    <3> QED BY <1>1, <3>1, <3>2
  <2> QED BY <1>1, <2>1, <2>2, <2>3, <2>4
<1> QED BY <1>4, <1>5

LEMMA DispatchStep ==
  ASSUME DispatchInv, [Next]_vars
  PROVE  DispatchInv'
<1>1. /\ coming \in Seq(Packets) /\ taken \in Seq(Packets) /\ idle \in 0..MaxIdle
      /\ reports \in Seq(Report) /\ MaxIdle \in Nat /\ Len(taken) \in Nat
  BY DispatchAssumption DEF DispatchInv, DispatchType
<1>2. CASE MonitorPcap
  <2> DEFINE x == Head(coming)
  <2>1. /\ coming # <<>> /\ taken' = Append(taken, x) /\ coming' = Tail(coming)
        /\ ProcessPacket(Len(taken')) /\ idle' = idle
    BY <1>2 DEF MonitorPcap
  <2>2. x \in Packets /\ coming' \in Seq(Packets)
    BY <1>1, <2>1, HeadTailProperties
  <2> HIDE DEF x
  <2>3. /\ taken' \in Seq(Packets) /\ Len(taken') = Len(taken) + 1
        /\ \A m \in 1..Len(taken) : taken'[m] = taken[m]
    BY <1>1, <2>1, <2>2, AppendProperties
  <2> DEFINE n == Len(taken')
  <2>4. /\ n \in 1..Len(taken')
        /\ \A m \in 1..Len(taken) : m \in 1..Len(taken') /\ m <= n
        /\ \A m \in 1..Len(taken') : m \in 1..Len(taken) \/ m = n
    BY <1>1, <2>3
  <2>5. reports' \in Seq(Report) /\ ReportsRight' /\ ReportsInOrder' /\ AllReported'
    <3>1. ProcessPacket(n)
      BY <2>1
    <3> HIDE DEF n
    <3> QED BY <2>3, <2>4, <3>1, Processed
  <2> QED BY <1>1, <2>1, <2>2, <2>3, <2>5 DEF DispatchInv, DispatchType
<1>3. CASE UNCHANGED <<coming, taken, reports>> /\ idle' \in 0..MaxIdle
  BY <1>3 DEF DispatchInv, DispatchType, ReportsRight, ReportsInOrder, AllReported
<1>4. CASE MonitorPcapIdle
  <2>1. /\ idle < MaxIdle /\ idle' = idle + 1 /\ coming' = coming /\ taken' = taken
        /\ reports' = reports \/ (taken # <<>> /\ ProcessPacket(Len(taken)))
    BY <1>4 DEF MonitorPcapIdle
  <2>2. idle' \in 0..MaxIdle
    BY <1>1, <2>1
  <2>3. CASE reports' = reports
    BY <1>3, <2>1, <2>2, <2>3
  <2>4. CASE taken # <<>> /\ ProcessPacket(Len(taken))
    <3> DEFINE n == Len(taken)
    <3>1. /\ n \in 1..Len(taken')
          /\ \A m \in 1..Len(taken) : m \in 1..Len(taken') /\ m <= n /\ taken'[m] = taken[m]
          /\ \A m \in 1..Len(taken') : m \in 1..Len(taken) \/ m = n
      BY <1>1, <2>1, <2>4
    <3>2. reports' \in Seq(Report) /\ ReportsRight' /\ ReportsInOrder' /\ AllReported'
      <4>1. ProcessPacket(n) /\ taken' \in Seq(Packets)
        BY <1>1, <2>1, <2>4
      <4> HIDE DEF n
      <4> QED BY <3>1, <4>1, Processed
    <3> QED BY <1>1, <2>1, <2>2, <3>2 DEF DispatchInv, DispatchType
  <2> QED BY <2>1, <2>3, <2>4
<1>5. CASE UNCHANGED vars
  BY <1>1, <1>3, <1>5 DEF vars
<1> QED BY <1>2, <1>4, <1>5 DEF Next, Stopped

\* Inductive: every report is about a Modbus packet that was taken, and says what
\* decoding it gives; the reports are in the order of the packets, and no Modbus packet
\* is without one.  What an idle pass repeats is the last packet (sniffer.cpp:122-152).
THEOREM DispatchInvariance == Spec => []DispatchInv
<1>1. Init => DispatchInv
  BY DispatchInit
<1>2. DispatchInv /\ [Next]_vars => DispatchInv'
  BY DispatchStep
<1> QED BY <1>1, <1>2, PTL DEF Spec

-----------------------------------------------------------------------------
(* The reports follow the capture.                                           *)

LEMMA ModbusPackets ==
  ASSUME NEW p, IsPacket(p)
  PROVE  IsModbus(p) <=> /\ p.type = "ip"
                         /\ 502 \in {p.srcPort, p.dstPort}
                         /\ Len(Segment(p)) + Padding(p) > 0
<1> DEFINE s == Len(Segment(p))  d == Padding(p)  h == Headers(p)
<1>1. /\ h \in Nat /\ h >= 54 /\ s \in Nat /\ d \in Nat
      /\ PacketLen(p) = h + s + d /\ PayloadLen(p) = s + d
      /\ CapLen(p) = IF PacketLen(p) <= SnapLen THEN PacketLen(p) ELSE SnapLen
  BY PacketSizes, Zenon DEF Sizes
<1>2. SnapLen \in Nat /\ SnapLen >= 60
  BY DispatchAssumption
<1>3. p.sizeIp >= 20 /\ p.sizeTcp >= 20
  BY Zenon DEF IsPacket
<1> HIDE DEF s, d, h
<1>4. CapLen(p) >= 14
  BY <1>1, <1>2
<1> QED BY <1>1, <1>3, <1>4, Zenon DEF IsModbus, PORT_MBTCP, EtherHeader, s, d

LEMMA InvFollows ==
  ASSUME DispatchInv
  PROVE  ReportsFollowCapture
<1>1. /\ taken \in Seq(Packets) /\ reports \in Seq(Report)
      /\ DOMAIN taken = 1..Len(taken) /\ DOMAIN reports = 1..Len(reports)
  BY DEF DispatchInv, DispatchType
<1>2. \A i \in DOMAIN reports : ReportOf(reports[i], taken)
  BY <1>1 DEF DispatchInv, ReportsRight
<1>3. \A i, j \in DOMAIN reports : i <= j => reports[i].packet <= reports[j].packet
  BY <1>1 DEF DispatchInv, ReportsInOrder
<1>4. \A n \in DOMAIN taken :
        IsModbus(taken[n]) => \E i \in DOMAIN reports : reports[i].packet = n
  BY <1>1 DEF DispatchInv, AllReported
<1> DEFINE Due(n) == /\ taken[n].type = "ip"
                     /\ 502 \in {taken[n].srcPort, taken[n].dstPort}
                     /\ Len(Segment(taken[n])) + Padding(taken[n]) > 0
<1>5. \A n \in DOMAIN taken : IsModbus(taken[n]) <=> Due(n)
  <2> SUFFICES ASSUME NEW n \in DOMAIN taken PROVE IsModbus(taken[n]) <=> Due(n)
    OBVIOUS
  <2>1. taken[n] \in Packets
    BY <1>1, ElementOfSeq
  <2>2. IsPacket(taken[n])
    BY <2>1, PacketsAre
  <2> QED BY <2>2, ModbusPackets
<1> HIDE DEF Due
<1>6. \A i \in DOMAIN reports : reports[i].packet \in DOMAIN taken /\ IsModbus(taken[reports[i].packet])
  BY <1>1, <1>2 DEF ReportOf
<1>7. {r.packet : r \in Range(reports)} = {n \in DOMAIN taken : Due(n)}
  BY <1>4, <1>5, <1>6 DEF Range
<1> QED BY <1>3, <1>7, Zenon DEF ReportsFollowCapture, Due

\* Whatever the passes without a packet repeat, the reports are those of the Modbus
\* packets in the order of their capture: none is missing, none comes late
\* (sniffer.cpp:122-152).
THEOREM DispatchFollowsCapture == Spec => []ReportsFollowCapture
<1>1. DispatchInv => ReportsFollowCapture
  BY InvFollows
<1> QED BY <1>1, DispatchInvariance, PTL

-----------------------------------------------------------------------------
(* What is reported is what was sent.                                        *)

LEMMA ReportKnown ==
  ASSUME DispatchInv, NEW r \in Range(reports)
  PROVE  /\ IsPacket(taken[r.packet]) /\ PayloadLen(taken[r.packet]) > 0
         /\ \E stray \in Byte : r.modbus = Decode(Payload(taken[r.packet], stray), stray)
<1>1. /\ taken \in Seq(Packets) /\ reports \in Seq(Report)
      /\ DOMAIN reports = 1..Len(reports)
  BY DEF DispatchInv, DispatchType
<1>2. ReportOf(r, taken)
  BY <1>1 DEF DispatchInv, ReportsRight, Range
<1>3. r.packet \in 1..Len(taken)
  BY <1>2 DEF ReportOf
<1>4. taken[r.packet] \in Packets
  BY <1>1, <1>3, ElementOfSeq
<1>5. IsPacket(taken[r.packet])
  BY <1>4, PacketsAre
<1>6. Stray \subseteq Byte
  BY DispatchAssumption
<1> QED BY <1>2, <1>5, <1>6, Zenon DEF ReportOf, IsModbus

\* The records of the frames of a whole packet.
LEMMA RecordsOfFrames ==
  ASSUME NEW c, WellFormed(c), NEW stray \in Byte, NEW i \in 1..Len(c)
  PROVE  LET record == Records(c, Len(c), stray)[i]
         IN /\ record.id = c[i].id /\ record.hex = c[i].pdu
            /\ ReplyFits(c[i], KnownAddress(c, i - 1), record.reply)
<1>1. Records(c, Len(c), stray)[i] = RecordOf(c[i], KnownAddress(c, i - 1), stray)
  BY DEF Records
<1>2. IsFrame(c[i])
  BY FrameAt
<1>3. i - 1 \in 0..Len(c)
  BY DEF WellFormed
<1>4. KnownAddress(c, i - 1) \in Nat
  BY <1>3, AddressType
<1>5. ReplyFits(c[i], KnownAddress(c, i - 1), AnalyzeModbusPacket(c[i].pdu, KnownAddress(c, i - 1), stray))
  BY <1>2, <1>4, FrameAnalyzed
<1> QED BY <1>1, <1>5 DEF RecordOf

LEMMA WholeReport ==
  ASSUME DispatchInv, NEW r \in WholeReports
  PROVE  LET c == Carried(taken[r.packet])
         IN /\ WellFormed(c) /\ DOMAIN r.modbus.data = 1..Len(c)
            /\ \A i \in 1..Len(c) :
                 ReplyFits(c[i], KnownAddress(c, i - 1), r.modbus.data[i].reply)
<1> DEFINE p == taken[r.packet]  c == Carried(p)
<1>1. r \in Range(reports) /\ Whole(p)
  BY DEF WholeReports
<1>2. PICK stray \in Byte : r.modbus = Decode(Payload(p, stray), stray)
  BY <1>1, ReportKnown
<1>3. IsPacket(p) /\ Clean(p)
  BY <1>1, ReportKnown DEF Whole
<1>4. WellFormed(c) /\ r.modbus.data = Records(c, Len(c), stray)
  <2> HIDE DEF p
  <2> QED BY <1>1, <1>2, <1>3, CleanDecoded
<1> HIDE DEF c
<1>5. DOMAIN r.modbus.data = 1..Len(c)
  BY <1>4 DEF Records
<1>6. \A i \in 1..Len(c) : ReplyFits(c[i], KnownAddress(c, i - 1), r.modbus.data[i].reply)
  BY <1>4, RecordsOfFrames
<1> QED BY <1>4, <1>5, <1>6 DEF c

LEMMA InvWholeFrames ==
  ASSUME DispatchInv
  PROVE  WholeFramesOrNothing
<1> SUFFICES ASSUME NEW r \in Range(reports), Clean(taken[r.packet])
             PROVE  [i \in DOMAIN r.modbus.data |-> <<r.modbus.data[i].id, r.modbus.data[i].hex>>] =
                      IF Whole(taken[r.packet])
                      THEN [i \in DOMAIN Carried(taken[r.packet]) |->
                              <<Carried(taken[r.packet])[i].id, Carried(taken[r.packet])[i].pdu>>]
                      ELSE <<>>
  BY Zenon DEF WholeFramesOrNothing
<1> DEFINE p == taken[r.packet]  c == Carried(p)  data == r.modbus.data
<1>1. PICK stray \in Byte : r.modbus = Decode(Payload(p, stray), stray)
  BY ReportKnown
<1>2. IsPacket(p) /\ Clean(p)
  BY ReportKnown
<1>3. /\ Whole(p) => WellFormed(c)
      /\ data = IF Whole(p) THEN Records(c, Len(c), stray) ELSE <<>>
  <2> HIDE DEF p
  <2> QED BY <1>1, <1>2, CleanDecoded
<1> HIDE DEF p, c, data
<1>4. CASE Whole(p)
  <2>1. WellFormed(c) /\ data = Records(c, Len(c), stray)
    BY <1>3, <1>4
  <2>2. DOMAIN data = 1..Len(c) /\ DOMAIN c = 1..Len(c)
    BY <2>1 DEF Records, WellFormed
  <2>3. \A i \in 1..Len(c) : data[i].id = c[i].id /\ data[i].hex = c[i].pdu
    BY <2>1, RecordsOfFrames
  <2>4. [i \in DOMAIN data |-> <<data[i].id, data[i].hex>>] = [i \in DOMAIN c |-> <<c[i].id, c[i].pdu>>]
    BY <2>2, <2>3
  <2> QED BY <1>4, <2>4, Zenon DEF data, c, p
<1>5. CASE ~ Whole(p)
  <2>1. data = <<>>
    BY <1>3, <1>5
  <2>2. [i \in DOMAIN data |-> <<data[i].id, data[i].hex>>] = <<>>
    BY <2>1
  <2> QED BY <1>5, <2>2, Zenon DEF data, c, p
<1> QED BY <1>4, <1>5

LEMMA InvRegisters ==
  ASSUME DispatchInv
  PROVE  RegistersAsSent
<1> SUFFICES ASSUME NEW r \in WholeReports, NEW i \in DOMAIN r.modbus.data
             PROVE  LET f == Carried(taken[r.packet])[i]
                        reply == r.modbus.data[i].reply
                    IN /\ reply.kind # "undefined"
                       /\ reply.kind = "registers" =>
                            [k \in DOMAIN reply.items |-> reply.items[k][2]] = f.values
                       /\ f.kind = "write" /\ Len(f.values) >= 2 => reply.kind = "registers"
                       /\ f.kind = "answer" /\ Len(f.values) >= 4 => reply.kind = "registers"
  BY Zenon DEF RegistersAsSent
<1> DEFINE c == Carried(taken[r.packet])
<1>1. /\ DOMAIN r.modbus.data = 1..Len(c)
      /\ \A k \in 1..Len(c) : ReplyFits(c[k], KnownAddress(c, k - 1), r.modbus.data[k].reply)
  BY WholeReport
<1>2. ReplyFits(c[i], KnownAddress(c, i - 1), r.modbus.data[i].reply)
  BY <1>1
<1> QED BY <1>2, Zenon DEF ReplyFits

LEMMA InvLabels ==
  ASSUME DispatchInv
  PROVE  LabelsOfSegment
<1> SUFFICES ASSUME NEW r \in WholeReports, NEW i \in DOMAIN r.modbus.data
             PROVE  LET frames == Carried(taken[r.packet])
                        mistaken == {k \in 1..(i - 1) :
                                       frames[k].kind = "answer" /\ Len(frames[k].values) = 3}
                        reply == r.modbus.data[i].reply
                    IN reply.kind = "registers" /\ reply.items # <<>> =>
                         reply.items[1][1] =
                           CASE frames[i].kind = "write" -> frames[i].address
                             [] frames[i].kind = "answer" /\ mistaken = {} -> 0
                             [] OTHER -> LET pdu == frames[Max(mistaken)].pdu
                                         IN pdu[2] * 256 + pdu[3]
  BY Zenon DEF LabelsOfSegment
<1> DEFINE c == Carried(taken[r.packet])  reply == r.modbus.data[i].reply
           M == Mistaken(c, i - 1)  pdu == c[Max(M)].pdu
           label == CASE c[i].kind = "write" -> c[i].address
                      [] c[i].kind = "answer" /\ M = {} -> 0
                      [] OTHER -> pdu[2] * 256 + pdu[3]
<1>1. /\ DOMAIN r.modbus.data = 1..Len(c)
      /\ \A k \in 1..Len(c) : ReplyFits(c[k], KnownAddress(c, k - 1), r.modbus.data[k].reply)
  BY WholeReport
<1>2. ReplyFits(c[i], KnownAddress(c, i - 1), reply)
  BY <1>1
<1> HIDE DEF c, reply
<1>3. ASSUME reply.kind = "registers", reply.items # <<>>
      PROVE  reply.items[1][1] = label
  <2>1. /\ c[i].kind \in {"write", "answer"}
        /\ reply.items[1][1] = IF c[i].kind = "write" THEN c[i].address ELSE KnownAddress(c, i - 1)
    BY <1>2, <1>3, Zenon DEF ReplyFits
  <2>2. KnownAddress(c, i - 1) = IF M = {} THEN 0 ELSE pdu[2] * 256 + pdu[3]
    BY DEF KnownAddress, Word
  <2> HIDE DEF M, pdu
  <2>3. CASE c[i].kind = "write"
    BY <2>1, <2>3
  <2>4. CASE c[i].kind = "answer"
    <3>1. c[i].kind # "write"
      BY <2>4
    <3> QED BY <2>1, <2>2, <2>4, <3>1
  <2> QED BY <2>1, <2>3, <2>4
<1>4. M = {k \in 1..(i - 1) : c[k].kind = "answer" /\ Len(c[k].values) = 3}
  BY DEF Mistaken
<1> QED BY <1>3, <1>4, Zenon DEF c, reply, Mistaken

LEMMA InvPadding ==
  ASSUME DispatchInv
  PROVE  PaddingIsEmpty
<1> SUFFICES ASSUME NEW r \in Range(reports), taken[r.packet].to < taken[r.packet].from
             PROVE  /\ Len(r.modbus.data) <= 1
                    /\ \A d \in Range(r.modbus.data) : d = EmptyRecord
  BY Zenon DEF PaddingIsEmpty, EmptyRecord
<1> DEFINE p == taken[r.packet]
<1>1. PICK stray \in Byte : r.modbus = Decode(Payload(p, stray), stray)
  BY ReportKnown
<1>2. IsPacket(p) /\ PayloadLen(p) > 0 /\ p.to < p.from
  BY ReportKnown
<1> HIDE DEF p
<1> QED BY <1>1, <1>2, PaddingDecoded

\* Of a segment that begins with a frame and was captured in full, the frames come out
\* one by one with the values that were sent and the labels that the protocol knows,
\* if it ends with one, and else nothing; padding gives no register
\* (sniffer.cpp:189-218, modbus.cpp:11-163).
THEOREM DispatchDecodesAsSent == Spec => []DecodedAsSent
<1>1. DispatchInv => DecodedAsSent
  BY InvWholeFrames, InvRegisters, InvLabels, InvPadding DEF DecodedAsSent
<1> QED BY <1>1, DispatchInvariance, PTL
=============================================================================
