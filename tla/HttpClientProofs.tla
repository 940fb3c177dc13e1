-------------------------- MODULE HttpClientProofs --------------------------
(***************************************************************************)
(* Theorems about HttpClient, for every URL, form and response that          *)
(* HttpAssumption admits and every size of the buffer, of an int and of the    *)
(* memory.  The invariant is about the responses that the code understands: it *)
(* says where in the response the parser is; what it has not parsed yet and     *)
(* what has not arrived yet are the response from that place on.               *)
(***************************************************************************)
EXTENDS HttpClient, SequenceTheorems, NaturalsInduction, WellFoundedInduction, TLAPS

-----------------------------------------------------------------------------
(* Sequences.  The library's induction theorems take an operator as a          *)
(* parameter; NaturalsReached is induction over a set.                         *)

\* The naturals are the only set of naturals with 0 and the successor of each member.
LEMMA NaturalsReached ==
  ASSUME NEW T, T \subseteq Nat, 0 \in T, \A n \in T : n + 1 \in T
  PROVE  T = Nat
<1> SUFFICES ASSUME Nat \ T # {} PROVE FALSE
  OBVIOUS
<1>1. PICK x \in Nat \ T : \A y \in Nat \ T : ~ (<<y, x>> \in OpToRel(<, Nat))
  BY NatLessThanWellFounded, WFMin
<1>2. x \in Nat /\ x # 0 /\ x \notin T
  OBVIOUS
<1>3. x - 1 \in Nat /\ (x - 1) + 1 = x /\ x - 1 < x
  BY <1>2
<1>4. x - 1 \notin T
  BY <1>2, <1>3
<1> QED
  BY <1>1, <1>2, <1>3, <1>4 DEF OpToRel

\* A set of naturals has a smallest member.
LEMMA SmallestOf ==
  ASSUME NEW T, T \subseteq Nat, T # {}
  PROVE  \E x \in T : \A y \in T : x <= y
<1>1. PICK x \in T : \A y \in T : ~ (<<y, x>> \in OpToRel(<, Nat))
  BY NatLessThanWellFounded, WFMin
<1>2. ASSUME NEW y \in T PROVE x <= y
  <2>1. x \in Nat /\ y \in Nat /\ ~ (<<y, x>> \in OpToRel(<, Nat))
    BY <1>1
  <2> QED
    BY <2>1 DEF OpToRel
<1> QED
  BY <1>2

\* What is true of a concatenation.
LEMMA ConcatAt ==
  ASSUME NEW X, NEW a \in Seq(X), NEW b \in Seq(X)
  PROVE  /\ a \o b \in Seq(X)
         /\ Len(a) \in Nat /\ Len(b) \in Nat /\ Len(a \o b) = Len(a) + Len(b)
         /\ \A j \in 1..Len(a) : (a \o b)[j] = a[j]
         /\ \A j \in 1..Len(b) : (a \o b)[Len(a) + j] = b[j]
  OBVIOUS

\* What FlattenSeq() has put together after each sequence.
Partial(s, f, n) ==
  f = [i \in 1..n |-> IF i = 1 THEN s[i] ELSE f[i - 1] \o s[i]]

\* Put together one after another, the sequences have partial results.
LEMMA PartialExists ==
  ASSUME NEW X, NEW s \in Seq(Seq(X))
  PROVE  \E f \in Seq(Seq(X)) : Partial(s, f, Len(s)) /\ Len(f) = Len(s)
<1> DEFINE Has(n) == \E f \in Seq(Seq(X)) : Partial(s, f, n) /\ Len(f) = n
           Good == {n \in Nat : n <= Len(s) => Has(n)}
<1>1. 0 \in Good
  <2>1. <<>> \in Seq(Seq(X)) /\ Len(<<>>) = 0
    OBVIOUS
  <2>2. Partial(s, <<>>, 0)
    BY DEF Partial
  <2> QED
    BY <2>1, <2>2
<1>2. ASSUME NEW n \in Good PROVE n + 1 \in Good
  <2> SUFFICES ASSUME n + 1 <= Len(s) PROVE Has(n + 1)
    OBVIOUS
  <2>1. n \in Nat /\ n < Len(s) /\ Has(n)
    OBVIOUS
  <2>2. PICK f \in Seq(Seq(X)) : Partial(s, f, n) /\ Len(f) = n
    BY <2>1
  <2> DEFINE last == IF n = 0 THEN s[n + 1] ELSE f[n] \o s[n + 1]
             g == Append(f, last)
  <2>3. s[n + 1] \in Seq(X)
    BY <2>1
  <2>4. last \in Seq(X)
    BY <2>1, <2>2, <2>3
  <2> HIDE DEF last
  <2>5. /\ g \in Seq(Seq(X)) /\ Len(g) = n + 1 /\ g[n + 1] = last
        /\ \A i \in 1..n : g[i] = f[i]
    <3>1. f \in Seq(Seq(X)) /\ last \in Seq(X) /\ Len(f) = n
      BY <2>2, <2>4
    <3> QED
      BY <3>1, AppendProperties
  <2> USE DEF last
  <2>6. \A i \in 1..n : f[i] = IF i = 1 THEN s[i] ELSE f[i - 1] \o s[i]
    BY <2>2 DEF Partial
  <2> HIDE DEF g
  <2>7. \A i \in 1..(n + 1) : g[i] = IF i = 1 THEN s[i] ELSE g[i - 1] \o s[i]
    <3> SUFFICES ASSUME NEW i \in 1..(n + 1)
                 PROVE  g[i] = IF i = 1 THEN s[i] ELSE g[i - 1] \o s[i]
      OBVIOUS
    <3>1. CASE i = n + 1
      <4>1. i # 1 => i - 1 \in 1..n /\ i - 1 = n
        BY <2>1, <3>1
      <4> QED
        BY <2>1, <2>5, <3>1, <4>1
    <3>2. CASE i # n + 1
      <4>1. i \in 1..n /\ (i # 1 => i - 1 \in 1..n)
        BY <2>1, <3>2
      <4> QED
        BY <2>5, <2>6, <4>1
    <3> QED
      BY <3>1, <3>2
  <2>8. g = [i \in 1..(n + 1) |-> IF i = 1 THEN s[i] ELSE g[i - 1] \o s[i]]
    <3>1. g = [i \in 1..(n + 1) |-> g[i]]
      BY <2>5
    <3> QED
      BY <2>7, <3>1
  <2> QED
    BY <2>5, <2>8 DEF Partial
<1> HIDE DEF Has
<1>3. Good = Nat
  BY <1>1, <1>2, NaturalsReached
<1> QED
  BY <1>3 DEF Has

\* A part keeps its place while others are put behind it.
LEMMA PartKept ==
  ASSUME NEW X, NEW a \in Seq(X), NEW b \in Seq(X), NEW p \in Seq(X), NEW at \in Nat,
         at + Len(p) <= Len(a), \A j \in 1..Len(p) : a[at + j] = p[j]
  PROVE  at + Len(p) <= Len(a \o b) /\ \A j \in 1..Len(p) : (a \o b)[at + j] = p[j]
<1>1. Len(a) \in Nat /\ Len(b) \in Nat /\ Len(p) \in Nat /\ Len(a \o b) = Len(a) + Len(b)
  BY ConcatAt
<1>2. ASSUME NEW j \in 1..Len(p) PROVE (a \o b)[at + j] = p[j]
  <2>1. at + j \in 1..Len(a)
    BY <1>1
  <2> QED
    BY <2>1, ConcatAt
<1> QED
  BY <1>1, <1>2

\* o has the places in the flat sequence before which each part begins.
PartsAt(s, o, flat) ==
  /\ o[1] = 0
  /\ o[Len(s) + 1] = Len(flat)
  /\ \A i \in 1..Len(s) : o[i + 1] = o[i] + Len(s[i]) /\ o[i + 1] <= Len(flat)
  /\ \A i \in 1..Len(s) : \A j \in 1..Len(s[i]) : flat[o[i] + j] = s[i][j]

\* Each member of f is the one before it with the next part behind it, which
\* begins after the place that o has.
Chain(X, s, f, o, n) ==
  /\ o[1] = 0
  /\ \A i \in 1..n : /\ s[i] \in Seq(X)
                     /\ f[i] \in Seq(X)
                     /\ f[i] = IF i = 1 THEN s[i] ELSE f[i - 1] \o s[i]
                     /\ o[i + 1] = Len(f[i])
                     /\ o[i + 1] = o[i] + Len(s[i])

\* At the end each part is where it was put.
LEMMA PartsKept ==
  ASSUME NEW X, NEW n \in Nat, n # 0, NEW s, n = Len(s), NEW f,
         NEW o \in [1..(n + 1) -> Nat], Chain(X, s, f, o, n)
  PROVE  PartsAt(s, o, f[n])
<1>0. \A i \in 1..n : s[i] \in Seq(X) /\ f[i] \in Seq(X)
  BY DEF Chain
<1> DEFINE Kept(i, k) == /\ o[k] + Len(s[k]) <= Len(f[i])
                         /\ \A j \in 1..Len(s[k]) : f[i][o[k] + j] = s[k][j]
           Good == {i \in Nat : i \in 1..n => \A k \in 1..i : Kept(i, k)}
<1>1. 0 \in Good
  OBVIOUS
<1>2. ASSUME NEW i \in Good PROVE i + 1 \in Good
  <2> SUFFICES ASSUME i + 1 \in 1..n, NEW k \in 1..(i + 1) PROVE Kept(i + 1, k)
    OBVIOUS
  <2>0. i \in Nat /\ (i \in 1..n => \A m \in 1..i : Kept(i, m))
    OBVIOUS
  <2> HIDE DEF Kept, Good
  <2>1. k \in 1..n /\ k \in 1..(n + 1) /\ k + 1 \in 1..(n + 1)
    BY <2>0
  <2>2. s[i + 1] \in Seq(X) /\ s[k] \in Seq(X) /\ o[k] \in Nat
    BY <1>0, <2>1
  <2>3. CASE i = 0
    <3>1. k = 1 /\ f[1] = s[1] /\ i + 1 = 1 /\ o[1] = 0
      BY <2>0, <2>3 DEF Chain
    <3>2. Len(s[1]) \in Nat
      BY <2>2, <3>1
    <3> QED
      BY <3>1, <3>2 DEF Kept
  <2>4. CASE i # 0
    <3>1. i \in 1..n /\ (i + 1) - 1 = i /\ i + 1 # 1
      BY <2>0, <2>4
    <3> DEFINE a == f[i]
               b == s[i + 1]
               p == s[k]
               at == o[k]
    <3>2. f[i + 1] = a \o b /\ o[i + 1] = Len(a)
      BY <3>1 DEF Chain
    <3>3. a \in Seq(X) /\ b \in Seq(X) /\ p \in Seq(X) /\ at \in Nat
      BY <1>0, <2>2, <3>1
    <3>4. Kept(i + 1, k) <=> /\ at + Len(p) <= Len(a \o b)
                             /\ \A j \in 1..Len(p) : (a \o b)[at + j] = p[j]
      BY <3>2 DEF Kept
    <3>5. k # i + 1 => /\ at + Len(p) <= Len(a)
                       /\ \A j \in 1..Len(p) : a[at + j] = p[j]
      <4>1. k # i + 1 => k \in 1..i
        BY <2>0
      <4> QED
        BY <2>0, <3>1, <4>1 DEF Kept
    <3>6. k = i + 1 => at = Len(a) /\ p = b
      BY <3>2
    <3> HIDE DEF a, b, p, at
    <3>7. CASE k = i + 1
      BY <3>3, <3>4, <3>6, <3>7, ConcatAt
    <3>8. CASE k # i + 1
      BY <3>3, <3>4, <3>5, <3>8, PartKept
    <3> QED
      BY <3>7, <3>8
  <2> QED
    BY <2>3, <2>4
<1> HIDE DEF Good
<1>3. Good \subseteq Nat
  BY DEF Good
<1>4. Good = Nat
  BY <1>1, <1>2, <1>3, NaturalsReached
<1>5. ASSUME NEW k \in 1..n PROVE Kept(n, k) /\ o[k + 1] = o[k] + Len(s[k])
  <2>1. n \in Good /\ n \in 1..n
    BY <1>4
  <2>2. Kept(n, k)
    <3> HIDE DEF Kept
    <3> QED
      BY <2>1 DEF Good
  <2>3. o[k + 1] = o[k] + Len(s[k])
    BY DEF Chain
  <2> QED
    BY <2>2, <2>3
<1>6. o[1] = 0 /\ o[n + 1] = Len(f[n])
  BY DEF Chain
<1> QED
  BY <1>5, <1>6 DEF PartsAt

\* What FlattenSeq() returns has every part at the sum of the lengths before it.
LEMMA FlattenParts ==
  ASSUME NEW X, NEW s \in Seq(Seq(X))
  PROVE  /\ FlattenSeq(s) \in Seq(X)
         /\ \E o \in [1..(Len(s) + 1) -> Nat] : PartsAt(s, o, FlattenSeq(s))
<1>1. CASE Len(s) = 0
  <2>1. s = <<>> /\ FlattenSeq(s) = <<>>
    BY <1>1 DEF FlattenSeq
  <2>2. [i \in 1..(Len(s) + 1) |-> 0] \in [1..(Len(s) + 1) -> Nat]
    OBVIOUS
  <2>3. PartsAt(s, [i \in 1..(Len(s) + 1) |-> 0], <<>>)
    BY <1>1 DEF PartsAt
  <2>4. \E o \in [1..(Len(s) + 1) -> Nat] : PartsAt(s, o, <<>>)
    BY <2>2, <2>3
  <2>5. <<>> \in Seq(X)
    OBVIOUS
  <2> QED
    BY <2>1, <2>4, <2>5
<1>2. CASE Len(s) # 0
  <2> DEFINE n == Len(s)
             f == CHOOSE g : Partial(s, g, Len(s))
  <2>0. n \in Nat /\ n > 0
    BY <1>2
  <2>1. FlattenSeq(s) = f[n]
    BY <1>2 DEF FlattenSeq, Partial
  <2>2. Partial(s, f, n)
    <3>1. s \in Seq(Seq(X))
      OBVIOUS
    <3>2. Partial(s, CHOOSE g : Partial(s, g, Len(s)), Len(s))
      BY ONLY <3>1, PartialExists, Zenon
    <3> QED
      BY ONLY <3>2 DEF f, n
  <2>3. \A i \in 1..n : f[i] = IF i = 1 THEN s[i] ELSE f[i - 1] \o s[i]
    BY <2>2, Zenon DEF Partial
  <2> HIDE DEF f
  <2>4. \A i \in 1..n : f[i] \in Seq(X)
    <3> DEFINE Good == {i \in Nat : i \in 1..n => f[i] \in Seq(X)}
    <3>1. 0 \in Good
      OBVIOUS
    <3>2. ASSUME NEW i \in Good PROVE i + 1 \in Good
      <4> SUFFICES ASSUME i + 1 \in 1..n PROVE f[i + 1] \in Seq(X)
        OBVIOUS
      <4>1. s[i + 1] \in Seq(X)
        OBVIOUS
      <4>2. CASE i = 0
        BY <2>3, <4>1, <4>2
      <4>3. CASE i # 0
        <5>1. i \in 1..n /\ f[i] \in Seq(X) /\ (i + 1) - 1 = i /\ i + 1 # 1
          BY <4>3, <2>0
        <5>2. f[i + 1] = f[i] \o s[i + 1]
          BY <2>3, <5>1
        <5> QED
          BY <4>1, <5>1, <5>2
      <4> QED
        BY <4>2, <4>3
    <3> HIDE DEF Good
    <3>3. Good \subseteq Nat
      BY DEF Good
    <3>4. Good = Nat
      BY <3>1, <3>2, <3>3, NaturalsReached
    <3> QED
      BY <3>4 DEF Good
  <2> DEFINE o == [i \in 1..(n + 1) |-> IF i = 1 THEN 0 ELSE Len(f[i - 1])]
  <2>5. o \in [1..(n + 1) -> Nat] /\ o[1] = 0 /\ o[n + 1] = Len(f[n])
    <3>1. ASSUME NEW i \in 1..(n + 1), i # 1 PROVE Len(f[i - 1]) \in Nat
      <4>1. i - 1 \in 1..n
        BY <2>0, <3>1
      <4> QED
        BY <2>4, <4>1
    <3> QED
      BY <2>0, <3>1
  <2>6. \A i \in 1..n : o[i + 1] = Len(f[i])
    BY <2>0
  <2>7. \A i \in 1..n : o[i + 1] = o[i] + Len(s[i])
    <3> SUFFICES ASSUME NEW i \in 1..n PROVE o[i + 1] = o[i] + Len(s[i])
      OBVIOUS
    <3>1. s[i] \in Seq(X)
      OBVIOUS
    <3>2. CASE i = 1
      BY <2>3, <2>5, <2>6, <3>1, <3>2
    <3>3. CASE i # 1
      <4>1. i - 1 \in 1..n /\ (i - 1) + 1 = i
        BY <3>3
      <4>2. f[i] = f[i - 1] \o s[i] /\ f[i - 1] \in Seq(X) /\ o[i] = Len(f[i - 1])
        BY <2>3, <2>4, <2>6, <3>3, <4>1
      <4>3. Len(f[i - 1] \o s[i]) = Len(f[i - 1]) + Len(s[i])
        BY <3>1, <4>2, ConcatAt
      <4>4. o[i + 1] = Len(f[i])
        BY <2>6
      <4> QED
        BY <4>2, <4>3, <4>4
    <3> QED
      BY <3>2, <3>3
  <2> HIDE DEF o
  <2>8. \A i \in 1..n : s[i] \in Seq(X)
    OBVIOUS
  <2>9. Chain(X, s, f, o, n)
    BY <2>3, <2>4, <2>5, <2>6, <2>7, <2>8 DEF Chain
  <2>10. PartsAt(s, o, f[n])
    <3>1. n \in Nat /\ n # 0 /\ n = Len(s) /\ o \in [1..(n + 1) -> Nat]
      BY <2>0, <2>5
    <3> HIDE DEF n
    <3> QED
      BY <2>9, <3>1, PartsKept
  <2>11. f[n] \in Seq(X)
    BY <2>0, <2>4
  <2> QED
    BY <2>1, <2>5, <2>10, <2>11
<1> QED
  BY <1>1, <1>2

-----------------------------------------------------------------------------
(* Where things are in a response.                                           *)

\* The body, the length of the head, and the places before which parts begin.
Body(m) == FlattenSeq(m.chunks)
HeadLength(m) == 3 * Len(m.headers) + 5
Starts(s) == CHOOSE o \in [1..(Len(s) + 1) -> Nat] : PartsAt(s, o, FlattenSeq(s))

\* A chunk as it is sent, and where each begins in the response and in the body.
ChunkText(bytes) == <<<<"size", Len(bytes)>>>> \o CRLF \o bytes \o CRLF
ChunkTexts(m) == [i \in DOMAIN m.chunks |-> ChunkText(m.chunks[i])]
ChunkStart(m) == [c \in 1..(Len(m.chunks) + 1) |-> HeadLength(m) + Starts(ChunkTexts(m))[c]]
BodyStart(m) == Starts(m.chunks)

\* The place of each part is the sum of the lengths before it.
LEMMA StartsAt ==
  ASSUME NEW X, NEW s \in Seq(Seq(X))
  PROVE  /\ FlattenSeq(s) \in Seq(X)
         /\ Starts(s) \in [1..(Len(s) + 1) -> Nat]
         /\ PartsAt(s, Starts(s), FlattenSeq(s))
  BY FlattenParts DEF Starts

\* The status line, the headers and the empty line.
HeadAt(m, r) ==
  /\ HeadLength(m) <= Len(r)
  /\ r[1] = m.status /\ r[2] = CR /\ r[3] = LF
  /\ \A j \in 1..Len(m.headers) :
       r[3 * j + 1] = m.headers[j] /\ r[3 * j + 2] = CR /\ r[3 * j + 3] = LF
  /\ r[3 * Len(m.headers) + 4] = CR /\ r[3 * Len(m.headers) + 5] = LF

\* The body of a response without chunks.
PlainAt(m, r) ==
  ~IsChunked(m) =>
    /\ Len(r) = HeadLength(m) + Len(Body(m))
    /\ \A i \in 1..Len(Body(m)) : r[HeadLength(m) + i] = Body(m)[i]

\* One chunk of n bytes that begins after p in the response and after d in the body.
ChunkAt(m, r, n, p, d) ==
  /\ r[p + 1] = <<"size", n>> /\ r[p + 2] = CR /\ r[p + 3] = LF
  /\ \A j \in 1..n : r[p + 3 + j] = Body(m)[d + j]
  /\ r[p + n + 4] = CR /\ r[p + n + 5] = LF
  /\ p + n + 10 <= Len(r)
  /\ d + n <= Len(Body(m))

\* All chunks, each where the one before it ends, and the last one, of size 0.
ChunksAt(m, r) ==
  LET last == Len(m.chunks) + 1 IN
  IsChunked(m) =>
    /\ ChunkStart(m) \in [1..last -> Nat] /\ BodyStart(m) \in [1..last -> Nat]
    /\ ChunkStart(m)[1] = HeadLength(m) /\ BodyStart(m)[1] = 0
    /\ \A c \in 1..Len(m.chunks) :
         /\ ChunkAt(m, r, Len(m.chunks[c]), ChunkStart(m)[c], BodyStart(m)[c])
         /\ ChunkStart(m)[c + 1] = ChunkStart(m)[c] + Len(m.chunks[c]) + 5
         /\ BodyStart(m)[c + 1] = BodyStart(m)[c] + Len(m.chunks[c])
    /\ BodyStart(m)[last] = Len(Body(m))
    /\ ChunkStart(m)[last] + 5 = Len(r)
    /\ r[ChunkStart(m)[last] + 1] = <<"size", 0>>
    /\ r[ChunkStart(m)[last] + 2] = CR /\ r[ChunkStart(m)[last] + 3] = LF

\* The line end is two tokens.
LEMMA CrlfTokens ==
  CRLF \in Seq(Bytes) /\ CRLF \in Seq(Tokens) /\ Len(CRLF) = 2 /\ CRLF[1] = CR /\ CRLF[2] = LF
  BY DEF CRLF, Bytes, Tokens

\* What a response is put together from.
LEMMA MessageParts ==
  ASSUME NEW m \in Messages
  PROVE  /\ m.status \in StatusTexts
         /\ m.headers \in Seq(HeaderTexts)
         /\ m.chunks \in Seq(Seq(Bytes))
         /\ \A c \in 1..Len(m.chunks) : m.chunks[c] \in Seq(Bytes) /\ Len(m.chunks[c]) > 0
         /\ Body(m) \in Seq(Bytes)
<1>1. m.chunks \in Seq(Seq(Bytes) \ {<<>>}) /\ m.status \in StatusTexts /\ m.headers \in Seq(HeaderTexts)
  BY DEF Messages
<1>2. ASSUME NEW c \in 1..Len(m.chunks) PROVE m.chunks[c] \in Seq(Bytes) /\ Len(m.chunks[c]) > 0
  <2>1. m.chunks[c] \in Seq(Bytes) \ {<<>>}
    BY <1>1
  <2> QED
    BY <2>1
<1>3. m.chunks \in Seq(Seq(Bytes))
  BY <1>1, SeqMonotonic
<1> QED
  BY <1>1, <1>2, <1>3, StartsAt DEF Body

\* A line is its text and the line end.
LEMMA LineTokens ==
  ASSUME NEW x \in Tokens
  PROVE  LET s == <<x>> \o CRLF IN
           /\ s \in Seq(Tokens) /\ Len(s) = 3
           /\ s[1] = x /\ s[2] = CR /\ s[3] = LF
<1> DEFINE a == <<x>>
<1>1. a \in Seq(Tokens) /\ Len(a) = 1 /\ a[1] = x
  OBVIOUS
<1> HIDE DEF a
<1>2. 1 \in 1..Len(a) /\ 1 \in 1..Len(CRLF) /\ 2 \in 1..Len(CRLF)
  BY <1>1, CrlfTokens
<1>3. /\ a \o CRLF \in Seq(Tokens)
      /\ Len(a \o CRLF) = Len(a) + Len(CRLF)
      /\ \A j \in 1..Len(a) : (a \o CRLF)[j] = a[j]
      /\ \A j \in 1..Len(CRLF) : (a \o CRLF)[Len(a) + j] = CRLF[j]
  <2>1. a \in Seq(Tokens) /\ CRLF \in Seq(Tokens)
    BY <1>1, CrlfTokens
  <2> QED
    BY ONLY <2>1, ConcatAt
<1>4. /\ (a \o CRLF)[1] = a[1]
      /\ (a \o CRLF)[Len(a) + 1] = CRLF[1]
      /\ (a \o CRLF)[Len(a) + 2] = CRLF[2]
  BY <1>2, <1>3
<1>5. Len(a) + 1 = 2 /\ Len(a) + 2 = 3
  BY <1>1
<1>6. (a \o CRLF)[1] = x /\ (a \o CRLF)[2] = CR /\ (a \o CRLF)[3] = LF /\ Len(a \o CRLF) = 3
  BY <1>1, <1>3, <1>4, <1>5, CrlfTokens
<1> QED
  BY <1>3, <1>6 DEF a

\* The lines of the head: three tokens each.
LEMMA LinesAt ==
  ASSUME NEW t \in Seq(Tokens)
  PROVE  /\ Lines(t) \in Seq(Tokens)
         /\ Len(Lines(t)) = 3 * Len(t)
         /\ \A j \in 1..Len(t) : /\ Lines(t)[3 * (j - 1) + 1] = t[j]
                                 /\ Lines(t)[3 * (j - 1) + 2] = CR
                                 /\ Lines(t)[3 * (j - 1) + 3] = LF
<1> DEFINE s == [i \in DOMAIN t |-> <<t[i]>> \o CRLF]
           n == Len(t)
<1>1. n \in Nat /\ DOMAIN t = 1..n
  OBVIOUS
<1>2. ASSUME NEW i \in 1..n
      PROVE  /\ s[i] \in Seq(Tokens) /\ Len(s[i]) = 3
             /\ s[i][1] = t[i] /\ s[i][2] = CR /\ s[i][3] = LF
  <2>1. t[i] \in Tokens /\ s[i] = <<t[i]>> \o CRLF
    BY <1>1
  <2> QED
    BY <2>1, LineTokens
<1>3. s \in Seq(Seq(Tokens)) /\ Len(s) = n
  BY <1>1, <1>2
<1>4. Lines(t) = FlattenSeq(s)
  BY DEF Lines
<1> DEFINE o == Starts(s)
<1>5. /\ FlattenSeq(s) \in Seq(Tokens) /\ o \in [1..(n + 1) -> Nat]
      /\ PartsAt(s, o, FlattenSeq(s))
  BY <1>3, StartsAt
<1> HIDE DEF s, o
<1>6. o[1] = 0 /\ \A i \in 1..n : o[i + 1] = o[i] + 3
  BY <1>2, <1>3, <1>5 DEF PartsAt
<1>7. \A i \in 1..(n + 1) : o[i] = 3 * (i - 1)
  <2> DEFINE Good == {i \in Nat : i + 1 \in 1..(n + 1) => o[i + 1] = 3 * i}
  <2>1. 0 \in Good
    BY <1>6
  <2>2. ASSUME NEW i \in Good PROVE i + 1 \in Good
    <3> SUFFICES ASSUME (i + 1) + 1 \in 1..(n + 1) PROVE o[(i + 1) + 1] = 3 * (i + 1)
      OBVIOUS
    <3>1. i \in Nat /\ i + 1 \in 1..n /\ o[i + 1] = 3 * i
      BY <1>1
    <3> QED
      BY <1>6, <3>1
  <2> HIDE DEF Good
  <2>3. Good \subseteq Nat
    BY DEF Good
  <2>4. Good = Nat
    BY <2>1, <2>2, <2>3, NaturalsReached
  <2>5. ASSUME NEW i \in 1..(n + 1) PROVE o[i] = 3 * (i - 1)
    <3>1. i - 1 \in Good /\ (i - 1) + 1 = i
      BY <1>1, <2>4
    <3> QED
      BY <3>1 DEF Good
  <2> QED
    BY <2>5
<1>8. Len(Lines(t)) = 3 * n
  <2>1. n + 1 \in 1..(n + 1) /\ Len(Lines(t)) = o[n + 1]
    BY <1>1, <1>3, <1>4, <1>5 DEF PartsAt
  <2> QED
    BY <1>1, <1>7, <2>1
<1>9. ASSUME NEW j \in 1..n
      PROVE  /\ Lines(t)[3 * (j - 1) + 1] = t[j]
             /\ Lines(t)[3 * (j - 1) + 2] = CR
             /\ Lines(t)[3 * (j - 1) + 3] = LF
  <2>1. o[j] = 3 * (j - 1)
    BY <1>1, <1>7
  <2>2. \A i \in 1..3 : Lines(t)[o[j] + i] = s[j][i]
    <3>1. \A i \in 1..Len(s[j]) : FlattenSeq(s)[o[j] + i] = s[j][i]
      BY <1>3, <1>5 DEF PartsAt
    <3> QED
      BY <1>2, <1>4, <3>1
  <2>3. /\ Lines(t)[o[j] + 1] = s[j][1]
        /\ Lines(t)[o[j] + 2] = s[j][2]
        /\ Lines(t)[o[j] + 3] = s[j][3]
    BY <2>2
  <2> QED
    BY <1>2, <2>1, <2>3
<1> QED
  BY <1>4, <1>5, <1>8, <1>9

\* A part between two others is where it was put.
LEMMA ThreeAt ==
  ASSUME NEW X, NEW a \in Seq(X), NEW b \in Seq(X), NEW c \in Seq(X), NEW s, s = (a \o b) \o c
  PROVE  /\ s \in Seq(X)
         /\ Len(s) = Len(a) + Len(b) + Len(c)
         /\ \A j \in 1..Len(a) : s[j] = a[j]
         /\ \A j \in 1..Len(b) : s[Len(a) + j] = b[j]
         /\ \A j \in 1..Len(c) : s[Len(a) + Len(b) + j] = c[j]
<1> DEFINE ab == a \o b
<1>1. /\ ab \in Seq(X) /\ Len(ab) = Len(a) + Len(b) /\ Len(a) \in Nat /\ Len(b) \in Nat
      /\ \A j \in 1..Len(a) : ab[j] = a[j]
      /\ \A j \in 1..Len(b) : ab[Len(a) + j] = b[j]
  BY ConcatAt
<1> HIDE DEF ab
<1>2. /\ ab \o c \in Seq(X) /\ Len(ab \o c) = Len(ab) + Len(c) /\ Len(c) \in Nat
      /\ \A j \in 1..Len(ab) : (ab \o c)[j] = ab[j]
      /\ \A j \in 1..Len(c) : (ab \o c)[Len(ab) + j] = c[j]
  <2>1. ab \in Seq(X)
    BY <1>1
  <2> QED
    BY <2>1, ConcatAt
<1>3. \A j \in 1..Len(a) : j \in 1..Len(ab)
  BY <1>1
<1>4. \A j \in 1..Len(b) : Len(a) + j \in 1..Len(ab)
  BY <1>1
<1>5. /\ ab \o c \in Seq(X)
      /\ Len(ab \o c) = Len(a) + Len(b) + Len(c)
      /\ \A j \in 1..Len(a) : (ab \o c)[j] = a[j]
      /\ \A j \in 1..Len(b) : (ab \o c)[Len(a) + j] = b[j]
      /\ \A j \in 1..Len(c) : (ab \o c)[Len(a) + Len(b) + j] = c[j]
  BY <1>1, <1>2, <1>3, <1>4
<1> QED
  BY <1>5 DEF ab

\* A chunk is its size, a line end, its bytes and a line end.
LEMMA ChunkTextAt ==
  ASSUME NEW ch \in Seq(Bytes)
  PROVE  LET s == ChunkText(ch)
             n == Len(ch) IN
           /\ n \in Nat /\ s \in Seq(Tokens) /\ Len(s) = n + 5
           /\ s[1] = <<"size", n>> /\ s[2] = CR /\ s[3] = LF
           /\ \A j \in 1..n : s[3 + j] = ch[j]
           /\ s[n + 4] = CR /\ s[n + 5] = LF
<1> DEFINE n == Len(ch)
           size == <<"size", n>>
           line == <<size>> \o CRLF
           s == (line \o ch) \o CRLF
<1>1. n \in Nat /\ ch \in Seq(Tokens) /\ size \in Tokens
  <2>1. Bytes \subseteq Tokens /\ n \in Nat
    BY DEF Tokens
  <2>2. ch \in Seq(Tokens)
    BY <2>1, SeqMonotonic
  <2> QED
    BY <2>1, <2>2 DEF Tokens, Sizes
<1>2. line \in Seq(Tokens) /\ Len(line) = 3 /\ line[1] = size /\ line[2] = CR /\ line[3] = LF
  <2> HIDE DEF size
  <2> QED
    BY <1>1, LineTokens
<1>3. ChunkText(ch) = s
  BY DEF ChunkText
<1>4. CRLF \in Seq(Tokens)
  BY CrlfTokens
<1> HIDE DEF line, size
<1>5. /\ s \in Seq(Tokens)
      /\ Len(s) = Len(line) + Len(ch) + Len(CRLF)
      /\ \A j \in 1..Len(line) : s[j] = line[j]
      /\ \A j \in 1..Len(ch) : s[Len(line) + j] = ch[j]
      /\ \A j \in 1..Len(CRLF) : s[Len(line) + Len(ch) + j] = CRLF[j]
  <2>1. line \in Seq(Tokens) /\ ch \in Seq(Tokens)
    BY <1>1, <1>2
  <2>2. s = (line \o ch) \o CRLF
    OBVIOUS
  <2> HIDE DEF s
  <2> QED
    BY ONLY <1>4, <2>1, <2>2, ThreeAt
<1> HIDE DEF s
<1>6. s[1] = size /\ s[2] = CR /\ s[3] = LF
  <2>1. 1 \in 1..Len(line) /\ 2 \in 1..Len(line) /\ 3 \in 1..Len(line)
    BY <1>2
  <2> QED
    BY <1>2, <1>5, <2>1
<1>7. s[n + 4] = CR /\ s[n + 5] = LF
  <2>1. 1 \in 1..Len(CRLF) /\ 2 \in 1..Len(CRLF)
    BY CrlfTokens
  <2>2. s[Len(line) + Len(ch) + 1] = CR /\ s[Len(line) + Len(ch) + 2] = LF
    BY <1>5, <2>1, CrlfTokens
  <2>3. Len(line) + Len(ch) + 1 = n + 4 /\ Len(line) + Len(ch) + 2 = n + 5
    BY <1>1, <1>2
  <2> QED
    BY <2>2, <2>3
<1>8. Len(s) = n + 5
  BY <1>1, <1>2, <1>5, CrlfTokens
<1>9. \A j \in 1..n : s[3 + j] = ch[j]
  BY <1>2, <1>5
<1> QED
  BY <1>1, <1>3, <1>5, <1>6, <1>7, <1>8, <1>9 DEF size

\* The head of a response as it is put together.
LEMMA HeadLayout ==
  ASSUME NEW m \in Messages
  PROVE  LET h == Lines(<<m.status>> \o m.headers) \o CRLF IN
           h \in Seq(Tokens) /\ Len(h) = HeadLength(m) /\ HeadAt(m, h)
<1> DEFINE n == Len(m.headers)
           one == <<m.status>>
           t == one \o m.headers
           l == Lines(t)
           h == l \o CRLF
<1>1. one \in Seq(Tokens) /\ Len(one) = 1 /\ one[1] = m.status
  BY MessageParts DEF Tokens
<1>2. m.headers \in Seq(Tokens) /\ n \in Nat
  <2>1. HeaderTexts \subseteq Tokens
    BY DEF Tokens
  <2> QED
    BY <2>1, MessageParts, SeqMonotonic
<1> HIDE DEF one
<1>3. /\ t \in Seq(Tokens) /\ Len(t) = Len(one) + Len(m.headers)
      /\ \A j \in 1..Len(one) : t[j] = one[j]
      /\ \A j \in 1..Len(m.headers) : t[Len(one) + j] = m.headers[j]
  <2>1. one \in Seq(Tokens) /\ m.headers \in Seq(Tokens)
    BY <1>1, <1>2
  <2> QED
    BY <2>1, ConcatAt
<1>4. Len(t) = n + 1 /\ t[1] = m.status /\ \A j \in 1..n : t[j + 1] = m.headers[j]
  <2>1. 1 \in 1..Len(one)
    BY <1>1
  <2>2. \A j \in 1..n : Len(one) + j = j + 1
    BY <1>1
  <2> QED
    BY <1>1, <1>2, <1>3, <2>1, <2>2
<1> HIDE DEF t
<1>5. /\ l \in Seq(Tokens) /\ Len(l) = 3 * Len(t)
      /\ \A j \in 1..Len(t) : /\ l[3 * (j - 1) + 1] = t[j]
                              /\ l[3 * (j - 1) + 2] = CR
                              /\ l[3 * (j - 1) + 3] = LF
  BY <1>3, LinesAt
<1> HIDE DEF l
<1>6. CRLF \in Seq(Tokens)
  BY CrlfTokens
<1>7. /\ h \in Seq(Tokens) /\ Len(h) = Len(l) + Len(CRLF)
      /\ \A j \in 1..Len(l) : h[j] = l[j]
      /\ \A j \in 1..Len(CRLF) : h[Len(l) + j] = CRLF[j]
  <2>1. l \in Seq(Tokens)
    BY <1>5
  <2> QED
    BY <1>6, <2>1, ConcatAt
<1> HIDE DEF h
<1>8. Len(l) = 3 * n + 3 /\ Len(h) = HeadLength(m)
  BY <1>2, <1>4, <1>5, <1>7, CrlfTokens DEF HeadLength
<1>9. ASSUME NEW j \in 0..n
      PROVE  h[3 * j + 1] = t[j + 1] /\ h[3 * j + 2] = CR /\ h[3 * j + 3] = LF
  <2>1. j + 1 \in 1..Len(t) /\ 3 * ((j + 1) - 1) = 3 * j
    BY <1>2, <1>4
  <2>2. l[3 * j + 1] = t[j + 1] /\ l[3 * j + 2] = CR /\ l[3 * j + 3] = LF
    BY <1>5, <2>1
  <2>3. 3 * j + 1 \in 1..Len(l) /\ 3 * j + 2 \in 1..Len(l) /\ 3 * j + 3 \in 1..Len(l)
    BY <1>2, <1>8
  <2> QED
    BY <1>7, <2>2, <2>3
<1>10. h[1] = m.status /\ h[2] = CR /\ h[3] = LF
  <2>1. 0 \in 0..n /\ 3 * 0 + 1 = 1 /\ 3 * 0 + 2 = 2 /\ 3 * 0 + 3 = 3 /\ 0 + 1 = 1
    BY <1>2
  <2> QED
    BY <1>4, <1>9, <2>1
<1>11. \A j \in 1..n : h[3 * j + 1] = m.headers[j] /\ h[3 * j + 2] = CR /\ h[3 * j + 3] = LF
  BY <1>2, <1>4, <1>9
<1>12. h[3 * n + 4] = CR /\ h[3 * n + 5] = LF
  <2>1. 1 \in 1..Len(CRLF) /\ 2 \in 1..Len(CRLF)
    BY CrlfTokens
  <2>2. h[Len(l) + 1] = CR /\ h[Len(l) + 2] = LF
    BY <1>7, <2>1, CrlfTokens
  <2> QED
    BY <1>2, <1>8, <2>2
<1>13. HeadAt(m, h)
  BY <1>2, <1>8, <1>10, <1>11, <1>12 DEF HeadAt, HeadLength
<1> QED
  BY <1>7, <1>8, <1>13 DEF h, l, t, one

\* Nothing behind the head changes it.
LEMMA HeadKept ==
  ASSUME NEW m \in Messages, NEW h \in Seq(Tokens), NEW b \in Seq(Tokens),
         Len(h) = HeadLength(m), HeadAt(m, h)
  PROVE  HeadAt(m, h \o b)
<1> DEFINE n == Len(m.headers)
<1>1. n \in Nat /\ HeadLength(m) = 3 * n + 5
  BY MessageParts DEF HeadLength
<1>2. /\ Len(h \o b) = Len(h) + Len(b) /\ Len(h) \in Nat /\ Len(b) \in Nat
      /\ \A i \in 1..Len(h) : (h \o b)[i] = h[i]
  BY ConcatAt
<1>3. \A j \in 0..n : 3 * j + 1 \in 1..Len(h) /\ 3 * j + 2 \in 1..Len(h) /\ 3 * j + 3 \in 1..Len(h)
  BY <1>1
<1>4. {1, 2, 3, 3 * n + 4, 3 * n + 5} \subseteq 1..Len(h)
  BY <1>1
<1>5. HeadLength(m) <= Len(h \o b)
  BY <1>1, <1>2
<1>6. \A j \in 1..n : /\ (h \o b)[3 * j + 1] = m.headers[j]
                      /\ (h \o b)[3 * j + 2] = CR
                      /\ (h \o b)[3 * j + 3] = LF
  BY <1>1, <1>2, <1>3 DEF HeadAt
<1>7. /\ (h \o b)[1] = m.status /\ (h \o b)[2] = CR /\ (h \o b)[3] = LF
      /\ (h \o b)[3 * n + 4] = CR /\ (h \o b)[3 * n + 5] = LF
  BY <1>2, <1>4 DEF HeadAt
<1> QED
  BY <1>5, <1>6, <1>7 DEF HeadAt

\* The chunk of size 0 and the empty line are the last five tokens.
LEMMA LastChunkAt ==
  ASSUME NEW x \in Seq(Tokens)
  PROVE  LET s == x \o <<<<"size", 0>>>> \o CRLF \o CRLF IN
           /\ s \in Seq(Tokens) /\ Len(x) \in Nat /\ Len(s) = Len(x) + 5
           /\ \A j \in 1..Len(x) : s[j] = x[j]
           /\ s[Len(x) + 1] = <<"size", 0>> /\ s[Len(x) + 2] = CR /\ s[Len(x) + 3] = LF
<1> DEFINE z == <<<<"size", 0>>>>
           y == (x \o z) \o CRLF
           s == y \o CRLF
<1>1. z \in Seq(Tokens) /\ Len(z) = 1 /\ z[1] = <<"size", 0>>
  BY DEF Tokens, Sizes
<1>2. CRLF \in Seq(Tokens)
  BY CrlfTokens
<1> HIDE DEF z
<1>3. /\ y \in Seq(Tokens)
      /\ Len(y) = Len(x) + Len(z) + Len(CRLF)
      /\ \A j \in 1..Len(x) : y[j] = x[j]
      /\ \A j \in 1..Len(z) : y[Len(x) + j] = z[j]
      /\ \A j \in 1..Len(CRLF) : y[Len(x) + Len(z) + j] = CRLF[j]
  <2>1. z \in Seq(Tokens) /\ x \in Seq(Tokens)
    BY <1>1
  <2>2. y = (x \o z) \o CRLF
    OBVIOUS
  <2> HIDE DEF y
  <2> QED
    BY ONLY <1>2, <2>1, <2>2, ThreeAt
<1>4. Len(x) \in Nat
  OBVIOUS
<1>5. 1 \in 1..Len(z) /\ 1 \in 1..Len(CRLF) /\ 2 \in 1..Len(CRLF)
  BY <1>1, CrlfTokens
<1>6. y[Len(x) + 1] = <<"size", 0>> /\ y[Len(x) + Len(z) + 1] = CR /\ y[Len(x) + Len(z) + 2] = LF
  BY <1>1, <1>3, <1>5, CrlfTokens
<1>7. y[Len(x) + 1] = <<"size", 0>> /\ y[Len(x) + 2] = CR /\ y[Len(x) + 3] = LF
  <2>1. Len(x) + Len(z) + 1 = Len(x) + 2 /\ Len(x) + Len(z) + 2 = Len(x) + 3
    BY <1>1, <1>4
  <2> QED
    BY <1>6, <2>1
<1>8. Len(y) = Len(x) + 3
  BY <1>1, <1>3, <1>4, CrlfTokens
<1> HIDE DEF y
<1>9. /\ s \in Seq(Tokens) /\ Len(s) = Len(y) + Len(CRLF)
      /\ \A j \in 1..Len(y) : s[j] = y[j]
  <2>1. y \in Seq(Tokens)
    BY <1>3
  <2> QED
    BY <1>2, <2>1, ConcatAt
<1> HIDE DEF s
<1>10. Len(s) = Len(x) + 5
  BY <1>4, <1>8, <1>9, CrlfTokens
<1>11. \A j \in 1..Len(x) : s[j] = x[j]
  <2>1. \A j \in 1..Len(x) : j \in 1..Len(y)
    BY <1>4, <1>8
  <2> QED
    BY <1>3, <1>9, <2>1
<1>12. s[Len(x) + 1] = <<"size", 0>> /\ s[Len(x) + 2] = CR /\ s[Len(x) + 3] = LF
  <2>1. Len(x) + 1 \in 1..Len(y) /\ Len(x) + 2 \in 1..Len(y) /\ Len(x) + 3 \in 1..Len(y)
    BY <1>4, <1>8
  <2> QED
    BY <1>7, <1>9, <2>1
<1> QED
  BY <1>4, <1>9, <1>10, <1>11, <1>12 DEF s, y, z

\* The chunks of a response, one text each.
LEMMA ChunkTextsAt ==
  ASSUME NEW m \in Messages
  PROVE  /\ ChunkTexts(m) \in Seq(Seq(Tokens)) /\ Len(ChunkTexts(m)) = Len(m.chunks)
         /\ \A c \in 1..Len(m.chunks) : ChunkTexts(m)[c] = ChunkText(m.chunks[c])
         /\ Chunks(m) = FlattenSeq(ChunkTexts(m))
<1>1. m.chunks \in Seq(Seq(Bytes)) /\ Len(m.chunks) \in Nat /\ DOMAIN m.chunks = 1..Len(m.chunks)
  BY MessageParts
<1>2. \A c \in 1..Len(m.chunks) : ChunkText(m.chunks[c]) \in Seq(Tokens)
  BY MessageParts, ChunkTextAt
<1>3. ChunkTexts(m) \in Seq(Seq(Tokens)) /\ Len(ChunkTexts(m)) = Len(m.chunks)
  BY <1>1, <1>2 DEF ChunkTexts
<1>4. \A c \in 1..Len(m.chunks) : ChunkTexts(m)[c] = ChunkText(m.chunks[c])
  BY <1>1 DEF ChunkTexts
<1>5. Chunks(m) = FlattenSeq(ChunkTexts(m))
  BY DEF Chunks, ChunkTexts, ChunkText
<1> QED
  BY <1>3, <1>4, <1>5

\* A chunk of the body, found in the response behind a head of length H.
LEMMA OneChunk ==
  ASSUME NEW m, NEW r, NEW x \in Seq(Tokens), NEW b \in Seq(Bytes), b = Body(m),
         NEW H \in Nat, NEW ch \in Seq(Bytes), NEW o \in Nat, NEW d \in Nat,
         Len(r) = H + Len(x) + 5, \A j \in 1..Len(x) : r[H + j] = x[j],
         o + Len(ch) + 5 <= Len(x),
         \A j \in 1..(Len(ch) + 5) : x[o + j] = ChunkText(ch)[j],
         d + Len(ch) <= Len(b), \A j \in 1..Len(ch) : b[d + j] = ch[j]
  PROVE  ChunkAt(m, r, Len(ch), H + o, d)
<1> DEFINE n == Len(ch)
           t == ChunkText(ch)
<1>1. /\ n \in Nat /\ t[1] = <<"size", n>> /\ t[2] = CR /\ t[3] = LF
      /\ \A j \in 1..n : t[3 + j] = ch[j]
      /\ t[n + 4] = CR /\ t[n + 5] = LF
  BY ChunkTextAt
<1> HIDE DEF t
<1>2. \A j \in 1..(n + 5) : r[H + o + j] = t[j]
  <2> SUFFICES ASSUME NEW j \in 1..(n + 5) PROVE r[H + o + j] = t[j]
    OBVIOUS
  <2>1. o + j \in 1..Len(x) /\ H + (o + j) = H + o + j
    BY <1>1
  <2> QED
    BY <2>1 DEF t
<1>3. {1, 2, 3, n + 4, n + 5} \subseteq 1..(n + 5)
  BY <1>1
<1>4. /\ r[H + o + 1] = <<"size", n>> /\ r[H + o + 2] = CR /\ r[H + o + 3] = LF
      /\ r[H + o + (n + 4)] = CR /\ r[H + o + (n + 5)] = LF
  BY <1>1, <1>2, <1>3
<1>5. H + o + (n + 4) = H + o + n + 4 /\ H + o + (n + 5) = H + o + n + 5
  <2>1. \A i \in Nat : H + o + (i + 4) = H + o + i + 4 /\ H + o + (i + 5) = H + o + i + 5
    OBVIOUS
  <2>2. n \in Nat
    OBVIOUS
  <2> QED
    BY <2>1, <2>2
<1>6. ASSUME NEW j \in 1..n PROVE r[H + o + 3 + j] = b[d + j]
  <2>1. 3 + j \in 1..(n + 5) /\ H + o + (3 + j) = H + o + 3 + j
    BY <1>1
  <2> QED
    BY <1>1, <1>2, <2>1
<1>7. H + o + n + 10 <= Len(r)
  BY <1>1
<1> QED
  BY <1>4, <1>5, <1>6, <1>7 DEF ChunkAt

\* A chunked response as it is put together.
LEMMA ChunkedLayout ==
  ASSUME NEW m \in Messages, NEW h \in Seq(Tokens), Len(h) = HeadLength(m)
  PROVE  LET r == h \o (Chunks(m) \o <<<<"size", 0>>>> \o CRLF \o CRLF) IN
           r \in Seq(Tokens) /\ ChunksAt(m, r)
<1> DEFINE x == Chunks(m)
           y == x \o <<<<"size", 0>>>> \o CRLF \o CRLF
           r == h \o y
           s == ChunkTexts(m)
           k == Len(m.chunks)
           o == Starts(s)
           d == BodyStart(m)
           p == ChunkStart(m)
           b == Body(m)
           len(c) == Len(m.chunks[c])
           H == HeadLength(m)
<1>1. k \in Nat /\ H \in Nat
  BY MessageParts DEF HeadLength
<1>2. x = FlattenSeq(s) /\ s \in Seq(Seq(Tokens)) /\ Len(s) = k
  BY ChunkTextsAt
<1>3. x \in Seq(Tokens) /\ o \in [1..(k + 1) -> Nat] /\ PartsAt(s, o, x)
  BY <1>2, StartsAt
<1>4. b \in Seq(Bytes) /\ d \in [1..(k + 1) -> Nat] /\ PartsAt(m.chunks, d, b)
  BY MessageParts, StartsAt DEF BodyStart, Body
<1>5. \A c \in 1..(k + 1) : p[c] = H + o[c]
  BY DEF ChunkStart
<1>6. p \in [1..(k + 1) -> Nat]
  BY <1>1, <1>3 DEF ChunkStart
<1> HIDE DEF x, s, o, d, p, b
<1>7. /\ y \in Seq(Tokens) /\ Len(x) \in Nat /\ Len(y) = Len(x) + 5
      /\ \A j \in 1..Len(x) : y[j] = x[j]
      /\ y[Len(x) + 1] = <<"size", 0>> /\ y[Len(x) + 2] = CR /\ y[Len(x) + 3] = LF
  BY <1>3, LastChunkAt
<1> HIDE DEF y
<1>8. /\ r \in Seq(Tokens) /\ Len(r) = Len(h) + Len(y)
      /\ \A j \in 1..Len(y) : r[Len(h) + j] = y[j]
  <2>1. h \in Seq(Tokens) /\ y \in Seq(Tokens)
    BY <1>7
  <2>2. /\ h \o y \in Seq(Tokens) /\ Len(h \o y) = Len(h) + Len(y)
        /\ \A j \in 1..Len(y) : (h \o y)[Len(h) + j] = y[j]
    BY ONLY <2>1, ConcatAt
  <2> QED
    BY <2>2
<1> HIDE DEF r, H, k, len
<1>9. Len(r) = H + Len(x) + 5 /\ \A j \in 1..(Len(x) + 5) : r[H + j] = y[j]
  BY <1>1, <1>7, <1>8 DEF H
<1>10. \A j \in 1..Len(x) : r[H + j] = x[j]
  BY <1>7, <1>9
<1>11. /\ p[k + 1] = H + Len(x) /\ d[k + 1] = Len(b) /\ p[1] = H /\ d[1] = 0
  <2>1. 1 \in 1..(k + 1) /\ k + 1 \in 1..(k + 1)
    BY <1>1
  <2>2. o[1] = 0 /\ o[k + 1] = Len(x) /\ d[1] = 0 /\ d[k + 1] = Len(b)
    BY <1>2, <1>3, <1>4 DEF PartsAt, k
  <2> QED
    BY <1>1, <1>5, <2>1, <2>2
<1>12. /\ r[p[k + 1] + 1] = <<"size", 0>> /\ r[p[k + 1] + 2] = CR /\ r[p[k + 1] + 3] = LF
       /\ p[k + 1] + 5 = Len(r)
  <2>1. Len(x) + 1 \in 1..(Len(x) + 5) /\ Len(x) + 2 \in 1..(Len(x) + 5) /\ Len(x) + 3 \in 1..(Len(x) + 5)
    BY <1>7
  <2>2. r[H + (Len(x) + 1)] = <<"size", 0>> /\ r[H + (Len(x) + 2)] = CR /\ r[H + (Len(x) + 3)] = LF
    BY <1>7, <1>9, <2>1
  <2>3. /\ H + (Len(x) + 1) = p[k + 1] + 1 /\ H + (Len(x) + 2) = p[k + 1] + 2
        /\ H + (Len(x) + 3) = p[k + 1] + 3 /\ p[k + 1] + 5 = Len(r)
    BY <1>1, <1>7, <1>9, <1>11
  <2> QED
    BY <2>2, <2>3
<1>13. ASSUME NEW c \in 1..k
       PROVE  /\ ChunkAt(m, r, len(c), p[c], d[c])
              /\ p[c + 1] = p[c] + len(c) + 5
              /\ d[c + 1] = d[c] + len(c)
  <2> DEFINE ch == m.chunks[c]
             t == ChunkText(ch)
  <2>1. ch \in Seq(Bytes) /\ len(c) = Len(ch)
    BY MessageParts DEF k, len
  <2>2. s[c] = t
    BY ChunkTextsAt DEF s, k
  <2>3. Len(t) = Len(ch) + 5 /\ Len(ch) \in Nat
    BY <2>1, ChunkTextAt
  <2>4. c \in 1..(k + 1) /\ c + 1 \in 1..(k + 1)
    BY <1>1
  <2>5. o[c] \in Nat /\ d[c] \in Nat
    BY <1>3, <1>4, <2>4
  <2>6. /\ o[c + 1] = o[c] + Len(t) /\ o[c + 1] <= Len(x)
        /\ \A j \in 1..Len(t) : x[o[c] + j] = t[j]
    BY <1>2, <1>3, <2>2 DEF PartsAt
  <2>7. /\ d[c + 1] = d[c] + Len(ch) /\ d[c + 1] <= Len(b)
        /\ \A j \in 1..Len(ch) : b[d[c] + j] = ch[j]
    BY <1>4 DEF PartsAt, k
  <2>8. p[c] = H + o[c] /\ p[c + 1] = H + o[c + 1]
    BY <1>5, <2>4
  <2> HIDE DEF ch, t
  <2>9. o[c] + Len(ch) + 5 <= Len(x) /\ p[c + 1] = p[c] + Len(ch) + 5
    <3> DEFINE n == Len(ch)
               at == o[c]
    <3>1. n \in Nat /\ at \in Nat /\ o[c + 1] = at + (n + 5) /\ p[c] = H + at
      BY <2>3, <2>5, <2>6, <2>8
    <3>2. at + (n + 5) <= Len(x) /\ p[c + 1] = H + (at + (n + 5))
      BY <2>6, <2>8, <3>1
    <3>3. \A i, j \in Nat : i + (j + 5) = i + j + 5 /\ H + (i + (j + 5)) = H + i + j + 5
      BY <1>1
    <3> QED
      BY <3>1, <3>2, <3>3
  <2>10. ChunkAt(m, r, Len(ch), p[c], d[c])
    <3>1. \A j \in 1..(Len(ch) + 5) : x[o[c] + j] = ChunkText(ch)[j]
      BY <2>3, <2>6 DEF t
    <3>2. d[c] + Len(ch) <= Len(b) /\ b = Body(m)
      BY <2>7 DEF b
    <3>3. \A j \in 1..Len(ch) : b[d[c] + j] = ch[j]
      BY <2>7
    <3>4. Len(r) = H + Len(x) + 5
      BY <1>9
    <3>5. x \in Seq(Tokens) /\ b \in Seq(Bytes) /\ H \in Nat /\ ch \in Seq(Bytes)
      BY <1>1, <1>3, <1>4, <2>1
    <3>6. o[c] + Len(ch) + 5 <= Len(x)
      BY <2>9
    <3>7. ChunkAt(m, r, Len(ch), H + o[c], d[c])
      <4>1. o[c] \in Nat /\ d[c] \in Nat /\ \A j \in 1..Len(x) : r[H + j] = x[j]
        BY <1>10, <2>5
      <4> HIDE DEF o, d, x, r
      <4> QED
        BY ONLY <3>1, <3>2, <3>3, <3>4, <3>5, <3>6, <4>1, OneChunk, ZenonT(40)
    <3> QED
      BY <2>8, <3>7
  <2> QED
    BY <2>1, <2>7, <2>9, <2>10
<1>14. ChunksAt(m, r)
  BY <1>4, <1>6, <1>11, <1>12, <1>13 DEF ChunksAt, p, d, b, H, k, len
<1> QED
  BY <1>8, <1>14 DEF r, y, x

\* Where everything is in a response.
LEMMA WireLayout ==
  ASSUME NEW m \in Messages
  PROVE  /\ Render(m) \in Seq(Tokens)
         /\ HeadAt(m, Render(m))
         /\ PlainAt(m, Render(m))
         /\ ChunksAt(m, Render(m))
<1> DEFINE h == Lines(<<m.status>> \o m.headers) \o CRLF
<1>1. h \in Seq(Tokens) /\ Len(h) = HeadLength(m) /\ HeadAt(m, h)
  BY HeadLayout
<1>2. Render(m) = h \o (IF IsChunked(m) THEN Chunks(m) \o <<<<"size", 0>>>> \o CRLF \o CRLF
                        ELSE FlattenSeq(m.chunks))
  BY DEF Render
<1> HIDE DEF h
<1>3. CASE IsChunked(m)
  <2> DEFINE y == Chunks(m) \o <<<<"size", 0>>>> \o CRLF \o CRLF
  <2>1. Render(m) = h \o y
    BY <1>2, <1>3
  <2>2. h \o y \in Seq(Tokens) /\ ChunksAt(m, h \o y)
    BY <1>1, ChunkedLayout
  <2>3. y \in Seq(Tokens)
    BY ChunkTextsAt, StartsAt, LastChunkAt
  <2> HIDE DEF y
  <2>4. HeadAt(m, h \o y)
    BY <1>1, <2>3, HeadKept
  <2>5. PlainAt(m, h \o y)
    BY <1>3 DEF PlainAt
  <2> QED
    BY <2>1, <2>2, <2>4, <2>5
<1>4. CASE ~IsChunked(m)
  <2>1. Render(m) = h \o Body(m)
    BY <1>2, <1>4 DEF Body
  <2>2. Body(m) \in Seq(Tokens)
    <3>1. Bytes \subseteq Tokens
      BY DEF Tokens
    <3> QED
      BY <3>1, MessageParts, SeqMonotonic
  <2>3. /\ h \o Body(m) \in Seq(Tokens) /\ Len(h \o Body(m)) = Len(h) + Len(Body(m))
        /\ \A j \in 1..Len(Body(m)) : (h \o Body(m))[Len(h) + j] = Body(m)[j]
    <3>1. h \in Seq(Tokens)
      BY <1>1
    <3> QED
      BY <2>2, <3>1, ConcatAt
  <2>4. HeadAt(m, h \o Body(m))
    BY <1>1, <2>2, HeadKept
  <2>5. PlainAt(m, h \o Body(m))
    BY <1>1, <2>3 DEF PlainAt
  <2>6. ChunksAt(m, h \o Body(m))
    BY <1>4 DEF ChunksAt
  <2> QED
    BY <2>1, <2>3, <2>4, <2>5, <2>6
<1> QED
  BY <1>3, <1>4

-----------------------------------------------------------------------------
(* The helpers of the code.                                                  *)

\* The pattern begins at place i of s.
PatternAt(s, p, i) ==
  /\ i + Len(p) <= Len(s) + 1
  /\ \A j \in 1..Len(p) : s[i + j - 1] = p[j]

\* The pattern begins what is left of s from i on iff it occurs at i.
LEMMA PrefixAt ==
  ASSUME NEW X, NEW s \in Seq(X), NEW p \in Seq(X), NEW i \in 1..Len(s)
  PROVE  IsPrefix(p, SubSeq(s, i, Len(s))) <=> PatternAt(s, p, i)
<1> DEFINE n == Len(p)
           t == SubSeq(s, i, Len(s))
<1>1. /\ n \in Nat /\ t \in Seq(X) /\ Len(t) = Len(s) - i + 1 /\ Len(s) \in Nat
      /\ \A j \in 1..Len(t) : t[j] = s[i + j - 1]
  BY SubSeqProperties
<1>2. n <= Len(t) <=> i + n <= Len(s) + 1
  BY <1>1
<1>3. ASSUME n <= Len(t)
      PROVE  SubSeq(p, 1, n) = SubSeq(t, 1, n) <=> \A j \in 1..n : p[j] = s[i + j - 1]
  <2>1. SubSeq(p, 1, n) = p
    OBVIOUS
  <2> HIDE DEF t
  <2>2. /\ SubSeq(t, 1, n) \in Seq(X) /\ Len(SubSeq(t, 1, n)) = n
        /\ \A j \in 1..n : SubSeq(t, 1, n)[j] = t[j]
    BY <1>1, <1>3
  <2>3. \A j \in 1..n : t[j] = s[i + j - 1]
    BY <1>1, <1>3
  <2>4. (SubSeq(t, 1, n) = p) <=> \A j \in 1..n : SubSeq(t, 1, n)[j] = p[j]
    BY <2>2, SeqEqual
  <2> QED
    BY <2>1, <2>2, <2>3, <2>4
<1> QED
  BY <1>2, <1>3 DEF IsPrefix, PatternAt

\* The search ends at the first occurrence ...
LEMMA FindFirst ==
  ASSUME NEW X, NEW s \in Seq(X), NEW p \in Seq(X), NEW i \in 1..Len(s), PatternAt(s, p, i),
         \A k \in 1..(i - 1) : ~PatternAt(s, p, k)
  PROVE  Find(s, p) = i
<1> DEFINE at == {k \in DOMAIN s : IsPrefix(p, SubSeq(s, k, Len(s)))}
<1>1. at = {k \in 1..Len(s) : PatternAt(s, p, k)}
  BY PrefixAt
<1> HIDE DEF at
<1>2. i \in at /\ \A k \in at : i <= k /\ k \in Nat
  <2>1. ASSUME NEW k \in at PROVE i <= k /\ k \in Nat
    <3>1. k \in 1..Len(s) /\ PatternAt(s, p, k)
      BY <1>1
    <3>2. k \notin 1..(i - 1)
      BY <3>1
    <3> QED
      BY <3>1, <3>2
  <2> QED
    BY <1>1, <2>1
<1>3. Min(at) \in at /\ \A k \in at : Min(at) <= k
  BY <1>2 DEF Min
<1>4. Min(at) = i
  <2>1. i <= Min(at) /\ Min(at) \in Nat /\ Min(at) <= i
    BY <1>2, <1>3
  <2> QED
    BY <2>1
<1> QED
  BY <1>2, <1>4 DEF Find, at

\* ... and returns 0 if there is none.
LEMMA FindNone ==
  ASSUME NEW X, NEW s \in Seq(X), NEW p \in Seq(X), \A k \in 1..Len(s) : ~PatternAt(s, p, k)
  PROVE  Find(s, p) = 0
<1>1. {k \in DOMAIN s : IsPrefix(p, SubSeq(s, k, Len(s)))} = {}
  BY PrefixAt
<1> QED
  BY <1>1 DEF Find

\* An occurrence of the line end.
LEMMA CrlfPattern ==
  ASSUME NEW s \in Seq(Tokens), NEW i \in 1..Len(s)
  PROVE  PatternAt(s, CRLF, i) <=> i < Len(s) /\ s[i] = CR /\ s[i + 1] = LF
<1>1. i + 1 - 1 = i /\ i + 2 - 1 = i + 1
  OBVIOUS
<1>2. (i + 2 <= Len(s) + 1) <=> i < Len(s)
  OBVIOUS
<1>3. (\A j \in 1..2 : s[i + j - 1] = CRLF[j]) <=> (s[i + 1 - 1] = CRLF[1] /\ s[i + 2 - 1] = CRLF[2])
  <2>1. \A j \in 1..2 : j = 1 \/ j = 2
    OBVIOUS
  <2> QED
    BY <2>1
<1> QED
  BY <1>1, <1>2, <1>3, CrlfTokens DEF PatternAt

\* A line of one text, as far as it has arrived.
LEMMA FindLine ==
  ASSUME NEW s \in Seq(Tokens), Len(s) > 0 => s[1] # CR,
         Len(s) > 1 => s[2] = CR, Len(s) > 2 => s[3] = LF
  PROVE  Find(s, CRLF) = IF Len(s) > 2 THEN 2 ELSE 0
<1>1. CRLF \in Seq(Tokens)
  BY CrlfTokens
<1>2. \A k \in 1..Len(s) : PatternAt(s, CRLF, k) => k # 1 /\ k < Len(s)
  BY CrlfPattern
<1>3. CASE Len(s) > 2
  <2>1. 2 \in 1..Len(s) /\ PatternAt(s, CRLF, 2)
    BY <1>3, CrlfPattern
  <2>2. \A k \in 1..(2 - 1) : ~PatternAt(s, CRLF, k)
    BY <1>2, <1>3
  <2> QED
    BY <1>1, <1>3, <2>1, <2>2, FindFirst
<1>4. CASE ~(Len(s) > 2)
  <2>1. \A k \in 1..Len(s) : ~PatternAt(s, CRLF, k)
    BY <1>2, <1>4
  <2> QED
    BY <1>1, <1>4, <2>1, FindNone
<1> QED
  BY <1>3, <1>4

\* The empty line, as far as it has arrived.
LEMMA FindEmptyLine ==
  ASSUME NEW s \in Seq(Tokens), Len(s) > 0 => s[1] = CR, Len(s) > 1 => s[2] = LF
  PROVE  Find(s, CRLF) = IF Len(s) > 1 THEN 1 ELSE 0
<1>1. CRLF \in Seq(Tokens)
  BY CrlfTokens
<1>2. CASE Len(s) > 1
  <2>1. 1 \in 1..Len(s) /\ PatternAt(s, CRLF, 1)
    BY <1>2, CrlfPattern
  <2>2. \A k \in 1..(1 - 1) : ~PatternAt(s, CRLF, k)
    OBVIOUS
  <2> QED
    BY <1>1, <1>2, <2>1, <2>2, FindFirst
<1>3. CASE ~(Len(s) > 1)
  <2>1. \A k \in 1..Len(s) : ~PatternAt(s, CRLF, k)
    BY <1>3, CrlfPattern
  <2> QED
    BY <1>1, <1>3, <2>1, FindNone
<1> QED
  BY <1>2, <1>3

\* What is before a place and what begins there.
LEMMA CutAt ==
  ASSUME NEW X, NEW s \in Seq(X), NEW n \in 0..Len(s)
  PROVE  /\ Before(s, n + 1) \in Seq(X) /\ Len(Before(s, n + 1)) = n
         /\ \A i \in 1..n : Before(s, n + 1)[i] = s[i]
         /\ From(s, n + 1) \in Seq(X) /\ Len(From(s, n + 1)) = Len(s) - n
         /\ \A i \in 1..(Len(s) - n) : From(s, n + 1)[i] = s[n + i]
<1>1. n \in Nat /\ n <= Len(s) /\ Len(s) \in Nat /\ n + 1 # 0 /\ (n + 1) - 1 = n
  OBVIOUS
<1>2. Before(s, n + 1) = SubSeq(s, 1, n) /\ From(s, n + 1) = SubSeq(s, n + 1, Len(s))
  BY <1>1 DEF Before, From
<1>3. /\ SubSeq(s, 1, n) \in Seq(X) /\ Len(SubSeq(s, 1, n)) = n
      /\ \A i \in 1..n : SubSeq(s, 1, n)[i] = s[i]
  BY <1>1
<1>4. /\ SubSeq(s, n + 1, Len(s)) \in Seq(X) /\ Len(SubSeq(s, n + 1, Len(s))) = Len(s) - n
      /\ \A i \in 1..(Len(s) - n) : SubSeq(s, n + 1, Len(s))[i] = s[n + i]
  BY <1>1, SubSeqProperties
<1> QED
  BY <1>2, <1>3, <1>4

-----------------------------------------------------------------------------
(* The stream.  a has been received and not been parsed, b has not been          *)
(* received, and k tokens of the response r have been parsed; the rest of r is  *)
(* a and b, unless some of it never comes.                                    *)

Stream(r, k, a, b, short) ==
  /\ k \in Nat
  /\ a \in Seq(Tokens)
  /\ b \in Seq(Tokens)
  /\ k + Len(a) + Len(b) <= Len(r)
  /\ short \/ k + Len(a) + Len(b) = Len(r)
  /\ \A i \in 1..Len(a) : a[i] = r[k + i]
  /\ \A i \in 1..Len(b) : b[i] = r[k + Len(a) + i]

\* recv() moves the beginning of what is to come behind what is there.
LEMMA StreamRecv ==
  ASSUME NEW r \in Seq(Tokens), NEW k, NEW a, NEW b, NEW short,
         Stream(r, k, a, b, short), NEW n \in 0..Len(b)
  PROVE  Stream(r, k, a \o Before(b, n + 1), From(b, n + 1), short)
<1>1. k \in Nat /\ a \in Seq(Tokens) /\ b \in Seq(Tokens) /\ Len(a) \in Nat /\ Len(b) \in Nat /\ Len(r) \in Nat
  BY DEF Stream
<1> DEFINE u == Before(b, n + 1)
           v == From(b, n + 1)
           w == a \o u
<1>2. /\ u \in Seq(Tokens) /\ Len(u) = n /\ \A i \in 1..n : u[i] = b[i]
      /\ v \in Seq(Tokens) /\ Len(v) = Len(b) - n /\ \A i \in 1..(Len(b) - n) : v[i] = b[n + i]
  BY <1>1, CutAt
<1> HIDE DEF u, v
<1>3. /\ w \in Seq(Tokens) /\ Len(w) = Len(a) + Len(u)
      /\ \A j \in 1..Len(a) : w[j] = a[j]
      /\ \A j \in 1..Len(u) : w[Len(a) + j] = u[j]
  <2>1. a \in Seq(Tokens) /\ u \in Seq(Tokens)
    BY <1>1, <1>2
  <2> QED
    BY <2>1, ConcatAt
<1> HIDE DEF w
<1>4. Len(w) = Len(a) + n /\ k + Len(w) + Len(v) = k + Len(a) + Len(b)
  BY <1>1, <1>2, <1>3
<1>5. ASSUME NEW i \in 1..Len(w) PROVE w[i] = r[k + i]
  <2>1. CASE i <= Len(a)
    BY <1>1, <1>3, <2>1 DEF Stream
  <2>2. CASE ~(i <= Len(a))
    <3>1. i - Len(a) \in 1..n /\ Len(a) + (i - Len(a)) = i /\ i - Len(a) \in 1..Len(b)
      BY <1>1, <1>4, <2>2
    <3>2. w[i] = b[i - Len(a)]
      BY <1>2, <1>3, <3>1
    <3>3. b[i - Len(a)] = r[k + Len(a) + (i - Len(a))]
      BY <3>1 DEF Stream
    <3>4. k + Len(a) + (i - Len(a)) = k + i
      BY <1>1
    <3> QED
      BY <3>2, <3>3, <3>4
  <2> QED
    BY <2>1, <2>2
<1>6. ASSUME NEW i \in 1..Len(v) PROVE v[i] = r[k + Len(w) + i]
  <2>1. n + i \in 1..Len(b) /\ v[i] = b[n + i] /\ k + Len(a) + (n + i) = k + Len(w) + i
    BY <1>1, <1>2, <1>4
  <2> QED
    BY <2>1 DEF Stream
<1>7. Stream(r, k, w, v, short)
  BY <1>1, <1>2, <1>3, <1>4, <1>5, <1>6 DEF Stream
<1> QED
  BY <1>7 DEF u, v, w

\* Tokens are taken off the front.
LEMMA StreamTake ==
  ASSUME NEW r \in Seq(Tokens), NEW k, NEW a, NEW b, NEW short,
         Stream(r, k, a, b, short), NEW n \in 0..Len(a)
  PROVE  Stream(r, k + n, From(a, n + 1), b, short) /\ Len(From(a, n + 1)) = Len(a) - n
<1>1. k \in Nat /\ a \in Seq(Tokens) /\ b \in Seq(Tokens) /\ Len(a) \in Nat /\ Len(b) \in Nat
  BY DEF Stream
<1> DEFINE v == From(a, n + 1)
<1>2. v \in Seq(Tokens) /\ Len(v) = Len(a) - n /\ \A i \in 1..(Len(a) - n) : v[i] = a[n + i]
  BY <1>1, CutAt
<1> HIDE DEF v
<1>3. (k + n) + Len(v) + Len(b) = k + Len(a) + Len(b) /\ (k + n) + Len(v) = k + Len(a)
  BY <1>1, <1>2
<1>4. ASSUME NEW i \in 1..Len(v) PROVE v[i] = r[(k + n) + i]
  <2>1. n + i \in 1..Len(a) /\ v[i] = a[n + i] /\ k + (n + i) = (k + n) + i
    BY <1>1, <1>2
  <2> QED
    BY <2>1 DEF Stream
<1>5. \A i \in 1..Len(b) : b[i] = r[(k + n) + Len(v) + i]
  BY <1>3 DEF Stream
<1>6. (k + n) + Len(v) + Len(b) <= Len(r) /\ (short \/ (k + n) + Len(v) + Len(b) = Len(r))
  BY <1>3 DEF Stream
<1>7. Stream(r, k + n, v, b, short)
  BY <1>1, <1>2, <1>4, <1>5, <1>6 DEF Stream
<1> QED
  BY <1>2, <1>7 DEF v

\* The end of what is to come is lost.
LEMMA StreamCut ==
  ASSUME NEW r \in Seq(Tokens), NEW k, NEW a, NEW b, NEW short, NEW short2,
         Stream(r, k, a, b, short), NEW n \in 0..Len(b),
         short2 \/ (~short /\ Before(b, n + 1) = b)
  PROVE  Stream(r, k, a, Before(b, n + 1), short2)
<1>1. k \in Nat /\ a \in Seq(Tokens) /\ b \in Seq(Tokens) /\ Len(a) \in Nat /\ Len(b) \in Nat /\ Len(r) \in Nat
  BY DEF Stream
<1>2. CASE Before(b, n + 1) = b
  BY <1>1, <1>2 DEF Stream
<1>3. CASE short2
  <2> DEFINE u == Before(b, n + 1)
  <2>1. u \in Seq(Tokens) /\ Len(u) = n /\ \A i \in 1..n : u[i] = b[i]
    BY <1>1, CutAt
  <2> HIDE DEF u
  <2>2. k + Len(a) + Len(u) <= Len(r)
    BY <1>1, <2>1 DEF Stream
  <2>3. \A i \in 1..Len(u) : u[i] = r[k + Len(a) + i]
    <3>1. \A i \in 1..n : i \in 1..Len(b)
      BY <1>1
    <3>2. \A i \in 1..Len(b) : b[i] = r[k + Len(a) + i]
      BY DEF Stream
    <3> QED
      BY <2>1, <3>1, <3>2
  <2>4. Stream(r, k, a, u, short2)
    BY <1>1, <1>3, <2>1, <2>2, <2>3 DEF Stream
  <2> QED
    BY <2>4 DEF u
<1> QED
  BY <1>2, <1>3

\* What is there is the response from its place on.
LEMMA StreamAt ==
  ASSUME NEW r \in Seq(Tokens), NEW k, NEW a, NEW b, NEW short, Stream(r, k, a, b, short)
  PROVE  /\ k \in Nat /\ a \in Seq(Tokens) /\ b \in Seq(Tokens)
         /\ Len(a) \in Nat /\ Len(b) \in Nat /\ Len(r) \in Nat
         /\ k + Len(a) + Len(b) <= Len(r)
         /\ ~short => k + Len(a) + Len(b) = Len(r)
         /\ Len(a) > 0 => a[1] = r[k + 1]
         /\ Len(a) > 1 => a[2] = r[k + 2]
         /\ Len(a) > 2 => a[3] = r[k + 3]
         /\ \A i \in 1..Len(a) : a[i] = r[k + i]
  BY DEF Stream

\* The beginning of b, of which all are there.
Prefix(a, b) == Len(a) <= Len(b) /\ \A i \in 1..Len(a) : a[i] = b[i]

\* It is the beginning that IsPrefix() means; a beginning as long as b is b.
LEMMA PrefixIs ==
  ASSUME NEW X, NEW a \in Seq(X), NEW b \in Seq(X)
  PROVE  /\ Prefix(a, b) => IsPrefix(a, b)
         /\ Prefix(a, b) /\ Len(a) >= Len(b) => a = b
<1>1. Len(a) \in Nat /\ Len(b) \in Nat
  OBVIOUS
<1>2. ASSUME Prefix(a, b) PROVE IsPrefix(a, b)
  <2>1. Len(a) <= Len(b) /\ SubSeq(a, 1, Len(a)) = a
    BY <1>2 DEF Prefix
  <2>2. /\ SubSeq(b, 1, Len(a)) \in Seq(X) /\ Len(SubSeq(b, 1, Len(a))) = Len(a)
        /\ \A i \in 1..Len(a) : SubSeq(b, 1, Len(a))[i] = b[i]
    BY <1>1, <2>1
  <2>3. \A i \in 1..Len(a) : a[i] = b[i]
    BY <1>2 DEF Prefix
  <2>4. SubSeq(b, 1, Len(a)) = a
    BY <2>2, <2>3, SeqEqual
  <2> QED
    BY <2>1, <2>4 DEF IsPrefix
<1>3. ASSUME Prefix(a, b), Len(a) >= Len(b) PROVE a = b
  <2>1. Len(a) = Len(b) /\ \A i \in 1..Len(a) : a[i] = b[i]
    BY <1>1, <1>3 DEF Prefix
  <2> QED
    BY <2>1, SeqEqual
<1> QED
  BY <1>2, <1>3

-----------------------------------------------------------------------------
(* The invariant.                                                            *)

\* What send() returns for a whole response, and while it is under way.
StatusNumber(m) == IF m.status = NoStatus THEN 0 ELSE m.status[2]
Complete(m) == [status |-> StatusNumber(m), headers |-> m.headers, body |-> Body(m)]
Running == pc \notin {"returned", "threw"}

\* What does not change is what HttpAssumption admits, and the response is one that
\* the code reads as the server meant it.
GivenInv == parts \in Urls /\ form \in Forms /\ msg \in Messages /\ Understood(msg)

\* The types, and the place in send() that goes with them.
KindInv ==
  /\ pc \in {"open", "send", "recv", "headers", "body", "returned", "threw"}
  /\ peer \in {"open", "closed"}
  /\ lost \in BOOLEAN /\ firstLine \in BOOLEAN /\ parsedHeaders \in BOOLEAN
  /\ chunkedResponse \in BOOLEAN /\ removeCrlfAfterChunk \in BOOLEAN
  /\ contentLengthReceived \in BOOLEAN
  /\ contentLength \in Nat
  /\ expectedChunkSize \in Nat
  /\ response \in [status : Nat, headers : Seq(HeaderTexts), body : Seq(Bytes)]
  /\ thrown \in {"nothing", "scheme", "system", "parser"}
  /\ pc = "threw" <=> thrown # "nothing"
  /\ peer = "open" => ~lost
  /\ pc = "headers" => ~parsedHeaders
  /\ pc = "body" => parsedHeaders
  /\ pc \in {"open", "send"} => firstLine /\ rd = <<>> /\ ~parsedHeaders
  /\ firstLine => response.headers = <<>> /\ response.status = 0
  /\ parsedHeaders => ~firstLine

\* What the headers read so far say about the end of the body.
FramingInv ==
  Running =>
    /\ contentLengthReceived <=> \E h \in Range(response.headers) : h[1] = "Content-Length"
    /\ chunkedResponse <=> \E h \in Range(response.headers) : h[1] = "Transfer-Encoding"
    /\ \A h \in Range(response.headers) : ~HeaderThrows(h)
    /\ contentLengthReceived => IsChunked(msg) \/ contentLength = Len(Body(msg))

\* In the head: before the line that follows those that were read.
HeaderPlace == IF firstLine THEN 0 ELSE 3 * (Len(response.headers) + 1)

\* While the headers are read, the next text is the one behind those that were read.
HeadersInv ==
  (Running /\ ~parsedHeaders) =>
    /\ Stream(Render(msg), HeaderPlace, rd, net, lost)
    /\ Prefix(response.headers, msg.headers)
    /\ ~firstLine => response.status = StatusNumber(msg)
    /\ response.body = <<>>
    /\ expectedChunkSize = 0
    /\ ~removeCrlfAfterChunk
    /\ pc = "recv" => Find(rd, CRLF) = 0

\* Behind the empty line the head is complete.
BodyInv ==
  parsedHeaders => response.headers = msg.headers /\ response.status = StatusNumber(msg)

\* In a body without chunks: all of it that has arrived has been taken.
PlainInv ==
  (Running /\ parsedHeaders /\ ~chunkedResponse) =>
    /\ Stream(Render(msg), HeadLength(msg) + Len(response.body), rd, net, lost)
    /\ Prefix(response.body, Body(msg))
    /\ pc = "recv" => rd = <<>> /\ (contentLengthReceived => Len(response.body) < Len(Body(msg)))

\* In a body with chunks: before chunk c, in its data, or between these and the line
\* end behind them.
AtChunk(c) ==
  /\ expectedChunkSize = 0
  /\ ~removeCrlfAfterChunk
  /\ Stream(Render(msg), ChunkStart(msg)[c], rd, net, lost)
  /\ Len(response.body) = BodyStart(msg)[c]
  /\ pc = "recv" => Find(rd, CRLF) = 0

\* done bytes of chunk c have been taken.
InData(c) ==
  LET done == Len(msg.chunks[c]) - expectedChunkSize IN
  /\ c <= Len(msg.chunks)
  /\ expectedChunkSize \in 1..Len(msg.chunks[c])
  /\ ~removeCrlfAfterChunk
  /\ Stream(Render(msg), ChunkStart(msg)[c] + 3 + done, rd, net, lost)
  /\ Len(response.body) = BodyStart(msg)[c] + done
  /\ pc = "recv" => rd = <<>>

\* All bytes of chunk c have been taken, the line end behind them has not.
PastData(c) ==
  /\ c <= Len(msg.chunks)
  /\ expectedChunkSize = 0
  /\ removeCrlfAfterChunk
  /\ Stream(Render(msg), ChunkStart(msg)[c] + 3 + Len(msg.chunks[c]), rd, net, lost)
  /\ Len(response.body) = BodyStart(msg)[c] + Len(msg.chunks[c])
  /\ pc = "recv" => Len(rd) < 2

\* The place in a chunked body is one of these for some chunk.
ChunkInv ==
  (Running /\ parsedHeaders /\ chunkedResponse) =>
    /\ Prefix(response.body, Body(msg))
    /\ \E c \in 1..(Len(msg.chunks) + 1) : AtChunk(c) \/ InData(c) \/ PastData(c)

\* What the caller gets to see.
ResultInv ==
  /\ Prefix(response.headers, msg.headers)
  /\ Prefix(response.body, Body(msg))
  /\ response.body # <<>> => response.headers = msg.headers
  /\ pc = "returned" => lost \/ response = Complete(msg)
  /\ NeverMisframed

HttpInv ==
  /\ GivenInv
  /\ KindInv
  /\ FramingInv
  /\ HeadersInv
  /\ BodyInv
  /\ PlainInv
  /\ ChunkInv
  /\ ResultInv

-----------------------------------------------------------------------------
(* What the parser finds, wherever it is.                                    *)

\* The next line of the head is the next text of the response, or the empty line.
LEMMA HeadLine ==
  ASSUME GivenInv, KindInv, HeadersInv, Running, ~parsedHeaders
  PROVE  LET j == Len(response.headers)
             n == Len(msg.headers)
             text == IF firstLine THEN msg.status ELSE msg.headers[j + 1] IN
         /\ j \in Nat /\ n \in Nat /\ j <= n
         /\ HeaderPlace = (IF firstLine THEN 0 ELSE 3 * j + 3)
         /\ firstLine => j = 0
         /\ (firstLine \/ j < n) =>
              /\ Find(rd, CRLF) = IF Len(rd) > 2 THEN 2 ELSE 0
              /\ Len(rd) > 2 => rd[1] = text
              /\ (net = <<>> /\ ~lost) => Len(rd) > 2
         /\ ~(firstLine \/ j < n) =>
              /\ Find(rd, CRLF) = IF Len(rd) > 1 THEN 1 ELSE 0
              /\ (net = <<>> /\ ~lost) => Len(rd) > 1
<1> DEFINE j == Len(response.headers)
           n == Len(msg.headers)
           r == Render(msg)
           k == HeaderPlace
           text == IF firstLine THEN msg.status ELSE msg.headers[j + 1]
<1>1. j \in Nat /\ n \in Nat /\ j <= n
  BY MessageParts DEF GivenInv, KindInv, HeadersInv, Prefix
<1>2. firstLine => j = 0
  BY DEF KindInv
<1>3. k = (IF firstLine THEN 0 ELSE 3 * j + 3)
  BY <1>1 DEF HeaderPlace
<1>4. r \in Seq(Tokens) /\ HeadAt(msg, r)
  BY WireLayout DEF GivenInv
<1>5. Stream(r, k, rd, net, lost)
  BY DEF HeadersInv
<1> HIDE DEF r, k
<1>6. /\ rd \in Seq(Tokens) /\ Len(rd) \in Nat /\ Len(r) \in Nat
      /\ (net = <<>> /\ ~lost) => k + Len(rd) = Len(r)
      /\ Len(rd) > 0 => rd[1] = r[k + 1]
      /\ Len(rd) > 1 => rd[2] = r[k + 2]
      /\ Len(rd) > 2 => rd[3] = r[k + 3]
  BY <1>4, <1>5, StreamAt
<1>7. Len(r) >= 3 * n + 5
  BY <1>4 DEF HeadAt, HeadLength
<1>8. CASE firstLine \/ j < n
  <2>1. r[k + 1] = text /\ r[k + 2] = CR /\ r[k + 3] = LF /\ k <= 3 * n /\ k \in Nat
    <3>1. CASE firstLine
      BY <1>1, <1>3, <1>4, <3>1 DEF HeadAt
    <3>2. CASE ~firstLine
      <4>1. j + 1 \in 1..n /\ k = 3 * (j + 1)
        BY <1>1, <1>3, <1>8, <3>2
      <4>2. /\ r[3 * (j + 1) + 1] = msg.headers[j + 1]
            /\ r[3 * (j + 1) + 2] = CR /\ r[3 * (j + 1) + 3] = LF
        BY <1>4, <4>1 DEF HeadAt
      <4> QED
        BY <1>1, <3>2, <4>1, <4>2
    <3> QED
      BY <3>1, <3>2
  <2>2. text # CR
    <3>1. msg.status \in StatusTexts /\ msg.headers \in Seq(HeaderTexts)
      BY MessageParts DEF GivenInv
    <3>2. text \in StatusTexts \cup HeaderTexts
      BY <1>1, <1>8, <3>1
    <3>3. CR \notin StatusTexts \cup HeaderTexts
      <4>1. \A A, B : <<"CR">> \notin A \X B
        OBVIOUS
      <4>2. <<"CR">> # <<"text status", 0>> /\ <<"CR">> # <<"no status", 0>>
        OBVIOUS
      <4> QED
        BY <4>1, <4>2 DEF CR, StatusTexts, HeaderTexts, BadStatus, NoStatus
    <3> QED
      BY <3>2, <3>3
  <2> HIDE DEF text
  <2>3. Find(rd, CRLF) = IF Len(rd) > 2 THEN 2 ELSE 0
    BY <1>6, <2>1, <2>2, FindLine
  <2>4. (net = <<>> /\ ~lost) => Len(rd) > 2
    BY <1>1, <1>6, <1>7, <2>1
  <2> QED
    BY <1>1, <1>2, <1>3, <1>6, <1>8, <2>1, <2>3, <2>4 DEF text, k
<1>9. CASE ~(firstLine \/ j < n)
  <2>1. k = 3 * n + 3 /\ j = n
    BY <1>1, <1>3, <1>9
  <2>2. r[k + 1] = CR /\ r[k + 2] = LF
    BY <1>1, <1>4, <2>1 DEF HeadAt
  <2>3. Find(rd, CRLF) = IF Len(rd) > 1 THEN 1 ELSE 0
    BY <1>6, <2>2, FindEmptyLine
  <2>4. (net = <<>> /\ ~lost) => Len(rd) > 1
    BY <1>1, <1>6, <1>7, <2>1
  <2> QED
    BY <1>1, <1>2, <1>3, <1>9, <2>3, <2>4 DEF k
<1> QED
  BY <1>8, <1>9

\* Once the headers are read, what was noted of them is what they say.
LEMMA ChunkedIs ==
  ASSUME GivenInv, FramingInv, Running, response.headers = msg.headers
  PROVE  /\ chunkedResponse <=> IsChunked(msg)
         /\ contentLengthReceived <=> HasLength(msg)
         /\ contentLengthReceived /\ ~chunkedResponse => contentLength = Len(Body(msg))
<1> DEFINE H == Range(msg.headers)
<1>1. response.headers = msg.headers
  OBVIOUS
<1>2. /\ contentLengthReceived <=> \E h \in H : h[1] = "Content-Length"
      /\ chunkedResponse <=> \E h \in H : h[1] = "Transfer-Encoding"
      /\ \A h \in H : ~HeaderThrows(h)
      /\ contentLengthReceived => IsChunked(msg) \/ contentLength = Len(Body(msg))
  BY <1>1 DEF FramingInv
<1>3. msg.headers \in Seq(HeaderTexts)
  BY MessageParts DEF GivenInv
<1>4. H \subseteq HeaderTexts
  BY <1>3 DEF Range
<1>5. \A h \in H : h[1] # "content-length" /\ h[1] # "transfer-encoding"
  BY DEF GivenInv, Understood
<1>6. HasLength(msg) <=> \E h \in H : h[1] = "Content-Length"
  BY <1>5 DEF HasLength, GivesLength
<1>7. ASSUME NEW h \in H, h[1] = "Transfer-Encoding" PROVE h[2] = "chunked"
  <2>1. ~HeaderThrows(h)
    BY <1>2
  <2> QED
    BY <1>7, <2>1 DEF HeaderThrows
<1>8. chunkedResponse <=> IsChunked(msg)
  BY <1>2, <1>5, <1>7 DEF IsChunked
<1> QED
  BY <1>2, <1>6, <1>8

\* The smaller of two numbers.
LEMMA MinOfTwo ==
  ASSUME NEW a \in Nat, NEW b \in Nat
  PROVE  Min({a, b}) = IF a <= b THEN a ELSE b
<1>1. Min({a, b}) \in {a, b} /\ Min({a, b}) <= a /\ Min({a, b}) <= b
  BY DEF Min
<1> QED
  BY <1>1

\* The response that is before the client when a chunk, or the last one, begins.
LEMMA SizeLine ==
  ASSUME NEW m \in Messages, IsChunked(m), NEW c \in 1..(Len(m.chunks) + 1),
         NEW a, NEW b, NEW short, Stream(Render(m), ChunkStart(m)[c], a, b, short)
  PROVE  /\ a \in Seq(Tokens)
         /\ Find(a, CRLF) = IF Len(a) > 2 THEN 2 ELSE 0
         /\ Len(a) > 2 => a[1] = <<"size", IF c <= Len(m.chunks) THEN Len(m.chunks[c]) ELSE 0>>
         /\ Len(a) \in Nat /\ Len(b) \in Nat
         /\ ChunkStart(m)[c] \in Nat /\ ChunkStart(m)[c] + 5 <= Len(Render(m))
         /\ c <= Len(m.chunks) => Len(m.chunks[c]) \in Nat \ {0}
<1> DEFINE r == Render(m)
           k == ChunkStart(m)[c]
           n == Len(m.chunks)
           size == IF c <= n THEN Len(m.chunks[c]) ELSE 0
<1>1. r \in Seq(Tokens) /\ ChunksAt(m, r)
  BY WireLayout
<1>2. n \in Nat /\ \A i \in 1..n : Len(m.chunks[i]) \in Nat \ {0}
  <2>1. m.chunks \in Seq(Seq(Bytes)) /\ \A i \in 1..n : m.chunks[i] \in Seq(Bytes) /\ Len(m.chunks[i]) > 0
    BY MessageParts
  <2>2. n \in Nat
    BY <2>1
  <2>3. ASSUME NEW i \in 1..n PROVE Len(m.chunks[i]) \in Nat \ {0}
    <3>1. m.chunks[i] \in Seq(Bytes) /\ Len(m.chunks[i]) > 0
      BY <2>1
    <3> QED
      BY <3>1
  <2> QED
    BY <2>2, <2>3
<1>3. c <= n => c \in 1..n /\ Len(m.chunks[c]) \in Nat \ {0}
  BY <1>2
<1>4. Stream(r, k, a, b, short)
  OBVIOUS
<1>5. /\ r[k + 1] = <<"size", size>> /\ r[k + 2] = CR /\ r[k + 3] = LF
      /\ k + 5 <= Len(r)
  <2>1. CASE c <= n
    <3>1. ChunkAt(m, r, Len(m.chunks[c]), k, BodyStart(m)[c])
      BY <1>1, <1>3, <2>1 DEF ChunksAt
    <3>2. k \in Nat /\ Len(m.chunks[c]) \in Nat /\ Len(r) \in Nat
      BY <1>1, <1>3, <1>4, <2>1 DEF Stream
    <3>3. /\ r[k + 1] = <<"size", Len(m.chunks[c])>> /\ r[k + 2] = CR /\ r[k + 3] = LF
          /\ k + Len(m.chunks[c]) + 10 <= Len(r)
      BY <3>1 DEF ChunkAt
    <3> HIDE DEF r, k
    <3>4. k + 5 <= Len(r)
      BY <3>2, <3>3
    <3> QED
      BY <2>1, <3>3, <3>4
  <2>2. CASE ~(c <= n)
    <3>1. c = n + 1
      BY <1>2, <2>2
    <3>2. /\ ChunkStart(m)[n + 1] + 5 = Len(r)
          /\ r[ChunkStart(m)[n + 1] + 1] = <<"size", 0>>
          /\ r[ChunkStart(m)[n + 1] + 2] = CR /\ r[ChunkStart(m)[n + 1] + 3] = LF
      BY <1>1 DEF ChunksAt
    <3>3. k \in Nat /\ Len(r) \in Nat
      BY <1>1, <1>4 DEF Stream
    <3> QED
      BY <2>2, <3>1, <3>2, <3>3
  <2> QED
    BY <2>1, <2>2
<1> HIDE DEF r, k, size
<1>6. /\ a \in Seq(Tokens) /\ Len(a) \in Nat /\ Len(b) \in Nat /\ k \in Nat /\ Len(r) \in Nat
      /\ ~short => k + Len(a) + Len(b) = Len(r)
      /\ Len(a) > 0 => a[1] = r[k + 1]
      /\ Len(a) > 1 => a[2] = r[k + 2]
      /\ Len(a) > 2 => a[3] = r[k + 3]
  BY <1>1, <1>4, StreamAt
<1>7. <<"size", size>> # CR
  BY DEF CR
<1>8. Find(a, CRLF) = IF Len(a) > 2 THEN 2 ELSE 0
  BY <1>5, <1>6, <1>7, FindLine
<1>9. Len(a) > 2 => a[1] = <<"size", size>>
  BY <1>5, <1>6
<1> QED
  BY <1>3, <1>5, <1>6, <1>8, <1>9 DEF r, k, size

\* Where everything is in a chunked response that is being read.
LEMMA ChunkPlaces ==
  ASSUME NEW m \in Messages, IsChunked(m), NEW c \in 1..(Len(m.chunks) + 1)
  PROVE  /\ Render(m) \in Seq(Tokens) /\ Len(Render(m)) \in Nat
         /\ Len(m.chunks) \in Nat
         /\ Len(Body(m)) \in Nat
         /\ ChunkStart(m)[c] \in Nat /\ BodyStart(m)[c] \in Nat
         /\ c <= Len(m.chunks) =>
              /\ c + 1 \in 1..(Len(m.chunks) + 1)
              /\ Len(m.chunks[c]) \in Nat \ {0}
              /\ ChunkAt(m, Render(m), Len(m.chunks[c]), ChunkStart(m)[c], BodyStart(m)[c])
              /\ ChunkStart(m)[c + 1] = ChunkStart(m)[c] + Len(m.chunks[c]) + 5
              /\ BodyStart(m)[c + 1] = BodyStart(m)[c] + Len(m.chunks[c])
         /\ c > Len(m.chunks) => BodyStart(m)[c] = Len(Body(m))
<1> DEFINE n == Len(m.chunks)
<1>1. Render(m) \in Seq(Tokens) /\ ChunksAt(m, Render(m))
  BY WireLayout
<1>2. m.chunks \in Seq(Seq(Bytes)) /\ Body(m) \in Seq(Bytes)
  BY MessageParts
<1>3. n \in Nat /\ Len(Render(m)) \in Nat /\ Len(Body(m)) \in Nat
  BY <1>1, <1>2
<1>4. ChunkStart(m)[c] \in Nat /\ BodyStart(m)[c] \in Nat
  <2>1. ChunkStart(m) \in [1..(n + 1) -> Nat] /\ BodyStart(m) \in [1..(n + 1) -> Nat]
    BY <1>1 DEF ChunksAt
  <2> QED
    BY <2>1
<1>5. ASSUME c <= n
      PROVE  /\ c + 1 \in 1..(n + 1)
             /\ Len(m.chunks[c]) \in Nat \ {0}
             /\ ChunkAt(m, Render(m), Len(m.chunks[c]), ChunkStart(m)[c], BodyStart(m)[c])
             /\ ChunkStart(m)[c + 1] = ChunkStart(m)[c] + Len(m.chunks[c]) + 5
             /\ BodyStart(m)[c + 1] = BodyStart(m)[c] + Len(m.chunks[c])
  <2>1. c \in 1..n /\ c + 1 \in 1..(n + 1)
    BY <1>3, <1>5
  <2>2. m.chunks[c] \in Seq(Bytes) /\ Len(m.chunks[c]) > 0
    BY <2>1, MessageParts
  <2>3. Len(m.chunks[c]) \in Nat \ {0}
    BY <2>2
  <2> QED
    BY <1>1, <2>1, <2>3 DEF ChunksAt
<1>6. ASSUME c > n PROVE BodyStart(m)[c] = Len(Body(m))
  <2>1. c = n + 1
    BY <1>3, <1>6
  <2> QED
    BY <1>1, <2>1 DEF ChunksAt
<1> QED
  BY <1>1, <1>3, <1>4, <1>5, <1>6

\* Between two chunks, the next one begins behind the line end of the last one.
LEMMA NextChunk ==
  ASSUME HttpInv, Running, parsedHeaders, chunkedResponse, expectedChunkSize = 0,
         ~removeCrlfAfterChunk \/ Len(rd) >= 2
  PROVE  /\ IsChunked(msg)
         /\ \E c \in 1..(Len(msg.chunks) + 1) :
              /\ Stream(Render(msg), ChunkStart(msg)[c], AfterChunk, net, lost)
              /\ Len(response.body) = BodyStart(msg)[c]
<1>1. IsChunked(msg) /\ msg \in Messages
  BY ChunkedIs DEF HttpInv, BodyInv, GivenInv
<1>2. PICK c \in 1..(Len(msg.chunks) + 1) : AtChunk(c) \/ InData(c) \/ PastData(c)
  BY DEF HttpInv, ChunkInv
<1>3. ~InData(c)
  BY DEF InData
<1>4. CASE AtChunk(c)
  BY <1>1, <1>4 DEF AtChunk, AfterChunk
<1>5. CASE PastData(c)
  <2> DEFINE p == ChunkStart(msg)[c]
             len == Len(msg.chunks[c])
             r == Render(msg)
  <2>1. /\ Stream(r, p + 3 + len, rd, net, lost) /\ c <= Len(msg.chunks)
        /\ Len(response.body) = BodyStart(msg)[c] + len /\ removeCrlfAfterChunk
    BY <1>5 DEF PastData
  <2>2. /\ r \in Seq(Tokens) /\ p \in Nat /\ len \in Nat
        /\ c + 1 \in 1..(Len(msg.chunks) + 1)
        /\ ChunkStart(msg)[c + 1] = p + len + 5
        /\ BodyStart(msg)[c + 1] = BodyStart(msg)[c] + len
    BY <1>1, <2>1, ChunkPlaces
  <2>3. Len(rd) \in Nat /\ Len(rd) >= 2
    BY <2>1, <2>2, StreamAt
  <2> HIDE DEF r, p, len
  <2>4. (p + 3 + len) + 2 = p + len + 5 /\ 2 + 1 = 3 /\ 2 \in 0..Len(rd)
    BY <2>2, <2>3
  <2>5. Stream(r, p + len + 5, From(rd, 3), net, lost)
    BY <2>1, <2>2, <2>4, StreamTake
  <2>6. AfterChunk = From(rd, 3)
    BY <2>1 DEF AfterChunk
  <2> QED
    BY <1>1, <2>1, <2>2, <2>5, <2>6 DEF r
<1> QED
  BY <1>2, <1>3, <1>4, <1>5

\* While send() waits, either more is to come or the response is complete and the
\* client cannot know it.
LEMMA WaitsForMore ==
  ASSUME HttpInv, pc = "recv", net = <<>>, ~lost
  PROVE  ~SelfDelimited(msg) /\ response = Complete(msg)
<1> DEFINE r == Render(msg)
<1>1. Running /\ msg \in Messages
  BY DEF Running, HttpInv, GivenInv
<1>2. parsedHeaders
  <2> SUFFICES ASSUME ~parsedHeaders PROVE FALSE
    OBVIOUS
  <2>1. Find(rd, CRLF) = 0
    BY <1>1 DEF HttpInv, HeadersInv
  <2>2. Find(rd, CRLF) > 0
    BY <1>1, HeadLine DEF HttpInv
  <2> QED
    BY <2>1, <2>2
<1>3. response.headers = msg.headers /\ response.status = StatusNumber(msg)
  BY <1>2 DEF HttpInv, BodyInv
<1>4. chunkedResponse <=> IsChunked(msg)
  BY <1>1, <1>3, ChunkedIs DEF HttpInv
<1>5. contentLengthReceived <=> HasLength(msg)
  BY <1>1, <1>3, ChunkedIs DEF HttpInv
<1>6. r \in Seq(Tokens) /\ PlainAt(msg, r)
  BY <1>1, WireLayout
<1>7. ~chunkedResponse
  <2> SUFFICES ASSUME chunkedResponse PROVE FALSE
    OBVIOUS
  <2>1. PICK c \in 1..(Len(msg.chunks) + 1) : AtChunk(c) \/ InData(c) \/ PastData(c)
    BY <1>1, <1>2 DEF HttpInv, ChunkInv
  <2> DEFINE p == ChunkStart(msg)[c]
             len == Len(msg.chunks[c])
  <2>2. IsChunked(msg) /\ msg \in Messages
    BY <1>1, <1>4
  <2>3. CASE AtChunk(c)
    <3>1. Stream(r, p, rd, net, lost) /\ Find(rd, CRLF) = 0
      BY <2>3 DEF AtChunk
    <3>2. Find(rd, CRLF) = IF Len(rd) > 2 THEN 2 ELSE 0
      BY <2>2, <3>1, SizeLine
    <3>3. Len(rd) > 2
      <4>1. p \in Nat /\ p + 5 <= Len(r)
        BY <2>2, <3>1, SizeLine
      <4> HIDE DEF r, p
      <4>2. rd \in Seq(Tokens) /\ p + Len(rd) + Len(net) = Len(r)
        BY <1>6, <3>1, StreamAt
      <4>3. Len(net) = 0 /\ Len(rd) \in Nat /\ Len(r) \in Nat
        BY <1>6, <4>2
      <4> QED
        BY <4>1, <4>2, <4>3
    <3> QED
      BY <3>1, <3>2, <3>3
  <2>4. CASE InData(c) \/ PastData(c)
    <3> DEFINE done == IF InData(c) THEN len - expectedChunkSize ELSE len
    <3>1. c <= Len(msg.chunks) /\ Stream(r, p + 3 + done, rd, net, lost)
      BY <2>4 DEF InData, PastData
    <3>2. len \in Nat /\ p \in Nat /\ ChunkAt(msg, r, len, p, BodyStart(msg)[c])
      BY <2>2, <3>1, ChunkPlaces
    <3>3. p + len + 10 <= Len(r)
      BY <3>2 DEF ChunkAt
    <3>4. done \in Nat /\ done <= len
      <4>1. InData(c) => expectedChunkSize \in 1..len
        BY DEF InData
      <4> QED
        BY <3>2, <4>1
    <3>5. rd = <<>> \/ Len(rd) < 2
      BY <2>4 DEF InData, PastData
    <3>6. rd \in Seq(Tokens) /\ (p + 3 + done) + Len(rd) = Len(r)
      <4> HIDE DEF r, p, done
      <4>1. rd \in Seq(Tokens) /\ net = <<>> /\ ~lost
        BY <1>6, <3>1, StreamAt
      <4>2. (p + 3 + done) + Len(rd) + Len(net) = Len(r)
        BY <1>6, <3>1, <4>1, StreamAt
      <4>3. (p + 3 + done) + Len(rd) + 0 = Len(r)
        BY <4>1, <4>2
      <4> QED
        BY <3>2, <3>4, <4>1, <4>3
    <3>7. Len(rd) \in Nat /\ Len(rd) < 2 /\ Len(r) \in Nat
      BY <1>6, <3>5, <3>6
    <3> HIDE DEF r, p, done, len
    <3> QED
      BY <3>2, <3>3, <3>4, <3>6, <3>7
  <2> QED
    BY <2>1, <2>3, <2>4
<1>8. /\ Stream(r, HeadLength(msg) + Len(response.body), rd, net, lost)
      /\ Prefix(response.body, Body(msg)) /\ rd = <<>>
      /\ contentLengthReceived => Len(response.body) < Len(Body(msg))
  BY <1>1, <1>2, <1>7 DEF HttpInv, PlainInv
<1>9. Body(msg) \in Seq(Bytes) /\ HeadLength(msg) \in Nat
  <2>1. msg.headers \in Seq(HeaderTexts) /\ Body(msg) \in Seq(Bytes)
    BY <1>1, MessageParts
  <2> QED
    BY <2>1 DEF HeadLength
<1>10. response \in [status : Nat, headers : Seq(HeaderTexts), body : Seq(Bytes)]
  BY DEF HttpInv, KindInv
<1>11. Len(response.body) = Len(Body(msg))
  <2>1. Len(r) = HeadLength(msg) + Len(Body(msg))
    BY <1>4, <1>6, <1>7 DEF PlainAt
  <2>2. Len(r) = HeadLength(msg) + Len(response.body) + Len(rd) + Len(net)
    BY <1>6, <1>8, StreamAt
  <2>3. Len(rd) = 0 /\ Len(net) = 0 /\ response.body \in Seq(Bytes)
    BY <1>8, <1>10
  <2>4. Len(response.body) \in Nat /\ Len(Body(msg)) \in Nat
    BY <1>9, <2>3
  <2> HIDE DEF r
  <2> QED
    BY <1>9, <2>1, <2>2, <2>3, <2>4
<1>12. response.body = Body(msg)
  <2>1. response.body \in Seq(Bytes) /\ Len(response.body) >= Len(Body(msg))
    BY <1>9, <1>10, <1>11
  <2> QED
    BY <1>8, <1>9, <2>1, PrefixIs
<1>13. response = Complete(msg)
  BY <1>3, <1>10, <1>12 DEF Complete
<1>14. ~contentLengthReceived
  BY <1>8, <1>9, <1>11
<1> QED
  BY <1>4, <1>5, <1>7, <1>13, <1>14 DEF SelfDelimited

-----------------------------------------------------------------------------
(* The invariant holds, and every action preserves it.                       *)

\* An empty text is the beginning of every other.
LEMMA EmptyPrefix ==
  ASSUME NEW X, NEW b \in Seq(X)
  PROVE  Prefix(<<>>, b)
  BY DEF Prefix

\* Nothing has been read, and the whole response is to come.
LEMMA InitInv ==
  ASSUME Init, Understood(msg)
  PROVE  HttpInv
<1>1. GivenInv
  BY HttpAssumption DEF Init, GivenInv
<1>2. Render(msg) \in Seq(Tokens) /\ net = Render(msg) /\ rd = <<>>
  BY <1>1, WireLayout DEF Init, GivenInv
<1>3. msg.headers \in Seq(HeaderTexts) /\ Body(msg) \in Seq(Bytes)
  BY <1>1, MessageParts DEF GivenInv
<1>4. response = [status |-> 0, headers |-> <<>>, body |-> <<>>]
  BY DEF Init
<1>5. Prefix(response.headers, msg.headers) /\ Prefix(response.body, Body(msg))
  BY <1>3, <1>4, EmptyPrefix
<1>6. KindInv
  <2>1. response \in [status : Nat, headers : Seq(HeaderTexts), body : Seq(Bytes)]
    BY <1>4
  <2>2. response.headers = <<>> /\ response.status = 0
    BY <1>4
  <2> QED
    BY <2>1, <2>2 DEF Init, KindInv
<1>7. FramingInv
  BY <1>4 DEF Init, FramingInv, Range
<1>8. HeadersInv
  <2>1. HeaderPlace = 0
    BY DEF Init, HeaderPlace
  <2>2. Stream(Render(msg), 0, rd, net, lost)
    <3>1. rd \in Seq(Tokens) /\ net \in Seq(Tokens) /\ Len(rd) = 0 /\ 0 + Len(rd) + Len(net) = Len(Render(msg))
      BY <1>2
    <3>2. \A i \in 1..Len(net) : net[i] = Render(msg)[0 + Len(rd) + i]
      BY <1>2, <3>1
    <3> QED
      BY <3>1, <3>2 DEF Stream
  <2> QED
    BY <1>4, <1>5, <2>1, <2>2 DEF Init, HeadersInv
<1>9. BodyInv /\ PlainInv /\ ChunkInv
  BY DEF Init, BodyInv, PlainInv, ChunkInv
<1>10. ResultInv
  BY <1>4, <1>5 DEF Init, ResultInv, NeverMisframed
<1> QED
  BY <1>1, <1>6, <1>7, <1>8, <1>9, <1>10 DEF HttpInv

\* An end of send() leaves only what its caller gets to see.
LEMMA EndsInv ==
  ASSUME GivenInv', KindInv', BodyInv', ResultInv', pc' \in {"returned", "threw"}
  PROVE  HttpInv'
<1>1. ~Running'
  BY DEF Running
<1> QED
  BY <1>1 DEF HttpInv, FramingInv, HeadersInv, PlainInv, ChunkInv

\* An exception that is not about the response.
LEMMA SystemThrows ==
  ASSUME HttpInv, Throw("system") \/ Throw("scheme"),
         UNCHANGED <<server, net, rd, firstLine, parsedHeaders, framing, chunk, response>>
  PROVE  HttpInv'
<1>1. GivenInv' /\ BodyInv'
  BY DEF HttpInv, GivenInv, BodyInv, server, StatusNumber
<1>2. KindInv'
  BY DEF HttpInv, KindInv, Throw, server, framing, chunk
<1>3. ResultInv'
  BY DEF HttpInv, ResultInv, NeverMisframed, Throw, server, Prefix, Body
<1>4. pc' \in {"returned", "threw"}
  BY DEF Throw
<1> QED
  BY <1>1, <1>2, <1>3, <1>4, EndsInv

\* Where nothing changes that the invariant speaks of but the place in send().
LEMMA QuietStep ==
  ASSUME HttpInv, Running, pc' \in {"send", "recv"},
         UNCHANGED <<server, net, rd, firstLine, parsedHeaders, framing, chunk, response, thrown>>,
         pc' = "send" => pc \in {"open", "send"},
         pc' = "recv" => ~parsedHeaders /\ Find(rd, CRLF) = 0
  PROVE  HttpInv'
<1>1. GivenInv' /\ BodyInv'
  BY DEF HttpInv, GivenInv, BodyInv, server, StatusNumber
<1>2. ~parsedHeaders /\ Running'
  BY DEF HttpInv, KindInv, Running
<1>3. KindInv'
  BY DEF HttpInv, KindInv, server, framing, chunk, Running
<1>4. FramingInv'
  BY DEF HttpInv, FramingInv, server, framing, Running, Range, Body
<1>5. HeadersInv'
  BY <1>2 DEF HttpInv, HeadersInv, server, framing, chunk, HeaderPlace, Stream, Prefix, StatusNumber
<1>6. PlainInv' /\ ChunkInv'
  BY <1>2 DEF PlainInv, ChunkInv
<1>7. ResultInv'
  BY DEF HttpInv, ResultInv, NeverMisframed, server, Prefix, Body
<1> QED
  BY <1>1, <1>3, <1>4, <1>5, <1>6, <1>7 DEF HttpInv

\* Open reads nothing.
LEMMA OpenInv ==
  ASSUME HttpInv, Open
  PROVE  HttpInv'
<1>1. UNCHANGED <<server, net, rd, firstLine, parsedHeaders, framing, chunk, response>>
  BY DEF Open
<1>2. CASE Throw("scheme") \/ Throw("system")
  BY <1>1, <1>2, SystemThrows
<1>3. CASE pc' = "send" /\ UNCHANGED thrown
  <2>1. pc = "open" /\ Running
    BY DEF Open, Running
  <2> QED
    BY <1>1, <1>3, <2>1, QuietStep
<1> QED
  BY <1>2, <1>3 DEF Open

\* Sending reads nothing; the first recv() finds responseData empty.
LEMMA SendInv ==
  ASSUME HttpInv, Send
  PROVE  HttpInv'
<1>1. UNCHANGED <<server, net, rd, firstLine, parsedHeaders, framing, chunk, response, thrown>>
  BY DEF Send
<1>2. pc = "send" /\ Running /\ pc' \in {"send", "recv"}
  BY DEF Send, Running
<1>3. rd = <<>> /\ ~parsedHeaders
  BY <1>2 DEF HttpInv, KindInv
<1>4. Find(rd, CRLF) = 0
  <2>1. rd \in Seq(Tokens) /\ Len(rd) = 0
    BY <1>3
  <2>2. /\ Len(rd) > 0 => rd[1] # CR
        /\ Len(rd) > 1 => rd[2] = CR
        /\ Len(rd) > 2 => rd[3] = LF
        /\ ~(Len(rd) > 2)
    BY <2>1
  <2> QED
    BY <2>1, <2>2, FindLine
<1> QED
  BY <1>1, <1>2, <1>3, <1>4, QuietStep

\* A failing socket ends send() and leaves the response as it is.
LEMMA SocketFailsInv ==
  ASSUME HttpInv, SocketFails
  PROVE  HttpInv'
  BY SystemThrows DEF SocketFails

\* Without the end of a line nothing is taken off the stream.
LEMMA HeadersIncompleteInv ==
  ASSUME HttpInv, HeadersIncomplete
  PROVE  HttpInv'
<1>1. UNCHANGED <<server, net, rd, firstLine, parsedHeaders, framing, chunk, response, thrown>>
  BY DEF HeadersIncomplete
<1>2. pc = "headers" /\ Running /\ pc' = "recv" /\ Find(rd, CRLF) = 0
  BY DEF HeadersIncomplete, Running, LineEnd
<1>3. ~parsedHeaders
  BY <1>2 DEF HttpInv, KindInv
<1> QED
  BY <1>1, <1>2, <1>3, QuietStep

\* At the end of the connection what was read is the response, or the beginning of
\* one of which a part was lost.
LEMMA DisconnectedInv ==
  ASSUME HttpInv, Disconnected
  PROVE  HttpInv'
<1>1. GivenInv' /\ BodyInv'
  BY DEF Disconnected, HttpInv, GivenInv, BodyInv, server, StatusNumber
<1>2. KindInv'
  BY DEF Disconnected, HttpInv, KindInv, server, framing, chunk
<1>3. lost \/ response = Complete(msg)
  <2>1. lost \/ ~lost
    BY DEF HttpInv, KindInv
  <2> QED
    BY <2>1, WaitsForMore DEF Disconnected
<1>4. ResultInv'
  BY <1>3 DEF Disconnected, HttpInv, ResultInv, NeverMisframed, server, Prefix, Body, Complete, StatusNumber
<1>5. pc' \in {"returned", "threw"}
  BY DEF Disconnected
<1> QED
  BY <1>1, <1>2, <1>4, <1>5, EndsInv

\* Where only the stream moves, and the place in send() from waiting to parsing.
LEMMA StreamMoves ==
  ASSUME HttpInv, GivenInv', KindInv', UNCHANGED <<msg, firstLine, parsedHeaders, framing, chunk, response, thrown>>,
         \A k : Stream(Render(msg), k, rd, net, lost) => Stream(Render(msg), k, rd', net', lost'),
         (pc' = pc /\ rd' = rd) \/ (pc' \in {"headers", "body"} /\ pc = "recv"),
         lost => lost'
  PROVE  HttpInv'
<1> DEFINE r == Render(msg)
<1>1. r' = r /\ Running' = Running /\ (pc' = "recv" => pc = "recv" /\ rd' = rd)
  BY DEF Running
<1>2. BodyInv'
  BY DEF HttpInv, BodyInv, StatusNumber
<1>3. FramingInv'
  BY <1>1 DEF HttpInv, FramingInv, framing, Range, Body
<1>4. HeadersInv'
  <2> SUFFICES ASSUME Running, ~parsedHeaders PROVE HeadersInv'
    BY <1>1 DEF HeadersInv
  <2>1. HeaderPlace' = HeaderPlace
    BY DEF HeaderPlace
  <2>2. Stream(r, HeaderPlace, rd', net', lost')
    BY DEF HttpInv, HeadersInv
  <2> HIDE DEF r
  <2>3. Stream(r', HeaderPlace', rd', net', lost')
    BY <1>1, <2>1, <2>2
  <2> QED
    BY <1>1, <2>3 DEF HttpInv, HeadersInv, chunk, Prefix, StatusNumber, r
<1>5. PlainInv'
  <2> SUFFICES ASSUME Running, parsedHeaders, ~chunkedResponse PROVE PlainInv'
    BY <1>1 DEF PlainInv, framing
  <2>1. HeadLength(msg)' = HeadLength(msg) /\ Len(response.body)' = Len(response.body)
    BY DEF HeadLength
  <2>2. Stream(r, HeadLength(msg) + Len(response.body), rd', net', lost')
    BY DEF HttpInv, PlainInv
  <2> HIDE DEF r
  <2>3. Stream(r', HeadLength(msg)' + Len(response.body)', rd', net', lost')
    BY <1>1, <2>1, <2>2
  <2> QED
    BY <1>1, <2>3 DEF HttpInv, PlainInv, framing, Prefix, Body, r
<1>6. ChunkInv'
  <2> SUFFICES ASSUME Running, parsedHeaders, chunkedResponse PROVE ChunkInv'
    BY <1>1 DEF ChunkInv, framing
  <2>1. Prefix(response.body, Body(msg))'
    BY DEF HttpInv, ChunkInv, Prefix, Body
  <2>2. PICK c \in 1..(Len(msg.chunks) + 1) : AtChunk(c) \/ InData(c) \/ PastData(c)
    BY DEF HttpInv, ChunkInv
  <2> DEFINE p == ChunkStart(msg)[c]
             d == BodyStart(msg)[c]
  <2>3. p' = p /\ d' = d
    BY DEF ChunkStart, ChunkTexts, HeadLength, BodyStart
  <2> HIDE DEF p, d, r
  <2>7. c \in 1..(Len(msg'.chunks) + 1)
    BY <2>2
  <2>4. CASE AtChunk(c)
    <3>1. Stream(r, p, rd', net', lost') /\ Len(response.body) = d
      BY <2>4 DEF AtChunk, p, d, r
    <3>2. Stream(r', p', rd', net', lost') /\ Len(response'.body) = d'
      BY <1>1, <2>3, <3>1
    <3>3. AtChunk(c)'
      BY <1>1, <2>4, <3>2 DEF AtChunk, p, d, r, chunk
    <3> QED
      BY <2>1, <2>7, <3>3 DEF ChunkInv
  <2>5. CASE InData(c)
    <3> DEFINE done == Len(msg.chunks[c]) - expectedChunkSize
    <3>1. Stream(r, p + 3 + done, rd', net', lost') /\ Len(response.body) = d + done
      BY <2>5 DEF InData, p, d, r
    <3>2. done' = done
      BY DEF chunk
    <3> HIDE DEF done
    <3>3. Stream(r', p' + 3 + done', rd', net', lost') /\ Len(response'.body) = d' + done'
      BY <1>1, <2>3, <3>1, <3>2
    <3>4. InData(c)'
      BY <1>1, <2>5, <3>3 DEF InData, p, d, r, chunk, done
    <3> QED
      BY <2>1, <2>7, <3>4 DEF ChunkInv
  <2>6. CASE PastData(c)
    <3> DEFINE len == Len(msg.chunks[c])
    <3>1. Stream(r, p + 3 + len, rd', net', lost') /\ Len(response.body) = d + len
      BY <2>6 DEF PastData, p, d, r
    <3>2. len' = len
      OBVIOUS
    <3> HIDE DEF len
    <3>3. Stream(r', p' + 3 + len', rd', net', lost') /\ Len(response'.body) = d' + len'
      BY <1>1, <2>3, <3>1, <3>2
    <3>4. PastData(c)'
      BY <1>1, <2>6, <3>3 DEF PastData, p, d, r, chunk, len
    <3> QED
      BY <2>1, <2>7, <3>4 DEF ChunkInv
  <2> QED
    BY <2>2, <2>4, <2>5, <2>6
<1>7. ResultInv'
  BY DEF HttpInv, ResultInv, NeverMisframed, Prefix, Body, Complete, StatusNumber
<1> QED
  BY <1>2, <1>3, <1>4, <1>5, <1>6, <1>7 DEF HttpInv

\* What recv() returns goes from what is to come to what was received.
LEMMA RecvInv ==
  ASSUME HttpInv, Recv
  PROVE  HttpInv'
<1> DEFINE r == Render(msg)
<1>1. r \in Seq(Tokens)
  BY WireLayout DEF HttpInv, GivenInv
<1> HIDE DEF r
<1>2. ASSUME NEW k, Stream(r, k, rd, net, lost) PROVE Stream(r, k, rd', net', lost')
  <2>1. net \in Seq(Tokens) /\ Len(net) \in Nat
    BY <1>1, <1>2, StreamAt
  <2>2. PICK n \in 1..Min({Len(net), BufferSize}) : rd' = rd \o Before(net, n + 1) /\ net' = From(net, n + 1)
    BY DEF Recv
  <2>3. Min({Len(net), BufferSize}) <= Len(net) /\ Min({Len(net), BufferSize}) \in Nat
    BY <2>1, MinOfTwo, HttpAssumption
  <2>4. n \in 0..Len(net)
    BY <2>1, <2>2, <2>3
  <2>5. Stream(r, k, rd \o Before(net, n + 1), From(net, n + 1), lost)
    BY <1>1, <1>2, <2>4, StreamRecv
  <2>6. lost' = lost
    BY DEF Recv, server
  <2> QED
    BY <2>2, <2>5, <2>6
<1>3. /\ UNCHANGED <<msg, firstLine, parsedHeaders, framing, chunk, response, thrown>>
      /\ pc = "recv" /\ pc' \in {"headers", "body"} /\ (lost => lost')
  BY DEF Recv, server
<1>4. GivenInv'
  BY DEF Recv, HttpInv, GivenInv, server
<1>5. KindInv'
  BY DEF Recv, HttpInv, KindInv, server, framing, chunk
<1> QED
  BY <1>2, <1>3, <1>4, <1>5, StreamMoves DEF r

\* What the server does not send any more is missing at the end only.
LEMMA PeerClosesInv ==
  ASSUME HttpInv, PeerCloses
  PROVE  HttpInv'
<1> DEFINE r == Render(msg)
<1>1. r \in Seq(Tokens)
  BY WireLayout DEF HttpInv, GivenInv
<1> HIDE DEF r
<1>2. lost = FALSE /\ lost' \in BOOLEAN /\ lost' = (net' # net)
  BY DEF PeerCloses, HttpInv, KindInv
<1>3. ASSUME NEW k, Stream(r, k, rd, net, lost) PROVE Stream(r, k, rd', net', lost')
  <2>1. net \in Seq(Tokens) /\ Len(net) \in Nat
    BY <1>1, <1>3, StreamAt
  <2>2. PICK n \in 0..Len(net) : net' = Before(net, n + 1)
    BY DEF PeerCloses
  <2>3. lost' \/ (~lost /\ Before(net, n + 1) = net)
    BY <1>2, <2>2
  <2>4. Stream(r, k, rd, Before(net, n + 1), lost')
    BY <1>1, <1>3, <2>2, <2>3, StreamCut
  <2>5. rd' = rd
    BY DEF PeerCloses
  <2> QED
    BY <2>2, <2>4, <2>5
<1>4. /\ UNCHANGED <<msg, firstLine, parsedHeaders, framing, chunk, response, thrown>>
      /\ pc' = pc /\ rd' = rd /\ (lost => lost')
  BY <1>2 DEF PeerCloses
<1>5. GivenInv'
  BY DEF PeerCloses, HttpInv, GivenInv
<1>6. KindInv'
  BY <1>2 DEF PeerCloses, HttpInv, KindInv, framing, chunk
<1>7. (pc' = pc /\ rd' = rd) \/ (pc' \in {"headers", "body"} /\ pc = "recv")
  BY <1>4
<1>8. \A k : Stream(Render(msg), k, rd, net, lost) => Stream(Render(msg), k, rd', net', lost')
  BY <1>3 DEF r
<1> QED
  BY <1>4, <1>5, <1>6, <1>7, <1>8, StreamMoves

\* Nothing changes.
LEMMA StutterInv ==
  ASSUME HttpInv, UNCHANGED vars
  PROVE  HttpInv'
<1>1. GivenInv' /\ KindInv'
  BY DEF HttpInv, GivenInv, KindInv, vars, server, framing, chunk
<1>2. /\ UNCHANGED <<msg, firstLine, parsedHeaders, framing, chunk, response, thrown>>
      /\ pc' = pc /\ rd' = rd /\ (lost => lost')
  BY DEF vars, server
<1>3. \A k : Stream(Render(msg), k, rd, net, lost) => Stream(Render(msg), k, rd', net', lost')
  BY DEF vars, server
<1>4. (pc' = pc /\ rd' = rd) \/ (pc' \in {"headers", "body"} /\ pc = "recv")
  BY <1>2
<1> QED
  BY <1>1, <1>2, <1>3, <1>4, StreamMoves

\* A line that is not empty is the next text of the response, and taken off the stream.
LEMMA LineRead ==
  ASSUME HttpInv, pc = "headers", LineEnd > 1, EraseLine
  PROVE  LET j == Len(response.headers) IN
         /\ ~parsedHeaders
         /\ j \in Nat /\ Len(msg.headers) \in Nat
         /\ firstLine => j = 0
         /\ firstLine => Line[1] = msg.status
         /\ ~firstLine => j < Len(msg.headers) /\ Line[1] = msg.headers[j + 1]
         /\ Stream(Render(msg), 3 * (IF firstLine THEN 1 ELSE j + 2), rd', net, lost)
<1> DEFINE j == Len(response.headers)
           n == Len(msg.headers)
           text == IF firstLine THEN msg.status ELSE msg.headers[j + 1]
           r == Render(msg)
<1>1. ~parsedHeaders /\ Running /\ GivenInv /\ KindInv /\ HeadersInv
  BY DEF HttpInv, KindInv, Running
<1>2. r \in Seq(Tokens) /\ Stream(r, HeaderPlace, rd, net, lost)
  BY <1>1, WireLayout DEF GivenInv, HeadersInv
<1>3. rd \in Seq(Tokens) /\ Len(rd) \in Nat /\ HeaderPlace \in Nat
  BY <1>2, StreamAt
<1>4. /\ j \in Nat /\ n \in Nat /\ j <= n
      /\ HeaderPlace = (IF firstLine THEN 0 ELSE 3 * j + 3)
      /\ firstLine => j = 0
      /\ (firstLine \/ j < n) =>
           /\ Find(rd, CRLF) = IF Len(rd) > 2 THEN 2 ELSE 0
           /\ Len(rd) > 2 => rd[1] = text
      /\ ~(firstLine \/ j < n) => Find(rd, CRLF) = IF Len(rd) > 1 THEN 1 ELSE 0
  BY <1>1, HeadLine
<1> HIDE DEF r, text
<1>5. LineEnd = Find(rd, CRLF)
  BY DEF LineEnd
<1>6. (firstLine \/ j < n) /\ Len(rd) > 2 /\ LineEnd = 2 /\ rd[1] = text
  BY <1>4, <1>5
<1>7. Line[1] = text
  <2>1. 1 \in 0..Len(rd) /\ 1 + 1 = 2
    BY <1>3, <1>6
  <2>2. Before(rd, 2)[1] = rd[1]
    BY <1>3, <2>1, CutAt
  <2> QED
    BY <1>6, <2>2 DEF Line
<1>8. Stream(r, HeaderPlace + 3, rd', net, lost)
  <2>1. 3 \in 0..Len(rd) /\ 3 + 1 = 2 + 2
    BY <1>3, <1>6
  <2>2. rd' = From(rd, 3 + 1)
    BY <1>6 DEF EraseLine
  <2> QED
    BY <1>2, <2>1, <2>2, StreamTake
<1>9. HeaderPlace + 3 = 3 * (IF firstLine THEN 1 ELSE j + 2)
  BY <1>4
<1> QED
  BY <1>1, <1>4, <1>6, <1>7, <1>8, <1>9 DEF text, r

\* The first line is the status line of the response.
LEMMA StatusLineInv ==
  ASSUME HttpInv, StatusLine
  PROVE  HttpInv'
<1>1. pc = "headers" /\ LineEnd > 1 /\ EraseLine /\ firstLine /\ firstLine' = FALSE
  BY DEF StatusLine
<1>2. UNCHANGED <<server, net, parsedHeaders, framing, chunk>>
  BY DEF StatusLine
<1>3. /\ ~parsedHeaders /\ Len(response.headers) = 0 /\ Line[1] = msg.status
      /\ Stream(Render(msg), 3, rd', net, lost)
  BY <1>1, LineRead
<1>4. response \in [status : Nat, headers : Seq(HeaderTexts), body : Seq(Bytes)]
  BY DEF HttpInv, KindInv
<1>5. response.headers = <<>> /\ response.status = 0 /\ response.body = <<>>
  BY <1>1, <1>3 DEF HttpInv, KindInv, HeadersInv, Running
<1>6. msg.status \in StatusTexts
  BY MessageParts DEF HttpInv, GivenInv
<1>7. GivenInv'
  BY <1>2 DEF HttpInv, GivenInv, server
<1>8. BodyInv' /\ PlainInv' /\ ChunkInv'
  BY <1>2, <1>3 DEF BodyInv, PlainInv, ChunkInv
<1>9. CASE msg.status = BadStatus
  <2>1. pc' = "threw" /\ thrown' = "parser" /\ response' = response
    BY <1>3, <1>9 DEF StatusLine, Throw
  <2>2. KindInv'
    BY <1>1, <1>2, <1>3, <2>1 DEF HttpInv, KindInv, server, framing, chunk
  <2>3. Refused(msg)
    BY <1>9 DEF Refused
  <2>4. ResultInv'
    BY <1>2, <2>1, <2>3 DEF HttpInv, ResultInv, NeverMisframed, Refused, server, Prefix, Body
  <2> QED
    BY <1>7, <1>8, <2>1, <2>2, <2>4, EndsInv
<1>10. CASE msg.status # BadStatus
  <2>1. /\ pc' = pc /\ thrown' = thrown
        /\ response' = [response EXCEPT !.status = IF msg.status = NoStatus THEN 0 ELSE msg.status[2]]
    BY <1>3, <1>5, <1>10 DEF StatusLine
  <2>2. StatusNumber(msg) \in Nat
    <3>1. msg.status = NoStatus \/ msg.status \in {"status"} \X Nat
      BY <1>6, <1>10 DEF StatusTexts
    <3> QED
      BY <3>1 DEF StatusNumber
  <2>3. /\ response' \in [status : Nat, headers : Seq(HeaderTexts), body : Seq(Bytes)]
        /\ response'.status = StatusNumber(msg)
        /\ response'.headers = response.headers /\ response'.body = response.body
    BY <1>4, <2>1, <2>2 DEF StatusNumber
  <2>4. KindInv'
    BY <1>1, <1>2, <1>3, <2>1, <2>3 DEF HttpInv, KindInv, server, framing, chunk
  <2>5. FramingInv'
    BY <1>1, <1>2, <2>1, <2>3 DEF HttpInv, FramingInv, server, framing, Running
  <2>6. HeadersInv'
    <3>1. HeaderPlace' = 3
      BY <1>1, <1>3, <2>3 DEF HeaderPlace
    <3>2. Stream(Render(msg)', HeaderPlace', rd', net', lost')
      BY <1>2, <1>3, <3>1 DEF server
    <3>3. /\ Prefix(response.headers, msg.headers)' /\ response'.status = StatusNumber(msg)'
          /\ response'.body = <<>> /\ expectedChunkSize' = 0 /\ ~removeCrlfAfterChunk' /\ pc' # "recv"
      <4>1. /\ Prefix(response.headers, msg.headers) /\ expectedChunkSize = 0 /\ ~removeCrlfAfterChunk
        BY <1>1, <1>3 DEF HttpInv, HeadersInv, Running
      <4> QED
        BY <1>1, <1>2, <1>5, <2>1, <2>3, <4>1 DEF Prefix, server, chunk, StatusNumber
    <3> QED
      BY <3>2, <3>3 DEF HeadersInv
  <2>7. ResultInv'
    BY <1>1, <1>2, <1>5, <2>1, <2>3 DEF HttpInv, ResultInv, NeverMisframed, server, Prefix, Body
  <2> QED
    BY <1>7, <1>8, <2>4, <2>5, <2>6, <2>7 DEF HttpInv
<1> QED
  BY <1>9, <1>10

\* The empty line is found behind the last header, not before.
LEMMA EndOfHeadersInv ==
  ASSUME HttpInv, EndOfHeaders
  PROVE  HttpInv'
<1> DEFINE r == Render(msg)
           n == Len(msg.headers)
           j == Len(response.headers)
<1>1. pc = "headers" /\ pc' = "body" /\ parsedHeaders' = TRUE /\ Running /\ Find(rd, CRLF) = 1
  BY DEF EndOfHeaders, Running, LineEnd
<1>2. UNCHANGED <<server, net, firstLine, framing, chunk, response, thrown>> /\ rd' = From(rd, 3)
  BY DEF EndOfHeaders, EraseLine, LineEnd
<1>3. ~parsedHeaders /\ GivenInv /\ KindInv /\ HeadersInv
  BY <1>1 DEF HttpInv, KindInv
<1>4. r \in Seq(Tokens) /\ Stream(r, HeaderPlace, rd, net, lost)
  BY <1>1, <1>3, WireLayout DEF GivenInv, HeadersInv
<1>5. rd \in Seq(Tokens) /\ Len(rd) \in Nat
  BY <1>4, StreamAt
<1>6. /\ j \in Nat /\ n \in Nat /\ j <= n
      /\ HeaderPlace = (IF firstLine THEN 0 ELSE 3 * j + 3)
      /\ (firstLine \/ j < n) => Find(rd, CRLF) = IF Len(rd) > 2 THEN 2 ELSE 0
      /\ ~(firstLine \/ j < n) => Find(rd, CRLF) = IF Len(rd) > 1 THEN 1 ELSE 0
  BY <1>1, <1>3, HeadLine
<1> HIDE DEF r
<1>7. ~firstLine /\ j = n /\ Len(rd) > 1 /\ HeaderPlace = 3 * n + 3
  BY <1>1, <1>6
<1>8. response \in [status : Nat, headers : Seq(HeaderTexts), body : Seq(Bytes)]
  BY <1>3 DEF KindInv
<1>9. response.headers = msg.headers
  <2>1. response.headers \in Seq(HeaderTexts) /\ msg.headers \in Seq(HeaderTexts)
    BY <1>3, <1>8, MessageParts DEF GivenInv
  <2>2. Prefix(response.headers, msg.headers) /\ Len(response.headers) >= Len(msg.headers)
    BY <1>1, <1>3, <1>6, <1>7 DEF HeadersInv
  <2> QED
    BY <2>1, <2>2, PrefixIs
<1>10. /\ response.status = StatusNumber(msg) /\ response.body = <<>>
       /\ expectedChunkSize = 0 /\ ~removeCrlfAfterChunk
  BY <1>1, <1>3, <1>7 DEF HeadersInv
<1>11. Stream(r, HeadLength(msg), rd', net, lost)
  <2>1. 2 \in 0..Len(rd) /\ 2 + 1 = 3 /\ HeaderPlace + 2 = HeadLength(msg)
    BY <1>5, <1>6, <1>7 DEF HeadLength
  <2>2. Stream(r, HeaderPlace + 2, From(rd, 2 + 1), net, lost)
    BY <1>4, <2>1, StreamTake
  <2> QED
    BY <1>2, <2>1, <2>2
<1>12. GivenInv'
  BY <1>2 DEF HttpInv, GivenInv, server
<1>13. KindInv'
  BY <1>1, <1>2, <1>3, <1>7 DEF KindInv, server, framing, chunk
<1>14. FramingInv'
  BY <1>1, <1>2 DEF HttpInv, FramingInv, server, framing, Running, Range, Body
<1>15. HeadersInv' /\ BodyInv'
  BY <1>1, <1>2, <1>9, <1>10 DEF HeadersInv, BodyInv, server, StatusNumber
<1>16. Body(msg) \in Seq(Bytes) /\ Prefix(response.body, Body(msg)) /\ Len(response.body) = 0 /\ HeadLength(msg) \in Nat
  BY <1>3, <1>6, <1>10, MessageParts, EmptyPrefix DEF GivenInv, HeadLength
<1>17. PlainInv'
  <2>1. Stream(r, HeadLength(msg) + Len(response.body), rd', net, lost)
    BY <1>11, <1>16
  <2>2. Stream(Render(msg)', HeadLength(msg)' + Len(response'.body), rd', net', lost')
    BY <1>2, <2>1 DEF r, server, HeadLength
  <2>3. Prefix(response.body, Body(msg))'
    BY <1>2, <1>16 DEF server, Prefix, Body
  <2> QED
    BY <1>1, <2>2, <2>3 DEF PlainInv
<1>18. ChunkInv'
  <2> SUFFICES ASSUME chunkedResponse PROVE ChunkInv'
    BY <1>2 DEF ChunkInv, framing
  <2>1. IsChunked(msg)
    BY <1>1, <1>3, <1>9, ChunkedIs DEF HttpInv
  <2>2. ChunksAt(msg, r) /\ Len(msg.chunks) \in Nat
    BY <1>3, WireLayout, MessageParts DEF GivenInv, r
  <2>3. ChunkStart(msg)[1] = HeadLength(msg) /\ BodyStart(msg)[1] = 0 /\ 1 \in 1..(Len(msg.chunks) + 1)
    BY <2>1, <2>2 DEF ChunksAt
  <2>4. Stream(Render(msg)', ChunkStart(msg')[1], rd', net', lost')
    BY <1>2, <1>11, <2>3 DEF r, server
  <2>5. Len(response'.body) = BodyStart(msg')[1]
    BY <1>2, <1>16, <2>3 DEF server
  <2>6. AtChunk(1)'
    BY <1>1, <1>2, <1>10, <2>4, <2>5 DEF AtChunk, chunk
  <2>7. Prefix(response.body, Body(msg))'
    BY <1>2, <1>16 DEF server, Prefix, Body
  <2>8. 1 \in 1..(Len(msg'.chunks) + 1)
    BY <1>2, <2>3 DEF server
  <2> QED
    BY <2>6, <2>7, <2>8 DEF ChunkInv
<1>19. ResultInv'
  BY <1>1, <1>2 DEF HttpInv, ResultInv, NeverMisframed, server, Prefix, Body
<1> QED
  BY <1>12, <1>13, <1>14, <1>15, <1>17, <1>18, <1>19 DEF HttpInv

\* One more element in a sequence.
LEMMA RangeAppend ==
  ASSUME NEW X, NEW s \in Seq(X), NEW x \in X
  PROVE  Range(Append(s, x)) = Range(s) \cup {x}
<1> DEFINE t == Append(s, x)
<1>1. /\ DOMAIN s = 1..Len(s) /\ DOMAIN t = 1..(Len(s) + 1) /\ Len(s) \in Nat
      /\ t[Len(s) + 1] = x /\ \A i \in 1..Len(s) : t[i] = s[i]
  OBVIOUS
<1> HIDE DEF t
<1>2. ASSUME NEW y \in Range(t) PROVE y \in Range(s) \cup {x}
  <2>1. PICK i \in 1..(Len(s) + 1) : y = t[i]
    BY <1>1 DEF Range
  <2>2. i \in 1..Len(s) \/ i = Len(s) + 1
    BY <1>1
  <2> QED
    BY <1>1, <2>1, <2>2 DEF Range
<1>3. ASSUME NEW y \in Range(s) PROVE y \in Range(t)
  <2>1. PICK i \in 1..Len(s) : y = s[i]
    BY <1>1 DEF Range
  <2>2. i \in 1..(Len(s) + 1) /\ t[i] = y
    BY <1>1, <2>1
  <2> QED
    BY <1>1, <2>2 DEF Range
<1>4. x \in Range(t)
  <2>1. Len(s) + 1 \in 1..(Len(s) + 1)
    BY <1>1
  <2> QED
    BY <1>1, <2>1 DEF Range
<1>5. Range(t) = Range(s) \cup {x}
  BY <1>2, <1>3, <1>4
<1> QED
  BY <1>5 DEF t

\* The next element of b behind those that are there.
LEMMA PrefixAppend ==
  ASSUME NEW X, NEW a \in Seq(X), NEW b \in Seq(X), Prefix(a, b), Len(a) < Len(b)
  PROVE  Prefix(Append(a, b[Len(a) + 1]), b)
<1> DEFINE t == Append(a, b[Len(a) + 1])
<1>1. Len(a) \in Nat /\ Len(b) \in Nat /\ b[Len(a) + 1] \in X
  OBVIOUS
<1>2. Len(t) = Len(a) + 1 /\ t[Len(a) + 1] = b[Len(a) + 1] /\ \A i \in 1..Len(a) : t[i] = a[i]
  BY <1>1
<1> HIDE DEF t
<1>3. ASSUME NEW i \in 1..Len(t) PROVE t[i] = b[i]
  <2>1. i \in 1..Len(a) \/ i = Len(a) + 1
    BY <1>1, <1>2
  <2> QED
    BY <1>2, <2>1 DEF Prefix
<1>4. Prefix(t, b)
  BY <1>1, <1>2, <1>3 DEF Prefix
<1> QED
  BY <1>4 DEF t

\* Every other line is the next header of the response.
LEMMA HeaderInv ==
  ASSUME HttpInv, Header
  PROVE  HttpInv'
<1> DEFINE j == Len(response.headers)
           h == msg.headers[j + 1]
<1>1. pc = "headers" /\ LineEnd > 1 /\ EraseLine /\ ~firstLine /\ Running
  BY DEF Header, Running
<1>2. UNCHANGED <<server, net, firstLine, parsedHeaders, chunk>>
  BY DEF Header
<1>3. /\ ~parsedHeaders /\ j \in Nat /\ Len(msg.headers) \in Nat /\ j < Len(msg.headers)
      /\ Line[1] = h
      /\ Stream(Render(msg), 3 * (j + 2), rd', net, lost)
  BY <1>1, LineRead
<1>4. response \in [status : Nat, headers : Seq(HeaderTexts), body : Seq(Bytes)]
  BY DEF HttpInv, KindInv
<1>5. msg.headers \in Seq(HeaderTexts) /\ Body(msg) \in Seq(Bytes)
  BY MessageParts DEF HttpInv, GivenInv
<1>6. j + 1 \in 1..Len(msg.headers) /\ h \in HeaderTexts /\ h \in Range(msg.headers)
  BY <1>3, <1>5 DEF Range
<1>7. /\ Prefix(response.headers, msg.headers) /\ response.body = <<>>
      /\ expectedChunkSize = 0 /\ ~removeCrlfAfterChunk
      /\ response.status = StatusNumber(msg)
  BY <1>1, <1>3 DEF HttpInv, HeadersInv
<1> HIDE DEF h
<1>8. response' = [response EXCEPT !.headers = Append(response.headers, h)]
  BY <1>3 DEF Header
<1>9. /\ response' \in [status : Nat, headers : Seq(HeaderTexts), body : Seq(Bytes)]
      /\ response'.headers = Append(response.headers, h)
      /\ response'.status = response.status /\ response'.body = <<>>
      /\ Len(response'.headers) = j + 1
  <2> DEFINE hs == Append(response.headers, h)
  <2>1. hs \in Seq(HeaderTexts) /\ Len(hs) = j + 1
    BY <1>4, <1>6
  <2> HIDE DEF hs
  <2>2. response' = [response EXCEPT !.headers = hs]
    BY <1>8 DEF hs
  <2>3. /\ response' \in [status : Nat, headers : Seq(HeaderTexts), body : Seq(Bytes)]
        /\ response'.headers = hs
        /\ response'.status = response.status /\ response'.body = response.body
    BY <1>4, <2>1, <2>2
  <2> QED
    BY <1>7, <2>1, <2>3 DEF hs
<1>10. Prefix(response'.headers, msg'.headers)
  <2>1. response.headers \in Seq(HeaderTexts)
    BY <1>4
  <2>2. Prefix(Append(response.headers, h), msg.headers)
    BY <1>3, <1>5, <1>7, <2>1, PrefixAppend DEF h
  <2> QED
    BY <1>2, <1>9, <2>2 DEF server
<1>11. Range(response'.headers) = Range(response.headers) \cup {h}
  BY <1>4, <1>6, <1>9, RangeAppend
<1>12. GivenInv'
  BY <1>2 DEF HttpInv, GivenInv, server
<1>13. BodyInv' /\ PlainInv' /\ ChunkInv'
  BY <1>2, <1>3 DEF BodyInv, PlainInv, ChunkInv
<1>14. Prefix(response'.body, Body(msg'))
  <2>1. Prefix(<<>>, Body(msg))
    BY <1>5, EmptyPrefix
  <2> QED
    BY <1>2, <1>9, <2>1 DEF server
<1>15. CASE HeaderThrows(h)
  <2>1. pc' = "threw" /\ thrown' = "parser" /\ UNCHANGED framing
    BY <1>3, <1>15 DEF Header, Throw
  <2>2. KindInv'
    BY <1>1, <1>2, <1>3, <1>9, <2>1 DEF HttpInv, KindInv, server, framing, chunk
  <2>3. Refused(msg)'
    BY <1>2, <1>6, <1>15 DEF Refused, server
  <2>4. ResultInv'
    BY <1>9, <1>10, <1>14, <2>1, <2>3 DEF ResultInv, NeverMisframed
  <2> QED
    BY <1>12, <1>13, <2>1, <2>2, <2>4, EndsInv
<1>16. CASE ~HeaderThrows(h)
  <2>1. pc' = pc /\ thrown' = thrown /\ chunkedResponse' = (chunkedResponse \/ h[1] = "Transfer-Encoding")
    BY <1>3, <1>16 DEF Header
  <2>2. IF h[1] = "Content-Length" THEN contentLengthReceived' = TRUE /\ contentLength' = h[2]
        ELSE contentLengthReceived' = contentLengthReceived /\ contentLength' = contentLength
    BY <1>3, <1>16 DEF Header
  <2>3. h[1] = "Content-Length" => h[2] \in Nat
    <3>1. h \in LengthNames \X Nat \/ h \in OtherNames \X STRING
      BY <1>6 DEF HeaderTexts
    <3> QED
      BY <3>1 DEF OtherNames
  <2>4. h[1] = "Content-Length" => IsChunked(msg) \/ h[2] = Len(Body(msg))
    <3> SUFFICES ASSUME h[1] = "Content-Length", ~IsChunked(msg) PROVE h[2] = Len(Body(msg))
      OBVIOUS
    <3>1. HasLength(msg) /\ GivesLength(h)
      BY <1>6 DEF HasLength, GivesLength
    <3>2. msg \in Messages
      BY DEF HttpInv, GivenInv
    <3> QED
      BY <1>6, <3>1, <3>2 DEF Messages, Body
  <2>5. contentLength' \in Nat /\ contentLengthReceived' \in BOOLEAN /\ chunkedResponse' \in BOOLEAN
    BY <2>1, <2>2, <2>3 DEF HttpInv, KindInv
  <2>6. KindInv'
    <3>1. /\ pc \in {"open", "send", "recv", "headers", "body", "returned", "threw"}
          /\ peer \in {"open", "closed"} /\ lost \in BOOLEAN /\ firstLine \in BOOLEAN
          /\ parsedHeaders \in BOOLEAN /\ removeCrlfAfterChunk \in BOOLEAN /\ expectedChunkSize \in Nat
          /\ thrown \in {"nothing", "scheme", "system", "parser"}
          /\ pc = "threw" <=> thrown # "nothing"
          /\ peer = "open" => ~lost
      BY DEF HttpInv, KindInv
    <3> QED
      BY <1>1, <1>2, <1>3, <1>9, <2>1, <2>5, <3>1 DEF KindInv, server, chunk
  <2>7. FramingInv'
    <3> DEFINE H == Range(response.headers)
    <3>1. /\ contentLengthReceived <=> \E g \in H : g[1] = "Content-Length"
          /\ chunkedResponse <=> \E g \in H : g[1] = "Transfer-Encoding"
          /\ \A g \in H : ~HeaderThrows(g)
          /\ contentLengthReceived => IsChunked(msg) \/ contentLength = Len(Body(msg))
      BY <1>1 DEF HttpInv, FramingInv
    <3> HIDE DEF H
    <3>2. Range(response'.headers) = H \cup {h} /\ msg' = msg
      BY <1>2, <1>11 DEF H, server
    <3>3. contentLengthReceived' <=> \E g \in Range(response'.headers) : g[1] = "Content-Length"
      BY <2>2, <3>1, <3>2
    <3>4. chunkedResponse' <=> \E g \in Range(response'.headers) : g[1] = "Transfer-Encoding"
      BY <2>1, <3>1, <3>2
    <3>5. \A g \in Range(response'.headers) : ~HeaderThrows(g)
      BY <1>16, <3>1, <3>2
    <3>6. contentLengthReceived' => IsChunked(msg') \/ contentLength' = Len(Body(msg'))
      BY <2>2, <2>4, <3>1, <3>2
    <3> QED
      BY <3>3, <3>4, <3>5, <3>6 DEF FramingInv
  <2>8. HeadersInv'
    <3>1. HeaderPlace' = 3 * (j + 2)
      <4>1. HeaderPlace' = 3 * ((j + 1) + 1) /\ (j + 1) + 1 = j + 2
        BY <1>1, <1>2, <1>3, <1>9 DEF HeaderPlace
      <4> QED
        BY <4>1
    <3>2. Stream(Render(msg)', HeaderPlace', rd', net', lost')
      BY <1>2, <1>3, <3>1 DEF server
    <3> QED
      BY <1>1, <1>2, <1>7, <1>9, <1>10, <2>1, <3>2 DEF HeadersInv, chunk, server, StatusNumber
  <2>9. ResultInv'
    BY <1>1, <1>2, <1>9, <1>10, <1>14, <2>1 DEF HttpInv, ResultInv, NeverMisframed, server, Refused
  <2> QED
    BY <1>12, <1>13, <2>6, <2>7, <2>8, <2>9 DEF HttpInv
<1> QED
  BY <1>15, <1>16

\* Bytes at the front of what has arrived that are the next ones of the body.
LEMMA BodyGrows ==
  ASSUME NEW x \in Seq(Bytes), NEW b \in Seq(Bytes), Prefix(x, b),
         NEW a \in Seq(Tokens), NEW w \in 0..Len(a),
         Len(x) + w <= Len(b), \A i \in 1..w : a[i] = b[Len(x) + i]
  PROVE  /\ x \o Before(a, w + 1) \in Seq(Bytes)
         /\ Len(x \o Before(a, w + 1)) = Len(x) + w
         /\ Prefix(x \o Before(a, w + 1), b)
<1> DEFINE u == Before(a, w + 1)
           v == x \o u
<1>1. u \in Seq(Tokens) /\ Len(u) = w /\ \A i \in 1..w : u[i] = a[i]
  BY CutAt
<1>2. Len(x) \in Nat /\ Len(b) \in Nat /\ w \in Nat
  OBVIOUS
<1> HIDE DEF u
<1>3. u \in Seq(Bytes)
  <2>1. ASSUME NEW i \in 1..w PROVE u[i] \in Bytes
    <3>1. Len(x) + i \in 1..Len(b)
      BY <1>2
    <3>2. b[Len(x) + i] \in Bytes
      BY <3>1
    <3> QED
      BY <1>1, <3>2
  <2> QED
    BY <1>1, <2>1, ElementOfSeq, SeqDef
<1>4. /\ v \in Seq(Bytes) /\ Len(v) = Len(x) + w
      /\ \A i \in 1..Len(x) : v[i] = x[i]
      /\ \A i \in 1..w : v[Len(x) + i] = u[i]
  <2>1. x \in Seq(Bytes) /\ u \in Seq(Bytes)
    BY <1>3
  <2>2. /\ x \o u \in Seq(Bytes) /\ Len(x \o u) = Len(x) + Len(u)
        /\ \A i \in 1..Len(x) : (x \o u)[i] = x[i]
        /\ \A i \in 1..Len(u) : (x \o u)[Len(x) + i] = u[i]
    BY ONLY <2>1, ConcatAt
  <2> QED
    BY <1>1, <2>2
<1> HIDE DEF v
<1>5. ASSUME NEW i \in 1..Len(v) PROVE v[i] = b[i]
  <2>1. CASE i <= Len(x)
    BY <1>2, <1>4, <2>1 DEF Prefix
  <2>2. CASE ~(i <= Len(x))
    <3>1. i - Len(x) \in 1..w /\ Len(x) + (i - Len(x)) = i
      BY <1>2, <1>4, <2>2
    <3> QED
      BY <1>1, <1>4, <3>1
  <2> QED
    BY <2>1, <2>2
<1>6. Prefix(v, b)
  BY <1>2, <1>4, <1>5 DEF Prefix
<1> QED
  BY <1>4, <1>6 DEF v, u

\* What every step in the body preserves.
LEMMA BodyStep ==
  ASSUME HttpInv, pc = "body", pc' \in {"recv", "body", "returned"},
         UNCHANGED <<server, net, firstLine, parsedHeaders, framing, thrown>>,
         expectedChunkSize' \in Nat, removeCrlfAfterChunk' \in BOOLEAN,
         response' \in [status : Nat, headers : Seq(HeaderTexts), body : Seq(Bytes)],
         response'.headers = response.headers, response'.status = response.status,
         Prefix(response'.body, Body(msg)),
         pc' = "returned" => response'.body = Body(msg),
         PlainInv', ChunkInv'
  PROVE  HttpInv'
<1>1. parsedHeaders /\ Running
  BY DEF HttpInv, KindInv, Running
<1>2. response.headers = msg.headers /\ response.status = StatusNumber(msg)
  BY <1>1 DEF HttpInv, BodyInv
<1>3. GivenInv'
  BY DEF HttpInv, GivenInv, server
<1>4. KindInv'
  <2>1. /\ pc' \in {"open", "send", "recv", "headers", "body", "returned", "threw"}
        /\ peer' \in {"open", "closed"} /\ lost' \in BOOLEAN /\ firstLine' \in BOOLEAN
        /\ parsedHeaders' \in BOOLEAN /\ chunkedResponse' \in BOOLEAN
        /\ contentLengthReceived' \in BOOLEAN /\ contentLength' \in Nat
        /\ thrown' \in {"nothing", "scheme", "system", "parser"}
        /\ pc' = "threw" <=> thrown' # "nothing"
        /\ peer' = "open" => ~lost'
        /\ parsedHeaders' /\ ~firstLine'
    BY <1>1 DEF HttpInv, KindInv, server, framing
  <2>2. pc' \notin {"open", "send", "headers"}
    OBVIOUS
  <2> QED
    BY <2>1, <2>2 DEF KindInv
<1>5. FramingInv'
  BY <1>1 DEF HttpInv, FramingInv, server, framing
<1>6. HeadersInv'
  BY <1>1 DEF HeadersInv
<1>7. BodyInv'
  BY <1>2 DEF BodyInv, server
<1>8. ResultInv'
  <2>1. Prefix(response'.headers, msg'.headers)
    BY DEF HttpInv, ResultInv, server
  <2>2. pc' = "returned" => response' = Complete(msg')
    BY <1>2 DEF Complete, server
  <2>3. NeverMisframed'
    BY DEF HttpInv, ResultInv, NeverMisframed, server
  <2>4. Prefix(response'.body, Body(msg')) /\ response'.headers = msg'.headers
    BY <1>2 DEF server
  <2> QED
    BY <2>1, <2>2, <2>3, <2>4 DEF ResultInv
<1> QED
  BY <1>3, <1>4, <1>5, <1>6, <1>7, <1>8 DEF HttpInv

\* The body of a response grows.
LEMMA ResponseGrows ==
  ASSUME NEW f \in [status : Nat, headers : Seq(HeaderTexts), body : Seq(Bytes)],
         NEW g, NEW b \in Seq(Bytes), g = [f EXCEPT !.body = b]
  PROVE  /\ g \in [status : Nat, headers : Seq(HeaderTexts), body : Seq(Bytes)]
         /\ g.headers = f.headers /\ g.status = f.status /\ g.body = b
  OBVIOUS

\* Without chunks, what is behind the headers is the body.
LEMMA PlainBodyInv ==
  ASSUME HttpInv, PlainBody
  PROVE  HttpInv'
<1> DEFINE r == Render(msg)
           k == HeadLength(msg) + Len(response.body)
           n == Len(rd)
           b == Body(msg)
<1>1. /\ pc = "body" /\ ~chunkedResponse /\ Running /\ rd' = <<>>
      /\ response' = [response EXCEPT !.body = response.body \o rd]
      /\ UNCHANGED <<server, net, firstLine, parsedHeaders, framing, chunk, thrown>>
      /\ pc' = IF contentLengthReceived /\ Len(response'.body) >= contentLength THEN "returned" ELSE "recv"
  BY DEF PlainBody, Running
<1>2. parsedHeaders
  BY <1>1 DEF HttpInv, KindInv
<1>3. Stream(r, k, rd, net, lost) /\ Prefix(response.body, b)
  BY <1>1, <1>2 DEF HttpInv, PlainInv
<1>4. /\ ~IsChunked(msg)
      /\ contentLengthReceived => contentLength = Len(b)
  BY <1>1, <1>2, ChunkedIs DEF HttpInv, BodyInv
<1>5. r \in Seq(Tokens) /\ PlainAt(msg, r) /\ b \in Seq(Bytes) /\ msg.headers \in Seq(HeaderTexts)
  BY WireLayout, MessageParts DEF HttpInv, GivenInv
<1>6. response \in [status : Nat, headers : Seq(HeaderTexts), body : Seq(Bytes)]
  BY DEF HttpInv, KindInv
<1>7. /\ Len(r) = HeadLength(msg) + Len(b)
      /\ \A i \in 1..Len(b) : r[HeadLength(msg) + i] = b[i]
  BY <1>4, <1>5 DEF PlainAt
<1>8. /\ HeadLength(msg) \in Nat /\ Len(response.body) \in Nat /\ Len(b) \in Nat
      /\ response.body \in Seq(Bytes)
  BY <1>5, <1>6 DEF HeadLength
<1> HIDE DEF r, k
<1>9. /\ rd \in Seq(Tokens) /\ n \in Nat /\ Len(net) \in Nat /\ k + n + Len(net) <= Len(r)
      /\ \A i \in 1..n : rd[i] = r[k + i]
  BY <1>3, <1>5, StreamAt
<1>10. k = HeadLength(msg) + Len(response.body) /\ k \in Nat
  BY <1>8 DEF k
<1> HIDE DEF n, b
<1>11. Len(response.body) + n <= Len(b)
  <2>1. HeadLength(msg) + Len(response.body) + n + Len(net) <= HeadLength(msg) + Len(b)
    BY <1>7, <1>9, <1>10
  <2>2. \A h, x, i, j, y \in Nat : h + x + i + j <= h + y => x + i <= y
    OBVIOUS
  <2>3. HeadLength(msg) \in Nat /\ Len(response.body) \in Nat /\ n \in Nat /\ Len(net) \in Nat /\ Len(b) \in Nat
    BY <1>8, <1>9 DEF b
  <2> QED
    BY <2>1, <2>2, <2>3
<1>12. ASSUME NEW i \in 1..n PROVE rd[i] = b[Len(response.body) + i]
  <2>1. Len(response.body) + i \in 1..Len(b) /\ HeadLength(msg) + (Len(response.body) + i) = k + i
    <3>1. \A h, x, m, y \in Nat : \A q \in 1..m : x + m <= y => x + q \in 1..y /\ h + (x + q) = (h + x) + q
      OBVIOUS
    <3>2. HeadLength(msg) \in Nat /\ Len(response.body) \in Nat /\ n \in Nat /\ Len(b) \in Nat
      BY <1>8, <1>9 DEF b
    <3> QED
      <4>1. Len(response.body) + i \in 1..Len(b)
            /\ HeadLength(msg) + (Len(response.body) + i) = (HeadLength(msg) + Len(response.body)) + i
        BY ONLY <1>11, <3>1, <3>2, i \in 1..n
      <4> QED
        BY <1>10, <4>1
  <2> QED
    BY <1>7, <1>9, <2>1
<1>13. Before(rd, n + 1) = rd /\ n \in 0..Len(rd) /\ From(rd, n + 1) = <<>>
  <2>1. n \in 0..Len(rd) /\ n = Len(rd)
    BY <1>9 DEF n
  <2>2. /\ Before(rd, n + 1) \in Seq(Tokens) /\ Len(Before(rd, n + 1)) = Len(rd)
        /\ \A i \in 1..n : Before(rd, n + 1)[i] = rd[i]
        /\ From(rd, n + 1) \in Seq(Tokens) /\ Len(From(rd, n + 1)) = Len(rd) - n
    BY <1>9, <2>1, CutAt
  <2>3. Before(rd, n + 1) = rd
    BY <1>9, <2>1, <2>2, SeqEqual
  <2>4. Len(From(rd, n + 1)) = 0
    BY <1>9, <2>1, <2>2
  <2> QED
    BY <2>1, <2>2, <2>3, <2>4
<1> DEFINE nb == response.body \o rd
<1>14. nb \in Seq(Bytes) /\ Len(nb) = Len(response.body) + n /\ Prefix(nb, b)
  <2>1. response.body \in Seq(Bytes) /\ b \in Seq(Bytes) /\ rd \in Seq(Tokens)
    BY <1>5, <1>8, <1>9 DEF b
  <2>2. Prefix(response.body, b)
    BY <1>3 DEF b
  <2>3. /\ response.body \o Before(rd, n + 1) \in Seq(Bytes)
        /\ Len(response.body \o Before(rd, n + 1)) = Len(response.body) + n
        /\ Prefix(response.body \o Before(rd, n + 1), b)
    BY <1>11, <1>12, <1>13, <2>1, <2>2, BodyGrows
  <2> QED
    BY <1>13, <2>3
<1> HIDE DEF nb
<1>15. response' = [response EXCEPT !.body = nb]
  BY <1>1 DEF nb
<1>16. /\ response' \in [status : Nat, headers : Seq(HeaderTexts), body : Seq(Bytes)]
       /\ response'.headers = response.headers /\ response'.status = response.status /\ response'.body = nb
  BY <1>6, <1>14, <1>15, ResponseGrows
<1>17. pc' = "returned" => nb = b
  <2> SUFFICES ASSUME pc' = "returned" PROVE nb = b
    OBVIOUS
  <2>1. Len(nb) >= Len(b)
    BY <1>1, <1>4, <1>16 DEF b
  <2>2. b \in Seq(Bytes)
    BY <1>5 DEF b
  <2> QED
    BY <1>14, <2>1, <2>2, PrefixIs
<1>18. PlainInv'
  <2>1. Stream(r, k + n, rd', net, lost)
    BY <1>1, <1>3, <1>5, <1>13, StreamTake
  <2>2. k + n = HeadLength(msg) + Len(nb)
    <3>1. \A h, x, m \in Nat : (h + x) + m = h + (x + m)
      OBVIOUS
    <3>2. HeadLength(msg) \in Nat /\ Len(response.body) \in Nat /\ n \in Nat
      BY <1>8, <1>9
    <3>3. (HeadLength(msg) + Len(response.body)) + n = HeadLength(msg) + (Len(response.body) + n)
      BY ONLY <3>1, <3>2
    <3> QED
      BY <1>10, <1>14, <3>3
  <2>3. Stream(Render(msg)', HeadLength(msg)' + Len(response'.body), rd', net', lost')
    BY <1>1, <1>16, <2>1, <2>2 DEF r, server
  <2>4. Prefix(response'.body, Body(msg'))
    BY <1>1, <1>14, <1>16 DEF b, server
  <2>5. pc' = "recv" => (contentLengthReceived' => Len(response'.body) < Len(Body(msg')))
    <3> SUFFICES ASSUME pc' = "recv", contentLengthReceived PROVE Len(nb) < Len(b)
      BY <1>1, <1>16 DEF b, server, framing
    <3>1. ~(Len(nb) >= Len(b))
      BY <1>1, <1>4, <1>16 DEF b
    <3> QED
      BY <1>8, <1>9, <1>14, <3>1 DEF b
  <2> QED
    BY <1>1, <2>3, <2>4, <2>5 DEF PlainInv
<1>19. ChunkInv'
  BY <1>1 DEF ChunkInv, framing
<1>20. pc' \in {"recv", "body", "returned"}
  BY <1>1
<1>21. expectedChunkSize' \in Nat /\ removeCrlfAfterChunk' \in BOOLEAN
  BY <1>1 DEF HttpInv, KindInv, chunk
<1>22. UNCHANGED <<server, net, firstLine, parsedHeaders, framing, thrown>>
  BY <1>1
<1>23. Prefix(response'.body, Body(msg)) /\ (pc' = "returned" => response'.body = Body(msg))
  BY <1>14, <1>16, <1>17 DEF b
<1> QED
  BY <1>1, <1>16, <1>18, <1>19, <1>20, <1>21, <1>22, <1>23, BodyStep

\* A small number is the same as an int.
LEMMA AsIntIs ==
  ASSUME NEW n \in Nat, n <= IntMax
  PROVE  AsInt(n) = n
<1> DEFINE b == 2 * (IntMax + 1)
<1>1. b \in Nat \ {0} /\ n < b /\ IntMax \in Nat
  BY HttpAssumption
<1> HIDE DEF b
<1>2. n % b = n
  BY <1>1
<1>3. AsInt(n) = IF (n % b) > IntMax THEN (n % b) - b ELSE n % b
  BY DEF AsInt, b
<1> QED
  BY <1>1, <1>2, <1>3

\* Of a response that the code understands, std::min<int> gives the smaller number.
LEMMA ToWriteIs ==
  ASSUME HttpInv, pc = "body", chunkedResponse, expectedChunkSize > 0
  PROVE  ToWrite = Min({expectedChunkSize, Len(rd)}) /\ ToWrite \in Nat
<1> DEFINE r == Render(msg)
           e == expectedChunkSize
<1>1. Running /\ parsedHeaders /\ msg \in Messages
  BY DEF Running, HttpInv, KindInv, GivenInv
<1>2. IsChunked(msg)
  BY <1>1, ChunkedIs DEF HttpInv, BodyInv
<1>3. PICK c \in 1..(Len(msg.chunks) + 1) : InData(c)
  BY <1>1 DEF HttpInv, ChunkInv, AtChunk, PastData
<1> DEFINE len == Len(msg.chunks[c])
           k == ChunkStart(msg)[c] + 3 + (len - e)
<1>4. c <= Len(msg.chunks) /\ e \in 1..len /\ Stream(r, k, rd, net, lost)
  BY <1>3 DEF InData
<1>5. /\ r \in Seq(Tokens) /\ len \in Nat /\ ChunkStart(msg)[c] \in Nat
      /\ ChunkStart(msg)[c] + len + 10 <= Len(r) /\ Len(r) \in Nat
  BY <1>1, <1>2, <1>4, ChunkPlaces DEF ChunkAt
<1>6. /\ k \in Nat /\ Len(rd) \in Nat /\ Len(net) \in Nat
      /\ k + Len(rd) + Len(net) <= Len(r)
  BY <1>4, <1>5, StreamAt
<1>7. Len(r) <= IntMax /\ IntMax \in Nat
  BY HttpAssumption DEF HttpInv, GivenInv, Understood, Moderate
<1> HIDE DEF r, k, len
<1>8. e \in Nat /\ e <= IntMax /\ Len(rd) <= IntMax
  BY <1>4, <1>5, <1>6, <1>7
<1>9. AsInt(e) = e /\ AsInt(Len(rd)) = Len(rd)
  BY <1>6, <1>8, AsIntIs
<1>10. ToWrite = Min({e, Len(rd)})
  BY <1>9 DEF ToWrite
<1> QED
  BY <1>6, <1>8, <1>10, MinOfTwo

\* The bytes of a chunk, up to its end and not beyond.
LEMMA ChunkDataInv ==
  ASSUME HttpInv, ChunkData
  PROVE  HttpInv'
<1> DEFINE r == Render(msg)
           n == Len(rd)
           b == Body(msg)
           e == expectedChunkSize
           w == Min({e, n})
           x == Len(response.body)
<1>1. /\ pc = "body" /\ chunkedResponse /\ Running /\ e > 0 /\ e \in Nat /\ parsedHeaders
      /\ UNCHANGED <<server, net, firstLine, parsedHeaders, framing, thrown>>
      /\ response' = [response EXCEPT !.body = response.body \o Before(rd, w + 1)]
      /\ rd' = From(rd, w + 1)
      /\ expectedChunkSize' = e - w
      /\ removeCrlfAfterChunk' = (removeCrlfAfterChunk \/ expectedChunkSize' = 0)
      /\ pc' = IF rd' = <<>> THEN "recv" ELSE "body"
  <2>1. ToWrite = w
    BY ToWriteIs DEF ChunkData
  <2> QED
    BY <2>1 DEF ChunkData, Running, HttpInv, KindInv
<1>2. IsChunked(msg) /\ msg \in Messages
  BY <1>1, ChunkedIs DEF HttpInv, BodyInv, GivenInv
<1>3. PICK c \in 1..(Len(msg.chunks) + 1) : AtChunk(c) \/ InData(c) \/ PastData(c)
  BY <1>1 DEF HttpInv, ChunkInv
<1>4. InData(c)
  BY <1>1, <1>3 DEF AtChunk, PastData
<1> DEFINE len == Len(msg.chunks[c])
           p == ChunkStart(msg)[c]
           d == BodyStart(msg)[c]
           k == p + 3 + (len - e)
<1>5. /\ c <= Len(msg.chunks) /\ e \in 1..len /\ ~removeCrlfAfterChunk
      /\ Stream(r, k, rd, net, lost)
      /\ x = d + (len - e)
  BY <1>4 DEF InData
<1>6. /\ r \in Seq(Tokens) /\ len \in Nat /\ p \in Nat /\ d \in Nat
      /\ ChunkAt(msg, r, len, p, d)
  BY <1>2, <1>5, ChunkPlaces
<1>7. \A i \in 1..len : r[p + 3 + i] = b[d + i]
  BY <1>6 DEF ChunkAt
<1>8. d + len <= Len(b)
  BY <1>6 DEF ChunkAt
<1>9. b \in Seq(Bytes) /\ Len(b) \in Nat
  BY <1>2, MessageParts
<1>10. Prefix(response.body, b)
  BY <1>1 DEF HttpInv, ChunkInv
<1>11. response \in [status : Nat, headers : Seq(HeaderTexts), body : Seq(Bytes)]
  BY DEF HttpInv, KindInv
<1>12. response.body \in Seq(Bytes) /\ x \in Nat
  BY <1>11
<1> HIDE DEF r, b, p, d, len
<1>13. k \in Nat /\ len - e \in Nat
  <2>1. \A q, l \in Nat : \A z \in 1..l : l - z \in Nat /\ q + 3 + (l - z) \in Nat
    OBVIOUS
  <2>2. p \in Nat /\ len \in Nat /\ e \in 1..len
    BY <1>5, <1>6
  <2> HIDE DEF e
  <2> QED
    BY ONLY <2>1, <2>2 DEF k
<1> HIDE DEF k
<1>14. rd \in Seq(Tokens) /\ n \in Nat /\ \A i \in 1..n : rd[i] = r[k + i]
  BY <1>5, <1>6, StreamAt
<1>15. k = p + 3 + (len - e)
  BY DEF k
<1> HIDE DEF x, n, e
<1>16. w \in Nat /\ w <= e /\ w <= n /\ (w = e \/ w = n)
  BY <1>1, <1>14, MinOfTwo
<1> HIDE DEF w
<1>17. w \in 0..Len(rd) /\ e - w \in Nat /\ e \in Nat
  BY <1>1, <1>14, <1>16 DEF n
<1>18. ASSUME NEW i \in 1..w PROVE rd[i] = b[x + i]
  <2>1. (len - e) + i \in 1..len /\ i \in 1..n /\ p + 3 + ((len - e) + i) = k + i /\ d + ((len - e) + i) = x + i
    BY <1>5, <1>6, <1>13, <1>14, <1>15, <1>16, <1>17
  <2> QED
    BY <1>7, <1>14, <2>1
<1>19. x + w <= Len(b)
  BY <1>5, <1>6, <1>8, <1>9, <1>13, <1>16, <1>17
<1> DEFINE nb == response.body \o Before(rd, w + 1)
<1>20. nb \in Seq(Bytes) /\ Len(nb) = x + w /\ Prefix(nb, b)
  BY <1>9, <1>10, <1>12, <1>14, <1>17, <1>18, <1>19, BodyGrows DEF x
<1> HIDE DEF nb
<1>21. response' = [response EXCEPT !.body = nb]
  BY <1>1 DEF nb
<1>22. /\ response' \in [status : Nat, headers : Seq(HeaderTexts), body : Seq(Bytes)]
       /\ response'.headers = response.headers /\ response'.status = response.status /\ response'.body = nb
  BY <1>11, <1>20, <1>21, ResponseGrows
<1>23. Stream(r, k + w, rd', net, lost) /\ Len(rd') = n - w /\ rd' \in Seq(Tokens)
  <2>1. Stream(r, k + w, From(rd, w + 1), net, lost) /\ Len(From(rd, w + 1)) = Len(rd) - w
    BY <1>5, <1>6, <1>17, StreamTake
  <2>2. rd' \in Seq(Tokens)
    BY <1>1, <1>6, <2>1, StreamAt
  <2> QED
    BY <1>1, <2>1, <2>2 DEF n
<1>24. ChunkInv'
  <2>1. Prefix(response'.body, Body(msg'))
    BY <1>1, <1>20, <1>22 DEF b, server
  <2>2. c \in 1..(Len(msg'.chunks) + 1) /\ c <= Len(msg'.chunks) /\ len = Len(msg'.chunks[c])
    BY <1>1, <1>3, <1>5 DEF server, len
  <2>3. r = Render(msg') /\ p = ChunkStart(msg')[c] /\ d = BodyStart(msg')[c] /\ net' = net /\ lost' = lost
    BY <1>1 DEF server, r, p, d
  <2>4. CASE e - w = 0
    <3>1. k + w = p + 3 + len /\ x + w = d + len
      BY <1>5, <1>6, <1>15, <1>16, <1>17, <2>4
    <3>2. Stream(Render(msg'), ChunkStart(msg')[c] + 3 + Len(msg'.chunks[c]), rd', net', lost')
      BY <1>23, <2>2, <2>3, <3>1
    <3>3. Len(response'.body) = BodyStart(msg')[c] + Len(msg'.chunks[c])
      BY <1>20, <1>22, <2>2, <2>3, <3>1
    <3>4. pc' = "recv" => Len(rd') < 2
      BY <1>1
    <3>5. PastData(c)'
      BY <1>1, <2>2, <2>4, <3>2, <3>3, <3>4 DEF PastData, e
    <3> QED
      BY <2>1, <2>2, <3>5 DEF ChunkInv
  <2>5. CASE e - w # 0
    <3>1. expectedChunkSize' = e - w /\ e - w \in 1..len /\ removeCrlfAfterChunk' = FALSE
      <4>1. expectedChunkSize' = e - w /\ e - w # 0 /\ e - w \in 1..len
        BY <1>1, <1>5, <1>6, <1>16, <1>17, <2>5
      <4>2. ~removeCrlfAfterChunk /\ expectedChunkSize' # 0
        BY <1>5, <4>1
      <4>3. removeCrlfAfterChunk' = (removeCrlfAfterChunk \/ expectedChunkSize' = 0)
        BY <1>1
      <4> QED
        BY <4>1, <4>2, <4>3
    <3>2. w = n /\ rd' = <<>>
      <4>1. w = n
        BY <1>16, <1>17, <2>5
      <4>2. Len(rd') = 0
        BY <1>14, <1>23, <4>1
      <4> QED
        BY <1>23, <4>1, <4>2
    <3>3. k + w = p + 3 + (len - (e - w)) /\ x + w = d + (len - (e - w))
      BY <1>5, <1>6, <1>13, <1>15, <1>16, <1>17
    <3>4. Stream(Render(msg'), ChunkStart(msg')[c] + 3 + (Len(msg'.chunks[c]) - expectedChunkSize'), rd', net', lost')
      BY <1>23, <2>2, <2>3, <3>1, <3>3
    <3>5. Len(response'.body) = BodyStart(msg')[c] + (Len(msg'.chunks[c]) - expectedChunkSize')
      BY <1>20, <1>22, <2>2, <2>3, <3>1, <3>3
    <3>6. InData(c)'
      BY <2>2, <3>1, <3>2, <3>4, <3>5 DEF InData
    <3> QED
      BY <2>1, <2>2, <3>6 DEF ChunkInv
  <2> QED
    BY <2>4, <2>5
<1>25. PlainInv'
  BY <1>1 DEF PlainInv, framing
<1>26. expectedChunkSize' \in Nat /\ removeCrlfAfterChunk' \in BOOLEAN
  BY <1>1, <1>17
<1>27. pc' \in {"recv", "body", "returned"} /\ pc' # "returned"
  BY <1>1
<1>28. Prefix(response'.body, Body(msg))
  BY <1>20, <1>22 DEF b
<1> QED
  BY <1>1, <1>22, <1>24, <1>25, <1>26, <1>27, <1>28, BodyStep

\* Where the size of the next chunk is incomplete, only a line end is taken off.
LEMMA ChunkIncompleteInv ==
  ASSUME HttpInv, ChunkIncomplete
  PROVE  HttpInv'
<1>1. /\ pc = "body" /\ chunkedResponse /\ Running /\ expectedChunkSize = 0 /\ parsedHeaders
      /\ UNCHANGED <<server, net, firstLine, parsedHeaders, framing, expectedChunkSize, response, thrown>>
      /\ pc' = "recv"
  BY DEF ChunkIncomplete, Running, HttpInv, KindInv
<1>2. Prefix(response.body, Body(msg)) /\ response' = response
  BY <1>1 DEF HttpInv, ChunkInv
<1>3. Prefix(response'.body, Body(msg'))
  BY <1>1, <1>2 DEF server
<1>4. ChunkInv' /\ removeCrlfAfterChunk' \in BOOLEAN
  <2>1. CASE removeCrlfAfterChunk /\ Len(rd) < 2
    <3>1. PICK c \in 1..(Len(msg.chunks) + 1) : AtChunk(c) \/ InData(c) \/ PastData(c)
      BY <1>1 DEF HttpInv, ChunkInv
    <3>2. PastData(c)
      BY <1>1, <2>1, <3>1 DEF AtChunk, InData
    <3>3. rd' = rd /\ removeCrlfAfterChunk' = removeCrlfAfterChunk
      BY <2>1 DEF ChunkIncomplete
    <3>4. PastData(c)'
      BY <1>1, <2>1, <3>2, <3>3 DEF PastData, server
    <3>5. c \in 1..(Len(msg'.chunks) + 1)
      BY <1>1, <3>1 DEF server
    <3>6. removeCrlfAfterChunk' \in BOOLEAN
      BY <3>3 DEF HttpInv, KindInv
    <3> QED
      BY <1>3, <3>4, <3>5, <3>6 DEF ChunkInv
  <2>2. CASE ~(removeCrlfAfterChunk /\ Len(rd) < 2)
    <3>1. rd' = AfterChunk /\ removeCrlfAfterChunk' = FALSE /\ Find(AfterChunk, CRLF) = 0
      BY <2>2 DEF ChunkIncomplete, SizeEnd
    <3>2. ~removeCrlfAfterChunk \/ Len(rd) >= 2
      <4>1. Len(rd) \in Nat
        <5>1. PICK c \in 1..(Len(msg.chunks) + 1) : AtChunk(c) \/ InData(c) \/ PastData(c)
          BY <1>1 DEF HttpInv, ChunkInv
        <5>2. rd \in Seq(Tokens)
          BY <5>1 DEF AtChunk, InData, PastData, Stream
        <5> QED
          BY <5>2
      <4> QED
        BY <2>2, <4>1
    <3>3. PICK c \in 1..(Len(msg.chunks) + 1) :
            /\ Stream(Render(msg), ChunkStart(msg)[c], AfterChunk, net, lost)
            /\ Len(response.body) = BodyStart(msg)[c]
      BY <1>1, <3>2, NextChunk
    <3>4. AtChunk(c)'
      BY <1>1, <3>1, <3>3 DEF AtChunk, server
    <3>5. c \in 1..(Len(msg'.chunks) + 1)
      BY <1>1, <3>3 DEF server
    <3> QED
      BY <1>3, <3>1, <3>4, <3>5 DEF ChunkInv
  <2> QED
    BY <2>1, <2>2
<1>5. PlainInv'
  BY <1>1 DEF PlainInv, framing
<1>6. response' \in [status : Nat, headers : Seq(HeaderTexts), body : Seq(Bytes)]
  BY <1>2 DEF HttpInv, KindInv
<1>7. expectedChunkSize' \in Nat
  BY <1>1
<1>8. /\ response'.headers = response.headers /\ response'.status = response.status
      /\ Prefix(response'.body, Body(msg))
  BY <1>2
<1>9. pc' \in {"recv", "body", "returned"} /\ pc' # "returned"
  BY <1>1
<1> QED
  BY <1>1, <1>4, <1>5, <1>6, <1>7, <1>8, <1>9, BodyStep

\* The line that is taken for a size is the size of the next chunk, or of the last.
LEMMA ChunkSizeInv ==
  ASSUME HttpInv, ChunkSize
  PROVE  HttpInv'
<1> DEFINE r == Render(msg)
           a == AfterChunk
           n == Len(msg.chunks)
<1>1. /\ pc = "body" /\ chunkedResponse /\ Running /\ expectedChunkSize = 0 /\ parsedHeaders
      /\ ~removeCrlfAfterChunk \/ Len(rd) >= 2
      /\ UNCHANGED <<server, net, firstLine, parsedHeaders, framing, response>>
      /\ removeCrlfAfterChunk' = FALSE
  BY DEF ChunkSize, Running, HttpInv, KindInv
<1>2. IsChunked(msg) /\ msg \in Messages
  BY <1>1, NextChunk DEF HttpInv, GivenInv
<1>3. PICK c \in 1..(n + 1) : Stream(r, ChunkStart(msg)[c], a, net, lost) /\ Len(response.body) = BodyStart(msg)[c]
  BY <1>1, NextChunk
<1> DEFINE p == ChunkStart(msg)[c]
           size == IF c <= n THEN Len(msg.chunks[c]) ELSE 0
<1>4. /\ a \in Seq(Tokens)
      /\ Find(a, CRLF) = IF Len(a) > 2 THEN 2 ELSE 0
      /\ Len(a) > 2 => a[1] = <<"size", size>>
  BY <1>2, <1>3, SizeLine
<1>5. Len(a) > 2 /\ SizeEnd = 2
  BY <1>4 DEF ChunkSize, SizeEnd
<1>6. /\ r \in Seq(Tokens) /\ n \in Nat /\ p \in Nat /\ Len(Body(msg)) \in Nat
      /\ c <= n => Len(msg.chunks[c]) \in Nat \ {0}
      /\ c > n => BodyStart(msg)[c] = Len(Body(msg))
  BY <1>2, <1>3, ChunkPlaces
<1>7. size \in Nat /\ (size = 0 => BodyStart(msg)[c] = Len(Body(msg))) /\ (size # 0 => c <= n /\ size = Len(msg.chunks[c]))
  BY <1>3, <1>6
<1> HIDE DEF a, r, p, size
<1>8. /\ Before(a, 2) \in Seq(Tokens) /\ Len(Before(a, 2)) = 1 /\ Before(a, 2)[1] = <<"size", size>>
  <2>1. 1 \in 0..Len(a) /\ 1 + 1 = 2
    BY <1>4, <1>5
  <2>2. Before(a, 1 + 1) \in Seq(Tokens) /\ Len(Before(a, 1 + 1)) = 1 /\ \A i \in 1..1 : Before(a, 1 + 1)[i] = a[i]
    BY <1>4, <2>1, CutAt
  <2> QED
    BY <1>4, <1>5, <2>1, <2>2
<1>9. Before(a, 2) # <<>> /\ <<"size", size>>[1] = "size" /\ <<"size", size>>[2] = size
  BY <1>8
<1>10. /\ expectedChunkSize' = size
       /\ pc' = IF size = 0 THEN "returned" ELSE "body"
       /\ thrown' = thrown
  BY <1>5, <1>8, <1>9 DEF ChunkSize, a
<1>11. rd' = From(a, 4)
  BY <1>5 DEF ChunkSize, a
<1>12. Stream(r, p + 3, rd', net, lost)
  <2>1. 3 \in 0..Len(a) /\ 3 + 1 = 4
    BY <1>4, <1>5
  <2>2. Stream(r, p, a, net, lost)
    BY <1>3 DEF p, a, r
  <2> QED
    BY <1>6, <1>11, <2>1, <2>2, StreamTake
<1>13. Prefix(response.body, Body(msg)) /\ response' = response
  BY <1>1 DEF HttpInv, ChunkInv
<1>14. response' \in [status : Nat, headers : Seq(HeaderTexts), body : Seq(Bytes)]
  BY <1>13 DEF HttpInv, KindInv
<1>15. pc' = "returned" => response'.body = Body(msg)
  <2> SUFFICES ASSUME pc' = "returned" PROVE response.body = Body(msg)
    BY <1>13
  <2>1. Len(response.body) = Len(Body(msg))
    BY <1>3, <1>7, <1>10
  <2>2. response.body \in Seq(Bytes) /\ Body(msg) \in Seq(Bytes) /\ Len(response.body) >= Len(Body(msg))
    BY <1>2, <1>6, <1>13, <1>14, <2>1, MessageParts
  <2> QED
    BY <1>13, <2>2, PrefixIs
<1>16. ChunkInv'
  <2> SUFFICES ASSUME size # 0 PROVE ChunkInv'
    BY <1>10 DEF ChunkInv, Running
  <2> DEFINE len == Len(msg.chunks[c])
  <2>1. c <= n /\ size = len /\ len \in Nat /\ len > 0
    BY <1>6, <1>7
  <2>2. msg' = msg /\ net' = net /\ lost' = lost /\ pc' = "body"
    BY <1>1, <1>10 DEF server
  <2>3. /\ expectedChunkSize' = len /\ len \in 1..len
        /\ p + 3 + (len - len) = p + 3 /\ BodyStart(msg)[c] + (len - len) = BodyStart(msg)[c]
    <3>1. BodyStart(msg)[c] \in Nat
      BY <1>2, <1>3, ChunkPlaces
    <3> QED
      BY <1>6, <1>10, <2>1, <3>1
  <2>4. InData(c)'
    <3> HIDE DEF len
    <3>1. Stream(r, p + 3 + (len - len), rd', net', lost')
      BY <1>12, <2>2, <2>3
    <3>2. Len(response'.body) = BodyStart(msg)[c] + (len - len)
      BY <1>3, <1>13, <2>3
    <3> QED
      BY <1>1, <2>1, <2>2, <2>3, <3>1, <3>2 DEF InData, r, p, len
  <2>5. Prefix(response'.body, Body(msg')) /\ c \in 1..(Len(msg'.chunks) + 1)
    BY <1>3, <1>13, <2>2
  <2> QED
    BY <2>4, <2>5 DEF ChunkInv
<1>17. PlainInv'
  BY <1>1 DEF PlainInv, framing
<1>18. expectedChunkSize' \in Nat /\ removeCrlfAfterChunk' \in BOOLEAN /\ pc' \in {"recv", "body", "returned"}
  BY <1>1, <1>7, <1>10
<1>19. UNCHANGED <<server, net, firstLine, parsedHeaders, framing, thrown>>
  BY <1>1, <1>10
<1>20. response'.headers = response.headers /\ response'.status = response.status /\ Prefix(response'.body, Body(msg))
  BY <1>13
<1> QED
  BY <1>1, <1>14, <1>15, <1>16, <1>17, <1>18, <1>19, <1>20, BodyStep

\* The response that the server means is the same throughout.
LEMMA ResponseStays ==
  ASSUME [Next]_vars
  PROVE  msg' = msg
  BY DEF Next, Client, Parse, Open, Send, Recv, Disconnected, HeadersIncomplete, EndOfHeaders,
     StatusLine, Header, PlainBody, ChunkThrows, ChunkData, ChunkIncomplete, ChunkSize,
     SocketFails, PeerCloses, Finished, vars, server

\* Every step keeps the place.
LEMMA NextInv ==
  ASSUME HttpInv, [Next]_vars
  PROVE  HttpInv'
<1>1. CASE Open
  BY <1>1, OpenInv
<1>2. CASE Send
  BY <1>2, SendInv
<1>3. CASE Recv
  BY <1>3, RecvInv
<1>4. CASE Disconnected
  BY <1>4, DisconnectedInv
<1>5. CASE HeadersIncomplete
  BY <1>5, HeadersIncompleteInv
<1>6. CASE EndOfHeaders
  BY <1>6, EndOfHeadersInv
<1>7. CASE StatusLine
  BY <1>7, StatusLineInv
<1>8. CASE Header
  BY <1>8, HeaderInv
<1>9. CASE PlainBody
  BY <1>9, PlainBodyInv
<1>10. CASE ChunkThrows \/ ChunkData
  <2>1. ~ChunkThrows
    <3> SUFFICES ASSUME ChunkThrows PROVE FALSE
      OBVIOUS
    <3>1. ToWrite \in Nat /\ ToWrite < 0
      BY ToWriteIs DEF ChunkThrows
    <3> QED
      BY <3>1
  <2> QED
    BY <1>10, <2>1, ChunkDataInv
<1>11. CASE ChunkIncomplete
  BY <1>11, ChunkIncompleteInv
<1>12. CASE ChunkSize
  BY <1>12, ChunkSizeInv
<1>13. CASE SocketFails
  BY <1>13, SocketFailsInv
<1>14. CASE PeerCloses
  BY <1>14, PeerClosesInv
<1>15. CASE UNCHANGED vars
  BY <1>15, StutterInv
<1> QED
  BY <1>1, <1>2, <1>3, <1>4, <1>5, <1>6, <1>7, <1>8, <1>9, <1>10, <1>11, <1>12,
     <1>13, <1>14, <1>15 DEF Next, Client, Parse, Finished

\* While send() reads a response that is no longer than an int holds and has its
\* headers spelled as the code does, what was parsed, what was received and what is to
\* come are the response put together by the server, and the place in send(), the
\* size expected and the body read so far belong to one place in it
\* (httprequest.h:507-668).
THEOREM HttpInvariance == Spec => [](Understood(msg) => HttpInv)
<1> DEFINE Inv == Understood(msg) => HttpInv
<1>1. Init => Inv
  BY InitInv
<1>2. Inv /\ [Next]_vars => Inv'
  <2> SUFFICES ASSUME Inv, [Next]_vars, Understood(msg)' PROVE HttpInv'
    OBVIOUS
  <2>1. msg' = msg
    BY ResponseStays
  <2>2. HttpInv
    BY <2>1
  <2> QED
    BY <2>2, NextInv
<1> QED
  BY <1>1, <1>2, PTL DEF Spec

\* What of the variables does not depend on the response being understood.
TypeInv ==
  /\ TypeOK
  /\ rd \in Seq(Tokens) /\ net \in Seq(Tokens)

\* A search ends in the text it is made in, or nowhere.
LEMMA FindRange ==
  ASSUME NEW X, NEW s \in Seq(X), NEW p
  PROVE  Find(s, p) \in 0..Len(s)
<1> DEFINE at == {k \in DOMAIN s : IsPrefix(p, SubSeq(s, k, Len(s)))}
<1>1. at \subseteq 1..Len(s) /\ at \subseteq Nat /\ Len(s) \in Nat
  OBVIOUS
<1>2. Find(s, p) = IF at = {} THEN 0 ELSE Min(at)
  BY DEF Find
<1> HIDE DEF at
<1>3. ASSUME at # {} PROVE Min(at) \in at
  <2>1. \E x \in at : \A y \in at : x <= y
    BY <1>1, <1>3, SmallestOf
  <2> QED
    BY <2>1 DEF Min
<1>4. CASE at = {}
  BY <1>1, <1>2, <1>4
<1>5. CASE at # {}
  <2>1. Find(s, p) = Min(at) /\ Min(at) \in 1..Len(s)
    BY <1>1, <1>2, <1>3, <1>5
  <2> QED
    BY <1>1, <2>1
<1> QED
  BY <1>4, <1>5

\* Parts of a text are texts.
LEMMA PartsOfText ==
  ASSUME NEW X, NEW s \in Seq(X), NEW n \in Nat
  PROVE  From(s, n + 1) \in Seq(X) /\ (n <= Len(s) => Before(s, n) \in Seq(X))
<1>1. SubSeq(s, n + 1, Len(s)) \in Seq(X)
  OBVIOUS
<1>2. ASSUME n # 0, n <= Len(s) PROVE SubSeq(s, 1, n - 1) \in Seq(X)
  BY <1>2
<1> QED
  BY <1>1, <1>2 DEF From, Before

\* Where a line was found, what is behind it is a text, and so is its first token.
LEMMA LineIs ==
  ASSUME NEW s \in Seq(Tokens), Find(s, CRLF) > 0
  PROVE  /\ From(s, Find(s, CRLF) + 2) \in Seq(Tokens)
         /\ Before(s, Find(s, CRLF)) \in Seq(Tokens)
         /\ Before(s, Find(s, CRLF)) # <<>> => Before(s, Find(s, CRLF))[1] \in Tokens
         /\ Find(s, CRLF) > 1 => Before(s, Find(s, CRLF)) # <<>>
<1> DEFINE i == Find(s, CRLF)
<1>1. i \in 1..Len(s)
  BY FindRange
<1> HIDE DEF i
<1>2. From(s, (i + 1) + 1) \in Seq(Tokens) /\ Before(s, i) \in Seq(Tokens)
  BY <1>1, PartsOfText
<1>3. (i + 1) + 1 = i + 2
  BY <1>1
<1>4. ASSUME i > 1 PROVE Before(s, i) # <<>>
  BY <1>1, <1>4 DEF Before
<1>5. \A t \in Seq(Tokens) : t # <<>> => t[1] \in Tokens
  OBVIOUS
<1> QED
  BY <1>2, <1>3, <1>4, <1>5 DEF i

\* The numbers that tokens carry.
LEMMA TokenNumbers ==
  ASSUME NEW t \in Tokens, t[1] \in {"Content-Length", "size"}
  PROVE  t[2] \in Nat
<1>1. ASSUME NEW A, NEW B, t \in A \X B PROVE t[1] \in A /\ t[2] \in B
  BY <1>1
<1>2. CASE t \in StatusTexts
  <2>1. t = <<"text status", 0>> \/ t = <<"no status", 0>> \/ t \in {"status"} \X Nat
    BY <1>2 DEF StatusTexts, BadStatus, NoStatus
  <2>2. <<"text status", 0>>[1] = "text status" /\ <<"no status", 0>>[1] = "no status"
    OBVIOUS
  <2>3. t \in {"status"} \X Nat => t[1] = "status"
    OBVIOUS
  <2>4. t[1] \in {"text status", "no status", "status"}
    BY <2>1, <2>2, <2>3
  <2> QED
    BY <2>4
<1>3. CASE t \in HeaderTexts
  <2>1. t \in LengthNames \X Nat \/ t \in OtherNames \X STRING
    BY <1>3 DEF HeaderTexts
  <2> QED
    BY <2>1 DEF OtherNames
<1>4. CASE t \in Sizes
  BY <1>4 DEF Sizes
<1>5. CASE t \in Bytes
  BY <1>5 DEF Bytes, CR, LF
<1> QED
  BY <1>2, <1>3, <1>4, <1>5 DEF Tokens

\* std::min<int> of two sizes is an int, and no larger than either.
LEMMA ToWriteBound ==
  ASSUME expectedChunkSize \in Nat, Len(rd) \in Nat
  PROVE  ToWrite \in Int /\ ToWrite <= expectedChunkSize
<1> DEFINE b == 2 * (IntMax + 1)
<1>1. b \in Nat \ {0} /\ IntMax \in Nat
  BY HttpAssumption
<1> HIDE DEF b
<1>2. ASSUME NEW n \in Nat PROVE AsInt(n) \in Int /\ AsInt(n) <= n
  <2>1. n % b \in Nat /\ n % b <= n
    BY <1>1
  <2>2. AsInt(n) = IF (n % b) > IntMax THEN (n % b) - b ELSE n % b
    BY DEF AsInt, b
  <2> QED
    BY <1>1, <2>1, <2>2
<1> DEFINE x == AsInt(expectedChunkSize)
           y == AsInt(Len(rd))
<1>3. x \in Int /\ y \in Int /\ x <= expectedChunkSize
  BY <1>2
<1> HIDE DEF x, y
<1>4. Min({x, y}) \in {x, y} /\ Min({x, y}) <= x
  <2>1. \E z \in {x, y} : \A u \in {x, y} : z <= u
    BY <1>3
  <2> QED
    BY <2>1 DEF Min
<1> QED
  BY <1>3, <1>4 DEF ToWrite, x, y

\* Every step of the parser keeps the types, whatever the server sends.
LEMMA ParseTypes ==
  ASSUME TypeInv, Parse
  PROVE  TypeInv'
<1>1. UNCHANGED <<server, net>> /\ net' \in Seq(Tokens) /\ pc \in {"headers", "body"} /\ thrown = "nothing"
  BY DEF TypeInv, TypeOK, Parse, HeadersIncomplete, EndOfHeaders, StatusLine, Header, PlainBody,
     ChunkThrows, ChunkData, ChunkIncomplete, ChunkSize
<1>2. Len(rd) \in Nat /\ expectedChunkSize \in Nat /\ rd \in Seq(Tokens)
  BY DEF TypeInv, TypeOK
<1>3. /\ LineEnd \in Nat
      /\ LineEnd > 0 => From(rd, LineEnd + 2) \in Seq(Tokens)
      /\ LineEnd > 1 => Line[1] \in Tokens
  <2>1. LineEnd \in 0..Len(rd)
    BY <1>2, FindRange DEF LineEnd
  <2>2. LineEnd > 0 => /\ From(rd, LineEnd + 2) \in Seq(Tokens)
                       /\ Line # <<>> => Line[1] \in Tokens
                       /\ LineEnd > 1 => Line # <<>>
    BY <1>2, LineIs DEF LineEnd, Line
  <2> QED
    BY <1>2, <2>1, <2>2
<1>4. AfterChunk \in Seq(Tokens)
  <2>1. From(rd, 2 + 1) \in Seq(Tokens) /\ 2 + 1 = 3
    BY <1>2, PartsOfText
  <2> QED
    BY <1>2, <2>1 DEF AfterChunk
<1>5. CASE HeadersIncomplete
  BY <1>1, <1>5 DEF HeadersIncomplete, TypeInv, TypeOK, server, framing, chunk
<1>6. CASE EndOfHeaders
  BY <1>1, <1>3, <1>6 DEF EndOfHeaders, EraseLine, TypeInv, TypeOK, server, framing, chunk
<1>7. CASE StatusLine
  <2>1. rd' \in Seq(Tokens) /\ ((pc' = "threw" /\ thrown' = "parser") \/ UNCHANGED <<pc, thrown>>)
    BY <1>3, <1>7 DEF StatusLine, EraseLine, Throw
  <2> QED
    BY <1>1, <1>7, <2>1 DEF StatusLine, TypeInv, TypeOK, server, framing, chunk
<1>8. CASE Header
  <2>1. rd' \in Seq(Tokens) /\ ((pc' = "threw" /\ thrown' = "parser") \/ UNCHANGED <<pc, thrown>>)
    BY <1>3, <1>8 DEF Header, EraseLine, Throw
  <2>2. contentLength' \in Nat /\ contentLengthReceived' \in BOOLEAN /\ chunkedResponse' \in BOOLEAN
    <3>1. Line[1] \in Tokens /\ (Line[1][1] = "Content-Length" => Line[1][2] \in Nat)
      BY <1>3, <1>8, TokenNumbers DEF Header
    <3> QED
      BY <1>8, <3>1 DEF Header, framing, TypeInv, TypeOK
  <2> QED
    BY <1>1, <1>8, <2>1, <2>2 DEF Header, TypeInv, TypeOK, server, chunk
<1>9. CASE PlainBody
  <2>1. rd' \in Seq(Tokens) /\ pc' \in {"returned", "recv"}
    BY <1>9 DEF PlainBody
  <2> QED
    BY <1>1, <1>9, <2>1 DEF PlainBody, TypeInv, TypeOK, server, framing, chunk
<1>10. CASE ChunkThrows
  BY <1>1, <1>10 DEF ChunkThrows, Throw, TypeInv, TypeOK, server, framing, chunk
<1>11. CASE ChunkData
  <2>1. ToWrite \in Nat /\ ToWrite <= expectedChunkSize
    <3>1. ToWrite >= 0
      BY <1>11 DEF ChunkData
    <3> QED
      BY <1>2, <3>1, ToWriteBound
  <2>2. rd' \in Seq(Tokens)
    BY <1>2, <1>11, <2>1, PartsOfText DEF ChunkData
  <2>4. expectedChunkSize' \in Nat
    <3>1. expectedChunkSize' = expectedChunkSize - ToWrite
      BY <1>11 DEF ChunkData
    <3> QED
      BY <1>2, <2>1, <3>1
  <2>3. removeCrlfAfterChunk' \in BOOLEAN /\ pc' \in {"recv", "body"}
    BY <1>11 DEF ChunkData, TypeInv, TypeOK
  <2> QED
    BY <1>1, <1>11, <2>2, <2>3, <2>4 DEF ChunkData, TypeInv, TypeOK, server, framing
<1>12. CASE ChunkIncomplete
  <2>1. rd' \in Seq(Tokens) /\ removeCrlfAfterChunk' \in BOOLEAN
    BY <1>2, <1>4, <1>12 DEF ChunkIncomplete, TypeInv, TypeOK
  <2> QED
    BY <1>1, <1>12, <2>1 DEF ChunkIncomplete, TypeInv, TypeOK, server, framing
<1>13. CASE ChunkSize
  <2> DEFINE line == Before(AfterChunk, SizeEnd)
  <2>1. rd' \in Seq(Tokens) /\ (line # <<>> => line[1] \in Tokens)
    BY <1>4, <1>13, LineIs DEF ChunkSize, SizeEnd
  <2> HIDE DEF line
  <2>2. \/ pc' = "threw" /\ thrown' = "parser" /\ expectedChunkSize' = expectedChunkSize
        \/ /\ line # <<>> /\ line[1][1] = "size" /\ expectedChunkSize' = line[1][2]
           /\ pc' \in {"returned", "body"} /\ thrown' = thrown
    BY <1>13 DEF ChunkSize, Throw, line
  <2>3. expectedChunkSize' \in Nat
    BY <1>2, <2>1, <2>2, TokenNumbers
  <2> QED
    BY <1>1, <1>13, <2>1, <2>2, <2>3 DEF ChunkSize, TypeInv, TypeOK, server, framing
<1> QED
  BY <1>5, <1>6, <1>7, <1>8, <1>9, <1>10, <1>11, <1>12, <1>13 DEF Parse

\* And so does every other.
LEMMA TypeStep ==
  ASSUME TypeInv, [Next]_vars
  PROVE  TypeInv'
<1>1. CASE Open
  BY <1>1 DEF Open, Throw, TypeInv, TypeOK, server, framing, chunk
<1>2. CASE Send
  BY <1>2 DEF Send, TypeInv, TypeOK, server, framing, chunk
<1>3. CASE SocketFails
  BY <1>3 DEF SocketFails, Throw, TypeInv, TypeOK, server, framing, chunk
<1>4. CASE Recv
  <2>1. Len(net) \in Nat /\ BufferSize \in Nat /\ net \in Seq(Tokens) /\ rd \in Seq(Tokens)
    BY HttpAssumption DEF TypeInv
  <2>2. Min({Len(net), BufferSize}) <= Len(net)
    BY <2>1, MinOfTwo
  <2>3. PICK n \in 1..Min({Len(net), BufferSize}) : rd' = rd \o Before(net, n + 1) /\ net' = From(net, n + 1)
    BY <1>4 DEF Recv
  <2>4. n \in 0..Len(net)
    <3>1. Min({Len(net), BufferSize}) \in Nat
      BY <2>1, MinOfTwo
    <3> QED
      BY <2>1, <2>2, <3>1
  <2>5. Before(net, n + 1) \in Seq(Tokens) /\ net' \in Seq(Tokens)
    BY <2>1, <2>3, <2>4, CutAt
  <2>6. rd' \in Seq(Tokens)
    BY <2>1, <2>3, <2>5, ConcatAt
  <2> QED
    BY <1>4, <2>5, <2>6 DEF Recv, TypeInv, TypeOK, server, framing, chunk
<1>5. CASE Disconnected
  BY <1>5 DEF Disconnected, TypeInv, TypeOK, server, framing, chunk
<1>6. CASE PeerCloses
  <2>1. PICK n \in 0..Len(net) : net' = Before(net, n + 1)
    BY <1>6 DEF PeerCloses
  <2>2. net' \in Seq(Tokens)
    BY <2>1, CutAt DEF TypeInv
  <2>3. lost' \in BOOLEAN
    BY <1>6 DEF PeerCloses
  <2> QED
    BY <1>6, <2>2, <2>3 DEF PeerCloses, TypeInv, TypeOK, framing, chunk
<1>7. CASE UNCHANGED vars
  BY <1>7 DEF vars, TypeInv, TypeOK, server, framing, chunk
<1> QED
  BY <1>1, <1>2, <1>3, <1>4, <1>5, <1>6, <1>7, ParseTypes DEF Next, Client, Finished

\* Every variable of send() keeps its range, for every response, chunks that no int
\* holds included, and every size of the buffer (httprequest.h:507-517).
THEOREM HttpTypeCorrect == Spec => []TypeOK
<1>1. Init => TypeInv
  <2> SUFFICES ASSUME Init PROVE TypeInv
    OBVIOUS
  <2>1. msg \in Messages
    BY HttpAssumption DEF Init
  <2>2. rd \in Seq(Tokens) /\ net \in Seq(Tokens)
    BY <2>1, WireLayout DEF Init
  <2> QED
    BY <2>2 DEF Init, TypeInv, TypeOK
<1>2. TypeInv /\ [Next]_vars => TypeInv'
  BY TypeStep
<1>3. TypeInv => TypeOK
  BY DEF TypeInv
<1> QED
  BY <1>1, <1>2, <1>3, PTL DEF Spec

\* However a response that the code understands is cut into segments and wherever the
\* server stops: if it arrived whole it is returned as it was meant, if it was cut
\* short as its beginning; send() throws only for a header that is malformed or
\* announces more than there is room for, never for a byte of a body taken for a line
\* or a size; and it does not wait for more when the end of the response is there
\* (httprequest.h:520-668).
THEOREM ResponseIsFaithful == Spec => []ResponseFaithful
<1>1. (Understood(msg) => HttpInv) => ResponseFaithful
  <2> SUFFICES ASSUME HttpInv PROVE ResponseWhole /\ ResponsePrefix /\ NeverMisframed /\ NoIdleWait
    BY DEF ResponseFaithful
  <2>1. ResponseWhole
    BY DEF HttpInv, ResultInv, ResponseWhole, Complete, StatusNumber, Body
  <2>2. ResponsePrefix
    <3>1. response.headers \in Seq(HeaderTexts) /\ response.body \in Seq(Bytes)
      BY DEF HttpInv, KindInv
    <3>2. msg.headers \in Seq(HeaderTexts) /\ Body(msg) \in Seq(Bytes)
      BY MessageParts DEF HttpInv, GivenInv
    <3>3. /\ Prefix(response.headers, msg.headers) /\ Prefix(response.body, Body(msg))
          /\ response.body # <<>> => response.headers = msg.headers
      BY DEF HttpInv, ResultInv
    <3>4. IsPrefix(response.headers, msg.headers)
      BY <3>1, <3>2, <3>3, PrefixIs
    <3>5. IsPrefix(response.body, Body(msg))
      BY <3>1, <3>2, <3>3, PrefixIs
    <3> QED
      BY <3>3, <3>4, <3>5 DEF ResponsePrefix, Body
  <2>3. NeverMisframed
    BY DEF HttpInv, ResultInv
  <2>4. NoIdleWait
    BY WaitsForMore DEF NoIdleWait
  <2> QED
    BY <2>1, <2>2, <2>3, <2>4
<1> QED
  BY <1>1, HttpInvariance, PTL

-----------------------------------------------------------------------------
(* The URL.                                                                  *)

\* A concatenation, cut where its second part begins.
LEMMA CutConcat ==
  ASSUME NEW X, NEW a \in Seq(X), NEW b \in Seq(X)
  PROVE  Before(a \o b, Len(a) + 1) = a /\ From(a \o b, Len(a) + 1) = b
<1> DEFINE s == a \o b
           u == Before(s, Len(a) + 1)
           v == From(s, Len(a) + 1)
<1>1. /\ s \in Seq(X) /\ Len(s) = Len(a) + Len(b) /\ Len(a) \in Nat /\ Len(b) \in Nat
      /\ \A j \in 1..Len(a) : s[j] = a[j]
      /\ \A j \in 1..Len(b) : s[Len(a) + j] = b[j]
  BY ConcatAt
<1> HIDE DEF s
<1>2. Len(a) \in 0..Len(s) /\ Len(s) - Len(a) = Len(b)
  BY <1>1
<1>3. /\ u \in Seq(X) /\ Len(u) = Len(a) /\ \A i \in 1..Len(a) : u[i] = s[i]
      /\ v \in Seq(X) /\ Len(v) = Len(b) /\ \A i \in 1..Len(b) : v[i] = s[Len(a) + i]
  <2>1. s \in Seq(X) /\ Len(a) \in 0..Len(s)
    BY <1>1, <1>2
  <2>2. /\ u \in Seq(X) /\ Len(u) = Len(a) /\ \A i \in 1..Len(a) : u[i] = s[i]
        /\ v \in Seq(X) /\ Len(v) = Len(s) - Len(a)
        /\ \A i \in 1..(Len(s) - Len(a)) : v[i] = s[Len(a) + i]
    BY ONLY <2>1, CutAt
  <2> QED
    BY <1>2, <2>2
<1> HIDE DEF u, v
<1>4. u = a
  BY <1>1, <1>3, SeqEqual
<1>5. v = b
  BY <1>1, <1>3, SeqEqual
<1> QED
  BY <1>4, <1>5 DEF u, v, s

\* A text in which a delimiter does not occur ...
Lacks(s, x) == \A i \in 1..Len(s) : s[i] # x

\* It does not occur in two such texts in a row either, ...
LEMMA LacksConcat ==
  ASSUME NEW X, NEW a \in Seq(X), NEW b \in Seq(X), NEW x, Lacks(a, x), Lacks(b, x)
  PROVE  Lacks(a \o b, x)
<1> DEFINE s == a \o b
<1>1. /\ s \in Seq(X) /\ Len(s) = Len(a) + Len(b) /\ Len(a) \in Nat /\ Len(b) \in Nat
      /\ \A j \in 1..Len(a) : s[j] = a[j]
      /\ \A j \in 1..Len(b) : s[Len(a) + j] = b[j]
  BY ConcatAt
<1> HIDE DEF s
<1>2. ASSUME NEW i \in 1..Len(s) PROVE s[i] # x
  <2>1. CASE i <= Len(a)
    BY <1>1, <2>1 DEF Lacks
  <2>2. CASE i > Len(a)
    <3>1. i - Len(a) \in 1..Len(b) /\ Len(a) + (i - Len(a)) = i
      BY <1>1, <2>2
    <3> QED
      BY <1>1, <3>1 DEF Lacks
  <2> QED
    BY <1>1, <2>1, <2>2
<1>3. Lacks(s, x)
  BY <1>2 DEF Lacks
<1> QED
  BY <1>3 DEF s

\* ... is not where the search for the delimiter ends.
LEMMA FindAbsent ==
  ASSUME NEW X, NEW s \in Seq(X), NEW p \in Seq(X), Len(p) > 0, Lacks(s, p[1])
  PROVE  Find(s, p) = 0
<1>1. ASSUME NEW k \in 1..Len(s) PROVE ~PatternAt(s, p, k)
  <2>1. s[k] # p[1] /\ k + 1 - 1 = k /\ 1 \in 1..Len(p)
    BY DEF Lacks
  <2> QED
    BY <2>1 DEF PatternAt
<1> QED
  BY <1>1, FindNone

\* ... and is found where it begins what comes behind such a text.
LEMMA FindSplit ==
  ASSUME NEW X, NEW a \in Seq(X), NEW p \in Seq(X), NEW t \in Seq(X), Len(p) > 0, Lacks(a, p[1]),
         Prefix(p, t)
  PROVE  Find(a \o t, p) = Len(a) + 1
<1> DEFINE s == a \o t
           n == Len(a)
<1>1. /\ Len(t) \in Nat /\ Len(p) \in Nat /\ Len(p) <= Len(t)
      /\ \A j \in 1..Len(p) : t[j] = p[j]
  BY DEF Prefix
<1>2. /\ s \in Seq(X) /\ Len(s) = n + Len(t) /\ n \in Nat
      /\ \A j \in 1..n : s[j] = a[j]
      /\ \A j \in 1..Len(t) : s[n + j] = t[j]
  <2>1. a \in Seq(X) /\ t \in Seq(X)
    BY <1>1
  <2> QED
    BY ONLY <2>1, ConcatAt
<1> HIDE DEF s, n
<1>3. n + 1 \in 1..Len(s)
  BY <1>1, <1>2
<1>4. PatternAt(s, p, n + 1)
  <2>1. (n + 1) + Len(p) <= Len(s) + 1
    BY <1>1, <1>2
  <2>2. ASSUME NEW j \in 1..Len(p) PROVE s[(n + 1) + j - 1] = p[j]
    <3>1. (n + 1) + j - 1 = n + j /\ j \in 1..Len(t)
      BY <1>1, <1>2
    <3> QED
      BY <1>1, <1>2, <3>1
  <2> QED
    BY <2>1, <2>2 DEF PatternAt
<1>5. ASSUME NEW k \in 1..((n + 1) - 1) PROVE ~PatternAt(s, p, k)
  <2>1. k \in 1..n /\ k + 1 - 1 = k /\ 1 \in 1..Len(p)
    BY <1>1, <1>2
  <2>2. s[k] # p[1]
    BY <1>2, <2>1 DEF Lacks, n
  <2> QED
    BY <2>1, <2>2 DEF PatternAt
<1>6. Find(s, p) = n + 1
  BY <1>2, <1>3, <1>4, <1>5, FindFirst
<1> QED
  BY <1>6 DEF s, n

\* A text is cut in two at its first delimiter.
LEMMA CutDelimited ==
  ASSUME NEW X, NEW a \in Seq(X), NEW b \in Seq(X), NEW x \in X, Lacks(a, x),
         b # <<>> => b[1] = x
  PROVE  /\ Find(a \o b, <<x>>) = IF b = <<>> THEN 0 ELSE Len(a) + 1
         /\ Before(a \o b, Find(a \o b, <<x>>)) = a
         /\ b # <<>> => From(a \o b, Find(a \o b, <<x>>)) = b
<1> DEFINE p == <<x>>
<1>1. p \in Seq(X) /\ Len(p) = 1 /\ p[1] = x /\ Len(a) \in Nat /\ Len(a) + 1 # 0
  OBVIOUS
<1> HIDE DEF p
<1>2. Len(p) > 0 /\ Lacks(a, p[1])
  BY <1>1
<1>3. CASE b = <<>>
  <2>1. a \o b = a
    BY <1>3
  <2>2. Find(a, p) = 0
    BY ONLY <1>1, <1>2, a \in Seq(X), FindAbsent
  <2> QED
    BY <1>3, <2>1, <2>2 DEF Before, p
<1>4. CASE b # <<>>
  <2>1. Prefix(p, b)
    BY <1>1, <1>4 DEF Prefix
  <2>2. Find(a \o b, p) = Len(a) + 1
    BY ONLY <1>1, <1>2, <2>1, a \in Seq(X), b \in Seq(X), FindSplit
  <2>3. Before(a \o b, Len(a) + 1) = a /\ From(a \o b, Len(a) + 1) = b
    BY CutConcat
  <2> QED
    BY <1>4, <2>2, <2>3 DEF p
<1> QED
  BY <1>3, <1>4

\* A text with one word before it.
LEMMA FirstOf ==
  ASSUME NEW X, NEW x \in X, NEW s \in Seq(X)
  PROVE  <<x>> \in Seq(X) /\ <<x>> \o s \in Seq(X) /\ (<<x>> \o s)[1] = x
<1> DEFINE p == <<x>>
<1>1. p \in Seq(X) /\ Len(p) = 1 /\ p[1] = x /\ 1 \in 1..Len(p)
  OBVIOUS
<1> HIDE DEF p
<1>2. p \o s \in Seq(X) /\ \A j \in 1..Len(p) : (p \o s)[j] = p[j]
  BY ONLY <1>1, s \in Seq(X), ConcatAt
<1> QED
  BY <1>1, <1>2 DEF p

\* The words and the delimiters of a URL, and what is behind its scheme.
Parts == STRING \cup {":", "/", "?", "#"}
PortPart(u) == IF u.port = Absent THEN <<>> ELSE <<":">> \o u.port
FragmentPart(u) == IF u.fragment = Absent THEN <<>> ELSE <<"#">> \o u.fragment
Authority(u) == u.host \o PortPart(u)
RestPart(u) == (Authority(u) \o Resource(u)) \o FragmentPart(u)

\* Words have no delimiters, and the other parts begin with theirs.
LEMMA UrlParts ==
  ASSUME NEW u \in Urls
  PROVE  /\ u.scheme \in Seq(Parts) /\ u.host \in Seq(Parts) /\ u.path \in Seq(Parts)
         /\ u.port \in Seq(Parts) /\ u.fragment \in Seq(Parts)
         /\ \A x \in {":", "/", "#"} : Lacks(u.scheme, x) /\ Lacks(u.host, x) /\ Lacks(u.port, x)
         /\ u.query \in Seq(Parts) /\ Lacks(u.path, "#") /\ Lacks(u.query, "#")
         /\ u.path # <<>> => u.path[1] = "/"
         /\ PortPart(u) \in Seq(Parts) /\ FragmentPart(u) \in Seq(Parts)
         /\ PortPart(u) # <<>> => PortPart(u)[1] = ":"
         /\ FragmentPart(u) # <<>> => FragmentPart(u)[1] = "#"
         /\ \A x \in {"/", "#"} : Lacks(PortPart(u), x)
<1>1. /\ u.scheme \in Seq(Words) /\ u.host \in Seq(Words) /\ u.port \in Seq(Words)
      /\ u.path \in Seq(STRING \ {"?", "#"}) /\ u.query \in Seq(STRING \ {"#"}) /\ u.fragment \in Seq(STRING)
      /\ u.path # <<>> => u.path[1] = "/"
  BY DEF Urls, Absent
<1>2. /\ u.scheme \in Seq(Parts) /\ u.host \in Seq(Parts) /\ u.path \in Seq(Parts)
      /\ u.query \in Seq(Parts) /\ u.port \in Seq(Parts) /\ u.fragment \in Seq(Parts)
  <2>1. Words \subseteq Parts /\ STRING \ {"?", "#"} \subseteq Parts /\ STRING \ {"#"} \subseteq Parts /\ STRING \subseteq Parts
    BY DEF Words, Parts
  <2> QED
    BY <1>1, <2>1, SeqMonotonic
<1>3. ASSUME NEW s \in Seq(Words), NEW x \in {":", "/", "#"} PROVE Lacks(s, x)
  <2>1. ASSUME NEW i \in 1..Len(s) PROVE s[i] # x
    <3>1. s[i] \in Words
      OBVIOUS
    <3> QED
      BY <3>1 DEF Words
  <2> QED
    BY <2>1 DEF Lacks
<1>4. Lacks(u.path, "#") /\ Lacks(u.query, "#")
  <2>1. ASSUME NEW i \in 1..Len(u.path) PROVE u.path[i] # "#"
    <3>1. u.path[i] \in STRING \ {"?", "#"}
      BY <1>1
    <3> QED
      BY <3>1
  <2>2. ASSUME NEW i \in 1..Len(u.query) PROVE u.query[i] # "#"
    <3>1. u.query[i] \in STRING \ {"#"}
      BY <1>1
    <3> QED
      BY <3>1
  <2> QED
    BY <2>1, <2>2 DEF Lacks
<1>5. ":" \in Parts /\ "#" \in Parts /\ <<>> \in Seq(Parts)
  BY DEF Parts
<1>6. /\ <<":">> \in Seq(Parts) /\ <<":">> \o u.port \in Seq(Parts) /\ (<<":">> \o u.port)[1] = ":"
      /\ <<"#">> \o u.fragment \in Seq(Parts) /\ (<<"#">> \o u.fragment)[1] = "#"
  BY <1>1, <1>2, <1>5, FirstOf
<1>7. /\ PortPart(u) \in Seq(Parts) /\ FragmentPart(u) \in Seq(Parts)
      /\ PortPart(u) # <<>> => PortPart(u)[1] = ":"
      /\ FragmentPart(u) # <<>> => FragmentPart(u)[1] = "#"
  BY <1>5, <1>6 DEF PortPart, FragmentPart
<1>8. ASSUME NEW x \in {"/", "#"} PROVE Lacks(PortPart(u), x)
  <2>1. CASE u.port = Absent
    BY <2>1 DEF PortPart, Lacks
  <2>2. CASE u.port # Absent
    <3>1. PortPart(u) = <<":">> \o u.port
      BY <2>2 DEF PortPart
    <3>2. Lacks(<<":">>, x) /\ Lacks(u.port, x) /\ <<":">> \in Seq(Parts)
      <4>1. Lacks(u.port, x)
        BY <1>1, <1>3
      <4>2. Lacks(<<":">>, x)
        BY DEF Lacks
      <4> QED
        BY <1>6, <4>1, <4>2
    <3>3. Lacks(<<":">> \o u.port, x)
      BY <1>2, <3>2, LacksConcat
    <3> QED
      BY <3>1, <3>3
  <2> QED
    BY <2>1, <2>2
<1>9. \A x \in {":", "/", "#"} : Lacks(u.scheme, x) /\ Lacks(u.host, x) /\ Lacks(u.port, x)
  BY <1>1, <1>3
<1> QED
  BY <1>1, <1>2, <1>4, <1>7, <1>8, <1>9

\* The path and the query together begin with "/" if there is a path.
LEMMA ResourceParts ==
  ASSUME NEW u \in Urls
  PROVE  /\ Resource(u) \in Seq(Parts) /\ Lacks(Resource(u), "#")
         /\ (u.path # Absent \/ u.query = Absent) =>
              /\ Resource(u) # <<>> => Resource(u)[1] = "/"
              /\ Resource(u) = <<>> <=> u.path = Absent
<1> DEFINE p == u.path
           q == u.query
           m == <<"?">>
           e == IF q = Absent THEN <<>> ELSE m \o q
<1>1. /\ p \in Seq(Parts) /\ q \in Seq(Parts) /\ Lacks(p, "#") /\ Lacks(q, "#")
      /\ p # <<>> => p[1] = "/"
  BY UrlParts
<1>2. m \in Seq(Parts) /\ Lacks(m, "#") /\ <<>> \in Seq(Parts) /\ Lacks(<<>>, "#")
  BY DEF Parts, Lacks
<1>3. Resource(u) = p \o e
  BY DEF Resource
<1> HIDE DEF p, q, m
<1>4. m \o q \in Seq(Parts) /\ Lacks(m \o q, "#")
  BY <1>1, <1>2, LacksConcat
<1>5. e \in Seq(Parts) /\ Lacks(e, "#") /\ (q = Absent => e = <<>>)
  BY <1>2, <1>4
<1> HIDE DEF e
<1>6. p \o e \in Seq(Parts) /\ Lacks(p \o e, "#")
  BY <1>1, <1>5, LacksConcat
<1>7. CASE p = <<>>
  <2>1. q = Absent => p \o e = <<>>
    BY <1>5, <1>7
  <2> QED
    BY <1>3, <1>6, <1>7, <2>1 DEF Absent, p, q
<1>8. CASE p # <<>>
  <2>1. /\ Len(p \o e) = Len(p) + Len(e) /\ Len(p) \in Nat /\ Len(e) \in Nat
        /\ \A j \in 1..Len(p) : (p \o e)[j] = p[j]
    BY ONLY <1>1, <1>5, ConcatAt
  <2>2. Len(p) > 0
    BY <1>1, <1>8
  <2>3. (p \o e)[1] = p[1] /\ p \o e # <<>>
    <3>1. 1 \in 1..Len(p) /\ Len(p \o e) > 0
      BY <2>1, <2>2
    <3> HIDE DEF p
    <3> QED
      BY <2>1, <3>1
  <2> QED
    BY <1>1, <1>3, <1>6, <1>8, <2>3 DEF Absent, p
<1> QED
  BY <1>7, <1>8

\* The search has an answer: some place, or none.
LEMMA FindSome ==
  ASSUME NEW X, NEW s \in Seq(X), NEW p \in Seq(X), Find(s, p) # 0
  PROVE  Find(s, p) > 0
<1> DEFINE at == {k \in 1..Len(s) : PatternAt(s, p, k)}
<1>1. PICK k \in 1..Len(s) : PatternAt(s, p, k)
  BY FindNone
<1> DEFINE T == {n \in Nat : \A i \in at : i > n}
<1>2. k \in at /\ at \subseteq Nat
  BY <1>1
<1>3. 0 \in T
  <2>1. \A i \in at : i > 0
    OBVIOUS
  <2> QED
    BY <2>1
<1>4. T # Nat
  <2>1. k \notin T
    BY <1>2
  <2> QED
    BY <1>2, <2>1
<1>5. T \subseteq Nat
  OBVIOUS
<1>6. PICK n \in T : n + 1 \notin T
  <2> HIDE DEF T
  <2> QED
    BY <1>3, <1>4, <1>5, NaturalsReached
<1>7. n \in Nat /\ (\A i \in at : i > n) /\ \E i \in at : ~(i > n + 1)
  BY <1>6
<1>8. PICK i \in at : ~(i > n + 1)
  BY <1>7
<1>9. i = n + 1 /\ i \in 1..Len(s) /\ PatternAt(s, p, i)
  BY <1>2, <1>7, <1>8
<1>10. \A j \in 1..(i - 1) : ~PatternAt(s, p, j)
  <2> SUFFICES ASSUME NEW j \in 1..(i - 1), PatternAt(s, p, j) PROVE FALSE
    OBVIOUS
  <2>1. j \in 1..Len(s) /\ ~(j > n)
    BY <1>7, <1>9
  <2>2. j \in at
    BY <2>1
  <2> QED
    BY <1>7, <2>1, <2>2
<1>11. Find(s, p) = i
  BY <1>9, <1>10, FindFirst
<1> QED
  BY <1>9, <1>11

\* A URL of words and delimiters is rendered to words and delimiters.
LEMMA UrlRendered ==
  ASSUME NEW u \in Urls
  PROVE  /\ Authority(u) \in Seq(Parts) /\ Authority(u) \o Resource(u) \in Seq(Parts) /\ RestPart(u) \in Seq(Parts)
         /\ u.scheme = Absent => RenderUrl(u) = RestPart(u)
         /\ u.scheme # Absent => RenderUrl(u) = (u.scheme \o <<":", "/", "/">>) \o RestPart(u)
         /\ <<":", "/", "/">> \in Seq(Parts) /\ RenderUrl(u) \in Seq(Parts)
<1> DEFINE h == u.host
           q == PortPart(u)
           t == Resource(u)
           f == FragmentPart(u)
           z == <<":", "/", "/">>
           y == u.scheme \o z
<1>1. h \in Seq(Parts) /\ q \in Seq(Parts) /\ t \in Seq(Parts) /\ f \in Seq(Parts) /\ u.scheme \in Seq(Parts)
  BY UrlParts, ResourceParts
<1>2. z \in Seq(Parts)
  BY DEF Parts
<1> HIDE DEF z
<1>3. RenderUrl(u) = ((((IF u.scheme = Absent THEN <<>> ELSE y) \o h) \o q) \o t) \o f
  BY DEF RenderUrl, PortPart, FragmentPart, z
<1>4. Authority(u) = h \o q /\ RestPart(u) = ((h \o q) \o t) \o f
  BY DEF Authority, RestPart
<1>5. y \in Seq(Parts)
  BY ONLY <1>1, <1>2, ConcatAt
<1> HIDE DEF h, q, t, f, y
<1> DEFINE a == h \o q
           b == a \o t
           c == b \o f
<1>6. a \in Seq(Parts)
  BY ONLY <1>1, ConcatAt
<1> HIDE DEF a
<1>7. b \in Seq(Parts)
  BY ONLY <1>1, <1>6, ConcatAt
<1> HIDE DEF b
<1>8. c \in Seq(Parts)
  BY ONLY <1>1, <1>7, ConcatAt
<1>9. (((y \o h) \o q) \o t) \o f = y \o c
  <2>1. (y \o h) \o q = y \o a
    <3>1. y \in Seq(Parts) /\ h \in Seq(Parts) /\ q \in Seq(Parts)
      BY <1>1, <1>5
    <3>2. (y \o h) \o q = y \o (h \o q)
      BY ONLY <3>1, Z3T(30)
    <3> QED
      BY <3>2 DEF a
  <2>2. (y \o a) \o t = y \o b
    <3>1. y \in Seq(Parts) /\ a \in Seq(Parts) /\ t \in Seq(Parts)
      BY <1>1, <1>5, <1>6
    <3> HIDE DEF a, y
    <3>2. (y \o a) \o t = y \o (a \o t)
      BY ONLY <3>1, Z3T(30)
    <3> QED
      BY <3>2 DEF b
  <2>3. (y \o b) \o f = y \o c
    <3>1. y \in Seq(Parts) /\ b \in Seq(Parts) /\ f \in Seq(Parts)
      BY <1>1, <1>5, <1>7
    <3> HIDE DEF b
    <3> QED
      BY ONLY <3>1, Z3T(30)
  <2> QED
    BY <2>1, <2>2, <2>3
<1>10. RestPart(u) = c /\ Authority(u) = a
  BY <1>4 DEF a, b
<1>11. u.scheme = Absent => RenderUrl(u) = c
  <2>1. <<>> \o h = h
    BY <1>1
  <2> QED
    BY <1>3, <2>1 DEF a, b
<1>12. u.scheme # Absent => RenderUrl(u) = y \o c
  BY <1>3, <1>9
<1> HIDE DEF c
<1>13. y \o c \in Seq(Parts)
  BY ONLY <1>5, <1>8, ConcatAt
<1>14. a \o Resource(u) = b
  BY DEF b, t
<1>15. y = u.scheme \o <<":", "/", "/">>
  BY DEF y, z
<1> QED
  BY <1>2, <1>6, <1>7, <1>8, <1>10, <1>11, <1>12, <1>13, <1>14, <1>15 DEF z

\* The constructor of Request finds the parts a URL was put together from.
LEMMA UrlIsParsed ==
  ASSUME NEW u \in Urls, u.scheme = Absent => Find(RenderUrl(u), <<":", "/", "/">>) = 0,
         u.path # Absent \/ u.query = Absent
  PROVE  ParseUrl(RenderUrl(u)) =
           [scheme |-> IF u.scheme = Absent THEN <<"http">> ELSE u.scheme,
            domain |-> u.host,
            port |-> IF u.port = Absent THEN <<"80">> ELSE u.port,
            path |-> IF u.path = Absent THEN <<"/">> ELSE Resource(u)]
<1> DEFINE R == Resource(u)
           url == RenderUrl(u)
           z == <<":", "/", "/">>
           rest == RestPart(u)
           b == Authority(u) \o R
<1>1. /\ u.scheme \in Seq(Parts) /\ u.host \in Seq(Parts) /\ R \in Seq(Parts)
      /\ PortPart(u) \in Seq(Parts) /\ FragmentPart(u) \in Seq(Parts)
      /\ Lacks(u.scheme, ":") /\ Lacks(u.host, ":") /\ Lacks(u.host, "/") /\ Lacks(u.host, "#")
      /\ Lacks(R, "#") /\ Lacks(PortPart(u), "/") /\ Lacks(PortPart(u), "#")
      /\ R # <<>> => R[1] = "/"
      /\ R = <<>> <=> u.path = Absent
      /\ PortPart(u) # <<>> => PortPart(u)[1] = ":"
      /\ FragmentPart(u) # <<>> => FragmentPart(u)[1] = "#"
  BY UrlParts, ResourceParts
<1>2. /\ Authority(u) \in Seq(Parts) /\ b \in Seq(Parts) /\ rest \in Seq(Parts)
      /\ u.scheme = Absent => url = rest
      /\ u.scheme # Absent => url = (u.scheme \o z) \o rest
      /\ z \in Seq(Parts) /\ url \in Seq(Parts)
  BY UrlRendered
<1>3. {":", "/", "#"} \subseteq Parts
  BY DEF Parts
<1>4. Len(z) = 3 /\ z[1] = ":"
  OBVIOUS
<1> HIDE DEF url, z, rest, R
<1>5. /\ AfterScheme(url) = rest
      /\ SchemeEnd(url) = 0 <=> u.scheme = Absent
      /\ u.scheme # Absent => Before(url, SchemeEnd(url)) = u.scheme
  <2>1. CASE u.scheme = Absent
    <3>1. SchemeEnd(url) = 0
      BY <2>1 DEF SchemeEnd, url, z
    <3> QED
      BY <1>2, <2>1, <3>1 DEF AfterScheme
  <2>2. CASE u.scheme # Absent
    <3> DEFINE s == u.scheme
               y == z \o rest
    <3>1. s \in Seq(Parts) /\ z \in Seq(Parts) /\ rest \in Seq(Parts) /\ Len(s) \in Nat
      BY <1>1, <1>2
    <3>2. url = (s \o z) \o rest
      BY <1>2, <2>2
    <3>3. url = s \o y
      <4> HIDE DEF s
      <4>1. (s \o z) \o rest = s \o (z \o rest)
        BY ONLY <3>1, Z3T(30)
      <4> QED
        BY <3>2, <4>1
    <3>4. y \in Seq(Parts) /\ Prefix(z, y)
      <4>1. /\ z \o rest \in Seq(Parts) /\ Len(z \o rest) = Len(z) + Len(rest) /\ Len(z) \in Nat /\ Len(rest) \in Nat
            /\ \A j \in 1..Len(z) : (z \o rest)[j] = z[j]
        BY ONLY <3>1, ConcatAt
      <4>2. Len(z) <= Len(z \o rest)
        BY <4>1
      <4> QED
        BY <4>1, <4>2 DEF Prefix
    <3>5. Lacks(s, z[1])
      BY <1>1, <1>4
    <3> HIDE DEF s, y
    <3>6. Find(s \o y, z) = Len(s) + 1
      <4>1. Len(z) > 0
        BY <1>4
      <4> QED
        BY ONLY <3>1, <3>4, <3>5, <4>1, FindSplit
    <3>7. SchemeEnd(url) = Len(s) + 1
      BY <3>3, <3>6 DEF SchemeEnd, z
    <3>8. Before(url, Len(s) + 1) = s
      BY <3>1, <3>3, <3>4, CutConcat
    <3>9. From(url, (Len(s) + 1) + 3) = rest
      <4>1. s \o z \in Seq(Parts) /\ Len(s \o z) = Len(s) + Len(z)
        BY ONLY <3>1, ConcatAt
      <4>2. From((s \o z) \o rest, Len(s \o z) + 1) = rest
        BY ONLY <3>1, <4>1, CutConcat
      <4>3. Len(s \o z) + 1 = (Len(s) + 1) + 3
        BY <1>4, <3>1, <4>1
      <4> QED
        BY <3>2, <4>2, <4>3
    <3>10. Len(s) + 1 # 0
      BY <3>1
    <3> QED
      BY <2>2, <3>7, <3>8, <3>9, <3>10 DEF AfterScheme, s
  <2> QED
    BY <2>1, <2>2
<1>6. Lacks(Authority(u), "/") /\ Lacks(Authority(u), "#")
  BY <1>1, LacksConcat DEF Authority
<1>7. Hierarchy(url) = b
  <2>1. Lacks(b, "#")
    BY <1>1, <1>2, <1>6, LacksConcat
  <2>2. rest = b \o FragmentPart(u)
    BY DEF rest, RestPart, R
  <2>3. "#" \in Parts
    BY <1>3
  <2> HIDE DEF b
  <2>4. Before(b \o FragmentPart(u), Find(b \o FragmentPart(u), <<"#">>)) = b
    BY <1>1, <1>2, <2>1, <2>3, CutDelimited
  <2> QED
    BY <1>5, <2>2, <2>4 DEF Hierarchy
<1> DEFINE slash == Find(b, <<"/">>)
           authority == Before(b, slash)
           colon == Find(authority, <<":">>)
<1>8. /\ slash = IF R = <<>> THEN 0 ELSE Len(Authority(u)) + 1
      /\ authority = Authority(u)
      /\ R # <<>> => From(b, slash) = R
  <2>1. "/" \in Parts
    BY <1>3
  <2> QED
    BY <1>1, <1>2, <1>6, <2>1, CutDelimited
<1>9. /\ colon = IF PortPart(u) = <<>> THEN 0 ELSE Len(u.host) + 1
      /\ Before(authority, colon) = u.host
  <2>1. ":" \in Parts
    BY <1>3
  <2>2. /\ Find(u.host \o PortPart(u), <<":">>) = IF PortPart(u) = <<>> THEN 0 ELSE Len(u.host) + 1
        /\ Before(u.host \o PortPart(u), Find(u.host \o PortPart(u), <<":">>)) = u.host
    <3> DEFINE h == u.host
               q == PortPart(u)
    <3>1. h \in Seq(Parts) /\ q \in Seq(Parts) /\ Lacks(h, ":") /\ (q # <<>> => q[1] = ":")
      BY <1>1
    <3> HIDE DEF h, q
    <3>2. /\ Find(h \o q, <<":">>) = IF q = <<>> THEN 0 ELSE Len(h) + 1
          /\ Before(h \o q, Find(h \o q, <<":">>)) = h
      BY ONLY <2>1, <3>1, CutDelimited
    <3> QED
      BY <3>2 DEF h, q
  <2> QED
    BY <1>8, <2>2 DEF Authority
<1>10. PortPart(u) = <<>> <=> u.port = Absent
  <2>1. u.port \in Seq(Parts) /\ <<":">> \in Seq(Parts)
    <3>1. ":" \in Parts
      BY <1>3
    <3> QED
      BY <3>1, UrlParts
  <2>2. Len(<<":">> \o u.port) = Len(<<":">>) + Len(u.port) /\ Len(<<":">>) = 1 /\ Len(u.port) \in Nat
    BY <2>1
  <2>3. <<":">> \o u.port # <<>>
    BY <2>2
  <2> QED
    BY <2>3 DEF PortPart, Absent
<1>11. u.port # Absent => From(authority, colon + 1) = u.port
  <2> SUFFICES ASSUME u.port # Absent PROVE From(authority, colon + 1) = u.port
    OBVIOUS
  <2> DEFINE c == <<":">>
             h == u.host
             q == u.port
  <2>1. c \in Seq(Parts) /\ q \in Seq(Parts) /\ h \in Seq(Parts) /\ Len(c) = 1
    <3>1. ":" \in Parts
      BY <1>3
    <3> QED
      BY <3>1, UrlParts
  <2>2. authority = h \o (c \o q)
    BY <1>8 DEF Authority, PortPart
  <2>3. colon = Len(h) + 1
    BY <1>9, <1>10
  <2> HIDE DEF c, h, q
  <2>4. authority = (h \o c) \o q
    <3>1. c \in Seq(Parts) /\ q \in Seq(Parts) /\ h \in Seq(Parts)
      BY <2>1
    <3>2. (h \o c) \o q = h \o (c \o q)
      BY ONLY <3>1, Z3T(30)
    <3> QED
      BY <2>2, <3>2
  <2>5. h \o c \in Seq(Parts) /\ Len(h \o c) = Len(h) + Len(c) /\ Len(h) \in Nat
    BY ONLY <2>1, ConcatAt
  <2>6. From((h \o c) \o q, Len(h \o c) + 1) = q
    BY ONLY <2>1, <2>5, CutConcat
  <2>7. Len(h \o c) + 1 = colon + 1
    BY <2>1, <2>3, <2>5
  <2> QED
    BY <2>4, <2>6, <2>7 DEF q
<1> DEFINE result == [scheme |-> IF SchemeEnd(url) = 0 THEN <<"http">> ELSE Before(url, SchemeEnd(url)),
                      domain |-> Before(authority, colon),
                      port |-> IF colon = 0 THEN <<"80">> ELSE From(authority, colon + 1),
                      path |-> IF slash = 0 THEN <<"/">> ELSE From(b, slash)]
<1>12. ParseUrl(url) = result
  BY <1>7 DEF ParseUrl
<1>13. slash = 0 <=> u.path = Absent
  <2>1. Len(Authority(u)) + 1 # 0
    BY <1>2
  <2> QED
    BY <1>1, <1>8, <2>1 DEF Absent
<1>14. colon = 0 <=> u.port = Absent
  <2>1. Len(u.host) + 1 # 0
    BY <1>1
  <2> QED
    BY <1>9, <1>10, <2>1
<1>15. u.path # Absent => From(b, slash) = R
  BY <1>1, <1>8 DEF Absent
<1> HIDE DEF b, slash, authority, colon
<1> QED
  BY <1>5, <1>9, <1>11, <1>12, <1>13, <1>14, <1>15 DEF url, R

-----------------------------------------------------------------------------
(* The form.  urlEncode() walks over a text from its front; what it makes of    *)
(* the rest of the text from a place on is a function of the place.             *)

Encoded == {"byte", "percent"} \X ByteKinds

\* One turn of the loop: how far it goes, and what it writes.
Step(text, i) == Min({Width(text[i]), Len(text) - i + 1})
Piece(text, i) ==
  [j \in 1..Step(text, i) |-> <<IF text[i] = "plain" THEN "byte" ELSE "percent", text[i + j - 1]>>]
RestFrom(text, f, i) ==
  IF i > Len(text) THEN <<>>
  ELSE IF Step(text, i) = 0 THEN f[i + 1] ELSE Piece(text, i) \o f[i + Step(text, i)]
Encodes(text, f) == f = [i \in 1..(Len(text) + 1) |-> RestFrom(text, f, i)]

\* A step of the walk is the width of a first byte, or what is left of the text.
LEMMA StepIs ==
  ASSUME NEW text \in Seq(ByteKinds), NEW i \in 1..Len(text)
  PROVE  /\ Width(text[i]) \in Nat
         /\ Width(text[i]) = 0 <=> text[i] = "continuation"
         /\ Step(text, i) \in Nat /\ Step(text, i) <= Len(text) - i + 1
         /\ Step(text, i) = IF Width(text[i]) <= Len(text) - i + 1 THEN Width(text[i]) ELSE Len(text) - i + 1
<1>1. text[i] \in ByteKinds /\ Len(text) \in Nat
  OBVIOUS
<1>2. Width(text[i]) \in Nat /\ (Width(text[i]) = 0 <=> text[i] = "continuation")
  BY <1>1 DEF Width, ByteKinds
<1>3. Len(text) - i + 1 \in Nat
  BY <1>1
<1> DEFINE a == Width(text[i])
           b == Len(text) - i + 1
<1>4. Step(text, i) = Min({a, b})
  BY DEF Step
<1>5. Min({a, b}) = IF a <= b THEN a ELSE b
  BY <1>2, <1>3, MinOfTwo
<1>6. a \in Nat /\ b \in Nat
  BY <1>2, <1>3
<1> HIDE DEF a, b
<1>7. Step(text, i) \in Nat /\ Step(text, i) <= b /\ Step(text, i) = IF a <= b THEN a ELSE b
  BY <1>4, <1>5, <1>6
<1> QED
  BY <1>2, <1>7 DEF a, b

\* What is percent-encoded is data for the server.
LEMMA ReadsPercent ==
  ASSUME NEW v
  PROVE  Reads(<<"percent", v>>) = <<"data", v>>
<1> DEFINE t == <<"percent", v>>
<1>1. t[1] = "percent" /\ t[2] = v /\ t # Byte("&") /\ t # Byte("=")
  BY DEF Byte
<1> HIDE DEF t
<1>2. Reads(t) = <<"data", v>>
  BY <1>1 DEF Reads
<1> QED
  BY <1>2 DEF t

\* A step writes the bytes it goes over, one token each.
LEMMA PieceIs ==
  ASSUME NEW text \in Seq(ByteKinds), NEW i \in 1..Len(text)
  PROVE  /\ Piece(text, i) \in Seq(Encoded) /\ Len(Piece(text, i)) = Step(text, i)
         /\ \A j \in 1..Step(text, i) : Reads(Piece(text, i)[j]) = <<"data", text[i + j - 1]>>
<1> DEFINE w == Step(text, i)
           x == IF text[i] = "plain" THEN "byte" ELSE "percent"
           g(j) == <<x, text[i + j - 1]>>
<1>1. w \in Nat /\ w <= Len(text) - i + 1 /\ Len(text) \in Nat
  BY StepIs
<1>2. Piece(text, i) = [j \in 1..w |-> g(j)]
  BY DEF Piece
<1>3. \/ x = "percent"
      \/ x = "byte" /\ text[i] = "plain" /\ w <= 1
  <2>1. text[i] = "plain" => Width(text[i]) = 1
    BY DEF Width
  <2>2. text[i] = "plain" => w <= 1
    BY <2>1, StepIs
  <2> QED
    BY <2>2
<1> HIDE DEF w, x
<1>4. ASSUME NEW j \in 1..w PROVE g(j) \in Encoded /\ Reads(g(j)) = <<"data", text[i + j - 1]>>
  <2>1. i + j - 1 \in 1..Len(text)
    BY <1>1
  <2>2. text[i + j - 1] \in ByteKinds
    BY <2>1
  <2>3. g(j) \in Encoded
    BY <1>3, <2>2 DEF Encoded
  <2>4. CASE x = "percent"
    <3> DEFINE v == text[i + j - 1]
    <3>1. g(j) = <<"percent", v>>
      BY <2>4
    <3> HIDE DEF v, g
    <3>2. Reads(<<"percent", v>>) = <<"data", v>>
      BY ReadsPercent
    <3> QED
      BY <2>3, <3>1, <3>2 DEF v
  <2>5. CASE x = "byte" /\ text[i] = "plain" /\ w <= 1
    <3>1. i + j - 1 = i
      BY <1>1, <2>5
    <3>2. g(j) = Byte("plain")
      BY <2>5, <3>1 DEF Byte
    <3>3. Reads(Byte("plain")) = <<"data", "plain">>
      BY DEF Reads, Byte
    <3> QED
      BY <2>3, <2>5, <3>1, <3>2, <3>3
  <2> QED
    BY <1>3, <2>4, <2>5
<1> HIDE DEF g
<1>5. [j \in 1..w |-> g(j)] \in Seq(Encoded) /\ Len([j \in 1..w |-> g(j)]) = w
  BY <1>1, <1>4
<1> QED
  BY <1>2, <1>4, <1>5 DEF w

\* The walk is defined: from its end on.
LEMMA EncodingExists ==
  ASSUME NEW text \in Seq(ByteKinds)
  PROVE  \E f \in [1..(Len(text) + 1) -> Seq(Encoded)] : Encodes(text, f)
<1> DEFINE L == Len(text)
           D == 1..(L + 1)
           Has(n) == \E f \in [D -> Seq(Encoded)] : \A i \in (L + 1 - n)..(L + 1) : f[i] = RestFrom(text, f, i)
           Good == {n \in Nat : n <= L => Has(n)}
<1>1. L \in Nat
  OBVIOUS
<1>2. 0 \in Good
  <2> DEFINE f == [i \in D |-> <<>>]
  <2>1. f \in [D -> Seq(Encoded)]
    OBVIOUS
  <2>2. ASSUME NEW i \in (L + 1 - 0)..(L + 1) PROVE f[i] = RestFrom(text, f, i)
    <3>1. i = L + 1 /\ i \in D /\ i > L
      BY <1>1
    <3>2. RestFrom(text, f, i) = <<>>
      BY <3>1 DEF RestFrom
    <3> QED
      BY <3>1, <3>2
  <2> HIDE DEF f
  <2>3. Has(0)
    BY <2>1, <2>2
  <2> QED
    BY <2>3
<1>3. ASSUME NEW n \in Good PROVE n + 1 \in Good
  <2> SUFFICES ASSUME n + 1 <= L PROVE Has(n + 1)
    OBVIOUS
  <2>1. n \in Nat /\ Has(n)
    BY <1>1
  <2>2. PICK f \in [D -> Seq(Encoded)] : \A i \in (L + 1 - n)..(L + 1) : f[i] = RestFrom(text, f, i)
    BY <2>1
  <2> DEFINE k == L - n
             g == [f EXCEPT ![k] = RestFrom(text, f, k)]
  <2>3. k \in 1..L /\ k \in D /\ L + 1 - (n + 1) = k /\ L + 1 - n = k + 1
    BY <1>1, <2>1
  <2>4. Step(text, k) \in Nat /\ k + 1 \in D /\ (Step(text, k) # 0 => k + Step(text, k) \in D)
    <3>1. Step(text, k) \in Nat /\ Step(text, k) <= L - k + 1
      BY <2>3, StepIs
    <3> QED
      BY <1>1, <2>3, <3>1
  <2>5. RestFrom(text, f, k) \in Seq(Encoded)
    <3>1. CASE Step(text, k) = 0
      <4>1. f[k + 1] \in Seq(Encoded)
        BY <2>4
      <4> QED
        BY <2>3, <3>1, <4>1 DEF RestFrom
    <3>2. CASE Step(text, k) # 0
      <4>1. f[k + Step(text, k)] \in Seq(Encoded) /\ Piece(text, k) \in Seq(Encoded)
        BY <2>3, <2>4, <3>2, PieceIs
      <4>2. Piece(text, k) \o f[k + Step(text, k)] \in Seq(Encoded)
        BY ONLY <4>1, ConcatAt
      <4> QED
        BY <2>3, <3>2, <4>2 DEF RestFrom
    <3> QED
      BY <3>1, <3>2
  <2>6. g \in [D -> Seq(Encoded)] /\ g[k] = RestFrom(text, f, k) /\ \A i \in D : i # k => g[i] = f[i]
    BY <2>2, <2>3, <2>5
  <2> HIDE DEF g
  <2>7. ASSUME NEW i \in k..(L + 1) PROVE g[i] = RestFrom(text, g, i)
    <3>1. i \in D /\ (i # k => i \in (k + 1)..(L + 1))
      <4>1. L \in Nat /\ k \in 1..L /\ i \in k..(L + 1)
        BY <1>1, <2>3
      <4> QED
        BY ONLY <4>1 DEF D
    <3>2. g[i] = RestFrom(text, f, i)
      BY <2>2, <2>3, <2>6, <3>1
    <3>3. RestFrom(text, g, i) = RestFrom(text, f, i)
      <4>1. CASE i > L
        BY <4>1 DEF RestFrom
      <4>2. CASE ~(i > L)
        <5>1. i \in 1..L
          BY <1>1, <3>1, <4>2
        <5>2. Step(text, i) \in Nat /\ Step(text, i) <= L - i + 1
          BY <5>1, StepIs
        <5>3. i + 1 \in D /\ i + 1 # k
          BY <1>1, <2>3, <5>1
        <5>4. Step(text, i) # 0 => i + Step(text, i) \in D /\ i + Step(text, i) # k
          BY <1>1, <2>3, <5>1, <5>2
        <5> QED
          BY <2>6, <5>3, <5>4 DEF RestFrom
      <4> QED
        BY <4>1, <4>2
    <3> QED
      BY <3>2, <3>3
  <2>8. Has(n + 1)
    BY <2>3, <2>6, <2>7
  <2> QED
    BY <2>8
<1> HIDE DEF Has
<1>4. Good \subseteq Nat
  OBVIOUS
<1>5. Good = Nat
  <2> HIDE DEF Good
  <2> QED
    BY <1>2, <1>3, <1>4, NaturalsReached
<1>6. Has(L)
  <2>1. L \in Good
    BY <1>1, <1>5
  <2> QED
    BY <1>1, <2>1
<1>7. PICK f \in [D -> Seq(Encoded)] : \A i \in (L + 1 - L)..(L + 1) : f[i] = RestFrom(text, f, i)
  BY <1>6 DEF Has
<1>8. \A i \in D : f[i] = RestFrom(text, f, i)
  <2>1. L + 1 - L = 1
    BY <1>1
  <2> QED
    BY <1>7, <2>1
<1>9. f = [i \in D |-> RestFrom(text, f, i)]
  <2>1. f = [i \in D |-> f[i]]
    BY <1>7
  <2> QED
    BY <1>8, <2>1
<1> QED
  BY <1>7, <1>9 DEF Encodes

\* No character that begins before place i goes on to it.
Boundary(text, i) == \A k \in 1..(i - 1) : k + Width(text[k]) <= i

\* What the walk wrote for the rest of the text, place by place.
Decoded(text, s, i) ==
  /\ Len(s) = Len(text) - i + 1
  /\ \A j \in 1..(Len(text) - i + 1) : Reads(s[j]) = <<"data", text[i + j - 1]>>

\* In UTF-8, the walk steps from character to character.
LEMMA WholeCharacter ==
  ASSUME NEW text \in Seq(ByteKinds), Utf8(text), NEW i \in 1..Len(text), Boundary(text, i)
  PROVE  /\ Step(text, i) # 0
         /\ i + Step(text, i) \in 1..(Len(text) + 1)
         /\ Boundary(text, i + Step(text, i))
<1> DEFINE L == Len(text)
           w == Width(text[i])
<1>1. /\ w \in Nat /\ (w = 0 <=> text[i] = "continuation") /\ L \in Nat
      /\ Step(text, i) = IF w <= L - i + 1 THEN w ELSE L - i + 1
  BY StepIs
<1>2. text[i] # "continuation"
  <2> SUFFICES ASSUME text[i] = "continuation" PROVE FALSE
    OBVIOUS
  <2>1. PICK k \in 1..(i - 1) : i < k + Width(text[k])
    BY DEF Utf8
  <2>2. k + Width(text[k]) <= i
    BY <2>1 DEF Boundary
  <2>3. k \in 1..L
    BY <1>1
  <2>4. Width(text[k]) \in Nat
    BY <2>3, StepIs
  <2> QED
    BY <2>1, <2>2, <2>4
<1>3. w > 0
  BY <1>1, <1>2
<1>4. \A j \in 1..(w - 1) : i + j <= L /\ text[i + j] = "continuation"
  BY DEF Utf8
<1> HIDE DEF w
<1>5. w <= L - i + 1
  <2>1. CASE w = 1
    BY <1>1, <2>1
  <2>2. CASE w # 1
    <3>1. w - 1 \in 1..(w - 1)
      BY <1>1, <1>3, <2>2
    <3>2. i + (w - 1) <= L
      BY <1>4, <3>1
    <3> QED
      BY <1>1, <3>2
  <2> QED
    BY <2>1, <2>2
<1>6. Step(text, i) = w
  BY <1>1, <1>5
<1>7. i + w \in 1..(L + 1)
  BY <1>1, <1>5
<1>8. ASSUME NEW k \in 1..((i + w) - 1) PROVE k + Width(text[k]) <= i + w
  <2>1. k \in 1..L
    BY <1>1, <1>5
  <2>2. Width(text[k]) \in Nat /\ (Width(text[k]) = 0 <=> text[k] = "continuation")
    BY <2>1, StepIs
  <2>3. CASE k < i
    <3>1. k + Width(text[k]) <= i
      BY <2>3 DEF Boundary
    <3> QED
      BY <1>1, <2>2, <3>1
  <2>4. CASE k = i
    BY <1>1, <2>4 DEF w
  <2>5. CASE k > i
    <3>1. k - i \in 1..(w - 1) /\ i + (k - i) = k
      BY <1>1, <2>5
    <3>2. text[k] = "continuation"
      BY <1>4, <3>1
    <3> QED
      BY <1>1, <2>2, <3>2
  <2> QED
    BY <2>3, <2>4, <2>5
<1>9. Boundary(text, i + w)
  BY <1>8 DEF Boundary
<1> QED
  BY <1>3, <1>6, <1>7, <1>9

\* A piece before what was written for the text behind it.
LEMMA PieceDecoded ==
  ASSUME NEW text \in Seq(ByteKinds), NEW i \in 1..Len(text), NEW s \in Seq(Encoded),
         i + Step(text, i) \in 1..(Len(text) + 1), Decoded(text, s, i + Step(text, i))
  PROVE  Decoded(text, Piece(text, i) \o s, i)
<1> DEFINE L == Len(text)
           w == Step(text, i)
           p == Piece(text, i)
           t == p \o s
<1>1. /\ p \in Seq(Encoded) /\ Len(p) = w /\ \A j \in 1..w : Reads(p[j]) = <<"data", text[i + j - 1]>>
  BY PieceIs
<1>2. w \in Nat /\ w <= L - i + 1 /\ L \in Nat
  BY StepIs
<1>3. Len(s) = L - (i + w) + 1 /\ \A j \in 1..(L - (i + w) + 1) : Reads(s[j]) = <<"data", text[(i + w) + j - 1]>>
  BY DEF Decoded
<1> HIDE DEF p, w
<1>4. /\ t \in Seq(Encoded) /\ Len(t) = Len(p) + Len(s)
      /\ \A j \in 1..Len(p) : t[j] = p[j]
      /\ \A j \in 1..Len(s) : t[Len(p) + j] = s[j]
  <2>1. p \in Seq(Encoded) /\ s \in Seq(Encoded)
    BY <1>1
  <2> QED
    BY ONLY <2>1, ConcatAt
<1> HIDE DEF t
<1>5. Len(t) = L - i + 1
  BY <1>1, <1>2, <1>3, <1>4
<1>6. ASSUME NEW j \in 1..(L - i + 1) PROVE Reads(t[j]) = <<"data", text[i + j - 1]>>
  <2>1. CASE j <= w
    <3>1. j \in 1..w /\ j \in 1..Len(p)
      BY <1>1, <1>2, <2>1
    <3> QED
      BY <1>1, <1>4, <3>1
  <2>2. CASE j > w
    <3> DEFINE k == j - w
    <3>1. k \in 1..Len(s) /\ k \in 1..(L - (i + w) + 1) /\ Len(p) + k = j /\ (i + w) + k - 1 = i + j - 1
      BY <1>1, <1>2, <1>3, <2>2
    <3> HIDE DEF k
    <3>2. t[j] = s[k] /\ Reads(s[k]) = <<"data", text[(i + w) + k - 1]>>
      BY <1>3, <1>4, <3>1
    <3> QED
      BY <3>1, <3>2
  <2> QED
    BY <1>2, <2>1, <2>2
<1>7. Decoded(text, t, i)
  BY <1>5, <1>6 DEF Decoded
<1> QED
  BY <1>7 DEF t, p

\* Every text is encoded byte by byte, and one that is UTF-8 loses none.
LEMMA EncodedText ==
  ASSUME NEW text \in Seq(ByteKinds)
  PROVE  /\ UrlEncode(text) \in Seq(Encoded)
         /\ Utf8(text) => Decoded(text, UrlEncode(text), 1)
<1> DEFINE L == Len(text)
           D == 1..(L + 1)
           f == CHOOSE g : Encodes(text, g)
           Fine(i) == f[i] \in Seq(Encoded) /\ (Utf8(text) /\ Boundary(text, i) => Decoded(text, f[i], i))
           Good == {n \in Nat : n <= L => \A i \in (L + 1 - n)..(L + 1) : Fine(i)}
<1>1. L \in Nat
  OBVIOUS
<1>2. UrlEncode(text) = f[1]
  BY DEF UrlEncode, Encodes, RestFrom, Step, Piece
<1>3. Encodes(text, f)
  BY EncodingExists
<1> HIDE DEF f
<1>4. \A i \in D : f[i] = RestFrom(text, f, i)
  BY <1>3 DEF Encodes
<1>5. 0 \in Good
  <2>1. ASSUME NEW i \in (L + 1 - 0)..(L + 1) PROVE Fine(i)
    <3>1. i = L + 1 /\ i \in D /\ i > L
      BY <1>1
    <3>2. f[i] = <<>>
      BY <1>4, <3>1 DEF RestFrom
    <3>3. Decoded(text, <<>>, i)
      BY <1>1, <3>1 DEF Decoded
    <3> QED
      BY <3>2, <3>3
  <2> QED
    BY <2>1
<1>6. ASSUME NEW n \in Good PROVE n + 1 \in Good
  <2> SUFFICES ASSUME n + 1 <= L, NEW i \in (L + 1 - (n + 1))..(L + 1) PROVE Fine(i)
    OBVIOUS
  <2>1. n \in Nat /\ \A k \in (L + 1 - n)..(L + 1) : Fine(k)
    BY <1>1
  <2> HIDE DEF Fine, Good
  <2>2. CASE i # L - n
    <3>1. i \in (L + 1 - n)..(L + 1)
      BY <1>1, <2>1, <2>2
    <3> QED
      BY <2>1, <3>1
  <2>3. CASE i = L - n
    <3> DEFINE w == Step(text, i)
    <3>1. i \in 1..L /\ i \in D
      BY <1>1, <2>1, <2>3
    <3>2. w \in Nat /\ w <= L - i + 1
      BY <3>1, StepIs
    <3>3. f[i] = IF w = 0 THEN f[i + 1] ELSE Piece(text, i) \o f[i + w]
      <4>1. ~(i > L)
        BY <1>1, <3>1
      <4> QED
        BY <1>4, <3>1, <4>1 DEF RestFrom
    <3> HIDE DEF w
    <3>4. Fine(i + 1) /\ (w # 0 => Fine(i + w))
      <4>1. i + 1 \in (L + 1 - n)..(L + 1) /\ (w # 0 => i + w \in (L + 1 - n)..(L + 1))
        BY <1>1, <2>1, <2>3, <3>1, <3>2
      <4> QED
        BY <2>1, <4>1
    <3>5. f[i] \in Seq(Encoded)
      <4>1. CASE w = 0
        BY <3>3, <3>4, <4>1 DEF Fine
      <4>2. CASE w # 0
        <5>1. Piece(text, i) \in Seq(Encoded) /\ f[i + w] \in Seq(Encoded)
          BY <3>1, <3>4, <4>2, PieceIs DEF Fine
        <5>2. Piece(text, i) \o f[i + w] \in Seq(Encoded)
          BY ONLY <5>1, ConcatAt
        <5> QED
          BY <3>3, <4>2, <5>2
      <4> QED
        BY <4>1, <4>2
    <3>6. ASSUME Utf8(text), Boundary(text, i) PROVE Decoded(text, f[i], i)
      <4>1. w # 0 /\ i + w \in 1..(L + 1) /\ Boundary(text, i + w)
        BY <3>1, <3>6, WholeCharacter DEF w
      <4>2. f[i + w] \in Seq(Encoded) /\ Decoded(text, f[i + w], i + w)
        BY <3>4, <3>6, <4>1 DEF Fine
      <4>3. Decoded(text, Piece(text, i) \o f[i + w], i)
        BY <3>1, <4>1, <4>2, PieceDecoded DEF w
      <4> QED
        BY <3>3, <4>1, <4>3
    <3> QED
      BY <3>5, <3>6 DEF Fine
  <2> QED
    BY <2>2, <2>3
<1>7. Good \subseteq Nat
  OBVIOUS
<1>8. Good = Nat
  <2> HIDE DEF Good
  <2> QED
    BY <1>5, <1>6, <1>7, NaturalsReached
<1>9. Fine(1)
  <2>1. L \in Good /\ L + 1 - L = 1 /\ 1 \in 1..(L + 1)
    BY <1>1, <1>8
  <2> QED
    BY <2>1
<1>10. Boundary(text, 1)
  BY DEF Boundary
<1> QED
  BY <1>2, <1>9, <1>10

\* The server reads b in what was written as a.
Decodes(a, b) == Len(a) = Len(b) /\ \A j \in 1..Len(a) : Reads(a[j]) = b[j]

\* Two parts that are read as they should be are so in a row.
LEMMA DecodesConcat ==
  ASSUME NEW X, NEW Y, NEW a \in Seq(X), NEW b \in Seq(Y), NEW c \in Seq(X), NEW d \in Seq(Y),
         Decodes(a, b), Decodes(c, d)
  PROVE  Decodes(a \o c, b \o d)
<1> DEFINE u == a \o c
           v == b \o d
<1>1. /\ u \in Seq(X) /\ Len(u) = Len(a) + Len(c) /\ Len(a) \in Nat /\ Len(c) \in Nat
      /\ \A j \in 1..Len(a) : u[j] = a[j]
      /\ \A j \in 1..Len(c) : u[Len(a) + j] = c[j]
  BY ONLY a \in Seq(X), c \in Seq(X), ConcatAt
<1>2. /\ v \in Seq(Y) /\ Len(v) = Len(b) + Len(d)
      /\ \A j \in 1..Len(b) : v[j] = b[j]
      /\ \A j \in 1..Len(d) : v[Len(b) + j] = d[j]
  BY ONLY b \in Seq(Y), d \in Seq(Y), ConcatAt
<1> HIDE DEF u, v
<1>3. /\ Len(a) = Len(b) /\ Len(c) = Len(d)
      /\ \A j \in 1..Len(a) : Reads(a[j]) = b[j]
      /\ \A j \in 1..Len(c) : Reads(c[j]) = d[j]
  BY DEF Decodes
<1>4. Len(u) = Len(v)
  BY <1>1, <1>2, <1>3
<1>5. ASSUME NEW j \in 1..Len(u) PROVE Reads(u[j]) = v[j]
  <2>1. CASE j <= Len(a)
    <3>1. j \in 1..Len(a) /\ j \in 1..Len(b)
      BY <1>1, <1>3, <2>1
    <3>2. u[j] = a[j] /\ v[j] = b[j] /\ Reads(a[j]) = b[j]
      BY <1>1, <1>2, <1>3, <3>1
    <3> QED
      BY <3>2
  <2>2. CASE j > Len(a)
    <3> DEFINE k == j - Len(a)
    <3>1. k \in 1..Len(c) /\ k \in 1..Len(d) /\ Len(a) + k = j
      BY <1>1, <1>3, <2>2
    <3> HIDE DEF k
    <3>2. u[j] = c[k] /\ v[j] = d[k] /\ Reads(c[k]) = d[k]
      BY <1>1, <1>2, <1>3, <3>1
    <3> QED
      BY <3>2
  <2> QED
    BY <1>1, <2>1, <2>2
<1>6. Decodes(u, v)
  BY <1>4, <1>5 DEF Decodes
<1> QED
  BY <1>6 DEF u, v

\* What FlattenSeq() returns is the last of its partial results.
LEMMA FlattenPartial ==
  ASSUME NEW X, NEW s \in Seq(Seq(X)), Len(s) # 0
  PROVE  \E f : /\ FlattenSeq(s) = f[Len(s)]
                /\ \A i \in 1..Len(s) : f[i] = IF i = 1 THEN s[i] ELSE f[i - 1] \o s[i]
<1> DEFINE f == CHOOSE g : Partial(s, g, Len(s))
<1>1. FlattenSeq(s) = f[Len(s)]
  BY DEF FlattenSeq, Partial
<1>2. Partial(s, f, Len(s))
  BY PartialExists, Zenon
<1>3. \A i \in 1..Len(s) : f[i] = IF i = 1 THEN s[i] ELSE f[i - 1] \o s[i]
  BY <1>2, Zenon DEF Partial
<1> QED
  BY <1>1, <1>3

\* If every part is read as it should be, so is the whole.
LEMMA FlattenDecodes ==
  ASSUME NEW X, NEW Y, NEW s \in Seq(Seq(X)), NEW t \in Seq(Seq(Y)), Len(s) = Len(t),
         \A i \in 1..Len(s) : Decodes(s[i], t[i])
  PROVE  Decodes(FlattenSeq(s), FlattenSeq(t))
<1> DEFINE n == Len(s)
<1>1. n \in Nat /\ \A i \in 1..n : s[i] \in Seq(X) /\ t[i] \in Seq(Y)
  OBVIOUS
<1>2. CASE n = 0
  <2>1. Len(t) = 0
    BY <1>2
  <2>2. s = <<>> /\ t = <<>>
    BY <1>2, <2>1
  <2>3. FlattenSeq(s) = <<>> /\ FlattenSeq(t) = <<>>
    BY <2>2 DEF FlattenSeq
  <2> QED
    BY <2>3 DEF Decodes
<1>3. CASE n # 0
  <2>1. PICK f : FlattenSeq(s) = f[n] /\ \A i \in 1..n : f[i] = IF i = 1 THEN s[i] ELSE f[i - 1] \o s[i]
    BY <1>3, FlattenPartial
  <2>2. PICK g : FlattenSeq(t) = g[n] /\ \A i \in 1..n : g[i] = IF i = 1 THEN t[i] ELSE g[i - 1] \o t[i]
    <3>1. PICK g : FlattenSeq(t) = g[Len(t)] /\ \A i \in 1..Len(t) : g[i] = IF i = 1 THEN t[i] ELSE g[i - 1] \o t[i]
      BY <1>3, FlattenPartial
    <3> QED
      BY <3>1
  <2> DEFINE Fine(i) == f[i] \in Seq(X) /\ g[i] \in Seq(Y) /\ Decodes(f[i], g[i])
             Good == {i \in Nat : i \in 1..n => Fine(i)}
  <2>3. 0 \in Good
    OBVIOUS
  <2>4. ASSUME NEW i \in Good PROVE i + 1 \in Good
    <3> SUFFICES ASSUME i + 1 \in 1..n PROVE Fine(i + 1)
      OBVIOUS
    <3>1. i \in Nat /\ (i \in 1..n => Fine(i))
      OBVIOUS
    <3> HIDE DEF Good, Fine
    <3>2. s[i + 1] \in Seq(X) /\ t[i + 1] \in Seq(Y) /\ Decodes(s[i + 1], t[i + 1])
      BY <1>1
    <3>3. CASE i = 0
      <4>1. f[i + 1] = s[i + 1] /\ g[i + 1] = t[i + 1]
        BY <2>1, <2>2, <3>3
      <4> QED
        BY <3>2, <4>1 DEF Fine
    <3>4. CASE i # 0
      <4>1. i \in 1..n /\ (i + 1) - 1 = i /\ i + 1 # 1
        BY <1>1, <3>1, <3>4
      <4>2. f[i + 1] = f[i] \o s[i + 1] /\ g[i + 1] = g[i] \o t[i + 1]
        BY <2>1, <2>2, <4>1
      <4>3. f[i] \in Seq(X) /\ g[i] \in Seq(Y) /\ Decodes(f[i], g[i])
        BY <3>1, <4>1 DEF Fine
      <4>4. f[i] \o s[i + 1] \in Seq(X)
        BY ONLY <3>2, <4>3, ConcatAt
      <4>5. g[i] \o t[i + 1] \in Seq(Y)
        BY ONLY <3>2, <4>3, ConcatAt
      <4>6. Decodes(f[i] \o s[i + 1], g[i] \o t[i + 1])
        BY ONLY <3>2, <4>3, DecodesConcat
      <4> QED
        BY <4>2, <4>4, <4>5, <4>6 DEF Fine
    <3> QED
      BY <3>3, <3>4
  <2>5. Good \subseteq Nat
    OBVIOUS
  <2>6. Good = Nat
    <3> HIDE DEF Good
    <3> QED
      BY <2>3, <2>4, <2>5, NaturalsReached
  <2>7. Fine(n)
    <3>1. n \in Good /\ n \in 1..n
      BY <1>1, <1>3, <2>6
    <3> QED
      BY <3>1
  <2> QED
    BY <2>1, <2>2, <2>7
<1> QED
  BY <1>2, <1>3

\* The bytes of the body, and what the server reads in each.
BodyBytes == Encoded \cup {Byte("&"), Byte("=")}
BodyKinds == {"data", "separator"} \X ByteKinds

\* One parameter in the body, and as the server should read it.
ParameterText(p, first) ==
  (IF first THEN <<>> ELSE <<Byte("&")>>) \o UrlEncode(p[1]) \o <<Byte("=")>> \o UrlEncode(p[2])
ParameterMeant(p, first) ==
  (IF first THEN <<>> ELSE <<<<"separator", "&">>>>)
  \o DataOf(p[1]) \o <<<<"separator", "=">>>> \o DataOf(p[2])

\* The encoding of a text in UTF-8 is read as the text.
LEMMA EncodedDecodes ==
  ASSUME NEW text \in Seq(ByteKinds)
  PROVE  /\ UrlEncode(text) \in Seq(BodyBytes) /\ DataOf(text) \in Seq(BodyKinds)
         /\ Utf8(text) => Decodes(UrlEncode(text), DataOf(text))
<1> DEFINE s == UrlEncode(text)
<1>1. s \in Seq(Encoded) /\ (Utf8(text) => Decoded(text, s, 1))
  BY EncodedText
<1> HIDE DEF s
<1>2. Encoded \subseteq BodyBytes
  BY DEF BodyBytes
<1>3. s \in Seq(BodyBytes)
  BY <1>1, <1>2, SeqMonotonic
<1>4. /\ DataOf(text) \in Seq(BodyKinds) /\ Len(DataOf(text)) = Len(text)
      /\ \A j \in 1..Len(text) : DataOf(text)[j] = <<"data", text[j]>>
  <2> DEFINE d(j) == <<"data", text[j]>>
  <2>1. DataOf(text) = [j \in 1..Len(text) |-> d(j)] /\ Len(text) \in Nat
    BY DEF DataOf
  <2>2. ASSUME NEW j \in 1..Len(text) PROVE d(j) \in BodyKinds
    <3>1. text[j] \in ByteKinds
      OBVIOUS
    <3> QED
      BY <3>1 DEF BodyKinds
  <2> HIDE DEF d
  <2>3. [j \in 1..Len(text) |-> d(j)] \in Seq(BodyKinds) /\ Len([j \in 1..Len(text) |-> d(j)]) = Len(text)
    BY <2>1, <2>2
  <2> QED
    BY <2>1, <2>3 DEF d
<1>5. ASSUME Utf8(text) PROVE Decodes(s, DataOf(text))
  <2>1. /\ Len(s) = Len(text) - 1 + 1
        /\ \A j \in 1..(Len(text) - 1 + 1) : Reads(s[j]) = <<"data", text[1 + j - 1]>>
    BY <1>1, <1>5 DEF Decoded
  <2>2. Len(text) - 1 + 1 = Len(text) /\ Len(text) \in Nat /\ \A j \in 1..Len(text) : 1 + j - 1 = j
    OBVIOUS
  <2>3. ASSUME NEW j \in 1..Len(s) PROVE Reads(s[j]) = DataOf(text)[j]
    BY <1>4, <2>1, <2>2
  <2> QED
    BY <1>4, <2>1, <2>2, <2>3 DEF Decodes
<1> QED
  BY <1>3, <1>4, <1>5 DEF s

\* A parameter is read with its separators.
LEMMA ParameterDecodes ==
  ASSUME NEW p \in Seq(ByteKinds) \X Seq(ByteKinds), NEW first \in BOOLEAN
  PROVE  /\ ParameterText(p, first) \in Seq(BodyBytes) /\ ParameterMeant(p, first) \in Seq(BodyKinds)
         /\ Utf8(p[1]) /\ Utf8(p[2]) => Decodes(ParameterText(p, first), ParameterMeant(p, first))
<1> DEFINE q == DataOf(p[1])
           r == DataOf(p[2])
           a == IF first THEN <<>> ELSE <<Byte("&")>>
           b == IF first THEN <<>> ELSE <<<<"separator", "&">>>>
           c == <<Byte("=")>>
           d == <<<<"separator", "=">>>>
           x == UrlEncode(p[1])
           y == UrlEncode(p[2])
           ux == a \o x
           vx == b \o q
           uc == ux \o c
           vc == vx \o d
<1>1. p[1] \in Seq(ByteKinds) /\ p[2] \in Seq(ByteKinds)
  OBVIOUS
<1>2. /\ x \in Seq(BodyBytes) /\ q \in Seq(BodyKinds) /\ (Utf8(p[1]) => Decodes(x, q))
      /\ y \in Seq(BodyBytes) /\ r \in Seq(BodyKinds) /\ (Utf8(p[2]) => Decodes(y, r))
  BY <1>1, EncodedDecodes
<1>3. /\ Byte("&") \in BodyBytes /\ Byte("=") \in BodyBytes
      /\ <<"separator", "&">> \in BodyKinds /\ <<"separator", "=">> \in BodyKinds
      /\ Reads(Byte("&")) = <<"separator", "&">> /\ Reads(Byte("=")) = <<"separator", "=">>
  <2>1. /\ <<"separator", "&">> \in BodyKinds /\ <<"separator", "=">> \in BodyKinds
    BY DEF BodyKinds, ByteKinds
  <2>2. Reads(Byte("&")) = <<"separator", "&">> /\ Reads(Byte("=")) = <<"separator", "=">>
    BY DEF Reads, Byte
  <2> QED
    BY <2>1, <2>2 DEF BodyBytes
<1>4. a \in Seq(BodyBytes) /\ b \in Seq(BodyKinds) /\ Decodes(a, b)
  <2>1. CASE first
    BY <2>1 DEF Decodes
  <2>2. CASE ~first
    BY <1>3, <2>2 DEF Decodes
  <2> QED
    BY <2>1, <2>2
<1>5. c \in Seq(BodyBytes) /\ d \in Seq(BodyKinds) /\ Decodes(c, d)
  BY <1>3 DEF Decodes
<1>6. ParameterText(p, first) = uc \o y /\ ParameterMeant(p, first) = vc \o r
  BY DEF ParameterText, ParameterMeant
<1> HIDE DEF a, b, c, d, x, y, q, r
<1>7. ux \in Seq(BodyBytes)
  BY ONLY <1>2, <1>4, ConcatAt
<1>8. vx \in Seq(BodyKinds)
  BY ONLY <1>2, <1>4, ConcatAt
<1>9. Utf8(p[1]) => Decodes(ux, vx)
  BY ONLY <1>2, <1>4, DecodesConcat
<1> HIDE DEF ux, vx
<1>10. uc \in Seq(BodyBytes)
  BY ONLY <1>5, <1>7, ConcatAt
<1>11. vc \in Seq(BodyKinds)
  BY ONLY <1>5, <1>8, ConcatAt
<1>12. Utf8(p[1]) => Decodes(uc, vc)
  BY ONLY <1>5, <1>7, <1>8, <1>9, DecodesConcat
<1> HIDE DEF uc, vc
<1>13. uc \o y \in Seq(BodyBytes)
  BY ONLY <1>2, <1>10, ConcatAt
<1>14. vc \o r \in Seq(BodyKinds)
  BY ONLY <1>2, <1>11, ConcatAt
<1>15. Utf8(p[1]) /\ Utf8(p[2]) => Decodes(uc \o y, vc \o r)
  BY ONLY <1>2, <1>10, <1>11, <1>12, DecodesConcat
<1> QED
  BY <1>6, <1>13, <1>14, <1>15

\* Every form has a body, and the server reads one in UTF-8 as it was meant.
LEMMA FormIsDecoded ==
  ASSUME NEW g \in Forms
  PROVE  LET meant == FlattenSeq([i \in DOMAIN g |->
                        (IF i = 1 THEN <<>> ELSE <<<<"separator", "&">>>>)
                        \o DataOf(g[i][1]) \o <<<<"separator", "=">>>> \o DataOf(g[i][2])]) IN
         /\ FormBody(g) \in Seq(BodyBytes)
         /\ (\A i \in DOMAIN g : Utf8(g[i][1]) /\ Utf8(g[i][2])) =>
              [i \in DOMAIN FormBody(g) |-> Reads(FormBody(g)[i])] = meant
<1> DEFINE n == Len(g)
           s == [i \in 1..n |-> ParameterText(g[i], i = 1)]
           t == [i \in 1..n |-> ParameterMeant(g[i], i = 1)]
           text == FlattenSeq(s)
           meant == FlattenSeq(t)
<1>1. n \in Nat /\ DOMAIN g = 1..n /\ \A i \in 1..n : g[i] \in Seq(ByteKinds) \X Seq(ByteKinds)
  BY DEF Forms
<1>2. FormBody(g) = text
  BY <1>1 DEF FormBody, ParameterText
<1>3. meant = FlattenSeq([i \in DOMAIN g |->
                (IF i = 1 THEN <<>> ELSE <<<<"separator", "&">>>>)
                \o DataOf(g[i][1]) \o <<<<"separator", "=">>>> \o DataOf(g[i][2])])
  BY <1>1 DEF ParameterMeant
<1>4. \A i \in 1..n : /\ ParameterText(g[i], i = 1) \in Seq(BodyBytes)
                      /\ ParameterMeant(g[i], i = 1) \in Seq(BodyKinds)
                      /\ Utf8(g[i][1]) /\ Utf8(g[i][2]) =>
                           Decodes(ParameterText(g[i], i = 1), ParameterMeant(g[i], i = 1))
  <2> SUFFICES ASSUME NEW i \in 1..n
               PROVE  /\ ParameterText(g[i], i = 1) \in Seq(BodyBytes)
                      /\ ParameterMeant(g[i], i = 1) \in Seq(BodyKinds)
                      /\ Utf8(g[i][1]) /\ Utf8(g[i][2]) =>
                           Decodes(ParameterText(g[i], i = 1), ParameterMeant(g[i], i = 1))
    OBVIOUS
  <2>1. g[i] \in Seq(ByteKinds) \X Seq(ByteKinds) /\ (i = 1) \in BOOLEAN
    BY <1>1
  <2> QED
    BY <2>1, ParameterDecodes
<1>5. /\ s \in Seq(Seq(BodyBytes)) /\ Len(s) = n
      /\ t \in Seq(Seq(BodyKinds)) /\ Len(t) = n
  BY <1>1, <1>4
<1>6. \A i \in 1..n : s[i] = ParameterText(g[i], i = 1) /\ t[i] = ParameterMeant(g[i], i = 1)
  OBVIOUS
<1> HIDE DEF s, t
<1>7. text \in Seq(BodyBytes) /\ meant \in Seq(BodyKinds)
  BY <1>5, FlattenParts
<1>8. ASSUME \A i \in DOMAIN g : Utf8(g[i][1]) /\ Utf8(g[i][2])
      PROVE  [i \in DOMAIN text |-> Reads(text[i])] = meant
  <2>1. ASSUME NEW i \in 1..Len(s) PROVE Decodes(s[i], t[i])
    <3>1. i \in 1..n /\ i \in DOMAIN g
      BY <1>1, <1>5
    <3>2. Utf8(g[i][1]) /\ Utf8(g[i][2])
      BY <1>8, <3>1
    <3>3. Decodes(ParameterText(g[i], i = 1), ParameterMeant(g[i], i = 1))
      BY <1>4, <3>1, <3>2
    <3>4. s[i] = ParameterText(g[i], i = 1) /\ t[i] = ParameterMeant(g[i], i = 1)
      BY <1>6, <3>1
    <3> QED
      BY <3>3, <3>4
  <2>2. Decodes(text, meant)
    BY <1>5, <2>1, FlattenDecodes
  <2> HIDE DEF text, meant
  <2>3. Len(text) = Len(meant) /\ \A j \in 1..Len(text) : Reads(text[j]) = meant[j]
    BY <2>2 DEF Decodes
  <2>4. DOMAIN text = 1..Len(text) /\ meant = [j \in 1..Len(meant) |-> meant[j]]
    BY <1>7
  <2> QED
    BY <2>3, <2>4
<1> QED
  BY <1>2, <1>3, <1>7, <1>8

-----------------------------------------------------------------------------
(* The request.                                                              *)

\* What a request to a target is made of, and the places in send() behind Open.
Wire(to) == {CR, LF, <<"GET", to.path>>, <<"Host", to.domain>>}
            \cup {"Content-Length"} \X Nat \cup BodyBytes
Asked == pc \in {"send", "recv", "headers", "body", "returned"}

\* What the server has received and what is still to be sent are the request; all
\* of it was sent before the first recv().
RequestInv ==
  /\ parts \in Urls /\ form \in Forms
  /\ target = ParseUrl(RenderUrl(parts))
  /\ pc \in {"open", "send", "recv", "headers", "body", "returned", "threw"}
  /\ pc = "open" => got = <<>>
  /\ Asked =>
       /\ got \in Seq(Wire(target)) /\ unsent \in Seq(Wire(target))
       /\ got \o unsent = RequestData(target, FormBody(form))
       /\ pc # "send" => unsent = <<>>

\* A request is a sequence of its tokens.
LEMMA RequestIsWire ==
  ASSUME NEW to, NEW body \in Seq(BodyBytes)
  PROVE  RequestData(to, body) \in Seq(Wire(to))
<1> DEFINE g == <<"GET", to.path>>
           h == <<"Host", to.domain>>
           l == <<"Content-Length", Len(body)>>
<1>1. g \in Wire(to) /\ h \in Wire(to) /\ CR \in Wire(to) /\ LF \in Wire(to)
  BY DEF Wire
<1>2. l \in Wire(to)
  <2>1. l \in {"Content-Length"} \X Nat
    OBVIOUS
  <2> QED
    BY <2>1 DEF Wire
<1>3. body \in Seq(Wire(to))
  <2>1. BodyBytes \subseteq Wire(to)
    BY DEF Wire
  <2> HIDE DEF g, h, l
  <2> QED
    BY <2>1, SeqMonotonic
<1> DEFINE W == Wire(to)
<1> HIDE DEF g, h, l, W
<1>4. g \in W /\ h \in W /\ l \in W /\ CR \in W /\ LF \in W /\ body \in Seq(W)
  BY <1>1, <1>2, <1>3 DEF W
<1>5. <<g>> \in Seq(W) /\ <<h>> \in Seq(W) /\ <<l>> \in Seq(W) /\ CRLF \in Seq(W)
  BY <1>4 DEF CRLF
<1>6. <<g>> \o CRLF \o <<h>> \o CRLF \o <<l>> \o CRLF \o CRLF \o body \in Seq(W)
  BY ONLY <1>4, <1>5
<1> QED
  BY <1>6 DEF RequestData, g, h, l, W

\* What is before a place and what begins there are the whole.
LEMMA CutJoined ==
  ASSUME NEW X, NEW s \in Seq(X), NEW n \in 0..Len(s)
  PROVE  Before(s, n + 1) \o From(s, n + 1) = s
<1> DEFINE b == Before(s, n + 1)
           f == From(s, n + 1)
<1>1. /\ b \in Seq(X) /\ Len(b) = n /\ \A i \in 1..n : b[i] = s[i]
      /\ f \in Seq(X) /\ Len(f) = Len(s) - n /\ \A i \in 1..(Len(s) - n) : f[i] = s[n + i]
  BY CutAt
<1> HIDE DEF b, f
<1>2. /\ b \o f \in Seq(X) /\ Len(b \o f) = Len(b) + Len(f)
      /\ \A j \in 1..Len(b) : (b \o f)[j] = b[j]
      /\ \A j \in 1..Len(f) : (b \o f)[Len(b) + j] = f[j]
  BY ONLY <1>1, ConcatAt
<1>3. Len(b \o f) = Len(s)
  BY <1>1, <1>2
<1>4. ASSUME NEW j \in 1..Len(s) PROVE (b \o f)[j] = s[j]
  <2>1. CASE j <= n
    <3>1. j \in 1..n
      BY <2>1
    <3> QED
      BY <1>1, <1>2, <3>1
  <2>2. CASE j > n
    <3>1. j - n \in 1..(Len(s) - n) /\ n + (j - n) = j
      BY <2>2
    <3>2. f[j - n] = s[j] /\ (b \o f)[j] = f[j - n]
      BY <1>1, <1>2, <3>1
    <3> QED
      BY <3>2
  <2>3. j \in Nat /\ n \in Nat
    OBVIOUS
  <2>4. j <= n \/ j > n
    BY <2>3
  <2> QED
    BY <2>1, <2>2, <2>4
<1>5. b \o f = s
  BY ONLY <1>2, <1>3, <1>4, s \in Seq(X), SeqEqual
<1> QED
  BY <1>5 DEF b, f

\* The first send() is still to come.
LEMMA InitRequest == Init => RequestInv
<1> SUFFICES ASSUME Init PROVE RequestInv
  OBVIOUS
<1>1. parts \in Urls /\ form \in Forms
  BY HttpAssumption DEF Init
<1>2. target = ParseUrl(RenderUrl(parts)) /\ pc = "open" /\ got = <<>>
  BY DEF Init
<1> QED
  BY <1>1, <1>2 DEF RequestInv, Asked

\* Open puts the request together, or throws.
LEMMA OpenRequest ==
  ASSUME RequestInv, Open
  PROVE  RequestInv'
<1>1. /\ parts' = parts /\ form' = form /\ target' = target /\ got' = got
      /\ got = <<>> /\ pc = "open"
  BY DEF RequestInv, Open, server
<1>2. CASE Throw("scheme") \/ Throw("system")
  BY <1>1, <1>2 DEF RequestInv, Asked, Throw
<1>3. CASE unsent' = RequestData(target, FormBody(form)) /\ pc' = "send"
  <2> DEFINE d == RequestData(target, FormBody(form))
  <2>1. FormBody(form) \in Seq(BodyBytes)
    BY FormIsDecoded DEF RequestInv
  <2>2. d \in Seq(Wire(target))
    BY <2>1, RequestIsWire
  <2>3. unsent' = d /\ target' = target /\ form' = form
    BY <1>1, <1>3
  <2>4. RequestData(target', FormBody(form')) = d
    BY <2>3
  <2> HIDE DEF d
  <2>5. got' = <<>> /\ <<>> \o d = d /\ <<>> \in Seq(Wire(target))
    BY <1>1, <2>2
  <2>6. got' \in Seq(Wire(target)) /\ unsent' \in Seq(Wire(target)) /\ got' \o unsent' = d
    BY <2>2, <2>3, <2>5
  <2>7. parts' \in Urls /\ form' \in Forms /\ target' = ParseUrl(RenderUrl(parts'))
    BY <1>1 DEF RequestInv
  <2> QED
    BY <1>3, <2>3, <2>4, <2>6, <2>7 DEF RequestInv, Asked, Wire
<1> QED
  BY <1>2, <1>3 DEF Open

\* A part of what is left goes over to what was received.
LEMMA SendRequest ==
  ASSUME RequestInv, Send
  PROVE  RequestInv'
<1> DEFINE W == Wire(target)
           d == RequestData(target, FormBody(form))
<1>1. pc = "send" /\ parts' = parts /\ form' = form /\ target' = target
  BY DEF Send, server
<1>2. got \in Seq(W) /\ unsent \in Seq(W) /\ got \o unsent = d
  BY <1>1 DEF RequestInv, Asked
<1>3. PICK n \in 1..Len(unsent) : got' = got \o Before(unsent, n + 1) /\ unsent' = From(unsent, n + 1)
  BY DEF Send
<1>4. pc' = IF unsent' = <<>> THEN "recv" ELSE "send"
  BY DEF Send
<1>5. W' = W /\ d' = d
  BY <1>1 DEF Wire
<1> HIDE DEF W, d
<1> DEFINE b == Before(unsent, n + 1)
           f == From(unsent, n + 1)
<1>6. n \in 0..Len(unsent)
  BY <1>2
<1>7. b \in Seq(W) /\ f \in Seq(W) /\ b \o f = unsent
  BY ONLY <1>2, <1>6, CutAt, CutJoined
<1> HIDE DEF b, f
<1>8. (got \o b) \o f = got \o (b \o f) /\ got \o b \in Seq(W)
  <2>1. got \in Seq(W) /\ b \in Seq(W) /\ f \in Seq(W)
    BY <1>2, <1>7
  <2>2. (got \o b) \o f = got \o (b \o f)
    BY ONLY <2>1, Z3T(30)
  <2>3. got \o b \in Seq(W)
    BY ONLY <2>1
  <2> QED
    BY <2>2, <2>3
<1>9. got' = got \o b /\ unsent' = f
  BY <1>3 DEF b, f
<1>10. got' \in Seq(W) /\ unsent' \in Seq(W) /\ got' \o unsent' = d
  BY <1>2, <1>7, <1>8, <1>9
<1>11. parts' \in Urls /\ form' \in Forms /\ target' = ParseUrl(RenderUrl(parts'))
  BY <1>1 DEF RequestInv
<1>12. got' \in Seq(W') /\ unsent' \in Seq(W') /\ got' \o unsent' = d'
  BY <1>5, <1>10
<1> QED
  BY <1>4, <1>11, <1>12 DEF RequestInv, Asked, W, d

\* Behind the last send() nothing changes that the server got.
LEMMA LaterRequest ==
  ASSUME RequestInv, pc \in {"recv", "headers", "body"},
         pc' \in {"recv", "headers", "body", "returned", "threw"},
         UNCHANGED <<server, sender>>
  PROVE  RequestInv'
  BY DEF RequestInv, Asked, server, sender, Wire

\* Every step keeps what was sent and what is left together.
LEMMA NextRequest ==
  ASSUME RequestInv, [Next]_vars
  PROVE  RequestInv'
<1>1. CASE Open
  BY <1>1, OpenRequest
<1>2. CASE Send
  BY <1>2, SendRequest
<1>3. CASE Recv \/ Disconnected
  <2>1. pc = "recv" /\ pc' \in {"headers", "body", "returned"} /\ UNCHANGED <<server, sender>>
    BY <1>3 DEF Recv, Disconnected
  <2> QED
    BY <2>1, LaterRequest
<1>4. CASE HeadersIncomplete \/ EndOfHeaders
  <2>1. pc = "headers" /\ pc' \in {"recv", "body"} /\ UNCHANGED <<server, sender>>
    BY <1>4 DEF HeadersIncomplete, EndOfHeaders
  <2> QED
    BY <2>1, LaterRequest
<1>5. CASE StatusLine \/ Header
  <2>1. pc = "headers" /\ pc' \in {"headers", "threw"} /\ UNCHANGED <<server, sender>>
    BY <1>5 DEF StatusLine, Header, Throw
  <2> QED
    BY <2>1, LaterRequest
<1>6. CASE PlainBody \/ ChunkThrows \/ ChunkData \/ ChunkIncomplete \/ ChunkSize
  <2>1. pc = "body" /\ pc' \in {"recv", "body", "returned", "threw"} /\ UNCHANGED <<server, sender>>
    BY <1>6 DEF PlainBody, ChunkThrows, ChunkData, ChunkIncomplete, ChunkSize, Throw
  <2> QED
    BY <2>1, LaterRequest
<1>7. CASE SocketFails
  BY <1>7 DEF RequestInv, Asked, SocketFails, Throw, server, sender
<1>8. CASE PeerCloses \/ UNCHANGED vars
  <2>1. UNCHANGED <<parts, form, pc, sender>>
    BY <1>8 DEF PeerCloses, vars, server
  <2> QED
    BY <2>1 DEF RequestInv, Asked, sender, Wire
<1> QED
  BY <1>1, <1>2, <1>3, <1>4, <1>5, <1>6, <1>7, <1>8 DEF Next, Client, Parse, Finished

\* Whatever the parts of its URL, but for a query directly behind the host, the Request
\* asks for the host, port, path and query that were meant; a form in UTF-8 is read by
\* the server as it was given, every "&" and "=" of its names and values encoded; and
\* the server gets the bytes of the request in order, all of them before the client
\* waits for an answer (httprequest.h:262-308, 388-451, 496-505).
THEOREM RequestIsFaithful == Spec => []RequestFaithful
<1>1. RequestInv => RequestFaithful
  <2> SUFFICES ASSUME RequestInv PROVE RequestFaithful
    OBVIOUS
  <2>1. UrlParsed
    <3> DEFINE z == <<":", "/", "/">>
               r == RenderUrl(parts)
    <3>0. CASE parts.path = Absent /\ parts.query # Absent
      BY <3>0 DEF UrlParsed
    <3>1. CASE parts.scheme = Absent /\ Find(r, z) # 0
      <4>1. r \in Seq(Parts)
        BY UrlRendered DEF RequestInv
      <4>2. z \in Seq(Parts)
        BY DEF Parts
      <4> HIDE DEF r, z
      <4>3. Find(r, z) > 0
        BY <3>1, <4>1, <4>2, FindSome
      <4> QED
        BY <3>1, <4>3 DEF UrlParsed, r, z
    <3>2. CASE /\ ~(parts.scheme = Absent /\ Find(r, z) # 0)
               /\ ~(parts.path = Absent /\ parts.query # Absent)
      <4>1. /\ parts.scheme = Absent => Find(RenderUrl(parts), <<":", "/", "/">>) = 0
            /\ parts.path # Absent \/ parts.query = Absent
        BY <3>2
      <4>2. parts \in Urls /\ target = ParseUrl(RenderUrl(parts))
        BY DEF RequestInv
      <4> QED
        BY <4>1, <4>2, UrlIsParsed DEF UrlParsed
    <3> QED
      BY <3>0, <3>1, <3>2
  <2>2. FormDecodes
    BY FormIsDecoded DEF RequestInv, FormDecodes
  <2>3. RequestInOrder
    BY DEF RequestInv, Asked, RequestInOrder
  <2> QED
    BY <2>1, <2>2, <2>3 DEF RequestFaithful
<1>2. Init => RequestInv
  BY InitRequest
<1>3. RequestInv /\ [Next]_vars => RequestInv'
  BY NextRequest
<1> QED
  BY <1>1, <1>2, <1>3, PTL DEF Spec

=============================================================================
