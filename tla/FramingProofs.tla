----------------------------- MODULE FramingProofs -----------------------------
(***************************************************************************)
(* Proofs about Framing: however frames are cut into pieces, what a reader *)
(* decodes is what was framed.                                             *)
(***************************************************************************)
EXTENDS Framing, SequenceTheorems, WellFoundedInduction, TLAPS

--------------------------------------------------------------------------------
(* Sequences of bytes.                                                     *)

LEMMA PrefixIs ==
    ASSUME NEW S, NEW a \in Seq(S), NEW b \in Seq(S)
    PROVE  IsPrefix(a, b) <=> \E z \in Seq(S) : a \o z = b
<1>1. ASSUME IsPrefix(a, b) PROVE \E z \in Seq(S) : a \o z = b
  <2> DEFINE z == SubSeq(b, Len(a) + 1, Len(b))
  <2>1. Len(a) \in Nat /\ Len(b) \in Nat /\ Len(a) <= Len(b)
        BY <1>1 DEF IsPrefix
  <2>2. SubSeq(b, 1, Len(a)) = a
        BY <1>1 DEF IsPrefix
  <2>3. SubSeq(b, 1, Len(a)) \o z = b
    <3>1. SubSeq(b, 1, Len(a)) \o SubSeq(b, Len(a) + 1, Len(b)) = SubSeq(b, 1, Len(b))
      <4>1. 1 \in 1 .. Len(b) + 1 /\ Len(a) \in 1 - 1 .. Len(b) /\ Len(b) \in Len(a) .. Len(b)
            BY <2>1
      <4> QED BY <4>1, ConcatAdjacentSubSeq
    <3> QED BY <3>1, SubSeqFull
  <2>4. z \in Seq(S)
        BY <2>1, SubSeqProperties
  <2> QED BY <2>2, <2>3, <2>4
<1>2. ASSUME NEW z \in Seq(S), a \o z = b PROVE IsPrefix(a, b)
  <2>1. Len(b) = Len(a) + Len(z) /\ \A i \in 1 .. Len(a) : b[i] = a[i]
        BY <1>2, ConcatProperties
  <2>2. Len(a) \in Nat /\ Len(z) \in Nat
        OBVIOUS
  <2>3. /\ SubSeq(b, 1, Len(a)) \in Seq(S) /\ Len(SubSeq(b, 1, Len(a))) = Len(a)
        /\ \A i \in 1 .. Len(a) : SubSeq(b, 1, Len(a))[i] = b[i]
        BY <2>1, <2>2, SubSeqProperties
  <2>4. SubSeq(b, 1, Len(a)) = a
        BY <2>1, <2>3, SeqEqual
  <2> QED BY <2>1, <2>2, <2>4 DEF IsPrefix
<1> QED BY <1>1, <1>2

LEMMA SplitAt ==
    ASSUME NEW S, NEW a \in Seq(S), NEW n \in 0 .. Len(a)
    PROVE  /\ SubSeq(a, 1, n) \in Seq(S) /\ Len(SubSeq(a, 1, n)) = n
           /\ SubSeq(a, n + 1, Len(a)) \in Seq(S)
           /\ SubSeq(a, 1, n) \o SubSeq(a, n + 1, Len(a)) = a
           /\ n = Len(a) => SubSeq(a, 1, n) = a /\ SubSeq(a, n + 1, Len(a)) = << >>
<1>1. Len(a) \in Nat
      OBVIOUS
<1>2. /\ SubSeq(a, 1, n) \in Seq(S) /\ Len(SubSeq(a, 1, n)) = n
      /\ SubSeq(a, n + 1, Len(a)) \in Seq(S)
      BY <1>1, SubSeqProperties
<1>3. SubSeq(a, 1, n) \o SubSeq(a, n + 1, Len(a)) = SubSeq(a, 1, Len(a))
  <2>1. 1 \in 1 .. Len(a) + 1 /\ n \in 1 - 1 .. Len(a) /\ Len(a) \in n .. Len(a)
        BY <1>1
  <2> QED BY <2>1, ConcatAdjacentSubSeq
<1>4. SubSeq(a, 1, Len(a)) = a
      BY SubSeqFull
<1>5. n = Len(a) => SubSeq(a, n + 1, Len(a)) = << >>
      BY <1>1, SubSeqEmpty
<1> QED BY <1>2, <1>3, <1>4, <1>5

\* Two ways to cut one sequence at the same place.
LEMMA SameCut ==
    ASSUME NEW S, NEW a \in Seq(S), NEW b \in Seq(S), NEW c \in Seq(S), NEW d \in Seq(S),
           a \o b = c \o d, Len(a) = Len(c)
    PROVE  a = c /\ b = d
<1>1. \A i \in 1 .. Len(a) : a[i] = (a \o b)[i] /\ c[i] = (c \o d)[i]
      BY ConcatProperties
<1>2. a = c
      BY <1>1, SeqEqual
<1> QED BY <1>2, ConcatSimplifications

\* The algebra of concatenation, on a set and an operator the provers need not look
\* into.
Bytes == Seq(Nat)

u ++ v == u \o v

LEMMA BytesAlgebra ==
    /\ << >> \in Bytes
    /\ \A u \in Bytes : Len(u) \in Nat /\ u ++ << >> = u /\ << >> ++ u = u
    /\ \A u, v \in Bytes : u ++ v \in Bytes /\ Len(u ++ v) = Len(u) + Len(v)
    /\ \A u, v, w \in Bytes : (u ++ v) ++ w = u ++ (v ++ w)
<1>1. \A u \in Seq(Nat) : Len(u) \in Nat /\ u \o << >> = u /\ << >> \o u = u
      BY ConcatEmptySeq
<1>2. \A u, v \in Seq(Nat) : u \o v \in Seq(Nat) /\ Len(u \o v) = Len(u) + Len(v)
      BY ConcatProperties
<1>3. \A u, v, w \in Seq(Nat) : (u \o v) \o w = u \o (v \o w)
      BY ConcatAssociative
<1> QED BY <1>1, <1>2, <1>3 DEF Bytes, ++

LEMMA BytesAssoc ==
    ASSUME NEW u \in Bytes, NEW v \in Bytes, NEW w \in Bytes
    PROVE  (u ++ v) ++ w = u ++ (v ++ w)
BY BytesAlgebra

LEMMA BytesEmpty == \A u \in Bytes : u = << >> <=> Len(u) = 0
BY DEF Bytes

LEMMA BytesCut ==
    \A u, v, w, x \in Bytes : u ++ v = w ++ x /\ Len(u) = Len(w) => u = w /\ v = x
BY SameCut DEF Bytes, ++

LEMMA BytesCancel == \A u, v, w \in Bytes : u ++ v = u ++ w => v = w
BY BytesCut

LEMMA BytesPrefix ==
    \A u, v \in Bytes : IsPrefix(u, v) <=> \E z \in Bytes : u ++ z = v
BY PrefixIs DEF Bytes, ++

LEMMA BytesSplit ==
    ASSUME NEW u \in Bytes, NEW n \in 0 .. Len(u)
    PROVE  /\ SubSeq(u, 1, n) \in Bytes /\ Len(SubSeq(u, 1, n)) = n
           /\ SubSeq(u, n + 1, Len(u)) \in Bytes
           /\ SubSeq(u, 1, n) ++ SubSeq(u, n + 1, Len(u)) = u
           /\ n = Len(u) => SubSeq(u, 1, n) = u /\ SubSeq(u, n + 1, Len(u)) = << >>
BY SplitAt DEF Bytes, ++

--------------------------------------------------------------------------------
(* The bytes of a sequence of messages.                                    *)

LEMMA LeastNat ==
    ASSUME NEW T \in SUBSET Nat, T # {}
    PROVE  \E x \in T : \A y \in T : x <= y
<1> DEFINE R == {ss \in Nat \X Nat : ss[1] < ss[2]}
<1>1. IsWellFoundedOn(R, Nat)
      BY NatLessThanWellFounded DEF OpToRel
<1>2. PICK x \in T : \A y \in T : <<y, x>> \notin R
  <2> HIDE DEF R
  <2> QED BY <1>1, WFMin
<1>3. \A y \in T : ~(y < x)
      BY <1>2
<1> QED BY <1>3

\* Induction on membership in a set: the library's rule takes an operator, which
\* the provers cannot instantiate.
LEMMA SetInduction ==
    ASSUME NEW G, 0 \in G, \A n \in Nat : n \in G => n + 1 \in G
    PROVE  \A n \in Nat : n \in G
<1> DEFINE T == {n \in Nat : n \notin G}
<1> SUFFICES ASSUME T # {} PROVE FALSE
    OBVIOUS
<1>1. PICK x \in T : \A y \in T : x <= y
      BY LeastNat
<1>2. x \in Nat /\ x # 0
      BY <1>1
<1>3. x - 1 \in Nat /\ x - 1 \notin T
      BY <1>1, <1>2
<1>4. x - 1 \in G /\ (x - 1) + 1 = x
      BY <1>2, <1>3
<1> QED BY <1>1, <1>3, <1>4

Msg == Snapshots \cup Commands

LEMMA FrameFacts ==
    ASSUME NEW m \in Msg
    PROVE  /\ m \in Seq(Nat) /\ Len(m) \in Nat \ {0} /\ Prefix(Len(m)) \in Seq(Nat)
           /\ Len(Prefix(Len(m))) = PrefixLen /\ PrefixLen = 2
           /\ Frame(m) \in Seq(Nat) /\ Len(Frame(m)) = PrefixLen + Len(m)
<1>1. m \in Seq(0 .. Base - 1) /\ m # << >> /\ Base \in Nat \ {0, 1}
      BY FramingAssumption DEF Msg
<1>2. m \in Seq(Nat)
      BY <1>1, SeqMonotonic
<1>3. Len(m) \in Nat \ {0}
      BY <1>1, <1>2
<1>4. Len(m) % Base \in Nat /\ Len(m) \div Base \in Nat
      BY <1>1, <1>3
<1>5. Prefix(Len(m)) \in Seq(Nat) /\ Len(Prefix(Len(m))) = 2
      BY <1>4 DEF Prefix
<1>6. PrefixLen = 2
      BY DEF PrefixLen
<1>7. Frame(m) \in Seq(Nat) /\ Len(Frame(m)) = 2 + Len(m)
  <2> DEFINE p == Prefix(Len(m))
  <2>1. Frame(m) = p \o m /\ p \in Seq(Nat) /\ Len(p) = 2
        BY <1>5 DEF Frame
  <2>2. p \o m \in Seq(Nat) /\ Len(p \o m) = Len(p) + Len(m)
    <3> HIDE DEF p
    <3> QED BY <1>2, <2>1, ConcatProperties
  <2> HIDE DEF p
  <2> QED BY <2>1, <2>2
<1> QED BY <1>2, <1>3, <1>5, <1>6, <1>7

\* The two bytes of a prefix give the length back.
LEMMA PrefixDecodes ==
    ASSUME NEW n \in Nat
    PROVE  Prefix(n)[1] + Base * Prefix(n)[2] = n
<1>1. Base \in Nat \ {0, 1}
      BY FramingAssumption
<1>2. (n % Base) + Base * (n \div Base) = n
      BY <1>1
<1> QED BY <1>2 DEF Prefix

\* The recursive definition has a solution, so it computes what it says.
LEMMA StreamDef ==
    ASSUME NEW ms \in Seq(Msg)
    PROVE  Stream(ms) = [i \in 0 .. Len(ms) |->
               IF i = 0 THEN << >> ELSE Stream(ms)[i-1] \o Frame(ms[i])]
<1> DEFINE Step(f, i) == IF i = 0 THEN << >> ELSE f[i-1] \o Frame(ms[i])
           G == {n \in Nat : \E f : f = [i \in 0 .. n |-> Step(f, i)]}
<1>0. Len(ms) \in Nat
      OBVIOUS
<1>1. 0 \in G
  <2> DEFINE f == [i \in 0 .. 0 |-> << >>]
  <2>1. f = [i \in 0 .. 0 |-> Step(f, i)]
        OBVIOUS
  <2> QED BY <2>1
<1>2. ASSUME NEW n \in Nat, n \in G PROVE n + 1 \in G
  <2>1. PICK f : f = [i \in 0 .. n |-> Step(f, i)]
        BY <1>2
  <2> DEFINE last == f[n] \o Frame(ms[n+1])
             g == [i \in 0 .. n + 1 |-> IF i = n + 1 THEN last ELSE f[i]]
  <2>2. ASSUME NEW i \in 0 .. n + 1 PROVE g[i] = Step(g, i)
    <3>1. CASE i = n + 1
      <4>1. (n + 1) - 1 = n /\ n \in 0 .. n + 1 /\ n # n + 1 /\ n + 1 # 0
            OBVIOUS
      <4>2. g[n] = f[n] /\ g[n+1] = last
        <5> HIDE DEF last
        <5> QED BY <4>1
      <4> HIDE DEF g
      <4> QED BY <3>1, <4>1, <4>2
    <3>2. CASE i \in 0 .. n
      <4>1. g[i] = f[i] /\ f[i] = Step(f, i)
            BY <2>1, <3>2
      <4>2. i # 0 => i - 1 \in 0 .. n + 1 /\ i - 1 # n + 1
            BY <3>2
      <4>3. i # 0 => g[i-1] = f[i-1]
            BY <4>2
      <4> QED BY <4>1, <4>3
    <3> QED BY <3>1, <3>2
  <2>3. g = [i \in 0 .. n + 1 |-> Step(g, i)]
        BY <2>2
  <2> HIDE DEF g
  <2> QED BY <2>3
<1>3. \A n \in Nat : n \in G
  <2> HIDE DEF G
  <2> QED BY <1>1, <1>2, SetInduction
<1>4. \E f : f = [i \in 0 .. Len(ms) |-> Step(f, i)]
      BY <1>0, <1>3
<1> QED BY <1>4 DEF Stream

LEMMA StreamFacts ==
    ASSUME NEW ms \in Seq(Msg)
    PROVE  /\ Stream(ms)[0] = << >>
           /\ \A i \in 0 .. Len(ms) - 1 : Stream(ms)[i+1] = Stream(ms)[i] \o Frame(ms[i+1])
           /\ \A i \in 0 .. Len(ms) : Stream(ms)[i] \in Seq(Nat)
<1>0. Len(ms) \in Nat
      OBVIOUS
<1>1. \A i \in 0 .. Len(ms) : Stream(ms)[i] =
          IF i = 0 THEN << >> ELSE Stream(ms)[i-1] \o Frame(ms[i])
      BY StreamDef
<1>2. ASSUME NEW i \in 0 .. Len(ms) - 1
      PROVE  Stream(ms)[i+1] = Stream(ms)[i] \o Frame(ms[i+1])
  <2>1. i + 1 \in 0 .. Len(ms) /\ i + 1 # 0 /\ (i + 1) - 1 = i
        BY <1>0
  <2> QED BY <1>1, <2>1
<1>3. Stream(ms)[0] = << >>
      BY <1>0, <1>1
<1> DEFINE G == {i \in Nat : i <= Len(ms) => Stream(ms)[i] \in Seq(Nat)}
<1>4. 0 \in G
  <2>1. << >> \in Seq(Nat)
        OBVIOUS
  <2> QED BY <1>3, <2>1
<1>5. ASSUME NEW i \in Nat, i \in G PROVE i + 1 \in G
  <2> SUFFICES ASSUME i + 1 <= Len(ms) PROVE Stream(ms)[i+1] \in Seq(Nat)
      OBVIOUS
  <2>1. i \in 0 .. Len(ms) - 1 /\ i + 1 \in 1 .. Len(ms) /\ i <= Len(ms)
        BY <1>0
  <2>2. Frame(ms[i+1]) \in Seq(Nat)
    <3>1. ms[i+1] \in Msg
          BY <2>1, ElementOfSeq
    <3> QED BY <3>1, FrameFacts
  <2>3. Stream(ms)[i] \in Seq(Nat)
        BY <1>5, <2>1
  <2>4. Stream(ms)[i] \o Frame(ms[i+1]) \in Seq(Nat)
        BY <2>2, <2>3, ConcatProperties
  <2> QED BY <1>2, <2>1, <2>4
<1>6. \A i \in Nat : i \in G
  <2> HIDE DEF G
  <2> QED BY <1>4, <1>5, SetInduction
<1>7. \A i \in 0 .. Len(ms) : Stream(ms)[i] \in Seq(Nat)
      BY <1>0, <1>6
<1> QED BY <1>2, <1>3, <1>7

\* One more message leaves the bytes of the earlier ones as they are.
LEMMA StreamAppend ==
    ASSUME NEW ms \in Seq(Msg), NEW m \in Msg
    PROVE  /\ \A i \in 0 .. Len(ms) : Stream(Append(ms, m))[i] = Stream(ms)[i]
           /\ Stream(Append(ms, m))[Len(ms) + 1] = Stream(ms)[Len(ms)] \o Frame(m)
<1> DEFINE ns == Append(ms, m)
<1>0. /\ Len(ms) \in Nat /\ ns \in Seq(Msg) /\ Len(ns) = Len(ms) + 1
      /\ \A i \in 1 .. Len(ms) : ns[i] = ms[i]
      /\ ns[Len(ms) + 1] = m
      BY AppendProperties
<1> HIDE DEF ns
<1>1. /\ Stream(ns)[0] = Stream(ms)[0]
      /\ \A i \in 0 .. Len(ns) - 1 : Stream(ns)[i+1] = Stream(ns)[i] \o Frame(ns[i+1])
      /\ \A i \in 0 .. Len(ms) - 1 : Stream(ms)[i+1] = Stream(ms)[i] \o Frame(ms[i+1])
      BY <1>0, StreamFacts
<1> DEFINE G == {i \in Nat : i <= Len(ms) => Stream(ns)[i] = Stream(ms)[i]}
<1>2. 0 \in G
      BY <1>1
<1>3. ASSUME NEW i \in Nat, i \in G PROVE i + 1 \in G
  <2> SUFFICES ASSUME i + 1 <= Len(ms) PROVE Stream(ns)[i+1] = Stream(ms)[i+1]
      OBVIOUS
  <2>1. /\ i \in 0 .. Len(ms) - 1 /\ i \in 0 .. Len(ns) - 1
        /\ i + 1 \in 1 .. Len(ms) /\ i <= Len(ms)
        BY <1>0
  <2>2. Stream(ns)[i] = Stream(ms)[i] /\ ns[i+1] = ms[i+1]
        BY <1>0, <1>3, <2>1
  <2> QED BY <1>1, <2>1, <2>2
<1>4. \A i \in Nat : i \in G
  <2> HIDE DEF G
  <2> QED BY <1>2, <1>3, SetInduction
<1>5. \A i \in 0 .. Len(ms) : Stream(ns)[i] = Stream(ms)[i]
      BY <1>0, <1>4
<1>6. Stream(ns)[Len(ms) + 1] = Stream(ms)[Len(ms)] \o Frame(m)
  <2>1. Len(ms) \in 0 .. Len(ns) - 1 /\ Len(ms) \in 0 .. Len(ms)
        BY <1>0
  <2> QED BY <1>0, <1>1, <1>5, <2>1
<1> QED BY <1>5, <1>6 DEF ns

\* The bytes of fewer messages come first.
LEMMA StreamRest ==
    ASSUME NEW ms \in Seq(Msg), NEW k \in 0 .. Len(ms), NEW l \in k .. Len(ms)
    PROVE  \E y \in Seq(Nat) : Stream(ms)[l] = Stream(ms)[k] \o y
<1>0. Len(ms) \in Nat /\ k \in Nat /\ l \in Nat /\ k <= l /\ l <= Len(ms)
      OBVIOUS
<1> DEFINE More(i) == \E y \in Seq(Nat) : Stream(ms)[i] = Stream(ms)[k] \o y
           G == {i \in Nat : k + i <= Len(ms) => More(k + i)}
<1>t. \A i \in 0 .. Len(ms) : Stream(ms)[i] \in Seq(Nat)
      BY StreamFacts
<1>1. More(k + 0)
  <2>1. << >> \in Seq(Nat) /\ Stream(ms)[k] \o << >> = Stream(ms)[k] /\ k + 0 = k
        BY <1>0, <1>t, ConcatEmptySeq
  <2> QED BY <2>1
<1>2. 0 \in G
      BY <1>1
<1>3. ASSUME NEW i \in Nat, i \in G PROVE i + 1 \in G
  <2> SUFFICES ASSUME k + (i + 1) <= Len(ms) PROVE More(k + (i + 1))
    <3> HIDE DEF More
    <3> QED OBVIOUS
  <2> DEFINE j == k + i
  <2>1. j \in 0 .. Len(ms) - 1 /\ j + 1 = k + (i + 1) /\ j + 1 \in 1 .. Len(ms) /\ j <= Len(ms)
        BY <1>0
  <2>2. More(j)
        BY <1>3, <2>1
  <2> HIDE DEF j
  <2>3. PICK y \in Seq(Nat) : Stream(ms)[j] = Stream(ms)[k] \o y
        BY <2>2
  <2>4. Frame(ms[j+1]) \in Seq(Nat)
    <3>1. ms[j+1] \in Msg
          BY <2>1, ElementOfSeq
    <3> QED BY <3>1, FrameFacts
  <2>5. Stream(ms)[j+1] = (Stream(ms)[k] \o y) \o Frame(ms[j+1])
        BY <2>1, <2>3, StreamFacts
  <2>6. y \o Frame(ms[j+1]) \in Seq(Nat)
        BY <2>4, ConcatProperties
  <2>7. (Stream(ms)[k] \o y) \o Frame(ms[j+1]) = Stream(ms)[k] \o (y \o Frame(ms[j+1]))
    <3>1. Stream(ms)[k] \in Bytes /\ y \in Bytes /\ Frame(ms[j+1]) \in Bytes
          BY <1>0, <1>t, <2>4 DEF Bytes
    <3>2. (Stream(ms)[k] ++ y) ++ Frame(ms[j+1]) = Stream(ms)[k] ++ (y ++ Frame(ms[j+1]))
          BY <3>1, BytesAlgebra
    <3> QED BY <3>2 DEF ++
  <2>8. More(j + 1)
        BY <2>5, <2>6, <2>7
  <2> QED BY <2>1, <2>8
<1>4. \A i \in Nat : i \in G
  <2> HIDE DEF G
  <2> QED BY <1>2, <1>3, SetInduction
<1>5. l - k \in Nat /\ k + (l - k) = l
      BY <1>0
<1>6. More(k + (l - k))
  <2> HIDE DEF More
  <2>1. l - k \in G
        BY <1>4, <1>5
  <2> QED BY <1>0, <1>5, <2>1
<1> QED BY <1>5, <1>6

LEMMA StreamBytes ==
    ASSUME NEW ms \in Seq(Msg)
    PROVE  /\ Len(ms) \in Nat
           /\ Stream(ms)[0] = << >>
           /\ \A i \in 0 .. Len(ms) : Stream(ms)[i] \in Bytes
           /\ \A i \in 0 .. Len(ms) - 1 :
                 /\ ms[i+1] \in Msg /\ ms[i+1] \in Bytes /\ Prefix(Len(ms[i+1])) \in Bytes
                 /\ Len(Prefix(Len(ms[i+1]))) = 2
                 /\ Frame(ms[i+1]) \in Bytes
                 /\ Stream(ms)[i+1] = Stream(ms)[i] ++ Frame(ms[i+1])
<1>1. Len(ms) \in Nat
      OBVIOUS
<1>2. ASSUME NEW i \in 0 .. Len(ms) - 1
      PROVE  /\ ms[i+1] \in Msg /\ ms[i+1] \in Bytes /\ Prefix(Len(ms[i+1])) \in Bytes
             /\ Len(Prefix(Len(ms[i+1]))) = 2
             /\ Frame(ms[i+1]) \in Bytes
  <2>1. i + 1 \in 1 .. Len(ms)
        BY <1>1
  <2>2. ms[i+1] \in Msg
        BY <2>1, ElementOfSeq
  <2> QED BY <2>2, FrameFacts DEF Bytes
<1> QED BY <1>1, <1>2, StreamFacts DEF Bytes, ++

\* What is not there yet of the bytes that continue a stream: nothing, if they are all.
LEMMA ContinuesIs ==
    ASSUME NEW ms \in Seq(Msg), NEW n \in 0 .. Len(ms), NEW t \in Bytes, NEW all \in BOOLEAN
    PROVE  Continues(ms, n, t, all) <=>
             \E z \in Bytes : /\ Stream(ms)[n] ++ (t ++ z) = Stream(ms)[Len(ms)]
                              /\ all => z = << >>
<1> DEFINE a == Stream(ms)[n]
           e == Stream(ms)[Len(ms)]
<1>1. a \in Bytes /\ e \in Bytes
  <2>1. Len(ms) \in 0 .. Len(ms)
        OBVIOUS
  <2> QED BY <2>1, StreamBytes
<1>2. Continues(ms, n, t, all) <=> IsPrefix(a ++ t, e) /\ (all => a ++ t = e)
      BY DEF Continues, ++
<1> HIDE DEF a, e
<1>3. a ++ t \in Bytes /\ \A z \in Bytes : (a ++ t) ++ z = a ++ (t ++ z)
      BY <1>1, BytesAlgebra
<1>4. IsPrefix(a ++ t, e) <=> \E z \in Bytes : (a ++ t) ++ z = e
      BY <1>1, <1>3, BytesPrefix
<1>5. << >> \in Bytes /\ (a ++ t) ++ << >> = a ++ t
      BY <1>3, BytesAlgebra
<1>6. ASSUME NEW z \in Bytes, (a ++ t) ++ z = e, a ++ t = e PROVE z = << >>
  <2>1. (a ++ t) ++ z = (a ++ t) ++ << >>
        BY <1>5, <1>6
  <2> QED BY <1>3, <1>5, <2>1, BytesCancel
<1>7. ASSUME IsPrefix(a ++ t, e) /\ (all => a ++ t = e)
      PROVE  \E z \in Bytes : a ++ (t ++ z) = e /\ (all => z = << >>)
      BY <1>3, <1>4, <1>6, <1>7
<1>8. ASSUME NEW z \in Bytes, a ++ (t ++ z) = e, all => z = << >>
      PROVE  IsPrefix(a ++ t, e) /\ (all => a ++ t = e)
      BY <1>3, <1>4, <1>5, <1>8
<1>9. Continues(ms, n, t, all) <=> \E z \in Bytes : a ++ (t ++ z) = e /\ (all => z = << >>)
      BY <1>2, <1>7, <1>8
<1> QED BY <1>9 DEF a, e

\* Bytes after the first n messages begin with the frame of the next one.
LEMMA NextFrame ==
    ASSUME NEW ms \in Seq(Msg), NEW n \in 0 .. Len(ms), NEW t \in Bytes, NEW z \in Bytes,
           Stream(ms)[n] ++ (t ++ z) = Stream(ms)[Len(ms)], t # << >>
    PROVE  /\ n < Len(ms) /\ n \in 0 .. Len(ms) - 1
           /\ \E y \in Bytes : t ++ z = Frame(ms[n+1]) ++ y
<1>0. Len(ms) \in Nat /\ n \in Nat /\ n <= Len(ms) /\ Len(ms) \in 0 .. Len(ms)
      OBVIOUS
<1>1. Stream(ms)[n] \in Bytes /\ Stream(ms)[Len(ms)] \in Bytes
      BY <1>0, StreamBytes
<1>2. Len(t) \in Nat \ {0}
      BY DEF Bytes
<1>3. n # Len(ms)
  <2> SUFFICES ASSUME n = Len(ms) PROVE FALSE
      OBVIOUS
  <2> DEFINE a == Stream(ms)[n]
  <2>1. a \in Bytes /\ a ++ (t ++ z) = a
        BY <1>1
  <2> HIDE DEF a
  <2>2. Len(a) = Len(a) + (Len(t) + Len(z)) /\ Len(a) \in Nat /\ Len(z) \in Nat
    <3>1. t ++ z \in Bytes /\ Len(t ++ z) = Len(t) + Len(z)
          BY BytesAlgebra
    <3>2. Len(a ++ (t ++ z)) = Len(a) + Len(t ++ z)
          BY <2>1, <3>1, BytesAlgebra
    <3>3. Len(a) \in Nat /\ Len(z) \in Nat
          BY <2>1, BytesAlgebra
    <3> QED BY <2>1, <3>1, <3>2, <3>3
  <2> QED BY <1>2, <2>2
<1>4. n < Len(ms) /\ n \in 0 .. Len(ms) - 1 /\ n + 1 \in 0 .. Len(ms) /\ Len(ms) \in n + 1 .. Len(ms)
      BY <1>0, <1>3
<1>5. PICK y \in Bytes : Stream(ms)[Len(ms)] = Stream(ms)[n+1] ++ y
      BY <1>4, StreamRest DEF Bytes, ++
<1>6. Frame(ms[n+1]) \in Bytes /\ Stream(ms)[n+1] = Stream(ms)[n] ++ Frame(ms[n+1])
      BY <1>4, StreamBytes
<1>7. Stream(ms)[n] ++ (t ++ z) = Stream(ms)[n] ++ (Frame(ms[n+1]) ++ y)
  <2>1. (Stream(ms)[n] ++ Frame(ms[n+1])) ++ y = Stream(ms)[n] ++ (Frame(ms[n+1]) ++ y)
        BY <1>1, <1>6, BytesAlgebra
  <2> QED BY <1>5, <1>6, <2>1
<1>8. t ++ z \in Bytes /\ Frame(ms[n+1]) ++ y \in Bytes
      BY <1>6, BytesAlgebra
<1>9. t ++ z = Frame(ms[n+1]) ++ y
      BY <1>1, <1>7, <1>8, BytesCancel
<1> QED BY <1>4, <1>9

--------------------------------------------------------------------------------
(* Types.                                                                  *)

LEMMA PrefixBytes ==
    ASSUME NEW n \in Nat
    PROVE  Prefix(n) \in Bytes /\ Len(Prefix(n)) = 2
<1>1. n % Base \in Nat /\ n \div Base \in Nat
      BY FramingAssumption
<1> QED BY <1>1 DEF Prefix, Bytes

LEMMA TypeInit == Init => FramingTypeOK
<1>1. << >> \in Seq(Nat) /\ << >> \in Seq(Seq(Nat)) /\ << >> \in Seq(Snapshots \cup Commands)
      OBVIOUS
<1>2. PrefixLen \in Nat
      BY DEF PrefixLen
<1> QED BY <1>1, <1>2, Zenon DEF Init, FramingTypeOK

LEMMA TypeStep == FramingTypeOK /\ [Next]_vars => FramingTypeOK'
<1> SUFFICES ASSUME FramingTypeOK, [Next]_vars PROVE FramingTypeOK'
    OBVIOUS
<1> USE DEF FramingTypeOK
<1>1. ASSUME NEW m \in Msg, WriteMsg(m) PROVE FramingTypeOK'
  <2>1. Frame(m) \in Seq(Nat)
        BY FrameFacts
  <2>2. Append(sent, m) \in Seq(Snapshots \cup Commands)
        BY AppendProperties DEF Msg
  <2> QED BY <1>1, <2>1, <2>2 DEF WriteMsg, readVars
<1>2. ASSUME NEW m, Oversized(m) PROVE FramingTypeOK'
      BY <1>2 DEF Oversized, readVars
<1>3. CASE WriteSome
  <2>1. PICK n \in Pieces : /\ n <= Len(rest)
                            /\ sock' = sock \o SubSeq(rest, 1, n)
                            /\ rest' = SubSeq(rest, n + 1, Len(rest))
        BY <1>3 DEF WriteSome
  <2>2. n \in 0 .. Len(rest)
        BY <2>1 DEF Pieces
  <2>3. rest \in Bytes /\ sock \in Bytes
        BY DEF Bytes
  <2>4. SubSeq(rest, 1, n) \in Bytes /\ SubSeq(rest, n + 1, Len(rest)) \in Bytes
        BY <2>2, <2>3, BytesSplit
  <2>5. sock \o SubSeq(rest, 1, n) \in Bytes
        BY <2>3, <2>4, ConcatProperties DEF Bytes
  <2>6. sock' \in Seq(Nat) /\ rest' \in Seq(Nat)
        BY <2>1, <2>4, <2>5 DEF Bytes
  <2> QED BY <1>3, <2>6 DEF WriteSome, readVars
<1>4. CASE WriteTimesOut
      BY <1>4 DEF WriteTimesOut, readVars
<1>5. CASE Close
      BY <1>5 DEF Close, readVars
<1>6. CASE Fill
  <2> DEFINE n == IF Len(sock) < BufCap THEN Len(sock) ELSE BufCap
  <2>1. n \in 0 .. Len(sock)
        BY FramingAssumption
  <2>2. buf' = SubSeq(sock, 1, n) /\ sock' = SubSeq(sock, n + 1, Len(sock))
        BY <1>6 DEF Fill
  <2>3. overrun' \in BOOLEAN
        BY <1>6 DEF Fill
  <2> HIDE DEF n
  <2>4. buf' \in Seq(Nat) /\ sock' \in Seq(Nat)
        BY <2>1, <2>2, SplitAt
  <2> QED BY <1>6, <2>3, <2>4 DEF Fill, writeVars
<1>7. CASE ReadExact
  <2> DEFINE n == IF Len(buf) < want - Len(part) THEN Len(buf) ELSE want - Len(part)
  <2>1. n \in 0 .. Len(buf)
        BY <1>7 DEF ReadExact
  <2>2. part' = part \o SubSeq(buf, 1, n) /\ buf' = SubSeq(buf, n + 1, Len(buf))
        BY <1>7 DEF ReadExact
  <2> HIDE DEF n
  <2>3. SubSeq(buf, 1, n) \in Seq(Nat) /\ buf' \in Seq(Nat)
        BY <2>1, <2>2, SplitAt
  <2>4. part' \in Seq(Nat)
        BY <2>2, <2>3, ConcatProperties
  <2> QED BY <1>7, <2>3, <2>4 DEF ReadExact, writeVars
<1>8. CASE PrefixRead
  <2>1. Len(part) = 2
        BY <1>8 DEF PrefixRead, PrefixLen
  <2>2. 1 \in 1 .. Len(part) /\ 2 \in 1 .. Len(part) /\ part \in Seq(Nat)
        BY <2>1
  <2>3. part[1] \in Nat /\ part[2] \in Nat
        BY <2>2, ElementOfSeq
  <2>4. \A j, k, b \in Nat : j + b * k \in Nat
    <3>1. \A k, b \in Nat : b * k \in Nat
          OBVIOUS
    <3>2. \A j, k \in Nat : j + k \in Nat
          OBVIOUS
    <3> QED BY <3>1, <3>2, Zenon
  <2>5. want' \in Nat
        BY <1>8, <2>3, <2>4, FramingAssumption DEF PrefixRead
  <2> QED BY <1>8, <2>5 DEF PrefixRead, writeVars
<1>9. CASE PayloadRead
  <2>1. got' \in Seq(Seq(Nat)) /\ buf' \in Seq(Nat) /\ want' = PrefixLen /\ want' \in Nat
        BY <1>9, AppendProperties DEF PayloadRead, PrefixLen
  <2> QED BY <1>9, <2>1 DEF PayloadRead, writeVars
<1>10. CASE ReadFails
       BY <1>10 DEF ReadFails, writeVars
<1>11. CASE UNCHANGED vars
       BY <1>11 DEF vars, writeVars, readVars
<1> QED BY <1>1, <1>2, <1>3, <1>4, <1>5, <1>6, <1>7, <1>8, <1>9, <1>10, <1>11
        DEF Next, Reader, Msg

Ahead == Taken ++ (sock ++ rest)

LEMMA TakenIs == Taken = Header ++ (part ++ buf)
BY DEF Taken, ++

LEMMA Parts ==
    ASSUME FramingTypeOK
    PROVE  /\ sent \in Seq(Msg) /\ Len(sent) \in Nat
           /\ Header \in Bytes /\ part \in Bytes /\ buf \in Bytes
           /\ sock \in Bytes /\ rest \in Bytes
           /\ Taken \in Bytes /\ Ahead \in Bytes
<1>1. /\ sent \in Seq(Msg) /\ Len(sent) \in Nat
      /\ part \in Bytes /\ buf \in Bytes /\ sock \in Bytes /\ rest \in Bytes
      BY DEF FramingTypeOK, Msg, Bytes
<1>2. Header \in Bytes
      BY PrefixBytes, BytesAlgebra DEF FramingTypeOK, Header
<1>3. Taken \in Bytes
      BY <1>1, <1>2, BytesAlgebra, TakenIs
<1>4. Ahead \in Bytes
      BY <1>1, <1>3, BytesAlgebra DEF Ahead
<1> QED BY <1>1, <1>2, <1>3, <1>4

--------------------------------------------------------------------------------
(* The reader and the stream.                                              *)

LEMMA Regroup ==
    ASSUME NEW h \in Bytes, NEW q \in Bytes, NEW b \in Bytes, NEW k \in Bytes, NEW z \in Bytes
    PROVE  /\ b ++ (k ++ z) \in Bytes /\ q ++ (b ++ (k ++ z)) \in Bytes
           /\ ((h ++ (q ++ b)) ++ k) ++ z = h ++ (q ++ (b ++ (k ++ z)))
<1>1. k ++ z \in Bytes /\ q ++ b \in Bytes
      BY BytesAlgebra
<1>2. b ++ (k ++ z) \in Bytes /\ h ++ (q ++ b) \in Bytes
      BY <1>1, BytesAlgebra
<1>3. q ++ (b ++ (k ++ z)) \in Bytes
      BY <1>2, BytesAlgebra
<1>4. ((h ++ (q ++ b)) ++ k) ++ z = (h ++ (q ++ b)) ++ (k ++ z)
      BY <1>2, BytesAlgebra
<1>5. (h ++ (q ++ b)) ++ (k ++ z) = h ++ ((q ++ b) ++ (k ++ z))
      BY <1>1, BytesAlgebra
<1>6. (q ++ b) ++ (k ++ z) = q ++ (b ++ (k ++ z))
      BY <1>1, BytesAlgebra
<1> QED BY <1>2, <1>3, <1>4, <1>5, <1>6

LEMMA CutFrame ==
    ASSUME NEW m \in Msg, NEW u \in Bytes, NEW v \in Bytes, NEW y \in Bytes,
           u ++ v = Frame(m) ++ y, Len(u) = 2
    PROVE  u = Prefix(Len(m)) /\ v = m ++ y
<1> DEFINE q == Prefix(Len(m))
<1>1. m \in Bytes /\ q \in Bytes /\ Len(q) = 2 /\ Frame(m) = q ++ m
      BY FrameFacts DEF Frame, Bytes, PrefixLen, ++
<1> HIDE DEF q
<1>2. u ++ v = q ++ (m ++ y) /\ m ++ y \in Bytes
  <2>1. (q ++ m) ++ y = q ++ (m ++ y) /\ m ++ y \in Bytes
        BY <1>1, BytesAlgebra
  <2> QED BY <1>1, <2>1
<1>3. u = q /\ v = m ++ y
      BY <1>1, <1>2, BytesCut
<1> QED BY <1>3 DEF q

\* What is ahead of the reader is missing z, and begins with the next frame.
LEMMA AheadIs ==
    ASSUME FramingTypeOK, NEW n \in 0 .. Len(sent), ReaderAt(n), Ahead # << >>
    PROVE  /\ n < Len(sent) /\ n \in 0 .. Len(sent) - 1
           /\ \E x, y \in Bytes : Header ++ (part ++ (buf ++ x)) = Frame(sent[n+1]) ++ y
<1>1. /\ sent \in Seq(Msg) /\ Len(sent) \in Nat /\ Ahead \in Bytes
      /\ Header \in Bytes /\ part \in Bytes /\ buf \in Bytes
      /\ sock \in Bytes /\ rest \in Bytes
      BY Parts
<1>2. Continues(sent, n, Ahead, writer = "run")
      BY DEF ReaderAt, Ahead, ++
<1>3. PICK z \in Bytes : Stream(sent)[n] ++ (Ahead ++ z) = Stream(sent)[Len(sent)]
  <2>1. (writer = "run") \in BOOLEAN
        OBVIOUS
  <2> QED BY <1>1, <1>2, <2>1, ContinuesIs
<1>4. /\ n < Len(sent) /\ n \in 0 .. Len(sent) - 1
      /\ \E y \in Bytes : Ahead ++ z = Frame(sent[n+1]) ++ y
      BY <1>1, <1>3, NextFrame
<1>5. sock ++ rest \in Bytes
      BY <1>1, BytesAlgebra
<1>6. Ahead ++ z = Header ++ (part ++ (buf ++ ((sock ++ rest) ++ z)))
  <2>1. ((Header ++ (part ++ buf)) ++ (sock ++ rest)) ++ z
          = Header ++ (part ++ (buf ++ ((sock ++ rest) ++ z)))
        BY <1>1, <1>3, <1>5, Regroup
  <2> QED BY <2>1, TakenIs DEF Ahead
<1>7. (sock ++ rest) ++ z \in Bytes
      BY <1>5, BytesAlgebra
<1> QED BY <1>4, <1>6, <1>7

LEMMA PrefixIsNext ==
    ASSUME FramingTypeOK, NEW n \in 0 .. Len(sent), ReaderAt(n), PrefixRead
    PROVE  /\ n < Len(sent) /\ n + 1 \in 1 .. Len(sent)
           /\ part = Prefix(Len(sent[n+1])) /\ want' = Len(sent[n+1])
<1>1. /\ sent \in Seq(Msg) /\ Len(sent) \in Nat /\ Ahead \in Bytes
      /\ part \in Bytes /\ buf \in Bytes /\ sock \in Bytes /\ rest \in Bytes
      BY Parts
<1>2. Len(part) = 2 /\ Header = << >>
      BY DEF PrefixRead, FramingTypeOK, PrefixLen, Header
<1>3. Ahead # << >>
  <2>1. Taken = part ++ buf /\ part ++ buf \in Bytes /\ Len(part ++ buf) = Len(part) + Len(buf)
        BY <1>1, <1>2, BytesAlgebra, TakenIs
  <2>2. sock ++ rest \in Bytes
        BY <1>1, BytesAlgebra
  <2>3. Len(Ahead) = Len(Taken) + Len(sock ++ rest) /\ Len(sock ++ rest) \in Nat
        BY <1>1, <2>1, <2>2, BytesAlgebra DEF Ahead
  <2>4. Len(buf) \in Nat
        BY <1>1, BytesAlgebra
  <2>5. Len(Ahead) # 0
        BY <1>2, <2>1, <2>3, <2>4
  <2> QED BY <2>5
<1>4. /\ n < Len(sent) /\ n \in 0 .. Len(sent) - 1
      /\ \E x, y \in Bytes : Header ++ (part ++ (buf ++ x)) = Frame(sent[n+1]) ++ y
      BY <1>3, AheadIs
<1>5. PICK x, y \in Bytes : Header ++ (part ++ (buf ++ x)) = Frame(sent[n+1]) ++ y
      BY <1>4
<1>6. buf ++ x \in Bytes /\ part ++ (buf ++ x) = Frame(sent[n+1]) ++ y
  <2>1. buf ++ x \in Bytes
        BY <1>1, BytesAlgebra
  <2>2. << >> ++ (part ++ (buf ++ x)) = part ++ (buf ++ x)
        BY <1>1, <2>1, BytesAlgebra
  <2> QED BY <1>2, <1>5, <2>1, <2>2
<1>7. sent[n+1] \in Msg /\ n + 1 \in 1 .. Len(sent) /\ Len(sent[n+1]) \in Nat
  <2>1. n + 1 \in 1 .. Len(sent)
        BY <1>1, <1>4
  <2>2. sent[n+1] \in Msg
        BY <1>1, <2>1, ElementOfSeq
  <2> QED BY <2>1, <2>2, FrameFacts
<1>8. part = Prefix(Len(sent[n+1]))
      BY <1>1, <1>2, <1>5, <1>6, <1>7, CutFrame
<1>9. want' = Len(sent[n+1])
  <2>1. want' = part[1] + Base * part[2]
        BY DEF PrefixRead
  <2> QED BY <1>7, <1>8, <2>1, PrefixDecodes
<1> QED BY <1>4, <1>7, <1>8, <1>9

LEMMA PayloadIsNext ==
    ASSUME FramingTypeOK, NEW n \in 0 .. Len(sent), ReaderAt(n), PayloadRead
    PROVE  /\ n < Len(sent) /\ n \in 0 .. Len(sent) - 1
           /\ part = sent[n+1]
           /\ Taken = Frame(sent[n+1]) ++ buf /\ Taken # << >>
           /\ Stream(sent)[n] ++ Taken = Stream(sent)[n+1] ++ buf
<1>1. /\ sent \in Seq(Msg) /\ Len(sent) \in Nat /\ Ahead \in Bytes /\ Taken \in Bytes
      /\ Header \in Bytes
      /\ part \in Bytes /\ buf \in Bytes /\ sock \in Bytes /\ rest \in Bytes
      BY Parts
<1>2. /\ n < Len(sent) /\ n \in 0 .. Len(sent) - 1
      /\ want = Len(sent[n+1]) /\ Len(part) = want
      /\ Header = Prefix(Len(sent[n+1]))
      BY <1>1 DEF PayloadRead, ReaderAt, Header
<1>3. sent[n+1] \in Msg /\ sent[n+1] \in Bytes /\ Frame(sent[n+1]) \in Bytes /\ Len(Header) = 2
      BY <1>1, <1>2, StreamBytes
<1>4. Taken # << >> /\ Ahead # << >>
  <2>1. part ++ buf \in Bytes /\ sock ++ rest \in Bytes
        BY <1>1, BytesAlgebra
  <2>2. Len(Taken) = Len(Header) + Len(part ++ buf) /\ Len(part ++ buf) \in Nat
        BY <1>1, <2>1, BytesAlgebra, TakenIs
  <2>3. Len(Ahead) = Len(Taken) + Len(sock ++ rest) /\ Len(sock ++ rest) \in Nat
        BY <1>1, <2>1, BytesAlgebra DEF Ahead
  <2>4. Len(Taken) # 0 /\ Len(Ahead) # 0
        BY <1>3, <2>2, <2>3
  <2> QED BY <2>4
<1>5. PICK x, y \in Bytes : Header ++ (part ++ (buf ++ x)) = Frame(sent[n+1]) ++ y
      BY <1>4, AheadIs
<1>6. buf ++ x \in Bytes /\ part ++ (buf ++ x) \in Bytes
      BY <1>1, BytesAlgebra
<1>7. part ++ (buf ++ x) = sent[n+1] ++ y
      BY <1>1, <1>3, <1>5, <1>6, CutFrame
<1>8. part = sent[n+1]
      BY <1>1, <1>2, <1>3, <1>5, <1>6, <1>7, BytesCut
<1>9. Taken = Frame(sent[n+1]) ++ buf
  <2>1. Header ++ part = Frame(sent[n+1])
        BY <1>2, <1>8 DEF Frame, ++
  <2>2. Header ++ (part ++ buf) = (Header ++ part) ++ buf
        BY <1>1, BytesAlgebra
  <2> QED BY <2>1, <2>2, TakenIs
<1>10. Stream(sent)[n] ++ Taken = Stream(sent)[n+1] ++ buf
  <2>1. Stream(sent)[n] \in Bytes /\ Stream(sent)[n+1] = Stream(sent)[n] ++ Frame(sent[n+1])
        BY <1>1, <1>2, StreamBytes
  <2>2. (Stream(sent)[n] ++ Frame(sent[n+1])) ++ buf = Stream(sent)[n] ++ (Frame(sent[n+1]) ++ buf)
        BY <1>1, <1>3, <2>1, BytesAssoc
  <2> QED BY <1>9, <2>1, <2>2
<1> QED BY <1>2, <1>4, <1>8, <1>9, <1>10

LEMMA Primed ==
    ASSUME FramingTypeOK'
    PROVE  /\ sent' \in Seq(Msg) /\ Len(sent') \in Nat
           /\ Header' \in Bytes /\ part' \in Bytes /\ buf' \in Bytes
           /\ sock' \in Bytes /\ rest' \in Bytes
           /\ Taken' \in Bytes /\ Ahead' \in Bytes
           /\ Taken' = Header' ++ (part' ++ buf') /\ Ahead' = Taken' ++ (sock' ++ rest')
<1>1. /\ sent' \in Seq(Msg) /\ Len(sent') \in Nat
      /\ part' \in Bytes /\ buf' \in Bytes /\ sock' \in Bytes /\ rest' \in Bytes
      BY DEF FramingTypeOK, Msg, Bytes
<1>2. Header' \in Bytes
      BY PrefixBytes, BytesAlgebra DEF FramingTypeOK, Header
<1>3. Taken' = Header' ++ (part' ++ buf') /\ Ahead' = Taken' ++ (sock' ++ rest')
      BY DEF Taken, Ahead, ++
<1>4. Taken' \in Bytes
      BY <1>1, <1>2, <1>3, BytesAlgebra
<1>5. Ahead' \in Bytes
      BY <1>1, <1>3, <1>4, BytesAlgebra
<1> QED BY <1>1, <1>2, <1>3, <1>4, <1>5

\* One fill moves bytes from the socket to what the reader has taken.
LEMMA FillMoves ==
    ASSUME FramingTypeOK, FramingTypeOK', Fill
    PROVE  /\ Taken' ++ sock' = Taken ++ sock /\ Ahead' = Ahead /\ buf' # << >>
           /\ Taken = Header ++ part /\ Taken' = Taken ++ buf'
<1>1. /\ Header \in Bytes /\ part \in Bytes /\ sock \in Bytes /\ rest \in Bytes
      /\ sock # << >> /\ buf = << >>
      BY Parts DEF Fill
<1>2. buf' \in Bytes /\ sock' \in Bytes /\ Taken' = Header' ++ (part' ++ buf')
      BY Primed
<1>3. Header' = Header /\ part' = part /\ rest' = rest
      BY DEF Fill, Header, writeVars
<1>4. buf' ++ sock' = sock /\ buf' # << >>
  <2> DEFINE n == IF Len(sock) < BufCap THEN Len(sock) ELSE BufCap
  <2>1. Len(sock) \in Nat \ {0}
        BY <1>1 DEF Bytes
  <2>2. n \in 0 .. Len(sock) /\ n # 0
        BY <2>1, FramingAssumption
  <2>3. buf' = SubSeq(sock, 1, n) /\ sock' = SubSeq(sock, n + 1, Len(sock))
        BY DEF Fill
  <2> HIDE DEF n
  <2>4. buf' ++ sock' = sock /\ Len(buf') = n
        BY <1>1, <2>2, <2>3, BytesSplit
  <2> QED BY <2>2, <2>4, <1>2, BytesEmpty
<1> DEFINE u == Header ++ part
<1>5. u \in Bytes /\ Taken = u /\ Taken' = u ++ buf'
  <2>1. u \in Bytes /\ part ++ << >> = part
        BY <1>1, BytesAlgebra
  <2>2. Header ++ (part ++ buf') = u ++ buf'
        BY <1>1, <1>2, BytesAlgebra
  <2>3. Taken = u
        BY <1>1, <2>1, TakenIs
  <2> QED BY <1>2, <1>3, <2>1, <2>2, <2>3
<1> HIDE DEF u
<1>6. (u ++ buf') ++ sock' = u ++ sock
      BY <1>2, <1>4, <1>5, BytesAssoc
<1>7. (u ++ buf') ++ (sock' ++ rest) = u ++ (sock ++ rest)
  <2>1. sock' ++ rest \in Bytes /\ buf' ++ (sock' ++ rest) = (buf' ++ sock') ++ rest
        BY <1>1, <1>2, BytesAlgebra
  <2>2. (u ++ buf') ++ (sock' ++ rest) = u ++ (buf' ++ (sock' ++ rest))
        BY <1>2, <1>5, <2>1, BytesAssoc
  <2> QED BY <1>4, <2>1, <2>2
<1>8. Ahead' = Ahead
      BY <1>3, <1>5, <1>7, Primed DEF Ahead
<1> QED BY <1>4, <1>5, <1>6, <1>8 DEF u

LEMMA ReadMoves ==
    ASSUME FramingTypeOK, FramingTypeOK', ReadExact
    PROVE  Taken' = Taken /\ Ahead' = Ahead
<1>1. Header \in Bytes /\ part \in Bytes /\ buf \in Bytes
      BY Parts
<1>2. /\ buf' \in Bytes /\ Taken' = Header' ++ (part' ++ buf')
      /\ Ahead' = Taken' ++ (sock' ++ rest')
      BY Primed
<1>3. Header' = Header /\ sock' = sock /\ rest' = rest
      BY DEF ReadExact, Header, writeVars
<1>4. \E c \in Bytes : part' = part ++ c /\ c ++ buf' = buf
  <2> DEFINE n == IF Len(buf) < want - Len(part) THEN Len(buf) ELSE want - Len(part)
  <2>1. n \in 0 .. Len(buf)
        BY DEF ReadExact, FramingTypeOK
  <2>2. part' = part ++ SubSeq(buf, 1, n) /\ buf' = SubSeq(buf, n + 1, Len(buf))
        BY DEF ReadExact, ++
  <2> HIDE DEF n
  <2>3. SubSeq(buf, 1, n) \in Bytes /\ SubSeq(buf, 1, n) ++ buf' = buf
        BY <1>1, <2>1, <2>2, BytesSplit
  <2> QED BY <2>2, <2>3
<1>5. PICK c \in Bytes : part' = part ++ c /\ c ++ buf' = buf
      BY <1>4
<1>6. (part ++ c) ++ buf' = part ++ (c ++ buf')
      BY <1>1, <1>2, BytesAssoc
<1>7. Taken' = Taken
      BY <1>2, <1>3, <1>5, <1>6, TakenIs
<1> QED BY <1>2, <1>3, <1>7 DEF Ahead

LEMMA PrefixMoves ==
    ASSUME FramingTypeOK, FramingTypeOK', PrefixRead, NEW n \in 0 .. Len(sent), ReaderAt(n)
    PROVE  Taken' = Taken /\ Ahead' = Ahead
<1>1. part \in Bytes /\ buf \in Bytes
      BY Parts
<1>2. Taken' = Header' ++ (part' ++ buf') /\ Ahead' = Taken' ++ (sock' ++ rest')
      BY Primed
<1>3. Header = << >> /\ part' = << >> /\ buf' = buf /\ sock' = sock /\ rest' = rest
      BY DEF PrefixRead, Header, writeVars
<1>4. Header' = part
  <2>1. Header' = Prefix(want')
        BY DEF PrefixRead, Header
  <2>2. part = Prefix(Len(sent[n+1])) /\ want' = Len(sent[n+1])
        BY PrefixIsNext
  <2> QED BY <2>1, <2>2
<1>5. << >> ++ (part ++ buf) = part ++ buf /\ << >> ++ buf = buf
      BY <1>1, BytesAlgebra
<1>6. Taken' = Taken
      BY <1>2, <1>3, <1>4, <1>5, TakenIs
<1> QED BY <1>2, <1>3, <1>6 DEF Ahead

LEMMA WriteMoves ==
    ASSUME FramingTypeOK, FramingTypeOK', WriteSome
    PROVE  /\ Taken' = Taken /\ Ahead' = Ahead
           /\ dir = "commands" => rest' = << >> /\ sock' = sock ++ rest
<1>1. Taken \in Bytes /\ sock \in Bytes /\ rest \in Bytes
      BY Parts
<1>2. rest' \in Bytes /\ Ahead' = Taken' ++ (sock' ++ rest')
      BY Primed
<1>3. Taken' = Taken
      BY DEF WriteSome, readVars, Taken, Header
<1>4. PICK n \in Pieces : /\ n <= Len(rest)
                          /\ sock' = sock ++ SubSeq(rest, 1, n)
                          /\ rest' = SubSeq(rest, n + 1, Len(rest))
      BY DEF WriteSome, ++
<1>5. n \in 0 .. Len(rest)
      BY <1>1, <1>4 DEF Pieces, Bytes
<1>6. SubSeq(rest, 1, n) \in Bytes /\ SubSeq(rest, 1, n) ++ rest' = rest
      BY <1>1, <1>4, <1>5, BytesSplit
<1>7. sock' ++ rest' = sock ++ rest
  <2>1. (sock ++ SubSeq(rest, 1, n)) ++ rest' = sock ++ (SubSeq(rest, 1, n) ++ rest')
        BY <1>1, <1>2, <1>6, BytesAssoc
  <2> QED BY <1>4, <1>6, <2>1
<1>8. dir = "commands" => rest' = << >> /\ sock' = sock ++ rest
  <2> SUFFICES ASSUME dir = "commands" PROVE rest' = << >> /\ sock' = sock ++ rest
      OBVIOUS
  <2>1. n = Len(rest)
        BY <1>4 DEF Pieces
  <2>2. SubSeq(rest, 1, n) = rest /\ SubSeq(rest, n + 1, Len(rest)) = << >>
        BY <1>1, <1>5, <2>1, BytesSplit
  <2> QED BY <1>4, <2>2
<1> QED BY <1>2, <1>3, <1>7, <1>8 DEF Ahead

\* A writer that stops leaves out bytes at the end.
LEMMA ContinuesLess ==
    ASSUME NEW ms \in Seq(Msg), NEW n \in 0 .. Len(ms), NEW all \in BOOLEAN,
           NEW t \in Bytes, NEW r \in Bytes, Continues(ms, n, t ++ r, all)
    PROVE  Continues(ms, n, t, FALSE)
<1>1. t ++ r \in Bytes
      BY BytesAlgebra
<1>2. PICK z \in Bytes : Stream(ms)[n] \o ((t ++ r) \o z) = Stream(ms)[Len(ms)]
      BY <1>1, ContinuesIs DEF ++
<1>3. r ++ z \in Bytes /\ (t ++ r) ++ z = t ++ (r ++ z)
      BY BytesAlgebra
<1>4. Stream(ms)[n] ++ (t ++ (r ++ z)) = Stream(ms)[Len(ms)]
  <2>1. Stream(ms)[n] ++ ((t ++ r) ++ z) = Stream(ms)[Len(ms)]
        BY <1>2 DEF ++
  <2> QED BY <1>3, <2>1
<1> QED BY <1>3, <1>4, ContinuesIs

\* One more message is one more frame.
LEMMA ContinuesMore ==
    ASSUME NEW ms \in Seq(Msg), NEW n \in 0 .. Len(ms), NEW m \in Msg,
           NEW t \in Bytes, Continues(ms, n, t, TRUE)
    PROVE  Continues(Append(ms, m), n, t ++ Frame(m), TRUE)
<1> DEFINE ns == Append(ms, m)
<1>1. /\ ns \in Seq(Msg) /\ Len(ns) = Len(ms) + 1 /\ Len(ms) \in Nat
      /\ n \in 0 .. Len(ns) /\ Len(ms) \in 0 .. Len(ms)
      BY AppendProperties
<1>2. Stream(ns)[n] = Stream(ms)[n] /\ Stream(ns)[Len(ns)] = Stream(ms)[Len(ms)] ++ Frame(m)
      BY <1>1, StreamAppend DEF ++
<1>3. Stream(ms)[n] ++ t = Stream(ms)[Len(ms)]
      BY DEF Continues, ++
<1>4. Frame(m) \in Bytes /\ Stream(ms)[n] \in Bytes
      BY <1>1, FrameFacts, StreamBytes DEF Bytes
<1> HIDE DEF ns
<1>5. (Stream(ms)[n] ++ t) ++ Frame(m) = Stream(ms)[n] ++ (t ++ Frame(m))
      BY <1>4, BytesAssoc
<1>6. t ++ Frame(m) \in Bytes /\ (t ++ Frame(m)) ++ << >> = t ++ Frame(m) /\ << >> \in Bytes
      BY <1>4, BytesAlgebra
<1>7. Stream(ns)[n] ++ ((t ++ Frame(m)) ++ << >>) = Stream(ns)[Len(ns)]
      BY <1>2, <1>3, <1>5, <1>6
<1>8. Continues(ns, n, t ++ Frame(m), TRUE)
      BY <1>1, <1>6, <1>7, ContinuesIs
<1> QED BY <1>8 DEF ns

LEMMA ReaderAtIs ==
    ASSUME NEW n
    PROVE  ReaderAt(n) <=>
             /\ Continues(sent, n, Ahead, writer = "run")
             /\ stage = "payload" => n < Len(sent) /\ want = Len(sent[n + 1])
BY DEF ReaderAt, Ahead, ++

LEMMA ReaderAtPrimed ==
    ASSUME NEW n
    PROVE  ReaderAt(n)' <=>
             /\ Continues(sent', n, Ahead', writer' = "run")
             /\ stage' = "payload" => n < Len(sent') /\ want' = Len(sent'[n + 1])
BY DEF ReaderAt, Ahead, ++, Continues, IsPrefix, Stream

\* The reader stays where it is until it has decoded a message.
LEMMA ReaderStays ==
    ASSUME FramingTypeOK, FramingTypeOK', [Next]_vars, ~PayloadRead,
           NEW n \in 0 .. Len(sent), ReaderAt(n)
    PROVE  ReaderAt(n)'
<1>1. /\ Continues(sent, n, Ahead, writer = "run")
      /\ stage = "payload" => n < Len(sent) /\ want = Len(sent[n + 1])
      BY ReaderAtIs
<1>2. /\ sent \in Seq(Msg) /\ Len(sent) \in Nat /\ Taken \in Bytes
      /\ sock \in Bytes /\ rest \in Bytes /\ Ahead = Taken ++ (sock ++ rest)
      BY Parts DEF Ahead
<1>3. Ahead' = Taken' ++ (sock' ++ rest')
      BY Primed
<1>4. ASSUME NEW m \in Msg, WriteMsg(m) PROVE ReaderAt(n)'
  <2>1. /\ writer = "run" /\ writer' = "run" /\ rest = << >> /\ rest' = Frame(m)
        /\ sent' = Append(sent, m) /\ sock' = sock /\ Taken' = Taken
        /\ stage' = stage /\ want' = want
        BY <1>4 DEF WriteMsg, readVars, Taken, Header
  <2>2. sock ++ rest \in Bytes /\ Ahead \in Bytes /\ sock ++ rest = sock
        BY <1>2, <2>1, BytesAlgebra
  <2>3. Frame(m) \in Bytes
        BY FrameFacts DEF Bytes
  <2>4. Ahead' = Ahead ++ Frame(m)
    <3>1. (Taken ++ sock) ++ Frame(m) = Taken ++ (sock ++ Frame(m))
          BY <1>2, <2>3, BytesAssoc
    <3> QED BY <1>2, <1>3, <2>1, <2>2, <3>1
  <2>5. Continues(sent, n, Ahead, TRUE)
        BY <1>1, <2>1 DEF Continues
  <2>6. Continues(sent', n, Ahead', TRUE)
        BY <1>2, <2>1, <2>2, <2>4, <2>5, ContinuesMore
  <2>7. Continues(sent', n, Ahead', writer' = "run")
        BY <2>6 DEF Continues
  <2>8. stage' = "payload" => n < Len(sent') /\ want' = Len(sent'[n + 1])
    <3> SUFFICES ASSUME stage' = "payload"
                 PROVE  n < Len(sent') /\ want' = Len(sent'[n + 1])
        OBVIOUS
    <3>1. n < Len(sent) /\ want = Len(sent[n + 1]) /\ n + 1 \in 1 .. Len(sent)
          BY <1>1, <1>2, <2>1
    <3>2. sent'[n + 1] = sent[n + 1] /\ Len(sent') = Len(sent) + 1
          BY <1>2, <2>1, <3>1, AppendProperties
    <3> QED BY <1>2, <2>1, <3>1, <3>2
  <2> QED BY <2>7, <2>8, ReaderAtPrimed
<1>5. ASSUME sent' = sent, Ahead' = Ahead, writer' = writer,
             stage' = "payload" => n < Len(sent) /\ want' = Len(sent[n + 1])
      PROVE  ReaderAt(n)'
  <2>1. Continues(sent', n, Ahead', writer' = "run")
        BY <1>1, <1>5
  <2> QED BY <1>5, <2>1, ReaderAtPrimed
<1>6. ASSUME sent' = sent, Taken' = Taken, sock' = sock, rest' = << >>, writer' = "ended",
             stage' = stage, want' = want
      PROVE  ReaderAt(n)'
  <2>1. Ahead' = Taken ++ sock /\ Taken ++ sock \in Bytes
        BY <1>2, <1>3, <1>6, BytesAlgebra
  <2>2. Ahead = (Taken ++ sock) ++ rest
        BY <1>2, BytesAssoc
  <2>3. Continues(sent, n, Ahead', FALSE)
    <3>1. Continues(sent, n, (Taken ++ sock) ++ rest, writer = "run")
          BY <1>1, <2>2
    <3>2. Continues(sent, n, (Taken ++ sock) ++ rest, FALSE)
          BY <3>1 DEF Continues
    <3>3. Continues(sent, n, Taken ++ sock, FALSE)
          BY <1>2, <2>1, <3>2, ContinuesLess
    <3> QED BY <2>1, <3>3
  <2>4. Continues(sent', n, Ahead', writer' = "run")
        BY <1>6, <2>3 DEF Continues
  <2> QED BY <1>1, <1>6, <2>4, ReaderAtPrimed
<1>7. ASSUME NEW m, Oversized(m) PROVE ReaderAt(n)'
  <2>1. /\ sent' = sent /\ Taken' = Taken /\ sock' = sock /\ rest' = << >>
        /\ writer' = "ended" /\ stage' = stage /\ want' = want
        BY <1>7 DEF Oversized, readVars, Taken, Header
  <2> QED BY <1>6, <2>1
<1>8. CASE WriteTimesOut
  <2>1. /\ sent' = sent /\ Taken' = Taken /\ sock' = sock /\ rest' = << >>
        /\ writer' = "ended" /\ stage' = stage /\ want' = want
        BY <1>8 DEF WriteTimesOut, readVars, Taken, Header
  <2> QED BY <1>6, <2>1
<1>9. CASE Close
  <2>1. /\ sent' = sent /\ Taken' = Taken /\ sock' = sock /\ rest' = << >>
        /\ writer' = "ended" /\ stage' = stage /\ want' = want
        BY <1>9 DEF Close, readVars, Taken, Header
  <2> QED BY <1>6, <2>1
<1>10. CASE WriteSome
  <2>1. sent' = sent /\ writer' = writer /\ stage' = stage /\ want' = want
        BY <1>10 DEF WriteSome, readVars
  <2> QED BY <1>1, <1>5, <1>10, <2>1, WriteMoves
<1>11. CASE Fill
  <2>1. sent' = sent /\ writer' = writer /\ stage' = stage /\ want' = want
        BY <1>11 DEF Fill, writeVars
  <2> QED BY <1>1, <1>5, <1>11, <2>1, FillMoves
<1>12. CASE ReadExact
  <2>1. sent' = sent /\ writer' = writer /\ stage' = stage /\ want' = want
        BY <1>12 DEF ReadExact, writeVars
  <2> QED BY <1>1, <1>5, <1>12, <2>1, ReadMoves
<1>13. CASE PrefixRead
  <2>1. sent' = sent /\ writer' = writer
        BY <1>13 DEF PrefixRead, writeVars
  <2> QED BY <1>5, <1>13, <2>1, PrefixMoves, PrefixIsNext
<1>14. CASE ReadFails \/ UNCHANGED vars
  <2>1. /\ sent' = sent /\ writer' = writer /\ stage' = stage /\ want' = want
        /\ Taken' = Taken /\ sock' = sock /\ rest' = rest
        BY <1>14 DEF ReadFails, writeVars, vars, readVars, Taken, Header
  <2>2. Ahead' = Ahead
        BY <1>2, <1>3, <2>1
  <2> QED BY <1>1, <1>5, <2>1, <2>2
<1> QED BY <1>4, <1>7, <1>8, <1>9, <1>10, <1>11, <1>12, <1>13, <1>14
        DEF Next, Reader, Msg

--------------------------------------------------------------------------------
(* Snapshots.                                                              *)

\* A step that decodes nothing leaves what was decoded, and what was sent is only
\* added to.
LEMMA SentGrows ==
    ASSUME FramingTypeOK, [Next]_vars
    PROVE  /\ dir' = dir
           /\ Len(sent) \in Nat /\ Len(sent') \in Nat /\ Len(sent) <= Len(sent')
           /\ \A i \in 1 .. Len(sent) : sent'[i] = sent[i]
           /\ \A i \in 0 .. Len(sent) : Stream(sent')[i] = Stream(sent)[i]
           /\ ~PayloadRead => got' = got
           /\ ~overrun' => ~overrun
<1>1. sent \in Seq(Msg) /\ Len(sent) \in Nat
      BY Parts
<1>2. dir' = dir /\ (~PayloadRead => got' = got)
      BY DEF Next, Reader, vars, writeVars, readVars, WriteMsg, Oversized, WriteSome,
             WriteTimesOut, Close, Fill, ReadExact, PrefixRead, PayloadRead, ReadFails
<1>3. ~overrun' => ~overrun
      BY DEF Next, Reader, vars, writeVars, readVars, WriteMsg, Oversized, WriteSome,
             WriteTimesOut, Close, Fill, ReadExact, PrefixRead, PayloadRead, ReadFails
<1>4. sent' = sent \/ \E m \in Msg : sent' = Append(sent, m)
      BY DEF Next, Reader, vars, writeVars, readVars, WriteMsg, Oversized, WriteSome,
             WriteTimesOut, Close, Fill, ReadExact, PrefixRead, PayloadRead, ReadFails, Msg
<1>5. CASE sent' = sent
      BY <1>1, <1>2, <1>3, <1>5
<1>6. CASE \E m \in Msg : sent' = Append(sent, m)
  <2>1. PICK m \in Msg : sent' = Append(sent, m)
        BY <1>6
  <2>2. Len(sent') = Len(sent) + 1 /\ \A i \in 1 .. Len(sent) : sent'[i] = sent[i]
        BY <1>1, <2>1, AppendProperties
  <2>3. \A i \in 0 .. Len(sent) : Stream(sent')[i] = Stream(sent)[i]
        BY <1>1, <2>1, StreamAppend
  <2> QED BY <1>1, <1>2, <1>3, <2>2, <2>3
<1> QED BY <1>4, <1>5, <1>6

\* The same bytes, counted from another message.
LEMMA ContinuesFrom ==
    ASSUME NEW ms \in Seq(Msg), NEW n \in 0 .. Len(ms), NEW k \in 0 .. Len(ms), NEW all,
           NEW t \in Bytes, NEW x \in Bytes, NEW r \in Bytes,
           Stream(ms)[n] ++ t = Stream(ms)[k] ++ x, Continues(ms, n, t ++ r, all)
    PROVE  Continues(ms, k, x ++ r, all)
<1>1. Stream(ms)[n] \in Bytes /\ Stream(ms)[k] \in Bytes
      BY StreamBytes
<1>2. /\ (Stream(ms)[n] ++ t) ++ r = Stream(ms)[n] ++ (t ++ r)
      /\ (Stream(ms)[k] ++ x) ++ r = Stream(ms)[k] ++ (x ++ r)
      BY <1>1, BytesAssoc
<1>3. Stream(ms)[n] ++ (t ++ r) = Stream(ms)[k] ++ (x ++ r)
      BY <1>2
<1>4. \A i, b, a : Continues(ms, i, b, a) <=>
         /\ IsPrefix(Stream(ms)[i] ++ b, Stream(ms)[Len(ms)])
         /\ a => Stream(ms)[i] ++ b = Stream(ms)[Len(ms)]
      BY DEF Continues, ++
<1> QED BY <1>3, <1>4

\* Once a message is decoded the reader is done with it.
LEMMA ReaderAdvances ==
    ASSUME FramingTypeOK, FramingTypeOK', PayloadRead, NEW n \in 0 .. Len(sent), ReaderAt(n),
           NEW k \in 0 .. Len(sent), Stream(sent)[n] ++ Taken = Stream(sent)[k] ++ buf'
    PROVE  ReaderAt(k)' /\ Taken' = buf'
<1>1. /\ sent \in Seq(Msg) /\ Taken \in Bytes /\ sock \in Bytes /\ rest \in Bytes
      /\ Ahead = Taken ++ (sock ++ rest)
      BY Parts DEF Ahead
<1>2. buf' \in Bytes /\ Taken' = Header' ++ (part' ++ buf') /\ Ahead' = Taken' ++ (sock' ++ rest')
      BY Primed
<1>3. /\ sent' = sent /\ sock' = sock /\ rest' = rest /\ writer' = writer
      /\ stage' = "prefix" /\ Header' = << >> /\ part' = << >>
      BY DEF PayloadRead, writeVars, Header
<1>4. Taken' = buf'
      BY <1>2, <1>3, BytesAlgebra
<1>5. sock ++ rest \in Bytes
      BY <1>1, BytesAlgebra
<1>6. Continues(sent, n, Taken ++ (sock ++ rest), writer = "run")
      BY <1>1, ReaderAtIs
<1>7. Continues(sent, k, buf' ++ (sock ++ rest), writer = "run")
      BY <1>1, <1>2, <1>5, <1>6, ContinuesFrom
<1>8. Continues(sent', k, Ahead', writer' = "run")
      BY <1>2, <1>3, <1>4, <1>7
<1> QED BY <1>3, <1>4, <1>8, ReaderAtPrimed

LEMMA SnapshotsStep ==
    ASSUME FramingTypeOK, FramingTypeOK', [Next]_vars, SnapshotsFollow
    PROVE  SnapshotsFollow'
<1> SUFFICES ASSUME dir = "snapshots"
             PROVE  \E k \in 0 .. Len(sent') :
                      ReaderAt(k)' /\ Len(got') = k /\ \A i \in 1 .. k : got'[i] = sent'[i]
    BY SentGrows DEF SnapshotsFollow
<1>1. PICK n \in 0 .. Len(sent) :
        ReaderAt(n) /\ Len(got) = n /\ \A i \in 1 .. n : got[i] = sent[i]
      BY DEF SnapshotsFollow
<1>2. n \in Nat /\ n <= Len(sent) /\ got \in Seq(Seq(Nat)) /\ Len(sent) \in Nat
      BY Parts DEF FramingTypeOK
<1>3. CASE ~PayloadRead
  <2>1. got' = got
        BY <1>3, SentGrows
  <2>2. ReaderAt(n)'
        BY <1>1, <1>3, ReaderStays
  <2>3. n \in 0 .. Len(sent') /\ \A i \in 1 .. n : sent'[i] = sent[i]
        BY <1>2, SentGrows
  <2> QED BY <1>1, <2>1, <2>2, <2>3
<1>4. CASE PayloadRead
  <2>1. /\ n \in 0 .. Len(sent) - 1 /\ part = sent[n+1]
        /\ Stream(sent)[n] ++ Taken = Stream(sent)[n+1] ++ buf
        BY <1>1, <1>4, PayloadIsNext
  <2>2. buf' = buf /\ got' = Append(got, part) /\ sent' = sent
        BY <1>4 DEF PayloadRead, writeVars
  <2>3. n + 1 \in 0 .. Len(sent')
        BY <1>2, <2>1, <2>2
  <2>4. ReaderAt(n + 1)'
        BY <1>1, <1>4, <2>1, <2>2, <2>3, ReaderAdvances
  <2>5. /\ Len(got') = n + 1 /\ got'[n + 1] = part
        /\ \A i \in 1 .. n : got'[i] = got[i]
    <3>1. part \in Seq(Nat)
          BY DEF FramingTypeOK
    <3> QED BY <1>1, <1>2, <2>2, <3>1, AppendProperties
  <2>6. \A i \in 1 .. n + 1 : got'[i] = sent'[i]
        BY <1>1, <1>2, <2>1, <2>2, <2>5
  <2> QED BY <2>3, <2>4, <2>5, <2>6
<1> QED BY <1>3, <1>4

--------------------------------------------------------------------------------
(* Commands.                                                               *)

LEMMA WholeIs ==
    ASSUME NEW n
    PROVE  /\ WholeCommands(n) <=>
                /\ \E w \in 0 .. Len(sent) : Stream(sent)[n] ++ (Taken ++ sock) = Stream(sent)[w]
                /\ got = << >> /\ Taken # << >> =>
                      \E m \in 1 .. Len(sent) : Taken = Stream(sent)[m]
           /\ WholeCommands(n)' <=>
                /\ \E w \in 0 .. Len(sent') :
                      Stream(sent')[n] ++ (Taken' ++ sock') = Stream(sent')[w]
                /\ got' = << >> /\ Taken' # << >> =>
                      \E m \in 1 .. Len(sent') : Taken' = Stream(sent')[m]
BY DEF WholeCommands, ++, Stream

\* Nothing that is being read is as long as the first frame.
LEMMA FirstIsLonger ==
    ASSUME FramingTypeOK, ReaderAt(0), Len(part) < want, Taken = Header ++ part,
           NEW m \in 1 .. Len(sent)
    PROVE  Taken # Stream(sent)[m]
<1>1. sent \in Seq(Msg) /\ Len(sent) \in Nat /\ Header \in Bytes /\ part \in Bytes
      BY Parts
<1>2. /\ 0 \in 0 .. Len(sent) - 1 /\ 1 \in 0 .. Len(sent) /\ m \in 1 .. Len(sent)
      /\ 1 \in 1 .. Len(sent) /\ 0 + 1 = 1
      BY <1>1
<1>3. /\ Stream(sent)[0] = << >> /\ Frame(sent[1]) \in Bytes
      /\ Stream(sent)[1] = Stream(sent)[0] ++ Frame(sent[1])
  <2>1. \A i \in 0 .. Len(sent) - 1 : \A j : j = i + 1 =>
           Frame(sent[j]) \in Bytes /\ Stream(sent)[j] = Stream(sent)[i] ++ Frame(sent[j])
        BY <1>1, StreamBytes
  <2> QED BY <1>1, <1>2, <2>1, StreamBytes
<1>4. Stream(sent)[1] = Frame(sent[1])
      BY <1>3, BytesAlgebra
<1>5. Len(Frame(sent[1])) = 2 + Len(sent[1]) /\ Len(sent[1]) \in Nat
  <2>1. sent[1] \in Msg
        BY <1>1, <1>2, ElementOfSeq
  <2> QED BY <2>1, FrameFacts
<1>6. PICK y \in Bytes : Stream(sent)[m] = Frame(sent[1]) ++ y
  <2>1. \E y \in Seq(Nat) : Stream(sent)[m] = Stream(sent)[1] \o y
        BY <1>1, <1>2, StreamRest
  <2> QED BY <1>4, <2>1 DEF Bytes, ++
<1>7. Len(Stream(sent)[m]) = Len(Frame(sent[1])) + Len(y) /\ Len(y) \in Nat
      BY <1>3, <1>6, BytesAlgebra
<1>8. Len(Taken) = Len(Header) + Len(part) /\ Len(part) \in Nat
      BY <1>1, BytesAlgebra
<1>9. Len(Header) + want <= 2 + Len(sent[1]) /\ Len(Header) \in Nat /\ want \in Nat
  <2>1. want \in Nat
        BY DEF FramingTypeOK
  <2>2. CASE stage = "prefix"
    <3>1. want = 2 /\ Header = << >>
          BY <2>2 DEF FramingTypeOK, PrefixLen, Header
    <3>2. Len(Header) = 0
          BY <1>1, <3>1, BytesEmpty
    <3> QED BY <1>5, <3>1, <3>2
  <2>3. CASE stage = "payload"
    <3>1. want = Len(sent[1])
          BY <2>3 DEF ReaderAt
    <3>2. Len(Header) = 2
          BY <2>1, <2>3, PrefixBytes DEF Header
    <3> QED BY <1>5, <3>1, <3>2
  <2> QED BY <2>2, <2>3 DEF FramingTypeOK
<1>10. Len(Taken) < Len(Stream(sent)[m])
       BY <1>5, <1>7, <1>8, <1>9
<1>11. Len(Taken) \in Nat
       BY <1>8, <1>9
<1> QED BY <1>10, <1>11

LEMMA WholeStays ==
    ASSUME FramingTypeOK, FramingTypeOK', [Next]_vars, ~PayloadRead,
           dir = "commands", ~overrun', NEW n \in 0 .. Len(sent),
           ReaderAt(n), got = << >> => n = 0, WholeCommands(n)
    PROVE  WholeCommands(n)'
<1>1. /\ sent \in Seq(Msg) /\ Len(sent) \in Nat
      /\ Taken \in Bytes /\ sock \in Bytes /\ rest \in Bytes
      BY Parts
<1>2. PICK w \in 0 .. Len(sent) : Stream(sent)[n] ++ (Taken ++ sock) = Stream(sent)[w]
      BY WholeIs
<1>3. got = << >> /\ Taken # << >> => \E m \in 1 .. Len(sent) : Taken = Stream(sent)[m]
      BY WholeIs
<1>4. /\ got' = got /\ n \in 0 .. Len(sent) /\ Len(sent) <= Len(sent') /\ Len(sent') \in Nat
      /\ \A i \in 0 .. Len(sent) : Stream(sent')[i] = Stream(sent)[i] /\ i \in 0 .. Len(sent')
      /\ \A i \in 1 .. Len(sent) : Stream(sent')[i] = Stream(sent)[i] /\ i \in 1 .. Len(sent')
      BY <1>1, SentGrows
<1>5. ASSUME Taken' = Taken,
             \E x \in 0 .. Len(sent) : Stream(sent)[n] ++ (Taken' ++ sock') = Stream(sent)[x]
      PROVE  WholeCommands(n)'
  <2>1. PICK x \in 0 .. Len(sent) : Stream(sent)[n] ++ (Taken' ++ sock') = Stream(sent)[x]
        BY <1>5
  <2>2. x \in 0 .. Len(sent') /\ Stream(sent')[n] ++ (Taken' ++ sock') = Stream(sent')[x]
        BY <1>4, <2>1
  <2>3. got' = << >> /\ Taken' # << >> => \E m \in 1 .. Len(sent') : Taken' = Stream(sent')[m]
        BY <1>3, <1>4, <1>5
  <2> QED BY <2>2, <2>3, WholeIs
<1>6. CASE Fill
  <2>1. /\ Taken' ++ sock' = Taken ++ sock /\ buf' # << >> /\ buf' \in Bytes
        /\ Taken = Header ++ part /\ Taken' = Taken ++ buf'
        BY <1>6, FillMoves, Primed
  <2>2. w \in 0 .. Len(sent') /\ Stream(sent')[n] ++ (Taken' ++ sock') = Stream(sent')[w]
        BY <1>2, <1>4, <2>1
  <2>3. ASSUME got = << >> PROVE \E m \in 1 .. Len(sent') : Taken' = Stream(sent')[m]
    <3>1. n = 0 /\ ReaderAt(0) /\ Len(part) < want
          BY <1>6, <2>3 DEF Fill
    <3>2. Taken = << >>
          BY <1>3, <2>1, <2>3, <3>1, FirstIsLonger
    <3>3. sock' = << >>
          BY <1>6, <2>3 DEF Fill
    <3>4. Taken' = buf'
          BY <2>1, <3>2, BytesAlgebra
    <3>5. Taken' = Stream(sent)[w]
      <4>1. Stream(sent)[0] = << >>
            BY <1>1, StreamBytes
      <4>2. << >> ++ (buf' ++ << >>) = buf'
            BY <2>1, BytesAlgebra
      <4> QED BY <1>2, <2>1, <3>1, <3>3, <3>4, <4>1, <4>2
    <3>6. w # 0
          BY <1>1, <2>1, <3>4, <3>5, StreamBytes
    <3>7. w \in 1 .. Len(sent)
          BY <3>6
    <3> QED BY <1>4, <3>5, <3>7
  <2> QED BY <1>4, <2>2, <2>3, WholeIs
<1>7. CASE WriteSome
  <2>1. Taken' = Taken /\ sock' = sock ++ rest
        BY <1>7, WriteMoves
  <2>2. Stream(sent)[n] ++ Ahead = Stream(sent)[Len(sent)]
        BY <1>7, ReaderAtIs DEF WriteSome, Continues, ++
  <2>3. Stream(sent)[n] ++ (Taken' ++ sock') = Stream(sent)[Len(sent)]
        BY <2>1, <2>2 DEF Ahead
  <2>4. Len(sent) \in 0 .. Len(sent)
        BY <1>1
  <2> QED BY <1>5, <2>1, <2>3, <2>4
<1>8. ASSUME NEW m, WriteMsg(m) \/ Oversized(m) PROVE Taken' = Taken /\ sock' = sock
      BY <1>8 DEF WriteMsg, Oversized, readVars, Taken, Header
<1>9. CASE WriteTimesOut \/ Close \/ ReadFails \/ UNCHANGED vars
  <2>1. Taken' = Taken /\ sock' = sock
        BY <1>9 DEF WriteTimesOut, Close, ReadFails, vars, readVars, writeVars, Taken, Header
  <2> QED BY <1>2, <1>5, <2>1
<1>10. CASE ReadExact \/ PrefixRead
  <2>1. Taken' = Taken
        BY <1>10, ReadMoves, PrefixMoves
  <2>2. sock' = sock
        BY <1>10 DEF ReadExact, PrefixRead
  <2> QED BY <1>2, <1>5, <2>1, <2>2
<1> QED BY <1>2, <1>5, <1>6, <1>7, <1>8, <1>9, <1>10 DEF Next, Reader

LEMMA CommandsStep ==
    ASSUME FramingTypeOK, FramingTypeOK', [Next]_vars, CommandsFollow
    PROVE  CommandsFollow'
<1> SUFFICES ASSUME dir = "commands", ~overrun'
             PROVE  \E k \in 0 .. Len(sent') :
                      ReaderAt(k)' /\ DecodedUpTo(k)' /\ WholeCommands(k)'
    BY SentGrows DEF CommandsFollow
<1>1. PICK n \in 0 .. Len(sent) : ReaderAt(n) /\ DecodedUpTo(n) /\ WholeCommands(n)
      BY SentGrows DEF CommandsFollow
<1>2. /\ n \in Nat /\ n <= Len(sent) /\ Len(sent) \in Nat /\ sent \in Seq(Msg)
      /\ got \in Seq(Seq(Nat)) /\ Len(got) \in Nat /\ part \in Seq(Nat)
      /\ Taken \in Bytes /\ sock \in Bytes /\ buf \in Bytes
      BY Parts DEF FramingTypeOK
<1>3. /\ got = << >> => n = 0
      /\ got # << >> => Len(got) <= n /\ got[1] = sent[1]
      /\ \A i \in 2 .. Len(got) : got[i] = sent[n - Len(got) + i]
      BY <1>1 DEF DecodedUpTo
<1>4. got # << >> => Len(got) >= 1
      BY <1>2
<1>5. CASE ~PayloadRead
  <2>1. got' = got /\ n \in 0 .. Len(sent') /\ \A i \in 1 .. Len(sent) : sent'[i] = sent[i]
        BY <1>2, <1>5, SentGrows
  <2>2. ReaderAt(n)'
        BY <1>1, <1>5, ReaderStays
  <2>3. WholeCommands(n)'
        BY <1>1, <1>3, <1>5, WholeStays
  <2>4. ASSUME got # << >> PROVE got'[1] = sent'[1]
    <3>1. 1 \in 1 .. Len(sent)
          BY <1>2, <1>3, <1>4, <2>4
    <3> QED BY <1>3, <2>1, <2>4, <3>1
  <2>5. ASSUME NEW i \in 2 .. Len(got) PROVE got'[i] = sent'[n - Len(got) + i]
    <3>1. got # << >> /\ n - Len(got) + i \in 1 .. Len(sent)
          BY <1>2, <1>3
    <3> QED BY <1>3, <2>1, <3>1
  <2>6. DecodedUpTo(n)'
        BY <1>3, <2>1, <2>4, <2>5 DEF DecodedUpTo
  <2> QED BY <2>1, <2>2, <2>3, <2>6
<1>6. CASE PayloadRead
  <2>1. /\ n \in 0 .. Len(sent) - 1 /\ part = sent[n+1] /\ Taken # << >>
        /\ Stream(sent)[n] ++ Taken = Stream(sent)[n+1] ++ buf
        BY <1>1, <1>6, PayloadIsNext
  <2>2. /\ got' = Append(got, part) /\ sent' = sent /\ sock' = sock
        /\ buf' = IF got = << >> THEN << >> ELSE buf
        BY <1>6 DEF PayloadRead, writeVars
  <2>3. /\ Len(got') = Len(got) + 1 /\ got'[Len(got) + 1] = part /\ got' # << >>
        /\ \A i \in 1 .. Len(got) : got'[i] = got[i]
    <3>1. /\ Append(got, part) \in Seq(Seq(Nat)) /\ Len(Append(got, part)) = Len(got) + 1
          /\ Append(got, part)[Len(got) + 1] = part
          /\ \A i \in 1 .. Len(got) : Append(got, part)[i] = got[i]
          BY <1>2, AppendProperties
    <3>2. Len(got') # 0 /\ Len(got') = Len(got) + 1
          BY <1>2, <2>2, <3>1
    <3>3. got' # << >>
          BY <3>2
    <3>4. got'[Len(got) + 1] = part /\ \A i \in 1 .. Len(got) : got'[i] = got[i]
          BY <2>2, <3>1
    <3> QED BY <3>2, <3>3, <3>4
  <2>4. PICK w \in 0 .. Len(sent) : Stream(sent)[n] ++ (Taken ++ sock) = Stream(sent)[w]
        BY <1>1, WholeIs
  <2>5. ASSUME NEW k \in 0 .. Len(sent), Stream(sent)[n] ++ Taken = Stream(sent)[k] ++ buf'
        PROVE  ReaderAt(k)' /\ WholeCommands(k)'
    <3>1. ReaderAt(k)' /\ Taken' = buf' /\ buf' \in Bytes
          BY <1>1, <1>6, <2>5, ReaderAdvances, Primed
    <3>2. Stream(sent)[n] \in Bytes /\ Stream(sent)[k] \in Bytes
          BY <1>2, StreamBytes
    <3>3. /\ (Stream(sent)[n] ++ Taken) ++ sock = Stream(sent)[n] ++ (Taken ++ sock)
          /\ (Stream(sent)[k] ++ buf') ++ sock = Stream(sent)[k] ++ (buf' ++ sock)
          BY <1>2, <3>1, <3>2, BytesAssoc
    <3>4. Stream(sent')[k] ++ (Taken' ++ sock') = Stream(sent')[w] /\ w \in 0 .. Len(sent')
          BY <2>2, <2>4, <2>5, <3>1, <3>3
    <3> QED BY <2>3, <3>1, <3>4, WholeIs
  <2>6. CASE got = << >>
    <3>1. PICK m \in 1 .. Len(sent) : Taken = Stream(sent)[m]
          BY <1>1, <2>1, <2>6, WholeIs
    <3>2. m \in 0 .. Len(sent) /\ m \in Nat /\ 1 <= m
          BY <1>2
    <3>3. Stream(sent)[n] ++ Taken = Stream(sent)[m] ++ buf'
      <4>1. n = 0 /\ Stream(sent)[n] = << >> /\ buf' = << >>
            BY <1>2, <1>3, <2>2, <2>6, StreamBytes
      <4> QED BY <1>2, <3>1, <4>1, BytesAlgebra
    <3>4. ReaderAt(m)' /\ WholeCommands(m)'
          BY <2>5, <3>2, <3>3
    <3>5. Len(got) = 0 /\ n = 0 /\ 0 + 1 = 1
          BY <1>3, <2>6
    <3>6. Len(got') = 1 /\ got'[1] = sent'[1]
          BY <2>1, <2>2, <2>3, <3>5
    <3>7. DecodedUpTo(m)'
      <4>1. 2 .. Len(got') = {}
            BY <3>6
      <4> QED BY <2>3, <3>2, <3>6, <4>1 DEF DecodedUpTo
    <3> QED BY <2>2, <3>2, <3>4, <3>7
  <2>7. CASE got # << >>
    <3>1. n + 1 \in 0 .. Len(sent) /\ n + 1 \in Nat
          BY <1>2, <2>1
    <3>2. ReaderAt(n + 1)' /\ WholeCommands(n + 1)'
          BY <2>1, <2>2, <2>5, <2>7, <3>1
    <3>3. Len(got') <= n + 1 /\ got'[1] = sent'[1]
          BY <1>2, <1>3, <1>4, <2>2, <2>3, <2>7
    <3>4. ASSUME NEW i \in 2 .. Len(got') PROVE got'[i] = sent'[(n + 1) - Len(got') + i]
      <4>1. CASE i \in 2 .. Len(got)
        <5>1. (n + 1) - Len(got') + i = n - Len(got) + i /\ i \in 1 .. Len(got)
              BY <1>2, <2>3, <4>1
        <5> QED BY <1>3, <2>2, <2>3, <4>1, <5>1
      <4>2. CASE i = Len(got) + 1
        <5>1. (n + 1) - Len(got') + i = n + 1
              BY <1>2, <2>3, <4>2
        <5> QED BY <2>1, <2>2, <2>3, <4>2, <5>1
      <4> QED BY <1>2, <2>3, <4>1, <4>2
    <3>5. DecodedUpTo(n + 1)'
          BY <2>3, <3>3, <3>4 DEF DecodedUpTo
    <3> QED BY <2>2, <3>1, <3>2, <3>5
  <2> QED BY <2>6, <2>7
<1> QED BY <1>5, <1>6

--------------------------------------------------------------------------------
(* The theorems.                                                           *)

FramingInv == FramingTypeOK /\ SnapshotsFollow /\ CommandsFollow

LEMMA FollowInit == Init => SnapshotsFollow /\ CommandsFollow
<1> SUFFICES ASSUME Init PROVE SnapshotsFollow /\ CommandsFollow
    OBVIOUS
<1>1. FramingTypeOK /\ sent \in Seq(Msg)
      BY TypeInit, Parts
<1>2. /\ sent = << >> /\ got = << >> /\ Len(sent) = 0 /\ Len(got) = 0 /\ 0 \in 0 .. Len(sent)
      /\ stage # "payload"
      BY DEF Init
<1>3. Stream(sent)[0] = << >> /\ Stream(sent)[Len(sent)] = << >>
      BY <1>1, <1>2, StreamBytes
<1>4. Taken = << >> /\ Ahead = << >>
  <2>1. /\ Header = << >> /\ part = << >> /\ buf = << >> /\ sock = << >> /\ rest = << >>
        /\ << >> ++ << >> = << >>
        BY BytesAlgebra DEF Init, Header
  <2> QED BY <2>1, TakenIs DEF Ahead
<1>5. ReaderAt(0)
  <2>1. << >> ++ (<< >> ++ << >>) = << >> /\ << >> \in Bytes
        BY BytesAlgebra
  <2>2. Continues(sent, 0, Ahead, TRUE)
        BY <1>1, <1>2, <1>3, <1>4, <2>1, ContinuesIs
  <2>3. Continues(sent, 0, Ahead, writer = "run")
        BY <2>2 DEF Continues
  <2> QED BY <1>2, <2>3, ReaderAtIs
<1>6. SnapshotsFollow
      BY <1>2, <1>5 DEF SnapshotsFollow
<1>7. DecodedUpTo(0)
      BY <1>2 DEF DecodedUpTo
<1>8. WholeCommands(0)
  <2>1. sock = << >> /\ << >> ++ (<< >> ++ << >>) = << >>
        BY BytesAlgebra DEF Init
  <2> QED BY <1>2, <1>3, <1>4, <2>1, WholeIs
<1> QED BY <1>2, <1>5, <1>6, <1>7, <1>8 DEF CommandsFollow

LEMMA FramingInductive == Spec => []FramingInv
<1>1. Init => FramingInv
      BY TypeInit, FollowInit DEF FramingInv
<1>2. FramingInv /\ [Next]_vars => FramingInv'
      BY TypeStep, SnapshotsStep, CommandsStep DEF FramingInv
<1> QED BY <1>1, <1>2, PTL DEF Spec

\* What the invariant says of the decoded snapshots.
LEMMA FollowedIsPrefix ==
    ASSUME FramingTypeOK, SnapshotsFollow PROVE SnapshotsAligned
<1> SUFFICES ASSUME dir = "snapshots" PROVE IsPrefix(got, sent)
    BY DEF SnapshotsAligned
<1>1. PICK n \in 0 .. Len(sent) : Len(got) = n /\ \A i \in 1 .. n : got[i] = sent[i]
      BY DEF SnapshotsFollow
<1>2. got \in Seq(Seq(Nat)) /\ sent \in Seq(Msg) /\ Len(got) \in Nat /\ Len(sent) \in Nat
      BY Parts DEF FramingTypeOK
<1>3. Len(got) <= Len(sent)
      BY <1>1, <1>2
<1>4. SubSeq(sent, 1, Len(got)) = got
      BY <1>1, <1>2, <1>3
<1> QED BY <1>3, <1>4 DEF IsPrefix

\* The snapshots a client decodes are the first ones that were framed, unchanged and
\* in order: read_msg (ipc.rs) never takes the middle of a snapshot for a prefix,
\* whatever write_all and read_exact made of the stream, for every width of a byte,
\* every payload and every size of the buffers.
THEOREM SnapshotsStayAligned == Spec => []SnapshotsAligned
<1>1. FramingInv => SnapshotsAligned
      BY FollowedIsPrefix DEF FramingInv
<1> QED BY <1>1, FramingInductive, PTL

\* And of the decoded commands: the ones after the first end where the reader is.
LEMMA FollowedIsRun ==
    ASSUME FramingTypeOK, CommandsFollow PROVE CommandsAligned
<1> SUFFICES ASSUME dir = "commands", ~overrun, got # << >>
             PROVE  /\ Head(got) = Head(sent)
                    /\ \E k \in 1 .. Len(sent) :
                          IsPrefix(Tail(got), SubSeq(sent, k + 1, Len(sent)))
    BY DEF CommandsAligned
<1>1. PICK n \in 0 .. Len(sent) : DecodedUpTo(n)
      BY DEF CommandsFollow
<1>2. /\ got \in Seq(Seq(Nat)) /\ sent \in Seq(Msg) /\ Len(got) \in Nat /\ Len(sent) \in Nat
      /\ Len(got) >= 1 /\ n \in Nat /\ n <= Len(sent)
      BY Parts DEF FramingTypeOK
<1>3. /\ Len(got) <= n /\ got[1] = sent[1]
      /\ \A i \in 2 .. Len(got) : got[i] = sent[n - Len(got) + i]
      BY <1>1 DEF DecodedUpTo
<1>4. Head(got) = Head(sent)
      BY <1>2, <1>3
<1> DEFINE k == n - Len(got) + 1
           later == SubSeq(sent, k + 1, Len(sent))
<1>5. k \in 1 .. Len(sent) /\ k \in Nat
      BY <1>2, <1>3
<1>6. /\ Tail(got) \in Seq(Seq(Nat)) /\ Len(Tail(got)) = Len(got) - 1
      /\ \A i \in 1 .. Len(got) - 1 : Tail(got)[i] = got[i + 1]
      BY <1>2, HeadTailProperties
<1>7. /\ Len(later) = Len(sent) - k /\ later \in Seq(Msg)
      /\ \A i \in 1 .. Len(sent) - k : later[i] = sent[k + i]
  <2> HIDE DEF k
  <2>1. later \in Seq(Msg)
        BY <1>2, <1>5, SubSeqProperties
  <2>2. k + 1 \in Int /\ Len(sent) \in Int /\ (k + 1 <= Len(sent) \/ k = Len(sent))
        BY <1>2, <1>5
  <2> QED BY <1>2, <1>5, <2>1, <2>2
<1>8. Len(got) - 1 <= Len(sent) - k /\ Len(got) - 1 \in Nat
      BY <1>2, <1>3
<1>9. \A i \in 1 .. Len(got) - 1 : Tail(got)[i] = later[i]
  <2> SUFFICES ASSUME NEW i \in 1 .. Len(got) - 1 PROVE Tail(got)[i] = later[i]
      OBVIOUS
  <2>1. i + 1 \in 2 .. Len(got) /\ n - Len(got) + (i + 1) = k + i /\ i \in 1 .. Len(sent) - k
        BY <1>2, <1>8
  <2>2. Tail(got)[i] = sent[k + i]
        BY <1>3, <1>6, <2>1
  <2> HIDE DEF k, later
  <2> QED BY <1>7, <2>1, <2>2
<1> HIDE DEF k, later
<1>10. IsPrefix(Tail(got), later)
  <2>1. Len(Tail(got)) <= Len(later)
        BY <1>6, <1>7, <1>8
  <2> DEFINE t == Tail(got)
  <2>2. t \in Seq(Seq(Nat)) /\ Len(t) \in Nat /\ Len(t) <= Len(later) /\ later \in Seq(Msg)
        BY <1>6, <1>7, <1>8, <2>1
  <2>3. \A i \in 1 .. Len(t) : t[i] = later[i]
        BY <1>6, <1>9
  <2> HIDE DEF t
  <2>4. SubSeq(later, 1, Len(t)) = t
        BY <2>2, <2>3
  <2> QED BY <2>1, <2>4 DEF IsPrefix, t
<1> QED BY <1>4, <1>5, <1>10 DEF later

\* The commands the daemon decodes are the first one sent and, of the later ones, a
\* run without a gap: the bytes the first BufReader takes with it when server.rs puts
\* a second one on the stream are whole commands, unless the client had sent more
\* than a BufReader holds before the daemon read the first.
THEOREM CommandsStayAligned == Spec => []CommandsAligned
<1>1. FramingInv => CommandsAligned
      BY FollowedIsRun DEF FramingInv
<1> QED BY <1>1, FramingInductive, PTL
================================================================================
