-------------------------- MODULE ClientContextProofs --------------------------
(***************************************************************************)
(* Proofs for ClientContext: for any segments, reads, writes and sizes of  *)
(* the buffers.                                                            *)
(***************************************************************************)
EXTENDS ClientContext, FiniteSetTheorems, SequenceTheorems, WellFoundedInduction, TLAPS

-----------------------------------------------------------------------------
(* Induction over numbers, from sets. *)

LEMMA LeastNat == ASSUME NEW T \in SUBSET Nat, T # {} PROVE \E m \in T : \A k \in T : m <= k
<1>1. PICK m \in T : \A k \in T : ~ (<<k, m>> \in OpToRel(<, Nat))
  <2>1. T \subseteq Nat OBVIOUS
  <2>2. QED BY <2>1, WFMin, NatLessThanWellFounded
<1>2. \A k \in T : ~(k < m)
  BY <1>1 DEF OpToRel
<1>3. QED BY <1>2

LEMMA InductUpTo ==
  ASSUME NEW N \in Nat, NEW S, 0 \in S, \A n \in 1 .. N : n - 1 \in S => n \in S
  PROVE  0 .. N \subseteq S
<1> SUFFICES ASSUME (0 .. N) \ S # {} PROVE FALSE
  OBVIOUS
<1> DEFINE T == (0 .. N) \ S
<1>1. T \in SUBSET Nat /\ T # {} OBVIOUS
<1>2. PICK m \in T : \A k \in T : m <= k
  BY <1>1, LeastNat
<1>3. m \in 1 .. N /\ m - 1 \in 0 .. N /\ m - 1 \notin T
  BY <1>2
<1>4. QED BY <1>2, <1>3

-----------------------------------------------------------------------------
(* FlattenSeq, the concatenation of the sequences in a list. *)

\* Concatenation, known by these three facts only.
Cat(s, t) == s \o t

LEMMA CatType == ASSUME NEW B, NEW s \in Seq(B), NEW t \in Seq(B) PROVE Cat(s, t) \in Seq(B)
BY ConcatProperties DEF Cat

LEMMA CatEmpty == ASSUME NEW B, NEW s \in Seq(B) PROVE Cat(s, <<>>) = s /\ Cat(<<>>, s) = s
BY ConcatEmptySeq DEF Cat

LEMMA CatAt ==
  ASSUME NEW B, NEW s \in Seq(B), NEW t \in Seq(B)
  PROVE  /\ Len(s) \in Nat /\ Len(t) \in Nat /\ Len(Cat(s, t)) = Len(s) + Len(t)
         /\ \A j \in 1 .. Len(Cat(s, t)) :
              Cat(s, t)[j] = IF j <= Len(s) THEN s[j] ELSE t[j - Len(s)]
BY ConcatProperties DEF Cat

LEMMA CatAssoc ==
  ASSUME NEW B, NEW s \in Seq(B), NEW t \in Seq(B), NEW u \in Seq(B)
  PROVE  Cat(Cat(s, t), u) = Cat(s, Cat(t, u))
BY ConcatAssociative DEF Cat

\* The concatenations of the first 0, 1, ..., n of them.
Joins(s, B, n) ==
  {g \in [0 .. n -> Seq(B)] : g[0] = <<>> /\ \A k \in 1 .. n : g[k] = Cat(g[k - 1], s[k])}

LEMMA Parts == ASSUME NEW B, NEW s \in Seq(Seq(B))
               PROVE  Len(s) \in Nat /\ \A k \in 1 .. Len(s) : s[k] \in Seq(B)
OBVIOUS

LEMMA JoinsExist == ASSUME NEW B, NEW s \in Seq(Seq(B)) PROVE \E g : g \in Joins(s, B, Len(s))
<1> DEFINE N == Len(s)
           S == {n \in Nat : \E g : g \in Joins(s, B, n)}
<1>1. 0 \in S
  <2> DEFINE g == [k \in 0 .. 0 |-> <<>>]
  <2>1. g \in [0 .. 0 -> Seq(B)] /\ g[0] = <<>> OBVIOUS
  <2> HIDE DEF g
  <2>2. \A k \in 1 .. 0 : g[k] = Cat(g[k - 1], s[k]) OBVIOUS
  <2>3. g \in Joins(s, B, 0) BY <2>1, <2>2 DEF Joins
  <2>4. QED BY <2>3
<1>2. ASSUME NEW n \in 1 .. N, n - 1 \in S PROVE n \in S
  <2>1. PICK g : g \in Joins(s, B, n - 1) BY <1>2
  <2>2. /\ g \in [0 .. n - 1 -> Seq(B)] /\ g[0] = <<>>
        /\ \A k \in 1 .. n - 1 : g[k] = Cat(g[k - 1], s[k])
    BY <2>1 DEF Joins
  <2>3. N \in Nat /\ s[n] \in Seq(B) BY Parts
  <2> DEFINE x == Cat(g[n - 1], s[n])
             h == [k \in 0 .. n |-> IF k = n THEN x ELSE g[k]]
  <2>4. n - 1 \in 0 .. n - 1 /\ 0 # n /\ 0 \in 0 .. n BY <2>3
  <2>5. x \in Seq(B) BY <2>2, <2>3, <2>4, CatType
  <2>6. h \in [0 .. n -> Seq(B)]
    <3> HIDE DEF x
    <3>1. \A k \in 0 .. n : k # n => k \in 0 .. n - 1 BY <2>3
    <3>2. QED BY <2>2, <2>5, <3>1
  <2>7. h[0] = <<>> BY <2>2, <2>4
  <2>8. ASSUME NEW k \in 1 .. n PROVE h[k] = Cat(h[k - 1], s[k])
    <3>1. CASE k = n
      <4>1. h[k] = x /\ h[k - 1] = g[k - 1] BY <2>3, <3>1
      <4>2. QED BY <4>1, <3>1
    <3>2. CASE k # n
      <4>1. k \in 1 .. n - 1 /\ k - 1 # n /\ k - 1 \in 0 .. n /\ k \in 0 .. n BY <2>3, <3>2
      <4>2. h[k] = g[k] /\ h[k - 1] = g[k - 1] BY <3>2, <4>1
      <4>3. QED BY <2>2, <4>1, <4>2
    <3>3. QED BY <3>1, <3>2
  <2> HIDE DEF h
  <2>9. h \in Joins(s, B, n) BY <2>6, <2>7, <2>8 DEF Joins
  <2>10. QED BY <2>3, <2>9
<1>3. 0 .. N \subseteq S
  <2> HIDE DEF S
  <2>1. QED BY <1>1, <1>2, Parts, InductUpTo
<1>4. N \in S BY <1>3, Parts
<1>5. QED BY <1>4

LEMMA FlattenIs ==
  ASSUME NEW B, NEW s \in Seq(Seq(B)), NEW g \in Joins(s, B, Len(s))
  PROVE  FlattenSeq(s) = g[Len(s)] /\ FlattenSeq(s) \in Seq(B)
<1> DEFINE N == Len(s)
           Def(f) == [i \in 1 .. N |-> IF i = 1 THEN s[i] ELSE Cat(f[i - 1], s[i])]
           flatten == CHOOSE f : f = Def(f)
<1>1. /\ g \in [0 .. N -> Seq(B)] /\ g[0] = <<>> /\ N \in Nat
      /\ \A k \in 1 .. N : g[k] = Cat(g[k - 1], s[k]) /\ s[k] \in Seq(B)
  BY Parts DEF Joins
<1>2. g[N] \in Seq(B) BY <1>1
<1>3. CASE N = 0
  <2>1. s = <<>> BY <1>3
  <2>2. FlattenSeq(s) = s BY <1>3 DEF FlattenSeq, Cat
  <2>3. QED BY <1>1, <1>2, <1>3, <2>1, <2>2
<1>4. CASE N > 0
  <2>1. FlattenSeq(s) = flatten[N] BY <1>4 DEF FlattenSeq, Cat
  <2> DEFINE f == [i \in 1 .. N |-> g[i]]
  <2>2. f = Def(f)
    <3>1. ASSUME NEW i \in 1 .. N PROVE g[i] = IF i = 1 THEN s[i] ELSE Cat(f[i - 1], s[i])
      <4>1. CASE i = 1
        <5>1. g[i] = Cat(g[0], s[i]) BY <1>1, <4>1
        <5>2. g[i] = Cat(<<>>, s[i]) /\ s[i] \in Seq(B) BY <1>1, <5>1
        <5>3. QED BY <4>1, <5>2, CatEmpty
      <4>2. CASE i # 1
        <5>1. i - 1 \in 1 .. N BY <1>1, <4>2
        <5>2. f[i - 1] = g[i - 1] BY <5>1
        <5>3. QED BY <1>1, <4>2, <5>2
      <4>3. QED BY <4>1, <4>2
    <3> HIDE DEF f
    <3>2. Def(f) = [i \in 1 .. N |-> g[i]] BY <3>1
    <3>3. QED BY <3>2 DEF f
  <2>3. flatten = Def(flatten)
    <3> HIDE DEF f, Def
    <3>1. QED BY <2>2
  <2> HIDE DEF flatten, f
  <2> DEFINE S == {k \in Nat : k \in 1 .. N => flatten[k] = g[k]}
  <2>4. 0 .. N \subseteq S
    <3>1. 0 \in S OBVIOUS
    <3>2. ASSUME NEW n \in 1 .. N, n - 1 \in S PROVE n \in S
      <4>1. flatten[n] = IF n = 1 THEN s[n] ELSE Cat(flatten[n - 1], s[n]) BY <2>3
      <4>2. CASE n = 1
        <5>1. g[n] = Cat(g[0], s[n]) BY <1>1, <4>2
        <5>2. g[n] = Cat(<<>>, s[n]) /\ s[n] \in Seq(B) BY <1>1, <5>1
        <5>3. g[n] = s[n] BY <5>2, CatEmpty
        <5>4. QED BY <4>1, <4>2, <5>3
      <4>3. CASE n # 1
        <5>1. n - 1 \in 1 .. N BY <1>1, <4>3
        <5>2. flatten[n - 1] = g[n - 1] BY <3>2, <5>1
        <5>3. flatten[n] = g[n] BY <1>1, <4>1, <4>3, <5>2
        <5>4. QED BY <5>3
      <4>4. QED BY <4>2, <4>3
    <3> HIDE DEF S, Def
    <3>3. QED BY <1>1, <3>1, <3>2, InductUpTo
  <2>5. N \in S /\ N \in 1 .. N BY <1>1, <1>4, <2>4
  <2>6. flatten[N] = g[N] BY <2>5
  <2>7. QED BY <1>2, <2>1, <2>6
<1>5. QED BY <1>1, <1>3, <1>4

LEMMA FlattenAppend ==
  ASSUME NEW B, NEW s \in Seq(Seq(B)), NEW x \in Seq(B)
  PROVE  /\ FlattenSeq(s) \in Seq(B)
         /\ FlattenSeq(Append(s, x)) = Cat(FlattenSeq(s), x)
<1> DEFINE N == Len(s)
           t == Append(s, x)
<1>1. PICK g : g \in Joins(s, B, N) BY JoinsExist
<1>2. /\ g \in [0 .. N -> Seq(B)] /\ g[0] = <<>> /\ N \in Nat
      /\ \A k \in 1 .. N : g[k] = Cat(g[k - 1], s[k]) /\ s[k] \in Seq(B)
  BY <1>1, Parts DEF Joins
<1>3. /\ t \in Seq(Seq(B)) /\ Len(t) = N + 1 /\ t[N + 1] = x
      /\ \A k \in 1 .. N : t[k] = s[k]
  OBVIOUS
<1> HIDE DEF t, N
<1> DEFINE y == Cat(g[N], x)
           h == [k \in 0 .. N + 1 |-> IF k = N + 1 THEN y ELSE g[k]]
<1>4. N \in 0 .. N /\ g[N] \in Seq(B) BY <1>2
<1>5. y \in Seq(B) BY <1>4, CatType
<1>6. h \in [0 .. N + 1 -> Seq(B)]
  <2> HIDE DEF y
  <2>1. \A k \in 0 .. N + 1 : k # N + 1 => k \in 0 .. N BY <1>2
  <2>2. QED BY <1>2, <1>5, <2>1
<1>7. h[0] = <<>> BY <1>2
<1>8. ASSUME NEW k \in 1 .. N + 1 PROVE h[k] = Cat(h[k - 1], t[k])
  <2>1. CASE k = N + 1
    <3>1. h[k] = y /\ h[k - 1] = g[N] /\ t[k] = x BY <1>2, <1>3, <2>1
    <3>2. QED BY <3>1
  <2>2. CASE k # N + 1
    <3>1. k \in 1 .. N /\ k - 1 # N + 1 /\ k - 1 \in 0 .. N + 1 /\ k \in 0 .. N + 1 BY <1>2, <2>2
    <3>2. h[k] = g[k] /\ h[k - 1] = g[k - 1] /\ t[k] = s[k] BY <1>3, <2>2, <3>1
    <3>3. QED BY <1>2, <3>1, <3>2
  <2>3. QED BY <2>1, <2>2
<1>9. h[N + 1] = y BY <1>2
<1> HIDE DEF h
<1>10. h \in Joins(t, B, Len(t)) BY <1>3, <1>6, <1>7, <1>8 DEF Joins
<1>11. FlattenSeq(t) = h[N + 1] BY <1>3, <1>10, FlattenIs
<1>12. FlattenSeq(s) = g[N] /\ FlattenSeq(s) \in Seq(B) BY <1>1, FlattenIs DEF N
<1>13. QED BY <1>9, <1>11, <1>12 DEF t

\* The first of the sequences is taken off.
LEMMA FlattenTail ==
  ASSUME NEW B, NEW s \in Seq(Seq(B)), NEW r \in Seq(Seq(B)),
         Len(r) = Len(s) - 1, Len(s) > 0, \A k \in 1 .. Len(r) : r[k] = s[k + 1]
  PROVE  FlattenSeq(s) = Cat(s[1], FlattenSeq(r)) /\ FlattenSeq(r) \in Seq(B)
<1> DEFINE N == Len(s)
           a == s[1]
<1>1. PICK g : g \in Joins(r, B, Len(r)) BY JoinsExist
<1>2. /\ g \in [0 .. N - 1 -> Seq(B)] /\ g[0] = <<>> /\ N \in Nat /\ N > 0
      /\ \A k \in 1 .. N - 1 : g[k] = Cat(g[k - 1], r[k]) /\ r[k] = s[k + 1]
      /\ \A k \in 1 .. N : s[k] \in Seq(B)
  BY <1>1, Parts DEF Joins
<1>3. a \in Seq(B) BY <1>2
<1> HIDE DEF N, a
<1> DEFINE h == [k \in 0 .. N |-> IF k = 0 THEN <<>> ELSE Cat(a, g[k - 1])]
<1>4. h \in [0 .. N -> Seq(B)]
  <2>1. ASSUME NEW k \in 0 .. N, k # 0 PROVE Cat(a, g[k - 1]) \in Seq(B)
    <3>1. k - 1 \in 0 .. N - 1 BY <1>2, <2>1
    <3>2. g[k - 1] \in Seq(B) BY <1>2, <3>1
    <3>3. QED BY <1>3, <3>2, CatType
  <2>2. QED BY <2>1
<1>5. h[0] = <<>> BY <1>2
<1>6. ASSUME NEW k \in 1 .. N PROVE h[k] = Cat(h[k - 1], s[k])
  <2>0. k \in 0 .. N /\ k # 0 BY <1>2
  <2>1. h[k] = Cat(a, g[k - 1]) /\ s[k] \in Seq(B)
    <3>1. s[k] \in Seq(B) BY <1>2
    <3>2. QED BY <2>0, <3>1
  <2>2. CASE k = 1
    <3>1. h[k] = Cat(a, <<>>) BY <1>2, <2>1, <2>2
    <3>2. h[k] = a BY <1>3, <3>1, CatEmpty
    <3>3. h[k - 1] = <<>> BY <1>5, <2>2
    <3>4. a = Cat(<<>>, a) BY <1>3, CatEmpty
    <3>5. QED BY <2>2, <3>2, <3>3, <3>4 DEF a
  <2>3. CASE k # 1
    <3>1. k - 1 \in 0 .. N /\ k - 1 # 0 /\ k - 1 \in 1 .. N - 1 /\ (k - 1) + 1 = k BY <1>2, <2>3
    <3>2. k - 2 \in 0 .. N - 1 /\ (k - 1) - 1 = k - 2 BY <1>2, <3>1
    <3>3. h[k - 1] = Cat(a, g[k - 2]) /\ g[k - 1] = Cat(g[k - 2], s[k]) /\ g[k - 2] \in Seq(B)
      BY <1>2, <3>1, <3>2
    <3>4. Cat(Cat(a, g[k - 2]), s[k]) = Cat(a, Cat(g[k - 2], s[k]))
      BY <1>3, <2>1, <3>3, CatAssoc
    <3>5. QED BY <2>1, <3>3, <3>4
  <2>4. QED BY <2>2, <2>3
<1>7. h[N] = Cat(a, g[N - 1]) BY <1>2
<1> HIDE DEF h
<1>8. h \in Joins(s, B, Len(s)) BY <1>4, <1>5, <1>6 DEF Joins, N
<1>9. FlattenSeq(s) = h[N] BY <1>8, FlattenIs DEF N
<1>10. FlattenSeq(r) = g[N - 1] /\ FlattenSeq(r) \in Seq(B) BY <1>1, FlattenIs DEF N
<1>11. QED BY <1>7, <1>9, <1>10 DEF a

-----------------------------------------------------------------------------
(* The bytes of a chain. *)

LEMMA BytesEmpty == Bytes(<<>>) = <<>>
BY DEF Bytes, FlattenSeq

LEMMA BytesAppend ==
  ASSUME NEW B, NEW s \in Seq(Seq(B)), NEW x \in Seq(B)
  PROVE  /\ Bytes(s) \in Seq(B) /\ Bytes(Append(s, x)) \in Seq(B)
         /\ Bytes(Append(s, x)) = Cat(Bytes(s), x)
<1>1. Bytes(s) \in Seq(B) /\ Bytes(Append(s, x)) = Cat(Bytes(s), x)
  BY FlattenAppend DEF Bytes
<1>2. QED BY <1>1, CatType

LEMMA BytesTail ==
  ASSUME NEW B, NEW s \in Seq(Seq(B)), s # <<>>
  PROVE  /\ Bytes(s) \in Seq(B) /\ Bytes(Tail(s)) \in Seq(B) /\ Head(s) \in Seq(B)
         /\ Tail(s) \in Seq(Seq(B))
         /\ Bytes(s) = Cat(Head(s), Bytes(Tail(s)))
<1> DEFINE r == Tail(s)
<1>1. /\ r \in Seq(Seq(B)) /\ Len(r) = Len(s) - 1 /\ Len(s) > 0
      /\ \A k \in 1 .. Len(r) : r[k] = s[k + 1]
      /\ Head(s) = s[1] /\ Head(s) \in Seq(B)
  OBVIOUS
<1> HIDE DEF r
<1>2. FlattenSeq(s) = Cat(s[1], FlattenSeq(r)) /\ FlattenSeq(r) \in Seq(B)
  BY <1>1, FlattenTail
<1>3. Bytes(s) \in Seq(B) BY <1>1, <1>2, CatType DEF Bytes
<1>4. QED BY <1>1, <1>2, <1>3 DEF Bytes, r

\* The numbers in q follow each other and end at a.
UpTo(q, a) == Len(q) <= a /\ \A j \in 1 .. Len(q) : q[j] = a - Len(q) + j

LEMMA UpToAppend ==
  ASSUME NEW q \in Seq(Nat), NEW a \in Nat, NEW n \in Nat, UpTo(q, a)
  PROVE  /\ UpTo(Cat(q, [i \in 1 .. n |-> a + i]), a + n)
         /\ Len(Cat(q, [i \in 1 .. n |-> a + i])) = Len(q) + n
<1> DEFINE t == [i \in 1 .. n |-> a + i]
           c == Cat(q, t)
<1>1. t \in Seq(Nat) /\ Len(t) = n /\ \A j \in 1 .. n : t[j] = a + j
  OBVIOUS
<1> HIDE DEF t
<1>2. /\ Len(c) = Len(q) + n /\ Len(q) \in Nat
      /\ \A j \in 1 .. Len(c) : c[j] = IF j <= Len(q) THEN q[j] ELSE t[j - Len(q)]
  BY <1>1, CatAt
<1> HIDE DEF c
<1>3. ASSUME NEW j \in 1 .. Len(c) PROVE c[j] = (a + n) - Len(c) + j
  <2>1. CASE j <= Len(q)
    <3>1. c[j] = q[j] /\ j \in 1 .. Len(q) BY <1>2, <2>1
    <3>2. QED BY <1>2, <3>1 DEF UpTo
  <2>2. CASE j > Len(q)
    <3> DEFINE k == j - Len(q)
    <3>1. c[j] = t[k] /\ k \in 1 .. n BY <1>2, <2>2
    <3>2. t[k] = a + k BY <1>1, <3>1
    <3>3. QED BY <1>2, <3>1, <3>2
  <2>3. QED BY <1>2, <2>1, <2>2
<1>4. Len(c) <= a + n BY <1>2 DEF UpTo
<1>5. UpTo(c, a + n) BY <1>3, <1>4 DEF UpTo
<1>6. QED BY <1>2, <1>5 DEF c, t

LEMMA UpToTail ==
  ASSUME NEW h \in Seq(Nat), NEW t \in Seq(Nat), NEW a \in Nat, UpTo(Cat(h, t), a)
  PROVE  /\ UpTo(t, a) /\ Len(Cat(h, t)) = Len(h) + Len(t)
         /\ \A j \in 1 .. Len(h) : h[j] = a - Len(Cat(h, t)) + j
<1> DEFINE c == Cat(h, t)
<1>1. /\ Len(c) = Len(h) + Len(t) /\ Len(h) \in Nat /\ Len(t) \in Nat
      /\ \A j \in 1 .. Len(c) : c[j] = IF j <= Len(h) THEN h[j] ELSE t[j - Len(h)]
  BY CatAt
<1> HIDE DEF c
<1>2. Len(c) <= a /\ \A j \in 1 .. Len(c) : c[j] = a - Len(c) + j
  BY DEF UpTo, c
<1>3. ASSUME NEW j \in 1 .. Len(h) PROVE h[j] = a - Len(c) + j
  BY <1>1, <1>2
<1>4. ASSUME NEW j \in 1 .. Len(t) PROVE t[j] = a - Len(t) + j
  <2> DEFINE k == j + Len(h)
  <2>1. k \in 1 .. Len(c) /\ ~(k <= Len(h)) /\ k - Len(h) = j BY <1>1
  <2>2. c[k] = t[j] BY <1>1, <2>1
  <2>3. QED BY <1>1, <1>2, <2>1, <2>2
<1>5. UpTo(t, a) BY <1>1, <1>2, <1>4 DEF UpTo
<1>6. QED BY <1>1, <1>3, <1>5 DEF c

-----------------------------------------------------------------------------
(* The inductive invariant. *)

PcbStates == {"null", "CLOSED", "SYN_SENT", "ESTABLISHED", "CLOSE_WAIT"}
CallbackStates == {"ready", "fin", "err", "ack", "undefined"}

Types ==
  /\ pcb \in PcbStates /\ hooks \in 0 .. 5 /\ pending \in BOOLEAN /\ tcpip \in CallbackStates
  /\ sketch \in Sketch
  /\ rx \in Seq(Seq(1 .. MaxIn)) /\ offset \in Nat /\ unacked \in 0 .. Window
  /\ arrived \in 0 .. MaxIn /\ got \in Seq(1 .. MaxIn) /\ lost \subseteq 1 .. MaxIn
  /\ used \in 0 .. SndBuf /\ waiting \in 0 .. 255 /\ writes \in 0 .. MaxWrites

\* What _write_some is about to send fits the send buffer, and _send_waiting is 0
\* outside of a write.
Sending ==
  /\ sketch.pc = "chunk" => sketch.will <= sketch.todo /\ used + sketch.will <= SndBuf
  /\ sketch.pc \notin {"some", "chunk", "check", "delay"} => waiting = 0

\* Nothing calls back before connect().  A connection has all its callbacks until the
\* sketch takes them away, and none is left when it is gone.
Living ==
  /\ sketch.pc = "new" => pcb = "CLOSED" /\ tcpip = "ready"
  /\ pcb = "null" => hooks = 0
  /\ pcb # "null" => hooks = 5 \/ sketch.pc \in Closing
  /\ sketch.pc \in Closing => pcb # "null" /\ hooks < 5
  /\ sketch.pc = "deleted" => pcb = "null"
  /\ ~Running => sketch.pc \in Closing \cup {"deleted"}

InLast == sketch.pc \in {"last", "freed"}

\* The bytes in the chain are the last ones that have arrived; a read asks for bytes
\* that are there.
Chain ==
  /\ UpTo(Bytes(rx), arrived)
  /\ \A i \in 1 .. Len(rx) : rx[i] # <<>>
  /\ IF rx = <<>> THEN offset = 0 ELSE offset < Len(Head(rx))
  /\ sketch.pc \in {"read", "last", "freed"} => rx # <<>>
  /\ sketch.pc = "read" => 0 < sketch.todo /\ sketch.todo <= Len(Bytes(rx)) - offset

\* The number of the last byte before those that will be read next.
ReadTo == arrived - Len(Bytes(rx)) + (IF InLast THEN Len(Head(rx)) ELSE offset)

\* What was read is in order and before what will be read; what was lost came before
\* what is in the chain.
Order ==
  /\ InOrder
  /\ \A i \in 1 .. Len(got) : got[i] <= ReadTo
  /\ \A b \in lost : b <= arrived - Len(Bytes(rx))

Inv == Types /\ Sending /\ Living /\ Chain /\ Order /\ WindowExact

-----------------------------------------------------------------------------
(* Types, what is being sent, and the life of the context. *)

Reads == {"read", "last", "freed"}

LEMMA Sizes ==
  /\ MaxIn \in Nat /\ MaxWrites \in Nat /\ MaxPolls \in Nat /\ Window \in Nat
  /\ SndBuf \in Nat /\ ChunkSize \in Nat \ {0} /\ 0 \in 0 .. MaxPolls + 1
BY ContextAssumption

LEMMA SeqParts ==
  ASSUME NEW B, NEW s \in Seq(B) PROVE Len(s) \in Nat /\ \A i \in 1 .. Len(s) : s[i] \in B
OBVIOUS

LEMMA TailAt ==
  ASSUME NEW B, NEW s \in Seq(B), Len(s) > 1
  PROVE  /\ Len(Tail(s)) = Len(s) - 1 /\ Tail(s) # <<>> /\ Head(Tail(s)) = Tail(s)[1]
         /\ \A i \in 1 .. Len(Tail(s)) : Tail(s)[i] = s[i + 1]
<1>1. Len(s) \in Nat /\ s # <<>> OBVIOUS
<1>2. Tail(s) \in Seq(B) /\ Len(Tail(s)) = Len(s) - 1 BY <1>1
<1>3. Tail(s) # <<>>
  <2>1. Len(Tail(s)) # 0 BY <1>1, <1>2
  <2>2. Len(<<>>) = 0 OBVIOUS
  <2>3. QED BY <2>1, <2>2
<1>4. \A i \in 1 .. Len(Tail(s)) : Tail(s)[i] = s[i + 1] BY <1>1, <1>2
<1>5. Head(Tail(s)) = Tail(s)[1] BY <1>2, <1>3
<1>6. QED BY <1>2, <1>3, <1>4, <1>5

LEMMA AppendAt ==
  ASSUME NEW B, NEW s \in Seq(B), NEW x \in B
  PROVE  /\ Append(s, x) \in Seq(B) /\ Len(Append(s, x)) = Len(s) + 1 /\ Len(s) \in Nat
         /\ \A i \in 1 .. Len(s) : Append(s, x)[i] = s[i]
         /\ Append(s, x)[Len(s) + 1] = x /\ Append(s, x) # <<>>
         /\ Head(Append(s, x)) = IF s = <<>> THEN x ELSE Head(s)
         /\ s # <<>> => Tail(Append(s, x)) = Append(Tail(s), x)
<1> DEFINE a == Append(s, x)
<1>1. /\ a \in Seq(B) /\ Len(a) = Len(s) + 1 /\ Len(s) \in Nat
      /\ \A i \in 1 .. Len(s) : a[i] = s[i]
      /\ a[Len(s) + 1] = x
  OBVIOUS
<1>2. a # <<>>
  <2>1. Len(a) # 0 BY <1>1
  <2>2. Len(<<>>) = 0 OBVIOUS
  <2>3. QED BY <2>1, <2>2
<1>3. Head(a) = IF s = <<>> THEN x ELSE Head(s)
  <2>1. Head(a) = a[1] BY <1>1, <1>2
  <2>2. CASE s = <<>> BY <1>1, <2>1, <2>2
  <2>3. CASE s # <<>>
    <3>1. Head(s) = s[1] /\ 1 \in 1 .. Len(s) BY <2>3
    <3>2. QED BY <1>1, <2>1, <2>3, <3>1
  <2>4. QED BY <2>2, <2>3
<1>4. ASSUME s # <<>> PROVE Tail(a) = Append(Tail(s), x)
  BY <1>4
<1>5. QED BY <1>1, <1>2, <1>3, <1>4

LEMMA AtTypes ==
  ASSUME NEW c \in {"new", "connecting", "idle", "read", "last", "freed", "some", "chunk",
                    "check", "delay", "unref", "discarded", "deleted", "stopping",
                    "aborting", "releasing"}
  PROVE  At(c) \in Sketch /\ At(c).pc = c
BY ContextAssumption DEF At, Sketch, Closing

LEMMA SketchTypes ==
  ASSUME sketch \in Sketch
  PROVE  /\ sketch.todo \in Nat /\ sketch.will \in Nat /\ sketch.out \in BOOLEAN
         /\ sketch.polls \in 0 .. MaxPolls + 1
BY DEF Sketch

\* The chain and its first segment.
LEMMA ChainFacts ==
  ASSUME Types, Chain
  PROVE  /\ Bytes(rx) \in Seq(1 .. MaxIn) /\ Len(Bytes(rx)) \in Nat
         /\ Len(Bytes(rx)) <= arrived /\ arrived \in Nat /\ offset \in Nat
         /\ rx # <<>> =>
              /\ Head(rx) \in Seq(1 .. MaxIn) /\ Len(Head(rx)) \in Nat
              /\ Len(rx) \in Nat /\ Len(rx) > 0
              /\ 0 <= offset /\ offset < Len(Head(rx))
              /\ Tail(rx) \in Seq(Seq(1 .. MaxIn)) /\ Bytes(Tail(rx)) \in Seq(1 .. MaxIn)
              /\ Len(Bytes(Tail(rx))) \in Nat /\ UpTo(Bytes(Tail(rx)), arrived)
              /\ Len(Bytes(rx)) = Len(Head(rx)) + Len(Bytes(Tail(rx)))
              /\ \A j \in 1 .. Len(Head(rx)) : Head(rx)[j] = arrived - Len(Bytes(rx)) + j
<1>1. rx \in Seq(Seq(1 .. MaxIn)) /\ arrived \in Nat /\ offset \in Nat /\ MaxIn \in Nat
  BY ContextAssumption DEF Types
<1>2. Bytes(rx) \in Seq(1 .. MaxIn)
  <2>1. CASE rx = <<>>
    <3>1. Bytes(rx) = <<>> /\ <<>> \in Seq(1 .. MaxIn) BY <2>1, BytesEmpty
    <3>2. QED BY <3>1
  <2>2. CASE rx # <<>> BY <1>1, <2>2, BytesTail
  <2>3. QED BY <2>1, <2>2
<1>3. Len(Bytes(rx)) \in Nat /\ Len(Bytes(rx)) <= arrived
  BY <1>2 DEF Chain, UpTo
<1>4. ASSUME rx # <<>>
      PROVE  /\ Head(rx) \in Seq(1 .. MaxIn) /\ Len(Head(rx)) \in Nat
             /\ Len(rx) \in Nat /\ Len(rx) > 0
             /\ 0 <= offset /\ offset < Len(Head(rx))
             /\ Tail(rx) \in Seq(Seq(1 .. MaxIn)) /\ Bytes(Tail(rx)) \in Seq(1 .. MaxIn)
             /\ Len(Bytes(Tail(rx))) \in Nat /\ UpTo(Bytes(Tail(rx)), arrived)
             /\ Len(Bytes(rx)) = Len(Head(rx)) + Len(Bytes(Tail(rx)))
             /\ \A j \in 1 .. Len(Head(rx)) : Head(rx)[j] = arrived - Len(Bytes(rx)) + j
  <2> DEFINE h == Head(rx)
             t == Bytes(Tail(rx))
  <2>1. /\ h \in Seq(1 .. MaxIn) /\ t \in Seq(1 .. MaxIn) /\ Tail(rx) \in Seq(Seq(1 .. MaxIn))
        /\ Bytes(rx) = Cat(h, t)
    BY <1>1, <1>4, BytesTail
  <2>2. UpTo(Bytes(rx), arrived) /\ 0 <= offset /\ offset < Len(Head(rx))
    BY <1>1, <1>4 DEF Chain
  <2>3. Len(rx) \in Nat /\ Len(rx) > 0 BY <1>1, <1>4
  <2> HIDE DEF h, t
  <2>4. h \in Seq(Nat) /\ t \in Seq(Nat) /\ Len(h) \in Nat /\ Len(t) \in Nat BY <1>1, <2>1
  <2>5. UpTo(t, arrived) /\ Len(Bytes(rx)) = Len(h) + Len(t)
        /\ \A j \in 1 .. Len(h) : h[j] = arrived - Len(Bytes(rx)) + j
    BY <1>1, <2>1, <2>2, <2>4, UpToTail
  <2>6. QED BY <2>1, <2>2, <2>3, <2>4, <2>5 DEF h, t
<1>5. QED BY <1>1, <1>2, <1>3, <1>4

LEMMA GotTypes ==
  ASSUME Types PROVE Len(got) \in Nat /\ \A i \in 1 .. Len(got) : got[i] \in 1 .. MaxIn
<1>1. got \in Seq(1 .. MaxIn) BY DEF Types
<1>2. QED BY <1>1, SeqParts

LEMMA LostFinite ==
  ASSUME Types PROVE IsFiniteSet(lost) /\ Cardinality(lost) \in Nat
<1>1. IsFiniteSet(1 .. MaxIn) BY ContextAssumption, FS_Interval
<1>2. lost \in SUBSET (1 .. MaxIn) BY DEF Types
<1>3. IsFiniteSet(lost) BY <1>1, <1>2, FS_Subset
<1>4. QED BY <1>3, FS_CardinalityType

\* The steps of the sketch's task that neither read nor free the chain, and every
\* callback but _recv.
LEMMA ChainKept ==
  ASSUME Types, Chain, Order, WindowExact, UNCHANGED rxVars, pcb' # "null" => pcb # "null",
         \/ sketch' = sketch
         \/ sketch.pc \notin Reads /\ sketch'.pc \notin Reads
  PROVE  Chain' /\ Order' /\ WindowExact'
<1>1. /\ rx' = rx /\ offset' = offset /\ unacked' = unacked
      /\ arrived' = arrived /\ got' = got /\ lost' = lost
  BY DEF rxVars
<1>2. Bytes(rx)' = Bytes(rx) BY <1>1
<1>3. /\ (sketch.pc = "read")' = (sketch.pc = "read")
      /\ (sketch.pc = "freed")' = (sketch.pc = "freed")
      /\ (sketch.pc = "last")' = (sketch.pc = "last")
      /\ sketch.pc = "read" => sketch'.todo = sketch.todo
  BY DEF Reads
<1>4. Chain' BY <1>1, <1>2, <1>3 DEF Chain
<1>5. InLast' = InLast BY <1>3 DEF InLast
<1>6. ReadTo' = ReadTo BY <1>1, <1>2, <1>5 DEF ReadTo
<1>7. Order' BY <1>1, <1>2, <1>6 DEF Order, InOrder
<1>8. WindowExact' BY <1>1, <1>2, <1>3 DEF WindowExact
<1>9. QED BY <1>4, <1>7, <1>8

\* discard_received.
LEMMA ChainFreed ==
  ASSUME Types, Chain, Order, rx' = <<>>, offset' = 0, UNCHANGED <<arrived, got, lost>>,
         pcb' # "null" => unacked' = Cardinality(lost), sketch'.pc \notin Reads
  PROVE  Chain' /\ Order' /\ WindowExact'
<1>1. Bytes(rx)' = <<>> BY BytesEmpty
<1>2. arrived \in Nat /\ Len(<<>>) = 0 BY ContextAssumption DEF Types
<1>3. Chain' BY <1>1, <1>2 DEF Chain, UpTo, Reads
<1>4. ReadTo' = arrived BY <1>1, <1>2 DEF ReadTo, InLast, Reads
<1>5. ReadTo \in Int /\ ReadTo <= arrived
  BY ChainFacts DEF ReadTo, InLast, Chain, Types
<1>6. \A i \in 1 .. Len(got) : got[i] \in Int BY GotTypes
<1>7. \A b \in lost : b \in Int BY DEF Types
<1>8. Order'
  <2>1. InOrder' BY DEF Order, InOrder
  <2>2. \A i \in 1 .. Len(got') : got'[i] <= ReadTo' BY <1>2, <1>4, <1>5, <1>6 DEF Order
  <2>3. \A b \in lost' : b <= arrived' - Len(Bytes(rx)')
    BY <1>1, <1>2, <1>7, ChainFacts DEF Order
  <2>4. QED BY <2>1, <2>2, <2>3 DEF Order
<1>9. WindowExact'
  <2>1. Cardinality(lost) \in Nat /\ Cardinality(lost') = Cardinality(lost) BY LostFinite
  <2>2. QED BY <1>1, <1>2, <2>1 DEF WindowExact, Reads
<1>10. QED BY <1>3, <1>8, <1>9

-----------------------------------------------------------------------------
(* The steps that read the chain, and the one that appends to it. *)

LEMMA ReadStarts ==
  ASSUME Types, Chain, Order, WindowExact, read PROVE Types' /\ Chain' /\ Order' /\ WindowExact'
<1>1. PICK n \in ReadLens :
        sketch' = [At("read") EXCEPT !.todo = Smaller(n, Len(Bytes(rx)) - offset)]
  BY DEF read
<1>2. /\ rx' = rx /\ offset' = offset /\ unacked' = unacked
      /\ arrived' = arrived /\ got' = got /\ lost' = lost /\ rx # <<>>
      /\ sketch.pc = "idle" /\ UNCHANGED <<pcb, hooks, pending, tcpip, txVars>>
  BY DEF read, rxVars
<1> DEFINE d == Len(Bytes(rx)) - offset
           m == Smaller(n, d)
<1>3. n \in Nat /\ n > 0 BY ContextAssumption
<1>4. d \in Nat /\ d > 0 BY <1>2, ChainFacts
<1>5. m \in Nat /\ m > 0 /\ m <= d
  <2> HIDE DEF d
  <2>1. QED BY <1>3, <1>4 DEF Smaller
<1> HIDE DEF m
<1>6. sketch' = [At("read") EXCEPT !.todo = m] BY <1>1 DEF m
<1>7. sketch' \in Sketch /\ sketch'.pc = "read" /\ sketch'.todo = m
  BY <1>5, <1>6, Sizes DEF At, Sketch
<1>8. Types' BY <1>2, <1>7 DEF Types, txVars
<1>9. Bytes(rx)' = Bytes(rx) BY <1>2
<1>10. Chain' BY <1>2, <1>5, <1>7, <1>9 DEF Chain
<1>11. ReadTo' = ReadTo BY <1>2, <1>7, <1>9 DEF ReadTo, InLast
<1>12. Order' BY <1>2, <1>9, <1>11 DEF Order, InOrder
<1>13. WindowExact' BY <1>2, <1>7, <1>9 DEF WindowExact
<1>14. QED BY <1>8, <1>10, <1>12, <1>13

\* What a round of the loop of read copies comes after all that was read before.
LEMMA Copied ==
  ASSUME Types, Chain, Order, sketch.pc = "read",
         NEW n \in Nat, n > 0, n <= Len(Head(rx)) - offset,
         got' = got \o SubSeq(Head(rx), offset + 1, offset + n)
  PROVE  /\ got' \in Seq(1 .. MaxIn) /\ InOrder'
         /\ \A i \in 1 .. Len(got') : got'[i] <= arrived - Len(Bytes(rx)) + offset + n
<1> DEFINE h == Head(rx)
           b == SubSeq(h, offset + 1, offset + n)
           base == arrived - Len(Bytes(rx))
<1>1. /\ rx # <<>> /\ h \in Seq(1 .. MaxIn) /\ Len(h) \in Nat /\ offset \in Nat /\ base \in Nat
      /\ \A j \in 1 .. Len(h) : h[j] = base + j
  <2>1. rx # <<>> BY DEF Chain
  <2>2. base \in Nat BY ChainFacts
  <2>3. h \in Seq(1 .. MaxIn) /\ Len(h) \in Nat /\ offset \in Nat BY <2>1, ChainFacts
  <2>4. \A j \in 1 .. Len(h) : h[j] = base + j BY <2>1, ChainFacts
  <2>5. QED BY <2>1, <2>2, <2>3, <2>4
<1>2. Len(got) \in Nat /\ got \in Seq(1 .. MaxIn)
      /\ \A i \in 1 .. Len(got) : got[i] \in 1 .. MaxIn /\ got[i] <= base + offset
  <2>1. \A i \in 1 .. Len(got) : got[i] <= base + offset BY DEF Order, ReadTo, InLast
  <2>2. QED BY <2>1, GotTypes DEF Types
<1>3. \A i, j \in 1 .. Len(got) : i < j => got[i] < got[j] BY DEF Order, InOrder
<1> HIDE DEF h, base
<1>4. /\ b \in Seq(1 .. MaxIn) /\ Len(b) = n
      /\ \A k \in 1 .. n : b[k] = h[offset + k]
  <2> DEFINE l == offset + 1
             u == offset + n
  <2>1. /\ l \in Int /\ u \in Int /\ l <= u /\ u - l + 1 = n
        /\ \A i \in l .. u : i \in 1 .. Len(h)
    BY <1>1 DEF h
  <2>2. \A k \in 1 .. n : l + k - 1 = offset + k BY <1>1
  <2>3. b = SubSeq(h, l, u) OBVIOUS
  <2> HIDE DEF l, u, b
  <2>4. \A i \in l .. u : h[i] \in 1 .. MaxIn BY <1>1, <2>1, SeqParts
  <2>5. /\ b \in Seq(1 .. MaxIn) /\ Len(b) = IF l <= u THEN u - l + 1 ELSE 0
        /\ \A k \in 1 .. u - l + 1 : b[k] = h[l + k - 1]
    BY <2>1, <2>3, <2>4, SubSeqProperties
  <2>6. QED BY <2>1, <2>2, <2>5
<1> HIDE DEF b
<1>5. \A k \in 1 .. n : b[k] = base + offset + k
  <2>1. ASSUME NEW k \in 1 .. n PROVE b[k] = base + offset + k
    <3> DEFINE j == offset + k
    <3>1. j \in 1 .. Len(h) BY <1>1 DEF h
    <3>2. h[j] = base + j BY <1>1, <3>1
    <3>3. QED BY <1>1, <1>4, <3>2
  <2>2. QED BY <2>1
<1>6. got' = Cat(got, b) BY DEF Cat, b, h
<1> DEFINE g == Cat(got, b)
<1>7. /\ g \in Seq(1 .. MaxIn) /\ Len(g) = Len(got) + n
      /\ \A j \in 1 .. Len(g) : g[j] = IF j <= Len(got) THEN got[j] ELSE b[j - Len(got)]
  BY <1>2, <1>4, CatType, CatAt
<1> HIDE DEF g
<1>8. ASSUME NEW i \in 1 .. Len(g)
      PROVE  /\ i <= Len(got) => g[i] = got[i] /\ g[i] <= base + offset /\ i \in 1 .. Len(got)
             /\ i > Len(got) => g[i] = base + offset + (i - Len(got))
             /\ g[i] \in Int
  <2>1. CASE i <= Len(got) BY <1>2, <1>7, <2>1
  <2>2. CASE i > Len(got)
    <3> DEFINE k == i - Len(got)
    <3>1. k \in 1 .. n /\ g[i] = b[k] BY <1>2, <1>7, <2>2
    <3>2. b[k] = base + offset + k BY <1>5, <3>1
    <3>3. QED BY <1>1, <1>2, <2>2, <3>1, <3>2
  <2>3. QED BY <1>2, <1>7, <2>1, <2>2
<1>9. ASSUME NEW i \in 1 .. Len(g) PROVE g[i] <= base + offset + n
  <2>1. Len(g) = Len(got) + n /\ Len(got) \in Nat /\ base \in Nat /\ offset \in Nat
    BY <1>1, <1>2, <1>7
  <2>2. CASE i <= Len(got) BY <1>8, <2>1, <2>2
  <2>3. CASE i > Len(got) BY <1>8, <2>1, <2>3
  <2>4. QED BY <2>1, <2>2, <2>3
<1>10. ASSUME NEW i \in 1 .. Len(g), NEW j \in 1 .. Len(g), i < j PROVE g[i] < g[j]
  <2>1. Len(g) \in Nat /\ Len(got) \in Nat /\ base \in Nat /\ offset \in Nat BY <1>1, <1>2, <1>7
  <2>2. CASE j <= Len(got)
    <3>1. g[i] = got[i] /\ g[j] = got[j] /\ i \in 1 .. Len(got) /\ j \in 1 .. Len(got)
      BY <1>8, <1>10, <2>1, <2>2
    <3>2. QED BY <1>3, <1>10, <3>1
  <2>3. CASE i <= Len(got) /\ j > Len(got) BY <1>8, <2>1, <2>3
  <2>4. CASE i > Len(got) BY <1>8, <1>10, <2>1, <2>4
  <2>5. QED BY <1>10, <2>1, <2>2, <2>3, <2>4
<1>11. InOrder' BY <1>6, <1>10 DEF InOrder, g
<1>12. QED BY <1>6, <1>7, <1>9, <1>11 DEF g, base

\* A round of the loop of read.
LEMMA CopyStep ==
  ASSUME Types, Chain, Order, WindowExact, Copy PROVE Types' /\ Chain' /\ Order' /\ WindowExact'
<1> DEFINE room == Len(Head(rx)) - offset
           n == Smaller(sketch.todo, room)
           left == sketch.todo - n
           more == [sketch EXCEPT !.todo = @ - n]
           done == IF more.todo = 0 THEN At("idle") ELSE more
<1>1. /\ sketch.pc = "read" /\ got' = got \o SubSeq(Head(rx), offset + 1, offset + n)
      /\ UNCHANGED <<pcb, hooks, pending, tcpip, arrived, lost, txVars>>
      /\ \/ BytesLeft(n) /\ offset' = Advanced(n) /\ sketch' = done
            /\ UNCHANGED <<rx, unacked>>
         \/ ~BytesLeft(n) /\ Len(rx) = 1 /\ sketch' = [more EXCEPT !.pc = "last"]
            /\ UNCHANGED <<rx, offset, unacked>>
         \/ ~BytesLeft(n) /\ Len(rx) > 1 /\ rx' = Tail(rx) /\ offset' = 0
            /\ Recved(Len(Head(rx))) /\ sketch' = done
  BY DEF Copy
<1>2. /\ rx # <<>> /\ sketch \in Sketch /\ sketch.todo \in Nat /\ sketch.todo > 0
      /\ sketch.todo <= Len(Bytes(rx)) - offset
  BY <1>1, SketchTypes DEF Chain, Types
<1>3. /\ Len(Head(rx)) \in Nat /\ offset \in Nat /\ offset < Len(Head(rx))
      /\ Len(Bytes(rx)) \in Nat /\ Len(Bytes(rx)) <= arrived /\ arrived \in Nat
      /\ Len(Bytes(rx)) = Len(Head(rx)) + Len(Bytes(Tail(rx)))
      /\ Len(Bytes(Tail(rx))) \in Nat
  BY <1>2, ChainFacts
<1>4. room \in Nat /\ room > 0 BY <1>3
<1>5. n \in Nat /\ n > 0 /\ n <= room /\ n <= sketch.todo /\ (n = sketch.todo \/ n = room)
  <2> HIDE DEF room
  <2>1. QED BY <1>2, <1>4 DEF Smaller
<1> HIDE DEF n
<1>6. left \in Nat BY <1>2, <1>5
<1>7. /\ more \in Sketch /\ more.pc = "read" /\ more.todo = left
      /\ [more EXCEPT !.pc = "last"] \in Sketch
  <2> HIDE DEF left
  <2>1. more = [sketch EXCEPT !.todo = left] BY DEF left
  <2>2. QED BY <1>1, <1>2, <1>6, <2>1 DEF Sketch
<1>8. /\ done \in Sketch
      /\ \/ done.pc = "idle" /\ left = 0
         \/ done.pc = "read" /\ done.todo = left /\ left > 0
  <2> HIDE DEF more, left
  <2>1. QED BY <1>6, <1>7, AtTypes
<1>9. /\ got' \in Seq(1 .. MaxIn) /\ InOrder'
      /\ \A i \in 1 .. Len(got') : got'[i] <= arrived - Len(Bytes(rx)) + offset + n
  BY <1>1, <1>5, Copied
<1> HIDE DEF more, done
<1>10. ASSUME BytesLeft(n), offset' = Advanced(n), sketch' = done, UNCHANGED <<rx, unacked>>
       PROVE  Types' /\ Chain' /\ Order' /\ WindowExact'
  <2>1. offset + n < Len(Head(rx)) /\ offset' = offset + n /\ offset' \in Nat
    BY <1>3, <1>5, <1>10 DEF BytesLeft, Advanced
  <2>2. left = 0 /\ sketch'.pc = "idle" BY <1>2, <1>3, <1>5, <1>8, <1>10, <2>1
  <2>3. Types' BY <1>1, <1>8, <1>9, <1>10, <2>1 DEF Types, txVars
  <2>4. Bytes(rx)' = Bytes(rx) BY <1>10
  <2>5. Chain' BY <1>1, <1>2, <1>10, <2>1, <2>2, <2>4 DEF Chain
  <2>6. ReadTo' = arrived - Len(Bytes(rx)) + offset + n
    <3>1. arrived' = arrived /\ ~InLast' BY <1>1, <2>2 DEF InLast
    <3>2. ReadTo' = arrived - Len(Bytes(rx)) + (offset + n) BY <2>1, <2>4, <3>1 DEF ReadTo
    <3>3. QED BY <1>3, <1>5, <3>2
  <2>7. Order' BY <1>1, <1>9, <2>4, <2>6 DEF Order
  <2>8. WindowExact' BY <1>1, <1>10, <2>2, <2>4 DEF WindowExact
  <2>9. QED BY <2>3, <2>5, <2>7, <2>8
<1>11. ASSUME ~BytesLeft(n), sketch' = [more EXCEPT !.pc = "last"],
              UNCHANGED <<rx, offset, unacked>>
       PROVE  Types' /\ Chain' /\ Order' /\ WindowExact'
  <2>1. offset + n = Len(Head(rx)) BY <1>3, <1>5, <1>11 DEF BytesLeft
  <2>2. sketch' \in Sketch /\ sketch'.pc = "last" BY <1>7, <1>11 DEF Sketch
  <2>3. Types' BY <1>1, <1>9, <1>11, <2>2 DEF Types, txVars
  <2>4. Bytes(rx)' = Bytes(rx) BY <1>11
  <2>5. Chain' BY <1>1, <1>2, <1>11, <2>2, <2>4 DEF Chain
  <2>6. ReadTo' = arrived - Len(Bytes(rx)) + offset + n
    <3>1. arrived' = arrived /\ InLast' BY <1>1, <2>2 DEF InLast
    <3>2. ReadTo' = arrived - Len(Bytes(rx)) + Len(Head(rx)) BY <1>11, <2>4, <3>1 DEF ReadTo
    <3>3. QED BY <1>3, <1>5, <2>1, <3>2
  <2>7. Order' BY <1>1, <1>9, <2>4, <2>6 DEF Order
  <2>8. WindowExact' BY <1>1, <1>11, <2>2, <2>4 DEF WindowExact
  <2>9. QED BY <2>3, <2>5, <2>7, <2>8
<1>12. ASSUME ~BytesLeft(n), Len(rx) > 1, rx' = Tail(rx), offset' = 0,
              Recved(Len(Head(rx))), sketch' = done
       PROVE  Types' /\ Chain' /\ Order' /\ WindowExact'
  <2>1. offset + n = Len(Head(rx)) BY <1>3, <1>5, <1>12 DEF BytesLeft
  <2>2. Bytes(rx)' = Bytes(Tail(rx)) BY <1>12
  <2>3. /\ sketch' \in Sketch
        /\ \/ sketch'.pc = "idle" /\ left = 0
           \/ sketch'.pc = "read" /\ sketch'.todo = left /\ left > 0
    BY <1>8, <1>12
  <2>4. left <= Len(Bytes(Tail(rx))) BY <1>2, <1>3, <1>5, <2>1
  <2>5. /\ Tail(rx) \in Seq(Seq(1 .. MaxIn)) /\ UpTo(Bytes(Tail(rx)), arrived) /\ Tail(rx) # <<>>
        /\ \A i \in 1 .. Len(Tail(rx)) : Tail(rx)[i] # <<>>
        /\ Head(Tail(rx)) \in Seq(1 .. MaxIn) /\ Head(Tail(rx)) # <<>>
    <3>1. rx \in Seq(Seq(1 .. MaxIn)) /\ \A i \in 1 .. Len(rx) : rx[i] # <<>>
      BY DEF Types, Chain
    <3>2. Tail(rx) \in Seq(Seq(1 .. MaxIn)) /\ UpTo(Bytes(Tail(rx)), arrived)
      BY <1>2, ChainFacts
    <3> DEFINE t == Tail(rx)
    <3>3. /\ Len(t) = Len(rx) - 1 /\ Len(rx) \in Nat /\ t # <<>> /\ Head(t) = t[1]
          /\ \A i \in 1 .. Len(t) : t[i] = rx[i + 1]
      BY <1>12, <3>1, TailAt, SeqParts
    <3> HIDE DEF t
    <3>4. \A i \in 1 .. Len(t) : i + 1 \in 1 .. Len(rx) BY <3>3
    <3>5. \A i \in 1 .. Len(t) : t[i] # <<>> BY <3>1, <3>3, <3>4
    <3>6. 1 \in 1 .. Len(t) BY <1>12, <3>3
    <3>7. t[1] \in Seq(1 .. MaxIn) BY <3>2, <3>6, SeqParts DEF t
    <3>8. QED BY <3>2, <3>3, <3>5, <3>6, <3>7 DEF t
  <2>6. 0 < Len(Head(Tail(rx)))
    <3> DEFINE h == Head(Tail(rx))
    <3>1. h \in Seq(1 .. MaxIn) /\ h # <<>> BY <2>5
    <3> HIDE DEF h
    <3>2. 0 < Len(h) BY <3>1
    <3>3. QED BY <3>2 DEF h
  <2>7. Chain'
    <3>1. UpTo(Bytes(rx)', arrived') BY <1>1, <2>2, <2>5
    <3>2. \A i \in 1 .. Len(rx') : rx'[i] # <<>> BY <1>12, <2>5
    <3>3. rx' # <<>> /\ offset' < Len(Head(rx')) BY <1>12, <2>5, <2>6
    <3>4. sketch'.pc = "read" => 0 < sketch'.todo /\ sketch'.todo <= Len(Bytes(rx)') - offset'
      <4>1. ASSUME sketch'.pc = "read" PROVE sketch'.todo = left /\ left > 0 BY <2>3, <4>1
      <4>2. Len(Bytes(rx)') = Len(Bytes(Tail(rx))) BY <2>2
      <4> HIDE DEF left
      <4>3. Len(Bytes(Tail(rx))) - 0 = Len(Bytes(Tail(rx))) BY <1>3
      <4>4. QED BY <1>6, <1>12, <2>4, <4>1, <4>2, <4>3
    <3>5. QED BY <3>1, <3>2, <3>3, <3>4 DEF Chain
  <2>8. unacked' \in 0 .. Window /\ WindowExact'
    <3>1. unacked \in 0 .. Window /\ Cardinality(lost) \in Nat /\ Window \in Nat
      BY LostFinite, Sizes DEF Types
    <3>2. CASE pcb = "null" BY <1>1, <1>12, <3>1, <3>2 DEF Recved, WindowExact
    <3>3. CASE pcb # "null"
      <4>1. unacked = Cardinality(lost) + Len(Bytes(rx)) BY <1>1, <3>3 DEF WindowExact
      <4>2. unacked' = Cardinality(lost) + Len(Bytes(Tail(rx)))
        <5>1. unacked' = unacked - Len(Head(rx)) BY <1>12, <3>3 DEF Recved
        <5> DEFINE x == Len(Head(rx))
                   y == Len(Bytes(Tail(rx)))
                   z == Len(Bytes(rx))
                   c == Cardinality(lost)
        <5>2. x \in Nat /\ y \in Nat /\ z = x + y /\ c \in Nat /\ unacked = c + z
              /\ unacked' = unacked - x
          BY <1>3, <3>1, <4>1, <5>1
        <5> HIDE DEF x, y, z, c
        <5>3. unacked' = c + y BY <5>2
        <5>4. QED BY <5>3 DEF y, c
      <4>3. unacked' \in 0 .. Window BY <1>3, <3>1, <4>1, <4>2
      <4>4. WindowExact' BY <1>1, <2>2, <2>3, <4>2 DEF WindowExact
      <4>5. QED BY <4>3, <4>4
    <3>4. QED BY <3>2, <3>3
  <2>9. Types' BY <1>1, <1>9, <1>12, <2>3, <2>5, <2>8 DEF Types, txVars
  <2>10. ReadTo' = arrived - Len(Bytes(rx)) + offset + n
    <3>1. arrived' = arrived /\ ~InLast' BY <1>1, <2>3 DEF InLast
    <3>2. ReadTo' = arrived - Len(Bytes(Tail(rx))) + 0 BY <1>12, <2>2, <3>1 DEF ReadTo
    <3>3. QED BY <1>3, <1>5, <2>1, <3>2
  <2>11. \A b \in lost' : b <= arrived' - Len(Bytes(rx)')
    <3>1. \A b \in lost : b \in Int /\ b <= arrived - Len(Bytes(rx)) BY DEF Types, Order
    <3>2. QED BY <1>1, <1>3, <2>2, <3>1
  <2>12. Order' BY <1>1, <1>9, <2>10, <2>11 DEF Order
  <2>13. QED BY <2>7, <2>8, <2>9, <2>12
<1>13. QED BY <1>1, <1>10, <1>11, <1>12

LEMMA FreeLastStep ==
  ASSUME Types, Chain, Order, WindowExact, FreeLast
  PROVE  Types' /\ Chain' /\ Order' /\ WindowExact'
<1>1. /\ sketch.pc = "last" /\ sketch' = [sketch EXCEPT !.pc = "freed"]
      /\ Recved(Len(Head(rx)))
      /\ UNCHANGED <<pcb, hooks, pending, tcpip, rx, offset, arrived, got, lost, txVars>>
  BY DEF FreeLast, RecvedLast
<1>2. sketch' \in Sketch /\ sketch'.pc = "freed" BY <1>1 DEF Types, Sketch
<1>3. Bytes(rx)' = Bytes(rx) /\ rx # <<>> BY <1>1 DEF Chain
<1>4. Chain' BY <1>1, <1>2, <1>3 DEF Chain
<1>5. InLast /\ InLast' BY <1>1, <1>2 DEF InLast
<1>6. ReadTo' = ReadTo BY <1>1, <1>3, <1>5 DEF ReadTo
<1>7. Order' BY <1>1, <1>3, <1>6 DEF Order, InOrder
<1>8. unacked' \in 0 .. Window /\ WindowExact'
  <2>1. unacked \in 0 .. Window /\ Cardinality(lost) \in Nat /\ Window \in Nat
    BY LostFinite, Sizes DEF Types
  <2>2. CASE pcb = "null" BY <1>1, <2>1, <2>2 DEF Recved, WindowExact
  <2>3. CASE pcb # "null"
    <3> DEFINE x == Len(Head(rx))
               y == Len(Bytes(Tail(rx)))
               z == Len(Bytes(rx))
               c == Cardinality(lost)
    <3>1. x \in Nat /\ y \in Nat /\ z = x + y /\ c \in Nat BY <1>3, <2>1, ChainFacts
    <3>2. unacked = c + z BY <1>1, <2>3 DEF WindowExact
    <3>3. unacked' = unacked - x BY <1>1, <2>3 DEF Recved
    <3> HIDE DEF x, y, z, c
    <3>4. unacked' = c + y /\ unacked' \in 0 .. Window BY <2>1, <3>1, <3>2, <3>3
    <3>5. WindowExact' BY <1>1, <1>2, <3>4 DEF WindowExact, c, y
    <3>6. QED BY <3>4, <3>5
  <2>4. QED BY <2>2, <2>3
<1>9. Types' BY <1>1, <1>2, <1>8 DEF Types, txVars
<1>10. QED BY <1>4, <1>7, <1>8, <1>9

\* The numbers of a sequence that ends at a are an interval.
LEMMA UpToRange ==
  ASSUME NEW q \in Seq(Nat), NEW a \in Nat, UpTo(q, a)
  PROVE  /\ Range(q) = (a - Len(q) + 1) .. a
         /\ IsFiniteSet(Range(q)) /\ Cardinality(Range(q)) = Len(q)
<1> DEFINE n == Len(q)
<1>1. n \in Nat /\ n <= a /\ \A j \in 1 .. n : q[j] = a - n + j BY DEF UpTo
<1>2. Range(q) = {q[j] : j \in 1 .. n} BY DEF Range
<1> HIDE DEF n
<1>3. {q[j] : j \in 1 .. n} = (a - n + 1) .. a
  <2>1. ASSUME NEW j \in 1 .. n PROVE q[j] \in (a - n + 1) .. a BY <1>1
  <2>2. ASSUME NEW b \in (a - n + 1) .. a PROVE \E j \in 1 .. n : q[j] = b
    <3> DEFINE j == b - a + n
    <3>1. j \in 1 .. n BY <1>1
    <3>2. q[j] = a - n + j BY <1>1, <3>1
    <3>3. a - n + j = b BY <1>1
    <3>4. QED BY <3>1, <3>2, <3>3
  <2>3. QED BY <2>1, <2>2
<1> DEFINE l == a - n + 1
<1>4. /\ l \in Int /\ (IF l > a THEN 0 ELSE a - l + 1) = n BY <1>1
<1>5. Range(q) = l .. a BY <1>2, <1>3
<1> HIDE DEF l
<1>6. IsFiniteSet(l .. a) /\ Cardinality(l .. a) = n BY <1>4, FS_Interval
<1>7. QED BY <1>5, <1>6 DEF l, n

LEMMA ResetStep ==
  ASSUME Types, Chain, Order, WindowExact, ResetChain
  PROVE  Types' /\ Chain' /\ Order' /\ WindowExact'
<1> DEFINE t == Bytes(Tail(rx))
           r == Range(t)
<1>1. /\ sketch.pc = "freed" /\ sketch' = At("idle") /\ rx' = <<>> /\ offset' = 0
      /\ lost' = lost \cup r
      /\ UNCHANGED <<pcb, hooks, pending, tcpip, unacked, arrived, got, txVars>>
  BY DEF ResetChain
<1>2. rx # <<>> BY <1>1 DEF Chain
<1>3. /\ t \in Seq(1 .. MaxIn) /\ UpTo(t, arrived) /\ Len(t) \in Nat
      /\ Len(Head(rx)) \in Nat /\ Len(Bytes(rx)) = Len(Head(rx)) + Len(t)
      /\ Len(Bytes(rx)) \in Nat /\ Len(Bytes(rx)) <= arrived
  BY <1>2, ChainFacts
<1>4. arrived \in Nat /\ arrived \in 0 .. MaxIn BY ChainFacts DEF Types
<1>5. sketch' \in Sketch /\ sketch'.pc = "idle" BY <1>1, AtTypes
<1> HIDE DEF t, r
<1>6. t \in Seq(Nat) BY <1>3, Sizes
<1>7. r = (arrived - Len(t) + 1) .. arrived /\ IsFiniteSet(r) /\ Cardinality(r) = Len(t)
  BY <1>3, <1>4, <1>6, UpToRange DEF r
<1>8. \A b \in lost : b \in Int /\ b <= arrived - Len(Bytes(rx)) BY DEF Types, Order
<1>9. r \subseteq 1 .. MaxIn /\ lost \cap r = {} /\ \A b \in r : b \in Int /\ b <= arrived
  BY <1>3, <1>4, <1>7, <1>8, Sizes
<1>10. Types'
  <2>1. lost' \subseteq 1 .. MaxIn BY <1>1, <1>9 DEF Types
  <2>2. <<>> \in Seq(Seq(1 .. MaxIn)) OBVIOUS
  <2>3. QED BY <1>1, <1>5, <2>1, <2>2 DEF Types, txVars
<1>11. Bytes(rx)' = <<>> /\ Len(<<>>) = 0 BY <1>1, BytesEmpty
<1>12. Chain' BY <1>1, <1>4, <1>5, <1>11 DEF Chain, UpTo
<1>13. Order'
  <2>1. ReadTo' = arrived BY <1>1, <1>4, <1>5, <1>11 DEF ReadTo, InLast
  <2>2. ReadTo \in Int /\ ReadTo <= arrived BY <1>1, <1>3, <1>4 DEF ReadTo, InLast
  <2>3. \A i \in 1 .. Len(got) : got[i] \in Int /\ got[i] <= ReadTo BY GotTypes DEF Order
  <2>4. \A i \in 1 .. Len(got') : got'[i] <= ReadTo' BY <1>1, <1>4, <2>1, <2>2, <2>3
  <2>5. InOrder' BY <1>1 DEF Order, InOrder
  <2>6. \A b \in lost' : b <= arrived' - Len(Bytes(rx)')
    <3> DEFINE z == arrived - Len(Bytes(rx))
    <3>0. z \in Int /\ z <= arrived
      <4>1. Len(Bytes(rx)) \in Nat /\ arrived \in Nat BY <1>3, <1>4
      <4>2. QED BY <4>1
    <3>1. \A b \in lost \cup r : b <= arrived
      <4>1. \A b \in lost : b \in Int /\ b <= z BY <1>8
      <4> HIDE DEF z
      <4>2. \A b \in lost : b <= arrived BY <1>4, <3>0, <4>1
      <4>3. QED BY <1>9, <4>2
    <3>2. arrived' - Len(Bytes(rx)') = arrived BY <1>1, <1>4, <1>11
    <3>3. QED BY <1>1, <3>1, <3>2
  <2>7. QED BY <2>4, <2>5, <2>6 DEF Order
<1>14. WindowExact'
  <2>1. SUFFICES ASSUME pcb' # "null"
                 PROVE  unacked' = Cardinality(lost') + Len(Bytes(rx)')
    BY <1>5 DEF WindowExact
  <2>2. unacked = Cardinality(lost) + Len(t) BY <1>1, <2>1 DEF WindowExact, t
  <2>3. IsFiniteSet(lost) /\ Cardinality(lost) \in Nat BY LostFinite
  <2>4. Cardinality(lost \cup r) = Cardinality(lost) + Cardinality(r) - Cardinality(lost \cap r)
    BY <1>7, <2>3, FS_Union
  <2>5. Cardinality(lost \cap r) = 0 BY <1>9, FS_EmptySet
  <2>6. Cardinality(lost') = Cardinality(lost) + Len(t) BY <1>1, <1>3, <1>7, <2>3, <2>4, <2>5
  <2>7. QED BY <1>1, <1>3, <1>11, <2>2, <2>3, <2>6
<1>15. QED BY <1>10, <1>12, <1>13, <1>14

LEMMA RecvStep ==
  ASSUME Types, Chain, Order, WindowExact, _recv
  PROVE  Types' /\ Chain' /\ Order' /\ WindowExact'
<1>1. PICK n \in SegLens :
        /\ unacked + n <= Window /\ arrived + n <= MaxIn
        /\ rx' = Append(rx, [i \in 1 .. n |-> arrived + i])
        /\ unacked' = unacked + n /\ arrived' = arrived + n
  BY DEF _recv
<1>2. pcb # "null" /\ UNCHANGED <<pcb, hooks, pending, sketch, tcpip, offset, got, lost, txVars>>
  BY DEF _recv
<1> DEFINE x == [i \in 1 .. n |-> arrived + i]
           L == Len(Bytes(rx))
<1>3. /\ n \in Nat /\ n > 0 /\ MaxIn \in Nat /\ Window \in Nat /\ arrived \in 0 .. MaxIn
      /\ unacked \in 0 .. Window /\ offset \in Nat /\ rx \in Seq(Seq(1 .. MaxIn))
  BY ContextAssumption, Sizes DEF Types
<1>4. x \in Seq(1 .. MaxIn) /\ x \in Seq(Nat) /\ Len(x) = n /\ x # <<>>
  <2>1. \A i \in 1 .. n : arrived + i \in 1 .. MaxIn BY <1>1, <1>3
  <2>2. x \in [1 .. n -> 1 .. MaxIn] BY <2>1
  <2>3. x \in Seq(1 .. MaxIn) /\ Len(x) = n BY <1>3, <2>2
  <2>4. x \in Seq(Nat) BY <1>3
  <2>5. Len(<<>>) = 0 OBVIOUS
  <2> HIDE DEF x
  <2>6. x # <<>> BY <1>3, <2>3, <2>5
  <2>7. QED BY <2>3, <2>4, <2>6
<1>5. Bytes(rx) \in Seq(1 .. MaxIn) /\ Bytes(rx) \in Seq(Nat) /\ L \in Nat /\ L <= arrived
  BY <1>3, ChainFacts
<1>6. Bytes(rx)' = Cat(Bytes(rx), x)
  <2> HIDE DEF x
  <2>1. rx' = Append(rx, x) BY <1>1 DEF x
  <2>2. QED BY <1>3, <1>4, <2>1, BytesAppend
<1>7. UpTo(Bytes(rx)', arrived') /\ Len(Bytes(rx)') = L + n
  <2>1. UpTo(Bytes(rx), arrived) BY DEF Chain
  <2>2. arrived \in Nat BY <1>3
  <2>3. UpTo(Cat(Bytes(rx), x), arrived + n) /\ Len(Cat(Bytes(rx), x)) = L + n
    BY <1>3, <1>5, <2>1, <2>2, UpToAppend
  <2> HIDE DEF x, L
  <2>4. QED BY <1>1, <1>6, <2>3
<1> HIDE DEF x
<1>8. /\ rx' \in Seq(Seq(1 .. MaxIn)) /\ Len(rx') = Len(rx) + 1 /\ Len(rx) \in Nat
      /\ \A i \in 1 .. Len(rx) : rx'[i] = rx[i]
      /\ rx'[Len(rx) + 1] = x /\ rx' # <<>>
      /\ Head(rx') = IF rx = <<>> THEN x ELSE Head(rx)
  <2>1. rx' = Append(rx, x) BY <1>1 DEF x
  <2> DEFINE B == Seq(1 .. MaxIn)
  <2>2. rx \in Seq(B) /\ x \in B BY <1>3, <1>4
  <2> HIDE DEF B
  <2>3. /\ Append(rx, x) \in Seq(B) /\ Len(Append(rx, x)) = Len(rx) + 1 /\ Len(rx) \in Nat
        /\ \A i \in 1 .. Len(rx) : Append(rx, x)[i] = rx[i]
        /\ Append(rx, x)[Len(rx) + 1] = x /\ Append(rx, x) # <<>>
        /\ Head(Append(rx, x)) = IF rx = <<>> THEN x ELSE Head(rx)
    BY <2>2, AppendAt
  <2>4. QED BY <2>1, <2>3 DEF B
<1>9. Chain'
  <2>1. ASSUME NEW i \in 1 .. Len(rx') PROVE rx'[i] # <<>>
    <3>1. CASE i = Len(rx) + 1 BY <1>4, <1>8, <3>1
    <3>2. CASE i # Len(rx) + 1
      <4>1. i \in 1 .. Len(rx) BY <1>8, <3>2
      <4>2. QED BY <1>8, <4>1 DEF Chain
    <3>3. QED BY <3>1, <3>2
  <2>2. offset' < Len(Head(rx'))
    <3>1. CASE rx = <<>> BY <1>2, <1>3, <1>4, <1>8, <3>1 DEF Chain
    <3>2. CASE rx # <<>> BY <1>2, <1>8, <3>2 DEF Chain
    <3>3. QED BY <3>1, <3>2
  <2>3. sketch'.pc = "read" => 0 < sketch'.todo /\ sketch'.todo <= Len(Bytes(rx)') - offset'
    <3>1. sketch'= sketch /\ sketch.todo \in Nat /\ offset' = offset
      BY <1>2, SketchTypes DEF Types
    <3>2. sketch.pc = "read" => 0 < sketch.todo /\ sketch.todo <= L - offset BY DEF Chain
    <3> HIDE DEF L
    <3>3. QED BY <1>3, <1>5, <1>7, <3>1, <3>2
  <2>4. QED BY <1>7, <1>8, <2>1, <2>2, <2>3 DEF Chain
<1>10. arrived' - Len(Bytes(rx)') = arrived - L
  <2> DEFINE M == Len(Bytes(rx)')
  <2>1. /\ arrived \in Nat /\ n \in Nat /\ L \in Nat /\ M = L + n
        /\ arrived' = arrived + n
    BY <1>1, <1>3, <1>5, <1>7
  <2> HIDE DEF L, M
  <2>2. arrived' - M = arrived - L BY <2>1
  <2>3. QED BY <2>2 DEF M
<1>11. ReadTo' = ReadTo
  <2>1. InLast' = InLast /\ offset' = offset BY <1>2 DEF InLast
  <2>2. InLast => Head(rx') = Head(rx)
    <3>1. InLast => rx # <<>> BY DEF InLast, Chain
    <3>2. QED BY <1>8, <3>1
  <2>3. QED BY <1>10, <2>1, <2>2 DEF ReadTo
<1>12. Order' BY <1>2, <1>10, <1>11 DEF Order, InOrder
<1>13. WindowExact'
  <2>1. Cardinality(lost) \in Nat /\ lost' = lost /\ sketch' = sketch BY <1>2, LostFinite
  <2>2. CASE sketch.pc # "freed"
    <3>1. unacked = Cardinality(lost) + L BY <1>2, <2>2 DEF WindowExact
    <3> DEFINE c == Cardinality(lost)
    <3>2. c \in Nat /\ unacked = c + L BY <2>1, <3>1
    <3> HIDE DEF L, c
    <3>3. unacked' = c + (L + n) BY <1>1, <1>3, <1>5, <3>2
    <3>4. QED BY <1>7, <2>1, <2>2, <3>3 DEF WindowExact, c
  <2>3. CASE sketch.pc = "freed"
    <3>1. rx # <<>> BY <2>3 DEF Chain
    <3> DEFINE c == Cardinality(lost)
               y == Len(Bytes(Tail(rx)))
    <3>2. Tail(rx) \in Seq(Seq(1 .. MaxIn)) /\ Bytes(Tail(rx)) \in Seq(1 .. MaxIn) /\ y \in Nat
      BY <3>1, ChainFacts
    <3>3. Tail(rx') = Append(Tail(rx), x)
      <4>1. rx' = Append(rx, x) BY <1>1 DEF x
      <4>2. QED BY <1>3, <1>4, <3>1, <4>1, AppendAt
    <3>4. Bytes(Tail(rx')) = Cat(Bytes(Tail(rx)), x) BY <1>4, <3>2, <3>3, BytesAppend
    <3>5. Len(Bytes(Tail(rx'))) = y + n
      <4>1. Len(Cat(Bytes(Tail(rx)), x)) = y + Len(x) BY <1>4, <3>2, CatAt
      <4>2. QED BY <1>4, <3>4, <4>1
    <3>6. unacked = c + y /\ c \in Nat BY <1>2, <2>1, <2>3 DEF WindowExact
    <3> HIDE DEF y, c
    <3>7. unacked' = c + (y + n) BY <1>1, <1>3, <3>2, <3>6
    <3>8. QED BY <2>1, <2>3, <3>5, <3>7 DEF WindowExact, c
  <2>4. QED BY <2>2, <2>3
<1>14. Types'
  <2>1. unacked' \in 0 .. Window /\ arrived' \in 0 .. MaxIn BY <1>1, <1>3
  <2>2. QED BY <1>2, <1>8, <2>1 DEF Types, txVars
<1>15. QED BY <1>9, <1>12, <1>13, <1>14

-----------------------------------------------------------------------------
(* The other steps of the sketch's task, and the other callbacks. *)

\* The steps that neither read, write nor touch the chain.
LEMMA LifeStep ==
  ASSUME Inv, sketch' \in Sketch, sketch.pc \notin Reads, sketch'.pc \notin Reads,
         sketch'.pc \notin {"some", "chunk", "check", "delay"}, waiting = 0,
         pcb' \in PcbStates, hooks' \in 0 .. 5, pending' \in BOOLEAN,
         pcb' # "null" => pcb # "null", UNCHANGED <<tcpip, rxVars, txVars>>, Living'
  PROVE  Inv'
<1> USE DEF Inv
<1>1. Types' /\ Sending' BY DEF Types, Sending, rxVars, txVars
<1>2. Chain' /\ Order' /\ WindowExact' BY ChainKept
<1>3. QED BY <1>1, <1>2

LEMMA ReleaseSteps ==
  ASSUME Inv, Running, connect \/ close \/ Releasing PROVE Inv'
<1> USE DEF Inv
<1>1. /\ pcb \in PcbStates /\ hooks \in 0 .. 5 /\ pending \in BOOLEAN /\ "null" \in PcbStates
      /\ "SYN_SENT" \in PcbStates /\ 4 \in 0 .. 5 /\ TRUE \in BOOLEAN /\ FALSE \in BOOLEAN
  BY DEF Types, PcbStates
<1>2. CASE connect
  <2>1. /\ sketch.pc = "new" /\ pcb = "CLOSED" /\ UNCHANGED <<hooks, tcpip, rxVars, txVars>>
        /\ tcpip = "ready" /\ hooks = 5
    BY <1>2 DEF connect, Living, Closing
  <2>2. /\ sketch' \in Sketch /\ sketch'.pc \in {"connecting", "unref"}
        /\ pcb' \in PcbStates /\ pcb' # "null" /\ pending' \in BOOLEAN
    BY <1>1, <1>2, <2>1, AtTypes DEF connect
  <2>3. Living' BY <2>1, <2>2 DEF Living, Closing, Running
  <2>4. waiting = 0 BY <2>1 DEF Sending
  <2>5. QED BY <1>1, <2>1, <2>2, <2>3, <2>4, LifeStep DEF Reads
<1>3. CASE ConnectReturns \/ close \/ Release
  <2>1. /\ sketch.pc \in {"connecting", "idle", "discarded"}
        /\ UNCHANGED <<pcb, tcpip, rxVars, txVars>>
        /\ pending' \in BOOLEAN
    BY <1>1, <1>3 DEF ConnectReturns, close, Release
  <2>2. \/ sketch' = At("idle") /\ hooks' = hooks
        \/ sketch' \in {At("unref"), At("deleted")} /\ hooks' = hooks /\ pcb = "null"
        \/ sketch' \in {At("aborting"), At("stopping"), At("releasing")} /\ hooks' = 4
           /\ pcb # "null"
    BY <1>3 DEF ConnectReturns, close, Release
  <2>3. /\ sketch' \in Sketch /\ hooks' \in 0 .. 5
        /\ \/ sketch'.pc = "idle" /\ hooks' = hooks
           \/ sketch'.pc \in {"unref", "deleted"} /\ hooks' = hooks /\ pcb = "null"
           \/ sketch'.pc \in Closing /\ hooks' = 4 /\ pcb # "null"
    BY <1>1, <2>2, AtTypes DEF Closing
  <2>4. Living' BY <2>1, <2>3 DEF Living, Closing, Running
  <2>5. waiting = 0 BY <2>1 DEF Sending
  <2>6. QED BY <1>1, <2>1, <2>3, <2>4, <2>5, LifeStep DEF Reads, Closing
<1>4. CASE Detach
  <2>1. /\ sketch.pc \in Closing /\ UNCHANGED <<pcb, pending, sketch, tcpip, rxVars, txVars>>
        /\ hooks' \in 0 .. 5 /\ hooks' < 5 /\ sketch \in Sketch
    BY <1>1, <1>4 DEF Detach, Types, Living
  <2>2. Living' BY <2>1 DEF Living, Closing, Running
  <2>3. waiting = 0 BY <2>1 DEF Sending, Closing
  <2>4. QED BY <1>1, <2>1, <2>2, <2>3, LifeStep DEF Reads, Closing
<1>5. CASE Closed
  <2>1. /\ sketch.pc \in Closing /\ hooks = 0 /\ pcb' = "null"
        /\ UNCHANGED <<hooks, pending, tcpip, rxVars, txVars>>
        /\ sketch' = At(After[sketch.pc])
    BY <1>5 DEF Closed, AllDetached
  <2>2. After[sketch.pc] \in {"idle", "unref", "deleted"} BY <2>1 DEF After, Closing
  <2>3. sketch' \in Sketch /\ sketch'.pc \in {"idle", "unref", "deleted"}
    BY <2>1, <2>2, AtTypes
  <2>4. Living' BY <2>1, <2>3 DEF Living, Closing, Running
  <2>5. waiting = 0 BY <2>1 DEF Sending, Closing
  <2>6. QED BY <1>1, <2>1, <2>3, <2>4, <2>5, LifeStep DEF Reads, Closing
<1>6. QED BY <1>2, <1>3, <1>4, <1>5 DEF Releasing

LEMMA DiscardStep ==
  ASSUME Inv, unref PROVE Inv'
<1> USE DEF Inv
<1> DEFINE L == Len(Bytes(rx))
<1>1. /\ sketch.pc \in {"idle", "unref"} /\ sketch' = At("discarded")
      /\ rx' = <<>> /\ offset' = 0
      /\ unacked' = IF pcb # "null" THEN unacked - L ELSE unacked
      /\ UNCHANGED <<pcb, hooks, pending, tcpip, arrived, got, lost, txVars>>
  BY DEF unref
<1>2. sketch' \in Sketch /\ sketch'.pc = "discarded" BY <1>1, AtTypes
<1>3. L \in Nat /\ Cardinality(lost) \in Nat /\ unacked \in 0 .. Window /\ Window \in Nat
  BY ChainFacts, LostFinite, Sizes DEF Types
<1>4. pcb # "null" => unacked = Cardinality(lost) + L BY <1>1 DEF WindowExact
<1>5. (pcb # "null" => unacked' = Cardinality(lost)) /\ unacked' \in 0 .. Window
  <2> DEFINE c == Cardinality(lost)
  <2>1. c \in Nat BY <1>3
  <2> HIDE DEF c, L
  <2>2. pcb # "null" => unacked = c + L BY <1>4 DEF c
  <2>3. (pcb # "null" => unacked' = c) /\ unacked' \in 0 .. Window BY <1>1, <1>3, <2>1, <2>2
  <2>4. QED BY <2>3 DEF c
<1>6. <<>> \in Seq(Seq(1 .. MaxIn)) OBVIOUS
<1>7. Types' BY <1>1, <1>2, <1>5, <1>6 DEF Types, txVars
<1>8. Sending' /\ Living' BY <1>1, <1>2 DEF Sending, Living, Closing, Running, txVars
<1>9. Chain' /\ Order' /\ WindowExact' BY <1>1, <1>2, <1>5, ChainFreed DEF Reads
<1>10. QED BY <1>7, <1>8, <1>9

LEMMA WriteSteps ==
  ASSUME Inv, write \/ Writing PROVE Inv'
<1> USE DEF Inv
<1>1. /\ Len(<<>>) = 0 /\ used \in 0 .. SndBuf /\ SndBuf \in Nat /\ MaxPolls \in Nat
      /\ sketch \in Sketch /\ sketch.todo \in Nat /\ sketch.will \in Nat
      /\ sketch.out \in BOOLEAN /\ sketch.polls \in 0 .. MaxPolls + 1
      /\ ChunkSize \in Nat /\ ChunkSize > 0 /\ waiting \in 0 .. 255
  BY Sizes, SketchTypes DEF Types
<1>2. ASSUME sketch' \in Sketch, sketch.pc \notin Reads, sketch'.pc \notin Reads,
             sketch'.pc \notin Closing \cup {"new", "deleted"},
             sketch.pc \notin Closing \cup {"deleted"},
             UNCHANGED <<pcb, hooks, pending, tcpip, rxVars>>, used' \in 0 .. SndBuf,
             waiting' \in 0 .. 255, writes' \in 0 .. MaxWrites, Sending'
      PROVE  Inv'
  <2>1. Types' /\ Living' BY <1>2 DEF Types, Living, Running, rxVars
  <2>2. Chain' /\ Order' /\ WindowExact' BY <1>2, ChainKept
  <2>3. QED BY <1>2, <2>1, <2>2
<1>3. CASE write
  <2>1. PICK n \in WriteLens : sketch' = [At("some") EXCEPT !.todo = n] BY <1>3 DEF write
  <2>2. n \in Nat BY ContextAssumption
  <2>3. sketch' \in Sketch /\ sketch'.pc = "some" BY <2>1, <2>2, Sizes DEF At, Sketch, Closing
  <2>4. /\ sketch.pc = "idle" /\ writes' \in 0 .. MaxWrites
        /\ UNCHANGED <<pcb, hooks, pending, tcpip, rxVars, used, waiting>>
    BY <1>3, Sizes DEF write, Types
  <2>5. QED BY <1>1, <1>2, <2>3, <2>4 DEF Sending, Reads, Closing
<1>4. CASE WriteSome
  <2>1. PICK can \in {0, SndBuf - used} :
          sketch' = [sketch EXCEPT !.pc = "chunk", !.out = FALSE, !.will = WillSend(can)]
    BY <1>4 DEF WriteSome
  <2> DEFINE w == WillSend(can)
  <2>2. w \in Nat /\ w <= sketch.todo /\ used + w <= SndBuf
    BY <1>1 DEF WillSend, Smaller
  <2>3. sketch' = [sketch EXCEPT !.pc = "chunk", !.out = FALSE, !.will = w] BY <2>1
  <2> HIDE DEF w
  <2>4. /\ sketch' \in Sketch /\ sketch'.pc = "chunk" /\ sketch'.will = w
        /\ sketch'.todo = sketch.todo
    BY <1>1, <2>2, <2>3 DEF Sketch
  <2>5. sketch.pc = "some" /\ UNCHANGED <<pcb, hooks, pending, tcpip, rxVars, txVars>>
    BY <1>4 DEF WriteSome
  <2>6. used' = used /\ waiting' = waiting /\ writes' = writes /\ writes \in 0 .. MaxWrites
    BY <2>5 DEF txVars, Types
  <2>7. Sending' BY <2>2, <2>4, <2>6 DEF Sending
  <2>8. QED BY <1>1, <1>2, <2>4, <2>5, <2>6, <2>7 DEF Reads, Closing
<1>5. CASE Chunk
  <2> DEFINE n == Smaller(ChunkSize, sketch.will)
  <2>1. /\ sketch.pc = "chunk" /\ UNCHANGED <<pcb, hooks, pending, tcpip, rxVars>>
        /\ waiting' = waiting /\ writes' = writes /\ writes \in 0 .. MaxWrites
        /\ \/ used' = used + n
              /\ sketch' = [sketch EXCEPT !.todo = @ - n, !.will = @ - n, !.out = TRUE]
           \/ used' = used /\ sketch' = [sketch EXCEPT !.pc = "check", !.out = @ /\ state # "CLOSED"]
           \/ used' = used /\ sketch' = [sketch EXCEPT !.pc = "check"]
    BY <1>5 DEF Chunk, Types
  <2>2. n \in Nat /\ n <= sketch.will BY <1>1 DEF Smaller
  <2> HIDE DEF n
  <2>3. sketch.will <= sketch.todo /\ used + sketch.will <= SndBuf BY <2>1 DEF Sending
  <2>4. CASE used' = used + n
             /\ sketch' = [sketch EXCEPT !.todo = @ - n, !.will = @ - n, !.out = TRUE]
    <3> DEFINE t == sketch.todo - n
               w == sketch.will - n
    <3>1. t \in Nat /\ w \in Nat /\ w <= t /\ used' + w <= SndBuf /\ used' \in 0 .. SndBuf
      BY <1>1, <2>2, <2>3, <2>4
    <3>2. sketch' = [sketch EXCEPT !.todo = t, !.will = w, !.out = TRUE] BY <2>4
    <3> HIDE DEF t, w
    <3>3. sketch' \in Sketch /\ sketch'.pc = "chunk" /\ sketch'.todo = t /\ sketch'.will = w
      BY <1>1, <2>1, <3>1, <3>2 DEF Sketch
    <3>4. Sending' BY <3>1, <3>3 DEF Sending
    <3>5. QED BY <1>1, <1>2, <2>1, <3>1, <3>3, <3>4 DEF Reads, Closing
  <2>5. CASE /\ used' = used
             /\ \/ sketch' = [sketch EXCEPT !.pc = "check", !.out = @ /\ state # "CLOSED"]
                \/ sketch' = [sketch EXCEPT !.pc = "check"]
    <3>1. sketch' \in Sketch /\ sketch'.pc = "check"
      <4> DEFINE o == sketch.out /\ state # "CLOSED"
      <4>1. o \in BOOLEAN OBVIOUS
      <4>2. \/ sketch' = [sketch EXCEPT !.pc = "check", !.out = o]
            \/ sketch' = [sketch EXCEPT !.pc = "check"]
        BY <2>5
      <4> HIDE DEF o
      <4>3. QED BY <1>1, <4>1, <4>2 DEF Sketch
    <3>2. Sending' BY <3>1 DEF Sending
    <3>3. QED BY <1>1, <1>2, <2>1, <2>5, <3>1, <3>2 DEF Reads, Closing
  <2>6. QED BY <2>1, <2>4, <2>5
<1>6. CASE Check
  <2>1. /\ sketch.pc = "check" /\ UNCHANGED <<pcb, hooks, pending, tcpip, rxVars>>
        /\ used' = used /\ writes' = writes /\ writes \in 0 .. MaxWrites
        /\ \/ sketch' = At("idle") /\ waiting' = 0
           \/ waiting' = (waiting + 1) % 256
              /\ sketch' = [sketch EXCEPT !.pc = "delay", !.polls = Polls]
    BY <1>6 DEF Check, WaitingReset, Types
  <2>2. Polls \in 0 .. MaxPolls + 1 BY <1>1 DEF Polls
  <2>3. /\ waiting' \in 0 .. 255 /\ sketch' \in Sketch /\ sketch'.pc \in {"idle", "delay"}
        /\ sketch'.pc = "idle" => waiting' = 0
    <3>1. CASE sketch' = At("idle") /\ waiting' = 0 BY <3>1, AtTypes
    <3>2. CASE /\ waiting' = (waiting + 1) % 256
               /\ sketch' = [sketch EXCEPT !.pc = "delay", !.polls = Polls]
      <4>1. waiting' \in 0 .. 255 BY <1>1, <3>2
      <4>2. sketch' \in Sketch /\ sketch'.pc = "delay" BY <1>1, <2>2, <3>2 DEF Sketch
      <4>3. QED BY <4>1, <4>2
    <3>3. QED BY <2>1, <3>1, <3>2
  <2>4. Sending' BY <2>3 DEF Sending
  <2>5. QED BY <1>1, <1>2, <2>1, <2>3, <2>4 DEF Reads, Closing
<1>7. CASE Wake
  <2> DEFINE k == Smaller(sketch.polls + 1, MaxPolls + 1)
  <2>1. k \in 0 .. MaxPolls + 1 BY <1>1 DEF Smaller
  <2>2. /\ sketch.pc = "delay" /\ sketch' = [sketch EXCEPT !.pc = "some", !.polls = k]
        /\ UNCHANGED <<pcb, hooks, pending, tcpip, rxVars, txVars>>
    BY <1>7 DEF Wake
  <2> HIDE DEF k
  <2>3. sketch' \in Sketch /\ sketch'.pc = "some" BY <1>1, <2>1, <2>2 DEF Sketch
  <2>4. used' = used /\ waiting' = waiting /\ writes' = writes /\ writes \in 0 .. MaxWrites
    BY <2>2 DEF txVars, Types
  <2>5. Sending' BY <2>3 DEF Sending
  <2>6. QED BY <1>1, <1>2, <2>2, <2>3, <2>4, <2>5 DEF Reads, Closing
<1>8. QED BY <1>3, <1>4, <1>5, <1>6, <1>7 DEF Writing

LEMMA CallbackSteps ==
  ASSUME Inv, Callbacks, ~_recv PROVE Inv'
<1> USE DEF Inv
<1>1. ASSUME UNCHANGED <<pending, sketch, rxVars, writes>>, pcb' \in PcbStates,
             hooks' \in 0 .. 5, tcpip' \in CallbackStates, pcb' # "null" => pcb # "null",
             Living', used' \in 0 .. SndBuf, used' <= used, waiting' \in {0, waiting}
      PROVE  Inv'
  <2>1. Types' BY <1>1 DEF Types, rxVars
  <2>2. Sending'
    <3>1. /\ sketch.will \in Nat /\ used \in Nat /\ used' \in Nat /\ SndBuf \in Nat
          /\ sketch' = sketch
      BY <1>1, Sizes, SketchTypes DEF Types
    <3>2. sketch.pc = "chunk" => used' + sketch.will <= SndBuf
      BY <1>1, <3>1 DEF Sending
    <3>3. QED BY <1>1, <3>1, <3>2 DEF Sending
  <2>3. Chain' /\ Order' /\ WindowExact' BY <1>1, ChainKept
  <2>4. QED BY <1>1, <2>1, <2>2, <2>3
<1>2. /\ used \in 0 .. SndBuf /\ SndBuf \in Nat /\ waiting \in 0 .. 255
      /\ tcpip \in CallbackStates /\ pcb \in PcbStates /\ hooks \in 0 .. 5 /\ 0 \in 0 .. 5
  BY Sizes DEF Types
<1>3. CASE SynAck \/ PeerCloses \/ FinAborts \/ _error \/ NullContext \/ Resume
  <2>1. /\ UNCHANGED <<pending, sketch, rxVars, writes, used, waiting>>
        /\ tcpip' \in CallbackStates
    BY <1>2, <1>3
    DEF SynAck, PeerCloses, FinAborts, _error, NullContext, Resume, txVars, CallbackStates
  <2>2. pcb' \in PcbStates /\ hooks' \in 0 .. 5 /\ (pcb' # "null" => pcb # "null")
    BY <1>2, <1>3 DEF SynAck, PeerCloses, FinAborts, _error, NullContext, Resume, PcbStates
  <2>3. Living'
    <3>1. CASE SynAck BY <2>1, <3>1 DEF SynAck, Living, Running
    <3>2. CASE PeerCloses \/ _error
      <4>1. /\ CallsBack /\ pcb \notin {"null", "CLOSED"} /\ tcpip' # "undefined"
            /\ \/ pcb' = "null" /\ hooks' = 0
               \/ pcb' # "null" /\ hooks' = hooks
        BY <3>2 DEF PeerCloses, _error, CallsBack
      <4>2. sketch.pc \notin Closing BY <4>1 DEF Living, CallsBack
      <4>3. QED BY <2>1, <4>1, <4>2 DEF Living, Running, CallsBack
    <3>3. CASE FinAborts BY <2>1, <3>3 DEF FinAborts, Living, Running, Closing
    <3>4. CASE NullContext BY <1>2, <2>1, <3>4 DEF NullContext, Living, Running
    <3>5. CASE Resume BY <2>1, <3>5 DEF Resume, Living, Running
    <3>6. QED BY <1>3, <3>1, <3>2, <3>3, <3>4, <3>5
  <2>4. QED BY <1>1, <1>2, <2>1, <2>2, <2>3
<1>4. CASE _acked \/ _poll
  <2>1. /\ UNCHANGED <<pending, sketch, rxVars, writes, pcb, hooks>>
        /\ used' \in 0 .. SndBuf /\ used' <= used
    BY <1>2, <1>4 DEF _acked, _poll
  <2>2. waiting' \in {0, waiting} /\ tcpip' \in {tcpip, "ack"}
    BY <1>2, <1>4 DEF _acked, _poll, FromCb
  <2>3. tcpip' \in CallbackStates /\ tcpip' # "undefined" /\ sketch.pc # "new"
    BY <1>2, <1>4, <2>2 DEF Living, _acked, _poll, CallsBack, CallbackStates
  <2>4. Living' BY <2>1, <2>3 DEF Living, Running
  <2>5. QED BY <1>1, <1>2, <2>1, <2>2, <2>3, <2>4
<1>5. QED BY <1>3, <1>4 DEF Callbacks

LEMMA ReadingSteps ==
  ASSUME Inv, read \/ Reading \/ _recv PROVE Inv'
<1> USE DEF Inv
<1>1. Types' /\ Chain' /\ Order' /\ WindowExact'
  BY ReadStarts, CopyStep, FreeLastStep, ResetStep, RecvStep DEF Reading
<1>2. /\ pcb' = pcb /\ hooks' = hooks /\ tcpip' = tcpip /\ used' = used /\ waiting' = waiting
      /\ \/ sketch' = sketch
         \/ sketch.pc \in {"idle", "read", "last", "freed"}
            /\ sketch'.pc \in {"idle", "read", "last", "freed"}
  <2>1. sketch \in Sketch BY DEF Types
  <2>2. CASE read
    <3>1. PICK k : sketch' = [At("read") EXCEPT !.todo = k] BY <2>2 DEF read
    <3>2. sketch'.pc = "read" BY <3>1 DEF At
    <3>3. QED BY <2>2, <3>2 DEF read, txVars
  <2>3. CASE Copy
    <3> DEFINE n == Smaller(sketch.todo, Len(Head(rx)) - offset)
               x == sketch.todo - n
    <3>1. /\ sketch.pc = "read" /\ UNCHANGED <<pcb, hooks, tcpip, txVars>>
          /\ \/ sketch' = At("idle")
             \/ sketch' = [sketch EXCEPT !.todo = x]
             \/ sketch' = [[sketch EXCEPT !.todo = x] EXCEPT !.pc = "last"]
      BY <2>3 DEF Copy
    <3> HIDE DEF n, x
    <3>2. sketch'.pc \in {"idle", "read", "last"}
      <4>1. CASE sketch' = At("idle") BY <4>1 DEF At
      <4>2. CASE sketch' = [sketch EXCEPT !.todo = x] BY <2>1, <3>1, <4>2 DEF Sketch
      <4>3. CASE sketch' = [[sketch EXCEPT !.todo = x] EXCEPT !.pc = "last"]
        BY <2>1, <4>3 DEF Sketch
      <4>4. QED BY <3>1, <4>1, <4>2, <4>3
    <3>3. QED BY <3>1, <3>2 DEF txVars
  <2>4. CASE FreeLast
    <3>1. sketch.pc = "last" /\ sketch'.pc = "freed" BY <2>1, <2>4 DEF FreeLast, Sketch
    <3>2. QED BY <2>4, <3>1 DEF FreeLast, txVars
  <2>5. CASE ResetChain BY <2>5 DEF ResetChain, txVars, At
  <2>6. CASE _recv BY <2>6 DEF _recv, txVars
  <2>7. QED BY <2>2, <2>3, <2>4, <2>5, <2>6 DEF Reading
<1>3. Sending' /\ Living' BY <1>2 DEF Sending, Living, Closing, Running
<1>4. QED BY <1>1, <1>3

LEMMA InitInv == Init => Inv
<1> SUFFICES ASSUME Init PROVE Inv OBVIOUS
<1>1. /\ \/ pcb = "CLOSED" /\ sketch = At("new")
         \/ pcb = "ESTABLISHED" /\ sketch = At("idle")
      /\ hooks = 5 /\ rx = <<>> /\ offset = 0 /\ unacked = 0 /\ used = 0
      /\ pending = FALSE /\ waiting = 0 /\ tcpip = "ready"
      /\ arrived = 0 /\ got = <<>> /\ lost = {} /\ writes = 0
  BY DEF Init
<1>2. sketch \in Sketch /\ sketch.pc \in {"new", "idle"} /\ (sketch.pc = "new" => pcb = "CLOSED")
      /\ pcb # "null" /\ tcpip \in CallbackStates
  BY <1>1, AtTypes DEF CallbackStates
<1>3. Types
  <2>1. <<>> \in Seq(1 .. MaxIn) /\ <<>> \in Seq(Seq(1 .. MaxIn)) OBVIOUS
  <2>2. /\ rx \in Seq(Seq(1 .. MaxIn)) /\ got \in Seq(1 .. MaxIn) /\ offset \in Nat
        /\ pcb \in PcbStates /\ hooks \in 0 .. 5
    BY <1>1, <2>1 DEF PcbStates
  <2>3. /\ unacked \in 0 .. Window /\ arrived \in 0 .. MaxIn /\ used \in 0 .. SndBuf
        /\ waiting \in 0 .. 255 /\ writes \in 0 .. MaxWrites
    BY <1>1, Sizes
  <2>4. QED BY <1>1, <1>2, <2>2, <2>3 DEF Types
<1>4. Sending /\ Living BY <1>1, <1>2 DEF Sending, Living, Closing, Running
<1>5. Bytes(rx) = <<>> /\ Len(<<>>) = 0 BY <1>1, BytesEmpty
<1>6. Chain BY <1>1, <1>2, <1>5 DEF Chain, UpTo
<1>7. Order BY <1>1, <1>5 DEF Order, InOrder
<1>8. WindowExact BY <1>1, <1>2, <1>5, FS_EmptySet DEF WindowExact
<1>9. QED BY <1>3, <1>4, <1>6, <1>7, <1>8 DEF Inv

LEMMA StepInv == Inv /\ [Next]_vars => Inv'
<1> SUFFICES ASSUME Inv, [Next]_vars PROVE Inv' OBVIOUS
<1>1. CASE Next
  BY <1>1, ReleaseSteps, DiscardStep, WriteSteps, CallbackSteps, ReadingSteps DEF Next
<1>2. CASE UNCHANGED vars
  BY <1>2 DEF vars, rxVars, txVars, Inv, Types, Sending, Living, Chain, Order, WindowExact,
              ReadTo, InLast, InOrder, Running
<1>3. QED BY <1>1, <1>2

LEMMA InvAlways == Spec => []Inv
BY InitInv, StepInv, PTL DEF Spec

\* The variables keep their types: no read or write asks for more than the buffers
\* hold, and the receive window never goes below zero.
THEOREM ContextTypeCorrect == Spec => []TypeOK
<1>1. ASSUME Inv PROVE TypeOK
  <2>1. rx \in Seq(Seq(1 .. MaxIn)) /\ \A i \in 1 .. Len(rx) : rx[i] # <<>>
    BY <1>1 DEF Inv, Types, Chain
  <2>2. <<>> \notin Range(rx)
    <3>1. DOMAIN rx = 1 .. Len(rx) BY <2>1
    <3>2. QED BY <2>1, <3>1 DEF Range
  <2>3. IF rx = <<>> THEN offset = 0 ELSE offset \in 0 .. Len(Head(rx))
    <3>1. CASE rx = <<>> BY <1>1, <3>1 DEF Inv, Chain
    <3>2. CASE rx # <<>>
      <4>1. Len(Head(rx)) \in Nat /\ offset \in Nat /\ offset < Len(Head(rx))
        BY <1>1, <3>2, ChainFacts DEF Inv
      <4>2. QED BY <3>2, <4>1
    <3>3. QED BY <3>1, <3>2
  <2>4. QED BY <1>1, <2>1, <2>2, <2>3 DEF TypeOK, Inv, Types, PcbStates, CallbackStates
<1>2. QED BY <1>1, InvAlways, PTL

\* No byte is read twice or out of order, although _recv appends to the chain while
\* _consume takes it apart.
THEOREM BytesInOrder == Spec => []InOrder
<1>1. Inv => InOrder BY DEF Inv, Order
<1>2. QED BY <1>1, InvAlways, PTL

\* As long as there is a connection, the receive window is short of exactly what is
\* in the chain and what _consume has freed unread.
THEOREM WindowAccounted == Spec => []WindowExact
<1>1. Inv => WindowExact BY DEF Inv
<1>2. QED BY <1>1, InvAlways, PTL

\* The assertion _send_waiting == 0 of a write never fails.
THEOREM WaitingIsZero == Spec => []AssertWaiting
<1>1. Inv => AssertWaiting BY DEF Inv, Sending, AssertWaiting
<1>2. QED BY <1>1, InvAlways, PTL

\* All callbacks of the stack are taken away before the context is deleted, whoever
\* ended the connection and when; one finds no context only while that happens, or
\* after a delay.
THEOREM NoCallbackToDeleted == Spec => []CallbacksToLive
<1>1. Inv => CallbacksToLive BY DEF Inv, Living, CallbacksToLive
<1>2. QED BY <1>1, InvAlways, PTL

=============================================================================
