------------------------- MODULE HardwareSerialProofs -------------------------
(***************************************************************************)
(* Proofs for HardwareSerial: for any tasks, writes and buffer sizes.      *)
(***************************************************************************)
EXTENDS HardwareSerial, SequenceTheorems, WellFoundedInduction, TLAPS

-----------------------------------------------------------------------------
(* Induction over numbers, from sets. *)

LEMMA LeastNat == ASSUME NEW T \in SUBSET Nat, T # {} PROVE \E m \in T : \A k \in T : m <= k
<1>1. PICK m \in T : \A k \in T : ~ (<<k, m>> \in OpToRel(<, Nat))
  <2>1. T \subseteq Nat OBVIOUS
  <2>2. QED BY <2>1, WFMin, NatLessThanWellFounded
<1>2. \A k \in T : ~(k < m)
  BY <1>1 DEF OpToRel
<1>3. QED BY <1>2

LEMMA InductUpTo ==
  ASSUME NEW N \in Nat, NEW S, 0 \in S, \A n \in 1 .. N : n - 1 \in S => n \in S
  PROVE  0 .. N \subseteq S
<1> SUFFICES ASSUME (0 .. N) \ S # {} PROVE FALSE
  OBVIOUS
<1> DEFINE T == (0 .. N) \ S
<1>1. T \in SUBSET Nat /\ T # {} OBVIOUS
<1>2. PICK m \in T : \A k \in T : m <= k
  BY <1>1, LeastNat
<1>3. m \in 1 .. N /\ m - 1 \in 0 .. N /\ m - 1 \notin T
  BY <1>2
<1>4. QED BY <1>2, <1>3

-----------------------------------------------------------------------------
(* FlattenSeq, the concatenation of the sequences in a list. *)

\* Concatenation, known by these three facts only.
Cat(s, t) == s \o t

LEMMA CatType == ASSUME NEW B, NEW s \in Seq(B), NEW t \in Seq(B) PROVE Cat(s, t) \in Seq(B)
BY ConcatProperties DEF Cat

LEMMA CatEmpty == ASSUME NEW B, NEW s \in Seq(B) PROVE Cat(s, <<>>) = s /\ Cat(<<>>, s) = s
BY ConcatEmptySeq DEF Cat

LEMMA CatAssoc ==
  ASSUME NEW B, NEW s \in Seq(B), NEW t \in Seq(B), NEW u \in Seq(B)
  PROVE  Cat(Cat(s, t), u) = Cat(s, Cat(t, u))
BY ConcatAssociative DEF Cat

\* The concatenations of the first 0, 1, ..., n of them.
Joins(s, B, n) ==
  {g \in [0 .. n -> Seq(B)] : g[0] = <<>> /\ \A k \in 1 .. n : g[k] = Cat(g[k - 1], s[k])}

LEMMA Parts == ASSUME NEW B, NEW s \in Seq(Seq(B))
               PROVE  Len(s) \in Nat /\ \A k \in 1 .. Len(s) : s[k] \in Seq(B)
OBVIOUS

LEMMA JoinsExist == ASSUME NEW B, NEW s \in Seq(Seq(B)) PROVE \E g : g \in Joins(s, B, Len(s))
<1> DEFINE N == Len(s)
           S == {n \in Nat : \E g : g \in Joins(s, B, n)}
<1>1. 0 \in S
  <2> DEFINE g == [k \in 0 .. 0 |-> <<>>]
  <2>1. g \in [0 .. 0 -> Seq(B)] /\ g[0] = <<>> OBVIOUS
  <2> HIDE DEF g
  <2>2. \A k \in 1 .. 0 : g[k] = Cat(g[k - 1], s[k]) OBVIOUS
  <2>3. g \in Joins(s, B, 0) BY <2>1, <2>2 DEF Joins
  <2>4. QED BY <2>3
<1>2. ASSUME NEW n \in 1 .. N, n - 1 \in S PROVE n \in S
  <2>1. PICK g : g \in Joins(s, B, n - 1) BY <1>2
  <2>2. /\ g \in [0 .. n - 1 -> Seq(B)] /\ g[0] = <<>>
        /\ \A k \in 1 .. n - 1 : g[k] = Cat(g[k - 1], s[k])
    BY <2>1 DEF Joins
  <2>3. N \in Nat /\ s[n] \in Seq(B) BY Parts
  <2> DEFINE x == Cat(g[n - 1], s[n])
             h == [k \in 0 .. n |-> IF k = n THEN x ELSE g[k]]
  <2>4. n - 1 \in 0 .. n - 1 /\ 0 # n /\ 0 \in 0 .. n BY <2>3
  <2>5. x \in Seq(B) BY <2>2, <2>3, <2>4, CatType
  <2>6. h \in [0 .. n -> Seq(B)]
    <3> HIDE DEF x
    <3>1. \A k \in 0 .. n : k # n => k \in 0 .. n - 1 BY <2>3
    <3>2. QED BY <2>2, <2>5, <3>1
  <2>7. h[0] = <<>> BY <2>2, <2>4
  <2>8. ASSUME NEW k \in 1 .. n PROVE h[k] = Cat(h[k - 1], s[k])
    <3>1. CASE k = n
      <4>1. h[k] = x /\ h[k - 1] = g[k - 1] BY <2>3, <3>1
      <4>2. QED BY <4>1, <3>1
    <3>2. CASE k # n
      <4>1. k \in 1 .. n - 1 /\ k - 1 # n /\ k - 1 \in 0 .. n /\ k \in 0 .. n BY <2>3, <3>2
      <4>2. h[k] = g[k] /\ h[k - 1] = g[k - 1] BY <3>2, <4>1
      <4>3. QED BY <2>2, <4>1, <4>2
    <3>3. QED BY <3>1, <3>2
  <2> HIDE DEF h
  <2>9. h \in Joins(s, B, n) BY <2>6, <2>7, <2>8 DEF Joins
  <2>10. QED BY <2>3, <2>9
<1>3. 0 .. N \subseteq S
  <2> HIDE DEF S
  <2>1. QED BY <1>1, <1>2, Parts, InductUpTo
<1>4. N \in S BY <1>3, Parts
<1>5. QED BY <1>4

LEMMA FlattenIs ==
  ASSUME NEW B, NEW s \in Seq(Seq(B)), NEW g \in Joins(s, B, Len(s))
  PROVE  FlattenSeq(s) = g[Len(s)] /\ FlattenSeq(s) \in Seq(B)
<1> DEFINE N == Len(s)
           Def(f) == [i \in 1 .. N |-> IF i = 1 THEN s[i] ELSE Cat(f[i - 1], s[i])]
           flatten == CHOOSE f : f = Def(f)
<1>1. /\ g \in [0 .. N -> Seq(B)] /\ g[0] = <<>> /\ N \in Nat
      /\ \A k \in 1 .. N : g[k] = Cat(g[k - 1], s[k]) /\ s[k] \in Seq(B)
  BY Parts DEF Joins
<1>2. g[N] \in Seq(B) BY <1>1
<1>3. CASE N = 0
  <2>1. s = <<>> BY <1>3
  <2>2. FlattenSeq(s) = s BY <1>3 DEF FlattenSeq, Cat
  <2>3. QED BY <1>1, <1>2, <1>3, <2>1, <2>2
<1>4. CASE N > 0
  <2>1. FlattenSeq(s) = flatten[N] BY <1>4 DEF FlattenSeq, Cat
  <2> DEFINE f == [i \in 1 .. N |-> g[i]]
  <2>2. f = Def(f)
    <3>1. ASSUME NEW i \in 1 .. N PROVE g[i] = IF i = 1 THEN s[i] ELSE Cat(f[i - 1], s[i])
      <4>1. CASE i = 1
        <5>1. g[i] = Cat(g[0], s[i]) BY <1>1, <4>1
        <5>2. g[i] = Cat(<<>>, s[i]) /\ s[i] \in Seq(B) BY <1>1, <5>1
        <5>3. QED BY <4>1, <5>2, CatEmpty
      <4>2. CASE i # 1
        <5>1. i - 1 \in 1 .. N BY <1>1, <4>2
        <5>2. f[i - 1] = g[i - 1] BY <5>1
        <5>3. QED BY <1>1, <4>2, <5>2
      <4>3. QED BY <4>1, <4>2
    <3> HIDE DEF f
    <3>2. Def(f) = [i \in 1 .. N |-> g[i]] BY <3>1
    <3>3. QED BY <3>2 DEF f
  <2>3. flatten = Def(flatten)
    <3> HIDE DEF f, Def
    <3>1. QED BY <2>2
  <2> HIDE DEF flatten, f
  <2> DEFINE S == {k \in Nat : k \in 1 .. N => flatten[k] = g[k]}
  <2>4. 0 .. N \subseteq S
    <3>1. 0 \in S OBVIOUS
    <3>2. ASSUME NEW n \in 1 .. N, n - 1 \in S PROVE n \in S
      <4>1. flatten[n] = IF n = 1 THEN s[n] ELSE Cat(flatten[n - 1], s[n]) BY <2>3
      <4>2. CASE n = 1
        <5>1. g[n] = Cat(g[0], s[n]) BY <1>1, <4>2
        <5>2. g[n] = Cat(<<>>, s[n]) /\ s[n] \in Seq(B) BY <1>1, <5>1
        <5>3. g[n] = s[n] BY <5>2, CatEmpty
        <5>4. QED BY <4>1, <4>2, <5>3
      <4>3. CASE n # 1
        <5>1. n - 1 \in 1 .. N BY <1>1, <4>3
        <5>2. flatten[n - 1] = g[n - 1] BY <3>2, <5>1
        <5>3. flatten[n] = g[n] BY <1>1, <4>1, <4>3, <5>2
        <5>4. QED BY <5>3
      <4>4. QED BY <4>2, <4>3
    <3> HIDE DEF S, Def
    <3>3. QED BY <1>1, <3>1, <3>2, InductUpTo
  <2>5. N \in S /\ N \in 1 .. N BY <1>1, <1>4, <2>4
  <2>6. flatten[N] = g[N] BY <2>5
  <2>7. QED BY <1>2, <2>1, <2>6
<1>5. QED BY <1>1, <1>3, <1>4

LEMMA FlattenAppend ==
  ASSUME NEW B, NEW s \in Seq(Seq(B)), NEW x \in Seq(B)
  PROVE  /\ FlattenSeq(s) \in Seq(B)
         /\ FlattenSeq(Append(s, x)) = Cat(FlattenSeq(s), x)
<1> DEFINE N == Len(s)
           t == Append(s, x)
<1>1. PICK g : g \in Joins(s, B, N) BY JoinsExist
<1>2. /\ g \in [0 .. N -> Seq(B)] /\ g[0] = <<>> /\ N \in Nat
      /\ \A k \in 1 .. N : g[k] = Cat(g[k - 1], s[k]) /\ s[k] \in Seq(B)
  BY <1>1, Parts DEF Joins
<1>3. /\ t \in Seq(Seq(B)) /\ Len(t) = N + 1 /\ t[N + 1] = x
      /\ \A k \in 1 .. N : t[k] = s[k]
  OBVIOUS
<1> HIDE DEF t, N
<1> DEFINE y == Cat(g[N], x)
           h == [k \in 0 .. N + 1 |-> IF k = N + 1 THEN y ELSE g[k]]
<1>4. N \in 0 .. N /\ g[N] \in Seq(B) BY <1>2
<1>5. y \in Seq(B) BY <1>4, CatType
<1>6. h \in [0 .. N + 1 -> Seq(B)]
  <2> HIDE DEF y
  <2>1. \A k \in 0 .. N + 1 : k # N + 1 => k \in 0 .. N BY <1>2
  <2>2. QED BY <1>2, <1>5, <2>1
<1>7. h[0] = <<>> BY <1>2
<1>8. ASSUME NEW k \in 1 .. N + 1 PROVE h[k] = Cat(h[k - 1], t[k])
  <2>1. CASE k = N + 1
    <3>1. h[k] = y /\ h[k - 1] = g[N] /\ t[k] = x BY <1>2, <1>3, <2>1
    <3>2. QED BY <3>1
  <2>2. CASE k # N + 1
    <3>1. k \in 1 .. N /\ k - 1 # N + 1 /\ k - 1 \in 0 .. N + 1 /\ k \in 0 .. N + 1 BY <1>2, <2>2
    <3>2. h[k] = g[k] /\ h[k - 1] = g[k - 1] /\ t[k] = s[k] BY <1>3, <2>2, <3>1
    <3>3. QED BY <1>2, <3>1, <3>2
  <2>3. QED BY <2>1, <2>2
<1>9. h[N + 1] = y BY <1>2
<1> HIDE DEF h
<1>10. h \in Joins(t, B, Len(t)) BY <1>3, <1>6, <1>7, <1>8 DEF Joins
<1>11. FlattenSeq(t) = h[N + 1] BY <1>3, <1>10, FlattenIs
<1>12. FlattenSeq(s) = g[N] /\ FlattenSeq(s) \in Seq(B) BY <1>1, FlattenIs DEF N
<1>13. QED BY <1>9, <1>11, <1>12 DEF t

\* The first of the sequences loses its front.
LEMMA FlattenFront ==
  ASSUME NEW B, NEW s \in Seq(Seq(B)), NEW r \in Seq(Seq(B)), NEW a \in Seq(B),
         Len(r) = Len(s), Len(s) > 0, s[1] = Cat(a, r[1]), \A k \in 2 .. Len(s) : r[k] = s[k]
  PROVE  FlattenSeq(s) = Cat(a, FlattenSeq(r)) /\ FlattenSeq(r) \in Seq(B)
<1> DEFINE N == Len(s)
<1>1. PICK g : g \in Joins(r, B, Len(r)) BY JoinsExist
<1>2. /\ g \in [0 .. N -> Seq(B)] /\ g[0] = <<>> /\ N \in Nat /\ N > 0
      /\ \A k \in 1 .. N : g[k] = Cat(g[k - 1], r[k]) /\ r[k] \in Seq(B) /\ s[k] \in Seq(B)
  BY <1>1, Parts DEF Joins
<1> HIDE DEF N
<1> DEFINE h == [k \in 0 .. N |-> IF k = 0 THEN <<>> ELSE Cat(a, g[k])]
<1>3. h \in [0 .. N -> Seq(B)]
  <2>1. ASSUME NEW k \in 0 .. N PROVE Cat(a, g[k]) \in Seq(B)
    <3>1. g[k] \in Seq(B) BY <1>2
    <3>2. QED BY <3>1, CatType
  <2>2. QED BY <2>1
<1>4. h[0] = <<>> BY <1>2
<1>5. ASSUME NEW k \in 1 .. N PROVE h[k] = Cat(h[k - 1], s[k])
  <2>1. h[k] = Cat(a, g[k]) /\ g[k] = Cat(g[k - 1], r[k]) /\ r[k] \in Seq(B) /\ s[k] \in Seq(B)
    BY <1>2
  <2>2. CASE k = 1
    <3>1. g[k] = Cat(<<>>, r[1]) /\ r[1] \in Seq(B) BY <1>2, <2>1, <2>2
    <3>2. g[k] = r[1] BY <3>1, CatEmpty
    <3>3. h[k] = s[k] BY <2>1, <2>2, <3>2
    <3>4. h[k - 1] = <<>> BY <1>4, <2>2
    <3>5. s[k] = Cat(<<>>, s[k]) BY <2>1, CatEmpty
    <3>6. QED BY <3>3, <3>4, <3>5
  <2>3. CASE k # 1
    <3>1. k - 1 \in 0 .. N /\ k - 1 # 0 /\ k \in 2 .. N BY <1>2, <2>3
    <3>2. h[k - 1] = Cat(a, g[k - 1]) /\ r[k] = s[k] /\ g[k - 1] \in Seq(B) BY <1>2, <3>1 DEF N
    <3>3. Cat(Cat(a, g[k - 1]), s[k]) = Cat(a, Cat(g[k - 1], s[k]))
      BY <2>1, <3>2, CatAssoc
    <3>4. QED BY <2>1, <3>2, <3>3
  <2>4. QED BY <2>2, <2>3
<1>6. h[N] = Cat(a, g[N]) BY <1>2
<1> HIDE DEF h
<1>7. h \in Joins(s, B, Len(s)) BY <1>3, <1>4, <1>5 DEF Joins, N
<1>8. FlattenSeq(s) = h[N] BY <1>7, FlattenIs DEF N
<1>9. FlattenSeq(r) = g[N] /\ FlattenSeq(r) \in Seq(B) BY <1>1, FlattenIs DEF N
<1>10. QED BY <1>6, <1>8, <1>9

\* The first of the sequences is taken off.
LEMMA FlattenTail ==
  ASSUME NEW B, NEW s \in Seq(Seq(B)), NEW r \in Seq(Seq(B)),
         Len(r) = Len(s) - 1, Len(s) > 0, \A k \in 1 .. Len(r) : r[k] = s[k + 1]
  PROVE  FlattenSeq(s) = Cat(s[1], FlattenSeq(r)) /\ FlattenSeq(r) \in Seq(B)
<1> DEFINE N == Len(s)
           a == s[1]
<1>1. PICK g : g \in Joins(r, B, Len(r)) BY JoinsExist
<1>2. /\ g \in [0 .. N - 1 -> Seq(B)] /\ g[0] = <<>> /\ N \in Nat /\ N > 0
      /\ \A k \in 1 .. N - 1 : g[k] = Cat(g[k - 1], r[k]) /\ r[k] = s[k + 1]
      /\ \A k \in 1 .. N : s[k] \in Seq(B)
  BY <1>1, Parts DEF Joins
<1>3. a \in Seq(B) BY <1>2
<1> HIDE DEF N, a
<1> DEFINE h == [k \in 0 .. N |-> IF k = 0 THEN <<>> ELSE Cat(a, g[k - 1])]
<1>4. h \in [0 .. N -> Seq(B)]
  <2>1. ASSUME NEW k \in 0 .. N, k # 0 PROVE Cat(a, g[k - 1]) \in Seq(B)
    <3>1. k - 1 \in 0 .. N - 1 BY <1>2, <2>1
    <3>2. g[k - 1] \in Seq(B) BY <1>2, <3>1
    <3>3. QED BY <1>3, <3>2, CatType
  <2>2. QED BY <2>1
<1>5. h[0] = <<>> BY <1>2
<1>6. ASSUME NEW k \in 1 .. N PROVE h[k] = Cat(h[k - 1], s[k])
  <2>0. k \in 0 .. N /\ k # 0 BY <1>2
  <2>1. h[k] = Cat(a, g[k - 1]) /\ s[k] \in Seq(B)
    <3>1. s[k] \in Seq(B) BY <1>2
    <3>2. QED BY <2>0, <3>1
  <2>2. CASE k = 1
    <3>1. h[k] = Cat(a, <<>>) BY <1>2, <2>1, <2>2
    <3>2. h[k] = a BY <1>3, <3>1, CatEmpty
    <3>3. h[k - 1] = <<>> BY <1>5, <2>2
    <3>4. a = Cat(<<>>, a) BY <1>3, CatEmpty
    <3>5. QED BY <2>2, <3>2, <3>3, <3>4 DEF a
  <2>3. CASE k # 1
    <3>1. k - 1 \in 0 .. N /\ k - 1 # 0 /\ k - 1 \in 1 .. N - 1 /\ (k - 1) + 1 = k BY <1>2, <2>3
    <3>2. k - 2 \in 0 .. N - 1 /\ (k - 1) - 1 = k - 2 BY <1>2, <3>1
    <3>3. h[k - 1] = Cat(a, g[k - 2]) /\ g[k - 1] = Cat(g[k - 2], s[k]) /\ g[k - 2] \in Seq(B)
      BY <1>2, <3>1, <3>2
    <3>4. Cat(Cat(a, g[k - 2]), s[k]) = Cat(a, Cat(g[k - 2], s[k]))
      BY <1>3, <2>1, <3>3, CatAssoc
    <3>5. QED BY <2>1, <3>3, <3>4
  <2>4. QED BY <2>2, <2>3
<1>7. h[N] = Cat(a, g[N - 1]) BY <1>2
<1> HIDE DEF h
<1>8. h \in Joins(s, B, Len(s)) BY <1>4, <1>5, <1>6 DEF Joins, N
<1>9. FlattenSeq(s) = h[N] BY <1>8, FlattenIs DEF N
<1>10. FlattenSeq(r) = g[N - 1] /\ FlattenSeq(r) \in Seq(B) BY <1>1, FlattenIs DEF N
<1>11. QED BY <1>7, <1>9, <1>10 DEF a

-----------------------------------------------------------------------------
(* Types of the sending side. *)

Pend == [id : Msgs, left : Seq(Byte)]
\* A task that frees a message has one.
WriterRec == {r \in [pc : {"idle", "start", "free", "freeing"}, msg : 0 .. MaxMsgs] :
                r.pc = "freeing" => r.msg \in Msgs}

TypeTx ==
  /\ pending \in Seq(Pend) /\ tofree \in Seq(Msgs)
  /\ freed \subseteq Msgs /\ fifo \in Seq(Byte) /\ Len(fifo) <= FifoSize
  /\ wire \in Seq(Byte) /\ queued \in Seq(Byte) /\ txint \in BOOLEAN
  /\ writer \in [Tasks -> WriterRec]
  /\ nmsgs \in 0 .. MaxMsgs

\* The bytes of a pending list.
Lefts(p) == [i \in 1 .. Len(p) |-> p[i].left]
Flat(p) == FlattenSeq(Lefts(p))

LEMMA Sizes ==
  /\ MaxMsgs \in Nat /\ MaxIn \in Nat /\ FifoSize \in Nat \ {0} /\ Burst \in Nat \ {0}
  /\ MaxBatch \in Nat \ {0} /\ BufSize \in Nat /\ BufSize > 3
BY SerialAssumption

LEMMA LeftsType ==
  ASSUME NEW p \in Seq(Pend)
  PROVE  /\ Len(p) \in Nat /\ Lefts(p) \in Seq(Seq(Byte)) /\ Len(Lefts(p)) = Len(p)
         /\ \A i \in 1 .. Len(p) : /\ p[i] \in Pend /\ p[i].id \in Msgs /\ p[i].left \in Seq(Byte)
                                   /\ Lefts(p)[i] = p[i].left
<1>1. Len(p) \in Nat /\ \A i \in 1 .. Len(p) : p[i] \in Pend
  OBVIOUS
<1>2. \A e \in Pend : e.id \in Msgs /\ e.left \in Seq(Byte)
  BY DEF Pend
<1>3. Lefts(p) \in [1 .. Len(p) -> Seq(Byte)]
  BY <1>1, <1>2 DEF Lefts
<1>4. \A i \in 1 .. Len(p) : Lefts(p)[i] = p[i].left BY DEF Lefts
<1> DEFINE l == Lefts(p)
<1> HIDE DEF l
<1>5. l \in Seq(Seq(Byte)) /\ Len(l) = Len(p) BY <1>1, <1>3 DEF l
<1>6. QED BY <1>1, <1>2, <1>4, <1>5 DEF l

LEMMA FlatType == ASSUME NEW p \in Seq(Pend) PROVE Flat(p) \in Seq(Byte)
<1>1. Lefts(p) \in Seq(Seq(Byte)) BY LeftsType
<1>2. QED BY <1>1, JoinsExist, FlattenIs DEF Flat

\* What the critical section of tls_uart_tx_chars does: some bytes go from the first
\* message to the FIFO, and the message goes off the list when none is left of it.
LEMMA TxCharsDoes ==
  ASSUME TypeTx, TxChars
  PROVE  /\ pending # <<>> /\ pending' \in Seq(Pend) /\ fifo' \in Seq(Byte)
         /\ Len(fifo') <= FifoSize /\ Head(pending) = pending[1] /\ 1 \in 1 .. Len(pending)
         /\ Done => Len(pending') = Len(pending) - 1
                    /\ \A i \in 1 .. Len(pending') : pending'[i].id = pending[i + 1].id
         /\ ~Done => Len(pending') = Len(pending)
                     /\ \A i \in 1 .. Len(pending') : pending'[i].id = pending[i].id
         /\ \E x \in Seq(Byte) : fifo' = Cat(fifo, x) /\ Flat(pending) = Cat(x, Flat(pending'))
<1> DEFINE p == pending
           m == pending[1]
           n == Room(m)
           x == SubSeq(m.left, 1, n)
           y == SubSeq(m.left, n + 1, Len(m.left))
           l == Lefts(pending)
           r == Lefts(pending')
<1>1. /\ p \in Seq(Pend) /\ p # <<>> /\ fifo \in Seq(Byte) /\ Len(fifo) <= FifoSize
  BY DEF TypeTx, TxChars
<1>2. Head(p) = m /\ Len(p) \in Nat /\ Len(p) > 0 /\ 1 \in 1 .. Len(p)
  BY <1>1
<1>3. m \in Pend /\ m.left \in Seq(Byte) /\ l \in Seq(Seq(Byte)) /\ Len(l) = Len(p) /\ l[1] = m.left
  BY <1>1, <1>2, LeftsType
<1>4. n \in 0 .. Len(m.left) /\ n <= FifoSize - Len(fifo)
  <2>1. Len(fifo) \in Nat /\ Len(m.left) \in Nat BY <1>1, <1>3
  <2> HIDE DEF m
  <2>2. QED BY <1>1, <2>1, Sizes DEF Room, Smaller
<1>5. /\ fifo' = fifo \o x
      /\ pending' = IF Done THEN Tail(p) ELSE <<[m EXCEPT !.left = y]>> \o Tail(p)
      /\ Done <=> n = Len(m.left)
  BY <1>2 DEF TxChars, Done, Rest
<1>6. Tail(p) \in Seq(Pend) /\ Len(Tail(p)) = Len(p) - 1 /\ \A i \in 1 .. Len(p) - 1 : Tail(p)[i] = p[i + 1]
  BY <1>1, HeadTailProperties
<1> HIDE DEF m, n
<1>7. /\ x \in Seq(Byte) /\ y \in Seq(Byte) /\ Len(x) = n
  <2>1. Len(m.left) \in Nat /\ n \in Int /\ \A i \in 1 .. Len(m.left) : m.left[i] \in Byte
    BY <1>3, <1>4
  <2>2. \A i \in 1 .. n : m.left[i] \in Byte BY <1>4, <2>1
  <2>3. \A i \in n + 1 .. Len(m.left) : m.left[i] \in Byte BY <1>4, <2>1
  <2>4. x \in Seq(Byte) /\ Len(x) = IF 1 <= n THEN n - 1 + 1 ELSE 0
    BY <2>1, <2>2, SubSeqProperties
  <2>5. y \in Seq(Byte)
    BY <2>1, <2>3, SubSeqProperties
  <2> HIDE DEF x
  <2>6. QED BY <1>4, <2>4, <2>5
<1>8. m.left = Cat(x, y)
  <2>1. 1 \in 1 .. Len(m.left) + 1 /\ n \in 1 - 1 .. Len(m.left) /\ Len(m.left) \in n .. Len(m.left)
    BY <1>3, <1>4
  <2>2. x \o y = SubSeq(m.left, 1, Len(m.left)) BY <1>3, <2>1, ConcatAdjacentSubSeq
  <2>3. SubSeq(m.left, 1, Len(m.left)) = m.left BY <1>3, SubSeqFull
  <2>4. QED BY <2>2, <2>3 DEF Cat
<1>9. fifo' \in Seq(Byte) /\ Len(fifo') <= FifoSize /\ fifo' = Cat(fifo, x)
  <2> HIDE DEF x
  <2>1. fifo' \in Seq(Byte) /\ Len(fifo') = Len(fifo) + Len(x)
    BY <1>1, <1>5, <1>7, ConcatProperties
  <2>2. Len(fifo) \in Nat BY <1>1
  <2>3. QED BY <1>4, <1>5, <1>7, <2>1, <2>2, Sizes DEF Cat
<1> HIDE DEF x, y
<1>10. CASE Done
  <2>1. pending' = Tail(p) BY <1>5, <1>10
  <2>2. /\ pending' \in Seq(Pend) /\ Len(pending') = Len(p) - 1
        /\ \A i \in 1 .. Len(pending') : pending'[i].id = pending[i + 1].id
                                         /\ pending'[i].left = pending[i + 1].left
    BY <1>6, <2>1
  <2>3. x = m.left
    <3>1. SubSeq(m.left, 1, Len(m.left)) = m.left BY <1>3, SubSeqFull
    <3>2. QED BY <1>5, <1>10, <3>1 DEF x
  <2>4. r \in Seq(Seq(Byte)) /\ Len(r) = Len(l) - 1 /\ \A k \in 1 .. Len(r) : r[k] = l[k + 1]
    <3>1. r \in Seq(Seq(Byte)) /\ Len(r) = Len(p) - 1 /\ \A k \in 1 .. Len(p) - 1 : r[k] = pending'[k].left
      BY <2>2, LeftsType
    <3>2. \A k \in 1 .. Len(p) : l[k] = p[k].left BY <1>1, LeftsType
    <3> HIDE DEF r, l
    <3>3. ASSUME NEW k \in 1 .. Len(p) - 1 PROVE r[k] = l[k + 1]
      <4>1. k + 1 \in 1 .. Len(p) BY <1>2
      <4>2. QED BY <2>2, <3>1, <3>2, <4>1
    <3>4. QED BY <1>3, <3>1, <3>3
  <2> HIDE DEF r, l
  <2>5. FlattenSeq(l) = Cat(l[1], FlattenSeq(r))
    BY <1>2, <1>3, <2>4, FlattenTail
  <2>6. Flat(pending) = Cat(x, Flat(pending'))
    BY <1>3, <2>3, <2>5 DEF Flat, l, r
  <2>7. QED BY <1>2, <1>1, <1>7, <1>9, <1>10, <2>2, <2>6
<1>11. CASE ~Done
  <2> DEFINE e == [m EXCEPT !.left = y]
  <2>1. pending' = <<e>> \o Tail(p) BY <1>5, <1>11
  <2>2. e \in Pend /\ e.id = m.id /\ e.left = y BY <1>3, <1>7 DEF Pend
  <2> HIDE DEF e
  <2>3. <<e>> \in Seq(Pend) /\ Len(<<e>>) = 1 /\ <<e>>[1] = e BY <2>2
  <2>4. /\ pending' \in Seq(Pend) /\ Len(pending') = 1 + (Len(p) - 1)
        /\ \A i \in 1 .. 1 + (Len(p) - 1) : pending'[i] = IF i <= 1 THEN <<e>>[i] ELSE Tail(p)[i - 1]
    BY <1>6, <2>1, <2>3, ConcatProperties
  <2>5. Len(pending') = Len(p) /\ pending'[1] = e /\ \A i \in 2 .. Len(p) : pending'[i] = p[i]
    <3>1. Len(pending') = Len(p) /\ pending'[1] = e BY <1>2, <2>3, <2>4
    <3>2. ASSUME NEW i \in 2 .. Len(p) PROVE pending'[i] = p[i]
      <4>1. i - 1 \in 1 .. Len(p) - 1 /\ ~(i <= 1) /\ (i - 1) + 1 = i /\ i \in 1 .. 1 + (Len(p) - 1)
        BY <1>2
      <4>2. QED BY <1>6, <2>4, <4>1
    <3>3. QED BY <3>1, <3>2
  <2>6. \A i \in 1 .. Len(pending') : pending'[i].id = pending[i].id
    <3> SUFFICES ASSUME NEW i \in 1 .. Len(p) PROVE pending'[i].id = p[i].id
      BY <2>5
    <3>1. CASE i = 1 BY <2>2, <2>5, <3>1 DEF m
    <3>2. CASE i # 1
      <4>1. i \in 2 .. Len(p) BY <1>2, <3>2
      <4>2. QED BY <2>5, <4>1
    <3>3. QED BY <3>1, <3>2
  <2>7. /\ r \in Seq(Seq(Byte)) /\ Len(r) = Len(l) /\ l[1] = Cat(x, r[1])
        /\ \A k \in 2 .. Len(l) : r[k] = l[k]
    <3>1. r \in Seq(Seq(Byte)) /\ Len(r) = Len(p) /\ \A k \in 1 .. Len(p) : r[k] = pending'[k].left
      BY <2>4, <2>5, LeftsType
    <3>2. \A k \in 1 .. Len(p) : l[k] = p[k].left BY <1>1, LeftsType
    <3> HIDE DEF r, l
    <3>3. r[1] = y BY <1>2, <2>2, <2>5, <3>1
    <3>4. ASSUME NEW k \in 2 .. Len(p) PROVE r[k] = l[k]
      <4>1. k \in 1 .. Len(p) BY <1>2
      <4>2. QED BY <2>5, <3>1, <3>2, <4>1
    <3>5. QED BY <1>3, <1>8, <3>1, <3>3, <3>4
  <2> HIDE DEF r, l
  <2>8. FlattenSeq(l) = Cat(x, FlattenSeq(r))
    BY <1>2, <1>3, <1>7, <2>7, FlattenFront
  <2>9. Flat(pending) = Cat(x, Flat(pending'))
    BY <2>8 DEF Flat, l, r
  <2>10. QED BY <1>1, <1>2, <1>7, <1>9, <1>11, <2>4, <2>5, <2>6, <2>9
<1>12. QED BY <1>10, <1>11

TxLine == Cat(Cat(wire, fifo), Flat(pending)) = queued

\* Bytes move from the pending list to the FIFO without a change to the line they are on.
LEMMA TxCharsLine ==
  ASSUME TypeTx, TxLine, TxChars, UNCHANGED <<wire, queued>>
  PROVE  TxLine'
<1>1. PICK x \in Seq(Byte) : fifo' = Cat(fifo, x) /\ Flat(pending) = Cat(x, Flat(pending'))
  BY TxCharsDoes
<1> DEFINE f == Flat(pending')
           w == wire
           b == fifo
<1>2. f \in Seq(Byte) BY TxCharsDoes, FlatType
<1>3. w \in Seq(Byte) /\ b \in Seq(Byte) BY DEF TypeTx
<1>4. Cat(Cat(w, b), Cat(x, f)) = queued BY <1>1 DEF TxLine
<1> HIDE DEF f, w, b
<1>5. Cat(w, b) \in Seq(Byte) /\ Cat(b, x) \in Seq(Byte) BY <1>3, CatType
<1>6. Cat(Cat(Cat(w, b), x), f) = Cat(Cat(w, b), Cat(x, f)) BY <1>2, <1>5, CatAssoc
<1>7. Cat(Cat(w, b), x) = Cat(w, Cat(b, x)) BY <1>3, CatAssoc
<1>8. Cat(Cat(w, Cat(b, x)), f) = queued BY <1>4, <1>6, <1>7
<1>9. QED BY <1>1, <1>8 DEF TxLine, f, w, b

LEMMA WriterStep ==
  ASSUME TypeTx, NEW t \in Tasks
  PROVE  /\ \A c \in {"idle", "start", "free"} :
              [writer EXCEPT ![t].pc = c] \in [Tasks -> WriterRec]
         /\ \A r \in WriterRec : [writer EXCEPT ![t] = r] \in [Tasks -> WriterRec]
<1>1. writer \in [Tasks -> WriterRec] BY DEF TypeTx
<1>2. ASSUME NEW c \in {"idle", "start", "free"} PROVE [writer EXCEPT ![t].pc = c] \in [Tasks -> WriterRec]
  <2> DEFINE r == [writer[t] EXCEPT !.pc = c]
  <2>1. [writer EXCEPT ![t].pc = c] = [writer EXCEPT ![t] = r] BY <1>1
  <2>2. writer[t] \in WriterRec BY <1>1
  <2>3. r \in WriterRec BY <2>2 DEF WriterRec
  <2> HIDE DEF r
  <2>4. QED BY <1>1, <2>1, <2>3
<1>3. QED BY <1>1, <1>2

LEMMA MsgNumber == ASSUME TypeTx, nmsgs < MaxMsgs PROVE nmsgs + 1 \in Msgs /\ nmsgs + 1 \in 0 .. MaxMsgs
BY Sizes DEF TypeTx, Msgs

\* A write: the message goes to the end of the list.
LEMMA FillTx ==
  ASSUME TypeTx, TxLine, NEW t \in Tasks, tls_uart_fill_buf(t)
  PROVE  TypeTx' /\ TxLine'
<1>1. nmsgs' = nmsgs + 1 /\ UNCHANGED <<tofree, freed, fifo, wire, txint>> /\ nmsgs < MaxMsgs
  BY DEF tls_uart_fill_buf
<1>2. nmsgs' \in 0 .. MaxMsgs /\ nmsgs + 1 \in Msgs BY <1>1, MsgNumber
<1>3. CASE UNCHANGED <<pending, queued, writer>>
  BY <1>1, <1>2, <1>3 DEF TypeTx, TxLine
<1>4. CASE ~UNCHANGED <<pending, queued, writer>>
  <2>1. PICK n \in Lens :
          LET data == [i \in 1 .. n |-> <<nmsgs + 1, i>>]
          IN /\ pending' = Append(pending, [id |-> nmsgs + 1, left |-> data])
             /\ queued' = queued \o data
             /\ writer' = [writer EXCEPT ![t].pc = "start"]
    BY <1>4 DEF tls_uart_fill_buf
  <2> DEFINE data == [i \in 1 .. n |-> <<nmsgs + 1, i>>]
             e == [id |-> nmsgs + 1, left |-> data]
             l == Lefts(pending)
  <2>2. data \in Seq(Byte)
    <3>1. n \in Nat BY SerialAssumption
    <3>2. data \in [1 .. n -> Byte] BY <1>2, <3>1 DEF Byte
    <3> HIDE DEF data
    <3>3. QED BY <3>1, <3>2
  <2>3. pending' = Append(pending, e) /\ queued' = Cat(queued, data)
    BY <2>1 DEF Cat
  <2> HIDE DEF data
  <2>4. e \in Pend /\ e.left = data BY <1>2, <2>2 DEF Pend
  <2> HIDE DEF e
  <2>5. pending \in Seq(Pend) /\ queued \in Seq(Byte) /\ wire \in Seq(Byte) /\ fifo \in Seq(Byte)
    BY DEF TypeTx
  <2>6. /\ pending' \in Seq(Pend) /\ Len(pending') = Len(pending) + 1 /\ pending'[Len(pending) + 1] = e
        /\ \A i \in 1 .. Len(pending) : pending'[i] = pending[i]
    BY <2>3, <2>4, <2>5
  <2>7. queued' \in Seq(Byte) BY <2>2, <2>3, <2>5, CatType
  <2>8. writer' \in [Tasks -> WriterRec] BY <2>1, WriterStep
  <2>9. TypeTx'
    BY <1>1, <1>2, <2>6, <2>7, <2>8 DEF TypeTx
  <2>10. Lefts(pending') = Append(l, data)
    <3>1. l \in Seq(Seq(Byte)) /\ Len(l) = Len(pending) /\ Len(pending) \in Nat
          /\ \A i \in 1 .. Len(pending) : l[i] = pending[i].left
      BY <2>5, LeftsType
    <3>2. Lefts(pending') \in Seq(Seq(Byte)) /\ Len(Lefts(pending')) = Len(pending) + 1
          /\ \A i \in 1 .. Len(pending) + 1 : Lefts(pending')[i] = pending'[i].left
      BY <2>6, LeftsType
    <3> DEFINE r == Lefts(pending')
               a == Append(l, data)
    <3> HIDE DEF l, r
    <3>3. a \in Seq(Seq(Byte)) /\ Len(a) = Len(l) + 1 /\ a[Len(l) + 1] = data
          /\ \A i \in 1 .. Len(l) : a[i] = l[i]
      BY <2>2, <3>1
    <3> HIDE DEF a
    <3>4. ASSUME NEW i \in 1 .. Len(r) PROVE r[i] = a[i]
      <4>1. CASE i = Len(pending) + 1 BY <2>4, <2>6, <3>1, <3>2, <3>3, <4>1 DEF r
      <4>2. CASE i # Len(pending) + 1
        <5>1. i \in 1 .. Len(pending) /\ i \in 1 .. Len(pending) + 1 BY <3>1, <3>2, <4>2 DEF r
        <5>2. QED BY <2>6, <3>1, <3>2, <3>3, <5>1 DEF r
      <4>3. QED BY <4>1, <4>2
    <3>5. r \in Seq(Seq(Byte)) /\ Len(r) = Len(a) BY <3>1, <3>2, <3>3 DEF r
    <3>6. r = a BY <3>3, <3>4, <3>5, SeqEqual
    <3>7. QED BY <3>6 DEF r, a
  <2>11. l \in Seq(Seq(Byte)) BY <2>5, LeftsType
  <2> HIDE DEF l
  <2>12. Flat(pending') = Cat(Flat(pending), data)
    BY <2>2, <2>10, <2>11, FlattenAppend DEF Flat, l
  <2> DEFINE w == Cat(wire, fifo)
             f == Flat(pending)
  <2>13. w \in Seq(Byte) /\ f \in Seq(Byte) BY <2>5, CatType, FlatType
  <2> HIDE DEF w, f
  <2>14. Cat(Cat(w, f), data) = Cat(w, Cat(f, data)) BY <2>2, <2>13, CatAssoc
  <2>15. queued = Cat(w, f) BY DEF TxLine, w, f
  <2>16. Cat(w, Flat(pending')) = queued' BY <2>3, <2>12, <2>14, <2>15 DEF f
  <2>17. TxLine' BY <1>1, <2>16 DEF TxLine, w
  <2>18. QED BY <2>9, <2>17
<1>5. QED BY <1>3, <1>4

LEMMA HeadId == ASSUME TypeTx, TxChars PROVE Head(pending).id \in Msgs
<1>1. 1 \in 1 .. Len(pending) /\ Head(pending) = pending[1] BY TxCharsDoes
<1>2. pending \in Seq(Pend) BY DEF TypeTx
<1>3. QED BY <1>1, <1>2, LeftsType

LEMMA StartTx ==
  ASSUME TypeTx, TxLine, NEW t \in Tasks, tls_uart_tx_chars_start(t)
  PROVE  TypeTx' /\ TxLine'
<1>1. UNCHANGED <<freed, wire, txint, queued, nmsgs>>
  BY DEF tls_uart_tx_chars_start
<1>2. writer' \in [Tasks -> WriterRec]
  BY WriterStep DEF tls_uart_tx_chars_start
<1>3. CASE TxChars /\ (tofree' = Append(tofree, Head(pending).id) \/ tofree' = tofree)
  <2>1. tofree' \in Seq(Msgs)
    <3>1. tofree \in Seq(Msgs) /\ Head(pending).id \in Msgs BY <1>3, HeadId DEF TypeTx
    <3>2. QED BY <1>3, <3>1
  <2>2. TypeTx' BY <1>1, <1>2, <1>3, <2>1, TxCharsDoes DEF TypeTx
  <2>3. QED BY <1>1, <1>3, <2>2, TxCharsLine
<1>4. CASE UNCHANGED <<pending, fifo, tofree>>
  BY <1>1, <1>2, <1>4 DEF TypeTx, TxLine
<1>5. QED BY <1>3, <1>4 DEF tls_uart_tx_chars_start

LEMMA FreeTx ==
  ASSUME TypeTx, TxLine, NEW t \in Tasks, FreeNext(t) \/ Free(t)
  PROVE  TypeTx' /\ TxLine'
<1>1. UNCHANGED <<pending, fifo, wire, txint, queued, nmsgs>>
  BY DEF FreeNext, Free
<1>2. tofree \in Seq(Msgs) /\ freed \subseteq Msgs BY DEF TypeTx
<1>3. /\ tofree' \in Seq(Msgs) /\ freed' \subseteq Msgs /\ writer' \in [Tasks -> WriterRec]
  <2>1. CASE FreeNext(t) /\ tofree # <<>>
    <3>1. Head(tofree) \in Msgs /\ Tail(tofree) \in Seq(Msgs) BY <1>2, <2>1
    <3>2. [pc |-> "freeing", msg |-> Head(tofree)] \in WriterRec BY <3>1 DEF WriterRec, Msgs
    <3>3. QED BY <1>2, <2>1, <3>1, <3>2, WriterStep DEF FreeNext, TakeFirst
  <2>2. CASE FreeNext(t) /\ tofree = <<>>
    <3>1. IdleWriter \in WriterRec BY Sizes DEF IdleWriter, WriterRec
    <3>2. QED BY <1>2, <2>2, <3>1, WriterStep DEF FreeNext
  <2>3. CASE Free(t)
    <3>1. [pc |-> "free", msg |-> 0] \in WriterRec BY Sizes DEF WriterRec
    <3>2. writer' \in [Tasks -> WriterRec] /\ tofree' = tofree
      BY <2>3, <3>1, WriterStep DEF Free
    <3>3. writer[t] \in WriterRec BY DEF TypeTx
    <3>4. writer[t].msg \in Msgs /\ freed' = freed \cup {writer[t].msg} BY <2>3, <3>3 DEF Free, WriterRec
    <3>5. QED BY <1>2, <3>2, <3>4
  <2>4. QED BY <2>1, <2>2, <2>3
<1>4. QED BY <1>1, <1>3 DEF TypeTx, TxLine

LEMMA InterruptTx ==
  ASSUME TypeTx, TxLine, TxInterrupt
  PROVE  TypeTx' /\ TxLine'
<1>1. UNCHANGED <<wire, writer, queued, nmsgs>> /\ txint' = FALSE
  BY DEF TxInterrupt
<1>2. tofree \in Seq(Msgs) /\ freed \subseteq Msgs BY DEF TypeTx
<1>3. CASE TxChars /\ tofree' = <<>>
           /\ freed' = freed \cup {tofree[i] : i \in 1 .. Len(tofree)} \cup {Head(pending).id}
  <2>1. Head(pending).id \in Msgs /\ \A i \in 1 .. Len(tofree) : tofree[i] \in Msgs
    BY <1>2, <1>3, HeadId
  <2>2. tofree' \in Seq(Msgs) /\ freed' \subseteq Msgs BY <1>2, <1>3, <2>1
  <2>3. TypeTx' BY <1>1, <1>3, <2>2, TxCharsDoes DEF TypeTx
  <2>4. QED BY <1>1, <1>3, <2>3, TxCharsLine
<1>4. CASE TxChars /\ UNCHANGED <<tofree, freed>>
  <2>1. TypeTx' BY <1>1, <1>4, TxCharsDoes DEF TypeTx
  <2>2. QED BY <1>1, <1>4, <2>1, TxCharsLine
<1>5. CASE UNCHANGED <<pending, fifo, tofree, freed>>
  BY <1>1, <1>5 DEF TypeTx, TxLine
<1>6. QED BY <1>3, <1>4, <1>5 DEF TxInterrupt

LEMMA ShiftTx ==
  ASSUME TypeTx, TxLine, Shift
  PROVE  TypeTx' /\ TxLine'
<1>1. /\ UNCHANGED <<pending, tofree, freed, writer, queued, nmsgs>> /\ fifo # <<>>
      /\ wire' = Append(wire, Head(fifo)) /\ fifo' = Tail(fifo) /\ txint' \in BOOLEAN
  BY DEF Shift, TypeTx
<1>2. fifo \in Seq(Byte) /\ wire \in Seq(Byte) /\ Len(fifo) <= FifoSize BY DEF TypeTx
<1> DEFINE h == <<Head(fifo)>>
           r == Tail(fifo)
<1>3. Head(fifo) \in Byte /\ r \in Seq(Byte) /\ Len(r) = Len(fifo) - 1 /\ Len(fifo) \in Nat
  BY <1>1, <1>2, HeadTailProperties
<1>4. h \in Seq(Byte) BY <1>3
<1>5. wire' \in Seq(Byte) /\ wire' = Cat(wire, h)
  <2>1. wire' \in Seq(Byte) BY <1>1, <1>2, <1>3
  <2>2. Append(wire, Head(fifo)) = wire \o h BY <1>2, <1>3, AppendIsConcat
  <2>3. QED BY <1>1, <2>1, <2>2 DEF Cat
<1>6. fifo = Cat(h, r)
  <2>1. 1 \in 1 .. Len(fifo) /\ Len(fifo) \in 1 .. Len(fifo) /\ Head(fifo) = fifo[1]
    BY <1>1, <1>2
  <2>2. SubSeq(fifo, 1, Len(fifo)) = <<fifo[1]>> \o SubSeq(fifo, 1 + 1, Len(fifo))
    BY <1>2, <2>1, SubSeqRecursiveFirst
  <2>3. SubSeq(fifo, 1, Len(fifo)) = fifo BY <1>2, SubSeqFull
  <2>4. r = SubSeq(fifo, 1 + 1, Len(fifo))
    <3>1. r = SubSeq(fifo, 2, Len(fifo)) BY <1>1, <1>2, TailIsSubSeq
    <3>2. 1 + 1 = 2 OBVIOUS
    <3> HIDE DEF r
    <3>3. QED BY <3>1, <3>2
  <2>5. QED BY <2>1, <2>2, <2>3, <2>4 DEF Cat
<1>7. TypeTx'
  <2>1. Len(fifo') <= FifoSize BY <1>1, <1>2, <1>3, Sizes
  <2>2. QED BY <1>1, <1>3, <1>5, <2>1 DEF TypeTx
<1> HIDE DEF h, r
<1>8. Cat(Cat(wire, h), r) = Cat(wire, Cat(h, r)) BY <1>2, <1>3, <1>4, CatAssoc
<1>9. Cat(wire', fifo') = Cat(wire, fifo) BY <1>1, <1>5, <1>6, <1>8 DEF r
<1>10. TxLine' BY <1>1, <1>9 DEF TxLine
<1>11. QED BY <1>7, <1>10

\* The steps of the receiving side leave the sending side alone.
Receiving ==
  RxInterrupt \/ Read \/ ReadByte \/ StoreBegin \/ StringEnds \/ StringClears \/ StringResets

LEMMA ReceivingTx == Receiving => UNCHANGED txVars
BY DEF Receiving, RxInterrupt, Read, ReadByte, StoreBegin, StringEnds, StringClears, StringResets

LEMMA TxActions ==
  ASSUME [Next]_vars
  PROVE  \/ \E t \in Tasks : tls_uart_fill_buf(t)
         \/ \E t \in Tasks : tls_uart_tx_chars_start(t)
         \/ \E t \in Tasks : FreeNext(t)
         \/ \E t \in Tasks : Free(t)
         \/ TxInterrupt \/ Shift \/ UNCHANGED txVars
<1>1. CASE UNCHANGED vars BY <1>1 DEF vars
<1>2. CASE Receiving BY <1>2, ReceivingTx
<1>3. QED BY <1>1, <1>2 DEF Next, Writing, Receiving

LEMMA InitTx == Init => TypeTx /\ TxLine
<1> SUFFICES ASSUME Init PROVE TypeTx /\ TxLine
  OBVIOUS
<1>1. /\ pending = <<>> /\ tofree = <<>> /\ freed = {} /\ fifo = <<>> /\ wire = <<>>
      /\ txint = FALSE /\ writer = [t \in Tasks |-> IdleWriter] /\ queued = <<>> /\ nmsgs = 0
  BY DEF Init
<1>2. IdleWriter \in WriterRec BY Sizes DEF IdleWriter, WriterRec
<1>3. <<>> \in Seq(Pend) /\ <<>> \in Seq(Msgs) /\ <<>> \in Seq(Byte) /\ Len(<<>>) = 0
  OBVIOUS
<1>4. TypeTx
  <2>1. Len(fifo) <= FifoSize /\ nmsgs \in 0 .. MaxMsgs BY <1>1, <1>3, Sizes
  <2>2. writer \in [Tasks -> WriterRec] BY <1>1, <1>2
  <2>3. pending \in Seq(Pend) /\ tofree \in Seq(Msgs) /\ fifo \in Seq(Byte) /\ wire \in Seq(Byte)
        /\ queued \in Seq(Byte) /\ freed \subseteq Msgs /\ txint \in BOOLEAN
    BY <1>1, <1>3
  <2>4. QED BY <2>1, <2>2, <2>3 DEF TypeTx
<1>5. Flat(<<>>) = <<>>
  <2> DEFINE l == Lefts(<<>>)
  <2>1. l \in Seq(Seq(Byte)) /\ Len(l) = 0 BY <1>3, LeftsType
  <2> HIDE DEF l
  <2>2. l = <<>> BY <2>1
  <2>3. FlattenSeq(l) = l BY <2>1 DEF FlattenSeq
  <2>4. QED BY <2>2, <2>3 DEF Flat, l
<1>6. Cat(Cat(<<>>, <<>>), <<>>) = <<>> BY <1>3, CatEmpty
<1>7. TxLine BY <1>1, <1>5, <1>6 DEF TxLine
<1>8. QED BY <1>4, <1>7

LEMMA NextTx == TypeTx /\ TxLine /\ [Next]_vars => TypeTx' /\ TxLine'
<1> SUFFICES ASSUME TypeTx, TxLine, [Next]_vars PROVE TypeTx' /\ TxLine'
  OBVIOUS
<1>1. CASE UNCHANGED txVars BY <1>1 DEF txVars, TypeTx, TxLine
<1>2. QED BY <1>1, TxActions, FillTx, StartTx, FreeTx, InterruptTx, ShiftTx

\* All that was written is on the wire, in the FIFO or on the pending list, byte for byte
\* in the order of the writes, for any tasks, lengths and sizes: tls_uart_tx_chars and
\* tls_uart_tx_chars_start neither lose, repeat nor reorder a byte.
THEOREM SentExactly == Spec => []TxExact
<1>1. TxLine => TxExact BY DEF TxLine, TxExact, Cat, Flat, Lefts
<1>2. QED BY <1>1, InitTx, NextTx, PTL DEF Spec

-----------------------------------------------------------------------------
(* Each message is in one place, and freed once. *)

\* The numbers of messages that were given out so far.
FreedInv == FreedOnce /\ Waiting \cup Sent \cup Taken \cup freed \subseteq 1 .. nmsgs

\* The first message goes off the pending list, or stays.
LEMMA TxCharsWaiting ==
  ASSUME TypeTx, FreedOnce, TxChars
  PROVE  /\ \A i, j \in 1 .. Len(pending') : pending'[i].id = pending'[j].id => i = j
         /\ Head(pending).id \in Waiting
         /\ Done => Waiting' \subseteq Waiting \ {Head(pending).id}
         /\ ~Done => Waiting' \subseteq Waiting
<1> DEFINE N == Len(pending)
           h == Head(pending).id
<1>1. /\ pending \in Seq(Pend) /\ N \in Nat /\ 1 \in 1 .. N /\ h = pending[1].id
  BY TxCharsDoes, LeftsType DEF TypeTx
<1>2. \A i, j \in 1 .. N : pending[i].id = pending[j].id => i = j BY DEF FreedOnce
<1>3. h \in Waiting BY <1>1 DEF Waiting
<1>4. CASE Done
  <2>1. Len(pending') = N - 1 /\ \A i \in 1 .. N - 1 : pending'[i].id = pending[i + 1].id
    BY <1>4, TxCharsDoes
  <2>2. ASSUME NEW i \in 1 .. N - 1 PROVE i + 1 \in 1 .. N BY <1>1
  <2>3. ASSUME NEW i \in 1 .. N - 1, NEW j \in 1 .. N - 1, pending'[i].id = pending'[j].id PROVE i = j
    <3>1. i + 1 = j + 1 BY <1>2, <2>1, <2>2, <2>3
    <3>2. QED BY <3>1
  <2>4. ASSUME NEW i \in 1 .. N - 1 PROVE pending'[i].id \in Waiting /\ pending'[i].id # h
    <3>1. pending'[i].id = pending[i + 1].id /\ i + 1 \in 1 .. N /\ i + 1 # 1 BY <2>1, <2>2
    <3>2. QED BY <1>1, <1>2, <3>1 DEF Waiting
  <2>5. Waiting' = {pending'[i].id : i \in 1 .. N - 1} BY <2>1 DEF Waiting
  <2>6. Waiting' \subseteq Waiting \ {h} BY <2>4, <2>5
  <2>7. QED BY <1>3, <1>4, <2>1, <2>3, <2>6
<1>5. CASE ~Done
  <2>1. Len(pending') = N /\ \A i \in 1 .. N : pending'[i].id = pending[i].id
    BY <1>5, TxCharsDoes
  <2>2. Waiting' = {pending'[i].id : i \in 1 .. N} BY <2>1 DEF Waiting
  <2>3. Waiting' \subseteq Waiting BY <2>1, <2>2 DEF Waiting
  <2>4. \A i, j \in 1 .. N : pending'[i].id = pending'[j].id => i = j BY <1>2, <2>1
  <2>5. QED BY <1>3, <1>5, <2>1, <2>3, <2>4
<1>6. QED BY <1>4, <1>5

\* A task that neither begins nor ends the freeing of a message.
LEMMA WriterKeeps ==
  ASSUME TypeTx, NEW t \in Tasks, NEW c \in {"idle", "start", "free"}, writer[t].pc # "freeing",
         writer' = [writer EXCEPT ![t].pc = c]
  PROVE  Freeing' = Freeing /\ Taken' = Taken /\ \A u \in Freeing : writer'[u].msg = writer[u].msg
<1>1. writer \in [Tasks -> WriterRec]
  BY DEF TypeTx
<1>2. ASSUME NEW u \in Tasks
      PROVE  writer'[u].msg = writer[u].msg /\ (writer'[u].pc = "freeing" <=> writer[u].pc = "freeing")
  <2>1. CASE u # t BY <1>1, <2>1
  <2>2. CASE u = t
    <3>1. writer[t] \in WriterRec BY <1>1
    <3>2. writer'[t] = [writer[t] EXCEPT !.pc = c] BY <1>1
    <3>3. writer'[t].pc = c /\ writer'[t].msg = writer[t].msg BY <3>1, <3>2 DEF WriterRec
    <3>4. QED BY <2>2, <3>3
  <2>3. QED BY <2>1, <2>2
<1>3. Freeing' = Freeing BY <1>2 DEF Freeing
<1>4. \A u \in Freeing : writer'[u].msg = writer[u].msg BY <1>2 DEF Freeing
<1>5. Taken' = Taken BY <1>3, <1>4 DEF Taken
<1>6. QED BY <1>3, <1>4, <1>5

LEMMA FillFreed ==
  ASSUME TypeTx, FreedInv, NEW t \in Tasks, tls_uart_fill_buf(t)
  PROVE  FreedInv'
<1>1. nmsgs' = nmsgs + 1 /\ UNCHANGED <<tofree, freed>> /\ nmsgs \in Nat
  BY Sizes DEF tls_uart_fill_buf, TypeTx
<1>2. Sent' = Sent BY <1>1 DEF Sent
<1>3. Freeing' = Freeing /\ Taken' = Taken /\ \A u \in Freeing : writer'[u].msg = writer[u].msg
  <2>1. writer[t].pc = "idle" /\ (writer' = writer \/ writer' = [writer EXCEPT ![t].pc = "start"])
    BY DEF tls_uart_fill_buf
  <2>2. QED BY <2>1, WriterKeeps DEF Freeing, Taken
<1>4. \A i \in 1 .. nmsgs : i \in 1 .. nmsgs + 1 BY <1>1
<1>5. nmsgs + 1 \notin 1 .. nmsgs /\ nmsgs + 1 \in 1 .. nmsgs + 1 BY <1>1
<1>6. /\ Waiting' \subseteq Waiting \cup {nmsgs + 1}
      /\ \A i, j \in 1 .. Len(pending') : pending'[i].id = pending'[j].id => i = j
  <2>1. CASE pending' = pending
    BY <2>1 DEF Waiting, FreedInv, FreedOnce
  <2>2. CASE pending' # pending
    <3> DEFINE N == Len(pending)
    <3>1. PICK e : pending' = Append(pending, e) /\ e.id = nmsgs + 1 /\ e \in Pend
      <4>1. PICK n \in Lens :
              LET data == [i \in 1 .. n |-> <<nmsgs + 1, i>>]
              IN pending' = Append(pending, [id |-> nmsgs + 1, left |-> data])
        BY <2>2 DEF tls_uart_fill_buf
      <4> DEFINE data == [i \in 1 .. n |-> <<nmsgs + 1, i>>]
      <4>2. nmsgs + 1 \in Msgs BY MsgNumber DEF tls_uart_fill_buf
      <4>3. data \in Seq(Byte)
        <5>1. n \in Nat BY SerialAssumption
        <5>2. data \in [1 .. n -> Byte] BY <4>2, <5>1 DEF Byte
        <5> HIDE DEF data
        <5>3. QED BY <5>1, <5>2
      <4>4. pending' = Append(pending, [id |-> nmsgs + 1, left |-> data]) BY <4>1
      <4> HIDE DEF data
      <4>5. [id |-> nmsgs + 1, left |-> data] \in Pend BY <4>2, <4>3 DEF Pend
      <4>6. QED BY <4>4, <4>5
    <3>2. pending \in Seq(Pend) BY DEF TypeTx
    <3>3. /\ N \in Nat /\ Len(pending') = N + 1 /\ pending'[N + 1] = e
          /\ \A i \in 1 .. N : pending'[i] = pending[i]
      BY <3>1, <3>2
    <3>4. \A i \in 1 .. N : pending[i].id \in 1 .. nmsgs BY DEF FreedInv, Waiting
    <3>5. \A i, j \in 1 .. N : pending[i].id = pending[j].id => i = j BY DEF FreedInv, FreedOnce
    <3> HIDE DEF N
    <3>6. \A i \in 1 .. N + 1 : i = N + 1 \/ i \in 1 .. N BY <3>3
    <3>7. \A i, j \in 1 .. N + 1 : pending'[i].id = pending'[j].id => i = j
      BY <1>5, <3>1, <3>3, <3>4, <3>5, <3>6
    <3>8. Waiting' = {pending'[i].id : i \in 1 .. N + 1} BY <3>3 DEF Waiting
    <3>9. ASSUME NEW i \in 1 .. N + 1 PROVE pending'[i].id \in Waiting \cup {nmsgs + 1}
      BY <3>1, <3>3, <3>6 DEF Waiting, N
    <3>10. QED BY <3>3, <3>7, <3>8, <3>9
  <2>3. QED BY <2>1, <2>2
<1>7. /\ Waiting \cap Sent = {} /\ (Waiting \cup Sent) \cap Taken = {}
      /\ (Waiting \cup Sent \cup Taken) \cap freed = {}
      /\ Waiting \cup Sent \cup Taken \cup freed \subseteq 1 .. nmsgs
  BY DEF FreedInv, FreedOnce
<1>8. /\ Waiting' \cap Sent = {} /\ (Waiting' \cup Sent) \cap Taken = {}
      /\ (Waiting' \cup Sent \cup Taken) \cap freed = {}
      /\ Waiting' \cup Sent \cup Taken \cup freed \subseteq 1 .. nmsgs + 1
  BY <1>4, <1>5, <1>6, <1>7
<1>9. /\ \A i, j \in 1 .. Len(tofree') : tofree'[i] = tofree'[j] => i = j
      /\ \A u, v \in Freeing' : writer'[u].msg = writer'[v].msg => u = v
  BY <1>1, <1>3 DEF FreedInv, FreedOnce
<1>10. FreedOnce'
  BY <1>1, <1>2, <1>3, <1>6, <1>8, <1>9 DEF FreedOnce
<1>11. QED BY <1>1, <1>2, <1>3, <1>8, <1>10 DEF FreedInv

\* The invariant for an action, from what became of each of the places.
LEMMA FreedFrom ==
  ASSUME NEW W, NEW S, NEW T, NEW F, NEW n \in Nat,
         Waiting' = W, Sent' = S, Taken' = T, freed' = F, nmsgs' = n,
         W \cap S = {}, (W \cup S) \cap T = {}, (W \cup S \cup T) \cap F = {},
         W \cup S \cup T \cup F \subseteq 1 .. n,
         \A i, j \in 1 .. Len(pending') : pending'[i].id = pending'[j].id => i = j,
         \A i, j \in 1 .. Len(tofree') : tofree'[i] = tofree'[j] => i = j,
         \A u, v \in Freeing' : writer'[u].msg = writer'[v].msg => u = v
  PROVE  FreedInv'
BY DEF FreedInv, FreedOnce

LEMMA FreedParts ==
  ASSUME TypeTx, FreedInv
  PROVE  /\ Waiting \cap Sent = {} /\ (Waiting \cup Sent) \cap Taken = {}
         /\ (Waiting \cup Sent \cup Taken) \cap freed = {} /\ nmsgs \in Nat
         /\ Waiting \cup Sent \cup Taken \cup freed \subseteq 1 .. nmsgs
         /\ \A i, j \in 1 .. Len(pending) : pending[i].id = pending[j].id => i = j
         /\ \A i, j \in 1 .. Len(tofree) : tofree[i] = tofree[j] => i = j
         /\ \A u, v \in Freeing : writer[u].msg = writer[v].msg => u = v
         /\ FreedOnce
BY Sizes DEF FreedInv, FreedOnce, TypeTx

LEMMA StartFreed ==
  ASSUME TypeTx, FreedInv, NEW t \in Tasks, tls_uart_tx_chars_start(t)
  PROVE  FreedInv'
<1>1. UNCHANGED <<freed, nmsgs>> /\ writer[t].pc = "start"
  BY DEF tls_uart_tx_chars_start
<1>2. Freeing' = Freeing /\ Taken' = Taken /\ \A u \in Freeing : writer'[u].msg = writer[u].msg
  BY <1>1, WriterKeeps DEF tls_uart_tx_chars_start
<1>3. \A u, v \in Freeing' : writer'[u].msg = writer'[v].msg => u = v
  BY <1>2, FreedParts
<1>4. CASE TxChars /\ Done /\ tofree' = Append(tofree, Head(pending).id)
  <2> DEFINE h == Head(pending).id
             N == Len(tofree)
  <2>1. /\ \A i, j \in 1 .. Len(pending') : pending'[i].id = pending'[j].id => i = j
        /\ h \in Waiting /\ Waiting' \subseteq Waiting \ {h}
    BY <1>4, FreedParts, TxCharsWaiting
  <2>2. h \in Msgs /\ tofree \in Seq(Msgs) BY <1>4, HeadId DEF TypeTx
  <2>3. /\ N \in Nat /\ Len(tofree') = N + 1 /\ tofree'[N + 1] = h
        /\ \A i \in 1 .. N : tofree'[i] = tofree[i]
    BY <1>4, <2>2
  <2>4. \A i \in 1 .. N : tofree[i] \in Sent /\ tofree[i] # h
    <3>1. \A i \in 1 .. N : tofree[i] \in Sent BY DEF Sent
    <3>2. QED BY <2>1, <3>1, FreedParts
  <2>5. \A i, j \in 1 .. N : tofree[i] = tofree[j] => i = j BY FreedParts
  <2> HIDE DEF N, h
  <2>6. \A i \in 1 .. N + 1 : i = N + 1 \/ i \in 1 .. N BY <2>3
  <2>7. \A i, j \in 1 .. N + 1 : tofree'[i] = tofree'[j] => i = j BY <2>3, <2>4, <2>5, <2>6
  <2>8. Sent' \subseteq Sent \cup {h}
    <3>1. Sent' = {tofree'[i] : i \in 1 .. N + 1} BY <2>3 DEF Sent
    <3>2. \A i \in 1 .. N + 1 : tofree'[i] \in Sent \cup {h} BY <2>3, <2>4, <2>6
    <3>3. QED BY <3>1, <3>2
  <2>9. /\ Waiting' \cap Sent' = {} /\ (Waiting' \cup Sent') \cap Taken' = {}
        /\ (Waiting' \cup Sent' \cup Taken') \cap freed' = {}
        /\ Waiting' \cup Sent' \cup Taken' \cup freed' \subseteq 1 .. nmsgs'
    BY <1>1, <1>2, <2>1, <2>8, FreedParts
  <2>10. QED BY <1>1, <1>3, <2>1, <2>3, <2>7, <2>9, FreedParts, FreedFrom
<1>5. CASE TxChars /\ ~Done /\ tofree' = tofree
  <2>1. /\ \A i, j \in 1 .. Len(pending') : pending'[i].id = pending'[j].id => i = j
        /\ Waiting' \subseteq Waiting
    BY <1>5, FreedParts, TxCharsWaiting
  <2>2. Sent' = Sent BY <1>5 DEF Sent
  <2>3. /\ Waiting' \cap Sent' = {} /\ (Waiting' \cup Sent') \cap Taken' = {}
        /\ (Waiting' \cup Sent' \cup Taken') \cap freed' = {}
        /\ Waiting' \cup Sent' \cup Taken' \cup freed' \subseteq 1 .. nmsgs'
    BY <1>1, <1>2, <2>1, <2>2, FreedParts
  <2>4. \A i, j \in 1 .. Len(tofree') : tofree'[i] = tofree'[j] => i = j BY <1>5, FreedParts
  <2>5. QED BY <1>1, <1>3, <2>1, <2>3, <2>4, FreedParts, FreedFrom
<1>6. CASE UNCHANGED <<pending, fifo, tofree>>
  <2>1. Waiting' = Waiting /\ Sent' = Sent BY <1>6 DEF Waiting, Sent
  <2>2. /\ \A i, j \in 1 .. Len(pending') : pending'[i].id = pending'[j].id => i = j
        /\ \A i, j \in 1 .. Len(tofree') : tofree'[i] = tofree'[j] => i = j
    BY <1>6, FreedParts
  <2>3. QED BY <1>1, <1>2, <1>3, <2>1, <2>2, FreedParts, FreedFrom
<1>7. QED BY <1>4, <1>5, <1>6 DEF tls_uart_tx_chars_start

LEMMA FreeNextFreed ==
  ASSUME TypeTx, FreedInv, NEW t \in Tasks, FreeNext(t)
  PROVE  FreedInv'
<1>1. UNCHANGED <<pending, freed, nmsgs>> /\ writer[t].pc = "free" /\ t \notin Freeing
  BY DEF FreeNext, Freeing
<1>2. Waiting' = Waiting BY <1>1 DEF Waiting
<1>3. \A i, j \in 1 .. Len(pending') : pending'[i].id = pending'[j].id => i = j BY <1>1, FreedParts
<1>4. writer \in [Tasks -> WriterRec] /\ tofree \in Seq(Msgs) BY DEF TypeTx
<1>5. CASE tofree # <<>>
  <2> DEFINE h == Head(tofree)
             N == Len(tofree)
             r == [pc |-> "freeing", msg |-> h]
  <2>1. tofree' = Tail(tofree) /\ writer' = [writer EXCEPT ![t] = r] BY <1>5 DEF FreeNext, TakeFirst
  <2>2. /\ N \in Nat /\ 1 \in 1 .. N /\ h = tofree[1] /\ Len(tofree') = N - 1
        /\ \A i \in 1 .. N - 1 : tofree'[i] = tofree[i + 1]
    BY <1>4, <1>5, <2>1
  <2>3. r.pc = "freeing" /\ r.msg = h OBVIOUS
  <2> HIDE DEF r, h, N
  <2>4. h \in Sent BY <2>2 DEF Sent, N
  <2>5. \A i, j \in 1 .. N : tofree[i] = tofree[j] => i = j BY FreedParts DEF N
  <2>6. ASSUME NEW i \in 1 .. N - 1 PROVE tofree'[i] = tofree[i + 1] /\ i + 1 \in 1 .. N /\ i + 1 # 1
    BY <2>2
  <2>7. ASSUME NEW i \in 1 .. N - 1, NEW j \in 1 .. N - 1, tofree'[i] = tofree'[j] PROVE i = j
    <3>1. i + 1 = j + 1 BY <2>5, <2>6, <2>7
    <3>2. QED BY <3>1
  <2>8. Sent' \subseteq Sent \ {h}
    <3>1. Sent' = {tofree'[i] : i \in 1 .. N - 1} BY <2>2 DEF Sent
    <3>2. ASSUME NEW i \in 1 .. N - 1 PROVE tofree'[i] \in Sent \ {h}
      <4>1. tofree[i + 1] # h BY <2>2, <2>5, <2>6
      <4>2. QED BY <2>6, <4>1 DEF Sent, N
    <3>3. QED BY <3>1, <3>2
  <2>9. /\ \A u \in Tasks : u # t => writer'[u] = writer[u]
        /\ writer'[t] = r
    BY <1>4, <2>1
  <2>10. Freeing' = Freeing \cup {t} BY <2>3, <2>9 DEF Freeing
  <2>11. \A u \in Freeing : u # t /\ writer'[u].msg = writer[u].msg /\ writer[u].msg \in Taken
    BY <1>1, <2>9 DEF Freeing, Taken
  <2>12. Taken' \subseteq Taken \cup {h}
    <3>1. Taken' = {writer'[u].msg : u \in Freeing'} BY DEF Taken
    <3>2. QED BY <2>3, <2>9, <2>10, <2>11, <3>1
  <2>13. h \notin Taken BY <2>4, FreedParts
  <2>14. \A u, v \in Freeing' : writer'[u].msg = writer'[v].msg => u = v
    BY <2>3, <2>9, <2>10, <2>11, <2>13, FreedParts
  <2>15. /\ Waiting' \cap Sent' = {} /\ (Waiting' \cup Sent') \cap Taken' = {}
         /\ (Waiting' \cup Sent' \cup Taken') \cap freed' = {}
         /\ Waiting' \cup Sent' \cup Taken' \cup freed' \subseteq 1 .. nmsgs'
    BY <1>1, <1>2, <2>4, <2>8, <2>12, FreedParts
  <2>16. \A i, j \in 1 .. Len(tofree') : tofree'[i] = tofree'[j] => i = j BY <2>2, <2>7
  <2>17. QED BY <1>1, <1>3, <2>14, <2>15, <2>16, FreedParts, FreedFrom
<1>6. CASE tofree = <<>>
  <2>1. tofree' = tofree /\ writer' = [writer EXCEPT ![t] = IdleWriter] BY <1>6 DEF FreeNext
  <2>2. Sent' = Sent BY <2>1 DEF Sent
  <2>3. /\ \A u \in Tasks : u # t => writer'[u] = writer[u]
        /\ writer'[t].pc = "idle"
    BY <1>4, <2>1 DEF IdleWriter
  <2>4. Freeing' = Freeing BY <1>1, <2>3 DEF Freeing
  <2>5. \A u \in Freeing : writer'[u] = writer[u] BY <1>1, <2>3 DEF Freeing
  <2>6. Taken' = Taken BY <2>4, <2>5 DEF Taken
  <2>7. \A u, v \in Freeing' : writer'[u].msg = writer'[v].msg => u = v BY <2>4, <2>5, FreedParts
  <2>8. \A i, j \in 1 .. Len(tofree') : tofree'[i] = tofree'[j] => i = j BY <2>1, FreedParts
  <2>9. QED BY <1>1, <1>2, <1>3, <2>2, <2>6, <2>7, <2>8, FreedParts, FreedFrom
<1>7. QED BY <1>5, <1>6

LEMMA FreeFreed ==
  ASSUME TypeTx, FreedInv, NEW t \in Tasks, Free(t)
  PROVE  FreedInv'
<1> DEFINE h == writer[t].msg
           r == [pc |-> "free", msg |-> 0]
<1>1. /\ UNCHANGED <<pending, tofree, nmsgs>> /\ writer[t].pc = "freeing" /\ freed' = freed \cup {h}
      /\ writer' = [writer EXCEPT ![t] = r]
  BY DEF Free
<1>2. t \in Freeing /\ h \in Taken BY <1>1 DEF Freeing, Taken
<1>3. Waiting' = Waiting /\ Sent' = Sent BY <1>1 DEF Waiting, Sent
<1>4. writer \in [Tasks -> WriterRec] BY DEF TypeTx
<1>5. /\ \A u \in Tasks : u # t => writer'[u] = writer[u]
      /\ writer'[t].pc = "free"
  BY <1>1, <1>4
<1>6. Freeing' = Freeing \ {t} BY <1>5 DEF Freeing
<1>7. \A u \in Freeing \ {t} : writer'[u] = writer[u] /\ writer[u].msg \in Taken /\ writer[u].msg # h
  <2>1. \A u \in Freeing \ {t} : writer'[u] = writer[u] /\ writer[u].msg \in Taken
    BY <1>5 DEF Freeing, Taken
  <2>2. QED BY <1>2, <2>1, FreedParts
<1> HIDE DEF h
<1>8. Taken' \subseteq Taken \ {h}
  <2>1. Taken' = {writer'[u].msg : u \in Freeing'} BY DEF Taken
  <2>2. QED BY <1>6, <1>7, <2>1
<1>9. \A u, v \in Freeing' : writer'[u].msg = writer'[v].msg => u = v BY <1>6, <1>7, FreedParts
<1>10. /\ Waiting' \cap Sent' = {} /\ (Waiting' \cup Sent') \cap Taken' = {}
       /\ (Waiting' \cup Sent' \cup Taken') \cap freed' = {}
       /\ Waiting' \cup Sent' \cup Taken' \cup freed' \subseteq 1 .. nmsgs'
  BY <1>1, <1>2, <1>3, <1>8, FreedParts
<1>11. /\ \A i, j \in 1 .. Len(pending') : pending'[i].id = pending'[j].id => i = j
       /\ \A i, j \in 1 .. Len(tofree') : tofree'[i] = tofree'[j] => i = j
  BY <1>1, FreedParts
<1>12. QED BY <1>1, <1>9, <1>10, <1>11, FreedParts, FreedFrom

LEMMA SameFreed ==
  ASSUME FreedInv, UNCHANGED <<pending, tofree, freed, writer, nmsgs>>
  PROVE  FreedInv'
<1>1. Waiting' = Waiting BY DEF Waiting
<1>2. Sent' = Sent BY DEF Sent
<1>3. Freeing' = Freeing BY DEF Freeing
<1>4. Taken' = Taken BY <1>3 DEF Taken
<1>5. QED BY <1>1, <1>2, <1>3, <1>4 DEF FreedInv, FreedOnce

LEMMA InterruptFreed ==
  ASSUME TypeTx, FreedInv, TxInterrupt
  PROVE  FreedInv'
<1>1. UNCHANGED <<writer, nmsgs>> BY DEF TxInterrupt
<1>2. Freeing' = Freeing /\ Taken' = Taken BY <1>1 DEF Freeing, Taken
<1>3. \A u, v \in Freeing' : writer'[u].msg = writer'[v].msg => u = v BY <1>1, <1>2, FreedParts
<1>4. CASE TxChars /\ Done /\ tofree' = <<>> /\ freed' = freed \cup Sent \cup {Head(pending).id}
  <2> DEFINE h == Head(pending).id
  <2>1. /\ \A i, j \in 1 .. Len(pending') : pending'[i].id = pending'[j].id => i = j
        /\ h \in Waiting /\ Waiting' \subseteq Waiting \ {h}
    BY <1>4, FreedParts, TxCharsWaiting
  <2>2. Len(tofree') = 0 BY <1>4
  <2>3. Sent' = {} BY <2>2 DEF Sent
  <2> HIDE DEF h
  <2>4. /\ Waiting' \cap Sent' = {} /\ (Waiting' \cup Sent') \cap Taken' = {}
        /\ (Waiting' \cup Sent' \cup Taken') \cap freed' = {}
        /\ Waiting' \cup Sent' \cup Taken' \cup freed' \subseteq 1 .. nmsgs'
    BY <1>1, <1>2, <1>4, <2>1, <2>3, FreedParts DEF h
  <2>5. \A i, j \in 1 .. Len(tofree') : tofree'[i] = tofree'[j] => i = j BY <2>2
  <2>6. QED BY <1>1, <1>3, <2>1, <2>4, <2>5, FreedParts, FreedFrom
<1>5. CASE TxChars /\ ~Done /\ UNCHANGED <<tofree, freed>>
  <2>1. /\ \A i, j \in 1 .. Len(pending') : pending'[i].id = pending'[j].id => i = j
        /\ Waiting' \subseteq Waiting
    BY <1>5, FreedParts, TxCharsWaiting
  <2>2. Sent' = Sent BY <1>5 DEF Sent
  <2>3. /\ Waiting' \cap Sent' = {} /\ (Waiting' \cup Sent') \cap Taken' = {}
        /\ (Waiting' \cup Sent' \cup Taken') \cap freed' = {}
        /\ Waiting' \cup Sent' \cup Taken' \cup freed' \subseteq 1 .. nmsgs'
    BY <1>1, <1>2, <1>5, <2>1, <2>2, FreedParts
  <2>4. \A i, j \in 1 .. Len(tofree') : tofree'[i] = tofree'[j] => i = j BY <1>5, FreedParts
  <2>5. QED BY <1>1, <1>3, <2>1, <2>3, <2>4, FreedParts, FreedFrom
<1>6. CASE UNCHANGED <<pending, fifo, tofree, freed>>
  BY <1>1, <1>6, SameFreed
<1>7. QED BY <1>4, <1>5, <1>6 DEF TxInterrupt, Sent

LEMMA NextFreed == TypeTx /\ FreedInv /\ [Next]_vars => FreedInv'
<1> SUFFICES ASSUME TypeTx, FreedInv, [Next]_vars PROVE FreedInv'
  OBVIOUS
<1>1. CASE UNCHANGED <<pending, tofree, freed, writer, nmsgs>>
  BY <1>1, SameFreed
<1>2. Shift \/ UNCHANGED txVars => UNCHANGED <<pending, tofree, freed, writer, nmsgs>>
  BY DEF Shift, txVars
<1>3. QED BY <1>1, <1>2, TxActions, FillFreed, StartFreed, FreeNextFreed, FreeFreed, InterruptFreed

\* Every message is in one place until it is freed, and freed once, for any tasks and
\* writes: of a task in tls_uart_free_tx_sent_data and the interrupt that empties the
\* list, only one gets a message.
THEOREM MessagesFreedOnce == Spec => []FreedOnce
<1>1. Init => TypeTx /\ TxLine /\ FreedInv
  <2>1. Init => FreedInv
    BY DEF Init, FreedInv, FreedOnce, Waiting, Sent, Freeing, Taken, IdleWriter
  <2>2. QED BY <2>1, InitTx
<1>2. TypeTx /\ TxLine /\ FreedInv /\ [Next]_vars => (TypeTx /\ TxLine /\ FreedInv)'
  BY NextTx, NextFreed
<1>3. FreedInv => FreedOnce BY DEF FreedInv
<1>4. QED BY <1>1, <1>2, <1>3, PTL DEF Spec

-----------------------------------------------------------------------------
(* Bytes are read in the order in which they arrived. *)

Indices == 0 .. BufSize - 3
ReaderRec == [pc : {"idle", "load", "store", "clear", "reset", "wiped"},
              b : Indices, e : Indices, c : 0 .. MaxIn]

TypeRx ==
  /\ buf \in [0 .. BufSize - 1 -> 0 .. MaxIn]
  /\ begin \in Indices /\ end \in Indices
  /\ reader \in ReaderRec
  /\ arrived \in 0 .. MaxIn /\ got \in Seq(1 .. MaxIn)

\* All bytes of g came before the byte x.
Before(g, x) == \A k \in 1 .. Len(g) : g[k] < x

\* Where the reader will go on.
Ahead == IF reader.pc = "store" THEN reader.b + 1 ELSE begin

\* The buffer holds bytes that have arrived, up to its end in their order unless
\* readString clears it, and what is still to be read came after all that was read: from
\* the index on that is, or is about to be, stored, and at the index that was loaded.
RxInv ==
  /\ \A i \in 0 .. BufSize - 1 : buf[i] <= arrived
  /\ \A k \in 1 .. Len(got) : got[k] <= arrived
  /\ reader.pc # "reset" => \A i, j \in 0 .. end - 1 : i < j => buf[i] < buf[j]
  /\ \A i \in Ahead .. end - 1 : Before(got, buf[i])
  /\ reader.pc = "load" /\ reader.b < reader.e => Before(got, buf[reader.b])
  /\ reader.pc = "store" => reader.b < reader.e
  /\ ReadInOrder

LEMMA GotType ==
  ASSUME TypeRx
  PROVE  got \in Seq(1 .. MaxIn) /\ Len(got) \in Nat /\ \A k \in 1 .. Len(got) : got[k] \in 1 .. MaxIn
<1>1. got \in Seq(1 .. MaxIn) BY DEF TypeRx
<1>2. \A k \in 1 .. Len(got) : got[k] \in 1 .. MaxIn BY <1>1, ElementOfSeq
<1>3. QED BY <1>1, <1>2, LenProperties

LEMMA RxInterruptStep ==
  ASSUME TypeRx, RxInv, RxInterrupt
  PROVE  TypeRx' /\ RxInv'
<1>1. PICK n \in 1 .. Smaller(MaxBatch, MaxIn - arrived) :
        /\ arrived' = arrived + n
        /\ \/ /\ buf' = [i \in 0 .. BufSize - 1 |->
                             IF FirstSlot <= i /\ i < FirstSlot + Smaller(n, BufSize - 3)
                             THEN arrived + 1 + i - FirstSlot ELSE buf[i]]
              /\ begin' = FirstSlot /\ end' = FirstSlot + Smaller(n, BufSize - 3)
           \/ UNCHANGED <<buf, begin, end>>
  BY DEF RxInterrupt
<1>2. UNCHANGED <<reader, got>> BY DEF RxInterrupt
<1>3. /\ arrived \in Nat /\ arrived <= MaxIn /\ n \in Nat /\ n > 0 /\ arrived + n <= MaxIn
      /\ arrived' = arrived + n /\ arrived' \in 0 .. MaxIn
  BY <1>1, Sizes DEF TypeRx, Smaller
<1>4. got \in Seq(1 .. MaxIn) /\ Len(got) \in Nat /\ \A k \in 1 .. Len(got) : got[k] \in 1 .. MaxIn
  BY GotType
<1>5. /\ reader \in ReaderRec /\ reader.b \in Indices /\ reader.e \in Indices /\ reader.b \in Nat
      /\ \A i \in Indices : i \in 0 .. BufSize - 1 /\ i \in Nat
  BY Sizes DEF TypeRx, ReaderRec, Indices
<1>6. \A i \in 0 .. BufSize - 1 : buf[i] \in 0 .. MaxIn /\ buf[i] <= arrived
  BY DEF TypeRx, RxInv
<1>7. \A k \in 1 .. Len(got) : got[k] <= arrived BY DEF RxInv
<1>8. CASE UNCHANGED <<buf, begin, end>>
  <2>1. TypeRx' BY <1>2, <1>3, <1>8 DEF TypeRx
  <2>2. /\ \A i \in 0 .. BufSize - 1 : buf'[i] <= arrived'
        /\ \A k \in 1 .. Len(got') : got'[k] <= arrived'
    BY <1>2, <1>3, <1>4, <1>6, <1>7, <1>8
  <2>3. Ahead' = Ahead /\ ReadInOrder' BY <1>2, <1>8 DEF Ahead, ReadInOrder, RxInv
  <2>4. QED BY <1>2, <1>8, <2>1, <2>2, <2>3 DEF RxInv
<1>9. CASE ~UNCHANGED <<buf, begin, end>>
  <2> DEFINE kept == Smaller(n, BufSize - 3)
  <2>1. kept \in Nat /\ kept \in Indices /\ kept <= n /\ kept < BufSize
    BY <1>3, Sizes DEF Smaller, Indices
  <2>2. begin' = 0 /\ end' = kept BY <1>1, <1>9, <2>1 DEF FirstSlot
  <2>3. buf' = [i \in 0 .. BufSize - 1 |-> IF i < kept THEN arrived + 1 + i ELSE buf[i]]
    BY <1>1, <1>3, <1>9, <2>1, Sizes DEF FirstSlot
  <2> HIDE DEF kept
  <2>4. \A i \in 0 .. BufSize - 1 : /\ i < kept => buf'[i] = arrived + 1 + i
                                    /\ ~(i < kept) => buf'[i] = buf[i]
    BY <2>3
  <2>5. \A i \in 0 .. BufSize - 1 : buf'[i] \in 0 .. MaxIn /\ buf'[i] <= arrived'
    BY <1>3, <1>6, <2>1, <2>4, Sizes
  <2>6. \A i \in 0 .. kept - 1 : i \in 0 .. BufSize - 1 /\ i \in Nat /\ buf'[i] = arrived + 1 + i
    BY <2>1, <2>4, Sizes
  <2>7. TypeRx'
    <3>1. buf' \in [0 .. BufSize - 1 -> 0 .. MaxIn] BY <2>3, <2>5
    <3>2. 0 \in Indices BY Sizes DEF Indices
    <3>3. QED BY <1>2, <1>3, <1>4, <1>5, <2>1, <2>2, <3>1, <3>2 DEF TypeRx
  <2>8. \A i, j \in 0 .. end' - 1 : i < j => buf'[i] < buf'[j] BY <1>3, <2>2, <2>6
  <2>9. \A i \in 0 .. kept - 1 : Before(got, buf'[i]) BY <1>3, <1>4, <1>7, <2>6 DEF Before
  <2>10. \A i \in Ahead' .. end' - 1 : Before(got', buf'[i])
    <3>1. Ahead' \in Nat BY <1>2, <1>5, <2>2 DEF Ahead
    <3>2. \A i \in Ahead' .. end' - 1 : i \in 0 .. kept - 1 BY <2>1, <2>2, <3>1
    <3>3. QED BY <1>2, <2>9, <3>2
  <2>11. ASSUME reader'.pc = "load", reader'.b < reader'.e
         PROVE  Before(got', buf'[reader'.b])
    <3>1. CASE reader.b < kept
      <4>1. reader.b \in 0 .. kept - 1 BY <1>5, <2>1, <3>1
      <4>2. QED BY <1>2, <2>9, <4>1
    <3>2. CASE ~(reader.b < kept)
      <4>1. buf'[reader.b] = buf[reader.b] BY <1>5, <2>4, <3>2
      <4>2. Before(got, buf[reader.b]) BY <1>2, <2>11 DEF RxInv
      <4>3. QED BY <1>2, <4>1, <4>2
    <3>3. QED BY <3>1, <3>2
  <2>12. \A k \in 1 .. Len(got') : got'[k] <= arrived' BY <1>2, <1>3, <1>4, <1>7
  <2>13. ReadInOrder' BY <1>2 DEF ReadInOrder, RxInv
  <2>14. reader'.pc = "store" => reader'.b < reader'.e BY <1>2 DEF RxInv
  <2>15. QED BY <2>5, <2>7, <2>8, <2>10, <2>11, <2>12, <2>13, <2>14 DEF RxInv
<1>10. QED BY <1>8, <1>9

\* The steps of the reader that leave the buffer and its indices alone.
LEMMA ReaderStep ==
  ASSUME TypeRx, RxInv, Read \/ StringEnds
  PROVE  TypeRx' /\ RxInv'
<1>1. UNCHANGED <<buf, begin, end, arrived, got>> /\ reader.pc = "idle" BY DEF Read, StringEnds
<1>2. Ahead = begin BY <1>1 DEF Ahead
<1>3. 0 \in Indices /\ 0 \in 0 .. MaxIn BY Sizes DEF Indices
<1>4. ReadInOrder' BY <1>1 DEF ReadInOrder, RxInv
<1>5. CASE Read
  <2> DEFINE r == [pc |-> "load", b |-> begin, e |-> end, c |-> 0]
  <2>1. reader' = r BY <1>5 DEF Read
  <2>2. r \in ReaderRec BY <1>3 DEF ReaderRec, TypeRx
  <2>3. r.pc = "load" /\ r.b = begin /\ r.e = end OBVIOUS
  <2> HIDE DEF r
  <2>4. TypeRx' BY <1>1, <2>1, <2>2 DEF TypeRx
  <2>5. Ahead' = begin BY <1>1, <2>1, <2>3 DEF Ahead
  <2>6. \A i \in Ahead' .. end' - 1 : Before(got', buf'[i]) BY <1>1, <1>2, <2>5 DEF RxInv
  <2>7. begin < end => Before(got, buf[begin])
    <3>1. begin < end => begin \in begin .. end - 1 BY DEF TypeRx, Indices
    <3>2. QED BY <1>2, <3>1 DEF RxInv
  <2>8. QED BY <1>1, <1>4, <2>1, <2>3, <2>4, <2>6, <2>7 DEF RxInv
<1>6. CASE StringEnds
  <2> DEFINE r == [IdleReader EXCEPT !.pc = "clear"]
  <2>1. reader' = r BY <1>6 DEF StringEnds
  <2>2. r \in ReaderRec /\ r.pc = "clear" BY <1>3 DEF ReaderRec, IdleReader
  <2> HIDE DEF r
  <2>4. TypeRx' BY <1>1, <2>1, <2>2 DEF TypeRx
  <2>5. Ahead' = begin BY <1>1, <2>1, <2>2 DEF Ahead
  <2>6. \A i \in Ahead' .. end' - 1 : Before(got', buf'[i]) BY <1>1, <1>2, <2>5 DEF RxInv
  <2>8. QED BY <1>1, <1>4, <2>1, <2>2, <2>4, <2>6 DEF RxInv
<1>7. QED BY <1>5, <1>6

LEMMA ReadByteStep ==
  ASSUME TypeRx, RxInv, ReadByte
  PROVE  TypeRx' /\ RxInv'
<1> DEFINE b == reader.b
           c == IF b < BufSize /\ b < reader.e THEN buf[b] ELSE 0
           zero == c = 0 \/ c \in Zeros
           r == [reader EXCEPT !.pc = "store", !.c = c]
<1>1. /\ reader.pc = "load" /\ UNCHANGED <<buf, begin, end, arrived>>
      /\ reader' = IF zero THEN IdleReader ELSE r
      /\ got' = IF zero THEN got ELSE Append(got, c)
  BY DEF ReadByte
<1>2. /\ b \in Indices /\ b \in Nat /\ b \in 0 .. BufSize - 1 /\ reader \in ReaderRec
      /\ begin \in Indices /\ end \in Indices /\ end \in Nat /\ begin \in Nat
      /\ \A i \in 0 .. end - 1 : i \in 0 .. BufSize - 1
  BY Sizes DEF TypeRx, ReaderRec, Indices
<1>3. Ahead = begin BY <1>1 DEF Ahead
<1>4. CASE zero
  <2>1. reader' = IdleReader /\ got' = got BY <1>1, <1>4
  <2>2. IdleReader \in ReaderRec /\ IdleReader.pc = "idle"
    BY Sizes DEF IdleReader, ReaderRec, Indices
  <2>3. TypeRx' BY <1>1, <2>1, <2>2 DEF TypeRx
  <2>4. Ahead' = begin BY <1>1, <2>1, <2>2 DEF Ahead
  <2>5. ReadInOrder' BY <2>1 DEF ReadInOrder, RxInv
  <2>6. QED BY <1>1, <1>3, <2>1, <2>2, <2>3, <2>4, <2>5 DEF RxInv
<1>5. CASE ~zero
  <2>1. reader' = r /\ got' = Append(got, c) BY <1>1, <1>5
  <2>2. b < reader.e /\ c = buf[b]
    BY <1>5, <1>2
  <2>3. buf[b] \in 0 .. MaxIn /\ buf[b] <= arrived /\ arrived \in 0 .. MaxIn
    BY <1>2 DEF TypeRx, RxInv
  <2>4. c \in 1 .. MaxIn /\ c <= arrived BY <1>5, <2>2, <2>3, Sizes
  <2>5. Before(got, c) BY <1>1, <2>2 DEF RxInv
  <2>6. r.pc = "store" /\ r.b = b /\ r.e = reader.e /\ r \in ReaderRec
    <3> HIDE DEF c
    <3>1. c \in 0 .. MaxIn BY <2>4
    <3>2. QED BY <1>2, <3>1 DEF ReaderRec
  <2> HIDE DEF r, zero, c
  <2>7. got \in Seq(1 .. MaxIn) /\ Len(got) \in Nat BY DEF TypeRx
  <2>8. /\ got' \in Seq(1 .. MaxIn) /\ Len(got') = Len(got) + 1
        /\ \A k \in 1 .. Len(got) : got'[k] = got[k]
        /\ got'[Len(got) + 1] = c
    BY <2>1, <2>4, <2>7
  <2>9. TypeRx' BY <1>1, <2>1, <2>6, <2>8 DEF TypeRx
  <2>10. \A k \in 1 .. Len(got') : got'[k] <= arrived'
    <3>1. \A k \in 1 .. Len(got) : got[k] <= arrived BY DEF RxInv
    <3>2. \A k \in 1 .. Len(got') : k \in 1 .. Len(got) \/ k = Len(got) + 1 BY <2>7, <2>8
    <3>3. QED BY <1>1, <2>4, <2>8, <3>1, <3>2
  <2>11. ReadInOrder'
    <3>1. \A i, j \in 1 .. Len(got) : i < j => got[i] < got[j] BY DEF RxInv, ReadInOrder
    <3>2. SUFFICES ASSUME NEW i \in 1 .. Len(got'), NEW j \in 1 .. Len(got'), i < j
                   PROVE  got'[i] < got'[j]
      BY DEF ReadInOrder
    <3>3. i \in 1 .. Len(got) /\ (j \in 1 .. Len(got) \/ j = Len(got) + 1) BY <2>7, <2>8, <3>2
    <3>4. QED BY <2>5, <2>8, <3>1, <3>2, <3>3 DEF Before
  <2>12. Ahead' = b + 1 BY <2>1, <2>6 DEF Ahead
  <2>13. ASSUME NEW i \in Ahead' .. end' - 1 PROVE Before(got', buf'[i])
    <3>1. i \in 0 .. end - 1 /\ b \in 0 .. end - 1 /\ b < i BY <1>1, <1>2, <2>12, <2>13
    <3>2. buf[b] < buf[i] BY <1>1, <3>1 DEF RxInv
    <3>3. buf[i] \in 0 .. MaxIn BY <1>2, <3>1 DEF TypeRx
    <3>4. \A k \in 1 .. Len(got) : got[k] < c /\ got[k] \in Nat /\ c \in Nat
      BY <2>5, <2>4, GotType DEF Before
    <3>5. \A k \in 1 .. Len(got') : k \in 1 .. Len(got) \/ k = Len(got) + 1 BY <2>7, <2>8
    <3>6. \A k \in 1 .. Len(got') : got'[k] < buf[i]
      BY <2>2, <2>3, <2>8, <3>2, <3>3, <3>4, <3>5
    <3>7. QED BY <1>1, <3>6 DEF Before
  <2>14. QED BY <1>1, <2>1, <2>2, <2>6, <2>9, <2>10, <2>11, <2>13 DEF RxInv
<1>6. QED BY <1>4, <1>5

LEMMA StoreBeginStep ==
  ASSUME TypeRx, RxInv, StoreBegin
  PROVE  TypeRx' /\ RxInv'
<1> DEFINE r == [IdleReader EXCEPT !.c = reader.c]
<1>1. /\ reader.pc = "store" /\ begin' = reader.b + 1 /\ reader' = r
      /\ UNCHANGED <<buf, end, arrived, got>>
  BY DEF StoreBegin, NextBegin
<1>2. reader.b < reader.e /\ reader.b \in Indices /\ reader.e \in Indices /\ reader.c \in 0 .. MaxIn
  BY <1>1 DEF RxInv, TypeRx, ReaderRec
<1>3. begin' \in Indices BY <1>1, <1>2, Sizes DEF Indices
<1>4. r \in ReaderRec /\ r.pc = "idle" BY <1>2, Sizes DEF IdleReader, ReaderRec, Indices
<1> HIDE DEF r
<1>5. TypeRx' BY <1>1, <1>3, <1>4 DEF TypeRx
<1>6. Ahead' = Ahead BY <1>1, <1>4 DEF Ahead
<1>7. ReadInOrder' BY <1>1 DEF ReadInOrder, RxInv
<1>8. QED BY <1>1, <1>4, <1>5, <1>6, <1>7 DEF RxInv

LEMMA StringClearsStep ==
  ASSUME TypeRx, RxInv, StringClears
  PROVE  TypeRx' /\ RxInv'
<1>1. reader.pc = "clear" /\ UNCHANGED <<begin, end, arrived, got>> BY DEF StringClears
<1>2. ReadInOrder' /\ Ahead = begin BY <1>1 DEF ReadInOrder, RxInv, Ahead
<1>3. CASE begin < end /\ reader' = [IdleReader EXCEPT !.pc = "wiped"] /\ UNCHANGED buf
  <2>1. reader' \in ReaderRec /\ reader'.pc = "wiped"
    BY <1>3, Sizes DEF IdleReader, ReaderRec, Indices
  <2>2. TypeRx' BY <1>1, <1>3, <2>1 DEF TypeRx
  <2>3. Ahead' = begin BY <1>1, <2>1 DEF Ahead
  <2>4. QED BY <1>1, <1>2, <1>3, <2>1, <2>2, <2>3 DEF RxInv
<1>4. CASE /\ begin >= end /\ reader' = [IdleReader EXCEPT !.pc = "reset"]
           /\ buf' = [i \in 0 .. BufSize - 1 |-> IF i < begin - end THEN 0 ELSE buf[i]]
  <2>1. reader' \in ReaderRec /\ reader'.pc = "reset"
    BY <1>4, Sizes DEF IdleReader, ReaderRec, Indices
  <2>2. \A i \in 0 .. BufSize - 1 : buf'[i] = 0 \/ buf'[i] = buf[i] BY <1>4
  <2>3. \A i \in 0 .. BufSize - 1 : buf[i] \in 0 .. MaxIn /\ buf[i] <= arrived /\ arrived \in 0 .. MaxIn
    BY DEF TypeRx, RxInv
  <2>4. \A i \in 0 .. BufSize - 1 : buf'[i] \in 0 .. MaxIn /\ buf'[i] <= arrived
    BY <2>2, <2>3, Sizes
  <2>5. buf' \in [0 .. BufSize - 1 -> 0 .. MaxIn] BY <1>4, <2>4
  <2>6. TypeRx' BY <1>1, <2>1, <2>5 DEF TypeRx
  <2>7. Ahead' = begin /\ Ahead' .. end' - 1 = {}
    BY <1>1, <1>4, <2>1 DEF Ahead, TypeRx, Indices
  <2>8. QED BY <1>1, <1>2, <2>1, <2>4, <2>6, <2>7 DEF RxInv
<1>5. QED BY <1>3, <1>4 DEF StringClears

LEMMA StringResetsStep ==
  ASSUME TypeRx, RxInv, StringResets
  PROVE  TypeRx' /\ RxInv'
<1>1. /\ begin' = 0 /\ end' = 0 /\ reader' = IdleReader /\ UNCHANGED <<buf, arrived, got>>
  BY DEF StringResets
<1>2. IdleReader \in ReaderRec /\ IdleReader.pc = "idle" /\ 0 \in Indices
  BY Sizes DEF IdleReader, ReaderRec, Indices
<1>3. TypeRx' BY <1>1, <1>2 DEF TypeRx
<1>4. Ahead' = 0 /\ 0 .. end' - 1 = {} BY <1>1, <1>2 DEF Ahead
<1>5. ReadInOrder' BY <1>1 DEF ReadInOrder, RxInv
<1>6. QED BY <1>1, <1>2, <1>3, <1>4, <1>5 DEF RxInv

LEMMA SendingRx ==
  ASSUME \/ \E t \in Tasks : tls_uart_fill_buf(t) \/ Writing(t)
         \/ TxInterrupt \/ Shift
  PROVE  UNCHANGED rxVars
BY DEF Writing, tls_uart_fill_buf, tls_uart_tx_chars_start, FreeNext, Free, TxInterrupt, Shift

LEMMA NextRx == TypeRx /\ RxInv /\ [Next]_vars => (TypeRx /\ RxInv)'
<1> SUFFICES ASSUME TypeRx, RxInv, [Next]_vars PROVE TypeRx' /\ RxInv'
  OBVIOUS
<1>1. CASE UNCHANGED rxVars
  <2>1. UNCHANGED <<buf, begin, end, reader, arrived, got>> BY <1>1 DEF rxVars
  <2>2. TypeRx' BY <2>1 DEF TypeRx
  <2>3. Ahead' = Ahead /\ ReadInOrder' BY <2>1 DEF Ahead, ReadInOrder, RxInv
  <2>4. QED BY <2>1, <2>2, <2>3 DEF RxInv
<1>2. UNCHANGED vars => UNCHANGED rxVars BY DEF vars
<1>3. QED BY <1>1, <1>2, SendingRx, RxInterruptStep, ReaderStep, ReadByteStep, StoreBeginStep,
             StringClearsStep, StringResetsStep DEF Next

LEMMA InitRx == Init => TypeRx /\ RxInv
<1> SUFFICES ASSUME Init PROVE TypeRx /\ RxInv
  OBVIOUS
<1>1. /\ buf = [i \in 0 .. BufSize - 1 |-> 0] /\ begin = 0 /\ end = 0
      /\ reader = IdleReader /\ arrived = 0 /\ got = <<>>
  BY DEF Init
<1>2. IdleReader \in ReaderRec /\ IdleReader.pc = "idle" /\ 0 \in Indices
  BY Sizes DEF IdleReader, ReaderRec, Indices
<1>3. Len(got) = 0 /\ got \in Seq(1 .. MaxIn) BY <1>1
<1>4. TypeRx BY <1>1, <1>2, <1>3, Sizes DEF TypeRx
<1>5. Ahead .. end - 1 = {} /\ 0 .. end - 1 = {} BY <1>1, <1>2 DEF Ahead
<1>6. ReadInOrder BY <1>3 DEF ReadInOrder
<1>7. QED BY <1>1, <1>2, <1>3, <1>4, <1>5, <1>6 DEF RxInv

\* read() returns bytes in the order of their arrival and none of them twice, for any
\* sizes, batches and amount of input, although uart0_rx_cb moves the buffer and both
\* indices between the loads of read() and its store.
THEOREM BytesReadInOrder == Spec => []ReadInOrder
<1>1. RxInv => ReadInOrder BY DEF RxInv
<1>2. QED BY <1>1, InitRx, NextRx, PTL DEF Spec

\* Type correctness: no step of the port leaves the FIFO over its size, or an index
\* outside of _serial_buf, the index that read() stores late included.
THEOREM SerialTypeCorrect == Spec => []TypeOK
<1>1. TypeTx /\ TypeRx => TypeOK
  <2> SUFFICES ASSUME TypeTx, TypeRx PROVE TypeOK
    OBVIOUS
  <2>1. writer \in [Tasks -> [pc : {"idle", "start", "free", "freeing"}, msg : 0 .. MaxMsgs]]
    BY DEF TypeTx, WriterRec
  <2>2. pending \in Seq([id : Msgs, left : Seq(Byte)]) BY DEF TypeTx, Pend
  <2>3. QED BY <2>1, <2>2 DEF TypeTx, TypeRx, ReaderRec, Indices, TypeOK
<1>2. QED BY <1>1, InitTx, NextTx, InitRx, NextRx, PTL DEF Spec
=============================================================================
