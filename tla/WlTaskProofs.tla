----------------------------- MODULE WlTaskProofs -----------------------------
(***************************************************************************)
(* Proofs for WlTask: for any tasks, slots, handlers, times and sizes.     *)
(***************************************************************************)
EXTENDS WlTask, FiniteSetTheorems, WellFoundedInduction, TLAPS

-----------------------------------------------------------------------------
(* Induction over numbers, from sets: the library's induction theorems     *)
(* take a predicate, which the provers here cannot instantiate.            *)

LEMMA LeastNat == ASSUME NEW T \in SUBSET Nat, T # {} PROVE \E m \in T : \A k \in T : m <= k
<1>1. PICK m \in T : \A k \in T : ~ (<<k, m>> \in OpToRel(<, Nat))
  <2>1. T \subseteq Nat OBVIOUS
  <2>2. QED BY <2>1, WFMin, NatLessThanWellFounded
<1>2. \A k \in T : ~(k < m)
  BY <1>1 DEF OpToRel
<1>3. QED BY <1>2

LEMMA InductUpTo == ASSUME NEW N \in Nat, NEW S, 0 \in S, \A n \in 1 .. N : n - 1 \in S => n \in S PROVE 0 .. N \subseteq S
<1> SUFFICES ASSUME (0 .. N) \ S # {} PROVE FALSE
  OBVIOUS
<1> DEFINE T == (0 .. N) \ S
<1>0. T \in SUBSET Nat /\ T # {} OBVIOUS
<1>1. PICK m \in T : \A k \in T : m <= k
  BY <1>0, LeastNat
<1>2. m \in 1 .. N /\ m - 1 \in 0 .. N /\ m - 1 \notin T
  BY <1>1
<1>3. QED BY <1>1, <1>2

-----------------------------------------------------------------------------
(* Sums of relative times. *)

\* The sums of the first n times of a list, as Until computes them.
Sums(l, n) == {g \in [0 .. n -> Nat] : g[0] = 0 /\ \A k \in 1 .. n : g[k] = g[k - 1] + l[k].time}

LEMMA SumsExist == ASSUME NEW l, Len(l) \in Nat, \A k \in 1 .. Len(l) : l[k].time \in Nat
  PROVE \E g : g \in Sums(l, Len(l))
<1> DEFINE N == Len(l)
           S == {n \in Nat : \E g : g \in Sums(l, n)}
<1>1. 0 \in S
  <2>1. [k \in 0 .. 0 |-> 0] \in Sums(l, 0)
    BY DEF Sums
  <2>2. QED BY <2>1
<1>2. ASSUME NEW n \in 1 .. N, n - 1 \in S PROVE n \in S
  <2>1. PICK g : g \in Sums(l, n - 1) BY <1>2
  <2> DEFINE h == [k \in 0 .. n |-> IF k = n THEN g[n - 1] + l[n].time ELSE g[k]]
  <2>2. h \in [0 .. n -> Nat]
    BY <2>1 DEF Sums
  <2>3. h[0] = 0 BY <2>1 DEF Sums
  <2>4. \A k \in 1 .. n : h[k] = h[k - 1] + l[k].time
    BY <2>1 DEF Sums
  <2>5. h \in Sums(l, n) BY <2>2, <2>3, <2>4 DEF Sums
  <2>6. QED BY <2>5
<1>3. 0 .. N \subseteq S
  <2> HIDE DEF S
  <2>1. QED BY <1>1, <1>2, InductUpTo
<1>4. N \in S BY <1>3
<1>5. QED BY <1>4

LEMMA UntilSum == ASSUME NEW l, Len(l) \in Nat, \A k \in 1 .. Len(l) : l[k].time \in Nat
  PROVE /\ Until(l) \in [0 .. Len(l) -> Nat] /\ Until(l)[0] = 0
        /\ \A k \in 1 .. Len(l) : Until(l)[k] = Until(l)[k - 1] + l[k].time
<1> DEFINE N == Len(l)
           Def(g) == [k \in 0 .. N |-> IF k = 0 THEN 0 ELSE g[k - 1] + l[k].time]
<1>1. PICK g : g \in Sums(l, N) BY SumsExist
<1>2. g = Def(g)
  BY <1>1 DEF Sums
<1>3. Until(l) = Def(Until(l))
  BY <1>2 DEF Until
<1> DEFINE u == Until(l)
<1>4. u[0] = 0 /\ \A k \in 1 .. N : u[k] = u[k - 1] + l[k].time
  BY <1>3
<1> DEFINE S == {k \in Nat : k <= N => u[k] = g[k]}
<1>5. 0 .. N \subseteq S
  <2>1. 0 \in S BY <1>4, <1>1 DEF Sums
  <2>2. ASSUME NEW n \in 1 .. N, n - 1 \in S PROVE n \in S
    BY <2>2, <1>4, <1>1 DEF Sums
  <2> HIDE DEF S
  <2>3. QED BY <2>1, <2>2, InductUpTo
<1>6. \A k \in 0 .. N : u[k] \in Nat
  BY <1>5, <1>1 DEF Sums
<1>7. u \in [0 .. N -> Nat]
  BY <1>3, <1>6
<1>8. QED BY <1>4, <1>7

LEMMA UntilUnique == ASSUME NEW l, Len(l) \in Nat, \A k \in 1 .. Len(l) : l[k].time \in Nat,
    NEW f, f[0] = 0, \A k \in 1 .. Len(l) : f[k] = f[k - 1] + l[k].time
  PROVE \A k \in 0 .. Len(l) : Until(l)[k] = f[k]
<1> DEFINE N == Len(l)
           u == Until(l)
           S == {k \in Nat : k <= N => u[k] = f[k]}
<1>1. 0 \in S BY UntilSum
<1>2. ASSUME NEW n \in 1 .. N, n - 1 \in S PROVE n \in S
  BY <1>2, UntilSum
<1>3. 0 .. N \subseteq S
  <2> HIDE DEF S
  <2>1. QED BY <1>1, <1>2, InductUpTo
<1>4. QED BY <1>3

LEMMA UntilMonotonic ==
  ASSUME NEW l, Len(l) \in Nat, \A k \in 1 .. Len(l) : l[k].time \in Nat,
         NEW i \in 0 .. Len(l)
  PROVE  \A k \in i .. Len(l) : Until(l)[i] <= Until(l)[k]
<1> DEFINE N == Len(l)
           u == Until(l)
           S == {k \in Nat : k <= N /\ i <= k => u[i] <= u[k]}
<1>1. u \in [0 .. N -> Nat] /\ \A k \in 1 .. N : u[k] = u[k - 1] + l[k].time
  BY UntilSum
<1>2. 0 \in S BY <1>1
<1>3. ASSUME NEW n \in 1 .. N, n - 1 \in S PROVE n \in S
  <2>1. CASE i = n BY <2>1, <1>1
  <2>2. CASE i # n
    <3>1. i <= n => u[i] <= u[n - 1] BY <1>3, <2>2
    <3>2. u[n] = u[n - 1] + l[n].time /\ l[n].time \in Nat /\ u[n - 1] \in Nat /\ u[i] \in Nat
      BY <1>1
    <3>3. QED BY <3>1, <3>2
  <2>3. QED BY <2>1, <2>2
<1>4. 0 .. N \subseteq S
  <2> HIDE DEF S
  <2>1. QED BY <1>2, <1>3, InductUpTo
<1>5. QED BY <1>4

LEMMA MaxMsType == MaxMs \in Nat /\ \A ms \in Times : ms \in 0 .. MaxMs
<1>1. MaxMs \in Times /\ \A n \in Times : n <= MaxMs
  BY WlAssumption DEF MaxMs
<1>2. Times \subseteq Nat BY WlAssumption
<1>3. QED BY <1>1, <1>2

LEMMA Lists ==
  ASSUME NEW l \in Seq(Entry)
  PROVE  /\ Len(l) \in Nat
         /\ \A k \in 1 .. Len(l) :
              /\ l[k] \in Entry /\ l[k].time \in Nat /\ l[k].owed \in Nat
              /\ l[k].behind \in Nat /\ l[k].h \in Handlers
<1>1. Len(l) \in Nat /\ \A k \in 1 .. Len(l) : l[k] \in Entry
  OBVIOUS
<1>2. \A e \in Entry : e.time \in Nat /\ e.owed \in Nat /\ e.behind \in Nat /\ e.h \in Handlers
  BY MaxMsType DEF Entry
<1>3. QED BY <1>1, <1>2

\* Two lists with the same times have the same sums.
LEMMA SameTimes ==
  ASSUME NEW l \in Seq(Entry), NEW m \in Seq(Entry), Len(m) = Len(l),
         \A k \in 1 .. Len(l) : m[k].time = l[k].time
  PROVE  \A k \in 0 .. Len(l) : Until(m)[k] = Until(l)[k]
<1>1. Until(l)[0] = 0 /\ \A k \in 1 .. Len(l) : Until(l)[k] = Until(l)[k - 1] + l[k].time
  BY Lists, UntilSum
<1>2. \A k \in 1 .. Len(m) : Until(l)[k] = Until(l)[k - 1] + m[k].time
  BY <1>1
<1>3. Len(m) \in Nat /\ \A k \in 1 .. Len(m) : m[k].time \in Nat
  BY Lists
<1> DEFINE f == Until(l)
<1>4. f[0] = 0 /\ \A k \in 1 .. Len(m) : f[k] = f[k - 1] + m[k].time
  BY <1>1, <1>2
<1> HIDE DEF f
<1>5. \A k \in 0 .. Len(m) : Until(m)[k] = f[k]
  BY <1>3, <1>4, UntilUnique
<1>6. QED BY <1>5 DEF f

\* The wait for a message moves all timeouts closer by the same time.
LEMMA ElapsedUntil ==
  ASSUME NEW l \in Seq(Entry), l # <<>>, waited \in Nat
  PROVE  /\ Elapsed(l) \in Seq(Entry) /\ Len(Elapsed(l)) = Len(l)
         /\ \A k \in 1 .. Len(l) : Elapsed(l)[k].h = l[k].h /\ Elapsed(l)[k].owed = l[k].owed
                                   /\ Elapsed(l)[k].behind = l[k].behind
         /\ \E d \in 0 .. l[1].time :
              /\ d <= waited * TickMs /\ (d < l[1].time => d = waited * TickMs)
              /\ \A k \in 1 .. Len(l) : Until(Elapsed(l))[k] = Until(l)[k] - d
<1> DEFINE t == l[1].time
           w == waited * TickMs
           d == IF w < t THEN w ELSE t
           m == Elapsed(l)
           u == Until(l)
           f == [k \in 0 .. Len(l) |-> IF k = 0 THEN 0 ELSE u[k] - d]
<1>1. w \in Nat BY WlAssumption
<1>2. Len(l) \in Nat /\ Len(l) > 0 /\ 1 \in 1 .. Len(l) /\ t \in Nat /\ l[1] \in Entry
  BY Lists
<1> HIDE DEF w
<1>3. d \in 0 .. t /\ d <= w /\ (d < t => d = w)
  BY <1>1, <1>2
<1>4. m = [l EXCEPT ![1] = [l[1] EXCEPT !.time = t - d]]
  <2>1. CASE w < t
    <3>1. d = w BY <2>1
    <3>2. m = [l EXCEPT ![1].time = t - w] BY <2>1 DEF Elapsed, w
    <3>3. QED BY <3>1, <3>2
  <2>2. CASE ~(w < t)
    <3>1. t - d = 0 BY <2>2, <1>2
    <3>2. m = [l EXCEPT ![1].time = 0] BY <2>2 DEF Elapsed, w
    <3>3. QED BY <3>1, <3>2
  <2>3. QED BY <2>1, <2>2
<1>5. t - d \in 0 .. MaxMs /\ [l[1] EXCEPT !.time = t - d] \in Entry
  <2>1. t \in 0 .. MaxMs BY <1>2 DEF Entry
  <2>2. t - d \in 0 .. MaxMs
    <3> HIDE DEF d, t
    <3>1. QED BY <2>1, <1>3, MaxMsType
  <2> HIDE DEF d, t
  <2>3. QED BY <2>2, <1>2 DEF Entry
<1>6. m \in Seq(Entry) /\ Len(m) = Len(l)
  BY <1>2, <1>4, <1>5
<1>7. /\ m[1] = [l[1] EXCEPT !.time = t - d]
      /\ \A k \in 2 .. Len(l) : m[k] = l[k]
  BY <1>2, <1>4
<1>8. m[1].time = t - d /\ m[1].h = l[1].h /\ m[1].owed = l[1].owed /\ m[1].behind = l[1].behind
  BY <1>7, <1>2 DEF Entry
<1> HIDE DEF d, m
<1>9. /\ u \in [0 .. Len(l) -> Nat] /\ u[0] = 0
      /\ \A k \in 1 .. Len(l) : u[k] = u[k - 1] + l[k].time
  BY Lists, UntilSum
<1>10. \A k \in 1 .. Len(m) : f[k] = f[k - 1] + m[k].time
  <2> SUFFICES ASSUME NEW k \in 1 .. Len(l) PROVE f[k] = f[k - 1] + m[k].time
    BY <1>6
  <2>1. CASE k = 1
    BY <2>1, <1>2, <1>3, <1>8, <1>9
  <2>2. CASE k # 1
    <3>1. k \in 2 .. Len(l) /\ m[k].time = l[k].time /\ u[k] = u[k - 1] + l[k].time
      BY <2>2, <1>7, <1>9
    <3>2. u[k - 1] \in Nat /\ l[k].time \in Nat BY <1>9, Lists
    <3>3. QED BY <3>1, <3>2, <1>3
  <2>3. QED BY <2>1, <2>2
<1>11. \A k \in 0 .. Len(l) : Until(m)[k] = f[k]
  <2>1. f[0] = 0 BY <1>2
  <2>2. Len(m) \in Nat /\ \A k \in 1 .. Len(m) : m[k].time \in Nat
    BY <1>6, Lists
  <2> HIDE DEF f
  <2>3. \A k \in 0 .. Len(m) : Until(m)[k] = f[k]
    BY <1>10, <2>1, <2>2, UntilUnique
  <2>4. QED BY <2>3, <1>6
<1>12. \A k \in 1 .. Len(l) : Until(m)[k] = u[k] - d
  BY <1>11
<1>13. \A k \in 1 .. Len(l) : m[k].h = l[k].h /\ m[k].owed = l[k].owed /\ m[k].behind = l[k].behind
  <2>1. \A k \in 1 .. Len(l) : k = 1 \/ k \in 2 .. Len(l) BY <1>2
  <2>2. QED BY <2>1, <1>7, <1>8
<1>14. QED BY <1>3, <1>6, <1>12, <1>13 DEF m, w

\* Where tls_timeout_p puts a timeout.
LEMMA PlaceSplits ==
  ASSUME NEW l \in Seq(Entry), NEW ms \in Nat
  PROVE  /\ Place(l, ms) \in 0 .. Len(l)
         /\ Until(l)[Place(l, ms)] <= ms
         /\ Place(l, ms) < Len(l) => l[Place(l, ms) + 1].time > ms - Until(l)[Place(l, ms)]
         /\ \A i \in 1 .. Len(l) : i <= Place(l, ms) <=> Until(l)[i] <= ms
<1> DEFINE N == Len(l)
           u == Until(l)
           p == Place(l, ms)
           Ends(k) == k = N \/ l[k + 1].time > ms - u[k]
           Before(k) == \A j \in 0 .. k - 1 : l[j + 1].time <= ms - u[j]
           T == {k \in 0 .. N : Ends(k)}
<1>1. /\ N \in Nat /\ u \in [0 .. N -> Nat] /\ u[0] = 0
      /\ \A k \in 1 .. N : u[k] = u[k - 1] + l[k].time /\ l[k].time \in Nat
  BY Lists, UntilSum
<1>2. \E k \in 0 .. N : Ends(k) /\ Before(k)
  <2>1. T \in SUBSET Nat /\ N \in T BY <1>1
  <2> HIDE DEF T
  <2>2. PICK k \in T : \A j \in T : k <= j BY <2>1, LeastNat
  <2> USE DEF T
  <2>3. \A j \in 0 .. k - 1 : j \in 0 .. N /\ ~Ends(j) BY <2>2, <1>1
  <2>4. Before(k)
    <3> SUFFICES ASSUME NEW j \in 0 .. k - 1 PROVE l[j + 1].time <= ms - u[j]
      OBVIOUS
    <3>1. j \in 0 .. N /\ j # N /\ ~(l[j + 1].time > ms - u[j]) BY <2>3
    <3>2. j + 1 \in 1 .. N /\ u[j] \in Nat BY <3>1, <1>1
    <3>3. l[j + 1].time \in Nat BY <3>2, <1>1
    <3> HIDE DEF u
    <3>4. QED BY <3>1, <3>2, <3>3
  <2>5. QED BY <2>2, <2>4
<1>3. p \in 0 .. N /\ Ends(p) /\ Before(p)
  BY <1>2 DEF Place
<1> HIDE DEF p, u
<1>4. \A i \in 1 .. p : u[i] <= ms
  <2> SUFFICES ASSUME NEW i \in 1 .. p PROVE u[i] <= ms
    OBVIOUS
  <2>1. i - 1 \in 0 .. p - 1 /\ i \in 1 .. N BY <1>1, <1>3
  <2>2. l[i].time <= ms - u[i - 1] /\ u[i] = u[i - 1] + l[i].time
    BY <2>1, <1>1, <1>3
  <2>3. QED BY <2>1, <2>2, <1>1
<1>5. u[p] <= ms
  BY <1>1, <1>3, <1>4
<1>6. \A i \in 1 .. N : i > p => u[i] > ms
  <2> SUFFICES ASSUME NEW i \in 1 .. N, i > p PROVE u[i] > ms
    OBVIOUS
  <2>1. p + 1 \in 1 .. N /\ i \in p + 1 .. N /\ p # N BY <1>1, <1>3
  <2>2. u[p + 1] = u[p] + l[p + 1].time /\ l[p + 1].time > ms - u[p] /\ u[p] \in Nat
        /\ l[p + 1].time \in Nat
    BY <2>1, <1>1, <1>3
  <2>3. u[p + 1] <= u[i]
    BY <2>1, Lists, UntilMonotonic DEF u
  <2>4. u[i] \in Nat BY <1>1
  <2>5. QED BY <2>2, <2>3, <2>4
<1>7. ASSUME NEW i \in 1 .. N PROVE i <= p <=> u[i] <= ms
  <2>1. u[i] \in Nat BY <1>1
  <2>2. CASE i <= p
    <3>1. i \in 1 .. p BY <2>2, <1>1, <1>3
    <3>2. QED BY <3>1, <2>2, <1>4
  <2>3. CASE i > p BY <2>1, <2>3, <1>3, <1>6
  <2>4. QED BY <2>2, <2>3, <1>1, <1>3
<1>8. QED BY <1>1, <1>3, <1>5, <1>7 DEF p, u

\* A new timeout gets its own time and leaves those of the others alone.
LEMMA InsertUntil ==
  ASSUME NEW l \in Seq(Entry), NEW m, m.ms \in Times, m.h \in Handlers
  PROVE  LET p == Place(l, m.ms)
             n == tls_timeout_p(l, m)
         IN /\ n \in Seq(Entry) /\ Len(n) = Len(l) + 1
            /\ \A i \in 1 .. Len(l) + 1 :
                 /\ i <= p => n[i].h = l[i].h /\ n[i].owed = l[i].owed
                              /\ n[i].behind = l[i].behind /\ Until(n)[i] = Until(l)[i]
                 /\ i = p + 1 => n[i].h = m.h /\ n[i].owed = m.ms /\ n[i].behind = 0
                                 /\ Until(n)[i] = m.ms
                 /\ i > p + 1 => n[i].h = l[i - 1].h /\ n[i].owed = l[i - 1].owed
                                 /\ n[i].behind = l[i - 1].behind
                                 /\ Until(n)[i] = Until(l)[i - 1]
<1> DEFINE N == Len(l)
           u == Until(l)
           ms == m.ms
           p == Place(l, ms)
           n == tls_timeout_p(l, m)
           e == [h |-> m.h, time |-> ms - u[p], owed |-> ms, behind |-> 0]
           x == [l[p + 1] EXCEPT !.time = @ - e.time]
           f == [k \in 0 .. N + 1 |-> IF k <= p THEN u[k] ELSE IF k = p + 1 THEN ms ELSE u[k - 1]]
<1>1. ms \in Nat /\ ms <= MaxMs /\ MaxMs \in Nat
  BY MaxMsType
<1>2. /\ N \in Nat /\ u \in [0 .. N -> Nat] /\ u[0] = 0
      /\ \A k \in 1 .. N : u[k] = u[k - 1] + l[k].time /\ l[k].time \in Nat /\ l[k] \in Entry
  BY Lists, UntilSum
<1>3. /\ p \in 0 .. N /\ u[p] <= ms /\ u[p] \in Nat
      /\ p < N => l[p + 1].time > ms - u[p]
  BY <1>1, <1>2, PlaceSplits
<1>4. n = [i \in 1 .. N + 1 |-> CASE i <= p -> l[i] [] i = p + 1 -> e
                                  [] i = p + 2 -> x [] OTHER -> l[i - 1]]
  BY DEF tls_timeout_p
<1> HIDE DEF u, p, n
<1>5. ms - u[p] \in 0 .. MaxMs
  BY <1>1, <1>3
<1>6. e \in Entry
  BY <1>1, <1>5 DEF Entry
<1>7. p < N => /\ x \in Entry /\ x.time = l[p + 1].time - (ms - u[p])
               /\ x.h = l[p + 1].h /\ x.owed = l[p + 1].owed /\ x.behind = l[p + 1].behind
  <2> SUFFICES ASSUME p < N
               PROVE  /\ x \in Entry /\ x.time = l[p + 1].time - (ms - u[p])
                      /\ x.h = l[p + 1].h /\ x.owed = l[p + 1].owed /\ x.behind = l[p + 1].behind
    OBVIOUS
  <2>1. p + 1 \in 1 .. N BY <1>2, <1>3
  <2> DEFINE y == l[p + 1]
             t == y.time - (ms - u[p])
  <2>2. y \in Entry /\ y.time \in 0 .. MaxMs BY <2>1, <1>2 DEF Entry
  <2>3. t \in 0 .. MaxMs
    <3> HIDE DEF y
    <3>1. y.time > ms - u[p] BY <1>3 DEF y
    <3>2. QED BY <3>1, <1>1, <1>3, <1>5, <2>2
  <2>4. x = [y EXCEPT !.time = t] OBVIOUS
  <2> HIDE DEF y, t, x
  <2>5. x \in Entry /\ x.time = t /\ x.h = y.h /\ x.owed = y.owed /\ x.behind = y.behind
    BY <2>2, <2>3, <2>4 DEF Entry
  <2>6. QED BY <2>5 DEF y, t
<1>8. \A i \in 1 .. N + 1 :
        /\ i <= p => i \in 1 .. N /\ n[i] = l[i]
        /\ i = p + 1 => n[i] = e
        /\ i = p + 2 => n[i] = x /\ p < N
        /\ i > p + 2 => i - 1 \in 1 .. N /\ n[i] = l[i - 1]
  <2> HIDE DEF e, x
  <2>1. QED BY <1>2, <1>3, <1>4
<1>9. \A i \in 1 .. N + 1 : i <= p \/ i = p + 1 \/ i = p + 2 \/ i > p + 2
  BY <1>2, <1>3
<1> HIDE DEF x
<1>10. n \in Seq(Entry) /\ Len(n) = N + 1
  <2>1. \A i \in 1 .. N + 1 : n[i] \in Entry
    <3> HIDE DEF e
    <3>1. QED BY <1>2, <1>6, <1>7, <1>8, <1>9
  <2>2. n \in [1 .. N + 1 -> Entry]
    BY <2>1, <1>4
  <2>3. QED BY <2>2, <1>2
<1>11. \A k \in 1 .. N + 1 : f[k] = f[k - 1] + n[k].time
  <2> SUFFICES ASSUME NEW k \in 1 .. N + 1 PROVE f[k] = f[k - 1] + n[k].time
    OBVIOUS
  <2>1. CASE k <= p
    BY <2>1, <1>2, <1>3, <1>8
  <2>2. CASE k = p + 1
    <3>1. n[k].time = ms - u[p] BY <2>2, <1>8
    <3>2. f[k] = ms /\ f[k - 1] = u[p] BY <2>2, <1>2, <1>3
    <3>3. QED BY <3>1, <3>2, <1>1, <1>3
  <2>3. CASE k = p + 2
    <3>1. n[k].time = l[p + 1].time - (ms - u[p]) /\ p < N BY <2>3, <1>7, <1>8
    <3>2. f[k] = u[p + 1] /\ f[k - 1] = ms BY <2>3, <1>2, <1>3
    <3>3. u[p + 1] = u[p] + l[p + 1].time /\ l[p + 1].time \in Nat BY <3>1, <1>2, <1>3
    <3>4. QED BY <3>1, <3>2, <3>3, <1>1, <1>3
  <2>4. CASE k > p + 2
    <3>1. n[k].time = l[k - 1].time /\ k - 1 \in 1 .. N BY <2>4, <1>8
    <3>2. f[k] = u[k - 1] /\ f[k - 1] = u[k - 2] BY <2>4, <1>2, <1>3
    <3>3. u[k - 1] = u[k - 2] + l[k - 1].time BY <3>1, <1>2
    <3>4. QED BY <3>1, <3>2, <3>3
  <2>5. QED BY <2>1, <2>2, <2>3, <2>4, <1>9
<1>12. \A k \in 0 .. N + 1 : Until(n)[k] = f[k]
  <2>1. f[0] = 0 BY <1>2, <1>3
  <2>2. Len(n) \in Nat /\ \A k \in 1 .. Len(n) : n[k].time \in Nat
    BY <1>10, Lists
  <2> HIDE DEF f
  <2>3. \A k \in 0 .. Len(n) : Until(n)[k] = f[k]
    BY <1>10, <1>11, <2>1, <2>2, UntilUnique
  <2>4. QED BY <2>3, <1>10
<1>13. ASSUME NEW i \in 1 .. N + 1
       PROVE  /\ i <= p => n[i].h = l[i].h /\ n[i].owed = l[i].owed
                           /\ n[i].behind = l[i].behind /\ Until(n)[i] = u[i]
              /\ i = p + 1 => n[i].h = m.h /\ n[i].owed = m.ms /\ n[i].behind = 0
                              /\ Until(n)[i] = m.ms
              /\ i > p + 1 => n[i].h = l[i - 1].h /\ n[i].owed = l[i - 1].owed
                              /\ n[i].behind = l[i - 1].behind /\ Until(n)[i] = u[i - 1]
  <2>1. Until(n)[i] = IF i <= p THEN u[i] ELSE IF i = p + 1 THEN ms ELSE u[i - 1]
    BY <1>12, <1>2
  <2>2. CASE i <= p BY <2>1, <2>2, <1>8, <1>3
  <2>3. CASE i = p + 1 BY <2>1, <2>3, <1>8, <1>3
  <2>4. CASE i = p + 2 BY <2>1, <2>4, <1>7, <1>8, <1>3
  <2>5. CASE i > p + 2 BY <2>1, <2>5, <1>8, <1>3
  <2>6. QED BY <2>2, <2>3, <2>4, <2>5, <1>9
<1>14. QED BY <1>10, <1>13 DEF n, u, p

LEMMA FirstOfIs ==
  ASSUME NEW l \in Seq(Entry), NEW h, NEW i \in 1 .. Len(l), l[i].h = h
  PROVE  LET k == FirstOf(l, h)
         IN k \in 1 .. Len(l) /\ l[k].h = h /\ \A j \in 1 .. k - 1 : l[j].h # h
<1> DEFINE T == {j \in 1 .. Len(l) : l[j].h = h}
<1>1. T \in SUBSET Nat /\ i \in T BY Lists
<1> HIDE DEF T
<1>2. PICK k \in T : \A j \in T : k <= j BY <1>1, LeastNat
<1> USE DEF T
<1>3. \A j \in 1 .. k - 1 : j \in 1 .. Len(l) /\ j \notin T BY <1>2, Lists
<1>4. k \in 1 .. Len(l) /\ l[k].h = h /\ \A j \in 1 .. k - 1 : l[j].h # h
  BY <1>2, <1>3
<1>5. QED BY <1>4 DEF FirstOf

\* A timeout that is taken out leaves the times of the others alone.
LEMMA RemoveUntil ==
  ASSUME NEW l \in Seq(Entry), NEW h, NEW at \in 1 .. Len(l), l[at].h = h,
         \A k \in 1 .. Len(l) : Until(l)[k] <= MaxMs
  PROVE  LET p == FirstOf(l, h)
             n == tls_untimeout_p(l, h)
         IN /\ n \in Seq(Entry) /\ Len(n) = Len(l) - 1
            /\ \A i \in 1 .. Len(l) - 1 :
                 /\ i < p => n[i].h = l[i].h /\ n[i].owed = l[i].owed
                             /\ n[i].behind = l[i].behind /\ Until(n)[i] = Until(l)[i]
                 /\ i >= p => n[i].h = l[i + 1].h /\ n[i].owed = l[i + 1].owed
                              /\ n[i].behind = l[i + 1].behind
                              /\ Until(n)[i] = Until(l)[i + 1]
<1> DEFINE N == Len(l)
           u == Until(l)
           p == FirstOf(l, h)
           n == tls_untimeout_p(l, h)
           x == [l[p + 1] EXCEPT !.time = @ + l[p].time]
           f == [k \in 0 .. N - 1 |-> IF k < p THEN u[k] ELSE u[k + 1]]
<1>1. /\ N \in Nat /\ u \in [0 .. N -> Nat] /\ u[0] = 0 /\ MaxMs \in Nat
      /\ \A k \in 1 .. N : u[k] = u[k - 1] + l[k].time /\ l[k].time \in Nat /\ l[k] \in Entry
  BY Lists, UntilSum, MaxMsType
<1>2. p \in 1 .. N BY FirstOfIs
<1>3. n = [i \in 1 .. N - 1 |-> CASE i < p -> l[i] [] i = p -> x [] OTHER -> l[i + 1]]
  BY DEF tls_untimeout_p
<1> HIDE DEF u, p, n
<1>4. p < N => /\ x \in Entry /\ x.time = l[p + 1].time + l[p].time
               /\ x.h = l[p + 1].h /\ x.owed = l[p + 1].owed /\ x.behind = l[p + 1].behind
  <2> SUFFICES ASSUME p < N
               PROVE  /\ x \in Entry /\ x.time = l[p + 1].time + l[p].time
                      /\ x.h = l[p + 1].h /\ x.owed = l[p + 1].owed /\ x.behind = l[p + 1].behind
    OBVIOUS
  <2>1. p + 1 \in 1 .. N /\ p - 1 \in 0 .. N BY <1>1, <1>2
  <2> DEFINE y == l[p + 1]
             t == y.time + l[p].time
  <2>2. y \in Entry BY <2>1, <1>1
  <2>3. /\ u[p + 1] = u[p] + l[p + 1].time /\ u[p] = u[p - 1] + l[p].time
        /\ u[p - 1] \in Nat /\ l[p + 1].time \in Nat /\ l[p].time \in Nat
        /\ u[p + 1] <= MaxMs
    <3>1. u[p + 1] <= MaxMs BY <2>1 DEF u
    <3>2. p \in 1 .. N /\ (p + 1) - 1 = p BY <1>1, <1>2
    <3>3. QED BY <3>1, <3>2, <2>1, <1>1
  <2>4. t \in 0 .. MaxMs
    <3>1. u[p + 1] = u[p - 1] + (l[p].time + l[p + 1].time) BY <2>3
    <3>2. u[p - 1] + (l[p].time + l[p + 1].time) <= MaxMs BY <3>1, <2>3
    <3>3. \A a, b, c, m \in Nat : a + (b + c) <= m => c + b \in 0 .. m
      OBVIOUS
    <3>4. QED BY <3>2, <3>3, <2>3, <1>1
  <2>5. x = [y EXCEPT !.time = t] OBVIOUS
  <2> HIDE DEF y, t, x
  <2>6. x \in Entry /\ x.time = t /\ x.h = y.h /\ x.owed = y.owed /\ x.behind = y.behind
    BY <2>2, <2>4, <2>5 DEF Entry
  <2>7. QED BY <2>6 DEF y, t
<1> HIDE DEF x
<1>5. \A i \in 1 .. N - 1 :
        /\ i \in 1 .. N /\ i + 1 \in 1 .. N
        /\ i < p => n[i] = l[i]
        /\ i = p => n[i] = x /\ p < N
        /\ i > p => n[i] = l[i + 1]
  BY <1>1, <1>2, <1>3
<1>6. \A i \in 1 .. N - 1 : i < p \/ i = p \/ i > p
  BY <1>1, <1>2
<1>7. n \in Seq(Entry) /\ Len(n) = N - 1
  <2>1. \A i \in 1 .. N - 1 : n[i] \in Entry
    BY <1>1, <1>4, <1>5, <1>6
  <2>2. n \in [1 .. N - 1 -> Entry]
    BY <2>1, <1>3
  <2>3. N - 1 \in Nat BY <1>1, <1>2
  <2>4. QED BY <2>2, <2>3
<1>8. \A k \in 1 .. N - 1 : f[k] = f[k - 1] + n[k].time
  <2> SUFFICES ASSUME NEW k \in 1 .. N - 1 PROVE f[k] = f[k - 1] + n[k].time
    OBVIOUS
  <2>0. k \in 1 .. N /\ k + 1 \in 1 .. N /\ k \in Nat BY <1>1
  <2>1. CASE k < p
    <3>1. f[k] = u[k] /\ f[k - 1] = u[k - 1] /\ n[k] = l[k] BY <2>0, <2>1, <1>1, <1>2, <1>5
    <3>2. QED BY <3>1, <2>0, <1>1
  <2>2. CASE k = p
    <3>1. f[k] = u[k + 1] /\ f[k - 1] = u[k - 1] BY <2>0, <2>2, <1>1, <1>2
    <3>2. n[k].time = l[k + 1].time + l[k].time BY <2>2, <1>4, <1>5
    <3>3. u[k + 1] = u[k] + l[k + 1].time
      <4>1. (k + 1) - 1 = k BY <2>0
      <4>2. QED BY <4>1, <2>0, <1>1
    <3>4. u[k] = u[k - 1] + l[k].time /\ u[k - 1] \in Nat /\ l[k].time \in Nat
          /\ l[k + 1].time \in Nat
      BY <2>0, <1>1
    <3>5. QED BY <3>1, <3>2, <3>3, <3>4
  <2>3. CASE k > p
    <3>1. f[k] = u[k + 1] /\ f[k - 1] = u[k] BY <2>0, <2>3, <1>1, <1>2
    <3>2. n[k].time = l[k + 1].time BY <2>3, <1>5
    <3>3. u[k + 1] = u[k] + l[k + 1].time
      <4>1. (k + 1) - 1 = k BY <2>0
      <4>2. QED BY <4>1, <2>0, <1>1
    <3>4. QED BY <3>1, <3>2, <3>3
  <2>4. QED BY <2>1, <2>2, <2>3, <1>6
<1>9. \A k \in 0 .. N - 1 : Until(n)[k] = f[k]
  <2>1. f[0] = 0 BY <1>1, <1>2
  <2>2. Len(n) \in Nat /\ \A k \in 1 .. Len(n) : n[k].time \in Nat
    BY <1>7, Lists
  <2> HIDE DEF f
  <2>3. \A k \in 0 .. Len(n) : Until(n)[k] = f[k]
    BY <1>7, <1>8, <2>1, <2>2, UntilUnique
  <2>4. QED BY <2>3, <1>7
<1>10. ASSUME NEW i \in 1 .. N - 1
       PROVE  /\ i < p => n[i].h = l[i].h /\ n[i].owed = l[i].owed
                          /\ n[i].behind = l[i].behind /\ Until(n)[i] = u[i]
              /\ i >= p => n[i].h = l[i + 1].h /\ n[i].owed = l[i + 1].owed
                           /\ n[i].behind = l[i + 1].behind /\ Until(n)[i] = u[i + 1]
  <2>1. Until(n)[i] = IF i < p THEN u[i] ELSE u[i + 1]
    <3>1. i \in 0 .. N - 1 BY <1>1
    <3>2. QED BY <3>1, <1>9
  <2>2. CASE i < p BY <2>1, <2>2, <1>5, <1>2
  <2>3. CASE i = p BY <2>1, <2>3, <1>4, <1>5, <1>2
  <2>4. CASE i > p BY <2>1, <2>4, <1>5, <1>2
  <2>5. QED BY <2>2, <2>3, <2>4, <1>6
<1>11. QED BY <1>7, <1>10 DEF n, u, p

\* When the first timeout is taken out, the others come closer by its time.
LEMMA TailUntil ==
  ASSUME NEW l \in Seq(Entry), NEW n \in Seq(Entry), l # <<>>, Len(n) = Len(l) - 1,
         \A k \in 1 .. Len(n) : n[k].time = l[k + 1].time
  PROVE  \A k \in 1 .. Len(n) : Until(n)[k] = Until(l)[k + 1] - Until(l)[1]
<1> DEFINE N == Len(l)
           u == Until(l)
           f == [k \in 0 .. N - 1 |-> u[k + 1] - u[1]]
<1>1. /\ N \in Nat /\ N > 0 /\ u \in [0 .. N -> Nat]
      /\ \A k \in 1 .. N : u[k] = u[k - 1] + l[k].time /\ l[k].time \in Nat
  BY Lists, UntilSum
<1> HIDE DEF u
<1>2. f[0] = 0 BY <1>1
<1>3. \A k \in 1 .. N - 1 : f[k] = f[k - 1] + n[k].time
  <2> SUFFICES ASSUME NEW k \in 1 .. N - 1 PROVE f[k] = f[k - 1] + n[k].time
    OBVIOUS
  <2>1. k + 1 \in 1 .. N /\ (k + 1) - 1 = k /\ (k - 1) + 1 = k /\ k - 1 \in 0 .. N - 1 /\ 1 \in 0 .. N
        /\ k \in 0 .. N - 1 /\ k \in 0 .. N
    BY <1>1
  <2>2. u[k + 1] = u[k] + l[k + 1].time /\ n[k].time = l[k + 1].time
    BY <2>1, <1>1
  <2>3. u[k] \in Nat /\ u[1] \in Nat /\ l[k + 1].time \in Nat
    BY <2>1, <1>1
  <2>4. f[k] = u[k + 1] - u[1] /\ f[k - 1] = u[k] - u[1]
    BY <2>1
  <2>5. QED BY <2>2, <2>3, <2>4
<1>4. Len(n) \in Nat /\ \A k \in 1 .. Len(n) : n[k].time \in Nat
  BY Lists
<1>5. \A k \in 0 .. Len(n) : Until(n)[k] = f[k]
  <2> HIDE DEF f
  <2>1. \A k \in 1 .. Len(n) : f[k] = f[k - 1] + n[k].time BY <1>3
  <2>2. QED BY <1>2, <2>1, <1>4, UntilUnique
<1>6. ASSUME NEW k \in 1 .. Len(n) PROVE Until(n)[k] = u[k + 1] - u[1]
  <2>1. k \in 0 .. Len(n) /\ k \in 0 .. N - 1 BY <1>1
  <2>2. QED BY <2>1, <1>5
<1>7. QED BY <1>6 DEF u

-----------------------------------------------------------------------------
(* The invariants. *)

Holding == {"read", "load", "store"}

\* Which message the worker has at each of its steps; only while it fetches does it
\* wait.
WorkerInv ==
  /\ worker.pc = "fetch" => worker.msg = NoMsg
  /\ worker.pc # "fetch" => waited = 0
  /\ worker.pc \in Holding => worker.msg \in {Static(s) : s \in Slots}
  /\ worker.pc = "arm" => worker.msg.type \in {"timeout", "untimeout"} /\ worker.msg \in Msg
  /\ worker.pc = "run" => worker.msg \in {NoMsg, Callback} \cup {Static(s) : s \in Slots}

\* Only interrupt handlers post the slots that are not shared.
CallInv ==
  \A c \in Callers :
    /\ call[c].pc # "idle" => call[c].msg \in Msg
    /\ call[c].pc \in {"load", "store"} => call[c].msg.type = "static"
    /\ call[c].msg.type = "static" => call[c].msg.slot \in Shared

\* No timeout is further away than the longest time that can be asked for.
TimersInv == \A k \in 1 .. Len(timers) : Until(timers)[k] <= MaxMs

TypeInv == TypeOK /\ WorkerInv /\ CallInv /\ TimersInv

CallRec == [pc : {"idle", "post", "load", "store"}, msg : Msg \cup {NoMsg},
            block : BOOLEAN, tries : 0 .. Tries - 1, loaded : 0 .. 255]

WorkerRec == [pc : {"fetch", "read", "load", "store", "arm", "run"},
              msg : Msg \cup {NoMsg}, loaded : 0 .. 255]

LEMMA MsgFields ==
  /\ NoMsg.type = "none" /\ Callback.type = "callback" /\ Callback \in Msg
  /\ \A s : Static(s).type = "static" /\ Static(s).slot = s
  /\ \A s \in Slots : Static(s) \in Msg
  /\ \A m \in Msg : /\ m.type \in {"static", "callback", "untimeout", "timeout"}
                    /\ m.type = "static" => m.slot \in Slots /\ m = Static(m.slot)
                    /\ m.type = "callback" => m = Callback
                    /\ m.type = "untimeout" => m.h \in Handlers
                    /\ m.type = "timeout" => m.h \in Handlers /\ m.ms \in Times
BY DEF Msg, NoMsg, Static, Callback, Untimeout, TimeoutMsg

LEMMA IdleType == Idle \in CallRec /\ Idle.pc = "idle" /\ Idle.msg = NoMsg
<1>1. 0 \in 0 .. Tries - 1 BY WlAssumption
<1>2. QED BY <1>1 DEF Idle, CallRec

LEMMA FetchingType == Fetching \in WorkerRec /\ Fetching.pc = "fetch" /\ Fetching.msg = NoMsg
BY DEF Fetching, WorkerRec

LEMMA InitTypeInv == Init => TypeInv
<1> SUFFICES ASSUME Init PROVE TypeInv
  OBVIOUS
<1>1. mbox \in Seq(Msg) /\ Len(mbox) <= MboxSize /\ timers \in Seq(Entry) /\ Len(timers) = 0
  BY WlAssumption DEF Init
<1>2. cnt \in [Slots -> 0 .. 255] /\ call \in [Callers -> CallRec]
  BY IdleType DEF Init
<1>3. nreq \in 0 .. MaxReq /\ waited \in Nat /\ want \subseteq Slots \ Shared
  BY WlAssumption DEF Init
<1>4. TypeOK
  BY <1>1, <1>2, <1>3, FetchingType DEF TypeOK, Init, CallRec, WorkerRec
<1>5. WorkerInv
  BY FetchingType DEF Init, WorkerInv, Holding
<1>6. CallInv
  BY IdleType, MsgFields DEF Init, CallInv
<1>7. TimersInv
  BY <1>1 DEF TimersInv
<1>8. QED BY <1>4, <1>5, <1>6, <1>7 DEF TypeInv

LEMMA AppendType ==
  ASSUME TypeOK, NEW m \in Msg, Room
  PROVE  Append(mbox, m) \in Seq(Msg) /\ Len(Append(mbox, m)) <= MboxSize
<1>1. mbox \in Seq(Msg) /\ Len(mbox) < MboxSize /\ MboxSize \in Nat
  BY WlAssumption DEF TypeOK, Room
<1>2. Append(mbox, m) \in Seq(Msg) /\ Len(Append(mbox, m)) = Len(mbox) + 1
  BY <1>1
<1>3. Len(mbox) \in Nat BY <1>1
<1>4. QED BY <1>1, <1>2, <1>3

LEMMA Byte == ASSUME NEW n \in Int PROVE n % 256 \in 0 .. 255
OBVIOUS

\* Posting by an interrupt handler.
LEMMA IsrPostType == ASSUME TypeInv, NEW s \in Slots, IsrPost(s) PROVE TypeInv'
<1>1. mbox' \in Seq(Msg) /\ Len(mbox') <= MboxSize
  <2>1. TypeOK /\ mbox \in Seq(Msg) /\ Len(mbox) <= MboxSize BY DEF TypeInv, TypeOK
  <2>2. mbox' = mbox \/ (Room /\ mbox' = Append(mbox, Static(s))) BY DEF IsrPost
  <2>3. QED BY <2>1, <2>2, AppendType, MsgFields
<1>2. cnt' \in [Slots -> 0 .. 255]
  <2>1. cnt \in [Slots -> 0 .. 255] BY DEF TypeInv, TypeOK
  <2>2. cnt' = cnt \/ cnt' = [cnt EXCEPT ![s] = (cnt[s] + 1) % 256] BY DEF IsrPost
  <2>3. (cnt[s] + 1) % 256 \in 0 .. 255 BY <2>1, Byte
  <2>4. QED BY <2>1, <2>2, <2>3
<1>3. want' \subseteq Slots \ Shared
  BY DEF TypeInv, TypeOK, IsrPost
<1>4. UNCHANGED <<timers, worker, waited, call, nreq>>
  BY DEF IsrPost
<1>5. TypeOK'
  BY <1>1, <1>2, <1>3, <1>4 DEF TypeInv, TypeOK
<1>6. WorkerInv' /\ CallInv' /\ TimersInv'
  BY <1>4 DEF TypeInv, WorkerInv, CallInv, TimersInv
<1>7. QED BY <1>5, <1>6 DEF TypeInv

\* Steps of a call leave the worker and its list alone.
LEMMA CallType ==
  ASSUME TypeInv, UNCHANGED <<timers, worker, waited, want>>,
         mbox' \in Seq(Msg), Len(mbox') <= MboxSize, cnt' \in [Slots -> 0 .. 255],
         nreq' \in 0 .. MaxReq, NEW c \in Callers, NEW r \in CallRec,
         call' = [call EXCEPT ![c] = r],
         r.pc # "idle" => r.msg \in Msg,
         r.pc \in {"load", "store"} => r.msg.type = "static",
         r.msg.type = "static" => r.msg.slot \in Shared
  PROVE  TypeInv'
<1>1. call \in [Callers -> CallRec]
  BY DEF TypeInv, TypeOK, CallRec
<1>2. call' \in [Callers -> CallRec]
  BY <1>1
<1>3. TypeOK'
  BY <1>2 DEF TypeInv, TypeOK, CallRec
<1>4. CallInv'
  BY <1>1 DEF TypeInv, CallInv
<1>5. WorkerInv' /\ TimersInv'
  BY DEF TypeInv, WorkerInv, TimersInv
<1>6. QED BY <1>3, <1>4, <1>5 DEF TypeInv

LEMMA PostType ==
  ASSUME TypeInv, NEW c \in Callers, NEW m \in Msg, NEW block \in BOOLEAN, Post(c, m, block),
         nreq < MaxReq, m.type = "static" => m.slot \in Shared
  PROVE  TypeInv'
<1> DEFINE r == [Idle EXCEPT !.pc = "post", !.msg = m, !.block = block]
<1>1. r \in CallRec /\ r.pc = "post" /\ r.msg = m
  BY IdleType DEF CallRec
<1>2. call' = [call EXCEPT ![c] = r] /\ UNCHANGED <<mbox, cnt, timers, worker, waited, want>>
  BY DEF Post
<1>3. nreq' \in 0 .. MaxReq
  BY WlAssumption DEF TypeInv, TypeOK, Post
<1>4. mbox' \in Seq(Msg) /\ Len(mbox') <= MboxSize /\ cnt' \in [Slots -> 0 .. 255]
  BY <1>2 DEF TypeInv, TypeOK
<1> HIDE DEF r
<1>5. QED BY <1>1, <1>2, <1>3, <1>4, CallType

LEMMA BeginType ==
  ASSUME TypeInv, NEW c \in Callers,
         \/ tls_wl_task_callback_static(c) \/ tls_wl_task_callback(c)
         \/ tls_wl_task_add_timeout(c) \/ tls_wl_task_untimeout(c)
  PROVE  TypeInv' /\ UNCHANGED <<mbox, cnt, timers, worker, waited, want>>
<1>1. PICK m \in Msg, block \in BOOLEAN :
        Post(c, m, block) /\ nreq < MaxReq /\ (m.type = "static" => m.slot \in Shared)
  <2>1. CASE tls_wl_task_callback_static(c)
    <3>1. PICK s \in Shared : Post(c, Static(s), FALSE) /\ nreq < MaxReq
      BY <2>1 DEF tls_wl_task_callback_static, MayCall
    <3>2. s \in Slots BY WlAssumption
    <3>3. QED BY <3>1, <3>2, MsgFields
  <2>2. CASE tls_wl_task_callback(c)
    BY <2>2, MsgFields DEF tls_wl_task_callback, MayCall
  <2>3. CASE tls_wl_task_add_timeout(c)
    <3>1. PICK h \in Handlers, ms \in Times : Post(c, TimeoutMsg(h, ms), TRUE) /\ nreq < MaxReq
      BY <2>3 DEF tls_wl_task_add_timeout, MayCall
    <3>2. TimeoutMsg(h, ms) \in Msg /\ TimeoutMsg(h, ms).type = "timeout"
      BY DEF Msg, TimeoutMsg
    <3>3. QED BY <3>1, <3>2
  <2>4. CASE tls_wl_task_untimeout(c)
    <3>1. PICK h \in Handlers : Post(c, Untimeout(h), TRUE) /\ nreq < MaxReq
      BY <2>4 DEF tls_wl_task_untimeout, MayCall
    <3>2. Untimeout(h) \in Msg /\ Untimeout(h).type = "untimeout"
      BY DEF Msg, Untimeout
    <3>3. QED BY <3>1, <3>2
  <2>5. QED BY <2>1, <2>2, <2>3, <2>4
<1>2. UNCHANGED <<mbox, cnt, timers, worker, waited, want>>
  BY <1>1 DEF Post
<1>3. QED BY <1>1, <1>2, PostType

LEMMA SendType == ASSUME TypeInv, NEW c \in Callers, Send(c) PROVE TypeInv'
<1> DEFINE r == call'[c]
           q == call[c]
<1>1. /\ q \in CallRec /\ q.pc = "post" /\ q.msg \in Msg /\ q.tries \in 0 .. Tries - 1
      /\ q.msg.type = "static" => q.msg.slot \in Shared
      /\ call \in [Callers -> CallRec]
  BY DEF TypeInv, TypeOK, CallInv, CallRec, Send
<1>2. mbox' \in Seq(Msg) /\ Len(mbox') <= MboxSize
  <2>1. TypeOK /\ mbox \in Seq(Msg) /\ Len(mbox) <= MboxSize BY DEF TypeInv, TypeOK
  <2>2. mbox' = mbox \/ (Room /\ mbox' = Append(mbox, call[c].msg)) BY DEF Send
  <2>3. QED BY <1>1, <2>1, <2>2, AppendType
<1>3. UNCHANGED <<cnt, timers, worker, waited, want, nreq>>
  BY DEF Send
<1>4. Counted(c) \in CallRec /\ Counted(c).pc \in {"load", "idle"}
      /\ (Counted(c).pc = "load" => Counted(c).msg = q.msg /\ q.msg.type = "static")
      /\ (Counted(c).pc = "idle" => Counted(c).msg = NoMsg)
  <2>1. CASE q.msg.type = "static"
    <3>1. Counted(c) = [q EXCEPT !.pc = "load"] BY <2>1 DEF Counted
    <3> HIDE DEF q
    <3>2. QED BY <3>1, <2>1, <1>1 DEF CallRec
  <2>2. CASE q.msg.type # "static"
    BY <2>2, IdleType DEF Counted
  <2>3. QED BY <2>1, <2>2
<1> DEFINE x == IF Room THEN Counted(c) ELSE IF ~q.block THEN Idle
                ELSE IF Again(q.tries) THEN [q EXCEPT !.tries = q.tries + 1] ELSE Counted(c)
<1>5. /\ call' = [call EXCEPT ![c] = x]
      /\ x = Counted(c) \/ x = Idle \/ (x = [q EXCEPT !.tries = q.tries + 1] /\ Again(q.tries))
  <2>1. CASE Room BY <2>1 DEF Send
  <2>2. CASE ~Room BY <2>2 DEF Send
  <2>3. QED BY <2>1, <2>2
<1> HIDE DEF x
<1>6. CASE x = Counted(c)
  BY <1>1, <1>2, <1>3, <1>4, <1>5, <1>6, MsgFields, CallType DEF TypeInv, TypeOK
<1>7. CASE x = Idle
  BY <1>1, <1>2, <1>3, <1>5, <1>7, IdleType, MsgFields, CallType DEF TypeInv, TypeOK
<1>8. CASE x = [q EXCEPT !.tries = q.tries + 1] /\ Again(q.tries)
  <2>1. q.tries + 1 \in 0 .. Tries - 1
    BY <1>1, <1>8, WlAssumption DEF Again
  <2> HIDE DEF q
  <2>2. x \in CallRec /\ x.pc = "post" /\ x.msg = q.msg
    BY <2>1, <1>1, <1>8 DEF CallRec
  <2>3. QED BY <1>1, <1>2, <1>3, <1>5, <2>2, CallType DEF TypeInv, TypeOK
<1>9. QED BY <1>5, <1>6, <1>7, <1>8

LEMMA CntType ==
  ASSUME TypeInv, NEW c \in Callers, CntLoad(c) \/ CntStore(c)
  PROVE  /\ TypeInv'
         /\ \A s \in Slots \ Shared : cnt'[s] = cnt[s]
         /\ UNCHANGED <<mbox, timers, worker, waited, want>>
<1> DEFINE q == call[c]
           s == q.msg.slot
<1>1. /\ q \in CallRec /\ q.msg \in Msg /\ q.msg.type = "static" /\ s \in Shared /\ s \in Slots
      /\ cnt \in [Slots -> 0 .. 255] /\ mbox \in Seq(Msg) /\ Len(mbox) <= MboxSize
      /\ nreq \in 0 .. MaxReq
  BY WlAssumption DEF TypeInv, TypeOK, CallInv, CallRec, CntLoad, CntStore
<1>0. q.loaded \in 0 .. 255
  BY DEF TypeInv, TypeOK
<1>2. CASE CntLoad(c)
  <2> DEFINE x == [q EXCEPT !.pc = "store", !.loaded = cnt[s]]
  <2>1. call' = [call EXCEPT ![c] = x] /\ UNCHANGED <<mbox, cnt, timers, worker, waited, want, nreq>>
    BY <1>2 DEF CntLoad, TypeInv, TypeOK
  <2>2. cnt[s] \in 0 .. 255 BY <1>1
  <2>3. x \in CallRec /\ x.pc = "store" /\ x.msg = q.msg
    <3> HIDE DEF q, s
    <3>1. QED BY <1>1, <2>2 DEF CallRec
  <2> HIDE DEF x
  <2>4. TypeInv' BY <1>1, <2>1, <2>3, CallType
  <2>5. QED BY <2>1, <2>4
<1>3. CASE CntStore(c)
  <2>1. /\ call' = [call EXCEPT ![c] = Idle] /\ cnt' = [cnt EXCEPT ![s] = (q.loaded + 1) % 256]
        /\ UNCHANGED <<mbox, timers, worker, waited, want, nreq>>
    BY <1>3 DEF CntStore
  <2>2. cnt' \in [Slots -> 0 .. 255]
    <3>1. (q.loaded + 1) % 256 \in 0 .. 255
      <4> HIDE DEF q
      <4>1. q.loaded + 1 \in Int BY <1>0
      <4>2. QED BY <4>1, Byte
    <3>2. QED BY <1>1, <2>1, <3>1
  <2>3. TypeInv' BY <1>1, <2>1, <2>2, IdleType, MsgFields, CallType
  <2>4. QED BY <1>1, <2>1, <2>3
<1>4. QED BY <1>2, <1>3

\* The worker takes a message: what was waited is taken from the first timeout.
LEMMA ReceiveType == ASSUME TypeInv, Receive PROVE TypeInv'
<1> DEFINE m == Head(mbox)
           pc == CASE m.type = "static" -> "read" [] m.type = "callback" -> "run" [] OTHER -> "arm"
<1>1. /\ mbox \in Seq(Msg) /\ mbox # <<>> /\ Len(mbox) <= MboxSize /\ timers \in Seq(Entry)
      /\ waited \in Nat /\ mbox' = Tail(mbox) /\ timers' = Elapsed(timers) /\ waited' = 0
      /\ worker' = [Fetching EXCEPT !.msg = m, !.pc = pc] /\ UNCHANGED <<cnt, call, want, nreq>>
  BY DEF TypeInv, TypeOK, Receive
<1>2. /\ mbox' \in Seq(Msg) /\ Len(mbox') <= MboxSize /\ m \in Msg
  BY <1>1, WlAssumption
<1>3. worker' \in WorkerRec /\ worker'.msg = m /\ worker'.pc = pc
  <2>1. pc \in {"read", "run", "arm"}
    OBVIOUS
  <2> HIDE DEF pc, m
  <2>2. QED BY <1>1, <1>2, <2>1, FetchingType DEF WorkerRec
<1>4. timers' \in Seq(Entry) /\ TimersInv'
  <2>1. CASE timers = <<>>
    BY <1>1, <2>1 DEF Elapsed, TimersInv
  <2>2. CASE timers # <<>>
    <3>1. timers' \in Seq(Entry) /\ Len(timers') = Len(timers)
      BY <1>1, <2>2, ElapsedUntil
    <3>2. PICK d \in 0 .. timers[1].time :
             \A k \in 1 .. Len(timers) : Until(timers')[k] = Until(timers)[k] - d
      BY <1>1, <2>2, ElapsedUntil
    <3>3. \A k \in 1 .. Len(timers) : Until(timers)[k] \in Nat /\ Until(timers)[k] <= MaxMs
      <4>1. Until(timers) \in [0 .. Len(timers) -> Nat] BY <1>1, Lists, UntilSum
      <4>2. QED BY <4>1 DEF TypeInv, TimersInv
    <3>4. d \in Nat BY <1>1, <2>2, Lists
    <3>5. \A k \in 1 .. Len(timers) : Until(timers')[k] <= MaxMs
      BY <3>2, <3>3, <3>4, MaxMsType
    <3>6. QED BY <3>1, <3>5 DEF TimersInv
  <2>3. QED BY <2>1, <2>2
<1>5. TypeOK'
  BY <1>1, <1>2, <1>3, <1>4 DEF TypeInv, TypeOK, WorkerRec
<1>6. WorkerInv'
  <2>1. CASE m.type = "static"
    <3>1. pc = "read" /\ m \in {Static(s) : s \in Slots} BY <2>1, <1>2, MsgFields
    <3>2. QED BY <3>1, <1>1, <1>3 DEF WorkerInv, Holding
  <2>2. CASE m.type = "callback"
    <3>1. pc = "run" /\ m = Callback BY <2>2, <1>2, MsgFields
    <3>2. QED BY <3>1, <1>1, <1>3 DEF WorkerInv, Holding
  <2>3. CASE m.type \in {"timeout", "untimeout"}
    <3>1. pc = "arm" BY <2>3
    <3>2. QED BY <3>1, <2>3, <1>1, <1>2, <1>3 DEF WorkerInv, Holding
  <2>4. QED BY <2>1, <2>2, <2>3, <1>2, MsgFields
<1>7. CallInv'
  BY <1>1 DEF TypeInv, CallInv
<1>8. QED BY <1>4, <1>5, <1>6, <1>7 DEF TypeInv

LEMMA ExpireList ==
  ASSUME TypeInv, Expire
  PROVE  /\ timers' \in Seq(Entry) /\ Len(timers') = Len(timers) - 1 /\ timers # <<>>
         /\ \A k \in 1 .. Len(timers) - 1 :
              /\ timers'[k].h = timers[k + 1].h /\ timers'[k].owed = timers[k + 1].owed
              /\ timers'[k].behind = timers[k + 1].behind + 1
              /\ Until(timers')[k] = Until(timers)[k + 1] - Until(timers)[1]
<1> DEFINE N == Len(timers)
           n == [i \in 1 .. N - 1 |-> [timers[i + 1] EXCEPT !.behind = @ + 1]]
<1>1. timers \in Seq(Entry) /\ timers # <<>> /\ timers' = n
  BY DEF TypeInv, TypeOK, Expire
<1>2. N \in Nat /\ N > 0 BY <1>1
<1>3. ASSUME NEW k \in 1 .. N - 1
      PROVE  /\ n[k] \in Entry /\ n[k].time = timers[k + 1].time /\ n[k].h = timers[k + 1].h
             /\ n[k].owed = timers[k + 1].owed /\ n[k].behind = timers[k + 1].behind + 1
  <2> DEFINE e == timers[k + 1]
  <2>1. k + 1 \in 1 .. N BY <1>2
  <2>2. e \in Entry /\ e.behind \in Nat BY <2>1, <1>1, Lists
  <2>3. n[k] = [e EXCEPT !.behind = e.behind + 1] OBVIOUS
  <2> HIDE DEF e, n
  <2>4. n[k] \in Entry /\ n[k].time = e.time /\ n[k].h = e.h
             /\ n[k].owed = e.owed /\ n[k].behind = e.behind + 1
    BY <2>2, <2>3 DEF Entry
  <2>5. QED BY <2>4 DEF e
<1>4. n \in Seq(Entry) /\ Len(n) = N - 1
  <2>1. n \in [1 .. N - 1 -> Entry] BY <1>3
  <2>2. N - 1 \in Nat BY <1>2
  <2>3. QED BY <2>1, <2>2
<1>5. \A k \in 1 .. Len(n) : Until(n)[k] = Until(timers)[k + 1] - Until(timers)[1]
  <2> HIDE DEF n
  <2>1. QED BY <1>1, <1>3, <1>4, TailUntil
<1> HIDE DEF n
<1>6. QED BY <1>1, <1>3, <1>4, <1>5

LEMMA ExpireType == ASSUME TypeInv, Expire PROVE TypeInv'
<1>1. /\ waited' = 0 /\ worker' = [Fetching EXCEPT !.pc = "run"] /\ UNCHANGED <<mbox, cnt, call, want, nreq>>
      /\ timers \in Seq(Entry)
  BY DEF Expire, TypeInv, TypeOK
<1>2. worker' \in WorkerRec /\ worker'.pc = "run" /\ worker'.msg = NoMsg
  BY <1>1, FetchingType DEF WorkerRec
<1>3. TypeOK'
  BY <1>1, <1>2, ExpireList DEF TypeInv, TypeOK, WorkerRec
<1>4. TimersInv'
  <2> SUFFICES ASSUME NEW k \in 1 .. Len(timers') PROVE Until(timers')[k] <= MaxMs
    BY DEF TimersInv
  <2>1. k \in 1 .. Len(timers) - 1 /\ k + 1 \in 1 .. Len(timers) /\ 1 \in 1 .. Len(timers)
    BY <1>1, ExpireList
  <2>2. Until(timers) \in [0 .. Len(timers) -> Nat] BY <1>1, Lists, UntilSum
  <2>3. Until(timers)[k + 1] \in Nat /\ Until(timers)[1] \in Nat /\ Until(timers)[k + 1] <= MaxMs
    BY <2>1, <2>2 DEF TypeInv, TimersInv
  <2>4. Until(timers')[k] = Until(timers)[k + 1] - Until(timers)[1]
    BY <2>1, ExpireList
  <2>5. QED BY <2>3, <2>4, MaxMsType
<1>5. WorkerInv' /\ CallInv'
  BY <1>1, <1>2 DEF TypeInv, WorkerInv, CallInv, Holding
<1>6. QED BY <1>3, <1>4, <1>5 DEF TypeInv

\* Steps of the worker leave the mailbox and the calls alone.
LEMMA WorkerType ==
  ASSUME TypeInv, UNCHANGED <<mbox, call, nreq>>, waited' \in Nat, cnt' \in [Slots -> 0 .. 255],
         timers' \in Seq(Entry), want' \subseteq want, worker' \in WorkerRec,
         TimersInv', WorkerInv'
  PROVE  TypeInv'
<1>1. TypeOK' BY DEF TypeInv, TypeOK, WorkerRec
<1>2. CallInv' BY DEF TypeInv, CallInv
<1>3. QED BY <1>1, <1>2 DEF TypeInv

LEMMA WorkerFields ==
  ASSUME TypeInv
  PROVE  /\ worker \in WorkerRec /\ waited \in Nat /\ cnt \in [Slots -> 0 .. 255]
         /\ timers \in Seq(Entry) /\ worker.loaded \in 0 .. 255
         /\ worker.pc \in Holding => worker.msg.slot \in Slots
                                     /\ worker.msg = Static(worker.msg.slot)
<1>1. /\ worker \in WorkerRec /\ waited \in Nat /\ cnt \in [Slots -> 0 .. 255]
      /\ timers \in Seq(Entry) /\ worker.loaded \in 0 .. 255
  BY DEF TypeInv, TypeOK, WorkerRec
<1>2. ASSUME worker.pc \in Holding
      PROVE  worker.msg.slot \in Slots /\ worker.msg = Static(worker.msg.slot)
  <2>1. PICK s \in Slots : worker.msg = Static(s) BY <1>2 DEF TypeInv, WorkerInv
  <2>2. QED BY <2>1, MsgFields
<1>3. QED BY <1>1, <1>2

LEMMA ReadLoadType ==
  ASSUME TypeInv, ReadSlot \/ Load
  PROVE  /\ TypeInv' /\ UNCHANGED <<mbox, cnt, timers, waited, call, want, nreq>>
         /\ worker.pc \in {"read", "load"} /\ worker'.pc \in {"load", "store"}
         /\ worker'.msg = worker.msg
         /\ worker'.pc = "store" => worker'.loaded = cnt[worker.msg.slot]
<1>1. /\ worker \in WorkerRec /\ waited \in Nat /\ cnt \in [Slots -> 0 .. 255]
      /\ timers \in Seq(Entry)
  BY WorkerFields
<1>2. /\ UNCHANGED <<mbox, cnt, timers, waited, call, want, nreq>>
      /\ worker.pc \in {"read", "load"} /\ worker'.pc \in {"load", "store"}
      /\ worker'.msg = worker.msg /\ worker' \in WorkerRec
      /\ worker'.pc = "store" => worker'.loaded = cnt[worker.msg.slot]
  <2>1. CASE ReadSlot
    <3>1. worker' = [worker EXCEPT !.pc = "load"] /\ UNCHANGED <<mbox, cnt, timers, waited, call, want, nreq>>
          /\ worker.pc = "read"
      BY <2>1 DEF ReadSlot, Goto, StaticOrder
    <3>2. QED BY <3>1, <1>1 DEF WorkerRec
  <2>2. CASE Load
    <3>1. worker' = [worker EXCEPT !.pc = "store", !.loaded = cnt[worker.msg.slot]]
          /\ UNCHANGED <<mbox, cnt, timers, waited, call, want, nreq>> /\ worker.pc = "load"
      BY <2>2 DEF Load
    <3>2. worker.msg.slot \in Slots BY <3>1, WorkerFields DEF Holding
    <3>3. cnt[worker.msg.slot] \in 0 .. 255 BY <3>2, <1>1
    <3>4. QED BY <3>1, <3>3, <1>1 DEF WorkerRec
  <2>3. QED BY <2>1, <2>2
<1>3. WorkerInv'
  BY <1>2 DEF TypeInv, WorkerInv, Holding
<1>4. TimersInv' BY <1>2 DEF TypeInv, TimersInv
<1>5. TypeInv'
  BY <1>1, <1>2, <1>3, <1>4, WorkerType
<1>6. QED BY <1>2, <1>5

LEMMA StoreType ==
  ASSUME TypeInv, Store
  PROVE  /\ TypeInv' /\ UNCHANGED <<mbox, timers, waited, call, nreq>>
         /\ worker.pc = "store" /\ worker'.pc = "run" /\ worker'.msg = worker.msg
         /\ cnt' = [cnt EXCEPT ![worker.msg.slot] = (worker.loaded - 1) % 256]
         /\ want' = want \ {worker.msg.slot}
<1>1. /\ worker \in WorkerRec /\ waited \in Nat /\ cnt \in [Slots -> 0 .. 255]
      /\ timers \in Seq(Entry)
  BY WorkerFields
<1>2. /\ UNCHANGED <<mbox, timers, waited, call, nreq>> /\ worker.pc = "store"
      /\ worker' = [worker EXCEPT !.pc = "run"] /\ want' = want \ {worker.msg.slot}
      /\ cnt' = [cnt EXCEPT ![worker.msg.slot] = (worker.loaded - 1) % 256]
  BY DEF Store, Goto, StaticOrder
<1>3. worker'.pc = "run" /\ worker'.msg = worker.msg /\ worker' \in WorkerRec
  BY <1>1, <1>2 DEF WorkerRec
<1>4. cnt' \in [Slots -> 0 .. 255]
  <2>1. worker.loaded \in 0 .. 255 BY WorkerFields
  <2>2. worker.loaded - 1 \in Int BY <2>1
  <2>3. (worker.loaded - 1) % 256 \in 0 .. 255 BY <2>2, Byte
  <2>4. QED BY <1>1, <1>2, <2>3
<1>5. WorkerInv'
  BY <1>2, <1>3 DEF TypeInv, WorkerInv, Holding
<1>6. TimersInv' BY <1>2 DEF TypeInv, TimersInv
<1>7. want' \subseteq want BY <1>2
<1>8. TypeInv'
  BY <1>1, <1>2, <1>3, <1>4, <1>5, <1>6, <1>7, WorkerType
<1>9. QED BY <1>2, <1>3, <1>8

LEMMA ReturnType ==
  ASSUME TypeInv, FunReturns
  PROVE  /\ TypeInv' /\ UNCHANGED <<mbox, cnt, timers, waited, call, want, nreq>>
         /\ worker.pc = "run" /\ worker' = Fetching
<1>1. /\ UNCHANGED <<mbox, cnt, timers, waited, call, want, nreq>> /\ worker' = Fetching
      /\ worker.pc = "run"
  BY DEF FunReturns, Goto, StaticOrder
<1>2. WorkerInv'
  BY <1>1, FetchingType DEF WorkerInv, Holding
<1>3. TimersInv' BY <1>1 DEF TypeInv, TimersInv
<1>4. TypeInv'
  BY <1>1, <1>2, <1>3, FetchingType, WorkerFields, WorkerType
<1>5. QED BY <1>1, <1>4

\* What a timeout request does to the list, seen as absolute times: the three outcomes
\* of ArmOrCancel.
Armed(h, ms) ==
  \E p \in 0 .. Len(timers) :
    /\ \A i \in 1 .. Len(timers) : i <= p <=> Until(timers)[i] <= ms
    /\ Len(timers') = Len(timers) + 1
    /\ \A i \in 1 .. Len(timers) + 1 :
         /\ i <= p => timers'[i].h = timers[i].h /\ timers'[i].owed = timers[i].owed
                      /\ timers'[i].behind = timers[i].behind /\ Until(timers')[i] = Until(timers)[i]
         /\ i = p + 1 => timers'[i].h = h /\ timers'[i].owed = ms /\ timers'[i].behind = 0
                         /\ Until(timers')[i] = ms
         /\ i > p + 1 => timers'[i].h = timers[i - 1].h /\ timers'[i].owed = timers[i - 1].owed
                         /\ timers'[i].behind = timers[i - 1].behind
                         /\ Until(timers')[i] = Until(timers)[i - 1]

Cancelled(h) ==
  \E p \in 1 .. Len(timers) :
    /\ timers[p].h = h /\ \A j \in 1 .. p - 1 : timers[j].h # h
    /\ Len(timers') = Len(timers) - 1
    /\ \A i \in 1 .. Len(timers) - 1 :
         /\ i < p => timers'[i].h = timers[i].h /\ timers'[i].owed = timers[i].owed
                     /\ timers'[i].behind = timers[i].behind /\ Until(timers')[i] = Until(timers)[i]
         /\ i >= p => timers'[i].h = timers[i + 1].h /\ timers'[i].owed = timers[i + 1].owed
                      /\ timers'[i].behind = timers[i + 1].behind
                      /\ Until(timers')[i] = Until(timers)[i + 1]

LEMMA ArmOrCancelList ==
  ASSUME TypeInv, ArmOrCancel
  PROVE  /\ timers' \in Seq(Entry)
         /\ \/ UNCHANGED timers
            \/ \E h \in Handlers, ms \in Times : Armed(h, ms)
            \/ \E h \in Handlers : Cancelled(h)
<1> DEFINE m == worker.msg
<1>1. /\ timers \in Seq(Entry) /\ m \in Msg
      /\ \A k \in 1 .. Len(timers) : Until(timers)[k] <= MaxMs
  BY DEF TypeInv, TypeOK, WorkerInv, TimersInv, ArmOrCancel
<1>2. CASE m.type = "timeout" /\ timers' = tls_timeout_p(timers, m)
  <2> DEFINE p == Place(timers, m.ms)
  <2>1. m.ms \in Times /\ m.h \in Handlers
    BY <1>1, <1>2, MsgFields
  <2>2. m.ms \in Nat BY <2>1, WlAssumption
  <2>3. p \in 0 .. Len(timers) /\ \A i \in 1 .. Len(timers) : i <= p <=> Until(timers)[i] <= m.ms
    BY <1>1, <2>2, PlaceSplits
  <2> HIDE DEF m
  <2>4. /\ timers' \in Seq(Entry) /\ Len(timers') = Len(timers) + 1
        /\ \A i \in 1 .. Len(timers) + 1 :
             /\ i <= p => timers'[i].h = timers[i].h /\ timers'[i].owed = timers[i].owed
                          /\ timers'[i].behind = timers[i].behind
                          /\ Until(timers')[i] = Until(timers)[i]
             /\ i = p + 1 => timers'[i].h = m.h /\ timers'[i].owed = m.ms
                             /\ timers'[i].behind = 0 /\ Until(timers')[i] = m.ms
             /\ i > p + 1 => timers'[i].h = timers[i - 1].h /\ timers'[i].owed = timers[i - 1].owed
                             /\ timers'[i].behind = timers[i - 1].behind
                             /\ Until(timers')[i] = Until(timers)[i - 1]
    BY <1>1, <1>2, <2>1, InsertUntil
  <2> HIDE DEF p
  <2>5. Armed(m.h, m.ms) BY <2>3, <2>4 DEF Armed
  <2>6. QED BY <2>1, <2>4, <2>5
<1>3. CASE UNCHANGED timers
  BY <1>1, <1>3
<1>4. CASE m.type = "untimeout" /\ timers' = tls_untimeout_p(timers, m.h)
  <2>1. m.h \in Handlers BY <1>1, <1>4, MsgFields
  <2>2. CASE \A i \in 1 .. Len(timers) : timers[i].h # m.h
    <3>1. timers' = timers BY <1>4, <2>2 DEF tls_untimeout_p
    <3>2. QED BY <1>1, <3>1
  <2>3. CASE ~ \A i \in 1 .. Len(timers) : timers[i].h # m.h
    <3>1. PICK at \in 1 .. Len(timers) : timers[at].h = m.h BY <2>3
    <3> DEFINE p == FirstOf(timers, m.h)
    <3>2. p \in 1 .. Len(timers) /\ timers[p].h = m.h /\ \A j \in 1 .. p - 1 : timers[j].h # m.h
      BY <1>1, <3>1, FirstOfIs
    <3>3. /\ timers' \in Seq(Entry) /\ Len(timers') = Len(timers) - 1
          /\ \A i \in 1 .. Len(timers) - 1 :
               /\ i < p => timers'[i].h = timers[i].h /\ timers'[i].owed = timers[i].owed
                           /\ timers'[i].behind = timers[i].behind
                           /\ Until(timers')[i] = Until(timers)[i]
               /\ i >= p => timers'[i].h = timers[i + 1].h /\ timers'[i].owed = timers[i + 1].owed
                            /\ timers'[i].behind = timers[i + 1].behind
                            /\ Until(timers')[i] = Until(timers)[i + 1]
      BY <1>1, <1>4, <3>1, RemoveUntil
    <3> HIDE DEF p, m
    <3>4. Cancelled(m.h) BY <3>2, <3>3 DEF Cancelled
    <3>5. QED BY <2>1, <3>3, <3>4
  <2>4. QED BY <2>2, <2>3
<1>5. QED BY <1>2, <1>3, <1>4 DEF ArmOrCancel

LEMMA ArmOrCancelType ==
  ASSUME TypeInv, ArmOrCancel
  PROVE  /\ TypeInv' /\ UNCHANGED <<mbox, cnt, waited, call, want, nreq>>
         /\ worker' = Fetching /\ worker.pc = "arm" /\ waited = 0
<1>1. /\ UNCHANGED <<mbox, cnt, waited, call, want, nreq>> /\ worker' = Fetching
      /\ worker.pc = "arm" /\ waited = 0
  BY DEF TypeInv, WorkerInv, ArmOrCancel
<1>2. timers \in Seq(Entry) /\ Len(timers) \in Nat
  BY WorkerFields, Lists
<1>3. \A k \in 1 .. Len(timers) : Until(timers)[k] <= MaxMs
  BY DEF TypeInv, TimersInv
<1>4. TimersInv'
  <2>1. CASE UNCHANGED timers
    BY <2>1 DEF TypeInv, TimersInv
  <2>2. CASE \E h \in Handlers, ms \in Times : Armed(h, ms)
    <3>1. PICK h \in Handlers, ms \in Times : Armed(h, ms) BY <2>2
    <3>2. PICK p \in 0 .. Len(timers) :
            /\ Len(timers') = Len(timers) + 1
            /\ \A i \in 1 .. Len(timers) + 1 :
                 /\ i <= p => Until(timers')[i] = Until(timers)[i]
                 /\ i = p + 1 => Until(timers')[i] = ms
                 /\ i > p + 1 => Until(timers')[i] = Until(timers)[i - 1]
      BY <3>1 DEF Armed
    <3>3. ms <= MaxMs BY MaxMsType
    <3>4. SUFFICES ASSUME NEW i \in 1 .. Len(timers) + 1 PROVE Until(timers')[i] <= MaxMs
      BY <3>2 DEF TimersInv
    <3>5. CASE i <= p
      <4>1. i \in 1 .. Len(timers) BY <3>5, <1>2
      <4>2. QED BY <4>1, <3>5, <3>2, <1>3
    <3>6. CASE i = p + 1 BY <3>6, <3>2, <3>3
    <3>7. CASE i > p + 1
      <4>1. i - 1 \in 1 .. Len(timers) BY <3>7, <1>2
      <4>2. QED BY <4>1, <3>7, <3>2, <1>3
    <3>8. QED BY <3>5, <3>6, <3>7
  <2>3. CASE \E h \in Handlers : Cancelled(h)
    <3>1. PICK h \in Handlers : Cancelled(h) BY <2>3
    <3>2. PICK p \in 1 .. Len(timers) :
            /\ Len(timers') = Len(timers) - 1
            /\ \A i \in 1 .. Len(timers) - 1 :
                 /\ i < p => Until(timers')[i] = Until(timers)[i]
                 /\ i >= p => Until(timers')[i] = Until(timers)[i + 1]
      BY <3>1 DEF Cancelled
    <3>3. SUFFICES ASSUME NEW i \in 1 .. Len(timers) - 1 PROVE Until(timers')[i] <= MaxMs
      BY <3>2 DEF TimersInv
    <3>4. i \in 1 .. Len(timers) /\ i + 1 \in 1 .. Len(timers) /\ (i < p \/ i >= p)
      BY <1>2
    <3>5. QED BY <3>2, <3>4, <1>3
  <2>4. QED BY <2>1, <2>2, <2>3, ArmOrCancelList
<1>5. WorkerInv'
  BY <1>1, FetchingType DEF WorkerInv, Holding
<1>6. TypeInv'
  BY <1>1, <1>4, <1>5, FetchingType, WorkerFields, ArmOrCancelList, WorkerType
<1>7. QED BY <1>1, <1>6

LEMMA TickList ==
  ASSUME TypeInv, Tick
  PROVE  /\ timers' \in Seq(Entry) /\ Len(timers') = Len(timers)
         /\ \A k \in 1 .. Len(timers) :
              /\ timers'[k].h = timers[k].h /\ timers'[k].owed = Less(timers[k].owed)
              /\ timers'[k].behind = timers[k].behind /\ Until(timers')[k] = Until(timers)[k]
         /\ waited' = waited \/ (waited' = waited + 1 /\ worker.pc = "fetch")
         /\ UNCHANGED <<mbox, cnt, worker, call, want, nreq>>
<1> DEFINE n == [i \in 1 .. Len(timers) |-> [timers[i] EXCEPT !.owed = Less(timers[i].owed)]]
<1>1. timers \in Seq(Entry) /\ timers' = n /\ Len(timers) \in Nat
  BY WorkerFields, Lists DEF Tick
<1>2. ASSUME NEW k \in 1 .. Len(timers)
      PROVE  /\ n[k] \in Entry /\ n[k].time = timers[k].time /\ n[k].h = timers[k].h
             /\ n[k].owed = Less(timers[k].owed) /\ n[k].behind = timers[k].behind
  <2> DEFINE e == timers[k]
             o == Less(timers[k].owed)
  <2>1. e \in Entry BY <1>1
  <2>2. o \in 0 .. MaxMs
    <3>1. e.owed \in 0 .. MaxMs BY <2>1 DEF Entry
    <3>2. QED BY <3>1, WlAssumption, MaxMsType DEF Less
  <2>3. n[k] = [e EXCEPT !.owed = o] OBVIOUS
  <2> HIDE DEF e, n, o
  <2>4. n[k] \in Entry /\ n[k].time = e.time /\ n[k].h = e.h
             /\ n[k].owed = o /\ n[k].behind = e.behind
    BY <2>1, <2>2, <2>3 DEF Entry
  <2>5. QED BY <2>4 DEF e, o
<1>3. n \in Seq(Entry) /\ Len(n) = Len(timers)
  <2>1. n \in [1 .. Len(timers) -> Entry] BY <1>2
  <2>2. QED BY <2>1, <1>1
<1> HIDE DEF n
<1>4. \A k \in 0 .. Len(timers) : Until(n)[k] = Until(timers)[k]
  BY <1>1, <1>2, <1>3, SameTimes
<1>5. \A k \in 1 .. Len(timers) : Until(n)[k] = Until(timers)[k]
  BY <1>1, <1>4
<1>6. /\ waited' = waited \/ (waited' = waited + 1 /\ worker.pc = "fetch")
      /\ UNCHANGED <<mbox, cnt, worker, call, want, nreq>>
  BY DEF Tick, Waiting
<1>7. QED BY <1>1, <1>2, <1>3, <1>5, <1>6

LEMMA TickType == ASSUME TypeInv, Tick PROVE TypeInv'
<1>1. /\ waited' = waited \/ (waited' = waited + 1 /\ worker.pc = "fetch")
      /\ UNCHANGED <<mbox, cnt, worker, call, want, nreq>>
  BY TickList
<1>2. waited' \in Nat BY <1>1, WorkerFields
<1>3. WorkerInv' BY <1>1 DEF TypeInv, WorkerInv
<1>4. TimersInv'
  BY TickList DEF TypeInv, TimersInv
<1>5. QED BY <1>1, <1>2, <1>3, <1>4, TickList, WorkerFields, WorkerType

LEMMA NextTypeInv == TypeInv /\ [Next]_vars => TypeInv'
<1> SUFFICES ASSUME TypeInv, [Next]_vars PROVE TypeInv'
  OBVIOUS
<1>1. CASE \E s \in Slots : IsrPost(s) BY <1>1, IsrPostType
<1>2. CASE \E c \in Callers : \/ tls_wl_task_callback_static(c) \/ tls_wl_task_callback(c)
                              \/ tls_wl_task_add_timeout(c) \/ tls_wl_task_untimeout(c)
                              \/ Step(c)
  BY <1>2, BeginType, SendType, CntType DEF Step
<1>3. CASE task_thread
  BY <1>3, ReceiveType, ExpireType, ReadLoadType, StoreType, ArmOrCancelType, ReturnType
  DEF task_thread
<1>4. CASE Tick BY <1>4, TickType
<1>5. CASE UNCHANGED vars
  BY <1>5 DEF vars, TypeInv, TypeOK, WorkerInv, CallInv, TimersInv
<1>6. QED BY <1>1, <1>2, <1>3, <1>4, <1>5 DEF Next

-----------------------------------------------------------------------------
(* Static messages. *)

Held(s) == worker.msg = Static(s) /\ worker.pc \in Holding
InMbox(s) == \E i \in 1 .. Len(mbox) : mbox[i] = Static(s)

\* A slot that only interrupt handlers post is in one place at most, and cnt says
\* whether it is in one.
OneSlot(s) ==
  /\ cnt[s] = IF InMbox(s) \/ Held(s) THEN 1 ELSE 0
  /\ ~(InMbox(s) /\ Held(s))
  /\ \A i, j \in 1 .. Len(mbox) : mbox[i] = Static(s) /\ mbox[j] = Static(s) => i = j
  /\ Held(s) /\ worker.pc = "store" => worker.loaded = 1
  /\ s \in want => InMbox(s) \/ Held(s)

SlotInv == \A s \in Slots \ Shared : OneSlot(s)

\* A step that leaves the mailbox, cnt and want of a slot alone, and the worker's claim
\* on it.
LEMMA SlotFrame ==
  ASSUME NEW s \in Slots \ Shared, OneSlot(s), mbox' = mbox, cnt'[s] = cnt[s], want' = want,
         Held(s)' <=> Held(s), Held(s) /\ worker'.pc = "store" => worker'.loaded = 1
  PROVE  OneSlot(s)'
<1>1. InMbox(s)' <=> InMbox(s) BY DEF InMbox
<1>2. /\ cnt'[s] = IF InMbox(s)' \/ Held(s)' THEN 1 ELSE 0
      /\ ~(InMbox(s)' /\ Held(s)')
      /\ s \in want' => InMbox(s)' \/ Held(s)'
  BY <1>1 DEF OneSlot
<1>3. /\ \A i, j \in 1 .. Len(mbox') : mbox'[i] = Static(s) /\ mbox'[j] = Static(s) => i = j
      /\ Held(s)' /\ worker'.pc = "store" => worker'.loaded = 1
  BY DEF OneSlot
<1>4. QED BY <1>2, <1>3 DEF OneSlot

LEMMA NotHeld == worker.pc \notin Holding => \A s : ~Held(s)
BY DEF Held

LEMMA AppendPlaces ==
  ASSUME NEW q \in Seq(Msg), NEW m \in Msg
  PROVE  /\ Len(q) \in Nat /\ Len(Append(q, m)) = Len(q) + 1 /\ Append(q, m)[Len(q) + 1] = m
         /\ \A i \in 1 .. Len(q) : Append(q, m)[i] = q[i]
OBVIOUS

LEMMA TailPlaces ==
  ASSUME NEW q \in Seq(Msg), q # <<>>
  PROVE  /\ Len(q) \in Nat \ {0} /\ Len(Tail(q)) = Len(q) - 1 /\ Head(q) = q[1]
         /\ \A i \in 1 .. Len(q) - 1 : Tail(q)[i] = q[i + 1]
OBVIOUS

LEMMA StaticsDiffer == \A s, t : Static(s) = Static(t) => s = t
BY MsgFields

\* Where a slot's message is after another message was put into the mailbox.
LEMMA AppendMbox ==
  ASSUME TypeInv, NEW m \in Msg, mbox' = Append(mbox, m), NEW s, m # Static(s)
  PROVE  /\ InMbox(s)' <=> InMbox(s)
         /\ \A i \in 1 .. Len(mbox') : mbox'[i] = Static(s) => i \in 1 .. Len(mbox) /\ mbox[i] = Static(s)
<1> DEFINE N == Len(mbox)
<1>1. /\ N \in Nat /\ Len(mbox') = N + 1 /\ mbox'[N + 1] = m
      /\ \A i \in 1 .. N : mbox'[i] = mbox[i]
  BY AppendPlaces DEF TypeInv, TypeOK
<1> HIDE DEF N
<1>2. \A i \in 1 .. N + 1 : mbox'[i] = Static(s) => i \in 1 .. N /\ mbox[i] = Static(s)
  BY <1>1
<1>3. \A i \in 1 .. N : mbox[i] = Static(s) => i \in 1 .. N + 1 /\ mbox'[i] = Static(s)
  BY <1>1
<1>4. QED BY <1>1, <1>2, <1>3 DEF InMbox, N

LEMMA IsrPostSlot ==
  ASSUME TypeInv, NEW s \in Slots \ Shared, OneSlot(s), NEW t \in Slots, IsrPost(t)
  PROVE  OneSlot(s)'
<1>1. worker' = worker /\ (Held(s)' <=> Held(s)) BY DEF IsrPost, Held
<1>2. CASE cnt[t] = 0 /\ Room /\ mbox' = Append(mbox, Static(t))
           /\ cnt' = [cnt EXCEPT ![t] = (cnt[t] + 1) % 256] /\ want' = want \cup ({t} \ Shared)
  <2>1. Static(t) \in Msg /\ cnt \in [Slots -> 0 .. 255] BY MsgFields, WorkerFields
  <2>2. CASE s # t
    <3>1. Static(t) # Static(s) BY <2>2, StaticsDiffer
    <3>2. cnt'[s] = cnt[s] /\ (s \in want' => s \in want) BY <1>2, <2>1, <2>2
    <3>3. /\ InMbox(s)' <=> InMbox(s)
          /\ \A i \in 1 .. Len(mbox') : mbox'[i] = Static(s) => i \in 1 .. Len(mbox) /\ mbox[i] = Static(s)
      BY <1>2, <2>1, <3>1, AppendMbox
    <3>4. QED BY <1>1, <3>2, <3>3 DEF OneSlot
  <2>3. CASE s = t
    <3>1. cnt'[s] = 1
      <4>1. (0 + 1) % 256 = 1 OBVIOUS
      <4>2. QED BY <1>2, <2>1, <2>3, <4>1
    <3>2. ~InMbox(s) /\ ~Held(s) BY <1>2, <2>3 DEF OneSlot
    <3> DEFINE N == Len(mbox)
    <3>3. /\ N \in Nat /\ Len(mbox') = N + 1 /\ mbox'[N + 1] = Static(s)
          /\ \A i \in 1 .. N : mbox'[i] = mbox[i]
      BY <1>2, <2>1, <2>3, AppendPlaces DEF TypeInv, TypeOK
    <3>4. \A i \in 1 .. N : mbox[i] # Static(s) BY <3>2 DEF InMbox
    <3> HIDE DEF N
    <3>5. \A i \in 1 .. N + 1 : mbox'[i] = Static(s) => i = N + 1
      BY <3>3, <3>4
    <3>6. N + 1 \in 1 .. N + 1 BY <3>3
    <3>7. InMbox(s)' BY <3>3, <3>6 DEF InMbox
    <3>8. \A i, j \in 1 .. Len(mbox') : mbox'[i] = Static(s) /\ mbox'[j] = Static(s) => i = j
      BY <3>3, <3>5
    <3>9. QED BY <1>1, <3>1, <3>2, <3>7, <3>8 DEF OneSlot
  <2>4. QED BY <2>2, <2>3
<1>3. CASE cnt[t] > 0 /\ UNCHANGED <<mbox, cnt>> /\ want' = want \cup ({t} \ Shared)
  <2>1. InMbox(s)' <=> InMbox(s) BY <1>3 DEF InMbox
  <2>2. s = t => InMbox(s) \/ Held(s) BY <1>3 DEF OneSlot
  <2>3. s \in want' => InMbox(s)' \/ Held(s)'
    BY <1>1, <1>3, <2>1, <2>2 DEF OneSlot
  <2>4. /\ cnt'[s] = IF InMbox(s)' \/ Held(s)' THEN 1 ELSE 0
        /\ ~(InMbox(s)' /\ Held(s)')
        /\ \A i, j \in 1 .. Len(mbox') : mbox'[i] = Static(s) /\ mbox'[j] = Static(s) => i = j
        /\ Held(s)' /\ worker'.pc = "store" => worker'.loaded = 1
    BY <1>1, <1>3, <2>1 DEF OneSlot
  <2>5. QED BY <2>3, <2>4 DEF OneSlot
<1>4. CASE UNCHANGED <<mbox, cnt, want>>
  BY <1>1, <1>4, SlotFrame DEF OneSlot
<1>5. QED BY <1>2, <1>3, <1>4 DEF IsrPost

LEMMA SendSlot ==
  ASSUME TypeInv, NEW s \in Slots \ Shared, OneSlot(s), NEW c \in Callers, Send(c)
  PROVE  OneSlot(s)'
<1>1. worker' = worker /\ cnt' = cnt /\ want' = want /\ (Held(s)' <=> Held(s)) BY DEF Send, Held
<1>2. CASE mbox' = mbox
  BY <1>1, <1>2, SlotFrame DEF OneSlot
<1>3. CASE mbox' = Append(mbox, call[c].msg)
  <2>1. call[c].msg \in Msg /\ call[c].msg # Static(s)
    <3>1. call[c].msg \in Msg /\ (call[c].msg.type = "static" => call[c].msg.slot \in Shared)
      BY DEF TypeInv, CallInv, Send
    <3>2. QED BY <3>1, MsgFields
  <2>2. /\ InMbox(s)' <=> InMbox(s)
        /\ \A i \in 1 .. Len(mbox') : mbox'[i] = Static(s) => i \in 1 .. Len(mbox) /\ mbox[i] = Static(s)
    BY <1>3, <2>1, AppendMbox
  <2>3. QED BY <1>1, <2>2 DEF OneSlot
<1>4. QED BY <1>2, <1>3 DEF Send

LEMMA ReceiveSlot ==
  ASSUME TypeInv, NEW s \in Slots \ Shared, OneSlot(s), Receive
  PROVE  OneSlot(s)'
<1> DEFINE N == Len(mbox)
<1>1. /\ N \in Nat \ {0} /\ Len(mbox') = N - 1 /\ Head(mbox) = mbox[1]
      /\ \A i \in 1 .. N - 1 : mbox'[i] = mbox[i + 1]
  BY TailPlaces DEF TypeInv, TypeOK, Receive
<1>2. worker.pc = "fetch" /\ ~Held(s) /\ cnt' = cnt /\ want' = want BY NotHeld DEF Receive, Holding
<1>3. worker'.msg = mbox[1] /\ (mbox[1].type = "static" => worker'.pc = "read")
  BY <1>1, FetchingType DEF Receive, WorkerRec
<1>4. \A i, j \in 1 .. N : mbox[i] = Static(s) /\ mbox[j] = Static(s) => i = j
  BY DEF OneSlot
<1> HIDE DEF N
<1>5. ASSUME NEW i \in 1 .. N - 1 PROVE i + 1 \in 1 .. N /\ i \in 1 .. N
  BY <1>1
<1>6. \A i, j \in 1 .. N - 1 : mbox'[i] = Static(s) /\ mbox'[j] = Static(s) => i = j
  <2> SUFFICES ASSUME NEW i \in 1 .. N - 1, NEW j \in 1 .. N - 1,
                      mbox'[i] = Static(s), mbox'[j] = Static(s)
               PROVE  i = j
    OBVIOUS
  <2>1. i + 1 = j + 1 BY <1>1, <1>4, <1>5
  <2>2. QED BY <2>1
<1>7. CASE mbox[1] = Static(s)
  <2>1. worker'.pc = "read" /\ worker'.msg = Static(s) BY <1>3, <1>7, MsgFields
  <2>2. Held(s)' BY <2>1 DEF Held, Holding
  <2>3. \A i \in 1 .. N - 1 : mbox'[i] # Static(s)
    <3> SUFFICES ASSUME NEW i \in 1 .. N - 1, mbox'[i] = Static(s) PROVE FALSE
      OBVIOUS
    <3>1. mbox[i + 1] = Static(s) /\ i + 1 \in 1 .. N /\ 1 \in 1 .. N BY <1>1, <1>5
    <3>2. i + 1 = 1 BY <3>1, <1>4, <1>7
    <3>3. QED BY <3>2
  <2>4. ~InMbox(s)' BY <2>3, <1>1 DEF InMbox
  <2>5. 1 \in 1 .. N BY <1>1
  <2>6. InMbox(s) BY <1>7, <2>5 DEF InMbox, N
  <2>7. cnt'[s] = 1 BY <1>2, <2>6 DEF OneSlot
  <2>8. QED BY <1>1, <1>6, <2>1, <2>2, <2>4, <2>7 DEF OneSlot
<1>8. CASE mbox[1] # Static(s)
  <2>1. ~Held(s)' BY <1>3, <1>8 DEF Held
  <2>2. InMbox(s)' => InMbox(s)
    BY <1>1, <1>5 DEF InMbox, N
  <2>3. InMbox(s) => InMbox(s)'
    <3> SUFFICES ASSUME NEW i \in 1 .. N, mbox[i] = Static(s) PROVE InMbox(s)'
      BY DEF InMbox, N
    <3>1. i # 1 BY <1>8
    <3>2. i - 1 \in 1 .. N - 1 /\ (i - 1) + 1 = i BY <1>1, <3>1
    <3>3. mbox'[i - 1] = Static(s) BY <3>2, <1>1
    <3>4. QED BY <3>2, <3>3, <1>1 DEF InMbox
  <2>4. QED BY <1>1, <1>2, <1>6, <2>1, <2>2, <2>3 DEF OneSlot
<1>9. QED BY <1>7, <1>8

LEMMA StoreSlot ==
  ASSUME TypeInv, NEW s \in Slots \ Shared, OneSlot(s), Store
  PROVE  OneSlot(s)'
<1> DEFINE t == worker.msg.slot
<1>1. /\ mbox' = mbox /\ worker.pc = "store" /\ worker'.pc = "run" /\ want' = want \ {t}
      /\ cnt' = [cnt EXCEPT ![t] = (worker.loaded - 1) % 256]
  BY StoreType
<1>2. t \in Slots /\ worker.msg = Static(t) /\ cnt \in [Slots -> 0 .. 255]
  BY <1>1, WorkerFields DEF Holding
<1> HIDE DEF t
<1>3. ~Held(s)' BY <1>1 DEF Held, Holding
<1>4. InMbox(s)' <=> InMbox(s) BY <1>1 DEF InMbox
<1>5. \A i, j \in 1 .. Len(mbox') : mbox'[i] = Static(s) /\ mbox'[j] = Static(s) => i = j
  BY <1>1 DEF OneSlot
<1>6. CASE s = t
  <2>1. Held(s) BY <1>1, <1>2, <1>6 DEF Held, Holding
  <2>2. ~InMbox(s) /\ worker.loaded = 1 BY <1>1, <2>1 DEF OneSlot
  <2>3. cnt'[s] = 0
    <3>1. (1 - 1) % 256 = 0 OBVIOUS
    <3>2. QED BY <1>1, <1>2, <1>6, <2>2, <3>1
  <2>4. QED BY <1>1, <1>3, <1>4, <1>5, <1>6, <2>2, <2>3 DEF OneSlot
<1>7. CASE s # t
  <2>1. ~Held(s) BY <1>2, <1>7, StaticsDiffer DEF Held
  <2>2. cnt'[s] = cnt[s] /\ (s \in want' => s \in want) BY <1>1, <1>2, <1>7
  <2>3. QED BY <1>3, <1>4, <1>5, <2>1, <2>2 DEF OneSlot
<1>8. QED BY <1>6, <1>7

LEMMA NextSlotInv == TypeInv /\ SlotInv /\ [Next]_vars => SlotInv'
<1> SUFFICES ASSUME TypeInv, SlotInv, [Next]_vars, NEW s \in Slots \ Shared PROVE OneSlot(s)'
  BY DEF SlotInv
<1>0. OneSlot(s) BY DEF SlotInv
<1>1. CASE \E t \in Slots : IsrPost(t) BY <1>0, <1>1, IsrPostSlot
<1>2. CASE \E c \in Callers : \/ tls_wl_task_callback_static(c) \/ tls_wl_task_callback(c)
                              \/ tls_wl_task_add_timeout(c) \/ tls_wl_task_untimeout(c)
                              \/ Step(c)
  <2>1. PICK c \in Callers : \/ tls_wl_task_callback_static(c) \/ tls_wl_task_callback(c)
                             \/ tls_wl_task_add_timeout(c) \/ tls_wl_task_untimeout(c)
                             \/ Step(c)
    BY <1>2
  <2>2. CASE Send(c) BY <1>0, <2>2, SendSlot
  <2>3. CASE ~Send(c)
    <3>1. UNCHANGED <<mbox, worker, want>> /\ cnt'[s] = cnt[s]
      BY <2>1, <2>3, BeginType, CntType DEF Step
    <3>2. Held(s)' <=> Held(s) BY <3>1 DEF Held
    <3>3. QED BY <1>0, <3>1, <3>2, SlotFrame DEF OneSlot
  <2>4. QED BY <2>2, <2>3
<1>3. CASE task_thread
  <2>1. CASE Receive BY <1>0, <2>1, ReceiveSlot
  <2>2. CASE Store BY <1>0, <2>2, StoreSlot
  <2>3. CASE Expire \/ ArmOrCancel \/ FunReturns
    <3>1. UNCHANGED <<mbox, cnt, want>> /\ worker.pc \notin Holding /\ worker'.pc \notin Holding
      BY <2>3, ArmOrCancelType, ReturnType, FetchingType DEF Expire, Holding, WorkerRec
    <3>2. ~Held(s) /\ ~Held(s)' BY <3>1 DEF Held
    <3>3. QED BY <1>0, <3>1, <3>2, SlotFrame
  <2>4. CASE ReadSlot \/ Load
    <3>1. /\ UNCHANGED <<mbox, cnt, want>> /\ worker'.msg = worker.msg
          /\ worker.pc \in {"read", "load"} /\ worker'.pc \in {"load", "store"}
          /\ worker'.pc = "store" => worker'.loaded = cnt[worker.msg.slot]
      BY <2>4, ReadLoadType
    <3>2. Held(s)' <=> Held(s) BY <3>1 DEF Held, Holding
    <3>3. Held(s) => worker.msg.slot = s BY MsgFields DEF Held
    <3>4. Held(s) => cnt[s] = 1 BY <1>0 DEF OneSlot
    <3>5. QED BY <1>0, <3>1, <3>2, <3>3, <3>4, SlotFrame
  <2>5. QED BY <1>3, <2>1, <2>2, <2>3, <2>4 DEF task_thread
<1>4. CASE Tick \/ UNCHANGED vars
  <2>1. UNCHANGED <<mbox, cnt, worker, want>> BY <1>4 DEF Tick, vars
  <2>2. Held(s)' <=> Held(s) BY <2>1 DEF Held
  <2>3. QED BY <1>0, <2>1, <2>2, SlotFrame DEF OneSlot
<1>5. QED BY <1>1, <1>2, <1>3, <1>4 DEF Next

LEMMA InitSlotInv == Init => SlotInv
<1> SUFFICES ASSUME Init, NEW s \in Slots \ Shared PROVE OneSlot(s)
  BY DEF SlotInv
<1>1. Len(mbox) = 0 /\ cnt[s] = 0 /\ want = {} /\ worker.pc = "fetch"
  BY FetchingType DEF Init
<1>2. ~InMbox(s) /\ ~Held(s) BY <1>1 DEF InMbox, Held, Holding
<1>3. QED BY <1>1, <1>2 DEF OneSlot

LEMMA SlotsSound == TypeInv /\ SlotInv => StaticSound
<1> SUFFICES ASSUME TypeInv, SlotInv PROVE StaticSound
  OBVIOUS
<1>1. TypeOK BY DEF TypeInv
<1>2. RunToCome
  BY <1>1 DEF RunToCome, SlotInv, OneSlot, InMbox, Held, Holding, TypeOK
<1>3. CntExact
  <2> SUFFICES ASSUME NEW s \in Slots \ Shared
               PROVE  cnt[s] = Cardinality({i \in 1 .. Len(mbox) : mbox[i] = Static(s)})
                               + (IF Held(s) THEN 1 ELSE 0)
    BY DEF CntExact, Held, Holding
  <2> DEFINE P == {i \in 1 .. Len(mbox) : mbox[i] = Static(s)}
  <2>0. OneSlot(s) BY DEF SlotInv
  <2>1. CASE InMbox(s)
    <3>1. PICK i \in 1 .. Len(mbox) : mbox[i] = Static(s) BY <2>1 DEF InMbox
    <3>2. P = {i} BY <2>0, <3>1 DEF OneSlot
    <3>3. Cardinality(P) = 1 BY <3>2, FS_Singleton
    <3>4. QED BY <2>0, <2>1, <3>3 DEF OneSlot
  <2>2. CASE ~InMbox(s)
    <3>1. P = {} BY <2>2 DEF InMbox
    <3>2. Cardinality(P) = 0 BY <3>1, FS_EmptySet
    <3> HIDE DEF P
    <3>3. QED BY <2>0, <2>2, <3>2 DEF OneSlot, P
  <2>3. QED BY <2>1, <2>2
<1>4. QED BY <1>1, <1>2, <1>3 DEF StaticSound

\* No static callback is lost or run twice: for any tasks, slots and mailbox, cnt of a
\* slot that only interrupt handlers post counts the message in the mailbox or at the
\* worker, so that an interrupt handler refused by tls_wl_task_callback_static still
\* gets its run.
THEOREM StaticCallbacksSound == Spec => []StaticSound
<1>1. Init => TypeInv /\ SlotInv BY InitTypeInv, InitSlotInv
<1>2. TypeInv /\ SlotInv /\ [Next]_vars => (TypeInv /\ SlotInv)' BY NextTypeInv, NextSlotInv
<1>3. TypeInv /\ SlotInv => StaticSound BY SlotsSound
<1>4. QED BY <1>1, <1>2, <1>3, PTL DEF Spec

-----------------------------------------------------------------------------
(* Timeouts. *)

\* What is left of the way to a timeout that is u away in the list, when the worker has
\* been waiting for w ticks.
Ahead(w, u) == IF w * TickMs < u THEN u - w * TickMs ELSE 0

\* The list promises each timeout what it is owed, but for less than a tick for every
\* one that expired before it.
EarlyInv == \A k \in 1 .. Len(timers) :
              timers[k].owed <= Ahead(waited, Until(timers)[k]) + (TickMs - 1) * timers[k].behind

\* The times of a list, as the proofs below use them.
LEMMA Sums1 ==
  ASSUME NEW l \in Seq(Entry)
  PROVE  /\ Len(l) \in Nat
         /\ \A k \in 1 .. Len(l) : Until(l)[k] \in Nat
         /\ l # <<>> => 1 \in 1 .. Len(l) /\ Head(l) = l[1] /\ Until(l)[1] = l[1].time
         /\ l # <<>> => \A k \in 1 .. Len(l) : Until(l)[1] <= Until(l)[k]
<1>1. Len(l) \in Nat /\ \A k \in 1 .. Len(l) : l[k].time \in Nat
  BY Lists
<1>2. /\ Until(l) \in [0 .. Len(l) -> Nat] /\ Until(l)[0] = 0
      /\ \A k \in 1 .. Len(l) : Until(l)[k] = Until(l)[k - 1] + l[k].time
  BY <1>1, UntilSum
<1>3. \A k \in 1 .. Len(l) : Until(l)[k] \in Nat
  BY <1>1, <1>2
<1>4. ASSUME l # <<>> PROVE 1 \in 1 .. Len(l) /\ Head(l) = l[1] /\ Until(l)[1] = l[1].time
  <2>1. 1 \in 1 .. Len(l) /\ Head(l) = l[1] BY <1>4, <1>1
  <2>2. Until(l)[1] = Until(l)[1 - 1] + l[1].time BY <2>1, <1>2
  <2>3. Until(l)[1 - 1] = 0 BY <1>2
  <2>4. l[1].time \in Nat BY <2>1, <1>1
  <2>5. QED BY <2>1, <2>2, <2>3, <2>4
<1>5. ASSUME l # <<>> PROVE \A k \in 1 .. Len(l) : Until(l)[1] <= Until(l)[k]
  <2>1. 1 \in 0 .. Len(l) BY <1>4, <1>5, <1>1
  <2>2. QED BY <2>1, <1>1, UntilMonotonic
<1>6. QED BY <1>1, <1>3, <1>4, <1>5

LEMMA TickAssumption == TickMs \in Nat /\ TickMs > 0
BY WlAssumption

LEMMA Products == \A a, b \in Nat : a * b \in Nat
OBVIOUS

LEMMA AheadBounds ==
  ASSUME waited \in Nat, NEW u \in Nat
  PROVE  /\ Ahead(waited, u) \in Nat /\ Ahead(waited, u) <= u /\ waited * TickMs \in Nat
         /\ Ahead(waited, u) = IF waited * TickMs < u THEN u - waited * TickMs ELSE 0
         /\ waited = 0 => Ahead(waited, u) = u
<1>1. waited * TickMs \in Nat BY TickAssumption, Products
<1>2. waited = 0 => waited * TickMs = 0 BY TickAssumption
<1>3. QED BY <1>1, <1>2 DEF Ahead

LEMMA LostType ==
  ASSUME NEW b \in Nat
  PROVE  (TickMs - 1) * b \in Nat /\ (TickMs - 1) * (b + 1) = (TickMs - 1) * b + (TickMs - 1)
         /\ TickMs - 1 \in Nat /\ (TickMs - 1) * 0 = 0
<1>1. TickMs - 1 \in Nat BY TickAssumption
<1>2. \A a \in Nat : a * b \in Nat /\ a * (b + 1) = a * b + a /\ a * 0 = 0 OBVIOUS
<1>3. QED BY <1>1, <1>2

\* A wait that has timed out has lasted for all but less than a tick of the time asked.
LEMMA WaitedEnough ==
  ASSUME TypeInv, Expire, NEW u \in Nat, Until(timers)[1] <= u
  PROVE  Ahead(waited, u) <= (u - Until(timers)[1]) + (TickMs - 1)
<1> DEFINE f == Until(timers)[1]
           w == waited * TickMs
<1>1. timers \in Seq(Entry) /\ waited \in Nat /\ timers # <<>> BY WorkerFields DEF Expire
<1>2. f \in Nat /\ Head(timers).time = f BY <1>1, Sums1
<1>3. /\ Ahead(waited, u) \in Nat /\ Ahead(waited, u) <= u /\ w \in Nat
      /\ Ahead(waited, u) = IF w < u THEN u - w ELSE 0
  BY <1>1, AheadBounds
<1>4. CASE Overdue
  BY <1>2, <1>3, <1>4, TickAssumption DEF Overdue
<1>5. CASE TimedOut
  <2>1. Ticks(f) > 0 /\ waited >= Ticks(f) BY <1>2, <1>5 DEF TimedOut
  <2> HIDE DEF f
  <2>2. Ticks(f) \in Nat /\ Ticks(f) * TickMs > f - TickMs
    <3>1. f \div TickMs \in Nat /\ (f \div TickMs) * TickMs > f - TickMs
      BY <1>2, TickAssumption
    <3>2. f > 0 /\ f \div TickMs = 0 => 1 * TickMs > f - TickMs
      BY <1>2, <3>1, TickAssumption
    <3>3. QED BY <3>1, <3>2 DEF Ticks
  <2>3. Ticks(f) * TickMs <= waited * TickMs
    <3>1. \A a, b, c \in Nat : a <= b => a * c <= b * c OBVIOUS
    <3>2. QED BY <3>1, <2>1, <2>2, <1>1, TickAssumption
  <2>4. Ticks(f) * TickMs \in Nat BY <2>2, TickAssumption, Products
  <2> HIDE DEF w
  <2>5. w > f - TickMs BY <2>2, <2>3, <2>4, <1>2, TickAssumption, <1>3 DEF w
  <2>6. f <= u BY DEF f
  <2>7. Ahead(waited, u) <= (u - f) + (TickMs - 1)
    BY <1>2, <1>3, <2>5, <2>6, TickAssumption
  <2>8. QED BY <2>7 DEF f
<1>6. QED BY <1>4, <1>5 DEF Expire

LEMMA EarlyTypes ==
  ASSUME TypeInv, NEW k \in 1 .. Len(timers)
  PROVE  /\ timers[k].owed \in Nat /\ timers[k].behind \in Nat /\ Until(timers)[k] \in Nat
         /\ Ahead(waited, Until(timers)[k]) \in Nat /\ (TickMs - 1) * timers[k].behind \in Nat
BY WorkerFields, Lists, Sums1, AheadBounds, LostType

\* Steps that leave the list and the wait alone.
LEMMA EarlyFrame == EarlyInv /\ UNCHANGED <<timers, waited>> => EarlyInv'
BY DEF EarlyInv, Ahead

LEMMA TickEarly == ASSUME TypeInv, EarlyInv, Tick PROVE EarlyInv'
<1> SUFFICES ASSUME NEW k \in 1 .. Len(timers')
             PROVE  timers'[k].owed <= Ahead(waited', Until(timers')[k]) + (TickMs - 1) * timers'[k].behind
  BY DEF EarlyInv
<1>1. /\ k \in 1 .. Len(timers) /\ timers'[k].owed = Less(timers[k].owed)
      /\ timers'[k].behind = timers[k].behind /\ Until(timers')[k] = Until(timers)[k]
      /\ waited' = waited \/ waited' = waited + 1
  BY TickList
<1>2. waited \in Nat /\ waited' \in Nat BY <1>1, WorkerFields
<1> DEFINE u == Until(timers)[k]
           o == timers[k].owed
           b == (TickMs - 1) * timers[k].behind
           w == waited * TickMs
           v == waited' * TickMs
<1>3. o \in Nat /\ u \in Nat /\ b \in Nat BY <1>1, EarlyTypes
<1>4. w \in Nat /\ (v = w \/ v = w + TickMs)
  <2>1. (waited + 1) * TickMs = waited * TickMs + TickMs BY <1>2, TickAssumption
  <2>2. QED BY <1>1, <1>2, <2>1, AheadBounds, TickAssumption, Products
<1>5. o <= (IF w < u THEN u - w ELSE 0) + b
  BY <1>1 DEF EarlyInv, Ahead
<1>6. Ahead(waited', Until(timers')[k]) = IF v < u THEN u - v ELSE 0
  BY <1>1 DEF Ahead
<1>7. Less(o) = IF o < TickMs THEN 0 ELSE o - TickMs BY DEF Less
<1> HIDE DEF u, o, b, w, v
<1>8. Less(o) <= (IF v < u THEN u - v ELSE 0) + b
  BY <1>3, <1>4, <1>5, <1>7, TickAssumption
<1>9. QED BY <1>1, <1>6, <1>8 DEF o, b

LEMMA ReceiveEarly == ASSUME TypeInv, EarlyInv, Receive PROVE EarlyInv'
<1>1. timers \in Seq(Entry) /\ waited \in Nat /\ timers' = Elapsed(timers) /\ waited' = 0
  BY WorkerFields DEF Receive
<1>2. CASE timers = <<>>
  <2>1. Len(timers') = 0 BY <1>1, <1>2 DEF Elapsed
  <2>2. QED BY <2>1 DEF EarlyInv
<1>3. CASE timers # <<>>
  <2>1. /\ Len(timers') = Len(timers)
        /\ \A k \in 1 .. Len(timers) : timers'[k].owed = timers[k].owed /\ timers'[k].behind = timers[k].behind
    BY <1>1, <1>3, ElapsedUntil
  <2>2. PICK d \in 0 .. timers[1].time :
          d <= waited * TickMs /\ \A k \in 1 .. Len(timers) : Until(timers')[k] = Until(timers)[k] - d
    BY <1>1, <1>3, ElapsedUntil
  <2> SUFFICES ASSUME NEW k \in 1 .. Len(timers)
               PROVE  timers'[k].owed <= Ahead(waited', Until(timers')[k]) + (TickMs - 1) * timers'[k].behind
    BY <2>1 DEF EarlyInv
  <2> DEFINE u == Until(timers)[k]
             o == timers[k].owed
             b == (TickMs - 1) * timers[k].behind
             w == waited * TickMs
  <2>3. /\ o \in Nat /\ u \in Nat /\ b \in Nat BY EarlyTypes
  <2>4. timers[1].time \in Nat /\ timers[1].time <= u
    BY <1>1, <1>3, Sums1
  <2>5. o <= (IF w < u THEN u - w ELSE 0) + b BY DEF EarlyInv, Ahead
  <2>6. w \in Nat BY <1>1, <2>3, AheadBounds
  <2>7. d \in Nat /\ d <= w /\ d <= u /\ u - d \in Nat BY <2>2, <2>3, <2>4
  <2>8. Ahead(waited', Until(timers')[k]) = u - d
    <3>1. 0 * TickMs = 0 BY TickAssumption
    <3>2. Until(timers')[k] = u - d BY <2>2
    <3>3. Ahead(waited', Until(timers')[k]) = IF 0 < u - d THEN (u - d) - 0 ELSE 0
      BY <1>1, <3>1, <3>2 DEF Ahead
    <3> HIDE DEF u
    <3>4. QED BY <3>3, <2>7
  <2>9. timers'[k].owed = o /\ (TickMs - 1) * timers'[k].behind = b BY <2>1
  <2> HIDE DEF u, o, b, w
  <2>10. o <= (u - d) + b BY <2>3, <2>5, <2>6, <2>7
  <2>11. QED BY <2>8, <2>9, <2>10
<1>4. QED BY <1>2, <1>3

LEMMA ExpireEarly == ASSUME TypeInv, EarlyInv, Expire PROVE EarlyInv'
<1>1. timers \in Seq(Entry) /\ waited \in Nat /\ waited' = 0 /\ timers # <<>>
  BY WorkerFields DEF Expire
<1> SUFFICES ASSUME NEW k \in 1 .. Len(timers')
             PROVE  timers'[k].owed <= Ahead(waited', Until(timers')[k]) + (TickMs - 1) * timers'[k].behind
  BY DEF EarlyInv
<1>2. k \in 1 .. Len(timers) - 1 /\ k + 1 \in 1 .. Len(timers)
  BY <1>1, ExpireList, Lists
<1>3. /\ timers'[k].owed = timers[k + 1].owed /\ timers'[k].behind = timers[k + 1].behind + 1
      /\ Until(timers')[k] = Until(timers)[k + 1] - Until(timers)[1]
  BY <1>2, ExpireList
<1> DEFINE u == Until(timers)[k + 1]
           f == Until(timers)[1]
           o == timers[k + 1].owed
           g == timers[k + 1].behind
           b == (TickMs - 1) * g
<1>4. o \in Nat /\ u \in Nat /\ g \in Nat /\ b \in Nat /\ Ahead(waited, u) \in Nat BY <1>2, EarlyTypes
<1>5. f \in Nat /\ f <= u BY <1>1, <1>2, Sums1
<1>6. o <= Ahead(waited, u) + b BY <1>2 DEF EarlyInv
<1>7. Ahead(waited, u) <= (u - f) + (TickMs - 1) BY <1>4, <1>5, WaitedEnough
<1>8. Ahead(waited', Until(timers')[k]) = u - f
  <2>1. 0 * TickMs = 0 BY TickAssumption
  <2>2. Ahead(waited', Until(timers')[k]) = IF 0 < u - f THEN (u - f) - 0 ELSE 0
    BY <1>1, <1>3, <2>1 DEF Ahead
  <2> HIDE DEF u, f
  <2>3. QED BY <2>2, <1>4, <1>5
<1>9. (TickMs - 1) * (g + 1) = b + (TickMs - 1) BY <1>4, LostType
<1>10. timers'[k].owed = o /\ timers'[k].behind = g + 1 BY <1>3
<1> HIDE DEF u, f, o, g, b
<1>11. o <= (u - f) + (b + (TickMs - 1)) BY <1>4, <1>5, <1>6, <1>7, TickAssumption
<1>12. QED BY <1>8, <1>9, <1>10, <1>11

LEMMA ArmOrCancelEarly == ASSUME TypeInv, EarlyInv, ArmOrCancel PROVE EarlyInv'
<1>1. timers \in Seq(Entry) /\ Len(timers) \in Nat /\ waited = 0 /\ waited' = 0 /\ TypeInv'
  BY WorkerFields, Lists, ArmOrCancelType
<1>2. \A k \in 1 .. Len(timers) : timers[k].owed <= Until(timers)[k] + (TickMs - 1) * timers[k].behind
  <2> SUFFICES ASSUME NEW k \in 1 .. Len(timers)
               PROVE  timers[k].owed <= Until(timers)[k] + (TickMs - 1) * timers[k].behind
    OBVIOUS
  <2>1. Until(timers)[k] \in Nat BY <1>1, Sums1
  <2>2. Ahead(waited, Until(timers)[k]) = Until(timers)[k] BY <1>1, <2>1, AheadBounds
  <2>3. QED BY <2>2 DEF EarlyInv
<1>3. SUFFICES ASSUME NEW k \in 1 .. Len(timers')
               PROVE  timers'[k].owed <= Until(timers')[k] + (TickMs - 1) * timers'[k].behind
  <2> SUFFICES ASSUME NEW k \in 1 .. Len(timers')
               PROVE  timers'[k].owed <= Ahead(waited', Until(timers')[k]) + (TickMs - 1) * timers'[k].behind
    BY DEF EarlyInv
  <2>1. timers' \in Seq(Entry) BY <1>1, ArmOrCancelList
  <2>2. Until(timers')[k] \in Nat BY <2>1, Sums1
  <2>3. Ahead(waited', Until(timers')[k]) = Until(timers')[k]
    <3>1. 0 * TickMs = 0 BY TickAssumption
    <3>2. Ahead(waited', Until(timers')[k]) = IF 0 < Until(timers')[k] THEN Until(timers')[k] - 0 ELSE 0
      BY <1>1, <3>1 DEF Ahead
    <3>3. QED BY <2>2, <3>2
  <2>4. QED BY <2>3
<1>4. CASE UNCHANGED timers BY <1>2, <1>4
<1>5. CASE \E h \in Handlers, ms \in Times : Armed(h, ms)
  <2>1. PICK h \in Handlers, ms \in Times : Armed(h, ms) BY <1>5
  <2>2. PICK p \in 0 .. Len(timers) :
          /\ Len(timers') = Len(timers) + 1
          /\ \A i \in 1 .. Len(timers) + 1 :
               /\ i <= p => timers'[i].owed = timers[i].owed /\ timers'[i].behind = timers[i].behind
                            /\ Until(timers')[i] = Until(timers)[i]
               /\ i = p + 1 => timers'[i].owed = ms /\ timers'[i].behind = 0
                               /\ Until(timers')[i] = ms
               /\ i > p + 1 => timers'[i].owed = timers[i - 1].owed
                               /\ timers'[i].behind = timers[i - 1].behind
                               /\ Until(timers')[i] = Until(timers)[i - 1]
    BY <2>1 DEF Armed
  <2>3. k \in 1 .. Len(timers) + 1 BY <2>2
  <2>4. CASE k <= p
    <3>1. k \in 1 .. Len(timers) BY <1>1, <2>4
    <3>2. QED BY <1>2, <2>2, <2>3, <2>4, <3>1
  <2>5. CASE k = p + 1
    <3>1. ms \in Nat /\ (TickMs - 1) * 0 = 0 BY WlAssumption, LostType
    <3>2. QED BY <2>2, <2>3, <2>5, <3>1
  <2>6. CASE k > p + 1
    <3>1. k - 1 \in 1 .. Len(timers) BY <1>1, <2>3, <2>6
    <3>2. QED BY <1>2, <2>2, <2>3, <2>6, <3>1
  <2>7. QED BY <2>3, <2>4, <2>5, <2>6, <1>1
<1>6. CASE \E h \in Handlers : Cancelled(h)
  <2>1. PICK h \in Handlers : Cancelled(h) BY <1>6
  <2>2. PICK p \in 1 .. Len(timers) :
          /\ Len(timers') = Len(timers) - 1
          /\ \A i \in 1 .. Len(timers) - 1 :
               /\ i < p => timers'[i].owed = timers[i].owed /\ timers'[i].behind = timers[i].behind
                           /\ Until(timers')[i] = Until(timers)[i]
               /\ i >= p => timers'[i].owed = timers[i + 1].owed
                            /\ timers'[i].behind = timers[i + 1].behind
                            /\ Until(timers')[i] = Until(timers)[i + 1]
    BY <2>1 DEF Cancelled
  <2>3. /\ k \in 1 .. Len(timers) - 1 /\ k \in 1 .. Len(timers) /\ k + 1 \in 1 .. Len(timers)
        /\ k < p \/ k >= p
    BY <1>1, <2>2
  <2>4. QED BY <1>2, <2>2, <2>3
<1>7. QED BY <1>4, <1>5, <1>6, ArmOrCancelList

LEMMA NextEarlyInv == TypeInv /\ EarlyInv /\ [Next]_vars => EarlyInv'
<1> SUFFICES ASSUME TypeInv, EarlyInv, [Next]_vars PROVE EarlyInv'
  OBVIOUS
<1>1. CASE UNCHANGED <<timers, waited>> BY <1>1, EarlyFrame
<1>2. CASE Receive BY <1>2, ReceiveEarly
<1>3. CASE Expire BY <1>3, ExpireEarly
<1>4. CASE ArmOrCancel BY <1>4, ArmOrCancelEarly
<1>5. CASE Tick BY <1>5, TickEarly
<1>6. UNCHANGED <<timers, waited>> \/ Receive \/ Expire \/ ArmOrCancel \/ Tick
  <2>1. CASE \E s \in Slots : IsrPost(s) BY <2>1 DEF IsrPost
  <2>2. CASE \E c \in Callers : \/ tls_wl_task_callback_static(c) \/ tls_wl_task_callback(c)
                                \/ tls_wl_task_add_timeout(c) \/ tls_wl_task_untimeout(c)
                                \/ Step(c)
    <3>1. PICK c \in Callers : \/ tls_wl_task_callback_static(c) \/ tls_wl_task_callback(c)
                               \/ tls_wl_task_add_timeout(c) \/ tls_wl_task_untimeout(c)
                               \/ Step(c)
      BY <2>2
    <3>2. QED BY <3>1, BeginType, CntType DEF Step, Send
  <2>3. CASE task_thread
    BY <2>3, ReadLoadType, StoreType, ReturnType DEF task_thread
  <2>4. CASE UNCHANGED vars BY <2>4 DEF vars
  <2>5. QED BY <2>1, <2>2, <2>3, <2>4 DEF Next
<1>7. QED BY <1>1, <1>2, <1>3, <1>4, <1>5, <1>6

\* A timeout fires no earlier than was asked for, but for less than a tick for it and
\* for each timeout that expired before it: for any times, tick and calls.
THEOREM TimeoutsNeverEarly == Spec => NeverEarly
<1>1. Init => TypeInv /\ EarlyInv
  <2>1. Init => EarlyInv BY DEF Init, EarlyInv
  <2>2. QED BY <2>1, InitTypeInv
<1>2. TypeInv /\ EarlyInv /\ [Next]_vars => (TypeInv /\ EarlyInv)' BY NextTypeInv, NextEarlyInv
<1>3. TypeInv /\ EarlyInv /\ [Next]_vars
      => [Expire => Head(timers).owed <= (TickMs - 1) * (Head(timers).behind + 1)]_vars
  <2> SUFFICES ASSUME TypeInv, EarlyInv, Expire
               PROVE  Head(timers).owed <= (TickMs - 1) * (Head(timers).behind + 1)
    OBVIOUS
  <2> DEFINE e == timers[1]
             f == Until(timers)[1]
             b == (TickMs - 1) * e.behind
  <2>1. timers \in Seq(Entry) /\ timers # <<>> BY WorkerFields DEF Expire
  <2>2. 1 \in 1 .. Len(timers) /\ Head(timers) = e BY <2>1, Sums1
  <2>3. e.owed \in Nat /\ e.behind \in Nat /\ f \in Nat /\ Ahead(waited, f) \in Nat /\ b \in Nat
    BY <2>2, EarlyTypes
  <2>4. e.owed <= Ahead(waited, f) + b BY <2>2 DEF EarlyInv
  <2>5. Ahead(waited, f) <= (f - f) + (TickMs - 1) BY <2>3, WaitedEnough
  <2>6. (TickMs - 1) * (e.behind + 1) = b + (TickMs - 1) BY <2>3, LostType
  <2> HIDE DEF e, f, b
  <2>7. e.owed <= b + (TickMs - 1) BY <2>3, <2>4, <2>5, TickAssumption
  <2>8. QED BY <2>2, <2>6, <2>7
<1>4. QED BY <1>1, <1>2, <1>3, PTL DEF Spec, NeverEarly

-----------------------------------------------------------------------------
(* The list implements the queue of TimerQueue. *)

Running == worker.pc = "run" /\ worker.msg = NoMsg
Item == [h : Handlers, left : Nat]

\* The queue that a list stands for.
QueueOf(l) == [i \in 1 .. Len(l) |-> [h |-> l[i].h, left |-> Until(l)[i]]]

LEMMA QueueItems ==
  ASSUME NEW l \in Seq(Entry)
  PROVE  /\ QueueOf(l) \in Seq(Item) /\ Len(QueueOf(l)) = Len(l) /\ Len(l) \in Nat
         /\ \A i \in 1 .. Len(l) : QueueOf(l)[i] = [h |-> l[i].h, left |-> Until(l)[i]]
         /\ l # <<>> => QueueOf(l) # <<>> /\ Head(QueueOf(l)) = QueueOf(l)[1]
                        /\ Head(QueueOf(l)).left = l[1].time
<1> DEFINE q == QueueOf(l)
<1>1. /\ Len(l) \in Nat /\ \A i \in 1 .. Len(l) : l[i].h \in Handlers /\ Until(l)[i] \in Nat
      /\ l # <<>> => 1 \in 1 .. Len(l) /\ Until(l)[1] = l[1].time
  BY Lists, Sums1
<1>2. \A i \in 1 .. Len(l) : q[i] = [h |-> l[i].h, left |-> Until(l)[i]] /\ q[i] \in Item
  BY <1>1 DEF QueueOf, Item
<1>3. q \in [1 .. Len(l) -> Item]
  BY <1>2 DEF QueueOf
<1> HIDE DEF q
<1>4. q \in Seq(Item) /\ Len(q) = Len(l) BY <1>1, <1>3
<1>5. ASSUME l # <<>> PROVE q # <<>> /\ Head(q) = q[1] /\ Head(q).left = l[1].time
  <2>1. 1 \in 1 .. Len(l) BY <1>1, <1>5
  <2>2. q # <<>> /\ Head(q) = q[1] BY <1>4, <2>1
  <2>3. q[1] = [h |-> l[1].h, left |-> Until(l)[1]] BY <1>2, <2>1
  <2>4. q[1].left = Until(l)[1] BY <2>3
  <2>5. QED BY <1>1, <1>5, <2>2, <2>4
<1>6. QED BY <1>1, <1>2, <1>4, <1>5 DEF q

LEMMA QueueIs == Queue = QueueOf(timers) /\ Queue' = QueueOf(timers')
BY DEF Queue, QueueOf

LEMMA ReceivePass ==
  ASSUME TypeInv, Receive, timers # <<>>
  PROVE  \E d \in 0 .. Head(Queue).left : Queue' = Q!Closer(Queue, d)
<1> DEFINE N == Len(timers)
           q == QueueOf(timers)
           r == QueueOf(timers')
<1>1. timers \in Seq(Entry) /\ waited \in Nat /\ timers' = Elapsed(timers)
  BY WorkerFields DEF Receive
<1>2. timers' \in Seq(Entry) /\ Len(timers') = N /\ \A k \in 1 .. N : timers'[k].h = timers[k].h
  BY <1>1, ElapsedUntil
<1>3. PICK d \in 0 .. timers[1].time : \A k \in 1 .. N : Until(timers')[k] = Until(timers)[k] - d
  BY <1>1, ElapsedUntil
<1>4. /\ Head(q).left = timers[1].time /\ Len(q) = N
      /\ \A i \in 1 .. N : q[i] = [h |-> timers[i].h, left |-> Until(timers)[i]]
  BY <1>1, QueueItems
<1>5. r = [i \in 1 .. N |-> [h |-> timers'[i].h, left |-> Until(timers')[i]]]
  BY <1>2 DEF QueueOf
<1> HIDE DEF N, q, r
<1>6. Q!Closer(q, d) = [i \in 1 .. N |-> [q[i] EXCEPT !.left = q[i].left - d]]
  BY <1>4 DEF Q!Closer
<1>7. \A i \in 1 .. N : [h |-> timers'[i].h, left |-> Until(timers')[i]] = [q[i] EXCEPT !.left = q[i].left - d]
  BY <1>2, <1>3, <1>4
<1>8. r = Q!Closer(q, d) BY <1>5, <1>6, <1>7
<1>9. QED BY <1>4, <1>8, QueueIs DEF q, r

LEMMA ExpireFire ==
  ASSUME TypeInv, Expire
  PROVE  Queue # <<>> /\ Queue' = Q!Closer(Tail(Queue), Head(Queue).left)
<1> DEFINE N == Len(timers)
           q == QueueOf(timers)
           r == QueueOf(timers')
           f == Until(timers)[1]
<1>1. timers \in Seq(Entry) /\ timers # <<>>
  BY WorkerFields DEF Expire
<1>2. /\ Len(timers') = N - 1
      /\ \A k \in 1 .. N - 1 : timers'[k].h = timers[k + 1].h
                               /\ Until(timers')[k] = Until(timers)[k + 1] - f
  BY ExpireList
<1>3. /\ q \in Seq(Item) /\ q # <<>> /\ Head(q).left = f /\ Len(q) = N /\ N \in Nat
      /\ \A i \in 1 .. N : q[i] = [h |-> timers[i].h, left |-> Until(timers)[i]]
  BY <1>1, QueueItems, Sums1
<1>4. r = [i \in 1 .. N - 1 |-> [h |-> timers'[i].h, left |-> Until(timers')[i]]]
  BY <1>2 DEF QueueOf
<1> HIDE DEF N, q, r, f
<1>5. Len(Tail(q)) = N - 1 /\ \A i \in 1 .. N - 1 : Tail(q)[i] = q[i + 1] /\ i + 1 \in 1 .. N
  BY <1>3
<1>6. Q!Closer(Tail(q), f) = [i \in 1 .. N - 1 |-> [Tail(q)[i] EXCEPT !.left = Tail(q)[i].left - f]]
  BY <1>5 DEF Q!Closer
<1>7. \A i \in 1 .. N - 1 : [h |-> timers'[i].h, left |-> Until(timers')[i]]
                            = [Tail(q)[i] EXCEPT !.left = Tail(q)[i].left - f]
  <2> SUFFICES ASSUME NEW i \in 1 .. N - 1
               PROVE  [h |-> timers'[i].h, left |-> Until(timers')[i]]
                      = [Tail(q)[i] EXCEPT !.left = Tail(q)[i].left - f]
    OBVIOUS
  <2>1. Tail(q)[i] = [h |-> timers[i + 1].h, left |-> Until(timers)[i + 1]] BY <1>3, <1>5
  <2>2. timers'[i].h = timers[i + 1].h /\ Until(timers')[i] = Until(timers)[i + 1] - f BY <1>2
  <2> DEFINE x == Tail(q)[i]
             a == timers[i + 1].h
             b == Until(timers)[i + 1]
  <2>3. [h |-> timers'[i].h, left |-> Until(timers')[i]] = [h |-> a, left |-> b - f] BY <2>2
  <2> HIDE DEF x, a, b
  <2>4. x = [h |-> a, left |-> b] BY <2>1 DEF x, a, b
  <2>5. [h |-> a, left |-> b - f] = [x EXCEPT !.left = x.left - f] BY <2>4
  <2>6. QED BY <2>3, <2>5 DEF x
<1>8. r = Q!Closer(Tail(q), f) BY <1>4, <1>6, <1>7
<1>9. QED BY <1>3, <1>8, QueueIs DEF q, r

LEMMA ArmedArms ==
  ASSUME TypeInv, NEW h \in Handlers, NEW ms \in Times, Armed(h, ms)
  PROVE  \E k \in 0 .. Len(Queue) :
           /\ \A i \in 1 .. Len(Queue) : i <= k <=> Queue[i].left <= ms
           /\ Queue' = Q!Insert(Queue, k, [h |-> h, left |-> ms])
<1> DEFINE N == Len(timers)
           q == QueueOf(timers)
           r == QueueOf(timers')
           t == [h |-> h, left |-> ms]
<1>1. PICK p \in 0 .. N :
        /\ \A i \in 1 .. N : i <= p <=> Until(timers)[i] <= ms
        /\ Len(timers') = N + 1
        /\ \A i \in 1 .. N + 1 :
             /\ i <= p => timers'[i].h = timers[i].h /\ Until(timers')[i] = Until(timers)[i]
             /\ i = p + 1 => timers'[i].h = h /\ Until(timers')[i] = ms
             /\ i > p + 1 => timers'[i].h = timers[i - 1].h
                             /\ Until(timers')[i] = Until(timers)[i - 1]
  BY DEF Armed
<1>2. /\ Len(q) = N /\ N \in Nat
      /\ \A i \in 1 .. N : q[i] = [h |-> timers[i].h, left |-> Until(timers)[i]]
  BY WorkerFields, QueueItems
<1>3. r = [i \in 1 .. N + 1 |-> [h |-> timers'[i].h, left |-> Until(timers')[i]]]
  BY <1>1 DEF QueueOf
<1> HIDE DEF N, q, r, t
<1>4. Q!Insert(q, p, t) = [i \in 1 .. N + 1 |-> IF i <= p THEN q[i] ELSE IF i = p + 1 THEN t ELSE q[i - 1]]
  BY <1>2 DEF Q!Insert
<1>5. ASSUME NEW i \in 1 .. N + 1
      PROVE  [h |-> timers'[i].h, left |-> Until(timers')[i]]
             = IF i <= p THEN q[i] ELSE IF i = p + 1 THEN t ELSE q[i - 1]
  <2>1. CASE i <= p
    <3>1. i \in 1 .. N BY <1>2, <2>1
    <3>2. QED BY <1>1, <1>2, <2>1, <3>1
  <2>2. CASE i = p + 1
    <3>1. ~(i <= p) BY <2>2
    <3>2. QED BY <1>1, <2>2, <3>1 DEF t
  <2>3. CASE i > p + 1
    <3>1. i - 1 \in 1 .. N /\ ~(i <= p) /\ i # p + 1 BY <1>2, <2>3
    <3>2. QED BY <1>1, <1>2, <2>3, <3>1
  <2>4. QED BY <2>1, <2>2, <2>3, <1>2
<1>6. r = Q!Insert(q, p, t) BY <1>3, <1>4, <1>5
<1>7. \A i \in 1 .. N : i <= p <=> q[i].left <= ms BY <1>1, <1>2
<1>8. QED BY <1>2, <1>6, <1>7, QueueIs DEF q, r, t

LEMMA CancelledCancels ==
  ASSUME TypeInv, NEW h \in Handlers, Cancelled(h)
  PROVE  \E k \in 1 .. Len(Queue) :
           /\ Queue[k].h = h /\ \A j \in 1 .. k - 1 : Queue[j].h # h
           /\ Queue' = Q!Without(Queue, k)
<1> DEFINE N == Len(timers)
           q == QueueOf(timers)
           r == QueueOf(timers')
<1>1. PICK p \in 1 .. N :
        /\ timers[p].h = h /\ \A j \in 1 .. p - 1 : timers[j].h # h
        /\ Len(timers') = N - 1
        /\ \A i \in 1 .. N - 1 :
             /\ i < p => timers'[i].h = timers[i].h /\ Until(timers')[i] = Until(timers)[i]
             /\ i >= p => timers'[i].h = timers[i + 1].h /\ Until(timers')[i] = Until(timers)[i + 1]
  BY DEF Cancelled
<1>2. /\ Len(q) = N /\ N \in Nat
      /\ \A i \in 1 .. N : q[i] = [h |-> timers[i].h, left |-> Until(timers)[i]]
  BY WorkerFields, QueueItems
<1>3. r = [i \in 1 .. N - 1 |-> [h |-> timers'[i].h, left |-> Until(timers')[i]]]
  BY <1>1 DEF QueueOf
<1> HIDE DEF N, q, r
<1>4. Q!Without(q, p) = [i \in 1 .. N - 1 |-> IF i < p THEN q[i] ELSE q[i + 1]]
  BY <1>2 DEF Q!Without
<1>5. ASSUME NEW i \in 1 .. N - 1
      PROVE  [h |-> timers'[i].h, left |-> Until(timers')[i]] = IF i < p THEN q[i] ELSE q[i + 1]
  <2>1. i \in 1 .. N /\ i + 1 \in 1 .. N /\ (i >= p <=> ~(i < p)) BY <1>2
  <2>2. QED BY <1>1, <1>2, <2>1
<1>6. r = Q!Without(q, p) BY <1>3, <1>4, <1>5
<1>7. q[p].h = h /\ \A j \in 1 .. p - 1 : q[j].h # h
  <2>1. \A j \in 1 .. p - 1 : j \in 1 .. N BY <1>2
  <2>2. QED BY <1>1, <1>2, <2>1
<1>8. QED BY <1>2, <1>6, <1>7, QueueIs DEF q, r

LEMMA StepRefines ==
  ASSUME TypeInv, [Next]_vars
  PROVE  [Q!QNext]_<<Queue, worker.pc = "run" /\ worker.msg = NoMsg>>
<1>1. CASE \E s \in Slots : IsrPost(s)
  <2>1. UNCHANGED <<timers, worker>> BY <1>1 DEF IsrPost
  <2>2. QED BY <2>1 DEF Queue
<1>2. CASE \E c \in Callers : \/ tls_wl_task_callback_static(c) \/ tls_wl_task_callback(c)
                              \/ tls_wl_task_add_timeout(c) \/ tls_wl_task_untimeout(c)
                              \/ Step(c)
  <2>1. UNCHANGED <<timers, worker>> BY <1>2, BeginType, CntType DEF Step, Send
  <2>2. QED BY <2>1 DEF Queue
<1>3. CASE Receive
  <2>1. ~Running /\ ~Running'
    <3>1. worker.pc = "fetch" BY <1>3 DEF Receive
    <3>2. worker'.msg = Head(mbox) /\ Head(mbox) \in Msg
      BY <1>3, FetchingType DEF Receive, WorkerRec, TypeInv, TypeOK
    <3>3. Head(mbox) # NoMsg BY <3>2, MsgFields
    <3>4. QED BY <3>1, <3>2, <3>3 DEF Running
  <2>2. CASE timers = <<>>
    <3>1. timers' = timers BY <1>3, <2>2 DEF Receive, Elapsed
    <3>2. QED BY <3>1, <2>1 DEF Queue, Running
  <2>3. CASE timers # <<>>
    <3>1. Queue # <<>> BY <2>3, WorkerFields, QueueItems, QueueIs
    <3>2. Q!Pass BY <1>3, <2>1, <2>3, <3>1, ReceivePass DEF Q!Pass, Running
    <3>3. QED BY <3>2 DEF Q!QNext
  <2>4. QED BY <2>2, <2>3
<1>4. CASE Expire
  <2>1. worker.pc = "fetch" /\ worker'.pc = "run" /\ worker'.msg = NoMsg
    BY <1>4, FetchingType DEF Expire, WorkerRec
  <2>2. Q!Fire BY <1>4, <2>1, ExpireFire DEF Q!Fire
  <2>3. QED BY <2>2 DEF Q!QNext
<1>5. CASE ReadSlot \/ Load \/ Store
  <2>1. /\ UNCHANGED timers /\ worker.pc \in Holding /\ worker'.msg = worker.msg
    BY <1>5, ReadLoadType, StoreType DEF Holding
  <2>2. worker.msg # NoMsg /\ worker'.msg # NoMsg
    BY <2>1, WorkerFields, MsgFields
  <2>3. QED BY <2>1, <2>2 DEF Queue
<1>6. CASE ArmOrCancel
  <2>1. worker.pc = "arm" /\ worker'.pc = "fetch" BY <1>6, ArmOrCancelType, FetchingType
  <2>2. CASE UNCHANGED timers BY <2>1, <2>2 DEF Queue
  <2>3. CASE \E h \in Handlers, ms \in Times : Armed(h, ms)
    <3>1. PICK h \in Handlers, ms \in Times : Armed(h, ms) BY <2>3
    <3>2. Q!Arm(h, ms) BY <2>1, <3>1, ArmedArms DEF Q!Arm
    <3>3. QED BY <3>2 DEF Q!QNext
  <2>4. CASE \E h \in Handlers : Cancelled(h)
    <3>1. PICK h \in Handlers : Cancelled(h) BY <2>4
    <3>2. Q!Cancel(h) BY <2>1, <3>1, CancelledCancels DEF Q!Cancel
    <3>3. QED BY <3>2 DEF Q!QNext
  <2>5. QED BY <1>6, <2>2, <2>3, <2>4, ArmOrCancelList
<1>7. CASE FunReturns
  <2>1. timers' = timers /\ worker.pc = "run" /\ worker'.pc = "fetch"
    BY <1>7, ReturnType, FetchingType
  <2>2. Queue' = Queue BY <2>1 DEF Queue
  <2>3. CASE worker.msg = NoMsg
    <3>1. Q!Return BY <2>1, <2>2, <2>3 DEF Q!Return
    <3>2. QED BY <3>1 DEF Q!QNext
  <2>4. CASE worker.msg # NoMsg BY <2>1, <2>2, <2>4
  <2>5. QED BY <2>3, <2>4
<1>8. CASE Tick
  <2> DEFINE N == Len(timers)
  <2>1. /\ worker' = worker /\ Len(timers') = N
        /\ \A k \in 1 .. N : timers'[k].h = timers[k].h /\ Until(timers')[k] = Until(timers)[k]
    BY <1>8, TickList
  <2>2. Queue' = Queue
    <3>1. Queue' = [i \in 1 .. N |-> [h |-> timers'[i].h, left |-> Until(timers')[i]]]
      BY <2>1 DEF Queue
    <3>2. Queue = [i \in 1 .. N |-> [h |-> timers[i].h, left |-> Until(timers)[i]]]
      BY DEF Queue
    <3> HIDE DEF N
    <3>3. QED BY <2>1, <3>1, <3>2
  <2>3. QED BY <2>1, <2>2
<1>9. CASE UNCHANGED vars
  BY <1>9 DEF vars, Queue
<1>10. QED BY <1>1, <1>2, <1>3, <1>4, <1>5, <1>6, <1>7, <1>8, <1>9 DEF Next, task_thread

\* The list of relative times (tls_timeout_p, tls_untimeout_p and the wait of task_thread)
\* implements the queue in which every timeout has its own time, for any handlers, times
\* and calls.
THEOREM ImplementsTimerQueue == Spec => RefinesQueue
<1>1. Init => TypeInv /\ Q!QInit
  <2> SUFFICES ASSUME Init PROVE Q!QInit
    BY InitTypeInv
  <2>1. timers = <<>> /\ worker.pc = "fetch" BY FetchingType DEF Init
  <2>2. timers \in Seq(Entry) /\ Len(timers) = 0 BY <2>1
  <2>3. Queue \in Seq(Item) /\ Len(Queue) = 0 BY <2>2, QueueItems, QueueIs
  <2>4. Queue = <<>> BY <2>3
  <2>5. QED BY <2>1, <2>4 DEF Q!QInit
<1>2. TypeInv /\ [Next]_vars => TypeInv' BY NextTypeInv
<1>3. TypeInv /\ [Next]_vars => [Q!QNext]_<<Queue, worker.pc = "run" /\ worker.msg = NoMsg>>
  BY StepRefines
<1>4. QED BY <1>1, <1>2, <1>3, PTL DEF Spec, RefinesQueue, Q!QSpec
=============================================================================
