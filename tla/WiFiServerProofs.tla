--------------------------- MODULE WiFiServerProofs ---------------------------
(***************************************************************************)
(* Proofs for WiFiServer: for any number of connections and of WiFiClient  *)
(* objects that the width of _refcnt can count.                            *)
(***************************************************************************)
EXTENDS WiFiServer, FiniteSetTheorems, TLAPS

-----------------------------------------------------------------------------
(* The inductive invariant. *)

\* A context that was accepted and that no object has held yet.
Fresh(c) == ctx[c] = "live" /\ Holders(c) = {}

Accepted(c) == \E k \in 1 .. Len(accepted) : accepted[k] = c

Before(c, d) ==
  \E k, l \in 1 .. Len(accepted) : k < l /\ accepted[k] = c /\ accepted[l] = d

\* The counts, with those of the contexts that were not made yet.
CountInv ==
  /\ TypeOK /\ RefExact /\ NoDangling
  /\ \A c \in Conns : ctx[c] = "unused" => refcnt[c] = 0 /\ Holders(c) = {}

\* The list: it starts at a context nobody holds, or at the one that available() has
\* just taken, and goes on with contexts nobody holds.
ListInv ==
  /\ claim.on => unclaimed # Null
  /\ \A x \in Conns : x = unclaimed => (Fresh(x) <=> ~claim.on)
  /\ \A x \in Conns : ctx[x] = "unused" =>
        nxt[x] = Null /\ unclaimed # x /\ \A y \in Conns : nxt[y] # x
  /\ \A x, y \in Conns : (x = unclaimed \/ Fresh(x)) /\ nxt[x] = y => Fresh(y)
  /\ \A x, y \in Conns : nxt[x] = nxt[y] /\ nxt[x] # Null => x = y
  /\ \A x, y \in Conns : nxt[x] = y /\ y = unclaimed => ~Fresh(x)
  /\ claim.on /\ claim.next # Null => claim.next = nxt[unclaimed]
  /\ claim.on /\ claim.next = Null => \A x \in Conns : Fresh(x) => x \in missed
  /\ NoneStranded

\* The order: next() leads from a context to one that was accepted later, and what is
\* left to claim was accepted after all that was claimed.
OrderInv ==
  /\ \A x \in Conns : ctx[x] = "unused" => ~Accepted(x)
  /\ \A k, l \in 1 .. Len(accepted) : accepted[k] = accepted[l] => k = l
  /\ \A x, y \in Conns : nxt[x] = y => Before(x, y)
  /\ \A x \in Conns : x = unclaimed => Accepted(x)
  /\ \A i \in 1 .. Len(claimed), x \in Conns : claimed[i] = x => Accepted(x)
  /\ \A i \in 1 .. Len(claimed), x, y \in Conns :
        claimed[i] = x /\ y = unclaimed => Before(x, y) \/ (claim.on /\ x = y)
  /\ ClaimOrder

IInv == CountInv /\ ListInv /\ OrderInv

-----------------------------------------------------------------------------
(* Counting. *)

LEMMA HoldersFinite == ASSUME NEW c PROVE IsFiniteSet(Holders(c)) /\ Cardinality(Holders(c)) \in Nat
BY FS_Subset, FS_CardinalityType, ServerAssumption DEF Holders

LEMMA ModSmall == ASSUME NEW n \in Nat, NEW x \in Nat, x < n PROVE x % n = x
OBVIOUS

\* A set that loses or gains one object.
LEMMA CountHandles ==
  ASSUME NEW S, IsFiniteSet(S), NEW h
  PROVE  /\ h \notin S => Cardinality(S \cup {h}) = Cardinality(S) + 1
         /\ h \in S => Cardinality(S \ {h}) = Cardinality(S) - 1
         /\ Cardinality(S) \in Nat
         /\ Cardinality(S) = 0 <=> S = {}
BY FS_AddElement, FS_RemoveElement, FS_CardinalityType, FS_EmptySet

\* An object that comes to hold another context leaves the counts exact.
LEMMA CountedExact ==
  ASSUME CountInv, NEW h \in Handles, NEW new \in Conns \cup {Null, NoObject},
         handle[h] \in Conns => ctx[handle[h]] = "live",
         handle' = [handle EXCEPT ![h] = new], refcnt' = Counted(handle[h], new),
         NEW c \in Conns, ctx[c] # "deleted"
  PROVE  refcnt'[c] = Cardinality(Holders(c)')
<1> DEFINE old == handle[h]
           H == Holders(c)
<1>1. /\ refcnt[c] = Cardinality(H) /\ (h \in H <=> c = old)
      /\ IsFiniteSet(H) /\ Cardinality(H) \in Nat
  <2>1. refcnt[c] = Cardinality(H)
    BY CountHandles, HoldersFinite, FS_EmptySet DEF CountInv, RefExact, TypeOK
  <2>2. h \in H <=> c = old
    BY DEF Holders
  <2>3. QED BY <2>1, <2>2, HoldersFinite
<1>2. Holders(c)' = IF c = new THEN H \cup {h} ELSE H \ {h}
  BY DEF Holders, CountInv, TypeOK
<1>3. Cardinality(Holders(c)') \in Nat /\ Cardinality(Holders(c)') < RefMod
  <2>1. IsFiniteSet(Holders(c)') /\ Holders(c)' \subseteq Handles
    BY FS_Subset, ServerAssumption DEF Holders
  <2>2. QED BY <2>1, FS_Subset, FS_CardinalityType, ServerAssumption
<1> HIDE DEF H
<1>4. \A a, b \in Nat : (old = c => a = 1) /\ (old # c => a = 0)
                        /\ (new = c => b = 1) /\ (new # c => b = 0)
        => refcnt'[c] = (Cardinality(H) - a + b) % RefMod
  BY <1>1 DEF Counted
<1>5. CASE c = old /\ c = new
  <2>1. Holders(c)' = H BY <1>5, <1>1, <1>2
  <2>2. refcnt'[c] = (Cardinality(H) - 1 + 1) % RefMod BY <1>5, <1>4
  <2>3. Cardinality(H) - 1 + 1 = Cardinality(H) BY <1>1
  <2>4. QED BY <2>1, <2>2, <2>3, <1>3, ModSmall, ServerAssumption
<1>6. CASE c = old /\ c # new
  <2>1. Cardinality(Holders(c)') = Cardinality(H) - 1
    BY <1>6, <1>1, <1>2, CountHandles
  <2>2. refcnt'[c] = (Cardinality(H) - 1 + 0) % RefMod BY <1>6, <1>4
  <2>3. Cardinality(H) - 1 + 0 = Cardinality(H) - 1 BY <1>1
  <2>4. QED BY <2>1, <2>2, <2>3, <1>3, ModSmall, ServerAssumption
<1>7. CASE c # old /\ c = new
  <2>1. Cardinality(Holders(c)') = Cardinality(H) + 1
    BY <1>7, <1>1, <1>2, CountHandles
  <2>2. refcnt'[c] = (Cardinality(H) - 0 + 1) % RefMod BY <1>7, <1>4
  <2>3. Cardinality(H) - 0 + 1 = Cardinality(H) + 1 BY <1>1
  <2>4. QED BY <2>1, <2>2, <2>3, <1>3, ModSmall, ServerAssumption
<1>8. CASE c # old /\ c # new
  <2>1. Holders(c)' = H BY <1>8, <1>1, <1>2
  <2>2. refcnt'[c] = (Cardinality(H) - 0 + 0) % RefMod BY <1>8, <1>4
  <2>3. Cardinality(H) - 0 + 0 = Cardinality(H) BY <1>1
  <2>4. QED BY <2>1, <2>2, <2>3, <1>3, ModSmall, ServerAssumption
<1>9. QED BY <1>5, <1>6, <1>7, <1>8

LEMMA LastHolder ==
  ASSUME CountInv, NEW c \in Conns, ctx[c] = "live", refcnt[c] = 1,
         NEW h \in Handles, handle[h] = c
  PROVE  Holders(c) = {h}
<1>1. Cardinality(Holders(c)) = 1 /\ h \in Holders(c)
  BY DEF CountInv, RefExact, Holders
<1>2. Cardinality(Holders(c) \ {h}) = 0
  BY <1>1, CountHandles, HoldersFinite
<1>3. IsFiniteSet(Holders(c) \ {h})
  BY HoldersFinite, FS_Subset
<1>4. Holders(c) \ {h} = {}
  BY <1>2, <1>3, CountHandles
<1>5. QED BY <1>1, <1>4

\* What it does to an object and the contexts to give up one and to hold another, which
\* may be one that has just been made.
Moved(h, new) ==
  /\ handle[h] \in Conns => ctx[handle[h]] = "live"
  /\ new \in Conns => ctx[new] # "deleted"
  /\ handle' = [handle EXCEPT ![h] = new] /\ refcnt' = Counted(handle[h], new)
  /\ ctx' = [c \in Conns |-> IF c \in Dropped(handle[h]) THEN "deleted"
                             ELSE IF c = new THEN "live" ELSE ctx[c]]

LEMMA MovedCounts ==
  ASSUME CountInv, NEW h \in Handles, NEW new \in Conns \cup {Null, NoObject}, Moved(h, new)
  PROVE  /\ RefExact'
         /\ \A c \in Conns : ctx'[c] = "unused" =>
                 ctx[c] = "unused" /\ refcnt'[c] = 0 /\ Holders(c)' = {}
         /\ refcnt' \in [Conns -> 0 .. RefMod - 1]
         /\ ctx' \in [Conns -> {"unused", "live", "deleted"}]
         /\ handle' \in [Handles -> Conns \cup {Null, NoObject}]
<1>1. \A c \in Conns : ctx'[c] # "deleted" => ctx[c] # "deleted"
  BY DEF Moved
<1>2. RefExact'
  <2> SUFFICES ASSUME NEW c \in Conns, ctx'[c] = "live"
               PROVE  refcnt'[c] = Cardinality(Holders(c)')
    BY DEF RefExact
  <2>1. QED BY <1>1, CountedExact DEF Moved
<1>3. ASSUME NEW c \in Conns, ctx'[c] = "unused"
      PROVE  ctx[c] = "unused" /\ refcnt'[c] = 0 /\ Holders(c)' = {}
  <2>1. ctx[c] = "unused" /\ c # new /\ c # handle[h]
    BY <1>3 DEF Moved
  <2>2. Holders(c) = {}
    BY <2>1 DEF CountInv
  <2>3. Holders(c)' = {}
    BY <2>1, <2>2 DEF Holders, Moved, CountInv, TypeOK
  <2>4. refcnt'[c] = Cardinality(Holders(c)')
    BY <2>1, CountedExact DEF Moved
  <2>5. QED BY <2>1, <2>3, <2>4, FS_EmptySet
<1>4. refcnt' \in [Conns -> 0 .. RefMod - 1]
  <2>0. RefMod \in Nat /\ RefMod > 0
    <3>1. Cardinality(Handles) \in Nat
      BY ServerAssumption, FS_CardinalityType
    <3>2. QED BY <3>1, ServerAssumption
  <2>1. ASSUME NEW c \in Conns PROVE refcnt'[c] \in 0 .. RefMod - 1
    <3>1. PICK n \in Int : refcnt'[c] = n % RefMod
      <4>1. \A a \in {0, 1}, b \in {0, 1} : refcnt[c] - a + b \in Int
        BY DEF CountInv, TypeOK
      <4>2. QED BY <4>1 DEF Moved, Counted
    <3>2. QED BY <3>1, <2>0
  <2>2. QED BY <2>1 DEF Moved, Counted
<1>5. ctx' \in [Conns -> {"unused", "live", "deleted"}]
  BY DEF Moved, CountInv, TypeOK
<1>6. handle' \in [Handles -> Conns \cup {Null, NoObject}]
  BY DEF Moved, CountInv, TypeOK
<1>7. QED BY <1>2, <1>3, <1>4, <1>5, <1>6

\* No object is left with a deleted context, except one assigned to itself.
LEMMA MovedDangling ==
  ASSUME CountInv, NEW h \in Handles, NEW new \in Conns \cup {Null, NoObject}, Moved(h, new),
         selfAssigned \subseteq selfAssigned',
         new \in Conns /\ new = handle[h] /\ Holders(new) = {h} => h \in selfAssigned'
  PROVE  NoDangling'
<1> SUFFICES ASSUME NEW g \in Handles, handle'[g] \in Conns, g \notin selfAssigned'
             PROVE  ctx'[handle'[g]] = "live"
  BY DEF NoDangling
<1> DEFINE c == handle'[g]
<1>1. CASE c \in Dropped(handle[h])
  <2>1. Holders(c) = {h} /\ c = handle[h]
    BY <1>1, LastHolder DEF Dropped, Moved
  <2>2. CASE g = h
    BY <2>1, <2>2 DEF Moved, CountInv, TypeOK
  <2>3. CASE g # h
    <3>1. handle[g] = c BY <2>3 DEF Moved, CountInv, TypeOK
    <3>2. QED BY <3>1, <2>1, <2>3 DEF Holders
  <2>4. QED BY <2>2, <2>3
<1>2. CASE c \notin Dropped(handle[h]) /\ g = h
  BY <1>2 DEF Moved, CountInv, TypeOK
<1>3. CASE c \notin Dropped(handle[h]) /\ g # h
  <2>1. handle[g] = c BY <1>3 DEF Moved, CountInv, TypeOK
  <2>2. ctx[c] = "live" BY <2>1 DEF CountInv, NoDangling
  <2>3. QED BY <1>3, <2>2 DEF Moved
<1>4. QED BY <1>1, <1>2, <1>3

\* Only the context that is taken stops being fresh.
LEMMA MovedFresh ==
  ASSUME CountInv, NEW h \in Handles, NEW new \in Conns \cup {Null, NoObject}, Moved(h, new),
         NEW c \in Conns
  PROVE  Fresh(c)' <=> Fresh(c) /\ c # new
<1>1. Holders(c)' = IF c = new THEN Holders(c) \cup {h} ELSE Holders(c) \ {h}
  BY DEF Holders, CountInv, TypeOK, Moved
<1>2. ASSUME Fresh(c)' PROVE Fresh(c) /\ c # new
  <2>1. c # new /\ Holders(c) \subseteq {h} /\ ctx'[c] = "live"
    BY <1>1, <1>2 DEF Fresh
  <2>2. ctx[c] = "live" /\ c \notin Dropped(handle[h])
    BY <2>1 DEF Moved
  <2>3. refcnt'[c] = 0
    <3>1. refcnt'[c] = Cardinality(Holders(c)')
      BY <2>2, CountedExact DEF Moved
    <3>2. QED BY <3>1, <1>2, FS_EmptySet DEF Fresh
  <2>4. h \notin Holders(c)
    <3> SUFFICES ASSUME h \in Holders(c) PROVE FALSE
      OBVIOUS
    <3>1. Holders(c) = {h} /\ c = handle[h] BY <2>1 DEF Holders
    <3>2. refcnt[c] = 1
      BY <3>1, <2>2, FS_Singleton DEF CountInv, RefExact
    <3>3. QED BY <3>1, <3>2, <2>2 DEF Dropped
  <2>5. QED BY <2>1, <2>2, <2>4 DEF Fresh
<1>3. ASSUME Fresh(c), c # new PROVE Fresh(c)'
  <2>1. Holders(c) = {} /\ ctx[c] = "live" /\ c # handle[h]
    BY <1>3 DEF Fresh, Holders
  <2>2. ctx'[c] = "live" BY <1>3, <2>1 DEF Moved, Dropped
  <2>3. QED BY <2>1, <2>2, <1>1, <1>3 DEF Fresh
<1>4. QED BY <1>2, <1>3

-----------------------------------------------------------------------------
(* The list. *)

LEMMA ListFromClosed ==
  ASSUME NEW S \in SUBSET Conns, NEW c, c \in S \cup {Null},
         \A x \in S : nxt[x] \in S \cup {Null}
  PROVE  ListFrom(c) \subseteq S
BY DEF ListFrom

\* Where a context is appended.
LEMMA AppendCases ==
  ASSUME IInv, NEW c \in Conns, _accept(c)
  PROVE  \/ /\ unclaimed = Null /\ unclaimed' = c /\ nxt' = [nxt EXCEPT ![c] = Null]
         \/ \E last \in Conns :
              /\ unclaimed \in Conns /\ last # c /\ unclaimed # c
              /\ last \in ListFrom(unclaimed) /\ nxt[last] = Null
              /\ last = unclaimed \/ Fresh(last)
              /\ Accepted(last)
              /\ nxt' = [nxt EXCEPT ![last] = c, ![c] = Null] /\ unclaimed' = unclaimed
<1>1. CASE unclaimed = Null
  BY <1>1 DEF _accept, slist_append_tail
<1>2. CASE unclaimed # Null
  <2>1. PICK last \in ListFrom(unclaimed) :
          /\ nxt[last] = Null /\ nxt' = [nxt EXCEPT ![last] = c, ![c] = Null]
          /\ unclaimed' = unclaimed
    BY <1>2 DEF _accept, slist_append_tail
  <2>2. unclaimed \in Conns /\ last \in Conns /\ unclaimed # c
    BY <1>2 DEF IInv, CountInv, TypeOK, ListFrom, ListInv, _accept
  <2>3. last = unclaimed \/ Fresh(last)
    <3> DEFINE S == {x \in Conns : x = unclaimed \/ Fresh(x)}
    <3>1. \A x \in S : nxt[x] \in S \cup {Null}
      BY DEF IInv, CountInv, TypeOK, ListInv
    <3>2. unclaimed \in S \cup {Null} BY <2>2
    <3>3. ListFrom(unclaimed) \subseteq S BY <3>1, <3>2, ListFromClosed
    <3>4. QED BY <3>3
  <2>4. Accepted(last)
    <3> DEFINE S == {x \in Conns : Accepted(x)}
    <3>1. \A x \in S : nxt[x] \in S \cup {Null}
      <4> SUFFICES ASSUME NEW x \in S, nxt[x] # Null PROVE nxt[x] \in S
        OBVIOUS
      <4>1. nxt[x] \in Conns BY DEF IInv, CountInv, TypeOK
      <4>2. Before(x, nxt[x]) BY <4>1 DEF IInv, OrderInv
      <4>3. QED BY <4>1, <4>2 DEF Before, Accepted
    <3>2. unclaimed \in S \cup {Null} BY <2>2, <1>2 DEF IInv, OrderInv
    <3>3. ListFrom(unclaimed) \subseteq S BY <3>1, <3>2, ListFromClosed
    <3>4. QED BY <3>3
  <2>5. last # c
    BY <2>2, <2>4 DEF IInv, OrderInv, _accept
  <2>6. QED BY <2>1, <2>2, <2>3, <2>4, <2>5
<1>3. QED BY <1>1, <1>2

\* What the new context and the others are after an accept.
LEMMA AcceptFresh ==
  ASSUME IInv, NEW c \in Conns, _accept(c)
  PROVE  /\ ctx[c] = "unused" /\ Fresh(c)' /\ ~Fresh(c)
         /\ \A x \in Conns : x # c => (Fresh(x)' <=> Fresh(x)) /\ ctx'[x] = ctx[x]
<1>1. \A x \in Conns : Holders(x)' = Holders(x)
  BY DEF Holders, _accept
<1>2. ctx[c] = "unused" /\ ctx'[c] = "live" /\ Holders(c) = {}
  BY DEF _accept, IInv, CountInv, TypeOK
<1>3. \A x \in Conns : x # c => ctx'[x] = ctx[x]
  BY DEF _accept, IInv, CountInv, TypeOK
<1>4. QED BY <1>1, <1>2, <1>3 DEF Fresh

LEMMA AcceptCount == ASSUME IInv, NEW c \in Conns, _accept(c) PROVE CountInv'
<1>1. \A x \in Conns : Holders(x)' = Holders(x)
  BY DEF Holders, _accept
<1>2. unclaimed' \in Conns \cup {Null} /\ nxt' \in [Conns -> Conns \cup {Null}]
  <2>1. unclaimed \in Conns \cup {Null} /\ nxt \in [Conns -> Conns \cup {Null}]
    BY DEF IInv, CountInv, TypeOK
  <2>2. QED BY <2>1, AppendCases
<1>3. /\ ctx' \in [Conns -> {"unused", "live", "deleted"}]
      /\ open' \subseteq {x \in Conns : ctx'[x] = "live"}
      /\ accepted' \in Seq(Conns) /\ missed' \subseteq Conns
  BY DEF _accept, IInv, CountInv, TypeOK
<1>4. TypeOK'
  BY <1>2, <1>3 DEF _accept, IInv, CountInv, TypeOK
<1>5. refcnt[c] = 0 /\ Holders(c) = {} /\ ctx[c] = "unused"
  BY DEF _accept, IInv, CountInv
<1>6. RefExact'
  BY <1>1, <1>5, FS_EmptySet DEF RefExact, _accept, IInv, CountInv, TypeOK
<1>7. NoDangling'
  BY <1>5 DEF NoDangling, _accept, IInv, CountInv, TypeOK, Holders
<1>8. \A x \in Conns : ctx'[x] = "unused" => refcnt'[x] = 0 /\ Holders(x)' = {}
  BY <1>1, AcceptFresh DEF _accept, IInv, CountInv, TypeOK
<1>9. QED BY <1>4, <1>6, <1>7, <1>8 DEF CountInv

\* An append keeps the list reachable and the new context reachable in it.
LEMMA AcceptList == ASSUME IInv, NEW c \in Conns, _accept(c) PROVE ListInv'
<1>0. /\ ListInv /\ TypeOK /\ claim' = claim /\ c # Null
      /\ missed \subseteq missed'
      /\ claim.on /\ claim.next = Null => c \in missed'
  BY ServerAssumption DEF _accept, IInv, CountInv
<1>f. /\ ctx[c] = "unused" /\ Fresh(c)' /\ ~Fresh(c) /\ ctx'[c] = "live"
      /\ \A x \in Conns : x # c => (Fresh(x)' <=> Fresh(x)) /\ ctx'[x] = ctx[x]
  BY AcceptFresh DEF Fresh
<1>u. unclaimed # c /\ nxt[c] = Null /\ \A x \in Conns : nxt[x] # c
  BY <1>0, <1>f DEF ListInv
<1>1. CASE unclaimed = Null /\ unclaimed' = c /\ nxt' = [nxt EXCEPT ![c] = Null]
  <2>1. nxt' = nxt /\ ~claim.on
    BY <1>0, <1>1, <1>u DEF ListInv, TypeOK
  <2>2. NoneStranded'
    <3> SUFFICES ASSUME NEW x \in Conns, Fresh(x)', x \notin missed'
                 PROVE  x \in ListFrom(unclaimed)'
      BY DEF NoneStranded, Fresh
    <3>1. CASE x = c
      BY <3>1, <1>1, <1>0 DEF ListFrom
    <3>2. CASE x # c
      <4>1. x \in ListFrom(unclaimed)
        BY <3>2, <1>0, <1>f DEF ListInv, NoneStranded, Fresh
      <4>2. ListFrom(unclaimed) \subseteq {}
        <5>1. {} \in SUBSET Conns /\ unclaimed \in {} \cup {Null} BY <1>1
        <5>2. QED BY <5>1, ListFromClosed
      <4>3. QED BY <4>1, <4>2
    <3>3. QED BY <3>1, <3>2
  <2>3. \A x, y \in Conns : (x = c \/ Fresh(x)') /\ nxt[x] = y => Fresh(y)'
    BY <1>0, <1>f, <1>u, <1>1, ServerAssumption DEF ListInv
  <2>4. \A x \in Conns : ctx'[x] = "unused" =>
            nxt[x] = Null /\ c # x /\ \A y \in Conns : nxt[y] # x
    BY <1>0, <1>f DEF ListInv
  <2>5. \A x \in Conns : x = c => (Fresh(x)' <=> ~claim.on)
    BY <2>1, <1>f
  <2>6. \A x, y \in Conns : nxt[x] = y /\ y = c => ~Fresh(x)'
    BY <1>u
  <2>7. \A x, y \in Conns : nxt[x] = nxt[y] /\ nxt[x] # Null => x = y
    BY <1>0 DEF ListInv
  <2>8. QED BY <2>1, <2>2, <2>3, <2>4, <2>5, <2>6, <2>7, <1>0, <1>1 DEF ListInv
<1>2. ASSUME NEW last \in Conns, unclaimed \in Conns, last # c,
             last \in ListFrom(unclaimed), nxt[last] = Null,
             last = unclaimed \/ Fresh(last),
             nxt' = [nxt EXCEPT ![last] = c, ![c] = Null], unclaimed' = unclaimed
      PROVE  ListInv'
  <2>1. /\ nxt'[last] = c /\ nxt'[c] = Null
        /\ \A x \in Conns : x # last => nxt'[x] = nxt[x]
    BY <1>0, <1>2, <1>u DEF TypeOK
  <2>2. \A x \in Conns : x = unclaimed => (Fresh(x)' <=> ~claim.on)
    BY <1>0, <1>f, <1>u DEF ListInv
  <2>3. \A x \in Conns : ctx'[x] = "unused" =>
            nxt'[x] = Null /\ unclaimed # x /\ \A y \in Conns : nxt'[y] # x
    <3> SUFFICES ASSUME NEW x \in Conns, ctx'[x] = "unused"
                 PROVE  nxt'[x] = Null /\ unclaimed # x /\ \A y \in Conns : nxt'[y] # x
      OBVIOUS
    <3>1. x # c /\ ctx[x] = "unused" BY <1>f
    <3>2. nxt[x] = Null /\ unclaimed # x /\ \A y \in Conns : nxt[y] # x
      BY <1>0, <3>1 DEF ListInv
    <3>3. x # last BY <3>1, <3>2, <1>2 DEF Fresh
    <3>4. QED BY <3>1, <3>2, <3>3, <2>1
  <2>4. \A x, y \in Conns : (x = unclaimed \/ Fresh(x)') /\ nxt'[x] = y => Fresh(y)'
    <3> SUFFICES ASSUME NEW x \in Conns, NEW y \in Conns,
                        x = unclaimed \/ Fresh(x)', nxt'[x] = y
                 PROVE  Fresh(y)'
      OBVIOUS
    <3>1. CASE x = last BY <3>1, <2>1, <1>f
    <3>2. CASE x # last
      <4>1. x # c /\ nxt[x] = y /\ y # c BY <3>2, <2>1, <1>0, <1>u, ServerAssumption
      <4>2. Fresh(y)
        BY <4>1, <1>0, <1>f DEF ListInv
      <4>3. QED BY <4>1, <4>2, <1>f
    <3>3. QED BY <3>1, <3>2
  <2>5. \A x, y \in Conns : nxt'[x] = nxt'[y] /\ nxt'[x] # Null => x = y
    BY <2>1, <1>0, <1>u DEF ListInv
  <2>6. \A x, y \in Conns : nxt'[x] = y /\ y = unclaimed => ~Fresh(x)'
    BY <2>1, <1>0, <1>f, <1>u, ServerAssumption DEF ListInv
  <2>7. claim.on /\ claim.next # Null => claim.next = nxt'[unclaimed]
    BY <2>1, <1>0, <1>2 DEF ListInv
  <2>8. claim.on /\ claim.next = Null => \A x \in Conns : Fresh(x)' => x \in missed'
    BY <1>0, <1>f DEF ListInv
  <2>9. NoneStranded'
    <3> SUFFICES ASSUME NEW x \in Conns, Fresh(x)', x \notin missed',
                        NEW S \in SUBSET Conns, unclaimed \in S \cup {Null},
                        \A y \in S : nxt'[y] \in S \cup {Null}
                 PROVE  x \in S
      BY <1>2 DEF NoneStranded, Fresh, ListFrom
    <3>1. \A y \in S : nxt[y] \in S \cup {Null}
      BY <2>1, <1>2
    <3>2. ListFrom(unclaimed) \subseteq S
      BY <3>1, ListFromClosed
    <3>3. last \in S /\ c \in S
      BY <3>2, <2>1, <1>0, <1>2
    <3>4. CASE x # c
      BY <3>4, <3>2, <1>0, <1>f DEF ListInv, NoneStranded, Fresh
    <3>5. QED BY <3>3, <3>4
  <2>10. QED BY <2>2, <2>3, <2>4, <2>5, <2>6, <2>7, <2>8, <2>9, <1>0, <1>2 DEF ListInv
<1>3. QED BY <1>1, <1>2, AppendCases

\* Steps that leave the list alone and make or drop no fresh context keep it as it is.
LEMMA ListKept ==
  ASSUME ListInv, UNCHANGED <<unclaimed, nxt, claim, missed>>,
         \A x \in Conns : Fresh(x)' <=> Fresh(x),
         \A x \in Conns : ctx'[x] = "unused" => ctx[x] = "unused"
  PROVE  ListInv'
<1>1. ListFrom(unclaimed)' = ListFrom(unclaimed)
  BY DEF ListFrom
<1>2. NoneStranded'
  BY <1>1 DEF ListInv, NoneStranded, Fresh
<1>3. /\ \A x \in Conns : x = unclaimed => (Fresh(x)' <=> ~claim.on)
      /\ \A x, y \in Conns : (x = unclaimed \/ Fresh(x)') /\ nxt[x] = y => Fresh(y)'
      /\ \A x, y \in Conns : nxt[x] = y /\ y = unclaimed => ~Fresh(x)'
      /\ claim.on /\ claim.next = Null => \A x \in Conns : Fresh(x)' => x \in missed
  BY DEF ListInv
<1>4. QED BY <1>2, <1>3 DEF ListInv

\* available() takes the first context, which only the list led to.
LEMMA AvailableList ==
  ASSUME IInv, NEW h \in Handles, available(h),
         \A x \in Conns : Fresh(x)' <=> Fresh(x) /\ x # unclaimed,
         \A x \in Conns : ctx'[x] = "unused" => ctx[x] = "unused"
  PROVE  ListInv'
<1>1. /\ ListInv /\ TypeOK /\ unclaimed \in Conns /\ Fresh(unclaimed) /\ ~claim.on
      /\ claim'.on /\ claim'.next = nxt[unclaimed]
      /\ UNCHANGED <<unclaimed, nxt, missed>>
  BY DEF IInv, CountInv, TypeOK, ListInv, available, Unchanged
<1>2. ListFrom(unclaimed)' = ListFrom(unclaimed)
  BY <1>1 DEF ListFrom
<1>3. NoneStranded'
  BY <1>1, <1>2 DEF ListInv, NoneStranded, Fresh
<1>4. nxt[unclaimed] = Null => \A x \in Conns : Fresh(x)' => x \in missed
  <2> SUFFICES ASSUME nxt[unclaimed] = Null, NEW x \in Conns, Fresh(x)' PROVE x \in missed
    OBVIOUS
  <2>1. x # unclaimed /\ Fresh(x) OBVIOUS
  <2>2. x \in ListFrom(unclaimed) \cup missed
    BY <2>1, <1>1 DEF ListInv, NoneStranded, Fresh
  <2>3. ListFrom(unclaimed) \subseteq {unclaimed}
    <3>1. {unclaimed} \in SUBSET Conns BY <1>1
    <3>2. QED BY <3>1, ListFromClosed
  <2>4. QED BY <2>1, <2>2, <2>3
<1>5. \A x, y \in Conns : (x = unclaimed \/ Fresh(x)') /\ nxt[x] = y => Fresh(y)'
  BY <1>1 DEF ListInv
<1>6. /\ \A x \in Conns : x = unclaimed => ~Fresh(x)'
      /\ \A x, y \in Conns : nxt[x] = y /\ y = unclaimed => ~Fresh(x)'
  BY <1>1 DEF ListInv
<1>7. QED BY <1>1, <1>3, <1>4, <1>5, <1>6, ServerAssumption DEF ListInv

LEMMA ReturnsList == ASSUME IInv, AvailableReturns PROVE ListInv'
<1>1. /\ ListInv /\ TypeOK /\ unclaimed \in Conns /\ claim.on /\ claim' = Idle
      /\ unclaimed' = claim.next /\ UNCHANGED <<nxt, missed, ctx, handle>>
      /\ claim.next \in Conns \cup {Null}
  BY DEF IInv, CountInv, TypeOK, ListInv, AvailableReturns, Unchanged
<1>2. ~claim'.on BY <1>1 DEF Idle
<1>3. \A x \in Conns : Fresh(x)' <=> Fresh(x)
  BY <1>1 DEF Fresh, Holders
<1>4. ~Fresh(unclaimed) BY <1>1 DEF ListInv
<1>5. CASE claim.next = Null
  <2>1. \A x \in Conns : Fresh(x)' => x \in missed'
    BY <1>1, <1>3, <1>5 DEF ListInv
  <2>2. NoneStranded'
    BY <2>1 DEF NoneStranded, Fresh
  <2>3. \A x, y \in Conns : Fresh(x)' /\ nxt'[x] = y => Fresh(y)'
    BY <1>1, <1>3 DEF ListInv
  <2>4. QED BY <1>1, <1>2, <1>5, <2>2, <2>3, ServerAssumption DEF ListInv
<1>6. CASE claim.next # Null
  <2> DEFINE n == nxt[unclaimed]
  <2>1. n \in Conns /\ n = unclaimed' /\ Fresh(n)
    BY <1>1, <1>6 DEF ListInv, TypeOK
  <2>2. NoneStranded'
    <3> SUFFICES ASSUME NEW x \in Conns, Fresh(x), x \notin missed,
                        NEW S \in SUBSET Conns, n \in S \cup {Null},
                        \A y \in S : nxt[y] \in S \cup {Null}
                 PROVE  x \in S
      BY <1>1, <1>3, <2>1 DEF NoneStranded, ListFrom, Fresh
    <3> DEFINE U == S \cup {unclaimed}
    <3>1. U \in SUBSET Conns /\ unclaimed \in U \cup {Null} BY <1>1
    <3>2. \A y \in U : nxt[y] \in U \cup {Null} OBVIOUS
    <3>3. ListFrom(unclaimed) \subseteq U
      BY <3>1, <3>2, ListFromClosed
    <3>4. x \in ListFrom(unclaimed)
      BY <1>1 DEF ListInv, NoneStranded, Fresh
    <3>5. x # unclaimed BY <1>4
    <3>6. QED BY <3>3, <3>4, <3>5
  <2>3. \A x, y \in Conns : (x = n \/ Fresh(x)') /\ nxt[x] = y => Fresh(y)'
    BY <1>1, <1>3, <2>1 DEF ListInv
  <2>4. \A x, y \in Conns : nxt[x] = y /\ y = n => ~Fresh(x)'
    <3> SUFFICES ASSUME NEW x \in Conns, nxt[x] = n PROVE ~Fresh(x)
      BY <1>3
    <3>1. x = unclaimed BY <1>1, <2>1, ServerAssumption DEF ListInv
    <3>2. QED BY <3>1, <1>4
  <2>5. \A x \in Conns : ctx[x] = "unused" =>
           nxt[x] = Null /\ n # x /\ \A y \in Conns : nxt[y] # x
    BY <1>1, <2>1 DEF ListInv
  <2>6. \A x \in Conns : x = n => Fresh(x)'
    BY <2>1, <1>3
  <2>7. \A x, y \in Conns : nxt[x] = nxt[y] /\ nxt[x] # Null => x = y
    BY <1>1 DEF ListInv
  <2>8. QED BY <1>1, <1>2, <2>1, <2>2, <2>3, <2>4, <2>5, <2>6, <2>7 DEF ListInv
<1>7. QED BY <1>5, <1>6

-----------------------------------------------------------------------------
(* The order. *)

LEMMA BeforeTransitive ==
  ASSUME OrderInv, accepted \in Seq(Conns), NEW x, NEW y, NEW z, Before(x, y), Before(y, z)
  PROVE  Before(x, z)
<1>1. PICK k, l \in 1 .. Len(accepted) : k < l /\ accepted[k] = x /\ accepted[l] = y
  BY DEF Before
<1>2. PICK i, j \in 1 .. Len(accepted) : i < j /\ accepted[i] = y /\ accepted[j] = z
  BY DEF Before
<1>3. l = i BY <1>1, <1>2 DEF OrderInv
<1>4. k < j BY <1>1, <1>2, <1>3
<1>5. QED BY <1>1, <1>2, <1>4 DEF Before

LEMMA OrderKept ==
  ASSUME OrderInv, UNCHANGED <<unclaimed, nxt, claim, accepted, claimed>>,
         \A x \in Conns : ctx'[x] = "unused" => ctx[x] = "unused"
  PROVE  OrderInv'
<1>1. /\ \A x : Accepted(x)' <=> Accepted(x)
      /\ \A x, y : Before(x, y)' <=> Before(x, y)
  BY DEF Accepted, Before
<1>2. ClaimOrder'
  BY DEF OrderInv, ClaimOrder
<1>3. QED BY <1>1, <1>2 DEF OrderInv

\* A context that is appended comes after all that were accepted before.
LEMMA AppendedLast ==
  ASSUME accepted \in Seq(Conns), NEW c \in Conns, accepted' = Append(accepted, c)
  PROVE  /\ Accepted(c)'
         /\ \A x : Accepted(x)' <=> Accepted(x) \/ x = c
         /\ \A x, y : Before(x, y) => Before(x, y)'
         /\ \A x : Accepted(x) => Before(x, c)'
<1>1. /\ Len(accepted') = Len(accepted) + 1 /\ Len(accepted) \in Nat
      /\ \A k \in 1 .. Len(accepted) : accepted'[k] = accepted[k]
      /\ accepted'[Len(accepted) + 1] = c
  OBVIOUS
<1>2. 1 .. Len(accepted') = 1 .. Len(accepted) \cup {Len(accepted) + 1}
  BY <1>1
<1>3. \A x : Accepted(x)' <=> Accepted(x) \/ x = c
  BY <1>1, <1>2 DEF Accepted
<1>4. \A x, y : Before(x, y) => Before(x, y)'
  BY <1>1, <1>2 DEF Before
<1>5. ASSUME NEW x, Accepted(x) PROVE Before(x, c)'
  <2>1. PICK k \in 1 .. Len(accepted) : accepted[k] = x
    BY <1>5 DEF Accepted
  <2>2. /\ k \in 1 .. Len(accepted') /\ Len(accepted) + 1 \in 1 .. Len(accepted')
        /\ k < Len(accepted) + 1 /\ accepted'[k] = x
    BY <2>1, <1>1, <1>2
  <2>3. QED BY <2>2, <1>1 DEF Before
<1>6. QED BY <1>3, <1>4, <1>5

LEMMA ClaimOrderBefore ==
  ClaimOrder <=> \A i, j \in 1 .. Len(claimed) : i < j => Before(claimed[i], claimed[j])
BY DEF ClaimOrder, Before

LEMMA AcceptOrder == ASSUME IInv, NEW c \in Conns, _accept(c) PROVE OrderInv'
<1>1. /\ OrderInv /\ accepted \in Seq(Conns) /\ claimed \in Seq(Conns)
      /\ nxt \in [Conns -> Conns \cup {Null}] /\ ctx[c] = "unused"
      /\ accepted' = Append(accepted, c) /\ claimed' = claimed /\ claim' = claim
      /\ ~Accepted(c)
  BY DEF IInv, CountInv, TypeOK, OrderInv, _accept
<1>2. /\ Accepted(c)'
      /\ \A x : Accepted(x)' <=> Accepted(x) \/ x = c
      /\ \A x, y : Before(x, y) => Before(x, y)'
      /\ \A x : Accepted(x) => Before(x, c)'
  BY <1>1, AppendedLast
<1>3. \A x \in Conns : ctx'[x] = "unused" => ~Accepted(x)'
  <2>1. ctx'[c] = "live" /\ \A x \in Conns : x # c => ctx'[x] = ctx[x]
    BY AcceptFresh DEF Fresh
  <2>2. QED BY <2>1, <1>1, <1>2 DEF OrderInv
<1>4. \A k, l \in 1 .. Len(accepted') : accepted'[k] = accepted'[l] => k = l
  <2>1. \A k \in 1 .. Len(accepted) : accepted[k] # c
    BY <1>1 DEF Accepted
  <2>2. \A k, l \in 1 .. Len(accepted) : accepted[k] = accepted[l] => k = l
    BY <1>1 DEF OrderInv
  <2>3. QED BY <2>1, <2>2, <1>1
<1>5. ASSUME NEW i \in 1 .. Len(claimed), NEW x \in Conns, claimed[i] = x
      PROVE  Accepted(x)' /\ Before(x, c)'
  <2>1. Accepted(x) BY <1>1, <1>5 DEF OrderInv
  <2>2. QED BY <2>1, <1>2
<1>6. ClaimOrder'
  <2>1. \A i, j \in 1 .. Len(claimed) : i < j => Before(claimed[i], claimed[j])
    BY <1>1, ClaimOrderBefore DEF OrderInv
  <2>2. \A x, y : Before(x, y) => \E k, l \in 1 .. Len(accepted') :
                                    k < l /\ accepted'[k] = x /\ accepted'[l] = y
    <3> SUFFICES ASSUME NEW x, NEW y, Before(x, y)
                 PROVE  \E k, l \in 1 .. Len(accepted') :
                          k < l /\ accepted'[k] = x /\ accepted'[l] = y
      OBVIOUS
    <3>1. Before(x, y)' BY <1>2
    <3>2. QED BY <3>1 DEF Before
  <2>3. ASSUME NEW i \in 1 .. Len(claimed), NEW j \in 1 .. Len(claimed), i < j
        PROVE  \E k, l \in 1 .. Len(accepted') :
                 k < l /\ accepted'[k] = claimed[i] /\ accepted'[l] = claimed[j]
    <3>1. Before(claimed[i], claimed[j]) BY <2>1, <2>3
    <3>2. QED BY <3>1, <2>2
  <2>4. QED BY <2>3, <1>1 DEF ClaimOrder
<1>7. CASE unclaimed = Null /\ unclaimed' = c /\ nxt' = [nxt EXCEPT ![c] = Null]
  <2>1. \A x, y \in Conns : nxt'[x] = y => Before(x, y)'
    BY <1>1, <1>2, <1>7, ServerAssumption DEF OrderInv
  <2>2. \A x \in Conns : x = unclaimed' => Accepted(x)'
    BY <1>2, <1>7
  <2>3. \A i \in 1 .. Len(claimed'), x, y \in Conns :
           claimed'[i] = x /\ y = unclaimed' => Before(x, y)'
    BY <1>1, <1>5, <1>7
  <2>4. QED BY <1>1, <1>3, <1>4, <1>5, <1>6, <2>1, <2>2, <2>3 DEF OrderInv
<1>8. ASSUME NEW last \in Conns, last # c, Accepted(last), unclaimed' = unclaimed,
             nxt' = [nxt EXCEPT ![last] = c, ![c] = Null]
      PROVE  OrderInv'
  <2>1. \A x, y \in Conns : nxt'[x] = y => Before(x, y)'
    <3> SUFFICES ASSUME NEW x \in Conns, NEW y \in Conns, nxt'[x] = y PROVE Before(x, y)'
      OBVIOUS
    <3>1. x # c BY <1>1, <1>8, ServerAssumption
    <3>2. CASE x = last BY <3>1, <3>2, <1>1, <1>2, <1>8
    <3>3. CASE x # last
      <4>1. nxt[x] = y BY <3>1, <3>3, <1>1, <1>8
      <4>2. QED BY <4>1, <1>1, <1>2 DEF OrderInv
    <3>4. QED BY <3>2, <3>3
  <2>2. \A x \in Conns : x = unclaimed' => Accepted(x)'
    BY <1>1, <1>2, <1>8 DEF OrderInv
  <2>3. \A i \in 1 .. Len(claimed'), x, y \in Conns :
           claimed'[i] = x /\ y = unclaimed' => Before(x, y)' \/ (claim'.on /\ x = y)
    <3> SUFFICES ASSUME NEW i \in 1 .. Len(claimed), NEW x \in Conns, NEW y \in Conns,
                        claimed[i] = x, y = unclaimed
                 PROVE  Before(x, y)' \/ (claim.on /\ x = y)
      BY <1>1, <1>8
    <3>1. Before(x, y) \/ (claim.on /\ x = y) BY <1>1 DEF OrderInv
    <3>2. QED BY <3>1, <1>2
  <2>4. QED BY <1>1, <1>3, <1>4, <1>5, <1>6, <2>1, <2>2, <2>3 DEF OrderInv
<1>9. QED BY <1>7, <1>8, AppendCases

\* What is claimed was accepted after all that were claimed before.
LEMMA AvailableOrder ==
  ASSUME IInv, NEW h \in Handles, available(h),
         \A x \in Conns : ctx'[x] = "unused" => ctx[x] = "unused"
  PROVE  OrderInv'
<1> DEFINE u == unclaimed
<1>1. /\ OrderInv /\ accepted \in Seq(Conns) /\ claimed \in Seq(Conns)
      /\ u \in Conns /\ ~claim.on /\ claim'.on
      /\ claimed' = Append(claimed, u) /\ UNCHANGED <<unclaimed, nxt, accepted>>
  BY DEF IInv, CountInv, TypeOK, available, Unchanged
<1>2. /\ \A x : Accepted(x)' <=> Accepted(x)
      /\ \A x, y : Before(x, y)' <=> Before(x, y)
  BY <1>1 DEF Accepted, Before
<1>3. \A i \in 1 .. Len(claimed) : Accepted(claimed[i]) /\ Before(claimed[i], u)
  BY <1>1 DEF OrderInv
<1>4. Accepted(u) BY <1>1 DEF OrderInv
<1>5. /\ Len(claimed') = Len(claimed) + 1 /\ Len(claimed) \in Nat
      /\ \A i \in 1 .. Len(claimed) : claimed'[i] = claimed[i]
      /\ claimed'[Len(claimed) + 1] = u
  BY <1>1
<1>6. \A i \in 1 .. Len(claimed') : i \in 1 .. Len(claimed) \/ i = Len(claimed) + 1
  BY <1>5
<1>7. ClaimOrder'
  <2> SUFFICES ASSUME NEW i \in 1 .. Len(claimed'), NEW j \in 1 .. Len(claimed'), i < j
               PROVE  Before(claimed'[i], claimed'[j])
    BY <1>1 DEF ClaimOrder, Before
  <2>1. i \in 1 .. Len(claimed) BY <1>5
  <2>2. CASE j \in 1 .. Len(claimed)
    BY <2>1, <2>2, <1>1, <1>5, ClaimOrderBefore DEF OrderInv
  <2>3. CASE j = Len(claimed) + 1
    BY <2>1, <2>3, <1>3, <1>5
  <2>4. QED BY <2>2, <2>3, <1>6
<1>8. \A i \in 1 .. Len(claimed'), x \in Conns : claimed'[i] = x => Accepted(x)
  BY <1>3, <1>4, <1>5, <1>6
<1>9. \A i \in 1 .. Len(claimed'), x \in Conns :
         claimed'[i] = x => Before(x, u) \/ x = u
  BY <1>3, <1>4, <1>5, <1>6
<1>10. QED BY <1>1, <1>2, <1>7, <1>8, <1>9 DEF OrderInv

LEMMA ReturnsOrder == ASSUME IInv, AvailableReturns PROVE OrderInv'
<1>1. /\ OrderInv /\ accepted \in Seq(Conns) /\ claimed \in Seq(Conns)
      /\ nxt \in [Conns -> Conns \cup {Null}]
      /\ unclaimed \in Conns /\ claim.on /\ claim' = Idle /\ unclaimed' = claim.next
      /\ UNCHANGED <<nxt, accepted, claimed, ctx>>
      /\ claim.next # Null => claim.next = nxt[unclaimed]
  BY DEF IInv, CountInv, TypeOK, ListInv, AvailableReturns, Unchanged
<1>2. /\ \A x : Accepted(x)' <=> Accepted(x)
      /\ \A x, y : Before(x, y)' <=> Before(x, y)
  BY <1>1 DEF Accepted, Before
<1>3. ClaimOrder'
  BY <1>1 DEF OrderInv, ClaimOrder
<1>4. ASSUME NEW y \in Conns, y = unclaimed'
      PROVE  /\ Accepted(y)
             /\ \A i \in 1 .. Len(claimed), x \in Conns : claimed[i] = x => Before(x, y)
  <2>1. y = nxt[unclaimed] BY <1>1, <1>4, ServerAssumption
  <2>2. Before(unclaimed, y) BY <1>1, <2>1 DEF OrderInv
  <2>3. Accepted(y) BY <2>2 DEF Before, Accepted
  <2>4. ASSUME NEW i \in 1 .. Len(claimed), NEW x \in Conns, claimed[i] = x
        PROVE  Before(x, y)
    <3>1. Before(x, unclaimed) \/ x = unclaimed BY <1>1, <2>4 DEF OrderInv
    <3>2. QED BY <3>1, <2>2, <1>1, BeforeTransitive
  <2>5. QED BY <2>3, <2>4
<1>5. QED BY <1>1, <1>2, <1>3, <1>4 DEF OrderInv

-----------------------------------------------------------------------------
(* The theorems. *)

LEMMA InitIInv == Init => IInv
<1> SUFFICES ASSUME Init PROVE IInv
  OBVIOUS
<1>1. RefMod \in Nat /\ RefMod > 0
  <2>1. Cardinality(Handles) \in Nat
    BY ServerAssumption, FS_CardinalityType
  <2>2. QED BY <2>1, ServerAssumption
<1>2. TypeOK
  <2>1. refcnt \in [Conns -> 0 .. RefMod - 1]
    BY <1>1 DEF Init
  <2>2. claim \in [on : BOOLEAN, next : Conns \cup {Null}] /\ listening \in BOOLEAN
    BY DEF Init, Idle
  <2>3. accepted \in Seq(Conns) /\ claimed \in Seq(Conns)
    BY DEF Init
  <2>4. QED BY <2>1, <2>2, <2>3 DEF Init, TypeOK
<1>3. \A c \in Conns : Holders(c) = {}
  BY ServerAssumption DEF Init, Holders
<1>4. CountInv
  BY <1>2, <1>3, ServerAssumption DEF Init, CountInv, RefExact, NoDangling
<1>5. ListInv
  BY ServerAssumption DEF Init, ListInv, Fresh, NoneStranded, Idle
<1>6. OrderInv
  BY ServerAssumption DEF Init, OrderInv, Accepted, ClaimOrder
<1>7. QED BY <1>4, <1>5, <1>6 DEF IInv

\* A step that moves an object to a context nobody waits to claim keeps the invariant.
LEMMA MovedKeeps ==
  ASSUME IInv, NEW h \in Handles, NEW new \in Conns \cup {Null, NoObject}, Moved(h, new),
         new \in Conns => ~Fresh(new),
         new \in Conns /\ new = handle[h] /\ Holders(new) = {h} => h \in selfAssigned',
         open' \subseteq {c \in Conns : ctx'[c] = "live"},
         selfAssigned \subseteq selfAssigned', selfAssigned' \subseteq Handles,
         UNCHANGED <<unclaimed, claim, claimed>>, Unchanged
  PROVE  IInv'
<1>1. CountInv BY DEF IInv
<1>2. CountInv'
  <2>1. TypeOK'
    BY <1>1, MovedCounts DEF CountInv, TypeOK, Unchanged
  <2>2. NoDangling'
    BY <1>1, MovedDangling
  <2>3. QED BY <2>1, <2>2, <1>1, MovedCounts DEF CountInv
<1>3. \A x \in Conns : Fresh(x)' <=> Fresh(x)
  BY <1>1, MovedFresh
<1>4. \A x \in Conns : ctx'[x] = "unused" => ctx[x] = "unused"
  BY <1>1, MovedCounts
<1>5. ListInv'
  BY <1>3, <1>4, ListKept DEF IInv, Unchanged
<1>6. OrderInv'
  BY <1>4, OrderKept DEF IInv, Unchanged
<1>7. QED BY <1>2, <1>5, <1>6 DEF IInv

\* A step that only closes connections or starts and stops the server keeps it, too.
LEMMA ClosingKeeps ==
  ASSUME IInv, open' \subseteq open, listening' \in BOOLEAN,
         UNCHANGED <<unclaimed, nxt, refcnt, ctx, handle, claim, accepted, claimed, missed,
                     selfAssigned>>
  PROVE  IInv'
<1>1. \A c \in Conns : Holders(c)' = Holders(c)
  BY DEF Holders
<1>2. \A c \in Conns : Fresh(c)' <=> Fresh(c)
  BY <1>1 DEF Fresh
<1>3. TypeOK'
  BY DEF IInv, CountInv, TypeOK
<1>4. CountInv'
  BY <1>1, <1>3 DEF IInv, CountInv, RefExact, NoDangling
<1>5. ListInv'
  BY <1>2, ListKept DEF IInv
<1>6. OrderInv'
  BY OrderKept DEF IInv
<1>7. QED BY <1>4, <1>5, <1>6 DEF IInv

\* A context that an object holds is not fresh.
LEMMA HeldNotFresh ==
  ASSUME NEW g \in Handles, NEW c, c = handle[g] PROVE ~Fresh(c) /\ g \in Holders(c)
BY DEF Fresh, Holders

LEMMA HoldMoves ==
  ASSUME IInv, NEW h \in Handles, NEW new \in Conns \cup {Null, NoObject}, Hold(h, new),
         handle[h] \in Conns => ctx[handle[h]] = "live",
         new \in Conns => ctx[new] = "live"
  PROVE  Moved(h, new) /\ open' \subseteq {c \in Conns : ctx'[c] = "live"}
<1>1. Moved(h, new)
  BY DEF Hold, Moved
<1>2. open \subseteq {c \in Conns : ctx[c] = "live"}
  BY DEF IInv, CountInv, TypeOK
<1>3. QED BY <1>1, <1>2 DEF Hold

LEMMA AvailableStep == ASSUME IInv, NEW h \in Handles, available(h) PROVE IInv'
<1>1. /\ CountInv /\ unclaimed \in Conns /\ ctx[unclaimed] = "live"
      /\ handle[h] = NoObject /\ Hold(h, unclaimed)
  BY DEF IInv, CountInv, TypeOK, ListInv, Fresh, available
<1>2. Moved(h, unclaimed) /\ open' \subseteq {c \in Conns : ctx'[c] = "live"}
  BY <1>1, HoldMoves, ServerAssumption
<1>3. TypeOK'
  <2>1. claim' \in [on : BOOLEAN, next : Conns \cup {Null}] /\ claimed' \in Seq(Conns)
    BY <1>1 DEF available, CountInv, TypeOK
  <2>2. QED BY <2>1, <1>1, <1>2, MovedCounts DEF available, CountInv, TypeOK, Unchanged
<1>4. NoDangling'
  <2>1. selfAssigned' = selfAssigned /\ unclaimed # handle[h]
    BY <1>1, ServerAssumption DEF available
  <2>2. QED BY <1>1, <1>2, <2>1, MovedDangling
<1>5. CountInv'
  BY <1>1, <1>2, <1>3, <1>4, MovedCounts DEF CountInv
<1>6. /\ \A x \in Conns : Fresh(x)' <=> Fresh(x) /\ x # unclaimed
      /\ \A x \in Conns : ctx'[x] = "unused" => ctx[x] = "unused"
  BY <1>1, <1>2, MovedFresh, MovedCounts
<1>7. QED BY <1>5, <1>6, AvailableList, AvailableOrder DEF IInv

LEMMA ReturnsStep == ASSUME IInv, AvailableReturns PROVE IInv'
<1>1. CountInv'
  <2>1. /\ CountInv /\ unclaimed' = claim.next /\ claim' = Idle
        /\ UNCHANGED <<listening, nxt, refcnt, ctx, open, handle, accepted, claimed, missed,
                       selfAssigned>>
    BY DEF IInv, AvailableReturns, Unchanged
  <2>2. \A c \in Conns : Holders(c)' = Holders(c)
    BY <2>1 DEF Holders
  <2>3. Idle \in [on : BOOLEAN, next : Conns \cup {Null}]
    BY DEF Idle
  <2>4. TypeOK'
    BY <2>1, <2>3 DEF CountInv, TypeOK
  <2>5. QED BY <2>1, <2>2, <2>4 DEF CountInv, RefExact, NoDangling
<1>2. QED BY <1>1, ReturnsList, ReturnsOrder DEF IInv

LEMMA ConstructStep == ASSUME IInv, NEW h \in Handles, Construct(h) PROVE IInv'
<1>1. /\ handle[h] = NoObject /\ NoObject \notin Conns
      /\ UNCHANGED <<unclaimed, claim, claimed, selfAssigned>> /\ Unchanged
      /\ selfAssigned \subseteq Handles
  BY ServerAssumption DEF Construct, IInv, CountInv, TypeOK
<1>2. CASE Hold(h, Null)
  <2>1. Moved(h, Null) /\ open' \subseteq {c \in Conns : ctx'[c] = "live"}
    BY <1>1, <1>2, HoldMoves, ServerAssumption
  <2>2. QED BY <1>1, <2>1, MovedKeeps, ServerAssumption
<1>3. ASSUME NEW g \in Handles, Usable(g), Hold(h, handle[g]) PROVE IInv'
  <2>1. /\ handle[g] \in Conns \cup {Null, NoObject}
        /\ handle[g] \in Conns => ctx[handle[g]] = "live"
    BY <1>3 DEF Usable, IInv, CountInv, TypeOK
  <2>2. Moved(h, handle[g]) /\ open' \subseteq {c \in Conns : ctx'[c] = "live"}
    BY <1>1, <1>3, <2>1, HoldMoves
  <2>3. ~Fresh(handle[g]) BY HeldNotFresh
  <2>4. QED BY <1>1, <2>1, <2>2, <2>3, MovedKeeps
<1>4. QED BY <1>2, <1>3 DEF Construct

LEMMA AssignStep ==
  ASSUME IInv, NEW h \in Handles, NEW g \in Handles, Assign(h, g) PROVE IInv'
<1>1. /\ handle[g] \in Conns \cup {Null, NoObject}
      /\ handle[g] \in Conns => ctx[handle[g]] = "live"
      /\ handle[h] \in Conns => ctx[handle[h]] = "live"
      /\ UNCHANGED <<unclaimed, claim, claimed>> /\ Unchanged
  BY DEF Assign, Usable, IInv, CountInv, TypeOK
<1>2. Moved(h, handle[g]) /\ open' \subseteq {c \in Conns : ctx'[c] = "live"}
  BY <1>1, HoldMoves DEF Assign
<1>3. ~Fresh(handle[g]) /\ g \in Holders(handle[g])
  BY HeldNotFresh
<1>4. /\ selfAssigned \subseteq selfAssigned' /\ selfAssigned' \subseteq Handles
      /\ Holders(handle[g]) = {h} => h \in selfAssigned'
  BY <1>3 DEF Assign, IInv, CountInv, TypeOK
<1>5. QED BY <1>1, <1>2, <1>3, <1>4, MovedKeeps

LEMMA DestroyStep == ASSUME IInv, NEW h \in Handles, Destroy(h) PROVE IInv'
<1>1. /\ handle[h] \in Conns => ctx[handle[h]] = "live"
      /\ UNCHANGED <<unclaimed, claim, claimed, selfAssigned>> /\ Unchanged
      /\ selfAssigned \subseteq Handles
  BY DEF Destroy, Usable, IInv, CountInv, TypeOK
<1>2. Moved(h, NoObject) /\ open' \subseteq {c \in Conns : ctx'[c] = "live"}
  BY <1>1, HoldMoves, ServerAssumption DEF Destroy
<1>3. QED BY <1>1, <1>2, MovedKeeps, ServerAssumption

LEMMA ConnectStep == ASSUME IInv, NEW h \in Handles, connect(h) PROVE IInv'
<1>1. /\ handle[h] \in Conns => ctx[handle[h]] = "live"
      /\ UNCHANGED <<unclaimed, claim, claimed, selfAssigned>> /\ Unchanged
      /\ selfAssigned \subseteq Handles /\ open \subseteq {c \in Conns : ctx[c] = "live"}
  BY DEF connect, Usable, IInv, CountInv, TypeOK
<1>2. CASE ConnectFails(h)
  <2>1. Moved(h, Null)
    BY <1>1, <1>2, ServerAssumption DEF ConnectFails, Moved
  <2>2. open' \subseteq {c \in Conns : ctx'[c] = "live"}
    BY <1>1, <1>2 DEF ConnectFails, Dropped
  <2>3. QED BY <1>1, <2>1, <2>2, MovedKeeps, ServerAssumption
<1>3. ASSUME NEW c \in Conns, ConnectSucceeds(h, c) PROVE IInv'
  <2>1. Moved(h, c) /\ c # handle[h] /\ ~Fresh(c)
    BY <1>1, <1>3 DEF ConnectSucceeds, Moved, Fresh
  <2>2. open' \subseteq {x \in Conns : ctx'[x] = "live"}
    BY <1>1, <1>3 DEF ConnectSucceeds, Dropped
  <2>3. QED BY <1>1, <2>1, <2>2, MovedKeeps
<1>4. QED BY <1>2, <1>3 DEF connect

\* Every step keeps the inductive invariant.
LEMMA NextIInv == IInv /\ [Next]_vars => IInv'
<1> SUFFICES ASSUME IInv, [Next]_vars PROVE IInv'
  OBVIOUS
<1>1. ASSUME NEW c \in Conns, _accept(c) PROVE IInv'
  BY <1>1, AcceptCount, AcceptList, AcceptOrder DEF IInv
<1>2. ASSUME NEW c \in Conns, PeerEnds(c) PROVE IInv'
  BY <1>2, ClosingKeeps DEF PeerEnds, IInv, CountInv, TypeOK
<1>3. CASE begin
  BY <1>3, ClosingKeeps DEF begin
<1>4. CASE close
  BY <1>4, ClosingKeeps DEF close
<1>5. ASSUME NEW h \in Handles, stop(h) PROVE IInv'
  BY <1>5, ClosingKeeps DEF stop, Unchanged, IInv, CountInv, TypeOK
<1>6. CASE stopAll
  BY <1>6, ClosingKeeps DEF stopAll, Unchanged, IInv, CountInv, TypeOK
<1>7. CASE UNCHANGED vars
  BY <1>7, ClosingKeeps DEF vars, IInv, CountInv, TypeOK
<1>8. QED
  BY <1>1, <1>2, <1>3, <1>4, <1>5, <1>6, <1>7, AvailableStep, ReturnsStep, ConstructStep,
     AssignStep, DestroyStep, ConnectStep
  DEF Next

LEMMA Inductive == Spec => []IInv
BY InitIInv, NextIInv, PTL DEF Spec

\* The count of a context is the number of WiFiClient objects that hold it, and no
\* object is left with a deleted one but by an assignment to itself, for any objects
\* and connections and whatever the sketch does (WiFiClient.cpp, ClientContext.h).
THEOREM ContextsCounted == Spec => []ContextsSound
<1>1. IInv => ContextsSound
  BY DEF IInv, CountInv, ContextsSound
<1>2. QED BY <1>1, Inductive, PTL

\* available() hands out each accepted connection at most once and in the order of
\* acceptance, for any number of connections (WiFiServer.cpp).
THEOREM ClaimedInOrder == Spec => []ClaimOrder
<1>1. IInv => ClaimOrder
  BY DEF IInv, OrderInv
<1>2. QED BY <1>1, Inductive, PTL

\* Every connection nobody holds is on the list, but for those appended behind the
\* context that available() was taking as the last one (WiFiServer.cpp).
THEOREM AllReachable == Spec => []NoneStranded
<1>1. IInv => NoneStranded
  BY DEF IInv, ListInv
<1>2. QED BY <1>1, Inductive, PTL
=============================================================================
