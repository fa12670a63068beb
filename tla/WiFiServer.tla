------------------------------ MODULE WiFiServer ------------------------------
(***************************************************************************)
(* TCP connections and the objects that hold them                          *)
(* (libraries/W600WiFi/WiFiServer.cpp, WiFiClient.cpp, ClientContext.h).   *)
(* The TCP/IP task makes a context for every connection the server accepts *)
(* and appends it to the list of unclaimed ones; the sketch's task takes   *)
(* them from the list into WiFiClient objects, which it copies, assigns,   *)
(* stops and destroys.  A context counts the objects that hold it and is   *)
(* deleted with the last one.                                              *)
(*                                                                         *)
(* The TCP/IP task preempts the sketch's: it may accept a connection       *)
(* between the two steps of available().                                   *)
(***************************************************************************)
EXTENDS Integers, Sequences, FiniteSets

CONSTANTS
  Conns,       \* contexts
  Handles,     \* WiFiClient objects
  Null,        \* the null pointer
  NoObject,    \* a WiFiClient that does not exist
  RefMod       \* 2^8: _refcnt is an int8_t

ASSUME ServerAssumption ==
  /\ IsFiniteSet(Conns) /\ IsFiniteSet(Handles) /\ RefMod \in Nat
  /\ Cardinality(Handles) < RefMod
  /\ Null \notin Conns /\ NoObject \notin Conns \cup {Null}

VARIABLES
  listening,   \* whether the server's _pcb is set
  unclaimed,   \* _unclaimed, the first context of the list
  nxt,         \* _next of each context
  refcnt,      \* _refcnt of each context, modulo RefMod
  ctx,         \* "unused", "live" or "deleted"
  open,        \* contexts whose _pcb is set
  handle,      \* _client of each WiFiClient object
  claim,       \* available() in progress: the value of next() it has loaded
  accepted,    \* (history) contexts in the order they were accepted
  claimed,     \* (history) contexts in the order available() returned them
  missed,      \* (history) contexts appended while the list's last one was claimed
  selfAssigned \* (history) objects that were assigned to themselves

vars == <<listening, unclaimed, nxt, refcnt, ctx, open, handle, claim, accepted, claimed,
          missed, selfAssigned>>

Idle == [on |-> FALSE, next |-> Null]

TypeOK ==
  /\ listening \in BOOLEAN
  /\ unclaimed \in Conns \cup {Null} /\ nxt \in [Conns -> Conns \cup {Null}]
  /\ refcnt \in [Conns -> 0 .. RefMod - 1]
  /\ ctx \in [Conns -> {"unused", "live", "deleted"}]
  /\ open \subseteq {c \in Conns : ctx[c] = "live"}
  /\ handle \in [Handles -> Conns \cup {Null, NoObject}]
  /\ claim \in [on : BOOLEAN, next : Conns \cup {Null}]
  /\ accepted \in Seq(Conns) /\ claimed \in Seq(Conns)
  /\ missed \subseteq Conns /\ selfAssigned \subseteq Handles

Init ==
  /\ listening = FALSE /\ unclaimed = Null /\ nxt = [c \in Conns |-> Null]
  /\ refcnt = [c \in Conns |-> 0] /\ ctx = [c \in Conns |-> "unused"] /\ open = {}
  /\ handle = [h \in Handles |-> NoObject] /\ claim = Idle
  /\ accepted = <<>> /\ claimed = <<>> /\ missed = {} /\ selfAssigned = {}

-----------------------------------------------------------------------------
(* The list of unclaimed connections. *)

\* The contexts that next() leads to from a context on: those in every set that holds
\* it and is closed under next().
ListFrom(c) ==
  {d \in Conns : \A S \in SUBSET Conns :
                   c \in S \cup {Null} /\ (\A x \in S : nxt[x] \in S \cup {Null}) => d \in S}

\* (fault) the new context goes to the front
PrependHead(c) == /\ unclaimed' = c /\ nxt' = [nxt EXCEPT ![c] = unclaimed]

\* (fault) the new context replaces the list
ReplaceList(c) == /\ unclaimed' = c /\ nxt' = [nxt EXCEPT ![c] = Null]

\* The context goes behind the last one.
slist_append_tail(c) ==
  IF unclaimed = Null THEN unclaimed' = c /\ nxt' = [nxt EXCEPT ![c] = Null]
  ELSE \E last \in ListFrom(unclaimed) :
         /\ nxt[last] = Null /\ nxt' = [nxt EXCEPT ![last] = c, ![c] = Null]
         /\ UNCHANGED unclaimed

\* A context is made for an accepted connection, in the TCP/IP task.
_accept(c) ==
  /\ listening /\ ctx[c] = "unused"
  /\ ctx' = [ctx EXCEPT ![c] = "live"] /\ open' = open \cup {c}
  /\ slist_append_tail(c)
  /\ accepted' = Append(accepted, c)
  /\ missed' = IF claim.on /\ claim.next = Null THEN missed \cup {c} ELSE missed
  /\ UNCHANGED <<listening, refcnt, handle, claim, claimed, selfAssigned>>

\* The peer ends the connection, which the callbacks of the context abort.
PeerEnds(c) ==
  /\ c \in open /\ open' = open \ {c}
  /\ UNCHANGED <<listening, unclaimed, nxt, refcnt, ctx, handle, claim, accepted, claimed,
                 missed, selfAssigned>>

\* begin: close(), and a new listening pcb, which may fail.  A connection accepted
\* between tcp_accept and tcp_arg, which would find no server, is left out.
begin ==
  /\ ~claim.on /\ listening' \in BOOLEAN
  /\ UNCHANGED <<unclaimed, nxt, refcnt, ctx, open, handle, claim, accepted, claimed, missed,
                 selfAssigned>>

\* close, stop.  The unclaimed connections stay where they are.
close ==
  /\ ~claim.on /\ listening /\ listening' = FALSE
  /\ UNCHANGED <<unclaimed, nxt, refcnt, ctx, open, handle, claim, accepted, claimed, missed,
                 selfAssigned>>

-----------------------------------------------------------------------------
(* Counting the objects of a context. *)

\* The program's behaviour is defined for an object that does not point to a deleted
\* context.
Usable(h) == handle[h] # NoObject /\ (handle[h] \in Conns => ctx[handle[h]] = "live")

\* (fault) an assignment counts the new context only if there was one before
RefIfHeld(old, new) ==
  [c \in Conns |-> (refcnt[c] - (IF c = old THEN 1 ELSE 0)
                              + (IF c = new /\ old # Null THEN 1 ELSE 0)) % RefMod]

\* unref() of one context and ref() of another, in this order; Null and NoObject are
\* no contexts.
Counted(old, new) ==
  [c \in Conns |-> (refcnt[c] - (IF c = old THEN 1 ELSE 0)
                              + (IF c = new THEN 1 ELSE 0)) % RefMod]

\* The contexts that unref() deletes.
Dropped(old) == {c \in {old} \cap Conns : refcnt[c] = 1}

\* An object comes to hold another context: unref, assignment, ref.  A deleted
\* context was closed before.
Hold(h, new) ==
  LET old == handle[h]
  IN /\ handle' = [handle EXCEPT ![h] = new]
     /\ refcnt' = Counted(old, new)
     /\ ctx' = [c \in Conns |-> IF c \in Dropped(old) THEN "deleted" ELSE ctx[c]]
     /\ open' = open \ Dropped(old)

-----------------------------------------------------------------------------
(* The sketch's task. *)

Unchanged == UNCHANGED <<listening, nxt, accepted, missed>>

\* available(): an object for the first context of the list ...
available(h) ==
  /\ ~claim.on /\ unclaimed # Null /\ handle[h] = NoObject
  /\ Hold(h, unclaimed)
  /\ claim' = [on |-> TRUE, next |-> nxt[unclaimed]]
  /\ claimed' = Append(claimed, unclaimed)
  /\ UNCHANGED <<unclaimed, selfAssigned>> /\ Unchanged

\* ... which the list then goes on behind.
AvailableReturns ==
  /\ claim.on /\ claim' = Idle /\ unclaimed' = claim.next
  /\ UNCHANGED <<refcnt, ctx, open, handle, claimed, selfAssigned>> /\ Unchanged

\* The constructors: an object of its own, or a copy of another.
Construct(h) ==
  /\ ~claim.on /\ handle[h] = NoObject
  /\ \/ Hold(h, Null)
     \/ \E g \in Handles : Usable(g) /\ Hold(h, handle[g])
  /\ UNCHANGED <<unclaimed, claim, claimed, selfAssigned>> /\ Unchanged

\* operator=.
Assign(h, g) ==
  /\ ~claim.on /\ Usable(h) /\ Usable(g)
  /\ Hold(h, handle[g])
  /\ selfAssigned' = IF h = g THEN selfAssigned \cup {h} ELSE selfAssigned
  /\ UNCHANGED <<unclaimed, claim, claimed>> /\ Unchanged

Destroy(h) ==
  /\ ~claim.on /\ Usable(h) /\ Hold(h, NoObject)
  /\ UNCHANGED <<unclaimed, claim, claimed, selfAssigned>> /\ Unchanged

\* stop: the connection is closed for every object that holds it.
stop(h) ==
  /\ ~claim.on /\ Usable(h) /\ handle[h] \in open /\ open' = open \ {handle[h]}
  /\ UNCHANGED <<unclaimed, refcnt, ctx, handle, claim, claimed, selfAssigned>> /\ Unchanged

stopAll ==
  /\ ~claim.on /\ \A h \in Handles : handle[h] = NoObject \/ Usable(h)
  /\ open' = open \ {handle[h] : h \in Handles}
  /\ UNCHANGED <<unclaimed, refcnt, ctx, handle, claim, claimed, selfAssigned>> /\ Unchanged

\* connect: the old context is stopped and released, then a new one is made and
\* kept if it gets its connection.
ConnectFails(h) ==
  LET old == handle[h]
  IN /\ handle' = [handle EXCEPT ![h] = Null] /\ refcnt' = Counted(old, Null)
     /\ ctx' = [c \in Conns |-> IF c \in Dropped(old) THEN "deleted" ELSE ctx[c]]
     /\ open' = open \ {old}

ConnectSucceeds(h, new) ==
  LET old == handle[h]
  IN /\ ctx[new] = "unused"
     /\ handle' = [handle EXCEPT ![h] = new] /\ refcnt' = Counted(old, new)
     /\ ctx' = [c \in Conns |-> IF c \in Dropped(old) THEN "deleted"
                                ELSE IF c = new THEN "live" ELSE ctx[c]]
     /\ open' = (open \ {old}) \cup {new}

connect(h) ==
  /\ ~claim.on /\ Usable(h)
  /\ ConnectFails(h) \/ \E c \in Conns : ConnectSucceeds(h, c)
  /\ UNCHANGED <<unclaimed, claim, claimed, selfAssigned>> /\ Unchanged

Next ==
  \/ \E c \in Conns : _accept(c) \/ PeerEnds(c)
  \/ begin \/ close
  \/ \E h \in Handles : \/ available(h) \/ Construct(h) \/ Destroy(h) \/ stop(h) \/ connect(h)
                        \/ \E g \in Handles : Assign(h, g)
  \/ AvailableReturns \/ stopAll

Spec == Init /\ [][Next]_vars

-----------------------------------------------------------------------------
(* Properties *)

Holders(c) == {h \in Handles : handle[h] = c}

\* _refcnt is the number of WiFiClient objects that hold the context.
RefExact == \A c \in Conns : ctx[c] = "live" => refcnt[c] = Cardinality(Holders(c))

\* No object points to a context that was deleted, except one that was assigned to
\* itself: operator= releases the old context before it counts the new one.
NoDangling ==
  \A h \in Handles : handle[h] \in Conns => ctx[handle[h]] = "live" \/ h \in selfAssigned

\* A context lives exactly as long as an object holds it, once it has been claimed,
\* whatever sequence of copies, assignments, stops and connects the sketch makes.
ContextsSound == TypeOK /\ RefExact /\ NoDangling

\* available() hands out each connection once, in the order in which they were
\* accepted, also when the TCP/IP task appends to the list meanwhile.
ClaimOrder ==
  \A i, j \in 1 .. Len(claimed) :
    i < j => \E k, l \in 1 .. Len(accepted) :
               k < l /\ accepted[k] = claimed[i] /\ accepted[l] = claimed[j]

\* A connection that no object holds can still be claimed, unless it was appended
\* behind a context that available() was taking as the last one of the list.
NoneStranded ==
  \A c \in Conns : ctx[c] = "live" /\ Holders(c) = {} => c \in ListFrom(unclaimed) \cup missed
=============================================================================
