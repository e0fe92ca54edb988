------------------------------ MODULE TTLCache ------------------------------
(***************************************************************************)
(* What the response cache promises its callers: a bounded store in which  *)
(* a lookup answers in one atomic step, misses only when no live entry is  *)
(* stored, and hits only with an entry that was live when the lookup began.*)
(* Live entries leave the store only to make room in a full one.           *)
(* MemoryCache implements it.                                              *)
(***************************************************************************)
EXTENDS Naturals, FiniteSets

CONSTANTS Keys, Threads, Values, TTL, maxKeys, None

VARIABLES
  clock,    \* the time
  store,    \* key -> entry [value, expires], or None
  asked,    \* thread -> [key, since] of the lookup it waits for, or None
  reply     \* thread -> the last lookup's answer: an entry, or None

vars == <<clock, store, asked, reply>>

Stored  == {k \in Keys : store[k] # None}
Live(e) == e # None /\ e.expires >= clock

Init ==
  /\ clock = 0
  /\ store = [k \in Keys |-> None]
  /\ asked = [t \in Threads |-> None]
  /\ reply = [t \in Threads |-> None]

Pass == clock' = clock + 1 /\ UNCHANGED <<store, asked, reply>>

Ask(t, k) ==
  /\ asked[t] = None
  /\ asked' = [asked EXCEPT ![t] = [key |-> k, since |-> clock]]
  /\ reply' = [reply EXCEPT ![t] = None]
  /\ UNCHANGED <<clock, store>>

Hit(t) ==
  /\ asked[t] # None
  /\ store[asked[t].key] # None
  /\ store[asked[t].key].expires >= asked[t].since
  /\ reply' = [reply EXCEPT ![t] = store[asked[t].key]]
  /\ asked' = [asked EXCEPT ![t] = None]
  /\ UNCHANGED <<clock, store>>

\* A miss also drops the entry it finds dead.
Miss(t) ==
  /\ asked[t] # None
  /\ ~Live(store[asked[t].key])
  /\ reply' = [reply EXCEPT ![t] = None]
  /\ asked' = [asked EXCEPT ![t] = None]
  /\ store' \in {store, [store EXCEPT ![asked[t].key] = None]}
  /\ UNCHANGED clock

\* Storing an entry drops dead entries, and one live entry if none is dead and
\* the store is full.
Put(k, e) ==
  \E dropped \in SUBSET Stored :
    /\ \/ \A d \in dropped : ~Live(store[d])
       \/ /\ Cardinality(dropped) = 1
          /\ Cardinality({s \in Stored : Live(store[s])}) >= maxKeys
    /\ store' = [s \in Keys |-> CASE s = k          -> e
                                  [] s \in dropped \ {k} -> None
                                  [] OTHER          -> store[s]]
    /\ UNCHANGED <<clock, asked, reply>>

Next ==
  \/ Pass
  \/ \E t \in Threads : (\E k \in Keys : Ask(t, k)) \/ Hit(t) \/ Miss(t)
  \/ \E k \in Keys, v \in Values, x \in 0..(clock + TTL) :
       Put(k, [value |-> v, expires |-> x])

Spec == Init /\ [][Next]_vars
=============================================================================
