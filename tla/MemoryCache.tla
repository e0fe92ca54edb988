---------------------------- MODULE MemoryCache ----------------------------
(***************************************************************************)
(* internal/cache/memory.go: the in-memory response cache, shared by the   *)
(* requests of the gateway.  A request looks its key up; on a miss it      *)
(* calls the provider and stores the response with a time to live.         *)
(*                                                                         *)
(* Get reads the clock first, then the map under the read lock; only when  *)
(* the entry has expired does it take the write lock and look again.  The  *)
(* locks are released in between, so other requests store and evict.       *)
(***************************************************************************)
EXTENDS Integers, FiniteSets

CONSTANTS Keys,       \* cache keys
          Threads,    \* concurrent requests
          Values,     \* response bodies
          TTL,        \* Options.CacheTTL, in ticks
          MaxKeys,    \* NewMemory's argument
          MaxTime,    \* bound: the model's clock stops here
          None        \* no entry

ASSUME TTLAssumption  == TTL \in Nat \ {0}
ASSUME KeysAssumption == MaxKeys \in Int /\ MaxTime \in Nat
ASSUME NoneAssumption == /\ None \notin [value : Values, expires : Nat]
                         /\ None \notin [key : Keys, since : Nat]

\* NewMemory replaces a limit that is not positive.
maxKeys == IF MaxKeys <= 0 THEN 1000 ELSE MaxKeys

VARIABLES
  clock,     \* time.Now()
  entries,   \* the map: key -> Entry, or None where it has no such key
  pc,        \* thread -> idle, or the section of Get or Set it is about to run
  key,       \* thread -> the key of its request
  now,       \* thread -> the time Get read on entry
  result,    \* thread -> the entry Get returned, or None
  entry      \* thread -> the entry Set is given, or None

vars == <<clock, entries, pc, key, now, result, entry>>

Present == {k \in Keys : entries[k] # None}

Expired(e, time) == time > e.expires

Init ==
  /\ clock = 0
  /\ entries = [k \in Keys |-> None]
  /\ pc = [t \in Threads |-> "idle"]
  /\ key \in [Threads -> Keys]
  /\ now = [t \in Threads |-> 0]
  /\ result = [t \in Threads |-> None]
  /\ entry = [t \in Threads |-> None]

-----------------------------------------------------------------------------
\* A request for key k calls Get, which reads the clock.
Get(t, k) ==
  /\ pc[t] = "idle"
  /\ pc' = [pc EXCEPT ![t] = "read"]
  /\ key' = [key EXCEPT ![t] = k]
  /\ now' = [now EXCEPT ![t] = clock]
  /\ result' = [result EXCEPT ![t] = None]
  /\ UNCHANGED <<clock, entries, entry>>

\* Get returns an entry, or misses and the request goes to the provider.
Return(t, e) ==
  /\ pc' = [pc EXCEPT ![t] = IF e = None THEN "fetch" ELSE "idle"]
  /\ result' = [result EXCEPT ![t] = e]

\* Mutation: the expiry is not looked at.
ReadAnything(t) ==
  /\ pc[t] = "read"
  /\ Return(t, entries[key[t]])
  /\ UNCHANGED <<clock, entries, key, now, entry>>

\* Get under the read lock.
Read(t) ==
  LET e == entries[key[t]] IN
  /\ pc[t] = "read"
  /\ IF e # None /\ Expired(e, now[t])
     THEN pc' = [pc EXCEPT ![t] = "recheck"] /\ UNCHANGED result
     ELSE Return(t, e)
  /\ UNCHANGED <<clock, entries, key, now, entry>>

\* Mutation: the entry is deleted without looking at it again.
RecheckDeletes(t) ==
  /\ pc[t] = "recheck"
  /\ Return(t, None) /\ entries' = [entries EXCEPT ![key[t]] = None]
  /\ UNCHANGED <<clock, key, now, entry>>

\* Get under the write lock: a fresh entry was stored in between, or the
\* expired one is deleted, or it is gone already.
Recheck(t) ==
  LET e == entries[key[t]] IN
  /\ pc[t] = "recheck"
  /\ IF e # None /\ ~Expired(e, now[t])
     THEN Return(t, e) /\ UNCHANGED entries
     ELSE Return(t, None) /\ entries' = [entries EXCEPT ![key[t]] = None]
  /\ UNCHANGED <<clock, key, now, entry>>

\* Mutation: the time to live is taken for another unit of time.
FetchedForAges(t, v) ==
  /\ pc[t] = "fetch"
  /\ pc' = [pc EXCEPT ![t] = "set"]
  /\ entry' = [entry EXCEPT ![t] =
                 [value |-> v, expires |-> clock + 1000 * TTL]]
  /\ UNCHANGED <<clock, entries, key, now, result>>

\* The provider answered: the entry gets its expiry before Set is called.
Fetched(t, v) ==
  /\ pc[t] = "fetch"
  /\ pc' = [pc EXCEPT ![t] = "set"]
  /\ entry' = [entry EXCEPT ![t] = [value |-> v, expires |-> clock + TTL]]
  /\ UNCHANGED <<clock, entries, key, now, result>>

\* The provider failed: nothing is stored.
FetchFailed(t) ==
  /\ pc[t] = "fetch"
  /\ pc' = [pc EXCEPT ![t] = "idle"]
  /\ UNCHANGED <<clock, entries, key, now, result, entry>>

\* What Set may leave of the map when it is full: without the expired entries,
\* and, when that does not make room, without one more.
Swept   == [k \in Keys |-> IF entries[k] # None /\ Expired(entries[k], clock)
                           THEN None ELSE entries[k]]
Kept(m) == {k \in Keys : m[k] # None}

\* Mutation: a full cache evicts an entry at random before it looks for expired
\* ones.
EvictedAtRandom ==
  IF Cardinality(Present) < maxKeys THEN {entries}
  ELSE {[entries EXCEPT ![victim] = None] : victim \in Present}

MadeRoom ==
  IF Cardinality(Present) < maxKeys THEN {entries}
  ELSE IF Cardinality(Kept(Swept)) < maxKeys THEN {Swept}
  ELSE {[Swept EXCEPT ![victim] = None] : victim \in Kept(Swept)}

\* Set, under the write lock throughout.
Set(t) ==
  /\ pc[t] = "set"
  /\ \E m \in MadeRoom : entries' = [m EXCEPT ![key[t]] = entry[t]]
  /\ pc' = [pc EXCEPT ![t] = "idle"]
  /\ entry' = [entry EXCEPT ![t] = None]
  /\ UNCHANGED <<clock, key, now, result>>

Tick ==
  /\ clock < MaxTime
  /\ clock' = clock + 1
  /\ UNCHANGED <<entries, pc, key, now, result, entry>>

Next ==
  \/ \E t \in Threads : \/ \E k \in Keys : Get(t, k)
                        \/ Read(t)
                        \/ Recheck(t)
                        \/ \E v \in Values : Fetched(t, v)
                        \/ FetchFailed(t)
                        \/ Set(t)
  \/ Tick

Spec == Init /\ [][Next]_vars

-----------------------------------------------------------------------------
(* Properties *)

TypeOK ==
  LET Entry == [value : Values, expires : 0..(MaxTime + TTL)] \cup {None} IN
  /\ clock \in 0..MaxTime
  /\ entries \in [Keys -> Entry]
  /\ pc \in [Threads -> {"idle", "read", "recheck", "fetch", "set"}]
  /\ key \in [Threads -> Keys]
  /\ now \in [Threads -> 0..MaxTime]
  /\ result \in [Threads -> Entry]
  /\ entry \in [Threads -> Entry]

\* The cache never holds more than its limit, although Set inserts without
\* looking whether eviction made room; and nothing is served past its expiry: a
\* hit is an entry that had not expired when the request entered Get, however
\* long it waited for the locks.
BoundedAndFresh ==
  /\ Cardinality(Present) <= maxKeys
  /\ \A t \in Threads : result[t] # None => result[t].expires >= now[t]

\* "both protect live/hot entries from being dropped incorrectly": an entry
\* that has not expired is removed or replaced only by a Set of its own key or
\* by a Set that finds the cache full of live entries.
LiveEntriesKept ==
  [][\A k \in Keys :
       entries[k] # None /\ ~Expired(entries[k], clock) /\ entries'[k] = None =>
         Cardinality({j \in Present : ~Expired(entries[j], clock)}) >= maxKeys]_vars

\* The two-section Get is a single atomic lookup of a store with a time to
\* live: no miss while a live entry is stored, no hit on a dead one, and no
\* entry lost except to a full store.
Abstract == INSTANCE TTLCache WITH
  store <- entries,
  asked <- [t \in Threads |-> IF pc[t] \in {"read", "recheck"}
                              THEN [key |-> key[t], since |-> now[t]] ELSE None],
  reply <- result

ImplementsTTLCache == Abstract!Spec
=============================================================================
