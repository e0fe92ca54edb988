---------------------------- MODULE CacheProofs -----------------------------
(***************************************************************************)
(* The properties of MemoryCache, proved for any keys, threads, values,    *)
(* limit and time to live, and that it implements TTLCache.                *)
(*                                                                         *)
(* The bound is inductive only together with the finiteness of what is     *)
(* stored.  The refinement needs to know where each thread is: a thread    *)
(* that waits for its lookup has no answer yet, and looks at the map with  *)
(* a clock no later than the cache's.                                      *)
(***************************************************************************)
EXTENDS MemoryCache, FiniteSetTheorems, TLAPS

\* The conjuncts BoundedAndFresh is made of.
Bounded == IsFiniteSet(Present) /\ Cardinality(Present) <= maxKeys
Fresh(t) == result[t] # None => result[t].expires >= now[t]

\* A thread reads the clock before it looks anything up, has no answer while it
\* waits for one, and has an entry to store when it is about to.
ThreadInv(t) ==
  /\ Fresh(t)
  /\ now[t] <= clock
  /\ pc[t] \in {"read", "recheck", "fetch"} => result[t] = None
  /\ pc[t] = "set" => entry[t] # None
  /\ entry[t] # None => entry[t].expires <= clock + TTL

IInv == /\ TypeOK
        /\ Bounded
        /\ \A t \in Threads : ThreadInv(t)

AnEntry == [value : Values, expires : 0..(MaxTime + TTL)]

-----------------------------------------------------------------------------
LEMMA LimitPositive == maxKeys \in Nat /\ maxKeys >= 1
BY KeysAssumption DEF maxKeys

LEMMA NoneIsNoEntry == \A e \in AnEntry : e # None
<1>1. MaxTime + TTL \in Nat
  BY KeysAssumption, TTLAssumption
<1>2. AnEntry \subseteq [value : Values, expires : Nat]
  BY <1>1 DEF AnEntry
<1> QED BY <1>2, NoneAssumption

\* What Set leaves of the map: less than before, and room for one entry.
LEMMA RoomIsMade ==
  ASSUME TypeOK, Bounded, NEW m \in MadeRoom
  PROVE  /\ m \in [Keys -> AnEntry \cup {None}]
         /\ IsFiniteSet(Kept(m)) /\ Cardinality(Kept(m)) < maxKeys
         /\ Kept(m) \subseteq Present
         /\ \A k \in Keys : m[k] # None => m[k] = entries[k]
<1>0. /\ entries \in [Keys -> AnEntry \cup {None}]
      /\ IsFiniteSet(Present) /\ Cardinality(Present) \in Nat
      /\ Cardinality(Present) <= maxKeys
      /\ Present = Kept(entries)
  BY FS_CardinalityType DEF TypeOK, AnEntry, Bounded, Present, Kept
<1>1. /\ Swept \in [Keys -> AnEntry \cup {None}]
      /\ \A k \in Keys : Swept[k] # None => Swept[k] = entries[k]
  BY <1>0 DEF Swept
<1>2. /\ Kept(Swept) \subseteq Present /\ IsFiniteSet(Kept(Swept))
      /\ Cardinality(Kept(Swept)) \in Nat
      /\ Cardinality(Kept(Swept)) <= maxKeys
  <2>1. Kept(Swept) \subseteq Present
    BY <1>1 DEF Kept, Present
  <2>2. /\ IsFiniteSet(Kept(Swept))
        /\ Cardinality(Kept(Swept)) <= Cardinality(Present)
    BY <1>0, <2>1, FS_Subset
  <2>3. Cardinality(Kept(Swept)) \in Nat
    BY <2>2, FS_CardinalityType
  <2> QED BY <1>0, <2>1, <2>2, <2>3, LimitPositive
<1>3. CASE Cardinality(Present) < maxKeys
  <2>1. m = entries
    BY <1>3 DEF MadeRoom
  <2> QED BY <1>0, <1>3, <2>1
<1>4. CASE ~(Cardinality(Present) < maxKeys) /\ Cardinality(Kept(Swept)) < maxKeys
  <2>1. m = Swept
    BY <1>4 DEF MadeRoom
  <2> QED BY <1>1, <1>2, <1>4, <2>1
<1>5. CASE /\ ~(Cardinality(Present) < maxKeys)
           /\ ~(Cardinality(Kept(Swept)) < maxKeys)
  <2>1. PICK victim \in Kept(Swept) : m = [Swept EXCEPT ![victim] = None]
    BY <1>5 DEF MadeRoom
  <2>2. /\ m \in [Keys -> AnEntry \cup {None}]
        /\ \A k \in Keys : m[k] # None => m[k] = entries[k]
        /\ Kept(m) = Kept(Swept) \ {victim}
    BY <1>1, <2>1 DEF Kept
  <2>3. /\ IsFiniteSet(Kept(Swept) \ {victim})
        /\ Cardinality(Kept(Swept) \ {victim}) = Cardinality(Kept(Swept)) - 1
    BY <1>2, FS_RemoveElement
  <2> QED BY <1>2, <2>2, <2>3, LimitPositive
<1> QED BY <1>3, <1>4, <1>5

\* Removing entries from the map keeps it bounded.
LEMMA FewerStillBounded ==
  ASSUME Bounded, \A k \in Keys : entries'[k] # None => entries[k] # None
  PROVE  Bounded'
<1>1. Present' \subseteq Present
  BY DEF Present
<1>2. Cardinality(Present) \in Nat
  BY FS_CardinalityType DEF Bounded
<1>3. IsFiniteSet(Present') /\ Cardinality(Present') <= Cardinality(Present)
  BY <1>1, FS_Subset DEF Bounded
<1>4. Cardinality(Present') \in Nat
  BY <1>3, FS_CardinalityType
<1> QED BY <1>2, <1>3, <1>4, LimitPositive DEF Bounded

LEMMA SetBounded ==
  ASSUME IInv, NEW t \in Threads, Set(t)
  PROVE  Bounded'
<1>0. TypeOK /\ Bounded /\ entry[t] # None /\ key[t] \in Keys
  BY DEF IInv, ThreadInv, Set, TypeOK
<1>1. PICK m \in MadeRoom : entries' = [m EXCEPT ![key[t]] = entry[t]]
  BY DEF Set
<1>2. /\ m \in [Keys -> AnEntry \cup {None}]
      /\ IsFiniteSet(Kept(m)) /\ Cardinality(Kept(m)) < maxKeys
  BY <1>0, RoomIsMade
<1>3. Present' = Kept(m) \cup {key[t]}
  BY <1>0, <1>1, <1>2 DEF Present, Kept
<1>4. Cardinality(Kept(m)) \in Nat
  BY <1>2, FS_CardinalityType
<1> QED BY <1>2, <1>3, <1>4, FS_AddElement, LimitPositive DEF Bounded

-----------------------------------------------------------------------------
LEMMA InitIInv == Init => IInv
<1> SUFFICES ASSUME Init PROVE IInv
  OBVIOUS
<1>1. TypeOK
  BY KeysAssumption DEF Init, TypeOK
<1>2. Bounded
  <2>1. Present = {}
    BY DEF Init, Present
  <2> QED BY <2>1, FS_EmptySet, LimitPositive DEF Bounded
<1>3. ASSUME NEW t \in Threads PROVE ThreadInv(t)
  BY DEF Init, ThreadInv, Fresh
<1> QED BY <1>1, <1>2, <1>3 DEF IInv

LEMMA TypeKept == IInv /\ [Next]_vars => TypeOK'
<1> SUFFICES ASSUME IInv, [Next]_vars PROVE TypeOK'
  OBVIOUS
<1> USE DEF TypeOK
<1>0. TypeOK
  BY DEF IInv
<1>1. ASSUME NEW t \in Threads, NEW k \in Keys, Get(t, k) PROVE TypeOK'
  BY <1>0, <1>1 DEF Get
<1>2. ASSUME NEW t \in Threads, Read(t) PROVE TypeOK'
  BY <1>0, <1>2 DEF Read, Return
<1>3. ASSUME NEW t \in Threads, Recheck(t) PROVE TypeOK'
  BY <1>0, <1>3 DEF Recheck, Return
<1>4. ASSUME NEW t \in Threads, NEW v \in Values, Fetched(t, v) PROVE TypeOK'
  <2>1. clock + TTL \in 0..(MaxTime + TTL)
    BY <1>0, KeysAssumption, TTLAssumption
  <2>2. [value |-> v, expires |-> clock + TTL]
          \in [value : Values, expires : 0..(MaxTime + TTL)]
    BY <2>1
  <2> QED BY <1>0, <1>4, <2>2 DEF Fetched
<1>5. ASSUME NEW t \in Threads, FetchFailed(t) PROVE TypeOK'
  BY <1>0, <1>5 DEF FetchFailed
<1>6. ASSUME NEW t \in Threads, Set(t) PROVE TypeOK'
  <2>1. PICK m \in MadeRoom : entries' = [m EXCEPT ![key[t]] = entry[t]]
    BY <1>6 DEF Set
  <2>2. m \in [Keys -> AnEntry \cup {None}]
    BY <1>0, RoomIsMade DEF IInv
  <2>3. entries' \in [Keys -> AnEntry \cup {None}]
    BY <1>0, <2>1, <2>2 DEF AnEntry
  <2> QED BY <1>0, <1>6, <2>3 DEF Set, AnEntry
<1>7. CASE Tick
  BY <1>0, <1>7, KeysAssumption DEF Tick
<1>8. CASE UNCHANGED vars
  BY <1>0, <1>8 DEF vars
<1> QED BY <1>1, <1>2, <1>3, <1>4, <1>5, <1>6, <1>7, <1>8 DEF Next

LEMMA BoundKept == IInv /\ [Next]_vars => Bounded'
<1> SUFFICES ASSUME IInv, [Next]_vars PROVE Bounded'
  OBVIOUS
<1>0. Bounded /\ entries \in [Keys -> AnEntry \cup {None}]
  BY DEF IInv, TypeOK, AnEntry
<1>1. ASSUME NEW t \in Threads, Set(t) PROVE Bounded'
  BY <1>1, SetBounded
<1>2. ASSUME NEW t \in Threads, Recheck(t) PROVE Bounded'
  <2>1. \A k \in Keys : entries'[k] # None => entries[k] # None
    BY <1>0, <1>2 DEF Recheck
  <2> QED BY <1>0, <2>1, FewerStillBounded
<1>3. CASE UNCHANGED entries
  BY <1>0, <1>3, FewerStillBounded
<1> QED BY <1>1, <1>2, <1>3
    DEF Next, Get, Read, Fetched, FetchFailed, Tick, vars

LEMMA ThreadKept ==
  ASSUME IInv, [Next]_vars, NEW q \in Threads
  PROVE  ThreadInv(q)'
<1> USE DEF ThreadInv, Fresh
<1>0. TypeOK /\ ThreadInv(q) /\ clock \in Nat
  BY KeysAssumption DEF IInv, TypeOK
<1>1. ASSUME NEW t \in Threads, NEW k \in Keys, Get(t, k) PROVE ThreadInv(q)'
  BY <1>0, <1>1 DEF TypeOK, Get
<1>2. ASSUME NEW t \in Threads, Read(t) PROVE ThreadInv(q)'
  <2>1. entries[key[t]] # None => entries[key[t]].expires \in Int
    BY <1>0, <1>2 DEF TypeOK
  <2>2. now[t] \in Int
    BY <1>0 DEF TypeOK
  <2> QED BY <1>0, <1>2, <2>1, <2>2 DEF TypeOK, Read, Return, Expired
<1>3. ASSUME NEW t \in Threads, Recheck(t) PROVE ThreadInv(q)'
  <2>1. entries[key[t]] # None => entries[key[t]].expires \in Int
    BY <1>0, <1>3 DEF TypeOK
  <2>2. now[t] \in Int
    BY <1>0 DEF TypeOK
  <2> QED BY <1>0, <1>3, <2>1, <2>2 DEF TypeOK, Recheck, Return, Expired
<1>4. ASSUME NEW t \in Threads, NEW v \in Values, Fetched(t, v)
      PROVE  ThreadInv(q)'
  <2>1. [value |-> v, expires |-> clock + TTL] # None
    BY <1>0, TTLAssumption, NoneAssumption
  <2>2. entry' = [entry EXCEPT ![t] = [value |-> v, expires |-> clock + TTL]]
        /\ UNCHANGED <<clock, now, result>>
        /\ pc' = [pc EXCEPT ![t] = "set"]
    BY <1>4 DEF Fetched
  <2>3. CASE q = t
    <3>1. /\ entry'[q] = [value |-> v, expires |-> clock + TTL]
          /\ entry'[q].expires = clock + TTL
      BY <1>0, <2>2, <2>3 DEF TypeOK
    <3> QED BY <1>0, <2>1, <2>2, <2>3, <3>1, TTLAssumption DEF TypeOK
  <2>4. CASE q # t
    BY <1>0, <2>2, <2>4 DEF TypeOK
  <2> QED BY <2>3, <2>4
<1>5. ASSUME NEW t \in Threads, FetchFailed(t) PROVE ThreadInv(q)'
  BY <1>0, <1>5 DEF TypeOK, FetchFailed
<1>6. ASSUME NEW t \in Threads, Set(t) PROVE ThreadInv(q)'
  BY <1>0, <1>6 DEF TypeOK, Set
<1>7. CASE Tick
  <2>1. clock' = clock + 1 /\ now[q] \in Int
    BY <1>0, <1>7 DEF TypeOK, Tick
  <2>2. entry[q] # None => entry[q].expires \in Int
    BY <1>0 DEF TypeOK
  <2> QED BY <1>0, <1>7, <2>1, <2>2, TTLAssumption DEF Tick
<1>8. CASE UNCHANGED vars
  BY <1>0, <1>8 DEF vars
<1> QED BY <1>1, <1>2, <1>3, <1>4, <1>5, <1>6, <1>7, <1>8 DEF Next

LEMMA NextIInv == IInv /\ [Next]_vars => IInv'
BY TypeKept, BoundKept, ThreadKept DEF IInv

LEMMA Invariance == Spec => []IInv
BY InitIInv, NextIInv, PTL DEF Spec

-----------------------------------------------------------------------------
\* Every state has the types the program gives its values.
THEOREM TypeCorrect == Spec => []TypeOK
<1>1. IInv => TypeOK
  BY DEF IInv
<1> QED BY <1>1, Invariance, PTL

\* However many requests store at once, the map stays within its limit, and no
\* request is handed an entry that had expired when it asked.
THEOREM CacheBoundedAndFresh == Spec => []BoundedAndFresh
<1>1. IInv => BoundedAndFresh
  BY DEF IInv, Bounded, ThreadInv, Fresh, BoundedAndFresh
<1> QED BY <1>1, Invariance, PTL

\* What is stored under a key disappears when it has expired, or when a Set finds
\* the cache full of entries that have not.
LEMMA SetKeepsLive ==
  ASSUME IInv, NEW t \in Threads, Set(t), NEW k \in Keys,
         entries[k] # None, ~Expired(entries[k], clock), entries'[k] = None
  PROVE  Cardinality({j \in Present : ~Expired(entries[j], clock)}) >= maxKeys
<1>0. /\ entries \in [Keys -> AnEntry \cup {None}] /\ key[t] \in Keys
      /\ entry[t] # None /\ TypeOK /\ Bounded
  BY DEF IInv, TypeOK, AnEntry, ThreadInv, Set
<1>1. PICK m \in MadeRoom : entries' = [m EXCEPT ![key[t]] = entry[t]]
  BY DEF Set
<1>2. m \in [Keys -> AnEntry \cup {None}]
  BY <1>0, <1>1, RoomIsMade
<1>3. m[k] = None
  BY <1>0, <1>1, <1>2
<1>4. Swept[k] = entries[k]
  BY DEF Swept
<1>5. ~(Cardinality(Present) < maxKeys) /\ ~(Cardinality(Kept(Swept)) < maxKeys)
  BY <1>1, <1>3, <1>4 DEF MadeRoom
<1>6. Kept(Swept) = {j \in Present : ~Expired(entries[j], clock)}
  BY DEF Kept, Swept, Present
<1>7. Kept(Swept) \subseteq Present
  BY <1>6
<1>8. Cardinality(Kept(Swept)) \in Nat
  BY <1>0, <1>7, FS_Subset, FS_CardinalityType DEF Bounded
<1> QED BY <1>5, <1>6, <1>8, LimitPositive

LEMMA StepKeepsLive ==
  ASSUME IInv, [Next]_vars, NEW k \in Keys,
         entries[k] # None, ~Expired(entries[k], clock), entries'[k] = None
  PROVE  Cardinality({j \in Present : ~Expired(entries[j], clock)}) >= maxKeys
<1>0. entries \in [Keys -> AnEntry \cup {None}]
  BY DEF IInv, TypeOK, AnEntry
<1>1. ASSUME NEW t \in Threads, Recheck(t) PROVE FALSE
  <2>1. k = key[t] /\ (entries[k] = None \/ Expired(entries[k], now[t]))
    BY <1>0, <1>1 DEF Recheck
  <2>2. now[t] <= clock /\ now[t] \in Int /\ clock \in Int
        /\ entries[k].expires \in Int
    BY <1>0 DEF IInv, ThreadInv, TypeOK
  <2> QED BY <2>1, <2>2 DEF Expired
<1>2. ASSUME UNCHANGED entries PROVE FALSE
  BY <1>2
<1>3. PICK t \in Threads : Set(t)
  BY <1>1, <1>2 DEF Next, Get, Read, Fetched, FetchFailed, Tick, vars
<1> QED BY <1>3, SetKeepsLive

\* However lookups and stores interleave, an entry that has not expired leaves the
\* cache only to make room in one full of such entries.
LiveKept ==
  \A k \in Keys :
    entries[k] # None /\ ~Expired(entries[k], clock) /\ entries'[k] = None =>
      Cardinality({j \in Present : ~Expired(entries[j], clock)}) >= maxKeys

THEOREM LiveEntriesStay == Spec => LiveEntriesKept
<1>1. IInv /\ [Next]_vars => LiveKept
  BY StepKeepsLive DEF LiveKept
<1>2. Spec => [][LiveKept]_vars
  BY <1>1, Invariance, PTL DEF Spec
<1> QED BY <1>2 DEF LiveEntriesKept, LiveKept

-----------------------------------------------------------------------------
(* The refinement *)

\* The lookup a thread waits for, as TTLCache sees it.
Waits(t) == pc[t] \in {"read", "recheck"}
Asked == [t \in Threads |-> IF Waits(t) THEN [key |-> key[t], since |-> now[t]]
                            ELSE None]

LEMMA AskedIsSome ==
  ASSUME TypeOK, NEW t \in Threads
  PROVE  /\ Waits(t)  => Asked[t] = [key |-> key[t], since |-> now[t]]
                         /\ Asked[t] # None
         /\ ~Waits(t) => Asked[t] = None
<1>1. key[t] \in Keys /\ now[t] \in Nat
  BY DEF TypeOK
<1> QED BY <1>1, NoneAssumption DEF Asked

\* The operator TTLCache counts with is the one MemoryCache counts with.
LEMMA SameCardinality ==
  \A S : Abstract!Cardinality(S) = Cardinality(S)
BY DEF Abstract!Cardinality, Cardinality

LEMMA InitRefines == Init => Abstract!Init
<1> SUFFICES ASSUME Init PROVE Abstract!Init
  OBVIOUS
<1>1. [t \in Threads |-> IF pc[t] \in {"read", "recheck"}
                         THEN [key |-> key[t], since |-> now[t]] ELSE None]
      = [t \in Threads |-> None]
  BY DEF Init
<1> QED BY <1>1 DEF Init, Abstract!Init

\* A step that leaves what a thread asked, what it got and the store alone.
LEMMA Stutters ==
  ASSUME UNCHANGED <<clock, entries, result>>, Asked' = Asked
  PROVE  UNCHANGED Abstract!vars
BY DEF Abstract!vars, Asked, Waits

LEMMA GetAsks ==
  ASSUME IInv, NEW t \in Threads, NEW k \in Keys, Get(t, k)
  PROVE  Abstract!Ask(t, k)
<1>1. TypeOK /\ ~Waits(t)
  BY DEF IInv, Get, Waits
<1>2. Asked[t] = None
  BY <1>1, AskedIsSome
<1>3. Asked' = [Asked EXCEPT ![t] = [key |-> k, since |-> clock]]
  BY <1>1 DEF Get, Asked, Waits, TypeOK
<1> QED BY <1>2, <1>3 DEF Abstract!Ask, Get, Asked, Waits

\* The read section answers, unless it finds an expired entry.
LEMMA ReadAnswers ==
  ASSUME IInv, NEW t \in Threads, Read(t)
  PROVE  Abstract!Hit(t) \/ Abstract!Miss(t) \/ UNCHANGED Abstract!vars
<1> DEFINE e == entries[key[t]]
<1>0. /\ TypeOK /\ pc[t] = "read" /\ Waits(t)
      /\ UNCHANGED <<clock, entries, key, now>>
  BY DEF IInv, Read, Waits
<1>1. Asked[t] = [key |-> key[t], since |-> now[t]] /\ Asked[t] # None
  BY <1>0, AskedIsSome
<1>2. CASE e # None /\ Expired(e, now[t])
  <2>1. pc' = [pc EXCEPT ![t] = "recheck"] /\ UNCHANGED result
    BY <1>2 DEF Read
  <2>2. Asked' = Asked
    BY <1>0, <2>1 DEF Asked, Waits, TypeOK
  <2> QED BY <1>0, <2>1, <2>2, Stutters
<1>3. CASE ~(e # None /\ Expired(e, now[t]))
  <2>1. Return(t, e)
    BY <1>3 DEF Read
  <2>2. Asked' = [Asked EXCEPT ![t] = None]
    BY <1>0, <2>1 DEF Return, Asked, Waits, TypeOK
  <2>3. result' = [result EXCEPT ![t] = e]
    BY <2>1 DEF Return
  <2>4. CASE e = None
    BY <1>0, <1>1, <2>2, <2>3, <2>4
    DEF Abstract!Miss, Abstract!Live, Asked, Waits
  <2>5. CASE e # None
    <3>1. e.expires >= now[t]
      BY <1>0, <1>3, <2>5 DEF Expired, TypeOK
    <3> QED BY <1>0, <1>1, <2>2, <2>3, <2>5, <3>1
            DEF Abstract!Hit, Asked, Waits
  <2> QED BY <2>4, <2>5
<1> QED BY <1>2, <1>3

\* The write section answers with what it finds there now.
LEMMA RecheckAnswers ==
  ASSUME IInv, NEW t \in Threads, Recheck(t)
  PROVE  Abstract!Hit(t) \/ Abstract!Miss(t)
<1> DEFINE e == entries[key[t]]
<1>0. /\ TypeOK /\ pc[t] = "recheck" /\ Waits(t)
      /\ UNCHANGED <<clock, key, now>> /\ now[t] <= clock
  BY DEF IInv, Recheck, Waits, ThreadInv
<1>1. Asked[t] = [key |-> key[t], since |-> now[t]] /\ Asked[t] # None
  BY <1>0, AskedIsSome
<1>2. CASE e # None /\ ~Expired(e, now[t])
  <2>1. Return(t, e) /\ UNCHANGED entries
    BY <1>2 DEF Recheck
  <2>2. Asked' = [Asked EXCEPT ![t] = None]
    BY <1>0, <2>1 DEF Return, Asked, Waits, TypeOK
  <2>3. result' = [result EXCEPT ![t] = e]
    BY <2>1 DEF Return
  <2>4. e.expires >= now[t]
    BY <1>0, <1>2 DEF Expired, TypeOK
  <2> QED BY <1>0, <1>1, <1>2, <2>1, <2>2, <2>3, <2>4
          DEF Abstract!Hit, Asked, Waits
<1>3. CASE ~(e # None /\ ~Expired(e, now[t]))
  <2>1. Return(t, None) /\ entries' = [entries EXCEPT ![key[t]] = None]
    BY <1>3 DEF Recheck
  <2>2. Asked' = [Asked EXCEPT ![t] = None]
    BY <1>0, <2>1 DEF Return, Asked, Waits, TypeOK
  <2>3. result' = [result EXCEPT ![t] = None]
    BY <2>1 DEF Return
  <2>4. ~(e # None /\ e.expires >= clock)
    BY <1>0, <1>3 DEF Expired, TypeOK
  <2> QED BY <1>0, <1>1, <2>1, <2>2, <2>3, <2>4
          DEF Abstract!Miss, Abstract!Live, Asked, Waits
<1> QED BY <1>2, <1>3

\* What Set drops is expired, or is one entry of a full cache.
LEMMA SetPuts ==
  ASSUME IInv, NEW t \in Threads, Set(t)
  PROVE  \E v \in Values, x \in 0..(clock + TTL) :
           Abstract!Put(key[t], [value |-> v, expires |-> x])
<1> DEFINE dropped(m) == {j \in Present : m[j] = None}
           live == {s \in Present : entries[s] # None /\ entries[s].expires >= clock}
<1>0. /\ TypeOK /\ Bounded /\ entry[t] # None /\ key[t] \in Keys
      /\ pc[t] = "set" /\ UNCHANGED <<clock, key, now, result>>
      /\ entries \in [Keys -> AnEntry \cup {None}]
  BY DEF IInv, ThreadInv, TypeOK, Set, AnEntry
<1>1. PICK m \in MadeRoom : entries' = [m EXCEPT ![key[t]] = entry[t]]
  BY DEF Set
<1>2. /\ m \in [Keys -> AnEntry \cup {None}]
      /\ \A k \in Keys : m[k] # None => m[k] = entries[k]
  BY <1>0, <1>1, RoomIsMade
<1>3. PICK v \in Values, x \in 0..(clock + TTL) :
        entry[t] = [value |-> v, expires |-> x]
  <2>1. entry[t] \in AnEntry /\ entry[t].expires <= clock + TTL
    BY <1>0 DEF IInv, ThreadInv, TypeOK, AnEntry
  <2>2. entry[t].expires \in 0..(clock + TTL) /\ entry[t].value \in Values
    BY <1>0, <2>1, KeysAssumption, TTLAssumption DEF AnEntry, TypeOK
  <2>3. entry[t] = [value |-> entry[t].value, expires |-> entry[t].expires]
    BY <2>1 DEF AnEntry
  <2> QED BY <2>2, <2>3
<1>4. entries' = [s \in Keys |-> CASE s = key[t] -> entry[t]
                                   [] s \in dropped(m) \ {key[t]} -> None
                                   [] OTHER -> entries[s]]
  BY <1>0, <1>1, <1>2 DEF Present
<1>5. \/ \A d \in dropped(m) : ~(entries[d] # None /\ entries[d].expires >= clock)
      \/ Cardinality(dropped(m)) = 1 /\ Cardinality(live) >= maxKeys
  <2>1. CASE Cardinality(Present) < maxKeys
    BY <1>1, <2>1 DEF MadeRoom, Present
  <2>2. CASE ~(Cardinality(Present) < maxKeys)
             /\ Cardinality(Kept(Swept)) < maxKeys
    <3>1. m = Swept
      BY <1>1, <2>2 DEF MadeRoom
    <3>2. ASSUME NEW d \in dropped(m) PROVE ~(entries[d].expires >= clock)
      <4>1. d \in Keys /\ entries[d] # None /\ Expired(entries[d], clock)
        BY <3>1, <3>2 DEF Swept, Present
      <4>2. entries[d].expires \in Int /\ clock \in Int
        BY <1>0, <4>1 DEF AnEntry, TypeOK
      <4> QED BY <4>1, <4>2 DEF Expired
    <3> QED BY <3>2
  <2>3. CASE /\ ~(Cardinality(Present) < maxKeys)
             /\ ~(Cardinality(Kept(Swept)) < maxKeys)
    <3>1. PICK victim \in Kept(Swept) : m = [Swept EXCEPT ![victim] = None]
      BY <1>1, <2>3 DEF MadeRoom
    <3>2. Kept(Swept) \subseteq Present
      BY DEF Kept, Swept, Present
    <3>3. /\ Cardinality(Present) \in Nat /\ Cardinality(Present) <= maxKeys
          /\ IsFiniteSet(Present)
      BY <1>0, FS_CardinalityType DEF Bounded
    <3>4. /\ IsFiniteSet(Kept(Swept)) /\ Cardinality(Kept(Swept)) \in Nat
          /\ Cardinality(Kept(Swept)) <= Cardinality(Present)
      BY <3>2, <3>3, FS_Subset, FS_CardinalityType
    <3>5. Cardinality(Kept(Swept)) = Cardinality(Present)
      BY <2>3, <3>3, <3>4, LimitPositive
    <3>6. Kept(Swept) = Present
      BY <3>2, <3>3, <3>5, FS_Subset
    <3>7. \A s \in Present : ~Expired(entries[s], clock) /\ s \in Keys
                             /\ Swept[s] = entries[s] /\ entries[s] # None
      BY <3>6 DEF Kept, Swept, Present
    <3>8. live = Present
      BY <1>0, <3>7 DEF Expired, TypeOK, AnEntry
    <3>9. dropped(m) = {victim}
      BY <3>1, <3>2, <3>7 DEF Swept
    <3>10. Cardinality(dropped(m)) = 1
      BY <3>9, FS_Singleton
    <3>11. Cardinality(Present) >= maxKeys
      BY <2>3, <3>3, LimitPositive
    <3>12. Cardinality(live) = Cardinality(Present)
      BY <3>8, Zenon
    <3>13. Cardinality(live) >= maxKeys
      <4> HIDE DEF live
      <4> QED BY <3>11, <3>12
    <3> QED BY <3>10, <3>13
  <2> QED BY <2>1, <2>2, <2>3
<1>6. Asked' = Asked
  BY <1>0 DEF Set, Asked, Waits, TypeOK
<1>7. Abstract!Put(key[t], entry[t])
  <2> DEFINE gone == dropped(m)
  <2>1. gone \in SUBSET Abstract!Stored
    BY DEF Abstract!Stored, Present
  <2>2. live = {s \in Abstract!Stored : Abstract!Live(entries[s])}
    BY DEF Abstract!Stored, Abstract!Live, Present
  <2>3. \/ \A d \in gone : ~Abstract!Live(entries[d])
        \/ /\ Abstract!Cardinality(gone) = 1
           /\ Abstract!Cardinality(
                {s \in Abstract!Stored : Abstract!Live(entries[s])}) >= maxKeys
    BY <1>5, <2>2, SameCardinality DEF Abstract!Live
  <2>4. entries' = [s \in Keys |-> CASE s = key[t] -> entry[t]
                                     [] s \in gone \ {key[t]} -> None
                                     [] OTHER -> entries[s]]
    BY <1>4
  <2> HIDE DEF gone
  <2> QED BY <1>0, <1>6, <2>1, <2>3, <2>4 DEF Abstract!Put, Asked, Waits
<1> QED BY <1>3, <1>7

LEMMA StepRefines ==
  ASSUME IInv, [Next]_vars
  PROVE  [Abstract!Next]_(Abstract!vars)
<1>0. TypeOK
  BY DEF IInv
<1>1. ASSUME NEW t \in Threads, NEW k \in Keys, Get(t, k)
      PROVE  Abstract!Next
  BY <1>1, GetAsks DEF Abstract!Next
<1>2. ASSUME NEW t \in Threads, Read(t)
      PROVE  Abstract!Next \/ UNCHANGED Abstract!vars
  BY <1>2, ReadAnswers DEF Abstract!Next
<1>3. ASSUME NEW t \in Threads, Recheck(t) PROVE Abstract!Next
  BY <1>3, RecheckAnswers DEF Abstract!Next
<1>4. ASSUME NEW t \in Threads,
             (\E v \in Values : Fetched(t, v)) \/ FetchFailed(t)
      PROVE  UNCHANGED Abstract!vars
  <2>1. Asked' = Asked
    BY <1>0, <1>4 DEF Fetched, FetchFailed, Asked, Waits, TypeOK
  <2> QED BY <1>4, <2>1, Stutters DEF Fetched, FetchFailed
<1>5. ASSUME NEW t \in Threads, Set(t) PROVE Abstract!Next
  BY <1>0, <1>5, SetPuts DEF Abstract!Next, TypeOK
<1>6. ASSUME Tick PROVE Abstract!Next
  BY <1>6 DEF Tick, Abstract!Next, Abstract!Pass
<1>7. ASSUME UNCHANGED vars PROVE UNCHANGED Abstract!vars
  BY <1>7, Stutters DEF vars, Asked, Waits
<1> QED BY <1>1, <1>2, <1>3, <1>4, <1>5, <1>6, <1>7 DEF Next

\* The two locked sections of Get, with any stores and evictions between them, are
\* one atomic lookup of a bounded store with a time to live.
THEOREM Refinement == Spec => ImplementsTTLCache
<1>1. IInv /\ [Next]_vars => [Abstract!Next]_(Abstract!vars)
  BY StepRefines
<1> QED BY <1>1, InitRefines, Invariance, PTL
        DEF Spec, Abstract!Spec, ImplementsTTLCache
=============================================================================
