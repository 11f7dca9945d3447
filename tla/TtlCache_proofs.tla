--------------------------- MODULE TtlCache_proofs --------------------------
(***************************************************************************)
(* Theorems of TtlCache, for any keys, values, TTL and size: the store     *)
(* never outgrows its capacity, gives up only the oldest entry, and        *)
(* implements the lossy map of CacheContract.                              *)
(***************************************************************************)
EXTENDS TtlCache, FiniteSetTheorems, TLAPS

\* Two entries of s never have the same place.
Distinct(s) == \A j, k \in DOMAIN s : s[j].rank = s[k].rank => j = k

LEMMA CapacityNat == Capacity \in Nat \ {0}
BY EntriesAssumption DEF Capacity

LEMMA Finite ==
  ASSUME NEW S, S \subseteq Keys
  PROVE  IsFiniteSet(S) /\ Cardinality(S) \in Nat
BY KeysAssumption, FS_Subset, FS_CardinalityType

LEMMA OneMore ==
  ASSUME NEW S, S \subseteq Keys, NEW x \in Keys
  PROVE  Cardinality(S \cup {x}) <= Cardinality(S) + 1
<1>1. IsFiniteSet(S) /\ Cardinality(S) \in Nat
  BY Finite
<1>2. Cardinality(S \cup {x}) = IF x \in S THEN Cardinality(S) ELSE Cardinality(S) + 1
  BY <1>1, FS_AddElement
<1> QED BY <1>1, <1>2

\* An older entry has more newer ones than a newer entry.
LEMMA NewerCounts ==
  ASSUME NEW s, IsStore(s), NEW j \in DOMAIN s, NEW k \in DOMAIN s, s[j].rank < s[k].rank
  PROVE  Cardinality(Newer(s, k)) < Cardinality(Newer(s, j))
<1>1. s[j].rank \in Nat /\ s[k].rank \in Nat /\ \A i \in DOMAIN s : s[i].rank \in Nat
  BY DEF IsStore
<1>2. Newer(s, k) \subseteq Newer(s, j) /\ k \in Newer(s, j) /\ k \notin Newer(s, k)
  BY <1>1 DEF Newer
<1>3. Newer(s, j) \subseteq Keys /\ Newer(s, k) \subseteq Keys
  BY DEF Newer, IsStore
<1>4. /\ IsFiniteSet(Newer(s, j))
      /\ Cardinality(Newer(s, j)) \in Nat /\ Cardinality(Newer(s, k)) \in Nat
  BY <1>3, Finite
<1>5. /\ Cardinality(Newer(s, k)) <= Cardinality(Newer(s, j))
      /\ Cardinality(Newer(s, j)) = Cardinality(Newer(s, k)) => Newer(s, j) = Newer(s, k)
  BY <1>2, <1>4, FS_Subset
<1>6. Cardinality(Newer(s, j)) # Cardinality(Newer(s, k))
  BY <1>2, <1>5
<1> QED BY <1>4, <1>5, <1>6

\* After the loop there is room for one more entry: counting the newer ones tells
\* the entries that stay apart, by less than Capacity - 1.
LEMMA RoomMade ==
  ASSUME NEW s, IsStore(s), Distinct(s)
  PROVE  Cardinality(DOMAIN MakeRoom(s)) <= Capacity - 1
<1> DEFINE D == DOMAIN MakeRoom(s)
           f == [j \in D |-> Cardinality(Newer(s, j))]
           T == 0..(Capacity - 2)
<1>0. Capacity \in Nat \ {0}
  BY CapacityNat
<1>1. D = {j \in DOMAIN s : Cardinality(Newer(s, j)) < Capacity - 1}
  BY DEF MakeRoom
<1>2. \A j \in D : Cardinality(Newer(s, j)) \in Nat
  <2> SUFFICES ASSUME NEW j \in D PROVE Cardinality(Newer(s, j)) \in Nat
    OBVIOUS
  <2>1. Newer(s, j) \subseteq Keys
    BY DEF Newer, IsStore
  <2> QED BY <2>1, Finite
<1>3. \A j, k \in D : f[j] = f[k] => j = k
  <2> SUFFICES ASSUME NEW j \in D, NEW k \in D, f[j] = f[k], j # k PROVE FALSE
    OBVIOUS
  <2>1. j \in DOMAIN s /\ k \in DOMAIN s /\ Cardinality(Newer(s, j)) = Cardinality(Newer(s, k))
    BY <1>1
  <2>2. s[j].rank \in Nat /\ s[k].rank \in Nat /\ s[j].rank # s[k].rank
    BY <2>1 DEF Distinct, IsStore
  <2>3. CASE s[j].rank < s[k].rank
    <3>1. Cardinality(Newer(s, k)) < Cardinality(Newer(s, j))
      BY <2>1, <2>3, NewerCounts
    <3> QED BY <3>1, <2>1, <1>2
  <2>4. CASE s[k].rank < s[j].rank
    <3>1. Cardinality(Newer(s, j)) < Cardinality(Newer(s, k))
      BY <2>1, <2>4, NewerCounts
    <3> QED BY <3>1, <2>1, <1>2
  <2> QED BY <2>2, <2>3, <2>4
<1>4. f \in [D -> T]
  <2>1. \A j \in D : Cardinality(Newer(s, j)) \in T
    BY <1>0, <1>1, <1>2
  <2> QED BY <2>1
<1>5. f \in Injection(D, T)
  BY <1>3, <1>4 DEF Injection, IsInjective
<1>6. IsFiniteSet(T) /\ Cardinality(T) = Capacity - 1
  <2>1. 0 \in Int /\ Capacity - 2 \in Int
    BY <1>0
  <2>2. /\ IsFiniteSet(T)
        /\ Cardinality(T) = IF 0 > Capacity - 2 THEN 0 ELSE Capacity - 2 - 0 + 1
    BY <2>1, FS_Interval
  <2> QED BY <2>2, <1>0
<1>7. Cardinality(D) <= Cardinality(T)
  BY <1>5, <1>6, FS_Injection
<1> QED BY <1>6, <1>7

\* What purge leaves is a part of the store.
LEMMA Purged ==
  ASSUME NEW s, IsStore(s), NEW now
  PROVE  /\ DOMAIN Purge(s, now) = Live(s, now) /\ Live(s, now) \subseteq DOMAIN s
         /\ \A k \in Live(s, now) : Purge(s, now)[k] = s[k]
         /\ IsStore(Purge(s, now))
         /\ Distinct(s) => Distinct(Purge(s, now))
BY DEF Purge, Live, IsStore, Distinct

\* So is what the loop leaves.
LEMMA Kept ==
  ASSUME NEW s, IsStore(s)
  PROVE  /\ DOMAIN MakeRoom(s) \subseteq DOMAIN s
         /\ \A k \in DOMAIN MakeRoom(s) : MakeRoom(s)[k] = s[k]
         /\ IsStore(MakeRoom(s))
         /\ Distinct(s) => Distinct(MakeRoom(s))
BY DEF MakeRoom, IsStore, Distinct

\* What the loop pops is the oldest entry, and only of a store that is full.
LEMMA Popped ==
  ASSUME NEW s, IsStore(s), Distinct(s), Cardinality(DOMAIN s) <= Capacity,
         NEW g \in DOMAIN s \ DOMAIN MakeRoom(s)
  PROVE  /\ Cardinality(DOMAIN s) = Capacity
         /\ \A j \in DOMAIN s \ {g} : s[j].rank > s[g].rank
<1> DEFINE D == DOMAIN s
           N == Newer(s, g)
<1>0. Capacity \in Nat \ {0}
  BY CapacityNat
<1>1. D \subseteq Keys /\ N \subseteq D \ {g} /\ g \in D
  BY DEF Newer, IsStore
<1>2. IsFiniteSet(D) /\ Cardinality(D) \in Nat /\ IsFiniteSet(D \ {g}) /\ Cardinality(N) \in Nat
  BY <1>1, Finite
<1>3. Cardinality(D \ {g}) = Cardinality(D) - 1
  BY <1>1, <1>2, FS_RemoveElement
<1>4. /\ Cardinality(N) <= Cardinality(D \ {g})
      /\ Cardinality(D \ {g}) = Cardinality(N) => D \ {g} = N
  BY <1>1, <1>2, FS_Subset
<1>5. Cardinality(N) >= Capacity - 1
  <2>1. ~ (Cardinality(N) < Capacity - 1)
    BY DEF MakeRoom
  <2> QED BY <2>1, <1>0, <1>2
<1>6. Cardinality(D) = Capacity /\ Cardinality(D \ {g}) = Cardinality(N)
  BY <1>0, <1>2, <1>3, <1>4, <1>5
<1>7. D \ {g} = N
  BY <1>4, <1>6
<1> QED BY <1>6, <1>7 DEF Newer

-----------------------------------------------------------------------------
\* What a set at that instant leaves of the entries that were there.
Leftover(s, now) == MakeRoom(Purge(s, now))

LEMMA LeftoverParts ==
  ASSUME NEW s, IsStore(s), NEW now
  PROVE  /\ IsStore(Leftover(s, now))
         /\ DOMAIN Leftover(s, now) \subseteq Live(s, now)
         /\ \A j \in DOMAIN Leftover(s, now) : Leftover(s, now)[j] = s[j]
<1> DEFINE p == Purge(s, now)
<1>1. /\ IsStore(p) /\ DOMAIN p = Live(s, now) /\ \A j \in DOMAIN p : p[j] = s[j]
  BY Purged
<1> HIDE DEF p
<1>2. /\ IsStore(MakeRoom(p)) /\ DOMAIN MakeRoom(p) \subseteq DOMAIN p
      /\ \A j \in DOMAIN MakeRoom(p) : MakeRoom(p)[j] = p[j]
  BY <1>1, Kept
<1>3. MakeRoom(p) = Leftover(s, now)
  BY DEF Leftover, p
<1> QED BY <1>1, <1>2, <1>3

IsMap(t) == t = [j \in DOMAIN t |-> t[j]]

\* The parts of the store after a set.
LEMMA SetParts ==
  ASSUME IsStore(store), NEW k \in Keys, NEW v \in Values, Set(k, v)
  PROVE  LET kept == Leftover(store, clock)
         IN  /\ DOMAIN store' = DOMAIN kept \cup {k} /\ IsMap(store')
             /\ \A j \in DOMAIN kept \ {k} : store'[j] = store[j]
             /\ store'[k].val = v /\ store'[k].exp = clock + TTL
             /\ store'[k].rank = IF k \in DOMAIN kept THEN store[k].rank ELSE sets
<1> DEFINE kept == Leftover(store, clock)
<1>1. \A j \in DOMAIN kept : kept[j] = store[j]
  BY LeftoverParts
<1>2. store' = [j \in DOMAIN kept \cup {k} |->
                  IF j # k THEN kept[j]
                  ELSE [val |-> v, exp |-> clock + TTL,
                        rank |-> IF k \in DOMAIN kept THEN kept[k].rank ELSE sets]]
  BY DEF Set, Put, Leftover
<1> HIDE DEF kept
<1>3. /\ DOMAIN store' = DOMAIN kept \cup {k}
      /\ \A j \in DOMAIN kept \ {k} : store'[j] = kept[j]
      /\ store'[k].val = v /\ store'[k].exp = clock + TTL
      /\ store'[k].rank = IF k \in DOMAIN kept THEN kept[k].rank ELSE sets
  BY <1>2
<1>4. \A j \in DOMAIN kept \ {k} : store'[j] = store[j]
  BY <1>1, <1>3
<1>5. store'[k].rank = IF k \in DOMAIN kept THEN store[k].rank ELSE sets
  BY <1>1, <1>3
<1>6. IsMap(store')
  BY <1>2 DEF IsMap
<1> QED BY <1>3, <1>4, <1>5, <1>6 DEF kept

\* A set keeps the store within its capacity and its entries in their places.
LEMMA SetKeeps == ASSUME IInv, NEW k \in Keys, NEW v \in Values, Set(k, v) PROVE IInv'
<1> DEFINE kept == Leftover(store, clock)
<1>0. /\ IsStore(store) /\ clock \in Nat /\ sets \in Nat /\ TTL \in Nat /\ Distinct(store)
      /\ Capacity \in Nat \ {0} /\ clock \in 0..MaxTime /\ sets \in 0..MaxSets
      /\ MaxSets \in Nat
      /\ \A j \in DOMAIN store : /\ store[j].val \in Values /\ store[j].exp \in Nat
                                 /\ store[j].rank \in Nat /\ store[j].rank < sets
  BY CapacityNat, BoundsAssumption, TtlAssumption DEF IInv, TypeOK, RanksDistinct, Distinct, IsStore
<1>1. /\ sets < MaxSets /\ sets' = sets + 1 /\ clock' = clock /\ reply' = Nothing
      /\ store' = Put(store, k, v, clock, sets)
  BY DEF Set
<1>2. /\ IsStore(kept) /\ DOMAIN kept \subseteq Live(store, clock)
      /\ DOMAIN store' = DOMAIN kept \cup {k} /\ IsMap(store')
      /\ \A j \in DOMAIN kept \ {k} : store'[j] = store[j]
      /\ store'[k].val = v /\ store'[k].exp = clock + TTL
      /\ store'[k].rank = IF k \in DOMAIN kept THEN store[k].rank ELSE sets
  BY <1>0, LeftoverParts, SetParts
<1>3. Cardinality(DOMAIN kept) <= Capacity - 1
  BY <1>0, Purged, RoomMade DEF Leftover
<1> HIDE DEF kept
<1>4. DOMAIN kept \subseteq DOMAIN store
  BY <1>2 DEF Live
<1>5. TypeOK'
  <2>1. \A j \in DOMAIN store' : /\ store'[j].val \in Values /\ store'[j].exp \in Nat
                                 /\ store'[j].rank \in Nat
    BY <1>0, <1>2, <1>4
  <2>2. IsStore(store)'
    BY <1>0, <1>2, <1>4, <2>1 DEF IsStore, IsMap
  <2> QED BY <1>0, <1>1, <2>1, <2>2 DEF TypeOK
<1>6. CapacityRespected'
  <2>1. IsFiniteSet(DOMAIN kept) /\ Cardinality(DOMAIN kept) \in Nat
    BY <1>2, Finite DEF IsStore
  <2>2. Cardinality(DOMAIN kept \cup {k}) <= Cardinality(DOMAIN kept) + 1
    BY <1>2, OneMore DEF IsStore
  <2>3. Cardinality(DOMAIN kept \cup {k}) \in Nat
    BY <1>2, Finite DEF IsStore
  <2>4. Cardinality(DOMAIN kept \cup {k}) <= Capacity
    BY <1>0, <1>3, <2>1, <2>2, <2>3
  <2> QED BY <1>2, <2>4 DEF CapacityRespected
<1>7. RanksDistinct'
  <2>1. \A j \in DOMAIN store' : store'[j].rank < sets'
    BY <1>0, <1>1, <1>2, <1>4
  <2>2. \A i, j \in DOMAIN store' : store'[i].rank = store'[j].rank => i = j
    BY <1>0, <1>2, <1>4 DEF Distinct
  <2> QED BY <2>1, <2>2 DEF RanksDistinct
<1> QED BY <1>5, <1>6, <1>7 DEF IInv

\* A get only purges.
LEMMA GetKeeps == ASSUME IInv, NEW k \in Keys, Get(k) PROVE IInv'
<1>0. /\ IsStore(store) /\ Distinct(store) /\ Cardinality(DOMAIN store) <= Capacity
      /\ Capacity \in Nat
      /\ \A j \in DOMAIN store : store[j].val \in Values /\ store[j].rank < sets
  BY CapacityNat
     DEF IInv, TypeOK, CapacityRespected, RanksDistinct, Distinct
<1>1. /\ store' = Purge(store, clock) /\ UNCHANGED <<clock, sets>>
      /\ reply' = IF k \in DOMAIN store' THEN store'[k].val ELSE Nothing
  BY DEF Get
<1>2. /\ DOMAIN store' \subseteq DOMAIN store /\ IsStore(store') /\ Distinct(store')
      /\ \A j \in DOMAIN store' : store'[j] = store[j]
  BY <1>0, <1>1, Purged
<1>3. TypeOK'
  BY <1>0, <1>1, <1>2 DEF TypeOK, IInv, IsStore
<1>4. CapacityRespected'
  <2>1. /\ IsFiniteSet(DOMAIN store) /\ Cardinality(DOMAIN store) \in Nat
        /\ Cardinality(DOMAIN store') \in Nat
    BY <1>0, <1>2, Finite DEF IsStore
  <2>2. Cardinality(DOMAIN store') <= Cardinality(DOMAIN store)
    BY <1>2, <2>1, FS_Subset
  <2>3. Cardinality(DOMAIN store') <= Capacity
    BY <1>0, <2>1, <2>2
  <2> QED BY <2>3 DEF CapacityRespected
<1>5. RanksDistinct'
  BY <1>0, <1>1, <1>2 DEF RanksDistinct, Distinct
<1> QED BY <1>3, <1>4, <1>5 DEF IInv

LEMMA InitGood == Init => IInv
<1> SUFFICES ASSUME Init PROVE IInv
  OBVIOUS
<1>1. store = [k \in {} |-> 0] /\ DOMAIN store = {} /\ clock = 0 /\ sets = 0 /\ reply = Nothing
  BY DEF Init, Empty
<1>2. TypeOK
  BY <1>1, BoundsAssumption DEF TypeOK, IsStore
<1>3. CapacityRespected
  <2>1. Cardinality({}) = 0
    BY FS_EmptySet
  <2> QED BY <1>1, <2>1, CapacityNat DEF CapacityRespected
<1>4. RanksDistinct
  BY <1>1 DEF RanksDistinct
<1> QED BY <1>2, <1>3, <1>4 DEF IInv

LEMMA NextKeeps == IInv /\ [Next]_vars => IInv'
<1> SUFFICES ASSUME IInv, [Next]_vars PROVE IInv'
  OBVIOUS
<1>1. ASSUME NEW k \in Keys, Get(k) PROVE IInv'
  BY <1>1, GetKeeps
<1>2. ASSUME NEW k \in Keys, NEW v \in Values, Set(k, v) PROVE IInv'
  BY <1>2, SetKeeps
<1>3. CASE Tick
  <2>1. UNCHANGED <<store, sets, reply>> /\ clock' \in 0..MaxTime
    BY <1>3, BoundsAssumption DEF Tick, IInv, TypeOK
  <2> QED BY <2>1 DEF IInv, TypeOK, IsStore, CapacityRespected, RanksDistinct
<1>4. CASE UNCHANGED vars
  BY <1>4 DEF vars, IInv, TypeOK, IsStore, CapacityRespected, RanksDistinct
<1> QED BY <1>1, <1>2, <1>3, <1>4 DEF Next

LEMMA Inductive == Spec => []IInv
BY InitGood, NextKeeps, PTL DEF Spec

-----------------------------------------------------------------------------
(***************************************************************************)
(* Each step as the lossy map sees it.                                     *)
(***************************************************************************)
LEMMA InitMaps == ASSUME Init PROVE Contract!Init
<1>1. DOMAIN store = {} /\ clock = 0 /\ reply = Nothing
  BY DEF Init, Empty
<1>2. Live(store, clock) = {}
  BY <1>1 DEF Live
<1>3. Remembered = [k \in {} |-> 0]
  BY <1>2 DEF Remembered
<1> QED BY <1>1, <1>3 DEF Contract!Init

\* A purge is not seen.
LEMMA GetMaps == ASSUME IInv, NEW k \in Keys, Get(k) PROVE Contract!Get(k)
<1>1. /\ store' = Purge(store, clock) /\ UNCHANGED clock
      /\ reply' = IF k \in DOMAIN store' THEN store'[k].val ELSE Nothing
  BY DEF Get
<1>2. /\ DOMAIN store' = Live(store, clock)
      /\ \A j \in DOMAIN store' : store'[j] = store[j]
  BY <1>1, Purged DEF IInv, TypeOK
<1>3. Live(store, clock)' = Live(store, clock)
  BY <1>1, <1>2 DEF Live
<1>4. Remembered' = Remembered
  BY <1>2, <1>3 DEF Remembered
<1>5. /\ DOMAIN Remembered = Live(store, clock)
      /\ \A j \in DOMAIN Remembered : Remembered[j].val = store[j].val
  BY DEF Remembered
<1>6. reply' = IF k \in DOMAIN Remembered THEN Remembered[k].val ELSE Nothing
  BY <1>1, <1>2, <1>5
<1> QED BY <1>1, <1>4, <1>6 DEF Contract!Get

\* An entry expires when time passes.
LEMMA TickMaps == ASSUME IInv, Tick PROVE Contract!Tick
<1>0. /\ clock' = clock + 1 /\ UNCHANGED <<store, reply>> /\ clock \in Nat /\ TTL \in Nat
      /\ \A k \in DOMAIN store : store[k].exp \in Nat
  BY TtlAssumption DEF Tick, IInv, TypeOK, IsStore
<1> DEFINE m == Remembered
           F == {j \in DOMAIN m : clock' - m[j].at < TTL}
<1>1. /\ DOMAIN m = Live(store, clock)
      /\ \A j \in DOMAIN m : m[j] = [val |-> store[j].val, at |-> store[j].exp - TTL]
  BY DEF Remembered
<1>2. F = Live(store, clock)'
  <2>1. \A j \in DOMAIN m : m[j].at = store[j].exp - TTL
    BY <1>1
  <2> HIDE DEF m
  <2> QED BY <1>0, <1>1, <2>1 DEF Live
<1>3. Remembered' =
        [k \in Live(store, clock)' |-> [val |-> store[k].val, at |-> store[k].exp - TTL]]
  BY <1>0 DEF Remembered
<1> HIDE DEF m
<1>4. [k \in F |-> m[k]] =
        [k \in Live(store, clock)' |-> [val |-> store[k].val, at |-> store[k].exp - TTL]]
  BY <1>1, <1>2
<1>5. Remembered' = [k \in F |-> m[k]]
  BY <1>3, <1>4
<1> QED BY <1>0, <1>5 DEF Contract!Tick, Contract!Fresh, m

\* The entry a set gives up is one that the lossy map may lose.
LEMMA SetMaps ==
  ASSUME IInv, NEW k \in Keys, NEW v \in Values, Set(k, v) PROVE Contract!Set(k, v)
<1> DEFINE p    == Purge(store, clock)
           kept == Leftover(store, clock)
           t    == store'
           live == Live(store, clock)
           gone == live \ DOMAIN kept
           m    == Remembered
<1>0. /\ IsStore(store) /\ clock \in Nat /\ TTL \in Nat \ {0} /\ Distinct(store)
      /\ Capacity \in Nat \ {0} /\ Cardinality(DOMAIN store) <= Capacity
      /\ \A j \in DOMAIN store : store[j].exp \in Nat /\ store[j].rank \in Nat
  BY CapacityNat, TtlAssumption
     DEF IInv, TypeOK, RanksDistinct, CapacityRespected, Distinct, IsStore
<1>1. clock' = clock /\ reply' = Nothing
  BY DEF Set
<1>2. /\ DOMAIN kept \subseteq live
      /\ DOMAIN t = DOMAIN kept \cup {k}
      /\ \A j \in DOMAIN kept \ {k} : t[j] = store[j]
      /\ t[k].val = v /\ t[k].exp = clock + TTL
  BY <1>0, LeftoverParts, SetParts
<1>3. /\ DOMAIN p = live /\ live \subseteq DOMAIN store /\ IsStore(p) /\ Distinct(p)
      /\ \A j \in live : p[j] = store[j]
  BY <1>0, Purged, Zenon
<1>4. DOMAIN m = live
      /\ \A j \in live : m[j] = [val |-> store[j].val, at |-> store[j].exp - TTL]
  BY DEF Remembered
<1>5. Cardinality(live) <= Capacity /\ Cardinality(live) \in Nat
  <2>1. IsFiniteSet(DOMAIN store) /\ Cardinality(DOMAIN store) \in Nat
    BY <1>0, Finite DEF IsStore
  <2>2. Cardinality(live) <= Cardinality(DOMAIN store) /\ Cardinality(live) \in Nat
    <3>1. live \subseteq Keys
      BY <1>0, <1>3 DEF IsStore
    <3> QED BY <1>3, <2>1, <3>1, Finite, FS_Subset
  <2> QED BY <1>0, <2>1, <2>2
<1>6. \A g \in gone : Cardinality(live) = Capacity
                      /\ \A j \in live \ {g} : p[j].rank > p[g].rank
  <2> SUFFICES ASSUME NEW g \in gone
               PROVE  Cardinality(live) = Capacity
                      /\ \A j \in live \ {g} : p[j].rank > p[g].rank
    OBVIOUS
  <2>1. g \in DOMAIN p \ DOMAIN MakeRoom(p) /\ Cardinality(DOMAIN p) <= Capacity
    BY <1>3, <1>5 DEF Leftover
  <2>2. /\ Cardinality(DOMAIN p) = Capacity
        /\ \A j \in DOMAIN p \ {g} : p[j].rank > p[g].rank
    BY <1>3, <2>1, Popped, Zenon
  <2> QED BY <1>3, <2>2
<1>7. \A g, h \in gone : g = h
  <2> SUFFICES ASSUME NEW g \in gone, NEW h \in gone, g # h PROVE FALSE
    OBVIOUS
  <2>1. p[h].rank > p[g].rank /\ p[g].rank > p[h].rank
    BY <1>6
  <2>2. p[h].rank \in Nat /\ p[g].rank \in Nat
    BY <1>3 DEF IsStore
  <2> QED BY <2>1, <2>2
<1>8. Cardinality(gone) <= 1
  <2>1. CASE gone = {}
    BY <2>1, FS_EmptySet
  <2>2. CASE gone # {}
    <3>1. PICK g \in gone : TRUE
      BY <2>2
    <3>2. gone = {g}
      BY <1>7, <3>1
    <3>3. Cardinality({g}) = 1
      BY FS_Singleton
    <3> QED BY <3>2, <3>3
  <2> QED BY <2>1, <2>2
<1>9. gone # {} => Cardinality(live) = Capacity
  BY <1>6
<1> HIDE DEF p, kept, live
<1>10. Live(store, clock)' = DOMAIN kept \cup {k}
  <2>1. \A j \in DOMAIN kept \ {k} : t[j].exp > clock
    BY <1>2 DEF Live, live
  <2>2. t[k].exp > clock
    BY <1>0, <1>2
  <2>3. \A j \in DOMAIN t : t[j].exp > clock
    BY <1>2, <2>1, <2>2
  <2> QED BY <1>1, <1>2, <2>3 DEF Live
<1> DEFINE w    == [val |-> v, at |-> clock]
           wo   == [j \in DOMAIN m \ gone |-> m[j]]
           with == [j \in DOMAIN wo \cup {k} |-> IF j = k THEN w ELSE wo[j]]
<1>11. Remembered' = with
  <2>1. Remembered' = [j \in DOMAIN kept \cup {k} |->
                         [val |-> t[j].val, at |-> t[j].exp - TTL]]
    BY <1>1, <1>10 DEF Remembered
  <2>2. DOMAIN m \ gone = DOMAIN kept
    BY <1>2, <1>4
  <2>3. [val |-> t[k].val, at |-> t[k].exp - TTL] = w
    <3>1. t[k].exp - TTL = clock
      BY <1>0, <1>2
    <3> QED BY <3>1, <1>2
  <2>4. \A j \in DOMAIN kept \ {k} : [val |-> t[j].val, at |-> t[j].exp - TTL] = m[j]
    BY <1>2, <1>4
  <2> HIDE DEF m, w, gone
  <2>5. with = [j \in DOMAIN kept \cup {k} |-> IF j = k THEN w ELSE m[j]]
    BY <2>2
  <2> QED BY <2>1, <2>3, <2>4, <2>5
<1>12. gone \in SUBSET DOMAIN Remembered /\ Cardinality(live) = Cardinality(DOMAIN Remembered)
  BY <1>4
<1>13. \A S : Contract!Cardinality(S) = Cardinality(S)
  BY DEF Cardinality, Contract!Cardinality
<1>14. with = Contract!With(Contract!Without(Remembered, gone), k, [val |-> v, at |-> clock])
  BY DEF Contract!With, Contract!Without
<1> HIDE DEF gone, m, with
<1> QED BY <1>1, <1>8, <1>9, <1>11, <1>12, <1>13, <1>14, Zenon DEF Contract!Set

LEMMA NextMaps == ASSUME IInv, [Next]_vars PROVE [Contract!Next]_(Contract!vars)
<1>1. ASSUME NEW k \in Keys, Get(k) PROVE Contract!Next
  BY <1>1, GetMaps DEF Contract!Next
<1>2. ASSUME NEW k \in Keys, NEW v \in Values, Set(k, v) PROVE Contract!Next
  BY <1>2, SetMaps DEF Contract!Next
<1>3. CASE Tick
  BY <1>3, TickMaps DEF Contract!Next
<1>4. CASE UNCHANGED vars
  BY <1>4 DEF vars, Contract!vars, Remembered, Live
<1> QED BY <1>1, <1>2, <1>3, <1>4 DEF Next

-----------------------------------------------------------------------------
\* The state stays in its types.
THEOREM TypeCorrect == Spec => []TypeOK
<1>1. IInv => TypeOK
  BY DEF IInv
<1> QED BY <1>1, Inductive, PTL

\* Whatever the keys and however calls and time interleave: never more entries
\* than max_entries, or one if that is less (cache.py:37-42).
THEOREM CapacityHeld == Spec => []CapacityRespected
<1>1. IInv => CapacityRespected
  BY DEF IInv
<1> QED BY <1>1, Inductive, PTL

\* An entry that is given up before its time is older than all that were alive
\* (cache.py:40-41).
THEOREM OldestFirst == Spec => OldestGivenUp
<1> DEFINE Oldest == \A k \in Live(store, clock) \ DOMAIN store' :
             \A j \in Live(store, clock) \ {k} : store[j].rank > store[k].rank
<1>1. IInv /\ [Next]_vars => [Oldest]_vars
  <2> SUFFICES ASSUME IInv, Next, NEW g \in Live(store, clock) \ DOMAIN store',
                      NEW j \in Live(store, clock) \ {g}
               PROVE  store[j].rank > store[g].rank
    BY DEF vars
  <2>0. IsStore(store) /\ Distinct(store) /\ Cardinality(DOMAIN store) <= Capacity
    BY DEF IInv, TypeOK, RanksDistinct, CapacityRespected, Distinct
  <2>1. ASSUME NEW k \in Keys, Get(k) PROVE FALSE
    BY <2>0, <2>1, Purged DEF Get
  <2>2. ASSUME NEW k \in Keys, NEW v \in Values, Set(k, v)
        PROVE  store[j].rank > store[g].rank
    <3> DEFINE p == Purge(store, clock)
    <3>1. /\ DOMAIN p = Live(store, clock) /\ IsStore(p) /\ Distinct(p)
          /\ \A i \in Live(store, clock) : p[i] = store[i]
      BY <2>0, Purged, Zenon
    <3>2. DOMAIN store' = DOMAIN MakeRoom(p) \cup {k}
      BY <2>0, <2>2, SetParts DEF Leftover
    <3>3. g \in DOMAIN p \ DOMAIN MakeRoom(p)
      BY <3>1, <3>2
    <3>4. Cardinality(DOMAIN p) <= Capacity
      <4>1. DOMAIN p \subseteq DOMAIN store /\ DOMAIN store \subseteq Keys /\ DOMAIN p \subseteq Keys
        BY <2>0, <3>1 DEF Live, IsStore
      <4>2. /\ IsFiniteSet(DOMAIN store) /\ Cardinality(DOMAIN store) \in Nat
            /\ Cardinality(DOMAIN p) \in Nat
        BY <4>1, Finite
      <4>3. Cardinality(DOMAIN p) <= Cardinality(DOMAIN store)
        BY <4>1, <4>2, FS_Subset
      <4> QED BY <2>0, <4>2, <4>3, CapacityNat
    <3>5. \A i \in DOMAIN p \ {g} : p[i].rank > p[g].rank
      BY <3>1, <3>3, <3>4, Popped, Zenon
    <3> HIDE DEF p
    <3> QED BY <3>1, <3>5
  <2>3. CASE Tick
    BY <2>3 DEF Tick, Live
  <2> QED BY <2>1, <2>2, <2>3 DEF Next
<1> QED BY <1>1, Inductive, PTL DEF Spec, OldestGivenUp

\* The store, its purges and its order implement the lossy map: what a get returns
\* is the latest value set for its key, less than TTL old (cache.py:25-42).
THEOREM Implements == Spec => ImplementsContract
<1>1. Init => Contract!Init
  BY InitMaps
<1>2. IInv /\ [Next]_vars => [Contract!Next]_(Contract!vars)
  BY NextMaps
<1> QED BY <1>1, <1>2, Inductive, PTL DEF Spec, ImplementsContract, Contract!Spec

=============================================================================
