------------------------------ MODULE TtlCache ------------------------------
(***************************************************************************)
(* TtlCache (app/cache.py) as a state machine: gets and sets of any keys   *)
(* in any order while time passes.                                         *)
(***************************************************************************)
EXTENDS TtlStore

CONSTANTS Values,     \* cached values
          Nothing,    \* None
          MaxTime,    \* bound of the model: the clock stops here
          MaxSets     \* bound of the model: so many sets are made

ASSUME BoundsAssumption == MaxTime \in Nat /\ MaxSets \in Nat

VARIABLES store,      \* self._store
          clock,      \* time.monotonic(), in ticks
          sets,       \* sets so far: the rank of the next insertion
          reply       \* what the latest call returned

vars == <<store, clock, sets, reply>>

Init ==
  /\ store = Empty
  /\ clock = 0
  /\ sets = 0
  /\ reply = Nothing

\* Mutant of Get: no purge and no second look at exp before the value returns.
GetStale(k) ==
  /\ reply' = IF k \in DOMAIN store THEN store[k].val ELSE Nothing
  /\ UNCHANGED <<store, clock, sets>>

\* get: purge, then look the key up.
Get(k) ==
  /\ store' = Purge(store, clock)
  /\ reply' = IF k \in DOMAIN store' THEN store'[k].val ELSE Nothing
  /\ UNCHANGED <<clock, sets>>

\* set: purge, make room, store.
Set(k, v) ==
  /\ sets < MaxSets
  /\ store' = Put(store, k, v, clock, sets)
  /\ sets' = sets + 1
  /\ reply' = Nothing
  /\ UNCHANGED clock

Tick ==
  /\ clock < MaxTime
  /\ clock' = clock + 1
  /\ UNCHANGED <<store, sets, reply>>

Next ==
  \/ \E k \in Keys : Get(k) \/ \E v \in Values : Set(k, v)
  \/ Tick

Spec == Init /\ [][Next]_vars

-----------------------------------------------------------------------------
TypeOK ==
  /\ IsStore(store) /\ \A k \in DOMAIN store : store[k].val \in Values
  /\ clock \in 0..MaxTime
  /\ sets \in 0..MaxSets
  /\ reply \in Values \cup {Nothing}

\* However calls and time interleave, the store is never above its capacity:
\* one purge and one loop before each insertion are enough (cache.py:37-42).
CapacityRespected == Cardinality(DOMAIN store) <= Capacity

\* Two entries never claim the same place in the dict, and places are in the past.
RanksDistinct ==
  /\ \A j, k \in DOMAIN store : store[j].rank = store[k].rank => j = k
  /\ \A k \in DOMAIN store : store[k].rank < sets

IInv == TypeOK /\ CapacityRespected /\ RanksDistinct

\* Only the key that has been in the store longest is given up before its time
\* (cache.py:40-41).
OldestGivenUp ==
  [][\A k \in Live(store, clock) \ DOMAIN store' :
       \A j \in Live(store, clock) \ {k} : store[j].rank > store[k].rank]_vars

\* The map the callers see: the entries that have not expired.
Remembered ==
  [k \in Live(store, clock) |-> [val |-> store[k].val, at |-> store[k].exp - TTL]]

Contract == INSTANCE CacheContract WITH memory <- Remembered

\* The store with its purges and its order implements the lossy map: a hit is
\* the latest value set for that key, less than TTL old, and nothing is lost
\* while there is room.
ImplementsContract == Contract!Spec

=============================================================================
