------------------------------ MODULE TtlStore ------------------------------
(***************************************************************************)
(* The dictionary inside TtlCache (app/cache.py), as operators on a store: *)
(* a function from the cached keys to their entries.  An entry carries the *)
(* value, the instant it expires, and the rank of its insertion: a Python  *)
(* dict iterates in insertion order, and assigning to a key that is there  *)
(* keeps the key's place.                                                  *)
(*                                                                         *)
(* The lock is never held across a suspension, so get and set are atomic;  *)
(* the several readings of the monotonic clock in one call are one instant.*)
(***************************************************************************)
EXTENDS Integers, FiniteSets

CONSTANTS Keys,         \* cache keys: "isrc:..." and "upc:..."
          TTL,          \* lookup_cache_ttl_s, in ticks of the clock
          MaxEntries    \* lookup_cache_max_entries, as configured

\* The application creates no cache with a TTL of 0 (main.py:44).
ASSUME KeysAssumption    == IsFiniteSet(Keys)
ASSUME TtlAssumption     == TTL \in Nat \ {0}
ASSUME EntriesAssumption == MaxEntries \in Int

\* A store; what the values are is up to the user of the cache.
IsStore(s) ==
  /\ s = [k \in DOMAIN s |-> s[k]]
  /\ DOMAIN s \subseteq Keys
  /\ \A k \in DOMAIN s : s[k].exp \in Nat /\ s[k].rank \in Nat

Empty == [k \in {} |-> 0]

\* self._max = max(1, max_entries)
Capacity == IF MaxEntries < 1 THEN 1 ELSE MaxEntries

\* The keys whose entry has not expired at instant now.
Live(s, now) == {k \in DOMAIN s : s[k].exp > now}

\* Mutant of Purge: an entry that expires right now is kept.
PurgeLate(s, now) == [k \in {j \in DOMAIN s : s[j].exp >= now} |-> s[k]]

Purge(s, now) == [k \in Live(s, now) |-> s[k]]

Newer(s, k) == {j \in DOMAIN s : s[j].rank > s[k].rank}

\* Mutants of MakeRoom: the loop stops one entry too early; it pops the newest.
MakeRoomShort(s) ==
  [k \in {j \in DOMAIN s : Cardinality(Newer(s, j)) < Capacity} |-> s[k]]
MakeRoomNewest(s) ==
  IF Cardinality(DOMAIN s) < Capacity THEN s
  ELSE [k \in {j \in DOMAIN s : Newer(s, j) # {}} |-> s[k]]

\* `while len(store) >= max: pop the oldest` leaves the Capacity - 1 newest.
MakeRoom(s) ==
  [k \in {j \in DOMAIN s : Cardinality(Newer(s, j)) < Capacity - 1} |-> s[k]]

\* Mutant of Put: the age is computed the wrong way round.
PutBackwards(s, k, v, now, rank) ==
  LET kept == MakeRoom(Purge(s, now))
  IN  [j \in DOMAIN kept \cup {k} |->
         IF j # k THEN kept[j] ELSE [val |-> v, exp |-> TTL - now, rank |-> rank]]

\* Mutant of Put: the first entry stays, as with dict.setdefault.
PutIfAbsent(s, k, v, now, rank) ==
  LET kept == MakeRoom(Purge(s, now))
  IN  IF k \in Live(s, now) THEN Purge(s, now)
      ELSE [j \in DOMAIN kept \cup {k} |->
              IF j # k THEN kept[j] ELSE [val |-> v, exp |-> now + TTL, rank |-> rank]]

\* The store after set(k, v) at instant now; rank is above every rank in s.
Put(s, k, v, now, rank) ==
  LET kept == MakeRoom(Purge(s, now))
  IN  [j \in DOMAIN kept \cup {k} |->
         IF j # k THEN kept[j]
         ELSE [val  |-> v,
               exp  |-> now + TTL,
               rank |-> IF k \in DOMAIN kept THEN kept[k].rank ELSE rank]]

=============================================================================
