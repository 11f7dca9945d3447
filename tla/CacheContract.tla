--------------------------- MODULE CacheContract ---------------------------
(***************************************************************************)
(* What TtlCache (app/cache.py) promises: a lossy map.  A get returns the  *)
(* value of the latest set of its key if that set is less than TTL ago and *)
(* the entry was not given up; an entry is given up only by a set, only    *)
(* while Capacity keys are remembered, and at most one at a time.          *)
(***************************************************************************)
EXTENDS Naturals, FiniteSets

CONSTANTS Keys, Values, TTL, Capacity, Nothing

VARIABLES clock,    \* the monotonic clock
          memory,   \* the latest set of each key that is still remembered
          reply     \* what the latest call returned, Nothing for None

vars == <<clock, memory, reply>>

Written == [val : Values, at : Nat]

Fresh(m, now)   == [k \in {j \in DOMAIN m : now - m[j].at < TTL} |-> m[k]]
Without(m, gone) == [k \in DOMAIN m \ gone |-> m[k]]
With(m, k, w)   == [j \in DOMAIN m \cup {k} |-> IF j = k THEN w ELSE m[j]]

Init ==
  /\ clock = 0
  /\ memory = [k \in {} |-> 0]
  /\ reply = Nothing

Get(k) ==
  /\ reply' = IF k \in DOMAIN memory THEN memory[k].val ELSE Nothing
  /\ UNCHANGED <<clock, memory>>

Set(k, v) ==
  \E gone \in SUBSET DOMAIN memory :
    /\ gone # {} => Cardinality(DOMAIN memory) = Capacity
    /\ Cardinality(gone) <= 1
    /\ memory' = With(Without(memory, gone), k, [val |-> v, at |-> clock])
    /\ reply' = Nothing
    /\ UNCHANGED clock

Tick ==
  /\ clock' = clock + 1
  /\ memory' = Fresh(memory, clock')
  /\ UNCHANGED reply

Next ==
  \/ \E k \in Keys : Get(k) \/ \E v \in Values : Set(k, v)
  \/ Tick

Spec == Init /\ [][Next]_vars

=============================================================================
