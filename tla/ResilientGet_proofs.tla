------------------------- MODULE ResilientGet_proofs -------------------------
(***************************************************************************)
(* Proofs about ResilientGet, for every set of tasks, every retry setting  *)
(* and every limit: type correctness, slot accounting and the outbound cap.*)
(* The three ways of touching the semaphore (Acquire, Release, Cycle) get  *)
(* one lemma each; the actions then follow from these.                     *)
(***************************************************************************)
EXTENDS ResilientGet, FiniteSetTheorems, SequenceTheorems, TLAPS

\* The variables of the semaphore have their types and hold no slot too few.
SlotTypeOK ==
  /\ free \in Nat
  /\ waiters \in Seq(Tasks)
  /\ pc \in [Tasks -> PcTypes]

SlotInv == SlotTypeOK /\ SlotAccounting /\ limit \in Nat

\* Holders is finite, so that its cardinality is a number.
LEMMA HoldersFinite ==
  ASSUME NEW S \in SUBSET Tasks
  PROVE  IsFiniteSet(S) /\ Cardinality(S) \in Nat
BY TasksAssumption, FS_Subset, FS_CardinalityType

\* The number of attempts is a positive integer.
LEMMA AttemptsPositive == Attempts \in Nat \ {0}
BY RetryAssumption, SMT DEF Attempts

\* The first waiter is a suspended task, and the others are those behind it.
LEMMA HeadWaits ==
  ASSUME SlotInv, waiters # <<>>
  PROVE  /\ Head(waiters) \in Tasks
         /\ pc[Head(waiters)] = "waiting"
         /\ Tail(waiters) \in Seq(Tasks)
         /\ Len(waiters) \in Nat \ {0}
         /\ Len(Tail(waiters)) = Len(waiters) - 1
         /\ \A i \in 1..Len(Tail(waiters)) : Tail(waiters)[i] = waiters[i + 1]
         /\ Head(waiters) = waiters[1]
BY HeadTailProperties, LenProperties, SMT
   DEF SlotInv, SlotTypeOK, SlotAccounting

\* Once the first waiter has left, the queue holds the other suspended tasks,
\* each once.
LEMMA QueueWithoutHead ==
  ASSUME SlotInv, waiters # <<>>
  PROVE  /\ \A u \in Tasks : (\E i \in DOMAIN Tail(waiters) : Tail(waiters)[i] = u)
                               <=> pc[u] = "waiting" /\ u # Head(waiters)
         /\ \A i, j \in DOMAIN Tail(waiters) : Tail(waiters)[i] = Tail(waiters)[j] => i = j
<1> DEFINE n == Len(waiters)
<1>1. /\ DOMAIN waiters = 1..n /\ n \in Nat \ {0}
      /\ DOMAIN Tail(waiters) = 1..(n - 1)
      /\ \A i \in 1..(n - 1) : Tail(waiters)[i] = waiters[i + 1]
      /\ waiters[1] = Head(waiters)
  BY HeadWaits, LenProperties, SMT DEF SlotInv, SlotTypeOK
<1>2. \A i, j \in 1..n : waiters[i] = waiters[j] => i = j
  BY <1>1 DEF SlotInv, SlotAccounting
<1>3. \A u \in Tasks : pc[u] = "waiting" <=> \E i \in 1..n : waiters[i] = u
  BY <1>1 DEF SlotInv, SlotAccounting
<1> HIDE DEF n
<1>4. \A i \in 1..(n - 1) : i + 1 \in 1..n /\ i + 1 # 1
  BY <1>1, SMT
<1>5. ASSUME NEW u \in Tasks, NEW i \in 1..(n - 1), Tail(waiters)[i] = u
      PROVE  pc[u] = "waiting" /\ u # Head(waiters)
  <2>1. i + 1 \in 1..n /\ waiters[i + 1] = u /\ i + 1 # 1 /\ 1 \in 1..n
    BY <1>1, <1>4, <1>5, SMT
  <2>2. u # Head(waiters)
    BY <1>1, <1>2, <2>1
  <2>3. QED
    BY <1>3, <2>1, <2>2
<1>6. ASSUME NEW u \in Tasks, pc[u] = "waiting", u # Head(waiters)
      PROVE  \E i \in 1..(n - 1) : Tail(waiters)[i] = u
  <2>1. PICK i \in 1..n : waiters[i] = u
    BY <1>3, <1>6
  <2>2. i # 1 /\ i - 1 \in 1..(n - 1) /\ Tail(waiters)[i - 1] = u
    BY <1>1, <1>6, <2>1, SMT
  <2>3. QED
    BY <2>2
<1>7. ASSUME NEW i \in 1..(n - 1), NEW j \in 1..(n - 1), Tail(waiters)[i] = Tail(waiters)[j]
      PROVE  i = j
  <2>1. waiters[i + 1] = waiters[j + 1]
    BY <1>1, <1>7
  <2>2. i + 1 = j + 1
    BY <1>2, <1>4, <2>1
  <2>3. QED
    BY <2>2, SMT
<1>8. QED
  BY <1>1, <1>5, <1>6, <1>7

\* A task that was not in a queue can join it at the end: the queue then holds
\* one task more, and still each once.
LEMMA QueueWithNewcomer ==
  ASSUME NEW q \in Seq(Tasks), NEW t \in Tasks,
         \A i \in DOMAIN q : q[i] # t,
         \A i, j \in DOMAIN q : q[i] = q[j] => i = j
  PROVE  /\ Append(q, t) \in Seq(Tasks) /\ Append(q, t) # <<>>
         /\ \A u \in Tasks : (\E i \in DOMAIN Append(q, t) : Append(q, t)[i] = u)
                               <=> u = t \/ \E i \in DOMAIN q : q[i] = u
         /\ \A i, j \in DOMAIN Append(q, t) : Append(q, t)[i] = Append(q, t)[j] => i = j
<1> DEFINE n == Len(q)
           r == Append(q, t)
<1>1. /\ r \in Seq(Tasks) /\ r # <<>>
      /\ n \in Nat
      /\ DOMAIN q = 1..n
      /\ DOMAIN r = 1..(n + 1)
      /\ \A i \in 1..n : r[i] = q[i]
      /\ r[n + 1] = t
  BY AppendProperties, LenProperties, SMT
<1> HIDE DEF n, r
<1>2. \A i \in 1..(n + 1) : i \in 1..n \/ i = n + 1
  BY <1>1, SMT
<1>3. 1..n \subseteq 1..(n + 1) /\ n + 1 \in 1..(n + 1)
  BY <1>1, SMT
<1>4. \A u \in Tasks : (\E i \in DOMAIN r : r[i] = u) <=> u = t \/ \E i \in DOMAIN q : q[i] = u
  BY <1>1, <1>2, <1>3
<1>5. \A i, j \in DOMAIN r : r[i] = r[j] => i = j
  BY <1>1, <1>2
<1>6. QED
  BY <1>1, <1>4, <1>5 DEF r

\* Asking for a slot keeps the accounts: a taken slot leaves the value, a
\* refused task is queued, and then the value was zero already.
LEMMA AcquireKeepsSlots ==
  ASSUME SlotInv, NEW t \in Tasks, pc[t] \in Ended \cup {"pausing"},
         Acquire(t), limit' = limit
  PROVE  SlotInv' /\ pc' = [pc EXCEPT ![t] = pc'[t]] /\ pc'[t] \in {"granted", "waiting"}
<1> USE DEF SlotInv, SlotTypeOK
<1>h. t \notin Holders /\ Holders \in SUBSET Tasks /\ Holders' \in SUBSET Tasks
  BY DEF Holders, InSlot, Ended
<1>1. CASE ~Limited /\ pc' = [pc EXCEPT ![t] = "granted"] /\ UNCHANGED <<free, waiters>>
  <2>1. Woken' = Woken
    BY <1>1 DEF Woken, Ended
  <2>2. QED
    BY <1>1, <2>1, SMT DEF SlotAccounting, Limited, PcTypes, InSlot, Ended
<1>2. CASE /\ Limited /\ ~Locked
           /\ free' = free - 1
           /\ pc' = [pc EXCEPT ![t] = "granted"]
           /\ UNCHANGED waiters
  <2>1. Holders' = Holders \cup {t} /\ Woken' = Woken
    BY <1>2, <1>h DEF Holders, InSlot, Woken
  <2>2. Cardinality(Holders') = Cardinality(Holders) + 1
    BY <2>1, <1>h, HoldersFinite, FS_AddElement
  <2>3. Limited' => free' + Cardinality(Holders') = limit'
    BY <1>2, <2>2, <1>h, HoldersFinite, SMT DEF SlotAccounting, Limited
  <2>4. waiters' = <<>> /\ free' \in Nat
    BY <1>2, SMT DEF Locked
  <2>5. QED
    BY <1>2, <2>1, <2>3, <2>4, SMT DEF SlotAccounting, Limited, PcTypes, InSlot, Ended
<1>3. CASE /\ Limited /\ Locked
           /\ waiters' = Append(waiters, t)
           /\ pc' = [pc EXCEPT ![t] = "waiting"]
           /\ UNCHANGED free
  <2>1. Holders' = Holders
    BY <1>3, <1>h DEF Holders, InSlot
  <2>2. \A i \in DOMAIN waiters : waiters[i] # t
    BY DEF SlotAccounting, Ended
  <2>3. /\ waiters' \in Seq(Tasks) /\ waiters' # <<>>
        /\ \A u \in Tasks : (\E i \in DOMAIN waiters' : waiters'[i] = u)
                              <=> u = t \/ \E i \in DOMAIN waiters : waiters[i] = u
        /\ \A i, j \in DOMAIN waiters' : waiters'[i] = waiters'[j] => i = j
    <3> DEFINE q == Append(waiters, t)
    <3>1. waiters \in Seq(Tasks) /\ \A i, j \in DOMAIN waiters : waiters[i] = waiters[j] => i = j
      BY DEF SlotAccounting
    <3>2. /\ q \in Seq(Tasks) /\ q # <<>>
          /\ \A u \in Tasks : (\E i \in DOMAIN q : q[i] = u)
                                <=> u = t \/ \E i \in DOMAIN waiters : waiters[i] = u
          /\ \A i, j \in DOMAIN q : q[i] = q[j] => i = j
      BY <2>2, <3>1, QueueWithNewcomer, Zenon
    <3>3. waiters' = q
      BY <1>3
    <3> HIDE DEF q
    <3>4. QED
      BY <3>2, <3>3
  <2>4. \A u \in Tasks : pc'[u] = "waiting" <=> u = t \/ pc[u] = "waiting"
    BY <1>3
  <2>5. \A u \in Tasks : pc'[u] = "waiting" <=> \E i \in DOMAIN waiters' : waiters'[i] = u
    BY <2>3, <2>4 DEF SlotAccounting
  <2>6. Woken' = Woken
    BY <1>3, <1>h DEF Woken, Holders, InSlot
  <2>7. free' = 0 \/ Woken' # {}
    BY <1>3, <2>6 DEF Locked, SlotAccounting
  <2>8. QED
    BY <1>3, <2>1, <2>3, <2>5, <2>6, <2>7, SMT DEF SlotAccounting, Limited, PcTypes, InSlot
<1>4. QED
  BY <1>1, <1>2, <1>3 DEF Acquire

\* Leaving a slot keeps the accounts: the slot goes back to the value, or from
\* the task straight to the first waiter.
LEMMA ReleaseKeepsSlots ==
  ASSUME SlotInv, NEW t \in Tasks, pc[t] \in InSlot,
         NEW place \in Ended \cup {"pausing"},
         Release(t, place), limit' = limit
  PROVE  SlotInv' /\ pc'[t] = place
         /\ \A u \in Tasks \ {t} : pc'[u] = pc[u] \/ pc'[u] = "woken"
<1> USE DEF SlotInv, SlotTypeOK
<1>h. t \in Holders /\ Holders \in SUBSET Tasks /\ Holders' \in SUBSET Tasks
  BY DEF Holders
<1>w. pc' = [pc EXCEPT ![t] = place] => Woken' \subseteq Woken
  BY DEF Woken, Ended
<1>1. CASE ~Limited /\ pc' = [pc EXCEPT ![t] = place] /\ UNCHANGED <<free, waiters>>
  <2>1. Woken' = {}
    BY <1>1, <1>w DEF SlotAccounting
  <2>2. QED
    BY <1>1, <2>1, SMT DEF SlotAccounting, Limited, PcTypes, InSlot, Ended
<1>2. CASE /\ Limited /\ waiters = <<>>
           /\ free' = free + 1
           /\ pc' = [pc EXCEPT ![t] = place]
           /\ UNCHANGED waiters
  <2>1. Holders' = Holders \ {t}
    BY <1>2 DEF Holders, InSlot, Ended
  <2>2. Cardinality(Holders') = Cardinality(Holders) - 1
    BY <2>1, <1>h, HoldersFinite, FS_RemoveElement
  <2>3. Limited' => free' + Cardinality(Holders') = limit'
    BY <1>2, <2>2, <1>h, HoldersFinite, SMT DEF SlotAccounting, Limited
  <2>4. QED
    BY <1>2, <2>3, SMT DEF SlotAccounting, Limited, PcTypes, InSlot, Ended
<1>3. CASE /\ Limited /\ waiters # <<>>
           /\ waiters' = Tail(waiters)
           /\ pc' = [pc EXCEPT ![t] = place, ![Head(waiters)] = "woken"]
           /\ UNCHANGED free
  <2> DEFINE h == Head(waiters)
  <2>1. /\ h \in Tasks /\ pc[h] = "waiting" /\ h # t /\ h \notin Holders
        /\ pc'[t] = place /\ pc'[h] = "woken"
        /\ \A u \in Tasks \ {t, h} : pc'[u] = pc[u]
        /\ pc' \in [Tasks -> PcTypes]
    BY <1>3, HeadWaits, SMT DEF Holders, InSlot, PcTypes, Ended
  <2>2. Holders' = (Holders \ {t}) \cup {h}
    BY <2>1 DEF Holders, InSlot, Ended
  <2>3. Cardinality(Holders') = Cardinality(Holders)
    <3>1. Cardinality(Holders \ {t}) = Cardinality(Holders) - 1 /\ IsFiniteSet(Holders \ {t})
      BY <1>h, HoldersFinite, FS_RemoveElement
    <3>2. Cardinality((Holders \ {t}) \cup {h}) = Cardinality(Holders \ {t}) + 1
      BY <3>1, <2>1, FS_AddElement
    <3>3. QED
      BY <2>2, <3>1, <3>2, <1>h, HoldersFinite, SMT
  <2>4. \A u \in Tasks : pc'[u] = "waiting" <=> pc[u] = "waiting" /\ u # h
    BY <2>1 DEF InSlot, Ended
  <2>5. /\ \A u \in Tasks : pc'[u] = "waiting" <=> \E i \in DOMAIN waiters' : waiters'[i] = u
        /\ \A i, j \in DOMAIN waiters' : waiters'[i] = waiters'[j] => i = j
    BY <1>3, <2>4, QueueWithoutHead
  <2>6. waiters' \in Seq(Tasks)
    BY <1>3, HeadWaits
  <2>7. free' + Cardinality(Holders') = limit' /\ limit' > 0 /\ Woken' # {}
    BY <1>3, <2>1, <2>3, SMT DEF SlotAccounting, Limited, Woken
  <2>8. SlotAccounting'
    BY <2>5, <2>7 DEF SlotAccounting, Limited
  <2>9. \A u \in Tasks \ {t} : pc'[u] = pc[u] \/ pc'[u] = "woken"
    BY <2>1
  <2>10. QED
    BY <1>3, <2>1, <2>6, <2>8, <2>9
<1>4. QED
  BY <1>1, <1>2, <1>3 DEF Release

\* Leaving a slot and asking for one at once keeps the accounts: nothing
\* changes hands, or t and the first waiter trade places.
LEMMA CycleKeepsSlots ==
  ASSUME SlotInv, NEW t \in Tasks, pc[t] = "pausingInSlot", Cycle(t), limit' = limit
  PROVE  SlotInv' /\ pc'[t] \in {"granted", "waiting"}
         /\ \A u \in Tasks \ {t} : pc'[u] = pc[u] \/ pc'[u] = "woken"
<1> USE DEF SlotInv, SlotTypeOK
<1>h. t \in Holders /\ Holders \in SUBSET Tasks /\ Holders' \in SUBSET Tasks
  BY DEF Holders, InSlot
<1>1. CASE /\ waiters = <<>> /\ Woken = {}
           /\ pc' = [pc EXCEPT ![t] = "granted"]
           /\ UNCHANGED <<free, waiters>>
  <2>1. Holders' = Holders /\ Woken' = Woken
    BY <1>1 DEF Holders, InSlot, Woken
  <2>2. QED
    BY <1>1, <2>1, SMT DEF SlotAccounting, Limited, PcTypes, InSlot
<1>3. CASE /\ waiters = <<>> /\ Woken # {}
           /\ free' = free + 1
           /\ waiters' = <<t>>
           /\ pc' = [pc EXCEPT ![t] = "waiting"]
  <2>1. Holders' = Holders \ {t} /\ Woken' = Woken
    BY <1>3 DEF Holders, InSlot, Woken
  <2>2. Cardinality(Holders') = Cardinality(Holders) - 1
    BY <2>1, <1>h, HoldersFinite, FS_RemoveElement
  <2>3. Limited /\ free' + Cardinality(Holders') = limit'
    BY <1>3, <2>2, <1>h, HoldersFinite, SMT DEF SlotAccounting
  <2>4. \A u \in Tasks : pc'[u] = "waiting" <=> u = t
    BY <1>3 DEF SlotAccounting
  <2>5. /\ waiters' \in Seq(Tasks) /\ DOMAIN waiters' = {1} /\ waiters'[1] = t
    BY <1>3, SMT
  <2>6. SlotAccounting'
    BY <2>1, <2>3, <2>4, <2>5, <1>3 DEF SlotAccounting, Limited
  <2>7. QED
    BY <1>3, <2>5, <2>6, SMT DEF PcTypes
<1>2. CASE /\ waiters # <<>>
           /\ waiters' = Append(Tail(waiters), t)
           /\ pc' = [pc EXCEPT ![t] = "waiting", ![Head(waiters)] = "woken"]
           /\ UNCHANGED free
  <2> DEFINE h == Head(waiters)
  <2>1. /\ h \in Tasks /\ pc[h] = "waiting" /\ h # t /\ h \notin Holders
        /\ pc'[t] = "waiting" /\ pc'[h] = "woken"
        /\ \A u \in Tasks \ {t, h} : pc'[u] = pc[u]
        /\ pc' \in [Tasks -> PcTypes]
    BY <1>2, HeadWaits, SMT DEF Holders, InSlot, PcTypes, Ended
  <2>2. Holders' = (Holders \ {t}) \cup {h}
    BY <2>1 DEF Holders, InSlot
  <2>3. Cardinality(Holders') = Cardinality(Holders)
    <3>1. Cardinality(Holders \ {t}) = Cardinality(Holders) - 1 /\ IsFiniteSet(Holders \ {t})
      BY <1>h, HoldersFinite, FS_RemoveElement
    <3>2. Cardinality((Holders \ {t}) \cup {h}) = Cardinality(Holders \ {t}) + 1
      BY <3>1, <2>1, FS_AddElement
    <3>3. QED
      BY <2>2, <3>1, <3>2, <1>h, HoldersFinite, SMT
  <2>4. \A u \in Tasks : pc'[u] = "waiting" <=> u = t \/ (pc[u] = "waiting" /\ u # h)
    BY <2>1
  <2>5. /\ waiters' \in Seq(Tasks) /\ waiters' # <<>>
        /\ \A u \in Tasks : pc'[u] = "waiting" <=> \E i \in DOMAIN waiters' : waiters'[i] = u
        /\ \A i, j \in DOMAIN waiters' : waiters'[i] = waiters'[j] => i = j
    <3> DEFINE q == Tail(waiters)
    <3>1. q \in Seq(Tasks)
      BY <1>2, HeadWaits
    <3>2. \A u \in Tasks : (\E i \in DOMAIN q : q[i] = u) <=> pc[u] = "waiting" /\ u # h
      BY <1>2, QueueWithoutHead
    <3>3. \A i, j \in DOMAIN q : q[i] = q[j] => i = j
      BY <1>2, QueueWithoutHead
    <3>4. waiters' = Append(q, t)
      BY <1>2
    <3> HIDE DEF q, h
    <3>5. \A i \in DOMAIN q : q[i] # t
      BY <3>2
    <3>6. /\ Append(q, t) \in Seq(Tasks) /\ Append(q, t) # <<>>
          /\ \A u \in Tasks : (\E i \in DOMAIN Append(q, t) : Append(q, t)[i] = u)
                <=> u = t \/ \E i \in DOMAIN q : q[i] = u
          /\ \A i, j \in DOMAIN Append(q, t) : Append(q, t)[i] = Append(q, t)[j] => i = j
      BY <3>1, <3>3, <3>5, QueueWithNewcomer
    <3>7. QED
      BY <2>4, <3>2, <3>4, <3>6
  <2>6. free' + Cardinality(Holders') = limit' /\ limit' > 0 /\ Woken' # {}
    BY <1>2, <2>1, <2>3, SMT DEF SlotAccounting, Limited, Woken
  <2>7. SlotAccounting'
    BY <2>5, <2>6 DEF SlotAccounting, Limited
  <2>8. \A u \in Tasks \ {t} : pc'[u] = pc[u] \/ pc'[u] = "woken"
    BY <2>1
  <2>9. QED
    BY <1>2, <2>1, <2>5, <2>7, <2>8
<1>4. QED
  BY <1>1, <1>2, <1>3 DEF Cycle

\* The first tasks of a queue that holds each once are as many as their places.
LEMMA FirstInQueue ==
  ASSUME NEW q \in Seq(Tasks), NEW n \in 0..Len(q),
         \A i, j \in DOMAIN q : q[i] = q[j] => i = j
  PROVE  /\ {q[i] : i \in 1..n} \in SUBSET Tasks
         /\ Cardinality({q[i] : i \in 1..n}) = n
<1> DEFINE A == {q[i] : i \in 1..n}
           f == [i \in 1..n |-> q[i]]
<1>1. n \in Nat /\ 1..n \subseteq DOMAIN q /\ \A i \in 1..n : q[i] \in Tasks
  BY LenProperties, SMT
<1>2. f \in Bijection(1..n, A)
  BY <1>1 DEF Bijection, Injection, Surjection, IsInjective
<1>3. ExistsBijection(1..n, A)
  BY <1>2 DEF ExistsBijection
<1>4. IsFiniteSet(1..n) /\ Cardinality(1..n) = n
  BY <1>1, FS_Interval, SMT
<1>5. Cardinality(A) = n
  BY <1>3, <1>4, FS_Bijection
<1>6. QED
  BY <1>1, <1>5

\* The arithmetic of the queue: k tasks, of which the first n are woken.
LEMMA QueueArithmetic ==
  ASSUME NEW k \in Nat, NEW n \in Nat, n <= k, NEW m, m = n + 1
  PROVE  /\ (IF m <= k THEN k - m + 1 ELSE 0) = k - n
         /\ k - m + 1 = k - n /\ m \in Int /\ k - n \in Nat
         /\ \A i \in m..k : i \in 1..k
         /\ \A i \in 1..(k - n) : m + i - 1 = n + i /\ n + i \in 1..k
         /\ 1..n \subseteq 1..k
BY SMT

\* The arithmetic of the value: n is the smaller of the value and the queue.
LEMMA ValueArithmetic ==
  ASSUME NEW f \in Nat, NEW k \in Nat, NEW n \in Nat, n = IF f < k THEN f ELSE k
  PROVE  n <= f /\ f - n \in Nat /\ (f - n = 0 \/ n = k)
BY SMT

\* A woken task that runs moves, of the others, the first n of the queue.
LEMMA WakeMoves ==
  ASSUME SlotInv, NEW t \in Tasks, pc[t] = "woken",
         NEW n \in 0..Len(waiters), NEW place, WakeOthers(t, n, place)
  PROVE  /\ pc'[t] = place
         /\ \A u \in Tasks \ {t} : \/ pc'[u] = pc[u]
                                   \/ pc[u] = "waiting" /\ pc'[u] = "woken"
         /\ \A i \in 1..n : pc'[waiters[i]] = "woken"
         /\ \A u \in Tasks : u # t /\ pc[u] = "waiting" /\ pc'[u] = "waiting"
                             <=> pc[u] = "waiting" /\ \A i \in 1..n : waiters[i] # u
         /\ waiters' \in Seq(Tasks) /\ DOMAIN waiters' = 1..(Len(waiters) - n)
         /\ \A i \in 1..(Len(waiters) - n) : waiters'[i] = waiters[n + i]
         /\ Len(waiters) \in Nat /\ DOMAIN waiters = 1..Len(waiters)
<1>1. /\ waiters \in Seq(Tasks) /\ Len(waiters) \in Nat /\ DOMAIN waiters = 1..Len(waiters)
      /\ n \in Nat /\ n <= Len(waiters)
  BY LenProperties, SMT DEF SlotInv, SlotTypeOK
<1>2. \A i \in 1..n : waiters[i] \in Tasks /\ pc[waiters[i]] = "waiting" /\ waiters[i] # t
  <2>1. 1..n \subseteq DOMAIN waiters
    BY <1>1, SMT
  <2>2. \A i \in DOMAIN waiters : waiters[i] \in Tasks /\ pc[waiters[i]] = "waiting"
    BY <1>1 DEF SlotInv, SlotAccounting
  <2>3. QED
    BY <2>1, <2>2
<1>3. /\ pc'[t] = place
      /\ \A u \in Tasks \ {t} : pc'[u] = IF \E i \in 1..n : waiters[i] = u THEN "woken" ELSE pc[u]
  BY DEF WakeOthers
<1>4. waiters' = SubSeq(waiters, n + 1, Len(waiters))
  BY DEF WakeOthers
<1>5. /\ waiters' \in Seq(Tasks)
      /\ Len(waiters') = Len(waiters) - n
      /\ \A i \in 1..(Len(waiters) - n) : waiters'[i] = waiters[n + i]
  <2> DEFINE m == n + 1
             k == Len(waiters)
  <2>0. k \in Nat /\ n \in Nat /\ n <= k /\ m = n + 1
    BY <1>1
  <2>e. \A i \in 1..k : waiters[i] \in Tasks
    BY <1>1, ElementOfSeq
  <2> HIDE DEF m, k
  <2>a. /\ (IF m <= k THEN k - m + 1 ELSE 0) = k - n
        /\ k - m + 1 = k - n /\ m \in Int /\ k - n \in Nat
        /\ \A i \in m..k : i \in 1..k
        /\ \A i \in 1..(k - n) : m + i - 1 = n + i /\ n + i \in 1..k
    BY <2>0, QueueArithmetic
  <2>1. m \in Int /\ k \in Int /\ \A i \in m..k : waiters[i] \in Tasks
    BY <2>0, <2>a, <2>e
  <2>2. (IF m <= k THEN k - m + 1 ELSE 0) = k - n /\ k - m + 1 = k - n
    BY <2>a
  <2>3. \A i \in 1..(k - n) : m + i - 1 = n + i
    BY <2>a
  <2>4. /\ SubSeq(waiters, m, k) \in Seq(Tasks)
        /\ Len(SubSeq(waiters, m, k)) = IF m <= k THEN k - m + 1 ELSE 0
        /\ \A i \in 1..(k - m + 1) : SubSeq(waiters, m, k)[i] = waiters[m + i - 1]
    BY <2>1, SubSeqProperties
  <2>5. /\ SubSeq(waiters, m, k) \in Seq(Tasks)
        /\ Len(SubSeq(waiters, m, k)) = k - n
        /\ \A i \in 1..(k - n) : SubSeq(waiters, m, k)[i] = waiters[n + i]
    BY <2>2, <2>3, <2>4
  <2>6. QED
    BY <1>4, <2>5 DEF m, k
<1>6. DOMAIN waiters' = 1..(Len(waiters) - n)
  BY <1>5, LenProperties
<1>7. \A u \in Tasks : u # t /\ pc[u] = "waiting" /\ pc'[u] = "waiting"
                        <=> pc[u] = "waiting" /\ \A i \in 1..n : waiters[i] # u
  BY <1>3
<1>8. /\ \A u \in Tasks \ {t} : pc'[u] = pc[u] \/ (pc[u] = "waiting" /\ pc'[u] = "woken")
      /\ \A i \in 1..n : pc'[waiters[i]] = "woken"
  BY <1>2, <1>3
<1>9. QED
  BY <1>1, <1>3, <1>5, <1>6, <1>7, <1>8

\* A woken task that runs keeps the accounts: what it takes from the value, the
\* tasks it wakes hold.
LEMMA WakeKeepsSlots ==
  ASSUME SlotInv, NEW t \in Tasks, pc[t] = "woken",
         NEW n \in 0..Len(waiters), WakeOthers(t, n, "sending"), limit' = limit
  PROVE  SlotInv'
<1> DEFINE A == {waiters[i] : i \in 1..n}
<1>1. /\ waiters \in Seq(Tasks) /\ free \in Nat /\ n \in Nat /\ n <= Len(waiters)
      /\ DOMAIN waiters = 1..Len(waiters) /\ Len(waiters) \in Nat
      /\ pc \in [Tasks -> PcTypes]
  BY WakeMoves, SMT DEF SlotInv, SlotTypeOK
<1>2. A \in SUBSET Tasks /\ Cardinality(A) = n
  BY <1>1, FirstInQueue DEF SlotInv, SlotAccounting
<1>3. \A u \in Tasks : u \in A <=> \E i \in 1..n : waiters[i] = u
  OBVIOUS
<1>4. \A u \in A : pc[u] = "waiting" /\ pc'[u] = "woken" /\ u # t
  <2>1. \A i \in 1..n : i \in DOMAIN waiters
    BY <1>1, QueueArithmetic, SMT
  <2>2. \A i \in DOMAIN waiters : waiters[i] \in Tasks /\ pc[waiters[i]] = "waiting"
    BY <1>1, ElementOfSeq DEF SlotInv, SlotAccounting
  <2>3. \A i \in 1..n : pc[waiters[i]] = "waiting" /\ pc'[waiters[i]] = "woken"
    BY <2>1, <2>2, WakeMoves
  <2>4. pc[t] # "waiting"
    OBVIOUS
  <2>5. QED
    BY <2>3, <2>4
<1> HIDE DEF A
<1>5. \A u \in Tasks \ {t} : u \notin A => pc'[u] = pc[u]
  BY <1>3 DEF WakeOthers
<1>6. pc'[t] = "sending" /\ pc' \in [Tasks -> PcTypes]
  <2>1. pc'[t] = "sending" /\ DOMAIN pc' = Tasks /\ pc' = [u \in Tasks |-> pc'[u]]
    BY DEF WakeOthers
  <2>2. \A u \in Tasks : pc'[u] \in PcTypes
    BY <1>1, <1>4, <1>5, <2>1 DEF PcTypes, InSlot
  <2>3. QED
    BY <2>1, <2>2
<1>7. Holders' = Holders \cup A /\ Holders \cap A = {} /\ Holders \in SUBSET Tasks
  BY <1>2, <1>4, <1>5, <1>6 DEF Holders, InSlot
<1>8. Cardinality(Holders') = Cardinality(Holders) + n /\ Cardinality(Holders) \in Nat
  <2>1. Cardinality(Holders \cup A) = Cardinality(Holders) + Cardinality(A) - 0
    BY <1>2, <1>7, HoldersFinite, FS_Union, FS_EmptySet
  <2>2. QED
    BY <1>1, <1>2, <1>7, <2>1, HoldersFinite, SMT
<1>9. /\ n <= free /\ free' = free - n /\ free' \in Nat
      /\ free' = 0 \/ n = Len(waiters)
  <2>1. free' = free - n /\ n = IF free < Len(waiters) THEN free ELSE Len(waiters)
    BY DEF WakeOthers
  <2>2. QED
    BY <1>1, <2>1, ValueArithmetic, Zenon
<1>10. Limited /\ Limited'
  BY DEF SlotInv, SlotAccounting, Woken, Limited
<1>11. free' + Cardinality(Holders') = limit'
  <2>1. free + Cardinality(Holders) = limit
    BY <1>10 DEF SlotInv, SlotAccounting
  <2> DEFINE h == Cardinality(Holders)
             h2 == Cardinality(Holders')
  <2>2. h \in Nat /\ h2 = h + n /\ free + h = limit /\ free' = free - n
        /\ free \in Nat /\ n \in Nat
    BY <1>1, <1>8, <1>9, <2>1, Zenon
  <2> HIDE DEF h, h2
  <2>3. free' + h2 = limit
    BY <2>2, SMT
  <2>4. QED
    BY <2>3 DEF h2
<1>12. /\ \A u \in Tasks : pc'[u] = "waiting" <=> \E i \in DOMAIN waiters' : waiters'[i] = u
       /\ \A i, j \in DOMAIN waiters' : waiters'[i] = waiters'[j] => i = j
  <2> DEFINE m == Len(waiters) - n
  <2>1. /\ DOMAIN waiters' = 1..m /\ \A i \in 1..m : waiters'[i] = waiters[n + i]
        /\ waiters' \in Seq(Tasks)
    BY WakeMoves
  <2>2. \A i \in 1..m : n + i \in DOMAIN waiters /\ n + i \notin 1..n
    BY <1>1, SMT
  <2>3. \A k \in DOMAIN waiters : k \in 1..n \/ \E i \in 1..m : k = n + i
    <3> SUFFICES ASSUME NEW k \in DOMAIN waiters, k \notin 1..n
                 PROVE  \E i \in 1..m : k = n + i
      OBVIOUS
    <3>1. k - n \in 1..m /\ k = n + (k - n)
      BY <1>1, SMT
    <3>2. QED
      BY <3>1
  <2>4. \A i, j \in 1..m : n + i = n + j => i = j
    BY <1>1, SMT
  <2>5. \A i, j \in DOMAIN waiters : waiters[i] = waiters[j] => i = j
    BY DEF SlotInv, SlotAccounting
  <2>6. \A u \in Tasks : pc[u] = "waiting" <=> \E i \in DOMAIN waiters : waiters[i] = u
    BY DEF SlotInv, SlotAccounting
  <2> HIDE DEF m
  <2>7. \A u \in Tasks : pc'[u] = "waiting" <=> pc[u] = "waiting" /\ u \notin A
    BY <1>4, <1>5, <1>6
  <2>8. 1..n \subseteq DOMAIN waiters
    BY <1>1, SMT
  <2>9. ASSUME NEW u \in Tasks, pc'[u] = "waiting"
        PROVE  \E i \in DOMAIN waiters' : waiters'[i] = u
    <3>1. PICK k \in DOMAIN waiters : waiters[k] = u
      BY <2>6, <2>7, <2>9
    <3>2. k \notin 1..n
      BY <1>3, <2>7, <2>9, <3>1
    <3>3. QED
      BY <2>1, <2>3, <3>1, <3>2
  <2>10. ASSUME NEW i \in DOMAIN waiters' PROVE pc'[waiters'[i]] = "waiting"
    <3>1. i \in 1..m /\ waiters'[i] = waiters[n + i] /\ n + i \in DOMAIN waiters
      BY <2>1, <2>2
    <3>2. waiters[n + i] \in Tasks /\ pc[waiters[n + i]] = "waiting"
      BY <1>1, <2>6, <3>1
    <3>3. waiters[n + i] \notin A
      <4>1. \A k \in 1..n : waiters[k] # waiters[n + i]
        BY <2>2, <2>5, <2>8, <3>1
      <4>2. QED
        BY <1>3, <3>2, <4>1
    <3>4. QED
      BY <2>7, <3>1, <3>2, <3>3
  <2>11. \A i, j \in DOMAIN waiters' : waiters'[i] = waiters'[j] => i = j
    BY <2>1, <2>2, <2>4, <2>5
  <2>12. QED
    BY <2>1, <2>9, <2>10, <2>11
<1>13. waiters' # <<>> => free' = 0
  <2>1. n = Len(waiters) => Len(waiters) - n = 0
    BY <1>1, SMT
  <2>2. DOMAIN waiters' = 1..(Len(waiters) - n) /\ waiters' \in Seq(Tasks)
    BY WakeMoves
  <2>3. waiters' # <<>> => Len(waiters') \in Nat \ {0} /\ DOMAIN waiters' = 1..Len(waiters')
    BY <2>2, EmptySeq, LenProperties
  <2>4. waiters' # <<>> => 1 \in DOMAIN waiters'
    BY <2>3, SMT
  <2>5. 1 \notin 1..0
    BY SMT
  <2>6. QED
    BY <1>9, <2>1, <2>2, <2>4, <2>5
<1>14. SlotAccounting'
  BY <1>10, <1>11, <1>12, <1>13 DEF SlotAccounting
<1>15. QED
  BY <1>6, <1>9, <1>14, WakeMoves DEF SlotInv, SlotTypeOK

-----------------------------------------------------------------------------
\* A step that leaves the semaphore alone and moves t within its slot keeps the
\* accounts.
LEMMA MoveInSlotKeepsSlots ==
  ASSUME SlotInv, NEW t \in Tasks, NEW place \in InSlot \ {"woken"}, pc[t] \in InSlot \ {"woken"},
         pc' = [pc EXCEPT ![t] = place], UNCHANGED <<limit, free, waiters>>
  PROVE  SlotInv'
<1>1. Holders' = Holders
  BY DEF SlotInv, SlotTypeOK, Holders, InSlot
<1>2. \A u \in Tasks : pc'[u] = "waiting" <=> pc[u] = "waiting"
  BY DEF SlotInv, SlotTypeOK, InSlot
<1>3. SlotTypeOK'
  BY DEF SlotInv, SlotTypeOK, PcTypes
<1>4. Woken' = Woken
  BY DEF SlotInv, SlotTypeOK, Woken
<1>5. QED
  BY <1>1, <1>2, <1>3, <1>4 DEF SlotInv, SlotAccounting, Limited

\* The program starts with the semaphore full and nobody at it.
LEMMA InitIInv == Init => IInv
<1> SUFFICES ASSUME Init PROVE IInv
  OBVIOUS
<1>1. Holders = {} /\ Cardinality(Holders) = 0 /\ Woken = {}
  BY FS_EmptySet DEF Init, Holders, InSlot, Woken
<1>2. limit \in Nat
  BY LimitsAssumption DEF Init
<1>3. TypeOK
  BY <1>2, AttemptsPositive, SMT DEF Init, TypeOK, PcTypes, Ended, Responses
<1>4. SlotAccounting
  BY <1>1, <1>2, SMT DEF Init, SlotAccounting
<1>5. PauseHasAttemptLeft
  BY DEF Init, PauseHasAttemptLeft
<1>6. QED
  BY <1>3, <1>4, <1>5 DEF IInv

\* Every step of every task preserves the inductive invariant.
LEMMA NextIInv == IInv /\ [Next]_vars => IInv'
<1> SUFFICES ASSUME IInv, [Next]_vars PROVE IInv'
  OBVIOUS
<1>s. SlotInv
  BY LimitsAssumption DEF IInv, TypeOK, SlotInv, SlotTypeOK
<1>a. Attempts \in Nat \ {0}
  BY AttemptsPositive
<1>t. TypeOK /\ PauseHasAttemptLeft
  BY DEF IInv
<1>c. ASSUME SlotInv', limit' \in Limits, PauseHasAttemptLeft',
             attempt' \in [Tasks -> 0..(Attempts - 1)],
             last' \in [Tasks -> Responses \cup Exceptions]
      PROVE  IInv'
  BY <1>c DEF IInv, TypeOK, SlotInv, SlotTypeOK
<1>1. ASSUME NEW t \in Tasks, Call(t) PROVE IInv'
  <2>1. SlotInv' /\ pc' = [pc EXCEPT ![t] = pc'[t]] /\ pc'[t] \in {"granted", "waiting"}
    BY <1>1, <1>s, AcquireKeepsSlots DEF Call
  <2>2. attempt' \in [Tasks -> 0..(Attempts - 1)]
    BY <1>1, <1>t, <1>a, SMT DEF Call, TypeOK
  <2>3. PauseHasAttemptLeft'
    BY <1>1, <1>t, <2>1 DEF Call, TypeOK, PauseHasAttemptLeft, IsLastAttempt
  <2>4. QED
    BY <1>1, <1>c, <1>t, <2>1, <2>2, <2>3 DEF Call, TypeOK
<1>2. ASSUME NEW t \in Tasks, Send(t) PROVE IInv'
  <2>0. UNCHANGED <<limit, attempt, last>>
    BY <1>2 DEF Send
  <2>1. CASE /\ pc[t] = "granted" /\ pc' = [pc EXCEPT ![t] = "sending"]
             /\ UNCHANGED <<free, waiters>>
    <3>1. SlotInv'
      BY <2>0, <2>1, <1>s, MoveInSlotKeepsSlots DEF InSlot
    <3>2. PauseHasAttemptLeft'
      BY <2>0, <2>1, <1>t DEF TypeOK, PauseHasAttemptLeft, IsLastAttempt
    <3>3. QED
      BY <1>c, <1>t, <2>0, <3>1, <3>2 DEF TypeOK
  <2>2. ASSUME NEW n \in 0..Len(waiters), pc[t] = "woken", WakeOthers(t, n, "sending")
        PROVE  IInv'
    <3>1. SlotInv'
      BY <2>0, <2>2, <1>s, WakeKeepsSlots
    <3>2. /\ pc'[t] = "sending"
          /\ \A u \in Tasks \ {t} : pc'[u] = pc[u] \/ pc'[u] = "woken"
      BY <2>2, <1>s, WakeMoves
    <3>3. PauseHasAttemptLeft'
      BY <2>0, <3>2, <1>t DEF PauseHasAttemptLeft, IsLastAttempt
    <3>4. QED
      BY <1>c, <1>t, <2>0, <3>1, <3>3 DEF TypeOK
  <2>3. QED
    BY <1>2, <2>1, <2>2 DEF Send
<1>3. ASSUME NEW t \in Tasks, NEW o \in Responses, Respond(t, o) PROVE IInv'
  <2>1. PICK place \in Ended \cup {"pausing"} :
          Release(t, place) /\ (place = "pausing" => ~IsLastAttempt(t))
    BY <1>3 DEF Respond, Responses, Ended
  <2>2. pc[t] = "sending" /\ limit' = limit /\ attempt' = attempt
    BY <1>3 DEF Respond
  <2>3. /\ SlotInv' /\ pc'[t] = place
        /\ \A u \in Tasks \ {t} : pc'[u] = pc[u] \/ pc'[u] = "woken"
    BY <1>s, <2>1, <2>2, ReleaseKeepsSlots DEF InSlot
  <2>4. PauseHasAttemptLeft'
    <3> SUFFICES ASSUME NEW u \in Tasks, pc'[u] \in {"pausing", "pausingInSlot"}
                 PROVE  ~IsLastAttempt(u)'
      BY DEF PauseHasAttemptLeft
    <3>1. ~IsLastAttempt(u)
      BY <1>t, <2>1, <2>3 DEF PauseHasAttemptLeft, Ended
    <3>2. QED
      BY <2>2, <3>1 DEF IsLastAttempt
  <2>5. last' \in [Tasks -> Responses \cup Exceptions]
    BY <1>3, <1>t DEF Respond, TypeOK
  <2>6. QED
    BY <1>c, <1>t, <2>2, <2>3, <2>4, <2>5 DEF TypeOK
<1>4. ASSUME NEW t \in Tasks, NEW e \in Exceptions, Fail(t, e) PROVE IInv'
  <2>1. /\ last' \in [Tasks -> Responses \cup Exceptions]
        /\ limit' = limit /\ attempt' = attempt /\ pc[t] = "sending"
    BY <1>4, <1>t DEF Fail, TypeOK
  <2>2. CASE /\ ~IsLastAttempt(t)
             /\ pc' = [pc EXCEPT ![t] = "pausingInSlot"]
             /\ UNCHANGED <<free, waiters>>
    <3>1. SlotInv'
      BY <1>s, <2>1, <2>2, MoveInSlotKeepsSlots DEF InSlot
    <3>2. PauseHasAttemptLeft'
      BY <1>t, <2>1, <2>2 DEF PauseHasAttemptLeft, IsLastAttempt, TypeOK
    <3>3. QED
      BY <1>c, <1>t, <2>1, <3>1, <3>2 DEF TypeOK
  <2>3. CASE Release(t, "raised")
    <3>1. /\ SlotInv' /\ pc'[t] = "raised"
          /\ \A u \in Tasks \ {t} : pc'[u] = pc[u] \/ pc'[u] = "woken"
      BY <1>s, <2>1, <2>3, ReleaseKeepsSlots DEF InSlot, Ended
    <3>2. PauseHasAttemptLeft'
      BY <1>t, <2>1, <3>1 DEF PauseHasAttemptLeft, IsLastAttempt
    <3>3. QED
      BY <1>c, <1>t, <2>1, <3>1, <3>2 DEF TypeOK
  <2>4. QED
    BY <1>4, <2>2, <2>3 DEF Fail
<1>5. ASSUME NEW t \in Tasks, Resume(t) PROVE IInv'
  <2>1. SlotInv' /\ pc' = [pc EXCEPT ![t] = pc'[t]] /\ pc'[t] \in {"granted", "waiting"}
    BY <1>5, <1>s, AcquireKeepsSlots DEF Resume
  <2>2. attempt' \in [Tasks -> 0..(Attempts - 1)]
    BY <1>5, <1>t, <1>a, SMT DEF Resume, TypeOK, PauseHasAttemptLeft, IsLastAttempt
  <2>3. PauseHasAttemptLeft'
    BY <1>5, <1>t, <2>1 DEF Resume, TypeOK, PauseHasAttemptLeft, IsLastAttempt
  <2>4. QED
    BY <1>5, <1>c, <1>t, <2>1, <2>2, <2>3 DEF Resume, TypeOK
<1>6. ASSUME NEW t \in Tasks, ResumeInSlot(t) PROVE IInv'
  <2>1. /\ SlotInv' /\ pc'[t] \in {"granted", "waiting"}
        /\ \A u \in Tasks \ {t} : pc'[u] = pc[u] \/ pc'[u] = "woken"
    BY <1>6, <1>s, CycleKeepsSlots DEF ResumeInSlot
  <2>2. attempt' \in [Tasks -> 0..(Attempts - 1)]
    BY <1>6, <1>t, <1>a, SMT DEF ResumeInSlot, TypeOK, PauseHasAttemptLeft, IsLastAttempt
  <2>3. PauseHasAttemptLeft'
    BY <1>6, <1>t, <2>1 DEF ResumeInSlot, TypeOK, PauseHasAttemptLeft, IsLastAttempt
  <2>4. QED
    BY <1>6, <1>c, <1>t, <2>1, <2>2, <2>3 DEF ResumeInSlot, TypeOK
<1>7. CASE UNCHANGED vars
  BY <1>7 DEF vars, IInv, TypeOK, SlotAccounting, PauseHasAttemptLeft, IsLastAttempt,
              Limited, Holders, Woken
<1>8. QED
  BY <1>1, <1>2, <1>3, <1>4, <1>5, <1>6, <1>7 DEF Next, Proceed

\* The inductive invariant holds in every state of every behaviour.
LEMMA InductiveInvariant == Spec => []IInv
BY InitIInv, NextIInv, PTL DEF Spec

\* Every variable of the outbound layer keeps its type; the attempt counter in
\* particular stays below the configured number of attempts.
THEOREM TypeCorrect == Spec => []TypeOK
<1>1. IInv => TypeOK
  BY DEF IInv
<1>2. QED
  BY <1>1, InductiveInvariant, PTL

\* No path through resilient_get loses or duplicates a slot, and nobody waits while a
\* slot is free but for a woken task that has still to run, and will pass it on
\* (outbound.py:21-29, resilient_http.py:82-100).
THEOREM SlotsAccountedFor == Spec => []SlotAccounting
<1>1. IInv => SlotAccounting
  BY DEF IInv
<1>2. QED
  BY <1>1, InductiveInvariant, PTL

\* Those on the wire hold a slot.
LEMMA OnWireHolds ==
  ASSUME IInv, Limited
  PROVE  /\ OnWire \subseteq Holders /\ Holders \subseteq Tasks
         /\ Cardinality(Holders) <= limit /\ limit \in Nat
         /\ IsFiniteSet(OnWire)
         /\ Cardinality(OnWire) \in Nat /\ Cardinality(OnWire) <= limit
<1>1. OnWire \in SUBSET Holders /\ OnWire \in SUBSET Tasks /\ Holders \in SUBSET Tasks
  BY DEF OnWire, Holders, InSlot
<1>2. /\ IsFiniteSet(OnWire)
      /\ Cardinality(OnWire) \in Nat /\ Cardinality(Holders) \in Nat
      /\ Cardinality(OnWire) <= Cardinality(Holders)
  BY <1>1, HoldersFinite, FS_Subset
<1>3. free \in Nat /\ limit \in Nat /\ free + Cardinality(Holders) = limit
  BY LimitsAssumption DEF IInv, TypeOK, SlotAccounting
<1>4. Cardinality(Holders) <= limit /\ Cardinality(OnWire) <= limit
  BY <1>2, <1>3, SMT
<1>5. QED
  BY <1>1, <1>2, <1>3, <1>4

\* At most outbound_max_concurrent exchanges are in flight at any time
\* (outbound.py:20-29).
THEOREM CapHolds == Spec => []OutboundCap
<1>1. IInv => OutboundCap
  BY OnWireHolds DEF OutboundCap
<1>2. QED
  BY <1>1, InductiveInvariant, PTL

-----------------------------------------------------------------------------
\* A task that holds a slot and is not on the wire leaves room on the wire.
LEMMA RoomForHolder ==
  ASSUME IInv, Limited, NEW t \in Holders, t \notin OnWire
  PROVE  Cardinality(OnWire) < limit
<1>1. (OnWire \cup {t}) \in SUBSET Holders /\ Holders \in SUBSET Tasks
  BY OnWireHolds
<1>2. Cardinality(OnWire \cup {t}) = Cardinality(OnWire) + 1
  BY OnWireHolds, FS_AddElement
<1>3. Cardinality(OnWire \cup {t}) <= Cardinality(Holders)
  BY <1>1, HoldersFinite, FS_Subset
<1>4. QED
  BY <1>1, <1>2, <1>3, OnWireHolds, HoldersFinite, SMT

\* Of the others, a task that sends moves those it wakes.
LEMMA SendMoves ==
  ASSUME IInv, NEW t \in Tasks, Send(t)
  PROVE  /\ pc'[t] = "sending"
         /\ \A u \in Tasks \ {t} : \/ pc'[u] = pc[u]
                                   \/ pc[u] = "waiting" /\ pc'[u] = "woken"
<1>1. SlotInv /\ pc \in [Tasks -> PcTypes]
  BY LimitsAssumption DEF IInv, TypeOK, SlotInv, SlotTypeOK
<1>2. CASE pc' = [pc EXCEPT ![t] = "sending"]
  BY <1>1, <1>2
<1>3. ASSUME NEW n \in 0..Len(waiters), pc[t] = "woken", WakeOthers(t, n, "sending")
      PROVE  /\ pc'[t] = "sending"
             /\ \A u \in Tasks \ {t} : \/ pc'[u] = pc[u]
                                       \/ pc[u] = "waiting" /\ pc'[u] = "woken"
  BY <1>1, <1>3, WakeMoves
<1>4. QED
  BY <1>2, <1>3 DEF Send

\* Releasing a slot after an exchange is, for the contract, the end of that
\* exchange: nobody else's GET changes.
LEMMA ReleaseLands ==
  ASSUME IInv, NEW t \in Tasks, pc[t] = "sending",
         NEW place \in {"returned", "raised", "pausing"},
         Release(t, place), UNCHANGED <<limit, attempt>>
  PROVE  /\ OnWire' = OnWire \ {t}
         /\ Sent' = Sent
         /\ Verdict' = [Verdict EXCEPT ![t] = IF place = "pausing" THEN "active" ELSE place]
<1>1. SlotInv
  BY LimitsAssumption DEF IInv, TypeOK, SlotInv, SlotTypeOK
<1>2. /\ pc'[t] = place
      /\ \A u \in Tasks \ {t} : \/ pc'[u] = pc[u]
                                \/ pc[u] = "waiting" /\ pc'[u] = "woken"
  <2>1. CASE waiters = <<>>
    BY <1>1, <2>1 DEF Release, SlotInv, SlotTypeOK
  <2>2. CASE waiters # <<>>
    BY <1>1, <2>2, HeadWaits DEF Release, SlotInv, SlotTypeOK
  <2>3. QED
    BY <2>1, <2>2
<1>3. OnWire' = OnWire \ {t}
  BY <1>2 DEF OnWire
<1>4. Sent' = Sent
  BY <1>2 DEF Sent
<1>5. \A u \in Tasks : (IF pc'[u] \in Ended THEN pc'[u] ELSE "active")
        = IF u = t THEN (IF place = "pausing" THEN "active" ELSE place)
          ELSE IF pc[u] \in Ended THEN pc[u] ELSE "active"
  BY <1>2 DEF Ended
<1>6. Verdict' = [Verdict EXCEPT ![t] = IF place = "pausing" THEN "active" ELSE place]
  BY <1>5 DEF Verdict
<1>7. QED
  BY <1>3, <1>4, <1>6

\* Asking for a slot is invisible to the contract, but for the attempt counter.
LEMMA AcquireInvisible ==
  ASSUME IInv, NEW t \in Tasks, pc[t] \in Ended \cup {"pausing"}, Acquire(t),
         NEW n \in Nat, attempt' = [attempt EXCEPT ![t] = n]
  PROVE  /\ OnWire' = OnWire
         /\ Sent' = [Sent EXCEPT ![t] = n]
         /\ Verdict' = [Verdict EXCEPT ![t] = "active"]
<1>1. PICK place \in {"granted", "waiting"} : pc' = [pc EXCEPT ![t] = place]
  BY DEF Acquire
<1>2. pc \in [Tasks -> PcTypes] /\ attempt \in [Tasks -> 0..(Attempts - 1)]
  BY DEF IInv, TypeOK
<1>3. OnWire' = OnWire
  BY <1>1, <1>2 DEF OnWire, Ended
<1>4. Sent' = [Sent EXCEPT ![t] = n]
  BY <1>1, <1>2 DEF Sent
<1>5. Verdict' = [Verdict EXCEPT ![t] = "active"]
  BY <1>1, <1>2 DEF Verdict, Ended
<1>6. QED
  BY <1>3, <1>4, <1>5

\* Initially no GET was issued and nothing is in flight.
LEMMA ContractInit == Init => Contract!Init
BY DEF Init, Contract!Init, Verdict, Sent, OnWire, Ended, Answer

\* Every step of the code is a step of the contract, or invisible to it.
LEMMA ContractStep == IInv /\ [Next]_vars => [Contract!Next]_(Contract!vars)
<1> SUFFICES ASSUME IInv, [Next]_vars PROVE [Contract!Next]_(Contract!vars)
  OBVIOUS
<1>t. /\ pc \in [Tasks -> PcTypes] /\ attempt \in [Tasks -> 0..(Attempts - 1)]
      /\ limit \in Nat /\ Attempts \in Nat \ {0}
  BY LimitsAssumption, AttemptsPositive DEF IInv, TypeOK
<1>1. ASSUME NEW t \in Tasks, Call(t) PROVE Contract!Begin(t)
  <2>1. /\ OnWire' = OnWire /\ Sent' = [Sent EXCEPT ![t] = 0]
        /\ Verdict' = [Verdict EXCEPT ![t] = "active"]
        /\ limit' = limit /\ last' = last
    BY <1>1, AcquireInvisible DEF Call
  <2>2. Verdict[t] # "active"
    BY <1>1 DEF Call, Verdict, Ended
  <2>3. QED
    BY <2>1, <2>2 DEF Contract!Begin
<1>2. ASSUME NEW t \in Tasks, Send(t) PROVE Contract!Send(t)
  <2>1. /\ Verdict[t] = "active" /\ t \notin OnWire /\ t \in Holders
        /\ Sent[t] = attempt[t] /\ attempt[t] < Attempts
    BY <1>2, <1>t, SMT DEF Send, Verdict, Ended, OnWire, Holders, InSlot, Sent
  <2>2. limit = 0 \/ Cardinality(OnWire) < limit
    BY <2>1, <1>t, RoomForHolder, SMT DEF Limited
  <2>3. /\ pc'[t] = "sending" /\ attempt' = attempt
        /\ \A u \in Tasks \ {t} : \/ pc'[u] = pc[u]
                                  \/ pc[u] = "waiting" /\ pc'[u] = "woken"
        /\ limit' = limit /\ last' = last
        /\ pc[t] \in {"granted", "woken"}
    BY <1>2, <1>t, SendMoves DEF Send
  <2>4. OnWire' = OnWire \cup {t}
    BY <2>3, <1>t DEF OnWire
  <2>5. Sent' = [Sent EXCEPT ![t] = @ + 1]
    <3>1. \A u \in Tasks \ {t} : Sent'[u] = Sent[u]
      BY <2>3 DEF Sent
    <3>2. Sent'[t] = Sent[t] + 1
      BY <2>3 DEF Sent
    <3>3. QED
      BY <3>1, <3>2 DEF Sent
  <2>6. Verdict' = Verdict
    BY <2>3, <1>t DEF Verdict, Ended
  <2>7. Contract!Cardinality(OnWire) = Cardinality(OnWire)
    BY Zenon DEF Contract!Cardinality, Cardinality
  <2>8. QED
    BY <2>1, <2>2, <2>3, <2>4, <2>5, <2>6, <2>7 DEF Contract!Send
<1>n. ASSUME NEW t \in Tasks, pc[t] = "sending"
      PROVE  /\ t \in OnWire /\ Sent[t] = attempt[t] + 1 /\ Verdict[t] = "active"
             /\ Sent[t] < Attempts <=> ~IsLastAttempt(t)
             /\ Sent[t] = Attempts <=> IsLastAttempt(t)
             /\ Verdict = [Verdict EXCEPT ![t] = "active"]
  BY <1>n, <1>t, SMT DEF OnWire, Sent, Verdict, IsLastAttempt, Ended
<1>3. ASSUME NEW t \in Tasks, NEW o \in Responses, Respond(t, o) PROVE Contract!Land(t, o)
  <2>0. pc[t] = "sending" /\ UNCHANGED <<limit, attempt>> /\ last' = [last EXCEPT ![t] = o]
    BY <1>3 DEF Respond
  <2> USE DEF Contract!Land, Contract!Retryable, Contract!Answers,
              Answer, Unavailable, Oversize
  <2>1. CASE o = Oversize /\ Release(t, "raised")
    BY <2>0, <2>1, <1>n, ReleaseLands
  <2>2. CASE o = Unavailable /\ ~IsLastAttempt(t) /\ Release(t, "pausing")
    BY <2>0, <2>2, <1>n, ReleaseLands
  <2>3. CASE o = Unavailable /\ IsLastAttempt(t) /\ Release(t, "returned")
    BY <2>0, <2>3, <1>n, ReleaseLands
  <2>4. CASE o = Answer /\ Release(t, "returned")
    BY <2>0, <2>4, <1>n, ReleaseLands
  <2>5. QED
    BY <1>3, <2>1, <2>2, <2>3, <2>4 DEF Respond
<1>4. ASSUME NEW t \in Tasks, NEW e \in Exceptions, Fail(t, e) PROVE Contract!Land(t, e)
  <2>0. pc[t] = "sending" /\ UNCHANGED <<limit, attempt>> /\ last' = [last EXCEPT ![t] = e]
    BY <1>4 DEF Fail
  <2> USE DEF Contract!Land, Contract!Retryable, Contract!Answers,
              Exceptions, Transient, ReadError, Fatal
  <2>1. CASE /\ e = Transient /\ ~IsLastAttempt(t)
             /\ pc' = [pc EXCEPT ![t] = "pausingInSlot"]
    <3>1. OnWire' = OnWire \ {t} /\ Sent' = Sent /\ Verdict' = Verdict
      BY <2>0, <2>1, <1>t DEF OnWire, Sent, Verdict, Ended
    <3>2. QED
      BY <2>0, <2>1, <3>1, <1>n
  <2>2. CASE (e # Transient \/ IsLastAttempt(t)) /\ Release(t, "raised")
    BY <2>0, <2>2, <1>n, ReleaseLands
  <2>3. QED
    BY <1>4, <2>1, <2>2 DEF Fail
<1>5. ASSUME NEW t \in Tasks, Resume(t) PROVE UNCHANGED Contract!vars
  <2>1. attempt[t] + 1 \in Nat /\ Sent[t] = attempt[t] + 1 /\ Verdict[t] = "active"
    BY <1>5, <1>t, SMT DEF Resume, Sent, Verdict, Ended
  <2>2. /\ OnWire' = OnWire /\ Sent' = [Sent EXCEPT ![t] = attempt[t] + 1]
        /\ Verdict' = [Verdict EXCEPT ![t] = "active"]
        /\ limit' = limit /\ last' = last
    <3> DEFINE n == attempt[t] + 1
    <3>1. /\ pc[t] \in Ended \cup {"pausing"} /\ Acquire(t)
          /\ attempt' = [attempt EXCEPT ![t] = n]
          /\ limit' = limit /\ last' = last
      BY <1>5 DEF Resume
    <3>2. n \in Nat
      BY <2>1
    <3> HIDE DEF n
    <3>3. /\ OnWire' = OnWire /\ Sent' = [Sent EXCEPT ![t] = n]
          /\ Verdict' = [Verdict EXCEPT ![t] = "active"]
      BY <3>1, <3>2, AcquireInvisible
    <3>4. QED
      BY <3>1, <3>3 DEF n
  <2>3. Sent = [u \in Tasks |-> Sent[u]] /\ Verdict = [u \in Tasks |-> Verdict[u]]
    BY DEF Sent, Verdict
  <2>4. Sent' = Sent
    BY <2>1, <2>2, <2>3
  <2>5. Verdict' = Verdict
    BY <2>1, <2>2, <2>3
  <2>6. QED
    BY <2>2, <2>4, <2>5 DEF Contract!vars
<1>6. ASSUME NEW t \in Tasks, ResumeInSlot(t) PROVE UNCHANGED Contract!vars
  <2>1. /\ pc[t] = "pausingInSlot" /\ attempt' = [attempt EXCEPT ![t] = @ + 1]
        /\ limit' = limit /\ last' = last
    BY <1>6 DEF ResumeInSlot
  <2>2. /\ pc'[t] \in {"granted", "waiting"}
        /\ \A u \in Tasks \ {t} : \/ pc'[u] = pc[u]
                                  \/ pc[u] = "waiting" /\ pc'[u] = "woken"
    <3>1. SlotInv
      BY LimitsAssumption DEF IInv, TypeOK, SlotInv, SlotTypeOK
    <3>2. CASE waiters = <<>>
      <4>1. PICK place \in {"granted", "waiting"} : pc' = [pc EXCEPT ![t] = place]
        BY <1>6, <3>2 DEF ResumeInSlot, Cycle
      <4>2. QED
        BY <1>t, <4>1
    <3>3. CASE waiters # <<>>
      BY <1>6, <1>t, <3>1, <3>3, HeadWaits DEF ResumeInSlot, Cycle
    <3>4. QED
      BY <3>2, <3>3
  <2>3. OnWire' = OnWire
    BY <2>1, <2>2 DEF OnWire
  <2>4. Sent' = Sent
    BY <2>1, <2>2, <1>t DEF Sent
  <2>5. Verdict' = Verdict
    BY <2>1, <2>2 DEF Verdict, Ended
  <2>6. QED
    BY <2>1, <2>3, <2>4, <2>5 DEF Contract!vars
<1>7. CASE UNCHANGED vars
  BY <1>7 DEF vars, Contract!vars, Verdict, Sent, OnWire
<1>8. ASSUME NEW t \in Tasks, NEW o \in Responses \cup Exceptions, Contract!Land(t, o)
      PROVE  Contract!Next
  BY <1>8 DEF Contract!Next, Contract!Outcomes, Contract!Answers, Contract!Failures,
              Responses, Exceptions, Answer, Unavailable, Oversize, Transient, ReadError, Fatal
<1>9. QED
  BY <1>1, <1>2, <1>3, <1>4, <1>5, <1>6, <1>7, <1>8 DEF Next, Proceed, Contract!Next

\* resilient_get behind the semaphore keeps the promise of ExchangeContract: at
\* most Attempts exchanges per GET, another one only after a retryable outcome,
\* the last outcome decides, never more than the cap at once.
THEOREM ContractImplemented == Spec => ImplementsContract
BY ContractInit, ContractStep, InductiveInvariant, PTL
   DEF Spec, ImplementsContract, Contract!Spec

-----------------------------------------------------------------------------
(***************************************************************************)
(* Why every GET ends, as far as safety tells: each step of a GET brings   *)
(* it nearer to its end, the queue moves up in order and nobody overtakes, *)
(* a slot that is given up goes to the first in the queue, and whoever     *)
(* waits, waits for a task that holds a slot.  Under Fairness nothing else *)
(* is missing for EveryGetEnds.                                            *)
(***************************************************************************)
Stage(t) == CASE pc[t] = "waiting" -> 4
              [] pc[t] \in {"granted", "woken"} -> 3
              [] pc[t] = "sending" -> 2
              [] OTHER             -> 1

\* The steps t's GET has before it, at most.
Left(t) == IF pc[t] \in Ended THEN 0 ELSE 5 * (Attempts - 1 - attempt[t]) + Stage(t)

\* Only t and tasks that get its slot move.
OthersAtMostAdmitted(t) ==
  \A u \in Tasks \ {t} : \/ pc'[u] = pc[u]
                         \/ pc[u] = "waiting" /\ pc'[u] = "woken"

\* The first n tasks of the queue get slots, the others move up by n; whoever joins
\* does so behind them.
MovesUp(n) ==
  \A i \in DOMAIN waiters :
    IF i <= n THEN pc'[waiters[i]] = "woken"
    ELSE i - n \in DOMAIN waiters' /\ waiters'[i - n] = waiters[i]

QueueMoves == \E n \in 0..Len(waiters) : MovesUp(n)

\* Whether t joins the queue or not, the others keep their places.
LEMMA QueueStays ==
  ASSUME IInv, NEW t \in Tasks, waiters' \in {waiters, Append(waiters, t)}
  PROVE  QueueMoves
<1>1. waiters \in Seq(Tasks) /\ Len(waiters) \in Nat /\ DOMAIN waiters = 1..Len(waiters)
  BY LenProperties DEF IInv, TypeOK
<1>2. \A i \in 1..Len(waiters) : ~(i <= 0) /\ i - 0 = i
  BY <1>1, SMT
<1>3. \A i \in DOMAIN waiters : i \in DOMAIN waiters' /\ waiters'[i] = waiters[i]
  <2>1. CASE waiters' = waiters
    BY <2>1
  <2>2. CASE waiters' = Append(waiters, t)
    BY <1>1, <2>2, AppendProperties, SMT
  <2>3. QED
    BY <2>1, <2>2
<1>4. MovesUp(0)
  BY <1>1, <1>2, <1>3 DEF MovesUp
<1>5. 0 \in 0..Len(waiters)
  BY <1>1, SMT
<1>6. QED
  BY <1>4, <1>5 DEF QueueMoves

\* If the first is woken, the others move up by one.
LEMMA QueueMovesUp ==
  ASSUME IInv, waiters # <<>>, NEW t \in Tasks,
         waiters' \in {Tail(waiters), Append(Tail(waiters), t)},
         pc'[Head(waiters)] = "woken"
  PROVE  QueueMoves
<1> DEFINE q == Tail(waiters)
<1>1. SlotInv
  BY LimitsAssumption DEF IInv, TypeOK, SlotInv, SlotTypeOK
<1>2. /\ q \in Seq(Tasks) /\ Len(q) = Len(waiters) - 1
      /\ \A k \in 1..Len(q) : q[k] = waiters[k + 1]
      /\ Head(waiters) = waiters[1]
      /\ Len(waiters) \in Nat \ {0}
  BY <1>1, HeadWaits
<1>3. waiters' \in {q, Append(q, t)}
  OBVIOUS
<1>4. DOMAIN waiters = 1..Len(waiters)
  BY <1>1, LenProperties DEF SlotInv, SlotTypeOK
<1> HIDE DEF q
<1>5. ASSUME NEW i \in DOMAIN waiters, ~(i <= 1)
      PROVE  i - 1 \in DOMAIN waiters' /\ waiters'[i - 1] = waiters[i]
  <2>1. i - 1 \in 1..Len(q) /\ Len(q) \in Nat /\ (i - 1) + 1 = i
    BY <1>2, <1>4, <1>5, SMT
  <2>2. i - 1 \in DOMAIN q /\ q[i - 1] = waiters[i]
    BY <1>2, <2>1, LenProperties
  <2>3. CASE waiters' = q
    BY <2>2, <2>3
  <2>4. CASE waiters' = Append(q, t)
    BY <1>2, <2>1, <2>2, <2>4, AppendProperties, SMT
  <2>5. QED
    BY <1>3, <2>3, <2>4
<1>6. ASSUME NEW i \in DOMAIN waiters, i <= 1 PROVE pc'[waiters[i]] = "woken"
  <2>1. i = 1
    BY <1>4, <1>6, SMT
  <2>2. QED
    BY <1>2, <2>1
<1>7. MovesUp(1)
  BY <1>5, <1>6 DEF MovesUp
<1>8. 1 \in 0..Len(waiters)
  BY <1>2, SMT
<1>9. QED
  BY <1>7, <1>8 DEF QueueMoves

\* A woken task that runs moves the queue up by as many as it wakes.
LEMMA WokenMovesQueue ==
  ASSUME IInv, NEW t \in Tasks, pc[t] = "woken",
         NEW n \in 0..Len(waiters), WakeOthers(t, n, "sending")
  PROVE  QueueMoves
<1>1. SlotInv
  BY LimitsAssumption DEF IInv, TypeOK, SlotInv, SlotTypeOK
<1> DEFINE k == Len(waiters)
<1>2. /\ \A i \in 1..n : pc'[waiters[i]] = "woken"
      /\ DOMAIN waiters' = 1..(k - n)
      /\ \A i \in 1..(k - n) : waiters'[i] = waiters[n + i]
      /\ k \in Nat /\ DOMAIN waiters = 1..k
  BY <1>1, WakeMoves
<1>3. n \in 0..k
  OBVIOUS
<1> HIDE DEF k
<1>4. \A i \in 1..k : /\ i <= n => i \in 1..n
                      /\ ~(i <= n) => i - n \in 1..(k - n) /\ n + (i - n) = i
  BY <1>2, <1>3, SMT
<1>5. MovesUp(n)
  BY <1>2, <1>4 DEF MovesUp
<1>6. QED
  BY <1>5 DEF QueueMoves

LEMMA AcquireMoves ==
  ASSUME IInv, NEW t \in Tasks, Acquire(t)
  PROVE  /\ pc'[t] \in {"granted", "waiting"} /\ OthersAtMostAdmitted(t)
         /\ QueueMoves /\ Holders \ {t} \subseteq Holders'
<1>1. PICK p \in {"granted", "waiting"} : pc' = [pc EXCEPT ![t] = p]
  BY DEF Acquire
<1>2. pc \in [Tasks -> PcTypes]
  BY DEF IInv, TypeOK
<1>3. waiters' \in {waiters, Append(waiters, t)}
  BY DEF Acquire
<1>4. QED
  BY <1>1, <1>2, <1>3, QueueStays DEF OthersAtMostAdmitted, Holders

LEMMA ReleaseMoves ==
  ASSUME IInv, NEW t \in Tasks, pc[t] = "sending", NEW place, Release(t, place)
  PROVE  /\ pc'[t] = place /\ OthersAtMostAdmitted(t) /\ QueueMoves
         /\ waiters # <<>> => pc'[Head(waiters)] = "woken"
<1>1. SlotInv /\ pc \in [Tasks -> PcTypes]
  BY LimitsAssumption DEF IInv, TypeOK, SlotInv, SlotTypeOK
<1>2. CASE waiters = <<>>
  BY <1>1, <1>2, QueueStays DEF Release, OthersAtMostAdmitted
<1>3. CASE waiters # <<>>
  <2>1. /\ pc' = [pc EXCEPT ![t] = place, ![Head(waiters)] = "woken"]
        /\ waiters' = Tail(waiters)
    BY <1>1, <1>3 DEF Release, SlotInv, SlotAccounting
  <2>2. Head(waiters) \in Tasks /\ pc[Head(waiters)] = "waiting"
    BY <1>1, <1>3, HeadWaits
  <2>3. pc'[Head(waiters)] = "woken" /\ OthersAtMostAdmitted(t)
    BY <1>1, <2>1, <2>2 DEF OthersAtMostAdmitted
  <2>4. QueueMoves
    BY <1>3, <2>1, <2>3, QueueMovesUp
  <2>5. pc'[t] = place
    BY <1>1, <2>1, <2>2
  <2>6. QED
    BY <2>3, <2>4, <2>5, <1>3
<1>4. QED
  BY <1>2, <1>3

LEMMA CycleMoves ==
  ASSUME IInv, NEW t \in Tasks, pc[t] = "pausingInSlot", Cycle(t)
  PROVE  /\ pc'[t] \in {"granted", "waiting"} /\ OthersAtMostAdmitted(t) /\ QueueMoves
         /\ waiters # <<>> => pc'[Head(waiters)] = "woken"
<1>1. SlotInv /\ pc \in [Tasks -> PcTypes]
  BY LimitsAssumption DEF IInv, TypeOK, SlotInv, SlotTypeOK
<1>2. CASE waiters = <<>>
  <2>1. PICK p \in {"granted", "waiting"} : pc' = [pc EXCEPT ![t] = p]
    BY <1>2 DEF Cycle
  <2>2. waiters' \in {waiters, Append(waiters, t)}
    BY <1>2 DEF Cycle
  <2>3. QED
    BY <1>1, <1>2, <2>1, <2>2, QueueStays DEF OthersAtMostAdmitted
<1>3. CASE waiters # <<>>
  <2>1. /\ pc' = [pc EXCEPT ![t] = "waiting", ![Head(waiters)] = "woken"]
        /\ waiters' = Append(Tail(waiters), t)
    BY <1>3 DEF Cycle
  <2>2. Head(waiters) \in Tasks /\ pc[Head(waiters)] = "waiting"
    BY <1>1, <1>3, HeadWaits
  <2>3. pc'[Head(waiters)] = "woken" /\ OthersAtMostAdmitted(t)
    BY <1>1, <2>1, <2>2 DEF OthersAtMostAdmitted
  <2>4. QueueMoves
    BY <1>3, <2>1, <2>3, QueueMovesUp
  <2>5. pc'[t] = "waiting"
    BY <1>1, <2>1, <2>2
  <2>6. QED
    BY <2>3, <2>4, <2>5, <1>3
<1>4. QED
  BY <1>2, <1>3

\* What any step does, seen from the queue and from the tasks it is not about.
LEMMA StepMoves ==
  ASSUME IInv, NEW t \in Tasks, Call(t) \/ Proceed(t)
  PROVE  /\ OthersAtMostAdmitted(t) /\ QueueMoves
         /\ attempt' = [attempt EXCEPT ![t] = attempt'[t]]
         /\ waiters # <<>> /\ ~(Holders \subseteq Holders') => pc'[Head(waiters)] = "woken"
<1>t. pc \in [Tasks -> PcTypes] /\ attempt \in [Tasks -> 0..(Attempts - 1)]
  BY DEF IInv, TypeOK
<1>1. CASE Call(t) \/ Resume(t)
  <2>1. /\ pc[t] \notin InSlot /\ Acquire(t)
        /\ attempt' = [attempt EXCEPT ![t] = attempt'[t]]
    BY <1>1, <1>t DEF Call, Resume, Ended, InSlot
  <2>2. Holders \subseteq Holders'
    BY <2>1, AcquireMoves DEF Holders
  <2>3. QED
    BY <2>1, <2>2, AcquireMoves
<1>2. CASE Send(t)
  <2>1. OthersAtMostAdmitted(t) /\ attempt' = attempt
    BY <1>2, SendMoves DEF OthersAtMostAdmitted, Send
  <2>2. Holders \subseteq Holders'
    BY <1>2, SendMoves DEF Holders, InSlot
  <2>3. QueueMoves
    BY <1>2, QueueStays, WokenMovesQueue DEF Send
  <2>4. QED
    BY <1>t, <2>1, <2>2, <2>3
<1>3. ASSUME NEW o \in Responses, Respond(t, o)
      PROVE  /\ OthersAtMostAdmitted(t) /\ QueueMoves
             /\ attempt' = attempt
             /\ waiters # <<>> => pc'[Head(waiters)] = "woken"
  <2>1. PICK place : Release(t, place)
    BY <1>3 DEF Respond
  <2>2. pc[t] = "sending" /\ attempt' = attempt
    BY <1>3 DEF Respond
  <2>3. QED
    BY <2>1, <2>2, ReleaseMoves
<1>4. ASSUME NEW e \in Exceptions, Fail(t, e)
      PROVE  /\ OthersAtMostAdmitted(t) /\ QueueMoves
             /\ attempt' = attempt
             /\ waiters # <<>> /\ ~(Holders \subseteq Holders') => pc'[Head(waiters)] = "woken"
  <2>1. pc[t] = "sending" /\ attempt' = attempt
    BY <1>4 DEF Fail
  <2>2. CASE pc' = [pc EXCEPT ![t] = "pausingInSlot"] /\ UNCHANGED waiters
    BY <2>1, <2>2, <1>t, QueueStays DEF OthersAtMostAdmitted, Holders, InSlot
  <2>3. CASE Release(t, "raised")
    BY <2>1, <2>3, ReleaseMoves
  <2>4. QED
    BY <1>4, <2>2, <2>3 DEF Fail
<1>5. CASE ResumeInSlot(t)
  BY <1>5, <1>t, CycleMoves DEF ResumeInSlot
<1>6. QED
  BY <1>1, <1>2, <1>3, <1>4, <1>5, <1>t DEF Proceed

\* Whoever waits for a slot waits for a task that holds one: with a limit of at
\* least one, the pool never locks itself up (outbound.py:20-29).
THEOREM NobodyWaitsForNobody == Spec => [](waiters # <<>> => Holders # {})
<1>1. IInv => (waiters # <<>> => Holders # {})
  <2> SUFFICES ASSUME IInv, waiters # <<>>, Holders = {} PROVE FALSE
    OBVIOUS
  <2>1. limit > 0 /\ free = 0 /\ free + Cardinality(Holders) = limit
    <3>1. Woken = {}
      BY DEF Woken, Holders, InSlot
    <3>2. QED
      BY <3>1 DEF IInv, SlotAccounting, Limited
  <2>2. Cardinality(Holders) = 0
    BY FS_EmptySet
  <2>3. limit \in Nat
    BY LimitsAssumption DEF IInv, TypeOK
  <2>4. QED
    BY <2>1, <2>2, <2>3, SMT
<1>2. QED
  BY <1>1, InductiveInvariant, PTL

\* A slot that is given up while tasks wait goes to the one that waits longest.
SlotHandedOn ==
  [][waiters # <<>> /\ ~(Holders \subseteq Holders') => pc'[Head(waiters)] = "woken"]_vars

\* Whatever way a task leaves the async with - a return, an exception, `continue`
\* - its slot goes to the longest waiting (outbound.py:25-29, resilient_http.py:82-100).
THEOREM SlotsHandedOn == Spec => SlotHandedOn
<1>1. IInv /\ [Next]_vars =>
        [waiters # <<>> /\ ~(Holders \subseteq Holders') => pc'[Head(waiters)] = "woken"]_vars
  BY StepMoves DEF Next
<1>2. QED
  BY <1>1, InductiveInvariant, PTL DEF Spec, SlotHandedOn

\* The tasks that leave the queue in a step are the first n of it, for some n, and
\* the others keep their order: no later one overtakes an earlier one.
FirstComeFirstServed == [][QueueMoves]_vars

\* Slots are given in the order they were asked for, though tasks retry, and a
\* retry asks for its slot anew, at the end of the queue (resilient_http.py:82).
THEOREM NobodyOvertakes == Spec => FirstComeFirstServed
<1>1. IInv /\ [Next]_vars => [QueueMoves]_vars
  BY StepMoves DEF Next
<1>2. QED
  BY <1>1, InductiveInvariant, PTL DEF Spec, FirstComeFirstServed

\* What is left of a GET is a number, and no state but the end of it has nothing left.
LEMMA LeftNat ==
  ASSUME IInv, NEW t \in Tasks
  PROVE  Left(t) \in Nat /\ (Left(t) = 0 <=> pc[t] \in Ended)
<1>1. attempt[t] \in 0..(Attempts - 1) /\ Attempts \in Nat \ {0} /\ Stage(t) \in 1..4
  BY AttemptsPositive DEF IInv, TypeOK, Stage
<1>2. Attempts - 1 - attempt[t] \in Nat
  BY <1>1, SMT
<1>3. QED
  BY <1>1, <1>2, SMT DEF Left

\* Each step a GET takes, or is given with a slot, leaves less of it.
RunsDown ==
  [][\A t \in Tasks : pc[t] \notin Ended =>
       Left(t)' < Left(t) \/ UNCHANGED <<pc[t], attempt[t]>>]_vars

\* No GET goes round in circles: whatever its exchanges bring and however often
\* others get their slots, a GET makes at most 5 * Attempts steps
\* (resilient_http.py:79-113).
THEOREM GetsRunDown == Spec => RunsDown
<1> DEFINE Less(t) == Left(t)' < Left(t) \/ UNCHANGED <<pc[t], attempt[t]>>
<1>1. ASSUME IInv, NEW t \in Tasks, Proceed(t) PROVE Left(t)' < Left(t)
  <2>t. /\ pc \in [Tasks -> PcTypes] /\ attempt \in [Tasks -> 0..(Attempts - 1)]
        /\ attempt[t] \in Nat /\ Attempts \in Nat \ {0} /\ attempt[t] < Attempts
    BY <1>1, AttemptsPositive, SMT DEF IInv, TypeOK
  <2> DEFINE k == 5 * (Attempts - 1 - attempt[t])
  <2>k. k \in Nat
    BY <2>t, SMT
  <2>1. CASE pc[t] \in {"granted", "woken"} /\ pc'[t] = "sending" /\ attempt' = attempt
    <3>1. Left(t) = k + 3 /\ Left(t)' = k + 2
      BY <2>1 DEF Left, Stage, Ended
    <3>2. QED
      BY <3>1, <2>k, SMT
  <2>2. CASE /\ pc[t] = "sending" /\ attempt' = attempt
             /\ pc'[t] \in Ended \cup {"pausing", "pausingInSlot"}
    <3>1. Left(t) = k + 2 /\ Left(t)' \in {0, k + 1}
      BY <2>2 DEF Left, Stage, Ended
    <3>2. QED
      BY <3>1, <2>k, SMT
  <2>3. CASE /\ pc[t] \in {"pausing", "pausingInSlot"} /\ attempt'[t] = attempt[t] + 1
             /\ pc'[t] \in {"granted", "waiting"}
    <3>1. 5 * (Attempts - 1 - (attempt[t] + 1)) = k - 5
      BY <2>t, SMT
    <3>2. Left(t) = k + 1
      BY <2>3 DEF Left, Stage, Ended
    <3>3. Left(t)' \in {k - 5 + 3, k - 5 + 4}
      BY <2>3, <3>1 DEF Left, Stage, Ended
    <3>4. QED
      BY <3>2, <3>3, <2>k, SMT
  <2> HIDE DEF k
  <2>4. CASE Send(t)
    BY <1>1, <2>1, <2>4, SendMoves DEF Send
  <2>5. CASE \E o \in Responses : Respond(t, o)
    <3>1. PICK place \in Ended \cup {"pausing"} : Release(t, place)
      BY <2>5 DEF Respond, Ended
    <3>2. pc[t] = "sending" /\ attempt' = attempt
      BY <2>5 DEF Respond
    <3>3. QED
      BY <1>1, <3>1, <3>2, <2>2, ReleaseMoves
  <2>6. CASE \E e \in Exceptions : Fail(t, e)
    <3>1. pc[t] = "sending" /\ attempt' = attempt
      BY <2>6 DEF Fail
    <3>2. CASE pc' = [pc EXCEPT ![t] = "pausingInSlot"]
      BY <2>t, <3>1, <3>2, <2>2
    <3>3. CASE Release(t, "raised")
      BY <1>1, <3>1, <3>3, <2>2, ReleaseMoves DEF Ended
    <3>4. QED
      BY <2>6, <3>2, <3>3 DEF Fail
  <2>7. CASE Resume(t)
    BY <1>1, <2>t, <2>3, <2>7, AcquireMoves DEF Resume
  <2>8. CASE ResumeInSlot(t)
    BY <1>1, <2>t, <2>3, <2>8, CycleMoves DEF ResumeInSlot
  <2>9. QED
    BY <1>1, <2>4, <2>5, <2>6, <2>7, <2>8 DEF Proceed
<1>2. ASSUME IInv, NEW t \in Tasks, NEW u \in Tasks \ {t}, Call(u) \/ Proceed(u),
             pc[t] \notin Ended
      PROVE  Less(t)
  <2>1. /\ pc'[t] = pc[t] \/ (pc[t] = "waiting" /\ pc'[t] = "woken")
        /\ attempt'[t] = attempt[t]
    <3>1. /\ attempt \in [Tasks -> 0..(Attempts - 1)] /\ OthersAtMostAdmitted(u)
          /\ attempt' = [attempt EXCEPT ![u] = attempt'[u]]
      BY <1>2, StepMoves DEF IInv, TypeOK
    <3>2. QED
      BY <3>1 DEF OthersAtMostAdmitted
  <2>2. CASE pc[t] = "waiting" /\ pc'[t] = "woken"
    <3> DEFINE k == 5 * (Attempts - 1 - attempt[t])
    <3>1. k \in Int
      BY <1>2, AttemptsPositive, SMT DEF IInv, TypeOK
    <3>2. Left(t) = k + 4 /\ Left(t)' = k + 3
      BY <2>1, <2>2 DEF Left, Stage, Ended
    <3>3. QED
      BY <3>1, <3>2, SMT
  <2>3. QED
    BY <2>1, <2>2
<1>3. ASSUME NEW t \in Tasks, Call(t), pc[t] \notin Ended PROVE FALSE
  BY <1>3 DEF Call
<1>4. IInv /\ [Next]_vars => [\A t \in Tasks : pc[t] \notin Ended => Less(t)]_vars
  <2> SUFFICES ASSUME IInv, NEW u \in Tasks, Call(u) \/ Proceed(u),
                      NEW t \in Tasks, pc[t] \notin Ended
               PROVE  Less(t)
    BY DEF Next
  <2>1. CASE t = u
    BY <1>1, <1>3, <2>1
  <2>2. CASE t # u
    BY <1>2, <2>2
  <2>3. QED
    BY <2>1, <2>2
<1>5. QED
  BY <1>4, InductiveInvariant, PTL DEF Spec, RunsDown

=============================================================================
