-------------------------- MODULE RateLimiter_proofs --------------------------
(***************************************************************************)
(* Proofs about RateLimiter, for every limit, every window and every set   *)
(* of hosts: the window promise and the justification of refusals.         *)
(*                                                                         *)
(* Neither is inductive: that Limit + 1 requests in a row span more than   *)
(* Window follows, when the last of them is let through, from what is no   *)
(* longer in the deque (HitsAreLatest).                                    *)
(***************************************************************************)
EXTENDS RateLimiter, FiniteSetTheorems, SequenceTheorems, TLAPS

\* The limit is a positive number.
LEMMA LimitPositive == Limit \in Nat \ {0}
BY WindowAssumption, SMT DEF Limit

\* What is left of the deque once its first n hits are popped.
LEMMA PoppedProperties ==
  ASSUME NEW q \in Seq(0..MaxTime), NEW n \in 0..Len(q)
  PROVE  /\ Popped(q, n) \in Seq(0..MaxTime)
         /\ Len(Popped(q, n)) = Len(q) - n
         /\ \A i \in 1..(Len(q) - n) : Popped(q, n)[i] = q[n + i]
<1>1. Len(q) \in Nat /\ n \in Nat /\ n <= Len(q)
  BY LenProperties, SMT
<1>2. \A i \in (n + 1)..Len(q) : q[i] \in 0..MaxTime
  <2>1. \A i \in (n + 1)..Len(q) : i \in 1..Len(q)
    BY <1>1, SMT
  <2>2. \A i \in 1..Len(q) : q[i] \in 0..MaxTime
    BY ElementOfSeq
  <2>3. QED
    BY <2>1, <2>2
<1>3. /\ SubSeq(q, n + 1, Len(q)) \in Seq(0..MaxTime)
      /\ Len(SubSeq(q, n + 1, Len(q)))
           = IF n + 1 <= Len(q) THEN Len(q) - (n + 1) + 1 ELSE 0
      /\ \A i \in 1..(Len(q) - (n + 1) + 1) : SubSeq(q, n + 1, Len(q))[i] = q[(n + 1) + i - 1]
  BY <1>1, <1>2, SubSeqProperties
<1>4. \A i \in 1..(Len(q) - n) : (n + 1) + i - 1 = n + i
  BY <1>1, SMT
<1>5. Len(q) - (n + 1) + 1 = Len(q) - n
  BY <1>1, SMT
<1>6. Len(SubSeq(q, n + 1, Len(q))) = Len(q) - n
  BY <1>1, <1>3, SMT
<1>7. QED
  BY <1>3, <1>4, <1>5, <1>6 DEF Popped

-----------------------------------------------------------------------------
(***************************************************************************)
(* One request on one host, in terms of its deque q, its log and the       *)
(* instant now; the step lemmas below apply these facts to the variables.  *)
(***************************************************************************)
\* The log and the deque of one host agree.
Agree(q, log, now) ==
  /\ q \in Seq(0..MaxTime) /\ log \in Seq(Request) /\ now \in 0..MaxTime
  /\ Len(q) <= Len(log)
  /\ \A i \in 1..Len(q) : q[i] = log[Len(log) - Len(q) + i].at
  /\ \A i \in 1..Len(log) : i <= Len(log) - Len(q) => now - log[i].at > Window

\* The log is in the order of time and keeps the window promise.
Spaced(log, now) ==
  /\ \A i \in 1..Len(log) : log[i].at <= now
  /\ \A i, j \in 1..Len(log) : i <= j => log[i].at <= log[j].at
  /\ \A i \in 1..Len(log) :
       i + Limit \in 1..Len(log) => log[i + Limit].at - log[i].at > Window

\* Popping expired hits keeps deque and log in agreement.
LEMMA PoppedAgrees ==
  ASSUME NEW q, NEW log, Agree(q, log, clock),
         NEW n \in 0..Len(q), Expired(q, n)
  PROVE  Agree(Popped(q, n), log, clock)
<1> DEFINE k == Len(log) - Len(q)
<1>1. /\ Len(q) \in Nat /\ Len(log) \in Nat /\ n \in Nat /\ n <= Len(q) /\ k \in Nat
      /\ Len(q) <= Len(log)
  BY LenProperties, SMT DEF Agree
<1>2. /\ Popped(q, n) \in Seq(0..MaxTime)
      /\ Len(Popped(q, n)) = Len(q) - n
      /\ \A i \in 1..(Len(q) - n) : Popped(q, n)[i] = q[n + i]
  BY PoppedProperties DEF Agree
<1>3. ASSUME NEW i \in 1..(Len(q) - n)
      PROVE  Popped(q, n)[i] = log[Len(log) - (Len(q) - n) + i].at
  <2>1. n + i \in 1..Len(q) /\ Len(log) - Len(q) + (n + i) = Len(log) - (Len(q) - n) + i
    BY <1>1, SMT
  <2>2. q[n + i] = log[Len(log) - Len(q) + (n + i)].at
    BY <2>1 DEF Agree
  <2>3. QED
    BY <1>2, <2>1, <2>2
<1>4. ASSUME NEW i \in 1..Len(log), i <= Len(log) - (Len(q) - n)
      PROVE  clock - log[i].at > Window
  <2>1. CASE i <= Len(log) - Len(q)
    BY <2>1 DEF Agree
  <2>2. CASE ~(i <= Len(log) - Len(q))
    <3>1. i - k \in 1..n /\ i - k \in 1..Len(q) /\ Len(log) - Len(q) + (i - k) = i
      BY <1>1, <1>4, <2>2, SMT
    <3>2. q[i - k] = log[Len(log) - Len(q) + (i - k)].at
      BY <3>1 DEF Agree
    <3>3. clock - q[i - k] > Window
      BY <3>1 DEF Expired
    <3>4. QED
      BY <3>1, <3>2, <3>3
  <2>3. QED
    BY <2>1, <2>2
<1>5. QED
  BY <1>1, <1>2, <1>3, <1>4, SMT DEF Agree

\* While there is room, letting a request through keeps the agreement, and the
\* new request is more than Window after the one that is Limit places before it.
LEMMA LetThrough ==
  ASSUME NEW q, NEW log, Agree(q, log, clock), Spaced(log, clock),
         Len(q) < Limit, NEW c \in Clients
  PROVE  /\ Agree(Append(q, clock), Append(log, [by |-> c, at |-> clock]), clock)
         /\ Spaced(Append(log, [by |-> c, at |-> clock]), clock)
<1> DEFINE new  == [by |-> c, at |-> clock]
           log2 == Append(log, new)
           q2   == Append(q, clock)
           L    == Len(log)
           Q    == Len(q)
<1>1. /\ L \in Nat /\ Q \in Nat /\ Q <= L /\ clock \in Int /\ Limit \in Nat \ {0}
      /\ Q < Limit /\ Window \in Nat
  BY LimitPositive, LenProperties, WindowAssumption, SMT DEF Agree
<1>2. new \in Request /\ clock \in 0..MaxTime /\ new.at = clock
  BY DEF Agree, Request
<1>3. /\ log2 \in Seq(Request) /\ Len(log2) = L + 1
      /\ \A i \in 1..L : log2[i] = log[i]
      /\ log2[L + 1] = new
  BY <1>2, AppendProperties DEF Agree
<1>4. /\ q2 \in Seq(0..MaxTime) /\ Len(q2) = Q + 1
      /\ \A i \in 1..Q : q2[i] = q[i]
      /\ q2[Q + 1] = clock
  BY <1>2, AppendProperties DEF Agree
<1>5. /\ \A i \in 1..Q : q[i] = log[L - Q + i].at
      /\ \A i \in 1..L : i <= L - Q => clock - log[i].at > Window
      /\ log \in Seq(Request)
  BY DEF Agree
<1>6. /\ \A i \in 1..L : log[i].at <= clock
      /\ \A i, j \in 1..L : i <= j => log[i].at <= log[j].at
      /\ \A i \in 1..L : i + Limit \in 1..L => log[i + Limit].at - log[i].at > Window
  BY DEF Spaced
<1> HIDE DEF new, log2, q2, L, Q
<1>7. Agree(q2, log2, clock)
  <2>1. ASSUME NEW i \in 1..(Q + 1)
        PROVE  q2[i] = log2[(L + 1) - (Q + 1) + i].at
    <3>1. CASE i \in 1..Q
      <4>1. L - Q + i \in 1..L /\ (L + 1) - (Q + 1) + i = L - Q + i
        BY <1>1, <3>1, SMT
      <4>2. QED
        BY <1>3, <1>4, <1>5, <3>1, <4>1
    <3>2. CASE i = Q + 1
      <4>1. (L + 1) - (Q + 1) + i = L + 1
        BY <1>1, <3>2, SMT
      <4>2. QED
        BY <1>2, <1>3, <1>4, <3>2, <4>1
    <3>3. QED
      BY <1>1, <3>1, <3>2, SMT
  <2>2. ASSUME NEW i \in 1..(L + 1), i <= (L + 1) - (Q + 1)
        PROVE  clock - log2[i].at > Window
    <3>1. i \in 1..L /\ i <= L - Q
      BY <1>1, <2>2, SMT
    <3>2. QED
      BY <1>3, <1>5, <3>1
  <2>3. Q + 1 <= L + 1
    BY <1>1, SMT
  <2>4. QED
    BY <1>2, <1>3, <1>4, <2>1, <2>2, <2>3 DEF Agree
<1>8. Spaced(log2, clock)
  <2>1. ASSUME NEW i \in 1..(L + 1)
        PROVE  log2[i].at <= clock
    <3>1. CASE i \in 1..L
      BY <1>3, <1>6, <3>1
    <3>2. CASE i = L + 1
      BY <1>1, <1>2, <1>3, <3>2, SMT
    <3>3. QED
      BY <1>1, <3>1, <3>2, SMT
  <2>2. ASSUME NEW i \in 1..(L + 1), NEW j \in 1..(L + 1), i <= j
        PROVE  log2[i].at <= log2[j].at
    <3>1. CASE j \in 1..L
      <4>1. i \in 1..L
        BY <1>1, <2>2, <3>1, SMT
      <4>2. QED
        BY <1>3, <1>6, <2>2, <3>1, <4>1
    <3>2. CASE j = L + 1
      BY <1>2, <1>3, <2>1, <3>2
    <3>3. QED
      BY <1>1, <3>1, <3>2, SMT
  <2>3. ASSUME NEW i \in 1..(L + 1), i + Limit \in 1..(L + 1)
        PROVE  log2[i + Limit].at - log2[i].at > Window
    <3>1. i \in 1..L
      BY <1>1, <2>3, SMT
    <3>2. CASE i + Limit \in 1..L
      BY <1>3, <1>6, <3>1, <3>2
    <3>3. CASE i + Limit = L + 1
      <4>1. i <= L - Q
        BY <1>1, <2>3, <3>3, SMT
      <4>2. clock - log[i].at > Window
        BY <1>5, <3>1, <4>1
      <4>3. QED
        BY <1>2, <1>3, <3>1, <3>3, <4>2
    <3>4. QED
      BY <1>1, <2>3, <3>2, <3>3, SMT
  <2>4. QED
    BY <1>3, <2>1, <2>2, <2>3 DEF Spaced
<1>9. QED
  BY <1>7, <1>8 DEF log2, q2, new

\* If Limit hits are left of which the first is within the window, then so many
\* requests in a row were let through within the window.
Full(log, now) ==
  \E i \in DOMAIN log :
    /\ i + Limit - 1 \in DOMAIN log
    /\ now - log[i].at <= Window
    /\ log[i + Limit - 1].at <= now

LEMMA RefusalJustified ==
  ASSUME NEW q, NEW log, Agree(q, log, clock), Spaced(log, clock),
         Limit <= Len(q), clock - q[1] <= Window
  PROVE  Full(log, clock)
<1> DEFINE i == Len(log) - Len(q) + 1
<1>1. /\ Len(q) \in Nat /\ Len(log) \in Nat /\ Len(q) <= Len(log)
      /\ DOMAIN log = 1..Len(log)
  BY LenProperties DEF Agree
<1>2. /\ i \in 1..Len(log) /\ i + Limit - 1 \in 1..Len(log)
      /\ 1 \in 1..Len(q) /\ Len(log) - Len(q) + 1 = i
  BY <1>1, LimitPositive, SMT
<1>3. q[1] = log[i].at
  BY <1>2 DEF Agree
<1>4. log[i + Limit - 1].at <= clock
  BY <1>2 DEF Spaced
<1>5. QED
  BY <1>1, <1>2, <1>3, <1>4 DEF Full

-----------------------------------------------------------------------------
\* The invariant, host by host.
LEMMA HostByHost ==
  ASSUME IInv, NEW h \in Hosts
  PROVE  /\ Agree(hits[h], allowed[h], clock) /\ Spaced(allowed[h], clock)
         /\ Len(hits[h]) <= Limit
<1>1. /\ hits[h] \in Seq(0..MaxTime) /\ allowed[h] \in Seq(Request)
      /\ clock \in 0..MaxTime /\ Len(hits[h]) <= Limit
  BY DEF IInv, TypeOK
<1>2. DOMAIN hits[h] = 1..Len(hits[h]) /\ DOMAIN allowed[h] = 1..Len(allowed[h])
  BY <1>1, LenProperties
<1>3. Agree(hits[h], allowed[h], clock)
  BY <1>1, <1>2 DEF IInv, HitsAreLatest, Agree
<1>4. Spaced(allowed[h], clock)
  BY <1>2 DEF IInv, InOrder, WindowRespected, Spaced
<1>5. QED
  BY <1>1, <1>3, <1>4

\* The invariant holds in the next state if it holds of each host there.
LEMMA HostByHostNext ==
  ASSUME clock' \in 0..MaxTime, verdict' \in Verdict,
         hits' \in [Hosts -> Seq(0..MaxTime)], allowed' \in [Hosts -> Seq(Request)],
         \A h \in Hosts : /\ Agree(hits'[h], allowed'[h], clock')
                          /\ Spaced(allowed'[h], clock') /\ Len(hits'[h]) <= Limit,
         RefusedOnlyWhenFull'
  PROVE  IInv'
<1>1. TypeOK'
  BY DEF TypeOK
<1>2. \A h \in Hosts : /\ DOMAIN hits'[h] = 1..Len(hits'[h])
                       /\ DOMAIN allowed'[h] = 1..Len(allowed'[h])
  BY LenProperties
<1>3. HitsAreLatest'
  BY <1>2 DEF HitsAreLatest, Agree
<1>4. InOrder' /\ WindowRespected'
  BY <1>2 DEF InOrder, WindowRespected, Spaced
<1>5. QED
  BY <1>1, <1>3, <1>4 DEF IInv

\* A decision on a request keeps the invariant.
LEMMA LimitedKeeps ==
  ASSUME IInv, NEW c \in Clients, Limited(c)
  PROVE  IInv'
<1> DEFINE h   == HostOf[c]
           q   == hits[h]
           log == allowed[h]
<1>1. /\ h \in Hosts /\ clock \in 0..MaxTime /\ clock' = clock
      /\ hits \in [Hosts -> Seq(0..MaxTime)] /\ allowed \in [Hosts -> Seq(Request)]
  BY HostsAssumption DEF IInv, TypeOK, Limited
<1>2. PICK n \in 0..Len(q) : Expired(q, n) /\ Decide(c, h, Popped(q, n))
  BY DEF Limited
<1>3. Agree(q, log, clock) /\ Spaced(log, clock) /\ Len(q) <= Limit
  BY <1>1, HostByHost
<1>4. Agree(Popped(q, n), log, clock)
  BY <1>2, <1>3, PoppedAgrees
<1>5. /\ Popped(q, n) \in Seq(0..MaxTime) /\ Len(Popped(q, n)) = Len(q) - n
      /\ \A i \in 1..(Len(q) - n) : Popped(q, n)[i] = q[n + i]
      /\ Len(q) \in Nat /\ n \in Nat /\ n <= Len(q)
  <2>1. q \in Seq(0..MaxTime)
    BY <1>1
  <2>2. Len(q) \in Nat /\ n \in Nat /\ n <= Len(q)
    BY <2>1, LenProperties, SMT
  <2>3. QED
    BY <2>1, <2>2, PoppedProperties
<1>6. /\ \A g \in Hosts \ {h} : hits'[g] = hits[g] /\ allowed'[g] = allowed[g]
      /\ hits' = [hits EXCEPT ![h] = hits'[h]] /\ hits'[h] \in Seq(0..MaxTime)
      /\ allowed' = [allowed EXCEPT ![h] = allowed'[h]] /\ allowed'[h] \in Seq(Request)
      /\ Agree(hits'[h], allowed'[h], clock) /\ Spaced(allowed'[h], clock)
      /\ Len(hits'[h]) <= Limit
      /\ verdict' \in Verdict
      /\ RefusedOnlyWhenFull'
  <2>1. CASE /\ Len(Popped(q, n)) >= Limit
             /\ hits' = [hits EXCEPT ![h] = Popped(q, n)]
             /\ verdict' = [by |-> c, at |-> clock, ok |-> FALSE]
             /\ UNCHANGED allowed
    <3>1. /\ hits'[h] = Popped(q, n) /\ allowed' = allowed
          /\ \A g \in Hosts \ {h} : hits'[g] = hits[g]
          /\ hits' = [hits EXCEPT ![h] = hits'[h]]
          /\ allowed' = [allowed EXCEPT ![h] = allowed'[h]]
          /\ allowed'[h] \in Seq(Request)
      BY <1>1, <2>1
    <3>2. Len(Popped(q, n)) <= Limit
      BY <1>3, <1>5, LimitPositive, SMT
    <3>3. 1 \in 1..(Len(q) - n) /\ n < Len(q)
      BY <1>5, <2>1, LimitPositive, SMT
    <3>4. clock - Popped(q, n)[1] <= Window
      BY <1>2, <1>5, <3>3 DEF Expired
    <3>5. Full(log, clock)
      BY <1>3, <1>4, <2>1, <3>4, RefusalJustified, <1>5, LimitPositive, SMT
    <3>6. RefusedOnlyWhenFull'
      BY <2>1, <3>1, <3>5 DEF RefusedOnlyWhenFull, Full
    <3>7. verdict' \in Verdict
      BY <1>1, <2>1 DEF Verdict
    <3>8. QED
      BY <1>3, <1>4, <1>5, <3>1, <3>2, <3>6, <3>7
  <2>2. CASE /\ Len(Popped(q, n)) < Limit
             /\ hits' = [hits EXCEPT ![h] = Append(Popped(q, n), clock)]
             /\ allowed' = [allowed EXCEPT ![h] = Append(@, [by |-> c, at |-> clock])]
             /\ verdict' = [by |-> c, at |-> clock, ok |-> TRUE]
    <3>1. /\ hits'[h] = Append(Popped(q, n), clock)
          /\ allowed'[h] = Append(log, [by |-> c, at |-> clock])
          /\ \A g \in Hosts \ {h} : hits'[g] = hits[g] /\ allowed'[g] = allowed[g]
          /\ hits' = [hits EXCEPT ![h] = hits'[h]]
          /\ allowed' = [allowed EXCEPT ![h] = allowed'[h]]
      BY <1>1, <2>2
    <3>2. Agree(hits'[h], allowed'[h], clock) /\ Spaced(allowed'[h], clock)
      <4> DEFINE p == Popped(q, n)
      <4>1. Agree(p, log, clock) /\ Spaced(log, clock) /\ Len(p) < Limit
        BY <1>3, <1>4, <2>2
      <4> HIDE DEF p, log
      <4>2. /\ Agree(Append(p, clock), Append(log, [by |-> c, at |-> clock]), clock)
            /\ Spaced(Append(log, [by |-> c, at |-> clock]), clock)
        BY <4>1, LetThrough
      <4>3. QED
        BY <3>1, <4>2 DEF p
    <3>3. hits'[h] \in Seq(0..MaxTime) /\ allowed'[h] \in Seq(Request)
      BY <3>2 DEF Agree
    <3>4. Len(hits'[h]) <= Limit
      <4>1. Len(hits'[h]) = Len(Popped(q, n)) + 1
        <5> DEFINE p == Popped(q, n)
        <5>1. p \in Seq(0..MaxTime) /\ clock \in 0..MaxTime
          BY <1>1, <1>5
        <5> HIDE DEF p
        <5>2. Len(Append(p, clock)) = Len(p) + 1
          BY <5>1, AppendProperties
        <5>3. QED
          BY <3>1, <5>2 DEF p
      <4>2. QED
        BY <1>5, <2>2, <4>1, LimitPositive, SMT
    <3>5. RefusedOnlyWhenFull' /\ verdict' \in Verdict
      BY <1>1, <2>2 DEF RefusedOnlyWhenFull, Verdict
    <3>6. QED
      BY <3>1, <3>2, <3>3, <3>4, <3>5
  <2>3. QED
    BY <1>2, <2>1, <2>2 DEF Decide
<1>7. hits' \in [Hosts -> Seq(0..MaxTime)] /\ allowed' \in [Hosts -> Seq(Request)]
  BY <1>1, <1>6
<1>8. \A g \in Hosts : /\ Agree(hits'[g], allowed'[g], clock')
                       /\ Spaced(allowed'[g], clock') /\ Len(hits'[g]) <= Limit
  BY <1>1, <1>6, HostByHost
<1>9. QED
  BY <1>1, <1>6, <1>7, <1>8, HostByHostNext

\* So does the passage of time.
LEMMA TickKeeps ==
  ASSUME IInv, Tick
  PROVE  IInv'
<1>1. /\ clock \in Nat /\ clock' = clock + 1 /\ clock' \in 0..MaxTime /\ Window \in Nat
      /\ hits' = hits /\ allowed' = allowed /\ verdict' = verdict
  BY WindowAssumption, SMT DEF IInv, TypeOK, Tick
<1>2. ASSUME NEW h \in Hosts
      PROVE  /\ Agree(hits'[h], allowed'[h], clock')
             /\ Spaced(allowed'[h], clock') /\ Len(hits'[h]) <= Limit
  <2>1. /\ Agree(hits[h], allowed[h], clock) /\ Spaced(allowed[h], clock)
        /\ Len(hits[h]) <= Limit
    BY HostByHost
  <2>2. \A i \in 1..Len(allowed[h]) : allowed[h][i].at \in Nat
    <3>1. \A i \in 1..Len(allowed[h]) : allowed[h][i] \in Request
      BY <2>1, ElementOfSeq DEF Agree
    <3>2. QED
      BY <3>1, SMT DEF Request
  <2>3. \A i \in 1..Len(allowed[h]) :
          /\ clock - allowed[h][i].at > Window => clock' - allowed[h][i].at > Window
          /\ allowed[h][i].at <= clock => allowed[h][i].at <= clock'
    BY <1>1, <2>2, SMT
  <2>4. Agree(hits[h], allowed[h], clock')
    BY <1>1, <2>1, <2>3 DEF Agree
  <2>5. Spaced(allowed[h], clock')
    BY <2>1, <2>3 DEF Spaced
  <2>6. QED
    BY <1>1, <2>1, <2>4, <2>5
<1>3. RefusedOnlyWhenFull'
  BY <1>1 DEF IInv, RefusedOnlyWhenFull
<1>4. QED
  BY <1>1, <1>2, <1>3, HostByHostNext DEF IInv, TypeOK

\* The first state.
LEMMA InitIInv == Init => IInv
<1> SUFFICES ASSUME Init PROVE IInv
  OBVIOUS
<1>1. \A h \in Hosts : /\ hits[h] = <<>> /\ Len(hits[h]) = 0 /\ DOMAIN hits[h] = {}
                       /\ allowed[h] = <<>> /\ Len(allowed[h]) = 0 /\ DOMAIN allowed[h] = {}
  BY DEF Init
<1>2. TypeOK
  <2>1. 0 \in 0..MaxTime /\ 0 <= Limit
    BY WindowAssumption, LimitPositive, SMT
  <2>2. verdict \in Verdict
    BY <2>1, HostsAssumption, Zenon DEF Init, Verdict
  <2>3. QED
    BY <1>1, <2>1, <2>2 DEF Init, TypeOK
<1>3. HitsAreLatest
  <2>1. ASSUME NEW h \in Hosts
        PROVE  /\ Len(hits[h]) <= Len(allowed[h])
               /\ DOMAIN hits[h] = {} /\ DOMAIN allowed[h] = {}
    BY <1>1, SMT
  <2>2. QED
    BY <2>1 DEF HitsAreLatest
<1>4. InOrder /\ WindowRespected
  BY <1>1 DEF InOrder, WindowRespected
<1>5. RefusedOnlyWhenFull
  BY DEF Init, RefusedOnlyWhenFull
<1>6. QED
  BY <1>2, <1>3, <1>4, <1>5 DEF IInv

\* Every step.
LEMMA NextIInv == IInv /\ [Next]_vars => IInv'
<1> SUFFICES ASSUME IInv, [Next]_vars PROVE IInv'
  OBVIOUS
<1>1. ASSUME NEW c \in Clients, Limited(c) PROVE IInv'
  BY <1>1, LimitedKeeps
<1>2. ASSUME NEW c \in Clients, Exempt(c) PROVE IInv'
  <2>1. verdict' \in Verdict /\ verdict'.ok /\ UNCHANGED <<clock, hits, allowed>>
    BY <1>2 DEF Exempt, IInv, TypeOK, Verdict
  <2>2. TypeOK' /\ RefusedOnlyWhenFull'
    BY <2>1 DEF IInv, TypeOK, RefusedOnlyWhenFull
  <2>3. HitsAreLatest' /\ InOrder' /\ WindowRespected'
    BY <2>1 DEF IInv, HitsAreLatest, InOrder, WindowRespected
  <2>4. QED
    BY <2>2, <2>3 DEF IInv
<1>3. CASE Tick
  BY <1>3, TickKeeps
<1>4. CASE UNCHANGED vars
  BY <1>4 DEF vars, IInv, TypeOK, HitsAreLatest, InOrder, WindowRespected, RefusedOnlyWhenFull
<1>5. QED
  BY <1>1, <1>2, <1>3, <1>4 DEF Next

-----------------------------------------------------------------------------
\* The inductive invariant holds always.
THEOREM InductiveInvariant == Spec => []IInv
BY InitIInv, NextIInv, PTL DEF Spec

\* The variables keep their types; in particular no deque outgrows the limit.
THEOREM TypeCorrect == Spec => []TypeOK
<1>1. IInv => TypeOK
  BY DEF IInv
<1>2. QED
  BY <1>1, InductiveInvariant, PTL

\* No window holds more than Limit requests of one host, for every limit, window
\* and number of hosts (rate_limit.py:19-28).
THEOREM WindowAlwaysRespected == Spec => []WindowRespected
<1>1. IInv => WindowRespected
  BY DEF IInv
<1>2. QED
  BY <1>1, InductiveInvariant, PTL

\* A request is refused only if Limit requests of its host were let through within
\* the window (rate_limit.py:25-26).
THEOREM RefusalsJustified == Spec => []RefusedOnlyWhenFull
<1>1. IInv => RefusedOnlyWhenFull
  BY DEF IInv
<1>2. QED
  BY <1>1, InductiveInvariant, PTL

-----------------------------------------------------------------------------
(***************************************************************************)
(* The refinement: what is left in a deque once the expired hits are       *)
(* popped are the recent requests of the log, all of them and no others,   *)
(* because the log is in the order of time.                                *)
(***************************************************************************)
\* The recent ones of a log that is in order, when p holds its latest and begins
\* with a recent one.
LEMMA RecentSuffix ==
  ASSUME NEW p, NEW log, NEW now, Agree(p, log, now), Spaced(log, now),
         p # <<>> => now - p[1] <= Window
  PROVE  Cardinality({i \in DOMAIN log : now - log[i].at <= Window}) = Len(p)
<1>1. /\ log \in Seq(Request) /\ p \in Seq(0..MaxTime) /\ now \in 0..MaxTime
      /\ Len(p) <= Len(log)
      /\ \A i \in 1..Len(p) : p[i] = log[Len(log) - Len(p) + i].at
      /\ \A i \in 1..Len(log) : i <= Len(log) - Len(p) => now - log[i].at > Window
      /\ \A i, j \in 1..Len(log) : i <= j => log[i].at <= log[j].at
  BY DEF Agree, Spaced
<1>2. Len(log) \in Nat /\ Len(p) \in Nat /\ DOMAIN log = 1..Len(log)
  BY <1>1, LenProperties
<1>3. PICK m \in Nat : m = Len(log) - Len(p)
  <2>1. Len(p) <= Len(log)
    BY <1>1
  <2>2. Len(log) - Len(p) \in Nat
    BY <1>2, <2>1, SMT
  <2>3. QED
    BY <2>2
<1>4. now \in Int /\ Window \in Int
  BY <1>1, WindowAssumption, SMT
<1>5. \A i \in 1..Len(log) : log[i].at \in Int
  <2>1. \A i \in 1..Len(log) : log[i] \in Request
    BY <1>1, ElementOfSeq
  <2>2. \A r \in Request : r.at \in Int
    BY WindowAssumption, SMT DEF Request
  <2>3. QED
    BY <2>1, <2>2
<1>6. ASSUME NEW i \in 1..Len(log)
      PROVE  now - log[i].at <= Window <=> i \in (m + 1)..Len(log)
  <2>1. CASE i <= m
    <3>1. now - log[i].at > Window
      BY <1>1, <1>3, <2>1
    <3>2. i \notin (m + 1)..Len(log)
      BY <1>2, <2>1, SMT
    <3>3. ~(now - log[i].at <= Window)
      BY <1>4, <1>5, <3>1, SMT
    <3>4. QED
      BY <3>2, <3>3
  <2>2. CASE ~(i <= m)
    <3>1. i \in (m + 1)..Len(log) /\ m + 1 \in 1..Len(log) /\ m + 1 <= i
      BY <1>2, <2>2, SMT
    <3>2. 1 \in 1..Len(p)
      BY <1>2, <1>3, <2>2, SMT
    <3>3. p # <<>> /\ p[1] = log[m + 1].at
      BY <1>1, <1>2, <1>3, <3>2, EmptySeq
    <3>4. now - log[m + 1].at <= Window
      BY <3>3
    <3>5. log[m + 1].at <= log[i].at /\ log[m + 1].at \in Int /\ log[i].at \in Int
      BY <1>1, <1>5, <3>1
    <3>6. now - log[i].at <= Window
      BY <1>4, <3>4, <3>5, SMT
    <3>7. QED
      BY <3>1, <3>6
  <2>3. QED
    BY <2>1, <2>2
<1>7. (m + 1)..Len(log) \subseteq 1..Len(log)
  BY <1>2, SMT
<1>8. {i \in DOMAIN log : now - log[i].at <= Window} = (m + 1)..Len(log)
  BY <1>2, <1>6, <1>7
<1>9. Cardinality((m + 1)..Len(log)) = Len(p)
  <2>1. m + 1 \in Int /\ Len(log) \in Int
    BY <1>2, SMT
  <2>2. Cardinality((m + 1)..Len(log)) = IF m + 1 > Len(log) THEN 0 ELSE Len(log) - (m + 1) + 1
    BY <2>1, FS_Interval
  <2>3. QED
    BY <1>2, <1>3, <2>2, SMT
<1>10. QED
  BY <1>8, <1>9

LEMMA LeftAreRecent ==
  ASSUME IInv, NEW h \in Hosts, NEW n \in 0..Len(hits[h]), Expired(hits[h], n)
  PROVE  Contract!Cardinality(Contract!Recent(h)) = Len(Popped(hits[h], n))
<1>1. Agree(hits[h], allowed[h], clock) /\ Spaced(allowed[h], clock)
  BY HostByHost
<1>2. Agree(Popped(hits[h], n), allowed[h], clock)
  BY <1>1, PoppedAgrees
<1>3. hits[h] \in Seq(0..MaxTime)
  BY <1>1 DEF Agree
<1>4. /\ Len(Popped(hits[h], n)) = Len(hits[h]) - n
      /\ \A i \in 1..(Len(hits[h]) - n) : Popped(hits[h], n)[i] = hits[h][n + i]
  BY <1>3, PoppedProperties
<1>5. ASSUME Popped(hits[h], n) # <<>> PROVE clock - Popped(hits[h], n)[1] <= Window
  <2>1. Len(Popped(hits[h], n)) # 0 /\ Len(Popped(hits[h], n)) \in Nat
    BY <1>2, <1>5, EmptySeq, LenProperties DEF Agree
  <2>2. Len(hits[h]) \in Nat /\ n \in Nat /\ n <= Len(hits[h])
    BY <1>3, LenProperties, SMT
  <2>3. n < Len(hits[h]) /\ 1 \in 1..(Len(hits[h]) - n)
    BY <1>4, <2>1, <2>2, SMT
  <2>4. Popped(hits[h], n)[1] = hits[h][n + 1]
    BY <1>4, <2>3
  <2>5. clock - hits[h][n + 1] <= Window
    BY <2>3 DEF Expired
  <2>6. QED
    BY <2>4, <2>5
<1>6. Cardinality({i \in DOMAIN allowed[h] : clock - allowed[h][i].at <= Window})
        = Len(Popped(hits[h], n))
  BY <1>1, <1>2, <1>5, RecentSuffix
<1>7. Contract!Cardinality(Contract!Recent(h)) = Cardinality(Contract!Recent(h))
  BY Zenon DEF Contract!Cardinality, Cardinality
<1>8. QED
  BY <1>6, <1>7 DEF Contract!Recent

\* Each decision is that of the contract.
LEMMA ContractStep == IInv /\ [Next]_vars => [Contract!Next]_(Contract!vars)
<1> SUFFICES ASSUME IInv, [Next]_vars PROVE [Contract!Next]_(Contract!vars)
  OBVIOUS
<1>1. ASSUME NEW c \in Clients, Limited(c)
      PROVE  Contract!LetThrough(c) \/ Contract!Refuse(c)
  <2> DEFINE h == HostOf[c]
  <2>1. h \in Hosts
    BY HostsAssumption
  <2>2. PICK n \in 0..Len(hits[h]) : Expired(hits[h], n) /\ Decide(c, h, Popped(hits[h], n))
    BY <1>1 DEF Limited
  <2>3. Contract!Cardinality(Contract!Recent(h)) = Len(Popped(hits[h], n))
    BY <2>1, <2>2, LeftAreRecent
  <2>4. clock' = clock
    BY <1>1 DEF Limited
  <2>5. QED
    BY <2>2, <2>3, <2>4 DEF Decide, Contract!LetThrough, Contract!Refuse
<1>2. ASSUME NEW c \in Clients, Exempt(c) PROVE Contract!Ignore(c)
  BY <1>2 DEF Exempt, Contract!Ignore
<1>3. CASE Tick
  BY <1>3 DEF Tick, Contract!Next, Contract!Tick
<1>4. CASE UNCHANGED vars
  BY <1>4 DEF vars, Contract!vars
<1>5. QED
  BY <1>1, <1>2, <1>3, <1>4 DEF Next, Contract!Next

\* For every limit, window and arrival of requests: the deque decides as the whole
\* log would, request by request (rate_limit.py:19-28).
THEOREM LimitExact == Spec => ImplementsContract
<1>1. Init => Contract!Init
  <2> DEFINE first == CHOOSE c \in Clients : TRUE
  <2>1. first \in Clients
    BY HostsAssumption
  <2>2. Init => /\ clock = 0 /\ allowed = [h \in Hosts |-> <<>>]
                /\ verdict = [by |-> first, at |-> 0, ok |-> TRUE]
    BY DEF Init
  <2> HIDE DEF first
  <2>3. [by |-> first, at |-> 0, ok |-> TRUE] \in [by : Clients, at : {0}, ok : {TRUE}]
    BY <2>1
  <2>4. QED
    BY <2>2, <2>3, Zenon DEF Contract!Init
<1>2. QED
  BY <1>1, ContractStep, InductiveInvariant, PTL DEF Spec, ImplementsContract, Contract!Spec

=============================================================================
