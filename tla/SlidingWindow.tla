--------------------------- MODULE SlidingWindow ---------------------------
(***************************************************************************)
(* What RateLimiter (app/middleware/rate_limit.py) promises: the limit is  *)
(* exact.  A request is let through if and only if fewer than Limit of the *)
(* requests let through before it, from its host, are at most Window old;  *)
(* of all the log nothing is forgotten, and nothing else is counted.       *)
(***************************************************************************)
EXTENDS Integers, Sequences, FiniteSets

CONSTANTS Clients, Hosts, HostOf, Limit, Window

VARIABLES clock,     \* the monotonic clock
          allowed,   \* all requests let through, by host
          verdict    \* the latest decision

vars == <<clock, allowed, verdict>>

\* The requests of h that count.
Recent(h) == {i \in DOMAIN allowed[h] : clock - allowed[h][i].at <= Window}

Init ==
  /\ clock = 0
  /\ allowed = [h \in Hosts |-> <<>>]
  /\ verdict \in [by : Clients, at : {0}, ok : {TRUE}]

LetThrough(c) ==
  /\ Cardinality(Recent(HostOf[c])) < Limit
  /\ allowed' = [allowed EXCEPT ![HostOf[c]] = Append(@, [by |-> c, at |-> clock])]
  /\ verdict' = [by |-> c, at |-> clock, ok |-> TRUE]
  /\ UNCHANGED clock

Refuse(c) ==
  /\ Cardinality(Recent(HostOf[c])) >= Limit
  /\ verdict' = [by |-> c, at |-> clock, ok |-> FALSE]
  /\ UNCHANGED <<clock, allowed>>

\* A request that is not limited passes, and leaves no trace in the log.
Ignore(c) ==
  /\ verdict' = [by |-> c, at |-> clock, ok |-> TRUE]
  /\ UNCHANGED <<clock, allowed>>

Tick ==
  /\ clock' = clock + 1
  /\ UNCHANGED <<allowed, verdict>>

Next ==
  \/ \E c \in Clients : LetThrough(c) \/ Refuse(c) \/ Ignore(c)
  \/ Tick

Spec == Init /\ [][Next]_vars

=============================================================================
