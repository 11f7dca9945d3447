---------------------------- MODULE RateLimiter ----------------------------
(***************************************************************************)
(* The inbound rate limit (app/middleware/rate_limit.py): a sliding window *)
(* of Window ticks per host, in a deque of the instants at which requests  *)
(* of that host were let through.                                          *)
(*                                                                         *)
(* The host is the peer of the TCP connection.  Clients that come through  *)
(* nginx have nginx's host, those that connect to the published port of    *)
(* the api container have their own: HostOf says which.                    *)
(*                                                                         *)
(* allow() never suspends while it holds its lock, so a request is decided *)
(* in one step.                                                            *)
(***************************************************************************)
EXTENDS Integers, Sequences

CONSTANTS Clients,      \* who sends requests
          Hosts,        \* request.client.host, or "unknown" if there is no peer
          HostOf,       \* the host a client's requests come from
          MaxRequests,  \* api_rate_limit_per_minute
          Window,       \* window_s, in ticks
          MaxTime       \* bound of the model: the clock stops here

ASSUME HostsAssumption  == Clients # {} /\ HostOf \in [Clients -> Hosts]
ASSUME WindowAssumption == MaxRequests \in Int /\ Window \in Nat /\ MaxTime \in Nat

VARIABLES clock,        \* time.monotonic()
          hits,         \* self._hits
          allowed,      \* all requests let through, by host (history)
          verdict       \* the latest decision

vars == <<clock, hits, allowed, verdict>>

\* self._max = max(1, max_requests)
Limit == IF MaxRequests < 1 THEN 1 ELSE MaxRequests

Request == [by : Clients, at : 0..MaxTime]
Verdict == [by : Clients, at : 0..MaxTime, ok : BOOLEAN]

Init ==
  /\ clock = 0
  /\ hits = [h \in Hosts |-> <<>>]
  /\ allowed = [h \in Hosts |-> <<>>]
  /\ verdict = [by |-> CHOOSE c \in Clients : TRUE, at |-> 0, ok |-> TRUE]

\* Mutant of Expired: a hit that is exactly Window old is dropped as well.
ExpiredEarly(q, n) ==
  /\ \A i \in 1..n : clock - q[i] >= Window
  /\ n < Len(q) => clock - q[n + 1] < Window

\* The loop that pops hits from the left pops n of them.
Expired(q, n) ==
  /\ \A i \in 1..n : clock - q[i] > Window
  /\ n < Len(q) => clock - q[n + 1] <= Window

Popped(q, n) == SubSeq(q, n + 1, Len(q))

\* Mutants of Decide: a refused request leaves its hit too, in the place of the oldest;
\* one request too many is let through.
DecideCountingRefusals(c, h, q) ==
  \/ /\ Len(q) >= Limit
     /\ hits' = [hits EXCEPT ![h] = Append(Tail(q), clock)]
     /\ verdict' = [by |-> c, at |-> clock, ok |-> FALSE]
     /\ UNCHANGED allowed
  \/ /\ Len(q) < Limit
     /\ hits' = [hits EXCEPT ![h] = Append(q, clock)]
     /\ allowed' = [allowed EXCEPT ![h] = Append(@, [by |-> c, at |-> clock])]
     /\ verdict' = [by |-> c, at |-> clock, ok |-> TRUE]

DecideOneMore(c, h, q) ==
  \/ /\ Len(q) > Limit
     /\ hits' = [hits EXCEPT ![h] = q]
     /\ verdict' = [by |-> c, at |-> clock, ok |-> FALSE]
     /\ UNCHANGED allowed
  \/ /\ Len(q) <= Limit
     /\ hits' = [hits EXCEPT ![h] = Append(q, clock)]
     /\ allowed' = [allowed EXCEPT ![h] = Append(@, [by |-> c, at |-> clock])]
     /\ verdict' = [by |-> c, at |-> clock, ok |-> TRUE]

\* With q left in the deque, the request is refused (429), or it is let through
\* and leaves its hit.
Decide(c, h, q) ==
  \/ /\ Len(q) >= Limit
     /\ hits' = [hits EXCEPT ![h] = q]
     /\ verdict' = [by |-> c, at |-> clock, ok |-> FALSE]
     /\ UNCHANGED allowed
  \/ /\ Len(q) < Limit
     /\ hits' = [hits EXCEPT ![h] = Append(q, clock)]
     /\ allowed' = [allowed EXCEPT ![h] = Append(@, [by |-> c, at |-> clock])]
     /\ verdict' = [by |-> c, at |-> clock, ok |-> TRUE]

\* A request for a route that is limited.
Limited(c) ==
  /\ \E n \in 0..Len(hits[HostOf[c]]) :
       /\ Expired(hits[HostOf[c]], n)
       /\ Decide(c, HostOf[c], Popped(hits[HostOf[c]], n))
  /\ UNCHANGED clock

\* A request for /health, /ready or the documentation passes by the limiter.
Exempt(c) ==
  /\ verdict' = [by |-> c, at |-> clock, ok |-> TRUE]
  /\ UNCHANGED <<clock, hits, allowed>>

Tick ==
  /\ clock < MaxTime
  /\ clock' = clock + 1
  /\ UNCHANGED <<hits, allowed, verdict>>

Next ==
  \/ \E c \in Clients : Limited(c) \/ Exempt(c)
  \/ Tick

Spec == Init /\ [][Next]_vars

-----------------------------------------------------------------------------
TypeOK ==
  /\ clock \in 0..MaxTime
  /\ hits \in [Hosts -> Seq(0..MaxTime)]
  /\ \A h \in Hosts : Len(hits[h]) <= Limit
  /\ allowed \in [Hosts -> Seq(Request)]
  /\ verdict \in Verdict

\* The deque holds the latest of the requests let through, and what is no longer
\* in it lies more than Window back.
HitsAreLatest ==
  \A h \in Hosts :
    /\ Len(hits[h]) <= Len(allowed[h])
    /\ \A i \in DOMAIN hits[h] :
         hits[h][i] = allowed[h][Len(allowed[h]) - Len(hits[h]) + i].at
    /\ \A i \in DOMAIN allowed[h] :
         i <= Len(allowed[h]) - Len(hits[h]) => clock - allowed[h][i].at > Window

\* Requests are let through in the order of time.
InOrder ==
  \A h \in Hosts :
    /\ \A i \in DOMAIN allowed[h] : allowed[h][i].at <= clock
    /\ \A i, j \in DOMAIN allowed[h] : i <= j => allowed[h][i].at <= allowed[h][j].at

\* The promise of the limit: wherever the window is put on the axis of time, it
\* holds at most Limit requests of one host.  (Limit + 1 requests in a row
\* always span more than Window: rate_limit.py:23-27.)
WindowRespected ==
  \A h \in Hosts :
    \A i \in DOMAIN allowed[h] :
      i + Limit \in DOMAIN allowed[h] =>
        allowed[h][i + Limit].at - allowed[h][i].at > Window

\* A refusal is never a mistake: Limit requests of that host were let through
\* within the last Window ticks.  Refused requests and those for exempt routes
\* cost nothing (rate_limit.py:25-26, 45-46).
RefusedOnlyWhenFull ==
  ~verdict.ok =>
    \E i \in DOMAIN allowed[HostOf[verdict.by]] :
      LET log == allowed[HostOf[verdict.by]]
      IN  /\ i + Limit - 1 \in DOMAIN log
          /\ verdict.at - log[i].at <= Window
          /\ log[i + Limit - 1].at <= verdict.at

IInv == TypeOK /\ HitsAreLatest /\ InOrder /\ WindowRespected /\ RefusedOnlyWhenFull

Contract == INSTANCE SlidingWindow

\* The limit is exact: popping from the left until a hit is young enough, and counting
\* what is left, decides as counting all requests ever let through would
\* (rate_limit.py:19-28).
ImplementsContract == Contract!Spec

\* The README's words: a "per-IP sliding window (60s) for the API"
\* (README.md:154).  A client is refused for its own requests, not for others'.
RefusedForOwnRequests ==
  ~verdict.ok =>
    \E i \in DOMAIN allowed[HostOf[verdict.by]] :
      LET r == allowed[HostOf[verdict.by]][i]
      IN  r.by = verdict.by /\ verdict.at - r.at <= Window

=============================================================================
