-------------------------- MODULE ExchangeContract --------------------------
(***************************************************************************)
(* What resilient_get (app/resilient_http.py) promises its callers, with   *)
(* no semaphore, no queue and no pauses in sight: a GET makes between one  *)
(* and Attempts exchanges with the provider, makes another one only after  *)
(* a retryable outcome, and ends with the outcome of its last exchange;    *)
(* and never more than cap exchanges are in flight at once (cap = 0: no    *)
(* cap).  ResilientGet implements this specification.                      *)
(***************************************************************************)
EXTENDS Naturals, FiniteSets

CONSTANTS Tasks,      \* the provider tasks that issue GETs, one at a time
          Attempts,   \* exchanges a GET may make
          Caps        \* the caps an operator may configure, 0 for none

VARIABLES cap,        \* the configured cap
          state,      \* what became of the task's current GET
          sent,       \* exchanges the current GET has started
          inFlight,   \* tasks whose exchange is under way
          outcome     \* how the task's latest exchange ended

vars == <<cap, state, sent, inFlight, outcome>>

Retryable == {"transient", "unavailable"}
Answers   == {"answer", "unavailable"}              \* outcomes that are responses
Failures  == {"transient", "readError", "fatal", "oversize"}
Outcomes  == Answers \cup Failures

Init ==
  /\ cap \in Caps
  /\ state = [t \in Tasks |-> "ended"]
  /\ sent = [t \in Tasks |-> 0]
  /\ inFlight = {}
  /\ outcome = [t \in Tasks |-> "answer"]

Begin(t) ==
  /\ state[t] # "active"
  /\ state' = [state EXCEPT ![t] = "active"]
  /\ sent' = [sent EXCEPT ![t] = 0]
  /\ UNCHANGED <<cap, inFlight, outcome>>

Send(t) ==
  /\ state[t] = "active"
  /\ t \notin inFlight
  /\ sent[t] < Attempts
  /\ cap = 0 \/ Cardinality(inFlight) < cap
  /\ inFlight' = inFlight \cup {t}
  /\ sent' = [sent EXCEPT ![t] = @ + 1]
  /\ UNCHANGED <<cap, state, outcome>>

\* The exchange ends with outcome o: another attempt is due, or the GET ends
\* with a response or with an exception.
Land(t, o) ==
  /\ t \in inFlight
  /\ inFlight' = inFlight \ {t}
  /\ outcome' = [outcome EXCEPT ![t] = o]
  /\ \/ o \in Retryable /\ sent[t] < Attempts /\ state' = state
     \/ /\ o \notin Retryable \/ sent[t] = Attempts
        /\ state' = [state EXCEPT ![t] = IF o \in Answers THEN "returned" ELSE "raised"]
  /\ UNCHANGED <<cap, sent>>

Next == \E t \in Tasks : Begin(t) \/ Send(t) \/ \E o \in Outcomes : Land(t, o)

Spec == Init /\ [][Next]_vars

TypeOK ==
  /\ cap \in Caps
  /\ state \in [Tasks -> {"ended", "active", "returned", "raised"}]
  /\ sent \in [Tasks -> 0..Attempts]
  /\ inFlight \subseteq Tasks
  /\ outcome \in [Tasks -> Outcomes]

=============================================================================
