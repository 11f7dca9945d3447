---------------------------- MODULE ResilientGet ----------------------------
(***************************************************************************)
(* Outbound GETs: resilient_get (app/resilient_http.py) inside the slots   *)
(* of the process-wide semaphore of app/outbound.py.                       *)
(*                                                                         *)
(* A task is a provider coroutine; it issues one GET after another.  The   *)
(* code runs on one event loop, so a step here is what runs between two    *)
(* awaits that suspend:                                                    *)
(*   - a call up to the slot or the queue for it   (Call),                 *)
(*   - the slot is there, client.get starts        (Send),                 *)
(*   - client.get returns or raises                (Respond, Fail),        *)
(*   - a backoff sleep ends                        (Resume, ResumeInSlot). *)
(* After client.get has returned, the body is in memory already: leaving   *)
(* the slot, the body cap and the status test run without suspending.  A   *)
(* call that finds a slot sends at once, too; that the others may step in  *)
(* between here changes nothing for them.                                  *)
(***************************************************************************)
EXTENDS Integers, Sequences, FiniteSets

CONSTANTS Tasks,        \* provider tasks that issue GETs
          MaxRetries,   \* settings.http_get_max_retries
          Limits        \* the values of settings.outbound_max_concurrent to consider

ASSUME TasksAssumption  == IsFiniteSet(Tasks)
ASSUME RetryAssumption  == MaxRetries \in Int
ASSUME LimitsAssumption == Limits \subseteq Nat

VARIABLES limit,        \* outbound_max_concurrent of this process; 0: no semaphore
          free,         \* asyncio.Semaphore._value
          waiters,      \* tasks suspended in acquire() that nobody has woken, in
                        \* the order of their coming
          pc,           \* where the task is
          attempt,      \* the loop variable of resilient_get
          last          \* outcome of the latest exchange of the current GET

vars == <<limit, free, waiters, pc, attempt, last>>

(***************************************************************************)
(* Outcomes of one client.get, as far as resilient_get tells them apart.   *)
(***************************************************************************)
Answer      == "answer"        \* any status but 502, 503, 504; body within the cap
Unavailable == "unavailable"   \* 502, 503 or 504; body within the cap
Oversize    == "oversize"      \* a body above the cap, whatever the status
Transient   == "transient"     \* TimeoutException, ConnectError, RemoteProtocolError
ReadError   == "readError"     \* the other httpx.TransportError: the connection broke
Fatal       == "fatal"         \* any other exception: TooManyRedirects, DecodingError, ...

Responses  == {Answer, Unavailable, Oversize}
Exceptions == {Transient, ReadError, Fatal}

\* attempts = max(1, settings.http_get_max_retries + 1)
Attempts == IF MaxRetries < 0 THEN 1 ELSE MaxRetries + 1

\* Mutant of IsLastAttempt: the comparison forgets that attempts count from 0.
IsLastAttemptOffByOne(t) == attempt[t] >= Attempts

IsLastAttempt(t) == attempt[t] + 1 >= Attempts

\* "granted": acquire() has taken a slot at once.  "woken": the future the task awaits
\* has its result, and with it the slot, but the task has not run since, so that the
\* future is in the semaphore's deque still.
InSlot  == {"granted", "woken", "sending", "pausingInSlot"}
Ended   == {"ended", "returned", "raised"}
PcTypes == InSlot \cup Ended \cup {"waiting", "pausing"}

Holders == {t \in Tasks : pc[t] \in InSlot}
Woken   == {t \in Tasks : pc[t] = "woken"}
OnWire  == {t \in Tasks : pc[t] = "sending"}
Limited == limit > 0

Init ==
  /\ limit \in Limits
  /\ free = limit
  /\ waiters = <<>>
  /\ pc = [t \in Tasks |-> "ended"]
  /\ attempt = [t \in Tasks |-> 0]
  /\ last = [t \in Tasks |-> Answer]

-----------------------------------------------------------------------------
(***************************************************************************)
(* outbound_slot and the semaphore of asyncio (CPython 3.12).  A release   *)
(* gives the slot to the first waiter, if there is one.  As long as there  *)
(* is a future in the deque, awaited or done, a newcomer queues behind it, *)
(* also if the value is positive; a woken task that runs makes up for that *)
(* by waking as many of the others as the value allows.                    *)
(***************************************************************************)
Locked == free = 0 \/ waiters # <<>> \/ Woken # {}

Acquire(t) ==
  \/ /\ ~Limited
     /\ pc' = [pc EXCEPT ![t] = "granted"]
     /\ UNCHANGED <<free, waiters>>
  \/ /\ Limited /\ ~Locked
     /\ free' = free - 1
     /\ pc' = [pc EXCEPT ![t] = "granted"]
     /\ UNCHANGED waiters
  \/ /\ Limited /\ Locked
     /\ waiters' = Append(waiters, t)
     /\ pc' = [pc EXCEPT ![t] = "waiting"]
     /\ UNCHANGED free

\* Mutants of Release: a value raised and a waiter woken too; a waiter forgotten.
ReleaseTwice(t, place) ==
  /\ free' = IF Limited THEN free + 1 ELSE free
  /\ waiters' = IF waiters = <<>> THEN waiters ELSE Tail(waiters)
  /\ pc' = [u \in Tasks |-> IF u = t THEN place
                            ELSE IF waiters # <<>> /\ u = Head(waiters) THEN "woken"
                            ELSE pc[u]]
ReleaseWithoutWakeup(t, place) ==
  /\ free' = IF Limited THEN free + 1 ELSE free
  /\ pc' = [pc EXCEPT ![t] = place]
  /\ UNCHANGED waiters

\* t leaves its slot and goes on at place.
Release(t, place) ==
  \/ /\ ~Limited
     /\ pc' = [pc EXCEPT ![t] = place]
     /\ UNCHANGED <<free, waiters>>
  \/ /\ Limited /\ waiters = <<>>
     /\ free' = free + 1
     /\ pc' = [pc EXCEPT ![t] = place]
     /\ UNCHANGED waiters
  \/ /\ Limited /\ waiters # <<>>
     /\ waiters' = Tail(waiters)
     /\ pc' = [pc EXCEPT ![t] = place, ![Head(waiters)] = "woken"]
     /\ UNCHANGED free

\* Release and acquire with no suspension in between: t keeps the slot; or it gives
\* the slot to the first waiter, or to the value, and queues behind the others.
Cycle(t) ==
  \/ /\ waiters = <<>> /\ Woken = {}
     /\ pc' = [pc EXCEPT ![t] = "granted"]
     /\ UNCHANGED <<free, waiters>>
  \/ /\ waiters = <<>> /\ Woken # {}
     /\ free' = free + 1
     /\ waiters' = <<t>>
     /\ pc' = [pc EXCEPT ![t] = "waiting"]
  \/ /\ waiters # <<>>
     /\ waiters' = Append(Tail(waiters), t)
     /\ pc' = [pc EXCEPT ![t] = "waiting", ![Head(waiters)] = "woken"]
     /\ UNCHANGED free

\* The rest of acquire() when t runs after it was woken: its future leaves the deque,
\* the first n waiters get what is left of the value, and t goes on at place.
WakeOthers(t, n, place) ==
  /\ n = IF free < Len(waiters) THEN free ELSE Len(waiters)
  /\ free' = free - n
  /\ waiters' = SubSeq(waiters, n + 1, Len(waiters))
  /\ pc' = [u \in Tasks |-> IF u = t THEN place
                            ELSE IF \E i \in 1..n : waiters[i] = u THEN "woken"
                            ELSE pc[u]]

-----------------------------------------------------------------------------
\* A provider calls resilient_get: the first pass of the loop reaches the slot.
Call(t) ==
  /\ pc[t] \in Ended
  /\ attempt' = [attempt EXCEPT ![t] = 0]
  /\ Acquire(t)
  /\ UNCHANGED <<limit, last>>

\* acquire() has returned: client.get puts the request on the wire.
Send(t) ==
  /\ \/ /\ pc[t] = "granted"
        /\ pc' = [pc EXCEPT ![t] = "sending"]
        /\ UNCHANGED <<free, waiters>>
     \/ /\ pc[t] = "woken"
        /\ \E n \in 0..Len(waiters) : WakeOthers(t, n, "sending")
  /\ UNCHANGED <<limit, attempt, last>>

\* Mutant of Respond: the body cap is looked at only after the retry decision,
\* so an oversize body is fetched again like an unavailable service.
RespondRetryOversize(t, o) ==
  /\ pc[t] = "sending"
  /\ last' = [last EXCEPT ![t] = o]
  /\ \/ o # Answer /\ ~IsLastAttempt(t) /\ Release(t, "pausing")
     \/ o = Oversize /\ IsLastAttempt(t) /\ Release(t, "raised")
     \/ o = Unavailable /\ IsLastAttempt(t) /\ Release(t, "returned")
     \/ o = Answer /\ Release(t, "returned")
  /\ UNCHANGED <<limit, attempt>>

\* client.get returned.  The slot is left before the body cap and the status
\* are looked at: an oversize body raises, an unavailable service is retried
\* after a sleep outside the slot, anything else is returned.
Respond(t, o) ==
  /\ pc[t] = "sending"
  /\ last' = [last EXCEPT ![t] = o]
  /\ \/ o = Oversize /\ Release(t, "raised")
     \/ o = Unavailable /\ ~IsLastAttempt(t) /\ Release(t, "pausing")
     \/ o = Unavailable /\ IsLastAttempt(t) /\ Release(t, "returned")
     \/ o = Answer /\ Release(t, "returned")
  /\ UNCHANGED <<limit, attempt>>

\* Mutant of Fail: no try/finally around the yield, a raise keeps the slot.
FailWithoutFinally(t, e) ==
  /\ pc[t] = "sending"
  /\ last' = [last EXCEPT ![t] = e]
  /\ pc' = [pc EXCEPT ![t] = IF e = Transient /\ ~IsLastAttempt(t)
                             THEN "pausingInSlot" ELSE "raised"]
  /\ UNCHANGED <<limit, free, waiters, attempt>>

\* client.get raised.  A transient exception is retried after a sleep that is
\* inside the async with: the slot stays taken.  The others propagate.
Fail(t, e) ==
  /\ pc[t] = "sending"
  /\ last' = [last EXCEPT ![t] = e]
  /\ \/ /\ e = Transient /\ ~IsLastAttempt(t)
        /\ pc' = [pc EXCEPT ![t] = "pausingInSlot"]
        /\ UNCHANGED <<free, waiters>>
     \/ /\ e # Transient \/ IsLastAttempt(t)
        /\ Release(t, "raised")
  /\ UNCHANGED <<limit, attempt>>

\* The sleep after a 502, 503 or 504 ends: next pass of the loop.
Resume(t) ==
  /\ pc[t] = "pausing"
  /\ attempt' = [attempt EXCEPT ![t] = @ + 1]
  /\ Acquire(t)
  /\ UNCHANGED <<limit, last>>

\* The sleep after a transient exception ends: `continue` leaves the slot and
\* the next pass asks for one.
ResumeInSlot(t) ==
  /\ pc[t] = "pausingInSlot"
  /\ attempt' = [attempt EXCEPT ![t] = @ + 1]
  /\ Cycle(t)
  /\ UNCHANGED <<limit, last>>

\* A step of t's GET once it is called.
Proceed(t) ==
  \/ Send(t)
  \/ \E o \in Responses : Respond(t, o)
  \/ \E e \in Exceptions : Fail(t, e)
  \/ Resume(t)
  \/ ResumeInSlot(t)

Next == \E t \in Tasks : Call(t) \/ Proceed(t)

(***************************************************************************)
(* httpx bounds every exchange by its timeout and asyncio.sleep returns:   *)
(* a task that can go on goes on.  Nothing obliges a task to issue a GET.  *)
(***************************************************************************)
Fairness == \A t \in Tasks : WF_vars(Proceed(t))

Spec == Init /\ [][Next]_vars /\ Fairness

-----------------------------------------------------------------------------
TypeOK ==
  /\ limit \in Limits
  /\ free \in Nat
  /\ waiters \in Seq(Tasks)
  /\ pc \in [Tasks -> PcTypes]
  /\ attempt \in [Tasks -> 0..(Attempts - 1)]
  /\ last \in [Tasks -> Responses \cup Exceptions]

\* Slot accounting.  With a semaphore, its value and its holders add up to the
\* limit on every path out of the async with: a return, each exception, continue
\* (outbound.py:25-29 around resilient_http.py:83-94).  The queue holds exactly
\* the suspended tasks, each once, and none sleeps there while a slot is free, unless
\* a task that was woken, and will wake it, has still to run.
SlotAccounting ==
  /\ Limited => free + Cardinality(Holders) = limit
  /\ \A t \in Tasks : pc[t] = "waiting" <=> \E i \in DOMAIN waiters : waiters[i] = t
  /\ \A i, j \in DOMAIN waiters : waiters[i] = waiters[j] => i = j
  /\ waiters # <<>> => free = 0 \/ Woken # {}
  /\ waiters # <<>> \/ Woken # {} => Limited

\* A task sleeps only when there is an attempt left to sleep for.
PauseHasAttemptLeft ==
  \A t \in Tasks : pc[t] \in {"pausing", "pausingInSlot"} => ~IsLastAttempt(t)

IInv == TypeOK /\ SlotAccounting /\ PauseHasAttemptLeft

\* The cap of app/outbound.py: at most limit exchanges are on the wire, while
\* tasks fail, retry, sleep with a slot in hand and pass slots on.
OutboundCap ==
  Limited => Cardinality(OnWire) <= limit

\* Every GET that was called ends, whatever the others do: no task starves in
\* the queue although GETs keep coming and paused ones hold slots.
EveryGetEnds == \A t \in Tasks : pc[t] \notin Ended ~> pc[t] \in Ended

\* The contract's view of a task: its GET is active until it ended; an attempt
\* counts as sent once it is on the wire; OnWire is in flight.
Verdict == [t \in Tasks |-> IF pc[t] \in Ended THEN pc[t] ELSE "active"]
Sent    == [t \in Tasks |-> IF pc[t] \in {"granted", "woken", "waiting", "ended"}
                              THEN attempt[t] ELSE attempt[t] + 1]

Contract == INSTANCE ExchangeContract WITH
              Caps <- Limits, cap <- limit, state <- Verdict, sent <- Sent, inFlight <- OnWire,
              outcome <- last

\* The retries, the queue and the slots implement the contract.
ImplementsContract == Contract!Spec

=============================================================================
