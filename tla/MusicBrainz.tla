---------------------------- MODULE MusicBrainz ----------------------------
(***************************************************************************)
(* The MusicBrainz provider (app/providers/musicbrainz.py): calls that ask *)
(* for an ISRC or a UPC, each a chain of up to three GETs, behind one      *)
(* throttle: a lock, held through a sleep, that lets a GET go Gap ticks    *)
(* after the one before.                                                   *)
(*                                                                         *)
(*   an ISRC:  search, the recording's detail, the picked release          *)
(*   a UPC:    search, the release                                         *)
(*                                                                         *)
(* The throttle comes before resilient_get: a GET that was let go may wait *)
(* for its outbound slot any time, and its retries do not pass the         *)
(* throttle again (ResilientGet has the slots and the retry rule in full). *)
(* Time is counted from the latest event and stops counting at Gap, so no  *)
(* clock is needed.                                                        *)
(***************************************************************************)
EXTENDS Integers, Sequences, FiniteSets, DisplayRelease

CONSTANTS Calls,        \* concurrent calls of the provider
          Gap,          \* 1.05 s, in ticks
          MaxRetries,   \* settings.http_get_max_retries
          Nobody        \* the lock is free

ASSUME CallsAssumption == IsFiniteSet(Calls) /\ Nobody \notin Calls
ASSUME GapAssumption   == Gap \in Nat \ {0} /\ MaxRetries \in Nat

VARIABLES holder,       \* who holds self._lock
          queue,        \* who waits for it, first come first served
          nap,          \* ticks the holder has still to sleep
          since,        \* ticks since self._last_request_at, Gap if more
          quiet,        \* ticks since the latest exchange began, Gap if more (history)
          kind,         \* "isrc" or "upc"
          pc,           \* where the call is
          stage,        \* which GET of the chain
          tries,        \* retries of the current GET so far
          seen,         \* outcomes of the GETs of the call, in order (history)
          entry         \* the row that was returned

throttle == <<holder, queue, nap, since>>
call     == <<kind, stage, tries, seen, entry>>
vars     == <<throttle, quiet, pc, call>>

Stages  == {"search", "detail", "release"}
PcTypes == {"idle", "queued", "napping", "due", "wire", "done"}

(***************************************************************************)
(* What the answer to a GET is to the chain: nothing usable (an exception  *)
(* of resilient_get, an error status, no JSON); JSON of a shape the code   *)
(* stumbles over, so that the call raises; else, of a search, no hit, a    *)
(* hit without or with an id; of a detail, a release was picked or not;    *)
(* of a release, its label is there or not.                                *)
(***************************************************************************)
Answers(s) ==
  {"error", "malformed"} \cup
    (IF s = "search" THEN {"empty", "bare", "hit"}
     ELSE IF s = "detail" THEN {"unpicked", "picked"} ELSE {"label", "nolabel"})

Outcomes == UNION {Answers(s) : s \in Stages}

Row    == [found : BOOLEAN, error : BOOLEAN, album : BOOLEAN, label : BOOLEAN]
Failed == [found |-> FALSE, error |-> TRUE, album |-> FALSE, label |-> FALSE]
Miss   == [found |-> FALSE, error |-> FALSE, album |-> FALSE, label |-> FALSE]
Hit(album, label) == [found |-> TRUE, error |-> FALSE, album |-> album, label |-> label]

Init ==
  /\ holder = Nobody /\ queue = <<>> /\ nap = 0
  /\ since = Gap /\ quiet = Gap
  /\ kind \in [Calls -> {"isrc", "upc"}]
  /\ pc = [c \in Calls |-> "idle"]
  /\ stage = [c \in Calls |-> "search"]
  /\ tries = [c \in Calls |-> 0]
  /\ seen = [c \in Calls |-> <<>>]
  /\ entry = [c \in Calls |-> Miss]

-----------------------------------------------------------------------------
(***************************************************************************)
(* _respect_rate_limit.                                                    *)
(***************************************************************************)
\* Mutant of Knock: no lock around the reading of the clock and the sleep.
KnockUnlocked(c) ==
  \/ /\ since >= Gap
     /\ since' = 0
     /\ pc' = [pc EXCEPT ![c] = "due"]
     /\ UNCHANGED <<holder, queue, nap>>
  \/ /\ since < Gap
     /\ nap' = Gap - since
     /\ pc' = [pc EXCEPT ![c] = "napping"]
     /\ UNCHANGED <<holder, queue, since>>

\* c asks for the lock: it waits in the queue, or sleeps out the gap with the
\* lock in its hand, or there is nothing to wait for.
Knock(c) ==
  \/ /\ holder # Nobody
     /\ queue' = Append(queue, c)
     /\ pc' = [pc EXCEPT ![c] = "queued"]
     /\ UNCHANGED <<holder, nap, since>>
  \/ /\ holder = Nobody /\ since < Gap
     /\ holder' = c
     /\ nap' = Gap - since
     /\ pc' = [pc EXCEPT ![c] = "napping"]
     /\ UNCHANGED <<queue, since>>
  \/ /\ holder = Nobody /\ since >= Gap
     /\ since' = 0
     /\ pc' = [pc EXCEPT ![c] = "due"]
     /\ UNCHANGED <<holder, queue, nap>>

\* Mutant of LetGo: the lock is freed without a look at the queue.
LetGoFreeing(c) ==
  /\ pc[c] = "napping" /\ nap = 0
  /\ since' = 0
  /\ holder' = Nobody
  /\ pc' = [pc EXCEPT ![c] = "due"]
  /\ UNCHANGED <<queue, nap, call, quiet>>

\* The sleep is over: the instant is noted and the lock goes to the first in the
\* queue, who starts to sleep in turn.
LetGo(c) ==
  /\ pc[c] = "napping" /\ nap = 0
  /\ since' = 0
  /\ \/ /\ queue = <<>>
        /\ holder' = Nobody
        /\ pc' = [pc EXCEPT ![c] = "due"]
        /\ UNCHANGED <<queue, nap>>
     \/ /\ queue # <<>>
        /\ holder' = Head(queue)
        /\ queue' = Tail(queue)
        /\ nap' = Gap
        /\ pc' = [pc EXCEPT ![c] = "due", ![Head(queue)] = "napping"]
  /\ UNCHANGED <<call, quiet>>

-----------------------------------------------------------------------------
\* The provider is called, anew each time.
Call(c) ==
  /\ pc[c] \in {"idle", "done"}
  /\ Knock(c)
  /\ stage' = [stage EXCEPT ![c] = "search"]
  /\ tries' = [tries EXCEPT ![c] = 0]
  /\ seen' = [seen EXCEPT ![c] = <<>>]
  /\ entry' = [entry EXCEPT ![c] = Miss]
  /\ UNCHANGED <<quiet, kind>>

\* resilient_get has a slot: the exchange begins.
Send(c) ==
  /\ pc[c] = "due"
  /\ quiet' = 0
  /\ pc' = [pc EXCEPT ![c] = "wire"]
  /\ UNCHANGED <<throttle, call>>

\* Mutant of Retry: one retry too many.
RetryOneMore(c) ==
  /\ pc[c] = "wire"
  /\ tries[c] <= MaxRetries
  /\ tries' = [tries EXCEPT ![c] = @ + 1]
  /\ pc' = [pc EXCEPT ![c] = "due"]
  /\ UNCHANGED <<throttle, quiet, kind, stage, seen, entry>>

\* The exchange fails in a way that is retried: back to resilient_get's loop.
Retry(c) ==
  /\ pc[c] = "wire"
  /\ tries[c] < MaxRetries
  /\ tries' = [tries EXCEPT ![c] = @ + 1]
  /\ pc' = [pc EXCEPT ![c] = "due"]
  /\ UNCHANGED <<throttle, quiet, kind, stage, seen, entry>>

Return(c, x) ==
  /\ entry' = [entry EXCEPT ![c] = x]
  /\ pc' = [pc EXCEPT ![c] = "done"]
  /\ UNCHANGED <<throttle, stage, tries>>

\* On to the next GET of the chain, past the throttle.
Go(c, s) ==
  /\ stage' = [stage EXCEPT ![c] = s]
  /\ tries' = [tries EXCEPT ![c] = 0]
  /\ Knock(c)
  /\ UNCHANGED entry

\* Mutant of Searched: an error status is taken for an empty result.
SearchedForgiving(c, o) ==
  /\ stage[c] = "search"
  /\ \/ o = "malformed" /\ Return(c, Failed)
     \/ o \in {"error", "empty"} /\ Return(c, Miss)
     \/ o = "bare" /\ Return(c, Hit(FALSE, FALSE))
     \/ o = "hit" /\ Go(c, IF kind[c] = "isrc" THEN "detail" ELSE "release")

\* The search: an error, a miss, a hit that has no id to go on with, or a hit.
Searched(c, o) ==
  /\ stage[c] = "search"
  /\ \/ o \in {"error", "malformed"} /\ Return(c, Failed)
     \/ o = "empty" /\ Return(c, Miss)
     \/ /\ o = "bare"
        /\ \E album \in IF kind[c] = "upc" THEN BOOLEAN ELSE {FALSE} :
             Return(c, Hit(album, FALSE))
     \/ o = "hit" /\ Go(c, IF kind[c] = "isrc" THEN "detail" ELSE "release")

\* Mutant of Detailed: an exception of the detail is the call's.
DetailedOrFailed(c, o) ==
  /\ stage[c] = "detail"
  /\ \/ o \in {"malformed", "error"} /\ Return(c, Failed)
     \/ o = "unpicked" /\ Return(c, Hit(FALSE, FALSE))
     \/ o = "picked" /\ (Go(c, "release") \/ \E album \in BOOLEAN : Return(c, Hit(album, FALSE)))

\* The releases a detail can lead to, whichever it lists.
Picks == {r \in Releases : \E list \in Listings, hint \in Hints : r = Pick(list, hint)}

\* The detail of a recording: without it the hit is returned as it is; a picked
\* release may lack an id, and then there is nothing more to fetch.
Detailed(c, o) ==
  /\ stage[c] = "detail"
  /\ \/ o = "malformed" /\ Return(c, Failed)
     \/ o \in {"error", "unpicked"} /\ Return(c, Hit(FALSE, FALSE))
     \/ /\ o = "picked"
        /\ \E r \in Picks :
             \/ r.known /\ Go(c, "release")
             \/ ~ r.known /\ Return(c, Hit(r.titled, FALSE))

\* The release, for its label; the album is known from the step before.
Released(c, o) ==
  /\ stage[c] = "release"
  /\ \/ o = "malformed" /\ Return(c, Failed)
     \/ /\ o # "malformed"
        /\ \E album \in BOOLEAN : Return(c, Hit(album, o = "label"))

\* The GET ends.
Land(c, o) ==
  /\ pc[c] = "wire"
  /\ o \in Answers(stage[c])
  /\ seen' = [seen EXCEPT ![c] = Append(@, o)]
  /\ Searched(c, o) \/ Detailed(c, o) \/ Released(c, o)
  /\ UNCHANGED <<quiet, kind>>

Older(n) == IF n < Gap THEN n + 1 ELSE Gap

Tick ==
  /\ since' = Older(since)
  /\ quiet' = Older(quiet)
  /\ nap' = IF nap > 0 THEN nap - 1 ELSE 0
  /\ UNCHANGED <<holder, queue, pc, call>>

Proceed(c) == LetGo(c) \/ Send(c) \/ Retry(c) \/ \E o \in Outcomes : Land(c, o)

Next == Tick \/ \E c \in Calls : Call(c) \/ Proceed(c)

(***************************************************************************)
(* Time passes, asyncio.sleep returns, a GET gets its slot and ends        *)
(* (ResilientGet), a call that can go on goes on.                          *)
(***************************************************************************)
Fairness == WF_vars(Tick) /\ \A c \in Calls : WF_vars(Proceed(c))

Spec == Init /\ [][Next]_vars /\ Fairness

-----------------------------------------------------------------------------
TypeOK ==
  /\ holder \in Calls \cup {Nobody} /\ queue \in Seq(Calls)
  /\ {nap, since, quiet} \subseteq 0..Gap
  /\ kind \in [Calls -> {"isrc", "upc"}]
  /\ pc \in [Calls -> PcTypes]
  /\ stage \in [Calls -> Stages]
  /\ tries \in [Calls -> 0..MaxRetries]
  /\ seen \in [Calls -> Seq(Outcomes)]
  /\ entry \in [Calls -> Row]

\* The lock and its users: the holder is the one that sleeps, the queue holds the
\* others that wait, each once, and nobody waits for a lock that is free.
LockAccounting ==
  /\ \A c \in Calls : pc[c] = "napping" <=> holder = c
  /\ \A c \in Calls : pc[c] = "queued" <=> \E i \in DOMAIN queue : queue[i] = c
  /\ \A i, j \in DOMAIN queue : queue[i] = queue[j] => i = j
  /\ queue # <<>> => holder # Nobody
  /\ holder # Nobody => nap + since >= Gap

\* The throttle's promise: a GET that is not a retry is let go, by whichever call,
\* only when Gap has passed since the one before (musicbrainz.py:25-31).
LetGoSpaced ==
  [][\A c \in Calls :
       pc[c] # "due" /\ pc'[c] = "due" /\ tries'[c] <= tries[c] => since >= Gap]_vars

\* A hit survives the failure of what only embellishes it: once the search has
\* found something, only JSON the code stumbles over loses it
\* (musicbrainz.py:167-171, 202-206).
HitSurvives ==
  \A c \in Calls :
    pc[c] = "done" /\ seen[c][1] \in {"hit", "bare"} =>
      \/ entry[c].found
      \/ \E i \in DOMAIN seen[c] : seen[c][i] = "malformed"

\* A failed search is an error, never a clean miss (musicbrainz.py:53-74, 398-419).
FailureIsNoMiss ==
  \A c \in Calls : pc[c] = "done" => (entry[c].error <=>
    \/ seen[c][1] = "error"
    \/ \E i \in DOMAIN seen[c] : seen[c][i] = "malformed")

\* Whatever list the detail that is awaited will bring: the release shown for it is
\* the best of the artist's own, or of all that are eligible if none is, and there is
\* one as soon as one is eligible (musicbrainz.py:335-378).
PickIsBest == \A c \in Calls : pc[c] = "wire" /\ stage[c] = "detail" => BestOfAll

\* Every call ends, though calls keep coming and queue for the throttle.
EveryCallEnds ==
  \A c \in Calls : pc[c] = "queued" ~> pc[c] = "done"

\* What the README says: "respects ~1 req/s (async lock)" (README.md:247).  Two
\* exchanges with MusicBrainz never begin within less than Gap.
WireSpaced ==
  [][\A c \in Calls : pc[c] = "due" /\ pc'[c] = "wire" => quiet >= Gap]_vars

=============================================================================
