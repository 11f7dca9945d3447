# ISRC / UPC lookup aggregator: TLA+ models, checks and proofs

The program is a FastAPI service: a request for an ISRC or a UPC asks up to four
metadata providers at once over HTTP, searches some of them again by free text,
and answers with one row per provider and a summary; answers are cached for a
while, inbound requests are limited per client address, outbound GETs share a
number of slots and are retried.  Everything runs on one asyncio event loop in
one process.  Paths below are relative to `src/`.

A step of a model is what the code runs between two suspensions of a coroutine
(two `await`s that really wait): on one event loop nothing can come in between.

## 1. Inventory

| Part | State | Operations | Talks to |
|---|---|---|---|
| Outbound slots, `app/outbound.py` | the process-wide semaphore: its value, its queue | `outbound_slot` (acquire, release) | held by every GET |
| Resilient GET, `app/resilient_http.py` | the attempt of each GET | GET, retry after a transient exception or 502/503/504, body cap | providers call it, it takes a slot per attempt |
| TTL cache, `app/cache.py` | a dict in insertion order, value and expiry per key | `get`, `set`, purge, eviction | the lookups |
| Lookup service, `app/services/lookup_service.py` | per request: the rows, the pending free-text searches; the cache is shared | `lookup_isrc`, `lookup_upc`, `_gather`, `_refine_by_title_hint`, `_safe_call`, the filter of error-only rows | routes call it; it calls cache, providers, summary |
| Summary, `app/summary.py`, `app/normalize.py` | none | `build_summary`, `norm_compare` | called with the rows |
| MusicBrainz, `app/providers/musicbrainz.py` | a lock and the instant of the last request | `lookup_isrc`, `lookup_upc`, `_respect_rate_limit`, two enrichments | resilient GET |
| Deezer, Discogs, Open Library, Wikidata, `app/providers/` | none between calls | `lookup_isrc`, `lookup_upc`, free text, details | resilient GET |
| Inbound rate limit, `app/middleware/rate_limit.py` | a deque of instants per host | `allow`, the exempt paths | in front of the routes |
| Request id, error handlers, application assembly, `app/main.py`, `app/exception_handlers.py`, `app/middleware/request_id.py` | the request's id | order of the middlewares, which handler answers what | everything inbound |
| Validation, `app/validation.py` | none | `validate_isrc`, `validate_upc` | routes |
| Health, `app/api/routes/health.py` | none | `/health`, `/ready` with its probe and fallback | the shared client |
| Configuration, logging, schemas, OpenAPI texts | settings, read once | | everything |
| `client.py`, nginx, Docker files | none | requests one after the other, with or without a timeout; a proxy with one | the service |

What is hard here, and what has to hold (PROJECT.json lists each hazard at its
line):

- *Slots and retries.*  Tasks fail, sleep with or without a slot, retry and queue.
  No slot may be lost or doubled, no task forgotten in the queue, the cap must
  hold, every GET must end, with its last outcome, after the right number of attempts.
- *Cache.*  Expiry at a boundary, eviction in insertion order, a key set again.
  Never an expired value, never above the capacity, only the oldest given up early.
- *Lookups.*  Providers answer in any order, some fail; searches are merged by
  index afterwards; lookups of one code overlap and overwrite each other's entry.
  A row must be its provider's, a find must not be lost, a failure must not
  look like a clean miss, a cached answer must be whole, of the same code and fresh.
- *Summary.*  "high" must be earned, a conflict must show.
- *MusicBrainz.*  A lock held through a sleep; chains of GETs of which some only
  embellish.  Spacing, no starvation, a hit that survives failures.
- *Chains of the other providers.*  A miss only after every form was tried, a hit
  that no detail takes away.
- *Rate limit.*  A window that may be put anywhere in time; refusals that are just.
- *The edge of the application.*  The order in which middlewares and handlers stand
  decides which answer has a request id and CORS headers, and what is counted.
  `/ready` has two probes and many ways to end.  Clients and nginx give up on a
  request that goes on.  Errors must name their own request, readiness must be
  honest, a barcode with a check digit must not be looked up mistyped, every request
  must be answered.
- *Which release.*  A hint that may leave nothing, defaults for what is missing.

## 2. Modules

| Module | What it models |
|---|---|
| `ExchangeContract` | Abstract: what a GET promises its caller and the services: bounded attempts, another attempt only after a retryable outcome, an end with the last outcome, a cap on exchanges in flight. |
| `ResilientGet` | `resilient_get` within `outbound_slot`; refines `ExchangeContract`. |
| `ResilientGet_proofs` | Its theorems. |
| `TtlStore` | The dict of the cache as operators: purge, make room, put. No variables; used by `TtlCache` and `LookupService`. |
| `CacheContract` | Abstract: a map that may forget, but never answers with a value that is stale or not the latest, and forgets before time only when it is full. |
| `TtlCache` | `TtlCache` as a state machine; refines `CacheContract`. |
| `TtlCache_proofs` | Its theorems. |
| `Summary` | `build_summary`, the filter of error-only rows and the note on them, as operators; and what the summary is to mean, stated without the algorithm. |
| `LookupService` | Concurrent lookups over one cache; composes `TtlStore` and `Summary`. |
| `LookupService_proofs` | Its theorems, with lemmas on `Summary` and `TtlStore`. |
| `DisplayRelease` | Which release stands for a recording, as operators, and what that choice is to be. |
| `MusicBrainz` | The throttle and the chain of GETs of the MusicBrainz provider; uses `DisplayRelease`. |
| `MusicBrainz_proofs` | Its theorems. |
| `ProviderChains` | The chains of Deezer, Discogs, Wikidata and Open Library. |
| `ProviderChains_proofs` | Its theorems. |
| `SlidingWindow` | Abstract: an exact limit. Nothing that was let through is forgotten, and a request passes exactly if fewer than the limit are recent. |
| `RateLimiter` | The sliding window of the inbound limit; refines `SlidingWindow`. |
| `RateLimiter_proofs` | Its theorems. |
| `Validation` | What the routes accept as an ISRC or a UPC, and what they make of it, as operators; and GS1's definition of a check digit. |
| `Validation_proofs` | Theorems on check digits for every code. |
| `Edge` | A request from client over nginx, middlewares, routes and handlers to the answer; composes `RateLimiter` and `Validation`. |
| `Edge_proofs` | Its theorems; uses those of the two. |
| `MC...` | Instances for TLC: model values, small sets, symmetry. |

How the state corresponds to the code:

- `ResilientGet`: `limit` is `outbound_max_concurrent` (0: no semaphore), `free`
  and `waiters` are the value and the queue of `asyncio.Semaphore`, `attempt` is
  the loop variable, `pc` is where the coroutine is: `waiting` in `acquire()`,
  `woken` from it but not run since (its future is in the semaphore's deque still, and
  a newcomer queues behind it even if the value is positive, as in CPython 3.12),
  `granted` a slot at once, `sending` in `client.get`,
  `pausingInSlot` in the sleep at line 93 (inside the `async with`, so the slot
  is held), `pausing` in the sleep at line 99 (outside).  `Call`, `Send`,
  `Respond`, `Fail`, `Resume`, `ResumeInSlot` are the steps from one suspension
  to the next.  A body is in memory when `client.get` returns, so the body cap
  and the test of the status belong to the step that leaves the slot.
- `TtlStore`, `TtlCache`: an entry is its value, its expiry and the rank of its
  insertion.  A key that is set again keeps its rank unless room had to be made
  and it was its own turn, as in a Python dict.  The lock of the cache is never
  held across a suspension, so `get` and `set` are single steps.
- `LookupService`: one request goes `idle` -> `cached`, or `idle` -> `calling`
  (the tasks of `_gather`) -> `refining` (the free-text searches, one after the
  other) -> `built`.  Every provider call ends in `ProviderEnds`, with any row
  that provider can return, an error row if it raised (`_safe_call`).
  What follows the last search, up to the return, runs without waiting
  (`Finish`): the filter, the summary, the note, the insertion into the cache.
- `MusicBrainz`: `holder`, `queue` are the `asyncio.Lock`; `nap` is what is left
  of the sleep inside it; `since` is the time since `_last_request_at`.  The GETs
  are the `stage`s of a call.  A GET waits for its slot in `due` and may be
  retried (`Retry`) without passing the throttle again, as in the code.
- `ProviderChains`: `log` says how the searches went, `entry` is the row with,
  for each text, whether the search or the detail gave it.
- `RateLimiter`: `hits` are the deques, `allowed` is the history of what was let
  through, the window the properties speak of.  `HostOf` says whose address a
  client's requests carry; clients behind nginx share nginx's.
- `Edge`: `conf` is what of the settings matters (limit on or off, CORS on or off,
  how many probe URLs), `stage` is where the coroutine of a request is suspended:
  between the limiter and the route (`inside`), in a lookup, in the primary or the
  fallback probe.  `Stack` lists the layers as `create_app` ends up with them; an
  answer made at a layer passes only those `Outside` of it, which is where request id
  and CORS headers come from.  `Send` with `Arrive` goes up to the limiter's decision;
  `call_next` runs what is further in as a task of its own, so the route begins in
  another step, `Enter`, with others in between.  Paths are classes: those the skip
  list of the limiter names, those that merely begin with `/docs` or `/redoc` and are
  skipped too, `/ready/` and the like, which are counted and redirected, and the rest.
  `heard` is what the client was told, also by nginx (504) or by its own timeout.  The
  number of a request is its id.
- `Validation`: a character is its class and its value, and a digit of another script
  stays one: two codes of the same digits in different scripts are two codes, and
  keys of the cache, as in the code.  `Validated` is what a route hands to the
  service, or its refusal.

Abstractions: texts are model values with a normalization function, times are
ticks, a GET has one of a few outcomes, raw fragments, wording and logging are
left out.  Inputs of a lookup in `LookupService` are codes that passed validation.

Every module but the `MC...` ones holds, beside the definitions of the code, some
operators marked *Mutant of X*: X as a plausible bug would have it.  Put in the
place of X, each makes a run fail; they play no part in the specifications.

## 3. Runs

| Run | Instance | What it shows |
|---|---|---|
| `resilient_get` | 3 tasks, 1 retry, limits 0, 1, 2 | Slot accounting, cap, implementation of the contract, every GET ends. |
| `ttl_cache` | 3 keys, 2 values, 2 places, TTL 2, clock to 4, 5 sets | Capacity, the order of eviction, implementation of the lossy map. |
| `lookup_rows` | 1 request, ISRC or UPC, all providers, titles equal, equal but for case, different, missing; cache off | Rows in place, finds kept through refinement, failures explained, confidence and note, every lookup answered. |
| `lookup_cache` | 3 requests, 2 ISRCs and a UPC nobody can answer, 1 place, TTL 2, clock to 4; symmetric requests | What a cache hit may return, whose answer stays. |
| `musicbrainz` | 2 calls of either kind, again and again, gap 2, 1 retry; details that list up to 3 of 25 releases, 3 hints | Lock and queue, spacing at the throttle, fate of a hit, failure is no miss, the release that is shown, every queued call ends. |
| `provider_chains` | every question the service asks, every outcome | Hit kept, miss exhaustive, which hits may lack a title. |
| `edge` | a request each of a one-shot client, a menu and a browser, all behind nginx; limit 1, window 1, clock to 2; three settings | The limiter in its place and exact, genuine barcodes, readiness, what a page may read, 504 and timeout of the client, every request answered. |
| `ean8_unchecked` | as `edge` | *Violated:* README.md:18 says the check digit of an EAN-8 is validated; any eight digits are looked up. |
| `answers_without_id` | as `edge` | *Violated:* README.md:184 says every response should include `X-Request-ID`; a preflight, a 429 and an unexpected error lack it. |
| `one_window_per_proxy` | 3 clients, 2 of them behind nginx, limit 2, window 2, clock to 5 | *Violated:* README.md:154 speaks of a window per IP; behind nginx it is one for all. |
| `throttle_bypassed` | as `musicbrainz` | *Violated:* README.md:247 says about one request per second; retries, and waits for a slot, come after the throttle. |
| `failed_search_masked` | as `provider_chains` | *Violated:* README.md:188 says problems appear in `providers[].error`; a failed search is forgotten when the next one is empty. |

Bounds, and why they are enough.  Three tasks on one slot show a holder, a head
of the queue and one behind it; a retry and a last attempt need one retry.  Three
keys on two places make eviction choose; TTL 2 with a clock to 4 lets entries
expire, exactly and late, and be replaced.  One request shows everything about
rows, as requests share nothing but the cache; three over one place show
an overlap and an eviction at once.  With two calls the lock of MusicBrainz is
held, waited for and passed on, and with either call starting again and again the
queue never has to run dry.  Lists of three releases have a best, a tie and one to
pass over.  In `edge` all three requests come through nginx, from one host: one can be let through, the next be refused, and the third let
through a window later, while the others probe or look up; two ticks are past the
window, the patience of the client (1) and that of nginx (2).  What this instance does
not show is a deque that loses one hit and keeps another (its limit is 1), hosts that
do not share a deque, and two requests of one client; `LimitExact`, `LimitHeld` and
the other proofs are for any limit, hosts and requests.  The texts typed are a
UPC-A, an EAN-13, the GTIN-14 around it, one mistyped digit, an EAN-8 with a mistyped
digit, a genuine GTIN-14 with indicator 1, one too long, and ISRCs with blanks and
foreign digits; what holds for every code is proved.  `MaxTime` and `MaxSets` bound only the models; the chains and the GETs
need no bound.

Fairness.  `ResilientGet`: weak fairness of what a task does once a GET is
called: httpx has a timeout on each exchange, `asyncio.sleep` returns, a
task that was woken runs.  `LookupService`: weak fairness of each request's steps; a
provider call ends because its GETs do (`EveryGetEnds`, `EveryCallEnds`) and are
few.  `MusicBrainz`: time passes, and calls that can go on do.  Nothing obliges
anyone to call, and no strong fairness is used: the queues are first come, first
served, which is in the models, not in an assumption.  `TtlCache`,
`ProviderChains` and `RateLimiter` have safety properties only.  `Edge`: weak
fairness of each request's `Serve`: a lookup ends (`EveryLookupAnswered`), a probe
has a timeout of 3 s.  No client is obliged to give up, nor nginx: the menu of
`client.py` has no timeout (client.py:84 overrides the client's by None), and is
answered all the same.

## 4. Proofs

TLAPS checks these for every value of the constants allowed by the named
assumptions of the modules (finite sets of tasks, a natural limit, and so on).

- `ResilientGet_proofs`.  `IInv` is the type invariant, the slot accounting and
  *a task pauses only if an attempt is left*.  The accounting is inductive only
  whole: that the free slots and the holders add up to the limit needs that the
  queue holds just the waiting tasks, once each (a slot passed on must reach a task
  that does not hold one), and that nobody waits while a slot is free unless a woken
  task, which will pass it on, has still to run.
  `SlotsAccountedFor`, `CapHolds` follow; `ContractImplemented` maps each step
  to a step of `ExchangeContract` or to a stutter, under the same invariant.
  Then what the end of every GET rests on: `NobodyWaitsForNobody` (a queue has
  somebody it waits for), `SlotsHandedOn` (a slot given up while tasks queue goes to
  the first), `NobodyOvertakes`, and `GetsRunDown`: `Left`, a measure of at most five
  steps per attempt, falls whenever the GET moves, be it only that it is handed a slot.
- `RateLimiter_proofs`.  `IInv` relates the deque to the history: it holds the
  latest of the requests let through, and what is no longer in it is more than a
  window back.  With the order in time this gives `WindowAlwaysRespected` and
  `RefusalsJustified`, for every limit, window and assignment of clients to hosts.
  `LimitExact` is the refinement of `SlidingWindow`: what is left in a deque once its
  old hits are popped are the recent requests of the log, all of them and no others,
  as the log is in the order of time and the head of the deque is recent.  An exempt
  request passes without a place in the log, in both.
- `LookupService_proofs`.  Two parts need no state: what a confidence, a note and the
  named failures say of any rows (`Summary`), and what a purge and an insertion leave
  in any store (`TtlStore`).  `IInv` joins them: rows are in place and complete once
  the calls are over, a built answer is the response to its rows, and every entry of
  the cache is an answer built TTL before the entry expires, with none of its key
  built later.  The last part is what freshness needs: `HitsAreFresh` speaks of the
  moment a hit is returned, so it is inductive only if every entry a later hit may
  find is explained already.  From it follow `RowsStay`, `HighEarned`,
  `ConflictNoted`, `FailuresExplained`, `HitsFresh`, `LastCached` and the action
  property `FoundStays`, for any requests, keys, texts, providers switched on and
  findings, with the cache on or off and of any size.  `LookupsRunDown`: rows to come
  and searches to do only become fewer, so a lookup takes at most eleven steps.
- `TtlCache_proofs`.  The loop of `set` leaves an entry if fewer than
  `Capacity - 1` are newer; as no two have one place, counting the newer ones tells
  the entries that stay apart, so they are fewer than `Capacity` (`CapacityHeld`);
  and as the store was never above it, only the oldest can go (`OldestFirst`).
  That is why capacity and distinct places are inductive only together.
  `Implements` maps a purge to a stutter, the clock to expiry, and the entry a
  `set` gives up to the one the lossy map may lose.
- `MusicBrainz_proofs`.  Two halves: the lock (holder, queue, sleep) and the calls
  (stage, outcomes so far, row).  Only `Knock` and `LetGo` touch the lock, so
  `LockAccounted` and `GetsSpaced` rest on a lemma for each and one that says that a
  call may move without it.  Of the calls, *one that has left the search has a hit
  and nothing that made it stumble* is what makes `HitsSurvive` and `FailuresTold`
  inductive.  For any number of calls, gap and retries.  `CallsRunDown` gives the bound
  on the steps of a call, three GETs of at most 2 * `MaxRetries` + 5 steps each;
  `NobodyOvertakes` the order of the throttle's queue.  `PicksBest`, about the operators
  of `DisplayRelease`, rests on an argument of least elements: of the places of the
  candidates there is one with the least kind, among those the least date, among those
  the first, and it is the only one that `First` may choose; so the choice is never
  that of an empty set.  `PickAlwaysBest` carries it to the states of `MusicBrainz`.
- `ProviderChains_proofs`.  What the log of the searches says of the row, step by
  step, for any forms of a code: `HitsKept`, `MissesExhaustive`, `UntitledKnown`.
- `Validation_proofs`.  Both sums, that of the code (weights from the left, over
  twelve digits) and GS1's (fourteen places, from the right), are linear in the
  digits; that two digits with equal weighted value modulo ten are equal (3 is prime
  to 10) then gives `AcceptedIsGenuine` and `TypoRefused`.  `OnlyIndicatorZero` says
  what the cut of fourteen digits costs: a genuine GTIN-14 with another indicator
  than 0 is always refused, as its tail has another check digit.
  `ValidationIdempotent` says that a client may ask again with the code of its answer
  and is served for that code.  It does not say that a product has one key in the
  cache: by `UpcAIsEan13` a UPC-A and the EAN-13 with a leading zero are two keys.
- `Edge_proofs`.  The limiter's variables move as `RateLimiter` lets them
  (`LimiterInEdge`, a lemma that follows from how `Edge` is put together), so what is
  proved of it holds here without another proof.  The rest is
  one invariant per request, `Fine`: its stage, what was asked, how the probes went
  and the answer fit together; a step touches one request, and the lemmas on the
  stack say what an answer made at a layer carries when it leaves.
  `TextsAssumption` says of the texts only that digits are digits.  `BarcodesChecked`
  cites `AcceptedIsGenuine` and `TypoRefused`; it leaves out eight digits, of which
  the code checks none.  `AnswersReadable` rests on a second invariant, `Told`, on what
  a client has heard: nothing, 504, its own impatience, or the answer to its request.
  `LimitHeld` needs an invariant of its own, as `LimitWhereDue` speaks of requests and
  the limiter of entries in a log: every request that was let past has a place of its
  own in the log of its host, with the instant it was sent (`Placed`); that there is
  such a placing, and that a refusal was due, is `Accounted`.  So Limit + 1 requests of one host have Limit + 1 places, and two of
  these are Limit or more apart (by counting), hence more than a window
  (`WindowRespected`).  `AnsweredOnce`: a request takes at most four steps,
  nothing moves it once it is over, and by then its client has heard something.

Model-checked only: liveness, that is `EveryGetEnds`, `EveryLookupAnswered`,
`EveryCallEnds`, `EveryRequestAnswered`. It needs fairness and ENABLED, which TLAPS
1.4.5 cannot handle. What is proved for every instance is the other half of the
argument, without fairness: the steps of a GET, a call, a lookup or a request are
numbered, the queues are first come, first served, and whoever queues waits for a
holder that does not queue. What is left to TLC is that a step which stays enabled
is taken in the end, and that time passes. Every safety invariant and every action
property of a passing run is stated by a theorem.

Nothing in the modules is RECURSIVE.

## 5. Not modelled

- How raw documents of the providers are cut down, the texts of errors, exit codes
  and printing of `client.py`, URL building: formatting that no other state depends on.
- The text of a provider's error, but for whether it is empty.  `_safe_call` and the
  last `except` of the providers take `str(e)`; where that is empty the code
  (lookup_service.py:130, 146) takes the failure for a miss, and so does the model, in
  which it is a row without an error.  `FailuresExplainNothingFound` is about the rows.
- What the README says otherwise, without a run of its own.  README.md:194 promises
  `type: "http_error"` and a `request_id` for other HTTP errors; the router's 404 and
  405 have neither (`NoRoute`: the handler of exception_handlers.py:43 is for FastAPI's
  class).  README.md:236 promises retries on transport errors; `httpx.ReadError` and
  others end the GET at once (`Fail`).  README.md:239 says low means a conflict or no
  hits; two found rows of which one has no title give low too (`Confidence`).
- That a name of a credit may be a piece of another (`hint not in` compares text),
  letters that become two when capitalized: data the
  properties do not tell apart.
- Reconfiguration of the semaphore while a slot is held: start-up and shut-down only.
- Settings, logging, OpenAPI texts, Docker: no state of the program; the settings
  that steer behaviour are CONSTANTS, or `conf` in `Edge`.
- Bad gateways of nginx (502) and a restart of the container: nothing is persisted,
  a restart is the initial state.

## 6. Plan

1. Done: slots and GETs, cache, lookups and summary, MusicBrainz, the other
   chains, rate limit; the proofs above.
2. Done: `Edge`, `Validation`, `DisplayRelease`, and the proofs of the first two.
3. Done: proofs of `TtlCache`, `MusicBrainz` and `ProviderChains`.
4. Done: proofs of the limit of the service as a whole, of the exact window, of the
   pick of a release, and of what ends and orders the GETs, calls and lookups.
5. A composition of `MusicBrainz` and `ResilientGet`: the throttle, the slots and the
   retries together, with the wait between throttle and wire.
