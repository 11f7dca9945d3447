--------------------------- MODULE LookupService ---------------------------
(***************************************************************************)
(* LookupService (app/services/lookup_service.py): concurrent lookups of   *)
(* ISRC and UPC codes over one cache.                                      *)
(*                                                                         *)
(* A lookup reads the cache; on a miss it asks all enabled providers at    *)
(* once and waits for all of them; when some row gives a hint, the Deezer  *)
(* and Discogs rows that found nothing are searched again by free text,    *)
(* one after the other; rows that only report an error are left out; the   *)
(* summary is built, the answer cached and returned.                       *)
(*                                                                         *)
(* A step is what runs between two suspensions of a coroutine.  What the   *)
(* providers do on the network is in other modules: here a provider call   *)
(* ends, after any time, with any row that provider can return.            *)
(***************************************************************************)
EXTENDS TtlStore, Summary

CONSTANTS Requests,   \* lookups, one per HTTP request that passed validation
          Enabled,    \* providers that are switched on (PROVIDER_*_ENABLED)
          CacheOn,    \* LOOKUP_CACHE_ENABLED
          Hits,       \* kind of query -> provider -> the metadata it may find
          NoRow,      \* the provider has not answered
          NoAnswer,   \* the request has no answer
          MaxTime     \* bound of the model: the clock stops here

Providers == {"musicbrainz", "deezer", "discogs", "wikidata", "open_library"}
Meta      == [title : OptText, artist : OptText, album : OptText]

Row == [provider : Providers, found : BOOLEAN, error : BOOLEAN,
        title : OptText, artist : OptText, album : OptText]

\* A cache key is a kind and a code, "isrc:..." or "upc:...".
ASSUME LookupAssumption ==
  /\ NoRow \notin Row
  /\ \A k \in Keys : k[1] \in {"isrc", "upc"}
  /\ Enabled \subseteq Providers
  /\ CacheOn \in BOOLEAN
  /\ Hits \in [{"isrc", "upc", "text"} -> [Providers -> SUBSET Meta]]
  /\ MaxTime \in Nat

VARIABLES key,      \* what each request asks for
          pc,       \* where the request is
          row,      \* row[r][i]: the entry of r's i-th provider
          todo,     \* positions still to be searched again by free text
          answer,   \* the response
          ended,    \* when it was returned (history)
          store,    \* the cache
          sets,     \* insertions into the cache so far
          clock

vars == <<key, pc, row, todo, answer, ended, store, sets, clock>>
request == <<key, row, todo>>

Positions == 1..4

\* The order in which the tasks are created, and so the order of the rows.
ProviderAt(k, i) ==
  LET isrc == <<"musicbrainz", "deezer", "discogs", "wikidata">>
      upc  == <<"musicbrainz", "deezer", "discogs", "open_library">>
  IN  IF k[1] = "isrc" THEN isrc[i] ELSE upc[i]

Asked(k) == {i \in Positions : ProviderAt(k, i) \in Enabled}

Found(p, m) == [provider |-> p, found |-> TRUE, error |-> FALSE,
                title |-> m.title, artist |-> m.artist, album |-> m.album]
NotFound(p, err) == [provider |-> p, found |-> FALSE, error |-> err,
                     title |-> NoText, artist |-> NoText, album |-> NoText]

\* What _safe_call returns for a query of p by code or by free text: what it
\* found, a clean miss, or an entry with the error p reports or the text of the
\* exception it raised.  (An entry always names its provider, and _safe_call
\* leaves no exception for _gather: a task it does not catch is cancelled with
\* the whole request.)  error is whether the row has an error text that is not empty:
\* the code asks for no more, so a failure whose exception has no text is a clean miss
\* here as it is there; an httpx.HTTPError is always given one.
Results(kind, p) ==
  {Found(p, m) : m \in Hits[kind][p]} \cup {NotFound(p, FALSE), NotFound(p, TRUE)}

\* The text a row offers as a hint: its title or else its album.
HintText(x) == IF x.title # NoText THEN x.title ELSE x.album

\* _hint_title_artist finds a title: some found row offers a text that is not
\* white space only.  (Which row, is a matter of priority; the query's wording
\* is left out here.)
HintExists(rows) ==
  \E i \in FoundAt(rows) : HintText(rows[i]) # NoText /\ Norm[HintText(rows[i])] # Blank

\* The rows to search again by free text.
Refinable(rows) ==
  IF HintExists(rows)
    THEN {i \in DOMAIN rows : rows[i].provider \in {"deezer", "discogs"} /\ ~rows[i].found}
    ELSE {}

Rows(r) == [i \in Asked(key[r]) |-> row[r][i]]

\* Mutant of Shown: a row must have a title to be worth showing.
ShownTitled(rows) == [i \in {j \in DOMAIN rows : rows[j].title # NoText} |-> rows[i]]

\* _omit_providers_with_only_error
Shown(rows) == [i \in {j \in DOMAIN rows : ~OnlyError(rows[j])} |-> rows[i]]

\* Mutant of Response: the summary is built before the rows are left out, and
\* the errors are looked for afterwards.
ResponseOmitFirst(k, rows) ==
  [query |-> k, providers |-> Shown(rows),
   summary |-> WithDroppedErrors(Shown(rows), BuildSummary(Shown(rows)))]

Response(k, rows) ==
  [query |-> k, providers |-> Shown(rows),
   summary |-> WithDroppedErrors(rows, BuildSummary(Shown(rows)))]

-----------------------------------------------------------------------------
Init ==
  /\ key \in [Requests -> Keys]
  /\ pc = [r \in Requests |-> "idle"]
  /\ row = [r \in Requests |-> [i \in Positions |-> NoRow]]
  /\ todo = [r \in Requests |-> {}]
  /\ answer = [r \in Requests |-> NoAnswer]
  /\ ended = [r \in Requests |-> 0]
  /\ store = Empty
  /\ sets = 0
  /\ clock = 0

Return(r, out, how) ==
  /\ answer' = [answer EXCEPT ![r] = out]
  /\ ended' = [ended EXCEPT ![r] = clock]
  /\ pc' = [pc EXCEPT ![r] = how]

\* The rows are complete: leave out, sum up, cache, return.
Finish(r, rows) ==
  /\ Return(r, Response(key[r], rows), "built")
  /\ store' = IF CacheOn THEN Put(store, key[r], Response(key[r], rows), clock, sets)
                         ELSE store
  /\ sets' = IF CacheOn THEN sets + 1 ELSE sets

CacheHit(r) ==
  /\ pc[r] = "idle"
  /\ CacheOn
  /\ store' = Purge(store, clock)
  /\ key[r] \in DOMAIN store'
  /\ Return(r, store'[key[r]].val, "cached")
  /\ UNCHANGED <<request, sets, clock>>

\* Not cached: a task is created for every enabled provider.
CacheMiss(r) ==
  /\ pc[r] = "idle"
  /\ CacheOn => key[r] \notin Live(store, clock)
  /\ Asked(key[r]) # {}
  /\ store' = IF CacheOn THEN Purge(store, clock) ELSE store
  /\ pc' = [pc EXCEPT ![r] = "calling"]
  /\ UNCHANGED <<request, answer, ended, sets, clock>>

\* Not cached, and no provider is enabled for this kind of code.
NobodyToAsk(r) ==
  /\ pc[r] = "idle"
  /\ CacheOn => key[r] \notin Live(store, clock)
  /\ Asked(key[r]) = {}
  /\ Finish(r, Rows(r))
  /\ UNCHANGED <<request, clock>>

ProviderEnds(r, i) ==
  /\ pc[r] = "calling"
  /\ i \in Asked(key[r])
  /\ row[r][i] = NoRow
  /\ \E x \in Results(key[r][1], ProviderAt(key[r], i)) :
       row' = [row EXCEPT ![r][i] = x]
  /\ UNCHANGED <<key, pc, todo, answer, ended, store, sets, clock>>

\* Mutants of Gathered: the early return of a lookup with nothing to refine is
\* missing; a lookup repeats its failed calls until none fails.
GatheredNoEarlyReturn(r) ==
  /\ pc[r] = "calling"
  /\ \A i \in Asked(key[r]) : row[r][i] # NoRow
  /\ todo' = [todo EXCEPT ![r] = Refinable(Rows(r))]
  /\ pc' = [pc EXCEPT ![r] = "refining"]
  /\ UNCHANGED <<key, row, answer, ended, store, sets, clock>>
GatheredUntilClean(r) ==
  /\ pc[r] = "calling"
  /\ \A i \in Asked(key[r]) : row[r][i] # NoRow
  /\ LET failed == {i \in Asked(key[r]) : row[r][i].error}
     IN  \/ /\ failed # {}
            /\ row' = [row EXCEPT ![r] = [i \in Positions |->
                                          IF i \in failed THEN NoRow ELSE @[i]]]
            /\ UNCHANGED <<pc, answer, ended, store, sets>>
         \/ failed = {} /\ Finish(r, Rows(r)) /\ UNCHANGED row
  /\ UNCHANGED <<key, todo, clock>>

\* asyncio.gather returns when every task has: on to the free-text searches, if
\* any is due, else to the answer.
Gathered(r) ==
  /\ pc[r] = "calling"
  /\ \A i \in Asked(key[r]) : row[r][i] # NoRow
  /\ \/ /\ Refinable(Rows(r)) # {}
        /\ todo' = [todo EXCEPT ![r] = Refinable(Rows(r))]
        /\ pc' = [pc EXCEPT ![r] = "refining"]
        /\ UNCHANGED <<answer, ended, store, sets>>
     \/ /\ Refinable(Rows(r)) = {}
        /\ Finish(r, Rows(r))
        /\ UNCHANGED todo
  /\ UNCHANGED <<key, row, clock>>

\* A search by free text replaces a row that found nothing, if it found something.
Merge(old, new) == IF new.found /\ ~old.found THEN new ELSE old

\* Mutant of RefineEnds: the row is looked up by its place in the list of searches.
RefineEndsMisplaced(r) ==
  /\ pc[r] = "refining"
  /\ \E i \in todo[r] :
       /\ \A j \in todo[r] : i <= j
       /\ todo' = [todo EXCEPT ![r] = @ \ {i}]
       /\ \E x \in Results("text", ProviderAt(key[r], i)) :
            row' = [row EXCEPT ![r][i - 1] = Merge(@, x)]
  /\ \/ todo'[r] # {} /\ UNCHANGED <<pc, answer, ended, store, sets>>
     \/ todo'[r] = {} /\ Finish(r, [i \in Asked(key[r]) |-> row'[r][i]])
  /\ UNCHANGED <<key, clock>>

\* The first of the pending searches ends; after the last one comes the answer.
RefineEnds(r) ==
  /\ pc[r] = "refining"
  /\ \E i \in todo[r] :
       /\ \A j \in todo[r] : i <= j
       /\ todo' = [todo EXCEPT ![r] = @ \ {i}]
       /\ \E x \in Results("text", ProviderAt(key[r], i)) :
            row' = [row EXCEPT ![r][i] = Merge(@, x)]
  /\ \/ /\ todo'[r] # {}
        /\ UNCHANGED <<pc, answer, ended, store, sets>>
     \/ /\ todo'[r] = {}
        /\ Finish(r, [i \in Asked(key[r]) |-> row'[r][i]])
  /\ UNCHANGED <<key, clock>>

Tick ==
  /\ clock < MaxTime
  /\ clock' = clock + 1
  /\ UNCHANGED <<key, pc, row, todo, answer, ended, store, sets>>

Ended(r) == pc[r] \in {"built", "cached"}

\* All requests are served.
Served ==
  /\ \A r \in Requests : Ended(r)
  /\ clock = MaxTime
  /\ UNCHANGED vars

Proceed(r) ==
  \/ \E i \in Positions : ProviderEnds(r, i)
  \/ Gathered(r)
  \/ RefineEnds(r)

Next ==
  \/ \E r \in Requests : CacheHit(r) \/ CacheMiss(r) \/ NobodyToAsk(r) \/ Proceed(r)
  \/ Tick
  \/ Served

(***************************************************************************)
(* A provider call ends (its GETs do, see ResilientGet, and there are few) *)
(* and the event loop resumes what is ready.  Requests come when they come,*)
(* and the clock owes nothing.                                             *)
(***************************************************************************)
Fairness == \A r \in Requests : WF_vars(Proceed(r))

Spec == Init /\ [][Next]_vars /\ Fairness

-----------------------------------------------------------------------------
Answers(r) == answer[r].providers

TypeOK ==
  /\ key \in [Requests -> Keys]
  /\ pc \in [Requests -> {"idle", "calling", "refining", "built", "cached"}]
  /\ row \in [Requests -> [Positions -> Row \cup {NoRow}]]
  /\ todo \in [Requests -> SUBSET Positions]
  /\ ended \in [Requests -> 0..MaxTime]
  /\ answer = [r \in Requests |-> answer[r]]
  /\ IsStore(store) /\ sets \in Nat /\ clock \in 0..MaxTime
  /\ \A r \in Requests :
       /\ pc[r] = "refining" <=> todo[r] # {}
       /\ ~Ended(r) => answer[r] = NoAnswer

\* Whatever the order in which the providers answer and the searches end, the
\* i-th row is the i-th provider's, and no row is found and failed at once
\* (lookup_service.py:67, 193, 246-278).
RowsInPlace ==
  \A r \in Requests, i \in Positions :
    row[r][i] # NoRow =>
      /\ row[r][i].provider = ProviderAt(key[r], i)
      /\ ~(row[r][i].found /\ row[r][i].error)

\* What a provider found stays as it was found, through the free-text searches
\* and into the answer; no failure of another provider takes it away.
FoundNeverLost ==
  [][\A r \in Requests, i \in Positions :
       row[r][i] # NoRow /\ row[r][i].found =>
         /\ row'[r][i] = row[r][i]
         /\ pc'[r] = "built" => i \in DOMAIN Answers(r)' /\ Answers(r)'[i] = row[r][i]]_vars

\* An answer with nothing in it says which providers failed: a lookup in which
\* some provider did not work is never passed off as a clean miss, although the
\* rows of those providers are gone (lookup_service.py:123-139).
FailuresExplainNothingFound ==
  \A r \in Requests :
    pc[r] = "built" /\ answer[r].summary.found_in = 0 =>
      answer[r].summary.failed =
        {row[r][i].provider : i \in {j \in Asked(key[r]) : row[r][j].error}}

\* Confidence "high" is earned: two providers confirm one title, and no two
\* found rows contradict each other, by title or by artist (summary.py:18-24).
HighIsEarned ==
  \A r \in Requests :
    Ended(r) /\ answer[r].summary.confidence = "high" =>
      TwoConfirm(Answers(r)) /\ ~Conflict(Answers(r))

\* A conflict is never passed over in silence (summary.py:26-37).
ConflictIsNoted ==
  \A r \in Requests :
    Ended(r) /\ Conflict(Answers(r)) => answer[r].summary.note \in {"partial", "differs"}

\* Every lookup that asked its providers is answered.
EveryLookupAnswered == \A r \in Requests : pc[r] = "calling" ~> pc[r] = "built"

\* A cached answer was built in full by another lookup of the very same key, and
\* less than TTL ago: no partial, foreign or expired answer is served, although
\* lookups of one key overlap and overwrite each other's entries.
HitsAreFresh ==
  \A r \in Requests :
    pc[r] = "cached" =>
      \E q \in Requests : /\ pc[q] = "built" /\ key[q] = key[r]
                          /\ answer[q] = answer[r]
                          /\ ended[q] <= ended[r] /\ ended[r] - ended[q] < TTL

\* Of overlapping lookups of one key, the entry is that of the last to finish.
LastToFinishIsCached ==
  \A k \in Live(store, clock), r \in Requests :
    pc[r] = "built" /\ key[r] = k => ended[r] <= store[k].exp - TTL

(***************************************************************************)
(* The strengthening under which the properties are inductive.             *)
(***************************************************************************)
\* Only enabled providers have rows and are searched again, and once the calls are
\* over, all of them have one.
RowsComplete ==
  \A r \in Requests :
    /\ \A i \in Positions : row[r][i] # NoRow => i \in Asked(key[r])
    /\ todo[r] \subseteq Asked(key[r])
    /\ pc[r] \in {"refining", "built"} => \A i \in Asked(key[r]) : row[r][i] # NoRow

\* What was built is the response to the rows, and was built by now.
BuiltFromRows ==
  \A r \in Requests :
    /\ pc[r] = "built" => answer[r] = Response(key[r], Rows(r))
    /\ ended[r] <= clock

\* Every entry is the answer some lookup of its key built, TTL before it expires,
\* and no lookup of that key finished later.
StoreExplained ==
  /\ ~CacheOn => DOMAIN store = {}
  /\ \A k \in DOMAIN store :
       /\ \E q \in Requests : /\ pc[q] = "built" /\ key[q] = k
                              /\ answer[q] = store[k].val
                              /\ ended[q] + TTL = store[k].exp
       /\ \A r \in Requests :
            pc[r] = "built" /\ key[r] = k => ended[r] + TTL <= store[k].exp

IInv == /\ TypeOK /\ RowsInPlace /\ RowsComplete /\ BuiltFromRows
        /\ StoreExplained /\ HitsAreFresh

=============================================================================
