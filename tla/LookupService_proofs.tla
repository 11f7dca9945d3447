------------------------ MODULE LookupService_proofs ------------------------
(***************************************************************************)
(* Theorems about LookupService, for any requests, keys, texts, providers  *)
(* switched on and findings.                                               *)
(*                                                                         *)
(*   Part 1   what a summary says of rows       (Summary, no state)        *)
(*   Part 2   what purge and set leave in a store (TtlStore, no state)     *)
(*   Part 3   the inductive invariant IInv                                 *)
(*   Part 4   the theorems                                                 *)
(*   Part 5   how far a lookup is from its answer                          *)
(***************************************************************************)
EXTENDS LookupService, FiniteSetTheorems, TLAPS

-----------------------------------------------------------------------------
(***************************************************************************)
(* Part 1.                                                                 *)
(***************************************************************************)
\* A set of positions with two elements or more has two different ones, and one
\* with two different ones has two elements or more.
LEMMA TwoOrMore ==
  ASSUME NEW S, S \subseteq Positions
  PROVE  /\ IsFiniteSet(S) /\ Cardinality(S) \in Nat
         /\ Cardinality(S) >= 2 => \E i, j \in S : i # j
         /\ \A i, j \in S : i # j => Cardinality(S) >= 2
         /\ Cardinality(S) = 0 <=> S = {}
<1>1. IsFiniteSet(S) /\ Cardinality(S) \in Nat
  <2>1. IsFiniteSet(1..4)
    BY FS_Interval, 1 \in Int, 4 \in Int
  <2>2. S \in SUBSET (1..4)
    BY DEF Positions
  <2>3. IsFiniteSet(S)
    BY <2>1, <2>2, FS_Subset
  <2>4. QED
    BY <2>3, FS_CardinalityType
<1>2. Cardinality(S) = 0 <=> S = {}
  BY <1>1, FS_EmptySet
<1>3. ASSUME Cardinality(S) >= 2 PROVE \E i, j \in S : i # j
  <2>1. PICK i \in S : TRUE
    BY <1>1, <1>2, <1>3, SMT
  <2>2. Cardinality(S) # 1
    BY <1>1, <1>3, SMT
  <2>3. S # {i}
    BY <2>2, FS_Singleton
  <2>4. QED
    BY <2>1, <2>3
<1>4. ASSUME NEW i \in S, NEW j \in S, i # j PROVE Cardinality(S) >= 2
  <2>1. IsFiniteSet({i}) /\ Cardinality({i}) = 1
    BY FS_Singleton
  <2>2. Cardinality({i} \cup {j}) = 2 /\ IsFiniteSet({i} \cup {j})
    BY <1>4, <2>1, FS_AddElement, SMT
  <2>3. ({i} \cup {j}) \in SUBSET S
    BY <1>4
  <2>4. Cardinality({i} \cup {j}) <= Cardinality(S)
    BY <1>1, <2>3, FS_Subset
  <2>5. QED
    BY <1>1, <2>2, <2>4, SMT
<1>5. QED
  BY <1>1, <1>2, <1>3, <1>4

\* "high" means that two providers confirm one title and that nothing conflicts.
LEMMA HighMeans ==
  ASSUME NEW rows, DOMAIN rows \subseteq Positions, Confidence(rows) = "high"
  PROVE  TwoConfirm(rows) /\ ~Conflict(rows)
<1>1. TitlesAgree(rows) /\ ArtistsAgree(rows)
  BY DEF Confidence
<1>2. TitledAt(rows) \subseteq Positions /\ ArtistAt(rows) \subseteq Positions
  BY DEF TitledAt, ArtistAt, FoundAt
<1>3. PICK t : t # Blank /\ Titles(rows) = {t}
  BY <1>1 DEF TitlesAgree, OneAndTheSame
<1>4. \A i \in TitledAt(rows) : Norm[rows[i].title] = t
  BY <1>3 DEF Titles
<1>5. TwoConfirm(rows)
  <2>1. Cardinality(TitledAt(rows)) >= 2
    BY <1>1 DEF TitlesAgree
  <2>2. PICK i, j \in TitledAt(rows) : i # j
    BY <1>2, <2>1, TwoOrMore
  <2>3. QED
    BY <1>3, <1>4, <2>2 DEF TwoConfirm
<1>6. \A i, j \in ArtistAt(rows) : Norm[rows[i].artist] = Norm[rows[j].artist]
  <2>1. CASE Cardinality(ArtistAt(rows)) < 2
    <3>1. ~(Cardinality(ArtistAt(rows)) >= 2)
      BY <1>2, <2>1, TwoOrMore, SMT
    <3>2. \A i, j \in ArtistAt(rows) : i = j
      BY <1>2, <3>1, TwoOrMore
    <3>3. QED
      BY <3>2
  <2>2. CASE OneAndTheSame(Artists(rows))
    BY <2>2 DEF OneAndTheSame, Artists
  <2>3. QED
    BY <1>1, <2>1, <2>2 DEF ArtistsAgree
<1>7. ~Conflict(rows)
  BY <1>4, <1>6 DEF Conflict, TitledAt, ArtistAt
<1>8. QED
  BY <1>5, <1>7

\* Where rows conflict, the summary has a note on it, and counts what was found.
LEMMA ConflictMeans ==
  ASSUME NEW rows, DOMAIN rows \subseteq Positions, Conflict(rows)
  PROVE  Note(rows) \in {"partial", "differs"} /\ Cardinality(FoundAt(rows)) > 0
<1>1. FoundAt(rows) \subseteq Positions
  BY DEF FoundAt
<1>2. \E i, j \in FoundAt(rows) : i # j
  BY DEF Conflict
<1>3. Cardinality(FoundAt(rows)) >= 2 /\ Cardinality(FoundAt(rows)) \in Nat
  BY <1>1, <1>2, TwoOrMore
<1>4. ~(Cardinality(FoundAt(rows)) < 2) /\ Cardinality(FoundAt(rows)) > 0
  BY <1>3, SMT
<1>5. Confidence(rows) # "high"
  BY HighMeans
<1>6. QED
  BY <1>4, <1>5 DEF Note

\* A response to rows: "high" is earned, a conflict is noted.
LEMMA ResponseMeans ==
  ASSUME NEW k, NEW rows, DOMAIN rows \subseteq Positions
  PROVE  LET a == Response(k, rows)
         IN  /\ a.summary.confidence = "high" =>
                  TwoConfirm(a.providers) /\ ~Conflict(a.providers)
             /\ Conflict(a.providers) => a.summary.note \in {"partial", "differs"}
<1> DEFINE shown == Shown(rows)
           plain == BuildSummary(shown)
           sum   == WithDroppedErrors(rows, plain)
<1>1. DOMAIN shown \subseteq Positions
  BY DEF Shown
<1>2. /\ Response(k, rows).providers = shown
      /\ Response(k, rows).summary = sum
  BY DEF Response
<1>3. /\ plain.confidence = Confidence(shown)
      /\ plain.note = Note(shown)
      /\ plain.found_in = Cardinality(FoundAt(shown))
  BY DEF BuildSummary
<1>4. sum.confidence = plain.confidence
  BY DEF WithDroppedErrors, BuildSummary
<1>5. plain.found_in > 0 => sum = plain
  BY DEF WithDroppedErrors
<1> HIDE DEF shown, plain, sum
<1>6. sum.confidence = "high" => TwoConfirm(shown) /\ ~Conflict(shown)
  BY <1>1, <1>3, <1>4, HighMeans
<1>7. Conflict(shown) => sum.note \in {"partial", "differs"}
  BY <1>1, <1>3, <1>5, ConflictMeans
<1>8. QED
  BY <1>2, <1>6, <1>7

\* A response with nothing found names the providers that failed.
LEMMA NothingFoundMeans ==
  ASSUME NEW k, NEW rows, DOMAIN rows \subseteq Positions,
         Response(k, rows).summary.found_in = 0
  PROVE  Response(k, rows).summary.failed =
           {rows[i].provider : i \in {j \in DOMAIN rows : rows[j].error}}
<1> DEFINE shown == Shown(rows)
           plain == BuildSummary(shown)
           errs  == {rows[i].provider : i \in {j \in DOMAIN rows : OnlyError(rows[j])}}
<1>1. Response(k, rows).summary = WithDroppedErrors(rows, plain)
  BY DEF Response
<1>2. /\ plain.found_in = Cardinality(FoundAt(shown))
      /\ plain.failed = {}
  BY DEF BuildSummary
<1>3. WithDroppedErrors(rows, plain).found_in = plain.found_in
  BY DEF WithDroppedErrors, BuildSummary
<1>4. FoundAt(shown) = {}
  <2>1. FoundAt(shown) \subseteq Positions
    BY DEF FoundAt, Shown
  <2>2. Cardinality(FoundAt(shown)) = 0
    BY <1>1, <1>2, <1>3
  <2>3. QED
    BY <2>1, <2>2, TwoOrMore
<1>5. \A i \in DOMAIN rows : ~rows[i].found
  BY <1>4 DEF FoundAt, Shown, OnlyError
<1>6. errs = {rows[i].provider : i \in {j \in DOMAIN rows : rows[j].error}}
  BY <1>5 DEF OnlyError
<1>7. WithDroppedErrors(rows, plain) =
        IF errs = {} THEN plain ELSE [plain EXCEPT !.note = "failed", !.failed = errs]
  <2>1. ~(plain.found_in > 0)
    BY <1>1, <1>3
  <2>2. QED
    BY <2>1 DEF WithDroppedErrors
<1>8. WithDroppedErrors(rows, plain).failed = errs
  BY <1>2, <1>7 DEF BuildSummary
<1>9. QED
  BY <1>1, <1>6, <1>8

-----------------------------------------------------------------------------
(***************************************************************************)
(* Part 2.                                                                 *)
(***************************************************************************)
\* A purge takes entries away and changes none.
LEMMA PurgeLeaves ==
  ASSUME NEW s, IsStore(s), NEW now \in Nat
  PROVE  /\ IsStore(Purge(s, now))
         /\ DOMAIN Purge(s, now) = Live(s, now)
         /\ \A k \in Live(s, now) : /\ k \in DOMAIN s
                                   /\ Purge(s, now)[k] = s[k] /\ s[k].exp > now
BY DEF IsStore, Purge, Live

\* set leaves the new entry and some of the old ones.
LEMMA PutLeaves ==
  ASSUME NEW s, IsStore(s), NEW k \in Keys, NEW v, NEW now \in Nat, NEW rank \in Nat
  PROVE  LET new == Put(s, k, v, now, rank)
         IN  /\ IsStore(new)
             /\ k \in DOMAIN new /\ new[k].val = v /\ new[k].exp = now + TTL
             /\ \A j \in DOMAIN new \ {k} : j \in DOMAIN s /\ new[j] = s[j]
<1> DEFINE purged == Purge(s, now)
           kept   == MakeRoom(purged)
           place  == IF k \in DOMAIN kept THEN kept[k].rank ELSE rank
           entry  == [val |-> v, exp |-> now + TTL, rank |-> place]
           new    == [j \in DOMAIN kept \cup {k} |-> IF j # k THEN kept[j] ELSE entry]
<1>1. Put(s, k, v, now, rank) = new
  BY DEF Put
<1>2. IsStore(purged) /\ \A j \in DOMAIN purged : j \in DOMAIN s /\ purged[j] = s[j]
  BY PurgeLeaves
<1>3. /\ DOMAIN kept \subseteq DOMAIN purged
      /\ \A j \in DOMAIN kept : kept[j] = purged[j]
  BY DEF MakeRoom
<1> HIDE DEF purged, kept
<1>4. place \in Nat
  BY <1>2, <1>3 DEF IsStore
<1>5. now + TTL \in Nat
  BY TtlAssumption, SMT
<1>6. \A j \in DOMAIN kept : kept[j].exp \in Nat /\ kept[j].rank \in Nat /\ j \in Keys
  BY <1>2, <1>3 DEF IsStore
<1>7. entry.val = v /\ entry.exp = now + TTL /\ entry.rank = place
  OBVIOUS
<1> HIDE DEF entry, place
<1>8. /\ DOMAIN new = DOMAIN kept \cup {k} /\ new[k] = entry
      /\ \A j \in DOMAIN new \ {k} : j \in DOMAIN kept /\ new[j] = kept[j]
      /\ new = [j \in DOMAIN new |-> new[j]]
  OBVIOUS
<1> HIDE DEF new
<1>9. IsStore(new)
  BY <1>4, <1>5, <1>6, <1>7, <1>8 DEF IsStore
<1>10. QED
  BY <1>1, <1>2, <1>3, <1>7, <1>8, <1>9

-----------------------------------------------------------------------------
(***************************************************************************)
(* Part 3.  First what becomes of the cache, then of the rows.             *)
(***************************************************************************)
\* Returning an answer changes what is known of r, and of r only.
LEMMA ReturnOf ==
  ASSUME TypeOK, NEW r \in Requests, NEW out, NEW how \in {"built", "cached"},
         Return(r, out, how)
  PROVE  /\ answer'[r] = out /\ ended'[r] = clock /\ pc'[r] = how
         /\ \A q \in Requests \ {r} : /\ answer'[q] = answer[q]
                                     /\ ended'[q] = ended[q] /\ pc'[q] = pc[q]
         /\ answer' = [q \in Requests |-> answer'[q]]
         /\ ended' \in [Requests -> 0..MaxTime]
         /\ pc' \in [Requests -> {"idle", "calling", "refining", "built", "cached"}]
<1>1. /\ DOMAIN answer = Requests
      /\ answer = [q \in Requests |-> answer[q]]
  BY DEF TypeOK
<1>2. answer' = [answer EXCEPT ![r] = out]
  BY DEF Return
<1>3. answer' = [q \in Requests |-> answer'[q]]
  BY <1>1, <1>2
<1>4. answer'[r] = out /\ \A q \in Requests \ {r} : answer'[q] = answer[q]
  BY <1>1, <1>2
<1>5. /\ ended'[r] = clock /\ pc'[r] = how
      /\ \A q \in Requests \ {r} : ended'[q] = ended[q] /\ pc'[q] = pc[q]
      /\ ended' \in [Requests -> 0..MaxTime]
      /\ pc' \in [Requests -> {"idle", "calling", "refining", "built", "cached"}]
  BY DEF Return, TypeOK
<1>6. QED
  BY <1>3, <1>4, <1>5

\* A step that returns nothing, and at most purges the cache, keeps what is known
\* of the cache and of the answers from it.
LEMMA CacheUntouched ==
  ASSUME IInv, store' = store \/ store' = Purge(store, clock),
         \A q \in Requests : /\ pc'[q] = "built" <=> pc[q] = "built"
                             /\ pc'[q] = "cached" <=> pc[q] = "cached",
         UNCHANGED <<key, answer, ended>>
  PROVE  StoreExplained' /\ HitsAreFresh' /\ IsStore(store')
<1>1. IsStore(store) /\ clock \in Nat
  BY LookupAssumption DEF IInv, TypeOK
<1>2. IsStore(store') /\ \A k \in DOMAIN store' : k \in DOMAIN store /\ store'[k] = store[k]
  <2>1. CASE store' = store
    BY <1>1, <2>1
  <2>2. CASE store' = Purge(store, clock)
    BY <1>1, <2>2, PurgeLeaves
  <2>3. QED
    BY <2>1, <2>2
<1>3. StoreExplained'
  BY <1>2 DEF IInv, StoreExplained
<1>4. HitsAreFresh'
  BY DEF IInv, HitsAreFresh
<1>5. QED
  BY <1>2, <1>3, <1>4

\* An answer that was built goes into the cache as the latest of its key.
LEMMA CacheFilled ==
  ASSUME IInv, NEW r \in Requests, ~Ended(r), NEW rows, Finish(r, rows),
         UNCHANGED <<key, clock>>
  PROVE  StoreExplained' /\ HitsAreFresh' /\ IsStore(store') /\ sets' \in Nat
<1> DEFINE out == Response(key[r], rows)
<1>1. /\ TypeOK /\ StoreExplained /\ HitsAreFresh /\ IsStore(store)
      /\ clock \in Nat /\ sets \in Nat /\ key[r] \in Keys
      /\ ended \in [Requests -> Nat] /\ TTL \in Nat \ {0}
      /\ \A q \in Requests : ended[q] <= clock
  BY LookupAssumption, TtlAssumption DEF IInv, TypeOK, BuiltFromRows
<1>2. /\ pc[r] # "built"
      /\ answer'[r] = out /\ ended'[r] = clock /\ pc'[r] = "built"
      /\ \A q \in Requests \ {r} : /\ answer'[q] = answer[q]
                                  /\ ended'[q] = ended[q] /\ pc'[q] = pc[q]
  BY <1>1, ReturnOf DEF Finish, Ended
<1>3. /\ CacheOn => store' = Put(store, key[r], out, clock, sets)
      /\ ~CacheOn => store' = store
      /\ sets' \in Nat
  BY <1>1 DEF Finish
<1> HIDE DEF out
<1>4. HitsAreFresh'
  BY <1>1, <1>2 DEF HitsAreFresh
<1>5. CASE ~CacheOn
  <2>1. DOMAIN store' = {}
    BY <1>1, <1>3, <1>5 DEF StoreExplained
  <2>2. StoreExplained'
    BY <2>1 DEF StoreExplained
  <2>3. QED
    BY <1>1, <1>3, <1>4, <1>5, <2>2
<1>6. CASE CacheOn
  <2>1. /\ IsStore(store')
        /\ key[r] \in DOMAIN store'
        /\ store'[key[r]].val = out /\ store'[key[r]].exp = clock + TTL
        /\ \A j \in DOMAIN store' \ {key[r]} : j \in DOMAIN store /\ store'[j] = store[j]
    BY <1>1, <1>3, <1>6, PutLeaves
  <2>2. ASSUME NEW k \in DOMAIN store', NEW q \in Requests, pc'[q] = "built", key[q] = k
        PROVE  ended'[q] + TTL <= store'[k].exp
    <3>1. CASE k = key[r]
      <4>1. ended'[q] \in Nat /\ ended'[q] <= clock
        BY <1>1, <1>2
      <4>2. QED
        BY <1>1, <2>1, <3>1, <4>1, SMT
    <3>2. CASE k # key[r]
      BY <1>1, <1>2, <2>1, <2>2, <3>2 DEF StoreExplained
    <3>3. QED
      BY <3>1, <3>2
  <2>3. ASSUME NEW k \in DOMAIN store'
        PROVE  \E q \in Requests : /\ pc'[q] = "built" /\ key[q] = k
                                   /\ answer'[q] = store'[k].val
                                   /\ ended'[q] + TTL = store'[k].exp
    <3>1. CASE k = key[r]
      BY <1>2, <2>1, <3>1
    <3>2. CASE k # key[r]
      <4>1. PICK q \in Requests : /\ pc[q] = "built" /\ key[q] = k
                                 /\ answer[q] = store[k].val
                                 /\ ended[q] + TTL = store[k].exp
        BY <1>1, <2>1, <3>2 DEF StoreExplained
      <4>2. QED
        BY <1>2, <2>1, <3>2, <4>1
    <3>3. QED
      BY <3>1, <3>2
  <2>4. StoreExplained'
    BY <1>6, <2>2, <2>3 DEF StoreExplained
  <2>5. QED
    BY <1>3, <1>4, <2>1, <2>4
<1>7. QED
  BY <1>5, <1>6

\* A hit is an answer that was built for the same key, less than TTL ago.
LEMMA CacheConsulted ==
  ASSUME IInv, NEW r \in Requests, CacheHit(r)
  PROVE  StoreExplained' /\ HitsAreFresh' /\ IsStore(store')
<1>1. /\ TypeOK /\ StoreExplained /\ HitsAreFresh /\ IsStore(store) /\ clock \in Nat
      /\ ended \in [Requests -> Nat] /\ TTL \in Nat \ {0}
      /\ \A q \in Requests : ended[q] <= clock
  BY LookupAssumption, TtlAssumption DEF IInv, TypeOK, BuiltFromRows
<1>2. /\ pc[r] = "idle" /\ key' = key
      /\ store' = Purge(store, clock)
      /\ key[r] \in DOMAIN store'
      /\ Return(r, store'[key[r]].val, "cached")
  BY DEF CacheHit, request
<1>3. /\ IsStore(store')
      /\ \A k \in DOMAIN store' : /\ k \in DOMAIN store /\ store'[k] = store[k]
                                 /\ store'[k].exp > clock
  BY <1>1, <1>2, PurgeLeaves
<1>4. /\ answer'[r] = store'[key[r]].val /\ ended'[r] = clock /\ pc'[r] = "cached"
      /\ \A q \in Requests \ {r} : /\ answer'[q] = answer[q]
                                  /\ ended'[q] = ended[q] /\ pc'[q] = pc[q]
  BY <1>1, <1>2, ReturnOf
<1>5. StoreExplained'
  <2>1. \A q \in Requests : /\ pc'[q] = "built" <=> pc[q] = "built"
                            /\ pc[q] = "built" => answer'[q] = answer[q] /\ ended'[q] = ended[q]
    BY <1>2, <1>4
  <2>2. ASSUME NEW k \in DOMAIN store'
        PROVE  \E q \in Requests : /\ pc'[q] = "built" /\ key'[q] = k
                                   /\ answer'[q] = store'[k].val
                                   /\ ended'[q] + TTL = store'[k].exp
    <3>1. PICK q \in Requests : /\ pc[q] = "built" /\ key[q] = k
                               /\ answer[q] = store[k].val
                               /\ ended[q] + TTL = store[k].exp
      BY <1>1, <1>3 DEF StoreExplained
    <3>2. QED
      BY <1>2, <1>3, <2>1, <3>1
  <2>3. ASSUME NEW k \in DOMAIN store', NEW q \in Requests, pc'[q] = "built", key'[q] = k
        PROVE  ended'[q] + TTL <= store'[k].exp
    BY <1>1, <1>2, <1>3, <2>1, <2>3 DEF StoreExplained
  <2>4. CacheOn
    BY DEF CacheHit
  <2>5. QED
    BY <2>2, <2>3, <2>4 DEF StoreExplained
<1>6. \E q \in Requests : /\ pc'[q] = "built" /\ key'[q] = key'[r]
                          /\ answer'[q] = answer'[r]
                          /\ ended'[q] <= ended'[r] /\ ended'[r] - ended'[q] < TTL
  <2>1. PICK q \in Requests : /\ pc[q] = "built" /\ key[q] = key[r]
                             /\ answer[q] = store[key[r]].val
                             /\ ended[q] + TTL = store[key[r]].exp
    BY <1>1, <1>2, <1>3 DEF StoreExplained
  <2>2. ended[q] \in Nat /\ ended[q] <= clock /\ ended[q] + TTL > clock
    BY <1>1, <1>2, <1>3, <2>1
  <2>3. clock - ended[q] < TTL
    BY <1>1, <2>2, SMT
  <2>4. QED
    BY <1>2, <1>3, <1>4, <2>1, <2>2, <2>3
<1>7. HitsAreFresh'
  BY <1>1, <1>2, <1>4, <1>6 DEF HitsAreFresh
<1>8. QED
  BY <1>3, <1>5, <1>7

\* What a provider call returns is a row of that provider.
LEMMA ResultsAreRows ==
  ASSUME NEW k \in Keys, NEW i \in Positions, NEW kind \in {"isrc", "upc", "text"},
         NEW x \in Results(kind, ProviderAt(k, i))
  PROVE  x \in Row /\ x # NoRow /\ x.provider = ProviderAt(k, i) /\ ~(x.found /\ x.error)
<1> DEFINE p == ProviderAt(k, i)
<1>1. p \in Providers
  <2>1. i = 1 \/ i = 2 \/ i = 3 \/ i = 4
    BY SMT DEF Positions
  <2>2. QED
    BY <2>1 DEF ProviderAt, Providers
<1> HIDE DEF p
<1>2. ASSUME NEW m \in Hits[kind][p], x = Found(p, m)
      PROVE  x \in Row /\ x.provider = p /\ ~(x.found /\ x.error)
  <2>1. m \in Meta
    BY <1>1, LookupAssumption
  <2>2. QED
    BY <1>1, <1>2, <2>1 DEF Found, Row, Meta
<1>3. ASSUME NEW err \in BOOLEAN, x = NotFound(p, err)
      PROVE  x \in Row /\ x.provider = p /\ ~(x.found /\ x.error)
  BY <1>1, <1>3 DEF NotFound, Row, OptText
<1>4. \/ \E m \in Hits[kind][p] : x = Found(p, m)
      \/ \E err \in BOOLEAN : x = NotFound(p, err)
  BY DEF Results, p
<1>5. x \in Row /\ x.provider = p /\ ~(x.found /\ x.error)
  BY <1>2, <1>3, <1>4
<1>6. QED
  BY <1>5, LookupAssumption DEF p

\* Putting a row of the i-th provider at r's i-th position keeps rows in place.
LEMMA RowReplaced ==
  ASSUME TypeOK, RowsInPlace, NEW r \in Requests, NEW i \in Positions, NEW y,
         \/ y = row[r][i]
         \/ y \in Row /\ y.provider = ProviderAt(key[r], i) /\ ~(y.found /\ y.error),
         row' = [row EXCEPT ![r][i] = y], key' = key
  PROVE  /\ row' \in [Requests -> [Positions -> Row \cup {NoRow}]]
         /\ row'[r][i] = y
         /\ \A j \in Positions \ {i} : row'[r][j] = row[r][j]
         /\ \A q \in Requests \ {r} : row'[q] = row[q]
         /\ RowsInPlace'
<1>1. row \in [Requests -> [Positions -> Row \cup {NoRow}]]
  BY DEF TypeOK
<1>2. y \in Row \cup {NoRow}
  BY <1>1
<1>3. row' \in [Requests -> [Positions -> Row \cup {NoRow}]]
  BY <1>1, <1>2
<1>4. /\ row'[r][i] = y
      /\ \A j \in Positions \ {i} : row'[r][j] = row[r][j]
      /\ \A q \in Requests \ {r} : row'[q] = row[q]
  BY <1>1
<1>5. ASSUME NEW q \in Requests, NEW j \in Positions, row'[q][j] # NoRow
      PROVE  /\ row'[q][j].provider = ProviderAt(key[q], j)
             /\ ~(row'[q][j].found /\ row'[q][j].error)
  <2>1. CASE q = r /\ j = i
    BY <1>4, <1>5, <2>1 DEF RowsInPlace
  <2>2. CASE q # r \/ j # i
    <3>1. row'[q][j] = row[q][j]
      BY <1>4, <2>2
    <3>2. QED
      BY <1>5, <3>1 DEF RowsInPlace
  <2>3. QED
    BY <2>1, <2>2
<1>6. RowsInPlace'
  BY <1>5 DEF RowsInPlace
<1>7. QED
  BY <1>3, <1>4, <1>6

PcValues == {"idle", "calling", "refining", "built", "cached"}

\* A step that concerns r only keeps the invariant if r is in order after it.
LEMMA OnlyOf ==
  ASSUME IInv, NEW r \in Requests, key' = key, clock' = clock,
         row' \in [Requests -> [Positions -> Row \cup {NoRow}]],
         pc' \in [Requests -> PcValues],
         todo' \in [Requests -> SUBSET Positions],
         ended' \in [Requests -> 0..MaxTime],
         answer' = [q \in Requests |-> answer'[q]],
         \A q \in Requests \ {r} : /\ row'[q] = row[q] /\ pc'[q] = pc[q]
                                   /\ todo'[q] = todo[q] /\ ended'[q] = ended[q]
                                   /\ answer'[q] = answer[q],
         pc'[r] = "refining" <=> todo'[r] # {},
         pc'[r] \in {"built", "cached"} \/ answer'[r] = NoAnswer,
         ended'[r] <= clock,
         \A i \in Positions : row'[r][i] # NoRow => i \in Asked(key[r]),
         todo'[r] \subseteq Asked(key[r]),
         pc'[r] \in {"refining", "built"} => \A i \in Asked(key[r]) : row'[r][i] # NoRow,
         pc'[r] = "built" => answer'[r] = Response(key[r], [i \in Asked(key[r]) |-> row'[r][i]]),
         RowsInPlace', StoreExplained', HitsAreFresh', IsStore(store'), sets' \in Nat
  PROVE  IInv'
<1>1. TypeOK'
  <2>1. \A q \in Requests : pc'[q] = "refining" <=> todo'[q] # {}
    BY DEF IInv, TypeOK
  <2>2. \A q \in Requests : ~Ended(q)' => answer'[q] = NoAnswer
    BY DEF IInv, TypeOK, Ended
  <2>3. key' \in [Requests -> Keys] /\ clock' \in 0..MaxTime
    BY DEF IInv, TypeOK
  <2>4. QED
    BY <2>1, <2>2, <2>3 DEF TypeOK, PcValues
<1>2. RowsComplete'
  BY DEF IInv, RowsComplete
<1>3. BuiltFromRows'
  <2>1. \A q \in Requests : ended'[q] <= clock'
    BY DEF IInv, BuiltFromRows
  <2>2. ASSUME NEW q \in Requests, pc'[q] = "built"
        PROVE  answer'[q] = Response(key[q], [i \in Asked(key[q]) |-> row'[q][i]])
    BY <2>2 DEF IInv, BuiltFromRows, Rows
  <2>3. QED
    BY <2>1, <2>2 DEF BuiltFromRows, Rows
<1>4. QED
  BY <1>1, <1>2, <1>3 DEF IInv

\* The types of the parts, as the lemmas below need them.
LEMMA Typed ==
  ASSUME IInv, NEW r \in Requests
  PROVE  /\ TypeOK /\ RowsInPlace /\ StoreExplained /\ HitsAreFresh /\ IsStore(store)
         /\ key[r] \in Keys /\ sets \in Nat /\ clock \in Nat /\ clock \in 0..MaxTime
         /\ row \in [Requests -> [Positions -> Row \cup {NoRow}]]
         /\ pc \in [Requests -> PcValues]
         /\ todo \in [Requests -> SUBSET Positions]
         /\ ended \in [Requests -> 0..MaxTime]
         /\ answer = [q \in Requests |-> answer[q]]
         /\ pc[r] = "refining" <=> todo[r] # {}
         /\ pc[r] \in {"built", "cached"} \/ answer[r] = NoAnswer
         /\ ended[r] <= clock
         /\ \A i \in Positions : row[r][i] # NoRow => i \in Asked(key[r])
         /\ todo[r] \subseteq Asked(key[r])
         /\ Asked(key[r]) \subseteq Positions
         /\ pc[r] = "refining" => \A i \in Asked(key[r]) : row[r][i] # NoRow
BY LookupAssumption
   DEF IInv, TypeOK, PcValues, Ended, RowsComplete, BuiltFromRows, Asked

\* A cached answer is returned: the rows are not touched.
LEMMA CacheHitKeeps ==
  ASSUME IInv, NEW r \in Requests, CacheHit(r)
  PROVE  IInv'
<1>1. /\ pc[r] = "idle" /\ UNCHANGED <<key, row, todo, sets, clock>>
      /\ Return(r, store'[key[r]].val, "cached")
  BY DEF CacheHit, request
<1>2. StoreExplained' /\ HitsAreFresh' /\ IsStore(store')
  BY CacheConsulted
<1>3. /\ ended'[r] = clock /\ pc'[r] = "cached"
      /\ \A q \in Requests \ {r} : /\ answer'[q] = answer[q]
                                  /\ ended'[q] = ended[q] /\ pc'[q] = pc[q]
      /\ answer' = [q \in Requests |-> answer'[q]]
      /\ ended' \in [Requests -> 0..MaxTime]
      /\ pc' \in [Requests -> PcValues]
  BY <1>1, Typed, ReturnOf DEF PcValues
<1>4. RowsInPlace'
  BY <1>1, Typed DEF RowsInPlace
<1>5. todo[r] = {} /\ ended'[r] <= clock
  BY <1>1, <1>3, Typed
<1>6. QED
  BY <1>1, <1>2, <1>3, <1>4, <1>5, Typed, OnlyOf

\* The answer is built from the rows there are by then.
LEMMA FinishKeeps ==
  ASSUME IInv, NEW r \in Requests, ~Ended(r), key' = key, clock' = clock,
         Finish(r, [i \in Asked(key[r]) |-> row'[r][i]]),
         row' \in [Requests -> [Positions -> Row \cup {NoRow}]],
         \A q \in Requests \ {r} : row'[q] = row[q] /\ todo'[q] = todo[q],
         todo' \in [Requests -> SUBSET Positions], todo'[r] = {},
         \A i \in Positions : row'[r][i] # NoRow => i \in Asked(key[r]),
         \A i \in Asked(key[r]) : row'[r][i] # NoRow,
         RowsInPlace'
  PROVE  IInv'
<1> DEFINE rows == [i \in Asked(key[r]) |-> row'[r][i]]
           out  == Response(key[r], rows)
<1>1. Return(r, out, "built") /\ Finish(r, rows)
  BY DEF Finish
<1>2. StoreExplained' /\ HitsAreFresh' /\ IsStore(store') /\ sets' \in Nat
  BY <1>1, CacheFilled
<1>3. out = Response(key[r], [i \in Asked(key[r]) |-> row'[r][i]])
  OBVIOUS
<1> HIDE DEF rows, out
<1>4. /\ answer'[r] = out /\ ended'[r] = clock /\ pc'[r] = "built"
      /\ \A q \in Requests \ {r} : /\ answer'[q] = answer[q]
                                  /\ ended'[q] = ended[q] /\ pc'[q] = pc[q]
      /\ answer' = [q \in Requests |-> answer'[q]]
      /\ ended' \in [Requests -> 0..MaxTime]
      /\ pc' \in [Requests -> PcValues]
  BY <1>1, Typed, ReturnOf DEF PcValues
<1>5. ended'[r] <= clock
  BY <1>4, Typed
<1>6. QED
  BY <1>2, <1>3, <1>4, <1>5, OnlyOf

\* The cache has no answer: the providers are asked.
LEMMA CacheMissKeeps ==
  ASSUME IInv, NEW r \in Requests, CacheMiss(r)
  PROVE  IInv'
<1>1. /\ pc[r] = "idle" /\ UNCHANGED <<key, row, todo, answer, ended, sets, clock>>
      /\ pc' = [pc EXCEPT ![r] = "calling"]
      /\ store' = store \/ store' = Purge(store, clock)
  BY DEF CacheMiss, request
<1>2. /\ pc'[r] = "calling" /\ pc' \in [Requests -> PcValues]
      /\ \A q \in Requests \ {r} : pc'[q] = pc[q]
  BY <1>1, Typed DEF PcValues
<1>3. StoreExplained' /\ HitsAreFresh' /\ IsStore(store')
  BY <1>1, <1>2, CacheUntouched
<1>4. RowsInPlace'
  BY <1>1, Typed DEF RowsInPlace
<1>5. QED
  BY <1>1, <1>2, <1>3, <1>4, Typed, OnlyOf

\* There is nobody to ask: the answer is built from no rows.
LEMMA NobodyToAskKeeps ==
  ASSUME IInv, NEW r \in Requests, NobodyToAsk(r)
  PROVE  IInv'
<1>1. /\ pc[r] = "idle" /\ UNCHANGED <<key, row, todo, clock>>
      /\ Asked(key[r]) = {} /\ Finish(r, Rows(r))
  BY DEF NobodyToAsk, request
<1>2. Finish(r, [i \in Asked(key[r]) |-> row'[r][i]])
  BY <1>1 DEF Rows
<1>3. RowsInPlace'
  BY <1>1, Typed DEF RowsInPlace
<1>4. ~Ended(r) /\ todo[r] = {}
  BY <1>1, Typed DEF Ended
<1>5. QED
  BY <1>1, <1>2, <1>3, <1>4, Typed, FinishKeeps

\* A provider call ends: its row takes its place.
LEMMA ProviderEndsKeeps ==
  ASSUME IInv, NEW r \in Requests, NEW i \in Positions, ProviderEnds(r, i)
  PROVE  IInv'
<1>1. /\ pc[r] = "calling" /\ i \in Asked(key[r])
      /\ UNCHANGED <<key, pc, todo, answer, ended, store, sets, clock>>
  BY DEF ProviderEnds
<1>2. PICK x \in Results(key[r][1], ProviderAt(key[r], i)) :
        row' = [row EXCEPT ![r][i] = x]
  BY DEF ProviderEnds
<1>3. key[r][1] \in {"isrc", "upc", "text"} /\ key[r] \in Keys
  BY Typed, LookupAssumption
<1>4. x \in Row /\ x # NoRow /\ x.provider = ProviderAt(key[r], i) /\ ~(x.found /\ x.error)
  BY <1>3, ResultsAreRows
<1>5. TypeOK /\ RowsInPlace
  BY Typed
<1>6. /\ row' \in [Requests -> [Positions -> Row \cup {NoRow}]]
      /\ \A j \in Positions \ {i} : row'[r][j] = row[r][j]
      /\ \A q \in Requests \ {r} : row'[q] = row[q]
      /\ RowsInPlace'
  BY <1>1, <1>2, <1>4, <1>5, RowReplaced
<1>7. \A j \in Positions : row'[r][j] # NoRow => j \in Asked(key[r])
  BY <1>1, <1>6, Typed
<1>8. StoreExplained' /\ HitsAreFresh' /\ IsStore(store')
  BY <1>1, CacheUntouched
<1>9. QED
  BY <1>1, <1>6, <1>7, <1>8, Typed, OnlyOf

\* All calls have ended: free-text searches are due, or the answer is.
LEMMA GatheredKeeps ==
  ASSUME IInv, NEW r \in Requests, Gathered(r)
  PROVE  IInv'
<1>1. /\ pc[r] = "calling" /\ UNCHANGED <<key, row, clock>>
      /\ \A i \in Asked(key[r]) : row[r][i] # NoRow
  BY DEF Gathered
<1>2. RowsInPlace'
  BY <1>1, Typed DEF RowsInPlace
<1>3. CASE /\ Refinable(Rows(r)) # {}
           /\ todo' = [todo EXCEPT ![r] = Refinable(Rows(r))]
           /\ pc' = [pc EXCEPT ![r] = "refining"]
           /\ UNCHANGED <<answer, ended, store, sets>>
  <2>1. Refinable(Rows(r)) \subseteq Asked(key[r])
    BY DEF Refinable, Rows
  <2>2. /\ pc'[r] = "refining" /\ pc' \in [Requests -> PcValues]
        /\ \A q \in Requests \ {r} : pc'[q] = pc[q]
    BY <1>3, Typed DEF PcValues
  <2>3. /\ todo'[r] # {} /\ todo'[r] \subseteq Asked(key[r])
        /\ todo' \in [Requests -> SUBSET Positions]
        /\ \A q \in Requests \ {r} : todo'[q] = todo[q]
    BY <1>3, <2>1, Typed
  <2>4. StoreExplained' /\ HitsAreFresh' /\ IsStore(store')
    BY <1>1, <1>3, <2>2, CacheUntouched
  <2>5. QED
    BY <1>1, <1>2, <1>3, <2>2, <2>3, <2>4, Typed, OnlyOf
<1>4. CASE Finish(r, Rows(r)) /\ UNCHANGED todo
  <2>1. Finish(r, [i \in Asked(key[r]) |-> row'[r][i]])
    BY <1>1, <1>4 DEF Rows
  <2>2. ~Ended(r) /\ todo[r] = {}
    BY <1>1, Typed DEF Ended
  <2>3. QED
    BY <1>1, <1>2, <1>4, <2>1, <2>2, Typed, FinishKeeps
<1>5. QED
  BY <1>3, <1>4 DEF Gathered

\* A free-text search ends: its row is replaced or kept, and after the last search
\* comes the answer.
LEMMA RefineEndsKeeps ==
  ASSUME IInv, NEW r \in Requests, RefineEnds(r)
  PROVE  IInv'
<1>1. pc[r] = "refining" /\ UNCHANGED <<key, clock>>
  BY DEF RefineEnds
<1>2. PICK i \in todo[r] :
        /\ todo' = [todo EXCEPT ![r] = @ \ {i}]
        /\ \E x \in Results("text", ProviderAt(key[r], i)) :
             row' = [row EXCEPT ![r][i] = Merge(@, x)]
  BY DEF RefineEnds
<1>3. PICK x \in Results("text", ProviderAt(key[r], i)) :
        row' = [row EXCEPT ![r][i] = Merge(@, x)]
  BY <1>2
<1>4. i \in Positions /\ i \in Asked(key[r]) /\ key[r] \in Keys
  BY Typed
<1>5. x \in Row /\ x # NoRow /\ x.provider = ProviderAt(key[r], i) /\ ~(x.found /\ x.error)
  BY <1>4, ResultsAreRows
<1> DEFINE y == Merge(row[r][i], x)
<1>6. row' = [row EXCEPT ![r][i] = y]
  BY <1>3, <1>4, Typed
<1>7. y = row[r][i] \/ y = x
  BY DEF Merge
<1>8. y # NoRow
  BY <1>1, <1>4, <1>5, <1>7, Typed
<1> HIDE DEF y
<1>9. \/ y = row[r][i]
      \/ y \in Row /\ y.provider = ProviderAt(key[r], i) /\ ~(y.found /\ y.error)
  BY <1>5, <1>7
<1>10. TypeOK /\ RowsInPlace
  BY Typed
<1>11. /\ row' \in [Requests -> [Positions -> Row \cup {NoRow}]]
       /\ row'[r][i] = y
       /\ \A j \in Positions \ {i} : row'[r][j] = row[r][j]
       /\ \A q \in Requests \ {r} : row'[q] = row[q]
       /\ RowsInPlace'
  BY <1>1, <1>4, <1>6, <1>9, <1>10, RowReplaced
<1>12. /\ \A j \in Positions : row'[r][j] # NoRow => j \in Asked(key[r])
       /\ \A j \in Asked(key[r]) : row'[r][j] # NoRow
  BY <1>1, <1>4, <1>8, <1>11, Typed
<1>13. /\ todo' \in [Requests -> SUBSET Positions]
       /\ todo'[r] \subseteq Asked(key[r])
       /\ \A q \in Requests \ {r} : todo'[q] = todo[q]
  BY <1>2, Typed
<1>14. CASE todo'[r] # {} /\ UNCHANGED <<pc, answer, ended, store, sets>>
  <2>1. StoreExplained' /\ HitsAreFresh' /\ IsStore(store')
    BY <1>1, <1>14, CacheUntouched
  <2>2. QED
    BY <1>1, <1>11, <1>12, <1>13, <1>14, <2>1, Typed, OnlyOf
<1>15. CASE todo'[r] = {} /\ Finish(r, [j \in Asked(key[r]) |-> row'[r][j]])
  <2>1. ~Ended(r)
    BY <1>1 DEF Ended
  <2>2. QED
    BY <1>1, <1>11, <1>12, <1>13, <1>15, <2>1, FinishKeeps
<1>16. QED
  BY <1>14, <1>15 DEF RefineEnds

\* Time passes: nothing else changes.
LEMMA TickKeeps ==
  ASSUME IInv, Tick
  PROVE  IInv'
<1>1. /\ clock' \in 0..MaxTime
      /\ UNCHANGED <<key, pc, row, todo, answer, ended, store, sets>>
      /\ clock' >= clock
  BY LookupAssumption, SMT DEF IInv, TypeOK, Tick
<1>2. TypeOK'
  BY <1>1 DEF IInv, TypeOK, Ended
<1>3. RowsInPlace' /\ RowsComplete' /\ HitsAreFresh'
  BY <1>1 DEF IInv, RowsInPlace, RowsComplete, HitsAreFresh
<1>4. StoreExplained'
  BY <1>1 DEF IInv, StoreExplained
<1>5. ASSUME NEW r \in Requests PROVE ended'[r] <= clock'
  <2>1. ended[r] <= clock /\ ended[r] \in Int /\ clock \in Int /\ clock' \in Int
    BY <1>1, LookupAssumption DEF IInv, TypeOK, BuiltFromRows
  <2>2. QED
    BY <1>1, <2>1, SMT
<1>6. BuiltFromRows'
  <2>1. \A r \in Requests : pc'[r] = "built" => answer'[r] = Response(key'[r], Rows(r)')
    BY <1>1 DEF IInv, BuiltFromRows, Rows
  <2>2. QED
    BY <1>5, <2>1 DEF BuiltFromRows
<1>7. QED
  BY <1>2, <1>3, <1>4, <1>6 DEF IInv

LEMMA InitIInv == Init => IInv
<1> SUFFICES ASSUME Init PROVE IInv
  OBVIOUS
<1>1. /\ \A r \in Requests : /\ pc[r] = "idle" /\ todo[r] = {} /\ ended[r] = 0
                             /\ answer[r] = NoAnswer
                             /\ \A i \in Positions : row[r][i] = NoRow
      /\ clock = 0 /\ sets = 0 /\ key \in [Requests -> Keys]
  BY DEF Init
<1>2. DOMAIN store = {} /\ IsStore(store)
  BY DEF Init, Empty, IsStore
<1>3. TypeOK
  <2>1. answer = [r \in Requests |-> answer[r]]
    BY DEF Init
  <2>2. 0 \in 0..MaxTime
    BY LookupAssumption
  <2>3. QED
    BY <1>1, <1>2, <2>1, <2>2 DEF Init, TypeOK, Ended
<1>4. RowsInPlace /\ RowsComplete /\ HitsAreFresh
  BY <1>1 DEF RowsInPlace, RowsComplete, HitsAreFresh
<1>5. BuiltFromRows
  BY <1>1 DEF BuiltFromRows
<1>6. StoreExplained
  BY <1>2 DEF StoreExplained
<1>7. QED
  BY <1>3, <1>4, <1>5, <1>6 DEF IInv

LEMMA NextIInv == IInv /\ [Next]_vars => IInv'
<1> SUFFICES ASSUME IInv, [Next]_vars PROVE IInv'
  OBVIOUS
<1>1. ASSUME NEW r \in Requests, CacheHit(r) PROVE IInv'
  BY <1>1, CacheHitKeeps
<1>2. ASSUME NEW r \in Requests, CacheMiss(r) PROVE IInv'
  BY <1>2, CacheMissKeeps
<1>3. ASSUME NEW r \in Requests, NobodyToAsk(r) PROVE IInv'
  BY <1>3, NobodyToAskKeeps
<1>4. ASSUME NEW r \in Requests, NEW i \in Positions, ProviderEnds(r, i) PROVE IInv'
  BY <1>4, ProviderEndsKeeps
<1>5. ASSUME NEW r \in Requests, Gathered(r) PROVE IInv'
  BY <1>5, GatheredKeeps
<1>6. ASSUME NEW r \in Requests, RefineEnds(r) PROVE IInv'
  BY <1>6, RefineEndsKeeps
<1>7. CASE Tick
  BY <1>7, TickKeeps
<1>8. CASE UNCHANGED vars
  <2>1. UNCHANGED <<key, pc, row, todo, answer, ended, store, sets, clock>>
    BY <1>8 DEF vars
  <2>2. TypeOK'
    BY <2>1 DEF IInv, TypeOK, Ended
  <2>3. RowsInPlace' /\ RowsComplete' /\ HitsAreFresh'
    BY <2>1 DEF IInv, RowsInPlace, RowsComplete, HitsAreFresh
  <2>4. BuiltFromRows'
    BY <2>1 DEF IInv, BuiltFromRows, Rows
  <2>5. StoreExplained'
    BY <2>1 DEF IInv, StoreExplained
  <2>6. QED
    BY <2>2, <2>3, <2>4, <2>5 DEF IInv
<1>9. QED
  BY <1>1, <1>2, <1>3, <1>4, <1>5, <1>6, <1>7, <1>8 DEF Next, Proceed, Served

-----------------------------------------------------------------------------
(***************************************************************************)
(* Part 4.                                                                 *)
(***************************************************************************)
\* The parts of the invariant hold together, whatever the lookups do.
THEOREM InductiveInvariant == Spec => []IInv
BY InitIInv, NextIInv, PTL DEF Spec

\* The state of the lookups and of their cache keeps its types.
THEOREM TypeCorrect == Spec => []TypeOK
<1>1. IInv => TypeOK
  BY DEF IInv
<1>2. QED
  BY <1>1, InductiveInvariant, PTL

\* Every row is that of the provider of its position, in whatever order the calls
\* and the free-text searches end.
THEOREM RowsStay == Spec => []RowsInPlace
<1>1. IInv => RowsInPlace
  BY DEF IInv
<1>2. QED
  BY <1>1, InductiveInvariant, PTL

\* A cached answer was built for the very same key, less than TTL ago.
THEOREM HitsFresh == Spec => []HitsAreFresh
<1>1. IInv => HitsAreFresh
  BY DEF IInv
<1>2. QED
  BY <1>1, InductiveInvariant, PTL

\* Of overlapping lookups of one key, the entry is that of the last to finish.
THEOREM LastCached == Spec => []LastToFinishIsCached
<1>1. IInv => LastToFinishIsCached
  <2> SUFFICES ASSUME IInv, NEW k \in Live(store, clock), NEW r \in Requests,
                      pc[r] = "built", key[r] = k
               PROVE  ended[r] <= store[k].exp - TTL
    BY DEF LastToFinishIsCached
  <2>1. k \in DOMAIN store /\ ended[r] + TTL <= store[k].exp
    BY DEF IInv, StoreExplained, Live
  <2>2. ended[r] \in Nat /\ store[k].exp \in Nat /\ TTL \in Nat
    BY <2>1, TtlAssumption, LookupAssumption DEF IInv, TypeOK, IsStore
  <2>3. QED
    BY <2>1, <2>2, SMT
<1>2. QED
  BY <1>1, InductiveInvariant, PTL

\* An answer is the response to rows of some lookup, its own or the one that cached it.
LEMMA EndedAnswer ==
  ASSUME IInv, NEW r \in Requests, Ended(r)
  PROVE  \E k, rows : DOMAIN rows \subseteq Positions /\ answer[r] = Response(k, rows)
<1>1. \A q \in Requests : pc[q] = "built" =>
        \E k, rows : DOMAIN rows \subseteq Positions /\ answer[q] = Response(k, rows)
  <2> SUFFICES ASSUME NEW q \in Requests, pc[q] = "built"
               PROVE  \E k, rows : DOMAIN rows \subseteq Positions
                                   /\ answer[q] = Response(k, rows)
    OBVIOUS
  <2>1. answer[q] = Response(key[q], Rows(q))
    BY DEF IInv, BuiltFromRows
  <2>2. DOMAIN Rows(q) \subseteq Positions
    BY DEF Rows, Asked
  <2>3. QED
    BY <2>1, <2>2
<1>2. CASE pc[r] = "cached"
  <2>1. PICK q \in Requests : pc[q] = "built" /\ answer[q] = answer[r]
    BY <1>2 DEF IInv, HitsAreFresh
  <2>2. QED
    BY <1>1, <2>1
<1>3. QED
  BY <1>1, <1>2 DEF Ended

\* "high" means that two providers confirm one title and that nothing conflicts, in
\* answers from the cache too.
THEOREM HighEarned == Spec => []HighIsEarned
<1>1. IInv => HighIsEarned
  <2> SUFFICES ASSUME IInv, NEW r \in Requests, Ended(r),
                      answer[r].summary.confidence = "high"
               PROVE  TwoConfirm(Answers(r)) /\ ~Conflict(Answers(r))
    BY DEF HighIsEarned
  <2>1. PICK k, rows : DOMAIN rows \subseteq Positions /\ answer[r] = Response(k, rows)
    BY EndedAnswer
  <2>2. TwoConfirm(answer[r].providers) /\ ~Conflict(answer[r].providers)
    BY <2>1, ResponseMeans
  <2>3. QED
    BY <2>2 DEF Answers
<1>2. QED
  BY <1>1, InductiveInvariant, PTL

\* No answer passes over a conflict of its rows in silence.
THEOREM ConflictNoted == Spec => []ConflictIsNoted
<1>1. IInv => ConflictIsNoted
  <2> SUFFICES ASSUME IInv, NEW r \in Requests, Ended(r), Conflict(Answers(r))
               PROVE  answer[r].summary.note \in {"partial", "differs"}
    BY DEF ConflictIsNoted
  <2>1. PICK k, rows : DOMAIN rows \subseteq Positions /\ answer[r] = Response(k, rows)
    BY EndedAnswer
  <2>2. Conflict(answer[r].providers)
    BY DEF Answers
  <2>3. QED
    BY <2>1, <2>2, ResponseMeans
<1>2. QED
  BY <1>1, InductiveInvariant, PTL

\* An answer with nothing in it names exactly the providers that failed.
THEOREM FailuresExplained == Spec => []FailuresExplainNothingFound
<1>1. IInv => FailuresExplainNothingFound
  <2> SUFFICES ASSUME IInv, NEW r \in Requests, pc[r] = "built",
                      answer[r].summary.found_in = 0
               PROVE  answer[r].summary.failed =
                        {row[r][i].provider : i \in {j \in Asked(key[r]) : row[r][j].error}}
    BY DEF FailuresExplainNothingFound
  <2> DEFINE rows == Rows(r)
  <2>1. answer[r] = Response(key[r], rows)
    BY DEF IInv, BuiltFromRows
  <2>2. DOMAIN rows = Asked(key[r]) /\ \A i \in Asked(key[r]) : rows[i] = row[r][i]
    BY DEF Rows
  <2>3. Asked(key[r]) \subseteq Positions
    BY DEF Asked
  <2> HIDE DEF rows
  <2>4. answer[r].summary.failed =
          {rows[i].provider : i \in {j \in DOMAIN rows : rows[j].error}}
    BY <2>1, <2>2, <2>3, NothingFoundMeans
  <2>5. QED
    BY <2>2, <2>4
<1>2. QED
  BY <1>1, InductiveInvariant, PTL

\* No step of any lookup changes a row that found something.
LEMMA FoundRowStays ==
  ASSUME IInv, [Next]_vars, NEW r \in Requests, NEW i \in Positions,
         row[r][i] # NoRow, row[r][i].found
  PROVE  row'[r][i] = row[r][i]
<1>1. row \in [Requests -> [Positions -> Row \cup {NoRow}]]
  BY DEF IInv, TypeOK
<1>2. ASSUME NEW q \in Requests, NEW j \in Positions, ProviderEnds(q, j)
      PROVE  row'[r][i] = row[r][i]
  <2>1. q # r \/ j # i
    BY <1>2 DEF ProviderEnds
  <2>2. \E x : row' = [row EXCEPT ![q][j] = x]
    BY <1>2 DEF ProviderEnds
  <2>3. QED
    BY <1>1, <2>1, <2>2
<1>3. ASSUME NEW q \in Requests, RefineEnds(q)
      PROVE  row'[r][i] = row[r][i]
  <2>1. PICK j \in todo[q] : \E x : row' = [row EXCEPT ![q][j] = Merge(@, x)]
    BY <1>3 DEF RefineEnds
  <2>2. PICK x : row' = [row EXCEPT ![q][j] = Merge(@, x)]
    BY <2>1
  <2>3. j \in Positions
    BY <2>1 DEF IInv, TypeOK
  <2>4. CASE q = r /\ j = i
    <3>1. row'[r][i] = Merge(row[r][i], x)
      BY <1>1, <2>2, <2>4
    <3>2. QED
      BY <3>1 DEF Merge
  <2>5. CASE q # r \/ j # i
    BY <1>1, <2>2, <2>3, <2>5
  <2>6. QED
    BY <2>4, <2>5
<1>4. ASSUME NEW q \in Requests,
             CacheHit(q) \/ CacheMiss(q) \/ NobodyToAsk(q) \/ Gathered(q)
      PROVE  row' = row
  BY <1>4 DEF CacheHit, CacheMiss, NobodyToAsk, Gathered, request
<1>5. Tick \/ UNCHANGED vars => row' = row
  BY DEF Tick, vars
<1>6. QED
  BY <1>2, <1>3, <1>4, <1>5 DEF Next, Proceed, Served

\* What a provider found stays as it was found, and is in the answer that is built.
THEOREM FoundStays == Spec => FoundNeverLost
<1>1. IInv /\ IInv' /\ [Next]_vars =>
        [\A r \in Requests, i \in Positions :
           row[r][i] # NoRow /\ row[r][i].found =>
             /\ row'[r][i] = row[r][i]
             /\ pc'[r] = "built" => i \in DOMAIN Answers(r)'
                                    /\ Answers(r)'[i] = row[r][i]]_vars
  <2> SUFFICES ASSUME IInv, IInv', [Next]_vars, NEW r \in Requests, NEW i \in Positions,
                      row[r][i] # NoRow, row[r][i].found
               PROVE  /\ row'[r][i] = row[r][i]
                      /\ pc'[r] = "built" => i \in DOMAIN Answers(r)'
                                             /\ Answers(r)'[i] = row[r][i]
    OBVIOUS
  <2>1. row'[r][i] = row[r][i]
    BY FoundRowStays
  <2>2. ASSUME pc'[r] = "built"
        PROVE  i \in DOMAIN Answers(r)' /\ Answers(r)'[i] = row[r][i]
    <3> DEFINE rows == [j \in Asked(key'[r]) |-> row'[r][j]]
    <3>1. answer'[r] = Response(key'[r], rows)
      BY <2>2 DEF IInv, BuiltFromRows, Rows
    <3>2. i \in Asked(key'[r])
      BY <2>1 DEF IInv, RowsComplete
    <3>3. i \in DOMAIN rows /\ rows[i] = row[r][i] /\ rows[i].found
      BY <2>1, <3>2
    <3> HIDE DEF rows
    <3>4. answer'[r].providers = Shown(rows)
      BY <3>1 DEF Response
    <3>5. i \in DOMAIN Shown(rows) /\ Shown(rows)[i] = rows[i]
      BY <3>3 DEF Shown, OnlyError
    <3>6. QED
      BY <3>3, <3>4, <3>5 DEF Answers
  <2>3. QED
    BY <2>1, <2>2
<1>2. QED
  BY <1>1, InductiveInvariant, PTL DEF Spec, FoundNeverLost

-----------------------------------------------------------------------------
(***************************************************************************)
(* Part 5.                                                                 *)
(* Why every lookup is answered, as far as safety tells: each step of a    *)
(* lookup brings it nearer to its answer, and no step of another, and no   *)
(* tick of the clock, takes it back.                                       *)
(***************************************************************************)
Missing(r) == {i \in Asked(key[r]) : row[r][i] = NoRow}

\* The steps r has before it, at most: the calls that are not back, the end of the
\* gathering, the searches by free text.
Left(r) == CASE pc[r] = "idle"     -> 11
             [] pc[r] = "calling"  -> 6 + Cardinality(Missing(r))
             [] pc[r] = "refining" -> Cardinality(todo[r])
             [] OTHER              -> 0

\* Sets of positions have at most four elements.
LEMMA FourAtMost ==
  ASSUME NEW S, S \subseteq Positions
  PROVE  IsFiniteSet(S) /\ Cardinality(S) \in 0..4
<1>1. IsFiniteSet(Positions) /\ Cardinality(Positions) = 4
  <2>1. IsFiniteSet(1..4) /\ Cardinality(1..4) = IF 1 > 4 THEN 0 ELSE 4 - 1 + 1
    BY FS_Interval, 1 \in Int, 4 \in Int
  <2> QED BY <2>1 DEF Positions
<1>2. IsFiniteSet(S) /\ Cardinality(S) <= Cardinality(Positions)
  BY <1>1, FS_Subset
<1>3. Cardinality(S) \in Nat
  BY <1>2, FS_CardinalityType
<1> QED BY <1>1, <1>2, <1>3, SMT

\* One position less.
LEMMA OneLess ==
  ASSUME NEW S, S \subseteq Positions, NEW i \in S
  PROVE  Cardinality(S \ {i}) = Cardinality(S) - 1
BY FourAtMost, FS_RemoveElement

\* What is left of a lookup is a number, and no state but its end has nothing left.
LEMMA LeftNat ==
  ASSUME IInv, NEW r \in Requests
  PROVE  Left(r) \in 0..11 /\ (Left(r) = 0 <=> Ended(r))
<1>1. Missing(r) \subseteq Positions /\ todo[r] \subseteq Positions
  BY DEF Missing, Asked, IInv, TypeOK
<1>2. Cardinality(Missing(r)) \in 0..4 /\ Cardinality(todo[r]) \in 0..4
  BY <1>1, FourAtMost
<1>3. pc[r] = "refining" => Cardinality(todo[r]) # 0
  <2>1. pc[r] = "refining" => todo[r] # {}
    BY DEF IInv, TypeOK
  <2> QED BY <1>1, <2>1, TwoOrMore
<1>4. pc[r] \in {"idle", "calling", "refining", "built", "cached"}
  BY DEF IInv, TypeOK
<1> QED BY <1>2, <1>3, <1>4, SMT DEF Left, Ended

\* Each step a lookup takes leaves less of it; no other step touches it.
RunsDown ==
  [][\A r \in Requests : ~Ended(r) =>
       Left(r)' < Left(r) \/ UNCHANGED <<pc[r], row[r], todo[r]>>]_vars

\* Lookups do not wait for each other, nor go round in circles: whatever providers
\* return and the cache holds, a lookup takes at most eleven steps to its answer
\* (lookup_service.py:44-73, 223-280).
THEOREM LookupsRunDown == Spec => RunsDown
<1> DEFINE Less(r) == Left(r)' < Left(r) \/ UNCHANGED <<pc[r], row[r], todo[r]>>
           Else(q) == \A r \in Requests \ {q} : UNCHANGED <<pc[r], row[r], todo[r]>>
<1>1. IInv /\ IInv' /\ [Next]_vars => [\A r \in Requests : ~Ended(r) => Less(r)]_vars
  <2> SUFFICES ASSUME IInv, IInv', Next
               PROVE  \A r \in Requests : ~Ended(r) => Less(r)
    OBVIOUS
  <2>0. /\ row \in [Requests -> [Positions -> Row \cup {NoRow}]]
        /\ todo \in [Requests -> SUBSET Positions]
        /\ DOMAIN pc = Requests
        /\ \A r \in Requests : Left(r) \in 0..11 /\ (Left(r) = 0 <=> Ended(r))
    BY LeftNat DEF IInv, TypeOK
  <2>1. ASSUME NEW q \in Requests, pc[q] = "idle", pc'[q] # "idle"
        PROVE  Left(q)' < Left(q)
    <3>1. Left(q) = 11
      BY <2>1 DEF Left
    <3>2. Left(q)' \in 0..10
      <4>1. Missing(q)' \subseteq Positions /\ todo'[q] \subseteq Positions
        BY DEF Missing, Asked, IInv, TypeOK
      <4>2. Cardinality(Missing(q)') \in 0..4 /\ Cardinality(todo'[q]) \in 0..4
        BY <4>1, FourAtMost
      <4>3. Left(q)' \in {6 + Cardinality(Missing(q)'), Cardinality(todo'[q]), 0}
        BY <2>1 DEF Left
      <4> QED BY <4>2, <4>3, SMT
    <3> QED BY <3>1, <3>2, SMT
  <2>2. ASSUME NEW q \in Requests, NEW how \in {"built", "cached"}, NEW out,
               Return(q, out, how), ~Ended(q)
        PROVE  Left(q)' < Left(q) /\ \A r \in Requests \ {q} : pc'[r] = pc[r]
    <3>1. pc' = [pc EXCEPT ![q] = how]
      BY <2>2 DEF Return
    <3>2. Left(q)' = 0
      BY <2>0, <3>1 DEF Left
    <3>3. Left(q) \in 0..11 /\ Left(q) # 0
      BY <2>0, <2>2
    <3> QED BY <2>0, <3>1, <3>2, <3>3
  <2>3. ASSUME NEW q \in Requests, CacheHit(q) \/ CacheMiss(q) \/ NobodyToAsk(q)
        PROVE  Left(q)' < Left(q) /\ Else(q)
    <3>1. /\ pc[q] = "idle" /\ UNCHANGED <<row, todo>>
          /\ \E how \in {"calling", "built", "cached"} : pc' = [pc EXCEPT ![q] = how]
      BY <2>3 DEF CacheHit, CacheMiss, NobodyToAsk, Finish, Return, request
    <3> QED BY <2>0, <2>1, <3>1
  <2>4. ASSUME NEW q \in Requests, NEW i \in Positions, ProviderEnds(q, i)
        PROVE  Left(q)' < Left(q) /\ Else(q)
    <3>1. /\ pc[q] = "calling" /\ i \in Missing(q) /\ UNCHANGED <<key, pc, todo>>
          /\ \E x : row' = [row EXCEPT ![q][i] = x]
      BY <2>4 DEF ProviderEnds, Missing
    <3>2. row'[q][i] # NoRow
      <4>1. PICK x \in Results(key[q][1], ProviderAt(key[q], i)) :
              row' = [row EXCEPT ![q][i] = x]
        BY <2>4 DEF ProviderEnds
      <4>2. key[q] \in Keys /\ key[q][1] \in {"isrc", "upc", "text"}
        BY LookupAssumption DEF IInv, TypeOK
      <4>3. x # NoRow
        BY <4>1, <4>2, ResultsAreRows
      <4> QED BY <2>0, <4>1, <4>3
    <3>3. \A j \in Positions \ {i} : row'[q][j] = row[q][j]
      BY <2>0, <3>1
    <3>4. Missing(q)' = Missing(q) \ {i}
      BY <3>1, <3>2, <3>3 DEF Missing, Asked
    <3>5. Missing(q) \subseteq Positions
      BY DEF Missing, Asked
    <3>6. Cardinality(Missing(q)') = Cardinality(Missing(q)) - 1
      BY <3>1, <3>4, <3>5, OneLess
    <3>7. Left(q)' = 6 + Cardinality(Missing(q)') /\ Left(q) = 6 + Cardinality(Missing(q))
      BY <3>1 DEF Left
    <3>8. Left(q)' < Left(q)
      BY <2>0, <3>5, <3>6, <3>7, FourAtMost, SMT
    <3> QED BY <2>0, <3>1, <3>8
  <2>5. ASSUME NEW q \in Requests, Gathered(q)
        PROVE  Left(q)' < Left(q) /\ Else(q)
    <3>1. pc[q] = "calling" /\ row' = row
      BY <2>5 DEF Gathered
    <3>2. CASE /\ todo' = [todo EXCEPT ![q] = Refinable(Rows(q))]
               /\ pc' = [pc EXCEPT ![q] = "refining"]
      <4>1. Left(q) = 6 + Cardinality(Missing(q)) /\ Left(q)' = Cardinality(todo'[q])
        BY <2>0, <3>1, <3>2 DEF Left
      <4>2. Missing(q) \subseteq Positions /\ todo'[q] \subseteq Positions
        BY DEF Missing, Asked, IInv, TypeOK
      <4>3. Cardinality(Missing(q)) \in 0..4 /\ Cardinality(todo'[q]) \in 0..4
        BY <4>2, FourAtMost
      <4>4. Left(q)' < Left(q)
        BY <4>1, <4>3, SMT
      <4> QED BY <2>0, <3>1, <3>2, <4>4
    <3>3. CASE Finish(q, Rows(q)) /\ UNCHANGED todo
      <4>1. ~Ended(q)
        BY <3>1 DEF Ended
      <4> QED BY <2>2, <3>1, <3>3, <4>1 DEF Finish
    <3> QED BY <2>5, <3>2, <3>3 DEF Gathered
  <2>6. ASSUME NEW q \in Requests, RefineEnds(q)
        PROVE  Left(q)' < Left(q) /\ Else(q)
    <3>1. PICK i \in todo[q] : /\ todo' = [todo EXCEPT ![q] = @ \ {i}]
                               /\ \E x : row' = [row EXCEPT ![q][i] = x]
      <4>1. PICK i \in todo[q] :
              /\ todo' = [todo EXCEPT ![q] = @ \ {i}]
              /\ \E x \in Results("text", ProviderAt(key[q], i)) :
                   row' = [row EXCEPT ![q][i] = Merge(@, x)]
        BY <2>6 DEF RefineEnds
      <4>2. PICK x : row' = [row EXCEPT ![q][i] = Merge(@, x)]
        BY <4>1
      <4>3. row' = [row EXCEPT ![q][i] = Merge(row[q][i], x)]
        BY <4>2, <2>0
      <4> QED BY <4>1, <4>3
    <3>2. pc[q] = "refining" /\ todo[q] \subseteq Positions /\ todo'[q] = todo[q] \ {i}
      BY <2>0, <2>6, <3>1 DEF RefineEnds
    <3>3. \A r \in Requests \ {q} : UNCHANGED <<row[r], todo[r]>>
      BY <2>0, <3>1
    <3>4. CASE UNCHANGED pc
      <4>1. Left(q) = Cardinality(todo[q]) /\ Left(q)' = Cardinality(todo'[q])
        BY <3>2, <3>4 DEF Left
      <4>2. Cardinality(todo'[q]) = Cardinality(todo[q]) - 1
        BY <3>1, <3>2, OneLess
      <4>3. Left(q)' < Left(q)
        BY <2>0, <4>1, <4>2, SMT
      <4> QED BY <3>3, <3>4, <4>3
    <3>5. CASE Finish(q, [j \in Asked(key[q]) |-> row'[q][j]])
      <4>1. ~Ended(q)
        BY <3>2 DEF Ended
      <4> QED BY <2>2, <3>3, <3>5, <4>1 DEF Finish
    <3> QED BY <2>6, <3>4, <3>5 DEF RefineEnds
  <2>7. CASE Tick \/ Served
    BY <2>7 DEF Tick, Served, vars
  <2>8. ASSUME NEW q \in Requests, Left(q)' < Left(q) /\ Else(q),
               NEW r \in Requests, ~Ended(r)
        PROVE  Less(r)
    BY <2>8
  <2> HIDE DEF Less, Else
  <2> QED BY <2>3, <2>4, <2>5, <2>6, <2>7, <2>8 DEF Next, Proceed
<1> QED BY <1>1, InductiveInvariant, PTL DEF Spec, RunsDown

=============================================================================
