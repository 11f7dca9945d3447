----------------------- MODULE ProviderChains_proofs -----------------------
(***************************************************************************)
(* Theorems of ProviderChains.  None of the properties speaks of a call    *)
(* under way, so the invariant adds what is known there: until a call is   *)
(* over no search of it had a hit, and a call that fetches details has one *)
(* hit, its last search, with every text of it in the row.                 *)
(***************************************************************************)
EXTENDS ProviderChains, TLAPS

Ends == {"error", "miss", "raise", "hit"}

\* While searches go on: only errors and misses so far, and not all searches made.
Seeking ==
  pc = "searching" =>
    /\ Len(log) < Searches(ask)
    /\ \A i \in DOMAIN log : log[i] \in {"error", "miss"}

\* A call that has a hit: the row has all of it.
Holding ==
  pc \in {"detailing", "done"} /\ Entries("hit") # {} =>
    /\ entry.found = TRUE /\ entry.error = FALSE
    /\ \A t \in hit : entry.from[t] = "search"

\* What ended the searches.
Stopped ==
  pc \in {"detailing", "done"} =>
    /\ Len(log) > 0
    /\ \A i \in DOMAIN log : i # Len(log) => log[i] \in {"error", "miss"}
    /\ pc = "detailing" => log[Len(log)] = "hit" /\ HasDetails(ask) /\ IsHit(ask, hit)
    /\ log[Len(log)] \in {"error", "miss"} => Len(log) = Searches(ask) /\ entry.found = FALSE

Untitled ==
  pc \in {"detailing", "done"} /\ entry.found = TRUE /\ entry.from["title"] = "none" =>
    \/ ask.provider = "wikidata"
    \/ ask.provider = "discogs" /\ ask.kind = "upc"


IInv == TypeOK /\ Seeking /\ Holding /\ Stopped /\ Untitled

-----------------------------------------------------------------------------
\* A question is for one, two or four searches, and what makes a hit of it.
LEMMA Questions ==
  ASSUME NEW a \in Asks
  PROVE  /\ Searches(a) \in Nat /\ Searches(a) > 0
         /\ a.kind = "upc" /\ a.padded = TRUE /\ a.provider # "open_library" =>
              Searches(a) = IF a.provider = "discogs" THEN 4 ELSE 2
<1>1. a.provider \in {"deezer", "discogs", "open_library", "wikidata"} /\ a.padded \in BOOLEAN
      /\ (a.kind = "upc" => a.provider # "wikidata")
  BY DEF Asks
<1>2. Forms(a) \in {1, 2}
  BY DEF Forms
<1>3. Searches(a) = IF a.provider = "discogs" /\ a.kind = "upc" THEN 2 * Forms(a) ELSE Forms(a)
  BY DEF Searches
<1>4. ASSUME a.kind = "upc", a.padded = TRUE, a.provider # "open_library"
      PROVE  Forms(a) = 2
  <2>1. a.provider \in {"deezer", "discogs"} /\ a.padded
    BY <1>1, <1>4
  <2> QED BY <2>1, Zenon DEF Forms
<1>5. Searches(a) \in Nat /\ Searches(a) > 0
  BY <1>2, <1>3
<1>6. ASSUME a.kind = "upc", a.padded = TRUE, a.provider # "open_library"
      PROVE  Searches(a) = IF a.provider = "discogs" THEN 4 ELSE 2
  <2>1. Forms(a) = 2 /\ a.kind = "upc"
    BY <1>4, <1>6, Zenon
  <2> QED BY <2>1, <1>3
<1> QED BY <1>5, <1>6, Zenon

\* Rows as they are read from a search.
LEMMA RowsRead ==
  ASSUME NEW a \in Asks, NEW offer \in SUBSET Texts
  PROVE  /\ Read(a, offer) \in Row
         /\ Read(a, offer).error = FALSE
         /\ IsHit(a, offer) => Read(a, offer).found = TRUE
         /\ ~IsHit(a, offer) => Read(a, offer).found = FALSE
         /\ \A t \in Texts :
              Read(a, offer).from[t] = IF t \in offer THEN "search" ELSE "none"
<1>1. IsHit(a, offer) \in BOOLEAN
  BY DEF IsHit
<1>2. [t \in Texts |-> IF t \in offer THEN "search" ELSE "none"] \in [Texts -> Sources]
  BY DEF Sources
<1>3. Read(a, offer) \in Row
  BY <1>1, <1>2, Zenon DEF Read, Row
<1>4. Read(a, offer).found = IsHit(a, offer) /\ Read(a, offer).error = FALSE
  BY Zenon DEF Read
<1>5. \A t \in Texts :
        Read(a, offer).from[t] = IF t \in offer THEN "search" ELSE "none"
  BY DEF Read
<1>6. /\ IsHit(a, offer) => Read(a, offer).found = TRUE
      /\ ~IsHit(a, offer) => Read(a, offer).found = FALSE
  BY <1>1, <1>4, Zenon
<1> QED BY <1>3, <1>4, <1>5, <1>6

\* Rows without any text.
LEMMA RowsBare ==
  /\ Bare(TRUE) \in Row /\ Bare(TRUE).found = FALSE
  /\ Bare(FALSE) \in Row /\ Bare(FALSE).found = FALSE
BY DEF Bare, Row, Sources

\* The details take no text, and no hit, away.
LEMMA DetailsAdd ==
  ASSUME NEW a \in Asks, NEW x \in Row, NEW offer \in SUBSET Texts
  PROVE  LET y == Enriched(a, x, offer)
         IN  /\ y \in Row
             /\ y.error = x.error
             /\ \A t \in Texts : x.from[t] # "none" => y.from[t] = x.from[t]
             /\ a.provider # "discogs" => y.found = x.found
             /\ a.provider = "discogs" => (y.found <=> \E t \in Texts : y.from[t] # "none")
<1> DEFINE fills == IF a.provider = "discogs" THEN Texts
                    ELSE IF a.kind = "upc" THEN {"label"} ELSE {}
           from == [t \in Texts |-> IF t \in offer \cap fills /\ x.from[t] = "none"
                                    THEN "detail" ELSE x.from[t]]
           y == Enriched(a, x, offer)
<1>1. from \in [Texts -> Sources]
  BY DEF Row, Sources
<1>2. y = [x EXCEPT !.from  = from,
                    !.found = IF a.provider = "discogs" THEN \E t \in Texts : from[t] # "none"
                                                        ELSE @]
  BY DEF Enriched
<1>3. x = [found |-> x.found, error |-> x.error, from |-> x.from] /\ x.found \in BOOLEAN
  BY DEF Row
<1>4. /\ y.from = from /\ y.error = x.error
      /\ y.found = IF a.provider = "discogs" THEN \E t \in Texts : from[t] # "none" ELSE x.found
  BY <1>2, <1>3
<1>5. y = [found |-> y.found, error |-> y.error, from |-> y.from]
  BY <1>2, <1>3
<1>6. y \in Row
  BY <1>1, <1>3, <1>4, <1>5 DEF Row
<1>7. \A t \in Texts : x.from[t] # "none" => y.from[t] = x.from[t]
  BY <1>4
<1>8. a.provider = "discogs" => (y.found <=> \E t \in Texts : y.from[t] # "none")
  BY <1>4
<1>9. y.error = x.error /\ (a.provider # "discogs" => y.found = x.found)
  BY <1>4
<1> QED BY <1>6, <1>7, <1>8, <1>9, Zenon

-----------------------------------------------------------------------------
LEMMA InitHolds == Init => IInv
<1> SUFFICES ASSUME Init PROVE IInv
  OBVIOUS
<1>0. Searches(ask) \in Nat /\ Searches(ask) > 0
  BY Questions DEF Init
<1>2. entry \in Row
  BY RowsBare, Zenon DEF Init
<1>3. ask \in Asks /\ pc = "idle" /\ log = <<>> /\ hit = {}
  BY Zenon DEF Init
<1>1. TypeOK
  BY <1>0, <1>2, <1>3 DEF TypeOK
<1> QED BY <1>1, <1>3 DEF IInv, Seeking, Holding, Stopped, Untitled

\* What is known when a search ends.
LEMMA Underway ==
  ASSUME IInv, pc = "searching", ask' = ask
  PROVE  /\ TypeOK /\ log \in Seq(Ends) /\ Len(log) \in Nat /\ Len(log) < Searches(ask)
         /\ \A i \in DOMAIN log : log[i] \in {"error", "miss"}
         /\ ask \in Asks /\ Searches(ask) \in Nat /\ Searches(ask)' = Searches(ask)
<1>1. TypeOK /\ log \in Seq(Ends) /\ ask \in Asks
  BY DEF IInv, TypeOK, Ends
<1>2. Searches(ask) \in Nat
  BY <1>1, Questions
<1>3. Len(log) < Searches(ask) /\ \A i \in DOMAIN log : log[i] \in {"error", "miss"}
  BY DEF IInv, Seeking
<1>4. Searches(ask)' = Searches(ask)
  BY DEF Searches, Forms
<1> QED BY <1>1, <1>2, <1>3, <1>4

\* A search that ends without a hit.
LEMMA NoHitKeeps ==
  ASSUME IInv, pc = "searching", NEW how \in {"error", "miss"}, NEW x \in Row,
         x.found = FALSE, NoHit(how, x), ask' = ask
  PROVE  IInv'
<1> USE DEF NoHit
<1>1. /\ TypeOK /\ log \in Seq(Ends) /\ Len(log) \in Nat /\ Len(log) < Searches(ask)
      /\ \A i \in DOMAIN log : log[i] \in {"error", "miss"}
      /\ ask \in Asks /\ Searches(ask) \in Nat /\ Searches(ask)' = Searches(ask)
  BY Underway
<1>2. /\ log' \in Seq(Ends) /\ Len(log') = Len(log) + 1 /\ DOMAIN log' = 1..(Len(log) + 1)
      /\ \A i \in DOMAIN log' : log'[i] \in {"error", "miss"}
  BY <1>1 DEF Ends
<1>3. pc' \in {"searching", "done"} /\ (pc' = "done" <=> Len(log') = Searches(ask))
  OBVIOUS
<1>4. Entries("hit")' = {}
  BY <1>2 DEF Entries
<1>5. TypeOK'
  BY <1>1, <1>2, <1>3 DEF TypeOK, Ends
<1> QED BY <1>1, <1>2, <1>3, <1>4, <1>5 DEF IInv, Seeking, Holding, Stopped, Untitled

\* A search that raises.
LEMMA RaiseKeeps ==
  ASSUME IInv, pc = "searching", SearchRaises, ask' = ask
  PROVE  IInv'
<1>0. log' = Append(log, "raise") /\ pc' = "done" /\ hit' = hit
  BY Zenon DEF SearchRaises
<1>1. /\ TypeOK /\ log \in Seq(Ends) /\ Len(log) \in Nat /\ Len(log) < Searches(ask)
      /\ \A i \in DOMAIN log : log[i] \in {"error", "miss"}
      /\ ask \in Asks /\ Searches(ask) \in Nat /\ Searches(ask)' = Searches(ask)
  BY Underway
<1>2. /\ log' \in Seq(Ends) /\ Len(log') = Len(log) + 1 /\ DOMAIN log' = 1..(Len(log) + 1)
      /\ \A i \in DOMAIN log' : i # Len(log') => log'[i] \in {"error", "miss"}
      /\ log'[Len(log')] = "raise"
  BY <1>0, <1>1 DEF Ends
<1>3. Entries("hit")' = {}
  BY <1>2 DEF Entries
<1>4. /\ entry' \in Row /\ entry'.found = FALSE
  BY RowsBare, Zenon DEF SearchRaises
<1>5. TypeOK'
  BY <1>0, <1>1, <1>2, <1>4 DEF TypeOK, Ends
<1> QED BY <1>0, <1>1, <1>2, <1>3, <1>4, <1>5 DEF IInv, Seeking, Holding, Stopped, Untitled

\* A search that has a hit.
LEMMA HitKeeps ==
  ASSUME IInv, pc = "searching", ask' = ask, NEW offer \in Offered(ask), IsHit(ask, offer),
         log' = Append(log, "hit"), hit' = offer, entry' = Read(ask, offer),
         pc' \in IF HasDetails(ask) THEN {"detailing", "done"} ELSE {"done"}
  PROVE  IInv'
<1>1. /\ TypeOK /\ log \in Seq(Ends) /\ Len(log) \in Nat /\ Len(log) < Searches(ask)
      /\ \A i \in DOMAIN log : log[i] \in {"error", "miss"}
      /\ ask \in Asks /\ Searches(ask) \in Nat /\ Searches(ask)' = Searches(ask)
  BY Underway
<1>2. /\ log' \in Seq(Ends) /\ Len(log') = Len(log) + 1 /\ DOMAIN log' = 1..(Len(log) + 1)
      /\ \A i \in DOMAIN log' : i # Len(log') => log'[i] \in {"error", "miss"}
      /\ log'[Len(log')] = "hit"
  BY <1>1 DEF Ends
<1>3. offer \in SUBSET Texts
  BY DEF Offered, Texts
<1>4. /\ entry' \in Row /\ entry'.error = FALSE /\ entry'.found = TRUE
      /\ \A t \in Texts : entry'.from[t] = IF t \in offer THEN "search" ELSE "none"
  <2>1. /\ Read(ask, offer) \in Row /\ Read(ask, offer).error = FALSE
        /\ Read(ask, offer).found = TRUE
        /\ \A t \in Texts :
             Read(ask, offer).from[t] = IF t \in offer THEN "search" ELSE "none"
    <3>1. ask \in Asks
      BY <1>1
    <3>2. IsHit(ask, offer) => Read(ask, offer).found = TRUE
      BY <3>1, <1>3, RowsRead, Zenon
    <3>3. Read(ask, offer) \in Row /\ Read(ask, offer).error = FALSE
      BY <3>1, <1>3, RowsRead, Zenon
    <3>4. \A t \in Texts :
            Read(ask, offer).from[t] = IF t \in offer THEN "search" ELSE "none"
      BY <3>1, <1>3, RowsRead
    <3> QED BY <3>2, <3>3, <3>4, Zenon
  <2> QED BY <2>1, Zenon
<1>5. "title" \in Texts
  BY DEF Texts
<1>6. TypeOK'
  BY <1>1, <1>2, <1>3, <1>4 DEF TypeOK, Ends
<1>7. Seeking' /\ Stopped' /\ Holding'
  BY <1>1, <1>2, <1>3, <1>4 DEF Seeking, Stopped, Holding
<1>8. Untitled'
  BY <1>4, <1>5 DEF Untitled, IsHit
<1> QED BY <1>6, <1>7, <1>8 DEF IInv

\* The details come.
LEMMA DetailKeeps ==
  ASSUME IInv, DetailArrives
  PROVE  IInv'
<1> USE DEF DetailArrives
<1>1. PICK offer \in SUBSET Texts : entry' = Enriched(ask, entry, offer)
  OBVIOUS
<1>2. /\ TypeOK /\ ask \in Asks /\ entry \in Row /\ hit \in SUBSET Texts
      /\ Len(log) > 0 /\ log[Len(log)] = "hit" /\ log \in Seq(Ends) /\ IsHit(ask, hit)
      /\ \A i \in DOMAIN log : i # Len(log) => log[i] \in {"error", "miss"}
      /\ HasDetails(ask)
  BY DEF IInv, TypeOK, Stopped, Ends
<1>3. Entries("hit") # {}
  BY <1>2 DEF Entries
<1>4. /\ entry.found = TRUE /\ entry.error = FALSE
      /\ \A t \in hit : entry.from[t] = "search"
  BY <1>3 DEF IInv, Holding
<1>5. /\ entry' \in Row /\ entry'.error = FALSE
      /\ \A t \in Texts : entry.from[t] # "none" => entry'.from[t] = entry.from[t]
      /\ ask.provider # "discogs" => entry'.found = entry.found
      /\ ask.provider = "discogs" => (entry'.found <=> \E t \in Texts : entry'.from[t] # "none")
  BY <1>1, <1>2, <1>4, DetailsAdd
<1>6. \A t \in hit : entry'.from[t] = "search"
  BY <1>2, <1>4, <1>5
<1>7. entry'.found \in BOOLEAN
  BY <1>5 DEF Row
<1>8. entry'.found = TRUE
  <2>1. CASE ask.provider # "discogs"
    BY <2>1, <1>4, <1>5
  <2>2. CASE ask.provider = "discogs"
    <3>1. hit # {}
      BY <1>2, <2>2 DEF IsHit
    <3>2. \E t \in Texts : entry'.from[t] # "none"
      BY <3>1, <1>2, <1>6
    <3> QED BY <3>2, <2>2, <1>5, <1>7
  <2> QED BY <2>1, <2>2
<1>9. TypeOK'
  BY <1>2, <1>5 DEF TypeOK
<1>10. Seeking' /\ Stopped' /\ Holding'
  BY <1>2, <1>5, <1>6, <1>8 DEF Seeking, Stopped, Holding
<1>11. Untitled'
  <2> SUFFICES ASSUME entry'.from["title"] = "none"
               PROVE  \/ ask.provider = "wikidata"
                      \/ ask.provider = "discogs" /\ ask.kind = "upc"
    BY DEF Untitled
  <2>1. entry.from["title"] = "none"
    BY <1>5 DEF Texts
  <2> QED BY <2>1, <1>4 DEF IInv, Untitled
<1> QED BY <1>9, <1>10, <1>11 DEF IInv

LEMMA StepKeeps == IInv /\ [Next]_vars => IInv'
<1> SUFFICES ASSUME IInv, [Next]_vars PROVE IInv'
  OBVIOUS
<1>0. TypeOK /\ ask \in Asks
  BY DEF IInv, TypeOK
<1>1. CASE Call
  <2>1. ask' \in Asks /\ log' = <<>> /\ pc' = "searching" /\ hit' = {}
    BY <1>1, Zenon DEF Call
  <2>2. Searches(ask)' \in Nat /\ Searches(ask)' > 0
    <3>1. \A a \in Asks : Searches(a) \in Nat /\ Searches(a) > 0
      BY Questions
    <3>2. PICK a : a = ask'
      OBVIOUS
    <3>3. Searches(ask)' = Searches(a)
      BY <3>2 DEF Searches, Forms
    <3> QED BY <2>1, <3>1, <3>2, <3>3
  <2>4. entry' \in Row
    BY <1>1, RowsBare, Zenon DEF Call
  <2>3. TypeOK'
    BY <2>1, <2>2, <2>4 DEF TypeOK
  <2> QED BY <2>1, <2>2, <2>3 DEF IInv, Seeking, Holding, Stopped, Untitled
<1>2. CASE Search
  <2> USE <1>2 DEF Search
  <2>1. CASE SearchFails
    BY <2>1, NoHitKeeps, RowsBare DEF SearchFails
  <2>2. CASE SearchEmpty
    BY <2>2, NoHitKeeps, RowsBare DEF SearchEmpty
  <2>3. CASE SearchRaises
    BY <2>3, RaiseKeeps
  <2>4. CASE SearchHits
    <3>1. PICK offer \in Offered(ask) :
            \/ ~IsHit(ask, offer) /\ NoHit("miss", Read(ask, offer))
            \/ /\ IsHit(ask, offer)
               /\ log' = Append(log, "hit")
               /\ hit' = offer
               /\ entry' = Read(ask, offer)
               /\ pc' \in IF HasDetails(ask) THEN {"detailing", "done"} ELSE {"done"}
      BY <2>4 DEF SearchHits
    <3>2. offer \in SUBSET Texts
      BY DEF Offered, Texts
    <3>3. CASE ~IsHit(ask, offer)
      <4>1. Read(ask, offer) \in Row /\ Read(ask, offer).found = FALSE
        BY <1>0, <3>2, <3>3, RowsRead
      <4> QED BY <4>1, <3>1, <3>3, NoHitKeeps
    <3>4. CASE IsHit(ask, offer)
      BY <3>1, <3>4, HitKeeps
    <3> QED BY <3>3, <3>4
  <2> QED BY <2>1, <2>2, <2>3, <2>4
<1>3. CASE DetailFails
  <2>1. /\ pc = "detailing" /\ pc' = "done"
        /\ ask' = ask /\ log' = log /\ hit' = hit /\ entry' = entry
    BY <1>3 DEF DetailFails
  <2>2. Entries("hit")' = Entries("hit")
    BY <2>1 DEF Entries
  <2> QED BY <2>1, <2>2 DEF IInv, TypeOK, Seeking, Holding, Stopped, Untitled
<1>4. CASE DetailArrives
  BY <1>4, DetailKeeps
<1>5. CASE UNCHANGED vars
  <2>1. ask' = ask /\ pc' = pc /\ log' = log /\ hit' = hit /\ entry' = entry
    BY <1>5 DEF vars
  <2>2. Entries("hit")' = Entries("hit")
    BY <2>1 DEF Entries
  <2> QED BY <2>1, <2>2 DEF IInv, TypeOK, Seeking, Holding, Stopped, Untitled
<1> QED BY <1>1, <1>2, <1>3, <1>4, <1>5 DEF Next

LEMMA Invariant == Spec => []IInv
BY InitHolds, StepKeeps, PTL DEF Spec

-----------------------------------------------------------------------------
\* The variables of a call keep their types, and no call searches more often than
\* its code has forms (deezer.py:36-46, discogs.py:65-82).
THEOREM TypeCorrect == Spec => []TypeOK
<1>1. IInv => TypeOK
  BY DEF IInv
<1> QED BY <1>1, Invariant, PTL

\* No detail, whether it fails or comes, takes a hit or a text of it away
\* (deezer.py:48-110, discogs.py:89-138).
THEOREM HitsKept == Spec => []HitKept
<1>1. IInv => HitKept
  BY DEF IInv, Holding, HitKept
<1> QED BY <1>1, Invariant, PTL

\* A miss is reported only after every form was asked for, and nothing is asked
\* once there is a hit (deezer.py:36-46, discogs.py:65-82).
THEOREM MissesExhaustive == Spec => []MissIsExhaustive
<1>1. ASSUME IInv, pc = "done" PROVE MissIsExhaustive
  <2>1. /\ ask \in Asks /\ log \in Seq(Ends) /\ Len(log) > 0 /\ Len(log) \in DOMAIN log
        /\ \A i \in DOMAIN log : i # Len(log) => log[i] \in {"error", "miss"}
        /\ log[Len(log)] \in {"error", "miss"} => Len(log) = Searches(ask) /\ entry.found = FALSE
    BY <1>1 DEF IInv, TypeOK, Stopped, Ends
  <2>2. \A i \in Entries("hit") \cup Entries("raise") : i = Len(log)
    BY <2>1 DEF Entries
  <2>3. ASSUME Entries("hit") = {} /\ Entries("raise") = {}
        PROVE  log[Len(log)] \in {"error", "miss"}
    BY <2>1, <2>3 DEF Entries, Ends
  <2> QED BY <2>1, <2>2, <2>3, Questions DEF MissIsExhaustive
<1>2. IInv => MissIsExhaustive
  BY <1>1 DEF MissIsExhaustive
<1> QED BY <1>2, Invariant, PTL

\* Only a Discogs barcode and Wikidata count a row without a title as found
\* (deezer.py:206, discogs.py:196-199, open_library.py:89).
THEOREM UntitledKnown == Spec => []UntitledHits
<1>1. IInv => UntitledHits
  BY DEF IInv, Untitled, UntitledHits
<1> QED BY <1>1, Invariant, PTL

=============================================================================
