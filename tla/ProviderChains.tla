--------------------------- MODULE ProviderChains ---------------------------
(***************************************************************************)
(* The providers without a throttle: Deezer, Discogs, Wikidata and Open    *)
(* Library (app/providers/).  A call is a chain of GETs:                   *)
(*   - searches, one per form of the code, until one of them has a hit;    *)
(*   - after a hit, the details of what was found, if its id is known.     *)
(* A UPC of 13 digits that starts with 0 is asked for in its 12-digit form *)
(* as well.  Discogs asks for each form as a barcode, then as a text.      *)
(*                                                                         *)
(* A GET is one step here (ResilientGet has its retries), and nothing is   *)
(* shared between calls: one call after another shows all there is.        *)
(***************************************************************************)
EXTENDS Naturals, Sequences

VARIABLES ask,        \* what is asked: [provider, kind, padded]
          pc,         \* "idle", "searching", "detailing" or "done"
          log,        \* how the searches of the call went, in order (history)
          hit,        \* what the search found, once it has (history)
          entry       \* the row, returned when pc = "done"

vars == <<ask, pc, log, hit, entry>>

\* The questions LookupService asks.  Free text is asked of two providers.
Asks ==
  [provider : {"deezer", "discogs"}, kind : {"isrc", "text"}, padded : {FALSE}]
    \cup [provider : {"deezer", "discogs", "open_library"}, kind : {"upc"}, padded : BOOLEAN]
    \cup [provider : {"wikidata"}, kind : {"isrc"}, padded : {FALSE}]

\* The forms of the code that are tried.
Forms(a) == IF a.provider \in {"deezer", "discogs"} /\ a.padded THEN 2 ELSE 1

\* The searches of a call, if none has a hit.
Searches(a) == IF a.provider = "discogs" /\ a.kind = "upc" THEN 2 * Forms(a) ELSE Forms(a)

(***************************************************************************)
(* What comes back.  A search fails, or its JSON is of a shape the code    *)
(* stumbles over outside its try, or has no item, or a first item of which *)
(* some texts are there and others not.                                    *)
(***************************************************************************)
Texts == {"title", "artist", "label"}

\* The texts a first item may offer: which ones the code reads.
Offered(a) ==
  SUBSET (IF a.provider \in {"discogs", "open_library"} THEN Texts ELSE {"title", "artist"})

\* Mutant of IsHit: whatever was read makes a hit.
IsHitAnyText(a, offer) == offer # {}

\* found = ...: a title, for most; any text, for a Discogs barcode; whatever is
\* bound, for Wikidata.
IsHit(a, offer) ==
  \/ "title" \in offer
  \/ a.provider = "discogs" /\ a.kind = "upc" /\ offer # {}
  \/ a.provider = "wikidata"

\* A row: whether it is found, whether it reports an error, where its texts are
\* from.
Sources == {"none", "search", "detail"}
Row     == [found : BOOLEAN, error : BOOLEAN, from : [Texts -> Sources]]

Bare(err) == [found |-> FALSE, error |-> err, from |-> [t \in Texts |-> "none"]]
Read(a, offer) ==
  [found |-> IsHit(a, offer), error |-> FALSE,
   from |-> [t \in Texts |-> IF t \in offer THEN "search" ELSE "none"]]

Init ==
  /\ ask \in Asks
  /\ pc = "idle"
  /\ log = <<>>
  /\ hit = {}
  /\ entry = Bare(FALSE)

-----------------------------------------------------------------------------
Call ==
  /\ pc \in {"idle", "done"}
  /\ ask' \in Asks
  /\ pc' = "searching"
  /\ log' = <<>>
  /\ hit' = {}
  /\ entry' = Bare(FALSE)

\* Mutants of NoHit: one search too many; a failed search ends the call.
NoHitOneMore(how, x) ==
  /\ log' = Append(log, how)
  /\ entry' = x
  /\ pc' = IF Len(log') > Searches(ask) THEN "done" ELSE pc
  /\ UNCHANGED hit
NoHitAbort(how, x) ==
  /\ log' = Append(log, how)
  /\ entry' = x
  /\ pc' = IF how = "error" \/ Len(log') = Searches(ask) THEN "done" ELSE pc
  /\ UNCHANGED hit

\* A search without a hit: the next one, or the row of this one is the answer.
NoHit(how, x) ==
  /\ log' = Append(log, how)
  /\ entry' = x
  /\ pc' = IF Len(log') = Searches(ask) THEN "done" ELSE pc
  /\ UNCHANGED hit

\* resilient_get raises, the status is an error, or the body is not JSON.
SearchFails == NoHit("error", Bare(TRUE))

\* No item.  (An error object in the JSON of a 200, as Deezer sends it, is read
\* as no item.)
SearchEmpty == NoHit("miss", Bare(FALSE))

\* The exception leaves the provider; _safe_call makes a row of it.
SearchRaises ==
  /\ log' = Append(log, "raise")
  /\ entry' = Bare(TRUE)
  /\ pc' = "done"
  /\ UNCHANGED hit

\* Details are fetched of a Deezer track or album and of a Discogs release.
HasDetails(a) ==
  \/ a.provider = "deezer" /\ a.kind \in {"isrc", "upc"}
  \/ a.provider = "discogs" /\ a.kind = "upc"

SearchHits ==
  \E offer \in Offered(ask) :
    \/ ~IsHit(ask, offer) /\ NoHit("miss", Read(ask, offer))
    \/ /\ IsHit(ask, offer)
       /\ log' = Append(log, "hit")
       /\ hit' = offer
       /\ entry' = Read(ask, offer)
       /\ pc' \in IF HasDetails(ask) THEN {"detailing", "done"} ELSE {"done"}

Search ==
  /\ pc = "searching"
  /\ SearchFails \/ SearchEmpty \/ SearchRaises \/ SearchHits
  /\ UNCHANGED ask

\* No usable answer to the GET of the details: the row stays as it is.
DetailFails ==
  /\ pc = "detailing"
  /\ pc' = "done"
  /\ UNCHANGED <<ask, log, hit, entry>>

\* Mutant of Enriched: what the details say replaces what the search said.
EnrichedAnew(a, x, offer) ==
  [x EXCEPT !.found = offer # {},
            !.from = [t \in Texts |-> IF t \in offer THEN "detail" ELSE "none"]]

\* What the details add.  Discogs: the texts the search lacked, and found anew
\* from what is there then.  A Deezer album: its label.  A Deezer track: no text.
Enriched(a, x, offer) ==
  LET fills == IF a.provider = "discogs" THEN Texts
               ELSE IF a.kind = "upc" THEN {"label"} ELSE {}
      from  == [t \in Texts |-> IF t \in offer \cap fills /\ x.from[t] = "none"
                                THEN "detail" ELSE x.from[t]]
  IN  [x EXCEPT !.from  = from,
                !.found = IF a.provider = "discogs" THEN \E t \in Texts : from[t] # "none"
                                                    ELSE @]

DetailArrives ==
  /\ pc = "detailing"
  /\ \E offer \in SUBSET Texts : entry' = Enriched(ask, entry, offer)
  /\ pc' = "done"
  /\ UNCHANGED <<ask, log, hit>>

Next == Call \/ Search \/ DetailFails \/ DetailArrives

Spec == Init /\ [][Next]_vars

-----------------------------------------------------------------------------
Entries(how) == {i \in DOMAIN log : log[i] = how}

TypeOK ==
  /\ ask \in Asks
  /\ pc \in {"idle", "searching", "detailing", "done"}
  /\ log \in Seq({"error", "miss", "raise", "hit"})
  /\ Len(log) <= Searches(ask)
  /\ hit \in SUBSET Texts
  /\ entry \in Row

\* A hit is for good: no detail, whether it fails or comes, takes the hit or one
\* of the texts of its search away, and no error is reported with it
\* (deezer.py:48-110, discogs.py:89-138).
HitKept ==
  pc = "done" /\ Entries("hit") # {} =>
    /\ entry.found /\ ~entry.error
    /\ \A t \in hit : entry.from[t] = "search"

\* Nothing is reported as not found before every form of the code was asked for,
\* unless the code stumbled: a failed search does not keep the next ones from
\* being tried.  And nothing is asked once there is a hit.
MissIsExhaustive ==
  pc = "done" =>
    /\ Entries("hit") = {} /\ Entries("raise") = {} =>
         /\ ~entry.found
         /\ ask.kind = "upc" /\ ask.padded /\ ask.provider # "open_library" =>
              Len(log) = IF ask.provider = "discogs" THEN 4 ELSE 2
    /\ \A i \in Entries("hit") \cup Entries("raise") : i = Len(log)

\* Rows that count as found without a title come from a Discogs barcode or from
\* Wikidata only: what a search by free text puts in place of a miss always has a
\* title to compare (deezer.py:206, discogs.py:196-199, open_library.py:89).
UntitledHits ==
  pc = "done" /\ entry.found /\ entry.from["title"] = "none" =>
    \/ ask.provider = "wikidata"
    \/ ask.provider = "discogs" /\ ask.kind = "upc"

\* What the README says: "provider-specific problems appear in
\* `providers[].error`" (README.md:188; lookup.py:54 and 84 say the same).  A
\* provider that found nothing, and one of whose searches failed, says so.
FailedSearchReported ==
  pc = "done" /\ ~entry.found /\ Entries("error") # {} => entry.error

=============================================================================
