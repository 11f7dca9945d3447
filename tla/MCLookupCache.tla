--------------------------- MODULE MCLookupCache ---------------------------
(***************************************************************************)
(* Lookups that overlap over one cache: three requests, two ISRCs and a    *)
(* UPC, a cache of one entry that lives two ticks.  Only Wikidata is       *)
(* switched on, so a UPC lookup has nobody to ask.                         *)
(***************************************************************************)
EXTENDS LookupService, TLC

CONSTANTS r1, r2, r3, c1, c2, c3, Song, song, blank

MCRequests == {r1, r2, r3}
MCNorm     == (Song :> song)
MCBlank    == blank

MCHits ==
  [k \in {"isrc", "upc", "text"} |->
     [p \in Providers |-> {[title |-> Song, artist |-> NoText, album |-> NoText]}]]

MCKeys == {<<"isrc", c1>>, <<"isrc", c2>>, <<"upc", c3>>}

\* Requests differ in nothing but their names.
Symmetry == Permutations(MCRequests)

=============================================================================
