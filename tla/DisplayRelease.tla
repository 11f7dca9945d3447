-------------------------- MODULE DisplayRelease ---------------------------
(***************************************************************************)
(* Which release stands for a recording (_pick_display_release in          *)
(* app/providers/musicbrainz.py).  A release is a record:                  *)
(*                                                                         *)
(*   official  its status is "Official" (what is no object counts as not)  *)
(*   credit    the names of its artist credit, in order                    *)
(*   kind      its primary type: Single 0, EP 1, Album 2, Broadcast 3,     *)
(*             any other or none 9                                         *)
(*   date      its date, 9999 if there is none                             *)
(*   titled    it or its release group has a title                         *)
(*   known     it has an id to fetch it by                                 *)
(*                                                                         *)
(* A hint is the credit of the recording, <<>> if that has none.  Credits  *)
(* are compared as joined lines: a hint is in a credit where its names     *)
(* stand side by side (that a name may be a piece of another is left out). *)
(***************************************************************************)
EXTENDS Integers, Sequences

CONSTANTS Releases,     \* the releases a recording may be on
          Hints,        \* the credits of recordings
          MaxListed,    \* the longest list of releases in an answer
          Various,      \* "Various Artists"
          NoRelease     \* None

ASSUME ListedAssumption ==
  /\ MaxListed \in Nat /\ NoRelease \notin Releases
  /\ \A r \in Releases : r.kind \in Nat /\ r.date \in Nat /\ {r.titled, r.known} \subseteq BOOLEAN

\* The lists an answer may carry.
Listings == UNION {[1..n -> Releases] : n \in 0..MaxListed}

-----------------------------------------------------------------------------
Named(names, credit) ==
  \E i \in 0..(Len(credit) - Len(names)) : names = SubSeq(credit, i + 1, i + Len(names))

Eligible(r) == r.official /\ ~ Named(<<Various>>, r.credit)

\* Without a hint every eligible release will do.
Credited(r, hint) == Eligible(r) /\ Named(hint, r.credit)

\* Mutant of Candidates: no second look without the hint.
CandidatesStrict(list, hint) == {i \in DOMAIN list : Credited(list[i], hint)}

\* The places of the credited releases in the list, or else of all that are eligible.
Candidates(list, hint) ==
  LET credited == {i \in DOMAIN list : Credited(list[i], hint)}
  IN  IF credited # {} THEN credited ELSE {i \in DOMAIN list : Eligible(list[i])}

\* rank: the primary type comes first, then the date.
Before(r, s) == r.kind < s.kind \/ (r.kind = s.kind /\ r.date < s.date)

\* The head of the releases at the places after a stable sort by rank.
First(list, places) ==
  list[CHOOSE i \in places : \A j \in places :
         ~ Before(list[j], list[i]) /\ (j < i => Before(list[i], list[j]))]

Pick(list, hint) ==
  LET candidates == Candidates(list, hint)
  IN  IF candidates = {} THEN NoRelease ELSE First(list, candidates)

-----------------------------------------------------------------------------
\* The release that is shown is one of those listed, and a hint only narrows the
\* choice: it never leaves a recording without a release that would have one
\* without the hint, and it keeps a release of others from being shown only as
\* long as one of the artist's own is listed.  Among those left an earlier or
\* better one is never passed over (musicbrainz.py:335-378).
BestOfAll ==
  \A list \in Listings, hint \in Hints :
    LET r    == Pick(list, hint)
        Able == {i \in DOMAIN list : Eligible(list[i])}
        Own  == {i \in Able : Named(hint, list[i].credit)}
    IN  /\ r = NoRelease <=> Able = {}
        /\ r # NoRelease =>
             \E i \in Able :
               /\ r = list[i]
               /\ Own # {} => i \in Own
               /\ \A j \in Own : ~ Before(list[j], r)
               /\ Own = {} => \A j \in Able : ~ Before(list[j], r)

=============================================================================
