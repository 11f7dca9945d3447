------------------------------ MODULE Summary ------------------------------
(***************************************************************************)
(* The summary block of a lookup: build_summary (app/summary.py) and the   *)
(* note of _summary_with_dropped_errors (app/services/lookup_service.py).  *)
(*                                                                         *)
(* Rows are a function from positions in the answer to provider entries.   *)
(* A text is a model value; Norm gives what norm_compare makes of it       *)
(* (white space collapsed, case folded), and Blank stands for the empty    *)
(* string.  NoText is None, and the empty string, which the code treats    *)
(* alike everywhere (`if p.title`).                                        *)
(***************************************************************************)
EXTENDS Naturals, FiniteSets

CONSTANTS Text,       \* titles, artists and albums as the providers write them
          NoText,     \* None or ""
          Normal,     \* normalized texts
          Blank,      \* the normalized form of a text of white space only
          Norm        \* norm_compare

ASSUME TextAssumption ==
  /\ NoText \notin Text
  /\ Blank \in Normal
  /\ Norm \in [Text -> Normal]

OptText == Text \cup {NoText}

Confidences == {"high", "medium", "low"}
Notes       == {"none", "partial", "differs", "failed"}

FoundAt(rows)  == {i \in DOMAIN rows : rows[i].found}
TitledAt(rows) == {i \in FoundAt(rows) : rows[i].title # NoText}
ArtistAt(rows) == {i \in FoundAt(rows) : rows[i].artist # NoText}

Titles(rows)  == {Norm[rows[i].title] : i \in TitledAt(rows)}
Artists(rows) == {Norm[rows[i].artist] : i \in ArtistAt(rows)}

\* All the normalized texts are one and the same, and not blank.
OneAndTheSame(texts) == \E t \in texts : t # Blank /\ texts = {t}

\* Mutant of TitlesAgree: two rows with one title are enough, whatever the others.
TitlesAgreeSome(rows) ==
  \E i, j \in TitledAt(rows) : i # j /\ Norm[rows[i].title] = Norm[rows[j].title]
                                   /\ Norm[rows[i].title] # Blank

TitlesAgree(rows) ==
  Cardinality(TitledAt(rows)) >= 2 /\ OneAndTheSame(Titles(rows))

\* Mutant of ArtistsAgree: artists are not compared.
ArtistsAgreeAlways(rows) == TRUE

ArtistsAgree(rows) ==
  Cardinality(ArtistAt(rows)) < 2 \/ OneAndTheSame(Artists(rows))

Confidence(rows) ==
  LET n == Cardinality(FoundAt(rows))
  IN  IF n = 0 THEN "low"
      ELSE IF n = 1 THEN "medium"
      ELSE IF TitlesAgree(rows) /\ ArtistsAgree(rows) THEN "high"
      ELSE IF TitlesAgree(rows) \/ (TitledAt(rows) = {} /\ ArtistsAgree(rows)) THEN "medium"
      ELSE "low"

Note(rows) ==
  IF Cardinality(FoundAt(rows)) < 2 \/ Confidence(rows) = "high" THEN "none"
  ELSE IF Confidence(rows) = "medium" THEN "partial" ELSE "differs"

\* failed: the providers whose error the note quotes.
BuildSummary(rows) ==
  [found_in   |-> Cardinality(FoundAt(rows)),
   confidence |-> Confidence(rows),
   note       |-> Note(rows),
   failed     |-> {}]

\* A row that says only that the provider failed.
OnlyError(row) == ~row.found /\ row.error

\* If nothing was found, the note quotes the errors of the rows left out.  (The
\* code quotes four errors at most; a lookup has at most four providers.)
WithDroppedErrors(all, summary) ==
  LET errs == {all[i].provider : i \in {j \in DOMAIN all : OnlyError(all[j])}}
  IN  IF summary.found_in > 0 \/ errs = {} THEN summary
      ELSE [summary EXCEPT !.note = "failed", !.failed = errs]

-----------------------------------------------------------------------------
(***************************************************************************)
(* What the summary is to mean, stated without its algorithm.              *)
(***************************************************************************)
\* Two found rows whose titles, or whose artists, differ after normalization.
Conflict(rows) ==
  \E i, j \in FoundAt(rows) :
    \/ /\ rows[i].title # NoText /\ rows[j].title # NoText
       /\ Norm[rows[i].title] # Norm[rows[j].title]
    \/ /\ rows[i].artist # NoText /\ rows[j].artist # NoText
       /\ Norm[rows[i].artist] # Norm[rows[j].artist]

\* Two providers confirm one title.
TwoConfirm(rows) ==
  \E i, j \in TitledAt(rows) :
    i # j /\ Norm[rows[i].title] = Norm[rows[j].title] /\ Norm[rows[i].title] # Blank

=============================================================================
