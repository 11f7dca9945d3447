--------------------------- MODULE MCMusicBrainz ---------------------------
(***************************************************************************)
(* Model checking of MusicBrainz: concurrent calls of either kind, a gap   *)
(* of two ticks, one retry per GET.                                        *)
(***************************************************************************)
EXTENDS MusicBrainz, TLC

CONSTANTS c1, c2, c3

MCTwo   == {c1, c2}
MCThree == {c1, c2, c3}

CONSTANTS ann, bob, various

MCHints == {<<>>, <<ann>>, <<ann, bob>>}

\* Official releases of one or two artists, or of various, in two ranks of type
\* and date; and one that is not official.
MCReleases ==
  LET Release(official, credit, type, date, known) ==
        [official |-> official, credit |-> credit, kind |-> type, date |-> date,
         titled |-> date # 9999, known |-> known]
  IN  {Release(TRUE, credit, type, date, type = 0) :
         credit \in {<<ann>>, <<bob, ann>>, <<ann, bob>>, <<ann, various>>}, type \in {0, 9},
         date \in {2020, 2021, 9999}}
        \cup {Release(FALSE, <<ann>>, 0, 2020, TRUE)}

=============================================================================
