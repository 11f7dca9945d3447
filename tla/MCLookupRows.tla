---------------------------- MODULE MCLookupRows ----------------------------
(***************************************************************************)
(* One lookup at a time, of either kind, without the cache: every          *)
(* combination of what the providers find, miss and fail, in every order.  *)
(***************************************************************************)
EXTENDS LookupService, TLC

CONSTANTS r1, c1, c2,
          Song, SongLower, Other,           \* titles; the first two are equal but for case
          ArtA, ArtB,
          song, other, artA, artB, blank    \* their normalized forms

MCText   == {Song, SongLower, Other, ArtA, ArtB}
MCNormal == {song, other, artA, artB, blank}
MCNorm   == (Song :> song) @@ (SongLower :> song) @@ (Other :> other)
              @@ (ArtA :> artA) @@ (ArtB :> artB)

M(t, a, l) == [title |-> t, artist |-> a, album |-> l]

\* Deezer, Open Library, Discogs by ISRC and the free-text searches find only what
\* has a title; MusicBrainz may find a recording without one, a Discogs barcode
\* search a release by its artist or its label alone.
MCHits ==
  LET mb == {M(Song, ArtA, NoText), M(Other, NoText, NoText), M(NoText, ArtB, Other),
             M(NoText, ArtA, NoText)}
      dz == {M(SongLower, ArtA, Song), M(Other, ArtB, NoText)}
      di == {M(Song, ArtB, NoText)}
      wd == {M(Song, NoText, NoText)}
      ol == {M(SongLower, ArtA, NoText), M(Other, NoText, NoText)}
      bare == {M(NoText, ArtA, NoText), M(NoText, NoText, NoText)}
      by(d, w, o) == ("musicbrainz" :> mb) @@ ("deezer" :> dz) @@ ("discogs" :> d)
                       @@ ("wikidata" :> w) @@ ("open_library" :> o)
  IN  ("isrc" :> by(di, wd, {})) @@ ("upc" :> by(di \cup bare, {}, ol))
        @@ ("text" :> by(di, {}, {}))

MCKeys == {<<"isrc", c1>>, <<"upc", c2>>}

MCBlank == blank

=============================================================================
