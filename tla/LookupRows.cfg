SPECIFICATION Spec
CONSTANTS
  r1 = r1
  c1 = c1
  c2 = c2
  Song = Song
  SongLower = SongLower
  Other = Other
  ArtA = ArtA
  ArtB = ArtB
  song = song
  other = other
  artA = artA
  artB = artB
  blank = blank
  Text <- MCText
  NoText = NoText
  Normal <- MCNormal
  Blank <- MCBlank
  Norm <- MCNorm
  Keys <- MCKeys
  TTL = 1
  MaxEntries = 1
  Requests = {r1}
  Enabled = {"musicbrainz", "deezer", "discogs", "wikidata", "open_library"}
  CacheOn = FALSE
  Hits <- MCHits
  NoRow = NoRow
  NoAnswer = NoAnswer
  MaxTime = 0
INVARIANT TypeOK
INVARIANT RowsInPlace
INVARIANT FailuresExplainNothingFound
INVARIANT HighIsEarned
INVARIANT ConflictIsNoted
PROPERTY FoundNeverLost
PROPERTY EveryLookupAnswered
