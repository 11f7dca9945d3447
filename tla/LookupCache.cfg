SPECIFICATION Spec
CONSTANTS
  r1 = r1
  r2 = r2
  r3 = r3
  c1 = c1
  c2 = c2
  c3 = c3
  Song = Song
  song = song
  blank = blank
  Text = {Song}
  NoText = NoText
  Normal = {song, blank}
  Blank <- MCBlank
  Norm <- MCNorm
  Keys <- MCKeys
  TTL = 2
  MaxEntries = 1
  Requests <- MCRequests
  Enabled = {"wikidata"}
  CacheOn = TRUE
  Hits <- MCHits
  NoRow = NoRow
  NoAnswer = NoAnswer
  MaxTime = 4
INVARIANT HitsAreFresh
INVARIANT LastToFinishIsCached
SYMMETRY Symmetry
