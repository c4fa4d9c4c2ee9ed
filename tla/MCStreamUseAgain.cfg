\* Of a sink that closes a stream again within on_stream_closed: expected to
\* fail, and no run of PROJECT.json (README, section 5).
SPECIFICATION UseSpec
CONSTANTS
  Slots = 2
  StreamIds = {0, 1, 2}
  Names <- MCNames
  Kindless <- MCKindless
  StoredName <- MCStoredName
  SeqLimit = 2
  MaxHeard = 0
  MaxNested = 2
PROPERTIES CloseErasesOnlyItsOwn
CHECK_DEADLOCK TRUE
