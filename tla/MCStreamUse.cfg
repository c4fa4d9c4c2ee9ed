\* Three ids and the invalid one against two contexts, sequences that wrap at
\* three, two nested calls of on_stream_closed.
SPECIFICATION UseSpec
CONSTANTS
  Slots = 2
  StreamIds = {0, 1, 2, 3}
  Names <- MCNames
  Kindless <- MCKindless
  StoredName <- MCStoredName
  SeqLimit = 3
  MaxHeard = 3
  MaxNested = 2
INVARIANTS UniqueStreams ContextStaysItsOwn AccountingExact
CHECK_DEADLOCK TRUE
