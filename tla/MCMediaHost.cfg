\* Three open requests against two contexts: the second video id is the first audio
\* id, and the audio ids wrap after two.
SPECIFICATION Spec
CONSTANTS
  Slots = 2
  StreamIds = {0, 1, 2, 3, 4}
  Names <- MCNames
  Kindless = {}
  StoredName <- MCStoredName
  SeqLimit = 1
  QueueCapacity = 2
  Sources <- MCSources
  OpenRequests <- MCOpenRequests
  CloseRequests <- MCCloseRequests
  CutSource <- MCCutSource
  VideoBase = 2
  AudioBase = 3
  IdLimit = 5
  MaxOpens = 3
  MaxChunks = 1
INVARIANTS OneStreamPerSource
PROPERTIES ChunksReachTheirStream OnlyBusySourcesRefused ClosedWhenToldSo
CHECK_DEADLOCK TRUE
