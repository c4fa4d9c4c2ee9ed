SPECIFICATION LiveSpec
CONSTANTS
  Runtime = "axtp-mock-server"
  Locks <- MCLocks
  VersionTexts <- MCVersions
  BuildVersion <- MCBuildVersion
  ToolVersions <- MCToolVersions
  Checkouts = {"s1", "s2"}
  Stamps <- DistinctStamps
  None = None
  Torn = Torn
  MaxEdits = 2
  MaxFailures = 1
INVARIANTS ConstantsAreAligned ReleaseIsOfItsTag
PROPERTIES NotesAreOfTheRelease SettlesOnSources
