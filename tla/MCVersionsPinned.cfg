SPECIFICATION VersionSpec
CONSTANTS
  Runtime = "axtp-c-runtime"
  Locks <- OneLock
  VersionTexts <- MCVersions
  BuildVersion <- MCBuildVersion
  ToolVersions <- OneTool
  Checkouts = {"s1"}
  Stamps <- PinnedStamps
  None = None
  Torn = Torn
  MaxEdits = 2
  MaxFailures = 1
INVARIANTS ConstantsAreAligned
