\* Three statements that the code does not keep: expected to fail, and no run of
\* PROJECT.json (README, section 5). With -continue TLC goes on to the next.
SPECIFICATION Spec
CONSTANTS
  None = None
  Broken = Broken
  IntSize = 131072
  MaxEdits = 2
  Base <- MCBase
  Changes <- MCChanges
  Additions <- MCAdditions
  MetaChanges <- MCMetaChanges
  DomainMaps <- MCDomainMaps
CHECK_DEADLOCK FALSE
INVARIANTS
  DuplicateMethodIdsAreRejected
  IdsOutsideTheRangesAreRejected
  EverySchemaIsShown
