\* Two changes to the base, anywhere.
SPECIFICATION Spec
CONSTANTS
  None = None
  Broken = Broken
  IntSize = 131072
  MaxEdits = 2
  Base <- MCBase
  Changes <- MCChanges
  Additions <- MCAdditions
  MetaChanges <- MCMetaChanges
  DomainMaps <- MCDomainMaps
INVARIANTS
  DispatchIsUnambiguous
  ReferencesResolve
  BuildKeepsWhatWasChecked
  CopiesAgree
PROPERTIES
  PlaceDoesNotMatter
  PageIsCanonical
CHECK_DEADLOCK FALSE
