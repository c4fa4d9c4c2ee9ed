\* Two workflows, one commit of other work, and one mishap.
SPECIFICATION Spec
CONSTANTS
  Specs = {1, 2}
  MaxRevision = 1
  MaxStarts = 2
  MaxWork = 1
  MaxMishaps = 1
  Tokens = {TRUE, FALSE}
  Nothing = Nothing
INVARIANTS
  MainStaysConsistent
  ReleasesAreWhatTheySay
PROPERTIES
  ReleasedUnlessUnheard
CHECK_DEADLOCK FALSE
