\* A specification that is dispatched again, without any failure.
SPECIFICATION Spec
CONSTANTS
  Specs = {1}
  MaxRevision = 2
  MaxStarts = 3
  MaxWork = 0
  MaxMishaps = 0
  Tokens = {TRUE}
  Nothing = Nothing
PROPERTIES
  RevisionsAreTagged
CHECK_DEADLOCK FALSE
