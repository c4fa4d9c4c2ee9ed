\* The token of the workflows themselves, and nothing else that goes wrong:
\* expected to fail, and no run of PROJECT.json (README, section 5).
SPECIFICATION Spec
CONSTANTS
  Specs = {1, 2}
  MaxRevision = 1
  MaxStarts = 1
  MaxWork = 1
  MaxMishaps = 0
  Tokens = {FALSE}
  Nothing = Nothing
PROPERTIES
  EveryTagIsReleased
CHECK_DEADLOCK FALSE
