\* What emit-protocol reads where there is a contract directory.
SPECIFICATION Spec
CONSTANTS
  None = None
  Torn = Torn
  Fixed = Fixed
  Layout = "contract"
  MaxEdits = 1
  MaxCommands = 2
  MaxFailures = 0
  Commands <- ProtocolFileCommands
  Qualities <- MCQualities
  Documents <- MCDocuments
INVARIANTS
  EmitsFromTheProtocolFile
CHECK_DEADLOCK FALSE
