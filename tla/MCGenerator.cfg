\* Every command, writing into the repository.
SPECIFICATION Spec
CONSTANTS
  None = None
  Torn = Torn
  Fixed = Fixed
  Layout = "contract"
  MaxEdits = 1
  MaxCommands = 2
  MaxFailures = 1
  Commands <- MCCommands
  Qualities <- MCQualities
  Documents <- MCDocuments
INVARIANTS
  RefusedChangesNothing
  SuccessIsComplete
  OnlyAcceptedIsWritten
  ProtocolNotBehindItsDocs
CHECK_DEADLOCK FALSE
