SPECIFICATION Spec
CONSTANTS
  search = search
  pay = pay
  nothere = nothere
  Tool = {search, pay}
  Guarded = {pay}
  NoStep = 0
  MaxRetries = 2
  Cases <- Asking
  Asks <- SomeAsks
INVARIANT EveryCallIsKept
