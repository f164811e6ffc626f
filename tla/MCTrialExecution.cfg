SPECIFICATION Spec
CONSTANTS
  search = search
  pay = pay
  nothere = nothere
  Tool = {search, pay}
  Guarded = {pay}
  NoStep = 0
  MaxRetries = 2
  Cases <- AllCases
  Asks <- SomeAsks
INVARIANTS TypeOK NothingAfterUnknown SourcesExecuted ResultIsEarned FrozenNeverMutates RetriesOnlyTransport RowsTellTheCalls EffectsAreConfirmed
