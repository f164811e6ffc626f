SPECIFICATION FairSpec
CONSTANTS
  j1 = j1
  j2 = j2
  j3 = j3
  w1 = w1
  w2 = w2
  s1 = s1
  s2 = s2
  target = target
  Job = {j1, j2, j3}
  Worker = {w1, w2}
  NoWorker = NoWorker
  Key = {target}
  KeyOf <- MCKeyOf
  LimitOf <- MCLimitOf
  RankOf <- MCRankOf
  MaxAttempts <- MCMaxAttempts
  ScanLimit = 2
  Slot = {s1, s2}
  Handled = {j1, j2}
  Deferring = {j2}
  Mortal = {w2}
  CancelGroups <- MCGroups
INVARIANTS TypeOK ConcurrencyRespected AttemptsWithinBudget OwnerMatchesStatus
PROPERTIES SettledRowsStay QueueDrains
