SPECIFICATION Spec
CONSTANTS
  t1 = t1
  t2 = t2
  t3 = t3
  w1 = w1
  w2 = w2
  s1 = s1
  s2 = s2
  NoTrial = NoTrial
  NoWorker = NoWorker
  ScheduleOrder <- InOrder
  Trial = {t1}
  FrozenSource <- Independent
  BaselinePeer <- Independent
  Manifests <- Plain
  MaxTargetCalls = 100
  MoreCalls = {0}
  Outcomes = {"success", "provider_error"}
  TargetLimit = 2
  JobAttempts = 2
  MaxFaults = 4
  Worker = {w1}
  Slot = {s1, s2}
  May = {"raise", "stall"}
SYMMETRY SlotSymmetry
INVARIANT CompletedMeansGraded
