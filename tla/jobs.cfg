\* One unit, two answers, two overlapping passes, two attempts and two
\* generations: every race of claims, crashes, sweeps, replays and recoveries.
SPECIFICATION Spec
CONSTANTS
  NumUnits = 1
  MaxVersion = 2
  MaxGen = 2
  MaxAttempts = 2
  Workers = {w1, w2}
  Clients = {c1}
  Words = {}
  CorruptionMayHappen = FALSE
  RefreshMayFail = FALSE
SYMMETRY Interchangeable
CHECK_DEADLOCK FALSE
INVARIANTS
  TypeOK
  PendingUnitHasLiveJob
  AwaitedAnswerIsCurrent
  StaleReadHarmless
  IInv
PROPERTIES
  ScoreIsFinal
  FencedWorkerIsInert
  ImplementsLifecycle
