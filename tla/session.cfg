\* Two units, two overlapping submit requests and a required word: every order
\* of coverage reads, coverage rows, finalizes, verdicts, reopens and rejections of
\* answers whose stored bytes stop matching their hash.
SPECIFICATION Spec
CONSTANTS
  NumUnits = 2
  MaxVersion = 1
  MaxGen = 1
  MaxAttempts = 1
  Workers = {w1}
  Clients = {c1, c2}
  Words = {x1}
  CorruptionMayHappen = TRUE
  RefreshMayFail = TRUE
SYMMETRY Interchangeable
CHECK_DEADLOCK FALSE
INVARIANTS
  
  StatusTracksUnits
  UnitMatchesVerdict
