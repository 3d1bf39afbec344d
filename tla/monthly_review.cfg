\* Two weekly and two monthly attempts for two exams, and two monthly starts at once.
SPECIFICATION Spec
CONSTANTS
  Questions = {q1, q2}
  Exams = {e1, e2}
  Weeklies = {w1, w2}
  Monthlies = {m1, m2}
  Requests = {r1, r2}
  Periods = {1}
  Cap = 1
  MaxEdits = 1
  None = none
SYMMETRY Symmetry
INVARIANTS
  TypeOK
  ReviewedOnce
  TailIsOwed
  NewestMistakeKept
CHECK_DEADLOCK FALSE
