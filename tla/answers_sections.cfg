\* Two questions in two locked sections, requests and replies lost, the page
\* loaded twice.
SPECIFICATION FairSpec
CONSTANTS
  Questions = {q1, q2}
  Later = {q2}
  Numeric = {}
  Options = {a}
  Unanswered = Unanswered
  NotGraded = NotGraded
  NoQuestion = NoQuestion
  Servers = {s1}
  MaxRetries = 1
  MaxManual = 0
  MaxSeq = 2
  MaxLoads = 2
  MaxSubmits = 1
  MaxLate = 0
  Faults = {"lost"}
  Patient = TRUE
  GraceHolds = TRUE
CHECK_DEADLOCK FALSE

  
PROPERTIES
  PageMovesOn
