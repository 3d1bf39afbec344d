\* One question: requests and replies lost or late, server processes that die,
\* database writes that fail, the sweeper beside the server.
SPECIFICATION Spec
CONSTANTS
  Questions = {q1}
  Later = {}
  Numeric = {}
  Options = {a}
  Unanswered = Unanswered
  NotGraded = NotGraded
  NoQuestion = NoQuestion
  Servers = {s1}
  MaxRetries = 1
  MaxManual = 1
  MaxSeq = 3
  MaxLoads = 1
  MaxSubmits = 1
  MaxLate = 1
  Faults = {"lost", "write", "crash"}
  Patient = TRUE
  GraceHolds = TRUE
CHECK_DEADLOCK FALSE
INVARIANTS
  TypeOK
  SavedIsStored
  GradedAsShown
  NoFalseConflict
PROPERTIES
  ImplementsSheet
