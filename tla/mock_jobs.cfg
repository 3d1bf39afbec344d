\* Lost replies and crashes: a call may take effect and raise, the process may die between two calls.
SPECIFICATION Spec
CONSTANTS
  MaxTries = 2
  MaxSubmits = 2
  MaxFaults = 2
  Faults = {"call", "reply", "schedule", "crash"}
  LateSubmits = FALSE
  Quick = TRUE
INVARIANTS
  TypeOK
  OneTestsRow
  AppliedOnce
CHECK_DEADLOCK FALSE
