\* Calls that raise and reads that fail, fewer than a job has attempts.
SPECIFICATION FairSpec
CONSTANTS
  MaxTries = 3
  MaxSubmits = 2
  MaxFaults = 2
  Faults = {"call", "read"}
  LateSubmits = FALSE
  Quick = TRUE
INVARIANTS
  NothingForgotten
  CorrectionsFollow

  
CHECK_DEADLOCK FALSE
