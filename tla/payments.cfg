\* Two orders, a confirmation and the webhooks in every order, failing calls and lost answers.
SPECIFICATION FairSpec
CONSTANTS
  Orders = {o1, o2}
  Verifiers = {v1, v2}
  Faults = {"call", "ack"}
  Prompt = TRUE
  MaxFaults = 2
  MaxDeclines = 1
  None = none
INVARIANTS
  TypeOK
  NewestPlanWins
  
PROPERTIES
  EveryPaymentActivates
CHECK_DEADLOCK FALSE
