CONSTANTS
  Requests = {q1, q2}
  Rules <- MCRules
  Rule <- MCRule
  MinOrder = 0
  Policies = {"strict"}
  DenyKey = "client"
  Permits = 1
SPECIFICATION Spec
INVARIANTS DeniedIsRejected
CHECK_DEADLOCK FALSE
