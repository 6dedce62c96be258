CONSTANTS
  Requests = {q1, q2}
  Rules <- MCRules
  Rule <- MCRule
  MinOrder = 0
  Policies = {"strict"}
  DenyKey = "blocked"
  Permits = 1
SPECIFICATION Spec
INVARIANTS TypeOK OnlyJudgedAreServed GaugeCountsAdmitted PermitsComeBack
CHECK_DEADLOCK FALSE
