SPECIFICATION Spec
CONSTANTS
  Requests = {q1}
  Users = {root, alice}
  Admins = {root}
  Nobody = Nobody
  Records <- Responses
  NoRecord <- NoResponse
  Statuses = {"NEW", "FIXED"}
  RESOLVED = {"FIXED"}
  Notes = {"null"}
  MaxVersion = 2
  MaxAttempts = 3
  Results <- AllResults
INVARIANT
  FailuresHidden
CHECK_DEADLOCK FALSE
