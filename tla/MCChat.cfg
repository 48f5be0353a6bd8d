SPECIFICATION FairSpec
CONSTANTS
  Requests = {q1}
  Users = {root, ops, alice}
  Admins = {root, ops}
  Nobody = Nobody
  Records <- Responses
  NoRecord <- NoResponse
  Statuses = {"NEW", "FIXED"}
  RESOLVED = {"FIXED"}
  Notes = {"null", "note"}
  MaxVersion = 3
  MaxAttempts = 3
  Results <- AllResults
INVARIANTS
  FailuresHandled
  ReviewsSound
PROPERTIES
  AnswerDelivered
  NoLostUpdate
CHECK_DEADLOCK FALSE
