SPECIFICATION FairSpec
CONSTANTS
  c1 = c1
  c2 = c2
  Clients = {c1, c2}
  Kinds = {"exec", "row"}
  Counted = {"down"}
  Retryable = {"down"}
  FailureThreshold = 2
  SuccessThreshold = 2
  Timeout = 2
  MaxRetries = 1
  MaxCount = 2
INVARIANTS TripsInTime
PROPERTIES OpensOnlyOnFailures StaysOpenForTimeout ClosesOnlyOnSuccesses StopsRejecting
