SPECIFICATION Spec
CONSTANTS
  Req = {r1, r2}
  Permits = 1
  MaxRetries = 1
  MaxChunks = 2
  Leaving <- LeaveAnywhere
INVARIANTS TypeOK PermitsConserved GaugeExact OneAttemptPerStream AnsweredIsRecorded QueriesFindAnswered
PROPERTIES RequestsEnd KeepsPromise
CHECK_DEADLOCK FALSE
