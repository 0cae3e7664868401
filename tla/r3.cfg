SPECIFICATION Spec
CONSTANTS
  Req = {r1}
  Fetch = {f1, f2}
  Server = {s1, s2}
  Absent = absent
  Backends <- BothBackends
  MaxFaults = 1
INVARIANTS TypeOK ReadyHasBlob ExpertsKept ServesExperts

PROPERTIES HandleReleased UploadsEnd
CHECK_DEADLOCK FALSE
