CONSTANTS
  WAIT_MS = 2
  Requests <- MCRequests
SPECIFICATION Spec
INVARIANTS
  OneSessionButAnnounced
  StreamOnlyWithoutRelay
PROPERTIES
  OverlapEnds
  RequestRuns
