CONSTANTS
  WAIT_MS = 2
  Requests <- MCRequests
SPECIFICATION Spec
INVARIANT OneSession
