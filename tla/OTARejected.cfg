CONSTANTS
  Releases = 2
  MAX_TRIES = 2
  MAX_BOOTS = 2
  MAX_REDIRECTS = 2
SPECIFICATION Spec
PROPERTY RejectedOnlyByHand
