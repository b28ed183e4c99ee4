CONSTANTS
  MaxConns = 2
  Requests = {q1, q2, q3}
  MAX_QUEUE = 2
  IDS = 65535
  Topics = {home, away}
  NoTopic = NoTopic
  NoSince = NoSince
  MaxMessages = 3
  MaxChanges = 1
  Loads <- LoadsSmall
SPECIFICATION Spec
INVARIANTS AnswerIsOwn SkipsOnlyInRace AgainOnlyIfAsked PollingGoesOn
PROPERTIES CallsAtMostOnce EveryCallEnds StableLinkDelivers
