CONSTANTS
  MaxConns = 2
  Requests = {}
  MAX_QUEUE = 1
  IDS = 65535
  Topics = {home, away}
  NoTopic = NoTopic
  NoSince = NoSince
  MaxMessages = 3
  MaxChanges = 1
  Loads <- LoadsOfCommands
SPECIFICATION Spec
INVARIANTS EachCommandSent
