SPECIFICATION MCFairSpec
CONSTANTS
  Limit = 2
  MaxChunks = 1
  Backlog = 2
  Asked <- ConnectionRequest
  Carried <- Connections
  Codex = Codex
  Gateway = Gateway
  Data = Data
  Close = Close
  Big = Big
  Notice = Notice
  Capacity = 1
  MaxSent = 3
  MaxParts = 4
INVARIANTS
  MessagesAreWhole
PROPERTIES
  ImplementsChannel
  RequestsEnd
CHECK_DEADLOCK FALSE
