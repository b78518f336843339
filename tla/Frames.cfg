SPECIFICATION LineSpec
CONSTANTS
  Block = 3
  MaxPayload = 2
  MaxSends = 2
INVARIANTS
  MessagesArrive
CHECK_DEADLOCK FALSE
