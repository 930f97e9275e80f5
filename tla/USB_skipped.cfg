SPECIFICATION Spec
CONSTANTS
  Keys <- MCKeys
  Descriptor = 0
  InsertRetries = 2
  RemoveRetries = 2
INVARIANT EveryRequestAnswered
