SPECIFICATION Spec
CONSTANTS
  Keys <- MCKeys
  Descriptor = 0
  InsertRetries = 2
  RemoveRetries = 2
INVARIANTS
  TypeOK
  NoRequestSkipped
  CompletionNotLost
  PollingIsReady
PROPERTIES
  EnumerationCompletes
  RemovalIsNoticed
