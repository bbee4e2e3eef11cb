\* Safety and liveness of Redis Streams mode.  Nobody has to post, so the system may come
\* to rest.
SPECIFICATION Spec
CONSTANTS
  push = push
  spam = spam
  Types = {push, spam}
  NoType = NoType
  IgnoreEvents = {spam}
  ExecOnEvents = {}
  TargetRetries = 0
  Configs <- MCConfigs
  MaxLen = 1
  ReadCount = 2
  Protected = TRUE
  TypeOf <- MCTypeOf
  IDOf <- MCIDOf
  MaxEvents = 3
  MaxFaults = 2
CHECK_DEADLOCK FALSE
INVARIANTS
  TypeOK
  NoLossWithinRetention
  StreamOrder
PROPERTIES
  CheckpointNeverBack
  HonestGap
  KeepsPromise
  ProcessedInTheEnd
