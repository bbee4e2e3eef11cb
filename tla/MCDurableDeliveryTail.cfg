\* A client that is cut off before its first checkpoint.
SPECIFICATION ListeningSpec
CONSTANTS
  push = push
  spam = spam
  Types = {push, spam}
  NoType = NoType
  IgnoreEvents = {spam}
  ExecOnEvents = {}
  TargetRetries = 0
  Configs <- WithStateFile
  MaxLen = 0
  ReadCount = 2
  Protected = FALSE
  TypeOf <- MCTypeOf
  IDOf <- MCIDOf
  MaxEvents = 3
  MaxFaults = 1
CHECK_DEADLOCK FALSE
INVARIANT NoLossWhileListening
