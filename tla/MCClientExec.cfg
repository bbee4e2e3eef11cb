\* A command that fails, for an event with a stream ID.
SPECIFICATION ExecSpec
CONSTANTS
  push = push
  issue = issue
  spam = spam
  Types = {push, issue, spam}
  NoType = NoType
  IgnoreEvents = {spam}
  ExecOnEvents = {push}
  TargetRetries = 2
  Configs <- Options
PROPERTY ExecFailureMovesOn
