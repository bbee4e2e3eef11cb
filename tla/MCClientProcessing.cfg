\* Processing of one event after the other, under every combination of the options.
SPECIFICATION Spec
CONSTANTS
  push = push
  issue = issue
  spam = spam
  Types = {push, issue, spam}
  NoType = NoType
  IgnoreEvents = {spam}
  ExecOnEvents = {push}
  TargetRetries = 2
  Configs <- Options
INVARIANTS
  ClientTypeOK
  BudgetHonoured
PROPERTIES
  CheckpointAfterWork
  DurableNotAbandoned
  GivesUpWhenSpent
  NonDurableFinishes
