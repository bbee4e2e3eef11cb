\* Two deliveries, and room for both on a page.
CONSTANTS
  PageSize = 2
  Save = FALSE
  Exec = FALSE
  MaxDeliveries = 2
  TypeOf <- MCTypeOf
  Minute = 2
  MaxTime = 1
SPECIFICATION Spec
INVARIANTS ReplaysAllSince
CHECK_DEADLOCK FALSE
