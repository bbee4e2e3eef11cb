\* Four deliveries within three seconds, pages of two, all stages.
CONSTANTS
  PageSize = 2
  Save = TRUE
  Exec = TRUE
  MaxDeliveries = 4
  TypeOf <- MCTypeOf
  Minute = 2
  MaxTime = 2
SPECIFICATION Spec
INVARIANTS TypeOK OldestFirstOnce PassedOverOnlyNearby LostOnlyToNamesake
PROPERTIES NewOnesAreTried
\* The command may end.
CHECK_DEADLOCK FALSE
