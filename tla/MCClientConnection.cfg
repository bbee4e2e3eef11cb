\* Four messages on a connection: the greeting and two more, or a gap and one.
CONSTANTS
  own = own
  other = other
  stranger = stranger
  Keys = {own, other, stranger}
  NoKey = NoKey
  NoType = NoType
  Types <- MCTypes
  Setups <- MCSetups
  Allowed = {own, other}
  Webhooks <- MCWebhooks
  MaxRetryDelay = 4
  IgnoreEvents <- IgnorePushes
  MaxMessages = 4
SPECIFICATION Spec
INVARIANT TypeOK
PROPERTIES CarriesMessages KeepsTrying WrittenIsTaken
\* A client that exited does nothing.
CHECK_DEADLOCK FALSE
