\* Where a connection may end and end the client.
CONSTANTS
  own = own
  other = other
  stranger = stranger
  Keys = {own, other, stranger}
  NoKey = NoKey
  NoType = NoType
  Types <- MCTypes
  Setups <- MCSetups
  Allowed = {own, other}
  Webhooks <- MCWebhooks
  MaxRetryDelay = 4
  IgnoreEvents <- IgnorePushes
  MaxMessages = 4
SPECIFICATION Spec
INVARIANT RetriesIndefinitely
\* A client that exited does nothing.
CHECK_DEADLOCK FALSE
