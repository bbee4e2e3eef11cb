\* Three readers of the protected channel and two posts to it.  Every actor may stop for
\* good once its bounded work is done, so the end of a behaviour is not a deadlock.
SPECIFICATION Spec
CONSTANTS
  open = open
  guarded = guarded
  h1 = h1
  h2 = h2
  h3 = h3
  h4 = h4
  p1 = p1
  p2 = p2
  k1 = k1
  k2 = k2
  k3 = k3
  Channels = {open, guarded}
  Handlers = {h1, h2, h3}
  Request <- MCRequest
  Publishers = {p1, p2}
  PostsTo <- MCPostsTo
  Keys = {k1, k2, k3}
  NoKey = NoKey
  Allowed <- MCAllowed
  BufferSize = 1
  MaxPosts <- OrderPosts
CHECK_DEADLOCK FALSE
INVARIANTS
  TypeOK
  RegistryMatchesRequests
  SourceOrder
  AcceptedReachesGreeted
PROPERTIES
  PublisherNeverBlocks
  QueuedIsWritten
  StreamEndIsCleanedUp
