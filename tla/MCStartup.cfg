SPECIFICATION Spec
CONSTANTS
  Invocations <- MCInvocations
  Secrets <- MCSecrets
  Allowed <- MCAllowed
  Addresses <- MCAddresses
  Requests <- MCRequests
  MaxAttempts = 2
  Files <- MCFiles
  Channels = {"one", "two", "three"}
  KeyOf <- MCKeyOf
  Gets <- MCGets
INVARIANTS
  TypeOK
  Precedence
  MistakeStopsAll
  ArgumentPrecedence
  ClientHasWork
  ReadersAreNamed
  OnlyGenuine
  GenuineTaken
\* A command that failed or is done has ended, and a client or a replay goes on in
\* another module.
CHECK_DEADLOCK FALSE
