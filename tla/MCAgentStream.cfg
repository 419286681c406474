SPECIFICATION FairSpec
CONSTANTS
  Fds <- MCFds
  hash_fd <- MChash
  Kind <- MCKind
  Streams <- MCStreams
  Me = 1
  Base = 2
  QueueSize = 2
INVARIANTS FramingExact TurnIsTaken
PROPERTIES SerialSpec Handled
CHECK_DEADLOCK FALSE
