SPECIFICATION Spec
CONSTANTS
  Sender = {m}
  Receiver = {m}
  Closer = {m}
  Timed = {TRUE}
  MaxEvents = 1
  MaxCommands = 2
  NoThread = NoThread
  None = None
INVARIANT TimedPollsOnce
CHECK_DEADLOCK FALSE
