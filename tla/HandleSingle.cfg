SPECIFICATION Spec
CONSTANTS
  Sender = {m}
  Receiver = {m}
  Closer = {m}
  Timed = {FALSE}
  MaxEvents = 3
  MaxCommands = 2
  NoThread = NoThread
  None = None
INVARIANTS OwnReply
PROPERTIES EventRefinement SendRecvTerminates
CHECK_DEADLOCK FALSE
