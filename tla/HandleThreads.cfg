SPECIFICATION Spec
CONSTANTS
  Sender = {s}
  Receiver = {r}
  Closer = {c, r}
  Timed = {FALSE, TRUE}
  MaxEvents = 2
  MaxCommands = 1
  NoThread = NoThread
  None = None
INVARIANTS LockBalanced EventsConserved LateCallsSafe
PROPERTIES PurgedUntouched DisconnectTerminates
CHECK_DEADLOCK FALSE
