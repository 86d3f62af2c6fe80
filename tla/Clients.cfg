SPECIFICATION Spec
CONSTANTS
  MaxFds = 3
  MaxUnits = 7
  BodyUnits = 3
  Timeouts = {0, 1}
  Served <- MCServed
  Callers = {"c"}
  MaxFd = 3
  MaxCommands = 2
  MaxEvents = 2
  HeaderNames = {"priority", "x"}
  Parts = {"a", ""}
  MaxHeaders = 3
  MaxElements = 2
  Indices = {0, 1}
INVARIANTS ListSound CopiesSettle VerdictIsOwn StarvesOnStale NothingLeaks ClosesOwn AnswersOwn WordsDecide
PROPERTIES ListRefinement MainConnects ReadsTrees
CHECK_DEADLOCK FALSE
