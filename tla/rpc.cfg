\* Two goroutines, two calls, and a server that may do anything.
SPECIFICATION Spec
CONSTANTS
  Callers = {c1, c2}
  MaxCalls = 2
  MaxMessages = 2
  Room = 1
INVARIANTS AnswersMatch NoStaleCalls
PROPERTIES CallsReturn ReaderEnds
CHECK_DEADLOCK FALSE
