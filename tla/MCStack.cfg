\* Two legs of either direction, two goroutines calling Stop.
CONSTANTS
  Calls = {c1, c2}
  Stoppers = {s1, s2}
  RegisterAttempts = 3
SPECIFICATION Spec
CHECK_DEADLOCK FALSE
INVARIANTS OnlyLateCallsUndrained
PROPERTIES CancelledCallsEnd StopEnds
