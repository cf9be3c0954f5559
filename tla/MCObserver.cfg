\* One call of either direction; each side sends two requests.
CONSTANTS
  i = i
  b = b
  x = x
  y = y
  w = w
  Requests = {i, b}
  Sends = {x, y}
  Waiters = {w}
  Method <- Methods
  Invite = Invite
  None = None
SPECIFICATION Spec
CHECK_DEADLOCK FALSE
INVARIANTS AwaitHonest AnswerOnRecord LossMeansEnd
PROPERTIES EveryCallEnds
