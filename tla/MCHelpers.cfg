\* Two tests with resources that depend on each other, three users of one prompt,
\* three recorded legs, two transcriptions; the shortest tones and those on both sides
\* of the uint16 limit, supported and unsupported digits, a silence loop beside.
CONSTANTS
  l1 = l1
  l2 = l2
  l3 = l3
  t1 = t1
  t2 = t2
  t3 = t3
  carrier = carrier
  number = number
  gateway = gateway
  account = account
  app = app
  Tests = {t1, t2}
  Resources = {carrier, number, gateway, account, app}
  Plan <- Plans
  Parent <- Parents
  Cascades = {carrier}
  Users = {t1, t2, t3}
  Length <- Lengths
  Hole = Hole
  Absent = Absent
  Legs = {l1, l2, l3}
  Owners = {t1, t2}
  TestOf <- TwoTests
  RoleOf <- SameRole
  Dir <- OwnDirs
  Stale = Stale
  None = None
  Uploaders = {t1, t2}
  MaxBudget = 3
  Alphabet = {"1", "b", "x"}
  MaxDigits = 2
  PerTones = {20, 40, 8180, 8200}
  MaxSilence = 2
  SilenceUntil = 4
SPECIFICATION Spec
CHECK_DEADLOCK FALSE
INVARIANTS SettledWhole LegsKept OneHangForgiven LeaksHaveCause DigitsHeard EventsWellFormed
