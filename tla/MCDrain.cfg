\* Two calls that may be revived, with Hangups that may wedge or panic.
CONSTANT Draining = {c1, c2}
SPECIFICATION DrainSpec
CHECK_DEADLOCK FALSE
INVARIANT NoEarlyGiveUp
PROPERTIES ImplementsDrain BoundedByTotal PromptWhenEnded
