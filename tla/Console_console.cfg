SPECIFICATION MCSpec
CONSTANTS
  MaxEvents = 5
  Choices = {1, 2, 3}
INVARIANTS
  SettledShowsCurrent
  OfferedIsAllowed
  ScreenMatchesSession
CHECK_DEADLOCK FALSE
