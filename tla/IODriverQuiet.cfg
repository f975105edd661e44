SPECIFICATION Spec
CONSTANTS
  DEBOUNCE_TIME = 0
  DEBOUNCE_TIME_TOUCH = 0
  POLL_TICKS = 1
  TouchMasks = {{}, {3}}
  RemoteLevels = {254}
  InputsDuringBoot = FALSE
  CanReset = TRUE
  CanReject = FALSE
  MaxInputs = 4
INVARIANT TypeOK
INVARIANT OffIsDark
INVARIANT LevelFollowsAttribute
PROPERTY BootAppliesDefaults
