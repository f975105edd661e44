SPECIFICATION Spec
CONSTANTS
  DEBOUNCE_TIME = 1
  DEBOUNCE_TIME_TOUCH = 1
  POLL_TICKS = 1
  TouchMasks = {{}, {3}}
  RemoteLevels = {254}
  InputsDuringBoot = FALSE
  CanReset = FALSE
  CanReject = FALSE
  MaxInputs = 0
INVARIANT LevelTakesEffect
