SPECIFICATION FairSpec
CONSTANTS
  DEBOUNCE_TIME = 0
  DEBOUNCE_TIME_TOUCH = 1
  POLL_TICKS = 1
  TouchMasks = {{3}}
  RemoteLevels = {}
  InputsDuringBoot = FALSE
  CanReset = FALSE
  CanReject = FALSE
  MaxInputs = 0
PROPERTY InputsAreServed
