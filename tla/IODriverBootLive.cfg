SPECIFICATION FairSpec
CONSTANTS
  DEBOUNCE_TIME = 0
  DEBOUNCE_TIME_TOUCH = 0
  POLL_TICKS = 0
  TouchMasks = {{3}}
  RemoteLevels = {}
  InputsDuringBoot = TRUE
  CanReset = FALSE
  CanReject = FALSE
  MaxInputs = 2
PROPERTIES PressSwitches BootFinishes
