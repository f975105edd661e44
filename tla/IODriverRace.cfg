SPECIFICATION Spec
CONSTANTS
  DEBOUNCE_TIME = 0
  DEBOUNCE_TIME_TOUCH = 0
  POLL_TICKS = 1
  TouchMasks = {{3}}
  RemoteLevels = {254}
  InputsDuringBoot = TRUE
  CanReset = TRUE
  MaxInputs = 2
  CanReject = TRUE
INVARIANTS ShadowHeals DelayInRange RelayFollowsOnOff
PROPERTY ImplementsPowerSwitch
