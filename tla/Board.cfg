SPECIFICATION Spec
CONSTANTS
    Delays = {1, 2, 3, 4, 5}
    HalfPeriods = {4, 5}
    Modulus = 16
    DEBOUNCE_TIME = 5
    DEBOUNCE_TIME_TOUCH = 3
    PollTicks = 3
    Resolutions = {0, 2, 3, 20, 100}
    LedLevels <- AllLedLevels
    FadeLevels = {0, 1, 2, 50, 70, 99, 100}
    DebounceTicks = 3
    ShortTicks = 3
    SerialTicks = 2
    long_press_ticks = 4
    short_press_ticks = 2
    TickMod = 16
    MaxPresses = 4
    Channels = {0, 3}
    Keys = {0, 1}
    MaxChannels = 2
    MaxList = 2
INVARIANTS BarShowsLevel FiresAtDelay LevelsAddUp ButtonsHaveSlots
PROPERTIES EdgesAreJudged ClicksCountPresses
CHECK_DEADLOCK FALSE
