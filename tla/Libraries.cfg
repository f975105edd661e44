SPECIFICATION Spec
CONSTANTS
    DataLen = 2
    Size = 8
    ReadSize = 8
    MaxBoots = 3
    NcHdrLen = 2
    NcDataLen = 1
    NcSize = 11
    NcReadSize = 11
    NcMaxBoots = 2
    MaxMeta = 2
    Payloads = {1, 2}
    MaxImages = 3
    MaxNvsErrors = 2
    MAGIC_SIZE = 2
    ENC_GCM_KEY_SIZE = 3
    IV_SIZE = 2
    BIN_SIZE_DATA = 2
    AUTH_SIZE = 2
    RESERVED_HEADER = 2
    BLOCK = 3
    BinLens = {0, 3, 7, 8}
    Surplus = {0, 1}
    MaxChunk = 24
    MAX_MQTT_SUBSCRIPTIONS = 3
    Topics <- TwoTopics
    MaxPieces = 3
    MaxMessages = 2
INVARIANTS ProbesMatchState NetworkIsCurrent  ReleasesWhatWasSent ArrivesWhole
PROPERTIES PostedInOrder RegistryIsConsistent ImplementsQueue
CHECK_DEADLOCK FALSE
