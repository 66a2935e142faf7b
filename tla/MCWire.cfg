\* The codec on inputs that need escaping and truncation.
CONSTANTS
    WorkerIds <- MCWorkerIds
    Ids <- MCIds
    Levels <- MCLevels
    Messages <- MCMessages
    Errors <- MCErrors
    NullText = NullText
    Codes <- MCCodes
    Statuses <- MCStatuses
    HeaderTexts <- MCHeaderTexts
    Bodies <- MCBodies
    LogEscCap = 4
    LogCap = 64
    ErrCap = 64
    BodyEscCap = 8
    RespCap = 128
    MaxRecords = 3
SPECIFICATION Spec
INVARIANT WireFaithful
