\* An exception text with a quote, through send_error.
CONSTANTS
    WorkerIds <- MCWorkerIds
    Ids <- MCIds
    Levels <- MCLevels
    Messages <- MCMessages
    Errors <- MCErrorsQuote
    NullText = NullText
    Codes <- MCCodes
    Statuses <- MCStatuses
    HeaderTexts <- MCHeaderTexts
    Bodies <- MCBodies
    LogEscCap = 4
    LogCap = 64
    ErrCap = 64
    BodyEscCap = 8
    RespCap = 128
    MaxRecords = 1
SPECIFICATION Spec
INVARIANT WireFaithful
