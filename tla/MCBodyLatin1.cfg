CONSTANTS
    Bytes = {65, 200}
    Units = {65}
    MaxBody = 1
    MaxResp = 0
    TplCap = 12
    TplBase = 2
    EncCap = 16
    EscCap = 16
    NoBody = NoBody

SPECIFICATION Spec

INVARIANT RoundTrip
