CONSTANTS
    Bytes = {0, 127, 128, 255}
    Units = {0, 65, 200}
    MaxBody = 4
    MaxResp = 5
    TplCap = 12
    TplBase = 2
    EncCap = 16
    EscCap = 16
    NoBody = NoBody

SPECIFICATION Spec

INVARIANT TypeOK
INVARIANT BufferFits
INVARIANT RequestBodyExact
INVARIANT ResponseFaithful
