\* The second JS_FreeCString of invoke_id after a payload was handled.
CONSTANTS
    MaxLines = 3
    Null = Null
    Encodings <- MCEncodings
SPECIFICATION Spec
INVARIANT NoDoubleRelease
