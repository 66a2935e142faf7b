\* Three stdin lines of every kind, each string ASCII, not ASCII or throwing.
CONSTANTS
    MaxLines = 3
    Null = Null
    Encodings <- MCEncodings
SPECIFICATION Spec
INVARIANT NoLeak
