CONSTANTS
    Chars <- MCChars
    Ids <- MCIds
    IdCap = 2
    MaxLines = 3
    MaxJobs = 1
    WorkerId = WorkerId
    BundleTag = BundleTag
    LoadTag = LoadTag
    NoId = NoId

SPECIFICATION Spec

INVARIANT TypeOK
INVARIANT RepliesMatchInvokes
INVARIANT LogTagging
INVARIANT SlotMatchesFrame
INVARIANT StdoutShape
