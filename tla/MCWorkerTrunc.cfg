CONSTANTS
    Chars <- MCChars
    Ids <- MCIds
    IdCap = 1
    MaxLines = 3
    MaxJobs = 1
    WorkerId = WorkerId
    BundleTag = BundleTag
    LoadTag = LoadTag
    NoId = NoId

SPECIFICATION Spec

INVARIANT LogTagging
