\* A console override that fails under the memory limit.
CONSTANTS
    Absent = Absent
    MemEnvs <- MCMemEnvs
    FdEnvs <- MCFdEnvs
    IntBits = 6
    LongBits = 10
    RlimValues <- MCRlimValues
    OpenFds = 3
SPECIFICATION Spec
INVARIANT ConsoleCaptured
