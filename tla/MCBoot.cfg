\* Start-up with every kind of request inside the widths of int and long.
CONSTANTS
    Absent = Absent
    MemEnvs <- MCMemEnvs
    FdEnvs <- MCFdEnvs
    IntBits = 6
    LongBits = 10
    RlimValues <- MCRlimValues
    OpenFds = 3
SPECIFICATION Spec
INVARIANT SoftLimitsAsSpecified
