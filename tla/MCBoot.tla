------------------------------- MODULE MCBoot -------------------------------
EXTENDS Boot

\* A numeral with its sign and digits.
Num(neg, ds) == [neg |-> neg, digits |-> ds]

\* Requests within the scaled widths: unset, negative, a number at or
\* below the descriptors already open, and numbers below and above the
\* inherited limits.
MCMemEnvs == {Absent, Num(FALSE, <<1, 0, 0>>), Num(TRUE, <<5>>)}
MCFdEnvs == {Absent, Num(FALSE, <<2>>), Num(FALSE, <<2, 0>>), Num(TRUE, <<1>>)}

\* A MAX_FDS beyond int: 70 is 6 in 6 bits.
MCFdEnvsWide == {Num(FALSE, <<7, 0>>)}

MCRlimValues == {8, 64, 1023}

\* The requests of the run fit int and long (MCFdEnvsWide does not).
ASSUME MCValuesFit ==
    /\ MemEnvs = MCMemEnvs /\ FdEnvs = MCFdEnvs /\ IntBits = 6 /\ LongBits = 10
    => ValuesFit
=============================================================================
