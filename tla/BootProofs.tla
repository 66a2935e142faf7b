----------------------------- MODULE BootProofs -----------------------------
(***************************************************************************)
(* Proofs about Boot for every value of its constants.                    *)
(***************************************************************************)
EXTENDS Boot, TLAPS

-----------------------------------------------------------------------------
(* The soft limits.                                                        *)

\* What setup_capabilities stored for a resource: max_memory for the
\* address space, max_fds for open files.
Granted(r) == IF r = "as" THEN caps.max_memory ELSE caps.max_fds

\* The stage at which enforce_resource_limits has handled a resource.
Enforced(r) ==
    IF r = "as" THEN pc \notin {"caps", "mem"} ELSE pc \notin {"caps", "mem", "fds"}

\* Inductive invariant for SoftLimitsAsSpecified, in terms of what the code
\* read: caps holds atol and atoi of the variables from the first step on;
\* a resource not yet handled has its inherited soft limit and no failure;
\* a handled one has min(request, hard), or its inherited limit when the
\* request was not positive or setrlimit failed.
SoftInv ==
    /\ pc \in Stages \cup {"opened", "exit"}
    /\ env.MAX_MEMORY \in MemEnvs /\ env.MAX_FDS \in FdEnvs
    /\ limit0 \in [Resources -> [soft : Int, hard : Int]]
    /\ soft = [r \in Resources |-> soft[r]]
    /\ failed \subseteq Resources
    /\ pc # "caps" =>
          /\ caps.max_memory = IF env.MAX_MEMORY = Absent THEN 0 ELSE Atol(env.MAX_MEMORY)
          /\ caps.max_fds = IF env.MAX_FDS = Absent THEN 0 ELSE Atoi(env.MAX_FDS)
    /\ \A r \in Resources :
          IF Enforced(r)
          THEN \/ Granted(r) > 0 /\ r \notin failed /\ soft[r] = MinOf(Granted(r), limit0[r].hard)
               \/ Granted(r) > 0 /\ r \in failed /\ soft[r] = limit0[r].soft
               \/ ~(Granted(r) > 0) /\ r \notin failed /\ soft[r] = limit0[r].soft
          ELSE r \notin failed /\ soft[r] = limit0[r].soft

LEMMA SoftInvInit == Init => SoftInv
<1> SUFFICES ASSUME Init PROVE SoftInv
    OBVIOUS
<1>1. PICK l \in [Resources -> [soft : RlimValues, hard : RlimValues]] :
            limit0 = l /\ soft = [r \in Resources |-> l[r].soft]
    BY DEF Init
<1>2. RlimValues \subseteq Int
    BY BootAssumption
<1>3. limit0 \in [Resources -> [soft : Int, hard : Int]] /\ soft = [r \in Resources |-> soft[r]]
    BY <1>1, <1>2 DEF Resources
<1>. QED
    BY <1>1, <1>3 DEF Init, SoftInv, Enforced, Stages, Following

\* Only the two blocks of enforce_resource_limits touch soft and failed,
\* each for its own resource; setup_capabilities fixes caps before either.
LEMMA SoftInvNext == SoftInv /\ [Next]_vars => SoftInv'
<1> SUFFICES ASSUME SoftInv, [Next]_vars PROVE SoftInv'
    OBVIOUS
<1>1. CASE SetupCapabilities
    BY <1>1 DEF SetupCapabilities, Advance, SoftInv, Enforced, Granted, Stages, Following
<1>2. CASE EnforceMemory
    <2>1. pc = "mem" /\ pc' = "fds" /\ Enforced("as")' /\ ~Enforced("nofile")'
          /\ ~Enforced("nofile")
        BY <1>2 DEF EnforceMemory, Enforce, Advance, Following, Enforced
    <2>2. UNCHANGED <<env, caps, limit0>> /\ Granted("as")' = Granted("as")
        BY <1>2 DEF EnforceMemory, Enforce, Granted
    <2>3. /\ soft' = [r \in Resources |-> soft'[r]] /\ failed' \subseteq Resources
          /\ soft'["nofile"] = soft["nofile"]
          /\ ("nofile" \in failed' <=> "nofile" \in failed)
        BY <1>2, <2>2 DEF EnforceMemory, Enforce, MinOf, SoftInv, Resources
    <2>4. "as" \notin failed /\ soft["as"] = limit0["as"].soft
        BY <1>2 DEF EnforceMemory, SoftInv, Enforced, Resources
    <2>5. \/ Granted("as") > 0 /\ "as" \notin failed' /\ soft'["as"] = MinOf(Granted("as"), limit0["as"].hard)
          \/ Granted("as") > 0 /\ "as" \in failed' /\ soft'["as"] = limit0["as"].soft
          \/ ~(Granted("as") > 0) /\ "as" \notin failed' /\ soft'["as"] = limit0["as"].soft
        BY <1>2, <2>4 DEF EnforceMemory, Enforce, SoftInv, Granted, Resources
    <2>. QED
        BY <2>1, <2>2, <2>3, <2>5 DEF SoftInv, Stages, Following, Resources, Granted
<1>3. CASE EnforceFds
    <2>1. pc = "fds" /\ pc' = "runtime" /\ Enforced("as")' /\ Enforced("nofile")'
          /\ Enforced("as") /\ ~Enforced("nofile")
        BY <1>3 DEF EnforceFds, Enforce, Advance, Following, Enforced
    <2>2. UNCHANGED <<env, caps, limit0>> /\ Granted("nofile")' = Granted("nofile")
          /\ Granted("as")' = Granted("as")
        BY <1>3 DEF EnforceFds, Enforce, Granted
    <2>3. /\ soft' = [r \in Resources |-> soft'[r]] /\ failed' \subseteq Resources
          /\ soft'["as"] = soft["as"]
          /\ ("as" \in failed' <=> "as" \in failed)
        BY <1>3, <2>2 DEF EnforceFds, Enforce, MinOf, SoftInv, Resources
    <2>4. "nofile" \notin failed /\ soft["nofile"] = limit0["nofile"].soft
        BY <1>3, <2>1 DEF SoftInv, Resources
    <2>5. \/ Granted("nofile") > 0 /\ "nofile" \notin failed'
             /\ soft'["nofile"] = MinOf(Granted("nofile"), limit0["nofile"].hard)
          \/ Granted("nofile") > 0 /\ "nofile" \in failed' /\ soft'["nofile"] = limit0["nofile"].soft
          \/ ~(Granted("nofile") > 0) /\ "nofile" \notin failed'
             /\ soft'["nofile"] = limit0["nofile"].soft
        BY <1>3, <2>4 DEF EnforceFds, Enforce, SoftInv, Granted, Resources
    <2>6. \/ Granted("as") > 0 /\ "as" \notin failed /\ soft["as"] = MinOf(Granted("as"), limit0["as"].hard)
          \/ Granted("as") > 0 /\ "as" \in failed /\ soft["as"] = limit0["as"].soft
          \/ ~(Granted("as") > 0) /\ "as" \notin failed /\ soft["as"] = limit0["as"].soft
        BY <2>1 DEF SoftInv, Resources
    <2>. QED
        BY <2>1, <2>2, <2>3, <2>5, <2>6 DEF SoftInv, Stages, Following, Resources, Granted
<1>4. CASE NewEngine
    BY <1>4 DEF NewEngine, SoftInv, Enforced, Granted, Stages, Following
<1>5. CASE InstallShim
    BY <1>5 DEF InstallShim, Shims, Advance, SoftInv, Enforced, Granted, Stages, Following
<1>6. CASE InstallConsole
    BY <1>6 DEF InstallConsole, Advance, SoftInv, Enforced, Granted, Stages, Following
<1>7. CASE RemoveEval
    BY <1>7 DEF RemoveEval, Advance, SoftInv, Enforced, Granted, Stages, Following
<1>8. CASE OpenBundle
    BY <1>8 DEF OpenBundle, SoftInv, Enforced, Granted, Stages, Following
<1>9. CASE Stopped
    BY <1>9 DEF Stopped, vars, SoftInv, Enforced, Granted
<1>10. CASE UNCHANGED vars
    BY <1>10 DEF vars, SoftInv, Enforced, Granted
<1>. QED
    BY <1>1, <1>2, <1>3, <1>4, <1>5, <1>6, <1>7, <1>8, <1>9, <1>10 DEF Next

\* atol is exact on a number within long.
LEMMA AtolExact ==
    ASSUME NEW e, Value(e) \in LongMin..LongMax
    PROVE  Atol(e) = Value(e)
<1>1. LongMax \in Int /\ LongMin \in Int
    BY BootAssumption DEF LongMax, LongMin
<1>. QED
    BY <1>1 DEF Atol

\* atoi is exact on a number within int: the wrap to IntBits bits gives
\* the number back.
LEMMA AtoiExact ==
    ASSUME NEW e, Value(e) \in LongMin..LongMax, Value(e) \in -IntHalf..(IntHalf - 1)
    PROVE  Atoi(e) = Value(e)
<1>1. IntHalf \in Int
    BY BootAssumption DEF IntHalf
<1>2. Atol(e) = Value(e)
    BY AtolExact
<1>. QED
    BY <1>1, <1>2 DEF Atoi

\* Spec 4.1 for every width, inherited limit and environment whose numbers
\* fit int and long: once enforce_resource_limits has run, a positive
\* MAX_MEMORY or MAX_FDS is the soft limit capped at the hard one unless
\* setrlimit failed, and anything else leaves the inherited limit.
THEOREM SoftLimitsHold == ValuesFit => (Spec => []SoftLimitsAsSpecified)
<1> SUFFICES ASSUME ValuesFit PROVE Spec => []SoftLimitsAsSpecified
    OBVIOUS
<1>1. SoftInv => SoftLimitsAsSpecified
    <2> SUFFICES ASSUME SoftInv, pc \notin {"caps", "mem", "fds"}
                 PROVE  SoftLimitsAsSpecified
        BY DEF SoftLimitsAsSpecified
    <2>1. Requested(env.MAX_MEMORY) = Granted("as") /\ Requested(env.MAX_MEMORY) \in Int
        <3>1. CASE env.MAX_MEMORY = Absent
            BY <3>1 DEF SoftInv, Requested, Granted
        <3>2. CASE env.MAX_MEMORY # Absent
            BY <3>2, AtolExact DEF ValuesFit, SoftInv, Requested, Granted
        <3>. QED
            BY <3>1, <3>2
    <2>2. Requested(env.MAX_FDS) = Granted("nofile") /\ Requested(env.MAX_FDS) \in Int
        <3>1. CASE env.MAX_FDS = Absent
            BY <3>1 DEF SoftInv, Requested, Granted
        <3>2. CASE env.MAX_FDS # Absent
            BY <3>2, AtoiExact DEF ValuesFit, SoftInv, Requested, Granted
        <3>. QED
            BY <3>1, <3>2
    <2>3. Enforced("as") /\ Enforced("nofile")
        BY DEF Enforced
    <2>. QED
        BY <2>1, <2>2, <2>3 DEF SoftInv, SoftLimitsAsSpecified, Resources
<1>. QED
    BY <1>1, SoftInvInit, SoftInvNext, PTL DEF Spec

=============================================================================
