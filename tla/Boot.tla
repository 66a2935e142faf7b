-------------------------------- MODULE Boot --------------------------------
(***************************************************************************)
(* Start-up of the worker up to the opening of the bundle (main): the      *)
(* capability set read from the environment (setup_capabilities), the      *)
(* address-space and open-file soft limits (enforce_resource_limits), the   *)
(* engine runtime and context, the guest scripts that install the shims     *)
(* and the console bridge, the removal of eval and Function, and the        *)
(* fopen of the bundle.  What load_bundle does after the fopen is the        *)
(* Worker module's.                                                          *)
(*                                                                         *)
(* MAX_MEMORY is converted with atol (a long of LongBits bits: strtol       *)
(* saturates on overflow) and MAX_FDS with atoi (glibc: (int) strtol, so    *)
(* the long is truncated to IntBits bits).  rlim_t is unsigned of LongBits  *)
(* bits and RLIM_INFINITY is its largest value.  A script evaluation or an  *)
(* engine allocation can fail only for lack of memory, which the model      *)
(* allows once the address space is limited.                                *)
(***************************************************************************)
EXTENDS Integers, Sequences

CONSTANTS
    Absent,     \* an environment variable that is not set
    MemEnvs,    \* values MAX_MEMORY may have: Absent or a decimal numeral
    FdEnvs,     \* values MAX_FDS may have
    IntBits,    \* width of int
    LongBits,   \* width of long and rlim_t
    RlimValues, \* soft and hard limits the worker may inherit
    OpenFds     \* descriptors open when the bundle is opened (0, 1, 2)

\* A decimal numeral: a sign and its digits, most significant first.
Numerals == [neg : BOOLEAN, digits : Seq(0..9)]

ASSUME BootAssumption ==
    /\ IntBits \in Nat \ {0}
    /\ LongBits \in Nat /\ LongBits >= IntBits
    /\ MemEnvs \cup FdEnvs \subseteq Numerals \cup {Absent}
    /\ RlimValues \subseteq 0..(2^LongBits - 1)
    /\ OpenFds \in Nat

\* Half the range of int: 2^IntBits is twice it, INT_MIN is its negation.
IntHalf == 2^(IntBits - 1)

Infinity == 2^LongBits - 1
LongMax == 2^(LongBits - 1) - 1
LongMin == -(2^(LongBits - 1))

\* The number a numeral denotes.
Value(e) ==
    LET f[i \in 0..Len(e.digits)] == IF i = 0 THEN 0 ELSE 10 * f[i - 1] + e.digits[i]
    IN  IF e.neg THEN -f[Len(e.digits)] ELSE f[Len(e.digits)]

\* atol: strtol in base 10, saturated at the bounds of long.
Atol(e) ==
    IF Value(e) > LongMax THEN LongMax
    ELSE IF Value(e) < LongMin THEN LongMin ELSE Value(e)

\* atoi: the long truncated to int.
Atoi(e) ==
    LET v == Atol(e) % (2 * IntHalf)
    IN  IF v >= IntHalf THEN v - 2 * IntHalf ELSE v

MinOf(a, b) == IF a < b THEN a ELSE b

Resources == {"as", "nofile"}
Shims == {"base64", "url", "response", "request"}

\* The boot steps of main, each with the one after it.
Following ==
    [caps |-> "mem", mem |-> "fds", fds |-> "runtime", runtime |-> "context",
     context |-> "base64", base64 |-> "url", url |-> "response",
     response |-> "request", request |-> "console", console |-> "eval",
     eval |-> "open", open |-> "opened"]

Stages == DOMAIN Following

VARIABLES
    pc,         \* a stage, or "opened" / "exit"
    env,        \* MAX_MEMORY, MAX_FDS and whether ALLOW_EVAL is set
    caps,       \* the capability set
    limit0,     \* the soft and hard limits the worker inherited
    soft,       \* the current soft limit of each resource
    failed,     \* the resources whose setrlimit failed
    shims,      \* the shims whose script ran without an exception
    console,    \* what console.log reaches: "none", "stdout" (quickjs-libc's
                \* print) or "log" (__bunbase_log, a log record)
    bindings    \* which of eval and Function the global object still has

vars == <<pc, env, caps, limit0, soft, failed, shims, console, bindings>>

Advance == pc' = Following[pc]

\* An allocation of the engine may fail once memory is limited.
Outcomes == IF soft["as"] < Infinity THEN BOOLEAN ELSE {TRUE}

Init ==
    /\ pc = "caps"
    /\ \E m \in MemEnvs, f \in FdEnvs, ev \in BOOLEAN :
          env = [MAX_MEMORY |-> m, MAX_FDS |-> f, ALLOW_EVAL |-> ev]
    /\ \E l \in [Resources -> [soft : RlimValues, hard : RlimValues]] :
          /\ \A r \in Resources : l[r].soft <= l[r].hard
          /\ limit0 = l
          /\ soft = [r \in Resources |-> l[r].soft]
    /\ caps = [max_memory |-> 0, max_fds |-> 0, allow_eval |-> FALSE]
    /\ failed = {}
    /\ shims = {}
    /\ console = "none"
    /\ bindings = {"eval", "Function"}

\* setup_capabilities: presence flags and the two numbers.
SetupCapabilities ==
    /\ pc = "caps"
    /\ caps' = [max_memory |-> IF env.MAX_MEMORY = Absent THEN 0 ELSE Atol(env.MAX_MEMORY),
                max_fds |-> IF env.MAX_FDS = Absent THEN 0 ELSE Atoi(env.MAX_FDS),
                allow_eval |-> env.ALLOW_EVAL]
    /\ Advance
    /\ UNCHANGED <<env, limit0, soft, failed, shims, console, bindings>>

\* Mutant: the request is not capped at the hard limit.
EnforceUncapped(r, request) ==
    /\ IF request > 0
       THEN \E ok \in BOOLEAN :
              /\ soft' = IF ok THEN [soft EXCEPT ![r] = request] ELSE soft
              /\ failed' = IF ok THEN failed ELSE failed \cup {r}
       ELSE UNCHANGED <<soft, failed>>
    /\ Advance
    /\ UNCHANGED <<env, caps, limit0, shims, console, bindings>>

\* One block of enforce_resource_limits: the soft limit becomes the request,
\* capped at the hard limit, unless setrlimit fails (a warning on stderr).
Enforce(r, request) ==
    /\ IF request > 0
       THEN \E ok \in BOOLEAN :
              /\ soft' = IF ok THEN [soft EXCEPT ![r] = MinOf(request, limit0[r].hard)]
                         ELSE soft
              /\ failed' = IF ok THEN failed ELSE failed \cup {r}
       ELSE UNCHANGED <<soft, failed>>
    /\ Advance
    /\ UNCHANGED <<env, caps, limit0, shims, console, bindings>>

EnforceMemory == pc = "mem" /\ Enforce("as", caps.max_memory)

EnforceFds == pc = "fds" /\ Enforce("nofile", caps.max_fds)

\* JS_NewRuntime, then JS_NewContext with js_std_add_helpers (whose
\* console.log prints to stdout); a NULL result exits with status 1.
NewEngine ==
    /\ pc \in {"runtime", "context"}
    /\ \E ok \in Outcomes :
          pc' = IF ok THEN Following[pc] ELSE "exit"
    /\ console' = IF pc = "context" THEN "stdout" ELSE console
    /\ UNCHANGED <<env, caps, limit0, soft, failed, shims, bindings>>

\* add_base64_polyfills and the three scripts of add_web_apis: an exception
\* is a warning on stderr and start-up goes on.
InstallShim ==
    /\ pc \in Shims
    /\ \E ok \in Outcomes :
          shims' = IF ok THEN shims \cup {pc} ELSE shims
    /\ Advance
    /\ UNCHANGED <<env, caps, limit0, soft, failed, console, bindings>>

\* add_console_override: __bunbase_log and the script that replaces
\* globalThis.console; an exception leaves quickjs-libc's console.
InstallConsole ==
    /\ pc = "console"
    /\ \E ok \in Outcomes :
          console' = IF ok THEN "log" ELSE console
    /\ Advance
    /\ UNCHANGED <<env, caps, limit0, soft, failed, shims, bindings>>

\* Without ALLOW_EVAL, eval and Function are deleted from the global object.
RemoveEval ==
    /\ pc = "eval"
    /\ bindings' = IF caps.allow_eval THEN bindings ELSE {}
    /\ Advance
    /\ UNCHANGED <<env, caps, limit0, soft, failed, shims, console>>

\* fopen of the bundle needs a descriptor below the open-file soft limit;
\* failing, main sends a BUNDLE_LOAD_ERROR record and exits with status 1.
OpenBundle ==
    /\ pc = "open"
    /\ pc' = IF soft["nofile"] > OpenFds THEN "opened" ELSE "exit"
    /\ UNCHANGED <<env, caps, limit0, soft, failed, shims, console, bindings>>

Stopped ==
    /\ pc \in {"opened", "exit"}
    /\ UNCHANGED vars

Next ==
    \/ SetupCapabilities \/ EnforceMemory \/ EnforceFds \/ NewEngine
    \/ InstallShim \/ InstallConsole \/ RemoveEval \/ OpenBundle \/ Stopped

Spec == Init /\ [][Next]_vars

-----------------------------------------------------------------------------
(* Properties.                                                             *)

\* The request the spec reads from a variable: its decimal value, 0 (unset)
\* when absent.
Requested(e) == IF e = Absent THEN 0 ELSE Value(e)

\* Every number the environment may hold fits the type that setup_capabilities
\* converts it to: MAX_MEMORY a long, MAX_FDS an int (and so a long).
ValuesFit ==
    /\ \A e \in MemEnvs \ {Absent} : Value(e) \in LongMin..LongMax
    /\ \A e \in FdEnvs \ {Absent} :
          Value(e) \in LongMin..LongMax /\ Value(e) \in -IntHalf..(IntHalf - 1)

\* Spec 4.1: once enforce_resource_limits has run, a resource whose
\* variable holds a positive decimal number N has the soft limit
\* min(N, hard), unless setrlimit failed; any other resource keeps the
\* soft limit the worker inherited.  It depends on atol and atoi
\* converting the variable without loss.
SoftLimitsAsSpecified ==
    pc \notin {"caps", "mem", "fds"} =>
        \A r \in Resources :
            LET n == Requested(IF r = "as" THEN env.MAX_MEMORY ELSE env.MAX_FDS)
            IN  \/ n > 0 /\ r \notin failed /\ soft[r] = MinOf(n, limit0[r].hard)
                \/ n > 0 /\ r \in failed /\ soft[r] = limit0[r].soft
                \/ n <= 0 /\ soft[r] = limit0[r].soft

\* Spec 3 and 4.2: guest console output reaches the supervisor only as
\* log records; when the bundle is opened, console.log is the bridge to
\* __bunbase_log, not quickjs-libc's print to stdout.
ConsoleCaptured ==
    pc = "opened" => console = "log"

=============================================================================
