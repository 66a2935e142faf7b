------------------------------- MODULE Worker -------------------------------
(***************************************************************************)
(* The QuickJS worker of src/functions/cmd/quickjs-worker/main.c: start-up *)
(* (main), bundle loading (load_bundle), the NDJSON dispatch loop          *)
(* (process_messages / execute_handler), the console bridge                *)
(* (js_bunbase_log) and the async bridge js_std_await that drives the      *)
(* engine's job queue, together with the supervisor that writes stdin.    *)
(*                                                                         *)
(* Data is abstracted to what the properties tell apart: an invocation id *)
(* is a short sequence of characters (so that the 63-byte copy into       *)
(* current_invoke_id can truncate it), a request is the set of facts that *)
(* decide which path execute_handler takes, and guest JavaScript is a     *)
(* nondeterministic choice of console calls, queued jobs and results.     *)
(***************************************************************************)
EXTENDS Naturals, Sequences, FiniteSets

CONSTANTS
    Chars,      \* characters invocation ids are made of
    Ids,        \* the invocation ids the supervisor sends
    IdCap,      \* sizeof(current_invoke_id) - 1, 63 in the code
    MaxLines,   \* lines the supervisor writes before it closes stdin
    MaxJobs,    \* guest jobs queued, beyond the ones that settle a promise
    WorkerId,   \* worker_id, the id of the ready record
    BundleTag,  \* the id "bundle" given to logs outside an invocation
    LoadTag,    \* the id "bundle-load" of the load failure record
    NoId        \* no invocation is being executed

ASSUME WorkerAssumption ==
    /\ \A i \in Ids : i \in Seq(Chars)
    /\ IdCap \in Nat \ {0}
    /\ MaxLines \in Nat
    /\ MaxJobs \in Nat
    /\ {WorkerId, BundleTag, LoadTag, NoId} \cap Ids = {}

VARIABLES
    pc,        \* control point of the worker's single thread
    stdin,     \* lines written by the supervisor and not yet read
    written,   \* number of lines the supervisor has written
    eof,       \* the supervisor has closed stdin
    out,       \* the records written to stdout, in order
    curId,     \* current_invoke_id
    serving,   \* invoke_id of the execute_handler frame, or NoId
    jobs,      \* the engine's pending job queue
    spawned,   \* guest jobs queued so far (bounded by MaxJobs)
    promise,   \* state of the promise js_std_await is driving
    handler,   \* handler_func: which export was retained
    consumed   \* ghost: ids of the invoke records read, in order

vars == <<pc, stdin, written, eof, out, curId, serving, jobs, spawned,
          promise, handler, consumed>>

-----------------------------------------------------------------------------
(* Records and helpers.                                                    *)

\* A stdin line: one that process_messages drops (blank, not JSON, a type
\* other than "invoke"), or an invoke record.  hasPayload: the payload
\* field is present; reqThrows: evaluating the request template throws.
Lines ==
    [kind : {"ignored"}]
      \cup [kind : {"invoke"}, id : Ids, hasPayload : BOOLEAN,
            reqThrows : BOOLEAN]

\* strncpy(current_invoke_id, invoke_id, sizeof - 1): at most IdCap chars.
SetCur(id) == SubSeq(id, 1, IF Len(id) > IdCap THEN IdCap ELSE Len(id))

\* The id js_bunbase_log gives a log record.
Tag(cur) == IF cur = <<>> THEN BundleTag ELSE cur

ReadyRec == [type |-> "ready", id |-> WorkerId]

ErrorRec(id, code) == [type |-> "error", id |-> id, code |-> code]

ResponseRec(id) == [type |-> "response", id |-> id]

\* A console.* call; "during" is a ghost naming the invocation executing.
LogRec(cur, during) == [type |-> "log", id |-> Tag(cur), during |-> during]

\* The records of lg console calls made while curId = cur.
Logs(lg, cur, during) == IF lg THEN <<LogRec(cur, during)>> ELSE <<>>

\* A guest job left in the queue, or the job that settles the promise
\* js_std_await is driving.
Jobs == {"stray", "fulfill", "reject"}

\* The stray jobs a piece of guest code may queue, within the bound.
StrayChoice == IF spawned < MaxJobs THEN {0, 1} ELSE {0}

Strays(n) == [i \in 1..n |-> "stray"]

\* Fault model: a rejected promise is not recognised as settled.
PromisePendingNoReject(p) == p # "fulfilled"

\* A promise js_std_await finds still pending (JS_PromiseState).
PromisePending(p) == p = "pending"

\* A promise-returning call: already settled, or pending with the job
\* that will settle it (or none, for a promise nobody settles).
PromiseStarts ==
    {<<"fulfilled", <<>>>>, <<"rejected", <<>>>>,
     <<"pending", <<"fulfill">>>>, <<"pending", <<"reject">>>>,
     <<"pending", <<>>>>}

-----------------------------------------------------------------------------
(* Start-up: main() up to load_bundle.                                     *)

Init ==
    /\ pc = "boot"
    /\ stdin = <<>>
    /\ written = 0
    /\ eof = FALSE
    /\ out = <<>>
    /\ curId = <<>>
    /\ serving = NoId
    /\ jobs = <<>>
    /\ spawned = 0
    /\ promise = "none"
    /\ handler = "undefined"
    /\ consumed = <<>>

\* BUNDLE_PATH unset, or runtime or context creation failed: exit 1.
BootFail ==
    /\ pc = "boot"
    /\ pc' = "exit1"
    /\ UNCHANGED <<stdin, written, eof, out, curId, serving, jobs, spawned,
                   promise, handler, consumed>>

\* Capabilities, rlimits, runtime, context, shims and the eval removal
\* succeed or fail without effect on stdout.
Boot ==
    /\ pc = "boot"
    /\ pc' = "loading"
    /\ UNCHANGED <<stdin, written, eof, out, curId, serving, jobs, spawned,
                   promise, handler, consumed>>

-----------------------------------------------------------------------------
(* load_bundle and its error exit in main.                                 *)

\* Open, size, allocation, compile, resolve or import.meta fails before
\* any guest code runs.
LoadFail ==
    /\ pc = "loading"
    /\ out' = Append(out, ErrorRec(LoadTag, "BUNDLE_LOAD_ERROR"))
    /\ pc' = "exit1"
    /\ UNCHANGED <<stdin, written, eof, curId, serving, jobs, spawned,
                   promise, handler, consumed>>

\* JS_EvalFunction runs the module body: it may log and queue jobs, then
\* throws or yields the module's promise, which js_std_await drives.
LoadExec ==
    /\ pc = "loading"
    /\ \E lg \in BOOLEAN, st \in StrayChoice :
         \/ /\ out' = (out \o Logs(lg, curId, NoId))
                         \o <<ErrorRec(LoadTag, "BUNDLE_LOAD_ERROR")>>
            /\ jobs' = jobs \o Strays(st)
            /\ spawned' = spawned + st
            /\ pc' = "exit1"
            /\ UNCHANGED promise
         \/ \E ps \in PromiseStarts :
              /\ out' = out \o Logs(lg, curId, NoId)
              /\ \E order \in {Strays(st) \o ps[2], ps[2] \o Strays(st)} :
                   jobs' = jobs \o order
              /\ spawned' = spawned + st
              /\ promise' = ps[1]
              /\ pc' = "loadAwait"
    /\ UNCHANGED <<stdin, written, eof, curId, serving, handler, consumed>>

\* Fault model: ready is sent before the handler lookup is checked.
LoadDoneReadyEarly ==
    /\ pc = "loadAwait"
    /\ ~PromisePending(promise)
    /\ promise = "fulfilled"
    /\ promise' = "none"
    /\ \/ \E h \in {"default", "handler"} :
            /\ handler' = h
            /\ out' = Append(out, ReadyRec)
            /\ pc' = "idle"
       \/ /\ out' = Append(Append(out, ReadyRec),
                            ErrorRec(LoadTag, "BUNDLE_LOAD_ERROR"))
          /\ pc' = "exit1"
          /\ UNCHANGED handler
    /\ UNCHANGED <<stdin, written, eof, curId, serving, jobs, spawned,
                   consumed>>

\* The module promise fulfilled: take the namespace, retain "default" if
\* callable, else "handler" if callable, else fail; then send ready.
LoadDone ==
    /\ pc = "loadAwait"
    /\ ~PromisePending(promise)
    /\ promise = "fulfilled"
    /\ promise' = "none"
    /\ \/ \E h \in {"default", "handler"} :
            /\ handler' = h
            /\ out' = Append(out, ReadyRec)
            /\ pc' = "idle"
       \/ /\ out' = Append(out, ErrorRec(LoadTag, "BUNDLE_LOAD_ERROR"))
          /\ pc' = "exit1"
          /\ UNCHANGED handler
    /\ UNCHANGED <<stdin, written, eof, curId, serving, jobs, spawned,
                   consumed>>

\* The module promise rejected (a top-level throw or rejected await).
LoadRejected ==
    /\ pc = "loadAwait"
    /\ ~PromisePending(promise)
    /\ promise = "rejected"
    /\ promise' = "none"
    /\ out' = Append(out, ErrorRec(LoadTag, "BUNDLE_LOAD_ERROR"))
    /\ pc' = "exit1"
    /\ UNCHANGED <<stdin, written, eof, curId, serving, jobs, spawned,
                   handler, consumed>>

-----------------------------------------------------------------------------
(* js_std_await: while the promise is pending, run one job, or poll.      *)

\* JS_ExecutePendingJob: the head job runs as guest code; it may log, queue
\* one more job, and settle the promise being awaited.
AwaitJob ==
    /\ pc \in {"loadAwait", "await"}
    /\ PromisePending(promise)
    /\ jobs # <<>>
    /\ \E lg \in BOOLEAN, st \in StrayChoice :
         /\ out' = out \o Logs(lg, curId, serving)
         /\ jobs' = Tail(jobs) \o Strays(st)
         /\ spawned' = spawned + st
         /\ promise' = CASE Head(jobs) = "fulfill" -> "fulfilled"
                         [] Head(jobs) = "reject"  -> "rejected"
                         [] OTHER                  -> promise
    /\ UNCHANGED <<pc, stdin, written, eof, curId, serving, handler,
                   consumed>>

\* No job is pending and nothing settles the promise: js_os_poll returns
\* and the loop spins for ever.
AwaitSpin ==
    /\ pc \in {"loadAwait", "await"}
    /\ PromisePending(promise)
    /\ jobs = <<>>
    /\ UNCHANGED vars

-----------------------------------------------------------------------------
(* process_messages: one getline and what execute_handler does with it.   *)

\* getline returned a line while the worker waits for input.
ReadLine ==
    /\ pc = "idle"
    /\ stdin # <<>>
    /\ stdin' = Tail(stdin)

\* A blank line, a line that is not JSON, or a type other than "invoke".
IgnoreLine ==
    /\ ReadLine
    /\ Head(stdin).kind = "ignored"
    /\ UNCHANGED <<pc, written, eof, out, curId, serving, jobs, spawned,
                   promise, handler, consumed>>

\* An invoke record without payload.
InvalidMessage ==
    /\ ReadLine
    /\ Head(stdin).kind = "invoke"
    /\ ~Head(stdin).hasPayload
    /\ out' = Append(out, ErrorRec(Head(stdin).id, "INVALID_MESSAGE"))
    /\ consumed' = Append(consumed, Head(stdin).id)
    /\ UNCHANGED <<pc, written, eof, curId, serving, jobs, spawned, promise,
                   handler>>

\* An invoke record with payload reaches execute_handler, which checks
\* the handler and sets current_invoke_id.
Invoke ==
    /\ ReadLine
    /\ Head(stdin).kind = "invoke"
    /\ Head(stdin).hasPayload
    /\ handler # "undefined"
    /\ consumed' = Append(consumed, Head(stdin).id)

\* Fault model: no return after the REQUEST_CREATION_ERROR, so the
\* handler is still called and answers too.
RequestCreationErrorNoReturn ==
    /\ Invoke
    /\ Head(stdin).reqThrows
    /\ out' = Append(Append(out, ErrorRec(Head(stdin).id,
                                          "REQUEST_CREATION_ERROR")),
                     ResponseRec(Head(stdin).id))
    /\ curId' = <<>>
    /\ UNCHANGED <<pc, written, eof, serving, jobs, spawned, promise,
                   handler>>

\* Fault model: the REQUEST_CREATION_ERROR path leaves the slot set.
RequestCreationErrorNoClear ==
    /\ Invoke
    /\ Head(stdin).reqThrows
    /\ out' = Append(out, ErrorRec(Head(stdin).id, "REQUEST_CREATION_ERROR"))
    /\ curId' = SetCur(Head(stdin).id)
    /\ UNCHANGED <<pc, written, eof, serving, jobs, spawned, promise,
                   handler>>

\* The request template throws: REQUEST_CREATION_ERROR, slot cleared.
RequestCreationError ==
    /\ Invoke
    /\ Head(stdin).reqThrows
    /\ out' = Append(out, ErrorRec(Head(stdin).id, "REQUEST_CREATION_ERROR"))
    /\ curId' = <<>>
    /\ UNCHANGED <<pc, written, eof, serving, jobs, spawned, promise,
                   handler>>

\* Fault model: the slot is cleared as soon as JS_Call returns, before
\* js_std_await runs the handler's continuations.
CallHandlerClearEarly ==
    /\ Invoke
    /\ ~Head(stdin).reqThrows
    /\ LET id  == Head(stdin).id
           cur == SetCur(id)
       IN \E lg \in BOOLEAN, st \in StrayChoice :
          /\ spawned' = spawned + st
          /\ \/ /\ out' = (out \o Logs(lg, cur, id))
                            \o <<ErrorRec(id, "HANDLER_ERROR")>>
                /\ jobs' = jobs \o Strays(st)
                /\ curId' = <<>>
                /\ UNCHANGED <<pc, serving, promise>>
             \/ /\ out' = (out \o Logs(lg, cur, id)) \o <<ResponseRec(id)>>
                /\ jobs' = jobs \o Strays(st)
                /\ curId' = <<>>
                /\ UNCHANGED <<pc, serving, promise>>
             \/ \E ps \in PromiseStarts :
                /\ out' = out \o Logs(lg, cur, id)
                /\ \E order \in {Strays(st) \o ps[2], ps[2] \o Strays(st)} :
                     jobs' = jobs \o order
                /\ curId' = <<>>
                /\ serving' = id
                /\ promise' = ps[1]
                /\ pc' = "await"
    /\ UNCHANGED <<written, eof, handler>>

\* Fault model: the invoke id is not kept for the await, so the response
\* goes out without it.
CallHandlerNoFrame ==
    /\ Invoke
    /\ ~Head(stdin).reqThrows
    /\ LET id  == Head(stdin).id
           cur == SetCur(id)
       IN \E lg \in BOOLEAN, st \in StrayChoice :
          /\ spawned' = spawned + st
          /\ \/ /\ out' = (out \o Logs(lg, cur, id))
                            \o <<ErrorRec(id, "HANDLER_ERROR")>>
                /\ jobs' = jobs \o Strays(st)
                /\ curId' = <<>>
                /\ UNCHANGED <<pc, serving, promise>>
             \/ /\ out' = (out \o Logs(lg, cur, id)) \o <<ResponseRec(id)>>
                /\ jobs' = jobs \o Strays(st)
                /\ curId' = <<>>
                /\ UNCHANGED <<pc, serving, promise>>
             \/ \E ps \in PromiseStarts :
                /\ out' = out \o Logs(lg, cur, id)
                /\ \E order \in {Strays(st) \o ps[2], ps[2] \o Strays(st)} :
                     jobs' = jobs \o order
                /\ curId' = cur
                /\ promise' = ps[1]
                /\ pc' = "await"
                /\ UNCHANGED serving
    /\ UNCHANGED <<written, eof, handler>>

\* JS_Call runs the handler body, which may log and queue jobs, and then
\* throws (HANDLER_ERROR), returns a non-promise (js_std_await hands it
\* back: response), or returns a promise for js_std_await to drive.
CallHandler ==
    /\ Invoke
    /\ ~Head(stdin).reqThrows
    /\ LET id  == Head(stdin).id
           cur == SetCur(id)
       IN \E lg \in BOOLEAN, st \in StrayChoice :
          /\ spawned' = spawned + st
          /\ \/ /\ out' = (out \o Logs(lg, cur, id))
                            \o <<ErrorRec(id, "HANDLER_ERROR")>>
                /\ jobs' = jobs \o Strays(st)
                /\ curId' = <<>>
                /\ UNCHANGED <<pc, serving, promise>>
             \/ /\ out' = (out \o Logs(lg, cur, id)) \o <<ResponseRec(id)>>
                /\ jobs' = jobs \o Strays(st)
                /\ curId' = <<>>
                /\ UNCHANGED <<pc, serving, promise>>
             \/ \E ps \in PromiseStarts :
                /\ out' = out \o Logs(lg, cur, id)
                /\ \E order \in {Strays(st) \o ps[2], ps[2] \o Strays(st)} :
                     jobs' = jobs \o order
                /\ curId' = cur
                /\ serving' = id
                /\ promise' = ps[1]
                /\ pc' = "await"
    /\ UNCHANGED <<written, eof, handler>>

\* The awaited value: read status, headers and body, send the response,
\* clear current_invoke_id.
HandlerFulfilled ==
    /\ pc = "await"
    /\ ~PromisePending(promise)
    /\ promise = "fulfilled"
    /\ out' = Append(out, ResponseRec(serving))
    /\ curId' = <<>>
    /\ serving' = NoId
    /\ promise' = "none"
    /\ pc' = "idle"
    /\ UNCHANGED <<stdin, written, eof, jobs, spawned, handler, consumed>>

\* The handler's promise rejected: HANDLER_ERROR, slot cleared.
HandlerRejected ==
    /\ pc = "await"
    /\ ~PromisePending(promise)
    /\ promise = "rejected"
    /\ out' = Append(out, ErrorRec(serving, "HANDLER_ERROR"))
    /\ curId' = <<>>
    /\ serving' = NoId
    /\ promise' = "none"
    /\ pc' = "idle"
    /\ UNCHANGED <<stdin, written, eof, jobs, spawned, handler, consumed>>

\* Fault model: the loop ends as soon as stdin is closed, with lines that
\* were written still unread.
ExitOnEof ==
    /\ pc = "idle"
    /\ eof
    /\ pc' = "exit0"
    /\ UNCHANGED <<stdin, written, eof, out, curId, serving, jobs, spawned,
                   promise, handler, consumed>>

\* getline returns -1 at EOF: free the handler and the engine, exit 0.
Exit ==
    /\ pc = "idle"
    /\ stdin = <<>>
    /\ eof
    /\ pc' = "exit0"
    /\ UNCHANGED <<stdin, written, eof, out, curId, serving, jobs, spawned,
                   promise, handler, consumed>>

-----------------------------------------------------------------------------
(* The supervisor: streams lines into stdin and may close it.             *)

Send ==
    /\ ~eof
    /\ written < MaxLines
    /\ \E l \in Lines : stdin' = Append(stdin, l)
    /\ written' = written + 1
    /\ UNCHANGED <<pc, eof, out, curId, serving, jobs, spawned, promise,
                   handler, consumed>>

Close ==
    /\ ~eof
    /\ eof' = TRUE
    /\ UNCHANGED <<pc, stdin, written, out, curId, serving, jobs, spawned,
                   promise, handler, consumed>>

-----------------------------------------------------------------------------

WorkerStep ==
    \/ BootFail \/ Boot
    \/ LoadFail \/ LoadExec \/ LoadDone \/ LoadRejected
    \/ AwaitJob \/ AwaitSpin
    \/ IgnoreLine \/ InvalidMessage \/ RequestCreationError \/ CallHandler
    \/ HandlerFulfilled \/ HandlerRejected
    \/ Exit

Supervisor == Send \/ Close

\* The process has exited; it takes no more steps.
Terminated ==
    /\ pc \in {"exit0", "exit1"}
    /\ UNCHANGED vars

Next == WorkerStep \/ Supervisor \/ Terminated

\* The worker is one OS thread the scheduler keeps running; the
\* supervisor owes nothing.
Spec == Init /\ [][Next]_vars /\ WF_vars(WorkerStep)

-----------------------------------------------------------------------------
(* Properties.                                                             *)

ErrorCodes == {"BUNDLE_LOAD_ERROR", "INVALID_MESSAGE",
               "REQUEST_CREATION_ERROR", "HANDLER_ERROR"}

Records ==
    {ReadyRec}
      \cup [type : {"error"}, id : Ids \cup {LoadTag}, code : ErrorCodes]
      \cup [type : {"response"}, id : Ids]
      \cup [type : {"log"}, id : {BundleTag} \cup {SetCur(i) : i \in Ids},
            during : Ids \cup {NoId}]

\* Every variable holds a value of its intended kind.
TypeOK ==
    /\ pc \in {"boot", "loading", "loadAwait", "idle", "await",
               "exit0", "exit1"}
    /\ stdin \in Seq(Lines)
    /\ written \in 0..MaxLines
    /\ eof \in BOOLEAN
    /\ out \in Seq(Records)
    /\ curId \in {<<>>} \cup {SetCur(i) : i \in Ids}
    /\ serving \in Ids \cup {NoId}
    /\ jobs \in Seq(Jobs)
    /\ spawned \in 0..MaxJobs
    /\ promise \in {"none", "pending", "fulfilled", "rejected"}
    /\ handler \in {"undefined", "default", "handler"}
    /\ consumed \in Seq(Ids)

\* A record that answers an invoke: a response, or an error other than the
\* bundle-load failure.
IsReply(r) == r.type = "response" \/ (r.type = "error" /\ r.id # LoadTag)

\* The number of replies among the first k records on stdout.
ReplyCount(k) == Cardinality({j \in 1..k : IsReply(out[j])})

\* The ids of the replies on stdout, in the order they were written: the
\* k-th is the id of the record that brings the count of replies to k.
ReplyIds ==
    [k \in 1..ReplyCount(Len(out)) |->
        out[CHOOSE i \in 1..Len(out) : IsReply(out[i]) /\ ReplyCount(i) = k].id]

\* Every invoke record process_messages reads is answered by exactly one
\* response or error with its id, in the order the invokes were read; only
\* the one whose promise js_std_await is still driving has no answer yet:
\* there are as many replies as such invokes, and the k-th reply carries
\* the id of the k-th.
RepliesMatchInvokes ==
    LET answered == IF pc = "await"
                    THEN SubSeq(consumed, 1, Len(consumed) - 1)
                    ELSE consumed
    IN  /\ ReplyCount(Len(out)) = Len(answered)
        /\ \A i \in 1..Len(out) :
              IsReply(out[i]) => out[i].id = answered[ReplyCount(i)]

\* Every log record js_bunbase_log writes carries the id of the invocation
\* execute_handler is running when console.* is called, and "bundle" when
\* none is (module evaluation).
LogTagging ==
    \A i \in 1..Len(out) :
        out[i].type = "log" =>
            out[i].id = IF out[i].during = NoId THEN BundleTag
                                                ELSE out[i].during

\* current_invoke_id holds the (copied) id of the execute_handler frame on
\* the stack, and is empty on every path out of execute_handler.
SlotMatchesFrame ==
    curId = IF serving = NoId THEN <<>> ELSE SetCur(serving)

\* stdout: only module-time logs precede the single ready record; a
\* bundle-load error is the last record and comes without a ready.
StdoutShape ==
    /\ \A i, j \in 1..Len(out) :
          (out[j].type = "ready" /\ i < j) =>
              out[i].type = "log" /\ out[i].id = BundleTag
    /\ \A i \in 1..Len(out) :
          out[i] = ErrorRec(LoadTag, "BUNDLE_LOAD_ERROR") =>
              /\ i = Len(out)
              /\ \A j \in 1..Len(out) : out[j].type # "ready"
    /\ \A j \in 1..Len(out) :
          (IsReply(out[j]) \/ (out[j].type = "log" /\ out[j].id # BundleTag))
              => \E i \in 1..(j - 1) : out[i].type = "ready"

\* Spec 4.6: before the next input line is read, the job queue has been
\* driven to completion (and 4.5 step 5 for the module's jobs).
QueueDrained == pc = "idle" => jobs = <<>>

\* js_std_await returns once the promise it drives is settled or a queued
\* job will settle it: the handler's or the module's await ends.
AwaitTerminates ==
    (/\ pc \in {"loadAwait", "await"}
     /\ \/ promise # "pending"
        \/ \E i \in 1..Len(jobs) : jobs[i] \in {"fulfill", "reject"})
      ~> (pc \notin {"loadAwait", "await"})

=============================================================================
