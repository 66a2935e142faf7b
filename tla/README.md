# TLA+ models of the QuickJS worker

This directory models the worker process in
`src/functions/cmd/quickjs-worker/main.c`. The worker runs the single
JavaScript bundle of a deployed function inside QuickJS-NG. It reads NDJSON
`invoke` records from stdin and writes `ready`, `log`, `response` and
`error` records to stdout. The checks here are about:

- which records go out, in which order, and with which id;
- how the `current_invoke_id` slot and the engine's job queue behave across
  invocations;
- the text of each record and whether it reads back as JSON (`Wire`);
- the reference counts of the engine values the read loop takes (`Lifetime`);
- start-up: capabilities, resource limits, shims and the eval removal (`Boot`).

## The system and its parts

| Part (spec section) | Code | Modelled in |
|---|---|---|
| Engine host: start-up, ready, read loop, exit (4.3, 4.7) | `main` (951-1029) | `Worker`: `BootFail`, `Boot`, `Exit`; `Boot` (module): each start-up step |
| Capability and limits (4.1) | `setup_capabilities`, `enforce_resource_limits` (153-175, 467-507), eval removal (995-1006) | `Boot`: `SetupCapabilities`, `EnforceMemory`, `EnforceFds`, `RemoveEval` |
| Web-API shim (4.4) | `add_web_apis`, `add_base64_polyfills` (181-404) | `BodyCodec`: the `atob` polyfill and the body handling of the `Request` and `Response` constructors; URL and Headers only as the `reqThrows` flag of `Worker` |
| Console bridge | `add_console_override`, `js_bunbase_log`, `send_log` (141-150, 407-464) | `Worker`: `Tag`, `LogRec`, `Logs`, `curId`; `Boot`: `InstallConsole` |
| Bundle loader (4.5) | `load_bundle` (510-663), error exit in `main` (1009-1014) | `Worker`: `LoadFail`, `LoadExec`, `LoadDone`, `LoadRejected` |
| Async bridge | `js_std_await` from quickjs-libc, called at 605 and 728 | `Worker`: `AwaitJob`, `AwaitSpin`, `PromisePending` |
| Invocation dispatcher (4.6) | `process_messages` (844-949), `execute_handler` (666-841) | `Worker`: `IgnoreLine`, `InvalidMessage`, `RequestCreationError`, `CallHandler`, `HandlerFulfilled`, `HandlerRejected`; `BodyCodec`: the request template's size and the response body; `Lifetime`: the reference counts of the loop body |
| NDJSON codec (4.2) | `send_message`, `send_ready`, `send_error`, `send_response`, `escape_json_str` (62-139) | `Worker`: records (`ReadyRec`, `ErrorRec`, `ResponseRec`, `LogRec`); `Wire`: their text (`SendMessage`, `SendError`, `SendLog`, `EscapeJsonStr`, `SendResponse`, `EscapeBody`) |
| Supervisor | not in this repository | `Worker`: `Send`, `Close`, from the spec's stdin format; `Wire`: `ReadByte`, a JSON reader of stdout |

### How the parts interact

The worker has one thread. Guest code runs only inside host calls:

- `JS_EvalFunction` evaluates the module body;
- `JS_Call` calls the handler;
- `JS_ExecutePendingJob`, inside `js_std_await`, runs queued jobs.

Guest code can call `console.*`. That calls `js_bunbase_log`, which tags the
log record with `current_invoke_id`, or with `"bundle"` when the slot is
empty. Guest code can also queue jobs (promise reactions) on the engine's
single job queue.

`js_std_await` loops while the awaited promise is pending. On each pass it
runs one queued job, or polls when the queue is empty. It returns as soon as
the promise settles. So any job that does not settle that promise can stay
queued, and it then runs during whichever await comes next.

### Hard behaviours the model covers

- Guest jobs interleave with the await of the module promise and of each
  handler promise, in both queue orders.
- A promise can be already settled, settled by a queued job, or never
  settled. In the last case the worker spins forever.
- A handler can throw synchronously, return a value, or return a promise.
- The request template can fail.
- An invoke line can have no payload, or be ignored altogether.
- A load can fail:
  - before any guest code runs;
  - with a module throw;
  - with a rejected top-level await;
  - because no export is callable.
- The supervisor closes stdin at an arbitrary point.

## Module `Worker`

### State

| Variable | Code |
|---|---|
| `pc` | where the single thread is: `boot`, `loading`, `loadAwait` (the `js_std_await` at 605), `idle` (the `getline` at 849), `await` (the `js_std_await` at 728), `exit0`, `exit1` |
| `curId` | `current_invoke_id`, as the sequence of characters copied into it |
| `serving` | the `invoke_id` argument of the `execute_handler` frame on the stack, or `NoId` |
| `jobs` | the engine's job queue. `"fulfill"` and `"reject"` are the jobs that settle the awaited promise; `"stray"` is any other guest job |
| `promise` | the state of the promise `js_std_await` drives |
| `handler` | `handler_func` (`"default"` or `"handler"` export) |
| `out` | the stdout records, in order |
| `stdin`, `written`, `eof` | the supervisor's side of the pipe |
| `consumed` | ghost variable: the ids of the invoke records read, in order |
| `spawned` | ghost variable: bounds the guest jobs by `MaxJobs` |

### Abstractions

Data is reduced to what the properties can tell apart:

- An id is a short sequence over `Chars`, so the `strncpy` of 63 bytes is
  modelled by `SetCur` (keep the first `IdCap` characters).
- A line is one of:
  - "ignored" (blank, not JSON, or not an invoke);
  - an invoke record with an id, whether it has a payload, and whether
    building the request will throw.
- A guest call (module body, handler, job) is a nondeterministic choice of:
  - at most one console call;
  - at most one extra queued job;
  - how the call ends.

Log levels, message text, status, headers and body are left out.

### Fairness

`Spec` assumes weak fairness of `WorkerStep`. The worker is one OS thread
that the scheduler keeps running, and it never waits on anything except
stdin. `Send` and `Close` belong to the supervisor and get no fairness: the
supervisor may go quiet at any time. `AwaitSpin` is a stuttering step, so
fairness never forces progress out of a promise that nobody settles. This is
deliberate: that case really does hang.

## Runs

| Run | Config | Expect | What it shows |
|---|---|---|---|
| `worker_core` | `MCWorker.cfg` | pass | `TypeOK`, `RepliesMatchInvokes`, `LogTagging`, `SlotMatchesFrame`, `StdoutShape` |
| `worker_refinement` | `MCWorkerRefine.cfg` | pass | `DispatcherRefined`: `Worker` implements `Dispatcher` (see below); `AwaitTerminates` |
| `queue_drained` | `MCWorkerDrain.cfg` | violation of `QueueDrained` | `js_std_await` returns with unrelated jobs still queued, contrary to spec 4.6 |
| `id_truncation` | `MCWorkerTrunc.cfg` | violation of `LogTagging` | with `IdCap = 1`, an id of two characters is truncated in its logs but not in its response |

### What the properties say

- **`RepliesMatchInvokes`:** the ids of all responses and errors, other than
  the bundle-load error, are exactly the ids of the invokes read, in the
  same order. The only exception is the invocation still being awaited.
  It is stated by counting: `ReplyCount(k)` is the number of replies among
  the first `k` records; there are as many replies as answered invokes, and
  the reply that brings the count to `k` carries the `k`-th id. (An earlier
  form through `SelectSeq` was checked equal to this one, and `ReplyIds`
  equal to its count-based definition, on all 1,323,176 states of the
  `worker_core` instance before it was replaced.)
- **`LogTagging`:** every log is tagged with the invocation during whose
  handler or continuation `console.*` ran, or with `"bundle"` outside an
  invocation.
- **`SlotMatchesFrame`:** `current_invoke_id` is the copy of the id of the
  `execute_handler` frame, and is empty when there is no such frame. This is
  spec §9's "cleared on every exit path".
- **`StdoutShape`:**
  - only bundle logs precede `ready`;
  - a `BUNDLE_LOAD_ERROR` record is the last record, and comes with no
    `ready`;
  - every reply and every invocation log follows `ready`.
- **`AwaitTerminates`:** once the awaited promise is settled, or a queued
  job will settle it, the await ends.

### Mutants

Each property of `worker_core` and `worker_refinement` is shown to catch a plausible bug in the code
it is about. The bug is written as an operator (`... Fault model: ...` in
`Worker.tla`) and substituted for the definition it mutates:

| Mutant | Bug | Property it breaks |
|---|---|---|
| `PromisePendingNoReject` | a rejected promise is treated as pending | `AwaitTerminates` |
| `LoadDoneReadyEarly` | `ready` is sent before the export check | `StdoutShape` |
| `RequestCreationErrorNoReturn` | no `return` after the error | `RepliesMatchInvokes` |
| `RequestCreationErrorNoClear` | the slot is not cleared on the request-error path | `SlotMatchesFrame` |
| `CallHandlerClearEarly` | the slot is cleared before the await | `LogTagging` |
| `CallHandlerNoFrame` | the id is not kept across the await | `TypeOK` |

### Bounds

`MCWorker` uses:

- two ids, `<<"a">>` and `<<"a","b">>`. One is a prefix of the other, so that
  truncation would confuse them;
- `IdCap = 2`, so both ids fit;
- `MaxLines = 3`, so three lines are enough for an invocation that leaves a
  stray job followed by one that runs it;
- `MaxJobs = 1`, one stray job, which is enough to put a job in both queue
  orders and to carry it across invocations.

The run reaches about 1.3 million distinct states, at depth 20, in under a
minute. The liveness property `AwaitTerminates` is checked in `worker_refinement` (`MaxLines = 2`), because
checking a temporal property over the 1.3 million states of `worker_core`
takes several minutes. Two lines still include an await whose promise a
queued job settles, and an invoke whose request cannot be created. `MCWorkerTrunc.cfg` sets `IdCap = 1`, so that the id `<<"a","b">>`
no longer fits.

## Abstract specification and refinement

`Dispatcher` is the worker's contract with the supervisor, written from the
spec's §4.6-4.7 state machine: `Init -> Loading -> Ready -> Serving(id) ->
Ready -> ... -> exit`. It has the following actions:

| Action | What happens |
|---|---|
| `Start` | the engine comes up |
| `Fail` | any start-up or load failure |
| `Loaded` | the handler is retained and `ready` is sent |
| `Skip` | a line that is not an invoke is dropped |
| `Answer` | an invoke is answered at once |
| `Begin` | an invoke becomes the one being served |
| `Finish` | the one reply for the invocation being served is sent |
| `Stop` | exit 0 at EOF with nothing left unread |

It also has the supervisor's actions `Send` and `Close`.

Fairness is `WF(Serve)`: a ready worker keeps taking lines. Loading and
serving get no fairness, because both may hang on a promise that nobody
settles.

`WorkerRefinement` maps `Worker` onto `Dispatcher`:

- `state <- Phase(pc)`;
- `inbox <- stdin`;
- `answered <- ReplyIds`, the ids of the response and error records on
  stdout;
- `current <- serving`.

Under this mapping, the following worker steps are abstract stutters:

- module evaluation and the load's `js_std_await`;
- every job the async bridge runs;
- all console output.

The run `worker_refinement` checks `DispatcherRefined == Abs!Spec` as a
temporal property, fairness included. It uses `MaxLines = 2`, which gives
73,520 states. The mutant `ExitOnEof` leaves the read loop on the EOF flag
with lines still unread, and only this property catches it.

`ReplyIds` takes, for each `k` up to the number of replies, the id of the
reply at which `ReplyCount` reaches `k`. `WorkerRefinementProofs` proves the
safety part of the refinement under a second mapping, where `answered` is
the sequence of consumed invokes less the one being awaited, and
`WorkerRepliesProofs` shows that the two mappings agree in every reachable
state, which gives the safety part under this mapping too (see "Proofs"
below). The fairness part stays with this run.

## Module `BodyCodec`

`BodyCodec` follows one invocation's body through the worker. `Worker`
abstracts this part away.

### Actions

| Action | What it models | Code |
|---|---|---|
| (input) | The supervisor sends `base64(b)` | |
| `RequestTooLarge` / `BuildRequest` | The body text is pasted twice into `request_code[8192]`. If that does not fit, `REQUEST_CREATION_ERROR` | 684-711 |
| (`BuildRequest`) | The guest `atob` polyfill decodes the text into `req.body` | 196-211 |
| `Handle` | The handler answers with `new Response(req.body)` (an echo) or with a body of its own | |
| `Respond` | The body goes through `JS_ToCString` and `strlen`, is encoded by the loop into `encoded_body[16384]`, and is copied by `send_response` into `escaped_body[16384]` | 781-824, 80-103 |

### Representation

- A base64 text is a sequence of alphabet indices, with `Pad = 64` for `=`.
  64 is the index `=` has in the polyfill's `chars` string.
- `Atob` is the polyfill's `for` loop, as a recursive function over the
  index. Its state is `bc`, `bs` and `output`, and its shift is
  `-2 * bc & 6`.
- `Encode` is the C loop, as a recursive function over `i` and `j`, with the
  bound `j < EncCap - 4`. `Quad` is its body.
- `Utf8` and `CString` are `JS_ToCString` of code units up to 0xFF, followed
  by `strlen`.

### The reference

`RefEncode` and `RefDecode` define RFC 4648 base64 bit by bit: bit `k` of
the input goes to sextet `k \div 6`. This formulation is deliberately
different from the code's groups of three bytes. The supervisor's side, and
every correctness property, are stated with the reference.

### Bounds

The buffer sizes are scaled, keeping the code's proportions:

| Constant | Model | Code | Bodies that fit |
|---|---|---|---|
| `EncCap` | 16 | 16384 | the encoder keeps 9 bytes (code: 12285) |
| `TplCap` / `TplBase` | 12 / 2 | 8192 / 345 (337 characters of template, plus `/`, `GET`, `{}`, `{}`) | the template takes a body of at most 3 bytes (code: 2940) |

As in the code, the request side is the tighter limit.

The pass run `body_codec` uses:

- request bodies of up to 4 bytes over `{0, 127, 128, 255}`: the edge values
  of a byte, on both sides of the 0x80 boundary;
- handler bodies of up to 5 code units over `{0, 65, 200}`. Five units of
  200 make 10 UTF-8 bytes, which is more than the encoder keeps.

This gives 62,732 states.

### Runs

**`body_codec`** (pass) checks:

- **`BufferFits`:** neither buffer overflows, the NUL included. The mutant
  `j < EncCap - 3` breaks it.
- **`RequestBodyExact`:** whenever the template fits, `req.body` is exactly
  the bytes sent. This checks `atob` for every length modulo 3 and for every
  byte edge value.
- **`ResponseFaithful`:** the reply decodes to the first
  `EncBytes = 3 * ((EncCap - 5) \div 4 + 1)` bytes of `body_str`. So the
  encoder is standard base64, and it cuts whole groups without corrupting
  them.
- **`TypeOK`**, including "`body_str` holds bytes 1..255". The mutant that
  forgets the UTF-8 continuation mask breaks it.

The violation run `roundtrip_latin1` shows the spec's §8 round trip
failing: `<<200>>` comes back as `<<195, 136>>` (`w4g=`).

Three more failures were found the same way. They are not kept as runs of
their own. Each is reproduced by `RoundTrip`, or by §9's "no silent
truncation" (`ResponseComplete`), under `MCBodyCodec`'s constants with
these changes:

| Defect | Property | Constants | Trace |
|---|---|---|---|
| NUL byte | `RoundTrip` | `Bytes = {0, 65}`, `MaxBody = 1`, `MaxResp = 0` | `<<0>>` comes back empty |
| template too small | `RoundTrip` | `Bytes = {65}`, `MaxBody = 4`, `MaxResp = 0` | a 4-byte body gets `REQUEST_CREATION_ERROR` |
| body cut | `ResponseComplete` | `Bytes = {65}`, `MaxBody = 0`, `MaxResp = 10` | a 10-byte handler body is sent as 9 bytes |

### Proofs

`BodyCodec` uses `SequencesExt`, which reaches `RECURSIVE` operators, and
its correctness is a statement over all byte strings. That would take
induction over data. So its properties are model-checked only.

## Module `Wire`

`Wire` models the text of the records: what `printf` and `snprintf` put on
stdout, byte by byte. It also models the supervisor reading that text back
as JSON, one line at a time.

### Representation

- A string is a sequence of one-character strings.
- The keys and type names are one-letter abbreviations (`"i"` for `id`, `"R"`
  for `ready`, ...). Only their position in the template matters, and short
  keys keep TLC's sequences small.
- Each buffer is a constant. `LogEscCap` is `msg_escaped[768]`, `LogCap` and
  `ErrCap` are the 1024-byte payloads, `BodyEscCap` is `escaped_body[16384]`
  and `RespCap` is `payload[32768]`. The model scales them down so that
  short inputs reach the caps.
- `Snprintf(text, size)` keeps `size - 1` bytes, as `snprintf` does.
- `EscapeJsonStr` translates `escape_json_str` (117-139): the loop bound
  `j < out_size - 1` and the `j + 2 >= out_size` break before an escape.
- `EscapeBody` translates the loop of `send_response` (80-103), which has no
  room check for the second byte of an escape.

### Actions

- `WriteReady`, `WriteLog`, `WriteError` and `WriteResponse` each write the
  whole line of one call, which is one `printf` and one `fflush`. They also
  append to `sent` the tokens the spec says the record carries.
- `ReadByte` is the supervisor. It feeds one byte to a JSON lexer (`LexStep`)
  that tracks strings, escapes and nesting depth, and at a newline it appends
  the line's tokens, or `ok = FALSE`, to `got`.

The lexer is a step of the model rather than a recursive function on the
line. TLC evaluates a recursive function over a state-dependent sequence on
a worker thread's small stack, and that overflows for lines of about 40
bytes.

### Property and runs

`WireFaithful` says:

- every line read so far parses, and carries exactly the tokens (strings,
  numbers, depth) of the record that was sent;
- once the stream is drained, every record has been read.

The runs:

| Run | Config | Expect | Inputs |
|---|---|---|---|
| `wire_codec` | `MCWire.cfg` | pass (about 1.8 million states) | messages with quotes, backslashes, CR and LF. A message whose escape does not fit `LogEscCap = 4`. An error message without quotes and a NULL one. Headers text with an escaped quote. An empty and a 4-byte body |
| `wire_error_quote` | `MCWireErrQuote.cfg` | violation | an exception message with a quote |

Three more defects violate `WireFaithful` with `MaxRecords = 1` and one
constant of `MCWire.cfg` changed. They are not kept as runs of their own:

| Defect | Change |
|---|---|
| a console message with a TAB | `Messages <- MCMessagesTab` |
| an invoke id with a quote | `Ids <- MCIdsQuote` |
| headers text longer than the room `send_response` leaves | `HeaderTexts <- MCHeaderTextsLong`, `RespCap = 24` |

The mutant `SendLogUnescaped` sends the log message without
`escape_json_str`, and `wire_codec` catches it.

## Module `Lifetime`

`Lifetime` models the reference counts in the body of `process_messages`
(843-950). The model tracks these values:

- `msg_val`;
- its `type`, `id` and `payload` properties;
- the payload's five fields;
- the two strings `JS_JSONStringify` makes from headers and query;
- the private copies `JS_ToCString` makes.

`rc[c]` is the number of references taken to `c` minus the number released.
Each object holds one reference to each of its properties. `Inc` and
`Dec` take one reference to, or release one from, each cell of a set.
`Null`, a NULL C string, is no cell (`NullAssumption`).

The model follows QuickJS on three points:

- `Release` is `JS_FreeValue`. A value whose count reaches 0 releases what it
  holds, for two levels (the message, then the payload).
- `ToCString` is `JS_ToCString`. It returns the engine string itself, with
  one more reference, when all its bytes are ASCII. It returns a fresh copy
  otherwise, and NULL when the conversion throws. Which case applies is an
  input, chosen per conversion.
- `FreeCString` is `JS_FreeCString`, which releases the string the pointer
  belongs to.

The actions are the stages of the loop body:

- `ReadLine`: `getline`, and `JS_ParseJSON` of a line of one of four kinds
  (not JSON, not an invoke, an invoke without a payload, an invoke with one).
- `GetType`.
- `GetId`.
- `ReadFields`: the fields, the stringified headers and query, their C
  strings, and `execute_handler`, which only borrows them.
- `FreeFields` (912-927): `FreeCStrings` of `invoke_id` and the five field
  C strings, then the five field values and the two JSON strings.
- `NoPayload` (929).
- `FreeInvoke` (931-934).
- `Cleanup` (937-944).
- `EndOfInput`.

Properties:

- `NoLeak`: when the loop is back at `getline`, or has exited, no value has
  more references taken than released. This covers every path through the
  body and every encoding of every string.
- `NoDoubleRelease`: no count goes below 0.

Runs (`MaxLines = 3`):

- `lifetime_noleak` (pass, about 34,000 states) checks `NoLeak`. The mutant
  `FreeInvokeKeepPayload` drops `JS_FreeValue(payload_val)`, and the run
  catches it.
- `lifetime_double_release` is a violation of `NoDoubleRelease` on the first
  invoke that has a payload.

`LifetimeProofs` proves `NoLeak` for every number of lines and every set of
encodings (see "Proofs" below).

## Module `Boot`

`Boot` models `main` from `setup_capabilities` to the `fopen` of the bundle,
one action per step:

- `SetupCapabilities`;
- `EnforceMemory` and `EnforceFds`: `Enforce`, the two blocks of
  `enforce_resource_limits`. Each has an input saying whether `setrlimit`
  fails, which is only a warning;
- `NewEngine`: `JS_NewRuntime`, and `JS_NewContext` with `js_std_add_helpers`,
  whose `console.log` prints to stdout;
- `InstallShim`: the four polyfill scripts;
- `InstallConsole`;
- `RemoveEval`;
- `OpenBundle`: `fopen` needs a descriptor above the `OpenFds = 3` already
  open.

The order of the steps is the record `Following`.

Conversions keep their width, scaled down because TLC's integers are 32-bit:

- `IntBits = 6` stands for `int` and `LongBits = 10` for `long` and `rlim_t`.
- `Atol` saturates at the bounds of `long`, as `strtol` does.
- `Atoi` truncates that to `int`, as glibc's `(int) strtol` does. `IntHalf`
  is `2^(IntBits - 1)`, so `int` is `-IntHalf..IntHalf - 1`.
- `RLIM_INFINITY` is `2^LongBits - 1`.

An engine allocation or a script evaluation may fail only when the
address-space soft limit is below infinity. Out of memory is the only way
these fixed scripts can throw.

Properties:

- `SoftLimitsAsSpecified` (spec 4.1): after `enforce_resource_limits`, a
  resource whose variable holds a positive decimal `N` has soft limit
  `min(N, hard)`, unless `setrlimit` failed. Any other resource keeps its
  inherited soft limit. The property uses the decimal value itself, so it
  also checks the conversion.
- `ConsoleCaptured` (spec 3, 4.2): when the bundle is opened, `console.log`
  is the `__bunbase_log` bridge.

Runs:

| Run | Config | Expect | Inputs |
|---|---|---|---|
| `boot_limits` | `MCBoot.cfg` | pass (about 200,000 states) | `MAX_MEMORY` unset, 100 or -5. `MAX_FDS` unset, 2, 20 or -1. Inherited limits 8, 64 or infinity, with soft at most hard. `ALLOW_EVAL` set or not |
| `boot_console` | `MCBootConsole.cfg` | violation of `ConsoleCaptured` | the `boot_limits` inputs; TLC's trace has `MAX_MEMORY` unset and an inherited `RLIMIT_AS` soft limit of 8, under which the override fails |

With `FdEnvs <- MCFdEnvsWide` (`MAX_FDS = 70`), `SoftLimitsAsSpecified` is
violated. 70 is 6 in a 6-bit `int`, as 4294967302 is 6 in a 32-bit one.

Mutants:

- `EnforceUncapped` does not cap the request at the hard limit, and it
  breaks `SoftLimitsAsSpecified`.

`ValuesFit` says every value `MAX_MEMORY` may hold fits `long` and every
value `MAX_FDS` may hold fits `int`. `MCBoot` states, as the assumption
`MCValuesFit`, that the `boot_limits` inputs satisfy it, so TLC checks it on
every run of `MCBoot`.

`BootProofs` proves `SoftLimitsAsSpecified` for every value of the constants
whenever `ValuesFit` holds (see below).

## Findings

1. **The job queue is not drained** (`queue_drained`):
   - Spec 4.6 says the dispatcher drives the job queue to completion before
     it reads the next line.
   - `js_std_await` (main.c:605, 728) stops as soon as its own promise
     settles.
   - Jobs left by the module, or by an earlier handler, therefore run inside
     a later invocation's await. Their console output is tagged with that
     later id.
2. **Long ids are truncated** (`id_truncation`):
   - `strncpy` into `current_invoke_id[64]` (main.c:674) keeps 63 bytes.
   - The logs of an invocation with a longer id carry a different id from
     its response (main.c:824).
   - An empty id gives logs tagged `"bundle"`.
3. **Bytes of 0x80 and above change on the way back** (`roundtrip_latin1`):
   - `JS_ToCString` (main.c:792) produces UTF-8.
   - So a byte of 0x80 or above that `atob` delivered as a Latin-1 code unit
     comes back as two bytes.
The defects 4, 5, 6, 8, 9, 10 and 12 are reproduced by changing constants,
as the module sections above say. They have no run of their own.

4. **Bodies are cut at a NUL byte**: `strlen` (main.c:797)
   stops at the first NUL.
5. **Large request bodies fail**:
   - The body is pasted twice into `request_code[8192]` (main.c:684).
   - So any request body above 2940 bytes fails with
     `REQUEST_CREATION_ERROR`, and less is allowed when the headers, query
     or path are large.
6. **Large response bodies are silently truncated**:
   - The encoder loop (main.c:800) keeps at most 12285 bytes.
   - It sends a longer body cut, with no error.
7. **Error messages are not escaped** (`wire_error_quote`): `send_error`
   (main.c:73) formats the message with `%s`. An exception text with a quote
   or a newline gives a stdout line that is not JSON.
8. **Control characters pass `escape_json_str`**: only
   quote, backslash, LF and CR are escaped (main.c:120). A TAB in a console
   message goes out raw, which is invalid inside a JSON string.
9. **Ids are never escaped**: `send_message` (main.c:63)
   prints the id with `%s`, so an id with a quote corrupts every record of
   its invocation.
10. **Large responses are cut mid-record**:
    `payload[32768]` (main.c:107) holds the headers and up to 16383 escaped
    body bytes. When they do not fit, `snprintf` cuts the line inside a
    string.
11. **`invoke_id` is released twice** (`lifetime_double_release`):
    - On an invoke with a payload, line 913 frees it and line 932 frees it
      again.
    - A non-ASCII id's UTF-8 copy is therefore double-freed.
    - An ASCII id's engine string (`JS_ToCString` returns the string itself)
      loses its last reference while `msg_val` still holds it. The release of
      `msg_val` at line 939 then frees it again.
    - This is undefined behaviour on every such invocation. Whether it
      aborts depends on the allocator.
12. **`MAX_FDS` beyond `int` wraps**:
    - `atoi` (main.c:172) truncates, so 4294967302 becomes 6 and the
      open-file soft limit is set to 6. A value that wraps to 0 or below
      leaves the limit untouched.
    - Spec 4.1 asks for `min(N, hard)`.
    - A wrap to 3 or less also leaves no descriptor for the `fopen` of the
      bundle.
13. **A failed console override prints to stdout** (`boot_console`, a gap
    in the spec):
    - Spec 7 makes a failed shim non-fatal. Under any finite `RLIMIT_AS`
      soft limit, the override script (main.c:453) can fail for lack of
      memory. The limit need not come from `MAX_MEMORY`: in TLC's trace
      `MAX_MEMORY` is unset and the worker inherited a soft limit of 8,
      which `enforce_resource_limits` leaves as it is.
    - The bundle then runs with `js_std_add_helpers`' `console.log`, which
      writes raw text to stdout.
    - The spec also requires every stdout line to be an NDJSON record, and it
      does not say which requirement wins.

## Proofs (`WorkerProofs`)

Each theorem is checked by tlapm for every value of the constants that
satisfies `WorkerAssumption`. `WorkerAssumption` requires:

- ids are sequences over `Chars`;
- `IdCap` is a positive natural number;
- the distinguished ids (`WorkerId`, `BundleTag`, `LoadTag`, `NoId`) are not
  invocation ids.

The theorems:

- **`TypeCorrect`:** `Spec => []TypeOK`.
  - `TypeOK` alone is not inductive. The induction therefore uses
    `TypeInv == TypeOK /\ (pc = "await" <=> serving # NoId)`, which also
    relates the control point to the frame.
  - `NextTypeInv` has one step per action.
  - It rests on lemmas about the record and job sequences that the actions
    append (`LogsType`, `StraysType`, `PromiseStartsType`, `OutConcat`,
    `JobsConcat`).
- **`SlotMatchesFrameHolds`:** `Spec => []SlotMatchesFrame`, for any ids,
  long ones included.
  - The inductive invariant is `TypeInv /\ SlotMatchesFrame`.
  - `NextSlot` shows the step. Its main case is `CallHandler`, where every
    exit path of `handle_invoke` either clears the slot or leaves the worker
    in the `await` frame with the slot holding `SetCur(id)`.
  - The truncation of long ids therefore does not break the slot. It only
    breaks the tag, which is why `LogTaggingHolds` needs `IdsFit`.
- **`LogTaggingHolds`:** `ASSUME IdsFit PROVE Spec => []LogTagging`.
  - `IdsFit` says every id is non-empty and fits in `IdCap` characters.
  - The inductive invariant is `TagInv`: `TypeInv`, plus `SlotMatchesFrame`
    (whose step is `NextSlot`),
    plus "every record of `out` is tagged". This is needed because a log's
    tag comes from `curId`, not from the invocation, so the slot has to be
    known to match the frame in every state.
  - Under `IdsFit`, `FitTag` shows that `SetCur(i) = i` and `Tag(i) = i`,
    from `SubSeqFull`. `LogsTagged` then shows that every log appended while
    the slot matches the frame is tagged.
  - `id_truncation` shows that the `IdsFit` hypothesis is needed.

Only TLC checks the following:

- **`AwaitTerminates`:** this is liveness under fairness, which TLAPS cannot
  prove here.
- **`DispatcherRefined`:** its safety part is proved by `MappedSafetyHolds`
  (below). The `WF(Serve)` fairness stays with TLC.

`StdoutShape` is proved in `WorkerStdoutProofs`, and the
refinement in `WorkerRefinementProofs` (next sections).

## Proofs (`WorkerStdoutProofs`)

- **`StdoutShapeHolds`:** `Spec => []StdoutShape`.
  - `StdoutShape` is not inductive. It says what stdout looks like, not
    what it may become. The inductive invariant `ShapeInv` is `TypeInv`,
    plus `SlotMatchesFrame`, plus `Shaped(pc, out)`. `Shaped` states the
    shape of stdout at each control point:
    - during the load, only bundle logs (`BundleLogs`);
    - after a failed load, those logs and one `BUNDLE_LOAD_ERROR` record
      (`LoadFailed`);
    - from `ready` on, the logs, `ready` at some index `k`, and then no
      bundle-tagged and no load-error record (`ReadyAt`).
  - The lemmas about these sequence shapes (`BundleConcat`, `QuietConcat`,
    `ReadyAppend`, `ReadyExtend`, `LoadErrorAppend`, ...) rest on
    `ConcatProperties`, `AppendIsConcat` and `SubSeqProperties` of the
    library. `ShapeNext` has one step per action.

## Proofs (`WorkerRefinementProofs`)

**`RefinesDispatcher`** proves
`Spec => AbsC!Init /\ [][AbsC!Next]_AbsC!avars`. `AbsC` is `Dispatcher`
instantiated with these substitutions:

- `state <- Phase`;
- `inbox <- stdin`;
- `current <- serving`;
- `answered <- Answered`. `Answered` is `consumed`, less its last element
  while the worker awaits that invoke.

The proof rests on these steps:

- `RefInv` strengthens `TypeInv` with "at `await`, the last consumed id is
  the one being served". TLC checked it on the `worker_core` constants
  before it was proved.
- `InitRefines` maps the initial state.
- `StepRefines` maps each worker action to the dispatcher step it
  implements. `ReadLine` of an invoke is `Begin` or `Answer`, the
  await's end is `Finish`, the load's outcomes are `Loaded` or `Fail`, and
  the rest are stutters.
- The lemmas `FrontLast` and `FrontAppend` relate `SubSeq(s, 1, Len(s) - 1)`
  to `Append`.

What this leaves to TLC is `WF(Serve)` (liveness). The equality
`ReplyIds = Answered`, which carries the result over to the mapping of
`WorkerRefinement`, is proved in `WorkerRepliesProofs`.

## Proofs (`WorkerRepliesProofs`)

- **`RepliesMatchInvokesHolds`:** `Spec => []RepliesMatchInvokes`, for
  every value of the constants.
  - `Cnt(s, k)` counts the replies among the first `k` records of `s`;
    `Match(s, e)` says the replies of `s` answer the ids of `e` one for one
    and in order; `RepliesMatchInvokes` is `Match(out, Answered)`.
  - `Match` alone is not inductive. `HandlerFulfilled` writes a reply for
    `serving`, which is the next answered id only because the served id is
    the last invoke read (`RefInv`). The inductive invariant is
    `ReplyInv == RefInv /\ Match(out, Answered) /\ Reach(out)`; `Reach`
    says every count up to the total is reached at some reply, which the
    refinement below needs. TLC checked `ReplyInv` on the `worker_core`
    constants before it was proved.
  - The counting lemmas rest on `FiniteSetTheorems`: a prefix's replies
    form a finite set (`CntNat`), counts grow with the prefix (`CntMono`),
    appending leaves the counts of a prefix alone (`CntPrefix`), records
    without replies add nothing (`CntQuiet`), and a reply written last adds
    one (`CntLast`, from `FS_AddElement`). `MatchQuiet` and `MatchLast` lift
    them to `Match` and `Reach`.
  - `ReplyInvNext` has one step per action, using the shapes `QuietAfter`
    and `LastAfter` of `WorkerStdoutProofs`: every step writes no reply
    and keeps `Answered` (`KeepStep`), or writes one reply last and
    appends its id to `Answered` (`AnswerStep`).
- **`MappedSafetyHolds`:** `Spec => Abs!Init /\ [][Abs!Next]_Abs!avars`,
  the safety part of `DispatcherRefined` under its own mapping
  (`answered <- ReplyIds`). `IdsOfMatch` shows that `Match` and `Reach`
  make the ids read off stdout equal to the answered ids; with
  `ReplyIds = Answered` in both states of a step, `StepRefines` carries
  over.

## Proofs (`LifetimeProofs`)

**`NoLeakHolds`** proves `Spec => []NoLeak`, with no assumption beyond
`LifetimeAssumption` and `NullAssumption`.

`NoLeak` is not inductive: it says nothing inside the loop body. The
inductive invariant `LeakInv` gives each count. `Expected(pc, kind, cstr, c)`
is the number of references that the code holds to `c` at `pc`. It counts:

- the parse tree's reference;
- `type_val`, `id_val` and `payload_val`;
- the five fields and two JSON strings;
- one for each C string variable still live (`HeldC`) that points into `c`.

`LeakInv` says that `rc[c] = Expected(...)` for every cell but the two id
cells. For those it says `rc[c] <= Expected(...)`, because the second
`JS_FreeCString(invoke_id)` on the payload path (932) releases a reference
the code no longer holds. `lifetime_double_release` shows that this is a
real double release.

`LeakInvNext` has one step per action. Each step shows that the action
moves every count by what it moves `Expected`. It rests on these lemmas:

- `ReleaseLeaf` (releasing a value that holds nothing, or not its last
  reference, is one less);
- `ReleaseMsg` (the cascade when `msg_val` loses its last reference, and
  with it the payload);
- `PtrDistinct` (two C string variables never point into the same value).

At `read` and `done`, `Expected` is 0 (`ExpectedOutside`), which gives
`NoLeak`.

## Proofs (`BootProofs`)

**`SoftLimitsHold`** proves `ValuesFit => (Spec => []SoftLimitsAsSpecified)`.

- `AtolExact` and `AtoiExact` show that `atol` and `atoi` return the decimal
  value when it lies in `LongMin..LongMax`, and in `-IntHalf..IntHalf - 1`.
- The inductive invariant `SoftInv` says, for each resource, that:
  - once its block of `enforce_resource_limits` has run, the soft limit is
    `min(request, hard)`, or the inherited one when `setrlimit` failed or the
    request is not positive;
  - before that block has run, the soft limit is the inherited one.
- `SoftInvNext` has one step per action.

The hypothesis is needed: `MCFdEnvsWide` violates the property. The ranges
are stated in `ValuesFit` in terms of `IntHalf`, `LongMin` and `LongMax`.
The provers know no facts about `^`, such as `2^(n+1) = 2 * 2^n`, so a
range stated in raw powers of two could not be used.

## What stays with TLC

These results are model-checked on the instances of the runs and not
proved:

- **Liveness:** `AwaitTerminates` and the `WF(Serve)` part of
  `DispatcherRefined`. They need fairness and `ENABLED`, which TLAPS does
  not handle here.
- **`BodyCodec` and `Wire`:** both extend `SequencesExt`, which reaches
  `RECURSIVE` operators. Their properties are also statements over all
  byte strings, which would take induction over data.
- **`Atol` and `Atoi` outside `ValuesFit`:** saturation and truncation are
  checked by TLC (`MCFdEnvsWide`). The proof covers only inputs that fit.

## Not modelled yet

- **Status and headers of the response** (main.c:739-780), including
  status 0 for an undefined result (746). The body is covered by
  `BodyCodec`.
- **The request template's text** (684): quotes in path or method break out
  of its string literals. `BodyCodec` models only its size.
- **`Function` is still reachable** after the eval removal (1002), through
  `(function(){}).constructor`. `Boot` models only the global bindings, not
  the engine's object graph.
- **Guest `print`**: it is installed by `js_std_add_helpers` and always
  writes to stdout.
- **The unused flags** `ALLOW_FILESYSTEM`, `ALLOW_NETWORK`,
  `ALLOW_CHILD_PROCESS` and `CAPABILITIES`: the code reads them and never
  acts on them.
- **Raising the soft limit:** `enforce_resource_limits` sets the soft limit
  to `min(N, hard)` even when that is above the inherited soft limit, where
  spec 4.1 says "lower". `SoftLimitsAsSpecified` follows the formula the
  spec gives.
- **Line length:** `getline` is not bounded (849), and `MAX_LINE_LENGTH` is
  never used.
