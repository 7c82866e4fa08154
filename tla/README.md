# TLA+ models of the capsule8 sensor core

This directory holds TLA+ models of the trace-event ingestion and
subscription-dispatch core of the sensor: what it keeps, how it changes,
and the TLC runs that check it. `PROJECT.json` lists the components, runs,
mutants, findings, hazards, and the source lines each definition models.

## Inventory

### Source under `src/`

| File | What it is |
|---|---|
| `pkg/perf/tracepoint.go` | Format decoder: `ReadTraceEventFormat` and the declaration parser. Kprobe control: `AddKprobe` and `RemoveKprobe` (no caller under `src/`). Event ID readers. |
| `pkg/sensor/perf.go` | `RegisterPerformanceEventFilter` and `handlePerfCounterEvent` of a subscription. |
| `pkg/sys/proc/procfs/process.go` | procfs readers: command line, mappings, cgroups, start time, `TaskUniqueID`, `WalkTasks`, `ReadTaskStatus`. |
| `examples/telemetry/main.go` | Example gRPC client that subscribes and prints events. |
| `pkg/sensor/*_test.go`, `test/functional/*` | Unit and functional tests. |

The registry, the sample decoder, the filter evaluator and the process
cache are described by `spec.md`, but their sources are not under `src/`.
Where a model needs them it follows the spec, and `PROJECT.json` marks those
definitions `spec_modelled`.

### Components, state and operations

- **Format decoder** (`tracepoint.go` 121-533).
  - State while reading: the `inFormat` flag, the event ID, and the
    `map[string]TraceEventField` being built.
  - Each field records its size and signedness, plus the inferred
    `dataType`, `dataTypeSize`, `dataLocSize` and `arraySize`.
  - Operation: one scanner step per line. A field line goes through
    `parseTraceEventField` → `parseTypeAndName` → `parseTypeName` →
    `setTypeFromSizeAndSign`.
  - Outcomes: a field, a skipped field (kept as a byte array), a decode
    error, or a Go runtime panic.
  - Correct means: each field's element width × count equals its declared
    size, its data type matches the declared type, and malformed text is an
    error, not a crash.
  - The event ID reader (`tracepoint.go` 108-143): `GetTraceEventID` opens
    `events/<name>/id` and `ReadTraceEventID` makes one `Read` into a
    zeroed six-byte buffer, trims newlines and zero bytes, and converts
    the `Atoi` result to `uint16`. Correct means the kernel's ID comes
    back.
- **Kprobe control** (`tracepoint.go` 47-84).
  - `AddKprobe` writes `p:`/`r:` lines to `kprobe_events`; `RemoveKprobe`
    writes `-:`.
  - Nothing under `src/` calls them. `pkg/sensor` imports `pkg/sys/perf`,
    whose kernel monitor installs probes, and that is not under `src/`.
    Not modelled.
- **Subscription / dispatch registry** (spec 4.5 and 5, plus `perf.go`).
  - Per subscription: its sinks and its status messages.
  - Per kernel event: a reference count and whether it is installed.
  - Per CPU: one worker that dispatches one sample at a time.
  - Shared: a global sequence counter.
  - Operations: register a filter (which may need a kernel registration
    that the kernel refuses), register a counter group, receive a sample,
    look up sinks under the registry lock, run a handler
    (`InitWithSample`, then `DispatchEvent`'s recheck under the lock, then
    the callback outside it), unsubscribe, free.
  - Correct means:
    - nothing reaches a subscription once `Unsubscribe` has returned;
    - no sequence number is delivered twice;
    - a refused registration is never released;
    - an unsubscribe finishes.
- **Sample decoder, filter evaluator** (spec 4.2 and 4.4). Not in `src/`.
  - The filter is abstracted as a nondeterministic boolean result.
- **Process cache** (spec 4.3, with `TaskUniqueID` and `TaskStartTime` in
  `process.go`).
  - State: tasks keyed by a unique ID, their credentials, and their
    container.
- **procfs reader** (`process.go`).
  - Parsers of `/proc` files: `ProcessCommandLine` (the NUL loop),
    `TaskStartTime` (the comm between the first `(` and the last `)`, then
    field 18 or 19), `TaskUniqueID` (`"%s-%d-%d"` of boot ID, PID and start
    time), `TaskControlGroups` and `ProcessContainerID`, `ProcessMappings`.
  - `WalkTasks`: lists `/proc` once, then each process's `task`
    directory, calling a walk function per task; processes that vanish in
    between are skipped.
  - Correct means: every argument, the right start time whatever the comm
    holds, IDs that survive PID reuse, every task that lives through a
    walk visited.
  - `ReadTaskStatus`: `status` lines split at the first colon, the struct
    field found by tag (`findFieldByTag`, the last match), the value set
    by kind (`setValueFromString`, base-0 `strconv`).
- **Example client** (`main.go`).
  - Main goroutine: `signal.Notify`, starting the signal goroutine,
    `grpc.DialContext` through `dialer`, `GetEvents` with
    `createSubscription`, then the `Recv` loop printing statuses and
    events; every error exits 1.
  - Signal goroutine: waits on the unbuffered `signals` channel, then
    cancels the context.
  - Correct means: Ctrl-C ends it, a failed status is shown, the dialer
    dials the configured socket.

### How they interact

The process cache seeds itself with `WalkTasks` and reads each task's
procfs files through the procfs reader. The sensor calls the format decoder
when it registers a tracepoint. The kernel monitor (external, in
`pkg/sys/perf`) installs kprobes and
delivers samples to the per-CPU workers. A worker looks up the sinks of the
sample's event in the registry and calls each subscription's handler. The
handler builds the envelope: `InitWithSample` drops the sensor's own samples,
takes the next sequence number, and reads the process cache. Then
`DispatchEvent` re-reads the sink under the registry lock, evaluates its
filter, and calls the subscriber outside the lock. The example client is a subscriber on the far side of the gRPC
API: the sensor's statuses and events arrive as `GetEventsResponse`s.

### What is hard

- Dispatch runs on one worker per CPU, outside the registry lock, while
  subscriptions are created and torn down on other threads.
- Sequence numbers are taken concurrently.
- Kernel registrations are shared and reference-counted.
- The format decoder must turn loosely typed text into a layout the hot
  path trusts. A wrong width or count makes the decoder read the wrong
  bytes, and a panic ends the whole sensor.
- The client's Ctrl-C crosses the Go runtime's signal delivery, a channel
  and a goroutine before it reaches the blocked gRPC call.

The full hazard list, each at its source line, is under `hazards` in
`PROJECT.json`.

## Modules

### `TraceEventFormat` (+ `MC_TraceEventFormat`)

The state machine is `ReadTraceEventFormat`.

- `ReadLine` is one scanner iteration, with one disjunct per branch of the
  loop: `ScanBlank`, `EndFormat`, `ScanField`, `StartFormat`, `ScanID`,
  `ScanOther`. `ReachEOF` is the end of the text.
- The parser functions are operators with the source's names. Each returns
  the helper's `(skip, err)` result, or `panic`, together with the field as
  the helper left it.
- The text is abstracted to what the control flow distinguishes. A
  declaration is a record with these parts:
  - whether it has the `__data_loc` prefix;
  - whether a blank separates the type from the name;
  - the `parseTypeName` switch arm its type hits;
  - for the default arm: whether the name ends in `_t` or `*`, or starts
    with `struct `/`union `/`enum `;
  - its bracket: none, `[` at the end, `[]`, `[n]`, or `[MACRO]`.
- `origin` is a ghost variable: the line each field came from.
- The MC module enumerates:
  - every arm and default-arm shape × every bracket × sizes 1-24 ×
    signedness;
  - `__data_loc` lines;
  - rejected lines;
  - header lines, including an ID that wraps modulo 2^16.
- Up to 4 lines of format text, with one field name, so a later line
  overwrites an earlier one.

### `SensorDispatch` (+ `MC_SensorDispatch`)

The registry and dispatch path.

The registry, the workers and `InitWithSample` are not under `src/`; they
follow spec 4.5 and 5 and are marked `spec_modelled`. Only the handler's
order (`handlePerfCounterEvent`) and `RegisterPerformanceEventFilter` come
from `perf.go`.

- `RegisterFilter` covers three cases: share an installed registration,
  have the kernel monitor install it, or record a refusal as a status
  message.
- `RegisterPerformanceEventFilter` follows `perf.go` 55-73.
- `Unsubscribe` drops the sinks and decrements the reference counts,
  removing a kernel registration at zero. The spec leaves a failing
  removal open, so removal always succeeds. `Free` is the teardown
  barrier: it waits until no worker holds the subscription.
- Per CPU: `Receive`, then `Lookup` (under the lock), then, per
  subscription found:
  - `Handle` is `handlePerfCounterEvent` up to `DispatchEvent`:
    `InitWithSample` drops the sensor's own samples or takes the next
    number.
  - `DispatchEvent` is the recheck under the lock: the sink must still be
    there and the filter must match, or the handler returns.
  - `Deliver` is the subscriber's callback, outside the lock.

  Then `Finish`. A worker holds a subscription from `Lookup` until its
  callback returns (`Holding`).
- Fairness: weak fairness on `Lookup`, `Handle`, `DispatchEvent`,
  `Deliver`, `Finish` and `Free`.
  - Spec 5 says dispatch of a sample runs to completion on its thread
    without suspending, and the teardown barrier only waits for those
    workers.
  - `Receive` and registrations get no fairness: the kernel need not
    produce samples, and clients need not subscribe.

### `SensorDispatchAbstract`

What a subscriber is promised: `Subscribe`, `Unsubscribe` (all sinks go at
once), `Free` (`Unsubscribe` returns), `TakeNumber` (atomically, for every
event handled) and `Deliver`. `Deliver` hands a subscription a number
already taken and not yet delivered. An active subscription must have a
sink; a closing one may receive what was in flight; a freed one receives
nothing. Weak fairness on `Free`. `SensorDispatch` instantiates it
(`Abstract == INSTANCE SensorDispatchAbstract`); the refinement mapping is
the identity on `subState`, `sinks`, `seq` and `streams`, and hides the
workers, reference counts, kernel installation and status messages.
`RefinesAbstract == Abstract!Spec` is a `PROPERTY` of the `dispatch` run.
Each concrete step maps to one abstract step or a stutter:

- `RegisterFilter` / `RegisterPerformanceEventFilter` → `Subscribe`, or a
  stutter when the kernel refuses;
- `Unsubscribe` → `Unsubscribe`; `Free` → `Free`;
- `Handle` → `TakeNumber`, or a stutter for the sensor's own samples;
- `Deliver` → `Deliver`;
- `Receive`, `Lookup`, `DispatchEvent`, `Finish` → stutters.- `Receive`, `Lookup`, `Finish` → stutters.

### `TraceEventID` (+ `MC_TraceEventID`)

- `kernelID` is the ID the kernel gave each registered event. `results`
  holds, per name, what `GetTraceEventID` returned.
- `GetTraceEventID(name)` is one call. It fails for a name with no
  directory. Otherwise one `Read` happens, drawn from `Reads`, and its
  result goes through `ReadTraceEventID`.
- The file is `"%d\n"` as a sequence of one-character strings. The
  buffer pads it with `NUL` up to six bytes. `TrimRight` and `Atoi` are
  operators with the standard library's meaning.
- The reader is the `*os.File` that `GetTraceEventID` passes. It returns
  the whole file, up to the buffer's size, in one `Read`.
- The MC module has IDs of one, two, four and five digits (65535 fills the
  buffer exactly), two registered events and one missing.

### `ProcParse`, `ProcFiles` (+ `MC_ProcFiles`)

`ProcParse` holds the parsers of `process.go` as operators with the
source's names, and builds each file from a task record the way the kernel
prints it. Text is a sequence of tokens: the bytes a parser tests (`(`,
`)`, NUL) are tokens, a number is the string `ToString` gives, and
`strconv` parsing is its inverse over `0..MaxNum`. A maps line is its
blank-separated words, so `strings.SplitN(s, " ", 6)` keeps a path with
blanks in one field. `ProcessCommandLine`'s loop is the RECURSIVE
`ReadArgs`, over `ReadString(0)`. The `status` file is the exception: its
lines are strings, taken apart a character at a time with `SubSeq`
(`SplitColon`, `TrimSpace`, `Fields`, and `ParseUint0`/`ParseInt0` for
`strconv` with base 0: `0x` hexadecimal, a leading `0` octal, as in the Go
releases of this code). `ScanStatus` is the scanner loop, RECURSIVE, and
returns with the fields set so far on the first error.

`ProcFiles` is one reader of one task: `ReadCommandLine`,
`ReadStartTime`, `ReadContainerID`, `ReadMappings` and `ReadStatus` each
run their function once, in any order, while `Exit` may remove the task,
after which `fs.ReadFile` or `os.Open` fails. The struct given to
`ReadTaskStatus` is fixed for a behaviour: `Name` (string), `Umask` (uint), `PPid`
(int), `Uid` and `Groups` (int slices); no caller of it is under `src/`,
so these are the fields a process cache reads. The MC module enumerates
720 tasks:

- argument lists of up to two arguments, empty ones included, and a
  retitled process whose cmdline has no trailing NUL;
- comms holding `)`, `(` or `:`;
- both start-time layouts the comment in `TaskStartTime` describes;
- cgroup files outside a container, inside one on every hierarchy, inside
  one on some hierarchies only, and on the unified hierarchy;
- maps with anonymous mappings and a path with a blank;
- status files with and without supplementary groups, an octal umask, and
  lines the struct does not ask for (`VmRSS: 12 kB`, `SigQ: 0/7`, a hex
  `SigBlk`).

The struct is the variable `dest`, chosen in `Init` from
`StatusStructs`. Besides the struct above there is `MCStatusFieldsVmRSS`,
with the fields `Name`, `PPid`, `VmRSS` (int) and `SigBlk` (uint). No int
parses `12 kB`, so every read into it of a live task fails. By then
`Name` and `PPid` are set and `SigBlk` is not. This is how the run checks
what a caller holds after the error.

### `TelemetryClient` (+ `MC_TelemetryClient`)

The two goroutines of `main.go` as state machines, `pc` for main and
`watcher` for the signal goroutine:

- `Notify`, `Spawn`, `Dial`, `GetEvents` and `Receive` are main's steps.
  `Dial` and `GetEvents` fail when the context is cancelled, or at any
  time (the one second timeout, a refused call); `Receive` is one
  iteration of the loop: `Recv` fails and the client exits 1, or a
  response is printed (`ShowStatuses` and `Lines`).
- `WatcherWait` and `WatcherCancel` are `<-signals` and `cancel()`.
- `SigInt` is the user: before `Notify` the default action kills the
  process; after it the runtime hands the signal to the goroutine only if
  it is already waiting, and drops it otherwise (the channel has no
  buffer).
- Flags are the initial state: `-server` (split at `:`, as
  `strings.Split` gives it to `dialer`), `-image`, `-json`. `-prettyprint`
  only changes indentation and is left out.
- A printed line is `[of, index, marshalled]`: which status or event it
  is for and whether `MarshalToString` succeeded; the text is left out.

Fairness: weak fairness on every step of both goroutines, since each is
runnable until it blocks and `Dial`/`GetEvents` return within the timeout.
`Recv` is fair only once the context is cancelled (gRPC then fails it); the
sensor may stay silent forever, and the user need never press Ctrl-C.

### `TaskWalk` (+ `MC_TaskWalk`)

`WalkTasks` step by step against a kernel that forks processes and
threads, ends threads and thread groups, and reuses PIDs:

- `ListProcs` is the open and `Readdirnames` of the mount point: `self`,
  then one name per thread-group leader, in PID order;
- `NextProc` is one outer iteration: the end, a non-numeric name, a
  process gone (`SkipGone`), or the listing of its task directory;
- `NextTask` is one inner iteration: the end, or a call of `WalkFunc`.

`WalkFunc` is the process cache's walk function (spec 4.3, not under
`src/`). It reads the task's start time through `ProcParse`'s
`TaskStartTime` and records an entry keyed by `TaskUniqueID`. Its boolean
result is free, so the early return at line 306 is covered. `atStart` is
a ghost: the tasks alive when `/proc` was listed. Weak fairness on the
walk's steps: it is one goroutine that does not block.

## Runs

| Run | Expect | Shows |
|---|---|---|
| `trace_format_layout` | pass | Every field decoded from a natural line spans exactly its declared size (`DecodedLayoutMatchesSize`). This covers the type table, the width division, the count derivation, the 64-bit `long` default and the byte-array fallback. 21k states. |
| `trace_format_types` | violation | `u8` is decoded as `dtS16` with width 1 (`tracepoint.go:255`). |
| `trace_format_panic` | violation | Several malformed declarations panic instead of returning an error: `[` at the end, no blank, a missing `field:` part, and `[0]` on a typedef. |
| `trace_event_id` | pass | `GetTraceEventID` returns the kernel's ID for IDs of every width up to 65535. It returns an error for a missing event (`IDReadBack`). 128 states. |
| `dispatch` | pass | A subscription receives nothing once `Unsubscribe` has returned, although its callback may still be running when the sinks go. No sequence number is delivered twice. Both come from refining `SensorDispatchAbstract`. A refused registration is never released (`TypeOK`), and every unsubscribe completes. 2 subscriptions, 1 shared kprobe plus per-subscription counter groups, 2 CPUs, 2 samples; 725k states, about 2.5 minutes. |
| `procfs_readers` | pass | On every modelled task, with the task exiting at any point: `ProcessCommandLine` returns a prefix of the arguments; `TaskStartTime` returns the start time whatever the comm holds and on either layout; `ProcessContainerID` finds the container past cgroup lines at the root; `ProcessMappings` returns every mapping, keeping blanks in paths; `ReadTaskStatus` fills every field with the task's value, the octal umask and a name holding a colon included, passing over the lines it has no field for. With an int `VmRSS` field, which never parses, it fails. The struct then holds the task's values for the fields of the lines up to some line, and zero values after it (`StatusIsFilePrefix`). 396k states. |
| `procfs_cmdline` | violation | `ProcessCommandLine` returns `[]` for the argument list `[""]`. In general it drops everything from the first empty argument on, and all of a retitled process's cmdline, contrary to its doc comment (`process.go:97`). |
| `task_walk` | pass | Every task alive from the `/proc` listing to the end of the walk is seeded, through forks, exits and PID reuse. Seeded `TaskUniqueID`s never collide, including PID 1 started at 23 against PID 12 started at 3. 72k states. |
| `client` | pass | The example client gives every non-OK status and every event of a response a line, printed or reported undecodable (`NonOKStatusesShown`). Once its context is cancelled it exits, whether it is dialing, calling `GetEvents` or blocked in `Recv` (`CancelEndsClient`). 7.9k states. |
| `client_interrupt` | violation | A Ctrl-C pressed after `signal.Notify` but before the signal goroutine waits on the unbuffered channel is dropped, and the client streams on forever (`main.go:239`). |
| `client_dialer` | violation | For `-server unix:/tmp/c8:sock` the dialer dials `/tmp/c8`: `strings.Split` cuts the path at its colon (`main.go:65`). |
| `dispatch_gaps` | violation | A filtered-out event has already taken a sequence number, so delivered numbers have gaps, contrary to spec 8. |

Why the bounds are enough:

- **Dispatch.** Two subscriptions on one kprobe is the smallest setup where
  a shared registration meets one subscription's teardown. Two CPUs are
  enough for concurrent number taking, and for a worker in a callback
  while another thread unsubscribes. Two samples let two workers hold
  numbers at once.
- **Format decoder.** The runs cover every switch arm and every bracket
  form. Sizes are chosen so each arm sees both a natural and an unnatural
  size.
- **procfs.** One argument value besides the empty one is enough, since
  the loop only tests for NUL and length; two arguments place an empty
  one before and after a non-empty one. Two cgroup lines give a root line
  before a container line. `MaxNum = 3` covers every number in the files.
- **Walk.** Three PIDs and three forks are the fewest that let a process
  vanish before a stable one is reached, and let a thread or a new process
  take a freed PID mid-walk. PIDs 1 and 12 with start times 23 and 3 are
  the pair whose decimal digits run together.
- **Client.** Two responses of up to two statuses and one event reach
  every branch of the status condition in both output modes. Two Ctrl-C
  presses let one be lost and a later one delivered; the violation run
  allows one, the case the comment promises. Three `-server` values: the
  default socket, a TCP address, and a socket path with a colon.
- **Event IDs.** IDs of 1, 2, 4 and 5 digits leave 4, 3, 1 and 0 zero
  bytes in the buffer. That covers every amount of trimming, and the
  largest ID that fits. A missing event covers the open error.
- **Status errors.** A failing field between two that parse is the
  smallest struct where a read can stop too early or run on too far.
- **Deadlock.** Deadlock checking is off in every module. The format
  reader returns after the text ends, the dispatcher idles once the sample
  bound is used up, the procfs reader stops after reading each file,
  the walk returns once, each ID is asked once, and the client exits or waits on a silent
  sensor.

Every property of a passing run has a mutant in `PROJECT.json` that TLC
catches. Each mutant is a plausible bug in the mapped code:

- the width not divided by the count;
- the ID not truncated to uint16;
- a refused registration released at unsubscribe;
- a worker letting go of the subscription before its callback has run;
- a handler that keeps its hold on a gone sink;
- the command-line loop skipping an empty argument;
- the stat fields counted from the first `)`;
- the container ID taken from the first cgroup line only, or returned as
  the cgroup path;
- `SplitN` replaced by a split at every blank;
- the start time read from field 18 only;
- `WalkTasks` returning at the first vanished process;
- `TaskUniqueID` without its `-` separators;
- `strconv` parsing in base 10 whatever the prefix;
- the status scanner passing over a value that does not parse;
- `TrimRight` given only the newline, not the zero byte;
- the dialer taking the part before the first colon as the network;
- a lone status never printed;
- the `Recv` loop continuing after an error.

## Plan

Done: `TraceEventFormat`, `SensorDispatch` with its refinement of
`SensorDispatchAbstract`, `ProcParse`/`ProcFiles` with `ReadTaskStatus`,
`TaskWalk`, `TelemetryClient`, `TraceEventID`, and `ReadTaskStatus`
after an error. Next, in order of importance:

1. **`SensorDispatch`** additions (spec 4.5):
   - the process-wide dummy event, reference-counted like a real sink;
   - refusal of a kprobe that is already installed with a different
     specification.
2. **`ProcessCache`** (spec 4.3): LookupTask-or-create, fork, exec and
   exit, eviction a bounded time after exit, composed with `TaskWalk` and
   `InitWithSample`. Its code is not under `src/`, so this is worth doing
   only where it checks the code that is (`TaskUniqueID` under PID reuse
   already is, in `TaskWalk`).

## Not modelled, and why

- **Readers other than the id file.** `ReadTraceEventID` is exported and
  takes any `io.Reader`, but it makes one `Read` and ignores the count. A
  reader that returns fewer bytes than it holds would truncate the ID
  without an error. One that returns `io.EOF` with its last bytes would
  lose it. The only caller under `src/` passes the tracefs file, which
  returns everything at once, so the model reads only that (listed as a
  hazard).
- **File opening and reading.** `GetTraceEventFormat` opens a file and
  calls the modelled `ReadTraceEventFormat`. `GetAvailableTraceEvents`
  returns the lines of `available_events`. Neither changes any state, and
  neither has a caller under `src/`. Its names have the form
  `subsystem:event`, while `GetTraceEventID` joins the name into
  `events/<name>/id`. A caller must convert between the two, and none
  under `src/` does.
- **Kprobe control.** `AddKprobe` and `RemoveKprobe` write command lines
  to `kprobe_events` and return the open or write error. Nothing under
  `src/` calls them: the sensor installs probes through the kernel monitor
  of `pkg/sys/perf`, which is not under `src/`. The registry's kernel
  installation and removal in `SensorDispatch` therefore follow the spec,
  not these functions.
- **Hex masks in status.** Base-0 parsing reads the kernel's hex masks
  (`SigBlk`) as octal. No struct under `src/` has such a field, so no run
  checks it (listed as a hazard).
- **The client's output text and gRPC internals.** Wording, JSON layout and
  protobuf contents are left out; `createSubscription` is the set of filter
  kinds it fills in and the image list. The model assumes the gRPC release
  of the code, which hands the whole `-server` string to `dialer`.
- **Other procfs calls.** `SelfTGID` is a `sync.Once` read of
  `/proc/self/stat`; `ProcessExecutable` and `TaskCWD` are single
  `readlink` calls. None changes state, and none has a caller under `src/`.
- **Sample decoder and filter evaluator.** Their code is not under `src/`,
  and spec 4.2 and 4.4 leave how they read bytes and compare values open.
  A model of them would check only itself; dispatch abstracts the filter to
  a free boolean.
- **The maps off-by-one.** `ProcessMappings` guards with `len(fields) < 5`
  and then reads `fields[5]`, so a five-field line would panic. The
  kernel always prints a blank after the inode, so no maps line has five
  fields. `MappingsLine` keeps the branch, but no modelled input reaches
  it.
- **Tests.** They are not modelled; they informed the properties.
