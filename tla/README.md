# Verification of the serverless worker

The repository implements a worker that accepts one container job at a time
over HTTP, runs it on Docker or Podman, and gives out its result and its log
stream. This directory holds TLA+ specifications of the worker, the TLC
configurations that check them on small instances, and TLAPS proofs for all
instances. `PROJECT.json` maps every definition to the lines it models and
lists runs, mutants, findings, hazards and theorems.

## The system

| Component | State | Operations | Interacts through |
|---|---|---|---|
| `pkg/stream` LogBuffer | lines, closed flag, one-element notify channel | Write, Close, Subscribe (one goroutine per subscriber) | a mutex, the notify channel, one output channel per subscriber |
| `pkg/executor` Executor | `current` job; per job: result, Done channel, log buffer, contexts | Submit, GetResult, IsReady, CurrentJobID, StreamLogs; goroutines executeJob and streamContainerLogs | a mutex around `current`; Done publishes the result; runtime calls |
| `pkg/runtime` | none (the daemon keeps the containers) | image, container and log calls | a socket; every call may fail or have its reply lost |
| `pkg/api` | one goroutine per request | POST /jobs, GET /jobs/{id}, GET /jobs/{id}/logs, GET /ready, GET /health; Start, Shutdown | calls of the executor, each under its own lock |
| `pkg/health` | none | Check (ping), IsReady | two separate calls of the executor |
| `cmd/worker` | process | start, SIGTERM | Shutdown of the server; does not wait for the job |
| `pkg/validator`, `config`, `config_builder`, `redaction` | none | pure functions of the request, the environment and the output | called once per job or at start |
| `shared/deployApp.sh` | files, docker-compose | deployment, port calculation | outside the worker |

What is hard here: subscribers that share one wake-up token; a state that is
read under a lock and used after it; the order of the deferred calls of
executeJob; a deadline that runs across the pull, the creation and the start;
runtime calls whose error hides that the daemon did act; a streaming goroutine
nobody waits for; handlers that look first and act later; settings and requests
whose numbers overflow on their way to a deadline; a process that ends, in order or
not, between any two steps of its job; output that is cut before its
secrets are looked for.

What makes each part correct:

* log buffer: each client gets the log in order, without gap or repetition, to
  its end, and is let go when the buffer is closed;
* executor: one job at a time; Done comes last; the result tells the truth
  about the container; containers do not outlive their job; jobs end;
* API: concurrent submissions admit one job; an answer is about the job that
  was asked for; requests end;
* the data of a job: the whitelist decides as the client wrote the image, the
  command arrives as it was quoted, the timeout and the reported duration are
  within their limits, no secret that the container wrote is in the result and
  nothing else is missing from it.

## Modules

| Module | Models |
|---|---|
| `LogStream` | abstract: a log that grows until it is closed, and streams that deliver prefixes of it and end with all of it |
| `LogBuffer` | `pkg/stream/buffer.go`; each critical section and each channel operation of the Subscribe goroutine is an action |
| `MCLogBuffer`, `logbuffer*.cfg` | its instances |
| `LogBufferProofs` | its theorems |
| `JobSlot` | abstract: one slot, a job is accepted into a free slot, logs, closes its log, and is answered once |
| `Executor` | `pkg/executor/executor.go`, `output.go` and, by their effect on the daemon, the calls of the interface `Runtime` that executeJob makes |
| `MCExecutor`, `executor*.cfg` | its instances |
| `ExecutorProofs` | its theorems |
| `Api` | `pkg/api/handlers.go` and `pkg/health/checker.go`, composed with `JobSlot`, which `Executor` is shown to implement |
| `MCApi`, `api*.cfg` | its instances |
| `ApiProofs` | its theorems |
| `Worker` | `cmd/worker/main.go`, Start and Shutdown of `pkg/api/server.go`: the process among its requests, its job and the daemon |
| `MCWorker`, `worker*.cfg` | its instances |
| `WorkerProofs` | its theorems |
| `Config` | `pkg/config/config.go` |
| `Validator` | `pkg/validator/validator.go` |
| `ConfigBuilder` | `pkg/executor/config_builder.go` |
| `Redaction` | `pkg/executor/redaction.go` and `output.go` |
| `JobRun` | composes the four: one job from the environment of its worker to its result, with the deadlines of executeJob and of `docker.go` |
| `MCJobRun`, `jobrun*.cfg` | its instances |
| `BasicLemmas` | induction over the natural numbers in a form that can be cited, and facts about concatenations |
| `RedactionProofs` | what `truncateTail`, `ReplaceValue`, the sorting and `RedactSecrets` do to every output |
| `RequestProofs` | that `extractRegistry` and `parseCommand` undo the writing of a reference and of a command |
| `JobRunProofs` | the theorems about `JobRun`, from the lemmas of these two |

### LogBuffer and the code

`lines`, `closed` and `token` are `b.lines`, `b.closed` (with the closed state
of `b.notify`) and the element of `b.notify`. `pc`, `pos`, `next`, `hi` and
`seen` are the position and the locals of a Subscribe goroutine: the slice
`b.lines[pos:]` taken under the lock is the interval from `next` to `hi`, since
the log only grows. The output channel is `sent` and `recv`. A select takes any
ready arm, so `StopOnCancel` competes with `Send`, `DrainSend` and `TakeToken`.
A closed `notify` channel gives its token before it reports `!ok`.
The client is `Receive` and `Disconnect`.

### Executor and the code

executeJob is in one runtime call at a time, so `pc[j]` is the name of that call,
and each call is an action, taken when it returns, together with what executeJob
does up to its next call. An early return goes to the first deferred call that is
registered: `RemoveContainer` after a creation, `Cancel` (timeoutCancel and
job.Cancel) before it, then `CloseLogs`, then `CloseDone`.

The daemon is `container`, `code` and `output`. A call that returns an error may
or may not have had its effect; `failed[j]` records which calls returned one.
Faults of the daemon are bounded by `MaxFailures` per job; errors that follow
from an expired or cancelled context, or from killing a stopped container, are
not. An image pull that times out counts as a fault. A creation that the
daemon completes only after its reply was given up is taken to complete at that
moment: nothing in the code could see the difference.

`Deadline` ends timeoutCtx, which is passed to the create, start, wait and
streaming calls but not to the image calls. Output is counted in units, so the
tail that `truncateTail` keeps is a set of unit numbers, and redaction, which
keeps no units apart, is left out. Durations, error texts and the container
configuration do not influence the control flow.

### Api and the code

A request is anything a client may send; `at` is where its handler is between
two calls. The 409 of CheckReady and that of Submit are the two
places where handleSubmitJob finds the worker busy. A log stream is reduced to
its end: the log buffer's own module covers its lines. GET /health is a ping that
returns either way, by the 3 s of the Checker (`main.go:60`), and is answered with
200 in both cases.

### Worker and the code

`proc` is where main is: before NotifyContext (`loading`), before Listen
(`starting`), in the select of Start (`serving`), in Shutdown (`draining`).
`Exits` is the end of the process, whatever the reason: requests in flight are
cut, the executeJob goroutine is gone (`lost`), the daemon keeps its containers.
`Killed` ends it at any moment. `Boot` is the restart by docker-compose, with an
empty slot. Requests are reduced to what Shutdown waits for.

Of executeJob there is what decides over a container: the return before there is
one (`PullFails`), `CreateContainer`, the deferred `RemoveContainer`, and
`CloseDone`, each a step that a signal, an exit or a submission can come between.
A creation that returns an error has no ID to remove, and may have created the
container all the same; an error of the removal is only logged, with the
container still there or not. `fault[j]` records that one of the two failed,
`owner[j]` which process accepted the job. The log of a job is closed between its
removal and Done, so a log stream may end once the job is `ending`.

### JobRun and the code

`Executor` leaves out how long things take and what they carry; `JobRun` is one
job with both, and without concurrency. A case (`IsCase`) is everything outside
of the worker: the environment variables, the request, what the client meant by
it (the parts of the image reference, the words of the command with their gaps and
quotes), what the container writes, and the times a call of the daemon may take.
What the client meant and what it sent are tied together by two grammars that stand
beside the code's functions: `ImageOf` writes a reference as
`[host/]path[:tag][@digest]`, `CommandOf` writes words, bare or in quotes, with
spaces between them. `IsReference` and `IsCommand` say which of them are
unambiguous (a path without host does not begin with what looks like one; a word
in quotes does not hold those quotes; two words have a space between them). Each call of the runtime is an action with
every outcome it can have; it takes one of these times, but returns when its
context ends (`Elapse`). `now` is the time since executeJob began, `deadline` that of timeoutCtx,
`began` is execStart. `PullLimit` is the configured pull timeout with
`imagePullTimeout` of `docker.go` inside it. A job is cancelled by nobody: the
context of Submit is the background context.

An environment variable or optional field is the set of its one number, or
empty; a number that does not parse is unset, as in the code. Durations are
int64 with `Half` for 2^63, so seconds times `Second` wrap around. Strings are
sequences of characters or tokens; loops over them are recursive functions. The
whitelist is a set, since the code only searches it. `Redaction` works on units, a character with the
position at which the container wrote it: two equal characters are different
units, so a property can say which part of the output survived, and not only what it
looks like. `Report` is CaptureOutput, RedactSecrets and the result in one step,
since nothing of it waits. A panic of the slice expression in `truncateTail`
(`Crash`) unwinds through the deferred removal and ends the process.

## Runs

| Run | Instance | Shows |
|---|---|---|
| `logbuffer` | 2 subscribers, channel of 1, 2 writes | order, completeness, bounded channels, the signal of a write is never lost altogether, Close ends every stream, a lone subscriber gets every line, refinement of `LogStream` |
| `logbuffer_wakeup` | the same, 1 write | finding: with two subscribers one can miss the signal until Close |
| `executor` | 2 jobs, 1 fault each, no output | exclusion, Done last, leaks and overlapping containers need a failed call, refinement of `JobSlot` |
| `executor_job` | 1 job, 2 units of output, limit 1, 2 faults | truthful results, reported jobs are stopped, honest output, job and streamer end |
| `executor_leak` | 1 job, no fault | finding: a container left by a deadline during the creation |
| `executor_timeout` | 1 job, no fault | finding: a timeout reported as an error |
| `executor_stream` | 1 job, no fault | finding: output that is never streamed |
| `api` | 3 requests, 3 job IDs | one job admitted at a time, answers belong to the job asked for, a busy reply names a job, requests end |
| `api_endevent` | 2 requests | finding: an end event with the status "unknown" |
| `worker` | 3 requests, 2 processes in a row | a container is left only by the end of a process or by a failed call, and by the end of a process at most one; a signal ends the process |
| `worker_shutdown` | 1 request, 1 process | finding: an orderly shutdown leaves a container although no call failed |
| `jobrun` | 4385 cases: 7 values of each timeout setting, 7 registries in 8 spellings against 6 whitelists, quoted words, outputs and secrets of up to 4 characters, invalid requests | who is refused, what the container gets, when a job is over and what it reports, what is left of its output and its secrets |

Bounds. Two subscribers are what it takes to steal a signal; a channel of one
line and two writes make it full in the middle of a batch and leave one write
for after a wait. Two jobs show everything that passes from a job to its
successor, because the slot forgets all but the last. Output of 0, 1 and 2
units against a limit of 1 is below, at and above it. Two faults are a failed
stop followed by a failed kill. Three requests are two submissions that race and
a reader of the first job; there are as many job IDs as requests, so that an ID
is always left. Two processes are a worker and its restart, which is where a
container of the first meets a job of the second. In `jobrun`, an int64 is in -8
.. 7 and a second is 3 units, so settings of -1, 0, 1, 2, 3 and 6 seconds are
negative, zero, in range (twice), an overflow to a negative and an overflow to a
positive duration; a call takes no time, one unit, or longer than any context;
two or three secrets over two letters are empty, equal, inside one another or
overlapping, in any order, and one of the letters occurs in the placeholder; the
limit of the output is -1, 2, 3 or 4 against outputs of 0 to 4 characters. Job IDs
are symmetric in `executor`, which checks no liveness. Where a run switches
deadlock checking off, the instance ends: all its jobs or requests are used up.

Fairness. A Subscribe goroutine and a connected client that ranges over its
channel are scheduled (weak fairness; a client that stops reading without
disconnecting is not assumed away for safety, only for liveness). The Go
scheduler runs executeJob, and each call that has a deadline of its own returns;
deadlines pass. `ImageExists` has no deadline, so it gets no fairness and
`JobEnds` starts behind it. Handlers are scheduled; that jobs end is an
assumption of `Api` that `JobEnds` justifies (except for `ImageExists`, see
above). In `Worker` only main is fair: it goes on, and the 30 s of Shutdown pass;
a job need never end there. `jobrun`
checks safety only and assumes no fairness: that a job ends in time is stated
about the clock. Containers need not exit and clients need not send anything.

## Findings

1. `EveryLineReachesEverySubscriber`: one token wakes one subscriber
   (`buffer.go:42`), so with two clients on a job a line can stay unsent to one
   of them until the next write or the end of the job.
2. `NoContainerLeft`: the removal is deferred only after CreateContainer returned
   an ID (`executor.go:178`); a deadline during that call can leave a container.
3. `TimeoutReported`: a deadline that passes before WaitContainer, for example
   after a slow pull, is reported with the status "error".
4. `StreamComplete`: the logs are read once, without following
   (`executor.go:325`).
5. `EndEventKnown`: the log is closed before Done (`executor.go:152-153`), so
   the end event may be built before the result is visible.
6. `CleanAfterShutdown`: Shutdown (`server.go:80`) waits for requests, not for the
   job; the process ends with status 0 and the container of the job stays. The
   restarted worker knows nothing of it.
Three more disagreements are left out of the properties, which state what does hold:

* No secret value remains "as a substring after redaction" (`redaction.go:7`; also
  Property 10 of `design.md:393` and requirement 7.4). A secret that is part of the
  placeholder `***REDACTED***` ("RED") does: it is in every replacement, also in
  one that another secret caused, and a placeholder can complete a secret with
  what stands beside it (`redaction.go:23`). For secrets without a character in
  common with the placeholder (`Plain`) the promise holds: that is the first half of
  `NoSecretSurvives`. The second half holds for all secrets, and is weaker: it is
  about the characters the container wrote, wherever equal ones come from.
* GetResult returns the result "if the job is done" (`executor.go:88`), but only
  while no later job has been accepted (`executor.go:94`): a client that has not
  fetched it by then gets 404 from GET /jobs/{id}. `AnswersBelongToTheJob` says only
  that it does not get the result of another job.
* MAX_TIMEOUT is the "Maximum allowed job timeout" (`README.md:97` of the
  repository), but DEFAULT_TIMEOUT is not compared with it (`config_builder.go:83`):
  MAX_TIMEOUT=60 alone leaves jobs that ask for nothing with 300 s.
  `TimeoutWithinMaximum` bounds every timeout that is asked for, and the others where
  the settings are in order.

Observations in `JobRun` that are too small for a run of their own:

* Of two secrets that overlap in the output, the second is no longer recognised
  and leaves a fragment; so does a secret that the truncation cuts. That such an
  occurrence is "replaced by the redaction placeholder" (`design.md:393`) holds for
  the part that was recognised. `OnlyFragmentsLeft` says that nothing else is left.
* A MAX_TIMEOUT above an hour has no effect on a request, which the validator limits.
* A timeout setting that is negative or overflows gives every job a deadline in the
  past; a negative MAX_OUTPUT_BYTES ends the process with the first job that gets to its logs.
* An empty quoted word of a command is lost, and a command of blanks is accepted
  and runs the default command of the image (`parseCommand`).
* A whitelist of nothing but separators allows every registry (`config.go:41`).
* A secret with a path is mounted from `/run/secrets` of the host, where nothing in the
  worker writes it (`config_builder.go:61`).

## Proofs

For every set of subscribers and jobs and every value of the bounds:

* `LogBufferProofs`: `TypeCorrect`, `StreamsInOrder`, `StreamsComplete`,
  `WakeupNeverLost`, `BufferImplementsStream`. `InOrder` is not inductive by
  itself: a send appends `lines[next[s]]`, so the invariant needs `Cursors`, which
  ties `next`, `hi` and `pos` to the number of lines sent in each state of the
  goroutine, and says that a goroutine that saw the closed flag took the whole
  log. `IInv` is `TypeOK`, `Cursors`, `InOrder` and `CompleteAtEnd`.
* `ExecutorProofs`: all the safety properties of the two executor runs, and
  `ExecutorImplementsSlot`. `IInv` is `TypeOK`, `OneJobAtATime` and, per job, four
  parts: `Unwinding` (what has been closed at each deferred call), `Holding` (what
  the daemon holds at each call, and which error explains it), `Verdict` (what
  the outcome of the wait says about the container) and `Report` (how the result
  relates to the verdict and the output). A step of one job leaves the invariant
  of the others alone (lemma `Frame`), except that Submit needs the slot to be
  free.

* `ApiProofs`: `TypeCorrect`, `SubmissionsExclusive`, `AnswersOfTheJob`,
  `BusyNamed`. `IInv` adds to the properties what a handler knows between two
  calls of the executor (`InHandler`) and that a job whose status was given out is
  finished (`Replied`); both survive the steps of others because the executor only
  moves on (`Onward`): the slot is never emptied and an answer never changes.

* `WorkerProofs`: `TypeCorrect`, `LeftoversExplained` and `OneLeftover`.
  `LeftoverExplained` does not say what an accepted submission does to the job
  before it, so `IInv` adds, per job, that a job underway is the one in the slot
  of the running process and was accepted by it, and that a lost one belongs to a
  process that has ended; and, for two jobs of one process, that at most one of
  them is underway or lost (`OneUnfinished`). A submission keeps this only because
  the job in the slot is done when it is accepted, and Done comes after the removal.

* `JobRunProofs`: `TypeCorrect`, `TimeoutBounded`, `JobsEndInTime`,
  `DurationBounded`, `CrashCleansUp`, for every case and every value of the
  constants. That a job is over in time does not follow from where it is alone, so `IInv`
  adds `Clock`, the latest time at which each call begins; `Settled`, that the configuration
  and the deadline are those computed from the environment and an accepted
  request; and `Pending`, how status, result and panic follow from one another.
  The arithmetic is in lemmas of its own: `WrapInt64` and `WrapFits` for
  overflow, `DurationEnv`, `LoadTyped`, `TimeoutTyped` and `ContainerTyped` for the
  operators of `Config` and `ConfigBuilder`.

  What the request, the whitelist, the command and the secrets are is settled by
  data, so the other six properties rest on lemmas about the operators:

  * `RegistryDecides` proves `WhitelistDecides`. Its invariant `Replied` says that
    the answer follows from the errors of the request under the loaded whitelist;
    the lemma `RegistryFound` says that `extractRegistry` finds the host of every
    reference (`DigestCut`, `TagCut`, `FirstInSecond`: the digest goes at the first
    "@", the tag at a colon behind the last slash, the rest ends at the first slash).
  * `CommandGiven` proves `CommandReachesContainer`. Its invariant `Built` says that
    a container has the configuration of its request; the lemma `CommandParsed` says
    that `parseCommand` returns the texts of every command. It goes by induction over
    the words: between two of them the scanner is outside of quotes and holds the
    last text (`Parsed`), a gap passes it on (`ScanGap`) and a word becomes the next
    one (`ScanWord`), because scanning two pieces one after the other is scanning
    both (`ScanConcat`).
  * `SecretsBroken`, `FragmentsExplained`, `OthersKept` and `GrowthWithinBound` prove
    `NoSecretSurvives`, `OnlyFragmentsLeft`, `OtherOutputKept` and `GrowthBounded`.
    Their invariant `OutputFromReport` says that the output is that of `Report` for
    logs that were read or not. The lemmas follow a text through the rounds of
    RedactSecrets: each round keeps it `Good` (its units are units of the container in
    their order, or of the placeholder; `ReplaceGood`, `RoundGood`), a round for a
    value leaves none of its spans whole (`ReplaceBreaks`) and, if no value shares a
    character with the placeholder, takes nothing but units of such a span
    (`ReplacePlain`, `RedactPlain`). Such a value occurs in a text only where the
    container wrote it (`PlainOccurrence`), so a text that breaks all its spans does not
    hold it at all. `LostFragments` uses that the values are sorted
    by length: a span that was broken before its own round was crossed by a span of a
    value at least as long.

Induction over data. The induction theorems of the library take a predicate as a
parameter; `BasicLemmas` derives from `WFMin` and `NatLessThanWellFounded` that a
set of numbers that is not empty has a least element, and from it induction with the
set of the numbers that have the property in place of the predicate
(`UpToInduction`). That a recursive function has the value its equation gives is
`IterationExists`: the run of a loop exists, so the CHOOSE behind the definition
picks one.

The assumptions are the named ones on the constants (`BufferConstants`,
`ExecutorConstants`, `ApiConstants`, `WorkerConstants`, `ConfigConstants`,
`BuilderConstants`, `ValidatorConstants`, `JobRunConstants`; `RedactionConstants`
only states that the placeholder is not empty): the default settings and the
limits of the validator fit into an int64, the calls have times that are natural numbers, channels hold at least one line, bounds are
natural numbers, `NoJob` is no job ID, and a status is none of the other words a
response may carry. That a UUID is never handed out twice is built into
`Submit`.

Only model-checked: the liveness properties (`CloseEndsStreams`,
`LoneSubscriberGetsEveryLine`, `JobEnds`, `StreamerEnds`, `EveryRequestEnds`,
`SignalEndsProcess`), because the prover does not reason about
fairness. Every invariant and every action property of the passing runs, and both
refinements, are proved.

## Plan

Done, in this order: LogStream, LogBuffer, JobSlot, Executor, Api, Worker, then
Config, ConfigBuilder, Validator, Redaction and JobRun, with their proofs, and last
the proofs about the data of JobRun.

## Not modelled

The Docker client, the translation of requests into its types and the registry
authentication in `docker.go`, JSON encoding and logging keep no state the
worker's behaviour depends on; of `docker.go` only the two arms of WaitContainer
and the timeout of PullImage are modelled. `deployApp.sh`, the
static site, the proxy and the image build are outside of the worker; the port
calculation of the script is a formula without state. `ImageExists` has no
deadline, so no property bounds it. The health check of docker-compose asks for
the status code of GET /health, which is 200 also when the daemon is
unreachable; docker-compose itself is not modelled.
