-------------------------------- MODULE JobRun ------------------------------
(***************************************************************************)
(* One job from the environment of its worker to its result: config.Load,  *)
(* handleSubmitJob with ValidateJobRequest, and executeJob with the data   *)
(* and the time that Executor leaves out.  A case fixes what is outside of *)
(* the worker: its environment, the request and what the client meant by   *)
(* it, what the container writes, and how long calls of the daemon take.   *)
(*                                                                         *)
(* A call of the runtime is one action.  It takes its time, but it returns *)
(* when the context it is given ends, and fails if the context has ended   *)
(* before the call.                                                        *)
(***************************************************************************)
EXTENDS ConfigBuilder, Validator, Redaction

CONSTANTS
  Cases,        \* what is outside of the worker, see IsCase
  RuntimePull,  \* imagePullTimeout of docker.go:21
  StopTime,     \* gracefulShutdownTimeout and 5 s
  KillTime,     \* 5 s
  LogsTime,     \* 10 s
  RemoveTime    \* 30 s

Streams == {"stdout", "stderr"}

IsCase(c) ==
  /\ c.env \in Environments
  /\ IsReference(c.ref) /\ c.req.image = ImageOf(c.ref)
  /\ IsCommand(c.words) /\ c.req.command = CommandOf(c.words)
  /\ {c.req.timeout, c.req.cpu, c.req.memory} \subseteq Optional(Int64)
  /\ c.req.network \in BOOLEAN
  /\ c.req.secrets \in Seq([name : Seq(STRING), value : Seq(STRING), file : STRING])
  /\ c.raw \in [Streams -> Seq(STRING)]
  /\ c.delays \subseteq Nat

ASSUME JobRunConstants ==
  /\ \A c \in Cases : IsCase(c)
  /\ {RuntimePull, StopTime, KillTime, LogsTime, RemoveTime} \subseteq Nat
  /\ Limit.maxTimeout * Second < Half /\ Limit.maxMemory * BytesPerMB < Half
  /\ DefaultCPU \in Limit.minCPU .. Limit.maxCPU
  /\ DefaultMemoryMB \in Limit.minMemory .. Limit.maxMemory

VARIABLES
  case,       \* what is outside of the worker
  cfg,        \* the Config of the worker
  at,         \* the call the worker is in, or how it ended
  reply,      \* the status code of POST /jobs, or 0
  now,        \* the time since executeJob began
  stalled,    \* when ImageExists returned
  deadline,   \* when timeoutCtx ends
  began,      \* execStart
  cc,         \* the ContainerConfig
  container,  \* the container, in the daemon
  status,     \* the status that follows from WaitContainer
  panicked,   \* executeJob panics
  result,     \* job.Result without its output
  out         \* the output of job.Result

vars == <<case, cfg, at, reply, now, stalled, deadline, began, cc, container,
          status, panicked, result, out>>
setup == <<case, cfg, reply, deadline>>
outcome == <<panicked, result, out>>

Later(a, b) == IF a > b THEN a ELSE b
Earlier(a, b) == IF a < b THEN a ELSE b

NoConfig == Load([default |-> {}, max |-> {}, pull |-> {}, output |-> {},
                  runtime |-> "", whitelist |-> <<>>])
NoContainer == [cpu |-> DefaultCPU, memory |-> DefaultMemoryMB * BytesPerMB,
                networkOff |-> TRUE, command |-> <<>>]
NoResult == [status |-> "none", error |-> "none", duration |-> 0,
             truncated |-> [s \in Streams |-> FALSE]]
NoOutput == [s \in Streams |-> <<>>]

Init ==
  /\ case \in Cases
  /\ cfg = NoConfig /\ at = "Load" /\ reply = 0
  /\ now = 0 /\ stalled = 0 /\ deadline = 0 /\ began = 0
  /\ cc = NoContainer /\ container = "absent" /\ status = "none"
  /\ panicked = FALSE /\ result = NoResult /\ out = NoOutput

-----------------------------------------------------------------------------
(* main and POST /jobs.                                                    *)

LoadConfig ==
  /\ at = "Load"
  /\ \/ LoadFails(case.env) /\ at' = "exit" /\ UNCHANGED cfg
     \/ ~LoadFails(case.env) /\ at' = "serve" /\ cfg' = Load(case.env)
  /\ UNCHANGED <<case, reply, now, stalled, deadline, began, cc, container, status,
                 outcome>>

(* An error about the registry decides for 403, whatever else is wrong.  An *)
(* accepted request starts executeJob, whose deadline runs from then on.    *)
handleSubmitJob ==
  /\ at = "serve"
  /\ LET errs == ValidateJobRequest(case.req, cfg.whitelist) IN
       \/ /\ errs = {}
          /\ reply' = 202 /\ at' = "ImageExists"
          /\ deadline' = EffectiveTimeout(case.req, cfg)
       \/ /\ errs # {}
          /\ reply' = IF "registry" \in errs THEN 403 ELSE 400
          /\ at' = "rejected"
          /\ UNCHANGED deadline
  /\ UNCHANGED <<case, cfg, now, stalled, began, cc, container, status, outcome>>

-----------------------------------------------------------------------------
(* executeJob                                                              *)

(* A call takes one of the delays of the case, but ends with its context. *)
Elapse(limit) ==
  \E d \in case.delays : now' = IF now + d <= limit THEN now + d ELSE Later(now, limit)

ErrorResult(what, duration) ==
  [NoResult EXCEPT !.status = "error", !.error = what, !.duration = duration]

(* An early return; the duration is counted from the start of the job. *)
Fail(what, label) ==
  /\ result' = ErrorResult(what, now')
  /\ at' = label
  /\ UNCHANGED <<panicked, out>>

(* The context of this call has no deadline. *)
ImageExists ==
  /\ at = "ImageExists"
  /\ \E d \in case.delays : now' = now + d
  /\ stalled' = now'
  /\ \/ at' \in {"PullImage", "CreateContainer"} /\ UNCHANGED outcome
     \/ Fail("image", "done")
  /\ UNCHANGED <<setup, began, cc, container, status>>

(* Mutant: only the configured timeout applies. *)
PullLimitConfigured == now + cfg.pull

(* The configured timeout, and that of PullImage inside it. *)
PullLimit == Earlier(now + cfg.pull, now + RuntimePull)

(* The error speaks of a timeout if the configured one has passed. *)
PullImage ==
  /\ at = "PullImage"
  /\ Elapse(PullLimit)
  /\ \/ now < PullLimit /\ at' = "CreateContainer" /\ UNCHANGED outcome
     \/ Fail(IF now' >= now + cfg.pull THEN "pull timed out" ELSE "pull", "done")
  /\ UNCHANGED <<setup, stalled, began, cc, container, status>>

CreateContainer ==
  /\ at = "CreateContainer"
  /\ cc' = BuildContainerConfig(case.req)
  /\ Elapse(deadline)
  /\ \/ /\ now < deadline
        /\ at' = "StartContainer" /\ container' = "created"
        /\ UNCHANGED outcome
     \/ /\ container' \in {"absent", "created"}
        /\ Fail("create", "done")
  /\ UNCHANGED <<setup, stalled, began, status>>

StartContainer ==
  /\ at = "StartContainer"
  /\ Elapse(deadline)
  /\ \/ /\ now < deadline
        /\ at' = "WaitContainer" /\ container' = "running"
        /\ began' = now'
        /\ UNCHANGED outcome
     \/ /\ container' \in {"created", "running"}
        /\ Fail("start", "RemoveContainer")
        /\ UNCHANGED began
  /\ UNCHANGED <<setup, stalled, cc, status>>

(* The container exits, the deadline passes, or the wait itself fails. *)
WaitContainer ==
  /\ at = "WaitContainer"
  /\ \/ /\ Elapse(deadline)
        /\ container' = "exited" /\ at' = "GetLogs"
        /\ status' \in {"success", "failed"}
     \/ /\ now' = Later(now, deadline)
        /\ at' = "StopContainer" /\ status' = "timeout"
        /\ UNCHANGED container
     \/ /\ now < deadline /\ Elapse(deadline) /\ now' < deadline
        /\ at' = "GetLogs" /\ status' = "error"
        /\ UNCHANGED container
  /\ UNCHANGED <<setup, stalled, began, cc, outcome>>

(* handleTimeout; a stop or a kill that fails may have stopped it or not. *)
StopContainer ==
  /\ at = "StopContainer"
  /\ Elapse(now + StopTime)
  /\ \/ at' = "GetLogs" /\ container' = "exited"
     \/ at' = "KillContainer" /\ container' \in {"running", "exited"}
  /\ UNCHANGED <<setup, stalled, began, cc, status, outcome>>

KillContainer ==
  /\ at = "KillContainer"
  /\ Elapse(now + KillTime)
  /\ at' = "GetLogs" /\ container' \in {container, "exited"}
  /\ UNCHANGED <<setup, stalled, began, cc, status, outcome>>

(* Mutant: the duration counts from the submission. *)
DurationOfJob == now

(* Milliseconds from execStart, before the logs are collected. *)
Duration == now - began

Panics(logs) == \E s \in Streams : SlicePanics(logs[s], cfg.output)

(* Mutant: the panic of CaptureOutput ends the process at once. *)
CrashAtOnce(logs) ==
  /\ Panics(logs)
  /\ panicked' = TRUE /\ at' = "crashed"
  /\ UNCHANGED <<result, out>>

(* The panic unwinds through the deferred calls. *)
Crash(logs) ==
  /\ Panics(logs)
  /\ panicked' = TRUE /\ at' = "RemoveContainer"
  /\ UNCHANGED <<result, out>>

(* CaptureOutput, RedactSecrets and the result. *)
Report(logs) ==
  /\ ~Panics(logs)
  /\ result' = [status |-> status, duration |-> Duration,
                error |-> IF status = "error" THEN "wait" ELSE "none",
                truncated |-> [s \in Streams |-> Len(logs[s]) > cfg.output]]
  /\ out' = [s \in Streams |->
               RedactSecrets(truncateTail(logs[s], cfg.output), case.req.secrets)]
  /\ at' = "RemoveContainer"
  /\ UNCHANGED panicked

(* Logs that cannot be read count as empty. *)
GetLogs ==
  /\ at = "GetLogs"
  /\ Elapse(now + LogsTime)
  /\ \E logs \in {[s \in Streams |-> Written(case.raw[s])], NoOutput} :
       Report(logs) \/ Crash(logs)
  /\ UNCHANGED <<setup, stalled, began, cc, container, status>>

(* The deferred calls; after a panic the process ends behind them. *)
RemoveContainer ==
  /\ at = "RemoveContainer"
  /\ Elapse(now + RemoveTime)
  /\ container' \in {"removed", "left"}
  /\ at' = IF panicked THEN "crashed" ELSE "done"
  /\ UNCHANGED <<setup, stalled, began, cc, status, outcome>>

Next ==
  \/ LoadConfig \/ handleSubmitJob \/ ImageExists \/ PullImage
  \/ CreateContainer \/ StartContainer \/ WaitContainer \/ StopContainer
  \/ KillContainer \/ GetLogs \/ RemoveContainer

Spec == Init /\ [][Next]_vars

-----------------------------------------------------------------------------
(* Properties.                                                             *)

Calls == {"ImageExists", "PullImage", "CreateContainer", "StartContainer",
          "WaitContainer", "StopContainer", "KillContainer", "GetLogs",
          "RemoveContainer"}
Ends == {"exit", "rejected", "done", "crashed"}

CPULimits == Limit.minCPU .. Limit.maxCPU
MemoryLimits == Limit.minMemory * BytesPerMB .. Limit.maxMemory * BytesPerMB

(* Type invariant; the limits of a container are those of validator.go.    *)
TypeOK ==
  /\ IsCase(case)
  /\ {cfg.default, cfg.max, cfg.pull, cfg.output} \subseteq Int64
  /\ at \in {"Load", "serve"} \cup Calls \cup Ends
  /\ reply \in {0, 202, 400, 403}
  /\ {now, stalled, began} \subseteq Nat /\ deadline \in Int64
  /\ cc.cpu \in CPULimits /\ cc.memory \in MemoryLimits
  /\ cc.networkOff \in BOOLEAN
  /\ container \in {"absent", "created", "running", "exited", "removed", "left"}
  /\ status \in {"none", "success", "failed", "timeout", "error"}
  /\ panicked \in BOOLEAN
  /\ result.status \in {"none", "success", "failed", "timeout", "error"}
  /\ result.duration \in Nat

(* A request for an image is refused with 403 if and only if the registry  *)
(* the client meant is not on a non-empty whitelist, in whatever case it   *)
(* is written, with or without port, tag and digest, and whatever else is  *)
(* wrong with the request.                                                 *)
WhitelistDecides ==
  LET whitelist == ToSet(case.env.whitelist) \ {<<>>}
      approved == whitelist = {} \/ \E entry \in whitelist : EqualFold(HostOf(case.ref), entry)
  IN reply # 0 /\ case.req.image # <<>> => (reply = 403 <=> ~approved)

(* The container gets the words the client wrote (case.words), with their  *)
(* spaces and the quotes of the other kind; only empty words are lost.     *)
CommandReachesContainer ==
  container # "absent" => cc.command = TextsOf(case.words)

(* The number of seconds fits into a time.Duration and is not 0 or less. *)
InRange(option) == \A n \in option : n > 0 /\ n * Second < Half

(* No requested timeout gives an accepted job more than MaxTimeout,        *)
(* whatever the environment sets, overflow included.  A job has at least a *)
(* second and at most MaxTimeout, requested or not, unless one of the two  *)
(* settings is not positive or does not fit, or DEFAULT_TIMEOUT is above   *)
(* MAX_TIMEOUT.                                                            *)
TimeoutWithinMaximum ==
  reply = 202 =>
    /\ case.req.timeout # {} => deadline <= cfg.max
    /\ InRange(case.env.default) /\ InRange(case.env.max) /\ cfg.default <= cfg.max =>
         deadline \in Second .. cfg.max

Positive(n) == Later(n, 0)

(* The latest time at which each call can be over. *)
PullEnds == stalled + Positive(Earlier(cfg.pull, RuntimePull))
RunEnds == Later(PullEnds, deadline)
JobEnds == RunEnds + StopTime + KillTime + LogsTime + RemoveTime

(* Once ImageExists has returned, a job that cannot pull or create ends by *)
(* the pull or the deadline; every other ends after the later of these and *)
(* the time RemoveContainer and GetLogs may take, and only one that timed  *)
(* out also takes the time of handleTimeout: whatever the daemon does.     *)
EndsInTime ==
  at \in {"done", "crashed"} =>
    /\ result.error \in {"image", "pull", "pull timed out"} => now <= PullEnds
    /\ result.error = "create" => now <= RunEnds
    /\ result.error = "start" => now <= RunEnds + RemoveTime
    /\ status # "timeout" => now <= RunEnds + LogsTime + RemoveTime
    /\ now <= JobEnds

(* DurationMs: what is reported for a container never exceeds what was     *)
(* left of the timeout when it had started, but for the time that stopping *)
(* it takes: neither the pull nor the collection of the logs counts.       *)
DurationWithinTimeout ==
  /\ result.status \in {"success", "failed"} \/ result.error = "wait" =>
       result.duration <= deadline - began
  /\ result.status = "timeout" =>
       result.duration <= deadline - began + StopTime + KillTime

(* "This prevents container leaks regardless of success, failure, timeout, *)
(* or panic" (design.md:436), for the panic: CaptureOutput panics only for *)
(* a negative MAX_OUTPUT_BYTES, and the process that ends by it has asked  *)
(* for the removal of the container.                                       *)
CrashStillCleansUp ==
  at = "crashed" =>
    (\E n \in case.env.output : n < 0) /\ container \in {"removed", "left"}

-----------------------------------------------------------------------------
(* What is left of the output.                                             *)

Values == {s.value : s \in ToSet(case.req.secrets)} \ {<<>>}

Spans(s) == SpansOf(case.raw[s], Values)
Kept(s) == KeptIn(out[s])

(* The first position that truncateTail keeps. *)
First(s) == Later(Len(case.raw[s]) - cfg.output, 0) + 1

(* No secret has a character of the placeholder. *)
Plain == \A v \in Values : ToSet(v) \cap ToSet(Placeholder) = {}

(* A secret is a substring of the result. *)
Remains(s) == \E v \in Values : \E i \in 1 .. Len(out[s]) : OccursAt(out[s], v, i)

(* RedactSecrets is to ensure "that no secret value remains as a substring *)
(* after redaction" (redaction.go:7), which holds if no secret has a       *)
(* character in common with the placeholder.  Otherwise the placeholder    *)
(* itself can spell a secret, and what is left of the promise is that of   *)
(* no secret the container wrote is every character in the result: however *)
(* secrets overlap, contain one another or resemble the placeholder.       *)
NoSecretSurvives ==
  \A s \in Streams :
    /\ Plain => ~Remains(s)
    /\ \A p \in Spans(s) : ~(p[1] .. p[2] \subseteq Kept(s))

(* A part of a secret is left only where truncateTail has cut it or another *)
(* secret crosses it; a secret inside a longer one leaves nothing.          *)
OnlyFragmentsLeft ==
  Plain => \A s \in Streams : \A p \in Spans(s) :
    (p[1] .. p[2]) \cap Kept(s) # {} =>
      p[1] < First(s) \/ \E q \in Spans(s) : Crosses(p, q)

(* What is no secret is kept, in its order, from where truncateTail cuts,   *)
(* and a result that does not say truncated lacks nothing else.             *)
OtherOutputKept ==
  result.status # "none" /\ Plain => \A s \in Streams : out[s] # <<>> =>
    /\ \A i \in 1 .. Len(case.raw[s]) :
         i \in Kept(s) \/ (\E p \in Spans(s) : i \in p[1] .. p[2])
           \/ (i < First(s) /\ result.truncated[s])
    /\ \A i, k \in 1 .. Len(out[s]) :
         i < k /\ out[s][i].at # 0 /\ out[s][k].at # 0 => out[s][i].at < out[s][k].at

(* Redaction comes after truncation and can make the output longer than    *)
(* MAX_OUTPUT_BYTES, by no more than a placeholder for each byte.          *)
GrowthBounded ==
  Plain => \A s \in Streams :
    Len(out[s]) <= Positive(cfg.output) * Len(Placeholder)

=============================================================================
