----------------------------- MODULE JobRunProofs ---------------------------
(***************************************************************************)
(* JobRun for every case and every value of its constants: its times and   *)
(* limits, what the whitelist decides, which command the container gets,   *)
(* and what RedactSecrets leaves of its output.                            *)
(***************************************************************************)
EXTENDS JobRun, RedactionProofs, RequestProofs, TLAPS

-----------------------------------------------------------------------------
(* Arithmetic on int64.                                                    *)

(* A wrapped number is an int64.                                           *)
LEMMA WrapInt64 == ASSUME NEW n \in Int PROVE Wrap(n) \in Int64
<1> DEFINE m == 2 * Half
<1>1. Half \in Nat \ {0} /\ m \in Nat \ {0}
  BY ConfigConstants
<1>2. (n + Half) % m \in 0 .. m - 1
  <2> HIDE DEF m
  <2> QED BY <1>1
<1> QED BY <1>1, <1>2 DEF Wrap, Int64

(* A number that fits is not changed.                                      *)
LEMMA WrapFits == ASSUME NEW n \in Int64 PROVE Wrap(n) = n
<1> DEFINE m == 2 * Half
           k == n + Half
<1>1. Half \in Nat \ {0} /\ m \in Nat \ {0} /\ k \in 0 .. m - 1
  BY ConfigConstants DEF Int64
<1>2. k % m = k
  <2> HIDE DEF m, k
  <2> QED BY <1>1
<1> QED BY <1>1, <1>2 DEF Wrap, Int64

(* A product grows with its factors.                                       *)
LEMMA TimesMonotone ==
  ASSUME NEW a \in Nat, NEW b \in Nat, NEW c \in Nat, a <= b
  PROVE  a * c <= b * c /\ a * c \in Nat /\ b * c \in Nat
<1>1. PICK d \in Nat : b = a + d
  <2>1. b - a \in Nat /\ b = a + (b - a)
    OBVIOUS
  <2> QED BY <2>1
<1>2. b * c = a * c + d * c /\ a * c \in Nat /\ d * c \in Nat
  BY <1>1
<1> QED BY <1>2

(* A positive number of seconds that fits is at least one second.          *)
LEMMA SecondsFit ==
  ASSUME NEW n \in Nat \ {0}, n * Second < Half
  PROVE  Wrap(n * Second) = n * Second /\ Second <= n * Second
<1>1. Half \in Nat \ {0} /\ Second \in Nat \ {0}
  BY ConfigConstants
<1>2. 1 * Second <= n * Second /\ n * Second \in Nat /\ 1 * Second = Second
  BY <1>1, TimesMonotone
<1>3. n * Second \in Int64
  BY <1>1, <1>2 DEF Int64
<1> QED BY <1>2, <1>3, WrapFits

-----------------------------------------------------------------------------
(* What config.Load and EffectiveTimeout return.                           *)

(* The one number of an option.                                            *)
LEMMA OptionValue ==
  ASSUME NEW S, NEW option \in Optional(S), option # {}
  PROVE  /\ (CHOOSE n \in option : TRUE) \in S
         /\ option = {CHOOSE n \in option : TRUE}
<1>1. PICK n \in S : option = {n}
  BY DEF Optional
<1>2. (CHOOSE k \in option : TRUE) = n
  BY <1>1
<1> QED BY <1>1, <1>2

(* An option or its default.                                               *)
LEMMA OrDefaultIn ==
  ASSUME NEW S, NEW option \in Optional(S), NEW default \in S
  PROVE  OrDefault(option, default) \in S
BY OptionValue DEF OrDefault

(* A timeout of the environment is an int64 number of nanoseconds, and at  *)
(* least a second if the variable is in range.                             *)
LEMMA DurationEnv ==
  ASSUME NEW var \in Optional(Int64), NEW seconds \in Nat, seconds * Second < Half
  PROVE  /\ parseDurationEnv(var, seconds * Second) \in Int64
         /\ InRange(var) /\ seconds # 0 =>
              Second <= parseDurationEnv(var, seconds * Second)
<1> DEFINE n == CHOOSE k \in var : TRUE
<1>1. Half \in Nat \ {0} /\ Second \in Nat \ {0}
  BY ConfigConstants
<1>2. CASE var = {}
  <2>1. parseDurationEnv(var, seconds * Second) = seconds * Second
    BY <1>2 DEF parseDurationEnv
  <2>2. seconds * Second \in Nat
    BY <1>1, TimesMonotone
  <2>3. seconds * Second \in Int64
    BY <1>1, <2>2 DEF Int64
  <2>4. seconds # 0 => Second <= seconds * Second
    BY SecondsFit
  <2> QED BY <2>1, <2>3, <2>4
<1>3. CASE var # {}
  <2>1. n \in Int64 /\ n \in Int /\ n \in var
    <3>1. n \in Int64 /\ var = {n}
      BY <1>3, OptionValue
    <3> QED BY <1>1, <3>1 DEF Int64
  <2>2. parseDurationEnv(var, seconds * Second) = Wrap(n * Second)
    BY <1>3 DEF parseDurationEnv
  <2>3. n * Second \in Int
    BY <1>1, <2>1
  <2>4. InRange(var) => n \in Nat \ {0} /\ n * Second < Half
    BY <2>1 DEF InRange
  <2> HIDE DEF n
  <2> QED BY <2>2, <2>3, <2>4, WrapInt64, SecondsFit
<1> QED BY <1>2, <1>3

(* The settings of a worker.                                               *)
LEMMA LoadTyped ==
  ASSUME NEW env, {env.default, env.max, env.pull, env.output} \subseteq Optional(Int64)
  PROVE  /\ {Load(env).default, Load(env).max, Load(env).pull, Load(env).output}
              \subseteq Int64
         /\ InRange(env.default) => Second <= Load(env).default
         /\ InRange(env.max) => Second <= Load(env).max
<1>1. /\ Half \in Nat \ {0} /\ Second \in Nat \ {0}
      /\ DefaultSeconds \in Nat /\ DefaultSeconds # 0
      /\ MaxSeconds \in Nat /\ MaxSeconds # 0
      /\ PullSeconds \in Nat /\ PullSeconds * Second < Half
      /\ DefaultSeconds <= MaxSeconds /\ MaxSeconds * Second < Half
      /\ OutputBytes \in Int64
  BY ConfigConstants DEF Int64
<1>2. DefaultSeconds * Second < Half
  <2>1. /\ DefaultSeconds * Second <= MaxSeconds * Second
        /\ DefaultSeconds * Second \in Nat /\ MaxSeconds * Second \in Nat
    BY <1>1, TimesMonotone
  <2> QED BY <1>1, <2>1
<1>3. /\ env.default \in Optional(Int64) /\ env.max \in Optional(Int64)
      /\ env.pull \in Optional(Int64) /\ env.output \in Optional(Int64)
  OBVIOUS
<1>4. /\ Load(env).default = parseDurationEnv(env.default, DefaultSeconds * Second)
      /\ Load(env).max = parseDurationEnv(env.max, MaxSeconds * Second)
      /\ Load(env).pull = parseDurationEnv(env.pull, PullSeconds * Second)
      /\ Load(env).output = parseIntEnv(env.output, OutputBytes)
  BY DEF Load
<1>5. /\ Load(env).default \in Int64
      /\ InRange(env.default) => Second <= Load(env).default
  BY <1>1, <1>2, <1>3, <1>4, DurationEnv
<1>6. Load(env).max \in Int64 /\ (InRange(env.max) => Second <= Load(env).max)
  BY <1>1, <1>3, <1>4, DurationEnv
<1>7. Load(env).pull \in Int64
  BY <1>1, <1>3, <1>4, DurationEnv
<1>8. Load(env).output \in Int64
  BY <1>1, <1>3, <1>4, OrDefaultIn DEF parseIntEnv
<1> QED BY <1>5, <1>6, <1>7, <1>8

(* MAX_OUTPUT_BYTES is negative only if it is set to a negative number.    *)
LEMMA NegativeOutput ==
  ASSUME NEW env \in Environments, Load(env).output < 0
  PROVE  \E n \in env.output : n < 0
<1>1. Load(env).output = OrDefault(env.output, OutputBytes)
  BY DEF Load, parseIntEnv
<1>2. CASE env.output = {}
  BY <1>1, <1>2, ConfigConstants DEF OrDefault
<1>3. CASE env.output # {}
  <2>1. env.output \in Optional(Int64)
    BY DEF Environments
  <2>2. (CHOOSE n \in env.output : TRUE) \in env.output
    BY <1>3, <2>1, OptionValue
  <2> QED BY <1>1, <1>3, <2>2 DEF OrDefault
<1> QED BY <1>2, <1>3

(* A request that passes has its numbers within the limits.                *)
LEMMA AcceptedLimits ==
  ASSUME NEW req, NEW whitelist, ValidateJobRequest(req, whitelist) = {}
  PROVE  /\ ~OutOfRange(req.timeout, Limit.minTimeout, Limit.maxTimeout)
         /\ ~OutOfRange(req.cpu, Limit.minCPU, Limit.maxCPU)
         /\ ~OutOfRange(req.memory, Limit.minMemory, Limit.maxMemory)
BY DEF ValidateJobRequest

(* The deadline of a job is an int64, and within the maximum if it was     *)
(* requested or the settings are.                                          *)
LEMMA TimeoutTyped ==
  ASSUME NEW env \in Environments, NEW req, req.timeout \in Optional(Int64),
         ~OutOfRange(req.timeout, Limit.minTimeout, Limit.maxTimeout)
  PROVE  /\ EffectiveTimeout(req, Load(env)) \in Int64
         /\ req.timeout # {} => EffectiveTimeout(req, Load(env)) <= Load(env).max
         /\ InRange(env.default) /\ InRange(env.max)
              /\ Load(env).default <= Load(env).max =>
            EffectiveTimeout(req, Load(env)) \in Second .. Load(env).max
<1> DEFINE cf == Load(env)
           n == CHOOSE k \in req.timeout : TRUE
<1>0. /\ cf.default \in Int64 /\ cf.max \in Int64
      /\ InRange(env.default) => Second <= cf.default
      /\ InRange(env.max) => Second <= cf.max
  BY LoadTyped DEF Environments
<1>1. Half \in Nat \ {0} /\ Second \in Nat \ {0}
  BY ConfigConstants
<1>2. CASE req.timeout = {}
  <2>1. EffectiveTimeout(req, cf) = cf.default
    BY <1>2 DEF EffectiveTimeout
  <2> HIDE DEF cf
  <2>2. cf.default \in Int /\ cf.max \in Int
    BY <1>0, <1>1 DEF Int64
  <2> QED BY <1>0, <1>1, <1>2, <2>1, <2>2 DEF cf
<1>3. CASE req.timeout # {}
  <2>1. n \in Int64 /\ n \in Int /\ n \in req.timeout
    <3>1. n \in Int64 /\ req.timeout = {n}
      BY <1>3, OptionValue
    <3> QED BY <1>1, <3>1 DEF Int64
  <2>2. /\ Limit.minTimeout \in Nat \ {0} /\ Limit.maxTimeout \in Nat
        /\ Limit.maxTimeout * Second < Half
    BY ValidatorConstants, JobRunConstants
  <2>3. n \in Nat \ {0} /\ n <= Limit.maxTimeout
    BY <2>1, <2>2 DEF OutOfRange
  <2>4. n * Second < Half
    <3>1. n * Second <= Limit.maxTimeout * Second /\ n * Second \in Nat
          /\ Limit.maxTimeout * Second \in Nat
      BY <1>1, <2>2, <2>3, TimesMonotone
    <3> QED BY <1>1, <2>2, <3>1
  <2>5. EffectiveTimeout(req, cf) =
          IF Wrap(n * Second) > cf.max THEN cf.max ELSE Wrap(n * Second)
    BY <1>3 DEF EffectiveTimeout
  <2>6. Second <= Wrap(n * Second) /\ Wrap(n * Second) \in Int64
    <3>1. n * Second \in Int
      BY <1>1, <2>1
    <3> HIDE DEF n
    <3> QED BY <2>3, <2>4, <3>1, SecondsFit, WrapInt64
  <2> HIDE DEF cf, n
  <2>7. cf.max \in Int /\ Wrap(n * Second) \in Int
    BY <1>0, <1>1, <2>6 DEF Int64
  <2> QED BY <1>0, <1>1, <2>5, <2>6, <2>7 DEF cf
<1> QED BY <1>2, <1>3

(* The limits of a container are within those of the validator.            *)
LEMMA ContainerTyped ==
  ASSUME NEW c, IsCase(c),
         ~OutOfRange(c.req.cpu, Limit.minCPU, Limit.maxCPU),
         ~OutOfRange(c.req.memory, Limit.minMemory, Limit.maxMemory)
  PROVE  /\ BuildContainerConfig(c.req).cpu \in CPULimits
         /\ BuildContainerConfig(c.req).memory \in MemoryLimits
         /\ BuildContainerConfig(c.req).networkOff \in BOOLEAN
<1> DEFINE cpu == OrDefault(c.req.cpu, DefaultCPU)
           mb == OrDefault(c.req.memory, DefaultMemoryMB)
<1>1. /\ BuildContainerConfig(c.req).cpu = cpu
      /\ BuildContainerConfig(c.req).memory = Wrap(mb * BytesPerMB)
      /\ BuildContainerConfig(c.req).networkOff = ~c.req.network
  BY DEF BuildContainerConfig
<1>2. /\ DefaultCPU \in Limit.minCPU .. Limit.maxCPU
      /\ DefaultMemoryMB \in Limit.minMemory .. Limit.maxMemory
      /\ Limit.minCPU \in Nat /\ Limit.maxCPU \in Nat
      /\ Limit.minMemory \in Nat /\ Limit.maxMemory \in Nat
      /\ BytesPerMB \in Nat /\ Limit.maxMemory * BytesPerMB < Half
      /\ Half \in Nat \ {0}
  BY ConfigConstants, BuilderConstants, ValidatorConstants, JobRunConstants
<1>3. cpu \in Limit.minCPU .. Limit.maxCPU
  <2>1. CASE c.req.cpu = {}
    BY <1>2, <2>1 DEF OrDefault
  <2>2. CASE c.req.cpu # {}
    <3>1. c.req.cpu \in Optional(Int64)
      BY DEF IsCase
    <3>2. cpu \in Int64 /\ cpu \in c.req.cpu
      <4>1. cpu = CHOOSE n \in c.req.cpu : TRUE
        BY <2>2 DEF OrDefault
      <4> HIDE DEF cpu
      <4> QED BY <2>2, <3>1, <4>1, OptionValue
    <3> HIDE DEF cpu
    <3>3. ~(cpu < Limit.minCPU) /\ ~(cpu > Limit.maxCPU)
      BY <3>2 DEF OutOfRange
    <3>4. cpu \in Int
      BY <1>2, <3>2 DEF Int64
    <3> QED BY <1>2, <3>3, <3>4
  <2> QED BY <2>1, <2>2
<1>4. mb \in Limit.minMemory .. Limit.maxMemory
  <2>1. CASE c.req.memory = {}
    BY <1>2, <2>1 DEF OrDefault
  <2>2. CASE c.req.memory # {}
    <3>1. c.req.memory \in Optional(Int64)
      BY DEF IsCase
    <3>2. mb \in Int64 /\ mb \in c.req.memory
      <4>1. mb = CHOOSE n \in c.req.memory : TRUE
        BY <2>2 DEF OrDefault
      <4> HIDE DEF mb
      <4> QED BY <2>2, <3>1, <4>1, OptionValue
    <3> HIDE DEF mb
    <3>3. ~(mb < Limit.minMemory) /\ ~(mb > Limit.maxMemory)
      BY <3>2 DEF OutOfRange
    <3>4. mb \in Int
      BY <1>2, <3>2 DEF Int64
    <3> QED BY <1>2, <3>3, <3>4
  <2> QED BY <2>1, <2>2
<1>5. Wrap(mb * BytesPerMB) \in Limit.minMemory * BytesPerMB .. Limit.maxMemory * BytesPerMB
  <2> HIDE DEF mb
  <2>1. mb \in Nat /\ Limit.minMemory <= mb /\ mb <= Limit.maxMemory
    BY <1>2, <1>4
  <2>2. /\ Limit.minMemory * BytesPerMB <= mb * BytesPerMB
        /\ mb * BytesPerMB <= Limit.maxMemory * BytesPerMB
        /\ Limit.minMemory * BytesPerMB \in Nat
        /\ mb * BytesPerMB \in Nat /\ Limit.maxMemory * BytesPerMB \in Nat
    BY <1>2, <2>1, TimesMonotone
  <2>3. mb * BytesPerMB \in Int64
    BY <1>2, <2>2 DEF Int64
  <2> QED BY <2>2, <2>3, WrapFits
<1>6. c.req.network \in BOOLEAN
  BY DEF IsCase
<1> HIDE DEF cpu, mb
<1> QED BY <1>1, <1>3, <1>5, <1>6 DEF CPULimits, MemoryLimits

-----------------------------------------------------------------------------
(* The inductive invariant.                                                *)

InJob == Calls \cup {"done", "crashed"}

(* What LoadConfig and handleSubmitJob leave behind.                       *)
Settled ==
  /\ at \notin {"Load", "exit"} => cfg = Load(case.env)
  /\ at \in {"Load", "serve", "exit"} => reply = 0
  /\ at \in InJob => reply = 202
  /\ reply = 202 =>
       /\ ValidateJobRequest(case.req, cfg.whitelist) = {}
       /\ deadline = EffectiveTimeout(case.req, cfg)

(* When handleTimeout can be over, or the wait without it.                 *)
WaitEnds == IF status = "timeout" THEN deadline + StopTime + KillTime ELSE deadline

(* The latest time at which each call begins.                              *)
Clock ==
  /\ at = "PullImage" => now = stalled
  /\ at = "CreateContainer" => now <= PullEnds
  /\ at = "StartContainer" => now <= RunEnds
  /\ at = "WaitContainer" => now = began /\ now <= deadline
  /\ at = "StopContainer" => now <= deadline
  /\ at = "KillContainer" => now <= deadline + StopTime
  /\ at = "GetLogs" => now <= WaitEnds
  /\ at \in {"StopContainer", "KillContainer", "GetLogs"} => began <= now
  /\ at = "RemoveContainer" =>
       now <= IF status = "none" THEN RunEnds ELSE Later(RunEnds, WaitEnds) + LogsTime

(* How the status, the result and a panic follow from one another.         *)
Pending ==
  /\ at \in InJob \ {"RemoveContainer", "done", "crashed"} =>
       result = NoResult /\ panicked = FALSE
  /\ at \in {"ImageExists", "PullImage", "CreateContainer", "StartContainer",
             "WaitContainer"} => status = "none"
  /\ at \in {"StopContainer", "KillContainer"} => status = "timeout"
  /\ at = "GetLogs" => status # "none"
  /\ at = "RemoveContainer" =>
       /\ result.error \in {"none", "start", "wait"}
       /\ result.error = "start" => status = "none"
  /\ at \notin InJob => result = NoResult /\ panicked = FALSE /\ status = "none"
  /\ panicked => cfg.output < 0
  /\ at = "crashed" => panicked /\ container \in {"removed", "left"}

IInv ==
  /\ TypeOK
  /\ Settled
  /\ Clock
  /\ Pending
  /\ EndsInTime
  /\ DurationWithinTimeout

-----------------------------------------------------------------------------
(* The types of what the steps compare.                                    *)
LEMMA Numbers ==
  ASSUME TypeOK
  PROVE  /\ now \in Nat /\ stalled \in Nat /\ began \in Nat
         /\ deadline \in Int /\ cfg.pull \in Int /\ cfg.output \in Int
         /\ case.delays \subseteq Nat
         /\ {RuntimePull, StopTime, KillTime, LogsTime, RemoveTime} \subseteq Nat
         /\ PullEnds \in Int /\ stalled <= PullEnds
         /\ RunEnds \in Int /\ PullEnds <= RunEnds /\ deadline <= RunEnds
<1>1. Half \in Nat
  BY ConfigConstants
<1>2. deadline \in Int /\ cfg.pull \in Int /\ cfg.output \in Int
  BY <1>1 DEF TypeOK, Int64
<1>3. /\ now \in Nat /\ stalled \in Nat /\ began \in Nat
      /\ case.delays \subseteq Nat
      /\ {RuntimePull, StopTime, KillTime, LogsTime, RemoveTime} \subseteq Nat
  BY JobRunConstants DEF TypeOK, IsCase
<1> QED BY <1>2, <1>3 DEF PullEnds, RunEnds, Positive, Later, Earlier

(* The same of the bounds of a job, after a step.                           *)
LEMMA NextBounds ==
  ASSUME TypeOK'
  PROVE  /\ PullEnds' \in Int /\ stalled' <= PullEnds'
         /\ RunEnds' \in Int /\ PullEnds' <= RunEnds' /\ deadline' <= RunEnds'
<1>1. Half \in Nat
  BY ConfigConstants
<1>2. deadline' \in Int /\ cfg'.pull \in Int /\ stalled' \in Nat
  BY <1>1 DEF TypeOK, Int64
<1>3. RuntimePull \in Nat
  BY JobRunConstants
<1>4. PullEnds' \in Int /\ stalled' <= PullEnds'
  <2>1. PullEnds' = stalled' + Positive(Earlier(cfg'.pull, RuntimePull))
    BY DEF PullEnds
  <2>2. ASSUME NEW p \in Int
        PROVE  Positive(Earlier(p, RuntimePull)) \in Nat
    BY <1>3 DEF Positive, Later, Earlier
  <2>3. Positive(Earlier(cfg'.pull, RuntimePull)) \in Nat
    BY <1>2, <2>2
  <2> QED BY <1>2, <2>1, <2>3
<1>5. RunEnds' = Later(PullEnds', deadline')
  BY DEF RunEnds
<1> QED BY <1>2, <1>4, <1>5 DEF Later

(* A call moves the time on, but not past the end of its context.          *)
LEMMA ElapseBounds ==
  ASSUME TypeOK, NEW limit \in Int, Elapse(limit)
  PROVE  now' \in Nat /\ now <= now' /\ now' <= Later(now, limit)
<1>1. now \in Nat /\ case.delays \subseteq Nat
  BY Numbers
<1>2. PICK d \in case.delays :
        now' = IF now + d <= limit THEN now + d ELSE Later(now, limit)
  BY DEF Elapse
<1> QED BY <1>1, <1>2 DEF Later

(* The bounds of a job do not move once its image is looked up.            *)
LEMMA BoundsFixed ==
  ASSUME UNCHANGED <<setup, stalled>>
  PROVE  PullEnds' = PullEnds /\ RunEnds' = RunEnds /\ JobEnds' = JobEnds
BY DEF setup, PullEnds, RunEnds, JobEnds, Positive

(* What was settled stays so.                                              *)
LEMMA StillSettled ==
  ASSUME Settled, UNCHANGED setup, at \in InJob, at' \in InJob
  PROVE  Settled'
BY DEF Settled, setup, InJob, Calls

(* The fields of the results.                                              *)
LEMMA ResultFields ==
  /\ NoResult.status = "none" /\ NoResult.error = "none" /\ NoResult.duration = 0
  /\ \A what, duration :
       /\ ErrorResult(what, duration).status = "error"
       /\ ErrorResult(what, duration).error = what
       /\ ErrorResult(what, duration).duration = duration
BY DEF NoResult, ErrorResult

(* The state before config.Load.                                           *)
LEMMA InitIInv == Init => IInv
<1> SUFFICES ASSUME Init PROVE IInv
  OBVIOUS
<1>1. IsCase(case)
  BY JobRunConstants DEF Init
<1>2. {cfg.default, cfg.max, cfg.pull, cfg.output} \subseteq Int64
  <2>1. {} \in Optional(Int64)
    BY DEF Optional
  <2> QED BY <2>1, LoadTyped DEF Init, NoConfig
<1>3. 0 \in Int64
  BY ConfigConstants DEF Int64
<1>4. /\ cc.cpu \in CPULimits /\ cc.memory \in MemoryLimits
      /\ cc.networkOff \in BOOLEAN
  <2>1. /\ DefaultCPU \in Limit.minCPU .. Limit.maxCPU
        /\ DefaultMemoryMB \in Nat /\ BytesPerMB \in Nat
        /\ Limit.minMemory \in Nat /\ Limit.maxMemory \in Nat
        /\ Limit.minMemory <= DefaultMemoryMB /\ DefaultMemoryMB <= Limit.maxMemory
    BY BuilderConstants, ValidatorConstants, JobRunConstants
  <2>2. /\ Limit.minMemory * BytesPerMB <= DefaultMemoryMB * BytesPerMB
        /\ DefaultMemoryMB * BytesPerMB <= Limit.maxMemory * BytesPerMB
        /\ Limit.minMemory * BytesPerMB \in Nat
        /\ DefaultMemoryMB * BytesPerMB \in Nat
        /\ Limit.maxMemory * BytesPerMB \in Nat
    BY <2>1, TimesMonotone
  <2>3. /\ cc.cpu = DefaultCPU /\ cc.memory = DefaultMemoryMB * BytesPerMB
        /\ cc.networkOff = TRUE
    BY DEF Init, NoContainer
  <2>4. DefaultMemoryMB * BytesPerMB \in MemoryLimits
    BY <2>2 DEF MemoryLimits
  <2> QED BY <2>1, <2>3, <2>4 DEF CPULimits
<1>5. TypeOK
  <2>1. result.status = "none" /\ result.duration = 0
    BY ResultFields DEF Init
  <2>2. panicked \in BOOLEAN
    BY DEF Init
  <2>3. cfg = NoConfig /\ at = "Load" /\ reply = 0 /\ now = 0 /\ stalled = 0
        /\ deadline = 0 /\ began = 0 /\ container = "absent" /\ status = "none"
    BY DEF Init
  <2> QED BY <1>1, <1>2, <1>3, <1>4, <2>1, <2>2, <2>3 DEF TypeOK
<1>6. Settled /\ Clock /\ Pending
  BY DEF Init, Settled, Clock, Pending, InJob, Calls
<1>7. EndsInTime /\ DurationWithinTimeout
  BY ResultFields DEF Init, EndsInTime, DurationWithinTimeout
<1> QED BY <1>5, <1>6, <1>7 DEF IInv

(* main: a configuration, or the end of the process.                       *)
LEMMA LoadIInv == ASSUME IInv, LoadConfig PROVE IInv'
<1>1. /\ at = "Load" /\ at' \in {"exit", "serve"}
      /\ at' = "exit" => cfg' = cfg
      /\ at' = "serve" => cfg' = Load(case.env)
      /\ UNCHANGED <<case, reply, now, stalled, deadline, began, cc, container,
                     status, outcome>>
  BY DEF LoadConfig
<1>2. {cfg'.default, cfg'.max, cfg'.pull, cfg'.output} \subseteq Int64
  <2>1. {case.env.default, case.env.max, case.env.pull, case.env.output}
          \subseteq Optional(Int64)
    <3>1. case.env \in Environments
      BY DEF IInv, TypeOK, IsCase
    <3> QED BY <3>1 DEF Environments
  <2>2. {cfg.default, cfg.max, cfg.pull, cfg.output} \subseteq Int64
    BY DEF IInv, TypeOK
  <2> QED BY <1>1, <2>1, <2>2, LoadTyped
<1>3. result = NoResult /\ panicked = FALSE /\ status = "none" /\ reply = 0
  BY <1>1 DEF IInv, Pending, Settled, InJob, Calls
<1>4. TypeOK'
  BY <1>1, <1>2 DEF IInv, TypeOK, Ends, outcome
<1>5. Settled' /\ Clock' /\ Pending'
  BY <1>1, <1>3 DEF Settled, Clock, Pending, InJob, Calls, outcome
<1>6. EndsInTime' /\ DurationWithinTimeout'
  BY <1>1, <1>3, ResultFields DEF EndsInTime, DurationWithinTimeout, outcome
<1> QED BY <1>4, <1>5, <1>6 DEF IInv

(* A rejected request, or a job with its deadline.                         *)
LEMMA SubmitIInv == ASSUME IInv, handleSubmitJob PROVE IInv'
<1>1. /\ at = "serve" /\ cfg = Load(case.env)
      /\ result = NoResult /\ panicked = FALSE /\ status = "none"
      /\ UNCHANGED <<case, cfg, now, stalled, began, cc, container, status, outcome>>
  BY DEF handleSubmitJob, IInv, Settled, Pending, InJob, Calls
<1>2. CASE /\ at' = "rejected" /\ reply' \in {400, 403} /\ deadline' = deadline
  <2>1. TypeOK'
    BY <1>1, <1>2 DEF IInv, TypeOK, outcome, Ends
  <2>2. Settled' /\ Clock' /\ Pending'
    BY <1>1, <1>2 DEF Settled, Clock, Pending, InJob, Calls, outcome
  <2>3. EndsInTime' /\ DurationWithinTimeout'
    BY <1>1, <1>2, ResultFields DEF EndsInTime, DurationWithinTimeout, outcome
  <2> QED BY <2>1, <2>2, <2>3 DEF IInv
<1>3. CASE /\ ValidateJobRequest(case.req, cfg.whitelist) = {}
           /\ reply' = 202 /\ at' = "ImageExists"
           /\ deadline' = EffectiveTimeout(case.req, cfg)
  <2>1. deadline' \in Int64
    <3>1. case.env \in Environments /\ case.req.timeout \in Optional(Int64)
      BY DEF IInv, TypeOK, IsCase
    <3>2. ~OutOfRange(case.req.timeout, Limit.minTimeout, Limit.maxTimeout)
      BY <1>3, AcceptedLimits
    <3> QED BY <1>1, <1>3, <3>1, <3>2, TimeoutTyped
  <2>2. TypeOK'
    BY <1>1, <1>3, <2>1 DEF IInv, TypeOK, outcome, Calls
  <2>3. Settled' /\ Clock' /\ Pending'
    BY <1>1, <1>3 DEF Settled, Clock, Pending, InJob, Calls, outcome
  <2>4. EndsInTime' /\ DurationWithinTimeout'
    BY <1>1, <1>3, ResultFields DEF EndsInTime, DurationWithinTimeout, outcome
  <2> QED BY <2>2, <2>3, <2>4 DEF IInv
<1> QED BY <1>2, <1>3 DEF handleSubmitJob

(* A result reported before there was a status to report.                  *)
LEMMA FailBounds ==
  ASSUME NEW what, NEW label, Fail(what, label)
  PROVE  /\ result'.status = "error" /\ result'.error = what
         /\ result'.duration = now' /\ at' = label
         /\ panicked' = panicked /\ out' = out
BY ResultFields DEF Fail

(* The look-up of the image, without a deadline.                           *)
LEMMA ImageExistsIInv == ASSUME IInv, ImageExists PROVE IInv'
<1>1. /\ at = "ImageExists" /\ result = NoResult /\ panicked = FALSE /\ status = "none"
      /\ TypeOK /\ Settled
      /\ UNCHANGED <<case, cfg, reply, deadline, began, cc, container, status>>
      /\ stalled' = now'
  BY DEF ImageExists, IInv, Pending, InJob, Calls, setup
<1>2. now' \in Nat
  BY <1>1, Numbers DEF ImageExists
<1>3. CASE at' \in {"PullImage", "CreateContainer"} /\ UNCHANGED outcome
  <2>1. TypeOK'
    BY <1>1, <1>2, <1>3 DEF TypeOK, outcome, Calls
  <2>2. Settled' /\ Pending'
    BY <1>1, <1>3 DEF Settled, Pending, InJob, Calls, outcome
  <2>3. EndsInTime' /\ DurationWithinTimeout'
    BY <1>1, <1>3, ResultFields DEF EndsInTime, DurationWithinTimeout, outcome
  <2>4. Clock'
    <3>1. now' <= PullEnds'
      BY <1>1, <2>1, NextBounds
    <3> QED BY <1>1, <1>3, <3>1 DEF Clock
  <2> QED BY <2>1, <2>2, <2>3, <2>4 DEF IInv
<1>4. CASE Fail("image", "done")
  <2>1. /\ result'.status = "error" /\ result'.error = "image"
        /\ result'.duration = now' /\ at' = "done" /\ panicked' = panicked
    BY <1>1, <1>4, FailBounds
  <2>2. TypeOK'
    BY <1>1, <1>2, <2>1 DEF TypeOK, Ends
  <2>3. Settled' /\ Pending' /\ Clock'
    BY <1>1, <2>1 DEF Settled, Pending, Clock, InJob, Calls
  <2>4. EndsInTime'
    BY <1>1, <1>2, <2>1, <2>2, NextBounds, JobRunConstants DEF EndsInTime, JobEnds
  <2>5. DurationWithinTimeout'
    BY <2>1 DEF DurationWithinTimeout
  <2> QED BY <2>2, <2>3, <2>4, <2>5 DEF IInv
<1> QED BY <1>3, <1>4 DEF ImageExists

(* The pull, within the sooner of its two timeouts.                        *)
LEMMA PullImageIInv == ASSUME IInv, PullImage PROVE IInv'
<1>1. /\ at = "PullImage" /\ result = NoResult /\ panicked = FALSE /\ status = "none"
      /\ TypeOK /\ Settled /\ now = stalled
      /\ UNCHANGED <<setup, stalled, began, cc, container, status>>
      /\ UNCHANGED <<case, cfg, reply, deadline>>
  BY DEF PullImage, IInv, Pending, Clock, InJob, Calls, setup
<1>2. PullEnds' = PullEnds /\ RunEnds' = RunEnds /\ JobEnds' = JobEnds
  BY <1>1, BoundsFixed
<1>3. now' \in Nat /\ now' <= PullEnds
  <2>1. cfg.pull \in Int /\ RuntimePull \in Nat /\ now \in Nat
    BY <1>1, Numbers
  <2>2. PullLimit \in Int /\ Later(now, PullLimit) <= PullEnds
    BY <1>1, <2>1 DEF PullLimit, PullEnds, Positive, Later, Earlier
  <2>3. PullEnds \in Int /\ Later(now, PullLimit) \in Int
    BY <2>1, <2>2, <1>1, Numbers DEF Later
  <2>4. Elapse(PullLimit)
    BY DEF PullImage
  <2>5. now' \in Nat /\ now' <= Later(now, PullLimit)
    BY <1>1, <2>2, <2>4, ElapseBounds
  <2> QED BY <2>2, <2>3, <2>5
<1>4. CASE at' = "CreateContainer" /\ UNCHANGED outcome
  <2>1. TypeOK'
    BY <1>1, <1>3, <1>4 DEF TypeOK, outcome, Calls
  <2>2. Settled' /\ Pending' /\ Clock'
    BY <1>1, <1>2, <1>3, <1>4 DEF Settled, Pending, Clock, InJob, Calls, outcome
  <2>3. EndsInTime' /\ DurationWithinTimeout'
    BY <1>1, <1>4, ResultFields DEF EndsInTime, DurationWithinTimeout, outcome
  <2> QED BY <2>1, <2>2, <2>3 DEF IInv
<1>5. CASE Fail("pull", "done") \/ Fail("pull timed out", "done")
  <2>1. /\ result'.status = "error" /\ result'.error \in {"pull", "pull timed out"}
        /\ result'.duration = now' /\ at' = "done" /\ panicked' = panicked
    BY <1>5, FailBounds
  <2>2. TypeOK'
    <3>1. /\ IsCase(case') /\ {cfg'.default, cfg'.max, cfg'.pull, cfg'.output} \subseteq Int64
          /\ reply' \in {0, 202, 400, 403} /\ deadline' \in Int64
          /\ {now', stalled', began'} \subseteq Nat
      BY <1>1, <1>3 DEF TypeOK
    <3>2. /\ cc'.cpu \in CPULimits /\ cc'.memory \in MemoryLimits
          /\ cc'.networkOff \in BOOLEAN
          /\ container' \in {"absent", "created", "running", "exited", "removed", "left"}
          /\ status' \in {"none", "success", "failed", "timeout", "error"}
      BY <1>1 DEF TypeOK
    <3>3. panicked' \in BOOLEAN
      BY <1>1, <2>1 DEF TypeOK
    <3>4. result'.status = "error" /\ result'.duration \in Nat /\ at' = "done"
      BY <1>3, <2>1
    <3> QED BY <3>1, <3>2, <3>3, <3>4 DEF TypeOK, Ends
  <2>3. Settled' /\ Pending' /\ Clock'
    BY <1>1, <2>1 DEF Settled, Pending, Clock, InJob, Calls
  <2>4. EndsInTime'
    <3>1. /\ now' \in Nat /\ now' <= PullEnds /\ PullEnds \in Int
          /\ RunEnds \in Int /\ PullEnds <= RunEnds
      BY <1>1, <1>3, Numbers
    <3>2. now' <= RunEnds + LogsTime + RemoveTime /\ now' <= JobEnds
      BY <3>1, JobRunConstants DEF JobEnds
    <3>3. result'.error # "create" /\ result'.error # "start"
      BY <2>1
    <3> QED BY <1>2, <3>1, <3>2, <3>3 DEF EndsInTime
  <2>5. DurationWithinTimeout'
    BY <2>1 DEF DurationWithinTimeout
  <2> QED BY <2>2, <2>3, <2>4, <2>5 DEF IInv
<1> QED BY <1>4, <1>5 DEF PullImage

(* A call under timeoutCtx that begins by PullEnds or the deadline, later. *)
LEMMA UnderTimeout ==
  ASSUME TypeOK, Elapse(deadline)
  PROVE  /\ now' \in Nat /\ now <= now'
         /\ now <= RunEnds => now' <= RunEnds
         /\ now <= deadline => now' <= deadline
<1>1. now' \in Nat /\ now <= now' /\ now' <= Later(now, deadline)
  BY ElapseBounds, Numbers
<1> QED BY <1>1, Numbers DEF Later

(* The container is created, or the job ends without one that it knows of. *)
LEMMA CreateIInv == ASSUME IInv, CreateContainer PROVE IInv'
<1>1. /\ at = "CreateContainer" /\ result = NoResult /\ panicked = FALSE
      /\ status = "none" /\ TypeOK /\ Settled /\ now <= PullEnds
      /\ UNCHANGED <<setup, stalled, began, status>>
      /\ UNCHANGED <<case, cfg, reply, deadline>>
  BY DEF CreateContainer, IInv, Pending, Clock, InJob, Calls, setup
<1>2. PullEnds' = PullEnds /\ RunEnds' = RunEnds /\ JobEnds' = JobEnds
  BY <1>1, BoundsFixed
<1>3. now' \in Nat /\ now' <= RunEnds
  BY <1>1, UnderTimeout, Numbers DEF CreateContainer
<1>4. cc'.cpu \in CPULimits /\ cc'.memory \in MemoryLimits /\ cc'.networkOff \in BOOLEAN
  <2>1. IsCase(case) /\ ValidateJobRequest(case.req, cfg.whitelist) = {}
    BY <1>1 DEF TypeOK, Settled, InJob, Calls
  <2>2. cc' = BuildContainerConfig(case.req)
    BY DEF CreateContainer
  <2> QED BY <2>1, <2>2, AcceptedLimits, ContainerTyped
<1>5. CASE /\ at' = "StartContainer" /\ container' = "created"
           /\ UNCHANGED outcome
  <2>1. TypeOK'
    BY <1>1, <1>3, <1>4, <1>5 DEF TypeOK, outcome, Calls
  <2>2. Settled' /\ Pending' /\ Clock'
    BY <1>1, <1>2, <1>3, <1>5 DEF Settled, Pending, Clock, InJob, Calls, outcome
  <2>3. EndsInTime' /\ DurationWithinTimeout'
    BY <1>1, <1>5, ResultFields DEF EndsInTime, DurationWithinTimeout, outcome
  <2> QED BY <2>1, <2>2, <2>3 DEF IInv
<1>6. CASE container' \in {"absent", "created"} /\ Fail("create", "done")
  <2>1. /\ result'.status = "error" /\ result'.error = "create"
        /\ result'.duration = now' /\ at' = "done" /\ panicked' = panicked
    BY <1>6, FailBounds
  <2>2. TypeOK'
    BY <1>1, <1>3, <1>4, <1>6, <2>1 DEF TypeOK, Ends
  <2>3. Settled' /\ Pending' /\ Clock'
    BY <1>1, <2>1 DEF Settled, Pending, Clock, InJob, Calls
  <2>4. EndsInTime'
    BY <1>1, <1>2, <1>3, <2>1, Numbers, JobRunConstants DEF EndsInTime, JobEnds
  <2>5. DurationWithinTimeout'
    BY <2>1 DEF DurationWithinTimeout
  <2> QED BY <2>2, <2>3, <2>4, <2>5 DEF IInv
<1> QED BY <1>5, <1>6 DEF CreateContainer

(* The container starts, or is about to be removed.                        *)
LEMMA StartIInv == ASSUME IInv, StartContainer PROVE IInv'
<1>1. /\ at = "StartContainer" /\ result = NoResult /\ panicked = FALSE
      /\ status = "none" /\ TypeOK /\ Settled /\ now <= RunEnds
      /\ UNCHANGED <<setup, stalled, cc, status>>
      /\ UNCHANGED <<case, cfg, reply, deadline>>
  BY DEF StartContainer, IInv, Pending, Clock, InJob, Calls, setup
<1>2. PullEnds' = PullEnds /\ RunEnds' = RunEnds /\ JobEnds' = JobEnds
  BY <1>1, BoundsFixed
<1>3. /\ now' \in Nat /\ now' <= RunEnds
      /\ now < deadline => now' <= deadline
  BY <1>1, UnderTimeout, Numbers DEF StartContainer
<1>4. CASE /\ now < deadline
           /\ at' = "WaitContainer" /\ container' = "running" /\ began' = now'
           /\ UNCHANGED outcome
  <2>1. TypeOK'
    BY <1>1, <1>3, <1>4 DEF TypeOK, outcome, Calls
  <2>2. Settled' /\ Pending' /\ Clock'
    BY <1>1, <1>2, <1>3, <1>4 DEF Settled, Pending, Clock, InJob, Calls, outcome
  <2>3. EndsInTime' /\ DurationWithinTimeout'
    BY <1>1, <1>4, ResultFields DEF EndsInTime, DurationWithinTimeout, outcome
  <2> QED BY <2>1, <2>2, <2>3 DEF IInv
<1>5. CASE /\ container' \in {"created", "running"} /\ began' = began
           /\ Fail("start", "RemoveContainer")
  <2>1. /\ result'.status = "error" /\ result'.error = "start"
        /\ result'.duration = now' /\ at' = "RemoveContainer" /\ panicked' = panicked
    BY <1>5, FailBounds
  <2>2. TypeOK'
    BY <1>1, <1>3, <1>5, <2>1 DEF TypeOK, Calls
  <2>3. Settled' /\ Pending' /\ Clock'
    BY <1>1, <1>2, <1>3, <2>1 DEF Settled, Pending, Clock, InJob, Calls
  <2>4. EndsInTime' /\ DurationWithinTimeout'
    BY <2>1 DEF EndsInTime, DurationWithinTimeout
  <2> QED BY <2>2, <2>3, <2>4 DEF IInv
<1> QED BY <1>4, <1>5 DEF StartContainer

(* The wait ends with the container, its deadline or an error before it.   *)
LEMMA WaitIInv == ASSUME IInv, WaitContainer PROVE IInv'
<1>1. /\ at = "WaitContainer" /\ result = NoResult /\ panicked = FALSE
      /\ TypeOK /\ Settled /\ now = began /\ now <= deadline
      /\ UNCHANGED <<setup, stalled, began, cc, outcome>>
      /\ UNCHANGED <<case, cfg, reply, deadline>>
  BY DEF WaitContainer, IInv, Pending, Clock, InJob, Calls, setup
<1>2. /\ now' \in Nat /\ began <= now' /\ now' <= deadline
      /\ at' \in {"StopContainer", "GetLogs"} /\ status' # "none"
      /\ at' = "StopContainer" => status' = "timeout"
      /\ status' \in {"success", "failed", "timeout", "error"}
      /\ container' \in {container, "exited"}
      /\ status' = "timeout" => at' = "StopContainer"
  <2>1. now \in Nat /\ deadline \in Int
    BY <1>1, Numbers
  <2>2. CASE /\ Elapse(deadline)
             /\ container' = "exited" /\ at' = "GetLogs"
             /\ status' \in {"success", "failed"}
    BY <1>1, <2>2, UnderTimeout
  <2>3. CASE /\ now' = Later(now, deadline)
             /\ at' = "StopContainer" /\ status' = "timeout" /\ container' = container
    BY <1>1, <2>1, <2>3 DEF Later
  <2>4. CASE /\ Elapse(deadline)
             /\ at' = "GetLogs" /\ status' = "error" /\ container' = container
    BY <1>1, <2>4, UnderTimeout
  <2> QED BY <2>2, <2>3, <2>4 DEF WaitContainer
<1>3. TypeOK'
  BY <1>1, <1>2 DEF TypeOK, outcome, Calls
<1>4. Settled' /\ Pending'
  BY <1>1, <1>2 DEF Settled, Pending, InJob, Calls, outcome
<1>5. Clock'
  <2>1. deadline \in Int /\ StopTime \in Nat /\ KillTime \in Nat
    BY <1>1, Numbers
  <2>2. WaitEnds' = deadline \/ WaitEnds' = deadline + StopTime + KillTime
    BY <1>1 DEF WaitEnds
  <2> QED BY <1>1, <1>2, <2>1, <2>2 DEF Clock
<1>6. EndsInTime' /\ DurationWithinTimeout'
  BY <1>1, <1>2, ResultFields DEF EndsInTime, DurationWithinTimeout, outcome
<1> QED BY <1>3, <1>4, <1>5, <1>6 DEF IInv

(* handleTimeout: the stop.                                                *)
LEMMA StopIInv == ASSUME IInv, StopContainer PROVE IInv'
<1>1. /\ at = "StopContainer" /\ result = NoResult /\ panicked = FALSE
      /\ status = "timeout" /\ TypeOK /\ Settled
      /\ now <= deadline /\ began <= now
      /\ UNCHANGED <<setup, stalled, began, cc, status, outcome>>
      /\ UNCHANGED <<case, cfg, reply, deadline>>
      /\ at' \in {"GetLogs", "KillContainer"} /\ container' \in {"running", "exited"}
  BY DEF StopContainer, IInv, Pending, Clock, InJob, Calls, setup
<1>2. /\ now \in Nat /\ began \in Nat /\ deadline \in Int
      /\ StopTime \in Nat /\ KillTime \in Nat
  BY <1>1, Numbers
<1>3. now' \in Nat /\ began <= now' /\ now' <= deadline + StopTime
  <2>1. now + StopTime \in Int /\ Elapse(now + StopTime)
    BY <1>2 DEF StopContainer
  <2>2. now' \in Nat /\ now <= now' /\ now' <= Later(now, now + StopTime)
    BY <1>1, <2>1, ElapseBounds
  <2> QED BY <1>1, <1>2, <2>2 DEF Later
<1>4. TypeOK'
  BY <1>1, <1>3 DEF TypeOK, outcome, Calls
<1>5. Settled' /\ Pending'
  BY <1>1 DEF Settled, Pending, InJob, Calls, outcome
<1>6. Clock'
  BY <1>1, <1>2, <1>3 DEF Clock, WaitEnds
<1>7. EndsInTime' /\ DurationWithinTimeout'
  BY <1>1, ResultFields DEF EndsInTime, DurationWithinTimeout, outcome
<1> QED BY <1>4, <1>5, <1>6, <1>7 DEF IInv

(* handleTimeout: the kill after a stop that failed.                       *)
LEMMA KillIInv == ASSUME IInv, KillContainer PROVE IInv'
<1>1. /\ at = "KillContainer" /\ result = NoResult /\ panicked = FALSE
      /\ status = "timeout" /\ TypeOK /\ Settled
      /\ now <= deadline + StopTime /\ began <= now
      /\ UNCHANGED <<setup, stalled, began, cc, status, outcome>>
      /\ UNCHANGED <<case, cfg, reply, deadline>>
      /\ at' = "GetLogs" /\ container' \in {container, "exited"}
  BY DEF KillContainer, IInv, Pending, Clock, InJob, Calls, setup
<1>2. /\ now \in Nat /\ began \in Nat /\ deadline \in Int
      /\ StopTime \in Nat /\ KillTime \in Nat
  BY <1>1, Numbers
<1>3. now' \in Nat /\ began <= now' /\ now' <= deadline + StopTime + KillTime
  <2>1. now + KillTime \in Int /\ Elapse(now + KillTime)
    BY <1>2 DEF KillContainer
  <2>2. now' \in Nat /\ now <= now' /\ now' <= Later(now, now + KillTime)
    BY <1>1, <2>1, ElapseBounds
  <2> QED BY <1>1, <1>2, <2>2 DEF Later
<1>4. TypeOK'
  BY <1>1, <1>3 DEF TypeOK, outcome, Calls
<1>5. Settled' /\ Pending'
  BY <1>1 DEF Settled, Pending, InJob, Calls, outcome
<1>6. Clock'
  BY <1>1, <1>2, <1>3 DEF Clock, WaitEnds
<1>7. EndsInTime' /\ DurationWithinTimeout'
  BY <1>1, ResultFields DEF EndsInTime, DurationWithinTimeout, outcome
<1> QED BY <1>4, <1>5, <1>6, <1>7 DEF IInv

(* The slice expression of truncateTail needs a negative limit to panic.   *)
LEMMA PanicNeedsNegative ==
  ASSUME NEW data, Len(data) \in Nat, NEW maxBytes \in Int, SlicePanics(data, maxBytes)
  PROVE  maxBytes < 0
BY DEF SlicePanics

(* What is written has the length of what the container wrote.             *)
LEMMA WrittenLength ==
  ASSUME NEW chars \in Seq(STRING)
  PROVE  Len(Written(chars)) \in Nat
<1>1. Len(chars) \in Nat
  OBVIOUS
<1>2. Written(chars) = [i \in 1 .. Len(chars) |-> Unit(chars[i], i)]
  BY DEF Written
<1>3. DOMAIN Written(chars) = 1 .. Len(chars)
  BY <1>2
<1>4. Written(chars) \in Seq({Unit(chars[i], i) : i \in 1 .. Len(chars)})
  BY <1>1, <1>2
<1> QED BY <1>4

(* The logs, and the result or a panic.                                    *)
LEMMA GetLogsIInv == ASSUME IInv, GetLogs PROVE IInv'
<1>1. /\ at = "GetLogs" /\ result = NoResult /\ panicked = FALSE
      /\ status # "none" /\ TypeOK /\ Settled
      /\ now <= WaitEnds /\ began <= now
      /\ UNCHANGED <<setup, stalled, began, cc, container, status>>
      /\ UNCHANGED <<case, cfg, reply, deadline>>
  BY DEF GetLogs, IInv, Pending, Clock, InJob, Calls, setup
<1>2. /\ now \in Nat /\ began \in Nat /\ deadline \in Int /\ RunEnds \in Int
      /\ StopTime \in Nat /\ KillTime \in Nat /\ LogsTime \in Nat
      /\ cfg.output \in Int
  BY <1>1, Numbers
<1>3. WaitEnds \in Int /\ WaitEnds' = WaitEnds /\ RunEnds' = RunEnds
  BY <1>1, <1>2, BoundsFixed DEF WaitEnds
<1>4. now' \in Nat /\ now' <= Later(RunEnds, WaitEnds) + LogsTime
  <2>1. now + LogsTime \in Int /\ Elapse(now + LogsTime)
    BY <1>2 DEF GetLogs
  <2>2. now' \in Nat /\ now <= now' /\ now' <= Later(now, now + LogsTime)
    BY <1>1, <2>1, ElapseBounds
  <2> QED BY <1>1, <1>2, <1>3, <2>2 DEF Later
<1>5. PICK logs \in {[s \in Streams |-> Written(case.raw[s])], NoOutput} :
        Report(logs) \/ Crash(logs)
  BY DEF GetLogs
<1>6. CASE Report(logs)
  <2>1. /\ result'.status = status /\ result'.duration = now - began
        /\ result'.error = IF status = "error" THEN "wait" ELSE "none"
        /\ at' = "RemoveContainer" /\ panicked' = panicked
    BY <1>6 DEF Report, Duration
  <2>2. TypeOK'
    <3>1. result'.duration \in Nat
      BY <1>1, <1>2, <2>1
    <3> QED BY <1>1, <1>4, <2>1, <3>1 DEF TypeOK, Calls
  <2>3. Settled' /\ Pending'
    BY <1>1, <2>1 DEF Settled, Pending, InJob, Calls
  <2>4. Clock'
    BY <1>1, <1>3, <1>4, <2>1 DEF Clock
  <2>5. EndsInTime'
    BY <2>1 DEF EndsInTime
  <2>6. DurationWithinTimeout'
    BY <1>1, <1>2, <1>3, <2>1 DEF DurationWithinTimeout, WaitEnds
  <2> QED BY <2>2, <2>3, <2>4, <2>5, <2>6 DEF IInv
<1>7. CASE Crash(logs)
  <2>1. /\ Panics(logs) /\ at' = "RemoveContainer" /\ panicked' = TRUE
        /\ result' = result
    BY <1>7 DEF Crash
  <2>2. cfg.output < 0
    <3>1. PICK s \in Streams : SlicePanics(logs[s], cfg.output)
      BY <2>1 DEF Panics
    <3>2. Len(logs[s]) \in Nat
      <4>1. CASE logs = [t \in Streams |-> Written(case.raw[t])]
        <5>1. case.raw[s] \in Seq(STRING)
          BY <1>1 DEF TypeOK, IsCase
        <5> QED BY <4>1, <5>1, WrittenLength
      <4>2. CASE logs = NoOutput
        BY <4>2 DEF NoOutput
      <4> QED BY <1>5, <4>1, <4>2
    <3> QED BY <1>2, <3>1, <3>2, PanicNeedsNegative
  <2>3. TypeOK'
    BY <1>1, <1>4, <2>1 DEF TypeOK, Calls
  <2>4. Settled'
    BY <1>1, <2>1 DEF Settled, InJob, Calls
  <2>5. Pending'
    BY <1>1, <2>1, <2>2, ResultFields DEF Pending, InJob, Calls
  <2>6. Clock'
    BY <1>1, <1>3, <1>4, <2>1 DEF Clock
  <2>7. EndsInTime' /\ DurationWithinTimeout'
    BY <1>1, <2>1, ResultFields DEF EndsInTime, DurationWithinTimeout
  <2> QED BY <2>3, <2>4, <2>5, <2>6, <2>7 DEF IInv
<1> QED BY <1>5, <1>6, <1>7

(* The deferred removal and the end.                                       *)
LEMMA RemoveIInv == ASSUME IInv, RemoveContainer PROVE IInv'
<1>1. /\ at = "RemoveContainer" /\ TypeOK /\ Settled
      /\ now <= IF status = "none" THEN RunEnds
                ELSE Later(RunEnds, WaitEnds) + LogsTime
      /\ result.error \in {"none", "start", "wait"}
      /\ result.error = "start" => status = "none"
      /\ panicked => cfg.output < 0
      /\ UNCHANGED <<setup, stalled, began, cc, status, outcome>>
      /\ UNCHANGED <<case, cfg, reply, deadline, result, panicked>>
      /\ container' \in {"removed", "left"}
      /\ at' = IF panicked THEN "crashed" ELSE "done"
  BY DEF RemoveContainer, IInv, Pending, Clock, setup, outcome
<1>2. /\ now \in Nat /\ deadline \in Int /\ RunEnds \in Int /\ deadline <= RunEnds
      /\ StopTime \in Nat /\ KillTime \in Nat /\ LogsTime \in Nat
      /\ RemoveTime \in Nat
  BY <1>1, Numbers
<1>3. RunEnds' = RunEnds /\ JobEnds' = JobEnds
  BY <1>1, BoundsFixed
<1>4. now' \in Nat /\ now' <= now + RemoveTime
  <2>1. now + RemoveTime \in Int /\ Elapse(now + RemoveTime)
    BY <1>2 DEF RemoveContainer
  <2>2. now' \in Nat /\ now' <= Later(now, now + RemoveTime)
    BY <1>1, <2>1, ElapseBounds
  <2> QED BY <1>2, <2>2 DEF Later
<1>5. TypeOK'
  <2>1. at' \in Ends /\ panicked' \in BOOLEAN
    BY <1>1 DEF TypeOK, Ends
  <2> QED BY <1>1, <1>4, <2>1 DEF TypeOK
<1>6. Settled' /\ Pending' /\ Clock'
  BY <1>1 DEF Settled, Pending, Clock, InJob, Calls
<1>7. EndsInTime'
  <2>1. status = "none" => now' <= RunEnds + RemoveTime
    BY <1>1, <1>2, <1>4
  <2>2. status # "timeout" => now' <= RunEnds + LogsTime + RemoveTime
    <3>1. WaitEnds = deadline \/ status = "timeout"
      BY DEF WaitEnds
    <3>2. ASSUME WaitEnds = deadline PROVE Later(RunEnds, WaitEnds) = RunEnds
      BY <1>2, <3>2 DEF Later
    <3> QED BY <1>1, <1>2, <1>4, <3>1, <3>2
  <2>3. now' <= JobEnds
    <3>1. /\ Later(RunEnds, WaitEnds) <= RunEnds + StopTime + KillTime
          /\ Later(RunEnds, WaitEnds) \in Int
      BY <1>2 DEF Later, WaitEnds
    <3> QED BY <1>1, <1>2, <1>4, <3>1 DEF JobEnds
  <2> QED BY <1>1, <1>3, <2>1, <2>2, <2>3 DEF EndsInTime
<1>8. DurationWithinTimeout'
  BY <1>1 DEF IInv, DurationWithinTimeout
<1> QED BY <1>5, <1>6, <1>7, <1>8 DEF IInv

(* IInv is an invariant.                                                   *)
LEMMA Invariance == Spec => []IInv
<1>1. IInv /\ [Next]_vars => IInv'
  <2> SUFFICES ASSUME IInv, [Next]_vars PROVE IInv'
    OBVIOUS
  <2>1. CASE Next
    BY <2>1, LoadIInv, SubmitIInv, ImageExistsIInv, PullImageIInv, CreateIInv,
       StartIInv, WaitIInv, StopIInv, KillIInv, GetLogsIInv, RemoveIInv DEF Next
  <2>2. CASE UNCHANGED vars
    <3>1. TypeOK'
      BY <2>2 DEF IInv, TypeOK, vars
    <3>2. Settled' /\ Pending'
      BY <2>2 DEF IInv, Settled, Pending, vars
    <3>3. UNCHANGED <<setup, stalled, now, at, began, status, container, result, panicked>>
      BY <2>2 DEF vars, setup
    <3>4. /\ PullEnds' = PullEnds /\ RunEnds' = RunEnds /\ JobEnds' = JobEnds
          /\ WaitEnds' = WaitEnds
      BY <3>3, BoundsFixed DEF WaitEnds, setup
    <3>5. Clock'
      BY <3>3, <3>4 DEF IInv, Clock, setup
    <3>6. EndsInTime'
      BY <3>3, <3>4 DEF IInv, EndsInTime
    <3>7. DurationWithinTimeout'
      BY <3>3 DEF IInv, DurationWithinTimeout, setup
    <3> QED BY <3>1, <3>2, <3>5, <3>6, <3>7 DEF IInv
  <2> QED BY <2>1, <2>2
<1> QED BY <1>1, InitIInv, PTL DEF Spec

-----------------------------------------------------------------------------
(* The settings, times, limits and results keep their types; the limits of *)
(* every container are those of the validator, and none has overflowed.    *)
THEOREM TypeCorrect == Spec => []TypeOK
BY Invariance, PTL DEF IInv

(* EffectiveTimeout keeps the timeout of every accepted job between a      *)
(* second and MaxTimeout unless a setting is out of range.                 *)
THEOREM TimeoutBounded == Spec => []TimeoutWithinMaximum
<1>1. IInv => TimeoutWithinMaximum
  <2> SUFFICES ASSUME IInv, reply = 202
               PROVE  /\ case.req.timeout # {} => deadline <= cfg.max
                      /\ InRange(case.env.default) /\ InRange(case.env.max)
                             /\ cfg.default <= cfg.max =>
                           deadline \in Second .. cfg.max
    BY DEF TimeoutWithinMaximum
  <2>1. /\ cfg = Load(case.env) /\ deadline = EffectiveTimeout(case.req, cfg)
        /\ ValidateJobRequest(case.req, cfg.whitelist) = {}
    BY DEF IInv, Settled
  <2>2. case.env \in Environments /\ case.req.timeout \in Optional(Int64)
    BY DEF IInv, TypeOK, IsCase
  <2> QED BY <2>1, <2>2, AcceptedLimits, TimeoutTyped
<1> QED BY <1>1, Invariance, PTL

(* Whatever the daemon does once it has answered ImageExists, executeJob   *)
(* returns within the timeouts of its calls.                               *)
THEOREM JobsEndInTime == Spec => []EndsInTime
BY Invariance, PTL DEF IInv

(* The duration that executeJob reports is within the timeout of the job.  *)
THEOREM DurationBounded == Spec => []DurationWithinTimeout
BY Invariance, PTL DEF IInv

(* CaptureOutput panics only for a negative MAX_OUTPUT_BYTES, and the      *)
(* deferred removal runs first.                                            *)
THEOREM CrashCleansUp == Spec => []CrashStillCleansUp
<1>1. IInv => CrashStillCleansUp
  <2> SUFFICES ASSUME IInv, at = "crashed" PROVE
        (\E n \in case.env.output : n < 0) /\ container \in {"removed", "left"}
    BY DEF CrashStillCleansUp
  <2>1. /\ cfg = Load(case.env) /\ cfg.output < 0
        /\ container \in {"removed", "left"}
    BY DEF IInv, Settled, Pending
  <2>2. case.env \in Environments
    BY DEF IInv, TypeOK, IsCase
  <2> QED BY <2>1, <2>2, NegativeOutput
<1> QED BY <1>1, Invariance, PTL
-----------------------------------------------------------------------------
(* The output of the result.                                               *)

Logs(s, read) == IF read THEN Written(case.raw[s]) ELSE <<>>

(* What Report leaves behind, for logs that could be read or not.          *)
Reported(read) ==
  /\ cfg.output \in Nat
  /\ out = [s \in Streams |->
              RedactSecrets(truncateTail(Logs(s, read), cfg.output), case.req.secrets)]
  /\ result.truncated = [s \in Streams |-> Len(Logs(s, read)) > cfg.output]

(* There is no output before the report, and none but that of the report.  *)
OutputFromReport ==
  /\ at \notin {"RemoveContainer", "done", "crashed"} => out = NoOutput
  /\ out = NoOutput \/ \E read \in BOOLEAN : Reported(read)

(* A limit for which CaptureOutput does not panic is not negative.         *)
LEMMA LimitNotNegative ==
  ASSUME TypeOK, NEW logs, \A s \in Streams : Len(logs[s]) \in Nat, ~Panics(logs)
  PROVE  cfg.output \in Nat
<1>1. cfg.output \in Int
  BY Numbers
<1>2. ~SlicePanics(logs["stdout"], cfg.output) /\ Len(logs["stdout"]) \in Nat
  BY DEF Panics, Streams
<1> QED BY <1>1, <1>2 DEF SlicePanics

(* Only GetLogs gives the result an output.                                *)
LEMMA OutputStep ==
  ASSUME TypeOK, OutputFromReport, [Next]_vars
  PROVE  OutputFromReport'
<1>1. CASE LoadConfig \/ handleSubmitJob \/ ImageExists \/ PullImage \/ CreateContainer
           \/ StartContainer \/ WaitContainer \/ StopContainer \/ KillContainer
  <2>1. out' = out /\ at \notin {"RemoveContainer", "done", "crashed"}
    BY <1>1 DEF LoadConfig, handleSubmitJob, ImageExists, PullImage, CreateContainer,
       StartContainer, WaitContainer, StopContainer, KillContainer, Fail, outcome
  <2> QED BY <2>1 DEF OutputFromReport, NoOutput
<1>2. CASE GetLogs
  <2>1. /\ at' = "RemoveContainer" /\ UNCHANGED setup /\ out = NoOutput
        /\ at = "GetLogs"
    BY <1>2 DEF GetLogs, Report, Crash, OutputFromReport
  <2>2. PICK logs \in {[s \in Streams |-> Written(case.raw[s])], NoOutput} :
               Report(logs) \/ Crash(logs)
    BY <1>2 DEF GetLogs
  <2>3. CASE Crash(logs)
    BY <2>1, <2>3 DEF Crash, OutputFromReport, NoOutput
  <2>4. CASE Report(logs)
    <3>1. PICK read \in BOOLEAN : \A s \in Streams : logs[s] = Logs(s, read)
      <4>1. CASE logs = NoOutput
        <5>1. \A s \in Streams : logs[s] = Logs(s, FALSE)
          BY <4>1 DEF NoOutput, Logs
        <5> QED BY <5>1
      <4>2. CASE logs = [s \in Streams |-> Written(case.raw[s])]
        <5>1. \A s \in Streams : logs[s] = Logs(s, TRUE)
          BY <4>2 DEF Logs
        <5> QED BY <5>1
      <4> QED BY <4>1, <4>2
    <3>2. \A s \in Streams : Len(logs[s]) \in Nat
      <4>1. \A s \in Streams : case.raw[s] \in Seq(STRING)
        BY DEF TypeOK, IsCase
      <4>2. ASSUME NEW r \in Seq(STRING)
            PROVE  Len(Written(r)) \in Nat
        BY DEF Written
      <4> QED BY <3>1, <4>1, <4>2 DEF Logs
    <3>3. cfg.output \in Nat
      BY <2>4, <3>2, LimitNotNegative DEF Report
    <3>4. /\ out' = [s \in Streams |->
                       RedactSecrets(truncateTail(Logs(s, read), cfg.output),
                                     case.req.secrets)]
          /\ result'.truncated = [s \in Streams |-> Len(Logs(s, read)) > cfg.output]
      BY <2>4, <3>1 DEF Report
    <3>5. case' = case /\ cfg' = cfg
      BY <2>1 DEF setup
    <3>6. Reported(read)'
      BY <3>3, <3>4, <3>5 DEF Reported, Logs
    <3> QED BY <2>1, <3>6 DEF OutputFromReport
  <2> QED BY <2>2, <2>3, <2>4
<1>3. CASE RemoveContainer
  <2>1. /\ case' = case /\ cfg' = cfg /\ out' = out /\ result' = result
        /\ at' \in {"done", "crashed"} /\ at = "RemoveContainer"
    BY <1>3 DEF RemoveContainer, setup, outcome
  <2> QED BY <2>1 DEF OutputFromReport, Reported, Logs, NoOutput
<1>4. CASE UNCHANGED vars
  BY <1>4 DEF vars, OutputFromReport, Reported, Logs, NoOutput
<1> QED BY <1>1, <1>2, <1>3, <1>4 DEF Next

(* It is an invariant, with the types.                                     *)
LEMMA OutputInvariance == Spec => [](TypeOK /\ OutputFromReport)
<1>1. Init => OutputFromReport
  BY DEF Init, OutputFromReport
<1>2. TypeOK /\ OutputFromReport /\ [Next]_vars => OutputFromReport'
  BY OutputStep
<1> QED BY <1>1, <1>2, TypeCorrect, PTL DEF Spec

(* What the lemmas about RedactSecrets need to know of a case.             *)
LEMMA CaseTexts ==
  ASSUME TypeOK
  PROVE  /\ \A s \in Streams : case.raw[s] \in Seq(STRING)
         /\ case.req.secrets \in Seq(Secrets)
         /\ Values = ValuesOf(case.req.secrets)
         /\ Plain => \A v \in ValuesOf(case.req.secrets) : PlainValue(v)
<1>1. case.req.secrets \in Seq(Secrets) /\ \A s \in Streams : case.raw[s] \in Seq(STRING)
  BY DEF TypeOK, IsCase, Secrets
<1>2. Values = ValuesOf(case.req.secrets)
  BY DEF Values, ValuesOf
<1> QED BY <1>1, <1>2 DEF Plain, PlainValue

(* The first kept position, of a limit that is not negative.               *)
LEMMA FirstIsCut ==
  ASSUME TypeOK, cfg.output \in Nat, NEW s \in Streams
  PROVE  First(s) = Cut(Len(case.raw[s]), cfg.output)
<1>1. Len(case.raw[s]) \in Nat
  BY CaseTexts
<1> QED BY <1>1 DEF First, Cut, Later

(* The output of a stream that was read, and of one that was not.          *)
LEMMA OutputOf ==
  ASSUME TypeOK, NEW read \in BOOLEAN, Reported(read), NEW s \in Streams
  PROVE  LET raw == case.raw[s]
             t == truncateTail(Logs(s, read), cfg.output)
         IN /\ raw \in Seq(STRING) /\ First(s) \in Nat \ {0} /\ First(s) <= Len(raw) + 1
            /\ Len(raw) - First(s) + 1 <= cfg.output
            /\ Good(t, raw, First(s)) /\ out[s] = RedactSecrets(t, case.req.secrets)
            /\ read => First(s) .. Len(raw) \subseteq KeptIn(t) /\ Light(t, raw, First(s))
            /\ ~read => t = <<>> /\ KeptIn(t) = {}
<1> DEFINE raw == case.raw[s]
           t == truncateTail(Logs(s, read), cfg.output)
<1>1. raw \in Seq(STRING)
  BY CaseTexts
<1>2. cfg.output \in Nat /\ out[s] = RedactSecrets(t, case.req.secrets)
  BY DEF Reported
<1>3. First(s) = Cut(Len(raw), cfg.output)
  BY <1>2, FirstIsCut
<1>4. /\ First(s) \in Nat \ {0} /\ First(s) <= Len(raw) + 1
      /\ Len(raw) - First(s) + 1 <= cfg.output
  BY <1>1, <1>2, <1>3, TailShape
<1>5. CASE read
  <2>1. t = truncateTail(Written(raw), cfg.output)
    BY <1>5 DEF Logs
  <2> HIDE DEF t, raw
  <2>2. Good(t, raw, First(s)) /\ First(s) .. Len(raw) \subseteq KeptIn(t)
        /\ Light(t, raw, First(s))
    BY <1>1, <1>2, <1>3, <2>1, TailShape
  <2> QED BY <1>1, <1>2, <1>4, <1>5, <2>2 DEF t, raw
<1>6. CASE ~read
  <2>1. t = truncateTail(<<>>, cfg.output)
    BY <1>6 DEF Logs
  <2> HIDE DEF t, raw
  <2>2. t = <<>> /\ KeptIn(t) = {} /\ Good(t, raw, First(s))
    BY <1>1, <1>2, <1>4, <2>1, NoLogsShape
  <2> QED BY <1>1, <1>2, <1>4, <1>6, <2>2 DEF t, raw
<1> QED BY <1>5, <1>6

(* RedactSecrets leaves no secret whole: whatever the secrets are.         *)
THEOREM SecretsBroken == Spec => []NoSecretSurvives
<1>1. TypeOK /\ OutputFromReport =>
        \A s \in Streams : \A p \in Spans(s) : ~(p[1] .. p[2] \subseteq Kept(s))
  <2> SUFFICES ASSUME TypeOK, OutputFromReport, NEW s \in Streams, NEW p \in Spans(s)
               PROVE  ~(p[1] .. p[2] \subseteq Kept(s))
    OBVIOUS
  <2> DEFINE raw == case.raw[s]
  <2>1. raw \in Seq(STRING) /\ case.req.secrets \in Seq(Secrets)
        /\ p \in SpansOf(raw, ValuesOf(case.req.secrets))
    BY CaseTexts DEF Spans
  <2>2. CASE out = NoOutput
    <3>1. Kept(s) = {}
      BY <2>2 DEF NoOutput, Kept, KeptIn
    <3>2. PICK v \in ValuesOf(case.req.secrets) : p \in SpansOf(raw, {v})
      BY <2>1, SortedValues, SpanMember
    <3>3. v \in Seq(STRING) /\ v # <<>>
      BY <2>1, SortedValues
    <3>4. p[1] \in p[1] .. p[2]
      BY <2>1, <3>2, <3>3, SpanOfValue
    <3> QED BY <3>1, <3>4
  <2>3. CASE \E read \in BOOLEAN : Reported(read)
    <3>1. PICK read \in BOOLEAN : Reported(read)
      BY <2>3
    <3> DEFINE t == truncateTail(Logs(s, read), cfg.output)
    <3>2. First(s) \in Nat \ {0} /\ Good(t, raw, First(s))
          /\ out[s] = RedactSecrets(t, case.req.secrets)
      BY <3>1, OutputOf
    <3> HIDE DEF t, raw
    <3> QED BY <2>1, <3>2, RedactBreaks DEF Kept
  <2> QED BY <2>2, <2>3 DEF OutputFromReport
<1>2. TypeOK /\ OutputFromReport /\ Plain => \A s \in Streams : ~Remains(s)
  <2> SUFFICES ASSUME TypeOK, OutputFromReport, Plain, NEW s \in Streams, Remains(s)
               PROVE  FALSE
    OBVIOUS
  <2> DEFINE raw == case.raw[s]
             values == ValuesOf(case.req.secrets)
  <2>1. raw \in Seq(STRING) /\ case.req.secrets \in Seq(Secrets)
        /\ Values = values /\ \A v \in values : PlainValue(v)
    BY CaseTexts
  <2>2. PICK v \in values : \E i \in 1 .. Len(out[s]) : OccursAt(out[s], v, i)
    BY <2>1 DEF Remains
  <2>3. out # NoOutput
    BY <2>2 DEF NoOutput
  <2>4. PICK read \in BOOLEAN : Reported(read)
    BY <2>3 DEF OutputFromReport
  <2> DEFINE t == truncateTail(Logs(s, read), cfg.output)
             u == out[s]
  <2>5. First(s) \in Nat \ {0} /\ Good(t, raw, First(s))
        /\ u = RedactSecrets(t, case.req.secrets)
    BY <2>4, OutputOf
  <2> HIDE DEF t, raw
  <2>6. Good(u, raw, First(s)) /\ KeptIn(u) = Kept(s)
    BY <2>1, <2>5, RedactBreaks DEF Kept
  <2>7. values \subseteq Seq(STRING) /\ v # <<>> /\ PlainValue(v)
    BY <2>1, SortedValues
  <2> HIDE DEF u, values
  <2>8. PICK i \in 1 .. Len(u) : OccursAt(u, v, i)
    BY <2>2 DEF u
  <2>9. OccursAsSpan(u, v, i, raw, First(s), values)
    BY <2>1, <2>5, <2>6, <2>7, <2>8, PlainOccurrence
  <2>10. PICK p \in SpansOf(raw, values) : p[1] .. p[2] \subseteq KeptIn(u)
    BY <2>1, <2>5, <2>6, <2>7, <2>8, <2>9, OccurrenceKept
  <2>11. p \in Spans(s)
    BY <2>1 DEF Spans, raw
  <2> QED BY <1>1, <2>6, <2>10, <2>11
<1>3. TypeOK /\ OutputFromReport => NoSecretSurvives
  BY <1>1, <1>2 DEF NoSecretSurvives
<1> QED BY <1>3, OutputInvariance, PTL

(* RedactSecrets replaces longer secrets first: a part of a secret is left  *)
(* only where the truncation or another secret cuts it.                     *)
THEOREM FragmentsExplained == Spec => []OnlyFragmentsLeft
<1>1. TypeOK /\ OutputFromReport => OnlyFragmentsLeft
  <2> SUFFICES ASSUME TypeOK, OutputFromReport, Plain, NEW s \in Streams, NEW p \in Spans(s),
                      (p[1] .. p[2]) \cap Kept(s) # {}, ~(p[1] < First(s))
               PROVE  \E q \in Spans(s) : Crosses(p, q)
    BY DEF OnlyFragmentsLeft
  <2> DEFINE raw == case.raw[s]
  <2>1. /\ raw \in Seq(STRING) /\ case.req.secrets \in Seq(Secrets)
        /\ Spans(s) = SpansOf(raw, ValuesOf(case.req.secrets))
        /\ \A v \in ValuesOf(case.req.secrets) : PlainValue(v)
    BY CaseTexts DEF Spans
  <2>2. out # NoOutput
    BY DEF NoOutput, Kept, KeptIn
  <2>3. PICK read \in BOOLEAN : Reported(read)
    BY <2>2 DEF OutputFromReport
  <2> DEFINE t == truncateTail(Logs(s, read), cfg.output)
  <2>4. /\ First(s) \in Nat \ {0} /\ First(s) <= Len(raw) + 1 /\ Good(t, raw, First(s))
        /\ out[s] = RedactSecrets(t, case.req.secrets)
        /\ read => First(s) .. Len(raw) \subseteq KeptIn(t) /\ Light(t, raw, First(s))
        /\ ~read => KeptIn(t) = {}
    BY <2>3, OutputOf
  <2>5. p[1] >= First(s)
    <3>1. PICK v \in ValuesOf(case.req.secrets) : p \in SpansOf(raw, {v})
      BY <2>1, SortedValues, SpanMember, ZenonT(30)
    <3>2. v \in Seq(STRING) /\ v # <<>>
      BY <2>1, SortedValues
    <3>3. p[1] \in Nat
      BY <2>1, <3>1, <3>2, SpanOfValue
    <3> QED BY <2>4, <3>3
  <2> HIDE DEF t, raw
  <2>6. read
    <3>1. Kept(s) \subseteq KeptIn(t)
      BY <2>1, <2>4, RedactBreaks DEF Kept
    <3> QED BY <2>4, <3>1
  <2> QED BY <2>1, <2>4, <2>5, <2>6, RedactPlain DEF Kept
<1> QED BY <1>1, OutputInvariance, PTL

(* CaptureOutput and RedactSecrets lose nothing but secrets and what the    *)
(* result reports as truncated, and they keep the order.                    *)
THEOREM OthersKept == Spec => []OtherOutputKept
<1>1. TypeOK /\ OutputFromReport => OtherOutputKept
  <2> SUFFICES ASSUME TypeOK, OutputFromReport, Plain, NEW s \in Streams, out[s] # <<>>
               PROVE
        /\ \A i \in 1 .. Len(case.raw[s]) :
             i \in Kept(s) \/ (\E p \in Spans(s) : i \in p[1] .. p[2])
               \/ (i < First(s) /\ result.truncated[s])
        /\ \A i, k \in 1 .. Len(out[s]) :
             i < k /\ out[s][i].at # 0 /\ out[s][k].at # 0 => out[s][i].at < out[s][k].at
    BY DEF OtherOutputKept
  <2> DEFINE raw == case.raw[s]
  <2>1. /\ raw \in Seq(STRING) /\ case.req.secrets \in Seq(Secrets)
        /\ Spans(s) = SpansOf(raw, ValuesOf(case.req.secrets))
        /\ \A v \in ValuesOf(case.req.secrets) : PlainValue(v)
    BY CaseTexts DEF Spans
  <2>2. PICK read \in BOOLEAN : Reported(read)
    BY DEF OutputFromReport, NoOutput
  <2> DEFINE t == truncateTail(Logs(s, read), cfg.output)
  <2>3. /\ First(s) \in Nat \ {0} /\ First(s) <= Len(raw) + 1 /\ Good(t, raw, First(s))
        /\ out[s] = RedactSecrets(t, case.req.secrets)
        /\ read => First(s) .. Len(raw) \subseteq KeptIn(t) /\ Light(t, raw, First(s))
        /\ ~read => t = <<>>
    BY <2>2, OutputOf
  <2>4. cfg.output \in Nat /\ result.truncated[s] = (Len(Logs(s, read)) > cfg.output)
    BY <2>2 DEF Reported
  <2>5. First(s) = Cut(Len(raw), cfg.output)
    BY <2>4, FirstIsCut
  <2> HIDE DEF t
  <2>6. read
    BY <2>1, <2>3, RedactNothing
  <2>7. Len(Logs(s, read)) = Len(raw) /\ Len(raw) \in Nat
    BY <2>1, <2>6 DEF Logs, Written
  <2> HIDE DEF raw
  <2>8. Good(out[s], raw, First(s)) /\ Lost(out[s], raw, First(s), Spans(s), 0)
    BY <2>1, <2>3, <2>6, RedactBreaks, RedactPlain
  <2>9. ASSUME NEW i \in 1 .. Len(raw), i \notin Kept(s)
        PROVE  \/ \E p \in Spans(s) : i \in p[1] .. p[2]
               \/ i < First(s) /\ result.truncated[s]
    <3>1. CASE i < First(s)
      <4>1. Len(raw) > cfg.output
        BY <2>4, <2>5, <2>7, <3>1 DEF Cut
      <4> QED BY <2>4, <2>7, <3>1, <4>1
    <3>2. CASE ~(i < First(s))
      <4>1. i \in First(s) .. Len(raw)
        BY <2>3, <2>7, <3>2
      <4>2. PICK q \in Spans(s) : q[1] <= i /\ i <= q[2]
        BY <2>8, <2>9, <4>1 DEF Lost, Kept
      <4>3. q[1] \in Nat /\ q[2] \in Nat
        <5> DEFINE values == ValuesOf(case.req.secrets)
        <5>0. q \in SpansOf(raw, values) /\ values \subseteq Seq(STRING)
          BY <2>1, SortedValues
        <5>1. PICK v \in values : q \in SpansOf(raw, {v})
          <6> HIDE DEF values
          <6> QED BY <2>1, <5>0, SpanMember
        <5>2. v \in Seq(STRING) /\ v # <<>>
          BY <2>1, SortedValues
        <5> QED BY <2>1, <5>1, <5>2, SpanOfValue
      <4>4. i \in q[1] .. q[2]
        BY <4>2, <4>3
      <4> QED BY <4>4
    <3> QED BY <3>1, <3>2
  <2>10. \A i, k \in 1 .. Len(out[s]) :
           i < k /\ out[s][i].at # 0 /\ out[s][k].at # 0 => out[s][i].at < out[s][k].at
    BY <2>8 DEF Good
  <2> QED BY <2>9, <2>10 DEF raw
<1> QED BY <1>1, OutputInvariance, PTL

(* Of the redacted output each byte that MAX_OUTPUT_BYTES admits makes at   *)
(* most one placeholder.                                                    *)
THEOREM GrowthWithinBound == Spec => []GrowthBounded
<1>1. TypeOK /\ OutputFromReport => GrowthBounded
  <2> SUFFICES ASSUME TypeOK, OutputFromReport, Plain, NEW s \in Streams
               PROVE  Len(out[s]) <= Positive(cfg.output) * Len(Placeholder)
    BY DEF GrowthBounded
  <2> DEFINE raw == case.raw[s]
             l == Len(Placeholder)
  <2>1. /\ raw \in Seq(STRING) /\ case.req.secrets \in Seq(Secrets)
        /\ \A v \in ValuesOf(case.req.secrets) : PlainValue(v)
    BY CaseTexts
  <2>2. l \in Nat \ {0} /\ Len(Mark) = l
    BY MarkShape
  <2>3. Positive(cfg.output) \in Nat /\ cfg.output \in Int
    BY Numbers DEF Positive, Later
  <2>4. Positive(cfg.output) * l \in Nat
    <3> HIDE DEF l
    <3> QED BY <2>2, <2>3
  <2>5. CASE out[s] = <<>>
    BY <2>4, <2>5
  <2>6. CASE out[s] # <<>>
    <3>1. PICK read \in BOOLEAN : Reported(read)
      BY <2>6 DEF OutputFromReport, NoOutput
    <3> DEFINE t == truncateTail(Logs(s, read), cfg.output)
    <3>2. /\ First(s) \in Nat \ {0} /\ First(s) <= Len(raw) + 1 /\ Good(t, raw, First(s))
          /\ Len(raw) - First(s) + 1 <= cfg.output
          /\ out[s] = RedactSecrets(t, case.req.secrets)
          /\ read => First(s) .. Len(raw) \subseteq KeptIn(t) /\ Light(t, raw, First(s))
          /\ ~read => t = <<>>
      BY <3>1, OutputOf
    <3> HIDE DEF t, raw
    <3>3. read
      BY <2>1, <2>6, <3>2, RedactNothing
    <3>4. Light(out[s], raw, First(s)) /\ out[s] \in Seq(Units)
      <4>1. Light(out[s], raw, First(s))
        BY <2>1, <3>2, <3>3, RedactPlain
      <4>2. Good(out[s], raw, First(s))
        BY <2>1, <3>2, RedactBreaks
      <4> QED BY <4>1, <4>2 DEF Good
    <3> DEFINE c == Cardinality(KeptIn(out[s]))
               m == Len(raw) - First(s) + 1
               o == Len(out[s])
               b == Positive(cfg.output)
    <3>5. c \in Nat /\ o \in Nat /\ m \in Nat /\ b \in Nat /\ m <= b
      <4>1. c \in Nat
        BY <3>4, FS_CardinalityType DEF Light
      <4>2. Len(raw) \in Nat
        BY <2>1
      <4> HIDE DEF c
      <4> QED BY <2>3, <3>2, <3>4, <4>1, <4>2 DEF Positive, Later
    <3>6. o + (l - 1) * c <= l * m
      BY <2>2, <3>4 DEF Light
    <3> HIDE DEF c, m, o, b, l
    <3>7. m * l <= b * l /\ m * l \in Nat /\ b * l \in Nat
      BY <2>2, <3>5, TimesMonotone
    <3>8. (l - 1) * c \in Nat /\ l * m = m * l
      <4>1. l - 1 \in Nat
        BY <2>2
      <4>2. (l - 1) * c \in Nat
        <5> DEFINE k == l - 1
        <5> HIDE DEF k
        <5> QED BY <3>5, <4>1 DEF k
      <4> QED BY <2>2, <3>5, <4>2
    <3> DEFINE x == (l - 1) * c
               y == m * l
               z == b * l
    <3>9. o + x <= y /\ y <= z /\ x \in Nat /\ y \in Nat /\ z \in Nat
      BY <3>6, <3>7, <3>8
    <3> HIDE DEF x, y, z
    <3>10. o <= z
      BY <3>5, <3>9
    <3> QED BY <3>10 DEF o, z, b, l
  <2> QED BY <2>5, <2>6
<1> QED BY <1>1, OutputInvariance, PTL

-----------------------------------------------------------------------------
(* The request.                                                            *)

ErrorsOf(c) == ValidateJobRequest(c.req, Load(c.env).whitelist)

(* The answer to a request follows from its errors alone.                  *)
Replied ==
  reply = 0 \/ reply = IF ErrorsOf(case) = {} THEN 202
                       ELSE IF "registry" \in ErrorsOf(case) THEN 403 ELSE 400

(* Only handleSubmitJob answers.                                           *)
LEMMA RepliedStep ==
  ASSUME IInv, Replied, [Next]_vars
  PROVE  Replied'
<1>1. CASE handleSubmitJob
  <2>1. at = "serve" /\ case' = case
    BY <1>1 DEF handleSubmitJob
  <2>2. cfg = Load(case.env)
    BY <2>1 DEF IInv, Settled
  <2>3. \/ ErrorsOf(case) = {} /\ reply' = 202
        \/ /\ ErrorsOf(case) # {}
           /\ reply' = IF "registry" \in ErrorsOf(case) THEN 403 ELSE 400
    BY <1>1, <2>2 DEF handleSubmitJob, ErrorsOf
  <2> QED BY <2>1, <2>3 DEF Replied
<1>2. CASE ~handleSubmitJob
  <2>1. reply' = reply /\ case' = case
    BY <1>2 DEF Next, LoadConfig, ImageExists, PullImage, CreateContainer, StartContainer,
       WaitContainer, StopContainer, KillContainer, GetLogs, RemoveContainer, setup, vars
  <2> QED BY <2>1 DEF Replied
<1> QED BY <1>1, <1>2

(* The validator names the registry if a non-empty whitelist lacks it.     *)
LEMMA RegistryError ==
  ASSUME NEW req, NEW whitelist
  PROVE  "registry" \in ValidateJobRequest(req, whitelist) <=>
           /\ req.image # <<>> /\ whitelist # {}
           /\ ~isRegistryWhitelisted(extractRegistry(req.image), whitelist)
<1>1. "registry" \notin ValidateEnv(req.env) \cup ValidateSecrets(req.secrets)
  BY DEF ValidateEnv, ValidateSecrets
<1> QED BY <1>1 DEF ValidateJobRequest

(* handleSubmitJob refuses with 403 the images whose registry is not on    *)
(* the whitelist, and no others: for every reference and every whitelist.  *)
THEOREM RegistryDecides == Spec => []WhitelistDecides
<1>1. Init => Replied
  BY DEF Init, Replied
<1>2. IInv /\ Replied /\ [Next]_vars => Replied'
  BY RepliedStep
<1>3. IInv /\ Replied => WhitelistDecides
  <2> SUFFICES ASSUME IInv, Replied PROVE WhitelistDecides
    OBVIOUS
  <2> DEFINE whitelist == ToSet(case.env.whitelist) \ {<<>>}
             host == HostOf(case.ref)
             listed == \E entry \in whitelist : EqualFold(host, entry)
  <2>1. Load(case.env).whitelist = whitelist
    BY DEF Load
  <2>2. extractRegistry(case.req.image) = host
    BY RegistryFound DEF IInv, TypeOK, IsCase
  <2> HIDE DEF whitelist, host
  <2>3. "registry" \in ErrorsOf(case) <=> case.req.image # <<>> /\ whitelist # {} /\ ~listed
    BY <2>1, <2>2, RegistryError DEF ErrorsOf, isRegistryWhitelisted
  <2>4. reply # 0 => (reply = 403 <=> "registry" \in ErrorsOf(case))
    <3>1. "registry" \in ErrorsOf(case) => ErrorsOf(case) # {}
      OBVIOUS
    <3> QED BY <3>1 DEF Replied
  <2>5. reply # 0 /\ case.req.image # <<>> => (reply = 403 <=> ~(whitelist = {} \/ listed))
    BY <2>3, <2>4
  <2> QED BY <2>5 DEF WhitelistDecides, whitelist, host
<1> QED BY <1>1, <1>2, <1>3, Invariance, PTL DEF Spec

(* A container has the configuration that follows from the request.        *)
Built ==
  \/ cc = BuildContainerConfig(case.req)
  \/ /\ container = "absent"
     /\ at \notin {"StartContainer", "WaitContainer", "StopContainer", "KillContainer",
                   "GetLogs", "RemoveContainer"}

(* It gets it before it is created, and keeps it.                          *)
LEMMA BuiltStep ==
  ASSUME Built, [Next]_vars
  PROVE  Built'
<1>1. CASE CreateContainer
  <2>1. cc' = BuildContainerConfig(case.req) /\ case' = case
    BY <1>1 DEF CreateContainer, setup
  <2> QED BY <2>1 DEF Built
<1>2. CASE LoadConfig \/ handleSubmitJob \/ ImageExists \/ PullImage
  <2>1. cc' = cc /\ case' = case /\ container' = container
    BY <1>2 DEF LoadConfig, handleSubmitJob, ImageExists, PullImage, setup
  <2>2. at' \in {"exit", "serve", "ImageExists", "rejected", "PullImage", "CreateContainer",
                 "done"}
    BY <1>2 DEF LoadConfig, handleSubmitJob, ImageExists, PullImage, Fail
  <2>3. at \in {"Load", "serve", "ImageExists", "PullImage"}
    BY <1>2 DEF LoadConfig, handleSubmitJob, ImageExists, PullImage
  <2> QED BY <2>1, <2>2, <2>3 DEF Built
<1>3. CASE StartContainer \/ WaitContainer \/ StopContainer \/ KillContainer \/ GetLogs
           \/ RemoveContainer
  <2>1. cc' = cc /\ case' = case
    BY <1>3 DEF StartContainer, WaitContainer, StopContainer, KillContainer, GetLogs,
       RemoveContainer, setup
  <2>2. at \in {"StartContainer", "WaitContainer", "StopContainer", "KillContainer",
                "GetLogs", "RemoveContainer"}
    BY <1>3 DEF StartContainer, WaitContainer, StopContainer, KillContainer, GetLogs,
       RemoveContainer
  <2> QED BY <2>1, <2>2 DEF Built
<1>4. CASE UNCHANGED vars
  BY <1>4 DEF vars, Built
<1> QED BY <1>1, <1>2, <1>3, <1>4 DEF Next

(* CreateContainer gives the container the words that were meant: for      *)
(* every command that is written out, with any gaps and any quotes.        *)
THEOREM CommandGiven == Spec => []CommandReachesContainer
<1>1. Init => Built
  BY DEF Init, Built
<1>2. Built /\ [Next]_vars => Built'
  BY BuiltStep
<1>3. TypeOK /\ Built => CommandReachesContainer
  <2> SUFFICES ASSUME TypeOK, Built, container # "absent"
               PROVE  cc.command = TextsOf(case.words)
    BY DEF CommandReachesContainer
  <2>1. cc.command = parseCommand(case.req.command)
    <3>1. cc = BuildContainerConfig(case.req)
      BY DEF Built
    <3>2. BuildContainerConfig(case.req).command = parseCommand(case.req.command)
      BY DEF BuildContainerConfig
    <3> QED BY <3>1, <3>2
  <2>2. IsCommand(case.words) /\ case.req.command = CommandOf(case.words)
    BY DEF TypeOK, IsCase
  <2> QED BY <2>1, <2>2, CommandParsed
<1> QED BY <1>1, <1>2, <1>3, TypeCorrect, PTL DEF Spec

=============================================================================
