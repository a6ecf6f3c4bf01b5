------------------------------- MODULE Config -------------------------------
(***************************************************************************)
(* pkg/config/config.go: the settings a worker reads from its environment. *)
(* An environment variable that holds a number is a set: {n}, or {} when   *)
(* it is unset or does not parse as an int64.                              *)
(***************************************************************************)
EXTENDS Integers, Sequences, SequencesExt

CONSTANTS
  Half,             \* 2^63: an int64 is in -Half .. Half - 1
  Second,           \* time.Second, in units of time.Duration
  DefaultSeconds,   \* 300, the default of DEFAULT_TIMEOUT
  MaxSeconds,       \* 3600, the default of MAX_TIMEOUT
  PullSeconds,      \* 120, the default of IMAGE_PULL_TIMEOUT
  OutputBytes       \* 1048576, the default of MAX_OUTPUT_BYTES

ASSUME ConfigConstants ==
  /\ Half \in Nat \ {0} /\ Second \in Nat \ {0}
  /\ DefaultSeconds \in Nat \ {0} /\ MaxSeconds \in Nat
  /\ DefaultSeconds <= MaxSeconds /\ MaxSeconds * Second < Half
  /\ PullSeconds \in Nat /\ PullSeconds * Second < Half
  /\ OutputBytes \in 0 .. Half - 1

Int64 == -Half .. Half - 1

(* Arithmetic on int64 wraps around. *)
Wrap(n) == ((n + Half) % (2 * Half)) - Half

Optional(S) == {{}} \cup {{n} : n \in S}

Environments ==
  [default : Optional(Int64), max : Optional(Int64), pull : Optional(Int64),
   output : Optional(Int64), runtime : STRING, whitelist : Seq(Seq(STRING))]

OrDefault(option, default) ==
  IF option = {} THEN default ELSE CHOOSE n \in option : TRUE

parseIntEnv(var, defaultVal) == OrDefault(var, defaultVal)

(* time.Duration(seconds) * time.Second *)
parseDurationEnv(var, defaultVal) ==
  IF var = {} THEN defaultVal ELSE Wrap((CHOOSE n \in var : TRUE) * Second)

(* An unset RUNTIME is "docker". *)
LoadFails(env) == env.runtime \notin {"", "docker", "podman"}

(* The whitelist is split at its commas already; blank entries are dropped, *)
(* and the order of the others does not matter to its only use.             *)
Load(env) ==
  [default |-> parseDurationEnv(env.default, DefaultSeconds * Second),
   max |-> parseDurationEnv(env.max, MaxSeconds * Second),
   pull |-> parseDurationEnv(env.pull, PullSeconds * Second),
   output |-> parseIntEnv(env.output, OutputBytes),
   whitelist |-> ToSet(env.whitelist) \ {<<>>}]

=============================================================================
