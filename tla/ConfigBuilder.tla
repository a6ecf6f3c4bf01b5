---------------------------- MODULE ConfigBuilder ---------------------------
(***************************************************************************)
(* pkg/executor/config_builder.go: from a request to the timeout of its    *)
(* job and the configuration of its container.  CPU limits are in tenths,  *)
(* and "sq", "dq" and "sp" are the quotes and the space of a command.      *)
(***************************************************************************)
EXTENDS Config, SequencesExt

CONSTANTS
  DefaultCPU,       \* 10 tenths
  DefaultMemoryMB,  \* 256
  BytesPerMB        \* 1048576

ASSUME BuilderConstants ==
  {DefaultCPU, DefaultMemoryMB, BytesPerMB} \subseteq Nat \ {0}

(* Mutant: the maximum is not applied. *)
TimeoutUnclamped(req, cfg) ==
  IF req.timeout = {} THEN cfg.default
  ELSE Wrap((CHOOSE n \in req.timeout : TRUE) * Second)

(* DefaultTimeout is not compared with MaxTimeout. *)
EffectiveTimeout(req, cfg) ==
  IF req.timeout = {} THEN cfg.default
  ELSE LET requested == Wrap((CHOOSE n \in req.timeout : TRUE) * Second)
       IN IF requested > cfg.max THEN cfg.max ELSE requested

-----------------------------------------------------------------------------
(* parseCommand: a scanner with the two quote flags and the current word.  *)

Flush(scan) ==
  IF scan.word = <<>> THEN scan
  ELSE [scan EXCEPT !.args = Append(@, scan.word), !.word = <<>>]

(* Mutant: a quote toggles also inside the other quotes. *)
FeedNested(scan, ch) ==
  IF ch = "sq" THEN [scan EXCEPT !.single = ~@]
  ELSE IF ch = "dq" THEN [scan EXCEPT !.double = ~@]
  ELSE IF ch = "sp" /\ ~scan.single /\ ~scan.double THEN Flush(scan)
  ELSE [scan EXCEPT !.word = Append(@, ch)]

Feed(scan, ch) ==
  IF ch = "sq" /\ ~scan.double THEN [scan EXCEPT !.single = ~@]
  ELSE IF ch = "dq" /\ ~scan.single THEN [scan EXCEPT !.double = ~@]
  ELSE IF ch = "sp" /\ ~scan.single /\ ~scan.double THEN Flush(scan)
  ELSE [scan EXCEPT !.word = Append(@, ch)]

Scan(start, cmd) ==
  LET scan[i \in 0 .. Len(cmd)] == IF i = 0 THEN start ELSE Feed(scan[i - 1], cmd[i])
  IN scan[Len(cmd)]

parseCommand(cmd) ==
  LET start == [args |-> <<>>, word |-> <<>>, single |-> FALSE, double |-> FALSE]
  IN Flush(Scan(start, cmd)).args

-----------------------------------------------------------------------------
Entry(name, value) == [name |-> name, value |-> value]

(* The variables of a map come in any order, so env is a set.  A secret     *)
(* with a path is mounted from /run/secrets, the others become variables.   *)
BuildContainerConfig(req) ==
  [image |-> req.image,
   cpu |-> OrDefault(req.cpu, DefaultCPU),
   memory |-> Wrap(OrDefault(req.memory, DefaultMemoryMB) * BytesPerMB),
   networkOff |-> ~req.network,
   command |-> parseCommand(req.command),
   env |-> {Entry(v.name, v.value) : v \in ToSet(req.env)} \cup
           {Entry(s.name, s.value) : s \in {t \in ToSet(req.secrets) : t.file = ""}},
   mounts |-> {[source |-> s.name, target |-> s.file] :
                 s \in {t \in ToSet(req.secrets) : t.file # ""}}]

-----------------------------------------------------------------------------
(* A command as it is written: words, each bare or in quotes that it does  *)
(* not hold, with spaces between them.                                     *)

IsCommand(words) ==
  /\ words \in Seq([gap : Seq({"sp"}), quote : {"", "sq", "dq"}, text : Seq(STRING)])
  /\ \A i \in 1 .. Len(words) : LET w == words[i] IN
       /\ i > 1 => w.gap # <<>>
       /\ w.quote = "" => {"sp", "sq", "dq"} \cap ToSet(w.text) = {}
       /\ w.quote \notin ToSet(w.text)

Quoted(w) ==
  IF w.quote = "" THEN w.text ELSE <<w.quote>> \o w.text \o <<w.quote>>

CommandOf(words) ==
  LET cmd[i \in 0 .. Len(words)] ==
        IF i = 0 THEN <<>> ELSE cmd[i - 1] \o words[i].gap \o Quoted(words[i])
  IN cmd[Len(words)]

(* The words that are meant, but for the empty ones. *)
TextsOf(words) ==
  LET texts[i \in 0 .. Len(words)] ==
        IF i = 0 THEN <<>>
        ELSE IF words[i].text = <<>> THEN texts[i - 1]
        ELSE Append(texts[i - 1], words[i].text)
  IN texts[Len(words)]

=============================================================================
