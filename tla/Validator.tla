------------------------------ MODULE Validator -----------------------------
(***************************************************************************)
(* pkg/validator/validator.go: what a job request must satisfy.  An image  *)
(* reference is a sequence of tokens, its separators among them; the other *)
(* strings are sequences of characters.  CPU limits are in tenths.         *)
(***************************************************************************)
EXTENDS Integers, Sequences, SequencesExt

CONSTANTS
  Limit,      \* the limits of validator.go:12-26, a record
  Capitals,   \* letters and "_", in a secret name
  Digits,     \* digits, in a secret name
  Lower       \* a function: the lower-case form of a token

ASSUME ValidatorConstants ==
  /\ {Limit.image, Limit.command, Limit.envVars, Limit.envKey, Limit.envValue,
      Limit.secrets, Limit.secretName, Limit.secretValue} \subseteq Nat
  /\ {Limit.minTimeout, Limit.maxTimeout, Limit.minCPU, Limit.maxCPU,
      Limit.minMemory, Limit.maxMemory} \subseteq Nat \ {0}

Hub == <<"docker", ".", "io">>

IndexOf(s, c) == SelectInSeq(s, LAMBDA x : x = c)
LastIndexOf(s, c) == SelectLastInSeq(s, LAMBDA x : x = c)

withoutDigest(image) ==
  LET at == IndexOf(image, "@") IN IF at = 0 THEN image ELSE SubSeq(image, 1, at - 1)

(* Mutant: a colon is taken for the tag separator wherever it is. *)
withoutPortOrTag(name) ==
  LET colon == LastIndexOf(name, ":") IN
    IF colon > 0 THEN SubSeq(name, 1, colon - 1) ELSE name

(* A colon before the last slash belongs to a port. *)
withoutTag(name) ==
  LET colon == LastIndexOf(name, ":") IN
    IF colon > LastIndexOf(name, "/") THEN SubSeq(name, 1, colon - 1) ELSE name

(* What is before the first slash is a registry if it has a dot or a colon, *)
(* or is "localhost".                                                       *)
extractRegistry(image) ==
  LET ref == withoutTag(withoutDigest(image))
      slash == IndexOf(ref, "/")
      first == SubSeq(ref, 1, slash - 1)
  IN IF slash > 0 /\ (first = <<"localhost">> \/ {".", ":"} \cap ToSet(first) # {})
     THEN first ELSE Hub

(* strings.EqualFold *)
EqualFold(a, b) ==
  Len(a) = Len(b) /\ \A i \in 1 .. Len(a) : Lower[a[i]] = Lower[b[i]]

isRegistryWhitelisted(registry, whitelist) ==
  \E entry \in whitelist : EqualFold(registry, entry)

(* The pattern ^[A-Z_][A-Z0-9_]{0,255}$ *)
ValidSecretName(name) ==
  /\ Len(name) \in 1 .. Limit.secretName
  /\ name[1] \in Capitals
  /\ \A i \in 1 .. Len(name) : name[i] \in Capitals \cup Digits

(* With too many secrets, none is looked at. *)
ValidateSecrets(secrets) ==
  IF Len(secrets) > Limit.secrets THEN {"secrets"}
  ELSE {"secret name" : i \in {k \in 1 .. Len(secrets) :
                                 ~ValidSecretName(secrets[k].name)}}
         \cup {"secret value" : i \in {k \in 1 .. Len(secrets) :
                                 Len(secrets[k].value) > Limit.secretValue}}

ValidateEnv(vars) ==
  IF Len(vars) > Limit.envVars THEN {"env"}
  ELSE {"env" : i \in {k \in 1 .. Len(vars) :
                         \/ Len(vars[k].name) > Limit.envKey
                         \/ Len(vars[k].value) > Limit.envValue}}

(* Mutant: the lower bound is not checked. *)
TooLarge(option, lo, hi) == \E n \in option : n > hi

OutOfRange(option, lo, hi) == \E n \in option : n < lo \/ n > hi

(* The errors of a request, by what they are about. *)
ValidateJobRequest(req, whitelist) ==
  {e \in {"image", "registry", "command", "timeout", "cpu", "memory"} :
     \/ e = "image" /\ (req.image = <<>> \/ Len(req.image) > Limit.image)
     \/ e = "registry" /\ req.image # <<>> /\ whitelist # {}
          /\ ~isRegistryWhitelisted(extractRegistry(req.image), whitelist)
     \/ e = "command" /\ (req.command = <<>> \/ Len(req.command) > Limit.command)
     \/ e = "timeout" /\ OutOfRange(req.timeout, Limit.minTimeout, Limit.maxTimeout)
     \/ e = "cpu" /\ OutOfRange(req.cpu, Limit.minCPU, Limit.maxCPU)
     \/ e = "memory" /\ OutOfRange(req.memory, Limit.minMemory, Limit.maxMemory)}
  \cup ValidateEnv(req.env) \cup ValidateSecrets(req.secrets)

-----------------------------------------------------------------------------
(* An image reference as it is written: [host/]path[:tag][@digest].  A tag *)
(* begins with its colon and a digest with its "@".                        *)

ImageOf(ref) ==
  (IF ref.host = <<>> THEN <<>> ELSE ref.host \o <<"/">>) \o ref.path \o ref.tag \o ref.digest

(* What tells a host from the first part of a path. *)
NamesHost(first) == first = <<"localhost">> \/ "." \in ToSet(first) \/ ":" \in ToSet(first)

(* The characters that each part may hold; the rest of a digest is free. *)
IsReference(ref) ==
  /\ ref \in [host : Seq(STRING), path : Seq(STRING), tag : Seq(STRING), digest : Seq(STRING)]
  /\ ref.host # <<>> => NamesHost(ref.host) /\ {"/", "@"} \cap ToSet(ref.host) = {}
  /\ ref.host = <<>> => LET slash == IndexOf(ref.path, "/") IN
       slash > 0 => ~NamesHost(SubSeq(ref.path, 1, slash - 1))
  /\ {":", "@"} \cap ToSet(ref.path) = {}
  /\ \A i \in 1 .. Len(ref.tag) : ref.tag[i] = ":" <=> i = 1
  /\ {"/", "@"} \cap ToSet(ref.tag) = {}
  /\ ref.digest # <<>> => ref.digest[1] = "@"

(* The registry that is meant. *)
HostOf(ref) == IF ref.host = <<>> THEN Hub ELSE ref.host

=============================================================================
