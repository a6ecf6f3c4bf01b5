------------------------------- MODULE MCJobRun -----------------------------
(***************************************************************************)
(* Cases for JobRun.  Each family varies one part of a plain case: the     *)
(* timeouts and the time calls take, the image and the whitelist, the      *)
(* command, the output and the secrets, or a field that is not valid.      *)
(***************************************************************************)
EXTENDS JobRun

Strings(chars, n) == BoundedSeq(chars, n)

Limits ==
  [image |-> 14, command |-> 14, envVars |-> 1, envKey |-> 1, envValue |-> 1,
   minTimeout |-> 1, maxTimeout |-> 2, minCPU |-> 1, maxCPU |-> 3,
   minMemory |-> 1, maxMemory |-> 3, secrets |-> 3, secretName |-> 2, secretValue |-> 3]

Tokens == {"reg", "REG", "localhost", "docker", "io", "lib", "img", "5000", "v",
           "1", "sha256", "f", ".", ":", "/", "@"}
LowerCase == [t \in Tokens |-> IF t = "REG" THEN "reg" ELSE t]
Stars == <<"*", "r", "*">>

PlainEnv ==
  [default |-> {}, max |-> {}, pull |-> {}, output |-> {}, runtime |-> "",
   whitelist |-> <<>>]
PlainReq ==
  [image |-> <<"img">>, command |-> <<"x">>, env |-> <<>>, timeout |-> {},
   cpu |-> {}, memory |-> {}, network |-> FALSE, secrets |-> <<>>]
Ref(h, p, t, d) == [host |-> h, path |-> p, tag |-> t, digest |-> d]
Word(gap, quote, text) == [gap |-> gap, quote |-> quote, text |-> text]

PlainCase ==
  [env |-> PlainEnv, req |-> PlainReq, ref |-> Ref(<<>>, <<"img">>, <<>>, <<>>),
   words |-> <<Word(<<>>, "", <<"x">>)>>,
   raw |-> [s \in Streams |-> <<>>], delays |-> {0}]

Secret(v) == [name |-> <<"A">>, value |-> v, file |-> ""]

(* Unset, not positive, in range, overflowing to a negative number and to a *)
(* positive one.  A call takes no time, some, or does not end by itself.    *)
Settings == {{}, {-1}, {0}, {1}, {2}, {3}, {6}}

TimingCases ==
  {[PlainCase EXCEPT !.env.default = d, !.env.max = m, !.req.timeout = t,
                     !.delays = {0, 1, 99}] :
     d \in Settings, m \in Settings, t \in {{}, {1}, {2}}}
  \cup {[PlainCase EXCEPT !.env.pull = p, !.env.max = m, !.req.timeout = {2},
                          !.delays = {0, 1, 99}] : p \in Settings, m \in {{}, {1}}}

Hosts == {<<>>, Hub, <<"reg", ".", "io">>, <<"REG", ".", "io">>,
          <<"reg", ":", "5000">>, <<"localhost">>, <<"localhost", ":", "5000">>}
Refer(c, ref) == [c EXCEPT !.ref = ref, !.req.image = ImageOf(ref)]

ImageCases ==
  {[Refer(PlainCase, Ref(h, p, t, d)) EXCEPT !.req.timeout = n, !.env.whitelist = w] :
     h \in Hosts, p \in {<<"img">>, <<"lib", "/", "img">>},
     t \in {<<>>, <<":", "v", ".", "1">>},
     d \in {<<>>, <<"@", "sha256", ":", "f">>},
     n \in {{}, {3}},
     w \in {<<>>, <<<<>>>>, <<Hub>>, <<<<>>, <<"reg", ".", "io">>>>,
            <<<<"reg", ":", "5000">>, <<"REG", ".", "io">>>>,
            <<<<"localhost">>, Hub>>}}

(* Words in single quotes, or in double ones if they hold a single quote. *)
InQuotes(gap, w) == Word(gap, IF "sq" \in ToSet(w) THEN "dq" ELSE "sq", w)
Words == {w \in Strings({"x", "sp", "sq", "dq"}, 2) : ~({"sq", "dq"} \subseteq ToSet(w))}
Command(c, words) == [c EXCEPT !.words = words, !.req.command = CommandOf(words)]
Bare == {<<"x">>, <<"x", "x">>}

CommandCases ==
  {Command(PlainCase, <<Word(<<>>, "", v), InQuotes(<<"sp">>, w)>>) :
     v \in Bare, w \in Words}
  \cup {Command(PlainCase, <<InQuotes(<<>>, v), InQuotes(<<"sp", "sp">>, w)>>) :
          v \in Words, w \in Words}

Letters == {{"a", "b"}, {"a", "*"}}

(* Outputs below, at and above the limit; secrets that are empty, equal,    *)
(* within one another or overlapping, in any order; a negative limit.       *)
OutputCases ==
  UNION {{[PlainCase EXCEPT !.raw.stdout = r, !.env.output = n,
                            !.req.secrets = <<Secret(v), Secret(w)>>] :
            r \in Strings(L, 3), v \in Strings(L, 2), w \in Strings(L, 2),
            n \in {{}, {2}}} : L \in Letters}
  \cup {[PlainCase EXCEPT !.raw.stderr = r, !.req.secrets = ss, !.env.output = n] :
          r \in Strings({"a", "b"}, 4), n \in {{-1}, {3}, {4}},
          ss \in {<<>>, <<Secret(<<"b">>), Secret(<<"a", "b">>), Secret(<<"a", "b", "a">>)>>,
                 <<Secret(<<"b", "a">>), Secret(<<"a", "a">>), Secret(<<"a">>)>>}}

Invalid ==
  {[PlainCase EXCEPT !.env.runtime = "other"],
   [Refer(PlainCase, Ref(<<>>, <<>>, <<>>, <<>>)) EXCEPT !.env.whitelist = <<<<"localhost">>>>],
   Command(PlainCase, <<>>), [PlainCase EXCEPT !.req.cpu = {4}],
   [PlainCase EXCEPT !.req.memory = {0}], [PlainCase EXCEPT !.req.timeout = {0}],
   [PlainCase EXCEPT !.req.secrets = <<[Secret(<<>>) EXCEPT !.name = <<"1">>]>>],
   [PlainCase EXCEPT !.req.secrets = <<Secret(<<>>), Secret(<<>>), Secret(<<>>), Secret(<<>>)>>]}

SmallCases == TimingCases \cup ImageCases \cup CommandCases \cup OutputCases \cup Invalid

=============================================================================
