------------------------------ MODULE Redaction -----------------------------
(***************************************************************************)
(* pkg/executor/output.go and redaction.go: from the output of a container *)
(* to the output in its result.  A unit of output is a character and the   *)
(* position at which the container wrote it, so that what survives can be  *)
(* told from what looks the same; a unit of the placeholder has position 0.*)
(***************************************************************************)
EXTENDS Integers, Sequences, SequencesExt

CONSTANT Placeholder    \* redactionPlaceholder, as characters

ASSUME RedactionConstants == Placeholder \in Seq(STRING) /\ Placeholder # <<>>

Unit(c, at) == [c |-> c, at |-> at]

Written(chars) == [i \in 1 .. Len(chars) |-> Unit(chars[i], i)]

Mark == [i \in 1 .. Len(Placeholder) |-> Unit(Placeholder[i], 0)]

(* The slice expression data[offset:] panics. *)
SlicePanics(data, maxBytes) ==
  Len(data) > maxBytes /\ Len(data) - maxBytes \notin 0 .. Len(data)

(* Mutant: one unit too many is kept. *)
truncateOffByOne(data, maxBytes) ==
  IF Len(data) <= maxBytes + 1 THEN data
  ELSE SubSeq(data, Len(data) - maxBytes, Len(data))

truncateTail(data, maxBytes) ==
  IF Len(data) <= maxBytes THEN data
  ELSE SubSeq(data, Len(data) - maxBytes + 1, Len(data))

(* value is in text from position i on. *)
OccursAt(text, value, i) ==
  /\ i + Len(value) <= Len(text) + 1
  /\ \A k \in 1 .. Len(value) : text[i + k - 1].c = value[k]

(* Mutants: only the first occurrence; one unit too many. *)
ReplaceFirstValue(text, value) ==
  LET scan[i \in 1 .. Len(text) + 1] ==
        IF i > Len(text) THEN <<>>
        ELSE IF OccursAt(text, value, i)
             THEN Mark \o SubSeq(text, i + Len(value), Len(text))
             ELSE <<text[i]>> \o scan[i + 1]
  IN scan[1]

ReplaceAndNext(text, value) ==
  LET scan[i \in 1 .. Len(text) + 2] ==
        IF i > Len(text) THEN <<>>
        ELSE IF OccursAt(text, value, i) THEN Mark \o scan[i + Len(value) + 1]
        ELSE <<text[i]>> \o scan[i + 1]
  IN scan[1]

(* strings.ReplaceAll: from the left, without overlaps. *)
ReplaceValue(text, value) ==
  LET scan[i \in 1 .. Len(text) + 1] ==
        IF i > Len(text) THEN <<>>
        ELSE IF OccursAt(text, value, i) THEN Mark \o scan[i + Len(value)]
        ELSE <<text[i]>> \o scan[i + 1]
  IN scan[1]

(* Insertion before the first secret that is shorter. *)
InsertByLength(sorted, s) ==
  LET shorter == {i \in 1 .. Len(sorted) : Len(sorted[i].value) < Len(s.value)}
  IN InsertAt(sorted, Min(shorter \cup {Len(sorted) + 1}), s)

(* Mutant: the secrets in the order of the request. *)
secretsAsGiven(secrets) == secrets

(* The first i secrets, sorted; then one more is inserted. *)
sortSecretsByValueLength(secrets) ==
  LET sorted[i \in 0 .. Len(secrets)] ==
        IF i = 0 THEN <<>> ELSE InsertByLength(sorted[i - 1], secrets[i])
  IN sorted[Len(secrets)]

(* The output after i secrets; an empty one is skipped. *)
RedactInOrder(output, sorted) ==
  LET text[i \in 0 .. Len(sorted)] ==
        IF i = 0 THEN output
        ELSE IF sorted[i].value = <<>> THEN text[i - 1]
        ELSE ReplaceValue(text[i - 1], sorted[i].value)
  IN text[Len(sorted)]

RedactSecrets(output, secrets) ==
  RedactInOrder(output, sortSecretsByValueLength(secrets))

-----------------------------------------------------------------------------
(* What is left of an output.  A span is a pair of positions.              *)

(* The positions whose units are in text. *)
KeptIn(text) == {text[i].at : i \in 1 .. Len(text)} \ {0}

(* Where the container wrote one of the values. *)
SpansOf(raw, values) ==
  {<<p[1], p[1] + Len(p[2]) - 1>> : p \in
     {q \in (1 .. Len(raw)) \X values : OccursAt(Written(raw), q[2], q[1])}}

Overlap(p, q) == p[1] <= q[2] /\ q[1] <= p[2]
Within(p, q) == q[1] <= p[1] /\ p[2] <= q[2]
Crosses(p, q) == Overlap(p, q) /\ ~Within(p, q) /\ ~Within(q, p)

=============================================================================
