--------------------------- MODULE RedactionProofs --------------------------
(***************************************************************************)
(* What truncateTail and RedactSecrets leave of an output, for every       *)
(* output, every limit and every list of secrets.                          *)
(***************************************************************************)
EXTENDS Redaction, BasicLemmas, FiniteSetTheorems

-----------------------------------------------------------------------------
Units == [c : STRING, at : Nat]

(* The placeholder consists of at least one unit, each without position.   *)
LEMMA MarkShape ==
  /\ Mark \in Seq(Units) /\ Len(Mark) = Len(Placeholder) /\ Len(Mark) \in Nat \ {0}
  /\ \A i \in 1 .. Len(Mark) : Mark[i].at = 0 /\ Mark[i].c \in ToSet(Placeholder)
<1>1. Placeholder \in Seq(STRING) /\ Len(Placeholder) \in Nat \ {0}
  BY RedactionConstants
<1>2. \A i \in 1 .. Len(Placeholder) : Placeholder[i] \in STRING
  BY <1>1
<1>3. \A i \in 1 .. Len(Placeholder) :
        Mark[i] = [c |-> Placeholder[i], at |-> 0] /\ Mark[i] \in Units
  BY <1>2 DEF Mark, Unit, Units
<1>4. Mark \in Seq(Units) /\ Len(Mark) = Len(Placeholder)
  <2>1. Mark \in [1 .. Len(Placeholder) -> Units]
    BY <1>3 DEF Mark
  <2> QED BY <1>1, <2>1, FunctionIsSequence
<1>5. \A i \in 1 .. Len(Placeholder) : Placeholder[i] \in ToSet(Placeholder)
  BY <1>1 DEF ToSet
<1>6. \A i \in 1 .. Len(Placeholder) : Mark[i].at = 0 /\ Mark[i].c = Placeholder[i]
  BY DEF Mark, Unit
<1> QED BY <1>1, <1>4, <1>5, <1>6

-----------------------------------------------------------------------------
(* One replacement.                                                        *)

(* The m units from position j on are replaced by the placeholder.         *)
Splice(t, j, m) == SubSeq(t, 1, j - 1) \o Mark \o SubSeq(t, j + m, Len(t))

Spliced(u, t, j, m) ==
  /\ u \in Seq(Units) /\ Len(u) = Len(t) - m + Len(Mark)
  /\ \A i \in 1 .. j - 1 : u[i] = t[i]
  /\ \A i \in j .. j + Len(Mark) - 1 : u[i] = Mark[i - j + 1]
  /\ \A i \in j + Len(Mark) .. Len(t) - m + Len(Mark) : u[i] = t[i - Len(Mark) + m]

(* What a replacement consists of.                                         *)
LEMMA SpliceShape ==
  ASSUME NEW t \in Seq(Units), NEW j \in Nat \ {0}, NEW m \in Nat, j + m <= Len(t) + 1
  PROVE  Spliced(Splice(t, j, m), t, j, m)
<1> DEFINE a == SubSeq(t, 1, j - 1)
           b == SubSeq(t, j + m, Len(t))
<1>1. a \in Seq(Units) /\ Len(a) = j - 1 /\ \A i \in 1 .. j - 1 : a[i] = t[i]
  OBVIOUS
<1>2. /\ b \in Seq(Units) /\ Len(b) = Len(t) - j - m + 1
      /\ \A i \in 1 .. Len(t) - j - m + 1 : b[i] = t[j + m + i - 1]
  OBVIOUS
<1>3. Splice(t, j, m) = a \o Mark \o b
  BY DEF Splice
<1> HIDE DEF a, b
<1>4. Mark \in Seq(Units) /\ Len(Mark) \in Nat
  BY MarkShape
<1>5. Joined(Units, Splice(t, j, m), a, Mark, b)
  <2>1. a \in Seq(Units) /\ Mark \in Seq(Units) /\ b \in Seq(Units)
    BY <1>1, <1>2, <1>4
  <2>2. Joined(Units, a \o Mark \o b, a, Mark, b)
    BY <2>1, ConcatThree, Zenon
  <2> QED BY <1>3, <2>2, Zenon
<1>6. Len(t) \in Nat
  OBVIOUS
<1>7. ASSUME NEW i \in j .. j + Len(Mark) - 1
      PROVE  Splice(t, j, m)[i] = Mark[i - j + 1]
  <2>1. i \in Len(a) + 1 .. Len(a) + Len(Mark) /\ i - Len(a) = i - j + 1
    BY <1>1, <1>4
  <2> QED BY <1>5, <2>1 DEF Joined
<1>8. ASSUME NEW i \in j + Len(Mark) .. Len(t) - m + Len(Mark)
      PROVE  Splice(t, j, m)[i] = t[i - Len(Mark) + m]
  <2>1. Splice(t, j, m)[i] = b[i - (j - 1) - Len(Mark)]
    BY <1>1, <1>2, <1>4, <1>5, <1>6 DEF Joined
  <2>2. i - (j - 1) - Len(Mark) \in 1 .. Len(t) - j - m + 1
    BY <1>4, <1>6
  <2>3. b[i - (j - 1) - Len(Mark)] = t[j + m + (i - (j - 1) - Len(Mark)) - 1]
    BY <1>2, <2>2
  <2> QED BY <1>4, <1>6, <2>1, <2>3
<1> QED BY <1>1, <1>2, <1>4, <1>5, <1>6, <1>7, <1>8 DEF Joined, Spliced

-----------------------------------------------------------------------------
(* Texts that come from an output by replacements.                         *)

(* A unit is one of the output from position lo on, or of a placeholder;   *)
(* the positions ascend, and two units of the output are neighbours in the *)
(* text if and only if they were in the output.                            *)
Good(t, raw, lo) ==
  /\ t \in Seq(Units)
  /\ \A i \in 1 .. Len(t) :
       \/ t[i].at = 0 /\ t[i].c \in ToSet(Placeholder)
       \/ t[i].at \in lo .. Len(raw) /\ t[i].c = raw[t[i].at]
  /\ \A i, k \in 1 .. Len(t) : i < k /\ t[i].at # 0 /\ t[k].at # 0 =>
       t[i].at < t[k].at /\ (k = i + 1 <=> t[k].at = t[i].at + 1)

(* The place of unit i of a spliced text in the text before.               *)
Before(i, j, m) == IF i < j THEN i ELSE i - Len(Mark) + m

(* A unit with a position was in the text before, not among the m units.   *)
LEMMA SpliceUnits ==
  ASSUME NEW t \in Seq(Units), NEW j \in Nat \ {0}, NEW m \in Nat, j + m <= Len(t) + 1,
         NEW i \in 1 .. Len(Splice(t, j, m))
  PROVE  \/ /\ i \in j .. j + Len(Mark) - 1
            /\ Splice(t, j, m)[i].at = 0
            /\ Splice(t, j, m)[i].c \in ToSet(Placeholder)
         \/ /\ i \notin j .. j + Len(Mark) - 1
            /\ Before(i, j, m) \in (1 .. j - 1) \cup (j + m .. Len(t))
            /\ Splice(t, j, m)[i] = t[Before(i, j, m)]
<1> DEFINE u == Splice(t, j, m)
           l == Len(Mark)
<1>1. l \in Nat \ {0} /\ \A k \in 1 .. l : Mark[k].at = 0 /\ Mark[k].c \in ToSet(Placeholder)
  BY MarkShape
<1>2. /\ Len(u) = Len(t) - m + l
      /\ \A k \in 1 .. j - 1 : u[k] = t[k]
      /\ \A k \in j .. j + l - 1 : u[k] = Mark[k - j + 1]
      /\ \A k \in j + l .. Len(t) - m + l : u[k] = t[k - l + m]
  <2>1. Spliced(u, t, j, m)
    <3> HIDE DEF l
    <3> QED BY SpliceShape, Zenon
  <2> HIDE DEF u
  <2> QED BY <2>1, Zenon DEF Spliced, l
<1>3. Len(t) \in Nat
  OBVIOUS
<1> HIDE DEF u, l
<1>4. CASE i \in j .. j + l - 1
  <2>1. u[i] = Mark[i - j + 1] /\ i - j + 1 \in 1 .. l
    BY <1>1, <1>2, <1>4, SMTT(30)
  <2> QED BY <1>1, <1>4, <2>1 DEF u, l
<1>5. CASE i < j
  <2>1. Before(i, j, m) = i /\ i \in 1 .. j - 1 /\ i \notin j .. j + l - 1
    BY <1>2, <1>3, <1>5 DEF Before, u
  <2> QED BY <1>2, <2>1 DEF u, l
<1>6. CASE i > j + l - 1
  <2>1. i \in Nat /\ i <= Len(t) - m + l
    BY <1>1, <1>2, <1>3 DEF u
  <2>2. Before(i, j, m) = i - l + m
    BY <1>1, <1>6, <2>1 DEF Before, l
  <2>3. i - l + m \in j + m .. Len(t) /\ i \notin j .. j + l - 1
        /\ i \in j + l .. Len(t) - m + l
    BY <1>1, <1>3, <1>6, <2>1
  <2> QED BY <1>2, <2>2, <2>3 DEF u, l
<1> QED BY <1>1, <1>2, <1>3, <1>4, <1>5, <1>6 DEF u, l

(* A replacement of at least one unit keeps a text good.                   *)
LEMMA SpliceGood ==
  ASSUME NEW raw \in Seq(STRING), NEW lo \in Nat \ {0}, NEW t, Good(t, raw, lo),
         NEW j \in Nat \ {0}, NEW m \in Nat \ {0}, j + m <= Len(t) + 1
  PROVE  Good(Splice(t, j, m), raw, lo)
<1> DEFINE u == Splice(t, j, m)
           l == Len(Mark)
<1>1. t \in Seq(Units) /\ Len(t) \in Nat /\ l \in Nat \ {0}
  BY MarkShape DEF Good
<1>2. u \in Seq(Units) /\ Len(u) = Len(t) - m + l
  BY <1>1, SpliceShape DEF Spliced
<1>3. \A i \in 1 .. Len(u) :
        \/ i \in j .. j + l - 1 /\ u[i].at = 0 /\ u[i].c \in ToSet(Placeholder)
        \/ /\ i \notin j .. j + l - 1
           /\ Before(i, j, m) \in (1 .. j - 1) \cup (j + m .. Len(t))
           /\ u[i] = t[Before(i, j, m)]
  BY <1>1, SpliceUnits
<1> HIDE DEF u, l
<1>4. ASSUME NEW i \in 1 .. Len(u)
      PROVE  \/ u[i].at = 0 /\ u[i].c \in ToSet(Placeholder)
             \/ u[i].at \in lo .. Len(raw) /\ u[i].c = raw[u[i].at]
  <2>1. CASE i \in j .. j + l - 1
    BY <1>3, <2>1
  <2>2. CASE i \notin j .. j + l - 1
    <3>1. Before(i, j, m) \in 1 .. Len(t) /\ u[i] = t[Before(i, j, m)]
      BY <1>1, <1>3, <2>2
    <3> QED BY <3>1 DEF Good
  <2> QED BY <2>1, <2>2
<1>5. ASSUME NEW i \in 1 .. Len(u), NEW k \in 1 .. Len(u),
             i < k, u[i].at # 0, u[k].at # 0
      PROVE  u[i].at < u[k].at /\ (k = i + 1 <=> u[k].at = u[i].at + 1)
  <2> DEFINE p == Before(i, j, m)
             q == Before(k, j, m)
  <2>1. /\ i \notin j .. j + l - 1 /\ k \notin j .. j + l - 1
        /\ p \in (1 .. j - 1) \cup (j + m .. Len(t)) /\ u[i] = t[p]
        /\ q \in (1 .. j - 1) \cup (j + m .. Len(t)) /\ u[k] = t[q]
    BY <1>3, <1>5
  <2>2. p < q /\ (k = i + 1 <=> q = p + 1)
    <3>1. i \in Nat /\ k \in Nat /\ i < k
      BY <1>1, <1>2, <1>5
    <3>2. (i < j \/ i >= j + l) /\ (k < j \/ k >= j + l)
      BY <1>1, <2>1, <3>1, SMTT(30)
    <3>3. /\ p = IF i < j THEN i ELSE i - l + m
          /\ q = IF k < j THEN k ELSE k - l + m
      BY DEF Before, l
    <3> HIDE DEF p, q
    <3> QED BY <1>1, <3>1, <3>2, <3>3
  <2>3. p \in 1 .. Len(t) /\ q \in 1 .. Len(t)
    BY <1>1, <2>1, SMTT(30)
  <2> HIDE DEF p, q
  <2> QED BY <1>5, <2>1, <2>2, <2>3 DEF Good
<1> QED BY <1>2, <1>4, <1>5 DEF Good, u

-----------------------------------------------------------------------------
(* strings.ReplaceAll.                                                     *)

(* f is the function scan of ReplaceValue.                                 *)
IsScan(f, text, value, S) ==
  f = [i \in S |->
         IF i > Len(text) THEN <<>>
         ELSE IF OccursAt(text, value, i) THEN Mark \o f[i + Len(value)]
         ELSE <<text[i]>> \o f[i + 1]]

(* There is such a function: it is built from its last argument down.      *)
LEMMA ScanExists ==
  ASSUME NEW text \in Seq(Units), NEW value \in Seq(STRING), value # <<>>
  PROVE  \E f : IsScan(f, text, value, 1 .. Len(text) + 1)
<1> DEFINE n == Len(text)
           Dom(k) == n + 1 - k .. n + 1
           D == {k \in Nat : \E f : IsScan(f, text, value, Dom(k))}
<1>1. n \in Nat /\ Len(value) \in Nat \ {0}
  OBVIOUS
<1>2. \A i \in 1 .. n : OccursAt(text, value, i) => i + Len(value) <= n + 1
  BY DEF OccursAt
<1>3. 0 \in D
  <2> DEFINE f == [i \in Dom(0) |-> <<>>]
  <2>1. \A i \in Dom(0) : i > n
    BY <1>1
  <2>2. IsScan(f, text, value, Dom(0))
    BY <2>1 DEF IsScan
  <2> QED BY <2>2
<1>4. ASSUME NEW k \in 0 .. n - 1, k \in D
      PROVE  k + 1 \in D
  <2>1. PICK f : IsScan(f, text, value, Dom(k))
    BY <1>4
  <2> DEFINE j == n - k
             first == IF OccursAt(text, value, j) THEN Mark \o f[j + Len(value)]
                      ELSE <<text[j]>> \o f[j + 1]
             g == [i \in Dom(k + 1) |-> IF i = j THEN first ELSE f[i]]
  <2>2. /\ j \in 1 .. n /\ Dom(k + 1) = {j} \cup Dom(k) /\ j \notin Dom(k)
        /\ Dom(k) \subseteq 1 .. n + 1
    BY <1>1
  <2>3. /\ j + 1 \in Dom(k)
        /\ OccursAt(text, value, j) => j + Len(value) \in Dom(k)
    BY <1>1, <1>2, <2>2
  <2>4. ASSUME NEW i \in Dom(k), i <= n
        PROVE  /\ i + 1 \in Dom(k)
               /\ OccursAt(text, value, i) => i + Len(value) \in Dom(k)
    BY <1>1, <1>2, <2>2, <2>4
  <2> HIDE DEF Dom, j, n
  <2>5. \A i \in Dom(k) : g[i] = f[i]
    BY <2>2
  <2>6. ASSUME NEW i \in Dom(k + 1)
        PROVE  g[i] = IF i > n THEN <<>>
                      ELSE IF OccursAt(text, value, i) THEN Mark \o g[i + Len(value)]
                      ELSE <<text[i]>> \o g[i + 1]
    <3>1. CASE i = j
      <4>1. g[i] = first /\ ~(i > n)
        BY <1>1, <2>2, <3>1
      <4> HIDE DEF g
      <4> QED BY <2>3, <2>5, <3>1, <4>1
    <3>2. CASE i # j
      <4>1. i \in Dom(k)
        BY <2>2, <3>2
      <4>2. g[i] = IF i > n THEN <<>>
                   ELSE IF OccursAt(text, value, i) THEN Mark \o f[i + Len(value)]
                   ELSE <<text[i]>> \o f[i + 1]
        <5>1. g[i] = f[i]
          BY <2>5, <4>1
        <5> HIDE DEF g
        <5> QED BY <2>1, <4>1, <5>1 DEF IsScan, n
      <4>3. i > n \/ i <= n
        BY <1>1, <2>2, <4>1
      <4> HIDE DEF g
      <4> QED BY <2>4, <2>5, <4>1, <4>2, <4>3
    <3> QED BY <3>1, <3>2
  <2>7. IsScan(g, text, value, Dom(k + 1))
    <3> DEFINE h == [i \in Dom(k + 1) |->
                       IF i > n THEN <<>>
                       ELSE IF OccursAt(text, value, i) THEN Mark \o g[i + Len(value)]
                       ELSE <<text[i]>> \o g[i + 1]]
    <3>1. g = [i \in Dom(k + 1) |-> g[i]]
      OBVIOUS
    <3>2. \A i \in Dom(k + 1) : h[i] = g[i]
      <4> HIDE DEF g
      <4> QED BY <2>6
    <3>3. h = [i \in Dom(k + 1) |-> h[i]]
      OBVIOUS
    <3>4. g = h
      <4> HIDE DEF g, h
      <4> QED BY <3>1, <3>2, <3>3
    <3> QED BY <3>4 DEF IsScan, n
  <2> HIDE DEF g
  <2> QED BY <2>7
<1>5. n \in D
  <2> HIDE DEF D, n
  <2>1. \A k \in 0 .. n - 1 : k \in D => k + 1 \in D
    BY <1>4
  <2>2. \A k \in 0 .. n : k \in D
    BY <1>1, <1>3, <2>1, UpToInduction, Zenon
  <2> QED BY <1>1, <2>2
<1>6. Dom(n) = 1 .. n + 1
  BY <1>1
<1> QED BY <1>5, <1>6

(* What ReplaceValue returns, through the function that it defines.        *)
LEMMA ReplaceIsScan ==
  ASSUME NEW text \in Seq(Units), NEW value \in Seq(STRING), value # <<>>
  PROVE  \E f : /\ IsScan(f, text, value, 1 .. Len(text) + 1)
                /\ ReplaceValue(text, value) = f[1]
<1> DEFINE f == CHOOSE f : IsScan(f, text, value, 1 .. Len(text) + 1)
<1>1. IsScan(f, text, value, 1 .. Len(text) + 1)
  BY ScanExists
<1>2. ReplaceValue(text, value) = f[1]
  BY DEF ReplaceValue, IsScan
<1> HIDE DEF f
<1> QED BY <1>1, <1>2

(* Induction along the scan: J holds of what has been written and of the   *)
(* position that has been reached.                                         *)
LEMMA ReplaceInduction ==
  ASSUME NEW text \in Seq(Units), NEW value \in Seq(STRING), value # <<>>, NEW J,
         <<<<>>, 1>> \in J,
         \A o \in Seq(Units), i \in 1 .. Len(text) : <<o, i>> \in J =>
           IF OccursAt(text, value, i) THEN <<o \o Mark, i + Len(value)>> \in J
           ELSE <<o \o <<text[i]>>, i + 1>> \in J
  PROVE  /\ ReplaceValue(text, value) \in Seq(Units)
         /\ <<ReplaceValue(text, value), Len(text) + 1>> \in J
<1> DEFINE n == Len(text)
<1>1. PICK f : IsScan(f, text, value, 1 .. n + 1) /\ ReplaceValue(text, value) = f[1]
  BY ReplaceIsScan
<1>2. n \in Nat /\ Len(value) \in Nat \ {0} /\ Mark \in Seq(Units)
  BY MarkShape
<1> DEFINE Q(i) == /\ f[i] \in Seq(Units)
                   /\ \A o \in Seq(Units) : <<o, i>> \in J => <<o \o f[i], n + 1>> \in J
           T == {k \in 0 .. n : ~Q(n + 1 - k)}
<1>3. Q(n + 1)
  <2>1. f[n + 1] = <<>>
    BY <1>1, <1>2 DEF IsScan
  <2>2. \A o \in Seq(Units) : o \o <<>> = o
    BY ConcatEmpty
  <2> HIDE DEF n
  <2> QED BY <2>1, <2>2
<1>4. ASSUME NEW i \in 1 .. n, Q(i + 1), OccursAt(text, value, i) => Q(i + Len(value))
      PROVE  Q(i)
  <2>1. f[i] = IF OccursAt(text, value, i) THEN Mark \o f[i + Len(value)]
               ELSE <<text[i]>> \o f[i + 1]
    <3>1. i \in 1 .. n + 1 /\ ~(i > n)
      BY <1>2
    <3> HIDE DEF Q, T
    <3> QED BY <1>1, <3>1 DEF IsScan
  <2>2. CASE OccursAt(text, value, i)
    <3> DEFINE g == f[i + Len(value)]
    <3>1. f[i] = Mark \o g /\ g \in Seq(Units)
      BY <1>4, <2>1, <2>2
    <3>2. Mark \o g \in Seq(Units)
      BY <1>2, <3>1, ConcatShape, Zenon
    <3>3. ASSUME NEW o \in Seq(Units), <<o, i>> \in J
          PROVE  <<o \o (Mark \o g), n + 1>> \in J
      <4>1. <<o \o Mark, i + Len(value)>> \in J
        BY <2>2, <3>3
      <4>2. o \o Mark \in Seq(Units)
        BY <1>2, ConcatShape, Zenon
      <4>3. <<(o \o Mark) \o g, n + 1>> \in J
        BY <1>4, <2>2, <4>1, <4>2, Zenon
      <4>4. o \o (Mark \o g) = (o \o Mark) \o g
        <5>1. Associates(o, Mark, g)
          BY <1>2, <3>1, ConcatAssociates, Zenon
        <5> QED BY <5>1, Zenon DEF Associates
      <4> QED BY <4>3, <4>4, Zenon
    <3> HIDE DEF g
    <3> QED BY <3>1, <3>2, <3>3, Zenon
  <2>3. CASE ~OccursAt(text, value, i)
    <3> DEFINE g == f[i + 1]
               x == <<text[i]>>
    <3>1. f[i] = x \o g /\ g \in Seq(Units) /\ x \in Seq(Units)
      BY <1>4, <2>1, <2>3
    <3>2. x \o g \in Seq(Units)
      BY <3>1, ConcatShape, Zenon
    <3>3. ASSUME NEW o \in Seq(Units), <<o, i>> \in J
          PROVE  <<o \o (x \o g), n + 1>> \in J
      <4>1. <<o \o x, i + 1>> \in J
        BY <2>3, <3>3
      <4>2. o \o x \in Seq(Units)
        BY <3>1, ConcatShape, Zenon
      <4>3. <<(o \o x) \o g, n + 1>> \in J
        BY <1>4, <4>1, <4>2, Zenon
      <4>4. o \o (x \o g) = (o \o x) \o g
        <5>1. Associates(o, x, g)
          BY <3>1, ConcatAssociates, Zenon
        <5> QED BY <5>1, Zenon DEF Associates
      <4> QED BY <4>3, <4>4, Zenon
    <3> HIDE DEF g, x
    <3> QED BY <3>1, <3>2, <3>3, Zenon
  <2> QED BY <2>2, <2>3
<1>5. \A i \in 1 .. n : OccursAt(text, value, i) => i + Len(value) <= n + 1
  BY DEF OccursAt
<1>6. T = {}
  <2> SUFFICES ASSUME T # {} PROVE FALSE
    OBVIOUS
  <2> HIDE DEF Q, n
  <2>1. PICK k \in T : \A h \in T : k <= h
    <3>1. T \subseteq Nat
      OBVIOUS
    <3> HIDE DEF T
    <3> QED BY <3>1, LeastNumber
  <2>2. k \in 1 .. n /\ n + 1 - k \in 1 .. n
    <3>1. k # 0
      BY <1>2, <1>3, <2>1
    <3> QED BY <1>2, <2>1, <3>1
  <2> DEFINE i == n + 1 - k
  <2>3. \A h \in i + 1 .. n + 1 : Q(h)
    <3> TAKE h \in i + 1 .. n + 1
    <3>1. n + 1 - h \in 0 .. n /\ n + 1 - h < k /\ n + 1 - (n + 1 - h) = h
      BY <1>2, <2>2
    <3> QED BY <2>1, <2>2, <3>1
  <2>4. i + 1 \in i + 1 .. n + 1
    BY <1>2, <2>2
  <2>5. OccursAt(text, value, i) => i + Len(value) \in i + 1 .. n + 1
    BY <1>2, <1>5, <2>2
  <2>6. Q(i)
    BY <1>4, <2>2, <2>3, <2>4, <2>5
  <2> QED BY <2>1, <2>6
<1>7. Q(1)
  <2> HIDE DEF Q
  <2>1. n \in 0 .. n /\ n + 1 - n = 1
    BY <1>2
  <2> QED BY <1>6, <2>1
<1>8. <<>> \in Seq(Units) /\ <<>> \o f[1] = f[1]
  BY <1>7, ConcatEmpty
<1> QED BY <1>1, <1>7, <1>8

(* What has been written, and the rest of the text behind it.              *)
Resumed(o, text, i) == o \o SubSeq(text, i, Len(text))

(* Its units.                                                              *)
LEMMA ResumedShape ==
  ASSUME NEW o \in Seq(Units), NEW text \in Seq(Units), NEW i \in 1 .. Len(text) + 1
  PROVE  /\ Resumed(o, text, i) \in Seq(Units)
         /\ Len(Resumed(o, text, i)) = Len(o) + Len(text) - i + 1
         /\ \A k \in 1 .. Len(o) : Resumed(o, text, i)[k] = o[k]
         /\ \A k \in i .. Len(text) : Resumed(o, text, i)[Len(o) + k - i + 1] = text[k]
<1> DEFINE r == SubSeq(text, i, Len(text))
<1>1. /\ r \in Seq(Units) /\ Len(r) = Len(text) - i + 1
      /\ \A k \in 1 .. Len(text) - i + 1 : r[k] = text[i + k - 1]
  OBVIOUS
<1>2. Resumed(o, text, i) = o \o r
  BY DEF Resumed
<1>3. /\ o \o r \in Seq(Units) /\ Len(o \o r) = Len(o) + Len(r)
      /\ \A k \in 1 .. Len(o) : (o \o r)[k] = o[k]
      /\ \A k \in Len(o) + 1 .. Len(o) + Len(r) : (o \o r)[k] = r[k - Len(o)]
  OBVIOUS
<1>4. Len(o) \in Nat /\ Len(text) \in Nat
  OBVIOUS
<1> HIDE DEF r
<1>5. ASSUME NEW k \in i .. Len(text)
      PROVE  (o \o r)[Len(o) + k - i + 1] = text[k]
  <2>1. Len(o) + k - i + 1 \in Len(o) + 1 .. Len(o) + Len(r)
        /\ Len(o) + k - i + 1 - Len(o) = k - i + 1
        /\ k - i + 1 \in 1 .. Len(text) - i + 1 /\ i + (k - i + 1) - 1 = k
    BY <1>1, <1>4
  <2> QED BY <1>1, <1>3, <2>1
<1>6. Len(o \o r) = Len(o) + Len(text) - i + 1
  <2>1. Len(o \o r) = Len(o) + Len(r) /\ Len(r) = Len(text) - i + 1
    BY <1>1, <1>3
  <2> QED BY <1>4, <2>1
<1> QED BY <1>2, <1>3, <1>5, <1>6, Zenon

(* One step of the scan, seen on the whole text: a match is a replacement, *)
(* any other unit leaves the text as it is.                                *)
LEMMA ScanStep ==
  ASSUME NEW o \in Seq(Units), NEW text \in Seq(Units), NEW i \in 1 .. Len(text),
         NEW value \in Seq(STRING), value # <<>>
  PROVE  /\ Resumed(o \o <<text[i]>>, text, i + 1) = Resumed(o, text, i)
         /\ OccursAt(text, value, i) =>
              /\ OccursAt(Resumed(o, text, i), value, Len(o) + 1)
              /\ Resumed(o \o Mark, text, i + Len(value)) =
                   Splice(Resumed(o, text, i), Len(o) + 1, Len(value))
<1> DEFINE n == Len(text)
           m == Len(value)
           t == Resumed(o, text, i)
<1>1. n \in Nat /\ m \in Nat \ {0} /\ Len(o) \in Nat
  OBVIOUS
<1>2. /\ t \in Seq(Units) /\ Len(t) = Len(o) + n - i + 1
      /\ \A k \in 1 .. Len(o) : t[k] = o[k]
      /\ \A k \in i .. n : t[Len(o) + k - i + 1] = text[k]
  <2>1. i \in 1 .. Len(text) + 1
    BY <1>1
  <2> QED BY <2>1, ResumedShape
<1>3. Resumed(o \o <<text[i]>>, text, i + 1) = t
  <2> DEFINE p == o \o <<text[i]>>
             u == Resumed(p, text, i + 1)
  <2>1. /\ p \in Seq(Units) /\ Len(p) = Len(o) + 1
        /\ \A k \in 1 .. Len(o) : p[k] = o[k]
        /\ p[Len(o) + 1] = text[i]
    OBVIOUS
  <2>2. i + 1 \in 1 .. Len(text) + 1
    BY <1>1
  <2> HIDE DEF p
  <2>3. /\ u \in Seq(Units) /\ Len(u) = Len(p) + n - (i + 1) + 1
        /\ \A k \in 1 .. Len(p) : u[k] = p[k]
        /\ \A k \in i + 1 .. n : u[Len(p) + k - (i + 1) + 1] = text[k]
    BY <2>1, <2>2, ResumedShape
  <2> HIDE DEF u, t
  <2>4. ASSUME NEW h \in 1 .. Len(u)
        PROVE  u[h] = t[h]
    <3> HIDE DEF n
    <3>0. h \in Nat /\ h <= Len(o) + n - i + 1
      BY <1>1, <2>1, <2>3
    <3>1. CASE h <= Len(o)
      BY <1>1, <1>2, <2>1, <2>3, <3>0, <3>1
    <3>2. CASE h = Len(o) + 1
      <4>1. u[h] = text[i]
        BY <1>1, <2>1, <2>3, <3>2
      <4>2. i \in i .. n /\ Len(o) + i - i + 1 = h
        BY <1>1, <3>2 DEF n
      <4> QED BY <1>2, <4>1, <4>2
    <3>3. CASE h > Len(o) + 1
      <4> DEFINE k == h - Len(o) + i - 1
      <4>1. /\ k \in i + 1 .. n /\ k \in i .. n /\ Len(o) + k - i + 1 = h
            /\ Len(p) + k - (i + 1) + 1 = h
        BY <1>1, <2>1, <3>0, <3>3
      <4> HIDE DEF k
      <4> QED BY <1>2, <2>3, <4>1, ZenonT(30)
    <3> QED BY <1>1, <3>0, <3>1, <3>2, <3>3
  <2>5. Len(u) = Len(t)
    BY <1>1, <1>2, <2>1, <2>3
  <2>6. u = t
    BY <1>2, <2>3, <2>4, <2>5, SequencesEqual
  <2> QED BY <2>6 DEF u, p
<1>4. ASSUME OccursAt(text, value, i)
      PROVE  OccursAt(t, value, Len(o) + 1)
  <2>1. i + m <= n + 1 /\ \A k \in 1 .. m : text[i + k - 1].c = value[k]
    BY <1>4 DEF OccursAt
  <2>2. ASSUME NEW k \in 1 .. m
        PROVE  t[Len(o) + 1 + k - 1].c = value[k]
    <3>1. i + k - 1 \in i .. n /\ Len(o) + (i + k - 1) - i + 1 = Len(o) + 1 + k - 1
      BY <1>1, <2>1
    <3> HIDE DEF t
    <3> QED BY <1>2, <2>1, <3>1
  <2>3. Len(o) + 1 + m <= Len(t) + 1
    BY <1>1, <1>2, <2>1
  <2> HIDE DEF t
  <2> QED BY <2>2, <2>3 DEF OccursAt
<1>5. ASSUME OccursAt(text, value, i)
      PROVE  Resumed(o \o Mark, text, i + m) = Splice(t, Len(o) + 1, m)
  <2> DEFINE p == o \o Mark
             u == Resumed(p, text, i + m)
             w == Splice(t, Len(o) + 1, m)
             l == Len(Mark)
  <2>0. Mark \in Seq(Units) /\ l \in Nat \ {0}
    BY MarkShape
  <2>1. /\ p \in Seq(Units) /\ Len(p) = Len(o) + l
        /\ \A k \in 1 .. Len(o) : p[k] = o[k]
        /\ \A k \in Len(o) + 1 .. Len(o) + l : p[k] = Mark[k - Len(o)]
    BY <2>0, ConcatShape
  <2>2. i + m <= n + 1 /\ i + m \in 1 .. n + 1
    BY <1>1, <1>5 DEF OccursAt
  <2> HIDE DEF p
  <2>3. /\ u \in Seq(Units) /\ Len(u) = Len(p) + n - (i + m) + 1
        /\ \A k \in 1 .. Len(p) : u[k] = p[k]
        /\ \A k \in i + m .. n : u[Len(p) + k - (i + m) + 1] = text[k]
    BY <2>1, <2>2, ResumedShape
  <2> HIDE DEF u, t
  <2>4. Spliced(w, t, Len(o) + 1, m)
    <3>1. Len(o) + 1 \in Nat \ {0} /\ Len(o) + 1 + m <= Len(t) + 1
      BY <1>1, <1>2, <2>2
    <3> QED BY <1>1, <1>2, <3>1, SpliceShape
  <2>5. /\ w \in Seq(Units) /\ Len(w) = Len(t) - m + l
        /\ \A k \in 1 .. Len(o) : w[k] = t[k]
        /\ \A k \in Len(o) + 1 .. Len(o) + l : w[k] = Mark[k - Len(o)]
        /\ \A k \in Len(o) + l + 1 .. Len(t) - m + l : w[k] = t[k - l + m]
    <3> HIDE DEF w
    <3>1. Len(o) + 1 - 1 = Len(o) /\ Len(o) + 1 + l - 1 = Len(o) + l
          /\ Len(o) + 1 + l = Len(o) + l + 1
          /\ \A k \in Len(o) + 1 .. Len(o) + l : k - (Len(o) + 1) + 1 = k - Len(o)
      BY <1>1, <2>0
    <3> QED BY <2>4, <3>1 DEF Spliced
  <2> HIDE DEF w, l
  <2>6. Len(u) = Len(w)
    BY <1>1, <1>2, <2>0, <2>1, <2>3, <2>5
  <2>7. ASSUME NEW h \in 1 .. Len(u)
        PROVE  u[h] = w[h]
    <3> HIDE DEF n, m
    <3>0. h \in Nat /\ h >= 1 /\ h <= Len(o) + l + n - (i + m) + 1
      BY <1>1, <2>0, <2>1, <2>3
    <3>1. CASE h <= Len(o)
      <4>0. h \in 1 .. Len(p) /\ h \in 1 .. Len(o)
        BY <1>1, <2>0, <2>1, <3>0, <3>1
      <4>1. u[h] = p[h] /\ p[h] = o[h]
        BY <2>1, <2>3, <4>0
      <4>2. w[h] = t[h] /\ t[h] = o[h]
        BY <1>1, <1>2, <2>5, <3>0, <3>1
      <4> QED BY <4>1, <4>2
    <3>2. CASE h \in Len(o) + 1 .. Len(o) + l
      <4>1. u[h] = p[h]
        BY <1>1, <2>0, <2>1, <2>3, <3>0, <3>2
      <4> QED BY <2>1, <2>5, <3>2, <4>1
    <3>3. CASE h > Len(o) + l
      <4> DEFINE k == h - (Len(o) + l) + (i + m) - 1
      <4>1. /\ k \in i + m .. n /\ k \in i .. n
            /\ Len(p) + k - (i + m) + 1 = h
            /\ Len(o) + k - i + 1 = h - l + m
            /\ h \in Len(o) + l + 1 .. Len(t) - m + l
        <5>1. i \in Nat /\ i >= 1 /\ Len(p) = Len(o) + l /\ Len(t) = Len(o) + n - i + 1
          BY <1>1, <1>2, <2>1 DEF n
        <5> QED BY <1>1, <2>0, <3>0, <3>3, <5>1
      <4> HIDE DEF k
      <4>2. u[h] = text[k]
        BY <2>3, <4>1
      <4>3. w[h] = t[h - l + m]
        BY <2>5, <4>1
      <4>4. t[h - l + m] = text[k]
        BY <1>2, <4>1
      <4> QED BY <4>2, <4>3, <4>4
    <3> QED BY <1>1, <2>0, <3>0, <3>1, <3>2, <3>3
  <2>8. u = w
    BY <2>3, <2>5, <2>6, <2>7, SequencesEqual
  <2> QED BY <2>8 DEF u, p, w
<1> HIDE DEF t
<1> QED BY <1>3, <1>4, <1>5 DEF t

(* A set of texts that is closed under replacements of the value is closed *)
(* under ReplaceValue.                                                     *)
LEMMA ReplacePreserves ==
  ASSUME NEW value \in Seq(STRING), value # <<>>, NEW S, S \subseteq Seq(Units),
         NEW text \in S,
         \A t \in S : \A j \in 1 .. Len(t) : OccursAt(t, value, j) =>
           Splice(t, j, Len(value)) \in S
  PROVE  ReplaceValue(text, value) \in S
<1> DEFINE n == Len(text)
           J == {p \in Seq(Units) \X (1 .. n + 1) : Resumed(p[1], text, p[2]) \in S}
<1>1. text \in Seq(Units) /\ n \in Nat /\ Len(value) \in Nat \ {0} /\ Mark \in Seq(Units)
  BY MarkShape
<1>2. \A o \in Seq(Units), i \in 1 .. n + 1 : <<o, i>> \in J <=> Resumed(o, text, i) \in S
  OBVIOUS
<1>3. <<<<>>, 1>> \in J
  <2>1. <<>> \in Seq(Units) /\ 1 \in 1 .. n + 1 /\ SubSeq(text, 1, n) = text
    BY <1>1
  <2>2. Resumed(<<>>, text, 1) = text
    BY <1>1, <2>1, ConcatEmpty DEF Resumed
  <2> HIDE DEF J, n
  <2> QED BY <1>2, <2>1, <2>2
<1>4. ASSUME NEW o \in Seq(Units), NEW i \in 1 .. n, <<o, i>> \in J
      PROVE  IF OccursAt(text, value, i) THEN <<o \o Mark, i + Len(value)>> \in J
             ELSE <<o \o <<text[i]>>, i + 1>> \in J
  <2>1. Resumed(o, text, i) \in S
    BY <1>4
  <2>2. /\ Resumed(o \o <<text[i]>>, text, i + 1) = Resumed(o, text, i)
        /\ OccursAt(text, value, i) =>
             /\ OccursAt(Resumed(o, text, i), value, Len(o) + 1)
             /\ Resumed(o \o Mark, text, i + Len(value)) =
                  Splice(Resumed(o, text, i), Len(o) + 1, Len(value))
    BY <1>1, ScanStep, Zenon
  <2> HIDE DEF J
  <2>3. CASE OccursAt(text, value, i)
    <3>1. i + Len(value) \in 1 .. n + 1 /\ Len(o) + 1 \in 1 .. Len(Resumed(o, text, i))
      <4>1. Len(Resumed(o, text, i)) = Len(o) + n - i + 1 /\ Len(o) \in Nat
        <5>1. i \in 1 .. Len(text) + 1
          BY <1>1
        <5> QED BY <1>1, <5>1, ResumedShape
      <4>2. i + Len(value) <= n + 1
        BY <2>3 DEF OccursAt
      <4> QED BY <1>1, <4>1, <4>2
    <3>2. o \o Mark \in Seq(Units)
      BY <1>1, ConcatShape, Zenon
    <3>3. Resumed(o \o Mark, text, i + Len(value)) \in S
      BY <2>1, <2>2, <2>3, <3>1
    <3>4. <<o \o Mark, i + Len(value)>> \in J
      BY <1>2, <3>1, <3>2, <3>3, Zenon
    <3> QED BY <2>3, <3>4
  <2>4. CASE ~OccursAt(text, value, i)
    <3>1. <<text[i]>> \in Seq(Units) /\ i + 1 \in 1 .. n + 1
      BY <1>1
    <3>2. o \o <<text[i]>> \in Seq(Units)
      BY <3>1, ConcatShape, Zenon
    <3>3. Resumed(o \o <<text[i]>>, text, i + 1) \in S
      BY <2>1, <2>2, Zenon
    <3>4. <<o \o <<text[i]>>, i + 1>> \in J
      BY <1>2, <3>1, <3>2, <3>3, Zenon
    <3> QED BY <2>4, <3>4
  <2> QED BY <2>3, <2>4
<1>5. /\ ReplaceValue(text, value) \in Seq(Units)
      /\ <<ReplaceValue(text, value), n + 1>> \in J
  <2> HIDE DEF J
  <2> QED BY <1>1, <1>3, <1>4, ReplaceInduction
<1>6. n + 1 \in 1 .. n + 1 /\ SubSeq(text, n + 1, n) = <<>>
  BY <1>1
<1>7. Resumed(ReplaceValue(text, value), text, n + 1) = ReplaceValue(text, value)
  <2> DEFINE r == ReplaceValue(text, value)
  <2>1. r \in Seq(Units)
    BY <1>5
  <2> HIDE DEF r
  <2>2. r \o <<>> = r
    BY <2>1, ConcatEmpty
  <2>3. Resumed(r, text, n + 1) = r
    BY <1>6, <2>2, Zenon DEF Resumed
  <2> QED BY <2>3 DEF r
<1> HIDE DEF J
<1>8. Resumed(ReplaceValue(text, value), text, n + 1) \in S
  BY <1>2, <1>5, <1>6, Zenon
<1> QED BY <1>7, <1>8, Zenon

-----------------------------------------------------------------------------
(* What is kept.                                                           *)

(* A position is a number.                                                 *)
LEMMA UnitAt == ASSUME NEW t \in Seq(Units), NEW i \in 1 .. Len(t) PROVE t[i].at \in Nat
<1>1. t[i] \in Units
  OBVIOUS
<1> QED BY <1>1 DEF Units

(* A position is kept if a unit has it and it is not 0.                    *)
LEMMA KeptMember ==
  ASSUME NEW t, NEW x
  PROVE  x \in KeptIn(t) <=> x # 0 /\ \E i \in 1 .. Len(t) : t[i].at = x
BY DEF KeptIn

(* A replacement keeps what is not among the replaced units.               *)
LEMMA SpliceKept ==
  ASSUME NEW raw \in Seq(STRING), NEW lo \in Nat \ {0}, NEW t, Good(t, raw, lo),
         NEW j \in Nat \ {0}, NEW m \in Nat \ {0}, j + m <= Len(t) + 1
  PROVE  KeptIn(Splice(t, j, m)) = KeptIn(t) \ {t[k].at : k \in j .. j + m - 1}
<1> DEFINE u == Splice(t, j, m)
           l == Len(Mark)
           R == {t[k].at : k \in j .. j + m - 1}
<1>1. t \in Seq(Units) /\ Len(t) \in Nat /\ l \in Nat \ {0}
  BY MarkShape DEF Good
<1>2. Spliced(u, t, j, m)
  BY <1>1, SpliceShape
<1>3. \A i \in 1 .. Len(u) :
        \/ i \in j .. j + l - 1 /\ u[i].at = 0 /\ u[i].c \in ToSet(Placeholder)
        \/ /\ i \notin j .. j + l - 1
           /\ Before(i, j, m) \in (1 .. j - 1) \cup (j + m .. Len(t))
           /\ u[i] = t[Before(i, j, m)]
  BY <1>1, SpliceUnits
<1>4. \A i, k \in 1 .. Len(t) : i < k /\ t[i].at # 0 /\ t[k].at # 0 => t[i].at < t[k].at
  BY DEF Good
<1>5. \A i \in 1 .. Len(t) : t[i].at \in Nat
  BY <1>1, UnitAt
<1> HIDE DEF u, l
<1>6. ASSUME NEW x \in KeptIn(u)
      PROVE  x \in KeptIn(t) \ R
  <2>1. PICK i \in 1 .. Len(u) : u[i].at = x /\ x # 0
    BY <1>6, KeptMember
  <2> DEFINE p == Before(i, j, m)
  <2>2. p \in (1 .. j - 1) \cup (j + m .. Len(t)) /\ t[p].at = x
    BY <1>3, <2>1
  <2> HIDE DEF p
  <2>3. p \in 1 .. Len(t)
    BY <1>1, <2>2
  <2>4. x \in KeptIn(t)
    BY <2>1, <2>2, <2>3, KeptMember
  <2>5. ASSUME NEW k \in j .. j + m - 1, t[k].at = x
        PROVE  FALSE
    <3>1. k \in 1 .. Len(t) /\ (k < p \/ p < k)
      BY <1>1, <2>2, <2>5
    <3>2. t[k].at < t[p].at \/ t[p].at < t[k].at
      BY <1>4, <2>1, <2>2, <2>3, <2>5, <3>1
    <3>3. x \in Nat
      BY <1>5, <2>2, <2>3
    <3> QED BY <2>2, <2>5, <3>2, <3>3
  <2> QED BY <2>4, <2>5
<1>7. ASSUME NEW x \in KeptIn(t) \ R
      PROVE  x \in KeptIn(u)
  <2>1. PICK p \in 1 .. Len(t) : t[p].at = x /\ x # 0
    BY <1>7, KeptMember
  <2>2. p < j \/ p >= j + m
    <3>1. p \notin j .. j + m - 1
      BY <1>7, <2>1
    <3> QED BY <1>1, <2>1, <3>1
  <2>3. Len(u) = Len(t) - m + l
    BY <1>2 DEF Spliced, l
  <2>4. CASE p < j
    <3>1. u[p] = t[p]
      BY <1>1, <1>2, <2>4 DEF Spliced
    <3>2. p \in 1 .. Len(u)
      BY <1>1, <2>3, <2>4
    <3> QED BY <2>1, <3>1, <3>2, KeptMember
  <2>5. CASE p >= j + m
    <3> DEFINE i == p + l - m
    <3>1. i \in j + l .. Len(t) - m + l /\ i - l + m = p /\ i \in 1 .. Len(u)
      BY <1>1, <2>3, <2>5
    <3> HIDE DEF i
    <3>2. u[i] = t[p]
      BY <1>2, <3>1 DEF Spliced, l
    <3> QED BY <2>1, <3>1, <3>2, KeptMember
  <2> QED BY <2>2, <2>4, <2>5
<1> QED BY <1>6, <1>7 DEF u

(* What is appended is kept, and nothing else is added.                    *)
LEMMA KeptConcat ==
  ASSUME NEW a \in Seq(Units), NEW b \in Seq(Units)
  PROVE  KeptIn(a \o b) = KeptIn(a) \cup KeptIn(b)
<1> DEFINE d == a \o b
<1>1. /\ d \in Seq(Units) /\ Len(d) = Len(a) + Len(b)
      /\ \A i \in 1 .. Len(a) : d[i] = a[i]
      /\ \A i \in Len(a) + 1 .. Len(a) + Len(b) : d[i] = b[i - Len(a)]
  OBVIOUS
<1>2. Len(a) \in Nat /\ Len(b) \in Nat
  OBVIOUS
<1> HIDE DEF d
<1>3. ASSUME NEW x \in KeptIn(d)
      PROVE  x \in KeptIn(a) \cup KeptIn(b)
  <2>1. PICK i \in 1 .. Len(d) : d[i].at = x /\ x # 0
    BY <1>3, KeptMember
  <2>2. CASE i <= Len(a)
    <3>1. i \in 1 .. Len(a) /\ a[i].at = x
      BY <1>1, <1>2, <2>1, <2>2
    <3> QED BY <2>1, <3>1, KeptMember
  <2>3. CASE i > Len(a)
    <3>1. i - Len(a) \in 1 .. Len(b) /\ b[i - Len(a)].at = x
      BY <1>1, <1>2, <2>1, <2>3
    <3> QED BY <2>1, <3>1, KeptMember
  <2> QED BY <1>1, <1>2, <2>2, <2>3
<1>4. ASSUME NEW x \in KeptIn(a)
      PROVE  x \in KeptIn(d)
  <2>1. PICK i \in 1 .. Len(a) : a[i].at = x /\ x # 0
    BY <1>4, KeptMember
  <2>2. i \in 1 .. Len(d) /\ d[i].at = x
    BY <1>1, <1>2, <2>1
  <2> QED BY <2>1, <2>2, KeptMember
<1>5. ASSUME NEW x \in KeptIn(b)
      PROVE  x \in KeptIn(d)
  <2>1. PICK i \in 1 .. Len(b) : b[i].at = x /\ x # 0
    BY <1>5, KeptMember
  <2>2. i + Len(a) \in Len(a) + 1 .. Len(a) + Len(b) /\ i + Len(a) - Len(a) = i
    BY <1>2
  <2>3. i + Len(a) \in 1 .. Len(d) /\ d[i + Len(a)].at = x
    <3>1. i + Len(a) \in 1 .. Len(d)
      BY <1>1, <1>2
    <3>2. d[i + Len(a)] = b[i]
      <4> DEFINE e == i + Len(a)
      <4>1. e \in Len(a) + 1 .. Len(a) + Len(b) /\ e - Len(a) = i
        BY <2>2
      <4> HIDE DEF e
      <4>2. d[e] = b[i]
        BY <1>1, <4>1
      <4> QED BY <4>2 DEF e
    <3> QED BY <2>1, <3>1, <3>2
  <2> QED BY <2>1, <2>3, KeptMember
<1> QED BY <1>3, <1>4, <1>5 DEF d

(* A placeholder has no position.                                          *)
LEMMA KeptMark == KeptIn(Mark) = {}
BY MarkShape, KeptMember

(* Of every occurrence of the value, ReplaceValue removes a unit.          *)
LEMMA ReplaceHits ==
  ASSUME NEW raw \in Seq(STRING), NEW lo \in Nat \ {0},
         NEW text, Good(text, raw, lo), NEW value \in Seq(STRING), value # <<>>,
         NEW k \in 1 .. Len(text), OccursAt(text, value, k),
         \A h \in k .. k + Len(value) - 1 : text[h].at # 0
  PROVE  \E h \in k .. k + Len(value) - 1 :
            text[h].at \notin KeptIn(ReplaceValue(text, value))
<1> DEFINE n == Len(text)
           m == Len(value)
           Behind(o, i) == \A x \in KeptIn(o) : \E h \in 1 .. i - 1 : text[h].at = x
           Hit(o, i) == \E h \in k .. k + m - 1 : h < i /\ text[h].at \notin KeptIn(o)
           J == {p \in Seq(Units) \X (1 .. n + 1) :
                   Behind(p[1], p[2]) /\ (k < p[2] => Hit(p[1], p[2]))}
<1>1. /\ text \in Seq(Units) /\ n \in Nat /\ m \in Nat \ {0} /\ Mark \in Seq(Units)
      /\ k + m <= n + 1
  BY MarkShape DEF Good, OccursAt
<1>2. \A o \in Seq(Units), i \in 1 .. n + 1 :
        <<o, i>> \in J <=> Behind(o, i) /\ (k < i => Hit(o, i))
  OBVIOUS
<1>3. \A i, h \in 1 .. n : i # h /\ text[i].at # 0 => text[i].at # text[h].at
  <2> TAKE i, h \in 1 .. n
  <2> SUFFICES ASSUME i # h, text[i].at # 0, text[h].at = text[i].at PROVE FALSE
    OBVIOUS
  <2>1. i < h \/ h < i
    BY <1>1
  <2>2. text[i].at < text[h].at \/ text[h].at < text[i].at
    BY <2>1 DEF Good
  <2>3. text[i].at \in Nat
    BY <1>1, UnitAt
  <2> QED BY <2>2, <2>3
<1>4. <<<<>>, 1>> \in J
  <2>1. Behind(<<>>, 1) /\ ~(k < 1)
    BY <1>1 DEF KeptIn
  <2>2. <<>> \in Seq(Units) /\ 1 \in 1 .. n + 1
    BY <1>1
  <2> HIDE DEF J, Behind, Hit
  <2> QED BY <1>2, <2>1, <2>2
<1>5. ASSUME NEW o \in Seq(Units), NEW i \in 1 .. n, <<o, i>> \in J
      PROVE  IF OccursAt(text, value, i) THEN <<o \o Mark, i + m>> \in J
             ELSE <<o \o <<text[i]>>, i + 1>> \in J
  <2>0. Behind(o, i) /\ (k < i => Hit(o, i))
    <3>1. i \in 1 .. n + 1
      BY <1>1
    <3> HIDE DEF J, Behind, Hit
    <3> QED BY <1>2, <1>5, <3>1
  <2>1. CASE OccursAt(text, value, i)
    <3> DEFINE q == o \o Mark
    <3>1. KeptIn(q) = KeptIn(o)
      BY <1>1, KeptConcat, KeptMark
    <3>2. q \in Seq(Units)
      BY <1>1, ConcatShape, Zenon
    <3>3. i + m \in 1 .. n + 1
      BY <1>1, <2>1 DEF OccursAt
    <3> HIDE DEF q
    <3>4. Behind(q, i + m)
      <4>1. \A h \in 1 .. i - 1 : h \in 1 .. i + m - 1
        BY <1>1
      <4> QED BY <2>0, <3>1, <4>1
    <3>5. ASSUME k < i + m
          PROVE  Hit(q, i + m)
      <4>1. CASE k < i
        <5>1. PICK h \in k .. k + m - 1 : h < i /\ text[h].at \notin KeptIn(o)
          BY <2>0, <4>1
        <5>2. h < i + m
          BY <1>1, <5>1
        <5> QED BY <3>1, <5>1, <5>2
      <4>2. CASE k >= i
        <5>1. k \in k .. k + m - 1 /\ text[k].at # 0
          BY <1>1, SMTT(30)
        <5>2. text[k].at \notin KeptIn(o)
          <6> SUFFICES ASSUME NEW h \in 1 .. i - 1, text[h].at = text[k].at PROVE FALSE
            BY <2>0
          <6>1. h \in 1 .. n /\ h # k
            BY <1>1, <4>2
          <6> QED BY <1>3, <5>1, <6>1
        <5> QED BY <3>1, <3>5, <5>1, <5>2
      <4> QED BY <1>1, <4>1, <4>2
    <3>6. <<q, i + m>> \in J
      <4> HIDE DEF J, Behind, Hit
      <4> QED BY <1>2, <3>2, <3>3, <3>4, <3>5
    <3> QED BY <2>1, <3>6 DEF q
  <2>2. CASE ~OccursAt(text, value, i)
    <3> DEFINE y == <<text[i]>>
               q == o \o y
    <3>0. y \in Seq(Units) /\ Len(y) = 1 /\ y[1] = text[i]
      BY <1>1
    <3>1. KeptIn(q) = KeptIn(o) \cup KeptIn(y)
      <4> HIDE DEF y
      <4> QED BY <3>0, KeptConcat
    <3>2. q \in Seq(Units)
      BY <3>0, ConcatShape, Zenon
    <3>3. i + 1 \in 1 .. n + 1
      BY <1>1
    <3>4. \A x : x \in KeptIn(y) <=> x # 0 /\ x = text[i].at
      <4> HIDE DEF y, q, J, Hit, Behind
      <4>1. 1 .. Len(y) = {1}
        BY <3>0
      <4>2. KeptIn(y) = {y[h].at : h \in {1}} \ {0}
        BY <4>1 DEF KeptIn
      <4> QED BY <3>0, <4>2
    <3> HIDE DEF q, y
    <3>5. Behind(q, i + 1)
      <4> SUFFICES ASSUME NEW x \in KeptIn(q)
                   PROVE  \E h \in 1 .. i + 1 - 1 : text[h].at = x
        OBVIOUS
      <4>1. CASE x \in KeptIn(o)
        <5>1. PICK h \in 1 .. i - 1 : text[h].at = x
          BY <2>0, <4>1
        <5>2. h \in 1 .. i + 1 - 1
          BY <1>1
        <5> QED BY <5>1, <5>2
      <4>2. CASE x \in KeptIn(y)
        <5>1. i \in 1 .. i + 1 - 1 /\ text[i].at = x
          BY <1>1, <3>4, <4>2
        <5> QED BY <5>1
      <4> QED BY <3>1, <4>1, <4>2
    <3>6. ASSUME k < i + 1
          PROVE  Hit(q, i + 1)
      <4>1. k # i
        BY <2>2
      <4>2. k < i
        BY <1>1, <3>6, <4>1
      <4>3. PICK h \in k .. k + m - 1 : h < i /\ text[h].at \notin KeptIn(o)
        BY <2>0, <4>2
      <4>4. h \in 1 .. n /\ h # i /\ h < i + 1 /\ text[h].at # 0
        BY <1>1, <4>3
      <4>5. text[h].at \notin KeptIn(y)
        BY <1>3, <3>4, <4>4
      <4> QED BY <3>1, <4>3, <4>4, <4>5
    <3>7. <<q, i + 1>> \in J
      <4> HIDE DEF J, Behind, Hit
      <4> QED BY <1>2, <3>2, <3>3, <3>5, <3>6
    <3> QED BY <2>2, <3>7 DEF q, y
  <2> QED BY <2>1, <2>2
<1>6. /\ ReplaceValue(text, value) \in Seq(Units)
      /\ <<ReplaceValue(text, value), n + 1>> \in J
  <2> HIDE DEF J
  <2> QED BY <1>1, <1>4, <1>5, ReplaceInduction
<1>7. n + 1 \in 1 .. n + 1 /\ k < n + 1
  BY <1>1
<1>8. Hit(ReplaceValue(text, value), n + 1)
  <2> HIDE DEF J, Behind, Hit
  <2> QED BY <1>2, <1>6, <1>7
<1> QED BY <1>8

(* ReplaceValue keeps a text good, and adds nothing of the output.         *)
LEMMA ReplaceGood ==
  ASSUME NEW raw \in Seq(STRING), NEW lo \in Nat \ {0},
         NEW text, Good(text, raw, lo), NEW value \in Seq(STRING), value # <<>>
  PROVE  /\ Good(ReplaceValue(text, value), raw, lo)
         /\ KeptIn(ReplaceValue(text, value)) \subseteq KeptIn(text)
<1> DEFINE S == {t \in Seq(Units) : Good(t, raw, lo) /\ KeptIn(t) \subseteq KeptIn(text)}
<1>1. text \in S /\ S \subseteq Seq(Units)
  BY DEF Good
<1>2. ASSUME NEW t \in S, NEW j \in 1 .. Len(t), OccursAt(t, value, j)
      PROVE  Splice(t, j, Len(value)) \in S
  <2>1. /\ j \in Nat \ {0} /\ Len(value) \in Nat \ {0}
        /\ j + Len(value) <= Len(t) + 1
    BY <1>2 DEF OccursAt
  <2>2. Good(t, raw, lo) /\ KeptIn(t) \subseteq KeptIn(text)
    OBVIOUS
  <2>3. Good(Splice(t, j, Len(value)), raw, lo)
    BY <2>1, <2>2, SpliceGood
  <2>4. KeptIn(Splice(t, j, Len(value))) \subseteq KeptIn(t)
    BY <2>1, <2>2, SpliceKept
  <2> QED BY <2>2, <2>3, <2>4 DEF Good
<1>3. ReplaceValue(text, value) \in S
  <2> HIDE DEF S
  <2> QED BY <1>1, <1>2, ReplacePreserves
<1> QED BY <1>3

(* The span p of the value v.                                              *)
IsSpan(p, raw, v) ==
  /\ p[1] \in 1 .. Len(raw) /\ p[2] = p[1] + Len(v) - 1
  /\ p[1] + Len(v) <= Len(raw) + 1
  /\ \A k \in 1 .. Len(v) : raw[p[1] + k - 1] = v[k]

(* A span is a place where a value is, and every such place is a span.     *)
LEMMA SpanMember ==
  ASSUME NEW raw \in Seq(STRING), NEW values, values \subseteq Seq(STRING)
  PROVE  /\ \A p \in SpansOf(raw, values) : \E v \in values :
              p \in SpansOf(raw, {v}) /\ IsSpan(p, raw, v)
         /\ \A v \in values, a \in 1 .. Len(raw) :
              /\ a + Len(v) <= Len(raw) + 1
              /\ \A k \in 1 .. Len(v) : raw[a + k - 1] = v[k]
              => <<a, a + Len(v) - 1>> \in SpansOf(raw, values)
<1> DEFINE n == Len(raw)
           Occurs(v, a) == a + Len(v) <= n + 1 /\ \A k \in 1 .. Len(v) : raw[a + k - 1] = v[k]
<1>1. ASSUME NEW v \in Seq(STRING), NEW a \in 1 .. n
      PROVE  OccursAt(Written(raw), v, a) <=> Occurs(v, a)
  <2>1. Len(Written(raw)) = n /\ \A i \in 1 .. n : Written(raw)[i].c = raw[i]
    <3>1. /\ Written(raw) = [i \in 1 .. n |-> [c |-> raw[i], at |-> i]]
          /\ n \in Nat
      BY DEF Written, Unit
    <3>2. Len([i \in 1 .. n |-> [c |-> raw[i], at |-> i]]) = n
      <4> HIDE DEF n
      <4> QED BY <3>1
    <3>3. \A i \in 1 .. n : [k \in 1 .. n |-> [c |-> raw[k], at |-> k]][i].c = raw[i]
      <4> HIDE DEF n
      <4> QED OBVIOUS
    <3> QED BY <3>1, <3>2, <3>3
  <2>2. \A k \in 1 .. Len(v) : a + Len(v) <= n + 1 => a + k - 1 \in 1 .. n
    OBVIOUS
  <2> QED BY <2>1, <2>2 DEF OccursAt
<1>2. \A V : SpansOf(raw, V) =
        {<<q[1], q[1] + Len(q[2]) - 1>> :
           q \in {r \in (1 .. n) \X V : OccursAt(Written(raw), r[2], r[1])}}
  BY DEF SpansOf
<1>3. \A V, v, a : v \in V /\ a \in 1 .. n /\ OccursAt(Written(raw), v, a) =>
        <<a, a + Len(v) - 1>> \in SpansOf(raw, V)
  <2> TAKE V, v, a
  <2> SUFFICES ASSUME v \in V, a \in 1 .. n, OccursAt(Written(raw), v, a)
               PROVE  <<a, a + Len(v) - 1>> \in SpansOf(raw, V)
    OBVIOUS
  <2> DEFINE r == <<a, v>>
  <2>1. r \in {q \in (1 .. n) \X V : OccursAt(Written(raw), q[2], q[1])}
    OBVIOUS
  <2>2. r[1] = a /\ r[2] = v
    OBVIOUS
  <2> HIDE DEF r, n
  <2> QED BY <1>2, <2>1, <2>2, SMTT(30)
<1>4. ASSUME NEW p \in SpansOf(raw, values)
      PROVE  \E v \in values : p \in SpansOf(raw, {v}) /\ IsSpan(p, raw, v)
  <2>1. PICK q \in (1 .. n) \X values :
          OccursAt(Written(raw), q[2], q[1]) /\ p = <<q[1], q[1] + Len(q[2]) - 1>>
    BY <1>2, <1>4
  <2> DEFINE v == q[2]
             a == q[1]
  <2>2. v \in values /\ a \in 1 .. n /\ p[1] = a /\ p[2] = a + Len(v) - 1
    BY <2>1
  <2>3. Occurs(v, a) /\ p \in SpansOf(raw, {v})
    <3>1. v \in Seq(STRING) /\ v \in {v}
      BY <2>2
    <3>2. OccursAt(Written(raw), v, a) /\ p = <<a, a + Len(v) - 1>>
      BY <2>1
    <3> HIDE DEF v, a, n, Occurs
    <3> QED BY <1>1, <1>3, <2>2, <3>1, <3>2
  <2> HIDE DEF v, a
  <2> QED BY <2>2, <2>3 DEF IsSpan
<1>5. ASSUME NEW v \in values, NEW a \in 1 .. n, Occurs(v, a)
      PROVE  <<a, a + Len(v) - 1>> \in SpansOf(raw, values)
  <2>1. v \in Seq(STRING)
    OBVIOUS
  <2> HIDE DEF Occurs, n
  <2> QED BY <1>1, <1>3, <1>5, <2>1
<1> QED BY <1>4, <1>5

(* A span of one value.                                                    *)
LEMMA SpanOfValue ==
  ASSUME NEW raw \in Seq(STRING), NEW v \in Seq(STRING), v # <<>>,
         NEW p \in SpansOf(raw, {v})
  PROVE  /\ Len(v) \in Nat \ {0} /\ p[1] \in 1 .. Len(raw) /\ p[1] \in Nat \ {0}
         /\ p[2] = p[1] + Len(v) - 1 /\ p[2] \in Nat /\ p[2] <= Len(raw)
         /\ \A k \in 1 .. Len(v) : raw[p[1] + k - 1] = v[k]
<1> DEFINE V == {v}
<1>1. V \subseteq Seq(STRING) /\ p \in SpansOf(raw, V)
  OBVIOUS
<1>2. PICK w \in V : IsSpan(p, raw, w)
  <2> HIDE DEF V
  <2> QED BY <1>1, SpanMember, Zenon
<1>3. w = v /\ Len(v) \in Nat \ {0} /\ Len(raw) \in Nat
  BY <1>2
<1> QED BY <1>2, <1>3 DEF IsSpan

(* Where a span is kept as a whole, the text has the value.                *)
LEMMA KeptSpanOccurs ==
  ASSUME NEW raw \in Seq(STRING), NEW lo \in Nat \ {0}, NEW t, Good(t, raw, lo),
         NEW v \in Seq(STRING), v # <<>>, NEW p \in SpansOf(raw, {v}),
         p[1] .. p[2] \subseteq KeptIn(t)
  PROVE  \E j \in 1 .. Len(t) :
           OccursAt(t, v, j) /\ \A h \in j .. j + Len(v) - 1 : t[h].at = p[1] + h - j
<1> DEFINE m == Len(v)
           a == p[1]
<1>1. /\ m \in Nat \ {0} /\ a \in 1 .. Len(raw) /\ p[2] = a + m - 1 /\ Len(raw) \in Nat
      /\ \A k \in 1 .. m : raw[a + k - 1] = v[k]
  BY SpanOfValue
<1>2. t \in Seq(Units) /\ Len(t) \in Nat
  BY DEF Good
<1> HIDE DEF a, m
<1>3. PICK j \in 1 .. Len(t) : t[j].at = a
  <2>1. a \in p[1] .. p[2]
    BY <1>1 DEF a
  <2> QED BY <2>1, KeptMember
<1> DEFINE D == {k \in Nat : j + k \in 1 .. Len(t) /\ t[j + k].at = a + k}
<1>4. 0 \in D
  BY <1>1, <1>2, <1>3
<1>5. ASSUME NEW k \in 0 .. (m - 1) - 1, k \in D
      PROVE  k + 1 \in D
  <2>1. a + k + 1 \in p[1] .. p[2] /\ a + k + 1 # 0 /\ a + k # 0
    <3>1. a \in Nat \ {0} /\ p[2] = a + m - 1 /\ p[1] = a
      BY <1>1 DEF a
    <3> QED BY <1>1, <3>1
  <2>2. PICK h \in 1 .. Len(t) : t[h].at = a + k + 1
    BY <2>1, KeptMember
  <2>3. j + k \in 1 .. Len(t) /\ t[j + k].at = a + k
    BY <1>5
  <2>4. j + k < h
    <3>1. ~(h < j + k) /\ h # j + k
      <4>1. h < j + k => t[h].at < t[j + k].at
        BY <2>1, <2>2, <2>3 DEF Good
      <4> QED BY <1>1, <2>2, <2>3, <4>1
    <3> QED BY <1>2, <2>3, <3>1
  <2>5. h = (j + k) + 1
    BY <2>1, <2>2, <2>3, <2>4 DEF Good
  <2> QED BY <1>1, <1>2, <2>2, <2>5
<1>6. \A k \in 0 .. m - 1 : k \in D
  <2>1. m - 1 \in Nat
    BY <1>1
  <2> HIDE DEF D
  <2>2. \A k \in 0 .. (m - 1) - 1 : k \in D => k + 1 \in D
    BY <1>5
  <2> QED BY <1>4, <2>1, <2>2, UpToInduction, Zenon
<1>7. j + m <= Len(t) + 1
  <2>1. m - 1 \in 0 .. m - 1
    BY <1>1
  <2>2. j + (m - 1) \in 1 .. Len(t)
    BY <1>6, <2>1
  <2> QED BY <1>1, <1>2, <2>2
<1>8. ASSUME NEW h \in j .. j + m - 1
      PROVE  t[h].at = a + h - j
  <2>1. h - j \in 0 .. m - 1 /\ j + (h - j) = h /\ a + (h - j) = a + h - j
    BY <1>1, <1>2
  <2> QED BY <1>6, <2>1
<1>9. ASSUME NEW k \in 1 .. m
      PROVE  t[j + k - 1].c = v[k]
  <2> DEFINE h == j + k - 1
  <2>1. h \in j .. j + m - 1 /\ h \in 1 .. Len(t) /\ a + h - j = a + k - 1
    BY <1>1, <1>2, <1>7
  <2> HIDE DEF h
  <2>2. t[h].at = a + k - 1 /\ t[h].at # 0
    <3>1. t[h].at = a + h - j
      BY <1>8, <2>1
    <3>2. a + k - 1 # 0
      BY <1>1
    <3> QED BY <2>1, <3>1, <3>2
  <2>3. t[h].c = raw[t[h].at]
    BY <2>1, <2>2 DEF Good
  <2> QED BY <1>1, <2>2, <2>3 DEF h
<1>10. OccursAt(t, v, j)
  BY <1>7, <1>9 DEF OccursAt, m
<1> QED BY <1>8, <1>10 DEF m, a

(* After ReplaceValue, no span of the value is whole.                      *)
LEMMA ReplaceBreaks ==
  ASSUME NEW raw \in Seq(STRING), NEW lo \in Nat \ {0}, NEW t, Good(t, raw, lo),
         NEW v \in Seq(STRING), v # <<>>, NEW p \in SpansOf(raw, {v})
  PROVE  ~(p[1] .. p[2] \subseteq KeptIn(ReplaceValue(t, v)))
<1> SUFFICES ASSUME p[1] .. p[2] \subseteq KeptIn(ReplaceValue(t, v))
             PROVE  FALSE
  OBVIOUS
<1> DEFINE m == Len(v)
<1>0. m \in Nat \ {0} /\ p[1] \in Nat \ {0} /\ p[2] = p[1] + m - 1
  BY SpanOfValue
<1>1. p[1] .. p[2] \subseteq KeptIn(t)
  BY ReplaceGood
<1>2. PICK j \in 1 .. Len(t) :
        OccursAt(t, v, j) /\ \A h \in j .. j + m - 1 : t[h].at = p[1] + h - j
  BY <1>1, KeptSpanOccurs
<1>3. j \in Nat /\ Len(t) \in Nat
  BY DEF Good
<1>4. \A h \in j .. j + m - 1 : t[h].at \in p[1] .. p[2] /\ t[h].at # 0
  BY <1>0, <1>2, <1>3, SMTT(30)
<1>5. PICK h \in j .. j + m - 1 : t[h].at \notin KeptIn(ReplaceValue(t, v))
  BY <1>2, <1>4, ReplaceHits
<1> QED BY <1>4, <1>5

-----------------------------------------------------------------------------
(* Values without a character of the placeholder.                          *)

PlainValue(v) == ToSet(v) \cap ToSet(Placeholder) = {}

(* An occurrence of such a value is a span of the output.                  *)
OccursAsSpan(t, v, j, raw, lo, values) ==
  /\ t[j].at \in lo .. Len(raw)
  /\ {t[k].at : k \in j .. j + Len(v) - 1} = t[j].at .. t[j].at + Len(v) - 1
  /\ <<t[j].at, t[j].at + Len(v) - 1>> \in SpansOf(raw, values)

(* A plain value occurs in a text only where the container wrote it.       *)
LEMMA PlainOccurrence ==
  ASSUME NEW raw \in Seq(STRING), NEW lo \in Nat \ {0}, NEW t, Good(t, raw, lo),
         NEW values, values \subseteq Seq(STRING), NEW v \in values, v # <<>>,
         PlainValue(v), NEW j \in 1 .. Len(t), OccursAt(t, v, j)
  PROVE  OccursAsSpan(t, v, j, raw, lo, values)
<1> DEFINE m == Len(v)
           a == t[j].at
<1>1. /\ v \in Seq(STRING) /\ m \in Nat \ {0} /\ t \in Seq(Units) /\ Len(t) \in Nat
      /\ Len(raw) \in Nat /\ j + m <= Len(t) + 1
      /\ \A k \in 1 .. m : t[j + k - 1].c = v[k]
  <2>1. v \in Seq(STRING) /\ m \in Nat \ {0} /\ Len(raw) \in Nat
    OBVIOUS
  <2>2. t \in Seq(Units)
    BY DEF Good
  <2>3. j + m <= Len(t) + 1 /\ \A k \in 1 .. m : t[j + k - 1].c = v[k]
    BY Zenon DEF OccursAt, m
  <2> HIDE DEF m
  <2> QED BY <2>1, <2>2, <2>3
<1>2. ASSUME NEW h \in j .. j + m - 1
      PROVE  t[h].at \in lo .. Len(raw) /\ t[h].at \in Nat \ {0} /\ t[h].c = raw[t[h].at]
  <2> DEFINE k == h - j + 1
  <2>1. k \in 1 .. m /\ j + k - 1 = h /\ h \in 1 .. Len(t)
    BY <1>1
  <2> HIDE DEF k
  <2>2. t[h].c = v[k]
    BY <1>1, <2>1
  <2>3. v[k] \in ToSet(v)
    BY <1>1, <2>1 DEF ToSet
  <2>4. t[h].c \notin ToSet(Placeholder)
    BY <2>2, <2>3 DEF PlainValue
  <2>5. t[h].at \in lo .. Len(raw) /\ t[h].c = raw[t[h].at]
    BY <2>1, <2>4 DEF Good
  <2> QED BY <1>1, <2>5
<1>3. a \in lo .. Len(raw) /\ a \in Nat \ {0}
  <2>1. j \in j .. j + m - 1
    BY <1>1
  <2> QED BY <1>2, <2>1
<1> DEFINE D == {k \in Nat : t[j + k].at = a + k}
<1> HIDE DEF a, m
<1>4. 0 \in D
  <2>1. j + 0 = j /\ a + 0 = a
    BY <1>1, <1>3
  <2> QED BY <2>1 DEF a
<1>5. ASSUME NEW k \in 0 .. (m - 1) - 1, k \in D
      PROVE  k + 1 \in D
  <2> DEFINE h == j + k
  <2>1. h \in j .. j + m - 1 /\ h + 1 \in j .. j + m - 1
        /\ h \in 1 .. Len(t) /\ h + 1 \in 1 .. Len(t) /\ h < h + 1
    BY <1>1
  <2>2. t[h].at = a + k
    BY <1>5
  <2>3. j + (k + 1) = h + 1 /\ a + (k + 1) = (a + k) + 1
    BY <1>1, <1>3
  <2> HIDE DEF h
  <2>4. t[h + 1].at = t[h].at + 1
    BY <1>2, <2>1 DEF Good
  <2> QED BY <2>2, <2>3, <2>4
<1>6. \A k \in 0 .. m - 1 : k \in D
  <2>1. m - 1 \in Nat
    BY <1>1
  <2> HIDE DEF D
  <2>2. \A k \in 0 .. (m - 1) - 1 : k \in D => k + 1 \in D
    BY <1>5
  <2> QED BY <1>4, <2>1, <2>2, UpToInduction, Zenon
<1>7. \A h \in j .. j + m - 1 : t[h].at = a + (h - j)
  <2> TAKE h \in j .. j + m - 1
  <2>1. h - j \in 0 .. m - 1 /\ j + (h - j) = h
    BY <1>1
  <2> QED BY <1>6, <2>1
<1>8. {t[k].at : k \in j .. j + m - 1} = a .. a + m - 1
  <2>1. ASSUME NEW k \in j .. j + m - 1
        PROVE  t[k].at \in a .. a + m - 1
    <3>1. a + (k - j) \in a .. a + m - 1
      BY <1>1, <1>3
    <3> QED BY <1>7, <3>1
  <2>2. ASSUME NEW x \in a .. a + m - 1
        PROVE  \E k \in j .. j + m - 1 : t[k].at = x
    <3> DEFINE k == j + (x - a)
    <3>1. k \in j .. j + m - 1 /\ a + (k - j) = x
      BY <1>1, <1>3
    <3> HIDE DEF k
    <3> QED BY <1>7, <3>1
  <2> QED BY <2>1, <2>2
<1>9. <<a, a + m - 1>> \in SpansOf(raw, values)
  <2>1. a + m <= Len(raw) + 1
    <3>1. j + m - 1 \in j .. j + m - 1 /\ j + m - 1 - j = m - 1
      BY <1>1
    <3>2. t[j + m - 1].at = a + (m - 1) /\ t[j + m - 1].at <= Len(raw)
      BY <1>1, <1>2, <1>7, <3>1, SMTT(30)
    <3> QED BY <1>1, <1>3, <3>2
  <2>2. ASSUME NEW k \in 1 .. m
        PROVE  raw[a + k - 1] = v[k]
    <3> DEFINE h == j + k - 1
    <3>1. h \in j .. j + m - 1 /\ a + (h - j) = a + k - 1
      BY <1>1, <1>3
    <3>2. t[h].c = v[k]
      BY <1>1
    <3> HIDE DEF h
    <3> QED BY <1>2, <1>7, <3>1, <3>2
  <2>3. a \in 1 .. Len(raw)
    BY <1>1, <1>3
  <2> QED BY <2>1, <2>2, <2>3, SpanMember DEF m
<1> QED BY <1>3, <1>8, <1>9 DEF OccursAsSpan, a, m

(* All of that span is kept.                                               *)
LEMMA OccurrenceKept ==
  ASSUME NEW raw \in Seq(STRING), NEW lo \in Nat \ {0}, NEW t, Good(t, raw, lo),
         NEW values, NEW v \in Seq(STRING), v # <<>>,
         NEW j \in 1 .. Len(t), OccursAt(t, v, j), OccursAsSpan(t, v, j, raw, lo, values)
  PROVE  \E p \in SpansOf(raw, values) : p[1] .. p[2] \subseteq KeptIn(t)
<1> DEFINE m == Len(v)
           a == t[j].at
<1>1. /\ t \in Seq(Units) /\ Len(t) \in Nat /\ m \in Nat \ {0} /\ j + m <= Len(t) + 1
      /\ a \in lo .. Len(raw) /\ <<a, a + m - 1>> \in SpansOf(raw, values)
      /\ {t[k].at : k \in j .. j + m - 1} = a .. a + m - 1
  BY DEF Good, OccursAt, OccursAsSpan
<1> HIDE DEF a, m
<1>2. a .. a + m - 1 \subseteq KeptIn(t)
  <2> SUFFICES ASSUME NEW x \in a .. a + m - 1 PROVE x \in KeptIn(t)
    OBVIOUS
  <2>1. PICK k \in j .. j + m - 1 : t[k].at = x
    BY <1>1
  <2>2. k \in 1 .. Len(t)
    BY <1>1
  <2>3. x # 0
    BY <1>1
  <2> QED BY <2>1, <2>2, <2>3, KeptMember
<1> QED BY <1>1, <1>2

(* What is missing is part of a span, at least as long as least, of which  *)
(* nothing is kept.                                                        *)
Lost(t, raw, lo, spans, least) ==
  \A x \in lo .. Len(raw) : x \notin KeptIn(t) =>
    \E q \in spans : /\ q[1] <= x /\ x <= q[2] /\ least <= q[2] - q[1] + 1
                     /\ \A y \in q[1] .. q[2] : y \notin KeptIn(t)

(* A placeholder takes the place of at least one unit of the output.       *)
Light(t, raw, lo) ==
  /\ IsFiniteSet(KeptIn(t))
  /\ Len(t) + (Len(Mark) - 1) * Cardinality(KeptIn(t)) <= Len(Mark) * (Len(raw) - lo + 1)

(* A replacement of a plain value loses whole spans and adds no length.    *)
LEMMA SplicePlain ==
  ASSUME NEW raw \in Seq(STRING), NEW lo \in Nat \ {0}, lo <= Len(raw) + 1,
         NEW t, Good(t, raw, lo),
         NEW values, values \subseteq Seq(STRING), NEW v \in values, v # <<>>,
         PlainValue(v), NEW j \in 1 .. Len(t), OccursAt(t, v, j)
  PROVE  /\ Lost(t, raw, lo, SpansOf(raw, values), Len(v)) =>
              Lost(Splice(t, j, Len(v)), raw, lo, SpansOf(raw, values), Len(v))
         /\ Light(t, raw, lo) => Light(Splice(t, j, Len(v)), raw, lo)
<1> DEFINE m == Len(v)
           a == t[j].at
           u == Splice(t, j, m)
           l == Len(Mark)
           spans == SpansOf(raw, values)
<1>1. /\ m \in Nat \ {0} /\ t \in Seq(Units) /\ Len(t) \in Nat /\ Len(raw) \in Nat
      /\ j \in Nat \ {0} /\ j + m <= Len(t) + 1 /\ l \in Nat \ {0}
  BY MarkShape DEF Good, OccursAt
<1>2. /\ a \in lo .. Len(raw) /\ a \in Nat \ {0}
      /\ {t[k].at : k \in j .. j + m - 1} = a .. a + m - 1
      /\ <<a, a + m - 1>> \in spans
  <2>1. t[j].at \in lo .. Len(raw) => t[j].at \in Nat \ {0}
    BY <1>1
  <2>2. OccursAsSpan(t, v, j, raw, lo, values)
    BY PlainOccurrence
  <2> QED BY <2>1, <2>2 DEF OccursAsSpan
<1>3. KeptIn(u) = KeptIn(t) \ (a .. a + m - 1)
  <2>1. KeptIn(u) = KeptIn(t) \ {t[k].at : k \in j .. j + m - 1}
    <3> HIDE DEF m
    <3>1. m \in Nat \ {0} /\ t \in Seq(Units) /\ j \in Nat \ {0} /\ j + m <= Len(t) + 1
      BY <1>1
    <3> QED BY <3>1, SpliceKept, SMTT(30) DEF u
  <2> QED BY <1>2, <2>1
<1>4. Len(u) = Len(t) - m + l
  BY <1>1, SpliceShape DEF Spliced
<1>5. a \in KeptIn(t) /\ a \notin KeptIn(u)
  <2>1. a \in a .. a + m - 1
    BY <1>1, <1>2
  <2> QED BY <1>2, <1>3, <2>1, KeptMember
<1> HIDE DEF m, a, u, l, spans
<1>6. ASSUME Lost(t, raw, lo, spans, m)
      PROVE  Lost(u, raw, lo, spans, m)
  <2> SUFFICES ASSUME NEW x \in lo .. Len(raw), x \notin KeptIn(u)
               PROVE  \E q \in spans : /\ q[1] <= x /\ x <= q[2] /\ m <= q[2] - q[1] + 1
                                       /\ \A y \in q[1] .. q[2] : y \notin KeptIn(u)
    BY DEF Lost
  <2>1. CASE x \in KeptIn(t)
    <3> DEFINE q == <<a, a + m - 1>>
    <3>1. q \in spans /\ q[1] = a /\ q[2] = a + m - 1
      BY <1>2
    <3>2. x \in a .. a + m - 1 /\ \A y \in a .. a + m - 1 : y \notin KeptIn(u)
      BY <1>3, <2>1
    <3>3. a <= x /\ x <= a + m - 1 /\ m <= a + m - 1 - a + 1
      BY <1>1, <1>2, <3>2
    <3> HIDE DEF q
    <3>4. /\ q[1] <= x /\ x <= q[2] /\ m <= q[2] - q[1] + 1
          /\ \A y \in q[1] .. q[2] : y \notin KeptIn(u)
      <4>1. q[1] .. q[2] = a .. a + m - 1
        BY <3>1, Zenon
      <4>2. q[1] <= x /\ x <= q[2]
        BY <3>1, <3>3, Zenon
      <4>3. m <= q[2] - q[1] + 1
        BY <1>1, <1>2, <3>1
      <4> QED BY <3>2, <4>1, <4>2, <4>3, Zenon
    <3> QED BY <3>1, <3>4
  <2>2. CASE x \notin KeptIn(t)
    <3>1. PICK q \in spans : /\ q[1] <= x /\ x <= q[2] /\ m <= q[2] - q[1] + 1
                             /\ \A y \in q[1] .. q[2] : y \notin KeptIn(t)
      BY <1>6, <2>2 DEF Lost
    <3> QED BY <1>3, <3>1
  <2> QED BY <2>1, <2>2
<1>7. ASSUME Light(t, raw, lo)
      PROVE  Light(u, raw, lo)
  <2> DEFINE K == KeptIn(t)
             c == Cardinality(K)
             d == Cardinality(KeptIn(u))
  <2>1. IsFiniteSet(K) /\ c \in Nat
    BY <1>7, FS_CardinalityType DEF Light
  <2>2. IsFiniteSet(K \ {a}) /\ Cardinality(K \ {a}) = c - 1
    <3>1. a \in K
      BY <1>5
    <3> HIDE DEF K
    <3> QED BY <2>1, <3>1, FS_RemoveElement
  <2>3. KeptIn(u) \subseteq K \ {a}
    BY <1>3, <1>5
  <2>4. IsFiniteSet(KeptIn(u)) /\ d <= c - 1 /\ d \in Nat
    BY <2>2, <2>3, FS_Subset, FS_CardinalityType
  <2>5. Len(t) + (l - 1) * c <= l * (Len(raw) - lo + 1)
    BY <1>7 DEF Light, l
  <2>6. Len(u) + (l - 1) * d <= Len(t) + (l - 1) * c
    <3> HIDE DEF K, c, d
    <3> DEFINE e == c - 1 - d
               f == l - 1
    <3>1. e \in Nat /\ f \in Nat /\ c = d + e + 1
      BY <1>1, <2>1, <2>4
    <3>2. f * c = f * d + f * e + f /\ f * e \in Nat /\ f * d \in Nat
      <4> HIDE DEF e, f
      <4> QED BY <2>4, <3>1
    <3>3. Len(u) <= Len(t) + f
      BY <1>1, <1>4
    <3> HIDE DEF e, f
    <3>4. Len(u) + f * d <= Len(t) + f * c
      <4> DEFINE fc == f * c
                 fd == f * d
                 fe == f * e
      <4>1. Len(u) \in Int /\ fc = fd + fe + f /\ fe \in Nat /\ fd \in Nat
        BY <1>1, <1>4, <3>2
      <4> HIDE DEF fc, fd, fe
      <4>2. Len(u) + fd <= Len(t) + fc
        BY <1>1, <3>1, <3>3, <4>1
      <4> QED BY <4>2 DEF fc, fd
    <3> QED BY <3>4 DEF f
  <2>7. Len(u) + (l - 1) * d <= l * (Len(raw) - lo + 1)
    <3> DEFINE x == (l - 1) * d
               y == (l - 1) * c
               z == l * (Len(raw) - lo + 1)
    <3>1. Len(u) \in Int /\ x \in Int /\ y \in Int /\ z \in Int
      BY <1>1, <1>4, <2>1, <2>4
    <3>2. Len(u) + x <= Len(t) + y /\ Len(t) + y <= z
      BY <2>5, <2>6
    <3> HIDE DEF x, y, z
    <3>3. Len(u) + x <= z
      BY <1>1, <3>1, <3>2
    <3> QED BY <3>3 DEF x, z
  <2> QED BY <2>4, <2>7 DEF Light, l
<1> QED BY <1>6, <1>7 DEF m, u, spans

(* ReplaceValue loses whole spans of the value, and the text stays light.  *)
LEMMA ReplacePlain ==
  ASSUME NEW raw \in Seq(STRING), NEW lo \in Nat \ {0}, lo <= Len(raw) + 1,
         NEW t, Good(t, raw, lo),
         NEW values, values \subseteq Seq(STRING), NEW v \in values, v # <<>>,
         PlainValue(v)
  PROVE  /\ Lost(t, raw, lo, SpansOf(raw, values), Len(v)) =>
              Lost(ReplaceValue(t, v), raw, lo, SpansOf(raw, values), Len(v))
         /\ Light(t, raw, lo) => Light(ReplaceValue(t, v), raw, lo)
<1> DEFINE spans == SpansOf(raw, values)
           S == {u \in Seq(Units) : Good(u, raw, lo)}
           S1 == {u \in S : Lost(u, raw, lo, spans, Len(v))}
           S2 == {u \in S : Light(u, raw, lo)}
<1>1. ASSUME NEW u \in S, NEW j \in 1 .. Len(u), OccursAt(u, v, j)
      PROVE  /\ Splice(u, j, Len(v)) \in S
             /\ Lost(u, raw, lo, spans, Len(v)) =>
                  Lost(Splice(u, j, Len(v)), raw, lo, spans, Len(v))
             /\ Light(u, raw, lo) => Light(Splice(u, j, Len(v)), raw, lo)
  <2>1. /\ v \in Seq(STRING) /\ j \in Nat \ {0} /\ Len(v) \in Nat \ {0}
        /\ j + Len(v) <= Len(u) + 1
    BY <1>1 DEF OccursAt
  <2>2. Good(u, raw, lo)
    OBVIOUS
  <2>3. Good(Splice(u, j, Len(v)), raw, lo)
    BY <2>1, <2>2, SpliceGood
  <2>4. Splice(u, j, Len(v)) \in S
    BY <2>3 DEF Good
  <2> HIDE DEF S
  <2> QED BY <1>1, <2>2, <2>4, SplicePlain
<1>2. v \in Seq(STRING) /\ t \in S /\ S1 \subseteq Seq(Units) /\ S2 \subseteq Seq(Units)
  BY DEF Good
<1> HIDE DEF S, spans
<1>3. ASSUME Lost(t, raw, lo, spans, Len(v))
      PROVE  Lost(ReplaceValue(t, v), raw, lo, spans, Len(v))
  <2>1. t \in S1
    BY <1>2, <1>3
  <2>2. ASSUME NEW u \in S1, NEW j \in 1 .. Len(u), OccursAt(u, v, j)
        PROVE  Splice(u, j, Len(v)) \in S1
    BY <1>1, <2>2
  <2>3. ReplaceValue(t, v) \in S1
    <3> HIDE DEF S1
    <3> QED BY <1>2, <2>1, <2>2, ReplacePreserves
  <2> QED BY <2>3
<1>4. ASSUME Light(t, raw, lo)
      PROVE  Light(ReplaceValue(t, v), raw, lo)
  <2>1. t \in S2
    BY <1>2, <1>4
  <2>2. ASSUME NEW u \in S2, NEW j \in 1 .. Len(u), OccursAt(u, v, j)
        PROVE  Splice(u, j, Len(v)) \in S2
    BY <1>1, <2>2
  <2>3. ReplaceValue(t, v) \in S2
    <3> HIDE DEF S2
    <3> QED BY <1>2, <2>1, <2>2, ReplacePreserves
  <2> QED BY <2>3
<1> QED BY <1>3, <1>4 DEF spans

-----------------------------------------------------------------------------
(* sortSecretsByValueLength                                                *)

Secrets == [name : Seq(STRING), value : Seq(STRING), file : STRING]

(* The longest values come first.                                          *)
Descending(list) ==
  \A i, k \in 1 .. Len(list) : i < k => Len(list[k].value) <= Len(list[i].value)

(* The value of a secret.                                                  *)
LEMMA SecretValue ==
  ASSUME NEW list \in Seq(Secrets), NEW i \in 1 .. Len(list)
  PROVE  list[i].value \in Seq(STRING) /\ Len(list[i].value) \in Nat
<1>1. list[i] \in Secrets
  OBVIOUS
<1>2. list[i].value \in Seq(STRING)
  BY <1>1 DEF Secrets
<1> QED BY <1>2

(* An insertion keeps the order and adds the secret.                       *)
LEMMA InsertShape ==
  ASSUME NEW list \in Seq(Secrets), NEW s \in Secrets
  PROVE  /\ InsertByLength(list, s) \in Seq(Secrets)
         /\ ToSet(InsertByLength(list, s)) = ToSet(list) \cup {s}
         /\ Descending(list) => Descending(InsertByLength(list, s))
<1> DEFINE n == Len(list)
           shorter == {i \in 1 .. n : Len(list[i].value) < Len(s.value)}
           P == shorter \cup {n + 1}
           p == Min(P)
           r == InsertByLength(list, s)
           a == SubSeq(list, 1, p - 1)
           b == SubSeq(list, p, n)
<1>1. n \in Nat
  OBVIOUS
<1>2. P \subseteq Nat /\ P # {}
  BY <1>1
<1>3. p \in P /\ \A i \in P : p <= i
  <2>1. \E x \in P : \A i \in P : x <= i
    <3> HIDE DEF P
    <3> QED BY <1>2, LeastNumber
  <2> HIDE DEF P
  <2> QED BY <2>1 DEF Min
<1>4. p \in 1 .. n + 1
  <2> HIDE DEF p
  <2> QED BY <1>1, <1>3
<1>5. /\ \A i \in 1 .. n : i < p => Len(s.value) <= Len(list[i].value)
      /\ p <= n => Len(list[p].value) < Len(s.value)
  <2>1. s.value \in Seq(STRING) /\ Len(s.value) \in Nat
    <3>1. s.value \in Seq(STRING)
      BY DEF Secrets
    <3> QED BY <3>1
  <2>2. \A i \in 1 .. n : Len(list[i].value) \in Nat
    BY SecretValue
  <2> HIDE DEF p
  <2>3. ASSUME NEW i \in 1 .. n, i < p
        PROVE  Len(s.value) <= Len(list[i].value)
    <3>1. i \notin P
      <4> HIDE DEF P
      <4> QED BY <1>1, <1>3, <1>4, <2>3
    <3>2. ~(Len(list[i].value) < Len(s.value))
      BY <3>1
    <3> QED BY <2>1, <2>2, <3>2
  <2>4. p <= n => p \in shorter
    BY <1>1, <1>3, <1>4
  <2> QED BY <2>3, <2>4
<1>6. r = a \o <<s>> \o b
  BY DEF InsertByLength, InsertAt
<1> HIDE DEF p, shorter, P, r
<1>7. /\ a \in Seq(Secrets) /\ Len(a) = p - 1 /\ \A i \in 1 .. p - 1 : a[i] = list[i]
  BY <1>1, <1>4
<1>8. /\ b \in Seq(Secrets) /\ Len(b) = n - p + 1
      /\ \A i \in 1 .. n - p + 1 : b[i] = list[p + i - 1]
  BY <1>1, <1>4
<1>9. <<s>> \in Seq(Secrets) /\ Len(<<s>>) = 1 /\ <<s>>[1] = s
  OBVIOUS
<1> DEFINE e == <<s>>
<1>10. e \in Seq(Secrets) /\ Len(e) = 1 /\ e[1] = s
  BY <1>9
<1> HIDE DEF a, b, e
<1>11. Joined(Secrets, r, a, e, b)
  <2>1. Joined(Secrets, a \o e \o b, a, e, b)
    BY <1>7, <1>8, <1>10, ConcatThree, Zenon
  <2> QED BY <1>6, <2>1, Zenon DEF e
<1>12. /\ r \in Seq(Secrets) /\ Len(r) = n + 1 /\ r[p] = s
       /\ \A i \in 1 .. p - 1 : r[i] = list[i]
  <2> HIDE DEF n
  <2>1. p \in Len(a) + 1 .. Len(a) + Len(e) /\ p - Len(a) = 1
    BY <1>1, <1>4, <1>7, <1>10
  <2>2. r[p] = e[1]
    BY <1>11, <2>1 DEF Joined
  <2>3. Len(r) = n + 1
    BY <1>1, <1>4, <1>7, <1>8, <1>10, <1>11 DEF Joined
  <2>4. \A i \in 1 .. p - 1 : r[i] = list[i]
    BY <1>7, <1>11 DEF Joined
  <2> QED BY <1>10, <1>11, <2>2, <2>3, <2>4 DEF Joined
<1>13. \A i \in p + 1 .. n + 1 : r[i] = list[i - 1]
  <2> HIDE DEF n
  <2> TAKE i \in p + 1 .. n + 1
  <2>1. /\ i \in Len(a) + Len(e) + 1 .. Len(a) + Len(e) + Len(b)
        /\ i - Len(a) - Len(e) = i - p /\ i - p \in 1 .. n - p + 1
        /\ p + (i - p) - 1 = i - 1
    BY <1>1, <1>4, <1>7, <1>8, <1>10
  <2>2. r[i] = b[i - p]
    BY <1>11, <2>1 DEF Joined
  <2> QED BY <1>8, <2>1, <2>2
<1>14. ToSet(r) = ToSet(list) \cup {s}
  <2> HIDE DEF n
  <2>1. ASSUME NEW i \in 1 .. n + 1
        PROVE  r[i] = s \/ \E k \in 1 .. n : r[i] = list[k]
    <3>1. CASE i < p
      <4>1. i \in 1 .. n /\ i \in 1 .. p - 1
        BY <1>1, <1>4, <3>1
      <4> QED BY <1>12, <4>1
    <3>2. CASE i = p
      BY <1>12, <3>2
    <3>3. CASE i > p
      <4>1. i \in p + 1 .. n + 1 /\ i - 1 \in 1 .. n
        BY <1>1, <1>4, <3>3
      <4> QED BY <1>13, <4>1
    <3> QED BY <1>1, <1>4, <3>1, <3>2, <3>3
  <2>2. ASSUME NEW k \in 1 .. n
        PROVE  \E i \in 1 .. n + 1 : r[i] = list[k]
    <3>1. CASE k < p
      <4>1. k \in 1 .. n + 1 /\ k \in 1 .. p - 1
        BY <1>1, <1>4, <3>1
      <4> QED BY <1>12, <4>1
    <3>2. CASE k >= p
      <4> DEFINE i == k + 1
      <4>1. i \in p + 1 .. n + 1 /\ i \in 1 .. n + 1 /\ i - 1 = k
        BY <1>1, <1>4, <3>2
      <4> HIDE DEF i
      <4> QED BY <1>13, <4>1
    <3> QED BY <1>1, <1>4, <3>1, <3>2
  <2>3. ToSet(r) = {r[i] : i \in 1 .. n + 1} /\ ToSet(list) = {list[i] : i \in 1 .. n}
    BY <1>12 DEF n, ToSet
  <2>4. p \in 1 .. n + 1 /\ r[p] = s
    BY <1>1, <1>4, <1>12
  <2>5. ToSet(r) \subseteq ToSet(list) \cup {s}
    BY <2>1, <2>3
  <2>6. ToSet(list) \cup {s} \subseteq ToSet(r)
    BY <2>2, <2>3, <2>4
  <2> QED BY <2>5, <2>6
<1>15. ASSUME Descending(list)
       PROVE  Descending(r)
  <2> DEFINE L(i) == Len(list[i].value)
             R(i) == Len(r[i].value)
             sl == Len(s.value)
  <2>0. /\ \A i \in 1 .. n : L(i) \in Nat
        /\ sl \in Nat
        /\ \A i, k \in 1 .. n : i < k => L(k) <= L(i)
        /\ \A i \in 1 .. n : i < p => sl <= L(i)
        /\ p <= n => L(p) < sl
    <3>1. sl \in Nat
      <4>1. s.value \in Seq(STRING)
        BY DEF Secrets
      <4> QED BY <4>1
    <3> QED BY <1>5, <1>15, <3>1, SecretValue DEF Descending
  <2>1. /\ R(p) = sl /\ \A i \in 1 .. p - 1 : R(i) = L(i)
        /\ \A i \in p + 1 .. n + 1 : R(i) = L(i - 1)
    BY <1>12, <1>13
  <2> HIDE DEF L, R, sl, n
  <2>2. ASSUME NEW i \in 1 .. n + 1, NEW k \in 1 .. n + 1, i < k
        PROVE  R(k) <= R(i)
    <3>1. CASE k < p
      <4>1. i \in 1 .. p - 1 /\ k \in 1 .. p - 1 /\ i \in 1 .. n /\ k \in 1 .. n
        BY <1>1, <1>4, <2>2, <3>1
      <4> QED BY <2>0, <2>1, <2>2, <4>1
    <3>2. CASE k = p
      <4>1. i \in 1 .. p - 1 /\ i \in 1 .. n /\ i < p
        BY <1>1, <1>4, <2>2, <3>2
      <4> QED BY <2>0, <2>1, <3>2, <4>1
    <3>3. CASE k > p
      <4>1. k \in p + 1 .. n + 1 /\ k - 1 \in 1 .. n /\ p <= n /\ p \in 1 .. n
        BY <1>1, <1>4, <3>3
      <4>2. R(k) = L(k - 1) /\ L(k - 1) \in Nat
        BY <2>0, <2>1, <4>1
      <4>3. L(k - 1) <= L(p)
        <5>1. k - 1 = p \/ p < k - 1
          BY <1>1, <1>4, <3>3
        <5> QED BY <2>0, <4>1, <5>1
      <4>4. L(p) \in Nat /\ L(p) < sl
        BY <2>0, <4>1
      <4>5. CASE i < p
        <5>1. i \in 1 .. p - 1 /\ i \in 1 .. n
          BY <1>1, <1>4, <4>5
        <5>2. R(i) = L(i) /\ sl <= L(i) /\ L(i) \in Nat
          BY <2>0, <2>1, <4>5, <5>1
        <5> QED BY <2>0, <4>2, <4>3, <4>4, <5>2
      <4>6. CASE i = p
        <5>1. R(i) = sl
          BY <2>1, <4>6
        <5> QED BY <2>0, <4>2, <4>3, <4>4, <5>1
      <4>7. CASE i > p
        <5>1. i \in p + 1 .. n + 1 /\ i - 1 \in 1 .. n /\ i - 1 < k - 1
          BY <1>1, <1>4, <2>2, <4>7
        <5>2. R(i) = L(i - 1) /\ L(k - 1) <= L(i - 1)
          BY <2>0, <2>1, <4>1, <5>1
        <5> QED BY <4>2, <5>2
      <4> QED BY <1>4, <4>5, <4>6, <4>7
    <3> QED BY <1>4, <3>1, <3>2, <3>3
  <2>3. Len(r) = n + 1
    BY <1>12
  <2> QED BY <2>2, <2>3 DEF Descending, R
<1> QED BY <1>12, <1>14, <1>15 DEF r

(* The function sorted of sortSecretsByValueLength.                        *)
IsSorting(f, secrets) ==
  f = [i \in 0 .. Len(secrets) |->
         IF i = 0 THEN <<>> ELSE InsertByLength(f[i - 1], secrets[i])]

(* sortSecretsByValueLength returns the secrets, the longest value first.  *)
LEMMA SortShape ==
  ASSUME NEW secrets \in Seq(Secrets)
  PROVE  /\ sortSecretsByValueLength(secrets) \in Seq(Secrets)
         /\ ToSet(sortSecretsByValueLength(secrets)) = ToSet(secrets)
         /\ Descending(sortSecretsByValueLength(secrets))
<1> DEFINE N == Len(secrets)
           S == Seq(Secrets)
           G == [p \in S \X (1 .. N) |-> InsertByLength(p[1], secrets[p[2]])]
<1>1. N \in Nat /\ \A i \in 1 .. N : secrets[i] \in Secrets
  OBVIOUS
<1>2. G \in [S \X (1 .. N) -> S]
  <2>1. ASSUME NEW p \in S \X (1 .. N)
        PROVE  InsertByLength(p[1], secrets[p[2]]) \in S
    <3>1. p[1] \in Seq(Secrets) /\ secrets[p[2]] \in Secrets
      BY <1>1
    <3> QED BY <3>1, InsertShape
  <2> QED BY <2>1
<1>3. <<>> \in S
  OBVIOUS
<1>4. PICK f \in [0 .. N -> S] : IsIteration(f, <<>>, G, N)
  <2> HIDE DEF G, S, N
  <2> QED BY <1>1, <1>2, <1>3, IterationExists, Zenon
<1>5. \A i \in 1 .. N : G[<<f[i - 1], i>>] = InsertByLength(f[i - 1], secrets[i])
  <2> TAKE i \in 1 .. N
  <2>1. f[i - 1] \in S
    <3>1. i - 1 \in 0 .. N
      BY <1>1
    <3> HIDE DEF S, N
    <3> QED BY <3>1
  <2>2. <<f[i - 1], i>> \in S \X (1 .. N)
    <3> HIDE DEF S, N
    <3> QED BY <2>1
  <2> QED BY <2>2
<1>6. IsSorting(f, secrets)
  <2> HIDE DEF G, S
  <2>1. \A i \in 0 .. N : (IF i = 0 THEN <<>> ELSE G[<<f[i - 1], i>>])
                          = (IF i = 0 THEN <<>> ELSE InsertByLength(f[i - 1], secrets[i]))
    BY <1>1, <1>5
  <2>2. [i \in 0 .. N |-> IF i = 0 THEN <<>> ELSE G[<<f[i - 1], i>>]]
        = [i \in 0 .. N |-> IF i = 0 THEN <<>> ELSE InsertByLength(f[i - 1], secrets[i])]
    BY <2>1
  <2> QED BY <1>4, <2>2 DEF IsSorting, IsIteration
<1> DEFINE g == CHOOSE g : IsSorting(g, secrets)
<1>7. IsSorting(g, secrets)
  BY <1>6
<1>8. sortSecretsByValueLength(secrets) = g[N]
  BY DEF sortSecretsByValueLength, IsSorting
<1> HIDE DEF g, G
<1>9. /\ g[0] = <<>>
      /\ \A i \in 1 .. N : g[i] = InsertByLength(g[i - 1], secrets[i])
  BY <1>1, <1>7 DEF IsSorting
<1> DEFINE First(i) == {secrets[k] : k \in 1 .. i}
           D == {i \in 0 .. N : g[i] \in S /\ ToSet(g[i]) = First(i) /\ Descending(g[i])}
<1>10. 0 \in D
  <2>1. First(0) = {} /\ ToSet(<<>>) = {} /\ Descending(<<>>)
    BY DEF ToSet, Descending
  <2>2. g[0] \in S /\ ToSet(g[0]) = First(0) /\ Descending(g[0]) /\ 0 \in 0 .. N
    <3>1. g[0] = <<>> /\ 0 \in 0 .. N
      BY <1>1, <1>9
    <3> HIDE DEF First, S, N
    <3> QED BY <1>3, <2>1, <3>1
  <2> HIDE DEF First, S, N
  <2> QED BY <2>2
<1>11. ASSUME NEW i \in 0 .. N - 1, i \in D
       PROVE  i + 1 \in D
  <2>1. i + 1 \in 1 .. N /\ i + 1 \in 0 .. N /\ (i + 1) - 1 = i
    BY <1>1
  <2>2. g[i + 1] = InsertByLength(g[i], secrets[i + 1]) /\ secrets[i + 1] \in Secrets
    BY <1>1, <1>9, <2>1
  <2>3. g[i] \in Seq(Secrets) /\ ToSet(g[i]) = First(i) /\ Descending(g[i])
    BY <1>11
  <2>4. First(i + 1) = First(i) \cup {secrets[i + 1]}
    <3>1. \A k \in 1 .. i + 1 : k \in 1 .. i \/ k = i + 1
      BY <1>1
    <3>2. 1 .. i \subseteq 1 .. i + 1 /\ i + 1 \in 1 .. i + 1
      BY <1>1
    <3> QED BY <3>1, <3>2
  <2> HIDE DEF First
  <2>5. /\ g[i + 1] \in S /\ ToSet(g[i + 1]) = ToSet(g[i]) \cup {secrets[i + 1]}
        /\ Descending(g[i + 1])
    BY <2>2, <2>3, InsertShape, ZenonT(30)
  <2> QED BY <2>1, <2>3, <2>4, <2>5
<1>12. N \in D
  <2>1. \A i \in 0 .. N - 1 : i \in D => i + 1 \in D
    BY <1>11
  <2> HIDE DEF D, N
  <2>2. \A i \in 0 .. N : i \in D
    BY <1>1, <1>10, <2>1, UpToInduction, Zenon
  <2> QED BY <1>1, <2>2
<1>13. First(N) = ToSet(secrets)
  BY DEF ToSet
<1> HIDE DEF First
<1> QED BY <1>8, <1>12, <1>13

-----------------------------------------------------------------------------
(* RedactSecrets                                                           *)

(* One round of the loop.                                                  *)
RedactOne(t, v) == IF v = <<>> THEN t ELSE ReplaceValue(t, v)

(* ReplaceValue returns a text.                                            *)
LEMMA ReplaceUnits ==
  ASSUME NEW t \in Seq(Units), NEW v \in Seq(STRING)
  PROVE  RedactOne(t, v) \in Seq(Units)
<1> SUFFICES ASSUME v # <<>> PROVE ReplaceValue(t, v) \in Seq(Units)
  BY DEF RedactOne
<1> DEFINE S == Seq(Units)
<1>1. ASSUME NEW u \in S, NEW j \in 1 .. Len(u), OccursAt(u, v, j)
      PROVE  Splice(u, j, Len(v)) \in S
  <2>1. u \in Seq(Units) /\ j \in Nat \ {0} /\ Len(v) \in Nat /\ j + Len(v) <= Len(u) + 1
    BY <1>1 DEF OccursAt
  <2> QED BY <2>1, SpliceShape DEF Spliced
<1>2. S \subseteq Seq(Units) /\ t \in S
  OBVIOUS
<1> HIDE DEF S
<1>3. \A u \in S : \A j \in 1 .. Len(u) : OccursAt(u, v, j) => Splice(u, j, Len(v)) \in S
  BY <1>1
<1>4. ReplaceValue(t, v) \in S
  BY <1>2, <1>3, ReplacePreserves
<1> QED BY <1>4 DEF S

(* f is the function text of RedactInOrder.                                *)
IsRedaction(f, output, sorted) ==
  f = [i \in 0 .. Len(sorted) |->
         IF i = 0 THEN output
         ELSE IF sorted[i].value = <<>> THEN f[i - 1]
         ELSE ReplaceValue(f[i - 1], sorted[i].value)]

(* The texts after each round of RedactInOrder.                            *)
Rounds(f, output, sorted) ==
  /\ f \in [0 .. Len(sorted) -> Seq(Units)]
  /\ f[0] = output
  /\ \A i \in 1 .. Len(sorted) : f[i] = RedactOne(f[i - 1], sorted[i].value)
  /\ f[Len(sorted)] = RedactInOrder(output, sorted)

(* RedactInOrder has such rounds.                                          *)
LEMMA RedactRounds ==
  ASSUME NEW output \in Seq(Units), NEW sorted \in Seq(Secrets)
  PROVE  \E f : Rounds(f, output, sorted)
<1> DEFINE N == Len(sorted)
           S == Seq(Units)
           G == [p \in S \X (1 .. N) |-> RedactOne(p[1], sorted[p[2]].value)]
<1>1. N \in Nat /\ \A i \in 1 .. N : sorted[i].value \in Seq(STRING)
  BY SecretValue
<1>2. G \in [S \X (1 .. N) -> S]
  <2>1. ASSUME NEW p \in S \X (1 .. N)
        PROVE  RedactOne(p[1], sorted[p[2]].value) \in S
    <3>1. p[1] \in Seq(Units) /\ sorted[p[2]].value \in Seq(STRING)
      BY <1>1
    <3> QED BY <3>1, ReplaceUnits
  <2> QED BY <2>1
<1>3. output \in S
  OBVIOUS
<1>4. PICK f \in [0 .. N -> S] : IsIteration(f, output, G, N)
  <2> HIDE DEF G, S, N
  <2> QED BY <1>1, <1>2, <1>3, IterationExists, Zenon
<1>5. \A i \in 1 .. N : G[<<f[i - 1], i>>] = RedactOne(f[i - 1], sorted[i].value)
  <2> TAKE i \in 1 .. N
  <2>1. f[i - 1] \in S
    <3>1. i - 1 \in 0 .. N
      BY <1>1
    <3> HIDE DEF S, N
    <3> QED BY <3>1
  <2>2. <<f[i - 1], i>> \in S \X (1 .. N)
    <3> HIDE DEF S, N
    <3> QED BY <2>1
  <2> QED BY <2>2
<1> HIDE DEF G
<1>6. IsRedaction(f, output, sorted)
  <2> HIDE DEF S
  <2>1. \A i \in 0 .. N : (IF i = 0 THEN output ELSE G[<<f[i - 1], i>>])
                          = (IF i = 0 THEN output
                             ELSE IF sorted[i].value = <<>> THEN f[i - 1]
                             ELSE ReplaceValue(f[i - 1], sorted[i].value))
    <3> TAKE i \in 0 .. N
    <3>1. CASE i = 0
      BY <3>1
    <3>2. CASE i # 0
      <4>1. i \in 1 .. N
        BY <1>1, <3>2
      <4>2. G[<<f[i - 1], i>>] = RedactOne(f[i - 1], sorted[i].value)
        BY <1>5, <4>1
      <4> QED BY <3>2, <4>2 DEF RedactOne
    <3> QED BY <3>1, <3>2
  <2>2. [i \in 0 .. N |-> IF i = 0 THEN output ELSE G[<<f[i - 1], i>>]]
        = [i \in 0 .. N |-> IF i = 0 THEN output
                            ELSE IF sorted[i].value = <<>> THEN f[i - 1]
                            ELSE ReplaceValue(f[i - 1], sorted[i].value)]
    BY <2>1
  <2> QED BY <1>4, <2>2 DEF IsRedaction, IsIteration
<1> DEFINE g == CHOOSE g : IsRedaction(g, output, sorted)
<1>7. IsRedaction(g, output, sorted)
  BY <1>6
<1>8. RedactInOrder(output, sorted) = g[N]
  BY DEF RedactInOrder, IsRedaction
<1> HIDE DEF g
<1>9. /\ g[0] = output
      /\ \A i \in 1 .. N : g[i] = RedactOne(g[i - 1], sorted[i].value)
  <2>1. \A i \in 0 .. N : g[i] = IF i = 0 THEN output
                                ELSE IF sorted[i].value = <<>> THEN g[i - 1]
                                ELSE ReplaceValue(g[i - 1], sorted[i].value)
    BY <1>7, Zenon DEF IsRedaction
  <2>2. 0 \in 0 .. N /\ \A i \in 1 .. N : i \in 0 .. N /\ i # 0
    BY <1>1
  <2> QED BY <2>1, <2>2, Zenon DEF RedactOne
<1> DEFINE D == {i \in 0 .. N : g[i] \in S}
<1>10. 0 \in D
  BY <1>1, <1>3, <1>9
<1>11. ASSUME NEW i \in 0 .. N - 1, i \in D
       PROVE  i + 1 \in D
  <2>1. i + 1 \in 1 .. N /\ i + 1 \in 0 .. N /\ (i + 1) - 1 = i
    BY <1>1
  <2>2. g[i + 1] = RedactOne(g[i], sorted[i + 1].value) /\ sorted[i + 1].value \in Seq(STRING)
    BY <1>1, <1>9, <2>1
  <2>3. g[i] \in Seq(Units)
    BY <1>11
  <2>4. g[i + 1] \in S
    BY <2>2, <2>3, ReplaceUnits
  <2> QED BY <2>1, <2>4
<1>12. \A i \in 0 .. N : i \in D
  <2>1. \A i \in 0 .. N - 1 : i \in D => i + 1 \in D
    BY <1>11
  <2> HIDE DEF D, N
  <2> QED BY <1>1, <1>10, <2>1, UpToInduction, Zenon
<1>13. g = [i \in 0 .. N |-> g[i]]
  BY <1>7 DEF IsRedaction
<1>14. g \in [0 .. N -> S]
  <2> HIDE DEF S, N
  <2> QED BY <1>12, <1>13
<1>15. Rounds(g, output, sorted)
  BY <1>8, <1>9, <1>14 DEF Rounds
<1> QED BY <1>15

(* A round does not depart from the output.                                *)
LEMMA RoundGood ==
  ASSUME NEW raw \in Seq(STRING), NEW lo \in Nat \ {0},
         NEW t, Good(t, raw, lo), NEW v \in Seq(STRING)
  PROVE  /\ Good(RedactOne(t, v), raw, lo)
         /\ KeptIn(RedactOne(t, v)) \subseteq KeptIn(t)
         /\ v # <<>> => \A p \in SpansOf(raw, {v}) :
              ~(p[1] .. p[2] \subseteq KeptIn(RedactOne(t, v)))
<1>1. CASE v = <<>>
  BY <1>1 DEF RedactOne
<1>2. CASE v # <<>>
  <2>1. RedactOne(t, v) = ReplaceValue(t, v)
    BY <1>2 DEF RedactOne
  <2> QED BY <1>2, <2>1, ReplaceGood, ReplaceBreaks
<1> QED BY <1>1, <1>2

(* The values that RedactSecrets replaces.                                 *)
ValuesOf(secrets) == {s.value : s \in ToSet(secrets)} \ {<<>>}

(* They are the values of the sorted list, too.                            *)
LEMMA SortedValues ==
  ASSUME NEW secrets \in Seq(Secrets), NEW sorted, sorted = sortSecretsByValueLength(secrets)
  PROVE  /\ ValuesOf(secrets) \subseteq Seq(STRING) \ {<<>>}
         /\ \A v \in ValuesOf(secrets) : \E i \in 1 .. Len(sorted) : sorted[i].value = v
         /\ \A i \in 1 .. Len(sorted) :
              sorted[i].value = <<>> \/ sorted[i].value \in ValuesOf(secrets)
<1>1. sorted \in Seq(Secrets) /\ ToSet(sorted) = ToSet(secrets)
  BY SortShape
<1>2. ToSet(sorted) = {sorted[i] : i \in 1 .. Len(sorted)}
  BY <1>1 DEF ToSet
<1>3. \A s \in ToSet(sorted) : s.value \in Seq(STRING)
  BY <1>1, <1>2, SecretValue
<1> QED BY <1>1, <1>2, <1>3 DEF ValuesOf

(* Of no secret that the container wrote is everything left.               *)
LEMMA RedactBreaks ==
  ASSUME NEW raw \in Seq(STRING), NEW lo \in Nat \ {0},
         NEW t, Good(t, raw, lo), NEW secrets \in Seq(Secrets)
  PROVE  /\ Good(RedactSecrets(t, secrets), raw, lo)
         /\ KeptIn(RedactSecrets(t, secrets)) \subseteq KeptIn(t)
         /\ \A p \in SpansOf(raw, ValuesOf(secrets)) :
              ~(p[1] .. p[2] \subseteq KeptIn(RedactSecrets(t, secrets)))
<1> DEFINE sorted == sortSecretsByValueLength(secrets)
           N == Len(sorted)
<1>1. sorted \in Seq(Secrets) /\ N \in Nat
  <2>1. sorted \in Seq(Secrets)
    BY SortShape
  <2> QED BY <2>1
<1>2. \A i \in 1 .. N : sorted[i].value \in Seq(STRING)
  BY <1>1, SecretValue
<1>3. /\ ValuesOf(secrets) \subseteq Seq(STRING) \ {<<>>}
      /\ \A v \in ValuesOf(secrets) : \E i \in 1 .. N : sorted[i].value = v
  BY SortedValues
<1>4. RedactSecrets(t, secrets) = RedactInOrder(t, sorted)
  BY DEF RedactSecrets
<1> HIDE DEF sorted
<1>5. PICK f : Rounds(f, t, sorted)
  BY <1>1, RedactRounds DEF Good
<1> DEFINE Broken(u, v) == \A p \in SpansOf(raw, {v}) : ~(p[1] .. p[2] \subseteq KeptIn(u))
           BrokenUpTo(i) == \A j \in 1 .. i : sorted[j].value # <<>> =>
                              Broken(f[i], sorted[j].value)
           D == {i \in 0 .. N : /\ Good(f[i], raw, lo) /\ KeptIn(f[i]) \subseteq KeptIn(t)
                                /\ BrokenUpTo(i)}
<1>6. 0 \in D
  <2>1. f[0] = t /\ 0 \in 0 .. N /\ 1 .. 0 = {}
    BY <1>1, <1>5 DEF Rounds
  <2> QED BY <2>1
<1>7. ASSUME NEW i \in 0 .. N - 1, i \in D
      PROVE  i + 1 \in D
  <2> DEFINE v == sorted[i + 1].value
             u == f[i]
             w == f[i + 1]
  <2>1. i + 1 \in 1 .. N /\ i + 1 \in 0 .. N /\ (i + 1) - 1 = i
        /\ \A j \in 1 .. i + 1 : j \in 1 .. i \/ j = i + 1
    BY <1>1
  <2>2. w = RedactOne(u, v) /\ v \in Seq(STRING)
    BY <1>2, <1>5, <2>1 DEF Rounds
  <2>3. Good(u, raw, lo) /\ KeptIn(u) \subseteq KeptIn(t) /\ BrokenUpTo(i)
    BY <1>7
  <2> HIDE DEF v, u, w
  <2>4. /\ Good(w, raw, lo) /\ KeptIn(w) \subseteq KeptIn(u)
        /\ v # <<>> => Broken(w, v)
    BY <2>2, <2>3, RoundGood
  <2>5. ASSUME NEW j \in 1 .. i + 1, sorted[j].value # <<>>
        PROVE  Broken(w, sorted[j].value)
    <3>1. CASE j = i + 1
      BY <2>4, <2>5, <3>1 DEF v
    <3>2. CASE j \in 1 .. i
      <4>1. Broken(u, sorted[j].value)
        BY <2>3, <2>5, <3>2 DEF u
      <4> QED BY <2>4, <4>1
    <3> QED BY <2>1, <3>1, <3>2
  <2> QED BY <2>1, <2>3, <2>4, <2>5 DEF w
<1>8. N \in D
  <2>1. \A i \in 0 .. N - 1 : i \in D => i + 1 \in D
    BY <1>7
  <2> HIDE DEF D, N
  <2>2. \A i \in 0 .. N : i \in D
    BY <1>1, <1>6, <2>1, UpToInduction, Zenon
  <2> QED BY <1>1, <2>2
<1>9. f[N] = RedactSecrets(t, secrets)
  BY <1>4, <1>5 DEF Rounds
<1>10. ASSUME NEW p \in SpansOf(raw, ValuesOf(secrets))
       PROVE  ~(p[1] .. p[2] \subseteq KeptIn(f[N]))
  <2>1. PICK v \in ValuesOf(secrets) : p \in SpansOf(raw, {v})
    BY <1>3, SpanMember
  <2>2. PICK j \in 1 .. N : sorted[j].value = v
    BY <1>3
  <2>3. Broken(f[N], v)
    BY <1>3, <1>8, <2>2
  <2> QED BY <2>1, <2>3
<1> QED BY <1>8, <1>9, <1>10

(* Of a span of the output from position lo on, a part is left only where  *)
(* another span crosses it.                                                *)
Fragments(t, raw, lo, v, spans) ==
  \A p \in SpansOf(raw, {v}) :
    p[1] >= lo /\ (p[1] .. p[2]) \cap KeptIn(t) # {} => \E q \in spans : Crosses(p, q)

(* It is so after the round of its value, if what was missing before are   *)
(* spans that are at least as long.                                        *)
LEMMA LostFragments ==
  ASSUME NEW raw \in Seq(STRING), NEW lo \in Nat \ {0}, NEW t,
         NEW v \in Seq(STRING), v # <<>>,
         NEW values, values \subseteq Seq(STRING) \ {<<>>},
         Lost(t, raw, lo, SpansOf(raw, values), Len(v)),
         \A p \in SpansOf(raw, {v}) : ~(p[1] .. p[2] \subseteq KeptIn(t))
  PROVE  Fragments(t, raw, lo, v, SpansOf(raw, values))
<1> DEFINE spans == SpansOf(raw, values)
<1> SUFFICES ASSUME NEW p \in SpansOf(raw, {v}), p[1] >= lo,
                    (p[1] .. p[2]) \cap KeptIn(t) # {}
             PROVE  \E q \in spans : Crosses(p, q)
  BY DEF Fragments
<1>1. /\ Len(v) \in Nat \ {0} /\ p[1] \in Nat \ {0} /\ p[2] \in Nat
      /\ p[2] = p[1] + Len(v) - 1 /\ p[2] <= Len(raw) /\ Len(raw) \in Nat
  BY SpanOfValue
<1>2. PICK x \in p[1] .. p[2] : x \notin KeptIn(t)
  OBVIOUS
<1>3. x \in lo .. Len(raw)
  BY <1>1, <1>2
<1>4. PICK q \in spans : /\ q[1] <= x /\ x <= q[2] /\ Len(v) <= q[2] - q[1] + 1
                         /\ \A y \in q[1] .. q[2] : y \notin KeptIn(t)
  BY <1>2, <1>3 DEF Lost
<1>5. q[1] \in Nat /\ q[2] \in Nat
  <2>1. PICK w \in values : q \in SpansOf(raw, {w})
    BY <1>4, SpanMember
  <2>2. w \in Seq(STRING) /\ w # <<>>
    OBVIOUS
  <2> QED BY <2>1, <2>2, SpanOfValue
<1>6. PICK y \in p[1] .. p[2] : y \in KeptIn(t)
  OBVIOUS
<1> DEFINE a == p[1]
           b == p[2]
           c == q[1]
           d == q[2]
<1>7. ~(c <= y /\ y <= d) /\ a <= y /\ y <= b /\ y \in Nat
  BY <1>1, <1>4, <1>5, <1>6, SMTT(30)
<1> HIDE DEF a, b, c, d
<1>8. a <= d /\ c <= b /\ ~(c <= a /\ b <= d) /\ ~(a <= c /\ d <= b)
  <2>1. a \in Nat /\ b \in Nat /\ c \in Nat /\ d \in Nat /\ b = a + Len(v) - 1
        /\ Len(v) <= d - c + 1 /\ x \in a .. b /\ c <= x /\ x <= d
    BY <1>1, <1>2, <1>4, <1>5 DEF a, b, c, d
  <2> QED BY <1>1, <1>7, <2>1, SMTT(30)
<1>9. Crosses(p, q)
  BY <1>8 DEF Crosses, Overlap, Within, a, b, c, d
<1> QED BY <1>9

(* If no value has a character of the placeholder, what is missing at the  *)
(* end are spans, and no part of a span is left that no other crosses.     *)
LEMMA RedactPlain ==
  ASSUME NEW raw \in Seq(STRING), NEW lo \in Nat \ {0}, lo <= Len(raw) + 1,
         NEW t, Good(t, raw, lo), Light(t, raw, lo), lo .. Len(raw) \subseteq KeptIn(t),
         NEW secrets \in Seq(Secrets), \A v \in ValuesOf(secrets) : PlainValue(v)
  PROVE  LET u == RedactSecrets(t, secrets)
             spans == SpansOf(raw, ValuesOf(secrets))
         IN /\ Lost(u, raw, lo, spans, 0)
            /\ Light(u, raw, lo)
            /\ \A p \in spans :
                 p[1] >= lo /\ (p[1] .. p[2]) \cap KeptIn(u) # {} =>
                   \E q \in spans : Crosses(p, q)
<1> DEFINE sorted == sortSecretsByValueLength(secrets)
           N == Len(sorted)
           values == ValuesOf(secrets)
           spans == SpansOf(raw, values)
<1>1. sorted \in Seq(Secrets) /\ N \in Nat /\ Descending(sorted)
  <2>1. sorted \in Seq(Secrets) /\ Descending(sorted)
    BY SortShape
  <2> QED BY <2>1
<1>2. \A i \in 1 .. N : sorted[i].value \in Seq(STRING) /\ Len(sorted[i].value) \in Nat
  BY <1>1, SecretValue
<1>3. /\ values \subseteq Seq(STRING) \ {<<>>}
      /\ \A v \in values : \E i \in 1 .. N : sorted[i].value = v
      /\ \A i \in 1 .. N : sorted[i].value = <<>> \/ sorted[i].value \in values
  BY SortedValues
<1>4. \A v \in values : PlainValue(v)
  OBVIOUS
<1>5. RedactSecrets(t, secrets) = RedactInOrder(t, sorted)
  BY DEF RedactSecrets
<1> HIDE DEF sorted, values
<1>6. PICK f : Rounds(f, t, sorted)
  BY <1>1, RedactRounds DEF Good
<1> DEFINE Shortest(k, i) == \A j \in 1 .. i : k <= Len(sorted[j].value)
           LostUpTo(i) == \A k \in Nat : Shortest(k, i) => Lost(f[i], raw, lo, spans, k)
           PartsUpTo(i) == \A j \in 1 .. i : sorted[j].value # <<>> =>
                             Fragments(f[i], raw, lo, sorted[j].value, spans)
           D == {i \in 0 .. N : /\ Good(f[i], raw, lo) /\ Light(f[i], raw, lo)
                                /\ LostUpTo(i) /\ PartsUpTo(i)}
<1>7. 0 \in D
  <2>1. f[0] = t /\ 0 \in 0 .. N /\ 1 .. 0 = {}
    BY <1>1, <1>6 DEF Rounds
  <2>2. \A k \in Nat : Lost(t, raw, lo, spans, k)
    BY DEF Lost
  <2> QED BY <2>1, <2>2
<1>8. ASSUME NEW i \in 0 .. N - 1, i \in D
      PROVE  i + 1 \in D
  <2> DEFINE v == sorted[i + 1].value
             u == f[i]
             w == f[i + 1]
  <2>1. i + 1 \in 1 .. N /\ i + 1 \in 0 .. N /\ (i + 1) - 1 = i
        /\ (\A j \in 1 .. i + 1 : j \in 1 .. i \/ j = i + 1)
        /\ (\A j \in 1 .. i : j \in 1 .. i + 1 /\ j \in 1 .. N /\ j < i + 1)
    BY <1>1
  <2>2. w = RedactOne(u, v) /\ v \in Seq(STRING) /\ Len(v) \in Nat
        /\ (v = <<>> \/ v \in values)
    BY <1>2, <1>3, <1>6, <2>1 DEF Rounds
  <2>3. Good(u, raw, lo) /\ Light(u, raw, lo) /\ LostUpTo(i) /\ PartsUpTo(i)
    BY <1>8
  <2> HIDE DEF LostUpTo, PartsUpTo
  <2>4. Good(w, raw, lo) /\ KeptIn(w) \subseteq KeptIn(u)
        /\ (v # <<>> => \A p \in SpansOf(raw, {v}) : ~(p[1] .. p[2] \subseteq KeptIn(w)))
    <3> HIDE DEF v, u, w
    <3> QED BY <2>2, <2>3, RoundGood
  <2>5. Lost(u, raw, lo, spans, Len(v))
    <3>1. \A j \in 1 .. i : Len(v) <= Len(sorted[j].value)
      BY <1>1, <2>1 DEF Descending
    <3>2. Shortest(Len(v), i)
      BY <3>1
    <3> HIDE DEF Shortest, v
    <3> QED BY <2>2, <2>3, <3>2 DEF LostUpTo
  <2>6. ASSUME v # <<>>
        PROVE  Lost(w, raw, lo, spans, Len(v)) /\ Light(w, raw, lo)
    <3>1. w = ReplaceValue(u, v) /\ v \in values /\ values \subseteq Seq(STRING) /\ PlainValue(v)
      BY <1>3, <1>4, <2>2, <2>6 DEF RedactOne
    <3> HIDE DEF v, u, w
    <3> QED BY <2>3, <2>5, <2>6, <3>1, ReplacePlain
  <2>7. Light(w, raw, lo)
    <3>1. CASE v = <<>>
      BY <2>2, <2>3, <3>1 DEF RedactOne
    <3>2. CASE v # <<>>
      BY <2>6, <3>2
    <3> QED BY <3>1, <3>2
  <2>8. LostUpTo(i + 1)
    <3> SUFFICES ASSUME NEW k \in Nat, Shortest(k, i + 1)
                 PROVE  Lost(w, raw, lo, spans, k)
      BY DEF LostUpTo
    <3>1. Shortest(k, i) /\ k <= Len(v)
      BY <2>1
    <3>2. CASE v = <<>>
      <4>1. Lost(u, raw, lo, spans, k)
        <5> HIDE DEF Shortest
        <5> QED BY <2>3, <3>1 DEF LostUpTo
      <4>2. w = u
        BY <2>2, <3>2 DEF RedactOne
      <4> QED BY <4>1, <4>2
    <3>3. CASE v # <<>>
      <4>1. Lost(w, raw, lo, spans, Len(v))
        BY <2>6, <3>3
      <4>2. \A q \in spans : q[1] \in Nat /\ q[2] \in Nat
        <5>1. \A x \in values : x \in Seq(STRING) /\ x # <<>>
          BY <1>3
        <5>2. ASSUME NEW q \in spans
              PROVE  q[1] \in Nat /\ q[2] \in Nat
          <6>1. PICK x \in values : q \in SpansOf(raw, {x})
            BY <1>3, SpanMember
          <6> QED BY <5>1, <6>1, SpanOfValue
        <5> QED BY <5>2
      <4> HIDE DEF v, w, spans
      <4>3. \A q \in spans : Len(v) <= q[2] - q[1] + 1 => k <= q[2] - q[1] + 1
        BY <2>2, <3>1, <4>2
      <4> QED BY <4>1, <4>3 DEF Lost
    <3> QED BY <3>2, <3>3
  <2>9. PartsUpTo(i + 1)
    <3> SUFFICES ASSUME NEW j \in 1 .. i + 1, sorted[j].value # <<>>
                 PROVE  Fragments(w, raw, lo, sorted[j].value, spans)
      BY DEF PartsUpTo
    <3>1. CASE j = i + 1
      <4>1. sorted[j].value = v /\ v # <<>> /\ v \in Seq(STRING)
            /\ (\A p \in SpansOf(raw, {v}) : ~(p[1] .. p[2] \subseteq KeptIn(w)))
        BY <2>2, <2>4, <3>1
      <4>2. Lost(w, raw, lo, spans, Len(v))
        BY <2>6, <4>1
      <4> HIDE DEF v, w
      <4> QED BY <1>3, <4>1, <4>2, LostFragments
    <3>2. CASE j \in 1 .. i
      <4>1. Fragments(u, raw, lo, sorted[j].value, spans)
        BY <2>3, <3>2 DEF PartsUpTo
      <4> HIDE DEF u, w, spans
      <4>2. \A p \in SpansOf(raw, {sorted[j].value}) :
              (p[1] .. p[2]) \cap KeptIn(w) # {} => (p[1] .. p[2]) \cap KeptIn(u) # {}
        BY <2>4
      <4> QED BY <4>1, <4>2 DEF Fragments
    <3> QED BY <2>1, <3>1, <3>2
  <2> QED BY <2>1, <2>4, <2>7, <2>8, <2>9
<1>9. N \in D
  <2>1. \A i \in 0 .. N - 1 : i \in D => i + 1 \in D
    BY <1>8
  <2> HIDE DEF D, N
  <2>2. \A i \in 0 .. N : i \in D
    BY <1>1, <1>7, <2>1, UpToInduction, Zenon
  <2> QED BY <1>1, <2>2
<1>10. f[N] = RedactSecrets(t, secrets)
  BY <1>5, <1>6 DEF Rounds
<1>11. ASSUME NEW p \in spans, p[1] >= lo, (p[1] .. p[2]) \cap KeptIn(f[N]) # {}
       PROVE  \E q \in spans : Crosses(p, q)
  <2>1. PICK v \in values : p \in SpansOf(raw, {v})
    BY <1>3, SpanMember
  <2>2. PICK j \in 1 .. N : sorted[j].value = v
    BY <1>3
  <2>3. Fragments(f[N], raw, lo, v, spans)
    BY <1>3, <1>9, <2>2
  <2> QED BY <1>11, <2>1, <2>3 DEF Fragments
<1>12. Lost(f[N], raw, lo, spans, 0)
  <2>1. Shortest(0, N)
    BY <1>2
  <2> HIDE DEF Shortest
  <2> QED BY <1>9, <2>1
<1> QED BY <1>9, <1>10, <1>11, <1>12 DEF values

-----------------------------------------------------------------------------
(* truncateTail                                                            *)

(* The first position that is kept of n.                                   *)
Cut(n, max) == (IF n > max THEN n - max ELSE 0) + 1

(* What is redacted: everything from that position on.                     *)
LEMMA TailShape ==
  ASSUME NEW raw \in Seq(STRING), NEW max \in Nat
  PROVE  LET t == truncateTail(Written(raw), max)
             lo == Cut(Len(raw), max)
         IN /\ lo \in Nat \ {0} /\ lo <= Len(raw) + 1 /\ Len(raw) - lo + 1 <= max
            /\ Good(t, raw, lo) /\ lo .. Len(raw) \subseteq KeptIn(t) /\ Light(t, raw, lo)
<1> DEFINE n == Len(raw)
           lo == Cut(n, max)
           w == Written(raw)
           t == truncateTail(w, max)
           N == n - lo + 1
<1>1. n \in Nat /\ \A i \in 1 .. n : raw[i] \in STRING
  OBVIOUS
<1>2. /\ lo \in Nat \ {0} /\ lo <= n + 1 /\ N <= max /\ N \in Nat
      /\ n <= max => lo = 1
      /\ n > max => lo = n - max + 1
  <2> HIDE DEF n
  <2> QED BY <1>1 DEF Cut
<1>3. w \in Seq(Units) /\ Len(w) = n /\ \A i \in 1 .. n : w[i].at = i /\ w[i].c = raw[i]
  <2>1. \A i \in 1 .. n : w[i] = [c |-> raw[i], at |-> i] /\ [c |-> raw[i], at |-> i] \in Units
    BY <1>1 DEF Written, Unit, Units
  <2>2. w \in [1 .. n -> Units]
    BY <2>1 DEF Written
  <2>3. w \in Seq(Units) /\ Len(w) = n
    <3> HIDE DEF w, n
    <3> QED BY <1>1, <2>2, FunctionIsSequence
  <2>4. \A i \in 1 .. n : w[i].at = i /\ w[i].c = raw[i]
    <3> TAKE i \in 1 .. n
    <3>1. w[i] = [c |-> raw[i], at |-> i]
      BY <2>1
    <3> HIDE DEF w
    <3> QED BY <3>1
  <2> HIDE DEF w, n
  <2> QED BY <2>3, <2>4
<1> HIDE DEF w
<1>4. t \in Seq(Units) /\ Len(t) = N /\ \A i \in 1 .. N : t[i] = w[lo + i - 1]
  <2>1. CASE n <= max
    <3>1. t = w /\ lo = 1 /\ N = n
      BY <1>1, <1>2, <1>3, <2>1 DEF truncateTail
    <3> HIDE DEF t, lo, N, n
    <3> QED BY <1>1, <1>3, <3>1
  <2>2. CASE n > max
    <3>1. t = SubSeq(w, lo, n) /\ lo = n - max + 1
      BY <1>1, <1>2, <1>3, <2>2 DEF truncateTail
    <3> HIDE DEF t, lo, n
    <3> QED BY <1>1, <1>2, <1>3, <3>1
  <2> QED BY <1>1, <2>1, <2>2
<1> HIDE DEF t, lo, n
<1>5. \A i \in 1 .. N : /\ lo + i - 1 \in lo .. n /\ lo + i - 1 \in 1 .. n
                        /\ t[i].at = lo + i - 1 /\ t[i].c = raw[lo + i - 1]
  <2> TAKE i \in 1 .. N
  <2>1. lo + i - 1 \in lo .. n /\ lo + i - 1 \in 1 .. n
    BY <1>1, <1>2
  <2> HIDE DEF N
  <2>2. t[i] = w[lo + i - 1]
    BY <1>4
  <2> QED BY <1>3, <2>1, <2>2
<1>6. KeptIn(t) = lo .. n
  <2>1. \A x \in lo .. n : x # 0 /\ x - lo + 1 \in 1 .. N /\ lo + (x - lo + 1) - 1 = x
    BY <1>1, <1>2
  <2>2. ASSUME NEW x \in lo .. n
        PROVE  x \in KeptIn(t)
    <3>1. t[x - lo + 1].at = x
      BY <1>5, <2>1
    <3> QED BY <1>4, <2>1, <3>1, KeptMember
  <2>3. ASSUME NEW x \in KeptIn(t)
        PROVE  x \in lo .. n
    <3>1. PICK i \in 1 .. N : t[i].at = x
      BY <1>4, <2>3, KeptMember
    <3> QED BY <1>5, <3>1
  <2> QED BY <2>2, <2>3
<1>7. Good(t, raw, lo)
  <2>1. ASSUME NEW i \in 1 .. N, NEW k \in 1 .. N, i < k
        PROVE  t[i].at < t[k].at /\ (k = i + 1 <=> t[k].at = t[i].at + 1)
    BY <1>2, <1>5, <2>1, SMTT(30)
  <2>2. \A i \in 1 .. N : t[i].at \in lo .. Len(raw) /\ t[i].c = raw[t[i].at]
    BY <1>5 DEF n
  <2> QED BY <1>4, <2>1, <2>2 DEF Good
<1>8. Light(t, raw, lo)
  <2> DEFINE l == Len(Mark)
  <2>1. IsFiniteSet(lo .. n) /\ Cardinality(lo .. n) = N
    <3>1. lo \in Int /\ n \in Int /\ (IF lo > n THEN 0 ELSE n - lo + 1) = N
      BY <1>1, <1>2
    <3>2. IsFiniteSet(lo .. n) /\ Cardinality(lo .. n) = IF lo > n THEN 0 ELSE n - lo + 1
      BY <3>1, FS_Interval, Zenon
    <3> QED BY <3>1, <3>2, Zenon
  <2>2. l \in Nat \ {0} /\ N \in Nat
    BY <1>2, MarkShape
  <2> HIDE DEF N, l
  <2>3. N + (l - 1) * N = l * N
    BY <2>2
  <2>4. N + (l - 1) * N <= l * N
    <3>1. l * N \in Nat
      BY <2>2
    <3> QED BY <2>3, <3>1
  <2> QED BY <1>4, <1>6, <2>1, <2>4 DEF Light, l, N, n
<1> QED BY <1>2, <1>6, <1>7, <1>8 DEF t, lo, n, w, N

(* Logs that could not be read.                                            *)
LEMMA NoLogsShape ==
  ASSUME NEW raw \in Seq(STRING), NEW lo \in Nat \ {0}
  PROVE  /\ Good(<<>>, raw, lo) /\ KeptIn(<<>>) = {}
         /\ \A max \in Nat : truncateTail(<<>>, max) = <<>>
BY DEF Good, KeptIn, truncateTail

(* Nothing is made of them.                                                *)
LEMMA RedactNothing ==
  ASSUME NEW secrets \in Seq(Secrets), \A v \in ValuesOf(secrets) : PlainValue(v)
  PROVE  RedactSecrets(<<>>, secrets) = <<>>
<1> DEFINE e == <<>>
           u == RedactSecrets(e, secrets)
<1>1. e \in Seq(STRING) /\ Len(e) = 0 /\ 1 \in Nat \ {0} /\ 1 <= Len(e) + 1
      /\ 1 .. Len(e) = {}
  OBVIOUS
<1>2. Good(e, e, 1) /\ KeptIn(e) = {}
  BY DEF Good, KeptIn
<1> HIDE DEF e, u
<1>3. Light(e, e, 1) /\ 1 .. Len(e) \subseteq KeptIn(e)
  <2>1. IsFiniteSet({}) /\ Cardinality({}) = 0
    BY FS_EmptySet
  <2>2. Len(Mark) \in Nat
    BY MarkShape
  <2> QED BY <1>1, <1>2, <2>1, <2>2 DEF Light
<1>4. Light(u, e, 1) /\ u \in Seq(Units)
  <2>1. Light(u, e, 1)
    BY <1>1, <1>2, <1>3, RedactPlain DEF u
  <2>2. Good(u, e, 1)
    BY <1>1, <1>2, RedactBreaks DEF u
  <2> QED BY <2>1, <2>2 DEF Good
<1>5. Len(u) = 0
  <2> DEFINE c == Cardinality(KeptIn(u))
             l == Len(Mark)
  <2>1. c \in Nat /\ l \in Nat \ {0} /\ Len(u) \in Nat
    BY <1>4, MarkShape, FS_CardinalityType DEF Light
  <2>2. Len(u) + (l - 1) * c <= l * (0 - 1 + 1)
    BY <1>1, <1>4 DEF Light
  <2>3. (l - 1) * c \in Nat /\ l * (0 - 1 + 1) = 0
    <3> HIDE DEF l, c
    <3>1. l - 1 \in Nat
      BY <2>1
    <3> QED BY <2>1, <3>1
  <2> HIDE DEF c, l
  <2> DEFINE z == (l - 1) * c
  <2> HIDE DEF z
  <2> QED BY <2>1, <2>2, <2>3 DEF z
<1> QED BY <1>4, <1>5 DEF u, e

=============================================================================
