---------------------------- MODULE BasicLemmas -----------------------------
(***************************************************************************)
(* Induction over the natural numbers, stated with sets in place of the    *)
(* predicates of the library, so that it can be cited: a property of n is  *)
(* given as the set of the numbers that have it.  It serves the recursive  *)
(* functions by which Redaction and ConfigBuilder model loops over strings *)
(* and lists.  Then, what a concatenation of sequences is.                 *)
(***************************************************************************)
EXTENDS Integers, Sequences, WellFoundedInduction, TLAPS

(* A set of natural numbers that is not empty has a least element.         *)
LEMMA LeastNumber ==
  ASSUME NEW T, T \subseteq Nat, T # {}
  PROVE  \E n \in T : \A m \in T : n <= m
<1> DEFINE R == OpToRel(<, Nat)
<1>1. IsWellFoundedOn(R, Nat)
  BY NatLessThanWellFounded, Zenon DEF R
<1>2. PICK n \in T : \A m \in T : ~(<<m, n>> \in R)
  <2> HIDE DEF R
  <2> QED BY <1>1, WFMin
<1>3. \A m \in T : ~(m < n)
  BY <1>2 DEF OpToRel
<1> QED BY <1>3

(* Induction from n to n + 1.                                              *)
LEMMA NatInductionSet ==
  ASSUME NEW S, 0 \in S, \A n \in Nat : n \in S => n + 1 \in S
  PROVE  \A n \in Nat : n \in S
<1> SUFFICES ASSUME Nat \ S # {} PROVE FALSE
  OBVIOUS
<1>1. PICK n \in Nat \ S : \A m \in Nat \ S : n <= m
  BY LeastNumber
<1>2. n - 1 \in Nat /\ n - 1 \in S
  BY <1>1
<1> QED BY <1>1, <1>2

(* Induction over 0 .. N.                                                  *)
LEMMA UpToInduction ==
  ASSUME NEW N \in Nat, NEW S, 0 \in S,
         \A n \in 0 .. N - 1 : n \in S => n + 1 \in S
  PROVE  \A n \in 0 .. N : n \in S
<1> DEFINE T == S \cup {n \in Nat : n > N}
<1>1. 0 \in T
  OBVIOUS
<1>2. \A n \in Nat : n \in T => n + 1 \in T
  OBVIOUS
<1>3. \A n \in Nat : n \in T
  <2> HIDE DEF T
  <2> QED BY <1>1, <1>2, NatInductionSet
<1> QED BY <1>3

(* f is the run of a loop that starts with base and has N rounds.          *)
IsIteration(f, base, G, N) ==
  f = [i \in 0 .. N |-> IF i = 0 THEN base ELSE G[<<f[i - 1], i>>]]

(* A loop has a run: the values that G computes one after the other.       *)
LEMMA IterationExists ==
  ASSUME NEW S, NEW base \in S, NEW N \in Nat, NEW G \in [S \X (1 .. N) -> S]
  PROVE  \E f \in [0 .. N -> S] : IsIteration(f, base, G, N)
<1> DEFINE Run(f, n) == /\ f[0] = base
                        /\ \A i \in 1 .. n : f[i] = G[<<f[i - 1], i>>]
           D == {n \in Nat : \E f \in [0 .. n -> S] : Run(f, n)}
<1>1. 0 \in D
  <2>1. [i \in 0 .. 0 |-> base] \in [0 .. 0 -> S]
    OBVIOUS
  <2>2. Run([i \in 0 .. 0 |-> base], 0)
    OBVIOUS
  <2> QED BY <2>1, <2>2
<1>2. ASSUME NEW n \in 0 .. N - 1, n \in D
      PROVE  n + 1 \in D
  <2>1. PICK f \in [0 .. n -> S] : Run(f, n)
    BY <1>2
  <2> DEFINE next == G[<<f[n], n + 1>>]
             g == [i \in 0 .. n + 1 |-> IF i = n + 1 THEN next ELSE f[i]]
  <2>2. f[n] \in S /\ n + 1 \in 1 .. N
    BY <2>1
  <2>3. next \in S
    BY <2>2
  <2> HIDE DEF next
  <2>4. g \in [0 .. n + 1 -> S]
    BY <2>1, <2>3
  <2>5. g[0] = base
    BY <2>1
  <2>6. ASSUME NEW i \in 1 .. n + 1
        PROVE  g[i] = G[<<g[i - 1], i>>]
    <3>1. CASE i = n + 1
      <4>1. g[i] = next /\ i - 1 = n /\ g[i - 1] = f[n]
        BY <3>1
      <4> QED BY <3>1, <4>1 DEF next
    <3>2. CASE i # n + 1
      <4>1. i \in 1 .. n /\ g[i] = f[i] /\ g[i - 1] = f[i - 1]
        BY <3>2
      <4> QED BY <2>1, <4>1
    <3> QED BY <3>1, <3>2
  <2> HIDE DEF g
  <2> QED BY <2>4, <2>5, <2>6
<1>3. N \in D
  <2> HIDE DEF D
  <2> QED BY <1>1, <1>2, UpToInduction
<1>4. PICK f \in [0 .. N -> S] : Run(f, N)
  BY <1>3
<1>5. IsIteration(f, base, G, N)
  BY <1>4 DEF IsIteration
<1> QED BY <1>5

-----------------------------------------------------------------------------
(* Sequences.                                                              *)

(* A function on 1 .. n is a sequence.                                     *)
LEMMA FunctionIsSequence ==
  ASSUME NEW S, NEW n \in Nat, NEW f \in [1 .. n -> S]
  PROVE  f \in Seq(S) /\ Len(f) = n
OBVIOUS

(* The elements of a concatenation.                                        *)
LEMMA ConcatShape ==
  ASSUME NEW S, NEW a \in Seq(S), NEW b \in Seq(S)
  PROVE  /\ a \o b \in Seq(S) /\ Len(a \o b) = Len(a) + Len(b)
         /\ \A i \in 1 .. Len(a) : (a \o b)[i] = a[i]
         /\ \A i \in Len(a) + 1 .. Len(a) + Len(b) : (a \o b)[i] = b[i - Len(a)]
OBVIOUS

(* d has the elements of a, of b and of c.                                 *)
Joined(S, d, a, b, c) ==
  /\ d \in Seq(S) /\ Len(d) = Len(a) + Len(b) + Len(c)
  /\ \A i \in 1 .. Len(a) : d[i] = a[i]
  /\ \A i \in Len(a) + 1 .. Len(a) + Len(b) : d[i] = b[i - Len(a)]
  /\ \A i \in Len(a) + Len(b) + 1 .. Len(a) + Len(b) + Len(c) :
       d[i] = c[i - Len(a) - Len(b)]

(* A concatenation of three sequences has them.                            *)
LEMMA ConcatThree ==
  ASSUME NEW S, NEW a \in Seq(S), NEW b \in Seq(S), NEW c \in Seq(S)
  PROVE  Joined(S, a \o b \o c, a, b, c)
BY DEF Joined

Associates(a, b, c) == a \o (b \o c) = (a \o b) \o c

(* Concatenation is associative.                                           *)
LEMMA ConcatAssociates ==
  ASSUME NEW S, NEW a \in Seq(S), NEW b \in Seq(S), NEW c \in Seq(S)
  PROVE  Associates(a, b, c)
BY DEF Associates

(* The empty sequence is its unit.                                         *)
LEMMA ConcatEmpty ==
  ASSUME NEW S, NEW a \in Seq(S)
  PROVE  a \o <<>> = a /\ <<>> \o a = a
OBVIOUS

(* Two sequences with the same elements are equal.                         *)
LEMMA SequencesEqual ==
  ASSUME NEW S, NEW a \in Seq(S), NEW b \in Seq(S), Len(a) = Len(b),
         \A i \in 1 .. Len(a) : a[i] = b[i]
  PROVE  a = b
OBVIOUS

(* A sequence of one element.                                              *)
LEMMA OneElement ==
  ASSUME NEW S, NEW x \in S
  PROVE  <<x>> \in Seq(S) /\ Len(<<x>>) = 1 /\ <<x>>[1] = x /\ <<x>> # <<>>
OBVIOUS

(* A sequence of elements of a set is one of elements of a larger set.     *)
LEMMA SeqMonotone ==
  ASSUME NEW S, NEW T, S \subseteq T, NEW s \in Seq(S)
  PROVE  s \in Seq(T)
<1>1. Len(s) \in Nat /\ s \in [1 .. Len(s) -> S]
  OBVIOUS
<1>2. s \in [1 .. Len(s) -> T]
  <2>1. \A i \in 1 .. Len(s) : s[i] \in T
    BY <1>1
  <2>2. s = [i \in 1 .. Len(s) |-> s[i]]
    BY <1>1
  <2> QED BY <2>1, <2>2
<1> QED BY <1>1, <1>2, FunctionIsSequence

=============================================================================
