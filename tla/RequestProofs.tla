---------------------------- MODULE RequestProofs ---------------------------
(***************************************************************************)
(* What extractRegistry and parseCommand make of a reference and of a      *)
(* command, however these are written.                                     *)
(***************************************************************************)
EXTENDS Validator, ConfigBuilder, BasicLemmas

-----------------------------------------------------------------------------
(* Image references.                                                       *)

(* i is the first place of c in s, j the last one.                         *)
FirstPlace(i, s, c) ==
  /\ i \in 0 .. Len(s)
  /\ i = 0 => \A k \in 1 .. Len(s) : s[k] # c
  /\ i # 0 => s[i] = c /\ \A k \in 1 .. i - 1 : s[k] # c

LastPlace(j, s, c) ==
  /\ j \in 0 .. Len(s)
  /\ \A k \in j + 1 .. Len(s) : s[k] # c
  /\ j # 0 => s[j] = c

(* IndexOf finds the first place.                                          *)
LEMMA IndexShape ==
  ASSUME NEW S, NEW s \in Seq(S), NEW c
  PROVE  FirstPlace(IndexOf(s, c), s, c)
<1> DEFINE I == {i \in 1 .. Len(s) : s[i] = c}
           m == CHOOSE x \in I : \A y \in I : x <= y
<1>1. Len(s) \in Nat
  OBVIOUS
<1>2. IndexOf(s, c) = IF I # {} THEN m ELSE 0
  BY DEF IndexOf, SelectInSeq, Min
<1>3. CASE I = {}
  BY <1>1, <1>2, <1>3 DEF FirstPlace
<1>4. CASE I # {}
  <2>1. m \in I /\ \A y \in I : m <= y
    <3>1. I \subseteq Nat
      BY <1>1
    <3>2. \E x \in I : \A y \in I : x <= y
      <4> HIDE DEF I
      <4> QED BY <1>4, <3>1, LeastNumber
    <3> HIDE DEF I
    <3> QED BY <3>2
  <2> HIDE DEF m
  <2>2. m \in 1 .. Len(s) /\ s[m] = c
    BY <2>1
  <2>3. ASSUME NEW k \in 1 .. m - 1
        PROVE  s[k] # c
    <3>1. k \in 1 .. Len(s) /\ ~(m <= k)
      BY <1>1, <2>2
    <3> QED BY <2>1, <3>1
  <2> HIDE DEF I
  <2> QED BY <1>1, <1>2, <1>4, <2>2, <2>3 DEF FirstPlace
<1> QED BY <1>3, <1>4

(* The greatest of some of the numbers up to n.                            *)
LEMMA GreatestNumber ==
  ASSUME NEW n \in Nat, NEW T, T \subseteq 1 .. n, T # {}
  PROVE  \E x \in T : \A y \in T : x >= y
<1> DEFINE U == {n - x : x \in T}
<1>1. U \subseteq Nat /\ U # {}
  <2>1. \A x \in T : n - x \in Nat
    OBVIOUS
  <2> QED BY <2>1, Zenon
<1>2. PICK u \in U : \A v \in U : u <= v
  <2> HIDE DEF U
  <2> QED BY <1>1, LeastNumber
<1>3. PICK x \in T : u = n - x
  OBVIOUS
<1>4. ASSUME NEW y \in T
      PROVE  x >= y
  <2>1. n - y \in U
    OBVIOUS
  <2>2. n - x <= n - y
    BY <1>2, <1>3, <2>1
  <2> QED BY <2>2
<1> QED BY <1>4

(* LastIndexOf finds the last place.                                       *)
LEMMA LastIndexShape ==
  ASSUME NEW S, NEW s \in Seq(S), NEW c
  PROVE  LastPlace(LastIndexOf(s, c), s, c)
<1> DEFINE I == {i \in 1 .. Len(s) : s[i] = c}
           m == CHOOSE x \in I : \A y \in I : x >= y
<1>1. Len(s) \in Nat
  OBVIOUS
<1>2. LastIndexOf(s, c) = IF I # {} THEN m ELSE 0
  BY DEF LastIndexOf, SelectLastInSeq, Max
<1>3. CASE I = {}
  BY <1>1, <1>2, <1>3 DEF LastPlace
<1>4. CASE I # {}
  <2>1. m \in I /\ \A y \in I : m >= y
    <3>1. I \subseteq 1 .. Len(s)
      OBVIOUS
    <3>2. \E x \in I : \A y \in I : x >= y
      <4> HIDE DEF I
      <4> QED BY <1>1, <1>4, <3>1, GreatestNumber
    <3> HIDE DEF I
    <3> QED BY <3>2
  <2> HIDE DEF m
  <2>2. m \in 1 .. Len(s) /\ s[m] = c
    BY <2>1
  <2>3. ASSUME NEW k \in m + 1 .. Len(s)
        PROVE  s[k] # c
    <3>1. k \in 1 .. Len(s) /\ ~(m >= k)
      BY <1>1, <2>2
    <3> QED BY <2>1, <3>1
  <2> HIDE DEF I
  <2> QED BY <1>1, <1>2, <1>4, <2>2, <2>3 DEF LastPlace
<1> QED BY <1>3, <1>4

(* There is only one first place and one last place.                       *)
LEMMA FirstPlaceUnique ==
  ASSUME NEW S, NEW s \in Seq(S), NEW c, NEW i, FirstPlace(i, s, c),
         NEW p \in 1 .. Len(s), s[p] = c, \A k \in 1 .. p - 1 : s[k] # c
  PROVE  i = p
<1>1. i \in 1 .. Len(s) /\ s[i] = c /\ \A k \in 1 .. i - 1 : s[k] # c
  BY DEF FirstPlace
<1>2. ~(i < p)
  <2> SUFFICES ASSUME i < p PROVE FALSE
    OBVIOUS
  <2>1. i \in 1 .. p - 1
    BY <1>1
  <2> QED BY <1>1, <2>1
<1>3. ~(p < i)
  <2> SUFFICES ASSUME p < i PROVE FALSE
    OBVIOUS
  <2>1. p \in 1 .. i - 1
    BY <1>1
  <2> QED BY <1>1, <2>1
<1> QED BY <1>1, <1>2, <1>3

(* The beginning of a concatenation.                                       *)
LEMMA ConcatPrefix ==
  ASSUME NEW S, NEW a \in Seq(S), NEW b \in Seq(S)
  PROVE  SubSeq(a \o b, 1, Len(a)) = a
OBVIOUS

(* The first place of what begins the second part and is not in the first. *)
LEMMA FirstInSecond ==
  ASSUME NEW S, NEW a \in Seq(S), NEW b \in Seq(S), b # <<>>, NEW c, b[1] = c,
         c \notin ToSet(a)
  PROVE  IndexOf(a \o b, c) = Len(a) + 1
<1> DEFINE s == a \o b
           i == IndexOf(s, c)
           n == Len(a)
           m == Len(b)
<1>1. n \in Nat /\ m \in Nat \ {0} /\ \A k \in 1 .. n : a[k] # c
  BY DEF ToSet
<1>2. /\ s \in Seq(S) /\ Len(s) = n + m
      /\ \A k \in 1 .. n : s[k] = a[k]
      /\ \A k \in n + 1 .. n + m : s[k] = b[k - n]
  BY ConcatShape
<1>3. FirstPlace(i, s, c)
  BY <1>2, IndexShape
<1> HIDE DEF s, i, n, m
<1>4. n + 1 \in 1 .. Len(s) /\ s[n + 1] = c
  <2>1. n + 1 \in n + 1 .. n + m /\ (n + 1) - n = 1
    BY <1>1
  <2> QED BY <1>1, <1>2, <2>1
<1>5. \A k \in 1 .. (n + 1) - 1 : s[k] # c
  BY <1>1, <1>2
<1>6. i = n + 1
  BY <1>2, <1>3, <1>4, <1>5, FirstPlaceUnique, SMTT(30)
<1> QED BY <1>6 DEF i, n, s

(* What is in neither part is not in a concatenation.                      *)
LEMMA ConcatMembers ==
  ASSUME NEW S, NEW a \in Seq(S), NEW b \in Seq(S)
  PROVE  ToSet(a \o b) = ToSet(a) \cup ToSet(b)
<1> DEFINE s == a \o b
           n == Len(a)
           m == Len(b)
<1>1. n \in Nat /\ m \in Nat
  OBVIOUS
<1>2. /\ s \in Seq(S) /\ Len(s) = n + m
      /\ \A k \in 1 .. n : s[k] = a[k]
      /\ \A k \in n + 1 .. n + m : s[k] = b[k - n]
  BY ConcatShape
<1>3. /\ ToSet(s) = {s[k] : k \in 1 .. n + m}
      /\ ToSet(a) = {a[k] : k \in 1 .. n} /\ ToSet(b) = {b[k] : k \in 1 .. m}
  BY <1>2 DEF ToSet
<1> HIDE DEF s, n, m
<1>4. ASSUME NEW k \in 1 .. n + m
      PROVE  s[k] \in ToSet(a) \cup ToSet(b)
  <2>1. CASE k \in 1 .. n
    BY <1>2, <1>3, <2>1
  <2>2. CASE k \in n + 1 .. n + m
    <3>1. k - n \in 1 .. m
      BY <1>1, <2>2
    <3> QED BY <1>2, <1>3, <2>2, <3>1
  <2> QED BY <1>1, <2>1, <2>2
<1>5. ASSUME NEW k \in 1 .. n
      PROVE  a[k] \in ToSet(s)
  <2>1. k \in 1 .. n + m
    BY <1>1
  <2> QED BY <1>2, <1>3, <2>1
<1>6. ASSUME NEW k \in 1 .. m
      PROVE  b[k] \in ToSet(s)
  <2> DEFINE h == n + k
  <2>1. h \in n + 1 .. n + m /\ h \in 1 .. n + m /\ h - n = k
    BY <1>1
  <2> HIDE DEF h
  <2> QED BY <1>2, <1>3, <2>1
<1> QED BY <1>3, <1>4, <1>5, <1>6 DEF s

(* A digest is cut off.                                                    *)
LEMMA DigestCut ==
  ASSUME NEW S, NEW a \in Seq(S), NEW d \in Seq(S), "@" \notin ToSet(a),
         d # <<>> => d[1] = "@"
  PROVE  withoutDigest(a \o d) = a
<1>1. CASE d = <<>>
  <2>1. a \o d = a
    BY <1>1, ConcatEmpty
  <2>2. FirstPlace(IndexOf(a, "@"), a, "@")
    BY IndexShape
  <2>3. \A k \in 1 .. Len(a) : a[k] # "@"
    BY DEF ToSet
  <2>4. IndexOf(a, "@") = 0
    BY <2>2, <2>3 DEF FirstPlace
  <2> QED BY <2>1, <2>4 DEF withoutDigest
<1>2. CASE d # <<>>
  <2>1. IndexOf(a \o d, "@") = Len(a) + 1
    BY <1>2, FirstInSecond
  <2>2. Len(a) \in Nat /\ Len(a) + 1 # 0 /\ (Len(a) + 1) - 1 = Len(a)
    OBVIOUS
  <2>3. withoutDigest(a \o d) = SubSeq(a \o d, 1, Len(a))
    BY <2>1, <2>2 DEF withoutDigest
  <2> QED BY <2>3, ConcatPrefix
<1> QED BY <1>1, <1>2

(* Every colon is followed by a slash.                                     *)
PortsOnly(name) ==
  \A k \in 1 .. Len(name) : name[k] = ":" =>
    \E j \in 1 .. Len(name) : k < j /\ name[j] = "/"

(* A tag is cut off, and a port is not.                                    *)
LEMMA TagCut ==
  ASSUME NEW S, NEW y \in Seq(S), PortsOnly(y), NEW tag \in Seq(S),
         \A i \in 1 .. Len(tag) : tag[i] = ":" <=> i = 1, "/" \notin ToSet(tag)
  PROVE  withoutTag(y \o tag) = y
<1> DEFINE name == y \o tag
           n == Len(y)
           m == Len(tag)
           colon == LastIndexOf(name, ":")
           slash == LastIndexOf(name, "/")
<1>1. n \in Nat /\ m \in Nat
  OBVIOUS
<1>2. /\ name \in Seq(S) /\ Len(name) = n + m
      /\ \A k \in 1 .. n : name[k] = y[k]
      /\ \A k \in n + 1 .. n + m : name[k] = tag[k - n]
  BY ConcatShape
<1>3. LastPlace(colon, name, ":") /\ LastPlace(slash, name, "/")
  BY <1>2, LastIndexShape
<1>4. withoutTag(name) = IF colon > slash THEN SubSeq(name, 1, colon - 1) ELSE name
  BY DEF withoutTag
<1>5. \A i \in 1 .. m : tag[i] # "/"
  BY DEF ToSet
<1> HIDE DEF colon, slash
<1>6. CASE tag = <<>>
  <2>1. name = y
    BY <1>6, ConcatEmpty
  <2> HIDE DEF name, n
  <2>2. ~(colon > slash)
    <3> SUFFICES ASSUME colon > slash PROVE FALSE
      OBVIOUS
    <3>1. colon \in 1 .. Len(y) /\ y[colon] = ":" /\ slash \in Nat
      BY <1>3, <2>1 DEF LastPlace
    <3>2. PICK j \in 1 .. Len(y) : colon < j /\ y[j] = "/"
      BY <3>1 DEF PortsOnly
    <3>3. j \in slash + 1 .. Len(name)
      BY <2>1, <3>1, <3>2
    <3> QED BY <1>3, <2>1, <3>2, <3>3 DEF LastPlace
  <2> QED BY <1>4, <2>1, <2>2 DEF name
<1>7. CASE tag # <<>>
  <2> HIDE DEF name, n, m
  <2>1. m \in Nat \ {0} /\ tag[1] = ":"
    BY <1>7 DEF m
  <2>2. n + 1 \in 1 .. Len(name) /\ name[n + 1] = ":"
    <3>1. n + 1 \in n + 1 .. n + m /\ (n + 1) - n = 1
      BY <1>1, <2>1
    <3> QED BY <1>1, <1>2, <2>1, <3>1
  <2>3. ASSUME NEW k \in n + 1 .. n + m
        PROVE  name[k] # "/" /\ (k # n + 1 => name[k] # ":")
    <3> DEFINE i == k - n
    <3>1. i \in 1 .. m /\ name[k] = tag[i] /\ (k # n + 1 => i # 1)
      BY <1>1, <1>2
    <3> HIDE DEF i
    <3> QED BY <1>5, <3>1 DEF m
  <2>4. colon = n + 1
    <3>1. colon \in 0 .. n + m /\ ~(n + 1 \in colon + 1 .. Len(name))
      BY <1>2, <1>3, <2>2 DEF LastPlace
    <3>2. colon \in n + 1 .. n + m /\ name[colon] = ":"
      <4>1. colon >= n + 1
        BY <1>1, <1>2, <2>2, <3>1
      <4> QED BY <1>1, <1>3, <3>1, <4>1 DEF LastPlace
    <3> QED BY <2>3, <3>2
  <2>5. slash \in 0 .. n
    <3>1. slash \in 0 .. n + m /\ (slash # 0 => name[slash] = "/")
      BY <1>2, <1>3 DEF LastPlace
    <3> QED BY <1>1, <2>3, <3>1
  <2>6. withoutTag(name) = SubSeq(name, 1, n)
    <3>1. colon > slash /\ colon - 1 = n
      BY <1>1, <2>4, <2>5
    <3> QED BY <1>4, <3>1
  <2> QED BY <2>6, ConcatPrefix DEF name, n
<1> QED BY <1>6, <1>7

(* extractRegistry returns the registry that is meant.                     *)
LEMMA RegistryFound ==
  ASSUME NEW ref, IsReference(ref)
  PROVE  extractRegistry(ImageOf(ref)) = HostOf(ref)
<1> DEFINE Tokens == STRING \cup {"/"}
           host == ref.host
           path == ref.path
           tag == ref.tag
           digest == ref.digest
           prefix == IF host = <<>> THEN <<>> ELSE host \o <<"/">>
           y == prefix \o path
<1>1. /\ host \in Seq(Tokens) /\ path \in Seq(Tokens)
      /\ tag \in Seq(Tokens) /\ digest \in Seq(Tokens)
  <2>1. /\ host \in Seq(STRING) /\ path \in Seq(STRING)
        /\ tag \in Seq(STRING) /\ digest \in Seq(STRING)
    BY DEF IsReference
  <2>2. STRING \subseteq Tokens
    OBVIOUS
  <2> HIDE DEF Tokens, host, path, tag, digest
  <2> QED BY <2>1, <2>2, SeqMonotone
<1>2. /\ host # <<>> => NamesHost(host) /\ "/" \notin ToSet(host) /\ "@" \notin ToSet(host)
      /\ host = <<>> => LET slash == IndexOf(path, "/") IN
           slash > 0 => ~NamesHost(SubSeq(path, 1, slash - 1))
      /\ ":" \notin ToSet(path) /\ "@" \notin ToSet(path)
      /\ \A i \in 1 .. Len(tag) : tag[i] = ":" <=> i = 1
      /\ "/" \notin ToSet(tag) /\ "@" \notin ToSet(tag)
      /\ digest # <<>> => digest[1] = "@"
  BY DEF IsReference
<1>3. ImageOf(ref) = y \o tag \o digest
  BY DEF ImageOf
<1> HIDE DEF host, path, tag, digest
<1> DEFINE bar == <<"/">>
<1>4. bar \in Seq(Tokens) /\ Len(bar) = 1 /\ bar[1] = "/" /\ bar # <<>> /\ ToSet(bar) = {"/"}
  <2>1. bar \in Seq(Tokens) /\ Len(bar) = 1 /\ bar[1] = "/" /\ bar # <<>>
    <3>1. "/" \in Tokens
      OBVIOUS
    <3> QED BY <3>1, OneElement
  <2> HIDE DEF bar
  <2>2. ToSet(bar) = {"/"}
    <3>1. DOMAIN bar = {1}
      BY <2>1
    <3> QED BY <2>1, <3>1 DEF ToSet
  <2> QED BY <2>1, <2>2
<1>5. prefix = IF host = <<>> THEN <<>> ELSE host \o bar
  OBVIOUS
<1> HIDE DEF bar, prefix, Tokens
<1>6. prefix \in Seq(Tokens) /\ y \in Seq(Tokens)
  <2>1. prefix \in Seq(Tokens)
    <3>1. host \o bar \in Seq(Tokens) /\ <<>> \in Seq(Tokens)
      BY <1>1, <1>4
    <3> QED BY <1>5, <3>1, Zenon
  <2> QED BY <1>1, <2>1, ConcatShape
<1>7. "@" \notin ToSet(y \o tag) /\ y \o tag \in Seq(Tokens)
  <2>1. "@" \notin ToSet(prefix)
    <3>1. CASE host = <<>>
      BY <1>5, <3>1 DEF ToSet
    <3>2. CASE host # <<>>
      BY <1>1, <1>2, <1>4, <1>5, <3>2, ConcatMembers
    <3> QED BY <3>1, <3>2
  <2>2. "@" \notin ToSet(y)
    BY <1>1, <1>2, <1>6, <2>1, ConcatMembers
  <2> HIDE DEF y
  <2> QED BY <1>1, <1>2, <1>6, <2>2, ConcatMembers, ConcatShape
<1>8. withoutDigest(y \o tag \o digest) = y \o tag
  <2> HIDE DEF y
  <2> QED BY <1>1, <1>2, <1>7, DigestCut
<1>9. CASE host = <<>>
  <2>1. y = path
    BY <1>1, <1>5, <1>9, ConcatEmpty
  <2>2. PortsOnly(y)
    BY <1>2, <2>1 DEF PortsOnly, ToSet
  <2> HIDE DEF y
  <2>3. withoutTag(y \o tag) = y
    BY <1>1, <1>2, <1>6, <2>2, TagCut
  <2> DEFINE slash == IndexOf(path, "/")
             first == SubSeq(path, 1, slash - 1)
  <2>4. slash > 0 => ~(first = <<"localhost">> \/ {".", ":"} \cap ToSet(first) # {})
    <3>1. slash > 0 => ~NamesHost(first)
      BY <1>2, <1>9
    <3> HIDE DEF slash, first
    <3> QED BY <3>1 DEF NamesHost
  <2>5. extractRegistry(ImageOf(ref)) = Hub
    BY <1>3, <1>8, <2>1, <2>3, <2>4 DEF extractRegistry
  <2> QED BY <1>9, <2>5 DEF HostOf, host
<1>10. CASE host # <<>>
  <2> DEFINE rest == bar \o path
  <2>1. Associates(host, bar, path)
    BY <1>1, <1>4, ConcatAssociates
  <2>2. y = host \o rest
    BY <1>5, <1>10, <2>1 DEF Associates
  <2>3. rest \in Seq(Tokens) /\ Len(rest) = 1 + Len(path) /\ rest[1] = "/" /\ rest # <<>>
    <3>1. /\ rest \in Seq(Tokens) /\ Len(rest) = Len(bar) + Len(path)
          /\ \A i \in 1 .. Len(bar) : rest[i] = bar[i]
      <4>0. bar \in Seq(Tokens) /\ path \in Seq(Tokens)
        BY <1>1, <1>4
      <4>1. bar \o path \in Seq(Tokens) /\ Len(bar \o path) = Len(bar) + Len(path)
        BY <4>0
      <4>2. \A i \in 1 .. Len(bar) : (bar \o path)[i] = bar[i]
        BY <1>1, <1>4
      <4> QED BY <4>1, <4>2, Zenon
    <3>2. Len(path) \in Nat
      BY <1>1
    <3> HIDE DEF rest
    <3> QED BY <1>4, <3>1, <3>2
  <2> HIDE DEF y, rest
  <2>4. IndexOf(y, "/") = Len(host) + 1
    BY <1>1, <1>2, <1>10, <2>2, <2>3, FirstInSecond
  <2>5. PortsOnly(y)
    <3> SUFFICES ASSUME NEW k \in 1 .. Len(y), y[k] = ":"
                 PROVE  \E j \in 1 .. Len(y) : k < j /\ y[j] = "/"
      BY DEF PortsOnly
    <3>1. FirstPlace(Len(host) + 1, y, "/") /\ Len(host) \in Nat
      BY <1>1, <1>6, <2>4, IndexShape
    <3>2. Len(host) + 1 \in 1 .. Len(y) /\ y[Len(host) + 1] = "/"
      BY <3>1 DEF FirstPlace
    <3>3. /\ prefix \in Seq(Tokens) /\ path \in Seq(Tokens) /\ Len(prefix) = Len(host) + 1
          /\ y = prefix \o path
      <4>0. host \in Seq(Tokens) /\ bar \in Seq(Tokens)
        BY <1>1, <1>4
      <4>1. Len(host \o bar) = Len(host) + Len(bar)
        BY <4>0
      <4> QED BY <1>1, <1>4, <1>5, <1>6, <1>10, <4>1 DEF y
    <3>4. k < Len(host) + 1
      <4> SUFFICES ASSUME k >= Len(host) + 1 PROVE FALSE
        BY <3>1
      <4>1. k # Len(host) + 1
        BY <3>2
      <4> DEFINE i == k - Len(prefix)
      <4>2. /\ Len(y) = Len(prefix) + Len(path)
            /\ \A h \in Len(prefix) + 1 .. Len(prefix) + Len(path) : y[h] = path[h - Len(prefix)]
        BY <3>3, ConcatShape
      <4>3. Len(path) \in Nat
        BY <1>1
      <4>4. i \in 1 .. Len(path) /\ k \in Len(prefix) + 1 .. Len(prefix) + Len(path)
        BY <3>1, <3>3, <4>1, <4>2, <4>3
      <4>5. path[i] = ":"
        BY <4>2, <4>4
      <4> HIDE DEF i
      <4> QED BY <1>1, <1>2, <4>4, <4>5 DEF ToSet
    <3> QED BY <3>2, <3>4
  <2>6. withoutTag(y \o tag) = y
    BY <1>1, <1>2, <1>6, <2>5, TagCut
  <2>7. SubSeq(y, 1, (Len(host) + 1) - 1) = host /\ Len(host) + 1 > 0
    <3>1. (Len(host) + 1) - 1 = Len(host) /\ Len(host) + 1 > 0
      BY <1>1
    <3> QED BY <1>1, <2>2, <2>3, <3>1, ConcatPrefix
  <2>8. host = <<"localhost">> \/ {".", ":"} \cap ToSet(host) # {}
    BY <1>2, <1>10 DEF NamesHost
  <2>9. extractRegistry(ImageOf(ref)) = host
    BY <1>3, <1>8, <2>4, <2>6, <2>7, <2>8 DEF extractRegistry
  <2> QED BY <1>10, <2>9 DEF HostOf, host
<1> QED BY <1>9, <1>10

-----------------------------------------------------------------------------
(* Commands.                                                               *)

Chars == STRING \cup {"sp", "sq", "dq"}

State(args, word, single, double) ==
  [args |-> args, word |-> word, single |-> single, double |-> double]

States == [args : Seq(Seq(Chars)), word : Seq(Chars), single : BOOLEAN, double : BOOLEAN]

(* A space ends the word, and a quote opens or closes the quotes.          *)
LEMMA FeedShape ==
  ASSUME NEW A, NEW W
  PROVE  /\ Feed(State(A, W, FALSE, FALSE), "sp") =
              IF W = <<>> THEN State(A, W, FALSE, FALSE)
              ELSE State(Append(A, W), <<>>, FALSE, FALSE)
         /\ Feed(State(A, W, FALSE, FALSE), "sq") = State(A, W, TRUE, FALSE)
         /\ Feed(State(A, W, FALSE, FALSE), "dq") = State(A, W, FALSE, TRUE)
         /\ Feed(State(A, W, TRUE, FALSE), "sq") = State(A, W, FALSE, FALSE)
         /\ Feed(State(A, W, FALSE, TRUE), "dq") = State(A, W, FALSE, FALSE)
<1>1. Feed(State(A, W, FALSE, FALSE), "sp") =
        IF W = <<>> THEN State(A, W, FALSE, FALSE)
        ELSE State(Append(A, W), <<>>, FALSE, FALSE)
  <2> DEFINE s == State(A, W, FALSE, FALSE)
  <2>1. Feed(s, "sp") = Flush(s)
    BY DEF Feed, State
  <2>2. CASE W = <<>>
    <3>1. Flush(s) = s
      BY <2>2 DEF Flush, State
    <3> QED BY <2>1, <2>2, <3>1
  <2>3. CASE W # <<>>
    <3>1. Flush(s) = [s EXCEPT !.args = Append(A, W), !.word = <<>>]
      BY <2>3 DEF Flush, State
    <3>2. [s EXCEPT !.args = Append(A, W), !.word = <<>>]
            = State(Append(A, W), <<>>, FALSE, FALSE)
      <4> DEFINE X == Append(A, W)
                 Only == [args : {X}, word : {<<>>}, single : {FALSE}, double : {FALSE}]
      <4>1. [s EXCEPT !.args = X, !.word = <<>>] \in Only
        BY DEF State
      <4> HIDE DEF X
      <4>2. \A t \in Only : t = [args |-> X, word |-> <<>>, single |-> FALSE, double |-> FALSE]
        <5> TAKE t \in Only
        <5>1. t.args = X /\ t.word = <<>> /\ t.single = FALSE /\ t.double = FALSE
          OBVIOUS
        <5>2. t = [args |-> t.args, word |-> t.word, single |-> t.single, double |-> t.double]
          OBVIOUS
        <5> HIDE DEF Only
        <5> QED BY <5>1, <5>2, Zenon
      <4>3. State(X, <<>>, FALSE, FALSE)
              = [args |-> X, word |-> <<>>, single |-> FALSE, double |-> FALSE]
        BY DEF State
      <4> HIDE DEF Only
      <4>4. [s EXCEPT !.args = X, !.word = <<>>] = State(X, <<>>, FALSE, FALSE)
        BY <4>1, <4>2, <4>3, Zenon
      <4> QED BY <4>4 DEF X
    <3> QED BY <2>1, <2>3, <3>1, <3>2
  <2> QED BY <2>2, <2>3
<1>2. /\ Feed(State(A, W, FALSE, FALSE), "sq") = State(A, W, TRUE, FALSE)
      /\ Feed(State(A, W, FALSE, FALSE), "dq") = State(A, W, FALSE, TRUE)
  BY DEF Feed, State
<1>3. /\ Feed(State(A, W, TRUE, FALSE), "sq") = State(A, W, FALSE, FALSE)
      /\ Feed(State(A, W, FALSE, TRUE), "dq") = State(A, W, FALSE, FALSE)
  BY DEF Feed, State
<1> QED BY <1>1, <1>2, <1>3

(* Any other character is part of the word.                                *)
LEMMA FeedBare ==
  ASSUME NEW A, NEW W, NEW ch, ch \notin {"sp", "sq", "dq"}
  PROVE  Feed(State(A, W, FALSE, FALSE), ch) = State(A, Append(W, ch), FALSE, FALSE)
BY DEF Feed, State

(* Single quotes hold any character but their own.                         *)
LEMMA FeedSingle ==
  ASSUME NEW A, NEW W, NEW ch, ch # "sq"
  PROVE  Feed(State(A, W, TRUE, FALSE), ch) = State(A, Append(W, ch), TRUE, FALSE)
BY DEF Feed, State

(* And so do double quotes.                                                *)
LEMMA FeedDouble ==
  ASSUME NEW A, NEW W, NEW ch, ch # "dq"
  PROVE  Feed(State(A, W, FALSE, TRUE), ch) = State(A, Append(W, ch), FALSE, TRUE)
BY DEF Feed, State

(* Feed keeps the types of the scanner.                                    *)
LEMMA FeedTyped ==
  ASSUME NEW s \in States, NEW ch \in Chars
  PROVE  Feed(s, ch) \in States
<1> DEFINE A == s.args
           W == s.word
<1>1. /\ A \in Seq(Seq(Chars)) /\ W \in Seq(Chars)
      /\ s.single \in BOOLEAN /\ s.double \in BOOLEAN
      /\ s = State(A, W, s.single, s.double)
  BY DEF States, State
<1>2. Append(W, ch) \in Seq(Chars) /\ Append(A, W) \in Seq(Seq(Chars))
  <2>1. Append(W, ch) \in Seq(Chars)
    BY <1>1
  <2>2. Append(A, W) \in Seq(Seq(Chars))
    <3> HIDE DEF A, W
    <3> DEFINE T == Seq(Chars)
    <3>1. A \in Seq(T) /\ W \in T
      BY <1>1
    <3> HIDE DEF T
    <3>2. Append(A, W) \in Seq(T)
      BY <3>1
    <3> QED BY <3>2 DEF T
  <2> QED BY <2>1, <2>2
<1>3. Feed(s, ch) \in {[s EXCEPT !.single = ~s.single], [s EXCEPT !.double = ~s.double], s,
                       [s EXCEPT !.args = Append(A, W), !.word = <<>>],
                       [s EXCEPT !.word = Append(W, ch)]}
  BY DEF Feed, Flush
<1>4. <<>> \in Seq(Chars)
  OBVIOUS
<1>5. [s EXCEPT !.single = ~s.single] \in States /\ [s EXCEPT !.double = ~s.double] \in States
  BY DEF States
<1>6. [s EXCEPT !.args = Append(A, W), !.word = <<>>] \in States
  BY <1>2, <1>4 DEF States
<1>7. [s EXCEPT !.word = Append(W, ch)] \in States
  BY <1>2 DEF States
<1> QED BY <1>3, <1>5, <1>6, <1>7

(* The states of the scanner, one after each character of cmd.             *)
IsScanRun(f, start, cmd) ==
  f = [i \in 0 .. Len(cmd) |-> IF i = 0 THEN start ELSE Feed(f[i - 1], cmd[i])]

(* f goes from start through cmd.                                          *)
ScanRun(f, start, cmd) ==
  /\ f[0] = start
  /\ \A i \in 1 .. Len(cmd) : f[i] = Feed(f[i - 1], cmd[i])

(* Scan goes through such states to the last of them.                      *)
LEMMA ScanRuns ==
  ASSUME NEW start \in States, NEW cmd \in Seq(Chars)
  PROVE  \E f \in [0 .. Len(cmd) -> States] :
           ScanRun(f, start, cmd) /\ Scan(start, cmd) = f[Len(cmd)]
<1> DEFINE N == Len(cmd)
           S == States
           G == [p \in S \X (1 .. N) |-> Feed(p[1], cmd[p[2]])]
<1>1. N \in Nat /\ \A i \in 1 .. N : cmd[i] \in Chars
  OBVIOUS
<1>2. G \in [S \X (1 .. N) -> S]
  <2>1. ASSUME NEW p \in S \X (1 .. N)
        PROVE  Feed(p[1], cmd[p[2]]) \in S
    <3>1. p[1] \in States /\ cmd[p[2]] \in Chars
      BY <1>1
    <3> QED BY <3>1, FeedTyped
  <2> QED BY <2>1
<1>3. PICK f \in [0 .. N -> S] : IsIteration(f, start, G, N)
  <2> HIDE DEF G, S, N
  <2>1. start \in S
    BY DEF S
  <2> QED BY <1>1, <1>2, <2>1, IterationExists, Zenon
<1>4. \A i \in 1 .. N : G[<<f[i - 1], i>>] = Feed(f[i - 1], cmd[i])
  <2> TAKE i \in 1 .. N
  <2>1. f[i - 1] \in S
    <3>1. i - 1 \in 0 .. N
      BY <1>1
    <3> HIDE DEF S, N
    <3> QED BY <3>1
  <2>2. <<f[i - 1], i>> \in S \X (1 .. N)
    <3> HIDE DEF S, N
    <3> QED BY <2>1
  <2> QED BY <2>2
<1>5. IsScanRun(f, start, cmd)
  <2> HIDE DEF G, S
  <2>1. \A i \in 0 .. N : (IF i = 0 THEN start ELSE G[<<f[i - 1], i>>])
                          = (IF i = 0 THEN start ELSE Feed(f[i - 1], cmd[i]))
    BY <1>1, <1>4
  <2>2. [i \in 0 .. N |-> IF i = 0 THEN start ELSE G[<<f[i - 1], i>>]]
        = [i \in 0 .. N |-> IF i = 0 THEN start ELSE Feed(f[i - 1], cmd[i])]
    BY <2>1
  <2> QED BY <1>3, <2>2 DEF IsScanRun, IsIteration
<1> DEFINE g == CHOOSE g : IsScanRun(g, start, cmd)
<1>6. IsScanRun(g, start, cmd)
  BY <1>5
<1>7. Scan(start, cmd) = g[N]
  BY DEF Scan, IsScanRun
<1> HIDE DEF g, G
<1>8. ScanRun(g, start, cmd)
  BY <1>1, <1>6 DEF IsScanRun, ScanRun
<1> DEFINE D == {i \in 0 .. N : g[i] \in States}
<1>9. 0 \in D
  BY <1>1, <1>8 DEF ScanRun
<1>10. ASSUME NEW i \in 0 .. N - 1, i \in D
       PROVE  i + 1 \in D
  <2>1. i + 1 \in 1 .. N /\ i + 1 \in 0 .. N /\ (i + 1) - 1 = i
    BY <1>1
  <2>2. g[i + 1] = Feed(g[i], cmd[i + 1]) /\ cmd[i + 1] \in Chars
    BY <1>1, <1>8, <2>1 DEF ScanRun
  <2>3. g[i] \in States
    BY <1>10
  <2>4. g[i + 1] \in States
    BY <2>2, <2>3, FeedTyped
  <2> QED BY <2>1, <2>4
<1>11. \A i \in 0 .. N : g[i] \in States
  <2>1. \A i \in 0 .. N - 1 : i \in D => i + 1 \in D
    BY <1>10
  <2> HIDE DEF D, N
  <2>2. \A i \in 0 .. N : i \in D
    BY <1>1, <1>9, <2>1, UpToInduction, Zenon
  <2> QED BY <2>2 DEF D
<1>12. g \in [0 .. N -> States]
  <2>1. g = [i \in 0 .. N |-> g[i]]
    BY <1>6 DEF IsScanRun
  <2> HIDE DEF N
  <2> QED BY <1>11, <2>1
<1> QED BY <1>7, <1>8, <1>12

(* Any such states end where Scan does.                                    *)
LEMMA ScanValue ==
  ASSUME NEW start \in States, NEW cmd \in Seq(Chars), NEW f, ScanRun(f, start, cmd)
  PROVE  Scan(start, cmd) = f[Len(cmd)] /\ Scan(start, cmd) \in States
<1> DEFINE N == Len(cmd)
<1>1. PICK g \in [0 .. N -> States] : ScanRun(g, start, cmd) /\ Scan(start, cmd) = g[N]
  BY ScanRuns
<1>2. N \in Nat
  OBVIOUS
<1> DEFINE D == {i \in 0 .. N : f[i] = g[i]}
<1>3. 0 \in D
  BY <1>1, <1>2 DEF ScanRun
<1>4. ASSUME NEW i \in 0 .. N - 1, i \in D
      PROVE  i + 1 \in D
  <2>1. i + 1 \in 1 .. N /\ i + 1 \in 0 .. N /\ (i + 1) - 1 = i
    BY <1>2
  <2>2. f[i + 1] = Feed(f[i], cmd[i + 1]) /\ g[i + 1] = Feed(g[i], cmd[i + 1])
    BY <1>1, <2>1 DEF ScanRun
  <2> QED BY <1>4, <2>1, <2>2
<1>5. \A i \in 0 .. N : f[i] = g[i]
  <2>1. \A i \in 0 .. N - 1 : i \in D => i + 1 \in D
    BY <1>4
  <2> HIDE DEF D, N
  <2>2. \A i \in 0 .. N : i \in D
    BY <1>2, <1>3, <2>1, UpToInduction, Zenon
  <2> QED BY <2>2 DEF D
<1>6. N \in 0 .. N
  BY <1>2
<1> HIDE DEF N
<1> QED BY <1>1, <1>5, <1>6 DEF N

(* Scanning two commands one after the other is scanning both.             *)
LEMMA ScanConcat ==
  ASSUME NEW start \in States, NEW a \in Seq(Chars), NEW b \in Seq(Chars)
  PROVE  Scan(start, a \o b) = Scan(Scan(start, a), b)
<1> DEFINE M == Len(a)
           N == Len(b)
           c == a \o b
<1>1. PICK f \in [0 .. M -> States] : ScanRun(f, start, a) /\ Scan(start, a) = f[M]
  BY ScanRuns
<1>2. M \in Nat /\ N \in Nat
  OBVIOUS
<1>3. Scan(start, a) \in States
  BY <1>1, <1>2
<1>4. PICK g \in [0 .. N -> States] :
        ScanRun(g, Scan(start, a), b) /\ Scan(Scan(start, a), b) = g[N]
  BY <1>3, ScanRuns
<1> DEFINE h == [i \in 0 .. M + N |-> IF i <= M THEN f[i] ELSE g[i - M]]
<1>5. /\ c \in Seq(Chars) /\ Len(c) = M + N
      /\ \A i \in 1 .. M : c[i] = a[i]
      /\ \A i \in M + 1 .. M + N : c[i] = b[i - M]
  BY ConcatShape
<1> HIDE DEF M, N, c
<1>6. h[0] = start
  BY <1>1, <1>2 DEF ScanRun, M
<1>7. ASSUME NEW i \in 1 .. M + N
      PROVE  h[i] = Feed(h[i - 1], c[i])
  <2>1. CASE i <= M
    <3>1. i \in 1 .. M /\ h[i] = f[i] /\ h[i - 1] = f[i - 1]
      BY <1>2, <2>1
    <3>2. f[i] = Feed(f[i - 1], a[i])
      BY <1>1, <3>1 DEF ScanRun, M
    <3> QED BY <1>5, <3>1, <3>2
  <2>2. CASE i = M + 1
    <3>1. /\ i \in M + 1 .. M + N /\ i - M = 1 /\ 1 \in 1 .. N /\ i - 1 = M /\ 1 - 1 = 0
          /\ h[i] = g[1] /\ h[i - 1] = f[M]
      BY <1>2, <2>2
    <3>2. g[1] = Feed(g[1 - 1], b[1]) /\ g[0] = f[M]
      BY <1>1, <1>4, <3>1 DEF ScanRun, N
    <3>3. c[i] = b[1]
      BY <1>5, <3>1
    <3> QED BY <3>1, <3>2, <3>3
  <2>3. CASE i > M + 1
    <3>1. /\ i \in M + 1 .. M + N /\ i - M \in 1 .. N /\ (i - M) - 1 = (i - 1) - M
          /\ h[i] = g[i - M] /\ h[i - 1] = g[(i - 1) - M]
      BY <1>2, <2>3
    <3>2. g[i - M] = Feed(g[(i - M) - 1], b[i - M])
      BY <1>4, <3>1 DEF ScanRun, N
    <3> QED BY <1>5, <3>1, <3>2
  <2> QED BY <1>2, <2>1, <2>2, <2>3
<1>8. h[M + N] = g[N]
  <2>1. CASE N = 0
    <3>1. h[M + N] = f[M]
      BY <1>2, <2>1
    <3>2. g[N] = f[M]
      BY <1>1, <1>4, <2>1 DEF ScanRun
    <3> QED BY <3>1, <3>2
  <2>2. CASE N # 0
    BY <1>2, <2>2
  <2> QED BY <2>1, <2>2
<1> HIDE DEF h
<1>9. ScanRun(h, start, c)
  BY <1>5, <1>6, <1>7 DEF ScanRun
<1>10. Scan(start, c) = h[Len(c)]
  BY <1>5, <1>9, ScanValue
<1> QED BY <1>4, <1>5, <1>8, <1>10 DEF c

(* A scanner between two quotes or outside of them.                        *)
LEMMA StateTyped ==
  ASSUME NEW A \in Seq(Seq(Chars)), NEW W \in Seq(Chars), NEW p \in BOOLEAN, NEW q \in BOOLEAN
  PROVE  State(A, W, p, q) \in States
BY DEF State, States

(* One character is fed to the scanner.                                    *)
LEMMA ScanOne ==
  ASSUME NEW s \in States, NEW ch \in Chars
  PROVE  Scan(s, <<ch>>) = Feed(s, ch)
<1> DEFINE f == [i \in 0 .. 1 |-> IF i = 0 THEN s ELSE Feed(s, ch)]
           cmd == <<ch>>
<1>1. cmd \in Seq(Chars) /\ Len(cmd) = 1 /\ cmd[1] = ch
  BY OneElement
<1>2. f[0] = s /\ f[1] = Feed(s, ch)
  OBVIOUS
<1> HIDE DEF f, cmd
<1>3. ScanRun(f, s, cmd)
  <2>1. \A i \in 1 .. 1 : i = 1 /\ i - 1 = 0
    OBVIOUS
  <2> QED BY <1>1, <1>2, <2>1 DEF ScanRun
<1>4. Scan(s, cmd) = f[Len(cmd)]
  BY <1>1, <1>3, ScanValue
<1> QED BY <1>1, <1>2, <1>4 DEF cmd

(* The scanner after the word it has.                                      *)
Rest(A, W) == IF W = <<>> THEN State(A, W, FALSE, FALSE)
              ELSE State(Append(A, W), <<>>, FALSE, FALSE)

(* Spaces end a word, and end no other.                                    *)
LEMMA ScanGap ==
  ASSUME NEW A \in Seq(Seq(Chars)), NEW W \in Seq(Chars), NEW gap \in Seq({"sp"})
  PROVE  Scan(State(A, W, FALSE, FALSE), gap) =
           IF gap = <<>> THEN State(A, W, FALSE, FALSE) ELSE Rest(A, W)
<1> DEFINE s == State(A, W, FALSE, FALSE)
           N == Len(gap)
           f == [i \in 0 .. N |-> IF i = 0 THEN s ELSE Rest(A, W)]
<1>1. s \in States
  BY StateTyped
<1>2. gap \in Seq(Chars)
  <2>1. {"sp"} \subseteq Chars
    BY DEF Chars
  <2> QED BY <2>1, SeqMonotone
<1>3. N \in Nat /\ (\A i \in 1 .. N : gap[i] = "sp") /\ (gap = <<>> <=> N = 0)
  OBVIOUS
<1>4. Feed(s, "sp") = Rest(A, W)
  BY FeedShape DEF Rest
<1>5. Feed(Rest(A, W), "sp") = Rest(A, W)
  <2>1. CASE W = <<>>
    BY <1>4, <2>1 DEF Rest
  <2>2. CASE W # <<>>
    <3>1. Feed(State(Append(A, W), <<>>, FALSE, FALSE), "sp")
            = State(Append(A, W), <<>>, FALSE, FALSE)
      BY FeedShape
    <3> QED BY <2>2, <3>1 DEF Rest
  <2> QED BY <2>1, <2>2
<1> HIDE DEF s, N
<1>6. ScanRun(f, s, gap)
  <2>1. f[0] = s
    BY <1>3
  <2>2. ASSUME NEW i \in 1 .. N
        PROVE  f[i] = Feed(f[i - 1], gap[i])
    <3>1. f[i] = Rest(A, W) /\ f[i - 1] \in {s, Rest(A, W)} /\ gap[i] = "sp"
      BY <1>3
    <3> HIDE DEF f
    <3> QED BY <1>4, <1>5, <3>1
  <2> HIDE DEF f
  <2> QED BY <2>1, <2>2 DEF ScanRun, N
<1>7. Scan(s, gap) = f[N]
  <2> HIDE DEF f
  <2> QED BY <1>1, <1>2, <1>6, ScanValue DEF N
<1>8. f[N] = IF gap = <<>> THEN s ELSE Rest(A, W)
  BY <1>3
<1> HIDE DEF f
<1> QED BY <1>7, <1>8 DEF s

(* Characters that are all taken into the word lengthen it.                *)
LEMMA ScanText ==
  ASSUME NEW A \in Seq(Seq(Chars)), NEW W \in Seq(Chars), NEW text \in Seq(Chars),
         NEW p \in BOOLEAN, NEW q \in BOOLEAN,
         \A i \in 1 .. Len(text) : \A V \in Seq(Chars) :
           Feed(State(A, V, p, q), text[i]) = State(A, Append(V, text[i]), p, q)
  PROVE  Scan(State(A, W, p, q), text) = State(A, W \o text, p, q)
<1> DEFINE N == Len(text)
           first(i) == W \o SubSeq(text, 1, i)
           f == [i \in 0 .. N |-> State(A, first(i), p, q)]
<1>1. N \in Nat
  OBVIOUS
<1>2. \A i \in 0 .. N : first(i) \in Seq(Chars)
  <2> TAKE i \in 0 .. N
  <2>1. SubSeq(text, 1, i) \in Seq(Chars)
    OBVIOUS
  <2> QED BY <2>1
<1>3. first(0) = W /\ first(N) = W \o text
  <2>1. SubSeq(text, 1, 0) = <<>> /\ SubSeq(text, 1, N) = text
    OBVIOUS
  <2> QED BY <2>1, ConcatEmpty
<1>4. ASSUME NEW i \in 1 .. N
      PROVE  first(i) = Append(first(i - 1), text[i])
  <2> DEFINE a == SubSeq(text, 1, i - 1)
             b == SubSeq(text, 1, i)
             x == W \o b
             y == Append(W \o a, text[i])
  <2>1. /\ text[i] \in Chars /\ i - 1 \in 0 .. N /\ i \in 0 .. N /\ Len(W) \in Nat
        /\ a \in Seq(Chars) /\ Len(a) = i - 1 /\ \A k \in 1 .. i - 1 : a[k] = text[k]
        /\ b \in Seq(Chars) /\ Len(b) = i /\ \A k \in 1 .. i : b[k] = text[k]
    BY <1>1
  <2> HIDE DEF a, b, N
  <2>2. /\ x \in Seq(Chars) /\ Len(x) = Len(W) + i
        /\ \A k \in 1 .. Len(W) : x[k] = W[k]
        /\ \A k \in Len(W) + 1 .. Len(W) + i : x[k] = text[k - Len(W)]
    <3>1. /\ x \in Seq(Chars) /\ Len(x) = Len(W) + Len(b)
          /\ \A k \in 1 .. Len(W) : x[k] = W[k]
          /\ \A k \in Len(W) + 1 .. Len(W) + Len(b) : x[k] = b[k - Len(W)]
      BY <2>1, ConcatShape
    <3> HIDE DEF x
    <3>2. \A k \in Len(W) + 1 .. Len(W) + i : k - Len(W) \in 1 .. i
      BY <2>1
    <3> QED BY <2>1, <3>1, <3>2
  <2>3. /\ W \o a \in Seq(Chars) /\ Len(W \o a) = Len(W) + (i - 1)
        /\ \A k \in 1 .. Len(W) : (W \o a)[k] = W[k]
        /\ \A k \in Len(W) + 1 .. Len(W) + (i - 1) : (W \o a)[k] = text[k - Len(W)]
    <3> DEFINE z == W \o a
    <3>1. /\ z \in Seq(Chars) /\ Len(z) = Len(W) + Len(a)
          /\ \A k \in 1 .. Len(W) : z[k] = W[k]
          /\ \A k \in Len(W) + 1 .. Len(W) + Len(a) : z[k] = a[k - Len(W)]
      <4>1. a \in Seq(Chars)
        BY <2>1
      <4> QED BY <4>1, ConcatShape, Zenon
    <3> HIDE DEF z
    <3>2. \A k \in Len(W) + 1 .. Len(W) + (i - 1) : k - Len(W) \in 1 .. i - 1
      BY <2>1
    <3>3. /\ z \in Seq(Chars) /\ Len(z) = Len(W) + (i - 1)
          /\ \A k \in 1 .. Len(W) : z[k] = W[k]
          /\ \A k \in Len(W) + 1 .. Len(W) + (i - 1) : z[k] = text[k - Len(W)]
      BY <2>1, <3>1, <3>2
    <3> QED BY <3>3 DEF z
  <2> DEFINE wa == W \o a
  <2> HIDE DEF x, wa
  <2>4. /\ y \in Seq(Chars) /\ Len(y) = Len(W) + i
        /\ \A k \in 1 .. Len(W) + (i - 1) : y[k] = wa[k]
        /\ y[Len(W) + i] = text[i]
    BY <2>1, <2>3, SMTT(30) DEF wa
  <2> HIDE DEF y
  <2>5. ASSUME NEW k \in 1 .. Len(W) + i
        PROVE  x[k] = y[k]
    <3>1. k \in 1 .. Len(W) \/ k \in Len(W) + 1 .. Len(W) + (i - 1) \/ k = Len(W) + i
      BY <2>1
    <3>2. CASE k \in 1 .. Len(W)
      <4>1. k \in 1 .. Len(W) + (i - 1)
        BY <2>1, <3>2
      <4> QED BY <2>2, <2>3, <2>4, <3>2, <4>1 DEF wa
    <3>3. CASE k \in Len(W) + 1 .. Len(W) + (i - 1)
      <4>1. k \in 1 .. Len(W) + (i - 1) /\ k \in Len(W) + 1 .. Len(W) + i
        BY <2>1, <3>3
      <4> QED BY <2>2, <2>3, <2>4, <3>3, <4>1 DEF wa
    <3>4. CASE k = Len(W) + i
      <4>1. k \in Len(W) + 1 .. Len(W) + i /\ k - Len(W) = i
        BY <2>1, <3>4
      <4> QED BY <2>2, <2>4, <3>4, <4>1
    <3> QED BY <3>1, <3>2, <3>3, <3>4
  <2>6. x = y
    BY <2>2, <2>4, <2>5, SequencesEqual
  <2> QED BY <2>6 DEF x, y, b, a
<1> HIDE DEF first
<1>5. ScanRun(f, State(A, W, p, q), text)
  <2>1. f[0] = State(A, W, p, q)
    BY <1>1, <1>3
  <2>2. ASSUME NEW i \in 1 .. N
        PROVE  f[i] = Feed(f[i - 1], text[i])
    <3>1. /\ i - 1 \in 0 .. N /\ f[i] = State(A, first(i), p, q)
          /\ f[i - 1] = State(A, first(i - 1), p, q)
      BY <1>1
    <3> HIDE DEF f
    <3>2. first(i - 1) \in Seq(Chars)
      BY <1>2, <3>1
    <3>3. Feed(State(A, first(i - 1), p, q), text[i])
            = State(A, Append(first(i - 1), text[i]), p, q)
      BY <3>2
    <3> QED BY <1>4, <3>1, <3>3
  <2> HIDE DEF f
  <2> QED BY <2>1, <2>2 DEF ScanRun
<1>6. f[N] = State(A, W \o text, p, q)
  <2>1. N \in 0 .. N
    BY <1>1
  <2> HIDE DEF N
  <2>2. f[N] = State(A, first(N), p, q)
    BY <2>1
  <2> HIDE DEF f
  <2> QED BY <1>3, <2>2 DEF N
<1> HIDE DEF f
<1>7. State(A, W, p, q) \in States
  BY StateTyped
<1> QED BY <1>5, <1>6, <1>7, ScanValue

(* A word as IsCommand has it: the text of one in quotes does not hold     *)
(* them, and the text of a bare one holds no quote and no space.           *)
IsWord(w) ==
  /\ w \in [gap : Seq({"sp"}), quote : {"", "sq", "dq"}, text : Seq(STRING)]
  /\ w.quote = "" => {"sp", "sq", "dq"} \cap ToSet(w.text) = {}
  /\ w.quote \notin ToSet(w.text)

(* Quoted is a command of characters.                                      *)
LEMMA QuotedTyped ==
  ASSUME NEW w, IsWord(w)
  PROVE  w.text \in Seq(Chars) /\ w.gap \in Seq(Chars) /\ Quoted(w) \in Seq(Chars)
<1>1. w.text \in Seq(STRING) /\ w.gap \in Seq({"sp"}) /\ w.quote \in {"", "sq", "dq"}
  BY DEF IsWord
<1>2. STRING \subseteq Chars /\ {"sp"} \subseteq Chars /\ "sq" \in Chars /\ "dq" \in Chars
  BY DEF Chars
<1>3. w.text \in Seq(Chars) /\ w.gap \in Seq(Chars)
  BY <1>1, <1>2, SeqMonotone
<1>4. CASE w.quote = ""
  BY <1>3, <1>4 DEF Quoted
<1>5. ASSUME w.quote # ""
      PROVE  Quoted(w) \in Seq(Chars)
  <2> DEFINE mark == <<w.quote>>
  <2>1. mark \in Seq(Chars)
    BY <1>1, <1>2, <1>5, OneElement
  <2> HIDE DEF mark
  <2>2. mark \o w.text \in Seq(Chars)
    BY <1>3, <2>1
  <2>3. (mark \o w.text) \o mark \in Seq(Chars)
    BY <2>1, <2>2
  <2> QED BY <1>5, <2>3 DEF Quoted, mark
<1> QED BY <1>3, <1>4, <1>5

(* A word is scanned as its text, in quotes or not.                        *)
LEMMA ScanWord ==
  ASSUME NEW A \in Seq(Seq(Chars)), NEW w, IsWord(w)
  PROVE  Scan(State(A, <<>>, FALSE, FALSE), Quoted(w)) = State(A, w.text, FALSE, FALSE)
<1> DEFINE t == w.text
           s == State(A, <<>>, FALSE, FALSE)
<1>1. t \in Seq(Chars) /\ \A i \in 1 .. Len(t) : t[i] \in ToSet(t)
  BY QuotedTyped DEF ToSet
<1>2. <<>> \in Seq(Chars) /\ <<>> \o t = t
  BY <1>1, ConcatEmpty
<1>3. w.quote \in {"", "sq", "dq"} /\ w.quote \notin ToSet(t)
  BY DEF IsWord
<1>4. s \in States
  BY <1>2, StateTyped
<1>5. CASE w.quote = ""
  <2>1. \A i \in 1 .. Len(t) : t[i] \notin {"sp", "sq", "dq"}
    BY <1>1, <1>5 DEF IsWord
  <2>2. \A i \in 1 .. Len(t) : \A V \in Seq(Chars) :
          Feed(State(A, V, FALSE, FALSE), t[i]) = State(A, Append(V, t[i]), FALSE, FALSE)
    <3> TAKE i \in 1 .. Len(t)
    <3> TAKE V \in Seq(Chars)
    <3>1. t[i] \notin {"sp", "sq", "dq"}
      BY <2>1
    <3> HIDE DEF t
    <3> QED BY <3>1, FeedBare, Zenon
  <2> HIDE DEF t, s
  <2>3. Scan(State(A, <<>>, FALSE, FALSE), t) = State(A, <<>> \o t, FALSE, FALSE)
    BY <1>1, <1>2, <2>2, ScanText
  <2> QED BY <1>2, <1>5, <2>3 DEF Quoted, t
<1>6. ASSUME NEW p \in BOOLEAN, NEW q \in BOOLEAN, NEW mark \in Chars,
             w.quote = mark, mark # "",
             Feed(s, mark) = State(A, <<>>, p, q),
             Feed(State(A, t, p, q), mark) = State(A, t, FALSE, FALSE),
             \A ch, V : ch # mark => Feed(State(A, V, p, q), ch) = State(A, Append(V, ch), p, q)
      PROVE  Scan(s, Quoted(w)) = State(A, t, FALSE, FALSE)
  <2> DEFINE m == <<mark>>
  <2>1. m \in Seq(Chars)
    BY OneElement
  <2>2. Scan(s, m) = State(A, <<>>, p, q)
    BY <1>4, <1>6, ScanOne
  <2>3. \A i \in 1 .. Len(t) : \A V \in Seq(Chars) :
          Feed(State(A, V, p, q), t[i]) = State(A, Append(V, t[i]), p, q)
    <3> TAKE i \in 1 .. Len(t)
    <3> TAKE V \in Seq(Chars)
    <3>1. t[i] # mark
      BY <1>1, <1>3, <1>6
    <3> HIDE DEF t
    <3> QED BY <1>6, <3>1, Zenon
  <2> HIDE DEF t, s, m
  <2>4. Scan(State(A, <<>>, p, q), t) = State(A, t, p, q)
    <3>1. Scan(State(A, <<>>, p, q), t) = State(A, <<>> \o t, p, q)
      BY <1>1, <1>2, <2>3, ScanText
    <3> QED BY <1>2, <3>1
  <2>5. Scan(State(A, t, p, q), m) = State(A, t, FALSE, FALSE)
    <3>1. State(A, t, p, q) \in States
      BY <1>1, StateTyped
    <3>2. Scan(State(A, t, p, q), <<mark>>) = Feed(State(A, t, p, q), mark)
      BY <3>1, ScanOne
    <3> QED BY <1>6, <3>2 DEF m
  <2>6. m \o t \in Seq(Chars)
    BY <1>1, <2>1
  <2>7. Scan(s, m \o t) = State(A, t, p, q)
    BY <1>1, <1>4, <2>1, <2>2, <2>4, ScanConcat
  <2>8. Scan(s, (m \o t) \o m) = State(A, t, FALSE, FALSE)
    BY <1>4, <2>1, <2>5, <2>6, <2>7, ScanConcat
  <2>9. Quoted(w) = (m \o t) \o m
    BY <1>6 DEF Quoted, m, t
  <2> QED BY <2>8, <2>9
<1>7. CASE w.quote = "sq"
  <2>1. /\ Feed(s, "sq") = State(A, <<>>, TRUE, FALSE)
        /\ Feed(State(A, t, TRUE, FALSE), "sq") = State(A, t, FALSE, FALSE)
    BY FeedShape
  <2>2. \A ch, V : ch # "sq" => Feed(State(A, V, TRUE, FALSE), ch) = State(A, Append(V, ch), TRUE, FALSE)
    BY FeedSingle, Zenon
  <2>3. "sq" \in Chars /\ "sq" # ""
    BY DEF Chars
  <2> HIDE DEF s, t
  <2>4. Scan(s, Quoted(w)) = State(A, t, FALSE, FALSE)
    BY <1>6, <1>7, <2>1, <2>2, <2>3
  <2> QED BY <2>4 DEF s, t
<1>8. CASE w.quote = "dq"
  <2>1. /\ Feed(s, "dq") = State(A, <<>>, FALSE, TRUE)
        /\ Feed(State(A, t, FALSE, TRUE), "dq") = State(A, t, FALSE, FALSE)
    BY FeedShape
  <2>2. \A ch, V : ch # "dq" => Feed(State(A, V, FALSE, TRUE), ch) = State(A, Append(V, ch), FALSE, TRUE)
    BY FeedDouble, Zenon
  <2>3. "dq" \in Chars /\ "dq" # ""
    BY DEF Chars
  <2> HIDE DEF s, t
  <2>4. Scan(s, Quoted(w)) = State(A, t, FALSE, FALSE)
    BY <1>6, <1>8, <2>1, <2>2, <2>3
  <2> QED BY <2>4 DEF s, t
<1> QED BY <1>3, <1>5, <1>7, <1>8

(* The words so far: the last of them is still with the scanner.           *)
Held(A, W) == IF W = <<>> THEN A ELSE Append(A, W)

(* The words so far are sequences of characters.                           *)
LEMMA HeldTyped ==
  ASSUME NEW A \in Seq(Seq(Chars)), NEW W \in Seq(Chars)
  PROVE  Held(A, W) \in Seq(Seq(Chars))
<1> DEFINE T == Seq(Chars)
<1>1. A \in Seq(T) /\ W \in T
  OBVIOUS
<1> HIDE DEF T
<1>2. Held(A, W) \in Seq(T)
  BY <1>1 DEF Held
<1> QED BY <1>2 DEF T

(* After the gap before a word and the word itself, the scanner has passed *)
(* on what it held and holds the text of the word.                         *)
LEMMA ScanNext ==
  ASSUME NEW A \in Seq(Seq(Chars)), NEW W \in Seq(Chars), NEW w, IsWord(w),
         W # <<>> => w.gap # <<>>
  PROVE  /\ Held(A, W) \in Seq(Seq(Chars))
         /\ Scan(State(A, W, FALSE, FALSE), w.gap \o Quoted(w))
              = State(Held(A, W), w.text, FALSE, FALSE)
<1>1. Held(A, W) \in Seq(Seq(Chars))
  BY HeldTyped
<1>2. Scan(State(A, W, FALSE, FALSE), w.gap) = State(Held(A, W), <<>>, FALSE, FALSE)
  <2>1. w.gap \in Seq({"sp"})
    BY DEF IsWord
  <2>2. Scan(State(A, W, FALSE, FALSE), w.gap)
          = IF w.gap = <<>> THEN State(A, W, FALSE, FALSE) ELSE Rest(A, W)
    BY <2>1, ScanGap
  <2> QED BY <2>2 DEF Rest, Held
<1>3. State(A, W, FALSE, FALSE) \in States
  BY StateTyped
<1>4. w.gap \in Seq(Chars) /\ Quoted(w) \in Seq(Chars)
  BY QuotedTyped
<1>5. Scan(State(A, W, FALSE, FALSE), w.gap \o Quoted(w))
        = Scan(State(Held(A, W), <<>>, FALSE, FALSE), Quoted(w))
  <2>1. Scan(State(A, W, FALSE, FALSE), w.gap \o Quoted(w))
          = Scan(Scan(State(A, W, FALSE, FALSE), w.gap), Quoted(w))
    BY <1>3, <1>4, ScanConcat, Zenon
  <2> QED BY <1>2, <2>1
<1>6. Scan(State(Held(A, W), <<>>, FALSE, FALSE), Quoted(w))
        = State(Held(A, W), w.text, FALSE, FALSE)
  BY <1>1, ScanWord
<1> QED BY <1>1, <1>5, <1>6

(* The words of a command are words.                                       *)
LEMMA CommandWords ==
  ASSUME NEW words, IsCommand(words)
  PROVE  /\ Len(words) \in Nat
         /\ \A i \in 1 .. Len(words) : IsWord(words[i])
         /\ \A i \in 1 .. Len(words) : i > 1 => words[i].gap # <<>>
<1> DEFINE Words == [gap : Seq({"sp"}), quote : {"", "sq", "dq"}, text : Seq(STRING)]
<1>1. words \in Seq(Words)
  BY DEF IsCommand
<1>2. Len(words) \in Nat /\ \A i \in 1 .. Len(words) : words[i] \in Words
  <2> HIDE DEF Words
  <2> QED BY <1>1
<1>3. ASSUME NEW i \in 1 .. Len(words)
      PROVE  IsWord(words[i]) /\ (i > 1 => words[i].gap # <<>>)
  <2>1. /\ i > 1 => words[i].gap # <<>>
        /\ words[i].quote = "" => {"sp", "sq", "dq"} \cap ToSet(words[i].text) = {}
        /\ words[i].quote \notin ToSet(words[i].text)
    BY Zenon DEF IsCommand
  <2>2. words[i] \in Words
    BY <1>2
  <2> QED BY <2>1, <2>2, Zenon DEF IsWord
<1> QED BY <1>2, <1>3

(* CommandOf after each word.                                              *)
IsCommandRun(f, words) ==
  f = [i \in 0 .. Len(words) |-> IF i = 0 THEN <<>> ELSE f[i - 1] \o words[i].gap \o Quoted(words[i])]

CommandRun(f, words) ==
  /\ f[0] = <<>>
  /\ \A i \in 1 .. Len(words) : f[i] = f[i - 1] \o words[i].gap \o Quoted(words[i])

(* CommandOf adds the words one by one.                                    *)
LEMMA CommandRuns ==
  ASSUME NEW words, IsCommand(words)
  PROVE  \E f \in [0 .. Len(words) -> Seq(Chars)] :
           CommandRun(f, words) /\ CommandOf(words) = f[Len(words)]
<1> DEFINE N == Len(words)
           S == Seq(Chars)
           G == [p \in S \X (1 .. N) |-> p[1] \o words[p[2]].gap \o Quoted(words[p[2]])]
<1>1. N \in Nat /\ \A i \in 1 .. N : IsWord(words[i])
  BY CommandWords
<1>2. G \in [S \X (1 .. N) -> S]
  <2>1. ASSUME NEW p \in S \X (1 .. N)
        PROVE  p[1] \o words[p[2]].gap \o Quoted(words[p[2]]) \in S
    <3> DEFINE w == words[p[2]]
               x == p[1]
    <3>1. x \in S /\ IsWord(w)
      BY <1>1
    <3>2. w.gap \in Seq(Chars) /\ Quoted(w) \in Seq(Chars)
      BY <3>1, QuotedTyped
    <3> HIDE DEF x, w
    <3>3. x \o w.gap \in Seq(Chars)
      BY <3>1, <3>2
    <3>4. (x \o w.gap) \o Quoted(w) \in Seq(Chars)
      BY <3>2, <3>3
    <3> QED BY <3>4 DEF x, w
  <2> QED BY <2>1
<1>3. PICK f \in [0 .. N -> S] : IsIteration(f, <<>>, G, N)
  <2>1. <<>> \in S
    OBVIOUS
  <2> HIDE DEF G, S, N
  <2> QED BY <1>1, <1>2, <2>1, IterationExists, Zenon
<1>4. \A i \in 1 .. N : G[<<f[i - 1], i>>] = f[i - 1] \o words[i].gap \o Quoted(words[i])
  <2> TAKE i \in 1 .. N
  <2>1. f[i - 1] \in S
    <3>1. i - 1 \in 0 .. N
      BY <1>1
    <3> HIDE DEF S, N
    <3> QED BY <3>1
  <2>2. <<f[i - 1], i>> \in S \X (1 .. N)
    <3> HIDE DEF S, N
    <3> QED BY <2>1
  <2> HIDE DEF S, N
  <2> QED BY <2>2
<1>5. IsCommandRun(f, words)
  <2> HIDE DEF G, S
  <2>1. \A i \in 0 .. N : (IF i = 0 THEN <<>> ELSE G[<<f[i - 1], i>>])
                          = (IF i = 0 THEN <<>> ELSE f[i - 1] \o words[i].gap \o Quoted(words[i]))
    BY <1>1, <1>4, SMTT(30)
  <2>2. [i \in 0 .. N |-> IF i = 0 THEN <<>> ELSE G[<<f[i - 1], i>>]]
        = [i \in 0 .. N |-> IF i = 0 THEN <<>> ELSE f[i - 1] \o words[i].gap \o Quoted(words[i])]
    BY <2>1
  <2> QED BY <1>3, <2>2 DEF IsCommandRun, IsIteration
<1> DEFINE g == CHOOSE g : IsCommandRun(g, words)
<1>6. IsCommandRun(g, words)
  BY <1>5
<1>7. CommandOf(words) = g[N]
  BY DEF CommandOf, IsCommandRun
<1> HIDE DEF g, G
<1>8. CommandRun(g, words)
  <2>1. \A i \in 0 .. N : g[i] = IF i = 0 THEN <<>>
                                ELSE g[i - 1] \o words[i].gap \o Quoted(words[i])
    BY <1>6, Zenon DEF IsCommandRun
  <2>2. 0 \in 0 .. N /\ \A i \in 1 .. N : i \in 0 .. N /\ i # 0
    BY <1>1
  <2> QED BY <2>1, <2>2, Zenon DEF CommandRun
<1> DEFINE D == {i \in 0 .. N : g[i] \in S}
<1>9. 0 \in D
  BY <1>1, <1>8 DEF CommandRun
<1>10. ASSUME NEW i \in 0 .. N - 1, i \in D
       PROVE  i + 1 \in D
  <2> DEFINE w == words[i + 1]
             x == g[i]
  <2>1. i + 1 \in 1 .. N /\ i + 1 \in 0 .. N /\ (i + 1) - 1 = i
    BY <1>1
  <2>2. g[i + 1] = x \o w.gap \o Quoted(w)
    BY <1>8, <2>1 DEF CommandRun
  <2>3. x \in S /\ IsWord(w)
    BY <1>1, <1>10, <2>1
  <2>4. x \o w.gap \o Quoted(w) \in S
    <4>2. w.gap \in Seq(Chars) /\ Quoted(w) \in Seq(Chars)
      BY <2>3, QuotedTyped
    <4> HIDE DEF x, w
    <4>3. x \o w.gap \in Seq(Chars)
      BY <2>3, <4>2
    <4>4. (x \o w.gap) \o Quoted(w) \in Seq(Chars)
      BY <4>2, <4>3
    <4> QED BY <4>4 DEF x, w
  <2> QED BY <2>1, <2>2, <2>4
<1>11. \A i \in 0 .. N : g[i] \in S
  <2>1. \A i \in 0 .. N - 1 : i \in D => i + 1 \in D
    BY <1>10
  <2> HIDE DEF D, N
  <2>2. \A i \in 0 .. N : i \in D
    BY <1>1, <1>9, <2>1, UpToInduction, Zenon
  <2> QED BY <2>2 DEF D
<1>12. g \in [0 .. N -> S]
  <2>1. g = [i \in 0 .. N |-> g[i]]
    BY <1>6 DEF IsCommandRun
  <2> HIDE DEF N, S
  <2> QED BY <1>11, <2>1
<1> QED BY <1>7, <1>8, <1>12

(* TextsOf after each word.                                                *)
IsTextsRun(f, words) ==
  f = [i \in 0 .. Len(words) |->
         IF i = 0 THEN <<>>
         ELSE IF words[i].text = <<>> THEN f[i - 1]
         ELSE Append(f[i - 1], words[i].text)]

TextsRun(f, words) ==
  /\ f[0] = <<>>
  /\ \A i \in 1 .. Len(words) : f[i] = Held(f[i - 1], words[i].text)

(* TextsOf adds their texts one by one.                                    *)
LEMMA TextsRuns ==
  ASSUME NEW words, IsCommand(words)
  PROVE  \E f \in [0 .. Len(words) -> Seq(Seq(Chars))] :
           TextsRun(f, words) /\ TextsOf(words) = f[Len(words)]
<1> DEFINE N == Len(words)
           S == Seq(Seq(Chars))
           G == [p \in S \X (1 .. N) |-> Held(p[1], words[p[2]].text)]
<1>1. N \in Nat /\ \A i \in 1 .. N : IsWord(words[i])
  BY CommandWords
<1>2. G \in [S \X (1 .. N) -> S]
  <2>1. ASSUME NEW p \in S \X (1 .. N)
        PROVE  Held(p[1], words[p[2]].text) \in S
    <3> DEFINE w == words[p[2]]
               x == p[1]
    <3>1. x \in S /\ IsWord(w)
      BY <1>1
    <3>2. w.text \in Seq(Chars)
      BY <3>1, QuotedTyped
    <3> HIDE DEF x, w
    <3>3. Held(x, w.text) \in Seq(Seq(Chars))
      BY <3>1, <3>2, HeldTyped
    <3> QED BY <3>3 DEF x, w
  <2> QED BY <2>1
<1>3. PICK f \in [0 .. N -> S] : IsIteration(f, <<>>, G, N)
  <2>1. <<>> \in S
    OBVIOUS
  <2> HIDE DEF G, S, N
  <2> QED BY <1>1, <1>2, <2>1, IterationExists, Zenon
<1>4. \A i \in 1 .. N : G[<<f[i - 1], i>>] = Held(f[i - 1], words[i].text)
  <2> TAKE i \in 1 .. N
  <2>1. f[i - 1] \in S
    <3>1. i - 1 \in 0 .. N
      BY <1>1
    <3> HIDE DEF S, N
    <3> QED BY <3>1
  <2>2. <<f[i - 1], i>> \in S \X (1 .. N)
    <3> HIDE DEF S, N
    <3> QED BY <2>1
  <2> HIDE DEF S, N
  <2> QED BY <2>2
<1>5. IsTextsRun(f, words)
  <2> HIDE DEF G, S
  <2>1. \A i \in 0 .. N : (IF i = 0 THEN <<>> ELSE G[<<f[i - 1], i>>])
                          = (IF i = 0 THEN <<>>
                             ELSE IF words[i].text = <<>> THEN f[i - 1]
                             ELSE Append(f[i - 1], words[i].text))
    <3> TAKE i \in 0 .. N
    <3>1. CASE i = 0
      BY <3>1
    <3>2. CASE i # 0
      <4>1. i \in 1 .. N
        BY <1>1, <3>2
      <4>2. G[<<f[i - 1], i>>] = Held(f[i - 1], words[i].text)
        BY <1>4, <4>1
      <4> QED BY <3>2, <4>2 DEF Held
    <3> QED BY <3>1, <3>2
  <2>2. [i \in 0 .. N |-> IF i = 0 THEN <<>> ELSE G[<<f[i - 1], i>>]]
        = [i \in 0 .. N |-> IF i = 0 THEN <<>>
                            ELSE IF words[i].text = <<>> THEN f[i - 1]
                            ELSE Append(f[i - 1], words[i].text)]
    BY <2>1
  <2> QED BY <1>3, <2>2 DEF IsTextsRun, IsIteration
<1> DEFINE g == CHOOSE g : IsTextsRun(g, words)
<1>6. IsTextsRun(g, words)
  BY <1>5
<1>7. TextsOf(words) = g[N]
  BY DEF TextsOf, IsTextsRun
<1> HIDE DEF g, G
<1>8. TextsRun(g, words)
  <2>1. \A i \in 0 .. N : g[i] = IF i = 0 THEN <<>>
                                ELSE IF words[i].text = <<>> THEN g[i - 1]
                                ELSE Append(g[i - 1], words[i].text)
    BY <1>6, Zenon DEF IsTextsRun
  <2>2. 0 \in 0 .. N /\ \A i \in 1 .. N : i \in 0 .. N /\ i # 0
    BY <1>1
  <2> QED BY <2>1, <2>2, Zenon DEF TextsRun, Held
<1> DEFINE D == {i \in 0 .. N : g[i] \in S}
<1>9. 0 \in D
  <2>1. g[0] = <<>> /\ 0 \in 0 .. N /\ <<>> \in S
    BY <1>1, <1>8 DEF TextsRun
  <2> HIDE DEF S, N
  <2> QED BY <2>1
<1>10. ASSUME NEW i \in 0 .. N - 1, i \in D
       PROVE  i + 1 \in D
  <2> DEFINE w == words[i + 1]
             x == g[i]
  <2>1. i + 1 \in 1 .. N /\ i + 1 \in 0 .. N /\ (i + 1) - 1 = i
    BY <1>1
  <2>2. g[i + 1] = Held(x, w.text)
    BY <1>8, <2>1 DEF TextsRun
  <2>3. x \in S /\ IsWord(w)
    BY <1>1, <1>10, <2>1
  <2>4. Held(x, w.text) \in S
    <4>2. w.text \in Seq(Chars)
      BY <2>3, QuotedTyped
    <4> HIDE DEF x, w
    <4>3. Held(x, w.text) \in Seq(Seq(Chars))
      BY <2>3, <4>2, HeldTyped
    <4> QED BY <4>3 DEF x, w
  <2> QED BY <2>1, <2>2, <2>4
<1>11. \A i \in 0 .. N : g[i] \in S
  <2>1. \A i \in 0 .. N - 1 : i \in D => i + 1 \in D
    BY <1>10
  <2> HIDE DEF D, N
  <2>2. \A i \in 0 .. N : i \in D
    BY <1>1, <1>9, <2>1, UpToInduction, Zenon
  <2> QED BY <2>2 DEF D
<1>12. g \in [0 .. N -> S]
  <2>1. g = [i \in 0 .. N |-> g[i]]
    BY <1>6 DEF IsTextsRun
  <2> HIDE DEF N, S
  <2> QED BY <1>11, <2>1
<1> QED BY <1>7, <1>8, <1>12

(* The scanner is between two words, and these are the texts up to it.     *)
Parsed(s, texts) ==
  \E A \in Seq(Seq(Chars)), W \in Seq(Chars) :
    s = State(A, W, FALSE, FALSE) /\ texts = Held(A, W)

(* parseCommand: the words of a command that is written out are the texts  *)
(* that were meant, whatever their gaps and their quotes.                  *)
LEMMA CommandParsed ==
  ASSUME NEW words, IsCommand(words)
  PROVE  parseCommand(CommandOf(words)) = TextsOf(words)
<1> DEFINE N == Len(words)
           start == State(<<>>, <<>>, FALSE, FALSE)
<1>1. /\ N \in Nat
      /\ \A i \in 1 .. N : IsWord(words[i])
      /\ \A i \in 1 .. N : i > 1 => words[i].gap # <<>>
  BY CommandWords
<1>2. PICK c \in [0 .. N -> Seq(Chars)] : CommandRun(c, words) /\ CommandOf(words) = c[N]
  BY CommandRuns
<1>3. PICK t \in [0 .. N -> Seq(Seq(Chars))] : TextsRun(t, words) /\ TextsOf(words) = t[N]
  BY TextsRuns
<1>4. <<>> \in Seq(Chars) /\ <<>> \in Seq(Seq(Chars))
  OBVIOUS
<1>5. start \in States
  BY <1>4, StateTyped
<1>6. Scan(start, <<>>) = start
  <2>1. ScanRun([i \in 0 .. 0 |-> start], start, <<>>)
    <3>1. \A i \in 1 .. Len(<<>>) : FALSE
      OBVIOUS
    <3> HIDE DEF start
    <3> QED BY <3>1 DEF ScanRun
  <2>2. Scan(start, <<>>) = [i \in 0 .. 0 |-> start][Len(<<>>)]
    BY <1>4, <1>5, <2>1, ScanValue
  <2>3. Len(<<>>) = 0
    OBVIOUS
  <2> HIDE DEF start
  <2> QED BY <2>2, <2>3
<1> HIDE DEF N
<1> DEFINE D == {i \in 0 .. N : /\ Parsed(Scan(start, c[i]), t[i])
                                /\ i = 0 => Scan(start, c[i]) = start /\ t[i] = <<>>}
<1>7. 0 \in D
  <2>1. c[0] = <<>> /\ t[0] = <<>> /\ 0 \in 0 .. N
    BY <1>1, <1>2, <1>3 DEF CommandRun, TextsRun
  <2>2. Parsed(start, <<>>)
    BY <1>4 DEF Parsed, Held
  <2> HIDE DEF start
  <2> QED BY <1>6, <2>1, <2>2
<1>8. ASSUME NEW i \in 0 .. N - 1, i \in D
      PROVE  i + 1 \in D
  <2> DEFINE w == words[i + 1]
             s == Scan(start, c[i])
  <2>1. i + 1 \in 1 .. N /\ i + 1 \in 0 .. N /\ i \in 0 .. N /\ (i + 1) - 1 = i /\ i + 1 # 0
    BY <1>1
  <2>2. IsWord(w) /\ (i + 1 > 1 => w.gap # <<>>)
    BY <1>1, <2>1
  <2>3. PICK A \in Seq(Seq(Chars)), W \in Seq(Chars) :
          /\ s = State(A, W, FALSE, FALSE) /\ t[i] = Held(A, W)
          /\ W # <<>> => w.gap # <<>>
    <3>1. CASE i = 0
      <4>1. s = start /\ t[i] = <<>>
        BY <1>8, <3>1
      <4>2. Held(<<>>, <<>>) = <<>>
        BY DEF Held
      <4> HIDE DEF s, w
      <4> QED BY <1>4, <4>1, <4>2
    <3>2. CASE i # 0
      <4>1. i + 1 > 1
        BY <1>1, <3>2
      <4>2. Parsed(s, t[i])
        BY <1>8
      <4> HIDE DEF s, w
      <4> QED BY <2>2, <4>1, <4>2 DEF Parsed
    <3> QED BY <3>1, <3>2
  <2>4. /\ Held(A, W) \in Seq(Seq(Chars))
        /\ Scan(State(A, W, FALSE, FALSE), w.gap \o Quoted(w))
             = State(Held(A, W), w.text, FALSE, FALSE)
    <3> HIDE DEF w
    <3> QED BY <2>2, <2>3, ScanNext, Zenon
  <2>5. /\ c[i] \in Seq(Chars) /\ w.gap \in Seq(Chars) /\ Quoted(w) \in Seq(Chars)
        /\ w.text \in Seq(Chars) /\ w.gap \o Quoted(w) \in Seq(Chars)
    <3>1. c[i] \in Seq(Chars)
      BY <2>1
    <3>2. w.gap \in Seq(Chars) /\ Quoted(w) \in Seq(Chars) /\ w.text \in Seq(Chars)
      BY <2>2, QuotedTyped
    <3> HIDE DEF w
    <3> QED BY <3>1, <3>2
  <2>6. c[i + 1] = c[i] \o (w.gap \o Quoted(w))
    <3>1. c[i + 1] = (c[i] \o w.gap) \o Quoted(w)
      BY <1>2, <2>1 DEF CommandRun, N
    <3> HIDE DEF w
    <3>2. Associates(c[i], w.gap, Quoted(w))
      BY <2>5, ConcatAssociates
    <3> QED BY <3>1, <3>2 DEF Associates
  <2> HIDE DEF w
  <2>7. Scan(start, c[i + 1]) = State(Held(A, W), w.text, FALSE, FALSE)
    <3> DEFINE a == c[i]
               b == w.gap \o Quoted(w)
    <3>1. a \in Seq(Chars) /\ b \in Seq(Chars)
      BY <2>5
    <3> HIDE DEF a, b, start
    <3>2. Scan(start, a \o b) = Scan(Scan(start, a), b)
      BY <1>5, <3>1, ScanConcat, Zenon
    <3> QED BY <2>3, <2>4, <2>6, <3>2 DEF a, b
  <2>8. t[i + 1] = Held(Held(A, W), w.text)
    BY <1>3, <2>1, <2>3 DEF TextsRun, N, w
  <2>9. Parsed(Scan(start, c[i + 1]), t[i + 1])
    <3> HIDE DEF start
    <3> QED BY <2>4, <2>5, <2>7, <2>8 DEF Parsed
  <2> QED BY <2>1, <2>9
<1>9. Parsed(Scan(start, c[N]), t[N])
  <2>1. \A i \in 0 .. N - 1 : i \in D => i + 1 \in D
    BY <1>8
  <2> HIDE DEF D
  <2>2. \A i \in 0 .. N : i \in D
    BY <1>1, <1>7, <2>1, UpToInduction, Zenon
  <2>3. N \in D
    BY <1>1, <2>2
  <2> QED BY <2>3 DEF D
<1> HIDE DEF D
<1>10. PICK A \in Seq(Seq(Chars)), W \in Seq(Chars) :
         Scan(start, c[N]) = State(A, W, FALSE, FALSE) /\ t[N] = Held(A, W)
  BY <1>9 DEF Parsed
<1>11. Flush(State(A, W, FALSE, FALSE)).args = Held(A, W)
  BY DEF Flush, State, Held
<1>12. parseCommand(c[N]) = Flush(Scan(start, c[N])).args
  BY DEF parseCommand, State
<1> HIDE DEF start
<1> QED BY <1>2, <1>3, <1>10, <1>11, <1>12

=============================================================================
