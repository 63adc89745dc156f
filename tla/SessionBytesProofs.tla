------------------------- MODULE SessionBytesProofs -------------------------
(***************************************************************************)
(* What the parser and the printer of tinyjson.h do to each other's work,  *)
(* and to a text that breaks off and is continued by another; and what     *)
(* follows for the session file: its bytes are text, nothing is loaded     *)
(* that nobody said, and every write is one of Session's.                  *)
(***************************************************************************)
EXTENDS SessionBytes, InductionProofs

-----------------------------------------------------------------------------
(* Texts and places.                                                       *)

LEMMA SeqIs ==
  ASSUME NEW S, NEW s \in Seq(S)
  PROVE  /\ Len(s) \in Nat /\ s = [i \in 1..Len(s) |-> s[i]]
         /\ \A i \in 1..Len(s) : s[i] \in S
OBVIOUS

LEMMA SeqBy ==
  ASSUME NEW S, NEW s, Len(s) \in Nat, s = [i \in 1..Len(s) |-> s[i]], \A i \in 1..Len(s) : s[i] \in S
  PROVE  s \in Seq(S)
OBVIOUS

LEMMA PrefixOf ==
  ASSUME NEW S, NEW s \in Seq(S), NEW n \in 0..Len(s)
  PROVE  /\ SubSeq(s, 1, n) \in Seq(S) /\ Len(SubSeq(s, 1, n)) = n
         /\ \A i \in 1..n : SubSeq(s, 1, n)[i] = s[i]
OBVIOUS

LEMMA BehindIs ==
  ASSUME NEW t, Len(t) \in Nat, NEW p \in Places(t), NEW X
  PROVE  /\ Behind(t, p, X) \in p..(Len(t) + 1)
         /\ \A j \in p..(Behind(t, p, X) - 1) : t[j] \in X
         /\ Behind(t, p, X) <= Len(t) => t[Behind(t, p, X)] \notin X
<1> DEFINE Ends(i) == i > Len(t) \/ t[i] \notin X
           T == {i \in Nat : p <= i /\ i <= Len(t) + 1 /\ Ends(i)}
<1>1. T \in SUBSET Nat /\ Len(t) + 1 \in T /\ p \in Nat
  BY DEF Places
<1>2. PICK i \in T : \A y \in T : i <= y
  BY <1>1, LeastElement
<1>3. i \in p..(Len(t) + 1) /\ (i <= Len(t) => t[i] \notin X)
  BY <1>1, <1>2
<1>4. ASSUME NEW j \in p..(i - 1) PROVE t[j] \in X
  <2>1. j \notin T /\ j \in Nat /\ j <= Len(t)
    BY <1>1, <1>2, <1>3
  <2> QED BY <2>1
<1> QED BY <1>3, <1>4 DEF Behind

LEMMA BehindAt ==
  ASSUME NEW t, Len(t) \in Nat, NEW p \in Places(t), NEW X, NEW i \in p..(Len(t) + 1),
         \A j \in p..(i - 1) : t[j] \in X, i <= Len(t) => t[i] \notin X
  PROVE  Behind(t, p, X) = i
<1> SUFFICES ASSUME NEW b, b = Behind(t, p, X) PROVE b = i
  OBVIOUS
<1>1. /\ b \in p..(Len(t) + 1) /\ \A j \in p..(b - 1) : t[j] \in X
      /\ b <= Len(t) => t[b] \notin X
  BY BehindIs
<1>2. p \in Nat /\ i \in Nat /\ b \in Nat
  BY <1>1 DEF Places
<1>3. ~(b < i)
  BY <1>1, <1>2
<1>4. ~(i < b)
  BY <1>1, <1>2
<1> QED BY <1>2, <1>3, <1>4

(* A place where nothing is skipped.                                       *)
LEMMA BehindHere ==
  ASSUME NEW t, Len(t) \in Nat, NEW p \in Places(t), NEW X, p <= Len(t) => t[p] \notin X
  PROVE  Behind(t, p, X) = p
<1>1. p \in p..(Len(t) + 1)
  BY DEF Places
<1>2. \A j \in p..(p - 1) : t[j] \in X
  BY DEF Places
<1> QED BY <1>1, <1>2, BehindAt

LEMMA SkipWsIs ==
  ASSUME NEW t, Len(t) \in Nat, NEW p \in Places(t)
  PROVE  /\ SkipWs(t, p) \in Places(t) /\ SkipWs(t, p) >= p
         /\ p > Len(t) \/ t[p] \notin {9, 10, 13, 32} => SkipWs(t, p) = p
<1>1. SkipWs(t, p) \in p..(Len(t) + 1)
  BY BehindIs DEF SkipWs
<1>2. p > Len(t) \/ t[p] \notin {9, 10, 13, 32} => SkipWs(t, p) = p
  BY BehindHere DEF SkipWs, Places
<1> QED BY <1>1, <1>2 DEF Places

(* NUL included.                                                           *)
Char == 0..255

LEMMA BytesAre ==
  ASSUME NEW x
  PROVE  /\ x \in Byte <=> x \in Nat /\ 1 <= x /\ x <= 255
         /\ x \in Char <=> x \in Nat /\ x <= 255
BY DEF Byte, Char

LEMMA CStringIs ==
  ASSUME NEW s \in Seq(Char)
  PROVE  /\ \E n \in 0..Len(s) : CString(s) = SubSeq(s, 1, n) /\ \A i \in 1..n : s[i] \in Byte
         /\ s \in Seq(Byte) => CString(s) = s
<1>1. Len(s) \in Nat /\ 1 \in Places(s) /\ \A i \in 1..Len(s) : s[i] \in Char
  BY SeqIs DEF Places
<1> DEFINE X == Nat \ {0}
           b == Behind(s, 1, X)
<1>2. b \in 1..(Len(s) + 1) /\ \A j \in 1..(b - 1) : s[j] \in X
  BY <1>1, BehindIs
<1>3. ASSUME s \in Seq(Byte) PROVE b = Len(s) + 1
  <2> DEFINE i == Len(s) + 1
  <2>1. \A j \in 1..Len(s) : s[j] \in X
    <3>1. \A j \in 1..Len(s) : s[j] \in Byte
      BY <1>3, SeqIs
    <3>2. \A x \in Byte : x \in X
      BY BytesAre
    <3> HIDE DEF X
    <3> QED BY <3>1, <3>2
  <2>2. i \in 1..(Len(s) + 1) /\ (\A j \in 1..(i - 1) : s[j] \in X) /\ (i <= Len(s) => s[i] \notin X)
    BY <1>1, <2>1
  <2> HIDE DEF i, X
  <2>3. Behind(s, 1, X) = i
    BY <1>1, <2>2, BehindAt
  <2> QED BY <2>3 DEF i
<1>4. \A j \in 1..(b - 1) : s[j] \in Byte
  BY <1>1, <1>2, BytesAre
<1>5. CString(s) = SubSeq(s, 1, b - 1)
  BY DEF CString
<1> HIDE DEF b
<1>6. b - 1 \in 0..Len(s)
  BY <1>1, <1>2
<1>7. s \in Seq(Byte) => CString(s) = s
  BY <1>1, <1>3, <1>5
<1> QED BY <1>4, <1>5, <1>6, <1>7

LEMMA CStringType ==
  ASSUME NEW s \in Seq(Char)
  PROVE  CString(s) \in Seq(Byte)
<1>1. PICK n \in 0..Len(s) : CString(s) = SubSeq(s, 1, n) /\ \A i \in 1..n : s[i] \in Byte
  BY CStringIs
<1>2. SubSeq(s, 1, n) \in Seq(Byte)
  <2> DEFINE u == SubSeq(s, 1, n)
  <2>1. u \in Seq(Char) /\ Len(u) = n /\ \A i \in 1..n : u[i] = s[i]
    BY PrefixOf
  <2> HIDE DEF u
  <2>2. \A i \in 1..Len(u) : u[i] \in Byte
    BY <1>1, <2>1
  <2>3. u = [i \in 1..Len(u) |-> u[i]] /\ Len(u) \in Nat
    BY <2>1, SeqIs
  <2>4. u \in Seq(Byte)
    BY <2>2, <2>3, SeqBy
  <2> QED BY <2>4 DEF u
<1> QED BY <1>1, <1>2

LEMMA DownInduction ==
  ASSUME NEW n \in Nat, NEW S, \A p \in 1..n : (\A q \in 1..n : q > p => q \in S) => p \in S
  PROVE  \A p \in 1..n : p \in S
<1> DEFINE G == {k \in Nat : \A p \in 1..n : p > n - k => p \in S}
<1>1. 0 \in G
  OBVIOUS
<1>2. ASSUME NEW k \in G PROVE k + 1 \in G
  <2> SUFFICES ASSUME NEW p \in 1..n, p > n - (k + 1) PROVE p \in S
    OBVIOUS
  <2>1. \A q \in 1..n : q > p => q > n - k
    OBVIOUS
  <2> QED BY <2>1
<1>3. G = Nat
  <2> HIDE DEF G
  <2>1. G \in SUBSET Nat
    BY DEF G
  <2> QED BY <1>1, <1>2, <2>1, SetInduction
<1>4. n \in G
  BY <1>3
<1> QED BY <1>4

-----------------------------------------------------------------------------
(* The functions the parser is made of: each looks further on only.        *)

LEMMA CharAtSame ==
  ASSUME NEW t, Len(t) \in Nat, NEW p \in Places(t), NEW f, NEW g,
         \A q \in Places(t) : q > p => f[q] = g[q]
  PROVE  CharAt(t, p, f) = CharAt(t, p, g)
<1>1. p \in Nat /\ p >= 1
  BY DEF Places
<1>2. p <= Len(t) => f[p + 1] = g[p + 1]
  BY <1>1 DEF Places
<1>3. p < Len(t) => f[p + 2] = g[p + 2]
  BY <1>1 DEF Places
<1>4. IsHex(t, p + 2) => f[p + 6] = g[p + 6]
  BY <1>1 DEF Places, IsHex
<1> QED BY <1>1, <1>2, <1>3, <1>4 DEF CharAt

LEMMA CharsIs ==
  ASSUME NEW t, Len(t) \in Nat
  PROVE  \A p \in Places(t) : Chars(t)[p] = CharAt(t, p, Chars(t))
<1> DEFINE n == Len(t) + 1
           Right(f, k) == \A p \in Places(t) : p > n - k => f[p] = CharAt(t, p, f)
           G == {k \in Nat : \E f : f = [p \in Places(t) |-> f[p]] /\ Right(f, k)}
<1>1. 0 \in G
  <2> DEFINE f == [p \in Places(t) |-> 0]
  <2>1. f = [p \in Places(t) |-> f[p]]
    OBVIOUS
  <2>2. Right(f, 0)
    BY DEF Places
  <2> QED BY <2>1, <2>2
<1>2. ASSUME NEW k \in G PROVE k + 1 \in G
  <2>1. PICK f : f = [p \in Places(t) |-> f[p]] /\ Right(f, k)
    OBVIOUS
  <2> DEFINE g == [p \in Places(t) |-> IF p = n - k THEN CharAt(t, p, f) ELSE f[p]]
  <2>2. g = [p \in Places(t) |-> g[p]]
    OBVIOUS
  <2>3. ASSUME NEW p \in Places(t), p > n - (k + 1) PROVE g[p] = CharAt(t, p, g)
    <3>1. p \in Nat /\ k \in Nat /\ n \in Nat
      BY DEF Places
    <3>2. \A q \in Places(t) : q > p => g[q] = f[q]
      BY <2>3, <3>1 DEF Places
    <3> HIDE DEF g
    <3>3. CharAt(t, p, f) = CharAt(t, p, g)
      BY <3>2, CharAtSame
    <3>4. g[p] = IF p = n - k THEN CharAt(t, p, f) ELSE f[p]
      BY DEF g
    <3>5. p # n - k => f[p] = CharAt(t, p, f)
      BY <2>1, <2>3, <3>1
    <3> QED BY <3>3, <3>4, <3>5
  <2> HIDE DEF g
  <2> QED BY <2>2, <2>3
<1>3. G = Nat
  <2> HIDE DEF G
  <2>1. G \in SUBSET Nat
    BY DEF G
  <2> QED BY <1>1, <1>2, <2>1, SetInduction
<1>4. PICK f : f = [p \in Places(t) |-> f[p]] /\ Right(f, n)
  <2>1. n \in G
    BY <1>3
  <2> QED BY <2>1
<1>5. f = [p \in Places(t) |-> CharAt(t, p, f)]
  <2>1. \A p \in Places(t) : f[p] = CharAt(t, p, f)
    BY <1>4 DEF Places
  <2> QED BY <1>4, <2>1
<1>6. Chars(t) = [p \in Places(t) |-> CharAt(t, p, Chars(t))]
  BY <1>5, Zenon DEF Chars
<1> QED BY <1>6

(* Where the parser may be after having begun at p.                        *)
Onward(t, p, r) == r = Null \/ (r.pos \in Places(t) /\ r.pos > p)

-----------------------------------------------------------------------------
(* Strings.                                                                *)

StringNode(s) == [Node("string") EXCEPT !.str = s]

LEMMA NullIs ==
  ASSUME NEW node, NEW p, p # 0
  PROVE  Parsed(node, p) # Null /\ Parsed(node, p).node = node /\ Parsed(node, p).pos = p
BY DEF Parsed, Null

LEMMA PutIs ==
  ASSUME NEW s, NEW u, NEW q, q # 0
  PROVE  Put(s, Null) = Null /\ Put(s, Parsed(StringNode(u), q)) = Parsed(StringNode(s \o u), q)
<1>1. Parsed(StringNode(u), q) # Null
  BY NullIs
<1> QED BY <1>1 DEF Put, Parsed, StringNode, Node

LEMMA MeaningIs ==
  ASSUME NEW b \in Letters \cup {47}
  PROVE  Meaning(b) \in Byte
<1>1. /\ 34 \in Byte /\ 92 \in Byte /\ 8 \in Byte /\ 12 \in Byte /\ 10 \in Byte /\ 13 \in Byte
      /\ 9 \in Byte /\ 47 \in Byte
  BY BytesAre
<1>2. /\ b = 98 => Meaning(b) = 8
      /\ b = 102 => Meaning(b) = 12
      /\ b = 110 => Meaning(b) = 10
      /\ b = 114 => Meaning(b) = 13
      /\ b = 116 => Meaning(b) = 9
      /\ b \in {34, 92, 47} => Meaning(b) = b
  BY DEF Meaning
<1> QED BY <1>1, <1>2 DEF Letters

LEMMA HexIs ==
  ASSUME NEW b
  PROVE  HexDigit(b) \in -1..15
BY DEF HexDigit

LEMMA Utf8Type ==
  ASSUME NEW cp \in Nat, cp < 65536
  PROVE  Utf8(cp) \in Seq(Char)
<1>1. CASE cp < 128
  <2>1. cp \in Char
    BY <1>1, BytesAre
  <2> QED BY <1>1, <2>1 DEF Utf8
<1>2. CASE cp >= 128 /\ cp < 2048
  <2>1. cp \div 64 \in Nat /\ cp \div 64 < 32 /\ cp % 64 \in Nat /\ cp % 64 < 64
    BY <1>2
  <2>2. 192 + (cp \div 64) \in Char /\ 128 + (cp % 64) \in Char
    BY <2>1, BytesAre
  <2> QED BY <1>2, <2>2 DEF Utf8
<1>3. CASE cp >= 2048
  <2>1. cp \div 4096 \in Nat /\ cp \div 4096 < 16 /\ cp % 64 \in Nat /\ cp % 64 < 64
    BY <1>3
  <2>2. (cp \div 64) % 64 \in Nat /\ (cp \div 64) % 64 < 64
    <3>1. cp \div 64 \in Nat
      BY <1>3
    <3> QED BY <3>1
  <2>3. 224 + (cp \div 4096) \in Char /\ 128 + ((cp \div 64) % 64) \in Char /\ 128 + (cp % 64) \in Char
    BY <2>1, <2>2, BytesAre
  <2> QED BY <1>3, <2>3 DEF Utf8
<1> QED BY <1>1, <1>2, <1>3

LEMMA HexAtType ==
  ASSUME NEW t, Len(t) \in Nat, NEW p \in Nat, IsHex(t, p)
  PROVE  HexAt(t, p) \in Nat /\ HexAt(t, p) < 65536
<1>1. \A i \in p..(p + 3) : HexDigit(t[i]) \in Nat /\ HexDigit(t[i]) < 16
  BY HexIs, SMTT(40) DEF IsHex
<1>2. /\ HexDigit(t[p]) \in Nat /\ HexDigit(t[p]) < 16
      /\ HexDigit(t[p + 1]) \in Nat /\ HexDigit(t[p + 1]) < 16
      /\ HexDigit(t[p + 2]) \in Nat /\ HexDigit(t[p + 2]) < 16
      /\ HexDigit(t[p + 3]) \in Nat /\ HexDigit(t[p + 3]) < 16
  BY <1>1
<1>3. \A a, b, c, d \in Nat : a < 16 /\ b < 16 /\ c < 16 /\ d < 16 =>
        4096 * a + 256 * b + 16 * c + d \in Nat /\ 4096 * a + 256 * b + 16 * c + d < 65536
  OBVIOUS
<1> DEFINE a == HexDigit(t[p])
           b == HexDigit(t[p + 1])
           c == HexDigit(t[p + 2])
           d == HexDigit(t[p + 3])
<1>4. HexAt(t, p) = 4096 * a + 256 * b + 16 * c + d
  BY DEF HexAt
<1> HIDE DEF a, b, c, d
<1>5. a \in Nat /\ b \in Nat /\ c \in Nat /\ d \in Nat /\ a < 16 /\ b < 16 /\ c < 16 /\ d < 16
  BY <1>2 DEF a, b, c, d
<1> QED BY <1>3, <1>4, <1>5

(* What comes of a string from p on, as it is read.                        *)
RawIs(t, p, r) ==
  r = Null \/ \E s \in Seq(Char), q \in Places(t) : q > p /\ r = Parsed(StringNode(s), q)

LEMMA RawPut ==
  ASSUME NEW t, Len(t) \in Nat, NEW p \in Places(t), NEW m \in Places(t), m > p,
         NEW r, RawIs(t, m, r), NEW s \in Seq(Char)
  PROVE  RawIs(t, p, Put(s, r))
<1>1. CASE r = Null
  BY <1>1 DEF RawIs, Put
<1>2. CASE r # Null
  <2>1. PICK u \in Seq(Char), q \in Places(t) : q > m /\ r = Parsed(StringNode(u), q)
    BY <1>2 DEF RawIs
  <2>2. q # 0 /\ q > p
    BY <2>1 DEF Places
  <2>3. Put(s, r) = Parsed(StringNode(s \o u), q) /\ s \o u \in Seq(Char)
    BY <2>1, <2>2, PutIs
  <2> QED BY <2>2, <2>3 DEF RawIs
<1> QED BY <1>1, <1>2

LEMMA CharsType ==
  ASSUME NEW t \in Seq(Byte)
  PROVE  \A p \in Places(t) : RawIs(t, p, Chars(t)[p])
<1> DEFINE n == Len(t) + 1
           f == Chars(t)
           S == {p \in Places(t) : RawIs(t, p, f[p])}
<1>1. Len(t) \in Nat /\ \A i \in 1..Len(t) : t[i] \in Byte
  BY SeqIs
<1>2. \A p \in Places(t) : f[p] = CharAt(t, p, f)
  BY <1>1, CharsIs
<1>3. ASSUME NEW p \in 1..n, \A q \in 1..n : q > p => q \in S PROVE p \in S
  <2>1. p \in Places(t) /\ p \in Nat
    BY DEF Places
  <2>2. \A q \in Places(t) : q > p => RawIs(t, q, f[q])
    BY <1>3 DEF Places
  <2> HIDE DEF f
  <2>3. CASE p = Len(t) + 1
    <3>1. CharAt(t, p, f) = Null
      BY <2>3, <1>1 DEF CharAt
    <3> QED BY <1>2, <2>1, <3>1 DEF RawIs
  <2>4. CASE p <= Len(t) /\ t[p] = Quote
    <3>1. CharAt(t, p, f) = Parsed(StringNode(<<>>), p + 1)
      BY <2>4, <1>1, <2>1 DEF CharAt, StringNode, Node
    <3>2. p + 1 \in Places(t) /\ p + 1 > p /\ <<>> \in Seq(Char)
      BY <2>4, <1>1, <2>1 DEF Places
    <3>3. RawIs(t, p, f[p])
      BY <1>2, <2>1, <3>1, <3>2 DEF RawIs
    <3> QED BY <2>1, <3>3
  <2>5. CASE p <= Len(t) /\ t[p] # Quote /\ (t[p] # Backslash \/ p = Len(t))
    <3>1. CharAt(t, p, f) = Put(<<t[p]>>, f[p + 1])
      BY <2>5, <1>1, <2>1 DEF CharAt
    <3>2. p + 1 \in Places(t) /\ p + 1 > p
      BY <2>5, <1>1, <2>1 DEF Places
    <3>3. t[p] \in Char
      BY <2>5, <1>1, <2>1, BytesAre
    <3>4. RawIs(t, p, Put(<<t[p]>>, f[p + 1]))
      <4>1. <<t[p]>> \in Seq(Char) /\ RawIs(t, p + 1, f[p + 1])
        BY <2>2, <3>2, <3>3
      <4> QED BY <1>1, <2>1, <3>2, <4>1, RawPut
    <3> QED BY <1>2, <2>1, <3>1, <3>4
  <2>6. CASE p < Len(t) /\ t[p] = Backslash /\ t[p + 1] \in Letters \cup {47}
    <3>1. CharAt(t, p, f) = Put(<<Meaning(t[p + 1])>>, f[p + 2])
      BY <2>6, <1>1, <2>1 DEF CharAt, Quote, Backslash
    <3>2. p + 2 \in Places(t) /\ p + 2 > p
      BY <2>6, <1>1, <2>1 DEF Places
    <3>3. Meaning(t[p + 1]) \in Char
      BY <2>6, MeaningIs, BytesAre
    <3>4. RawIs(t, p, Put(<<Meaning(t[p + 1])>>, f[p + 2]))
      <4>1. <<Meaning(t[p + 1])>> \in Seq(Char) /\ RawIs(t, p + 2, f[p + 2])
        BY <2>2, <3>2, <3>3
      <4> QED BY <1>1, <2>1, <3>2, <4>1, RawPut
    <3> QED BY <1>2, <2>1, <3>1, <3>4
  <2>7. CASE /\ p < Len(t) /\ t[p] = Backslash /\ t[p + 1] \notin Letters \cup {47}
             /\ t[p + 1] = LetterU /\ IsHex(t, p + 2)
    <3>1. CharAt(t, p, f) = Put(Utf8(HexAt(t, p + 2)), f[p + 6])
      BY <2>7, <1>1, <2>1 DEF CharAt, Quote, Backslash
    <3>2. p + 6 \in Places(t) /\ p + 6 > p
      BY <2>7, <1>1, <2>1 DEF Places, IsHex
    <3>3. Utf8(HexAt(t, p + 2)) \in Seq(Char)
      <4>1. p + 2 \in Nat
        BY <2>1
      <4>2. HexAt(t, p + 2) \in Nat /\ HexAt(t, p + 2) < 65536
        BY <1>1, <2>7, <4>1, HexAtType
      <4> QED BY <4>2, Utf8Type
    <3>4. RawIs(t, p, Put(Utf8(HexAt(t, p + 2)), f[p + 6]))
      BY <1>1, <2>1, <2>2, <3>2, <3>3, RawPut
    <3> QED BY <1>2, <2>1, <3>1, <3>4
  <2>8. CASE /\ p < Len(t) /\ t[p] = Backslash /\ t[p + 1] \notin Letters \cup {47}
             /\ ~(t[p + 1] = LetterU /\ IsHex(t, p + 2))
    <3>1. CharAt(t, p, f) = Null
      BY <2>8, <1>1, <2>1 DEF CharAt, Quote, Backslash
    <3> QED BY <1>2, <2>1, <3>1 DEF RawIs
  <2>9. p <= Len(t) \/ p = Len(t) + 1
    BY <1>1
  <2>10. p <= Len(t) /\ p # Len(t) => p < Len(t)
    BY <1>1, <2>1
  <2> QED BY <2>3, <2>4, <2>5, <2>6, <2>7, <2>8, <2>9, <2>10
<1>4. n \in Nat
  BY <1>1
<1> HIDE DEF S
<1>5. \A p \in 1..n : p \in S
  BY <1>3, <1>4, DownInduction
<1> QED BY <1>5 DEF S, Places

LEMMA ParseStringType ==
  ASSUME NEW t \in Seq(Byte), NEW p \in Places(t)
  PROVE  ParseString(t, p) = Null \/
         \E s \in Seq(Byte), q \in Places(t) : q > p /\ ParseString(t, p) = Parsed(StringNode(s), q)
<1> DEFINE r == Chars(t)[p + 1]
<1>1. CASE ~At(t, p, Quote) \/ r = Null
  BY <1>1 DEF ParseString
<1>2. CASE At(t, p, Quote) /\ r # Null
  <2>1. Len(t) \in Nat /\ p \in Nat
    BY SeqIs DEF Places
  <2>2. p + 1 \in Places(t)
    BY <1>2, <2>1 DEF Places, At
  <2>3. PICK s \in Seq(Char), q \in Places(t) : q > p + 1 /\ r = Parsed(StringNode(s), q)
    BY <1>2, <2>2, CharsType DEF RawIs
  <2>4. ParseString(t, p) = [r EXCEPT !.node.str = CString(@)]
    BY <1>2 DEF ParseString
  <2>5. ParseString(t, p) = Parsed(StringNode(CString(s)), q)
    <3>1. r.node.str = s
      BY <2>3 DEF Parsed, StringNode, Node
    <3>2. ParseString(t, p) = [Parsed(StringNode(s), q) EXCEPT !.node.str = CString(s)]
      BY <2>3, <2>4, <3>1
    <3> QED BY <3>2 DEF Parsed, StringNode, Node
  <2>6. q > p
    BY <2>1, <2>3 DEF Places
  <2> QED BY <2>5, <2>6, CStringType
<1> QED BY <1>1, <1>2

-----------------------------------------------------------------------------
(* Numbers.                                                                *)

Numeral == 48..57
Numeric == Numeral \cup {43, 45, 46, 69, 101}

LEMMA NumeralIs ==
  ASSUME NEW b
  PROVE  /\ b \in Numeral <=> b \in Nat /\ 48 <= b /\ b <= 57
         /\ b \in Numeral => b \in Byte /\ b \in Numeric /\ b # Newline
         /\ 45 \in Numeric
BY BytesAre DEF Numeral, Numeric, Newline

ValueOf(s, f) == f = [k \in 0..Len(s) |-> IF k = 0 THEN 0 ELSE 10 * f[k - 1] + s[k] - 48]

LEMMA ValueExists ==
  ASSUME NEW s \in Seq(Numeral)
  PROVE  ValueOf(s, CHOOSE f : ValueOf(s, f)) /\ DigitsValue(s) = (CHOOSE f : ValueOf(s, f))[Len(s)]
<1> DEFINE n == Len(s)
           Step(f, k) == IF k = 0 THEN 0 ELSE 10 * f[k - 1] + s[k] - 48
           Right(f, m) == \A k \in 0..n : k <= m => f[k] = Step(f, k)
           G == {m \in Nat : \E f : f = [k \in 0..n |-> f[k]] /\ Right(f, m)}
<1>0. n \in Nat
  BY SeqIs
<1> HIDE DEF n
<1>1. 0 \in G
  <2> DEFINE f == [k \in 0..n |-> 0]
  <2>1. f = [k \in 0..n |-> f[k]] /\ Right(f, 0)
    OBVIOUS
  <2> QED BY <2>1
<1>2. ASSUME NEW m \in G PROVE m + 1 \in G
  <2>1. PICK f : f = [k \in 0..n |-> f[k]] /\ Right(f, m)
    OBVIOUS
  <2> DEFINE g == [k \in 0..n |-> IF k = m + 1 THEN Step(f, k) ELSE f[k]]
  <2>2. g = [k \in 0..n |-> g[k]] /\ \A k \in 0..n : g[k] = IF k = m + 1 THEN Step(f, k) ELSE f[k]
    OBVIOUS
  <2> HIDE DEF g
  <2>3. ASSUME NEW k \in 0..n, k <= m + 1 PROVE g[k] = Step(g, k)
    <3>1. k # 0 => k - 1 \in 0..n /\ k - 1 # m + 1
      BY <1>0, <2>3
    <3>2. Step(g, k) = Step(f, k)
      BY <2>2, <3>1
    <3>3. k # m + 1 => f[k] = Step(f, k)
      <4>1. k # m + 1 => k <= m
        BY <1>0, <2>3
      <4> QED BY <2>1, <4>1
    <3> QED BY <2>2, <3>2, <3>3
  <2>4. Right(g, m + 1)
    BY <2>3
  <2>5. m + 1 \in Nat
    OBVIOUS
  <2> HIDE DEF Right
  <2>6. \E h : h = [k \in 0..n |-> h[k]] /\ Right(h, m + 1)
    BY <2>2, <2>4
  <2> QED BY <2>5, <2>6
<1>3. n \in G
  <2> HIDE DEF G
  <2>1. G \in SUBSET Nat
    BY DEF G
  <2> QED BY <1>0, <1>1, <1>2, <2>1, SetInduction
<1>4. PICK h : h = [k \in 0..n |-> h[k]] /\ Right(h, n)
  BY <1>3
<1>5. h = [k \in 0..n |-> Step(h, k)]
  <2>1. \A k \in 0..n : h[k] = Step(h, k)
    BY <1>0, <1>4
  <2> QED BY <1>4, <2>1
<1>6. ValueOf(s, h)
  BY <1>5 DEF ValueOf, n
<1> QED BY <1>6 DEF ValueOf, DigitsValue

LEMMA ValueSame ==
  ASSUME NEW s \in Seq(Numeral), NEW b \in Numeral, NEW f, NEW g, ValueOf(s, f), ValueOf(Append(s, b), g)
  PROVE  g[Len(s)] = f[Len(s)] /\ g[Len(s) + 1] = 10 * f[Len(s)] + b - 48 /\ f[Len(s)] \in Int
<1> DEFINE n == Len(s)
           u == Append(s, b)
           G == {k \in Nat : k <= n => f[k] = g[k] /\ f[k] \in Int}
<1>1. n \in Nat /\ Len(u) = n + 1 /\ u[n + 1] = b /\ \A k \in 1..n : u[k] = s[k] /\ s[k] \in Int
  BY SeqIs, NumeralIs
<1>2. \A k \in 0..n : f[k] = IF k = 0 THEN 0 ELSE 10 * f[k - 1] + s[k] - 48
  BY DEF ValueOf
<1>3. \A k \in 0..(n + 1) : g[k] = IF k = 0 THEN 0 ELSE 10 * g[k - 1] + u[k] - 48
  BY <1>1 DEF ValueOf
<1> HIDE DEF n, u
<1>4. 0 \in G
  BY <1>1, <1>2, <1>3
<1>5. ASSUME NEW k \in G PROVE k + 1 \in G
  <2> SUFFICES ASSUME k + 1 <= n PROVE f[k + 1] = g[k + 1] /\ f[k + 1] \in Int
    OBVIOUS
  <2>1. f[k] = g[k] /\ f[k] \in Int /\ k + 1 \in 0..n /\ k + 1 \in 1..n /\ k + 1 # 0 /\ (k + 1) - 1 = k
    BY <1>1
  <2>2. f[k + 1] = 10 * f[k] + s[k + 1] - 48
    BY <1>2, <2>1
  <2>3. g[k + 1] = 10 * g[k] + u[k + 1] - 48
    BY <1>1, <1>3, <2>1
  <2>4. u[k + 1] = s[k + 1] /\ s[k + 1] \in Int
    BY <1>1, <2>1
  <2> QED BY <2>1, <2>2, <2>3, <2>4
<1>6. n \in G
  <2> HIDE DEF G
  <2>1. G \in SUBSET Nat
    BY DEF G
  <2> QED BY <1>1, <1>4, <1>5, <2>1, SetInduction
<1>7. g[n + 1] = 10 * g[n] + u[n + 1] - 48
  BY <1>1, <1>3
<1> QED BY <1>1, <1>6, <1>7 DEF n

LEMMA DigitsValueIs ==
  ASSUME NEW s \in Seq(Numeral)
  PROVE  /\ s = <<>> => DigitsValue(s) = 0
         /\ \A b \in Numeral : DigitsValue(Append(s, b)) = 10 * DigitsValue(s) + b - 48
         /\ DigitsValue(s) \in Int
<1> DEFINE F(u) == CHOOSE f : ValueOf(u, f)
<1>1. ValueOf(s, F(s)) /\ DigitsValue(s) = F(s)[Len(s)]
  BY ValueExists
<1>2. ASSUME NEW b \in Numeral
      PROVE  /\ DigitsValue(Append(s, b)) = 10 * DigitsValue(s) + b - 48 /\ DigitsValue(s) \in Int
  <2> DEFINE u == Append(s, b)
  <2>1. u \in Seq(Numeral) /\ Len(u) = Len(s) + 1
    OBVIOUS
  <2>2. ValueOf(u, F(u)) /\ DigitsValue(u) = F(u)[Len(u)]
    BY <2>1, ValueExists
  <2> HIDE DEF F
  <2>3. F(u)[Len(s) + 1] = 10 * F(s)[Len(s)] + b - 48 /\ F(s)[Len(s)] \in Int
    BY <1>1, <2>2, ValueSame
  <2> QED BY <1>1, <2>1, <2>2, <2>3
<1>3. s = <<>> => DigitsValue(s) = 0
  <2> SUFFICES ASSUME s = <<>> PROVE DigitsValue(s) = 0
    OBVIOUS
  <2>1. Len(s) = 0 /\ 0 \in 0..Len(s)
    OBVIOUS
  <2> HIDE DEF F
  <2> QED BY <1>1, <2>1 DEF ValueOf
<1>4. 48 \in Numeral
  BY NumeralIs
<1> QED BY <1>2, <1>3, <1>4

DigitsOf(n, f) == f = [k \in 0..n |-> IF k < 10 THEN <<48 + k>> ELSE Append(f[k \div 10], 48 + (k % 10))]

DigitsStep(f, k) == IF k < 10 THEN <<48 + k>> ELSE Append(f[k \div 10], 48 + (k % 10))

LEMMA DigitsAt ==
  ASSUME NEW n, NEW f, DigitsOf(n, f), NEW k \in 0..n
  PROVE  f[k] = DigitsStep(f, k)
<1>1. f = [j \in 0..n |-> DigitsStep(f, j)]
  BY DEF DigitsOf, DigitsStep
<1> QED BY <1>1

LEMMA TenthIs ==
  ASSUME NEW k \in Nat
  PROVE  /\ k % 10 \in Nat /\ k % 10 < 10 /\ k \div 10 \in Nat /\ k = 10 * (k \div 10) + (k % 10)
         /\ k >= 10 => k \div 10 < k /\ k \div 10 >= 1
<1>1. k % 10 \in Nat /\ k % 10 < 10
  OBVIOUS
<1>2. k \div 10 \in Nat
  OBVIOUS
<1>3. k = 10 * (k \div 10) + (k % 10)
  OBVIOUS
<1> DEFINE d == k \div 10
           r == k % 10
<1> HIDE DEF d, r
<1>4. d \in Nat /\ r \in Nat /\ r < 10 /\ k = 10 * d + r
  BY <1>1, <1>2, <1>3 DEF d, r
<1>5. k >= 10 => d < k /\ d >= 1
  BY <1>4
<1> QED BY <1>1, <1>2, <1>3, <1>5 DEF d

LEMMA DigitsExists ==
  ASSUME NEW n \in Nat
  PROVE  DigitsOf(n, CHOOSE f : DigitsOf(n, f)) /\ Digits(n) = (CHOOSE f : DigitsOf(n, f))[n]
<1> DEFINE Step(f, k) == IF k < 10 THEN <<48 + k>> ELSE Append(f[k \div 10], 48 + (k % 10))
           Right(f, m) == \A k \in 0..n : k < m => f[k] = Step(f, k)
           G == {m \in Nat : \E f : f = [k \in 0..n |-> f[k]] /\ Right(f, m)}
<1>1. 0 \in G
  <2> DEFINE f == [k \in 0..n |-> 0]
  <2>1. f = [k \in 0..n |-> f[k]] /\ Right(f, 0)
    OBVIOUS
  <2> QED BY <2>1
<1>2. ASSUME NEW m \in G PROVE m + 1 \in G
  <2>1. PICK f : f = [k \in 0..n |-> f[k]] /\ Right(f, m)
    OBVIOUS
  <2> DEFINE g == [k \in 0..n |-> IF k = m THEN Step(f, k) ELSE f[k]]
  <2>2. g = [k \in 0..n |-> g[k]] /\ \A k \in 0..n : g[k] = IF k = m THEN Step(f, k) ELSE f[k]
    OBVIOUS
  <2> HIDE DEF g
  <2>3. ASSUME NEW k \in 0..n, k < m + 1 PROVE g[k] = Step(g, k)
    <3>1. k >= 10 => k \div 10 \in 0..n /\ k \div 10 # m
      <4>1. m \in Nat /\ k \in Nat /\ k <= n
        OBVIOUS
      <4>2. k >= 10 => k \div 10 \in Nat /\ k \div 10 < k
        BY <4>1, TenthIs
      <4> QED BY <2>3, <4>1, <4>2
    <3>2. Step(g, k) = Step(f, k)
      BY <2>2, <3>1
    <3>3. k # m => f[k] = Step(f, k)
      <4>1. k # m => k < m
        BY <2>3
      <4> QED BY <2>1, <4>1
    <3> QED BY <2>2, <3>2, <3>3
  <2>4. Right(g, m + 1)
    BY <2>3
  <2>5. m + 1 \in Nat
    OBVIOUS
  <2> HIDE DEF Right
  <2>6. \E h : h = [k \in 0..n |-> h[k]] /\ Right(h, m + 1)
    BY <2>2, <2>4
  <2> QED BY <2>5, <2>6
<1>3. n + 1 \in G
  <2> HIDE DEF G
  <2>1. G \in SUBSET Nat
    BY DEF G
  <2> QED BY <1>1, <1>2, <2>1, SetInduction
<1>4. PICK h : h = [k \in 0..n |-> h[k]] /\ Right(h, n + 1)
  BY <1>3
<1>5. h = [k \in 0..n |-> Step(h, k)]
  <2> HIDE DEF Step
  <2>1. \A k \in 0..n : k < n + 1
    OBVIOUS
  <2>2. \A k \in 0..n : h[k] = Step(h, k)
    BY <1>4, <2>1
  <2> QED BY <1>4, <2>2
<1>6. DigitsOf(n, h)
  BY <1>5 DEF DigitsOf
<1> QED BY <1>6 DEF DigitsOf, Digits

LEMMA DigitsSame ==
  ASSUME NEW n \in Nat, NEW m \in 0..n, NEW f, NEW g, DigitsOf(m, f), DigitsOf(n, g)
  PROVE  f[m] = g[m]
<1> DEFINE G == {j \in Nat : \A k \in 0..m : k < j => f[k] = g[k]}
<1>0. \A k \in 0..m : k \in 0..n
  OBVIOUS
<1>1. \A k \in 0..m : f[k] = DigitsStep(f, k)
  BY DigitsAt
<1>2. \A k \in 0..m : g[k] = DigitsStep(g, k)
  BY <1>0, DigitsAt
<1>3. 0 \in G
  OBVIOUS
<1>4. ASSUME NEW j \in G PROVE j + 1 \in G
  <2> SUFFICES ASSUME NEW k \in 0..m, k < j + 1 PROVE f[k] = g[k]
    OBVIOUS
  <2>1. k >= 10 => k \div 10 \in 0..m /\ k \div 10 < j
    BY TenthIs
  <2>2. k >= 10 => f[k \div 10] = g[k \div 10]
    BY <2>1
  <2>3. DigitsStep(f, k) = DigitsStep(g, k)
    BY <2>2 DEF DigitsStep
  <2> QED BY <1>1, <1>2, <2>3
<1>5. m + 1 \in G
  <2> HIDE DEF G
  <2>1. G \in SUBSET Nat
    BY DEF G
  <2> QED BY <1>3, <1>4, <2>1, SetInduction
<1> QED BY <1>5

LEMMA DigitsIs ==
  ASSUME NEW n \in Nat
  PROVE  /\ n < 10 => Digits(n) = <<48 + n>>
         /\ n >= 10 => Digits(n) = Append(Digits(n \div 10), 48 + (n % 10))
<1> DEFINE F(k) == CHOOSE f : DigitsOf(k, f)
<1>1. DigitsOf(n, F(n)) /\ Digits(n) = F(n)[n]
  BY DigitsExists
<1>0. n \in 0..n
  OBVIOUS
<1>2. n < 10 => Digits(n) = <<48 + n>>
  <2> HIDE DEF F
  <2>1. F(n)[n] = DigitsStep(F(n), n)
    BY <1>0, <1>1, DigitsAt
  <2> QED BY <1>1, <2>1 DEF DigitsStep
<1>3. ASSUME n >= 10 PROVE Digits(n) = Append(Digits(n \div 10), 48 + (n % 10))
  <2> DEFINE m == n \div 10
  <2>1. m \in 0..n /\ m \in Nat
    BY <1>3, TenthIs
  <2>2. DigitsOf(m, F(m)) /\ Digits(m) = F(m)[m]
    BY <2>1, DigitsExists
  <2> HIDE DEF F
  <2>3. F(m)[m] = F(n)[m]
    BY <1>1, <2>1, <2>2, DigitsSame
  <2>4. F(n)[n] = Append(F(n)[m], 48 + (n % 10))
    <3>1. F(n)[n] = DigitsStep(F(n), n)
      BY <1>0, <1>1, DigitsAt
    <3> QED BY <1>3, <3>1 DEF DigitsStep
  <2> QED BY <1>1, <2>2, <2>3, <2>4
<1> QED BY <1>2, <1>3

(* The digits of a number are its digits.                                  *)
LEMMA DigitsBack ==
  ASSUME NEW n \in Nat
  PROVE  /\ Digits(n) \in Seq(Numeral) /\ Digits(n) # <<>>
         /\ DigitsValue(Digits(n)) = n
<1> DEFINE G == {j \in Nat : \A k \in Nat : k < j =>
                   /\ Digits(k) \in Seq(Numeral) /\ Digits(k) # <<>> /\ DigitsValue(Digits(k)) = k}
<1>1. 0 \in G
  OBVIOUS
<1>2. ASSUME NEW j \in G PROVE j + 1 \in G
  <2> SUFFICES ASSUME NEW k \in Nat, k < j + 1
               PROVE /\ Digits(k) \in Seq(Numeral) /\ Digits(k) # <<>> /\ DigitsValue(Digits(k)) = k
    OBVIOUS
  <2>1. CASE k < 10
    <3> DEFINE b == 48 + k
               e == <<>>
    <3>0. b \in Numeral /\ e \in Seq(Numeral) /\ e = <<>>
      BY <2>1, NumeralIs
    <3>1. DigitsValue(e) = 0
      <4> HIDE DEF e
      <4> QED BY <3>0, DigitsValueIs
    <3>2. Digits(k) = Append(e, b)
      BY <2>1, DigitsIs
    <3> HIDE DEF e
    <3>3. DigitsValue(Append(e, b)) = 10 * DigitsValue(e) + b - 48
      BY <3>0, DigitsValueIs
    <3>4. DigitsValue(Digits(k)) = k
      BY <3>1, <3>2, <3>3
    <3>5. Append(e, b) \in Seq(Numeral) /\ Append(e, b) # <<>>
      BY <3>0
    <3> QED BY <3>2, <3>4, <3>5
  <2>2. CASE k >= 10
    <3> DEFINE m == k \div 10
               b == 48 + (k % 10)
               e == Digits(m)
    <3>1. m \in Nat /\ m < j /\ k % 10 \in Nat /\ k % 10 < 10 /\ k = 10 * m + (k % 10)
      BY <2>2, TenthIs
    <3>2. e \in Seq(Numeral) /\ DigitsValue(e) = m
      BY <3>1
    <3>3. b \in Numeral
      BY <3>1, NumeralIs
    <3>4. Digits(k) = Append(e, b)
      BY <2>2, DigitsIs
    <3> HIDE DEF e
    <3>5. DigitsValue(Append(e, b)) = 10 * DigitsValue(e) + b - 48
      BY <3>2, <3>3, DigitsValueIs
    <3>6. DigitsValue(Digits(k)) = k
      <4>1. 10 * m + b - 48 = k
        BY <3>1
      <4> HIDE DEF m, b
      <4> QED BY <3>2, <3>4, <3>5, <4>1
    <3>7. Append(e, b) \in Seq(Numeral) /\ Append(e, b) # <<>>
      BY <3>2, <3>3, SMTT(40)
    <3> QED BY <3>4, <3>6, <3>7
  <2> QED BY <2>1, <2>2
<1>3. n + 1 \in G
  <2> HIDE DEF G
  <2>1. G \in SUBSET Nat
    BY DEF G
  <2> QED BY <1>1, <1>2, <2>1, SetInduction
<1> QED BY <1>3

(* They are not more than what the number was read from.                   *)
LEMMA DigitsShort ==
  ASSUME NEW s \in Seq(Numeral)
  PROVE  /\ DigitsValue(s) \in Nat
         /\ Len(s) >= 1 => Len(Digits(DigitsValue(s))) <= Len(s)
<1> DEFINE P(u) == DigitsValue(u) \in Nat /\ (Len(u) >= 1 => Len(Digits(DigitsValue(u))) <= Len(u))
           G == {n \in Nat : \A u \in Seq(Numeral) : Len(u) = n => P(u)}
<1>1. 0 \in G
  <2> SUFFICES ASSUME NEW u \in Seq(Numeral), Len(u) = 0 PROVE P(u)
    OBVIOUS
  <2>1. u = <<>>
    OBVIOUS
  <2>2. DigitsValue(u) = 0
    BY <2>1, DigitsValueIs
  <2> QED BY <2>2
<1>2. ASSUME NEW n \in G PROVE n + 1 \in G
  <2> SUFFICES ASSUME NEW u \in Seq(Numeral), Len(u) = n + 1 PROVE P(u)
    OBVIOUS
  <2> DEFINE e == SubSeq(u, 1, n)
             b == u[n + 1]
             v == DigitsValue(e)
             w == DigitsValue(u)
  <2>1. e \in Seq(Numeral) /\ Len(e) = n /\ b \in Numeral /\ u = Append(e, b)
    OBVIOUS
  <2>2. P(e)
    BY <2>1
  <2>3. w = 10 * v + b - 48 /\ b \in Nat /\ 48 <= b /\ b <= 57
    BY <2>1, DigitsValueIs, NumeralIs
  <2>4. v \in Nat
    BY <2>2
  <2> HIDE DEF v, w
  <2>5. w \in Nat
    BY <2>3, <2>4
  <2>6. CASE w < 10
    <3>1. Len(Digits(w)) = 1
      BY <2>5, <2>6, DigitsIs
    <3> QED BY <2>5, <3>1 DEF w
  <2>7. CASE w >= 10
    <3>1. w \div 10 = v /\ v >= 1
      BY <2>3, <2>4, <2>5, <2>7
    <3>2. Digits(w) = Append(Digits(v), 48 + (w % 10)) /\ Digits(v) \in Seq(Numeral)
      BY <2>4, <2>5, <2>7, <3>1, DigitsIs, DigitsBack
    <3>3. Len(Digits(w)) = Len(Digits(v)) + 1
      BY <3>2
    <3>4. n >= 1
      <4>1. n = 0 => v = 0
        <5>1. n = 0 => e = <<>>
          BY <2>1
        <5> QED BY <2>1, <5>1, DigitsValueIs DEF v
      <4> QED BY <3>1, <4>1
    <3>5. Len(Digits(v)) <= n
      BY <2>1, <2>2, <3>4 DEF v
    <3>6. Len(Digits(w)) <= Len(u)
      BY <3>2, <3>3, <3>5
    <3> QED BY <2>5, <3>6 DEF w
  <2> QED BY <2>5, <2>6, <2>7
<1>3. Len(s) \in G
  <2> HIDE DEF G
  <2>1. G \in SUBSET Nat /\ Len(s) \in Nat
    BY SeqIs DEF G
  <2> QED BY <1>1, <1>2, <2>1, SetInduction
<1> QED BY <1>3

LEMMA DecimalIs ==
  ASSUME NEW n \in Int
  PROVE  /\ Decimal(n) \in Seq(Numeric) /\ Decimal(n) # <<>> /\ Len(Decimal(n)) \in Nat
         /\ n >= 0 => Decimal(n) = Digits(n)
         /\ n < 0 => Decimal(n) = <<45>> \o Digits(-n) /\ -n \in Nat
<1>1. \A s \in Seq(Numeral) : s \in Seq(Numeric)
  <2> TAKE s \in Seq(Numeral)
  <2>1. Len(s) \in Nat /\ s = [i \in 1..Len(s) |-> s[i]] /\ \A i \in 1..Len(s) : s[i] \in Numeral
    BY SeqIs
  <2> QED BY <2>1, NumeralIs, SeqBy
<1>2. CASE n >= 0
  <2>1. Digits(n) \in Seq(Numeral) /\ Digits(n) # <<>>
    BY <1>2, DigitsBack
  <2>2. Decimal(n) = Digits(n)
    BY <1>2 DEF Decimal
  <2>3. Digits(n) \in Seq(Numeric)
    BY <1>1, <2>1
  <2>4. Len(Digits(n)) \in Nat
    BY <2>3
  <2> QED BY <1>2, <2>1, <2>2, <2>3, <2>4
<1>3. CASE n < 0
  <2> DEFINE m == -n
  <2>1. m \in Nat
    BY <1>3
  <2>2. Digits(m) \in Seq(Numeral)
    BY <2>1, DigitsBack
  <2>3. Decimal(n) = <<45>> \o Digits(m)
    BY <1>3 DEF Decimal
  <2>4. Digits(m) \in Seq(Numeric) /\ 45 \in Numeric
    BY <1>1, <2>2, NumeralIs
  <2> DEFINE d == Digits(m)
  <2> HIDE DEF d
  <2>5. <<45>> \o d \in Seq(Numeric) /\ <<45>> \o d # <<>> /\ Len(<<45>> \o d) \in Nat
    BY <2>4 DEF d
  <2> QED BY <1>3, <2>1, <2>3, <2>5 DEF d
<1> QED BY <1>2, <1>3

-----------------------------------------------------------------------------
(* The trees the parser makes.                                             *)

Kinds == {"string", "number", "array", "object", "true", "false", "null"}

Tidy(v) ==
  /\ v = [type |-> v.type, key |-> v.key, str |-> v.str, num |-> v.num, kids |-> v.kids, deep |-> v.deep]
  /\ v.type \in Kinds
  /\ v.key \in Seq(Byte)
  /\ v.str \in Seq(Byte)
  /\ v.type # "string" => v.str = <<>>
  /\ v.num \in Int /\ Len(Decimal(v.num)) < 64
  /\ v.type # "number" => v.num = 0
  /\ v.type \notin {"array", "object"} => v.kids = <<>>
  /\ v.deep \in Nat
  /\ v.kids = <<>> => v.deep = 0
  /\ v.kids # <<>> => \E i \in 1..Len(v.kids) : v.deep = v.kids[i].deep + 1
  /\ \A i \in 1..Len(v.kids) : v.kids[i].deep < v.deep /\ (v.type = "array" => v.kids[i].key = <<>>)

Family(S) == \A v \in S : Tidy(v) /\ v.kids \in Seq(S)

(* A node is in order, and so are all those below it.                      *)
Good(v) == \E S : v \in S /\ Family(S)

LEMMA GoodIs ==
  ASSUME NEW v, Good(v)
  PROVE  /\ Tidy(v) /\ Len(v.kids) \in Nat /\ v.kids = [i \in 1..Len(v.kids) |-> v.kids[i]]
         /\ \A i \in 1..Len(v.kids) : Good(v.kids[i])
<1>1. PICK S : v \in S /\ Family(S)
  BY DEF Good
<1>2. v.kids \in Seq(S) /\ Tidy(v)
  BY <1>1 DEF Family
<1>3. Len(v.kids) \in Nat /\ v.kids = [i \in 1..Len(v.kids) |-> v.kids[i]] /\ \A i \in 1..Len(v.kids) : v.kids[i] \in S
  BY <1>2, SeqIs
<1>4. \A x \in S : Good(x)
  BY <1>1 DEF Good
<1> QED BY <1>2, <1>3, <1>4

LEMMA ShortDecimal == Len(Decimal(0)) < 64
<1>1. Decimal(0) = Digits(0) /\ Digits(0) = <<48 + 0>>
  BY DecimalIs, DigitsIs
<1>2. Len(<<48 + 0>>) < 64
  OBVIOUS
<1> QED BY <1>1, <1>2

(* A node without children.                                                *)
LEMMA LeafGood ==
  ASSUME NEW v, Tidy(v), v.kids = <<>>
  PROVE  Good(v)
<1>1. <<>> \in Seq({v})
  OBVIOUS
<1>2. Family({v})
  BY <1>1 DEF Family
<1> QED BY <1>2 DEF Good

LEMMA NodeGood ==
  ASSUME NEW type \in Kinds, NEW str \in Seq(Byte), type # "string" => str = <<>>,
         NEW num \in Int, Len(Decimal(num)) < 64, type # "number" => num = 0
  PROVE  Good([type |-> type, key |-> <<>>, str |-> str, num |-> num, kids |-> <<>>, deep |-> 0])
<1> DEFINE v == [type |-> type, key |-> <<>>, str |-> str, num |-> num, kids |-> <<>>, deep |-> 0]
<1>1. /\ v.type = type /\ v.key = <<>> /\ v.str = str /\ v.num = num /\ v.kids = <<>> /\ v.deep = 0
      /\ v = [type |-> v.type, key |-> v.key, str |-> v.str, num |-> v.num, kids |-> v.kids, deep |-> v.deep]
  OBVIOUS
<1> HIDE DEF v
<1>2. <<>> \in Seq(Byte) /\ Len(<<>>) = 0
  OBVIOUS
<1>3. Tidy(v)
  BY <1>1, <1>2 DEF Tidy
<1>4. Good(v)
  BY <1>1, <1>3, LeafGood
<1> QED BY <1>4 DEF v

LEMMA PlainGood ==
  ASSUME NEW type \in Kinds
  PROVE  Good(Node(type)) /\ Node(type).type = type /\ Node(type).key = <<>> /\ Node(type).kids = <<>>
<1> DEFINE e == <<>>
<1>1. e \in Seq(Byte) /\ Len(Decimal(0)) < 64
  BY ShortDecimal
<1>2. type # "string" => e = <<>>
  OBVIOUS
<1> HIDE DEF e
<1>3. Good([type |-> type, key |-> <<>>, str |-> e, num |-> 0, kids |-> <<>>, deep |-> 0])
  BY <1>1, <1>2, NodeGood
<1>4. Good([type |-> type, key |-> <<>>, str |-> <<>>, num |-> 0, kids |-> <<>>, deep |-> 0])
  BY <1>3 DEF e
<1> QED BY <1>4 DEF Node

LEMMA StringIs ==
  ASSUME NEW s
  PROVE  StringNode(s) = [type |-> "string", key |-> <<>>, str |-> s, num |-> 0, kids |-> <<>>, deep |-> 0]
BY DEF StringNode, Node

LEMMA StringGood ==
  ASSUME NEW s \in Seq(Byte)
  PROVE  Good(StringNode(s)) /\ StringNode(s).type = "string" /\ StringNode(s).key = <<>>
<1>1. "string" \in Kinds
  BY DEF Kinds
<1>2. Good([type |-> "string", key |-> <<>>, str |-> s, num |-> 0, kids |-> <<>>, deep |-> 0])
  <2>1. Len(Decimal(0)) < 64
    BY ShortDecimal
  <2> QED BY <1>1, <2>1, NodeGood
<1> QED BY <1>2, StringIs

LEMMA KeyedGood ==
  ASSUME NEW v, Good(v), NEW k \in Seq(Byte)
  PROVE  /\ Good([v EXCEPT !.key = k]) /\ [v EXCEPT !.key = k].key = k
         /\ [v EXCEPT !.key = k].deep = v.deep
<1> DEFINE w == [v EXCEPT !.key = k]
<1>1. PICK S : v \in S /\ Family(S)
  BY DEF Good
<1>2. Tidy(v) /\ v.kids \in Seq(S)
  BY <1>1 DEF Family
<1>3. w = [type |-> v.type, key |-> k, str |-> v.str, num |-> v.num, kids |-> v.kids, deep |-> v.deep]
  <2>1. v = [type |-> v.type, key |-> v.key, str |-> v.str, num |-> v.num, kids |-> v.kids, deep |-> v.deep]
    BY <1>2 DEF Tidy
  <2> QED BY <2>1
<1> HIDE DEF w
<1>4. Tidy(w)
  BY <1>2, <1>3 DEF Tidy
<1>5. w.kids \in Seq(S \cup {w}) /\ \A x \in S : x.kids \in Seq(S \cup {w}) /\ Tidy(x)
  BY <1>1, <1>2, <1>3 DEF Family
<1>6. Family(S \cup {w})
  BY <1>4, <1>5 DEF Family
<1>7. Good(w)
  BY <1>6 DEF Good
<1> QED BY <1>3, <1>7 DEF w

LEMMA WithGood ==
  ASSUME NEW item, Good(item), NEW node, Good(node), node.type \in {"array", "object"},
         node.type = "array" => item.key = <<>>
  PROVE  /\ Good(With(item, node)) /\ With(item, node).type = node.type /\ With(item, node).key = node.key
         /\ With(item, node).kids = <<item>> \o node.kids
<1> DEFINE w == With(item, node)
           kids == <<item>> \o node.kids
           deep == IF node.deep > item.deep THEN node.deep ELSE item.deep + 1
<1>1. PICK S : item \in S /\ Family(S)
  BY DEF Good
<1>2. PICK R : node \in R /\ Family(R)
  BY DEF Good
<1>3. Tidy(item) /\ Tidy(node) /\ node.kids \in Seq(R)
  BY <1>1, <1>2 DEF Family
<1>4. w = [type |-> node.type, key |-> node.key, str |-> node.str, num |-> node.num, kids |-> kids, deep |-> deep]
  <2>1. node = [type |-> node.type, key |-> node.key, str |-> node.str, num |-> node.num, kids |-> node.kids, deep |-> node.deep]
    BY <1>3 DEF Tidy
  <2> DEFINE Fields == {"type", "key", "str", "num", "kids", "deep"}
  <2>2. w = [node EXCEPT !.kids = kids, !.deep = deep]
    BY <2>1 DEF With
  <2>3. /\ w.type = node.type /\ w.key = node.key /\ w.str = node.str /\ w.num = node.num
        /\ w.kids = kids /\ w.deep = deep /\ w = [x \in Fields |-> w[x]]
    <3> HIDE DEF w, kids, deep
    <3>1. node = [x \in Fields |-> node[x]]
      BY <2>1
    <3> QED BY <2>2, <3>1
  <2> HIDE DEF w, kids, deep
  <2> QED BY <2>3
<1>5. /\ kids \in Seq(S \cup R) /\ kids # <<>> /\ Len(kids) = Len(node.kids) + 1 /\ Len(node.kids) \in Nat
      /\ kids[1] = item /\ \A i \in 1..Len(node.kids) : kids[i + 1] = node.kids[i]
  <2> DEFINE k == node.kids
  <2>1. k \in Seq(S \cup R)
    BY <1>3
  <2> HIDE DEF k
  <2>2. /\ <<item>> \o k \in Seq(S \cup R) /\ <<item>> \o k # <<>> /\ Len(<<item>> \o k) = Len(k) + 1 /\ Len(k) \in Nat
        /\ (<<item>> \o k)[1] = item /\ \A i \in 1..Len(k) : (<<item>> \o k)[i + 1] = k[i]
    BY <1>1, <2>1
  <2> QED BY <2>2 DEF k
<1>6. item.deep \in Nat /\ node.deep \in Nat
  BY <1>3 DEF Tidy
<1> HIDE DEF w, kids
<1>7. \A i \in 1..Len(kids) : i = 1 \/ (i - 1 \in 1..Len(node.kids) /\ kids[i] = node.kids[i - 1])
  <2> TAKE i \in 1..Len(kids)
  <2>1. i # 1 => i - 1 \in 1..Len(node.kids) /\ (i - 1) + 1 = i
    BY <1>5
  <2> QED BY <1>5, <2>1
<1>8. /\ \A i \in 1..Len(node.kids) : node.kids[i].deep < node.deep /\ (node.type = "array" => node.kids[i].key = <<>>)
      /\ node.kids # <<>> => \E i \in 1..Len(node.kids) : node.deep = node.kids[i].deep + 1
      /\ node.kids = <<>> => node.deep = 0
  BY <1>3 DEF Tidy
<1>9. \A i \in 1..Len(node.kids) : node.kids[i].deep \in Nat
  <2>1. \A i \in 1..Len(node.kids) : Good(node.kids[i])
    BY GoodIs
  <2> QED BY <2>1, GoodIs DEF Tidy
<1>10. \A i \in 1..Len(kids) : kids[i].deep < deep /\ (node.type = "array" => kids[i].key = <<>>)
  <2> TAKE i \in 1..Len(kids)
  <2>1. CASE i = 1
    BY <1>5, <1>6, <2>1
  <2>2. CASE i # 1
    <3>1. i - 1 \in 1..Len(node.kids) /\ kids[i] = node.kids[i - 1]
      BY <1>7, <2>2
    <3>2. kids[i].deep < node.deep /\ (node.type = "array" => kids[i].key = <<>>) /\ kids[i].deep \in Nat
      BY <1>8, <1>9, <3>1
    <3>3. node.deep <= deep /\ deep \in Nat
      BY <1>6
    <3> HIDE DEF deep
    <3> QED BY <1>6, <3>2, <3>3
  <2> QED BY <2>1, <2>2
<1>11. \E i \in 1..Len(kids) : deep = kids[i].deep + 1
  <2>1. CASE node.deep > item.deep
    <3>1. node.kids # <<>>
      BY <1>6, <1>8, <2>1
    <3>2. PICK i \in 1..Len(node.kids) : node.deep = node.kids[i].deep + 1
      BY <1>8, <3>1
    <3>3. i + 1 \in 1..Len(kids) /\ kids[i + 1] = node.kids[i]
      BY <1>5
    <3> QED BY <2>1, <3>2, <3>3
  <2>2. CASE ~(node.deep > item.deep)
    <3>1. 1 \in 1..Len(kids)
      BY <1>5
    <3> QED BY <1>5, <2>2, <3>1
  <2> QED BY <2>1, <2>2
<1>12. deep \in Nat
  BY <1>6
<1> HIDE DEF deep
<1>13. Tidy(w)
  <2>1. /\ node.type \in Kinds /\ node.key \in Seq(Byte) /\ node.str \in Seq(Byte)
        /\ (node.type # "string" => node.str = <<>>)
        /\ node.num \in Int /\ Len(Decimal(node.num)) < 64 /\ (node.type # "number" => node.num = 0)
    BY <1>3 DEF Tidy
  <2> QED BY <1>4, <1>5, <1>10, <1>11, <1>12, <2>1 DEF Tidy
<1>14. Family(S \cup R \cup {w})
  <2> DEFINE U == S \cup R \cup {w}
  <2>1. w.kids \in Seq(U)
    BY <1>4, <1>5
  <2>2. \A x \in S : Tidy(x) /\ x.kids \in Seq(U)
    BY <1>1 DEF Family
  <2>3. \A x \in R : Tidy(x) /\ x.kids \in Seq(U)
    BY <1>2 DEF Family
  <2> QED BY <1>13, <2>1, <2>2, <2>3 DEF Family
<1>15. Good(w)
  BY <1>14 DEF Good
<1> QED BY <1>4, <1>15 DEF w, kids

-----------------------------------------------------------------------------
(* What the parser returns: a tree in order, and a place further on.       *)

Reads(t, p, r) ==
  r = Null \/ \E v, q : Good(v) /\ v.key = <<>> /\ q \in Places(t) /\ q > p /\ r = Parsed(v, q)

ReadsItems(t, p, type, r) ==
  r = Null \/ \E v, q : /\ Good(v) /\ v.key = <<>> /\ v.type = type /\ v.kids # <<>>
                        /\ q \in Places(t) /\ q > p /\ r = Parsed(v, q)

LEMMA ReadsHas ==
  ASSUME NEW t, NEW p, NEW r, Reads(t, p, r), r # Null
  PROVE  /\ Good(r.node) /\ r.node.key = <<>> /\ r.pos \in Places(t) /\ r.pos > p
         /\ r = Parsed(r.node, r.pos)
<1>1. PICK v, q : Good(v) /\ v.key = <<>> /\ q \in Places(t) /\ q > p /\ r = Parsed(v, q)
  BY DEF Reads
<1>2. r.node = v /\ r.pos = q
  BY <1>1 DEF Parsed
<1> QED BY <1>1, <1>2

LEMMA SliceOf ==
  ASSUME NEW S, NEW t \in Seq(S), NEW a \in Nat, NEW b \in Nat, 1 <= a, a <= b, b <= Len(t) + 1,
         NEW X, \A i \in a..(b - 1) : t[i] \in X
  PROVE  /\ SubSeq(t, a, b - 1) \in Seq(X) /\ Len(SubSeq(t, a, b - 1)) = b - a
         /\ \A i \in 1..(b - a) : SubSeq(t, a, b - 1)[i] = t[a + i - 1]
<1> DEFINE u == SubSeq(t, a, b - 1)
<1>1. Len(u) = b - a /\ u = [i \in 1..Len(u) |-> u[i]] /\ \A i \in 1..(b - a) : u[i] = t[a + i - 1]
  <2>1. Len(t) \in Nat /\ t = [i \in 1..Len(t) |-> t[i]]
    OBVIOUS
  <2>2. Len(u) = b - a
    BY <2>1
  <2>3. u = [i \in 1..Len(u) |-> u[i]]
    BY <2>1, SMTT(40)
  <2>4. \A i \in 1..(b - a) : u[i] = t[a + i - 1]
    BY <2>1
  <2> QED BY <2>2, <2>3, <2>4
<1> HIDE DEF u
<1>2. Len(u) \in Nat /\ \A i \in 1..Len(u) : u[i] \in X
  <2>1. Len(u) \in Nat
    BY <1>1
  <2>2. ASSUME NEW i \in 1..Len(u) PROVE u[i] \in X
    <3>1. a + i - 1 \in a..(b - 1) /\ i \in 1..(b - a)
      BY <1>1
    <3>2. u[i] = t[a + i - 1]
      BY <1>1, <3>1
    <3> QED BY <3>1, <3>2
  <2> QED BY <2>1, <2>2
<1>3. u \in Seq(X)
  BY <1>1, <1>2, SeqBy
<1> QED BY <1>1, <1>3 DEF u

Signed == Numeral \cup {45}

LEMMA NumberIs ==
  ASSUME NEW t, NEW p
  PROVE  ParseNumber(t, p) =
           LET end   == Behind(t, p, Numeric)
               first == IF t[p] = 45 THEN p + 1 ELSE p
               value == DigitsValue(SubSeq(t, first, Behind(t, first, Numeral) - 1))
               num   == IF t[p] = 45 THEN -value ELSE value
           IN  IF end - p >= 64 THEN Null
               ELSE Parsed([type |-> "number", key |-> <<>>, str |-> <<>>, num |-> num,
                            kids |-> <<>>, deep |-> 0], end)
<1>1. \A n : [Node("number") EXCEPT !.num = n] = [type |-> "number", key |-> <<>>, str |-> <<>>, num |-> n,
                                              kids |-> <<>>, deep |-> 0]
  BY DEF Node
<1> HIDE DEF Node
<1>2. Numeric = (48..57) \cup {43, 45, 46, 69, 101}
  BY Zenon DEF Numeric, Numeral
<1> QED BY <1>1, <1>2, Zenon DEF ParseNumber, Numeral

LEMMA NumberReads ==
  ASSUME NEW t \in Seq(Byte), NEW p \in Places(t), p <= Len(t), t[p] \in Signed
  PROVE  Reads(t, p, ParseNumber(t, p))
<1> DEFINE end == Behind(t, p, Numeric)
           first == IF t[p] = 45 THEN p + 1 ELSE p
           stop == Behind(t, first, Numeral)
           s == SubSeq(t, first, stop - 1)
           value == DigitsValue(s)
           num == IF t[p] = 45 THEN -value ELSE value
<1>1. Len(t) \in Nat /\ p \in Nat /\ p >= 1
  BY SeqIs DEF Places
<1>2. first \in Places(t) /\ first \in Nat /\ first >= p /\ first <= p + 1
  BY <1>1 DEF Places
<1>3. /\ end \in p..(Len(t) + 1) /\ \A j \in p..(end - 1) : t[j] \in Numeric
      /\ end <= Len(t) => t[end] \notin Numeric
  BY <1>1, BehindIs
<1>4. stop \in first..(Len(t) + 1) /\ \A j \in first..(stop - 1) : t[j] \in Numeral
  BY <1>1, <1>2, BehindIs
<1>5. end > p
  <2>1. t[p] \in Numeric
    BY NumeralIs DEF Signed
  <2>2. end = p => t[p] \notin Numeric
    BY <1>3
  <2> HIDE DEF end
  <2> QED BY <1>1, <1>3, <2>1, <2>2
<1>6. stop <= end
  <2>1. stop > end => t[end] \in Numeric
    <3>1. stop > end => end \in first..(stop - 1)
      <4> HIDE DEF end, stop, first
      <4> QED BY <1>1, <1>2, <1>3, <1>4, <1>5
    <3> QED BY <1>4, <3>1, NumeralIs
  <2>2. stop > end => end <= Len(t)
    <3> HIDE DEF end, stop, first
    <3> QED BY <1>1, <1>2, <1>3, <1>4
  <2> HIDE DEF end, stop, first
  <2> QED BY <1>1, <1>2, <1>3, <1>4, <2>1, <2>2
<1>7. stop \in Nat /\ end \in Nat /\ stop <= Len(t) + 1
  <2> HIDE DEF end, stop, first
  <2> QED BY <1>1, <1>2, <1>3, <1>4
<1>8. s \in Seq(Numeral) /\ Len(s) = stop - first /\ Len(s) \in Nat
  <2> HIDE DEF end, stop, first
  <2>1. first <= stop /\ 1 <= first
    BY <1>1, <1>2, <1>4
  <2>2. s \in Seq(Numeral) /\ Len(s) = stop - first
    BY <1>2, <1>4, <1>7, <2>1, SliceOf
  <2> QED BY <2>2, SeqIs
<1>9. value \in Nat /\ (Len(s) >= 1 => Len(Digits(value)) <= Len(s)) /\ (s = <<>> => value = 0)
  BY <1>8, DigitsShort, DigitsValueIs
<1>10. CASE end - p >= 64
  BY <1>10, NumberIs DEF Reads
<1>11. CASE end - p < 64
  <2>1. num \in Int
    BY <1>9
  <2>2. Len(Decimal(num)) < 64
    <3>1. CASE value = 0
      <4>1. num = 0
        BY <3>1
      <4> QED BY <4>1, ShortDecimal
    <3>2. CASE value # 0
      <4>1. s # <<>> /\ Len(s) >= 1
        BY <1>8, <1>9, <3>2
      <4>2. Len(Digits(value)) <= Len(s) /\ Digits(value) \in Seq(Numeral)
        BY <1>9, <4>1, DigitsBack
      <4>3. CASE t[p] = 45
        <5>1. num < 0 /\ -num = value /\ first = p + 1
          BY <1>9, <3>2, <4>3
        <5> HIDE DEF value, first, num, end, stop, s
        <5>2. Decimal(num) = <<45>> \o Digits(value)
          BY <2>1, <5>1, DecimalIs
        <5>3. Len(Decimal(num)) = 1 + Len(Digits(value))
          BY <4>2, <5>2
        <5>4. Len(Digits(value)) \in Nat
          BY <4>2, SeqIs
        <5> QED BY <1>1, <1>6, <1>7, <1>8, <1>11, <4>2, <5>1, <5>3, <5>4
      <4>4. CASE t[p] # 45
        <5>1. num = value /\ first = p
          BY <4>4
        <5> HIDE DEF value, first, num, end, stop, s
        <5>2. Decimal(num) = Digits(value)
          BY <1>9, <5>1, DecimalIs
        <5>4. Len(Digits(value)) \in Nat
          BY <4>2, SeqIs
        <5> QED BY <1>1, <1>6, <1>7, <1>8, <1>11, <4>2, <5>1, <5>2, <5>4
      <4> QED BY <4>3, <4>4
    <3> QED BY <3>1, <3>2
  <2> DEFINE v == [type |-> "number", key |-> <<>>, str |-> <<>>, num |-> num, kids |-> <<>>, deep |-> 0]
             e == <<>>
  <2>3. Good(v)
    <3>1. "number" \in Kinds /\ e \in Seq(Byte) /\ e = <<>>
      BY DEF Kinds
    <3> HIDE DEF e, num
    <3>2. Good([type |-> "number", key |-> <<>>, str |-> e, num |-> num, kids |-> <<>>, deep |-> 0])
      BY <2>1, <2>2, <3>1, NodeGood
    <3> QED BY <3>1, <3>2
  <2>4. ParseNumber(t, p) = Parsed(v, end)
    <3>1. ~(end - p >= 64)
      BY <1>1, <1>7, <1>11
    <3> QED BY <3>1, NumberIs, Zenon
  <2>5. v.key = <<>> /\ end \in Places(t)
    <3>1. v.key = <<>>
      OBVIOUS
    <3> HIDE DEF end
    <3> QED BY <1>1, <1>3, <3>1 DEF Places
  <2> HIDE DEF v, end
  <2> QED BY <1>5, <2>3, <2>4, <2>5 DEF Reads
<1> QED BY <1>1, <1>7, <1>10, <1>11

LEMMA LiteralIs ==
  ASSUME NEW w \in DOMAIN Literals
  PROVE  /\ w \in Kinds /\ w \notin {"string", "number", "array", "object"}
         /\ Literals[w] \in Seq(Byte) /\ Len(Literals[w]) \in {4, 5}
<1>1. w \in {"true", "false", "null"}
  BY DEF Literals
<1>2. /\ 116 \in Byte /\ 114 \in Byte /\ 117 \in Byte /\ 101 \in Byte /\ 102 \in Byte /\ 97 \in Byte
      /\ 108 \in Byte /\ 115 \in Byte /\ 110 \in Byte
  BY BytesAre
<1>3. CASE w = "true"
  <2>1. Literals[w] = <<116, 114, 117, 101>>
    BY <1>3 DEF Literals
  <2>2. <<116, 114, 117, 101>> \in Seq(Byte) /\ Len(<<116, 114, 117, 101>>) = 4
    BY <1>2
  <2> QED BY <1>3, <2>1, <2>2 DEF Kinds
<1>4. CASE w = "false"
  <2>1. Literals[w] = <<102, 97, 108, 115, 101>>
    BY <1>4 DEF Literals
  <2>2. <<102, 97, 108, 115, 101>> \in Seq(Byte) /\ Len(<<102, 97, 108, 115, 101>>) = 5
    BY <1>2
  <2> QED BY <1>4, <2>1, <2>2 DEF Kinds
<1>5. CASE w = "null"
  <2>1. Literals[w] = <<110, 117, 108, 108>>
    BY <1>5 DEF Literals
  <2>2. <<110, 117, 108, 108>> \in Seq(Byte) /\ Len(<<110, 117, 108, 108>>) = 4
    BY <1>2
  <2> QED BY <1>5, <2>1, <2>2 DEF Kinds
<1> QED BY <1>1, <1>3, <1>4, <1>5

LEMMA LiteralReads ==
  ASSUME NEW t \in Seq(Byte), NEW p \in Places(t)
  PROVE  Reads(t, p, ParseLiteral(t, p))
<1> DEFINE w == CHOOSE w \in DOMAIN Literals : Has(t, p, Literals[w])
<1>1. CASE ~\E x \in DOMAIN Literals : Has(t, p, Literals[x])
  BY <1>1 DEF ParseLiteral, Reads
<1>2. CASE \E x \in DOMAIN Literals : Has(t, p, Literals[x])
  <2>1. w \in DOMAIN Literals /\ Has(t, p, Literals[w])
    BY <1>2
  <2>2. ParseLiteral(t, p) = Parsed(Node(w), p + Len(Literals[w]))
    BY <1>2 DEF ParseLiteral
  <2> HIDE DEF w
  <2>3. w \in Kinds /\ Len(Literals[w]) \in {4, 5}
    BY <2>1, LiteralIs
  <2>4. Good(Node(w)) /\ Node(w).key = <<>>
    BY <2>3, PlainGood
  <2> DEFINE n == Len(Literals[w])
  <2>5. At(t, p + n - 1, Literals[w][n])
    <3>1. n \in {4, 5}
      BY <2>3
    <3> HIDE DEF n
    <3>2. n \in 1..n
      BY <3>1
    <3> QED BY <2>1, <3>2 DEF Has, n
  <2>6. p + n \in Places(t) /\ p + n > p
    <3>1. Len(t) \in Nat /\ p \in Nat /\ p >= 1
      BY SeqIs DEF Places
    <3>2. n \in {4, 5}
      BY <2>3
    <3> HIDE DEF n
    <3> QED BY <2>5, <3>1, <3>2 DEF At, Places
  <2> QED BY <2>2, <2>4, <2>6 DEF Reads
<1> QED BY <1>1, <1>2

LEMMA StringReads ==
  ASSUME NEW t \in Seq(Byte), NEW p \in Places(t)
  PROVE  Reads(t, p, ParseString(t, p))
<1>1. CASE ParseString(t, p) = Null
  BY <1>1 DEF Reads
<1>2. CASE ParseString(t, p) # Null
  <2>1. PICK s \in Seq(Byte), q \in Places(t) : q > p /\ ParseString(t, p) = Parsed(StringNode(s), q)
    BY <1>2, ParseStringType
  <2> QED BY <2>1, StringGood DEF Reads
<1> QED BY <1>1, <1>2

ItemsRead(t, p, f) ==
  \A q \in Places(t), type \in {"array", "object"} : q > p => ReadsItems(t, q, type, f[q][type])

LEMMA ContainerIs ==
  ASSUME NEW t, Len(t) \in Nat, NEW p \in Places(t), p <= Len(t), NEW type \in {"array", "object"}, NEW f
  PROVE  \E q \in Places(t) :
           /\ q > p /\ q = SkipWs(t, p + 1)
           /\ At(t, q, Closing[type]) => Container(t, p, type, f) = Parsed(Node(type), q + 1)
           /\ ~At(t, q, Closing[type]) => Container(t, p, type, f) = f[q][type]
<1> DEFINE q == SkipWs(t, p + 1)
<1>1. p + 1 \in Places(t) /\ p \in Nat
  BY DEF Places
<1>2. q \in Places(t) /\ q >= p + 1 /\ q \in Nat
  BY <1>1, SkipWsIs DEF Places
<1>3. /\ At(t, q, Closing[type]) => Container(t, p, type, f) = Parsed(Node(type), q + 1)
      /\ ~At(t, q, Closing[type]) => Container(t, p, type, f) = f[q][type]
  BY DEF Container
<1> HIDE DEF q
<1>4. q > p
  BY <1>1, <1>2
<1> QED BY <1>2, <1>3, <1>4 DEF q

LEMMA ContainerReads ==
  ASSUME NEW t \in Seq(Byte), NEW p \in Places(t), p <= Len(t), NEW type \in {"array", "object"}, NEW f,
         ItemsRead(t, p, f)
  PROVE  Reads(t, p, Container(t, p, type, f))
<1>1. Len(t) \in Nat /\ p \in Nat
  BY SeqIs DEF Places
<1>2. PICK q \in Places(t) :
           /\ q > p /\ q = SkipWs(t, p + 1)
           /\ At(t, q, Closing[type]) => Container(t, p, type, f) = Parsed(Node(type), q + 1)
           /\ ~At(t, q, Closing[type]) => Container(t, p, type, f) = f[q][type]
  BY <1>1, ContainerIs, SMTT(40)
<1>3. CASE At(t, q, Closing[type])
  <2>1. q + 1 \in Places(t) /\ q + 1 > p
    BY <1>1, <1>2, <1>3 DEF Places, At
  <2>2. Good(Node(type)) /\ Node(type).key = <<>>
    <3>1. type \in Kinds
      BY DEF Kinds
    <3> QED BY <3>1, PlainGood
  <2> QED BY <1>2, <1>3, <2>1, <2>2 DEF Reads
<1>4. CASE ~At(t, q, Closing[type])
  <2>1. ReadsItems(t, q, type, f[q][type])
    BY <1>2 DEF ItemsRead
  <2>2. CASE f[q][type] = Null
    BY <1>2, <1>4, <2>2 DEF Reads
  <2>3. CASE f[q][type] # Null
    <3>1. PICK v, b : /\ Good(v) /\ v.key = <<>> /\ b \in Places(t) /\ b > q /\ f[q][type] = Parsed(v, b)
      BY <2>1, <2>3 DEF ReadsItems
    <3>2. b > p
      BY <1>1, <1>2, <3>1 DEF Places
    <3> QED BY <1>2, <1>4, <3>1, <3>2 DEF Reads
  <2> QED BY <2>2, <2>3
<1> QED BY <1>3, <1>4

LEMMA ValueIs ==
  ASSUME NEW t, Len(t) \in Nat, NEW p \in Places(t), NEW f
  PROVE  \E q \in Places(t) :
           /\ q >= p /\ q = SkipWs(t, p)
           /\ q > Len(t) => ValueAt(t, p, f) = Null
           /\ q <= Len(t) =>
                /\ t[q] = Quote => ValueAt(t, p, f) = ParseString(t, q)
                /\ t[q] = 123 => ValueAt(t, p, f) = Container(t, q, "object", f)
                /\ t[q] = 91 => ValueAt(t, p, f) = Container(t, q, "array", f)
                /\ t[q] \in Signed => ValueAt(t, p, f) = ParseNumber(t, q)
                /\ t[q] \notin Signed \cup {Quote, 123, 91} => ValueAt(t, p, f) = ParseLiteral(t, q)
<1> DEFINE q == SkipWs(t, p)
<1>1. q \in Places(t) /\ q >= p /\ q \in Nat
  BY SkipWsIs DEF Places
<1>2. q > Len(t) => ValueAt(t, p, f) = Null
  BY DEF ValueAt
<1>3. Signed = (48..57) \cup {45}
  BY DEF Signed, Numeral
<1>4. Opening["object"] = 123 /\ Opening["array"] = 91 /\ Quote = 34
  BY DEF Opening, Quote
<1>5. ~(q > Len(t)) =>
        ValueAt(t, p, f) = IF t[q] = Quote THEN ParseString(t, q)
      ELSE IF t[q] = 123 THEN Container(t, q, "object", f)
      ELSE IF t[q] = 91 THEN Container(t, q, "array", f)
      ELSE IF t[q] \in Signed THEN ParseNumber(t, q)
      ELSE ParseLiteral(t, q)
  BY <1>3, <1>4, ZenonT(40) DEF ValueAt
<1>6. q <= Len(t) => ~(q > Len(t))
  <2> HIDE DEF q
  <2> QED BY <1>1
<1>7. 123 \notin Signed /\ 91 \notin Signed /\ 34 \notin Signed
  BY NumeralIs DEF Signed
<1> HIDE DEF q
<1> QED BY <1>1, <1>2, <1>4, <1>5, <1>6, <1>7 DEF q

LEMMA ReadsOn ==
  ASSUME NEW t, Len(t) \in Nat, NEW p \in Places(t), NEW q \in Places(t), q >= p, NEW r, Reads(t, q, r)
  PROVE  Reads(t, p, r)
<1>1. \A b \in Places(t) : b > q => b > p
  BY DEF Places
<1> QED BY <1>1 DEF Reads

LEMMA ValueReads ==
  ASSUME NEW t \in Seq(Byte), NEW p \in Places(t), NEW f, ItemsRead(t, p, f)
  PROVE  Reads(t, p, ValueAt(t, p, f))
<1>1. Len(t) \in Nat /\ p \in Nat
  BY SeqIs DEF Places
<1> DEFINE r == ValueAt(t, p, f)
<1>2. PICK q \in Places(t) :
           /\ q >= p /\ q = SkipWs(t, p)
           /\ q > Len(t) => r = Null
           /\ q <= Len(t) =>
                /\ t[q] = Quote => r = ParseString(t, q)
                /\ t[q] = 123 => r = Container(t, q, "object", f)
                /\ t[q] = 91 => r = Container(t, q, "array", f)
                /\ t[q] \in Signed => r = ParseNumber(t, q)
                /\ t[q] \notin Signed \cup {Quote, 123, 91} => r = ParseLiteral(t, q)
  BY <1>1, ValueIs
<1> HIDE DEF r
<1>3. CASE q > Len(t)
  BY <1>2, <1>3 DEF Reads, r
<1>4. CASE q <= Len(t)
  <2>1. ItemsRead(t, q, f)
    <3>1. \A b \in Places(t) : b > q => b > p
      BY <1>1, <1>2 DEF Places
    <3> QED BY <3>1 DEF ItemsRead
  <2>2. Reads(t, q, Container(t, q, "object", f)) /\ Reads(t, q, Container(t, q, "array", f))
    BY <1>4, <2>1, ContainerReads
  <2>3. t[q] \in Signed => Reads(t, q, ParseNumber(t, q))
    BY <1>4, NumberReads
  <2>4. Reads(t, q, ParseLiteral(t, q)) /\ Reads(t, q, ParseString(t, q))
    BY LiteralReads, StringReads
  <2>5. Reads(t, q, r)
    BY <1>2, <1>4, <2>2, <2>3, <2>4
  <2>6. Reads(t, p, r)
    BY <1>1, <1>2, <2>5, ReadsOn
  <2> QED BY <2>6 DEF r
<1>5. q > Len(t) \/ q <= Len(t)
  BY <1>1 DEF Places
<1> QED BY <1>3, <1>4, <1>5

(* What is made of an item that ends before q.                             *)
Rest(t, type, item, q, f) ==
  LET next == SkipWs(t, q)
  IN  IF At(t, next, Comma) THEN Ahead(item, f[next + 1][type])
      ELSE IF At(t, next, Closing[type]) THEN Parsed(With(item, Node(type)), next + 1)
      ELSE Null

LEMMA ArrayItems ==
  ASSUME NEW t, NEW p, NEW f
  PROVE  ItemsAt(t, p, "array", f) =
           IF ValueAt(t, p, f) = Null THEN Null
           ELSE Rest(t, "array", ValueAt(t, p, f).node, ValueAt(t, p, f).pos, f)
<1>1. ("array" = "object") = FALSE
  OBVIOUS
<1> QED BY <1>1, Zenon DEF ItemsAt, Rest, Closes

LEMMA ObjectItems ==
  ASSUME NEW t, NEW p, NEW f
  PROVE  ItemsAt(t, p, "object", f) =
           LET name  == ParseString(t, SkipWs(t, p))
               colon == SkipWs(t, name.pos)
               value == ValueAt(t, colon + 1, f)
           IN  IF name = Null \/ ~At(t, colon, Colon) \/ value = Null THEN Null
               ELSE Rest(t, "object", [value.node EXCEPT !.key = name.node.str], value.pos, f)
BY Zenon DEF ItemsAt, Rest, Closes

LEMMA AheadIs ==
  ASSUME NEW item, NEW v, NEW q, q # 0
  PROVE  Ahead(item, Null) = Null /\ Ahead(item, Parsed(v, q)) = Parsed(With(item, v), q)
<1>1. Parsed(v, q) # Null
  BY NullIs
<1>2. [Parsed(v, q) EXCEPT !.node = With(item, @)] = Parsed(With(item, v), q)
  <2> HIDE DEF With
  <2> QED BY DEF Parsed
<1> QED BY <1>1, <1>2 DEF Ahead

LEMMA RestReads ==
  ASSUME NEW t \in Seq(Byte), NEW p \in Places(t), NEW q \in Places(t), q > p, NEW f, ItemsRead(t, p, f),
         NEW type \in {"array", "object"}, NEW item, Good(item), type = "array" => item.key = <<>>
  PROVE  ReadsItems(t, p, type, Rest(t, type, item, q, f))
<1> DEFINE next == SkipWs(t, q)
           r == f[next + 1][type]
<1>0. Len(t) \in Nat /\ p \in Nat
  BY SeqIs DEF Places
<1>1. next \in Places(t) /\ next \in Nat /\ next > p /\ (next <= Len(t) => next + 1 \in Places(t) /\ next + 1 > p)
  <2>1. next \in Places(t) /\ next >= q
    BY <1>0, SkipWsIs
  <2> HIDE DEF next
  <2> QED BY <1>0, <2>1 DEF Places
<1>2. CASE At(t, next, Comma)
  <2>1. Rest(t, type, item, q, f) = Ahead(item, r)
    BY <1>2 DEF Rest
  <2>2. next <= Len(t)
    BY <1>2 DEF At
  <2> HIDE DEF next
  <2>3. ReadsItems(t, next + 1, type, r)
    BY <1>1, <2>2 DEF ItemsRead
  <2>4. CASE r = Null
    <3>1. Ahead(item, r) = Null
      BY <2>4 DEF Ahead
    <3> QED BY <2>1, <3>1 DEF ReadsItems
  <2>5. CASE r # Null
    <3>1. PICK v, b : /\ Good(v) /\ v.key = <<>> /\ v.type = type /\ b \in Places(t) /\ b > next + 1
                      /\ r = Parsed(v, b)
      BY <2>3, <2>5 DEF ReadsItems
    <3>2. b > p /\ b # 0
      BY <1>0, <1>1, <3>1 DEF Places
    <3> HIDE DEF r
    <3>3. Ahead(item, r) = Parsed(With(item, v), b)
      BY <3>1, <3>2, AheadIs
    <3>4. /\ Good(With(item, v)) /\ With(item, v).type = type /\ With(item, v).key = <<>>
          /\ With(item, v).kids = <<item>> \o v.kids
      BY <3>1, WithGood
    <3>5. <<item>> \o v.kids # <<>>
      <4>1. v.kids \in Seq({v.kids[i] : i \in 1..Len(v.kids)})
        <5>1. Len(v.kids) \in Nat /\ v.kids = [i \in 1..Len(v.kids) |-> v.kids[i]]
          BY <3>1, GoodIs
        <5> DEFINE X == {v.kids[i] : i \in 1..Len(v.kids)}
        <5>2. \A i \in 1..Len(v.kids) : v.kids[i] \in X
          OBVIOUS
        <5> HIDE DEF X
        <5>3. v.kids \in Seq(X)
          BY <5>1, <5>2, SeqBy
        <5> QED BY <5>3 DEF X
      <4> DEFINE k == v.kids
      <4>2. \E X : k \in Seq(X)
        BY <4>1
      <4> HIDE DEF k
      <4>3. <<item>> \o k # <<>>
        BY <4>2
      <4> QED BY <4>3 DEF k
    <3> QED BY <2>1, <3>1, <3>2, <3>3, <3>4, <3>5 DEF ReadsItems
  <2> QED BY <2>4, <2>5
<1>3. CASE ~At(t, next, Comma) /\ At(t, next, Closing[type])
  <2>1. Rest(t, type, item, q, f) = Parsed(With(item, Node(type)), next + 1)
    BY <1>3 DEF Rest
  <2>2. next <= Len(t)
    BY <1>3 DEF At
  <2> HIDE DEF next
  <2>3. next + 1 \in Places(t) /\ next + 1 > p
    BY <1>1, <2>2
  <2>4. Good(Node(type)) /\ Node(type).key = <<>> /\ Node(type).type = type /\ Node(type).kids = <<>>
    <3>1. type \in Kinds
      BY DEF Kinds
    <3> QED BY <3>1, PlainGood
  <2>5. /\ Good(With(item, Node(type))) /\ With(item, Node(type)).type = type
        /\ With(item, Node(type)).key = <<>> /\ With(item, Node(type)).kids = <<item>> \o <<>>
    BY <2>4, WithGood
  <2>6. <<item>> \o <<>> # <<>>
    OBVIOUS
  <2> QED BY <2>1, <2>3, <2>5, <2>6 DEF ReadsItems
<1>4. CASE ~At(t, next, Comma) /\ ~At(t, next, Closing[type])
  <2>1. Rest(t, type, item, q, f) = Null
    BY <1>4 DEF Rest
  <2> QED BY <2>1 DEF ReadsItems
<1> QED BY <1>2, <1>3, <1>4

(* The name in front of an item of an object.                              *)
LEMMA NameIs ==
  ASSUME NEW t \in Seq(Byte), NEW p \in Places(t)
  PROVE  LET name  == ParseString(t, SkipWs(t, p))
             colon == SkipWs(t, name.pos)
         IN  (name = Null \/ ~At(t, colon, Colon)) \/
             \E s \in Seq(Byte), q \in Places(t) :
               /\ name = Parsed(StringNode(s), q) /\ name.pos = q /\ name.node.str = s
               /\ colon \in Nat /\ colon > p /\ colon + 1 \in Places(t) /\ colon + 1 > p
<1> DEFINE name  == ParseString(t, SkipWs(t, p))
           colon == SkipWs(t, name.pos)
<1> SUFFICES ASSUME name # Null, At(t, colon, Colon)
             PROVE  \E s \in Seq(Byte), q \in Places(t) :
               /\ name = Parsed(StringNode(s), q) /\ name.pos = q /\ name.node.str = s
               /\ colon \in Nat /\ colon > p /\ colon + 1 \in Places(t) /\ colon + 1 > p
  OBVIOUS
<1>1. Len(t) \in Nat /\ p \in Nat
  BY SeqIs DEF Places
<1>2. SkipWs(t, p) \in Places(t) /\ SkipWs(t, p) >= p
  BY <1>1, SkipWsIs
<1>3. PICK s \in Seq(Byte), q \in Places(t) : q > SkipWs(t, p) /\ name = Parsed(StringNode(s), q)
  BY <1>2, ParseStringType
<1>4. name.pos = q /\ name.node = StringNode(s) /\ StringNode(s).str = s
  BY <1>3, StringIs DEF Parsed
<1>5. colon \in Places(t) /\ colon >= q /\ colon <= Len(t)
  <2>1. SkipWs(t, q) \in Places(t) /\ SkipWs(t, q) >= q
    BY <1>1, SkipWsIs
  <2> QED BY <1>4, <2>1 DEF At
<1> HIDE DEF name, colon
<1>6. colon \in Nat /\ colon > p /\ colon + 1 \in Places(t) /\ colon + 1 > p
  BY <1>1, <1>2, <1>3, <1>5 DEF Places
<1> QED BY <1>3, <1>4, <1>6

LEMMA ItemsAtReads ==
  ASSUME NEW t \in Seq(Byte), NEW p \in Places(t), NEW f, ItemsRead(t, p, f), NEW type \in {"array", "object"}
  PROVE  ReadsItems(t, p, type, ItemsAt(t, p, type, f))
<1>0. Len(t) \in Nat /\ p \in Nat
  BY SeqIs DEF Places
<1>1. CASE type = "array"
  <2> DEFINE r == ValueAt(t, p, f)
  <2>1. Reads(t, p, r)
    BY ValueReads
  <2>2. CASE r = Null
    BY <1>1, <2>2, ArrayItems DEF ReadsItems
  <2>3. CASE r # Null
    <3>1. PICK v, q : Good(v) /\ v.key = <<>> /\ q \in Places(t) /\ q > p /\ r = Parsed(v, q)
      BY <2>1, <2>3 DEF Reads
    <3>2. r.node = v /\ r.pos = q
      BY <3>1 DEF Parsed
    <3>3. ItemsAt(t, p, type, f) = Rest(t, "array", v, q, f)
      BY <1>1, <2>3, <3>2, ArrayItems
    <3>4. ReadsItems(t, p, "array", Rest(t, "array", v, q, f))
      BY <3>1, RestReads
    <3> QED BY <1>1, <3>3, <3>4
  <2> QED BY <2>2, <2>3
<1>2. CASE type = "object"
  <2> DEFINE name  == ParseString(t, SkipWs(t, p))
             colon == SkipWs(t, name.pos)
             r     == ValueAt(t, colon + 1, f)
  <2>1. CASE name = Null \/ ~At(t, colon, Colon) \/ r = Null
    <3>1. ItemsAt(t, p, "object", f) = Null
      BY <2>1, ObjectItems, Zenon
    <3> QED BY <1>2, <3>1 DEF ReadsItems
  <2>2. CASE ~(name = Null \/ ~At(t, colon, Colon) \/ r = Null)
    <3>1. PICK s \in Seq(Byte), m \in Places(t) :
               /\ name = Parsed(StringNode(s), m) /\ name.pos = m /\ name.node.str = s
               /\ colon \in Nat /\ colon > p /\ colon + 1 \in Places(t) /\ colon + 1 > p
      BY <2>2, NameIs
    <3>2. ItemsRead(t, colon + 1, f)
      <4>1. \A b \in Places(t) : b > colon + 1 => b > p
        BY <1>0, <3>1 DEF Places
      <4> QED BY <4>1 DEF ItemsRead
    <3>3. Reads(t, colon + 1, r)
      BY <3>1, <3>2, ValueReads
    <3>4. PICK v, q : Good(v) /\ v.key = <<>> /\ q \in Places(t) /\ q > colon + 1 /\ r = Parsed(v, q)
      BY <2>2, <3>3 DEF Reads
    <3>5. r.node = v /\ r.pos = q
      BY <3>4 DEF Parsed
    <3> DEFINE item == [v EXCEPT !.key = s]
    <3>6. ItemsAt(t, p, "object", f) = Rest(t, "object", item, q, f)
      <4>1. ItemsAt(t, p, "object", f) = Rest(t, "object", [r.node EXCEPT !.key = name.node.str], r.pos, f)
        BY <2>2, ObjectItems, Zenon
      <4>2. name.node.str = s
        BY <3>1
      <4> HIDE DEF r, name
      <4> QED BY <3>5, <4>1, <4>2
    <3>7. Good(item)
      BY <3>4, KeyedGood
    <3>8. q > p
      BY <1>0, <3>1, <3>4 DEF Places
    <3> HIDE DEF item
    <3>9. ReadsItems(t, p, "object", Rest(t, "object", item, q, f))
      BY <3>4, <3>7, <3>8, RestReads
    <3> QED BY <1>2, <3>6, <3>9
  <2> QED BY <2>1, <2>2
<1> QED BY <1>1, <1>2

(* The items from p on depend on those further on only.                    *)
Same(t, p, f, g) == \A q \in Places(t), type \in {"array", "object"} : q > p => f[q][type] = g[q][type]

LEMMA ContainerSame ==
  ASSUME NEW t, Len(t) \in Nat, NEW p \in Places(t), p <= Len(t), NEW type \in {"array", "object"},
         NEW f, NEW g, Same(t, p, f, g)
  PROVE  Container(t, p, type, f) = Container(t, p, type, g)
<1> DEFINE q == SkipWs(t, p + 1)
<1>1. p + 1 \in Places(t) /\ p \in Nat
  BY DEF Places
<1>2. q \in Places(t) /\ q >= p + 1 /\ q \in Nat
  BY <1>1, SkipWsIs DEF Places
<1>3. f[q][type] = g[q][type]
  <2>1. q > p
    <3> HIDE DEF q
    <3> QED BY <1>1, <1>2
  <2> QED BY <1>2, <2>1 DEF Same
<1> QED BY <1>3, Zenon DEF Container

LEMMA ValueAtSame ==
  ASSUME NEW t, Len(t) \in Nat, NEW p \in Places(t), NEW f, NEW g, Same(t, p, f, g)
  PROVE  ValueAt(t, p, f) = ValueAt(t, p, g)
<1> DEFINE q == SkipWs(t, p)
<1>1. q \in Places(t) /\ q >= p /\ q \in Nat /\ p \in Nat
  BY SkipWsIs DEF Places
<1>2. Same(t, q, f, g)
  <2> HIDE DEF q
  <2>1. \A b \in Places(t) : b > q => b > p
    BY <1>1 DEF Places
  <2> QED BY <2>1 DEF Same
<1>3. ~(q > Len(t)) => \A type \in {"array", "object"} : Container(t, q, type, f) = Container(t, q, type, g)
  <2> HIDE DEF q
  <2>1. ~(q > Len(t)) => q <= Len(t)
    BY <1>1
  <2> QED BY <1>1, <1>2, <2>1, ContainerSame
<1>4. ~(q > Len(t)) => /\ Container(t, q, "object", f) = Container(t, q, "object", g)
                       /\ Container(t, q, "array", f) = Container(t, q, "array", g)
  BY <1>3
<1> QED BY <1>4, Zenon DEF ValueAt

LEMMA RestSame ==
  ASSUME NEW t, Len(t) \in Nat, NEW p \in Places(t), NEW q \in Places(t), q > p, NEW f, NEW g,
         Same(t, p, f, g), NEW type \in {"array", "object"}, NEW item
  PROVE  Rest(t, type, item, q, f) = Rest(t, type, item, q, g)
<1> DEFINE next == SkipWs(t, q)
<1>1. next \in Places(t) /\ next >= q
  BY SkipWsIs
<1>2. At(t, next, Comma) => f[next + 1][type] = g[next + 1][type]
  <2> HIDE DEF next
  <2>1. At(t, next, Comma) => next + 1 \in Places(t) /\ next + 1 > p
    BY <1>1 DEF At, Places
  <2> QED BY <2>1 DEF Same
<1> QED BY <1>2, Zenon DEF Rest

LEMMA ItemsAtSame ==
  ASSUME NEW t \in Seq(Byte), NEW p \in Places(t), NEW f, NEW g, Same(t, p, f, g),
         ItemsRead(t, p, f), NEW type \in {"array", "object"}
  PROVE  ItemsAt(t, p, type, f) = ItemsAt(t, p, type, g)
<1>0. Len(t) \in Nat /\ p \in Nat
  BY SeqIs DEF Places
<1>1. CASE type = "array"
  <2> DEFINE r == ValueAt(t, p, f)
  <2>1. Reads(t, p, r) /\ r = ValueAt(t, p, g)
    BY <1>0, ValueReads, ValueAtSame
  <2>2. CASE r = Null
    BY <1>1, <2>1, <2>2, ArrayItems
  <2>3. CASE r # Null
    <3>1. r.pos \in Places(t) /\ r.pos > p /\ "array" \in {"array", "object"}
      BY <2>1, <2>3, ReadsHas
    <3>2. Rest(t, "array", r.node, r.pos, f) = Rest(t, "array", r.node, r.pos, g)
      <4> DEFINE q == r.pos
                 item == r.node
                 type_ == "array"
      <4> HIDE DEF q, item, type_
      <4>1. q \in Places(t) /\ q > p /\ type_ \in {"array", "object"}
        BY <3>1 DEF q, type_
      <4>2. Rest(t, type_, item, q, f) = Rest(t, type_, item, q, g)
        BY <1>0, <4>1, RestSame
      <4> QED BY <4>2 DEF q, item, type_
    <3> QED BY <1>1, <2>1, <2>3, <3>2, ArrayItems
  <2> QED BY <2>2, <2>3
<1>2. CASE type = "object"
  <2> DEFINE name  == ParseString(t, SkipWs(t, p))
             colon == SkipWs(t, name.pos)
             r     == ValueAt(t, colon + 1, f)
             u     == ValueAt(t, colon + 1, g)
  <2>1. CASE name = Null \/ ~At(t, colon, Colon)
    <3>1. ItemsAt(t, p, "object", f) = Null /\ ItemsAt(t, p, "object", g) = Null
      BY <2>1, ObjectItems, Zenon
    <3> QED BY <1>2, <3>1
  <2>2. CASE ~(name = Null \/ ~At(t, colon, Colon))
    <3>1. colon \in Nat /\ colon > p /\ colon + 1 \in Places(t) /\ colon + 1 > p
      BY <2>2, NameIs
    <3>2. ItemsRead(t, colon + 1, f) /\ Same(t, colon + 1, f, g)
      <4>1. \A b \in Places(t) : b > colon + 1 => b > p
        BY <1>0, <3>1 DEF Places
      <4> QED BY <4>1 DEF ItemsRead, Same
    <3>3. Reads(t, colon + 1, r) /\ r = u
      BY <1>0, <3>1, <3>2, ValueReads, ValueAtSame
    <3> DEFINE item == [r.node EXCEPT !.key = name.node.str]
    <3>4. ItemsAt(t, p, "object", f) = IF r = Null THEN Null ELSE Rest(t, "object", item, r.pos, f)
      BY <2>2, ObjectItems, Zenon
    <3>5. ItemsAt(t, p, "object", g) = IF r = Null THEN Null ELSE Rest(t, "object", item, r.pos, g)
      <4>1. ItemsAt(t, p, "object", g) =
              IF u = Null THEN Null ELSE Rest(t, "object", [u.node EXCEPT !.key = name.node.str], u.pos, g)
        BY <2>2, ObjectItems, Zenon
      <4> HIDE DEF r, u, name
      <4> QED BY <3>3, <4>1
    <3> HIDE DEF item, name, colon, r
    <3>6. r # Null => Rest(t, "object", item, r.pos, f) = Rest(t, "object", item, r.pos, g)
      <4> SUFFICES ASSUME r # Null PROVE Rest(t, "object", item, r.pos, f) = Rest(t, "object", item, r.pos, g)
        OBVIOUS
      <4>1. r.pos \in Places(t) /\ r.pos > colon + 1 /\ "object" \in {"array", "object"}
        BY <3>3, ReadsHas
      <4>2. r.pos > p
        BY <1>0, <3>1, <4>1 DEF Places
      <4> DEFINE q == r.pos
                 type_ == "object"
      <4> HIDE DEF q, type_
      <4>3. q \in Places(t) /\ q > p /\ type_ \in {"array", "object"}
        BY <4>1, <4>2 DEF q, type_
      <4>4. Rest(t, type_, item, q, f) = Rest(t, type_, item, q, g)
        BY <1>0, <4>3, RestSame
      <4> QED BY <4>4 DEF q, type_
    <3> QED BY <1>2, <3>4, <3>5, <3>6
  <2> QED BY <2>1, <2>2
<1> QED BY <1>1, <1>2

LEMMA ItemsIs ==
  ASSUME NEW t \in Seq(Byte)
  PROVE  \A p \in Places(t), type \in {"array", "object"} :
           /\ Items(t)[p][type] = ItemsAt(t, p, type, Items(t))
           /\ ReadsItems(t, p, type, Items(t)[p][type])
<1> DEFINE n == Len(t) + 1
           New(p, f) == [type \in {"array", "object"} |-> ItemsAt(t, p, type, f)]
           Right(f, k) == \A p \in Places(t) : p > n - k =>
              /\ f[p] = New(p, f)
              /\ \A type \in {"array", "object"} : ReadsItems(t, p, type, f[p][type])
           G == {k \in Nat : \E f : f = [p \in Places(t) |-> f[p]] /\ Right(f, k)}
<1>0. Len(t) \in Nat /\ n \in Nat
  BY SeqIs
<1>1. 0 \in G
  <2> DEFINE f == [p \in Places(t) |-> 0]
  <2>1. f = [p \in Places(t) |-> f[p]]
    OBVIOUS
  <2>2. Right(f, 0)
    BY <1>0 DEF Places
  <2> HIDE DEF f, Right
  <2> QED BY <2>1, <2>2
<1>2. ASSUME NEW k \in G PROVE k + 1 \in G
  <2>0. k \in Nat
    OBVIOUS
  <2>1. PICK f : f = [p \in Places(t) |-> f[p]] /\ Right(f, k)
    OBVIOUS
  <2> DEFINE g == [p \in Places(t) |-> IF p = n - k THEN New(p, f) ELSE f[p]]
  <2>2. g = [p \in Places(t) |-> g[p]] /\ \A p \in Places(t) : g[p] = IF p = n - k THEN New(p, f) ELSE f[p]
    OBVIOUS
  <2> HIDE DEF g, n, New
  <2>3. ASSUME NEW p \in Places(t), p > n - (k + 1)
        PROVE  /\ g[p] = New(p, g)
               /\ \A type \in {"array", "object"} : ReadsItems(t, p, type, g[p][type])
    <3>1. p \in Nat
      BY DEF Places
    <3>2. \A q \in Places(t) : q > p => g[q] = f[q] /\ q > n - k
      <4> TAKE q \in Places(t)
      <4>1. q \in Nat
        BY DEF Places
      <4> QED BY <1>0, <2>0, <2>2, <2>3, <3>1, <4>1
    <3>3. Same(t, p, f, g) /\ ItemsRead(t, p, f)
      BY <2>1, <3>2 DEF Same, ItemsRead
    <3>4. \A type \in {"array", "object"} : ItemsAt(t, p, type, f) = ItemsAt(t, p, type, g)
      BY <3>3, ItemsAtSame
    <3>5. New(p, f) = New(p, g)
      BY <3>4 DEF New
    <3>6. \A type \in {"array", "object"} : ReadsItems(t, p, type, New(p, f)[type])
      BY <3>3, ItemsAtReads DEF New
    <3>7. p # n - k => p > n - k
      BY <1>0, <2>0, <2>3, <3>1
    <3>8. p # n - k => f[p] = New(p, f) /\ \A type \in {"array", "object"} : ReadsItems(t, p, type, f[p][type])
      BY <2>1, <3>7
    <3> QED BY <2>2, <3>5, <3>6, <3>8
  <2>4. Right(g, k + 1)
    BY <2>3
  <2>5. k + 1 \in Nat
    BY <2>0
  <2> HIDE DEF Right
  <2>6. \E h : h = [p \in Places(t) |-> h[p]] /\ Right(h, k + 1)
    BY <2>2, <2>4
  <2> QED BY <2>5, <2>6
<1>3. n \in G
  <2> HIDE DEF G
  <2>1. G \in SUBSET Nat
    BY DEF G
  <2> QED BY <1>0, <1>1, <1>2, <2>1, SetInduction
<1>4. PICK f : f = [p \in Places(t) |-> f[p]] /\ Right(f, n)
  BY <1>3
<1>5. \A p \in Places(t) : p > n - n
  BY <1>0 DEF Places
<1>6. f = [p \in Places(t) |-> New(p, f)]
  <2>1. \A p \in Places(t) : f[p] = New(p, f)
    BY <1>4, <1>5
  <2> HIDE DEF New
  <2> QED BY <1>4, <2>1
<1>7. Items(t) = [p \in Places(t) |-> New(p, Items(t))]
  <2>1. Items(t) = CHOOSE h : h = [p \in Places(t) |-> New(p, h)]
    BY DEF Items
  <2> HIDE DEF New
  <2> QED BY <1>6, <2>1
<1> DEFINE h == Items(t)
           S == {p \in Places(t) : \A type \in {"array", "object"} : ReadsItems(t, p, type, h[p][type])}
<1>8. \A p \in Places(t), type \in {"array", "object"} : h[p][type] = ItemsAt(t, p, type, h)
  <2> HIDE DEF h
  <2> QED BY <1>7 DEF h
<1>9. ASSUME NEW p \in 1..n, \A q \in 1..n : q > p => q \in S PROVE p \in S
  <2> HIDE DEF h
  <2>1. p \in Places(t)
    BY DEF Places
  <2>2. ItemsRead(t, p, h)
    <3>1. \A q \in Places(t) : q > p => q \in S
      BY <1>9 DEF Places
    <3> QED BY <3>1 DEF ItemsRead
  <2>3. \A type \in {"array", "object"} : ReadsItems(t, p, type, h[p][type])
    BY <1>8, <2>1, <2>2, ItemsAtReads
  <2> QED BY <2>1, <2>3
<1> HIDE DEF S
<1>10. \A p \in 1..n : p \in S
  BY <1>0, <1>9, DownInduction
<1>11. \A p \in Places(t) : p \in S
  BY <1>10 DEF Places
<1> QED BY <1>8, <1>11 DEF S

(* What the parser makes of a text.                                        *)
LEMMA ParseType ==
  ASSUME NEW t \in Seq(Byte)
  PROVE  cJSON_Parse(t) # Null => Good(cJSON_Parse(t).node) /\ cJSON_Parse(t).node.key = <<>>
<1>1. t \in Seq(Char)
  <2>1. Len(t) \in Nat /\ t = [i \in 1..Len(t) |-> t[i]] /\ \A i \in 1..Len(t) : t[i] \in Byte
    BY SeqIs
  <2> QED BY <2>1, BytesAre, SeqBy
<1>2. CString(t) = t
  BY <1>1, CStringIs
<1>3. 1 \in Places(t)
  BY SeqIs DEF Places
<1>4. ItemsRead(t, 1, Items(t))
  BY ItemsIs DEF ItemsRead
<1>5. Reads(t, 1, ValueAt(t, 1, Items(t)))
  BY <1>3, <1>4, ValueReads
<1> DEFINE r == ValueAt(t, 1, Items(t))
<1>6. cJSON_Parse(t) = r
  BY <1>2 DEF cJSON_Parse
<1> HIDE DEF r
<1>7. Reads(t, 1, r)
  BY <1>5 DEF r
<1>8. r # Null => Good(r.node) /\ r.node.key = <<>>
  BY <1>7, ReadsHas
<1> QED BY <1>6, <1>8

-----------------------------------------------------------------------------
(* The functions the printer is made of.                                   *)

Lists(texts, f) ==
  f = [k \in 0..Len(texts) |->
         IF k = 0 THEN <<>>
         ELSE texts[Len(texts) + 1 - k] \o (IF k = 1 THEN <<>> ELSE <<Comma>> \o f[k - 1])]

LEMMA ListsExists ==
  ASSUME NEW texts, Len(texts) \in Nat
  PROVE  \E f : Lists(texts, f) /\ Listed(texts) = f[Len(texts)]
<1> DEFINE n == Len(texts)
           Step(f, k) ==
             IF k = 0 THEN <<>>
             ELSE texts[Len(texts) + 1 - k] \o (IF k = 1 THEN <<>> ELSE <<Comma>> \o f[k - 1])
           Right(f, m) == \A k \in 0..n : k <= m => f[k] = Step(f, k)
           G == {m \in Nat : \E f : f = [k \in 0..n |-> f[k]] /\ Right(f, m)}
<1>0. n \in Nat
  OBVIOUS
<1>s. ASSUME NEW f, NEW g, NEW k \in 0..n, k # 0 => f[k - 1] = g[k - 1] PROVE Step(f, k) = Step(g, k)
  BY <1>s
<1>z. \A f, g : Step(f, 0) = Step(g, 0)
  OBVIOUS
<1> HIDE DEF n, Step
<1>1. 0 \in G
  <2> DEFINE f == [k \in 0..n |-> Step(<<>>, 0)]
  <2>1. f = [k \in 0..n |-> f[k]]
    OBVIOUS
  <2>2. \A k \in 0..n : k <= 0 => f[k] = Step(f, k)
    <3>1. \A k \in 0..n : k <= 0 => k = 0
      BY <1>0
    <3>2. \A k \in 0..n : f[k] = Step(<<>>, 0)
      OBVIOUS
    <3> HIDE DEF f
    <3>3. Step(<<>>, 0) = Step(f, 0)
      BY <1>z
    <3> QED BY <3>1, <3>2, <3>3
  <2> QED BY <2>1, <2>2
<1>2. ASSUME NEW m \in G PROVE m + 1 \in G
  <2>1. PICK f : f = [k \in 0..n |-> f[k]] /\ Right(f, m)
    OBVIOUS
  <2> DEFINE g == [k \in 0..n |-> IF k = m + 1 THEN Step(f, k) ELSE f[k]]
  <2>2. g = [k \in 0..n |-> g[k]] /\ \A k \in 0..n : g[k] = IF k = m + 1 THEN Step(f, k) ELSE f[k]
    OBVIOUS
  <2> HIDE DEF g
  <2>3. ASSUME NEW k \in 0..n, k <= m + 1 PROVE g[k] = Step(g, k)
    <3>1. k # 0 => k - 1 \in 0..n /\ k - 1 # m + 1
      BY <1>0, <2>3
    <3>2. Step(g, k) = Step(f, k)
      <4>1. k # 0 => g[k - 1] = f[k - 1]
        BY <2>2, <3>1
      <4> QED BY <1>s, <4>1
    <3>3. k # m + 1 => f[k] = Step(f, k)
      <4>1. k # m + 1 => k <= m
        BY <1>0, <2>3
      <4> QED BY <2>1, <4>1
    <3> QED BY <2>2, <3>2, <3>3
  <2>4. Right(g, m + 1)
    BY <2>3
  <2>5. m + 1 \in Nat
    OBVIOUS
  <2> HIDE DEF Right
  <2>6. \E h : h = [k \in 0..n |-> h[k]] /\ Right(h, m + 1)
    BY <2>2, <2>4
  <2> QED BY <2>5, <2>6
<1>3. n \in G
  <2> HIDE DEF G
  <2>1. G \in SUBSET Nat
    BY DEF G
  <2> QED BY <1>0, <1>1, <1>2, <2>1, SetInduction
<1>4. PICK h : h = [k \in 0..n |-> h[k]] /\ Right(h, n)
  BY <1>3
<1>5. h = [k \in 0..n |-> Step(h, k)]
  <2>1. \A k \in 0..n : h[k] = Step(h, k)
    BY <1>0, <1>4
  <2> QED BY <1>4, <2>1
<1>6. Lists(texts, h)
  BY <1>5 DEF Lists, n, Step
<1>7. Lists(texts, CHOOSE f : Lists(texts, f)) /\ Listed(texts) = (CHOOSE f : Lists(texts, f))[Len(texts)]
  BY <1>6 DEF Lists, Listed
<1> QED BY <1>7

(* The last k texts with commas between them, one k after the other.       *)
Linked(texts, f) ==
  \A k \in 1..Len(texts) :
    f[k] = texts[Len(texts) + 1 - k] \o (IF k = 1 THEN <<>> ELSE <<Comma>> \o f[k - 1])

LEMMA ListedIs ==
  ASSUME NEW T, Comma \in T, NEW texts \in Seq(Seq(T))
  PROVE  \E f : /\ f[0] = <<>> /\ Listed(texts) = f[Len(texts)]
                /\ \A k \in 0..Len(texts) : f[k] \in Seq(T)
                /\ Linked(texts, f)
<1> DEFINE n == Len(texts)
<1>0. n \in Nat /\ \A i \in 1..n : texts[i] \in Seq(T)
  BY SeqIs
<1>1. PICK f : Lists(texts, f) /\ Listed(texts) = f[n]
  BY <1>0, ListsExists
<1>2. \A k \in 0..n : f[k] = IF k = 0 THEN <<>>
                              ELSE texts[n + 1 - k] \o (IF k = 1 THEN <<>> ELSE <<Comma>> \o f[k - 1])
  BY <1>1 DEF Lists
<1> HIDE DEF n
<1>3. f[0] = <<>>
  BY <1>0, <1>2
<1>4. \A k \in 1..n : f[k] = texts[n + 1 - k] \o (IF k = 1 THEN <<>> ELSE <<Comma>> \o f[k - 1])
  <2>1. \A k \in 1..n : k \in 0..n /\ k # 0
    BY <1>0
  <2> QED BY <1>2, <2>1
<1> DEFINE G == {k \in Nat : k <= n => f[k] \in Seq(T)}
<1>5. 0 \in G
  <2>1. <<>> \in Seq(T)
    OBVIOUS
  <2>2. f[0] \in Seq(T)
    BY <1>3, <2>1
  <2> QED BY <2>2
<1>6. ASSUME NEW k \in G PROVE k + 1 \in G
  <2> SUFFICES ASSUME k + 1 <= n PROVE f[k + 1] \in Seq(T)
    OBVIOUS
  <2>1. k \in Nat /\ k + 1 \in 1..n /\ f[k] \in Seq(T) /\ (k + 1) - 1 = k
    BY <1>0
  <2>2. texts[n + 1 - (k + 1)] \in Seq(T)
    BY <1>0, <2>1
  <2>3. f[k + 1] = texts[n + 1 - (k + 1)] \o (IF k + 1 = 1 THEN <<>> ELSE <<Comma>> \o f[k])
    BY <1>4, <2>1
  <2> DEFINE a == texts[n + 1 - (k + 1)]
             b == f[k]
             c == f[k + 1]
  <2> HIDE DEF a, b, c
  <2>4. a \in Seq(T) /\ b \in Seq(T) /\ c = a \o (IF k + 1 = 1 THEN <<>> ELSE <<Comma>> \o b)
    BY <2>1, <2>2, <2>3 DEF a, b, c
  <2>5. <<Comma>> \o b \in Seq(T) /\ <<>> \in Seq(T)
    BY <2>4
  <2>6. c \in Seq(T)
    BY <2>4, <2>5
  <2> QED BY <2>6 DEF c
<1>7. G = Nat
  <2> HIDE DEF G
  <2>1. G \in SUBSET Nat
    BY DEF G
  <2> QED BY <1>5, <1>6, <2>1, SetInduction
<1>8. \A k \in 0..n : f[k] \in Seq(T)
  BY <1>0, <1>7
<1>9. Linked(texts, f)
  BY <1>4 DEF Linked, n
<1> QED BY <1>1, <1>3, <1>8, <1>9 DEF n

(* The nodes that are at most k deep, given those that are less.           *)
Layer(k, S) ==
  [type : {"string", "number", "array", "object", "true", "false", "null"},
   key : Seq(Byte), str : Seq(Byte), num : Int,
   kids : IF k = 0 THEN {<<>>} ELSE Seq(S), deep : 0..k]

Layers(f, n) == \A k \in 0..n : f[k] = Layer(k, f[k - 1])

LEMMA LayerZero ==
  ASSUME NEW S, NEW T
  PROVE  Layer(0, S) = Layer(0, T)
BY DEF Layer

LEMMA LayersSame ==
  ASSUME NEW n \in Nat, NEW f, NEW g, Layers(f, n), Layers(g, n)
  PROVE  \A k \in 0..n : f[k] = g[k]
<1> DEFINE G == {k \in Nat : k <= n => f[k] = g[k]}
<1>1. 0 \in G
  <2>1. f[0] = Layer(0, f[0 - 1]) /\ g[0] = Layer(0, g[0 - 1])
    BY DEF Layers
  <2> QED BY <2>1, LayerZero
<1>2. ASSUME NEW k \in G PROVE k + 1 \in G
  <2> SUFFICES ASSUME k + 1 <= n PROVE f[k + 1] = g[k + 1]
    OBVIOUS
  <2>1. k + 1 \in 0..n /\ f[k] = g[k] /\ (k + 1) - 1 = k
    OBVIOUS
  <2> QED BY <2>1 DEF Layers
<1>3. G = Nat
  <2> HIDE DEF G
  <2>1. G \in SUBSET Nat
    BY DEF G
  <2> QED BY <1>1, <1>2, <2>1, SetInduction
<1> QED BY <1>3

LEMMA LayersExist ==
  ASSUME NEW n \in Nat
  PROVE  \E f : Layers(f, n)
<1> DEFINE G == {m \in Nat : \E f : Layers(f, m)}
<1>1. 0 \in G
  <2> DEFINE f == [k \in {0} |-> Layer(0, {})]
  <2>1. f[0] = Layer(0, {})
    OBVIOUS
  <2> HIDE DEF f
  <2>2. f[0] = Layer(0, f[0 - 1])
    BY <2>1, LayerZero
  <2>3. Layers(f, 0)
    BY <2>2 DEF Layers
  <2> QED BY <2>3
<1>2. ASSUME NEW m \in G PROVE m + 1 \in G
  <2>1. PICK f : Layers(f, m)
    OBVIOUS
  <2> DEFINE g == [k \in 0..(m + 1) |-> IF k = m + 1 THEN Layer(k, f[k - 1]) ELSE f[k]]
  <2>2. \A k \in 0..(m + 1) : g[k] = IF k = m + 1 THEN Layer(k, f[k - 1]) ELSE f[k]
    OBVIOUS
  <2> HIDE DEF g
  <2>3. ASSUME NEW k \in 0..(m + 1) PROVE g[k] = Layer(k, g[k - 1])
    <3>1. k # 0 => g[k - 1] = f[k - 1]
      BY <2>2
    <3>2. Layer(k, g[k - 1]) = Layer(k, f[k - 1])
      BY <3>1, LayerZero
    <3>3. k # m + 1 => f[k] = Layer(k, f[k - 1])
      BY <2>1 DEF Layers
    <3> QED BY <2>2, <3>2, <3>3
  <2>4. Layers(g, m + 1)
    BY <2>3 DEF Layers
  <2> QED BY <2>4
<1>3. G = Nat
  <2> HIDE DEF G
  <2>1. G \in SUBSET Nat
    BY DEF G
  <2> QED BY <1>1, <1>2, <2>1, SetInduction
<1> QED BY <1>3

LEMMA TreesIs ==
  ASSUME NEW k \in Nat
  PROVE  Trees[k] = Layer(k, Trees[k - 1])
<1> DEFINE F(n) == CHOOSE f : Layers(f, n)
           h == [n \in Nat |-> F(n)[n]]
<1>1. \A n \in Nat : Layers(F(n), n)
  BY LayersExist
<1>2. ASSUME NEW n \in Nat PROVE h[n] = Layer(n, h[n - 1])
  <2>1. h[n] = F(n)[n]
    OBVIOUS
  <2>2. CASE n = 0
    <3>1. F(n)[n] = Layer(n, F(n)[n - 1])
      <4>1. n \in 0..n /\ Layers(F(n), n)
        BY <1>1
      <4> HIDE DEF F
      <4> QED BY <4>1 DEF Layers
    <3> HIDE DEF h, F
    <3> QED BY <2>1, <2>2, <3>1, LayerZero
  <2>3. CASE n # 0
    <3>1. n - 1 \in Nat /\ n - 1 \in 0..(n - 1) /\ n \in 0..n
      BY <2>3
    <3>2. h[n - 1] = F(n - 1)[n - 1]
      BY <3>1
    <3> HIDE DEF h, F
    <3>3. Layers(F(n), n) /\ Layers(F(n - 1), n - 1)
      BY <1>1, <3>1
    <3>4. Layers(F(n), n - 1)
      BY <2>3, <3>3 DEF Layers
    <3> DEFINE m == n - 1
               a == F(n)
               b == F(n - 1)
    <3>5. m \in Nat /\ m \in 0..m /\ Layers(a, m) /\ Layers(b, m)
      BY <3>1, <3>3, <3>4
    <3> HIDE DEF m, a, b
    <3>6. a[m] = b[m]
      BY <3>5, LayersSame
    <3>7. F(n)[n - 1] = h[n - 1]
      BY <3>2, <3>6 DEF m, a, b
    <3>8. F(n)[n] = Layer(n, F(n)[n - 1])
      BY <3>1, <3>3 DEF Layers
    <3> QED BY <2>1, <3>7, <3>8
  <2> QED BY <2>2, <2>3
<1>3. h = [n \in Nat |-> Layer(n, h[n - 1])]
  <2>1. h = [n \in Nat |-> h[n]]
    OBVIOUS
  <2> HIDE DEF h
  <2> QED BY <1>2, <2>1
<1> HIDE DEF h
<1>4. Trees = [n \in Nat |-> Layer(n, Trees[n - 1])]
  BY <1>3, Zenon DEF Trees, Layer
<1> QED BY <1>4

(* A node that is at most k deep is one of those.                          *)
LEMMA GoodInTrees ==
  ASSUME NEW k \in Nat, NEW v, Good(v), v.deep <= k
  PROVE  v \in Trees[k]
<1> DEFINE G == {j \in Nat : \A x : Good(x) /\ x.deep <= j => x \in Trees[j]}
<1>0. ASSUME NEW j \in Nat, NEW x, Good(x), x.deep <= j,
             j # 0 => \A i \in 1..Len(x.kids) : x.kids[i] \in Trees[j - 1]
      PROVE  x \in Trees[j]
  <2>1. /\ Tidy(x) /\ Len(x.kids) \in Nat /\ x.kids = [i \in 1..Len(x.kids) |-> x.kids[i]]
        /\ \A i \in 1..Len(x.kids) : Good(x.kids[i])
    BY <1>0, GoodIs
  <2>2. \A i \in 1..Len(x.kids) : x.kids[i].deep \in Nat
    BY <2>1, GoodIs DEF Tidy
  <2>3. j = 0 => x.kids = <<>>
    <3> SUFFICES ASSUME j = 0, x.kids # <<>> PROVE FALSE
      OBVIOUS
    <3>1. PICK i \in 1..Len(x.kids) : x.deep = x.kids[i].deep + 1
      BY <2>1 DEF Tidy
    <3>2. x.kids[i].deep \in Nat
      BY <2>2
    <3> DEFINE d == x.kids[i].deep
    <3> HIDE DEF d
    <3>3. d \in Nat /\ x.deep = d + 1 /\ x.deep <= 0
      BY <1>0, <3>1, <3>2 DEF d
    <3> QED BY <3>3
  <2>4. j # 0 => x.kids \in Seq(Trees[j - 1])
    <3> DEFINE s == x.kids
               S == Trees[j - 1]
    <3>1. j # 0 => \A i \in 1..Len(s) : s[i] \in S
      BY <1>0
    <3>2. Len(s) \in Nat /\ s = [i \in 1..Len(s) |-> s[i]]
      BY <2>1
    <3> HIDE DEF s, S
    <3>3. j # 0 => s \in Seq(S)
      BY <3>1, <3>2, SeqBy
    <3> QED BY <3>3 DEF s, S
  <2>5. x.deep \in 0..j
    BY <1>0, <2>1 DEF Tidy
  <2>6. x.kids \in IF j = 0 THEN {<<>>} ELSE Seq(Trees[j - 1])
    BY <2>3, <2>4
  <2>7. x.type \in {"string", "number", "array", "object", "true", "false", "null"}
    BY <2>1 DEF Tidy, Kinds
  <2>8. x \in Layer(j, Trees[j - 1])
    <3> DEFINE kids == IF j = 0 THEN {<<>>} ELSE Seq(Trees[j - 1])
               upto == 0..j
               kinds == {"string", "number", "array", "object", "true", "false", "null"}
    <3>1. Layer(j, Trees[j - 1]) =
            [type : kinds, key : Seq(Byte), str : Seq(Byte), num : Int, kids : kids, deep : upto]
      BY DEF Layer
    <3>2. x.kids \in kids /\ x.deep \in upto /\ x.type \in kinds
      BY <2>5, <2>6, <2>7
    <3> HIDE DEF kids, upto, kinds
    <3>3. x \in [type : kinds, key : Seq(Byte), str : Seq(Byte), num : Int, kids : kids, deep : upto]
      BY <2>1, <3>2 DEF Tidy
    <3> QED BY <3>1, <3>3
  <2> QED BY <2>8, TreesIs
<1>1. 0 \in G
  BY <1>0
<1>2. ASSUME NEW j \in G PROVE j + 1 \in G
  <2> SUFFICES ASSUME NEW x, Good(x), x.deep <= j + 1 PROVE x \in Trees[j + 1]
    OBVIOUS
  <2>1. ASSUME NEW i \in 1..Len(x.kids) PROVE x.kids[i] \in Trees[j]
    <3>1. Good(x.kids[i]) /\ x.kids[i].deep < x.deep /\ x.deep \in Nat
      BY GoodIs DEF Tidy
    <3>2. x.kids[i].deep \in Nat
      BY <3>1, GoodIs DEF Tidy
    <3> DEFINE d == x.kids[i].deep
               e == x.deep
    <3> HIDE DEF d, e
    <3>3. d <= j
      BY <3>1, <3>2 DEF d, e
    <3> QED BY <3>1, <3>3 DEF d
  <2>2. j + 1 \in Nat /\ (j + 1) - 1 = j
    OBVIOUS
  <2> DEFINE m == j + 1
  <2>3. m \in Nat /\ x.deep <= m /\ \A i \in 1..Len(x.kids) : x.kids[i] \in Trees[m - 1]
    BY <2>1, <2>2
  <2> HIDE DEF m, G
  <2>4. x \in Trees[m]
    BY <1>0, <2>3
  <2> QED BY <2>4 DEF m
<1>3. G = Nat
  <2> HIDE DEF G
  <2>1. G \in SUBSET Nat
    BY DEF G
  <2> QED BY <1>1, <1>2, <2>1, SetInduction
<1> QED BY <1>3

TextLevel(f, k) ==
  [v \in Trees[k] |-> Text(v, [i \in 1..Len(v.kids) |-> f[k - 1][v.kids[i]]])]

LEMMA LevelSame ==
  ASSUME NEW k \in Nat, NEW f, NEW g, k # 0 => f[k - 1] = g[k - 1]
  PROVE  TextLevel(f, k) = TextLevel(g, k)
<1>1. CASE k # 0
  BY <1>1 DEF TextLevel
<1>2. CASE k = 0
  <2>1. Trees[k] = Layer(k, Trees[k - 1])
    BY TreesIs
  <2>2. \A v \in Trees[k] : v.kids = <<>>
    BY <1>2, <2>1 DEF Layer
  <2>3. \A v \in Trees[k] :
          [i \in 1..Len(v.kids) |-> f[k - 1][v.kids[i]]] = [i \in 1..Len(v.kids) |-> g[k - 1][v.kids[i]]]
    BY <2>2
  <2> QED BY <2>3 DEF TextLevel
<1> QED BY <1>1, <1>2

LEMMA TextsIs ==
  ASSUME NEW n \in Nat
  PROVE  \A k \in 0..n : Texts(n)[k] = TextLevel(Texts(n), k)
<1> DEFINE Right(f, m) == \A k \in 0..n : k <= m => f[k] = TextLevel(f, k)
           G == {m \in Nat : \E f : f = [k \in 0..n |-> f[k]] /\ Right(f, m)}
<1>1. 0 \in G
  <2> DEFINE f == [k \in 0..n |-> TextLevel(<<>>, 0)]
  <2>1. f = [k \in 0..n |-> f[k]]
    OBVIOUS
  <2>2. \A k \in 0..n : k <= 0 => f[k] = TextLevel(f, k)
    <3>1. \A k \in 0..n : k <= 0 => k = 0
      OBVIOUS
    <3>2. \A k \in 0..n : f[k] = TextLevel(<<>>, 0)
      OBVIOUS
    <3> HIDE DEF f
    <3>3. TextLevel(<<>>, 0) = TextLevel(f, 0)
      BY LevelSame
    <3> QED BY <3>1, <3>2, <3>3
  <2> QED BY <2>1, <2>2
<1>2. ASSUME NEW m \in G PROVE m + 1 \in G
  <2>1. PICK f : f = [k \in 0..n |-> f[k]] /\ Right(f, m)
    OBVIOUS
  <2> DEFINE g == [k \in 0..n |-> IF k = m + 1 THEN TextLevel(f, k) ELSE f[k]]
  <2>2. g = [k \in 0..n |-> g[k]] /\ \A k \in 0..n : g[k] = IF k = m + 1 THEN TextLevel(f, k) ELSE f[k]
    OBVIOUS
  <2> HIDE DEF g
  <2>3. ASSUME NEW k \in 0..n, k <= m + 1 PROVE g[k] = TextLevel(g, k)
    <3>1. k # 0 => k - 1 \in 0..n /\ k - 1 # m + 1
      BY <2>3
    <3>2. TextLevel(g, k) = TextLevel(f, k)
      <4>1. k # 0 => g[k - 1] = f[k - 1]
        BY <2>2, <3>1
      <4>2. k \in Nat
        OBVIOUS
      <4> QED BY <4>1, <4>2, LevelSame
    <3>3. k # m + 1 => f[k] = TextLevel(f, k)
      <4>1. k # m + 1 => k <= m
        BY <2>3
      <4> QED BY <2>1, <4>1
    <3> QED BY <2>2, <3>2, <3>3
  <2>4. Right(g, m + 1)
    BY <2>3
  <2>5. m + 1 \in Nat
    OBVIOUS
  <2> HIDE DEF Right
  <2>6. \E h : h = [k \in 0..n |-> h[k]] /\ Right(h, m + 1)
    BY <2>2, <2>4
  <2> QED BY <2>5, <2>6
<1>3. n \in G
  <2> HIDE DEF G
  <2>1. G \in SUBSET Nat
    BY DEF G
  <2> QED BY <1>1, <1>2, <2>1, SetInduction
<1>4. PICK h : h = [k \in 0..n |-> h[k]] /\ Right(h, n)
  BY <1>3
<1>5. h = [k \in 0..n |-> TextLevel(h, k)]
  <2>1. \A k \in 0..n : h[k] = TextLevel(h, k)
    BY <1>4
  <2> QED BY <1>4, <2>1
<1>6. Texts(n) = [k \in 0..n |-> TextLevel(Texts(n), k)]
  BY <1>5, Zenon DEF Texts, TextLevel
<1> QED BY <1>6

(* The text of a node does not depend on how deep the printer may go.      *)
LEMMA TextsSame ==
  ASSUME NEW d \in Nat, NEW n \in Nat, NEW k \in 0..n, NEW m \in Nat, NEW j \in 0..m,
         NEW v, Good(v), v.deep <= d, v.deep <= k, v.deep <= j
  PROVE  Texts(n)[k][v] = Texts(m)[j][v]
<1> DEFINE Same2(x) == \A a, b \in 0..n : \A c \in 0..m :
                         x.deep <= a /\ x.deep <= c => Texts(n)[a][x] = Texts(m)[c][x]
           G == {e \in Nat : \A x : Good(x) /\ x.deep <= e => Same2(x)}
<1>0. ASSUME NEW x, Good(x), \A i \in 1..Len(x.kids) : Same2(x.kids[i]) PROVE Same2(x)
  <2> SUFFICES ASSUME NEW a \in 0..n, NEW c \in 0..m, x.deep <= a, x.deep <= c
               PROVE  Texts(n)[a][x] = Texts(m)[c][x]
    OBVIOUS
  <2>1. x \in Trees[a] /\ x \in Trees[c]
    BY <1>0, GoodInTrees
  <2> DEFINE ka == [i \in 1..Len(x.kids) |-> Texts(n)[a - 1][x.kids[i]]]
             kc == [i \in 1..Len(x.kids) |-> Texts(m)[c - 1][x.kids[i]]]
  <2>2. Texts(n)[a][x] = Text(x, ka) /\ Texts(m)[c][x] = Text(x, kc)
    <3>1. Texts(n)[a] = TextLevel(Texts(n), a) /\ Texts(m)[c] = TextLevel(Texts(m), c)
      BY TextsIs
    <3> QED BY <2>1, <3>1 DEF TextLevel
  <2>3. ASSUME NEW i \in 1..Len(x.kids) PROVE Texts(n)[a - 1][x.kids[i]] = Texts(m)[c - 1][x.kids[i]]
    <3>1. Good(x.kids[i]) /\ x.kids[i].deep < x.deep /\ x.deep \in Nat
      BY <1>0, GoodIs DEF Tidy
    <3>2. x.kids[i].deep \in Nat
      BY <3>1, GoodIs DEF Tidy
    <3> DEFINE e == x.kids[i].deep
               y == x.deep
    <3> HIDE DEF e, y
    <3>3. a - 1 \in 0..n /\ c - 1 \in 0..m /\ e <= a - 1 /\ e <= c - 1
      BY <3>1, <3>2, SMTT(40) DEF e, y
    <3>4. Same2(x.kids[i])
      BY <1>0
    <3> QED BY <3>3, <3>4 DEF e
  <2>4. ka = kc
    BY <2>3
  <2> QED BY <2>2, <2>4
<1>k. ASSUME NEW x, Good(x), NEW i \in 1..Len(x.kids)
      PROVE  Good(x.kids[i]) /\ x.kids[i].deep \in Nat /\ x.deep \in Nat /\ x.kids[i].deep < x.deep
  <2>1. Good(x.kids[i]) /\ x.deep \in Nat /\ x.kids[i].deep < x.deep
    BY <1>k, GoodIs DEF Tidy
  <2> QED BY <2>1, GoodIs DEF Tidy
<1> HIDE DEF Same2
<1>1. 0 \in G
  <2> SUFFICES ASSUME NEW x, Good(x), x.deep <= 0 PROVE Same2(x)
    OBVIOUS
  <2>1. ASSUME NEW i \in 1..Len(x.kids) PROVE FALSE
    <3> DEFINE e == x.kids[i].deep
               y == x.deep
    <3> HIDE DEF e, y
    <3>1. e \in Nat /\ y \in Nat /\ e < y /\ y <= 0
      BY <1>k DEF e, y
    <3> QED BY <3>1
  <2> QED BY <1>0, <2>1
<1>2. ASSUME NEW e \in G PROVE e + 1 \in G
  <2> SUFFICES ASSUME NEW x, Good(x), x.deep <= e + 1 PROVE Same2(x)
    OBVIOUS
  <2>1. ASSUME NEW i \in 1..Len(x.kids) PROVE Same2(x.kids[i])
    <3> DEFINE c == x.kids[i].deep
               y == x.deep
    <3> HIDE DEF c, y
    <3>1. c \in Nat /\ y \in Nat /\ c < y /\ y <= e + 1 /\ e \in Nat
      BY <1>k DEF c, y
    <3>2. c <= e
      BY <3>1
    <3> QED BY <1>k, <3>2 DEF c
  <2> QED BY <1>0, <2>1
<1>3. G = Nat
  <2> HIDE DEF G
  <2>1. G \in SUBSET Nat
    BY DEF G
  <2> QED BY <1>1, <1>2, <2>1, SetInduction
<1>4. Same2(v)
  BY <1>3
<1> QED BY <1>4 DEF Same2

(* The printer prints a node from the texts of its children.               *)
LEMMA PrintIs ==
  ASSUME NEW v, Good(v)
  PROVE  cJSON_PrintUnformatted(v) = Text(v, [i \in 1..Len(v.kids) |-> cJSON_PrintUnformatted(v.kids[i])])
<1> DEFINE d == v.deep
<1>1. d \in Nat
  BY GoodIs DEF Tidy
<1>2. v \in Trees[d]
  BY <1>1, GoodInTrees
<1>3. Texts(d)[d] = TextLevel(Texts(d), d)
  BY <1>1, TextsIs
<1>4. cJSON_PrintUnformatted(v) = Text(v, [i \in 1..Len(v.kids) |-> Texts(d)[d - 1][v.kids[i]]])
  <2>1. cJSON_PrintUnformatted(v) = Texts(d)[d][v]
    BY DEF cJSON_PrintUnformatted
  <2> HIDE DEF d
  <2> QED BY <1>2, <1>3, <2>1 DEF TextLevel
<1>5. ASSUME NEW i \in 1..Len(v.kids)
      PROVE  Texts(d)[d - 1][v.kids[i]] = cJSON_PrintUnformatted(v.kids[i])
  <2> DEFINE x == v.kids[i]
             e == x.deep
  <2>1. Good(x) /\ e < d
    BY GoodIs DEF Tidy
  <2>2. e \in Nat
    BY <2>1, GoodIs DEF Tidy
  <2>3. cJSON_PrintUnformatted(x) = Texts(e)[e][x]
    BY DEF cJSON_PrintUnformatted
  <2> HIDE DEF d
  <2>4. d - 1 \in 0..d /\ e \in 0..e /\ e <= d - 1
    <3> HIDE DEF e
    <3> QED BY <1>1, <2>1, <2>2
  <2>5. x.deep <= e /\ x.deep <= d - 1
    BY <2>2, <2>4
  <2> DEFINE k == d - 1
  <2> HIDE DEF x, e, k
  <2>6. d \in Nat /\ e \in Nat /\ k \in 0..d /\ e \in 0..e /\ Good(x) /\ x.deep <= e /\ x.deep <= k
    BY <1>1, <2>1, <2>2, <2>4, <2>5 DEF k
  <2>7. Texts(d)[k][x] = Texts(e)[e][x]
    BY <2>6, TextsSame
  <2> QED BY <2>3, <2>7 DEF k, x
<1> HIDE DEF d
<1>6. [i \in 1..Len(v.kids) |-> Texts(d)[d - 1][v.kids[i]]] =
        [i \in 1..Len(v.kids) |-> cJSON_PrintUnformatted(v.kids[i])]
  BY <1>5
<1> QED BY <1>4, <1>6

LEMMA TreeInduction ==
  ASSUME NEW k \in Nat, NEW S,
         \A x \in Trees[k] : Good(x) /\ (\A i \in 1..Len(x.kids) : x.kids[i] \in S) => x \in S
  PROVE  \A x : Good(x) /\ x.deep <= k => x \in S
<1> DEFINE G == {e \in Nat : \A x : Good(x) /\ x.deep <= k /\ x.deep <= e => x \in S}
<1>0. ASSUME NEW x, Good(x), x.deep <= k, \A i \in 1..Len(x.kids) : x.kids[i] \in S PROVE x \in S
  <2>1. x \in Trees[k]
    BY <1>0, GoodInTrees
  <2> QED BY <1>0, <2>1
<1>k. ASSUME NEW x, Good(x), NEW i \in 1..Len(x.kids)
      PROVE  Good(x.kids[i]) /\ x.kids[i].deep \in Nat /\ x.deep \in Nat /\ x.kids[i].deep < x.deep
  <2>1. Good(x.kids[i]) /\ x.deep \in Nat /\ x.kids[i].deep < x.deep
    BY <1>k, GoodIs DEF Tidy
  <2> QED BY <2>1, GoodIs DEF Tidy
<1>1. 0 \in G
  <2> SUFFICES ASSUME NEW x, Good(x), x.deep <= k, x.deep <= 0 PROVE x \in S
    OBVIOUS
  <2>1. ASSUME NEW i \in 1..Len(x.kids) PROVE FALSE
    <3> DEFINE e == x.kids[i].deep
               y == x.deep
    <3> HIDE DEF e, y
    <3>1. e \in Nat /\ y \in Nat /\ e < y /\ y <= 0
      BY <1>k DEF e, y
    <3> QED BY <3>1
  <2> QED BY <1>0, <2>1
<1>2. ASSUME NEW e \in G PROVE e + 1 \in G
  <2> SUFFICES ASSUME NEW x, Good(x), x.deep <= k, x.deep <= e + 1 PROVE x \in S
    OBVIOUS
  <2>1. ASSUME NEW i \in 1..Len(x.kids) PROVE x.kids[i] \in S
    <3> DEFINE c == x.kids[i].deep
               y == x.deep
    <3> HIDE DEF c, y
    <3>1. c \in Nat /\ y \in Nat /\ c < y /\ y <= e + 1 /\ e \in Nat /\ y <= k
      BY <1>k DEF c, y
    <3>2. c <= e /\ c <= k
      BY <3>1
    <3> QED BY <1>k, <3>2 DEF c
  <2> QED BY <1>0, <2>1
<1>3. G = Nat
  <2> HIDE DEF G
  <2>1. G \in SUBSET Nat
    BY DEF G
  <2> QED BY <1>1, <1>2, <2>1, SetInduction
<1>4. k \in G
  BY <1>3
<1> QED BY <1>4

-----------------------------------------------------------------------------
(* What the printer prints is text: no byte of it is a control character.  *)

Inked == 32..255

LEMMA InkIs ==
  ASSUME NEW b
  PROVE  /\ b \in Inked <=> b \in Nat /\ 32 <= b /\ b <= 255
         /\ b \in Inked => b \in Byte /\ b # Newline
         /\ b \in Numeric => b \in Inked
         /\ b \in Numeral => b \in Inked
BY BytesAre DEF Inked, Newline, Numeric, Numeral

LEMMA InkedSeq ==
  ASSUME NEW s \in Seq(Inked)
  PROVE  s \in Seq(Byte) /\ \A i \in 1..Len(s) : s[i] # Newline
<1>1. Len(s) \in Nat /\ s = [i \in 1..Len(s) |-> s[i]] /\ \A i \in 1..Len(s) : s[i] \in Inked
  BY SeqIs
<1>2. \A i \in 1..Len(s) : s[i] \in Byte /\ s[i] # Newline
  BY <1>1, InkIs
<1> QED BY <1>1, <1>2, SeqBy

LEMMA HexCharIs ==
  ASSUME NEW d \in Nat, d < 16
  PROVE  HexChar(d) \in Inked /\ HexDigit(HexChar(d)) = d
<1>1. CASE d < 10
  <2>1. HexChar(d) = 48 + d /\ 48 + d \in 48..57
    BY <1>1 DEF HexChar
  <2>2. HexDigit(48 + d) = d
    BY <2>1 DEF HexDigit
  <2> QED BY <2>1, <2>2, InkIs
<1>2. CASE d >= 10
  <2>1. HexChar(d) = 87 + d /\ 87 + d \in 97..102 /\ 87 + d \notin 48..57
    BY <1>2 DEF HexChar
  <2>2. HexDigit(87 + d) = d
    BY <2>1 DEF HexDigit
  <2> QED BY <2>1, <2>2, InkIs
<1> QED BY <1>1, <1>2

(* The three forms a byte may take in a string.                            *)
LEMMA EscapeIs ==
  ASSUME NEW b \in Byte
  PROVE  \/ \E e \in Letters : Meaning(e) = b /\ Escape(b) = <<Backslash, e>>
         \/ /\ b < 32
            /\ Escape(b) = <<Backslash, LetterU, 48, 48, HexChar(b \div 16), HexChar(b % 16)>>
         \/ b \in Inked /\ b # Quote /\ b # Backslash /\ Escape(b) = <<b>>
<1>1. CASE \E e \in Letters : Meaning(e) = b
  <2> DEFINE e == CHOOSE e \in Letters : Meaning(e) = b
  <2>1. e \in Letters /\ Meaning(e) = b
    BY <1>1
  <2>2. Escape(b) = <<Backslash, e>>
    BY <1>1 DEF Escape
  <2> QED BY <2>1, <2>2
<1>2. CASE ~ \E e \in Letters : Meaning(e) = b
  <2>1. b # Quote /\ b # Backslash
    <3>1. 34 \in Letters /\ 92 \in Letters /\ Meaning(34) = 34 /\ Meaning(92) = 92
      BY DEF Letters, Meaning
    <3> QED BY <1>2, <3>1 DEF Quote, Backslash
  <2>2. CASE b < 32
    BY <1>2, <2>2 DEF Escape
  <2>3. CASE ~(b < 32)
    <3>1. b \in Inked
      BY <2>3, BytesAre, InkIs
    <3> QED BY <1>2, <2>1, <2>3, <3>1 DEF Escape
  <2> QED BY <2>2, <2>3
<1> QED BY <1>1, <1>2

LEMMA NibblesAre ==
  ASSUME NEW b \in Byte, b < 32
  PROVE  /\ b \div 16 \in Nat /\ b \div 16 < 16 /\ b % 16 \in Nat /\ b % 16 < 16
         /\ 16 * (b \div 16) + (b % 16) = b
<1>1. b \in Nat
  BY BytesAre
<1>2. b % 16 \in Nat /\ b % 16 < 16
  BY <1>1
<1>3. b \div 16 \in Nat /\ b \div 16 < 16
  BY <1>1
<1>4. 16 * (b \div 16) + (b % 16) = b
  BY <1>1
<1> QED BY <1>2, <1>3, <1>4

LEMMA EscapeType ==
  ASSUME NEW b \in Byte
  PROVE  Escape(b) \in Seq(Inked) /\ Len(Escape(b)) \in Nat \ {0}
<1>0. Backslash \in Inked /\ LetterU \in Inked /\ 48 \in Inked
  BY InkIs DEF Backslash, LetterU
<1>1. CASE \E e \in Letters : Meaning(e) = b /\ Escape(b) = <<Backslash, e>>
  <2>1. PICK e \in Letters : Escape(b) = <<Backslash, e>>
    BY <1>1
  <2>2. e \in Inked
    BY InkIs DEF Letters
  <2> QED BY <1>0, <2>1, <2>2
<1>2. CASE /\ b < 32
           /\ Escape(b) = <<Backslash, LetterU, 48, 48, HexChar(b \div 16), HexChar(b % 16)>>
  <2> DEFINE c == HexChar(b \div 16)
             d == HexChar(b % 16)
  <2>1. c \in Inked /\ d \in Inked
    BY <1>2, NibblesAre, HexCharIs
  <2> HIDE DEF c, d
  <2>2. <<Backslash, LetterU, 48, 48, c, d>> \in Seq(Inked) /\ Len(<<Backslash, LetterU, 48, 48, c, d>>) = 6
    BY <1>0, <2>1
  <2> QED BY <1>2, <2>2 DEF c, d
<1>3. CASE b \in Inked /\ b # Quote /\ b # Backslash /\ Escape(b) = <<b>>
  BY <1>3
<1> QED BY <1>1, <1>2, <1>3, EscapeIs

LEMMA PrintStringType ==
  ASSUME NEW s \in Seq(Byte)
  PROVE  PrintString(s) \in Seq(Inked)
<1> DEFINE ss == [i \in 1..Len(s) |-> Escape(s[i])]
<1>1. Len(s) \in Nat /\ \A i \in 1..Len(s) : s[i] \in Byte
  BY SeqIs
<1>2. ss \in Seq(Seq(Inked))
  <2>1. \A i \in 1..Len(s) : Escape(s[i]) \in Seq(Inked)
    BY <1>1, EscapeType
  <2>2. ss = [i \in 1..Len(ss) |-> ss[i]] /\ Len(ss) = Len(s) /\ \A i \in 1..Len(s) : ss[i] = Escape(s[i])
    BY <1>1
  <2> HIDE DEF ss
  <2>3. \A i \in 1..Len(ss) : ss[i] \in Seq(Inked)
    BY <2>1, <2>2
  <2> QED BY <1>1, <2>2, <2>3, SeqBy
<1>3. FlattenSeq(ss) \in Seq(Inked)
  BY <1>2, FlattenType
<1>4. Quote \in Inked
  BY InkIs DEF Quote
<1>5. PrintString(s) = <<Quote>> \o FlattenSeq(ss) \o <<Quote>>
  BY DEF PrintString
<1> HIDE DEF ss
<1> QED BY <1>3, <1>4, <1>5

(* The texts of a node's children, with their names.                       *)
Pieces(v) ==
  [i \in 1..Len(v.kids) |->
     IF v.type = "object"
     THEN PrintString(v.kids[i].key) \o <<Colon>> \o cJSON_PrintUnformatted(v.kids[i])
     ELSE cJSON_PrintUnformatted(v.kids[i])]

LEMMA PrintOf ==
  ASSUME NEW v, Good(v)
  PROVE  /\ v.type = "string" => cJSON_PrintUnformatted(v) = PrintString(v.str)
         /\ v.type = "number" => cJSON_PrintUnformatted(v) = Decimal(v.num)
         /\ v.type \in {"array", "object"} =>
              cJSON_PrintUnformatted(v) = <<Opening[v.type]>> \o Listed(Pieces(v)) \o <<Closing[v.type]>>
         /\ v.type \notin {"string", "number", "array", "object"} =>
              cJSON_PrintUnformatted(v) = Literals[v.type] /\ v.type \in DOMAIN Literals
<1> DEFINE kids == [i \in 1..Len(v.kids) |-> cJSON_PrintUnformatted(v.kids[i])]
           items == [i \in 1..Len(v.kids) |->
                      IF v.type = "object" THEN PrintString(v.kids[i].key) \o <<Colon>> \o kids[i] ELSE kids[i]]
<1>1. cJSON_PrintUnformatted(v) = Text(v, kids)
  BY PrintIs
<1>2. \A i \in 1..Len(v.kids) : kids[i] = cJSON_PrintUnformatted(v.kids[i])
  OBVIOUS
<1> HIDE DEF kids
<1>3. items = Pieces(v)
  BY <1>2 DEF Pieces
<1>4. /\ v.type = "string" => Text(v, kids) = PrintString(v.str)
      /\ v.type = "number" => Text(v, kids) = Decimal(v.num)
      /\ v.type \in {"array", "object"} =>
           Text(v, kids) = <<Opening[v.type]>> \o Listed(items) \o <<Closing[v.type]>>
      /\ v.type \notin {"string", "number", "array", "object"} => Text(v, kids) = Literals[v.type]
  BY DEF Text
<1>5. v.type \in Kinds
  BY GoodIs DEF Tidy
<1>6. v.type \notin {"string", "number", "array", "object"} => v.type \in DOMAIN Literals
  BY <1>5 DEF Kinds, Literals
<1> HIDE DEF items
<1> QED BY <1>1, <1>3, <1>4, <1>6

LEMMA LiteralInk ==
  ASSUME NEW w \in DOMAIN Literals
  PROVE  Literals[w] \in Seq(Inked)
<1>1. /\ 116 \in Inked /\ 114 \in Inked /\ 117 \in Inked /\ 101 \in Inked /\ 102 \in Inked /\ 97 \in Inked
      /\ 108 \in Inked /\ 115 \in Inked /\ 110 \in Inked
  BY InkIs
<1>2. /\ <<116, 114, 117, 101>> \in Seq(Inked) /\ <<102, 97, 108, 115, 101>> \in Seq(Inked)
      /\ <<110, 117, 108, 108>> \in Seq(Inked)
  BY <1>1
<1>3. /\ w = "true" => Literals[w] = <<116, 114, 117, 101>>
      /\ w = "false" => Literals[w] = <<102, 97, 108, 115, 101>>
      /\ w = "null" => Literals[w] = <<110, 117, 108, 108>>
  BY DEF Literals
<1>4. w \in {"true", "false", "null"}
  BY DEF Literals
<1> QED BY <1>2, <1>3, <1>4, ZenonT(40)

LEMMA PiecesType ==
  ASSUME NEW v, Good(v), NEW T, Inked \subseteq T,
         \A i \in 1..Len(v.kids) : cJSON_PrintUnformatted(v.kids[i]) \in Seq(T)
  PROVE  Pieces(v) \in Seq(Seq(T)) /\ Len(Pieces(v)) = Len(v.kids)
<1>1. Len(v.kids) \in Nat /\ \A i \in 1..Len(v.kids) : v.kids[i].key \in Seq(Byte)
  BY GoodIs DEF Tidy
<1>2. Colon \in T
  BY InkIs DEF Colon
<1>3. ASSUME NEW i \in 1..Len(v.kids) PROVE Pieces(v)[i] \in Seq(T)
  <2> DEFINE a == PrintString(v.kids[i].key)
             b == cJSON_PrintUnformatted(v.kids[i])
  <2>1. a \in Seq(Inked) /\ b \in Seq(T)
    BY <1>1, PrintStringType
  <2>2. Pieces(v)[i] = IF v.type = "object" THEN a \o <<Colon>> \o b ELSE b
    BY DEF Pieces
  <2> HIDE DEF a, b
  <2>3. a \in Seq(T)
    <3>1. Len(a) \in Nat /\ a = [j \in 1..Len(a) |-> a[j]] /\ \A j \in 1..Len(a) : a[j] \in T
      BY <2>1, SeqIs
    <3> QED BY <3>1, SeqBy
  <2>4. a \o <<Colon>> \o b \in Seq(T)
    BY <1>2, <2>1, <2>3
  <2> QED BY <2>1, <2>2, <2>4
<1>4. Pieces(v) = [i \in 1..Len(v.kids) |-> Pieces(v)[i]] /\ Len(Pieces(v)) = Len(v.kids)
  BY <1>1 DEF Pieces
<1> DEFINE s == Pieces(v)
<1> HIDE DEF s
<1>5. s = [i \in 1..Len(s) |-> s[i]] /\ Len(s) \in Nat /\ \A i \in 1..Len(s) : s[i] \in Seq(T)
  BY <1>1, <1>3, <1>4 DEF s
<1>6. s \in Seq(Seq(T))
  BY <1>5, SeqBy
<1> QED BY <1>4, <1>6 DEF s

LEMMA BracketIs ==
  ASSUME NEW type \in {"array", "object"}
  PROVE  Opening[type] \in Inked /\ Closing[type] \in Inked
BY InkIs DEF Opening, Closing

(* The text of a node holds no control character, and so no newline.       *)
LEMMA PrintType ==
  ASSUME NEW v, Good(v)
  PROVE  cJSON_PrintUnformatted(v) \in Seq(Inked)
<1> DEFINE k == v.deep
           S == {x \in Trees[k] : cJSON_PrintUnformatted(x) \in Seq(Inked)}
<1>1. k \in Nat
  BY GoodIs DEF Tidy
<1>2. ASSUME NEW x \in Trees[k], Good(x), \A i \in 1..Len(x.kids) : x.kids[i] \in S PROVE x \in S
  <2>0. Tidy(x)
    BY <1>2, GoodIs
  <2>1. CASE x.type = "string"
    <3>1. x.str \in Seq(Byte)
      BY <2>0 DEF Tidy
    <3> QED BY <1>2, <2>1, <3>1, PrintOf, PrintStringType
  <2>2. CASE x.type = "number"
    <3>1. Decimal(x.num) \in Seq(Numeric)
      BY <2>0, DecimalIs DEF Tidy
    <3> DEFINE s == Decimal(x.num)
    <3> HIDE DEF s
    <3>2. Len(s) \in Nat /\ s = [j \in 1..Len(s) |-> s[j]] /\ \A j \in 1..Len(s) : s[j] \in Numeric
      BY <3>1, SeqIs DEF s
    <3>3. \A j \in 1..Len(s) : s[j] \in Inked
      BY <3>2, InkIs
    <3>4. s \in Seq(Inked)
      BY <3>2, <3>3, SeqBy
    <3> QED BY <1>2, <2>2, <3>4, PrintOf DEF s
  <2>3. CASE x.type \in {"array", "object"}
    <3>1. Pieces(x) \in Seq(Seq(Inked))
      BY <1>2, PiecesType
    <3>2. Comma \in Inked
      BY InkIs DEF Comma
    <3> DEFINE s == Pieces(x)
               a == Opening[x.type]
               b == Closing[x.type]
               u == Listed(s)
    <3>3. a \in Inked /\ b \in Inked
      BY <2>3, BracketIs
    <3>4. cJSON_PrintUnformatted(x) = <<a>> \o u \o <<b>>
      BY <1>2, <2>3, PrintOf
    <3> HIDE DEF s, a, b
    <3>5. s \in Seq(Seq(Inked)) /\ Len(s) \in Nat
      BY <3>1, SeqIs DEF s
    <3>6. u \in Seq(Inked)
      <4>1. PICK f : Listed(s) = f[Len(s)] /\ \A j \in 0..Len(s) : f[j] \in Seq(Inked)
        BY <3>2, <3>5, ListedIs
      <4> QED BY <3>5, <4>1
    <3> HIDE DEF u
    <3>7. <<a>> \o u \o <<b>> \in Seq(Inked)
      BY <3>3, <3>6
    <3> QED BY <1>2, <3>4, <3>7
  <2>4. CASE x.type \notin {"string", "number", "array", "object"}
    BY <1>2, <2>4, PrintOf, LiteralInk
  <2> QED BY <2>1, <2>2, <2>3, <2>4
<1>3. v.deep <= k
  BY <1>1
<1> HIDE DEF S
<1>4. \A x : Good(x) /\ x.deep <= k => x \in S
  <2> HIDE DEF k
  <2> QED BY <1>1, <1>2, TreeInduction
<1> QED BY <1>3, <1>4 DEF S

-----------------------------------------------------------------------------
(* The lines of a file.                                                    *)

LEMMA SeqInduction ==
  ASSUME NEW S, NEW G, <<>> \in G, \A s \in Seq(S) : s \in G => \A b \in S : Append(s, b) \in G
  PROVE  \A s \in Seq(S) : s \in G
<1> DEFINE H == {n \in Nat : \A s \in Seq(S) : Len(s) = n => s \in G}
<1>1. 0 \in H
  <2>1. \A s \in Seq(S) : Len(s) = 0 => s = <<>>
    OBVIOUS
  <2> QED BY <2>1
<1>2. ASSUME NEW n \in H PROVE n + 1 \in H
  <2> SUFFICES ASSUME NEW s \in Seq(S), Len(s) = n + 1 PROVE s \in G
    OBVIOUS
  <2> DEFINE u == SubSeq(s, 1, n)
  <2>1. n \in 0..Len(s) /\ n + 1 \in 1..Len(s)
    OBVIOUS
  <2>2. u \in Seq(S) /\ Len(u) = n /\ s[n + 1] \in S
    BY <2>1, PrefixOf
  <2>3. s = Append(u, s[n + 1])
    BY <2>1, <2>2
  <2> QED BY <2>2, <2>3
<1>3. H = Nat
  <2> HIDE DEF H
  <2>1. H \in SUBSET Nat
    BY DEF H
  <2> QED BY <1>1, <1>2, <2>1, SetInduction
<1>4. \A s \in Seq(S) : Len(s) \in H
  BY <1>3
<1> QED BY <1>4

LineStart == [done |-> <<>>, open |-> <<>>]

LinesOf(s, f) ==
  f = [i \in 0..Len(s) |->
         IF i = 0 THEN LineStart
         ELSE IF s[i] = Newline THEN EndLine(f[i - 1])
         ELSE [f[i - 1] EXCEPT !.open = Append(@, s[i])]]

LEMMA LinesExist ==
  ASSUME NEW s, Len(s) \in Nat
  PROVE  LinesOf(s, CHOOSE f : LinesOf(s, f)) /\ GetLines(s) = (CHOOSE f : LinesOf(s, f))[Len(s)]
<1> DEFINE n == Len(s)
           Step(f, k) ==
             IF k = 0 THEN LineStart
             ELSE IF s[k] = Newline THEN EndLine(f[k - 1])
             ELSE [f[k - 1] EXCEPT !.open = Append(@, s[k])]
           Right(f, m) == \A k \in 0..n : k <= m => f[k] = Step(f, k)
           G == {m \in Nat : \E f : f = [k \in 0..n |-> f[k]] /\ Right(f, m)}
<1>0. n \in Nat
  OBVIOUS
<1>s. ASSUME NEW f, NEW g, NEW k \in 0..n, k # 0 => f[k - 1] = g[k - 1] PROVE Step(f, k) = Step(g, k)
  BY <1>s
<1>z. \A f, g : Step(f, 0) = Step(g, 0)
  OBVIOUS
<1> HIDE DEF n, Step
<1>1. 0 \in G
  <2> DEFINE f == [k \in 0..n |-> Step(<<>>, 0)]
  <2>1. f = [k \in 0..n |-> f[k]]
    OBVIOUS
  <2>2. \A k \in 0..n : k <= 0 => f[k] = Step(f, k)
    <3>1. \A k \in 0..n : k <= 0 => k = 0
      BY <1>0
    <3>2. \A k \in 0..n : f[k] = Step(<<>>, 0)
      OBVIOUS
    <3> HIDE DEF f
    <3>3. Step(<<>>, 0) = Step(f, 0)
      BY <1>z
    <3> QED BY <3>1, <3>2, <3>3
  <2> QED BY <2>1, <2>2
<1>2. ASSUME NEW m \in G PROVE m + 1 \in G
  <2>1. PICK f : f = [k \in 0..n |-> f[k]] /\ Right(f, m)
    OBVIOUS
  <2> DEFINE g == [k \in 0..n |-> IF k = m + 1 THEN Step(f, k) ELSE f[k]]
  <2>2. g = [k \in 0..n |-> g[k]] /\ \A k \in 0..n : g[k] = IF k = m + 1 THEN Step(f, k) ELSE f[k]
    OBVIOUS
  <2> HIDE DEF g
  <2>3. ASSUME NEW k \in 0..n, k <= m + 1 PROVE g[k] = Step(g, k)
    <3>1. k # 0 => k - 1 \in 0..n /\ k - 1 # m + 1
      BY <1>0, <2>3
    <3>2. Step(g, k) = Step(f, k)
      <4>1. k # 0 => g[k - 1] = f[k - 1]
        BY <2>2, <3>1
      <4> QED BY <1>s, <4>1
    <3>3. k # m + 1 => f[k] = Step(f, k)
      <4>1. k # m + 1 => k <= m
        BY <1>0, <2>3
      <4> QED BY <2>1, <4>1
    <3> QED BY <2>2, <3>2, <3>3
  <2>4. Right(g, m + 1)
    BY <2>3
  <2>5. m + 1 \in Nat
    OBVIOUS
  <2> HIDE DEF Right
  <2>6. \E h : h = [k \in 0..n |-> h[k]] /\ Right(h, m + 1)
    BY <2>2, <2>4
  <2> QED BY <2>5, <2>6
<1>3. n \in G
  <2> HIDE DEF G
  <2>1. G \in SUBSET Nat
    BY DEF G
  <2> QED BY <1>0, <1>1, <1>2, <2>1, SetInduction
<1>4. PICK h : h = [k \in 0..n |-> h[k]] /\ Right(h, n)
  BY <1>3
<1>5. h = [k \in 0..n |-> Step(h, k)]
  <2>1. \A k \in 0..n : h[k] = Step(h, k)
    BY <1>0, <1>4
  <2> QED BY <1>4, <2>1
<1>6. LinesOf(s, h)
  BY <1>5 DEF LinesOf, n, Step
<1> QED BY <1>6 DEF LinesOf, GetLines, LineStart

(* One byte more.                                                          *)
LEMMA GetLinesIs ==
  ASSUME NEW S, NEW s \in Seq(S), NEW b \in S
  PROVE  /\ GetLines(<<>>) = LineStart
         /\ GetLines(Append(s, b)) =
              IF b = Newline THEN EndLine(GetLines(s)) ELSE [GetLines(s) EXCEPT !.open = Append(@, b)]
<1> DEFINE n == Len(s)
           u == Append(s, b)
           f == CHOOSE f : LinesOf(s, f)
           g == CHOOSE g : LinesOf(u, g)
<1>1. n \in Nat /\ Len(u) = n + 1 /\ u[n + 1] = b /\ \A k \in 1..n : u[k] = s[k]
  OBVIOUS
<1>2. LinesOf(s, f) /\ GetLines(s) = f[n]
  BY <1>1, LinesExist
<1>3. LinesOf(u, g) /\ GetLines(u) = g[n + 1]
  <2>1. Len(u) \in Nat
    BY <1>1
  <2> HIDE DEF u
  <2>2. LinesOf(u, g) /\ GetLines(u) = g[Len(u)]
    BY <2>1, LinesExist
  <2> QED BY <1>1, <2>2
<1>4. GetLines(<<>>) = LineStart
  <2> DEFINE e == <<>>
             h == CHOOSE h : LinesOf(e, h)
  <2>1. Len(e) = 0
    OBVIOUS
  <2> HIDE DEF e
  <2>2. LinesOf(e, h) /\ GetLines(e) = h[0]
    BY <2>1, LinesExist
  <2> HIDE DEF h
  <2>3. h[0] = LineStart
    BY <2>1, <2>2 DEF LinesOf
  <2> QED BY <2>2, <2>3 DEF e
<1> HIDE DEF n, u, f, g
<1> DEFINE Step(h, k) ==
             IF k = 0 THEN LineStart
             ELSE IF s[k] = Newline THEN EndLine(h[k - 1])
             ELSE [h[k - 1] EXCEPT !.open = Append(@, s[k])]
<1>5. \A k \in 0..n : f[k] = Step(f, k)
  BY <1>2 DEF LinesOf, n
<1>6. \A k \in 0..n : g[k] = Step(g, k)
  <2>1. \A k \in 0..(n + 1) : g[k] = IF k = 0 THEN LineStart
                                     ELSE IF u[k] = Newline THEN EndLine(g[k - 1])
                                     ELSE [g[k - 1] EXCEPT !.open = Append(@, u[k])]
    BY <1>1, <1>3 DEF LinesOf
  <2>2. \A k \in 0..n : k \in 0..(n + 1) /\ (k # 0 => u[k] = s[k])
    BY <1>1
  <2> QED BY <2>1, <2>2
<1>7. g[n + 1] = IF b = Newline THEN EndLine(g[n]) ELSE [g[n] EXCEPT !.open = Append(@, b)]
  <2>1. n + 1 \in 0..(n + 1) /\ n + 1 # 0 /\ (n + 1) - 1 = n
    BY <1>1
  <2>2. g[n + 1] = IF u[n + 1] = Newline THEN EndLine(g[(n + 1) - 1])
                   ELSE [g[(n + 1) - 1] EXCEPT !.open = Append(@, u[n + 1])]
    BY <1>1, <1>3, <2>1 DEF LinesOf
  <2> QED BY <1>1, <2>1, <2>2
<1>s. ASSUME NEW k \in 0..n, k # 0 => f[k - 1] = g[k - 1] PROVE Step(f, k) = Step(g, k)
  BY <1>s
<1>z. Step(f, 0) = Step(g, 0)
  OBVIOUS
<1> HIDE DEF Step
<1>8. f[n] = g[n]
  <2> DEFINE G == {k \in Nat : k <= n => f[k] = g[k]}
  <2>1. 0 \in G
    <3>1. 0 \in 0..n
      BY <1>1
    <3> QED BY <1>5, <1>6, <1>z, <3>1
  <2>2. ASSUME NEW k \in G PROVE k + 1 \in G
    <3> SUFFICES ASSUME k + 1 <= n PROVE f[k + 1] = g[k + 1]
      OBVIOUS
    <3>1. k + 1 \in 0..n /\ (k + 1) - 1 = k /\ f[k] = g[k]
      BY <1>1
    <3>2. Step(f, k + 1) = Step(g, k + 1)
      BY <1>s, <3>1
    <3> QED BY <1>5, <1>6, <3>1, <3>2
  <2>3. G = Nat
    <3> HIDE DEF G
    <3>1. G \in SUBSET Nat
      BY DEF G
    <3> QED BY <2>1, <2>2, <3>1, SetInduction
  <2> QED BY <1>1, <2>3
<1> QED BY <1>2, <1>3, <1>4, <1>7, <1>8 DEF u

LineByte == Byte \ {Newline}

(* Lines are what the file holds between its newlines; none of them is     *)
(* empty.                                                                  *)
LineStateOK(x) ==
  /\ x = [done |-> x.done, open |-> x.open]
  /\ x.done \in Seq(Seq(LineByte) \ {<<>>})
  /\ x.open \in Seq(LineByte)

LEMMA EndLineOK ==
  ASSUME NEW x, LineStateOK(x)
  PROVE  LineStateOK(EndLine(x)) /\ EndLine(x).open = <<>>
         /\ EndLine(x).done = IF x.open = <<>> THEN x.done ELSE Append(x.done, x.open)
<1> DEFINE d == IF x.open = <<>> THEN x.done ELSE Append(x.done, x.open)
           S == Seq(LineByte) \ {<<>>}
<1>1. EndLine(x) = [done |-> d, open |-> <<>>]
  BY DEF EndLine
<1>2. d \in Seq(S)
  <2>1. x.open # <<>> => x.open \in S
    BY DEF LineStateOK
  <2>2. x.done \in Seq(S)
    BY DEF LineStateOK
  <2> HIDE DEF S
  <2> QED BY <2>1, <2>2
<1>3. <<>> \in Seq(LineByte)
  OBVIOUS
<1> HIDE DEF d
<1>4. LineStateOK([done |-> d, open |-> <<>>])
  BY <1>2, <1>3 DEF LineStateOK
<1> QED BY <1>1, <1>4 DEF d

LEMMA GetLinesType ==
  ASSUME NEW s \in Seq(Byte)
  PROVE  LineStateOK(GetLines(s))
<1> DEFINE G == {u \in Seq(Byte) : LineStateOK(GetLines(u))}
<1>0. <<>> \in Seq(Byte) /\ 32 \in Byte
  BY BytesAre
<1>1. <<>> \in G
  <2>1. GetLines(<<>>) = LineStart
    <3> DEFINE e == <<>>
    <3>1. e \in Seq(Byte)
      BY <1>0
    <3> HIDE DEF e
    <3> QED BY <1>0, <3>1, GetLinesIs
  <2>2. <<>> \in Seq(Seq(LineByte) \ {<<>>}) /\ <<>> \in Seq(LineByte)
    OBVIOUS
  <2>3. LineStateOK(LineStart)
    BY <2>2 DEF LineStateOK, LineStart
  <2> QED BY <1>0, <2>1, <2>3
<1>2. ASSUME NEW u \in Seq(Byte), u \in G, NEW b \in Byte PROVE Append(u, b) \in G
  <2>1. GetLines(Append(u, b)) =
          IF b = Newline THEN EndLine(GetLines(u)) ELSE [GetLines(u) EXCEPT !.open = Append(@, b)]
    BY GetLinesIs
  <2>2. LineStateOK(GetLines(u))
    BY <1>2
  <2> DEFINE x == GetLines(u)
  <2> HIDE DEF x
  <2>3. LineStateOK(EndLine(x))
    BY <2>2, EndLineOK DEF x
  <2>4. b # Newline => LineStateOK([x EXCEPT !.open = Append(@, b)])
    <3> SUFFICES ASSUME b # Newline PROVE LineStateOK([x EXCEPT !.open = Append(@, b)])
      OBVIOUS
    <3>1. b \in LineByte
      BY DEF LineByte
    <3>2. LineStateOK(x)
      BY <2>2 DEF x
    <3>3. Append(x.open, b) \in Seq(LineByte)
      BY <3>1, <3>2 DEF LineStateOK
    <3>4. [x EXCEPT !.open = Append(@, b)] = [done |-> x.done, open |-> Append(x.open, b)]
      <4>1. x = [done |-> x.done, open |-> x.open]
        BY <3>2 DEF LineStateOK
      <4> DEFINE y == Append(x.open, b)
                 done == x.done
      <4>2. [x EXCEPT !.open = Append(@, b)] = [x EXCEPT !.open = y]
        OBVIOUS
      <4> HIDE DEF y, done
      <4>3. [x EXCEPT !.open = y] = [done |-> done, open |-> y]
        <5>1. x = [done |-> done, open |-> x.open]
          BY <4>1 DEF done
        <5> QED BY <5>1
      <4> QED BY <4>2, <4>3 DEF y, done
    <3> QED BY <3>2, <3>3, <3>4 DEF LineStateOK
  <2>5. Append(u, b) \in Seq(Byte)
    OBVIOUS
  <2> QED BY <2>1, <2>3, <2>4, <2>5 DEF x
<1>3. \A u \in Seq(Byte) : u \in G
  <2> HIDE DEF G
  <2> QED BY <1>1, <1>2, SeqInduction
<1> QED BY <1>3

LEMMA LineIsText ==
  ASSUME NEW s \in Seq(LineByte)
  PROVE  s \in Seq(Byte)
<1>1. Len(s) \in Nat /\ s = [i \in 1..Len(s) |-> s[i]] /\ \A i \in 1..Len(s) : s[i] \in LineByte
  BY SeqIs
<1> QED BY <1>1, SeqBy DEF LineByte

(* What is loaded comes of the lines, and each of it is a tree in order.   *)
LEMMA LoadedIs ==
  ASSUME NEW s \in Seq(Byte)
  PROVE  LET lines == EndLine(GetLines(s)).done
             loaded == Loaded(ParsedLines(s))
         IN  /\ lines \in Seq(Seq(LineByte) \ {<<>>})
             /\ Len(loaded) \in Nat /\ loaded = [i \in 1..Len(loaded) |-> loaded[i]]
             /\ \A i \in 1..Len(loaded) :
                  \E j \in 1..Len(lines) :
                    cJSON_Parse(lines[j]) # Null /\ loaded[i] = cJSON_Parse(lines[j]).node
             /\ \A i \in 1..Len(loaded) : Good(loaded[i]) /\ loaded[i].key = <<>>
<1> DEFINE lines == EndLine(GetLines(s)).done
           parsed == ParsedLines(s)
           loaded == Loaded(parsed)
           T == {cJSON_Parse(lines[j]).node : j \in {j \in 1..Len(lines) : cJSON_Parse(lines[j]) # Null}}
           ss == [i \in 1..Len(parsed) |-> IF parsed[i].node = Null.node THEN <<>> ELSE <<parsed[i].node>>]
<1>1. lines \in Seq(Seq(LineByte) \ {<<>>})
  BY GetLinesType, EndLineOK DEF LineStateOK
<1>2. Len(lines) \in Nat /\ DOMAIN lines = 1..Len(lines) /\ \A j \in 1..Len(lines) : lines[j] \in Seq(LineByte)
  BY <1>1, SeqIs
<1>3. parsed = [i \in 1..Len(lines) |-> [text |-> lines[i], node |-> cJSON_Parse(lines[i]).node]]
  BY <1>2 DEF ParsedLines
<1>4. Len(parsed) = Len(lines)
  BY <1>2, <1>3
<1>5. \A x \in T : Good(x) /\ x.key = <<>>
  <2> SUFFICES ASSUME NEW j \in 1..Len(lines), cJSON_Parse(lines[j]) # Null
               PROVE  Good(cJSON_Parse(lines[j]).node) /\ cJSON_Parse(lines[j]).node.key = <<>>
    OBVIOUS
  <2>1. lines[j] \in Seq(Byte)
    BY <1>2, LineIsText
  <2> QED BY <2>1, ParseType
<1>6. ss \in Seq(Seq(T))
  <2>1. ASSUME NEW i \in 1..Len(lines)
        PROVE  (IF parsed[i].node = Null.node THEN <<>> ELSE <<parsed[i].node>>) \in Seq(T)
    <3>1. parsed[i].node = cJSON_Parse(lines[i]).node
      BY <1>3
    <3>2. parsed[i].node # Null.node => parsed[i].node \in T
      BY <3>1
    <3> HIDE DEF T, parsed
    <3> QED BY <3>2
  <2>2. ss = [i \in 1..Len(lines) |-> IF parsed[i].node = Null.node THEN <<>> ELSE <<parsed[i].node>>]
    BY <1>4
  <2>3. Len(ss) = Len(lines) /\ ss = [i \in 1..Len(ss) |-> ss[i]]
    BY <1>2, <2>2
  <2>4. \A i \in 1..Len(ss) : ss[i] \in Seq(T)
    BY <2>1, <2>2, <2>3
  <2> HIDE DEF ss, T
  <2> QED BY <1>2, <2>3, <2>4, SeqBy
<1>7. loaded = FlattenSeq(ss)
  BY DEF Loaded
<1> HIDE DEF ss, T, loaded, lines
<1>8. loaded \in Seq(T)
  BY <1>6, <1>7, FlattenType
<1>9. Len(loaded) \in Nat /\ loaded = [i \in 1..Len(loaded) |-> loaded[i]] /\ \A i \in 1..Len(loaded) : loaded[i] \in T
  BY <1>8, SeqIs
<1>10. \A i \in 1..Len(loaded) :
         \E j \in 1..Len(lines) : cJSON_Parse(lines[j]) # Null /\ loaded[i] = cJSON_Parse(lines[j]).node
  BY <1>9 DEF T
<1> QED BY <1>1, <1>5, <1>9, <1>10 DEF loaded, lines

-----------------------------------------------------------------------------
(* The file and the messages of the running process.                       *)

LEMMA MessageIs ==
  ASSUME NEW c \in Seq(Byte)
  PROVE  /\ Good(Message(c)) /\ Message(c).type = "object" /\ Message(c).key = <<>>
         /\ Message(c).kids = <<[StringNode(c) EXCEPT !.key = <<114>>]>>
<1> DEFINE k == <<114>>
           v == StringNode(c)
           w == [Node("string") EXCEPT !.key = k, !.str = c]
           item == [v EXCEPT !.key = k]
<1>1. k \in Seq(Byte)
  <2>1. 114 \in Byte
    BY BytesAre
  <2> QED BY <2>1
<1>2. Good(item) /\ item.key = k
  <2>1. Good(v)
    BY StringGood
  <2> HIDE DEF v, k
  <2> QED BY <1>1, <2>1, KeyedGood
<1>3. w = item
  <2> HIDE DEF k
  <2>1. v = [type |-> "string", key |-> <<>>, str |-> c, num |-> 0, kids |-> <<>>, deep |-> 0]
    BY StringIs
  <2>2. item = [type |-> "string", key |-> k, str |-> c, num |-> 0, kids |-> <<>>, deep |-> 0]
    BY <2>1
  <2>3. w = [type |-> "string", key |-> k, str |-> c, num |-> 0, kids |-> <<>>, deep |-> 0]
    <3> DEFINE Fields == {"type", "key", "str", "num", "kids", "deep"}
               n == Node("string")
    <3>1. n = [x \in Fields |-> n[x]] /\ n.type = "string" /\ n.num = 0 /\ n.kids = <<>> /\ n.deep = 0
      BY DEF Node
    <3>2. w = [n EXCEPT !.key = k, !.str = c]
      OBVIOUS
    <3> HIDE DEF w, n
    <3>3. /\ w = [x \in Fields |-> w[x]] /\ w.type = "string" /\ w.key = k /\ w.str = c
          /\ w.num = 0 /\ w.kids = <<>> /\ w.deep = 0
      BY <3>1, <3>2
    <3> QED BY <3>3
  <2> QED BY <2>2, <2>3
<1>4. Good(Node("object")) /\ Node("object").type = "object" /\ Node("object").key = <<>> /\ Node("object").kids = <<>>
  BY PlainGood DEF Kinds
<1>5. Message(c) = With(item, Node("object"))
  BY <1>3 DEF Message
<1> DEFINE node == Node("object")
<1> HIDE DEF item, node
<1>6. /\ Good(With(item, node)) /\ With(item, node).type = node.type /\ With(item, node).key = node.key
      /\ With(item, node).kids = <<item>> \o node.kids
  BY <1>2, <1>4, WithGood DEF node
<1>7. <<item>> \o node.kids = <<item>>
  <2>1. node.kids = <<>>
    BY <1>4 DEF node
  <2>2. <<item>> \o <<>> = <<item>>
    OBVIOUS
  <2> QED BY <2>1, <2>2
<1> QED BY <1>4, <1>5, <1>6, <1>7 DEF node, item, k, v

GoodMessages ==
  /\ Len(messages) \in Nat /\ messages = [i \in 1..Len(messages) |-> messages[i]]
  /\ \A i \in 1..Len(messages) : Good(messages[i]) /\ messages[i].key = <<>>

(* What is in the file are bytes, what is in memory are trees.             *)
BytesInv == bytes \in Seq(Byte) /\ running \in BOOLEAN /\ GoodMessages

LEMMA TextPart ==
  ASSUME NEW v, Good(v), NEW k \in 0..Len(cJSON_PrintUnformatted(v))
  PROVE  /\ SubSeq(cJSON_PrintUnformatted(v), 1, k) \in Seq(Inked)
         /\ SubSeq(cJSON_PrintUnformatted(v), 1, k) \in Seq(Byte)
<1> DEFINE t == cJSON_PrintUnformatted(v)
<1>1. t \in Seq(Inked)
  BY PrintType
<1> HIDE DEF t
<1>2. SubSeq(t, 1, k) \in Seq(Inked)
  BY <1>1, PrefixOf DEF t
<1> QED BY <1>2, InkedSeq DEF t

(* Whatever part of a message arrives, the file stays text.                *)
LEMMA AppendType ==
  ASSUME BytesInv, NEW m, Good(m), session_append(m)
  PROVE  bytes' \in Seq(Byte)
<1> DEFINE t == cJSON_PrintUnformatted(m)
<1>1. PICK k \in 0..Len(t), newline \in {<<>>, <<Newline>>} : bytes' = bytes \o SubSeq(t, 1, k) \o newline
  BY DEF session_append
<1>2. SubSeq(t, 1, k) \in Seq(Byte)
  BY TextPart
<1>3. Newline \in Byte
  BY BytesAre DEF Newline
<1>4. newline \in Seq(Byte)
  <2>1. <<>> \in Seq(Byte) /\ <<Newline>> \in Seq(Byte)
    BY <1>3
  <2> QED BY <2>1
<1> DEFINE u == SubSeq(t, 1, k)
<1> HIDE DEF u
<1>5. bytes \in Seq(Byte)
  BY DEF BytesInv
<1> QED BY <1>1, <1>2, <1>4, <1>5 DEF u

WholeLines ==
  [i \in 1..Len(messages) |-> Append(cJSON_PrintUnformatted(messages[i]), Newline)]

LEMMA WholeType ==
  ASSUME GoodMessages
  PROVE  WholeLines \in Seq(Seq(Byte)) /\ FlattenSeq(WholeLines) \in Seq(Byte)
<1>1. Len(messages) \in Nat
  BY DEF GoodMessages
<1>2. ASSUME NEW i \in 1..Len(messages) PROVE WholeLines[i] \in Seq(Byte)
  <2> DEFINE t == cJSON_PrintUnformatted(messages[i])
  <2>1. t \in Seq(Byte)
    BY PrintType, InkedSeq DEF GoodMessages
  <2>2. Newline \in Byte
    BY BytesAre DEF Newline
  <2>3. WholeLines[i] = Append(t, Newline)
    BY DEF WholeLines
  <2> HIDE DEF t
  <2> QED BY <2>1, <2>2, <2>3
<1>3. Len(WholeLines) = Len(messages) /\ WholeLines = [i \in 1..Len(WholeLines) |-> WholeLines[i]]
  BY <1>1 DEF WholeLines
<1> DEFINE s == WholeLines
<1> HIDE DEF s
<1>4. s \in Seq(Seq(Byte))
  <2>1. \A i \in 1..Len(s) : s[i] \in Seq(Byte)
    BY <1>2, <1>3 DEF s
  <2> QED BY <1>1, <1>3, <2>1, SeqBy DEF s
<1>5. FlattenSeq(s) \in Seq(Byte)
  BY <1>4, FlattenType
<1> QED BY <1>4, <1>5 DEF s

LEMMA RewriteType ==
  ASSUME BytesInv, session_rewrite
  PROVE  bytes' \in Seq(Byte)
<1> DEFINE w == FlattenSeq(WholeLines)
<1>1. w \in Seq(Byte)
  BY WholeType DEF BytesInv
<1>2. PICK k \in 0..Len(w) : bytes' = SubSeq(w, 1, k)
  BY DEF session_rewrite, WholeLines
<1> HIDE DEF w
<1> QED BY <1>1, <1>2, PrefixOf

LEMMA LoadType ==
  ASSUME BytesInv, session_load
  PROVE  GoodMessages'
<1> DEFINE l == Loaded(ParsedLines(bytes))
<1>1. bytes \in Seq(Byte)
  BY DEF BytesInv
<1>2. /\ Len(l) \in Nat /\ l = [i \in 1..Len(l) |-> l[i]]
      /\ \A i \in 1..Len(l) : Good(l[i]) /\ l[i].key = <<>>
  BY <1>1, LoadedIs
<1>3. messages' = l
  BY DEF session_load
<1> HIDE DEF l
<1> QED BY <1>2, <1>3 DEF GoodMessages

LEMMA NoMessages ==
  ASSUME messages' = <<>>
  PROVE  GoodMessages'
<1>1. Len(messages') = 0 /\ messages' = [i \in 1..Len(messages') |-> messages'[i]]
  OBVIOUS
<1> QED BY <1>1 DEF GoodMessages

LEMMA SayType ==
  ASSUME BytesInv, NEW c \in Contents, messages' = Append(messages, Message(c))
  PROVE  GoodMessages'
<1> DEFINE m == Message(c)
<1>1. Good(m) /\ m.key = <<>>
  BY ContentsAssumption, MessageIs
<1> HIDE DEF m
<1>2. messages' = Append(messages, m)
  BY DEF m
<1>3. Len(messages) \in Nat /\ messages = [i \in 1..Len(messages) |-> messages[i]]
  BY DEF BytesInv, GoodMessages
<1> DEFINE S == {messages[i] : i \in 1..Len(messages)} \cup {m}
<1>s. messages \in Seq(S) /\ m \in S
  <2>1. \A i \in 1..Len(messages) : messages[i] \in S
    OBVIOUS
  <2>2. m \in S
    OBVIOUS
  <2> HIDE DEF S
  <2> QED BY <1>3, <2>1, <2>2, SeqBy
<1> HIDE DEF S
<1>4. Len(messages') = Len(messages) + 1 /\ messages' = [i \in 1..Len(messages') |-> messages'[i]]
  <2>1. messages' \in Seq(S) /\ Len(messages') = Len(messages) + 1
    BY <1>2, <1>s
  <2> QED BY <2>1, SeqIs
<1>5. \A i \in 1..Len(messages) : messages'[i] = messages[i]
  BY <1>2, <1>s
<1>6. messages'[Len(messages) + 1] = m
  BY <1>2, <1>s
<1>7. \A i \in 1..Len(messages') : i \in 1..Len(messages) \/ i = Len(messages) + 1
  BY <1>3, <1>4
<1>8. \A i \in 1..Len(messages) : Good(messages[i]) /\ messages[i].key = <<>>
  BY DEF BytesInv, GoodMessages
<1>9. \A i \in 1..Len(messages') : Good(messages'[i]) /\ messages'[i].key = <<>>
  BY <1>1, <1>5, <1>6, <1>7, <1>8
<1> QED BY <1>3, <1>4, <1>9 DEF GoodMessages

LEMMA BytesStep ==
  ASSUME BytesInv, [BytesNext]_vars
  PROVE  BytesInv'
<1>0. bytes \in Seq(Byte) /\ running \in BOOLEAN /\ GoodMessages
  BY DEF BytesInv
<1>1. CASE Start
  <2>1. bytes' = bytes /\ running' = TRUE
    BY <1>1 DEF Start
  <2>2. GoodMessages'
    <3>1. session_load \/ messages' = <<>>
      BY <1>1 DEF Start
    <3> QED BY <3>1, LoadType, NoMessages
  <2> QED BY <1>0, <2>1, <2>2 DEF BytesInv
<1>2. CASE Say
  <2>1. PICK c \in Contents : messages' = Append(messages, Message(c)) /\ session_append(Message(c))
    BY <1>2 DEF Say
  <2>2. running' = running
    BY <1>2 DEF Say, Writing
  <2>3. Good(Message(c))
    BY ContentsAssumption, MessageIs
  <2>4. bytes' \in Seq(Byte)
    BY <2>1, <2>3, AppendType
  <2>5. GoodMessages'
    BY <2>1, SayType
  <2> QED BY <1>0, <2>2, <2>4, <2>5 DEF BytesInv
<1>3. CASE Rewrite
  <2>1. session_rewrite /\ messages' = messages /\ running' = running
    BY <1>3 DEF Rewrite, Writing
  <2>2. bytes' \in Seq(Byte)
    BY <2>1, RewriteType
  <2>3. GoodMessages'
    BY <1>0, <2>1 DEF GoodMessages
  <2> QED BY <1>0, <2>1, <2>2, <2>3 DEF BytesInv
<1>4. CASE Stop
  <2>1. bytes' = bytes /\ running' = FALSE /\ messages' = <<>>
    BY <1>4 DEF Stop
  <2> QED BY <1>0, <2>1, NoMessages DEF BytesInv
<1>5. CASE Foreign
  <2>1. PICK line \in ForeignLines : bytes' = Append(line, Newline)
    BY <1>5 DEF Foreign
  <2>2. messages' = messages /\ running' = running
    BY <1>5 DEF Foreign
  <2>3. line \in Seq(LineByte)
    BY ForeignAssumption DEF LineByte
  <2>4. line \in Seq(Byte) /\ Newline \in Byte
    BY <2>3, LineIsText, BytesAre DEF Newline
  <2>5. bytes' \in Seq(Byte)
    BY <2>1, <2>4
  <2>6. GoodMessages'
    BY <1>0, <2>2 DEF GoodMessages
  <2> QED BY <1>0, <2>2, <2>5, <2>6 DEF BytesInv
<1>6. CASE UNCHANGED vars
  BY <1>0, <1>6 DEF BytesInv, GoodMessages, vars
<1> QED BY <1>1, <1>2, <1>3, <1>4, <1>5, <1>6 DEF BytesNext

LEMMA BytesStart ==
  ASSUME BytesInit
  PROVE  BytesInv
<1>1. bytes = <<>> /\ messages = <<>> /\ running = FALSE
  BY DEF BytesInit
<1>2. <<>> \in Seq(Byte)
  OBVIOUS
<1>3. Len(messages) = 0 /\ messages = [i \in 1..Len(messages) |-> messages[i]]
  BY <1>1
<1>4. GoodMessages
  BY <1>3 DEF GoodMessages
<1> QED BY <1>1, <1>2, <1>4 DEF BytesInv

(* The session file is text, whatever is appended to what and wherever a   *)
(* write breaks off: what is printed of a tree that has been parsed has no *)
(* NUL, and no byte of it is more than one (tinyjson.h:257-259, 378-447).  *)
THEOREM BytesTypeCorrect == BytesSpec => []BytesTypeOK
<1>1. BytesInit => BytesInv
  BY BytesStart
<1>2. BytesInv /\ [BytesNext]_vars => BytesInv'
  BY BytesStep
<1>3. BytesInv => BytesTypeOK
  <2> SUFFICES ASSUME BytesInv PROVE BytesTypeOK
    OBVIOUS
  <2>1. bytes \in Seq(Byte) /\ running \in BOOLEAN /\ Len(messages) \in Nat
    BY DEF BytesInv, GoodMessages
  <2>2. DOMAIN bytes = 1..Len(bytes) /\ \A i \in 1..Len(bytes) : bytes[i] \in Byte
    BY <2>1, SeqIs
  <2> QED BY <2>1, <2>2 DEF BytesTypeOK, Byte
<1> QED BY <1>1, <1>2, <1>3, PTL DEF BytesSpec

-----------------------------------------------------------------------------
(* Texts that break off.  At a joint one text has broken off and the file  *)
(* goes on with another, or ends; a reader is stuck where neither a comma  *)
(* nor a bracket nor a colon can come.                                     *)

(* The first n bytes of s stand from p on.                                 *)
Runs(t, p, s, n) == \A i \in 1..n : At(t, p + i - 1, s[i])

DeadEnd(t, q) == q = Len(t) + 1 \/ (q \in 1..Len(t) /\ t[q] \in {123, 114})

Stuck(t, r) == r = Null \/ DeadEnd(t, r.pos)

Breaks(t, e) == e = Len(t) + 1 \/ (e \in 1..Len(t) /\ t[e] = 123)

Joint(t, e) == Breaks(t, e) /\ Stuck(t, ValueAt(t, e, Items(t))) /\ Stuck(t, Chars(t)[e])

LEMMA RunsTo ==
  ASSUME NEW t, Len(t) \in Nat, NEW p \in Places(t), NEW s, NEW n \in Nat, Runs(t, p, s, n)
  PROVE  /\ p + n \in Places(t) /\ p \in Nat
         /\ \A i \in 1..n : p + i - 1 \in 1..Len(t) /\ t[p + i - 1] = s[i]
<1>1. p \in Nat /\ p >= 1 /\ p <= Len(t) + 1
  BY DEF Places
<1>2. \A i \in 1..n : p + i - 1 <= Len(t) /\ t[p + i - 1] = s[i]
  BY DEF Runs, At
<1>3. p + n \in Places(t)
  <2>1. CASE n = 0
    BY <1>1, <2>1 DEF Places
  <2>2. CASE n # 0
    <3>1. n \in 1..n
      BY <2>2
    <3>2. p + n - 1 <= Len(t)
      BY <1>2, <3>1
    <3> QED BY <1>1, <3>2 DEF Places
  <2> QED BY <2>1, <2>2
<1> QED BY <1>1, <1>2, <1>3

LEMMA RunsFirst ==
  ASSUME NEW t, NEW p, NEW s, NEW n \in Nat, Runs(t, p, s, n), NEW m \in 0..n
  PROVE  Runs(t, p, s, m)
BY DEF Runs

(* Of a text in two parts.                                                 *)
LEMMA RunsParts ==
  ASSUME NEW S, NEW a \in Seq(S), NEW b \in Seq(S), NEW t, NEW p \in Nat,
         NEW n \in 0..Len(a \o b), Runs(t, p, a \o b, n)
  PROVE  /\ n <= Len(a) => Runs(t, p, a, n)
         /\ n >= Len(a) => /\ Runs(t, p, a, Len(a)) /\ Runs(t, p + Len(a), b, n - Len(a))
                           /\ n - Len(a) \in 0..Len(b)
<1>1. Len(a) \in Nat /\ Len(b) \in Nat /\ Len(a \o b) = Len(a) + Len(b)
  OBVIOUS
<1>2. \A i \in 1..Len(a) : (a \o b)[i] = a[i]
  OBVIOUS
<1>3. \A i \in 1..Len(b) : (a \o b)[Len(a) + i] = b[i]
  OBVIOUS
<1> DEFINE ab == a \o b
           la == Len(a)
<1> HIDE DEF ab, la
<1>4. \A i \in 1..n : At(t, p + i - 1, ab[i])
  BY DEF Runs, ab
<1>5. n \in Nat /\ la \in Nat /\ n <= la + Len(b)
  BY <1>1 DEF la, ab
<1>6. n <= la => Runs(t, p, a, n)
  <2>1. n <= la => \A i \in 1..n : ab[i] = a[i]
    BY <1>2, <1>5 DEF la, ab
  <2> QED BY <1>4, <2>1 DEF Runs
<1>7. n >= la => Runs(t, p, a, la)
  <2>1. n >= la => \A i \in 1..la : ab[i] = a[i] /\ i \in 1..n
    BY <1>2, <1>5 DEF la, ab
  <2> QED BY <1>4, <2>1 DEF Runs
<1>8. n >= la => Runs(t, p + la, b, n - la)
  <2> SUFFICES ASSUME n >= la, NEW i \in 1..(n - la) PROVE At(t, p + la + i - 1, b[i])
    BY DEF Runs
  <2>1. la + i \in 1..n /\ i \in 1..Len(b)
    BY <1>1, <1>5
  <2>2. ab[la + i] = b[i]
    BY <1>3, <2>1 DEF la, ab
  <2>3. At(t, p + (la + i) - 1, ab[la + i])
    BY <1>4, <2>1
  <2>4. p + (la + i) - 1 = p + la + i - 1
    BY <1>5
  <2> QED BY <2>2, <2>3, <2>4
<1>9. n >= la => n - la \in 0..Len(b)
  BY <1>1, <1>5
<1> QED BY <1>6, <1>7, <1>8, <1>9 DEF la

LEMMA CharsEnd ==
  ASSUME NEW t, Len(t) \in Nat
  PROVE  Chars(t)[Len(t) + 1] = Null
<1>1. Len(t) + 1 \in Places(t) /\ Len(t) + 1 > Len(t)
  BY DEF Places
<1>2. CharAt(t, Len(t) + 1, Chars(t)) = Null
  BY <1>1 DEF CharAt
<1> QED BY <1>1, <1>2, CharsIs

(* A backslash at the break.                                               *)
LEMMA BackslashBreaks ==
  ASSUME NEW t, Len(t) \in Nat, NEW q \in 1..Len(t), t[q] = Backslash, Breaks(t, q + 1)
  PROVE  Chars(t)[q] = Null
<1>1. q \in Places(t) /\ q <= Len(t) /\ t[q] # Quote
  BY DEF Places, Quote, Backslash
<1>2. Chars(t)[q] = CharAt(t, q, Chars(t))
  BY <1>1, CharsIs
<1>3. CASE q = Len(t)
  <2>1. CharAt(t, q, Chars(t)) = Put(<<t[q]>>, Chars(t)[q + 1])
    BY <1>1, <1>3 DEF CharAt
  <2>2. Chars(t)[q + 1] = Null
    BY <1>3, CharsEnd
  <2> QED BY <1>2, <2>1, <2>2 DEF Put
<1>4. CASE q # Len(t)
  <2>1. t[q + 1] = 123
    BY <1>4 DEF Breaks
  <2>2. CharAt(t, q, Chars(t)) = Null
    BY <1>1, <1>4, <2>1 DEF CharAt, Letters, LetterU
  <2> QED BY <1>2, <2>2
<1> QED BY <1>3, <1>4

LEMMA LetterBack ==
  ASSUME NEW t, Len(t) \in Nat, NEW q \in Places(t), NEW e \in Letters, NEW m \in 1..2,
         Runs(t, q, <<Backslash, e>>, m)
  PROVE  /\ m = 2 => Chars(t)[q] = Put(<<Meaning(e)>>, Chars(t)[q + 2])
         /\ m < 2 /\ Breaks(t, q + m) => Chars(t)[q] = Null
<1> DEFINE s == <<Backslash, e>>
<1>1. s[1] = Backslash /\ s[2] = e
  OBVIOUS
<1> HIDE DEF s
<1>2. /\ q \in Nat /\ \A i \in 1..m : q + i - 1 \in 1..Len(t) /\ t[q + i - 1] = s[i]
  BY RunsTo DEF s
<1>3. q \in 1..Len(t) /\ t[q] = Backslash
  <2>1. 1 \in 1..m /\ q + 1 - 1 = q
    BY <1>2
  <2> QED BY <1>1, <1>2, <2>1
<1>4. CASE m = 2
  <2>1. q + 1 \in 1..Len(t) /\ t[q + 1] = e
    <3>1. 2 \in 1..m /\ q + 2 - 1 = q + 1
      BY <1>2, <1>4
    <3> QED BY <1>1, <1>2, <3>1
  <2>2. q <= Len(t) /\ q # Len(t) /\ t[q] # Quote
    BY <1>3, <2>1 DEF Quote, Backslash
  <2>3. CharAt(t, q, Chars(t)) = Put(<<Meaning(e)>>, Chars(t)[q + 2])
    BY <1>3, <2>1, <2>2 DEF CharAt
  <2> QED BY <1>4, <2>3, CharsIs
<1>5. CASE m = 1
  BY <1>3, <1>5, BackslashBreaks
<1> QED BY <1>4, <1>5

LEMMA HexOf == HexDigit(48) = 0 /\ HexDigit(123) = -1
BY DEF HexDigit

LEMMA UnicodeBack ==
  ASSUME NEW t, Len(t) \in Nat, NEW q \in Places(t), NEW b \in Byte, b < 32,
         NEW m \in 1..6,
         Runs(t, q, <<Backslash, LetterU, 48, 48, HexChar(b \div 16), HexChar(b % 16)>>, m)
  PROVE  /\ m = 6 => Chars(t)[q] = Put(<<b>>, Chars(t)[q + 6])
         /\ m < 6 /\ Breaks(t, q + m) => Chars(t)[q] = Null
<1> DEFINE c == HexChar(b \div 16)
           d == HexChar(b % 16)
<1>1. HexDigit(c) = b \div 16 /\ HexDigit(d) = b % 16
  BY NibblesAre, HexCharIs
<1>h. /\ b \in Nat /\ b \div 16 \in Nat /\ b % 16 \in Nat
      /\ 16 * (b \div 16) + (b % 16) = b
  BY NibblesAre, BytesAre
<1> HIDE DEF c, d
<1> DEFINE s == <<Backslash, LetterU, 48, 48, c, d>>
<1>2. s[1] = Backslash /\ s[2] = LetterU /\ s[3] = 48 /\ s[4] = 48 /\ s[5] = c /\ s[6] = d
  OBVIOUS
<1>3. Runs(t, q, s, m)
  BY DEF c, d
<1> HIDE DEF s
<1>4. /\ q \in Nat /\ q + m \in Places(t)
      /\ \A i \in 1..m : q + i - 1 \in 1..Len(t) /\ t[q + i - 1] = s[i]
  BY <1>3, RunsTo
<1>5. q \in 1..Len(t) /\ t[q] = Backslash /\ t[q] # Quote
  <2>1. 1 \in 1..m /\ q + 1 - 1 = q
    BY <1>4
  <2> QED BY <1>2, <1>4, <2>1 DEF Backslash, Quote
<1>6. ASSUME m >= 2
      PROVE  /\ q + 1 \in 1..Len(t) /\ t[q + 1] = LetterU /\ q # Len(t)
             /\ CharAt(t, q, Chars(t)) =
                  IF IsHex(t, q + 2) THEN Put(Utf8(HexAt(t, q + 2)), Chars(t)[q + 6]) ELSE Null
  <2>1. 2 \in 1..m /\ q + 2 - 1 = q + 1
    BY <1>4, <1>6
  <2>2. q + 1 \in 1..Len(t) /\ t[q + 1] = LetterU
    BY <1>2, <1>4, <2>1
  <2>3. LetterU \notin Letters \cup {47}
    BY DEF LetterU, Letters
  <2>4. q <= Len(t) /\ q # Len(t)
    BY <1>5, <2>2
  <2> QED BY <1>5, <2>2, <2>3, <2>4 DEF CharAt
<1>7. CASE m = 6
  <2>1. /\ q + 2 \in Nat /\ (q + 2) + 1 = q + 3 /\ (q + 2) + 2 = q + 4 /\ (q + 2) + 3 = q + 5
        /\ q + 3 - 1 = q + 2 /\ q + 4 - 1 = q + 3 /\ q + 5 - 1 = q + 4 /\ q + 6 - 1 = q + 5
        /\ 3 \in 1..m /\ 4 \in 1..m /\ 5 \in 1..m /\ 6 \in 1..m
    BY <1>4, <1>7
  <2>2. /\ t[q + 2] = 48 /\ t[q + 3] = 48 /\ t[q + 4] = c /\ t[q + 5] = d
        /\ q + 5 \in 1..Len(t)
    <3>1. /\ t[q + 3 - 1] = s[3] /\ t[q + 4 - 1] = s[4] /\ t[q + 5 - 1] = s[5] /\ t[q + 6 - 1] = s[6]
          /\ q + 6 - 1 \in 1..Len(t)
      BY <1>4, <2>1
    <3> QED BY <1>2, <2>1, <3>1
  <2>3. IsHex(t, q + 2)
    <3>1. \A i \in (q + 2)..((q + 2) + 3) : i = q + 2 \/ i = q + 3 \/ i = q + 4 \/ i = q + 5
      BY <1>4
    <3>2. /\ HexDigit(t[q + 2]) >= 0 /\ HexDigit(t[q + 3]) >= 0
          /\ HexDigit(t[q + 4]) >= 0 /\ HexDigit(t[q + 5]) >= 0
      <4>1. HexDigit(c) >= 0 /\ HexDigit(d) >= 0
        BY <1>1, <1>h
      <4> QED BY <2>2, <4>1, HexOf
    <3>3. \A i \in (q + 2)..((q + 2) + 3) : HexDigit(t[i]) >= 0
      BY <3>1, <3>2
    <3>4. (q + 2) + 3 <= Len(t)
      BY <2>1, <2>2
    <3> QED BY <3>3, <3>4 DEF IsHex
  <2>4. HexAt(t, q + 2) = b
    <3>1. HexAt(t, q + 2) =
            4096 * HexDigit(t[q + 2]) + 256 * HexDigit(t[(q + 2) + 1]) + 16 * HexDigit(t[(q + 2) + 2])
            + HexDigit(t[(q + 2) + 3])
      BY DEF HexAt
    <3>2. HexAt(t, q + 2) = 4096 * 0 + 256 * 0 + 16 * (b \div 16) + (b % 16)
      BY <1>1, <2>1, <2>2, <3>1, HexOf, SMTT(40)
    <3> DEFINE x == b \div 16
               y == b % 16
    <3> HIDE DEF x, y
    <3>3. 4096 * 0 + 256 * 0 + 16 * x + y = 16 * x + y
      BY <1>h DEF x, y
    <3> QED BY <1>h, <3>2, <3>3 DEF x, y
  <2>5. Utf8(b) = <<b>>
    <3>1. b < 128
      BY <1>h
    <3> QED BY <3>1 DEF Utf8
  <2>6. CharAt(t, q, Chars(t)) = Put(<<b>>, Chars(t)[q + 6])
    BY <1>6, <1>7, <2>3, <2>4, <2>5
  <2> QED BY <1>7, <2>6, CharsIs
<1>8. CASE m = 1
  BY <1>5, <1>8, BackslashBreaks
<1>9. CASE m >= 2 /\ m < 6
  <2> SUFFICES ASSUME Breaks(t, q + m) PROVE Chars(t)[q] = Null
    BY <1>9
  <2>1. ~IsHex(t, q + 2)
    <3>1. CASE q + m = Len(t) + 1
      <4>1. ~((q + 2) + 3 <= Len(t))
        BY <1>4, <1>9, <3>1
      <4> QED BY <4>1 DEF IsHex
    <3>2. CASE t[q + m] = 123
      <4>1. q + m \in (q + 2)..((q + 2) + 3)
        BY <1>4, <1>9
      <4>2. ~(HexDigit(t[q + m]) >= 0)
        BY <3>2, HexOf
      <4> QED BY <4>1, <4>2 DEF IsHex
    <3> QED BY <3>1, <3>2 DEF Breaks
  <2>2. CharAt(t, q, Chars(t)) = Null
    BY <1>6, <1>9, <2>1
  <2> QED BY <2>2, CharsIs
<1>10. m = 1 \/ m = 6 \/ (m >= 2 /\ m < 6)
  OBVIOUS
<1> QED BY <1>7, <1>8, <1>9, <1>10

(* A byte comes back from whatever form it has been given, and a form that *)
(* breaks off spoils the string.                                           *)
LEMMA EscapeBack ==
  ASSUME NEW t, Len(t) \in Nat, NEW q \in Places(t), NEW b \in Byte,
         NEW m \in 1..Len(Escape(b)), Runs(t, q, Escape(b), m)
  PROVE  /\ m = Len(Escape(b)) => Chars(t)[q] = Put(<<b>>, Chars(t)[q + m])
         /\ m < Len(Escape(b)) /\ Breaks(t, q + m) => Chars(t)[q] = Null
<1>1. CASE \E e \in Letters : Meaning(e) = b /\ Escape(b) = <<Backslash, e>>
  <2>1. PICK e \in Letters : Meaning(e) = b /\ Escape(b) = <<Backslash, e>>
    BY <1>1
  <2>2. Len(<<Backslash, e>>) = 2
    OBVIOUS
  <2>3. m \in 1..2 /\ Runs(t, q, <<Backslash, e>>, m)
    BY <2>1, <2>2
  <2> QED BY <2>1, <2>2, <2>3, LetterBack
<1>2. CASE /\ b < 32
           /\ Escape(b) = <<Backslash, LetterU, 48, 48, HexChar(b \div 16), HexChar(b % 16)>>
  <2> DEFINE s == <<Backslash, LetterU, 48, 48, HexChar(b \div 16), HexChar(b % 16)>>
  <2>1. Len(s) = 6
    OBVIOUS
  <2>2. m \in 1..6 /\ Runs(t, q, s, m)
    BY <1>2, <2>1
  <2>3. /\ m = 6 => Chars(t)[q] = Put(<<b>>, Chars(t)[q + 6])
        /\ m < 6 /\ Breaks(t, q + m) => Chars(t)[q] = Null
    BY <1>2, <2>2, UnicodeBack
  <2> QED BY <1>2, <2>1, <2>3
<1>3. CASE b \in Inked /\ b # Quote /\ b # Backslash /\ Escape(b) = <<b>>
  <2> DEFINE s == <<b>>
  <2>1. Len(s) = 1 /\ s[1] = b
    OBVIOUS
  <2> HIDE DEF s
  <2>2. m = 1 /\ Runs(t, q, s, 1)
    BY <1>3, <2>1 DEF s
  <2>3. q \in Nat /\ q \in 1..Len(t) /\ t[q] = b
    <3>1. 1 \in 1..1 /\ q \in Nat /\ q + 1 - 1 = q
      BY DEF Places
    <3>2. q + 1 - 1 \in 1..Len(t) /\ t[q + 1 - 1] = s[1]
      BY <2>2, <3>1, RunsTo
    <3> QED BY <2>1, <3>1, <3>2
  <2>4. CharAt(t, q, Chars(t)) = Put(<<b>>, Chars(t)[q + 1])
    BY <1>3, <2>3 DEF CharAt
  <2> QED BY <1>3, <2>1, <2>2, <2>4, CharsIs DEF s
<1> QED BY <1>1, <1>2, <1>3, EscapeIs

(* A string as it is printed, without its quotes.                          *)
RawText(s) == FlattenSeq([i \in 1..Len(s) |-> Escape(s[i])])

LEMMA RawTextIs ==
  ASSUME NEW s \in Seq(Byte)
  PROVE  /\ RawText(<<>>) = <<>> /\ RawText(s) \in Seq(Inked)
         /\ \A b \in Byte : RawText(Append(s, b)) = RawText(s) \o Escape(b)
<1> DEFINE ss == [i \in 1..Len(s) |-> Escape(s[i])]
<1>1. Len(s) \in Nat /\ \A i \in 1..Len(s) : s[i] \in Byte
  BY SeqIs
<1>2. ss \in Seq(Seq(Inked)) /\ Len(ss) = Len(s)
  <2>1. \A i \in 1..Len(s) : Escape(s[i]) \in Seq(Inked)
    BY <1>1, EscapeType
  <2>2. ss = [i \in 1..Len(ss) |-> ss[i]] /\ Len(ss) = Len(s) /\ \A i \in 1..Len(s) : ss[i] = Escape(s[i])
    BY <1>1
  <2> HIDE DEF ss
  <2>3. \A i \in 1..Len(ss) : ss[i] \in Seq(Inked)
    BY <2>1, <2>2
  <2> QED BY <1>1, <2>2, <2>3, SeqBy
<1>3. RawText(s) = FlattenSeq(ss)
  BY DEF RawText
<1>4. RawText(s) \in Seq(Inked)
  BY <1>2, <1>3, FlattenType
<1>5. RawText(<<>>) = <<>>
  <2>1. [i \in 1..Len(<<>>) |-> Escape(<<>>[i])] = <<>>
    OBVIOUS
  <2> QED BY <2>1, FlattenEmpty DEF RawText
<1>6. ASSUME NEW b \in Byte PROVE RawText(Append(s, b)) = RawText(s) \o Escape(b)
  <2> DEFINE u == Append(s, b)
             uu == [i \in 1..Len(u) |-> Escape(u[i])]
             x == Escape(b)
  <2>1. Len(u) = Len(s) + 1 /\ u[Len(s) + 1] = b /\ \A i \in 1..Len(s) : u[i] = s[i]
    BY <1>1
  <2> HIDE DEF u
  <2>2. /\ Len(uu) = Len(s) + 1 /\ uu = [i \in 1..(Len(s) + 1) |-> uu[i]]
        /\ uu[Len(s) + 1] = x /\ \A i \in 1..Len(s) : uu[i] = ss[i]
    <3>1. \A i \in 1..Len(s) : ss[i] = Escape(s[i])
      OBVIOUS
    <3>2. Len(s) + 1 \in 1..Len(u) /\ \A i \in 1..Len(s) : i \in 1..Len(u)
      BY <1>1, <2>1
    <3>3. Len(uu) = Len(s) + 1
      BY <1>1, <2>1
    <3> QED BY <2>1, <3>1, <3>2, <3>3
  <2>3. x \in Seq(Inked)
    BY EscapeType
  <2> HIDE DEF x, uu, ss
  <2>4. Append(ss, x) = uu
    <3> DEFINE n == Len(s)
    <3>1. Append(ss, x) \in Seq(Seq(Inked)) /\ Len(Append(ss, x)) = n + 1
      BY <1>2, <2>3
    <3>2. Append(ss, x) = [i \in 1..(n + 1) |-> Append(ss, x)[i]]
      BY <3>1, SeqIs
    <3>3. \A i \in 1..(n + 1) : Append(ss, x)[i] = uu[i]
      <4> DEFINE S == Seq(Inked)
      <4>0. ss \in Seq(S) /\ x \in S /\ Len(ss) = n
        BY <1>2, <2>3
      <4> HIDE DEF S
      <4>1. \A i \in 1..n : Append(ss, x)[i] = ss[i]
        BY <4>0
      <4>2. Append(ss, x)[n + 1] = x
        BY <4>0
      <4>3. \A i \in 1..(n + 1) : i \in 1..n \/ i = n + 1
        BY <1>1
      <4> QED BY <2>2, <4>1, <4>2, <4>3
    <3> QED BY <2>2, <3>2, <3>3
  <2>5. FlattenSeq(Append(ss, x)) = FlattenSeq(ss) \o x
    BY <1>2, <2>3, FlattenAppend
  <2>6. RawText(u) = FlattenSeq(uu)
    BY DEF RawText, uu
  <2> QED BY <1>3, <2>4, <2>5, <2>6 DEF x, u
<1> QED BY <1>4, <1>5, <1>6

LEMMA PutTwice ==
  ASSUME NEW t, NEW p, NEW r, RawIs(t, p, r), NEW a \in Seq(Char), NEW b \in Seq(Char)
  PROVE  /\ Put(a, Put(b, r)) = Put(a \o b, r) /\ Put(<<>>, r) = r
         /\ Stuck(t, r) => Stuck(t, Put(a, r))
<1>1. CASE r = Null
  BY <1>1 DEF Put, Stuck
<1>2. CASE r # Null
  <2>1. PICK u \in Seq(Char), q \in Places(t) : r = Parsed(StringNode(u), q)
    BY <1>2 DEF RawIs
  <2>2. q # 0 /\ r.pos = q
    BY <2>1 DEF Places, Parsed
  <2>3. /\ Put(b, r) = Parsed(StringNode(b \o u), q) /\ Put(a, r) = Parsed(StringNode(a \o u), q)
        /\ Put(a \o b, r) = Parsed(StringNode((a \o b) \o u), q) /\ Put(<<>>, r) = Parsed(StringNode(<<>> \o u), q)
        /\ Put(a, Parsed(StringNode(b \o u), q)) = Parsed(StringNode(a \o (b \o u)), q)
    BY <2>1, <2>2, PutIs, ZenonT(40)
  <2>4. (a \o b) \o u = a \o (b \o u) /\ <<>> \o u = u
    BY <2>1
  <2>5. Put(a, r).pos = q
    BY <2>3 DEF Parsed
  <2>6. r = Parsed(StringNode(u), q)
    BY <2>1
  <2> QED BY <1>2, <2>2, <2>3, <2>4, <2>5, <2>6 DEF Stuck
<1> QED BY <1>1, <1>2

LEMMA ByteIsChar ==
  ASSUME NEW s \in Seq(Byte)
  PROVE  s \in Seq(Char)
<1>1. Len(s) \in Nat /\ s = [i \in 1..Len(s) |-> s[i]] /\ \A i \in 1..Len(s) : s[i] \in Byte
  BY SeqIs
<1> QED BY <1>1, BytesAre, SeqBy

(* What is read of a string from p on, when n bytes of it stand there.     *)
RawBack(t, s, p, n) ==
  Runs(t, p, RawText(s), n) =>
    /\ n = Len(RawText(s)) => Chars(t)[p] = Put(s, Chars(t)[p + n])
    /\ n < Len(RawText(s)) /\ Joint(t, p + n) => Stuck(t, Chars(t)[p])

LEMMA RawBackNext ==
  ASSUME NEW t \in Seq(Byte), NEW s \in Seq(Byte), NEW b \in Byte, NEW p \in Places(t),
         \A n \in 0..Len(RawText(s)) : RawBack(t, s, p, n),
         NEW n \in 0..Len(RawText(Append(s, b)))
  PROVE  RawBack(t, Append(s, b), p, n)
<1> DEFINE u == Append(s, b)
           x == Escape(b)
           y == RawText(s)
           f == Chars(t)
<1>1. RawText(u) = y \o x /\ y \in Seq(Inked)
  BY RawTextIs
<1>2. x \in Seq(Inked) /\ Len(x) \in Nat \ {0}
  BY EscapeType
<1>3. u \in Seq(Byte) /\ u = s \o <<b>> /\ <<b>> \in Seq(Byte)
  OBVIOUS
<1>4. Len(t) \in Nat /\ p \in Nat
  BY SeqIs DEF Places
<1>5. s \in Seq(Char) /\ <<b>> \in Seq(Char)
  BY <1>3, ByteIsChar
<1> HIDE DEF u
<1> SUFFICES ASSUME Runs(t, p, RawText(u), n)
             PROVE  /\ n = Len(RawText(u)) => f[p] = Put(u, f[p + n])
                    /\ n < Len(RawText(u)) /\ Joint(t, p + n) => Stuck(t, f[p])
  BY DEF RawBack, u
<1> HIDE DEF x, y, f
<1>6. n \in 0..Len(y \o x) /\ Runs(t, p, y \o x, n) /\ Len(y) \in Nat /\ Len(y \o x) = Len(y) + Len(x)
  BY <1>1, <1>2 DEF u
<1>7. /\ n <= Len(y) => Runs(t, p, y, n)
      /\ n >= Len(y) => /\ Runs(t, p, y, Len(y)) /\ Runs(t, p + Len(y), x, n - Len(y))
                        /\ n - Len(y) \in 0..Len(x)
  BY <1>1, <1>2, <1>4, <1>6, RunsParts
<1>8. CASE n < Len(y)
  <2>1. n \in 0..Len(y) /\ Runs(t, p, y, n) /\ n # Len(RawText(u))
    BY <1>1, <1>2, <1>6, <1>7, <1>8
  <2>2. RawBack(t, s, p, n)
    BY <2>1 DEF y
  <2>3. Joint(t, p + n) => Stuck(t, f[p])
    BY <1>8, <2>1, <2>2 DEF RawBack, y, f
  <2> QED BY <2>1, <2>3
<1>9. CASE n >= Len(y)
  <2> DEFINE q == p + Len(y)
             m == n - Len(y)
  <2>1. Runs(t, p, y, Len(y)) /\ Runs(t, q, x, m) /\ m \in 0..Len(x) /\ q + m = p + n
    BY <1>4, <1>6, <1>7, <1>9
  <2>2. f[p] = Put(s, f[q])
    <3>1. RawBack(t, s, p, Len(y))
      BY <1>6 DEF y
    <3> QED BY <2>1, <3>1 DEF RawBack, y, f
  <2>3. q \in Places(t)
    BY <1>4, <1>6, <2>1, RunsTo
  <2>4. \A z \in Places(t) : RawIs(t, z, f[z])
    BY CharsType DEF f
  <2> HIDE DEF q, m
  <2>5. CASE m = Len(x)
    <3>1. f[q] = Put(<<b>>, f[q + m])
      <4>1. m \in 1..Len(x)
        BY <1>2, <2>1, <2>5
      <4> QED BY <1>4, <2>1, <2>3, <2>5, <4>1, EscapeBack DEF x, f
    <3>2. q + m \in Places(t)
      BY <1>2, <1>4, <2>1, <2>3, <2>5, RunsTo
    <3>3. Put(s, Put(<<b>>, f[q + m])) = Put(s \o <<b>>, f[q + m])
      BY <1>5, <2>4, <3>2, PutTwice
    <3>4. n = Len(RawText(u))
      BY <1>1, <1>2, <1>6, <2>5 DEF m
    <3> QED BY <1>3, <2>1, <2>2, <3>1, <3>3, <3>4
  <2>6. CASE m < Len(x)
    <3> SUFFICES ASSUME Joint(t, p + n) PROVE Stuck(t, f[p])
      BY <1>1, <1>2, <1>6, <2>6 DEF m
    <3>1. Stuck(t, f[q])
      <4>1. CASE m = 0
        <5>1. q = p + n
          BY <1>4, <1>6, <4>1 DEF q, m
        <5> QED BY <5>1 DEF Joint, f
      <4>2. CASE m # 0
        <5>1. m \in 1..Len(x) /\ Breaks(t, q + m)
          BY <2>1, <4>2 DEF Joint
        <5>2. f[q] = Null
          BY <1>4, <2>1, <2>3, <2>6, <5>1, EscapeBack DEF x, f
        <5> QED BY <5>2 DEF Stuck
      <4> QED BY <4>1, <4>2
    <3> QED BY <1>5, <2>2, <2>3, <2>4, <3>1, PutTwice
  <2>7. m \in Nat /\ Len(x) \in Nat /\ m <= Len(x)
    BY <1>2, <2>1
  <2> QED BY <2>5, <2>6, <2>7
<1>10. n < Len(y) \/ n >= Len(y)
  BY <1>6
<1> QED BY <1>8, <1>9, <1>10

LEMMA CharsBack ==
  ASSUME NEW t \in Seq(Byte), NEW s \in Seq(Byte), NEW p \in Places(t), NEW n \in 0..Len(RawText(s))
  PROVE  RawBack(t, s, p, n)
<1> DEFINE G == {u \in Seq(Byte) : \A m \in 0..Len(RawText(u)) : RawBack(t, u, p, m)}
<1>1. <<>> \in G
  <2> DEFINE e == <<>>
  <2>1. e \in Seq(Byte) /\ RawText(e) = <<>> /\ Len(<<>>) = 0
    BY RawTextIs
  <2>2. p + 0 = p
    BY DEF Places
  <2>3. RawIs(t, p, Chars(t)[p])
    BY CharsType
  <2>4. e \in Seq(Char)
    OBVIOUS
  <2>5. Put(<<>>, Chars(t)[p]) = Chars(t)[p]
    BY <2>3, <2>4, PutTwice
  <2>6. Chars(t)[p] = Put(e, Chars(t)[p + 0])
    BY <2>2, <2>5
  <2> HIDE DEF e
  <2>7. ASSUME NEW m \in 0..Len(RawText(e)) PROVE RawBack(t, e, p, m)
    <3>1. m = 0 /\ Len(RawText(e)) = 0
      BY <2>1
    <3> QED BY <2>6, <3>1 DEF RawBack
  <2> QED BY <2>1, <2>7 DEF e
<1>2. ASSUME NEW u \in Seq(Byte), u \in G, NEW b \in Byte PROVE Append(u, b) \in G
  <2>1. Append(u, b) \in Seq(Byte)
    OBVIOUS
  <2>2. \A m \in 0..Len(RawText(Append(u, b))) : RawBack(t, Append(u, b), p, m)
    BY <1>2, RawBackNext
  <2> QED BY <2>1, <2>2
<1>3. \A u \in Seq(Byte) : u \in G
  <2> HIDE DEF G
  <2> QED BY <1>1, <1>2, SeqInduction
<1> QED BY <1>3

(* A string is read back as it was; one that breaks off ends at a dead end *)
(* if it ends at all.                                                      *)
LEMMA StringBack ==
  ASSUME NEW t \in Seq(Byte), NEW s \in Seq(Byte), NEW p \in Places(t),
         NEW n \in 0..Len(PrintString(s)), Runs(t, p, PrintString(s), n)
  PROVE  /\ n = Len(PrintString(s)) => ParseString(t, p) = Parsed(StringNode(s), p + n)
         /\ n < Len(PrintString(s)) /\ Joint(t, p + n) => Stuck(t, ParseString(t, p))
<1> DEFINE y == RawText(s)
           f == Chars(t)
           a == <<Quote>>
           b == <<Quote>> \o y
<1>0. Len(t) \in Nat /\ p \in Nat /\ Quote \in Inked
  BY SeqIs, InkIs DEF Places, Quote
<1>1. y \in Seq(Inked)
  BY RawTextIs
<1>2. PrintString(s) = (a \o y) \o a
  BY DEF PrintString, RawText
<1> HIDE DEF y, f
<1>3. /\ a \in Seq(Inked) /\ b \in Seq(Inked) /\ Len(a) = 1 /\ a[1] = Quote /\ Len(b) = Len(y) + 1
      /\ Len(y) \in Nat /\ Len(b \o a) = Len(y) + 2 /\ PrintString(s) = b \o a
  BY <1>0, <1>1, <1>2
<1> HIDE DEF a
<1>4. n \in 0..Len(b \o a) /\ Runs(t, p, b \o a, n)
  BY <1>3
<1>5. /\ n <= Len(b) => Runs(t, p, b, n)
      /\ n >= Len(b) => /\ Runs(t, p, b, Len(b)) /\ Runs(t, p + Len(b), a, n - Len(b))
                        /\ n - Len(b) \in 0..Len(a)
  <2> HIDE DEF b
  <2> QED BY <1>0, <1>3, <1>4, RunsParts
<1>6. CASE n = 0
  <2>1. p + n = p
    BY <1>0, <1>6
  <2>2. Joint(t, p) => ~At(t, p, Quote)
    BY <1>0 DEF Joint, Breaks, At, Quote
  <2>3. Joint(t, p) => ParseString(t, p) = Null
    BY <2>2 DEF ParseString
  <2>4. n # Len(PrintString(s))
    BY <1>3, <1>6
  <2> QED BY <2>1, <2>3, <2>4 DEF Stuck
<1>7. CASE n # 0
  <2> DEFINE k == IF n <= Len(b) THEN n ELSE Len(b)
  <2>1. k \in 1..Len(b) /\ Runs(t, p, b, k) /\ k <= n
    <3>1. n \in Nat /\ Len(b) \in Nat /\ Len(b) >= 1
      BY <1>3
    <3>2. n <= Len(b) \/ n >= Len(b)
      BY <3>1
    <3> QED BY <1>5, <1>7, <3>1, <3>2
  <2>2. Runs(t, p, a, 1) /\ Runs(t, p + 1, y, k - 1) /\ k - 1 \in 0..Len(y)
    <3>1. k \in 0..Len(a \o y) /\ Runs(t, p, a \o y, k) /\ k >= Len(a)
      BY <1>3, <2>1 DEF a
    <3> HIDE DEF b, k
    <3> QED BY <1>0, <1>1, <1>3, <3>1, RunsParts
  <2> HIDE DEF b, k
  <2>3. p \in 1..Len(t) /\ At(t, p, Quote) /\ p + 1 \in Places(t)
    <3>1. 1 \in 1..1 /\ p + 1 - 1 = p
      BY <1>0
    <3>2. /\ p + 1 \in Places(t)
          /\ \A i \in 1..1 : p + i - 1 \in 1..Len(t) /\ t[p + i - 1] = a[i]
      BY <1>0, <2>2, RunsTo
    <3>3. p \in 1..Len(t) /\ t[p] = Quote
      BY <1>3, <3>1, <3>2
    <3> QED BY <3>2, <3>3 DEF At
  <2> DEFINE r == f[p + 1]
  <2>4. RawIs(t, p + 1, r)
    BY <2>3, CharsType DEF f
  <2>5. RawBack(t, s, p + 1, k - 1)
    BY <2>2, <2>3, CharsBack DEF y
  <2>6. /\ k - 1 = Len(y) => r = Put(s, f[(p + 1) + (k - 1)])
        /\ k - 1 < Len(y) /\ Joint(t, (p + 1) + (k - 1)) => Stuck(t, r)
    BY <2>2, <2>5 DEF RawBack, y, f
  <2>7. (p + 1) + (k - 1) = p + k
    BY <1>0, <2>1
  <2>8. p + k \in Places(t)
    BY <1>0, <2>1, RunsTo
  <2>9. ParseString(t, p) = IF r = Null THEN Null ELSE [r EXCEPT !.node.str = CString(@)]
    BY <2>3 DEF ParseString, f
  <2>10. s \in Seq(Char) /\ CString(s) = s
    BY ByteIsChar, CStringIs
  <2> HIDE DEF r
  <2>11. CASE n <= Len(b)
    <3>1. k = n
      BY <2>11 DEF k
    <3> SUFFICES ASSUME Joint(t, p + n) PROVE Stuck(t, ParseString(t, p))
      BY <1>3, <2>11
    <3>2. Stuck(t, r)
      <4>1. CASE k - 1 < Len(y)
        BY <2>6, <2>7, <3>1, <4>1
      <4>2. CASE k - 1 = Len(y)
        <5>1. r = Put(s, f[p + n]) /\ RawIs(t, p + n, f[p + n]) /\ Stuck(t, f[p + n])
          BY <2>6, <2>7, <2>8, <3>1, <4>2, CharsType DEF Joint, f
        <5> QED BY <2>10, <5>1, PutTwice
      <4> QED BY <1>3, <2>2, <4>1, <4>2
    <3>3. CASE r = Null
      BY <2>9, <3>3 DEF Stuck
    <3>4. CASE r # Null
      <4>1. [r EXCEPT !.node.str = CString(@)].pos = r.pos
        <5>1. PICK u \in Seq(Char), q \in Places(t) : r = Parsed(StringNode(u), q)
          BY <2>4, <3>4 DEF RawIs
        <5> QED BY <5>1 DEF Parsed, StringNode, Node
      <4> QED BY <2>9, <3>2, <3>4, <4>1 DEF Stuck
    <3> QED BY <3>3, <3>4
  <2>12. CASE n > Len(b)
    <3>1. k = Len(b) /\ n = Len(b) + 1 /\ Runs(t, p + Len(b), a, 1) /\ k - 1 = Len(y)
      <4>1. Len(b) \in Nat /\ n \in Nat /\ Len(b \o a) = Len(b) + 1 /\ n <= Len(b \o a)
        BY <1>3, <1>4
      <4>2. n = Len(b) + 1 /\ n - Len(b) = 1
        BY <2>12, <4>1
      <4>3. k = Len(b)
        BY <2>12, <4>1 DEF k
      <4>4. k - 1 = Len(y)
        BY <1>3, <4>3
      <4> QED BY <1>5, <2>12, <4>1, <4>2, <4>3, <4>4
    <3> DEFINE q == p + Len(b)
    <3>2. q \in Places(t) /\ q \in 1..Len(t) /\ t[q] = Quote /\ q + 1 = p + n
      <4>1. q \in Places(t) /\ 1 \in 1..1 /\ q + 1 - 1 = q /\ q \in Nat
        BY <1>0, <1>3, <2>8, <3>1
      <4>2. \A i \in 1..1 : q + i - 1 \in 1..Len(t) /\ t[q + i - 1] = a[i]
        <5> HIDE DEF q
        <5>1. Runs(t, q, a, 1)
          BY <3>1 DEF q
        <5> QED BY <1>0, <4>1, <5>1, RunsTo
      <4>3. q \in 1..Len(t) /\ t[q] = Quote
        <5> HIDE DEF q
        <5> QED BY <1>3, <4>1, <4>2
      <4>4. q + 1 = p + n
        BY <1>0, <1>3, <3>1
      <4> QED BY <4>1, <4>3, <4>4
    <3> HIDE DEF q
    <3>3. f[q] = Parsed(StringNode(<<>>), p + n)
      <4>1. f[q] = CharAt(t, q, f)
        BY <1>0, <3>2, CharsIs DEF f
      <4>2. CharAt(t, q, f) = Parsed(Node("string"), q + 1)
        BY <3>2 DEF CharAt
      <4>3. Node("string") = StringNode(<<>>)
        BY DEF StringNode, Node
      <4> QED BY <3>2, <4>1, <4>2, <4>3
    <3>4. p + n # 0
      BY <1>0, <1>7
    <3>5. r = Parsed(StringNode(s), p + n)
      <4>1. r = Put(s, f[q])
        BY <2>6, <2>7, <3>1 DEF q
      <4> DEFINE e == <<>>
      <4>2. s \o e = s /\ f[q] = Parsed(StringNode(e), p + n)
        BY <3>3
      <4> HIDE DEF e
      <4>3. Put(s, Parsed(StringNode(e), p + n)) = Parsed(StringNode(s \o e), p + n)
        BY <3>4, PutIs
      <4> QED BY <4>1, <4>2, <4>3
    <3>6. r # Null
      BY <3>4, <3>5, NullIs
    <3>7. ParseString(t, p) = Parsed(StringNode(s), p + n)
      <4>1. r.node.str = s
        BY <3>5 DEF Parsed, StringNode, Node
      <4>2. ParseString(t, p) = [Parsed(StringNode(s), p + n) EXCEPT !.node.str = s]
        BY <2>9, <2>10, <3>5, <3>6, <4>1
      <4> QED BY <4>2 DEF Parsed, StringNode, Node
    <3>8. n = Len(PrintString(s))
      BY <1>3, <3>1
    <3> QED BY <3>7, <3>8
  <2>13. n <= Len(b) \/ n > Len(b)
    BY <1>3
  <2> QED BY <2>11, <2>12, <2>13
<1> QED BY <1>6, <1>7

LEMMA SeqSame ==
  ASSUME NEW S, NEW T, NEW a \in Seq(S), NEW b \in Seq(T), Len(a) = Len(b), \A i \in 1..Len(a) : a[i] = b[i]
  PROVE  a = b
<1>1. a = [i \in 1..Len(a) |-> a[i]] /\ b = [i \in 1..Len(b) |-> b[i]]
  BY SeqIs
<1> QED BY <1>1

(* A run of bytes of one kind, and what follows is not of it.              *)
LEMMA KindBack ==
  ASSUME NEW t \in Seq(Byte), NEW X, NEW d \in Seq(X), NEW p \in Places(t), Runs(t, p, d, Len(d)),
         p + Len(d) > Len(t) \/ t[p + Len(d)] \notin X
  PROVE  Behind(t, p, X) = p + Len(d) /\ SubSeq(t, p, Behind(t, p, X) - 1) = d
<1> DEFINE n == Len(d)
           e == p + n
<1>1. Len(t) \in Nat /\ p \in Nat /\ p >= 1 /\ n \in Nat /\ \A i \in 1..n : d[i] \in X
  BY SeqIs DEF Places
<1>2. e \in Places(t) /\ \A i \in 1..n : t[p + i - 1] = d[i]
  BY <1>1, RunsTo
<1>3. \A j \in p..(e - 1) : t[j] = d[j - p + 1] /\ t[j] \in X
  <2> SUFFICES ASSUME NEW j \in p..(e - 1) PROVE t[j] = d[j - p + 1] /\ t[j] \in X
    OBVIOUS
  <2> DEFINE i == j - p + 1
  <2>1. i \in 1..n /\ p + i - 1 = j
    BY <1>1
  <2> HIDE DEF i
  <2>2. t[j] = d[i] /\ d[i] \in X
    BY <1>1, <1>2, <2>1
  <2> QED BY <2>2 DEF i
<1>4. e \in p..(Len(t) + 1)
  BY <1>1, <1>2 DEF Places
<1> HIDE DEF e
<1>5. Behind(t, p, X) = e
  <2>1. e <= Len(t) => t[e] \notin X
    BY <1>1, <1>4 DEF e
  <2> QED BY <1>1, <1>3, <1>4, <2>1, BehindAt
<1>6. /\ SubSeq(t, p, e - 1) \in Seq(X) /\ Len(SubSeq(t, p, e - 1)) = e - p
      /\ \A i \in 1..(e - p) : SubSeq(t, p, e - 1)[i] = t[p + i - 1]
  <2>1. p <= e /\ e <= Len(t) + 1 /\ e \in Nat
    BY <1>1, <1>4
  <2>2. \A i \in p..(e - 1) : t[i] \in X
    BY <1>3
  <2> QED BY <1>1, <2>1, <2>2, SliceOf
<1>7. e - p = n
  BY <1>1 DEF e
<1> DEFINE u == SubSeq(t, p, e - 1)
<1> HIDE DEF u, n
<1>8. u \in Seq(X) /\ Len(u) = n /\ \A i \in 1..n : u[i] = d[i]
  BY <1>2, <1>6, <1>7 DEF u, n
<1>9. u = d
  BY <1>8, SeqSame DEF n
<1>10. Behind(t, p, X) = p + Len(d)
  BY <1>5 DEF e, n
<1>11. SubSeq(t, p, e - 1) = d
  BY <1>9 DEF u
<1>12. SubSeq(t, p, Behind(t, p, X) - 1) = d
  BY <1>5, <1>11, Zenon
<1> QED BY <1>10, <1>12

Follows(t, q) == q > Len(t) \/ t[q] \notin Numeric

LEMMA BreakFollows ==
  ASSUME NEW t, Len(t) \in Nat, NEW q, Breaks(t, q)
  PROVE  Follows(t, q) /\ DeadEnd(t, q)
<1>1. 123 \notin Numeric
  BY DEF Numeric, Numeral
<1> QED BY <1>1 DEF Breaks, Follows, DeadEnd

NumberNode(num) == [type |-> "number", key |-> <<>>, str |-> <<>>, num |-> num, kids |-> <<>>, deep |-> 0]

(* A number is read back; one that breaks off is a number that ends there. *)
LEMMA NumberBack ==
  ASSUME NEW t \in Seq(Byte), NEW num \in Int, Len(Decimal(num)) < 64, NEW p \in Places(t),
         NEW n \in 1..Len(Decimal(num)), Runs(t, p, Decimal(num), n), Follows(t, p + n)
  PROVE  /\ p \in 1..Len(t) /\ t[p] \in Signed
         /\ n = Len(Decimal(num)) => ParseNumber(t, p) = Parsed(NumberNode(num), p + n)
         /\ Breaks(t, p + n) => Stuck(t, ParseNumber(t, p))
<1> DEFINE s == Decimal(num)
           d == SubSeq(s, 1, n)
           digits == Digits(IF num < 0 THEN -num ELSE num)
           e == p + n
<1>1. Len(t) \in Nat /\ p \in Nat /\ p >= 1
  BY SeqIs DEF Places
<1>2. /\ s \in Seq(Numeric) /\ s # <<>> /\ Len(s) \in Nat
      /\ digits \in Seq(Numeral) /\ digits # <<>>
      /\ DigitsValue(digits) = (IF num < 0 THEN -num ELSE num)
      /\ num >= 0 => s = digits
      /\ num < 0 => s = <<45>> \o digits
  <2> DEFINE m == IF num < 0 THEN -num ELSE num
  <2>1. m \in Nat /\ (num >= 0 => m = num) /\ (num < 0 => m = -num)
    OBVIOUS
  <2>2. digits = Digits(m)
    OBVIOUS
  <2> HIDE DEF m, digits
  <2>3. digits \in Seq(Numeral) /\ digits # <<>> /\ DigitsValue(digits) = m
    BY <2>1, <2>2, DigitsBack
  <2>4. s \in Seq(Numeric) /\ s # <<>> /\ Len(s) \in Nat
    BY DecimalIs
  <2>5. num >= 0 => s = digits
    BY <2>1, <2>2, DecimalIs
  <2>6. num < 0 => s = <<45>> \o digits
    BY <2>1, <2>2, DecimalIs
  <2>7. DigitsValue(digits) = (IF num < 0 THEN -num ELSE num)
    BY <2>3 DEF m
  <2> QED BY <2>3, <2>4, <2>5, <2>6, <2>7
<1> HIDE DEF s, digits
<1>3. d \in Seq(Numeric) /\ Len(d) = n /\ \A i \in 1..n : d[i] = s[i]
  <2>1. n \in 0..Len(s)
    BY DEF s
  <2> QED BY <1>2, <2>1, PrefixOf
<1>4. /\ e \in Places(t)
      /\ \A i \in 1..n : p + i - 1 \in 1..Len(t) /\ t[p + i - 1] = s[i]
  BY <1>1, RunsTo DEF s
<1> HIDE DEF d
<1>5. Behind(t, p, Numeric) = e
  <2>1. Runs(t, p, d, n)
    BY <1>3 DEF Runs, s
  <2>2. p + Len(d) > Len(t) \/ t[p + Len(d)] \notin Numeric
    BY <1>3 DEF Follows
  <2>3. Behind(t, p, Numeric) = p + Len(d)
    BY <1>3, <2>1, <2>2, KindBack
  <2> QED BY <1>3, <2>3
<1>6. p \in 1..Len(t) /\ t[p] = s[1]
  <2>1. 1 \in 1..n /\ p + 1 - 1 = p
    BY <1>1
  <2> QED BY <1>4, <2>1
<1>7. num < 0 => s[1] = 45
  BY <1>2
<1>8. num >= 0 => s[1] \in Numeral /\ s[1] # 45
  <2>1. 1 \in 1..Len(digits)
    BY <1>2
  <2>2. digits[1] \in Numeral
    BY <1>2, <2>1, SeqIs
  <2> QED BY <1>2, <2>2, NumeralIs
<1>9. t[p] \in Signed
  BY <1>6, <1>7, <1>8 DEF Signed
<1> DEFINE first == IF t[p] = 45 THEN p + 1 ELSE p
           value == DigitsValue(SubSeq(t, first, Behind(t, first, Numeral) - 1))
           x == IF t[p] = 45 THEN -value ELSE value
<1>10. ParseNumber(t, p) = Parsed(NumberNode(x), e)
  <2>1. e - p < 64
    <3>1. e - p = n /\ n < 64
      BY <1>1, <1>2 DEF s
    <3> QED BY <3>1
  <2>2. ParseNumber(t, p) = IF e - p >= 64 THEN Null ELSE Parsed(NumberNode(x), e)
    BY <1>5, NumberIs DEF NumberNode
  <2>3. e - p \in Int
    BY <1>1
  <2> HIDE DEF e, x
  <2> QED BY <2>1, <2>2, <2>3
<1>11. Breaks(t, p + n) => Stuck(t, ParseNumber(t, p))
  <2>1. ParseNumber(t, p).pos = e
    BY <1>10 DEF Parsed
  <2> QED BY <1>1, <2>1, BreakFollows DEF Stuck
<1>12. ASSUME n = Len(s) PROVE x = num
  <2> DEFINE q == p + n - Len(digits)
  <2>1. /\ num < 0 => n = Len(digits) + 1
        /\ num >= 0 => n = Len(digits)
        /\ Len(digits) \in Nat
    BY <1>2, <1>12
  <2>2. first = q
    BY <1>1, <1>6, <1>7, <1>8, <2>1
  <2>3. q \in Places(t) /\ q + Len(digits) = e /\ q \in Nat
    BY <1>1, <1>4, <2>1 DEF Places
  <2>4. Runs(t, q, digits, Len(digits))
    <3>1. ASSUME NEW i \in 1..Len(digits) PROVE At(t, q + i - 1, digits[i])
      <4>1. CASE num < 0
        <5>1. q = p + 1 /\ i + 1 \in 1..n /\ p + (i + 1) - 1 = q + i - 1
          BY <1>1, <2>1, <4>1
        <5>2. s[i + 1] = digits[i]
          BY <1>2, <4>1
        <5>3. q + i - 1 \in 1..Len(t) /\ t[q + i - 1] = s[i + 1]
          <6> HIDE DEF q
          <6> QED BY <1>4, <5>1
        <5> QED BY <5>2, <5>3 DEF At
      <4>2. CASE num >= 0
        <5>1. q = p /\ i \in 1..n
          BY <1>1, <2>1, <4>2
        <5>2. s[i] = digits[i]
          BY <1>2, <4>2
        <5>3. q + i - 1 \in 1..Len(t) /\ t[q + i - 1] = s[i]
          <6> HIDE DEF q
          <6> QED BY <1>4, <5>1
        <5> QED BY <5>2, <5>3 DEF At
      <4> QED BY <4>1, <4>2
    <3> QED BY <3>1 DEF Runs
  <2>5. q + Len(digits) > Len(t) \/ t[q + Len(digits)] \notin Numeral
    BY <2>3 DEF Follows, Numeric
  <2> HIDE DEF q, first
  <2>6. SubSeq(t, q, Behind(t, q, Numeral) - 1) = digits
    BY <1>2, <2>3, <2>4, <2>5, KindBack
  <2>7. value = IF num < 0 THEN -num ELSE num
    <3>1. SubSeq(t, q, Behind(t, q, Numeral) - 1) = digits
      BY <2>6
    <3>2. value = DigitsValue(SubSeq(t, q, Behind(t, q, Numeral) - 1))
      BY <2>2
    <3> HIDE DEF value
    <3> QED BY <1>2, <3>1, <3>2
  <2>8. t[p] = 45 <=> num < 0
    BY <1>6, <1>7, <1>8
  <2> HIDE DEF value
  <2> QED BY <2>7, <2>8
<1> QED BY <1>6, <1>9, <1>10, <1>11, <1>12 DEF s

LEMMA LiteralBytes ==
  ASSUME NEW w \in DOMAIN Literals
  PROVE  /\ w \in {"true", "false", "null"}
         /\ w = "true" => Literals[w][1] = 116
         /\ w = "false" => Literals[w][1] = 102
         /\ w = "null" => Literals[w][1] = 110
         /\ \A i \in 1..Len(Literals[w]) : Literals[w][i] # 123
         /\ Len(Literals[w]) \in Nat /\ Len(Literals[w]) >= 1
<1>1. w \in {"true", "false", "null"}
  BY DEF Literals
<1> DEFINE l == Literals[w]
<1>2. ASSUME w = "true" PROVE l[1] = 116 /\ Len(l) = 4 /\ \A i \in 1..4 : l[i] # 123
  <2>1. l = <<116, 114, 117, 101>>
    BY <1>2 DEF Literals
  <2> HIDE DEF l
  <2>2. Len(l) = 4 /\ l[1] = 116 /\ l[2] = 114 /\ l[3] = 117 /\ l[4] = 101
    BY <2>1
  <2> QED BY <2>2
<1>3. ASSUME w = "false" PROVE l[1] = 102 /\ Len(l) = 5 /\ \A i \in 1..5 : l[i] # 123
  <2>1. l = <<102, 97, 108, 115, 101>>
    BY <1>3 DEF Literals
  <2> HIDE DEF l
  <2>2. Len(l) = 5 /\ l[1] = 102 /\ l[2] = 97 /\ l[3] = 108 /\ l[4] = 115 /\ l[5] = 101
    BY <2>1
  <2> QED BY <2>2
<1>4. ASSUME w = "null" PROVE l[1] = 110 /\ Len(l) = 4 /\ \A i \in 1..4 : l[i] # 123
  <2>1. l = <<110, 117, 108, 108>>
    BY <1>4 DEF Literals
  <2> HIDE DEF l
  <2>2. Len(l) = 4 /\ l[1] = 110 /\ l[2] = 117 /\ l[3] = 108 /\ l[4] = 108
    BY <2>1
  <2> QED BY <2>2
<1> HIDE DEF l
<1> QED
  <2>1. l = Literals[w]
    BY DEF l
  <2> QED BY <1>1, <1>2, <1>3, <1>4, <2>1

LEMMA LiteralBack ==
  ASSUME NEW t \in Seq(Byte), NEW w \in DOMAIN Literals, NEW p \in Places(t),
         NEW n \in 1..Len(Literals[w]), Runs(t, p, Literals[w], n)
  PROVE  /\ p \in 1..Len(t) /\ t[p] \notin Signed \cup {Quote, 123, 91} /\ t[p] \notin {9, 10, 13, 32}
         /\ n = Len(Literals[w]) => ParseLiteral(t, p) = Parsed(Node(w), p + n)
         /\ n < Len(Literals[w]) /\ Breaks(t, p + n) => ParseLiteral(t, p) = Null
<1>1. Len(t) \in Nat /\ p \in Nat
  BY SeqIs DEF Places
<1>2. \A i \in 1..n : p + i - 1 \in 1..Len(t) /\ t[p + i - 1] = Literals[w][i]
  BY <1>1, RunsTo
<1>3. p \in 1..Len(t) /\ t[p] = Literals[w][1]
  <2>1. 1 \in 1..n /\ p + 1 - 1 = p
    BY <1>1
  <2> QED BY <1>2, <2>1
<1>4. t[p] \in {116, 102, 110}
  BY <1>3, LiteralBytes
<1>5. t[p] \notin Signed \cup {Quote, 123, 91} /\ t[p] \notin {9, 10, 13, 32}
  <2>1. t[p] \notin Numeral
    BY <1>4, NumeralIs
  <2> QED BY <1>4, <2>1 DEF Signed, Quote
<1>6. ASSUME NEW z \in DOMAIN Literals, Has(t, p, Literals[z]) PROVE z = w
  <2>1. 1 \in 1..Len(Literals[z]) /\ p + 1 - 1 = p
    BY <1>1, LiteralBytes
  <2>2. At(t, p + 1 - 1, Literals[z][1])
    BY <1>6, <2>1 DEF Has
  <2>3. t[p] = Literals[z][1]
    BY <2>1, <2>2 DEF At
  <2> DEFINE a == Literals[w][1]
             b == Literals[z][1]
  <2>4. /\ w \in {"true", "false", "null"} /\ z \in {"true", "false", "null"}
        /\ w = "true" => a = 116
        /\ w = "false" => a = 102
        /\ w = "null" => a = 110
        /\ z = "true" => b = 116
        /\ z = "false" => b = 102
        /\ z = "null" => b = 110
    BY LiteralBytes
  <2>5. a = b
    BY <1>3, <2>3
  <2> HIDE DEF a, b
  <2> QED BY <2>4, <2>5
<1>7. ASSUME n = Len(Literals[w]) PROVE ParseLiteral(t, p) = Parsed(Node(w), p + n)
  <2>1. Has(t, p, Literals[w])
    BY <1>7 DEF Has, Runs
  <2>2. (CHOOSE z \in DOMAIN Literals : Has(t, p, Literals[z])) = w
    BY <1>6, <2>1
  <2> QED BY <1>7, <2>1, <2>2 DEF ParseLiteral
<1>8. ASSUME n < Len(Literals[w]), Breaks(t, p + n) PROVE ParseLiteral(t, p) = Null
  <2>1. ~Has(t, p, Literals[w])
    <3> SUFFICES ASSUME Has(t, p, Literals[w]) PROVE FALSE
      OBVIOUS
    <3>1. n + 1 \in 1..Len(Literals[w]) /\ p + (n + 1) - 1 = p + n
      BY <1>1, <1>8, LiteralBytes
    <3>2. At(t, p + (n + 1) - 1, Literals[w][n + 1])
      BY <3>1 DEF Has
    <3>3. p + n <= Len(t) /\ t[p + n] = Literals[w][n + 1]
      BY <3>1, <3>2 DEF At
    <3>4. t[p + n] = 123
      BY <1>1, <1>8, <3>3 DEF Breaks
    <3>5. Literals[w][n + 1] # 123
      BY <3>1, LiteralBytes
    <3> QED BY <3>3, <3>4, <3>5
  <2>2. ~ \E z \in DOMAIN Literals : Has(t, p, Literals[z])
    BY <1>6, <2>1
  <2> QED BY <2>2 DEF ParseLiteral
<1> QED BY <1>3, <1>5, <1>7, <1>8

-----------------------------------------------------------------------------
(* What is printed is read back, and what breaks off is not.               *)

Bare(v) == [v EXCEPT !.key = <<>>]

LEMMA BareIs ==
  ASSUME NEW v, Good(v)
  PROVE  /\ Bare(v) = [type |-> v.type, key |-> <<>>, str |-> v.str, num |-> v.num, kids |-> v.kids, deep |-> v.deep]
         /\ [Bare(v) EXCEPT !.key = v.key] = v
         /\ v.key = <<>> => Bare(v) = v
<1>1. v = [type |-> v.type, key |-> v.key, str |-> v.str, num |-> v.num, kids |-> v.kids, deep |-> v.deep]
  BY GoodIs DEF Tidy
<1> DEFINE e == <<>>
           a == v.type
           k == v.key
           b == v.str
           c == v.num
           d == v.kids
           g == v.deep
<1>2. v = [type |-> a, key |-> k, str |-> b, num |-> c, kids |-> d, deep |-> g]
  BY <1>1
<1> HIDE DEF a, k, b, c, d, g, e
<1>3. [v EXCEPT !.key = e] = [type |-> a, key |-> e, str |-> b, num |-> c, kids |-> d, deep |-> g]
  BY <1>2
<1>4. [[v EXCEPT !.key = e] EXCEPT !.key = k] = v
  <2> DEFINE y == [v EXCEPT !.key = e]
  <2>1. y = [type |-> a, key |-> e, str |-> b, num |-> c, kids |-> d, deep |-> g]
    BY <1>3
  <2> HIDE DEF y
  <2>2. [y EXCEPT !.key = k] = v
    BY <1>2, <2>1
  <2> QED BY <2>2 DEF y
<1>5. k = e => [v EXCEPT !.key = e] = v
  BY <1>2
<1> QED BY <1>3, <1>4, <1>5 DEF Bare, a, k, b, c, d, g, e

(* What a container is follows from what is in it.                         *)
LEMMA SameTree ==
  ASSUME NEW v, NEW w, Good(v), Good(w), v.type = w.type, v.type \notin {"string", "number"},
         v.key = w.key, v.kids = w.kids
  PROVE  v = w
<1>1. Tidy(v) /\ Tidy(w)
  BY GoodIs
<1>2. v.str = w.str /\ v.num = w.num
  BY <1>1 DEF Tidy
<1>3. v.deep = w.deep
  <2>1. CASE v.kids = <<>>
    BY <1>1, <2>1 DEF Tidy
  <2>2. CASE v.kids # <<>>
    <3> DEFINE k == v.kids
    <3>1. PICK i \in 1..Len(k) : v.deep = k[i].deep + 1
      BY <1>1, <2>2 DEF Tidy
    <3>2. PICK j \in 1..Len(k) : w.deep = k[j].deep + 1
      BY <1>1, <2>2 DEF Tidy
    <3>3. k[j].deep < v.deep /\ k[i].deep < w.deep /\ v.deep \in Nat /\ w.deep \in Nat
      BY <1>1 DEF Tidy
    <3>4. k[i].deep \in Nat /\ k[j].deep \in Nat
      BY GoodIs DEF Tidy
    <3> HIDE DEF k
    <3> QED BY <3>1, <3>2, <3>3, <3>4
  <2> QED BY <2>1, <2>2
<1>4. /\ v = [type |-> v.type, key |-> v.key, str |-> v.str, num |-> v.num, kids |-> v.kids, deep |-> v.deep]
      /\ w = [type |-> w.type, key |-> w.key, str |-> w.str, num |-> w.num, kids |-> w.kids, deep |-> w.deep]
  BY <1>1 DEF Tidy
<1> QED BY <1>2, <1>3, <1>4

Blank == {9, 10, 13, 32}

LEMMA SkipNone ==
  ASSUME NEW t, Len(t) \in Nat, NEW p \in Places(t), p > Len(t) \/ t[p] \notin Blank
  PROVE  SkipWs(t, p) = p
BY SkipWsIs DEF Blank

(* What stands at p decides, if it is no blank.                            *)
LEMMA ValueHere ==
  ASSUME NEW t, Len(t) \in Nat, NEW p \in 1..Len(t), NEW f, t[p] \notin Blank
  PROVE  /\ t[p] = Quote => ValueAt(t, p, f) = ParseString(t, p)
         /\ t[p] = 123 => ValueAt(t, p, f) = Container(t, p, "object", f)
         /\ t[p] = 91 => ValueAt(t, p, f) = Container(t, p, "array", f)
         /\ t[p] \in Signed => ValueAt(t, p, f) = ParseNumber(t, p)
         /\ t[p] \notin Signed \cup {Quote, 123, 91} => ValueAt(t, p, f) = ParseLiteral(t, p)
<1>1. p \in Places(t) /\ p <= Len(t)
  BY DEF Places
<1>2. SkipWs(t, p) = p
  BY <1>1, SkipNone
<1> QED BY <1>1, <1>2, ValueIs

(* How the first n bytes of a node's text are read at p.                   *)
Reread(t, x, p, n) ==
  LET text == cJSON_PrintUnformatted(x)
      r    == ValueAt(t, p, Items(t))
  IN  Runs(t, p, text, n) =>
        /\ n = Len(text) /\ Follows(t, p + n) => r = Parsed(Bare(x), p + n)
        /\ n < Len(text) /\ Joint(t, p + n) => Stuck(t, r)
        /\ n < Len(text) /\ n > 0 /\ Joint(t, p + n) /\ x.type \notin {"string", "number"} => r = Null

Rereads(t, x) == \A p \in Places(t), n \in 0..Len(cJSON_PrintUnformatted(x)) : Reread(t, x, p, n)

(* The first byte of a run.                                                *)
LEMMA RunsAt ==
  ASSUME NEW t, Len(t) \in Nat, NEW p \in Places(t), NEW s, NEW n \in Nat, n > 0, Runs(t, p, s, n)
  PROVE  p \in 1..Len(t) /\ t[p] = s[1]
<1>1. 1 \in 1..n /\ p + 1 - 1 = p
  BY DEF Places
<1> QED BY <1>1, RunsTo

LEMMA NothingYet ==
  ASSUME NEW t \in Seq(Byte), NEW p \in Places(t), Joint(t, p + 0)
  PROVE  Stuck(t, ValueAt(t, p, Items(t)))
<1>1. p + 0 = p
  BY DEF Places
<1> QED BY <1>1 DEF Joint

LEMMA PrintStringLong ==
  ASSUME NEW s \in Seq(Byte)
  PROVE  Len(PrintString(s)) \in Nat /\ Len(PrintString(s)) >= 2 /\ PrintString(s)[1] = Quote
<1> DEFINE r == RawText(s)
           q == Quote
<1>1. r \in Seq(Inked) /\ q \in Inked
  BY RawTextIs, InkIs, SMTT(40) DEF Quote
<1>2. PrintString(s) = <<q>> \o r \o <<q>>
  BY DEF RawText, PrintString
<1> HIDE DEF r, q
<1>3. LET u == <<q>> \o r \o <<q>> IN Len(u) \in Nat /\ Len(u) >= 2 /\ u[1] = q
  BY <1>1
<1> QED BY <1>2, <1>3 DEF q

LEMMA StringRereads ==
  ASSUME NEW t \in Seq(Byte), NEW x, Good(x), x.type = "string"
  PROVE  Rereads(t, x)
<1> DEFINE text == PrintString(x.str)
           f == Items(t)
<1>1. cJSON_PrintUnformatted(x) = text /\ x.str \in Seq(Byte)
  BY PrintOf, GoodIs DEF Tidy
<1>2. Len(t) \in Nat /\ Len(text) \in Nat
  BY <1>1, PrintStringType, SeqIs
<1>3. text[1] = Quote /\ Len(text) > 0
  BY <1>1, <1>2, PrintStringLong
<1>4. StringNode(x.str) = Bare(x)
  <2>1. x.num = 0 /\ x.kids = <<>> /\ x.deep = 0
    BY GoodIs DEF Tidy
  <2> QED BY <2>1, StringIs, BareIs
<1> HIDE DEF text
<1>5. ASSUME NEW p \in Places(t), NEW n \in 0..Len(text), Runs(t, p, text, n), n > 0
      PROVE  ValueAt(t, p, f) = ParseString(t, p)
  <2>1. p \in 1..Len(t) /\ t[p] = Quote
    BY <1>2, <1>3, <1>5, RunsAt
  <2>2. Quote \notin Blank
    BY DEF Quote, Blank
  <2> QED BY <1>2, <2>1, <2>2, ValueHere
<1>6. ASSUME NEW p \in Places(t), NEW n \in 0..Len(text) PROVE Reread(t, x, p, n)
  <2> SUFFICES ASSUME Runs(t, p, text, n)
               PROVE  /\ n = Len(text) => ValueAt(t, p, f) = Parsed(Bare(x), p + n)
                      /\ n < Len(text) /\ Joint(t, p + n) => Stuck(t, ValueAt(t, p, f))
    BY <1>1 DEF Reread
  <2>1. /\ n = Len(text) => ParseString(t, p) = Parsed(Bare(x), p + n)
        /\ n < Len(text) /\ Joint(t, p + n) => Stuck(t, ParseString(t, p))
    BY <1>1, <1>4, StringBack DEF text
  <2>2. CASE n > 0
    BY <1>5, <2>1, <2>2
  <2>3. CASE n = 0
    <3>1. n # Len(text)
      BY <1>2, <1>3, <2>3
    <3> QED BY <2>3, <3>1, NothingYet
  <2> QED BY <2>2, <2>3
<1> QED BY <1>1, <1>6 DEF Rereads

LEMMA NumberRereads ==
  ASSUME NEW t \in Seq(Byte), NEW x, Good(x), x.type = "number"
  PROVE  Rereads(t, x)
<1> DEFINE num == x.num
           text == Decimal(num)
           f == Items(t)
<1>1. cJSON_PrintUnformatted(x) = text /\ num \in Int /\ Len(text) < 64
  BY PrintOf, GoodIs DEF Tidy
<1>2. Len(t) \in Nat /\ Len(text) \in Nat /\ Len(text) > 0
  <2>1. text \in Seq(Numeric) /\ text # <<>>
    BY <1>1, DecimalIs
  <2> HIDE DEF text
  <2> QED BY <2>1, SeqIs
<1>4. NumberNode(num) = Bare(x)
  <2>1. x.str = <<>> /\ x.kids = <<>> /\ x.deep = 0
    BY GoodIs DEF Tidy
  <2> QED BY <2>1, BareIs DEF NumberNode
<1> HIDE DEF num, text
<1>6. ASSUME NEW p \in Places(t), NEW n \in 0..Len(text) PROVE Reread(t, x, p, n)
  <2> SUFFICES ASSUME Runs(t, p, text, n)
               PROVE  /\ n = Len(text) /\ Follows(t, p + n) => ValueAt(t, p, f) = Parsed(Bare(x), p + n)
                      /\ n < Len(text) /\ Joint(t, p + n) => Stuck(t, ValueAt(t, p, f))
    BY <1>1 DEF Reread
  <2>2. ASSUME n > 0, Follows(t, p + n)
        PROVE  /\ n = Len(text) => ValueAt(t, p, f) = Parsed(Bare(x), p + n)
               /\ Breaks(t, p + n) => Stuck(t, ValueAt(t, p, f))
    <3>1. n \in 1..Len(text)
      BY <2>2
    <3>2. /\ p \in 1..Len(t) /\ t[p] \in Signed
          /\ n = Len(text) => ParseNumber(t, p) = Parsed(Bare(x), p + n)
          /\ Breaks(t, p + n) => Stuck(t, ParseNumber(t, p))
      BY <1>1, <1>4, <2>2, <3>1, NumberBack DEF text
    <3>3. t[p] \notin Blank
      BY <3>2, NumeralIs DEF Signed, Blank
    <3>4. ValueAt(t, p, f) = ParseNumber(t, p)
      BY <1>2, <3>2, <3>3, ValueHere
    <3> QED BY <3>2, <3>4
  <2>3. ASSUME n > 0, Joint(t, p + n) PROVE Stuck(t, ValueAt(t, p, f))
    <3>1. Breaks(t, p + n)
      BY <2>3 DEF Joint
    <3>2. Follows(t, p + n)
      BY <1>2, <3>1, BreakFollows
    <3> QED BY <2>2, <2>3, <3>1, <3>2
  <2>4. CASE n > 0
    BY <2>2, <2>3, <2>4
  <2>5. CASE n = 0
    BY <1>2, <2>5, NothingYet
  <2> QED BY <2>4, <2>5
<1> QED BY <1>1, <1>6 DEF Rereads

LEMMA LiteralRereads ==
  ASSUME NEW t \in Seq(Byte), NEW x, Good(x), x.type \notin {"string", "number", "array", "object"}
  PROVE  Rereads(t, x)
<1> DEFINE w == x.type
           text == Literals[w]
           f == Items(t)
<1>1. cJSON_PrintUnformatted(x) = text /\ w \in DOMAIN Literals
  BY PrintOf
<1>2. Len(t) \in Nat /\ Len(text) \in Nat /\ Len(text) > 0
  BY <1>1, SeqIs, LiteralBytes
<1>3. w \in Kinds
  BY GoodIs DEF Tidy
<1>4. Node(w) = Bare(x)
  <2>1. x.str = <<>> /\ x.num = 0 /\ x.kids = <<>> /\ x.deep = 0
    BY GoodIs DEF Tidy
  <2> QED BY <2>1, BareIs DEF Node
<1> HIDE DEF w, text
<1>6. ASSUME NEW p \in Places(t), NEW n \in 0..Len(text) PROVE Reread(t, x, p, n)
  <2> SUFFICES ASSUME Runs(t, p, text, n)
               PROVE  /\ n = Len(text) => ValueAt(t, p, f) = Parsed(Bare(x), p + n)
                      /\ n < Len(text) /\ Joint(t, p + n) => Stuck(t, ValueAt(t, p, f))
                      /\ n < Len(text) /\ n > 0 /\ Joint(t, p + n) => ValueAt(t, p, f) = Null
    BY <1>1 DEF Reread
  <2>1. CASE n > 0
    <3>1. n \in 1..Len(text)
      BY <2>1
    <3>2. /\ p \in 1..Len(t) /\ t[p] \notin Signed \cup {Quote, 123, 91} /\ t[p] \notin Blank
          /\ n = Len(text) => ParseLiteral(t, p) = Parsed(Node(w), p + n)
          /\ n < Len(text) /\ Breaks(t, p + n) => ParseLiteral(t, p) = Null
      BY <1>1, <3>1, LiteralBack DEF Blank, text
    <3>3. ValueAt(t, p, f) = ParseLiteral(t, p)
      BY <1>2, <3>2, ValueHere
    <3> QED BY <1>4, <3>2, <3>3 DEF Joint, Stuck
  <2>2. CASE n = 0
    BY <1>2, <2>2, NothingYet
  <2> QED BY <2>1, <2>2
<1> QED BY <1>1, <1>6 DEF Rereads

(* No node's text starts with a blank or a closing bracket.                *)
LEMMA TextStarts ==
  ASSUME NEW x, Good(x)
  PROVE  LET text == cJSON_PrintUnformatted(x)
         IN  /\ text \in Seq(Byte) /\ Len(text) \in Nat /\ Len(text) >= 1
             /\ text[1] \notin Blank /\ text[1] \notin {93, 125}
<1> DEFINE text == cJSON_PrintUnformatted(x)
<1>0. Tidy(x) /\ text \in Seq(Inked)
  BY GoodIs, PrintType
<1>1. text \in Seq(Byte) /\ Len(text) \in Nat
  BY <1>0, InkedSeq, SeqIs
<1>2. ASSUME x.type = "string"
      PROVE  Len(text) >= 1 /\ text[1] \notin Blank /\ text[1] \notin {93, 125}
  <2>1. Len(text) >= 2 /\ text[1] = Quote
    BY <1>0, <1>2, PrintOf, PrintStringLong DEF Tidy
  <2> HIDE DEF text
  <2> QED BY <1>1, <2>1 DEF Quote, Blank
<1>3. ASSUME x.type = "number"
      PROVE  Len(text) >= 1 /\ text[1] \notin Blank /\ text[1] \notin {93, 125}
  <2> DEFINE m == x.num
             d == Digits(m)
             b == Digits(-m)
  <2>1. text = Decimal(m) /\ m \in Int
    BY <1>0, <1>3, PrintOf DEF Tidy
  <2>2. ASSUME m >= 0 PROVE text = d /\ d \in Seq(Numeral) /\ d # <<>>
    <3>1. text = d
      BY <2>1, <2>2, DecimalIs
    <3>2. m \in Nat
      <4> HIDE DEF m
      <4> QED BY <2>1, <2>2
    <3> QED BY <3>1, <3>2, DigitsBack
  <2>3. ASSUME m < 0 PROVE text = <<45>> \o b /\ b \in Seq(Numeral)
    <3>1. text = <<45>> \o b /\ -m \in Nat
      BY <2>1, <2>3, DecimalIs
    <3> QED BY <3>1, DigitsBack
  <2> HIDE DEF text, d, b
  <2>4. m >= 0 => Len(text) >= 1 /\ text[1] \in Numeral
    <3>1. ASSUME m >= 0 PROVE Len(d) >= 1 /\ d[1] \in Numeral
      <4>1. Len(d) \in Nat /\ Len(d) # 0
        BY <2>2, <3>1
      <4>2. 1 \in 1..Len(d)
        BY <4>1
      <4> QED BY <2>2, <3>1, <4>2, SeqIs
    <3> QED BY <2>2, <3>1
  <2>5. m < 0 => Len(text) >= 1 /\ text[1] = 45
    BY <2>3
  <2>6. ~(text[1] \in Numeral) \/ (text[1] \notin Blank /\ text[1] \notin {93, 125})
    BY NumeralIs DEF Blank
  <2>7. m >= 0 \/ m < 0
    BY <2>1
  <2> HIDE DEF m
  <2> QED BY <1>1, <2>4, <2>5, <2>6, <2>7 DEF Blank
<1>4. ASSUME x.type \in {"array", "object"}
      PROVE  Len(text) >= 1 /\ text[1] \notin Blank /\ text[1] \notin {93, 125}
  <2> DEFINE a == Opening[x.type]
             b == Closing[x.type]
             u == Listed(Pieces(x))
  <2>1. text = <<a>> \o u \o <<b>>
    BY <1>4, PrintOf
  <2>2. a \in {91, 123} /\ a \in Byte /\ b \in Byte
    BY <1>4, BytesAre DEF Opening, Closing
  <2>3. u \in Seq(Byte)
    <3>1. \A i \in 1..Len(x.kids) : cJSON_PrintUnformatted(x.kids[i]) \in Seq(Inked)
      BY GoodIs, PrintType
    <3>2. Pieces(x) \in Seq(Seq(Inked)) /\ Comma \in Inked
      BY <3>1, PiecesType, InkIs DEF Comma
    <3>3. PICK f : /\ u = f[Len(Pieces(x))]
                   /\ \A j \in 0..Len(Pieces(x)) : f[j] \in Seq(Inked)
      BY <3>2, ListedIs
    <3>4. Len(Pieces(x)) \in 0..Len(Pieces(x))
      BY <3>2, SeqIs
    <3> QED BY <3>3, <3>4, InkedSeq
  <2> HIDE DEF u, a, b
  <2>4. Len(<<a>> \o u \o <<b>>) >= 1 /\ (<<a>> \o u \o <<b>>)[1] = a
    BY <2>2, <2>3
  <2>5. Len(text) >= 1 /\ text[1] = a
    BY <2>1, <2>4
  <2> HIDE DEF text
  <2> QED BY <1>1, <2>2, <2>5 DEF Blank
<1>5. ASSUME x.type \notin {"string", "number", "array", "object"}
      PROVE  Len(text) >= 1 /\ text[1] \notin Blank /\ text[1] \notin {93, 125}
  <2>1. text = Literals[x.type] /\ x.type \in DOMAIN Literals
    BY <1>5, PrintOf
  <2> DEFINE w == x.type
             b == text[1]
  <2>2. /\ w \in {"true", "false", "null"} /\ Len(text) >= 1
        /\ w = "true" => b = 116
        /\ w = "false" => b = 102
        /\ w = "null" => b = 110
    BY <2>1, LiteralBytes
  <2> HIDE DEF w, b
  <2>3. b \notin Blank /\ b \notin {93, 125}
    BY <2>2 DEF Blank
  <2> QED BY <1>1, <2>2, <2>3 DEF b
<1> QED BY <1>1, <1>2, <1>3, <1>4, <1>5

(* Nothing goes on where a piece has broken off.                           *)
LEMMA RestNone ==
  ASSUME NEW t \in Seq(Byte), NEW e \in Places(t), DeadEnd(t, e), NEW f,
         NEW type \in {"array", "object"}, NEW item
  PROVE  Rest(t, type, item, e, f) = Null /\ ~At(t, SkipWs(t, e), Colon)
<1>1. Len(t) \in Nat /\ e \in Nat
  BY SeqIs DEF Places
<1>2. e > Len(t) \/ (t[e] \notin Blank /\ t[e] # Comma /\ t[e] # Colon /\ t[e] # Closing[type])
  BY <1>1 DEF DeadEnd, Blank, Comma, Colon, Closing
<1>3. SkipWs(t, e) = e
  BY <1>1, <1>2, SkipNone
<1>4. ~At(t, e, Comma) /\ ~At(t, e, Colon) /\ ~At(t, e, Closing[type])
  BY <1>1, <1>2 DEF At
<1> QED BY <1>3, <1>4 DEF Rest

LEMMA StuckRest ==
  ASSUME NEW t \in Seq(Byte), NEW p \in Places(t), Stuck(t, ValueAt(t, p, Items(t))),
         NEW type \in {"array", "object"}, NEW item
  PROVE  LET r == ValueAt(t, p, Items(t)) IN r = Null \/ Rest(t, type, item, r.pos, Items(t)) = Null
<1> DEFINE r == ValueAt(t, p, Items(t))
<1>1. Reads(t, p, r)
  <2>1. ItemsRead(t, p, Items(t))
    BY ItemsIs DEF ItemsRead
  <2> QED BY <2>1, ValueReads
<1>2. CASE r # Null
  <2>1. r.pos \in Places(t) /\ DeadEnd(t, r.pos)
    BY <1>1, <1>2, ReadsHas DEF Stuck
  <2> QED BY <2>1, RestNone
<1> QED BY <1>2

(* The text of an item of an array or an object.                           *)
Piece(type, v) ==
  IF type = "object" THEN PrintString(v.key) \o <<Colon>> \o cJSON_PrintUnformatted(v)
  ELSE cJSON_PrintUnformatted(v)

LEMMA ValueStuck ==
  ASSUME NEW t \in Seq(Byte), NEW y, Good(y), Rereads(t, y), NEW q \in Places(t),
         NEW n \in 0..Len(cJSON_PrintUnformatted(y)), Runs(t, q, cJSON_PrintUnformatted(y), n), Joint(t, q + n)
  PROVE  Stuck(t, ValueAt(t, q, Items(t)))
<1> DEFINE text == cJSON_PrintUnformatted(y)
           r == ValueAt(t, q, Items(t))
<1>1. Len(t) \in Nat /\ Len(text) \in Nat
  BY SeqIs, TextStarts
<1>2. /\ n = Len(text) /\ Follows(t, q + n) => r = Parsed(Bare(y), q + n)
      /\ n < Len(text) /\ Joint(t, q + n) => Stuck(t, r)
  BY DEF Rereads, Reread
<1>3. Follows(t, q + n) /\ DeadEnd(t, q + n)
  BY <1>1, BreakFollows DEF Joint
<1>4. r = Parsed(Bare(y), q + n) => Stuck(t, r)
  <2>1. Parsed(Bare(y), q + n).pos = q + n
    BY DEF Parsed
  <2> QED BY <1>3, <2>1 DEF Stuck
<1>5. n = Len(text) \/ n < Len(text)
  BY <1>1
<1> QED BY <1>2, <1>3, <1>4, <1>5

(* An item of an array.                                                    *)
LEMMA ElementBack ==
  ASSUME NEW t \in Seq(Byte), NEW y, Good(y), y.key = <<>>, Rereads(t, y), NEW q \in Places(t),
         NEW n \in 0..Len(Piece("array", y)), Runs(t, q, Piece("array", y), n)
  PROVE  /\ n = Len(Piece("array", y)) /\ Follows(t, q + n) =>
              ItemsAt(t, q, "array", Items(t)) = Rest(t, "array", y, q + n, Items(t))
         /\ Joint(t, q + n) => ItemsAt(t, q, "array", Items(t)) = Null
<1> DEFINE text == cJSON_PrintUnformatted(y)
           f == Items(t)
           r == ValueAt(t, q, f)
<1>1. Piece("array", y) = text
  BY DEF Piece
<1>2. Bare(y) = y
  BY BareIs
<1>3. ASSUME n = Len(text), Follows(t, q + n) PROVE ItemsAt(t, q, "array", f) = Rest(t, "array", y, q + n, f)
  <2>1. r = Parsed(y, q + n)
    BY <1>1, <1>2, <1>3 DEF Rereads, Reread
  <2>2. q + n # 0
    BY DEF Places
  <2>3. r # Null /\ r.node = y /\ r.pos = q + n
    BY <2>1, <2>2, NullIs
  <2> QED BY <2>3, ArrayItems
<1>4. ASSUME Joint(t, q + n) PROVE ItemsAt(t, q, "array", f) = Null
  <2>1. Stuck(t, r)
    BY <1>1, <1>4, ValueStuck
  <2>2. r = Null \/ Rest(t, "array", r.node, r.pos, f) = Null
    BY <2>1, StuckRest
  <2> QED BY <2>2, ArrayItems
<1> QED BY <1>1, <1>3, <1>4

(* The name of a member.                                                   *)
LEMMA NameBack ==
  ASSUME NEW t \in Seq(Byte), NEW s \in Seq(Byte), NEW q \in Places(t),
         NEW n \in 0..Len(PrintString(s)), Runs(t, q, PrintString(s), n)
  PROVE  LET name == ParseString(t, SkipWs(t, q))
         IN  /\ n = Len(PrintString(s)) => name # Null /\ name.node.str = s /\ name.pos = q + n
             /\ Joint(t, q + n) => name = Null \/ ~At(t, SkipWs(t, name.pos), Colon)
<1> DEFINE text == PrintString(s)
           name == ParseString(t, q)
<1>1. Len(t) \in Nat /\ Len(text) \in Nat /\ Len(text) >= 2 /\ text[1] = Quote
  BY SeqIs, PrintStringLong
<1>2. n = Len(text) => name = Parsed(StringNode(s), q + n)
  BY StringBack
<1>3. n < Len(text) /\ Joint(t, q + n) => Stuck(t, name)
  BY StringBack
<1> HIDE DEF text, name
<1>4. ASSUME n = Len(text) PROVE name # Null /\ name.node = StringNode(s) /\ name.node.str = s /\ name.pos = q + n
  <2>1. q + n # 0
    BY DEF Places, text
  <2>2. name # Null /\ name.node = StringNode(s) /\ name.pos = q + n
    BY <1>2, <1>4, <2>1, NullIs
  <2>3. StringNode(s).str = s
    BY StringIs
  <2> QED BY <2>2, <2>3
<1>5. ASSUME Joint(t, q + n) PROVE name = Null \/ ~At(t, SkipWs(t, name.pos), Colon)
  <2>1. DeadEnd(t, q + n)
    BY <1>1, <1>5, BreakFollows DEF Joint
  <2>2. name = Null \/ DeadEnd(t, name.pos)
    <3>1. n = Len(text) \/ n < Len(text)
      BY <1>1 DEF text
    <3> QED BY <1>3, <1>4, <1>5, <2>1, <3>1 DEF Stuck
  <2>3. name = Null \/ name.pos \in Places(t)
    <3>1. PICK u, z : name = Null \/ (name = Parsed(StringNode(u), z) /\ z \in Places(t))
      BY ParseStringType DEF name
    <3>2. name # Null => name.pos \in Places(t)
      BY <3>1 DEF Parsed
    <3> QED BY <3>2
  <2> QED BY <2>2, <2>3, RestNone
<1>6. SkipWs(t, q) = q \/ (n = 0 /\ ~Joint(t, q + n))
  <2>1. CASE n > 0
    <3>1. t[q] = Quote
      BY <1>1, <2>1, RunsAt DEF text
    <3>2. Quote \notin Blank
      BY DEF Quote, Blank
    <3> QED BY <1>1, <3>1, <3>2, SkipNone
  <2>2. CASE n = 0 /\ Joint(t, q + n)
    <3>1. q + n = q /\ q \in Nat
      BY <2>2 DEF Places
    <3>2. q > Len(t) \/ t[q] = 123
      BY <1>1, <2>2, <3>1 DEF Joint, Breaks
    <3>3. 123 \notin Blank
      BY DEF Blank
    <3> QED BY <1>1, <3>2, <3>3, SkipNone
  <2>3. n \in Nat
    BY <1>1 DEF text
  <2> QED BY <2>1, <2>2, <2>3
<1>7. n = Len(text) => n # 0
  BY <1>1
<1> QED BY <1>4, <1>5, <1>6, <1>7 DEF name, text

(* A member of an object.                                                  *)
LEMMA MemberBack ==
  ASSUME NEW t \in Seq(Byte), NEW y, Good(y), Rereads(t, y), NEW q \in Places(t),
         NEW n \in 0..Len(Piece("object", y)), Runs(t, q, Piece("object", y), n)
  PROVE  /\ n = Len(Piece("object", y)) /\ Follows(t, q + n) =>
              ItemsAt(t, q, "object", Items(t)) = Rest(t, "object", y, q + n, Items(t))
         /\ Joint(t, q + n) => ItemsAt(t, q, "object", Items(t)) = Null
<1> DEFINE text  == cJSON_PrintUnformatted(y)
           ink   == PrintString(y.key)
           after == <<Colon>> \o text
           f     == Items(t)
           name  == ParseString(t, SkipWs(t, q))
           colon == SkipWs(t, name.pos)
           r     == ValueAt(t, colon + 1, f)
           item  == [r.node EXCEPT !.key = name.node.str]
<1>0. y.key \in Seq(Byte)
  BY GoodIs DEF Tidy
<1>1. /\ Len(t) \in Nat /\ q \in Nat /\ n \in Nat
      /\ text \in Seq(Byte) /\ Len(text) \in Nat /\ Len(text) >= 1
      /\ ink \in Seq(Byte) /\ Len(ink) \in Nat /\ Len(ink) >= 2
  <2>1. Len(Piece("object", y)) \in Nat => n \in Nat
    OBVIOUS
  <2>2. ink \in Seq(Byte)
    BY <1>0, PrintStringType, InkedSeq
  <2>3. text \in Seq(Byte)
    BY TextStarts
  <2>4. Piece("object", y) = ink \o <<Colon>> \o text
    BY DEF Piece
  <2>5. Colon \in Byte
    BY BytesAre DEF Colon
  <2>6. Len(ink \o <<Colon>> \o text) \in Nat
    <3> HIDE DEF ink, text
    <3> QED BY <2>2, <2>3, <2>5
  <2>7. Len(text) \in Nat /\ Len(text) >= 1 /\ Len(ink) \in Nat /\ Len(ink) >= 2
    BY <1>0, TextStarts, PrintStringLong
  <2>8. Len(t) \in Nat /\ q \in Nat
    BY SeqIs DEF Places
  <2> QED BY <2>1, <2>2, <2>3, <2>4, <2>6, <2>7, <2>8
<1>2. /\ after \in Seq(Byte) /\ Len(after) = Len(text) + 1 /\ after[1] = Colon
      /\ Piece("object", y) = ink \o after /\ Len(ink \o after) = Len(ink) + Len(after)
  <2> DEFINE c == Colon
  <2>1. c \in Byte
    BY BytesAre DEF Colon
  <2>2. Piece("object", y) = ink \o <<c>> \o text
    BY DEF Piece
  <2> HIDE DEF c, ink, text
  <2>3. LET a == <<c>> \o text IN
        /\ a \in Seq(Byte) /\ Len(a) = Len(text) + 1 /\ a[1] = c
        /\ ink \o <<c>> \o text = ink \o a /\ Len(ink \o a) = Len(ink) + Len(a)
    BY <1>1, <2>1
  <2> QED BY <2>2, <2>3 DEF c
<1> HIDE DEF text, ink, after
<1>3. /\ n <= Len(ink) => Runs(t, q, ink, n)
      /\ n >= Len(ink) => /\ Runs(t, q, ink, Len(ink)) /\ Runs(t, q + Len(ink), after, n - Len(ink))
                          /\ n - Len(ink) \in 0..Len(after)
  <2>1. n \in 0..Len(ink \o after) /\ Runs(t, q, ink \o after, n)
    BY <1>2
  <2> QED BY <1>1, <1>2, <2>1, RunsParts
<1>4. ASSUME n <= Len(ink), Joint(t, q + n) PROVE ItemsAt(t, q, "object", f) = Null
  <2>1. n \in 0..Len(ink)
    BY <1>1, <1>4
  <2>2. name = Null \/ ~At(t, colon, Colon)
    BY <1>0, <1>3, <1>4, <2>1, NameBack DEF ink
  <2> QED BY <2>2, ObjectItems
<1>5. ASSUME n > Len(ink)
      PROVE  /\ n = Len(ink \o after) /\ Follows(t, q + n) => ItemsAt(t, q, "object", f) = Rest(t, "object", y, q + n, f)
             /\ Joint(t, q + n) => ItemsAt(t, q, "object", f) = Null
  <2> DEFINE e == q + Len(ink)
             m == n - Len(ink)
             h == m - 1
  <2>1. Runs(t, q, ink, Len(ink)) /\ Runs(t, e, after, m) /\ m \in 1..Len(after) /\ Len(ink) \in 0..Len(ink)
    BY <1>1, <1>2, <1>3, <1>5
  <2>2. name # Null /\ name.node.str = y.key /\ name.pos = e
    BY <1>0, <2>1, NameBack DEF ink
  <2>3. e \in Places(t)
    BY <1>1, <2>1, RunsTo
  <2>4. e \in 1..Len(t) /\ t[e] = Colon
    <3>1. m \in Nat /\ m > 0
      BY <2>1
    <3> HIDE DEF e, m
    <3> QED BY <1>1, <1>2, <2>1, <2>3, <3>1, RunsAt
  <2>5. colon = e
    <3>1. Colon \notin Blank
      BY DEF Colon, Blank
    <3> HIDE DEF e
    <3>2. SkipWs(t, e) = e
      BY <1>1, <2>3, <2>4, <3>1, SkipNone
    <3> QED BY <2>2, <3>2
  <2>6. At(t, colon, Colon)
    <3> HIDE DEF e, colon
    <3> QED BY <2>4, <2>5 DEF At
  <2>7. /\ e + 1 \in Places(t) /\ h \in 0..Len(text) /\ Runs(t, e + 1, text, h) /\ (e + 1) + h = q + n
        /\ n = Len(ink \o after) <=> h = Len(text)
    <3>1. e + 1 \in Places(t)
      BY <1>1, <2>4 DEF Places
    <3>2. h \in 0..Len(text) /\ (e + 1) + h = q + n /\ (n = Len(ink \o after) <=> h = Len(text))
      BY <1>1, <1>2, <2>1
    <3>3. Runs(t, e + 1, text, h)
      <4>1. Runs(t, e, <<Colon>> \o text, m)
        BY <2>1 DEF after
      <4> DEFINE c == Colon
                 one == <<c>>
      <4>2. one \in Seq(Byte) /\ Len(one) = 1
        BY BytesAre DEF Colon
      <4>3. e \in Nat /\ m \in 0..Len(one \o text)
        BY <1>1, <2>1 DEF after
      <4> HIDE DEF one, m, e
      <4>4. m >= Len(one) => Runs(t, e + Len(one), text, m - Len(one))
        BY <1>1, <4>1, <4>2, <4>3, RunsParts DEF one
      <4>5. m >= 1
        BY <2>1
      <4> QED BY <4>2, <4>4, <4>5
    <3> QED BY <3>1, <3>2, <3>3
  <2>8. ItemsAt(t, q, "object", f) = IF r = Null THEN Null ELSE Rest(t, "object", item, r.pos, f)
    BY <2>2, <2>6, ObjectItems
  <2>9. r = ValueAt(t, e + 1, f)
    BY <2>5
  <2> HIDE DEF e, m, h, name, colon
  <2>10. ASSUME n = Len(ink \o after), Follows(t, q + n)
         PROVE  ItemsAt(t, q, "object", f) = Rest(t, "object", y, q + n, f)
    <3>1. Reread(t, y, e + 1, h)
      BY <2>7 DEF Rereads, text
    <3>2. r = Parsed(Bare(y), q + n)
      BY <2>7, <2>9, <2>10, <3>1 DEF Reread, text
    <3>3. r # Null /\ r.node = Bare(y) /\ r.pos = q + n
      <4>1. q + n # 0
        BY <1>1 DEF Places
      <4> QED BY <3>2, <4>1, NullIs
    <3>4. item = y
      <4>1. item = [Bare(y) EXCEPT !.key = y.key]
        BY <2>2, <3>3
      <4> QED BY <4>1, BareIs
    <3> HIDE DEF r, item
    <3> QED BY <2>8, <3>3, <3>4
  <2>11. ASSUME Joint(t, q + n) PROVE ItemsAt(t, q, "object", f) = Null
    <3>1. Joint(t, (e + 1) + h)
      BY <2>7, <2>11
    <3>2. Stuck(t, ValueAt(t, e + 1, f))
      BY <2>7, <3>1, ValueStuck DEF text
    <3>3. ValueAt(t, e + 1, f) = Null \/ Rest(t, "object", item, ValueAt(t, e + 1, f).pos, f) = Null
      <4> HIDE DEF item
      <4> QED BY <2>7, <3>2, StuckRest
    <3>4. r = Null \/ Rest(t, "object", item, r.pos, f) = Null
      BY <2>9, <3>3
    <3> HIDE DEF r, item
    <3> QED BY <2>8, <3>4
  <2> QED BY <2>10, <2>11
<1>6. n <= Len(ink) => n # Len(ink \o after)
  BY <1>1, <1>2
<1>7. n <= Len(ink) \/ n > Len(ink)
  BY <1>1
<1> QED BY <1>2, <1>4, <1>5, <1>6, <1>7

LEMMA PieceIs ==
  ASSUME NEW type \in {"array", "object"}, NEW y, Good(y)
  PROVE  /\ Piece(type, y) \in Seq(Byte) /\ Len(Piece(type, y)) \in Nat /\ Len(Piece(type, y)) >= 1
         /\ Piece(type, y)[1] \notin Blank /\ Piece(type, y)[1] \notin {93, 125}
<1> DEFINE text == cJSON_PrintUnformatted(y)
           ink  == PrintString(y.key)
<1>1. CASE type = "array"
  <2>1. Piece(type, y) = text
    BY <1>1 DEF Piece
  <2> QED BY <2>1, TextStarts
<1>2. CASE type = "object"
  <2>1. y.key \in Seq(Byte)
    BY GoodIs DEF Tidy
  <2>2. /\ text \in Seq(Byte) /\ ink \in Seq(Byte) /\ Len(ink) \in Nat /\ Len(ink) >= 2 /\ ink[1] = Quote
    BY <2>1, TextStarts, PrintStringType, InkedSeq, PrintStringLong
  <2> DEFINE c == Colon
  <2>3. Piece(type, y) = ink \o <<c>> \o text /\ c \in Byte
    BY <1>2, BytesAre DEF Piece, Colon
  <2> HIDE DEF c, ink, text
  <2>4. LET u == ink \o <<c>> \o text IN u \in Seq(Byte) /\ Len(u) \in Nat /\ Len(u) >= 1 /\ u[1] = ink[1]
    BY <2>2, <2>3
  <2>5. Quote \notin Blank /\ Quote \notin {93, 125}
    BY DEF Quote, Blank
  <2> QED BY <2>2, <2>3, <2>4, <2>5
<1> QED BY <1>1, <1>2

LEMMA PieceBack ==
  ASSUME NEW t \in Seq(Byte), NEW type \in {"array", "object"}, NEW y, Good(y), Rereads(t, y),
         type = "array" => y.key = <<>>, NEW q \in Places(t),
         NEW n \in 0..Len(Piece(type, y)), Runs(t, q, Piece(type, y), n)
  PROVE  /\ n = Len(Piece(type, y)) /\ Follows(t, q + n) =>
              ItemsAt(t, q, type, Items(t)) = Rest(t, type, y, q + n, Items(t))
         /\ Joint(t, q + n) => ItemsAt(t, q, type, Items(t)) = Null
<1>1. CASE type = "array"
  <2>1. n \in 0..Len(Piece("array", y)) /\ Runs(t, q, Piece("array", y), n) /\ y.key = <<>>
    BY <1>1
  <2>2. /\ n = Len(Piece("array", y)) /\ Follows(t, q + n) =>
             ItemsAt(t, q, "array", Items(t)) = Rest(t, "array", y, q + n, Items(t))
        /\ Joint(t, q + n) => ItemsAt(t, q, "array", Items(t)) = Null
    BY <2>1, ElementBack
  <2> QED BY <1>1, <2>2
<1>2. CASE type = "object"
  <2>1. n \in 0..Len(Piece("object", y)) /\ Runs(t, q, Piece("object", y), n)
    BY <1>2
  <2>2. /\ n = Len(Piece("object", y)) /\ Follows(t, q + n) =>
             ItemsAt(t, q, "object", Items(t)) = Rest(t, "object", y, q + n, Items(t))
        /\ Joint(t, q + n) => ItemsAt(t, q, "object", Items(t)) = Null
    BY <2>1, MemberBack
  <2> QED BY <1>2, <2>2
<1> QED BY <1>1, <1>2

(* An item, a separator, and what is behind it.                            *)
LEMMA ItemThen ==
  ASSUME NEW t \in Seq(Byte), NEW type \in {"array", "object"}, NEW y, Good(y), Rereads(t, y),
         type = "array" => y.key = <<>>, NEW q \in Places(t),
         NEW b \in Byte, b \notin Numeric, b \notin Blank, NEW rest \in Seq(Byte),
         NEW n \in 0..Len(Piece(type, y) \o <<b>> \o rest), Runs(t, q, Piece(type, y) \o <<b>> \o rest, n)
  PROVE  LET long == Len(Piece(type, y))
             e    == q + long
             m    == n - long - 1
         IN  /\ Len(Piece(type, y) \o <<b>> \o rest) = long + 1 + Len(rest)
             /\ n <= long /\ Joint(t, q + n) => ItemsAt(t, q, type, Items(t)) = Null
             /\ n > long =>
                  /\ e \in 1..Len(t) /\ t[e] = b /\ SkipWs(t, e) = e
                  /\ ItemsAt(t, q, type, Items(t)) = Rest(t, type, y, e, Items(t))
                  /\ e + 1 \in Places(t) /\ m \in 0..Len(rest) /\ Runs(t, e + 1, rest, m)
                  /\ (e + 1) + m = q + n
<1> DEFINE piece == Piece(type, y)
           long  == Len(piece)
           after == <<b>> \o rest
           e     == q + long
           m     == n - long - 1
<1>1. Len(t) \in Nat /\ q \in Nat /\ piece \in Seq(Byte) /\ long \in Nat /\ Len(rest) \in Nat
  BY SeqIs, PieceIs DEF Places
<1> HIDE DEF piece
<1>2. /\ after \in Seq(Byte) /\ Len(after) = Len(rest) + 1 /\ after[1] = b
      /\ piece \o <<b>> \o rest = piece \o after /\ Len(piece \o after) = long + Len(after)
  BY <1>1
<1> HIDE DEF after
<1>3. /\ n \in Nat /\ n <= long + 1 + Len(rest)
      /\ n \in 0..Len(piece \o after) /\ Runs(t, q, piece \o after, n)
  <2> DEFINE u == piece \o <<b>> \o rest
  <2>1. n \in 0..Len(u) /\ Runs(t, q, u, n)
    BY DEF piece
  <2>2. u = piece \o after /\ Len(u) = long + 1 + Len(rest)
    BY <1>1, <1>2
  <2> HIDE DEF u, long
  <2>3. n \in 0..(long + 1 + Len(rest)) /\ long \in Nat
    BY <1>1, <2>1, <2>2
  <2>4. n \in Nat /\ n <= long + 1 + Len(rest)
    BY <1>1, <2>3
  <2> QED BY <2>1, <2>2, <2>4
<1>4. /\ n <= long => Runs(t, q, piece, n)
      /\ n >= long => Runs(t, q, piece, long) /\ Runs(t, e, after, n - long)
  BY <1>1, <1>2, <1>3, RunsParts
<1>5. ASSUME n <= long, Joint(t, q + n) PROVE ItemsAt(t, q, type, Items(t)) = Null
  <2>1. n \in 0..long /\ Runs(t, q, piece, n)
    BY <1>1, <1>3, <1>4, <1>5
  <2> QED BY <1>5, <2>1, PieceBack DEF piece
<1>6. ASSUME n > long
      PROVE  /\ e \in 1..Len(t) /\ t[e] = b /\ SkipWs(t, e) = e
             /\ ItemsAt(t, q, type, Items(t)) = Rest(t, type, y, e, Items(t))
             /\ e + 1 \in Places(t) /\ m \in 0..Len(rest) /\ Runs(t, e + 1, rest, m)
             /\ (e + 1) + m = q + n
  <2> DEFINE k == n - long
  <2>1. Runs(t, q, piece, long) /\ Runs(t, e, after, k) /\ k \in Nat /\ k > 0
    BY <1>1, <1>3, <1>4, <1>6
  <2>2. e \in Places(t)
    BY <1>1, <2>1, RunsTo
  <2>3. e \in 1..Len(t) /\ t[e] = b
    <3> HIDE DEF e, k
    <3> QED BY <1>1, <1>2, <2>1, <2>2, RunsAt
  <2>4. SkipWs(t, e) = e /\ Follows(t, e)
    <3> HIDE DEF e
    <3>1. SkipWs(t, e) = e
      BY <1>1, <2>2, <2>3, SkipNone
    <3> QED BY <2>3, <3>1 DEF Follows
  <2>5. ItemsAt(t, q, type, Items(t)) = Rest(t, type, y, e, Items(t))
    <3>1. long \in 0..long
      BY <1>1
    <3> QED BY <2>1, <2>4, <3>1, PieceBack DEF piece
  <2>6. e + 1 \in Places(t) /\ m \in 0..Len(rest) /\ (e + 1) + m = q + n
    <3>1. m \in 0..Len(rest) /\ (e + 1) + m = q + n
      BY <1>1, <1>2, <1>3, <1>6
    <3>2. e + 1 \in Places(t)
      BY <1>1, <2>3 DEF Places
    <3> QED BY <3>1, <3>2
  <2>7. Runs(t, e + 1, rest, m)
    <3> DEFINE one == <<b>>
    <3>1. one \in Seq(Byte) /\ Len(one) = 1
      OBVIOUS
    <3>2. e \in Nat /\ k \in 0..Len(one \o rest)
      BY <1>1, <1>2, <1>3, <2>1 DEF after
    <3>3. Runs(t, e, one \o rest, k)
      BY <2>1 DEF after
    <3> HIDE DEF one, k, e
    <3>4. k >= Len(one) => Runs(t, e + Len(one), rest, k - Len(one))
      BY <1>1, <3>1, <3>2, <3>3, RunsParts
    <3>5. k >= 1 /\ k - 1 = m
      BY <1>1, <2>1, <1>3 DEF k
    <3> QED BY <3>1, <3>4, <3>5
  <2> QED BY <2>3, <2>4, <2>5, <2>6, <2>7
<1>7. Len(piece \o after) = long + 1 + Len(rest)
  BY <1>1, <1>2
<1> QED BY <1>2, <1>5, <1>6, <1>7 DEF piece

(* How the text of the last items, with its bracket, is read at q.         *)
ItemsBack(t, type, kids, text) ==
  \A q \in Places(t), n \in 0..Len(text) :
    Runs(t, q, text, n) =>
      /\ n = Len(text) =>
           \E w : /\ Good(w) /\ w.type = type /\ w.key = <<>> /\ w.kids = kids
                  /\ ItemsAt(t, q, type, Items(t)) = Parsed(w, q + n)
      /\ n < Len(text) /\ Joint(t, q + n) => ItemsAt(t, q, type, Items(t)) = Null

LEMMA LastItem ==
  ASSUME NEW t \in Seq(Byte), NEW type \in {"array", "object"}, NEW y, Good(y), Rereads(t, y),
         type = "array" => y.key = <<>>
  PROVE  ItemsBack(t, type, <<y>>, Piece(type, y) \o <<Closing[type]>>)
<1> DEFINE b    == Closing[type]
           text == Piece(type, y) \o <<b>>
           long == Len(Piece(type, y))
           none == <<>>
           f    == Items(t)
<1>1. b \in Byte /\ b \notin Numeric /\ b \notin Blank /\ b # Comma
  <2>1. b \in {93, 125}
    BY DEF Closing
  <2> HIDE DEF b
  <2>2. b \notin Numeral /\ b \in Byte
    BY <2>1, NumeralIs, BytesAre
  <2> QED BY <2>1, <2>2 DEF Numeric, Blank, Comma
<1>2. none \in Seq(Byte) /\ Len(none) = 0 /\ text = Piece(type, y) \o <<b>> \o none /\ long \in Nat
  <2>1. Piece(type, y) \in Seq(Byte) /\ long \in Nat
    BY PieceIs
  <2> DEFINE u == Piece(type, y)
  <2> HIDE DEF u, b
  <2>2. u \o <<b>> = u \o <<b>> \o <<>>
    BY <1>1, <2>1 DEF u
  <2> QED BY <2>1, <2>2 DEF u
<1> SUFFICES ASSUME NEW q \in Places(t), NEW n \in 0..Len(text), Runs(t, q, text, n)
             PROVE  /\ n = Len(text) =>
                         \E w : /\ Good(w) /\ w.type = type /\ w.key = <<>> /\ w.kids = <<y>>
                                /\ ItemsAt(t, q, type, f) = Parsed(w, q + n)
                    /\ n < Len(text) /\ Joint(t, q + n) => ItemsAt(t, q, type, f) = Null
  BY DEF ItemsBack
<1> HIDE DEF b, none
<1> DEFINE e == q + long
           m == n - long - 1
<1>3. /\ Len(text) = long + 1 + Len(none)
      /\ n <= long /\ Joint(t, q + n) => ItemsAt(t, q, type, f) = Null
      /\ n > long =>
           /\ e \in 1..Len(t) /\ t[e] = b /\ SkipWs(t, e) = e
           /\ ItemsAt(t, q, type, f) = Rest(t, type, y, e, f)
           /\ e + 1 \in Places(t) /\ (e + 1) + m = q + n
  <2> DEFINE u == Piece(type, y) \o <<b>> \o none
  <2>1. text = u
    BY <1>2
  <2> HIDE DEF text
  <2>2. n \in 0..Len(u) /\ Runs(t, q, u, n)
    BY <2>1
  <2>3. /\ Len(u) = long + 1 + Len(none)
        /\ n <= long /\ Joint(t, q + n) => ItemsAt(t, q, type, f) = Null
        /\ n > long =>
             /\ e \in 1..Len(t) /\ t[e] = b /\ SkipWs(t, e) = e
             /\ ItemsAt(t, q, type, f) = Rest(t, type, y, e, f)
             /\ e + 1 \in Places(t) /\ (e + 1) + m = q + n
    <3>1. /\ n \in 0..Len(Piece(type, y) \o <<b>> \o none) /\ Runs(t, q, Piece(type, y) \o <<b>> \o none, n)
          /\ none \in Seq(Byte)
      BY <1>2, <2>2
    <3>2. u = Piece(type, y) \o <<b>> \o none
      OBVIOUS
    <3> HIDE DEF u
    <3> QED BY <1>1, <3>1, <3>2, ItemThen, SMTT(40)
  <2> QED BY <2>1, <2>3
<1>4. Len(text) = long + 1 /\ n \in Nat
  BY <1>2, <1>3
<1>5. ASSUME n = long + 1
      PROVE  \E w : /\ Good(w) /\ w.type = type /\ w.key = <<>> /\ w.kids = <<y>>
                    /\ ItemsAt(t, q, type, f) = Parsed(w, q + n)
  <2>1. n > long /\ m = 0
    BY <1>2, <1>4, <1>5
  <2> HIDE DEF e, m
  <2>2. ~At(t, e, Comma) /\ At(t, e, b)
    BY <1>1, <1>3, <2>1 DEF At
  <2>3. Rest(t, type, y, e, f) = Parsed(With(y, Node(type)), e + 1)
    BY <1>3, <2>1, <2>2 DEF Rest, b
  <2>4. e + 1 = q + n
    BY <1>3, <2>1 DEF Places
  <2>5. Good(Node(type)) /\ Node(type).type = type /\ Node(type).key = <<>> /\ Node(type).kids = <<>>
    BY PlainGood DEF Kinds
  <2>6. /\ Good(With(y, Node(type))) /\ With(y, Node(type)).type = type
        /\ With(y, Node(type)).key = <<>> /\ With(y, Node(type)).kids = <<y>> \o <<>>
    BY <2>5, WithGood
  <2>7. <<y>> \o <<>> = <<y>>
    OBVIOUS
  <2> QED BY <1>3, <2>1, <2>3, <2>4, <2>6, <2>7
<1> QED BY <1>2, <1>3, <1>4, <1>5

LEMMA MoreItems ==
  ASSUME NEW t \in Seq(Byte), NEW type \in {"array", "object"}, NEW y, Good(y), Rereads(t, y),
         type = "array" => y.key = <<>>,
         NEW kids, NEW text \in Seq(Byte), ItemsBack(t, type, kids, text)
  PROVE  ItemsBack(t, type, <<y>> \o kids, Piece(type, y) \o <<Comma>> \o text)
<1> DEFINE b    == Comma
           all  == Piece(type, y) \o <<b>> \o text
           long == Len(Piece(type, y))
           f    == Items(t)
<1>1. b \in Byte /\ b \notin Numeric /\ b \notin Blank
  BY BytesAre DEF Numeric, Numeral, Blank, Comma
<1>2. Len(text) \in Nat /\ long \in Nat
  BY PieceIs
<1> SUFFICES ASSUME NEW q \in Places(t), NEW n \in 0..Len(all), Runs(t, q, all, n)
             PROVE  /\ n = Len(all) =>
                         \E w : /\ Good(w) /\ w.type = type /\ w.key = <<>> /\ w.kids = <<y>> \o kids
                                /\ ItemsAt(t, q, type, f) = Parsed(w, q + n)
                    /\ n < Len(all) /\ Joint(t, q + n) => ItemsAt(t, q, type, f) = Null
  BY DEF ItemsBack
<1> HIDE DEF b
<1> DEFINE e == q + long
           m == n - long - 1
<1>3. /\ Len(all) = long + 1 + Len(text)
      /\ n <= long /\ Joint(t, q + n) => ItemsAt(t, q, type, f) = Null
      /\ n > long =>
           /\ e \in 1..Len(t) /\ t[e] = b /\ SkipWs(t, e) = e
           /\ ItemsAt(t, q, type, f) = Rest(t, type, y, e, f)
           /\ e + 1 \in Places(t) /\ m \in 0..Len(text) /\ Runs(t, e + 1, text, m)
           /\ (e + 1) + m = q + n
  <2>1. n \in 0..Len(Piece(type, y) \o <<b>> \o text) /\ Runs(t, q, Piece(type, y) \o <<b>> \o text, n)
    OBVIOUS
  <2> HIDE DEF all
  <2>2. all = Piece(type, y) \o <<b>> \o text
    BY DEF all
  <2> QED BY <1>1, <2>1, <2>2, ItemThen, SMTT(40)
<1> HIDE DEF all
<1>4. n \in Nat /\ (n = Len(all) => n > long) /\ (n > long => m = Len(text) <=> n = Len(all))
      /\ (n < Len(all) => m < Len(text))
  BY <1>2, <1>3
<1>5. ASSUME n > long
      PROVE  /\ n = Len(all) =>
                  \E w : /\ Good(w) /\ w.type = type /\ w.key = <<>> /\ w.kids = <<y>> \o kids
                         /\ ItemsAt(t, q, type, f) = Parsed(w, q + n)
             /\ n < Len(all) /\ Joint(t, q + n) => ItemsAt(t, q, type, f) = Null
  <2> DEFINE r == ItemsAt(t, e + 1, type, f)
             z == q + n
  <2>1. /\ t[e] = b /\ e <= Len(t) /\ SkipWs(t, e) = e /\ ItemsAt(t, q, type, f) = Rest(t, type, y, e, f)
        /\ e + 1 \in Places(t) /\ m \in 0..Len(text) /\ Runs(t, e + 1, text, m) /\ (e + 1) + m = z
    BY <1>3, <1>5
  <2> HIDE DEF e, m
  <2>2. At(t, e, Comma)
    BY <2>1 DEF At, b
  <2>3. Rest(t, type, y, e, f) = Ahead(y, f[e + 1][type])
    BY <2>1, <2>2 DEF Rest
  <2>4. f[e + 1][type] = r
    BY <2>1, ItemsIs
  <2>5. ItemsAt(t, q, type, f) = Ahead(y, r)
    BY <2>1, <2>3, <2>4
  <2>6. /\ m = Len(text) =>
             \E w : Good(w) /\ w.type = type /\ w.key = <<>> /\ w.kids = kids /\ r = Parsed(w, (e + 1) + m)
        /\ m < Len(text) /\ Joint(t, (e + 1) + m) => r = Null
    BY <2>1 DEF ItemsBack
  <2>7. z # 0
    <3>1. q \in Nat /\ q >= 1
      BY DEF Places
    <3> QED BY <1>4, <3>1
  <2>8. ASSUME n = Len(all)
        PROVE  \E w : /\ Good(w) /\ w.type = type /\ w.key = <<>> /\ w.kids = <<y>> \o kids
                      /\ ItemsAt(t, q, type, f) = Parsed(w, z)
    <3>1. PICK w : Good(w) /\ w.type = type /\ w.key = <<>> /\ w.kids = kids /\ r = Parsed(w, (e + 1) + m)
      BY <1>4, <1>5, <2>6, <2>8
    <3> HIDE DEF r, z
    <3>2. r = Parsed(w, z)
      BY <2>1, <3>1
    <3>3. Ahead(y, r) = Parsed(With(y, w), z)
      BY <2>7, <3>2, AheadIs
    <3>4. Good(With(y, w)) /\ With(y, w).type = type /\ With(y, w).key = <<>> /\ With(y, w).kids = <<y>> \o kids
      BY <3>1, WithGood
    <3> QED BY <2>5, <3>3, <3>4
  <2>9. ASSUME n < Len(all), Joint(t, z) PROVE ItemsAt(t, q, type, f) = Null
    <3>1. r = Null
      BY <1>4, <2>1, <2>6, <2>9
    <3>2. Ahead(y, Null) = Null
      BY DEF Ahead
    <3> QED BY <2>5, <3>1, <3>2
  <2> QED BY <2>8, <2>9
<1>6. n <= long \/ n > long
  BY <1>2, <1>4
<1> QED BY <1>3, <1>4, <1>5, <1>6

LEMMA NoItems ==
  ASSUME NEW t \in Seq(Byte), NEW type \in {"array", "object"}, NEW q \in Places(t), Joint(t, q)
  PROVE  ItemsAt(t, q, type, Items(t)) = Null
<1>1. CASE type = "array"
  <2> DEFINE r == ValueAt(t, q, Items(t))
  <2>1. Stuck(t, r)
    BY DEF Joint
  <2>2. r = Null \/ Rest(t, "array", r.node, r.pos, Items(t)) = Null
    BY <2>1, StuckRest
  <2> QED BY <1>1, <2>2, ArrayItems
<1>2. CASE type = "object"
  <2> DEFINE s    == <<>>
             name == ParseString(t, SkipWs(t, q))
  <2>1. s \in Seq(Byte)
    OBVIOUS
  <2> HIDE DEF s
  <2>2. 0 \in 0..Len(PrintString(s)) /\ Runs(t, q, PrintString(s), 0)
    BY <2>1, PrintStringLong DEF Runs
  <2>3. q + 0 = q
    BY DEF Places
  <2>4. name = Null \/ ~At(t, SkipWs(t, name.pos), Colon)
    <3> HIDE DEF name
    <3> QED BY <2>1, <2>2, <2>3, NameBack DEF name
  <2> QED BY <1>2, <2>4, ObjectItems
<1> QED BY <1>1, <1>2

(* The text of a container: its brackets, and the items between them.      *)
TailsOf(x, g) ==
  \A k \in 1..Len(x.kids) :
    g[k] = Piece(x.type, x.kids[Len(x.kids) + 1 - k]) \o
             (IF k = 1 THEN <<Closing[x.type]>> ELSE <<Comma>> \o g[k - 1])

LEMMA Tails ==
  ASSUME NEW x, Good(x), x.type \in {"array", "object"}
  PROVE  \E g : /\ cJSON_PrintUnformatted(x) = <<Opening[x.type]>> \o g[Len(x.kids)]
                /\ g[0] = <<Closing[x.type]>>
                /\ \A k \in 0..Len(x.kids) : g[k] \in Seq(Byte)
                /\ TailsOf(x, g)
<1> DEFINE n == Len(x.kids)
           type == x.type
           texts == Pieces(x)
           a == Opening[type]
           b == Closing[type]
           c == Comma
           S == Seq(Inked)
<1>1. n \in Nat /\ texts \in Seq(S) /\ Len(texts) = n /\ \A i \in 1..n : texts[i] = Piece(type, x.kids[i])
  <2>1. \A i \in 1..n : cJSON_PrintUnformatted(x.kids[i]) \in Seq(Inked)
    BY GoodIs, PrintType
  <2>2. texts \in Seq(S) /\ Len(texts) = n
    BY <2>1, PiecesType
  <2>3. \A i \in 1..n : texts[i] = Piece(type, x.kids[i])
    BY DEF Pieces, Piece
  <2> QED BY <2>2, <2>3, GoodIs
<1>2. a \in Byte /\ b \in Byte /\ c \in Byte /\ c \in Inked
  BY BracketIs, InkIs DEF Comma
<1>3. PICK f : /\ f[0] = <<>> /\ Listed(texts) = f[n]
               /\ \A k \in 0..n : f[k] \in S
               /\ \A k \in 1..n : f[k] = texts[n + 1 - k] \o (IF k = 1 THEN <<>> ELSE <<c>> \o f[k - 1])
  <2> HIDE DEF texts
  <2>1. texts \in Seq(Seq(Inked)) /\ Comma \in Inked /\ Len(texts) = n
    BY <1>1, <1>2
  <2> HIDE DEF c, n
  <2>2. PICK f : /\ f[0] = <<>> /\ Listed(texts) = f[Len(texts)]
                 /\ \A k \in 0..Len(texts) : f[k] \in Seq(Inked)
                 /\ Linked(texts, f)
    BY <2>1, ListedIs
  <2>3. \A k \in 1..n : f[k] = texts[n + 1 - k] \o (IF k = 1 THEN <<>> ELSE <<Comma>> \o f[k - 1])
    BY <2>1, <2>2 DEF Linked
  <2>4. /\ f[0] = <<>> /\ Listed(texts) = f[n]
        /\ \A k \in 0..n : f[k] \in S
        /\ \A k \in 1..n : f[k] = texts[n + 1 - k] \o (IF k = 1 THEN <<>> ELSE <<c>> \o f[k - 1])
    BY <2>1, <2>2, <2>3 DEF c
  <2> QED BY <2>4
<1>4. cJSON_PrintUnformatted(x) = <<a>> \o f[n] \o <<b>>
  BY <1>3, PrintOf
<1> DEFINE g == [k \in 0..n |-> f[k] \o <<b>>]
<1>5. \A k \in 0..n : f[k] \in Seq(Byte)
  BY <1>3, InkedSeq
<1> HIDE DEF texts, a, b, c, S
<1>6. cJSON_PrintUnformatted(x) = <<a>> \o g[n]
  <2> DEFINE u == f[n]
  <2>1. u \in Seq(Byte) /\ g[n] = u \o <<b>>
    BY <1>1, <1>5
  <2> HIDE DEF u, g
  <2>2. <<a>> \o u \o <<b>> = <<a>> \o (u \o <<b>>)
    BY <1>2, <2>1
  <2> QED BY <1>4, <2>1, <2>2 DEF u
<1>7. g[0] = <<b>>
  <2>1. g[0] = <<>> \o <<b>>
    <3>1. 0 \in 0..n
      BY <1>1
    <3>2. g[0] = f[0] \o <<b>>
      BY <3>1
    <3> HIDE DEF g
    <3> QED BY <1>3, <3>2
  <2>2. <<>> \o <<b>> = <<b>>
    BY <1>2
  <2> QED BY <2>1, <2>2
<1>8. ASSUME NEW k \in 0..n PROVE g[k] \in Seq(Byte)
  <2> DEFINE u == f[k]
  <2>1. u \in Seq(Byte) /\ g[k] = u \o <<b>>
    BY <1>5
  <2> HIDE DEF u, g
  <2> QED BY <1>2, <2>1
<1>9. ASSUME NEW k \in 1..n
      PROVE  g[k] = Piece(type, x.kids[n + 1 - k]) \o (IF k = 1 THEN <<b>> ELSE <<c>> \o g[k - 1])
  <2> DEFINE i == n + 1 - k
             u == Piece(type, x.kids[i])
             v == f[k - 1]
  <2>1. i \in 1..n /\ k \in 0..n /\ k - 1 \in 0..n
    BY <1>1
  <2>2. u \in Seq(Byte) /\ v \in Seq(Byte)
    <3>1. Good(x.kids[i])
      BY <2>1, GoodIs
    <3> HIDE DEF i
    <3> QED BY <1>5, <2>1, <3>1, PieceIs
  <2>3. f[k] = u \o (IF k = 1 THEN <<>> ELSE <<c>> \o v)
    <3>1. f[k] = texts[i] \o (IF k = 1 THEN <<>> ELSE <<c>> \o v)
      BY <1>3
    <3> HIDE DEF i
    <3> QED BY <1>1, <2>1, <3>1
  <2>4. g[k] = f[k] \o <<b>> /\ g[k - 1] = v \o <<b>>
    BY <2>1
  <2> HIDE DEF u, v, g, i
  <2>5. (u \o <<>>) \o <<b>> = u \o <<b>> /\ (u \o (<<c>> \o v)) \o <<b>> = u \o (<<c>> \o (v \o <<b>>))
    BY <1>2, <2>2
  <2>6. CASE k = 1
    BY <2>3, <2>4, <2>5, <2>6 DEF u, i
  <2>7. CASE k # 1
    BY <2>3, <2>4, <2>5, <2>7 DEF u, i
  <2> QED BY <2>6, <2>7
<1> HIDE DEF g
<1>10. /\ cJSON_PrintUnformatted(x) = <<a>> \o g[n]
       /\ g[0] = <<b>>
       /\ \A k \in 0..n : g[k] \in Seq(Byte)
       /\ \A k \in 1..n :
            g[k] = Piece(type, x.kids[n + 1 - k]) \o (IF k = 1 THEN <<b>> ELSE <<c>> \o g[k - 1])
  BY <1>6, <1>7, <1>8, <1>9
<1>11. TailsOf(x, g)
  BY <1>10 DEF TailsOf, b, c
<1> QED BY <1>10, <1>11 DEF a, b

LEMMA TogetherIs ==
  ASSUME NEW S, NEW a \in Seq(S), NEW b \in Seq(S)
  PROVE  /\ a \o b \in Seq(S) /\ Len(a \o b) = Len(a) + Len(b)
         /\ \A i \in 1..Len(a) : (a \o b)[i] = a[i]
         /\ \A i \in 1..Len(b) : (a \o b)[Len(a) + i] = b[i]
OBVIOUS

LEMMA EndsOf ==
  ASSUME NEW S, NEW s \in Seq(S), NEW k \in 1..Len(s)
  PROVE  /\ k = 1 => SubSeq(s, Len(s) + 1 - k, Len(s)) = <<s[Len(s) + 1 - k]>>
         /\ k # 1 => SubSeq(s, Len(s) + 1 - k, Len(s)) =
                       <<s[Len(s) + 1 - k]>> \o SubSeq(s, Len(s) + 1 - (k - 1), Len(s))
         /\ k = Len(s) => SubSeq(s, Len(s) + 1 - k, Len(s)) = s
<1> DEFINE n == Len(s)
           a == n + 1 - k
           b == n + 1 - (k - 1)
           u == SubSeq(s, a, n)
           v == SubSeq(s, b, n)
           one == <<s[a]>>
<1>1. n \in Nat /\ a \in 1..n /\ b = a + 1 /\ k \in Nat /\ k >= 1 /\ n = a + k - 1
  OBVIOUS
<1>2. u \in Seq(S) /\ Len(u) = k /\ \A i \in 1..k : u[i] = s[a + i - 1]
  OBVIOUS
<1>3. v \in Seq(S) /\ Len(v) = k - 1 /\ \A i \in 1..(k - 1) : v[i] = s[b + i - 1]
  OBVIOUS
<1>4. s[a] \in S
  BY <1>1
<1> HIDE DEF n, a, b, u, v
<1>5. one \in Seq(S) /\ Len(one) = 1 /\ one[1] = s[a]
  BY <1>4
<1> HIDE DEF one
<1>6. k = 1 => u = one
  <2> SUFFICES ASSUME k = 1 PROVE u = one
    OBVIOUS
  <2>1. \A i \in 1..1 : i = 1 /\ a + i - 1 = a
    BY <1>1
  <2>2. \A i \in 1..Len(u) : u[i] = one[i]
    BY <1>2, <1>5, <2>1
  <2> QED BY <1>2, <1>5, <2>2, SeqSame
<1>7. u = one \o v
  <2>0. one \in Seq(S) /\ v \in Seq(S)
    BY <1>3, <1>5
  <2>9. /\ one \o v \in Seq(S) /\ Len(one \o v) = Len(one) + Len(v)
        /\ \A i \in 1..Len(one) : (one \o v)[i] = one[i]
        /\ \A i \in 1..Len(v) : (one \o v)[Len(one) + i] = v[i]
    BY <2>0, TogetherIs
  <2> DEFINE w == one \o v
  <2>1. w \in Seq(S) /\ Len(w) = k /\ w[1] = s[a] /\ \A i \in 1..(k - 1) : w[i + 1] = v[i]
    <3>1. Len(v) = k - 1 /\ Len(one) = 1 /\ one \in Seq(S) /\ v \in Seq(S) /\ k \in Nat
      BY <1>1, <1>3, <1>5
    <3>2. /\ w \in Seq(S) /\ Len(w) = Len(one) + Len(v) /\ \A i \in 1..Len(one) : w[i] = one[i]
          /\ \A i \in 1..Len(v) : w[Len(one) + i] = v[i]
      BY <2>9
    <3> HIDE DEF w
    <3>3. w[1] = one[1] /\ \A i \in 1..Len(v) : w[Len(one) + i] = v[i]
      BY <3>1, <3>2
    <3>4. \A i \in 1..(k - 1) : i \in 1..Len(v) /\ Len(one) + i = i + 1
      BY <3>1
    <3> QED BY <1>5, <3>1, <3>2, <3>3, <3>4
  <2> HIDE DEF w
  <2>2. ASSUME NEW i \in 1..k PROVE u[i] = w[i]
    <3>1. CASE i = 1
      <4>1. a + i - 1 = a
        BY <1>1, <3>1
      <4> QED BY <1>2, <2>1, <3>1, <4>1
    <3>2. CASE i # 1
      <4> DEFINE j == i - 1
      <4>1. j \in 1..(k - 1) /\ j + 1 = i /\ b + j - 1 = a + i - 1
        BY <1>1, <3>2
      <4> HIDE DEF j
      <4> QED BY <1>2, <1>3, <2>1, <4>1
    <3> QED BY <3>1, <3>2
  <2>3. u = w
    BY <1>2, <2>1, <2>2, SeqSame
  <2> QED BY <2>3 DEF w
<1>8. k = n => u = s
  <2> SUFFICES ASSUME k = n PROVE u = s
    OBVIOUS
  <2>1. \A i \in 1..k : a + i - 1 = i
    BY <1>1
  <2>2. Len(u) = Len(s) /\ \A i \in 1..Len(u) : u[i] = s[i]
    BY <1>2, <2>1 DEF n
  <2> QED BY <1>2, <2>2, SeqSame
<1> QED BY <1>6, <1>7, <1>8 DEF u, v, one, a, b, n

LEMMA TailsBack ==
  ASSUME NEW t \in Seq(Byte), NEW x, Good(x), x.type \in {"array", "object"},
         \A i \in 1..Len(x.kids) : Rereads(t, x.kids[i]), NEW g,
         \A k \in 0..Len(x.kids) : g[k] \in Seq(Byte),
         TailsOf(x, g)
  PROVE  Len(x.kids) >= 1 => /\ ItemsBack(t, x.type, x.kids, g[Len(x.kids)])
                             /\ g[Len(x.kids)][1] \notin Blank /\ g[Len(x.kids)][1] \notin {93, 125}
<1> DEFINE n == Len(x.kids)
           type == x.type
           kids == x.kids
           K == {kids[i] : i \in 1..n}
           Ends(k) == SubSeq(kids, n + 1 - k, n)
           y(k) == kids[n + 1 - k]
<1>1. n \in Nat /\ kids \in Seq(K)
  <2>1. n \in Nat /\ kids = [i \in 1..n |-> kids[i]]
    BY GoodIs
  <2>2. \A i \in 1..n : kids[i] \in K
    OBVIOUS
  <2> HIDE DEF K
  <2> QED BY <2>1, <2>2, SeqBy
<1>2. ASSUME NEW k \in 1..n
      PROVE  /\ Good(y(k)) /\ Rereads(t, y(k)) /\ (type = "array" => y(k).key = <<>>)
             /\ k = 1 => g[k] = Piece(type, y(k)) \o <<Closing[type]>>
             /\ k # 1 => g[k] = Piece(type, y(k)) \o (<<Comma>> \o g[k - 1])
  <2>1. n + 1 - k \in 1..n
    BY <1>1
  <2>2. type = "array" => y(k).key = <<>>
    BY <2>1, GoodIs DEF Tidy
  <2>3. Good(y(k)) /\ Rereads(t, y(k))
    BY <2>1, GoodIs
  <2>4. g[k] = Piece(type, y(k)) \o (IF k = 1 THEN <<Closing[type]>> ELSE <<Comma>> \o g[k - 1])
    BY DEF TailsOf
  <2> QED BY <2>2, <2>3, <2>4
<1> HIDE DEF K
<1>3. ASSUME NEW k \in 1..n
      PROVE  /\ k = 1 => Ends(k) = <<y(k)>>
             /\ k # 1 => Ends(k) = <<y(k)>> \o Ends(k - 1)
             /\ k = n => Ends(k) = kids
  <2> HIDE DEF kids
  <2> QED BY <1>1, EndsOf DEF kids
<1> DEFINE H == {k \in Nat : k >= 1 /\ k <= n => ItemsBack(t, type, Ends(k), g[k])}
<1> HIDE DEF y, Ends
<1>4. 0 \in H
  OBVIOUS
<1>5. ASSUME NEW k \in H PROVE k + 1 \in H
  <2> SUFFICES ASSUME k + 1 <= n PROVE ItemsBack(t, type, Ends(k + 1), g[k + 1])
    OBVIOUS
  <2> DEFINE j == k + 1
  <2>1. j \in 1..n /\ k \in Nat /\ j - 1 = k
    BY <1>1
  <2> HIDE DEF H, j
  <2>2. CASE j = 1
    <3>1. ItemsBack(t, type, <<y(j)>>, Piece(type, y(j)) \o <<Closing[type]>>)
      BY <1>2, <2>1, LastItem
    <3>2. Ends(j) = <<y(j)>> /\ g[j] = Piece(type, y(j)) \o <<Closing[type]>>
      BY <1>2, <1>3, <2>1, <2>2
    <3> QED BY <3>1, <3>2 DEF j
  <2>3. CASE j # 1
    <3>1. k \in 1..n
      BY <1>1, <2>1, <2>3
    <3>2. ItemsBack(t, type, Ends(k), g[k]) /\ g[k] \in Seq(Byte)
      BY <3>1 DEF H
    <3>3. ItemsBack(t, type, <<y(j)>> \o Ends(k), Piece(type, y(j)) \o <<Comma>> \o g[k])
      BY <1>2, <2>1, <3>2, MoreItems
    <3>4. Ends(j) = <<y(j)>> \o Ends(k) /\ g[j] = Piece(type, y(j)) \o (<<Comma>> \o g[k])
      BY <1>2, <1>3, <2>1, <2>3
    <3>5. Piece(type, y(j)) \o <<Comma>> \o g[k] = Piece(type, y(j)) \o (<<Comma>> \o g[k])
      <4> DEFINE u == Piece(type, y(j))
                 c == Comma
                 v == g[k]
      <4>1. u \in Seq(Byte) /\ c \in Byte /\ v \in Seq(Byte)
        <5>1. Good(y(j))
          BY <1>2, <2>1
        <5>2. c \in Byte
          BY BytesAre DEF Comma
        <5> QED BY <3>2, <5>1, <5>2, PieceIs
      <4> HIDE DEF u, c, v
      <4>2. u \o <<c>> \o v = u \o (<<c>> \o v)
        BY <4>1
      <4> QED BY <4>2 DEF u, c, v
    <3> QED BY <3>3, <3>4, <3>5 DEF j
  <2> QED BY <2>2, <2>3
<1> HIDE DEF H
<1>6. \A k \in Nat : k \in H
  <2>1. H \in SUBSET Nat
    BY DEF H
  <2>2. H = Nat
    BY <1>4, <1>5, <2>1, SetInduction
  <2> QED BY <2>2
<1>7. ASSUME n >= 1
      PROVE  ItemsBack(t, type, kids, g[n]) /\ g[n][1] \notin Blank /\ g[n][1] \notin {93, 125}
  <2>1. n \in 1..n
    BY <1>1, <1>7
  <2>2. ItemsBack(t, type, kids, g[n])
    <3>1. n \in H /\ Ends(n) = kids
      BY <1>1, <1>3, <1>6, <2>1
    <3> QED BY <1>1, <1>7, <3>1 DEF H
  <2>3. g[n][1] = Piece(type, y(n))[1]
    <3> DEFINE u == Piece(type, y(n))
               b == Closing[type]
               c == Comma
               v == g[n - 1]
    <3>1. u \in Seq(Byte) /\ Len(u) \in Nat /\ Len(u) >= 1 /\ b \in Byte /\ c \in Byte
      <4>1. Good(y(n))
        BY <1>2, <2>1
      <4>2. c \in Byte
        BY BytesAre DEF Comma
      <4>3. b \in Byte
        <5>1. b \in {93, 125}
          BY DEF Closing
        <5> HIDE DEF b
        <5> QED BY <5>1, BytesAre
      <4> QED BY <4>1, <4>2, <4>3, PieceIs
    <3>2. v \in Seq(Byte)
      <4>1. n - 1 \in 0..n
        BY <1>1, <1>7
      <4> QED BY <4>1
    <3>3. g[n] = u \o <<b>> \/ g[n] = u \o (<<c>> \o v)
      BY <1>2, <2>1
    <3> HIDE DEF u, b, c, v
    <3>4. (u \o <<b>>)[1] = u[1] /\ (u \o (<<c>> \o v))[1] = u[1]
      BY <3>1, <3>2
    <3> QED BY <3>3, <3>4 DEF u
  <2>4. Piece(type, y(n))[1] \notin Blank /\ Piece(type, y(n))[1] \notin {93, 125}
    <3>1. Good(y(n))
      BY <1>2, <2>1
    <3> QED BY <3>1, PieceIs
  <2> QED BY <2>2, <2>3, <2>4
<1> QED BY <1>7

LEMMA ContainerRereads ==
  ASSUME NEW t \in Seq(Byte), NEW x, Good(x), x.type \in {"array", "object"},
         \A i \in 1..Len(x.kids) : Rereads(t, x.kids[i])
  PROVE  Rereads(t, x)
<1> DEFINE text == cJSON_PrintUnformatted(x)
           type == x.type
           kids == x.kids
           k    == Len(kids)
           a    == Opening[type]
           b    == Closing[type]
           f    == Items(t)
<1>0. PICK g : /\ text = <<a>> \o g[k]
               /\ g[0] = <<b>>
               /\ \A i \in 0..k : g[i] \in Seq(Byte)
               /\ TailsOf(x, g)
  BY Tails
<1>1. /\ text = <<a>> \o g[k]
      /\ g[0] = <<b>>
      /\ \A i \in 0..k : g[i] \in Seq(Byte)
      /\ \A i \in 1..k :
           g[i] = Piece(type, kids[k + 1 - i]) \o (IF i = 1 THEN <<b>> ELSE <<Comma>> \o g[i - 1])
  BY <1>0 DEF TailsOf
<1>2. k >= 1 => /\ ItemsBack(t, type, kids, g[k]) /\ g[k][1] \notin Blank /\ g[k][1] \notin {93, 125}
  BY <1>0, TailsBack
<1> DEFINE tail == g[k]
<1>3. /\ Len(t) \in Nat /\ k \in Nat /\ tail \in Seq(Byte) /\ Len(tail) \in Nat /\ Len(text) = Len(tail) + 1
      /\ text = <<a>> \o tail /\ a \in Byte
  <2>1. Len(t) \in Nat /\ k \in Nat
    BY SeqIs, GoodIs
  <2>2. tail \in Seq(Byte) /\ text = <<a>> \o tail
    <3>1. k \in 0..k
      BY <2>1
    <3> HIDE DEF k
    <3> QED BY <1>1, <3>1
  <2>3. a \in Byte
    BY BytesAre DEF Opening
  <2> HIDE DEF tail, a, text
  <2>4. Len(<<a>> \o tail) = Len(tail) + 1 /\ Len(tail) \in Nat
    BY <2>2, <2>3
  <2> QED BY <2>1, <2>2, <2>3, <2>4
<1>4. b \in {93, 125} /\ b \notin Blank /\ b \in Byte /\ a \in {91, 123} /\ a \notin Blank
      /\ (type = "array" => a = 91) /\ (type = "object" => a = 123)
  <2>1. b \in {93, 125} /\ a \in {91, 123} /\ (type = "array" => a = 91) /\ (type = "object" => a = 123)
    BY DEF Closing, Opening
  <2> HIDE DEF a, b
  <2> QED BY <2>1, BytesAre DEF Blank
<1>5. k = 0 => tail = <<b>>
  BY <1>1
<1>6. Bare(x).type = type /\ Bare(x).key = <<>> /\ Bare(x).kids = kids /\ Good(Bare(x))
  <2> DEFINE e == <<>>
  <2>1. e \in Seq(Byte)
    OBVIOUS
  <2> HIDE DEF e
  <2>2. Good([x EXCEPT !.key = e])
    BY <2>1, KeyedGood
  <2>3. Good(Bare(x))
    BY <2>2 DEF e, Bare
  <2> QED BY <2>3, BareIs
<1> HIDE DEF text, a, b, tail
<1>7. ASSUME NEW p \in Places(t), NEW n \in 0..Len(text), Runs(t, p, text, n), n > 0
      PROVE  /\ n = Len(text) => ValueAt(t, p, f) = Parsed(Bare(x), p + n)
             /\ n < Len(text) /\ Joint(t, p + n) => ValueAt(t, p, f) = Null
  <2> DEFINE q == p + 1
             m == n - 1
             r == Container(t, p, type, f)
             z == p + n
  <2>1. /\ p \in 1..Len(t) /\ t[p] = a /\ q \in Places(t) /\ q \in Nat /\ m \in 0..Len(tail) /\ q + m = z
        /\ Runs(t, q, tail, m) /\ (n = Len(text) <=> m = Len(tail)) /\ z # 0
    <3>1. p \in 1..Len(t) /\ t[p] = text[1]
      <4>1. n \in Nat
        BY <1>3
      <4> QED BY <1>3, <1>7, <4>1, RunsAt
    <3>2. text[1] = a
      BY <1>3
    <3>3. q \in Places(t) /\ q \in Nat /\ m \in 0..Len(tail) /\ q + m = z /\ (n = Len(text) <=> m = Len(tail)) /\ z # 0
      BY <1>3, <1>7, <3>1 DEF Places
    <3>4. Runs(t, q, tail, m)
      <4> DEFINE one == <<a>>
      <4>1. one \in Seq(Byte) /\ Len(one) = 1 /\ text = one \o tail
        BY <1>3
      <4>2. p \in Nat /\ n >= 1 /\ n \in 0..Len(one \o tail) /\ Runs(t, p, one \o tail, n)
        BY <1>3, <1>7, <3>1, <4>1
      <4> HIDE DEF one
      <4>3. n >= Len(one) => Runs(t, p + Len(one), tail, n - Len(one))
        BY <1>3, <4>1, <4>2, RunsParts
      <4> QED BY <4>1, <4>2, <4>3
    <3> QED BY <3>1, <3>2, <3>3, <3>4
  <2>2. ValueAt(t, p, f) = r
    <3>1. CASE type = "array"
      BY <1>3, <1>4, <2>1, <3>1, ValueHere
    <3>2. CASE type = "object"
      BY <1>3, <1>4, <2>1, <3>2, ValueHere
    <3> QED BY <3>1, <3>2
  <2>3. SkipWs(t, q) = q =>
          /\ At(t, q, b) => r = Parsed(Node(type), q + 1)
          /\ ~At(t, q, b) => r = ItemsAt(t, q, type, f)
    <3>1. p \in Places(t) /\ p <= Len(t)
      BY <2>1 DEF Places
    <3>2. PICK y \in Places(t) :
             /\ y > p /\ y = SkipWs(t, p + 1)
             /\ At(t, y, Closing[type]) => Container(t, p, type, f) = Parsed(Node(type), y + 1)
             /\ ~At(t, y, Closing[type]) => Container(t, p, type, f) = f[y][type]
      BY <1>3, <3>1, ContainerIs
    <3>3. f[q][type] = ItemsAt(t, q, type, f)
      BY <2>1, ItemsIs
    <3> QED BY <3>2, <3>3 DEF b
  <2> HIDE DEF q, m, z, r
  <2>4. ASSUME n < Len(text), Joint(t, z) PROVE r = Null
    <3>1. CASE m = 0
      <4>1. z = q
        BY <2>1, <3>1
      <4>2. q > Len(t) \/ t[q] = 123
        BY <1>3, <2>1, <2>4, <4>1 DEF Joint, Breaks
      <4>3. SkipWs(t, q) = q
        <5>1. 123 \notin Blank
          BY DEF Blank
        <5> QED BY <1>3, <2>1, <4>2, <5>1, SkipNone
      <4>4. ~At(t, q, b)
        BY <1>3, <1>4, <2>1, <4>2 DEF At
      <4>5. ItemsAt(t, q, type, f) = Null
        BY <2>1, <2>4, <4>1, NoItems
      <4> QED BY <2>3, <4>3, <4>4, <4>5
    <3>2. CASE m # 0
      <4>1. k >= 1 /\ m < Len(tail) /\ m > 0 /\ m \in Nat
        <5>1. m < Len(tail) /\ m > 0 /\ m \in Nat
          BY <1>3, <2>1, <2>4, <3>2
        <5>2. k # 0
          <6> SUFFICES ASSUME k = 0 PROVE FALSE
            OBVIOUS
          <6>1. Len(tail) = 1
            BY <1>5
          <6> QED BY <5>1, <6>1
        <5> QED BY <1>3, <5>1, <5>2
      <4>2. t[q] = tail[1] /\ q \in 1..Len(t)
        BY <1>3, <2>1, <4>1, RunsAt
      <4>3. SkipWs(t, q) = q
        BY <1>2, <1>3, <2>1, <4>1, <4>2, SkipNone DEF tail
      <4>4. ~At(t, q, b)
        BY <1>2, <1>4, <4>1, <4>2 DEF At, tail
      <4>5. ItemsAt(t, q, type, f) = Null
        <5>1. ItemsBack(t, type, kids, tail)
          BY <1>2, <4>1 DEF tail
        <5> QED BY <2>1, <2>4, <4>1, <5>1 DEF ItemsBack
      <4> QED BY <2>3, <4>3, <4>4, <4>5
    <3> QED BY <3>1, <3>2
  <2>5. ASSUME n = Len(text) PROVE r = Parsed(Bare(x), z)
    <3>0. m = Len(tail)
      BY <2>1, <2>5
    <3>1. CASE k = 0
      <4>1. m = 1 /\ tail[1] = b /\ kids = <<>>
        <5>1. kids = <<>>
          <6>1. kids = [i \in 1..k |-> kids[i]]
            BY GoodIs
          <6> HIDE DEF kids
          <6> QED BY <3>1, <6>1
        <5> QED BY <1>5, <3>0, <3>1, <5>1
      <4>2. t[q] = tail[1] /\ q \in 1..Len(t)
        <5>1. m \in Nat /\ m > 0
          BY <4>1
        <5> QED BY <1>3, <2>1, <5>1, RunsAt
      <4>3. SkipWs(t, q) = q
        BY <1>3, <1>4, <2>1, <4>1, <4>2, SkipNone
      <4>4. At(t, q, b)
        BY <4>1, <4>2 DEF At
      <4>5. r = Parsed(Node(type), q + 1) /\ q + 1 = z
        BY <2>1, <2>3, <4>1, <4>3, <4>4
      <4>6. Node(type) = Bare(x)
        <5>1. Good(Node(type)) /\ Node(type).type = type /\ Node(type).key = <<>> /\ Node(type).kids = <<>>
          BY PlainGood DEF Kinds
        <5> DEFINE v == Node(type)
                   w == Bare(x)
        <5>2. /\ Good(v) /\ Good(w) /\ v.type = w.type /\ v.type \notin {"string", "number"}
              /\ v.key = w.key /\ v.kids = w.kids
          BY <1>6, <4>1, <5>1
        <5> HIDE DEF v, w
        <5>3. v = w
          BY <5>2, SameTree
        <5> QED BY <5>3 DEF v, w
      <4> QED BY <4>5, <4>6
    <3>2. CASE k # 0
      <4>1. k >= 1 /\ ItemsBack(t, type, kids, tail)
        BY <1>2, <1>3, <3>2 DEF tail
      <4>2. PICK w : /\ Good(w) /\ w.type = type /\ w.key = <<>> /\ w.kids = kids
                     /\ ItemsAt(t, q, type, f) = Parsed(w, q + m)
        BY <2>1, <3>0, <4>1 DEF ItemsBack
      <4>3. w = Bare(x)
        <5> DEFINE v == Bare(x)
        <5>1. /\ Good(v) /\ v.type = w.type /\ w.type \notin {"string", "number"}
              /\ v.key = w.key /\ v.kids = w.kids
          BY <1>6, <4>2
        <5> HIDE DEF v
        <5>2. w = v
          BY <4>2, <5>1, SameTree
        <5> QED BY <5>2 DEF v
      <4>4. m > 0 /\ m \in Nat
        <5>1. tail # <<>>
          <6>1. n > 0 /\ Len(text) = Len(tail) + 1 /\ Len(text) > 1
            <7>1. Len(tail) >= 1
              <8>1. g[k] = Piece(type, kids[k + 1 - k]) \o (IF k = 1 THEN <<b>> ELSE <<Comma>> \o g[k - 1])
                <9>1. k \in 1..k
                  BY <1>3, <4>1
                <9> QED BY <1>1, <9>1 DEF b
              <8> DEFINE u == Piece(type, kids[k + 1 - k])
                         c == Comma
                         h == g[k - 1]
              <8>2. u \in Seq(Byte) /\ Len(u) >= 1
                <9>1. k + 1 - k \in 1..k
                  BY <1>3, <4>1
                <9>2. Good(kids[k + 1 - k])
                  BY <9>1, GoodIs
                <9> QED BY <9>2, PieceIs
              <8>3. h \in Seq(Byte) /\ c \in Byte
                <9>1. k - 1 \in 0..k
                  BY <1>3, <4>1
                <9>2. c \in Byte
                  BY BytesAre DEF Comma
                <9>3. h \in Seq(Byte)
                  <10> HIDE DEF k
                  <10> QED BY <1>1, <9>1
                <9> QED BY <9>2, <9>3
              <8>4. tail = u \o <<b>> \/ tail = u \o (<<c>> \o h)
                BY <8>1 DEF tail
              <8> HIDE DEF u, c, h
              <8>5. Len(u \o <<b>>) >= 1 /\ Len(u \o (<<c>> \o h)) >= 1
                BY <1>4, <8>2, <8>3
              <8> QED BY <8>4, <8>5
            <7> QED BY <1>3, <1>7, <7>1
          <6> QED BY <1>3, <6>1
        <5> QED BY <1>3, <3>0, <5>1
      <4>5. t[q] = tail[1] /\ q \in 1..Len(t)
        BY <1>3, <2>1, <4>4, RunsAt
      <4>6. SkipWs(t, q) = q
        BY <1>2, <1>3, <2>1, <4>1, <4>5, SkipNone DEF tail
      <4>7. ~At(t, q, b)
        BY <1>2, <1>4, <4>1, <4>5 DEF At, tail
      <4> QED BY <2>1, <2>3, <4>2, <4>3, <4>6, <4>7
    <3> QED BY <3>1, <3>2
  <2> QED BY <2>2, <2>4, <2>5 DEF z
<1>8. ASSUME NEW p \in Places(t), NEW n \in 0..Len(text) PROVE Reread(t, x, p, n)
  <2> SUFFICES ASSUME Runs(t, p, text, n)
               PROVE  /\ n = Len(text) => ValueAt(t, p, f) = Parsed(Bare(x), p + n)
                      /\ n < Len(text) /\ Joint(t, p + n) => Stuck(t, ValueAt(t, p, f))
                      /\ n < Len(text) /\ n > 0 /\ Joint(t, p + n) => ValueAt(t, p, f) = Null
    BY DEF Reread, text
  <2>1. CASE n > 0
    BY <1>7, <2>1 DEF Stuck
  <2>2. CASE n = 0
    BY <1>3, <2>2, NothingYet
  <2>3. n \in Nat
    BY <1>3
  <2> QED BY <2>1, <2>2, <2>3
<1> QED BY <1>8 DEF Rereads, text

(* What is printed is read as what was printed, wherever it stands, and    *)
(* what breaks off before its end is not read.                             *)
LEMMA EveryReread ==
  ASSUME NEW t \in Seq(Byte), NEW v, Good(v)
  PROVE  Rereads(t, v)
<1> DEFINE k == v.deep
           S == {x \in Trees[k] : Rereads(t, x)}
<1>1. k \in Nat
  BY GoodIs DEF Tidy
<1>2. ASSUME NEW x \in Trees[k], Good(x), \A i \in 1..Len(x.kids) : x.kids[i] \in S PROVE x \in S
  <2>1. CASE x.type = "string"
    BY <1>2, <2>1, StringRereads
  <2>2. CASE x.type = "number"
    BY <1>2, <2>2, NumberRereads
  <2>3. CASE x.type \in {"array", "object"}
    BY <1>2, <2>3, ContainerRereads
  <2>4. CASE x.type \notin {"string", "number", "array", "object"}
    BY <1>2, <2>4, LiteralRereads
  <2> QED BY <2>1, <2>2, <2>3, <2>4
<1>3. v.deep <= k
  BY <1>1
<1> HIDE DEF S
<1>4. \A x : Good(x) /\ x.deep <= k => x \in S
  <2> HIDE DEF k
  <2> QED BY <1>1, <1>2, TreeInduction
<1> QED BY <1>3, <1>4 DEF S

(* The parser is the inverse of the printer: a node that is printed and    *)
(* parsed again is the node it was, whatever its strings, numbers and      *)
(* children are (tinyjson.h:217-358, 378-454).                             *)
THEOREM PrintedIsParsed ==
  ASSUME NEW v, Good(v), v.key = <<>>
  PROVE  LET text == cJSON_PrintUnformatted(v) IN cJSON_Parse(text) = Parsed(v, Len(text) + 1)
<1> DEFINE text == cJSON_PrintUnformatted(v)
           n    == Len(text)
<1>1. text \in Seq(Byte) /\ n \in Nat
  BY TextStarts
<1>2. CString(text) = text
  <2> HIDE DEF text
  <2>1. text \in Seq(Char)
    BY <1>1, ByteIsChar
  <2> QED BY <1>1, <2>1, CStringIs
<1>3. Rereads(text, v)
  BY <1>1, EveryReread
<1>4. 1 \in Places(text) /\ n \in 0..n /\ Runs(text, 1, text, n)
  BY <1>1 DEF Places, Runs, At
<1>5. Follows(text, 1 + n)
  BY <1>1 DEF Follows
<1>6. Reread(text, v, 1, n)
  BY <1>3, <1>4 DEF Rereads
<1>7. ValueAt(text, 1, Items(text)) = Parsed(Bare(v), 1 + n)
  BY <1>4, <1>5, <1>6 DEF Reread
<1>8. Bare(v) = v /\ 1 + n = n + 1
  BY <1>1, BareIs
<1> QED BY <1>2, <1>7, <1>8 DEF cJSON_Parse

-----------------------------------------------------------------------------
(* Lines that several writes have made.                                    *)

(* What every message of main.c starts with: a bracket, a quote, a letter. *)
LEMMA MessageText ==
  ASSUME NEW c \in Seq(Byte)
  PROVE  LET text == cJSON_PrintUnformatted(Message(c))
         IN  /\ text \in Seq(Byte) /\ Len(text) \in Nat /\ Len(text) >= 3
             /\ text[1] = 123 /\ text[2] = Quote /\ text[3] = 114
<1> DEFINE v    == Message(c)
           kid  == [StringNode(c) EXCEPT !.key = <<114>>]
           text == cJSON_PrintUnformatted(v)
<1>1. Good(v) /\ v.type = "object" /\ v.kids = <<kid>>
  BY MessageIs
<1>2. v.kids[1] = kid /\ Len(v.kids) = 1
  <2> HIDE DEF kid
  <2> QED BY <1>1
<1>3. Good(kid) /\ kid.key = <<114>>
  <2> DEFINE k == <<114>>
  <2>1. k \in Seq(Byte)
    <3>1. 114 \in Byte
      BY BytesAre
    <3> QED BY <3>1
  <2> HIDE DEF k
  <2>2. Good([StringNode(c) EXCEPT !.key = k]) /\ [StringNode(c) EXCEPT !.key = k].key = k
    BY <2>1, StringGood, KeyedGood
  <2> QED BY <2>2 DEF k
<1> HIDE DEF v, kid
<1>4. RawText(<<114>>) = <<114>>
  <2>1. 114 \in Byte
    BY BytesAre
  <2>2. Escape(114) = <<114>>
    <3>1. ~ \E e \in Letters : Meaning(e) = 114
      BY DEF Letters, Meaning
    <3> QED BY <3>1 DEF Escape
  <2> DEFINE none == <<>>
  <2>3. none \in Seq(Byte) /\ RawText(none) = none
    BY RawTextIs
  <2> HIDE DEF none
  <2>4. RawText(Append(none, 114)) = none \o <<114>>
    BY <2>1, <2>2, <2>3, RawTextIs
  <2>5. Append(none, 114) = <<114>> /\ none \o <<114>> = <<114>>
    BY <2>1 DEF none
  <2> QED BY <2>4, <2>5
<1>5. PrintString(<<114>>) = <<Quote, 114, Quote>>
  <2>1. PrintString(<<114>>) = <<Quote>> \o <<114>> \o <<Quote>>
    BY <1>4 DEF RawText, PrintString
  <2> QED BY <2>1
<1> DEFINE text2 == Piece("object", kid)
<1>6. Len(text2) >= 2 /\ text2[1] = Quote /\ text2[2] = 114 /\ text2 \in Seq(Byte)
  <2> DEFINE p == cJSON_PrintUnformatted(kid)
             a == Quote
             b == Colon
  <2>1. text2 = <<a, 114, a>> \o <<b>> \o p /\ p \in Seq(Byte)
    BY <1>3, <1>5, TextStarts DEF Piece
  <2>2. a \in Byte /\ b \in Byte /\ 114 \in Byte
    BY BytesAre DEF Quote, Colon
  <2> HIDE DEF text2, p, a, b
  <2>3. LET u == <<a, 114, a>> \o <<b>> \o p IN Len(u) >= 2 /\ u[1] = a /\ u[2] = 114 /\ u \in Seq(Byte)
    BY <2>1, <2>2
  <2> QED BY <2>1, <2>3 DEF a
<1>7. PICK g : text = <<Opening["object"]>> \o g[1] /\ g[1] = Piece("object", v.kids[1]) \o <<Closing["object"]>>
  <2>1. PICK g : /\ cJSON_PrintUnformatted(v) = <<Opening[v.type]>> \o g[Len(v.kids)]
                 /\ TailsOf(v, g)
    BY <1>1, Tails
  <2>2. 1 \in 1..Len(v.kids) /\ Len(v.kids) + 1 - 1 = 1
    BY <1>2
  <2>3. g[1] = Piece("object", v.kids[1]) \o <<Closing["object"]>>
    <3>1. g[1] = Piece(v.type, v.kids[Len(v.kids) + 1 - 1]) \o <<Closing[v.type]>>
      BY <2>1, <2>2 DEF TailsOf
    <3> QED BY <1>1, <2>2, <3>1
  <2>4. text = <<Opening["object"]>> \o g[1]
    BY <1>1, <1>2, <2>1
  <2> QED BY <2>3, <2>4
<1>8. text = <<123>> \o (text2 \o <<125>>)
  BY <1>2, <1>7 DEF Opening, Closing
<1>9. text \in Seq(Byte) /\ Len(text) \in Nat
  BY <1>1, TextStarts
<1> HIDE DEF text, text2
<1>10. LET u == <<123>> \o (text2 \o <<125>>) IN Len(u) >= 3 /\ u[1] = 123 /\ u[2] = text2[1] /\ u[3] = text2[2]
  <2>1. 123 \in Byte /\ 125 \in Byte
    BY BytesAre
  <2> QED BY <1>6, <2>1
<1> QED BY <1>6, <1>8, <1>9, <1>10 DEF text, v

(* B: where, in a line, the pieces of messages begin that make it up, and  *)
(* its end.                                                                *)
Bound(t, B) ==
  /\ B \subseteq Places(t)
  /\ \A b \in B :
       \/ b = Len(t) + 1
       \/ \E c \in Seq(Byte) : \E n \in 1..Len(cJSON_PrintUnformatted(Message(c))) :
            Runs(t, b, cJSON_PrintUnformatted(Message(c)), n) /\ b + n \in B

LEMMA EndJoint ==
  ASSUME NEW t \in Seq(Byte)
  PROVE  Joint(t, Len(t) + 1)
<1> DEFINE p == Len(t) + 1
<1>1. Len(t) \in Nat /\ p \in Places(t) /\ p > Len(t)
  BY SeqIs DEF Places
<1>2. ValueAt(t, p, Items(t)) = Null
  <2>1. PICK q \in Places(t) : q >= p /\ (q > Len(t) => ValueAt(t, p, Items(t)) = Null)
    BY <1>1, ValueIs
  <2>2. q > Len(t)
    BY <1>1, <2>1 DEF Places
  <2> QED BY <2>1, <2>2
<1>3. Chars(t)[p] = Null
  BY <1>1, CharsEnd
<1> QED BY <1>2, <1>3 DEF Joint, Breaks, Stuck

LEMMA BoundBreaks ==
  ASSUME NEW t \in Seq(Byte), NEW B, Bound(t, B), NEW b \in B
  PROVE  Breaks(t, b) /\ b \in Places(t)
<1>1. b \in Places(t) /\ Len(t) \in Nat
  BY SeqIs DEF Bound
<1>2. CASE b # Len(t) + 1
  <2>1. PICK c \in Seq(Byte) : \E n \in 1..Len(cJSON_PrintUnformatted(Message(c))) :
          Runs(t, b, cJSON_PrintUnformatted(Message(c)), n)
    BY <1>2 DEF Bound
  <2>9. PICK n \in 1..Len(cJSON_PrintUnformatted(Message(c))) :
          Runs(t, b, cJSON_PrintUnformatted(Message(c)), n)
    BY <2>1
  <2>2. n \in Nat /\ n > 0
    BY MessageText
  <2>3. b \in 1..Len(t) /\ t[b] = cJSON_PrintUnformatted(Message(c))[1]
    BY <1>1, <2>9, <2>2, RunsAt
  <2>4. t[b] = 123
    BY <2>3, MessageText
  <2> QED BY <1>1, <2>3, <2>4 DEF Breaks
<1> QED BY <1>1, <1>2 DEF Breaks

(* Wherever a piece begins, a value or a string that was open gets stuck.  *)
LEMMA BoundJoint ==
  ASSUME NEW t \in Seq(Byte), NEW B, Bound(t, B)
  PROVE  \A b \in B : Joint(t, b)
<1> DEFINE m == Len(t) + 1
           S == {p \in Places(t) : p \in B => Joint(t, p)}
           f == Items(t)
<1>1. Len(t) \in Nat /\ m \in Nat /\ Places(t) = 1..m
  BY SeqIs DEF Places
<1>2. ASSUME NEW p \in 1..m, \A q \in 1..m : q > p => q \in S PROVE p \in S
  <2> SUFFICES ASSUME p \in B PROVE Joint(t, p)
    BY <1>1
  <2>1. CASE p = m
    BY <2>1, EndJoint
  <2>2. CASE p # m
    <3>0. PICK c \in Seq(Byte) : \E n \in 1..Len(cJSON_PrintUnformatted(Message(c))) :
            Runs(t, p, cJSON_PrintUnformatted(Message(c)), n) /\ p + n \in B
      BY <2>2 DEF Bound
    <3>1. PICK n \in 1..Len(cJSON_PrintUnformatted(Message(c))) :
            Runs(t, p, cJSON_PrintUnformatted(Message(c)), n) /\ p + n \in B
      BY <3>0
    <3> DEFINE v    == Message(c)
               text == cJSON_PrintUnformatted(v)
               z    == p + n
    <3>2. /\ text \in Seq(Byte) /\ Len(text) \in Nat /\ Len(text) >= 3
          /\ text[1] = 123 /\ text[2] = Quote /\ text[3] = 114
      BY MessageText
    <3> HIDE DEF text
    <3>3. p \in Places(t) /\ p \in Nat /\ n \in Nat /\ n > 0 /\ n <= Len(text) /\ z \in B /\ z \in Places(t)
      <4>1. n \in 1..Len(text) /\ z \in B
        BY <3>1 DEF text
      <4>2. z \in Places(t)
        BY <4>1, BoundBreaks
      <4> QED BY <1>1, <3>2, <4>1, <4>2
    <3>4. Joint(t, z) /\ Breaks(t, z)
      <4>1. z > p
        BY <3>3
      <4>2. z \in 1..m
        BY <1>1, <3>3
      <4> HIDE DEF z
      <4>3. Joint(t, z)
        BY <1>2, <3>3, <4>1, <4>2
      <4> QED BY <4>3 DEF Joint
    <3>5. Follows(t, z) /\ DeadEnd(t, z)
      BY <1>1, <3>4, BreakFollows
    <3>6. Breaks(t, p)
      BY BoundBreaks
    <3>7. Stuck(t, ValueAt(t, p, f))
      <4>1. Reread(t, v, p, n)
        <5>1. Good(v)
          BY MessageIs
        <5>2. Rereads(t, v)
          BY <5>1, EveryReread
        <5>3. n \in 0..Len(text)
          BY <3>2, <3>3
        <5> QED BY <3>3, <5>2, <5>3 DEF Rereads, text
      <4>2. Runs(t, p, text, n)
        BY <3>1 DEF text
      <4>3. /\ n = Len(text) => ValueAt(t, p, f) = Parsed(Bare(v), z)
            /\ n < Len(text) => Stuck(t, ValueAt(t, p, f))
        BY <3>4, <3>5, <4>1, <4>2 DEF Reread, text
      <4>4. Parsed(Bare(v), z).pos = z
        BY DEF Parsed
      <4>5. n = Len(text) \/ n < Len(text)
        BY <3>2, <3>3
      <4> QED BY <3>5, <4>3, <4>4, <4>5 DEF Stuck
    <3>8. Stuck(t, Chars(t)[p])
      <4>1. Runs(t, p, text, n) /\ \A i \in 1..n : p + i - 1 \in 1..Len(t) /\ t[p + i - 1] = text[i]
        BY <1>1, <3>1, <3>3, RunsTo DEF text
      <4>2. p \in 1..Len(t) /\ t[p] = 123
        <5>1. 1 \in 1..n /\ p + 1 - 1 = p
          BY <3>3
        <5> QED BY <3>2, <4>1, <5>1
      <4> DEFINE q == p + 1
                 r == Chars(t)[q]
                 one == <<123>>
      <4>3. q \in Places(t) /\ q \in Nat
        BY <1>1, <4>2
      <4>4. Chars(t)[p] = Put(one, r)
        <5>1. Chars(t)[p] = CharAt(t, p, Chars(t))
          BY <1>1, <3>3, CharsIs
        <5>2. t[p] # Quote /\ t[p] # Backslash /\ ~(p > Len(t))
          BY <1>1, <4>2 DEF Quote, Backslash
        <5> QED BY <4>2, <5>1, <5>2 DEF CharAt
      <4> HIDE DEF q
      <4>5. Stuck(t, r)
        <5>1. CASE n = 1
          <6>1. q = z
            BY <5>1 DEF q
          <6> QED BY <3>4, <6>1 DEF Joint
        <5>2. CASE n # 1
          <6>1. q \in 1..Len(t) /\ t[q] = Quote
            <7>1. 2 \in 1..n /\ p + 2 - 1 = q
              BY <3>3, <5>2 DEF q
            <7> QED BY <3>2, <4>1, <7>1
          <6>2. r = Parsed(Node("string"), q + 1)
            <7>1. r = CharAt(t, q, Chars(t))
              BY <1>1, <4>3, CharsIs
            <7>2. ~(q > Len(t))
              BY <1>1, <6>1
            <7> QED BY <6>1, <7>1, <7>2 DEF CharAt
          <6>3. r.pos = q + 1
            BY <6>2 DEF Parsed
          <6>4. DeadEnd(t, q + 1)
            <7>1. CASE n = 2
              <8>1. q + 1 = z
                BY <3>3, <7>1 DEF q
              <8> QED BY <3>5, <8>1
            <7>2. CASE n # 2
              <8>1. 3 \in 1..n /\ p + 3 - 1 = q + 1
                BY <3>3, <5>2, <7>2 DEF q
              <8>2. q + 1 \in 1..Len(t) /\ t[q + 1] = 114
                BY <3>2, <4>1, <8>1, SMTT(40)
              <8> QED BY <8>2 DEF DeadEnd
            <7> QED BY <7>1, <7>2
          <6> QED BY <6>3, <6>4 DEF Stuck
        <5> QED BY <5>1, <5>2
      <4>6. RawIs(t, q, r)
        BY <4>3, CharsType
      <4>7. one \in Seq(Char)
        <5>1. 123 \in Char
          BY BytesAre
        <5> QED BY <5>1
      <4> HIDE DEF one, r
      <4>8. Stuck(t, Put(one, r))
        BY <4>5, <4>6, <4>7, PutTwice
      <4> QED BY <4>4, <4>8
    <3> QED BY <3>6, <3>7, <3>8 DEF Joint
  <2> QED BY <2>1, <2>2
<1> HIDE DEF S
<1>3. \A p \in 1..m : p \in S
  <2> HIDE DEF m
  <2> QED BY <1>1, <1>2, DownInduction
<1>4. \A b \in B : b \in Places(t)
  BY DEF Bound
<1> QED BY <1>1, <1>3, <1>4 DEF S

(* What a line of a message may begin with: a number could be cut into a   *)
(* number, and a string be closed by what is written after it.             *)
Sayable(m) == Good(m) /\ m.key = <<>> /\ m.type \notin {"string", "number"}

(* The line t begins with n bytes of m, and goes on with other pieces.     *)
MadeOf(t, m, n) ==
  /\ n \in 1..Len(cJSON_PrintUnformatted(m)) /\ Runs(t, 1, cJSON_PrintUnformatted(m), n)
  /\ \E B : Bound(t, B) /\ 1 + n \in B

(* Such a line is the message it begins with, or nothing.                  *)
LEMMA MadeParse ==
  ASSUME NEW t \in Seq(Byte), NEW m, Sayable(m), NEW n, MadeOf(t, m, n)
  PROVE  /\ n = Len(cJSON_PrintUnformatted(m)) => cJSON_Parse(t) = Parsed(m, 1 + n)
         /\ n # Len(cJSON_PrintUnformatted(m)) => cJSON_Parse(t) = Null
<1> DEFINE text == cJSON_PrintUnformatted(m)
           z    == 1 + n
<1>1. Good(m) /\ Bare(m) = m /\ m.type \notin {"string", "number"} /\ Len(t) \in Nat /\ Len(text) \in Nat
  BY BareIs, TextStarts, SeqIs DEF Sayable
<1>2. PICK B : Bound(t, B) /\ z \in B
  BY DEF MadeOf
<1>3. Joint(t, z)
  BY <1>2, BoundJoint
<1>4. Follows(t, z)
  BY <1>1, <1>3, BreakFollows DEF Joint
<1> HIDE DEF text
<1>5. n \in 0..Len(text) /\ n > 0 /\ (n # Len(text) => n < Len(text)) /\ Runs(t, 1, text, n)
  <2>1. n \in 1..Len(text) /\ Runs(t, 1, text, n)
    BY DEF MadeOf, text
  <2> QED BY <1>1, <2>1
<1>6. 1 \in Places(t)
  BY <1>1 DEF Places
<1>7. Reread(t, m, 1, n)
  BY <1>1, <1>5, <1>6, EveryReread DEF Rereads, text
<1> DEFINE r == ValueAt(t, 1, Items(t))
<1>8. (n = Len(text) => r = Parsed(m, z)) /\ (n # Len(text) => r = Null)
  BY <1>1, <1>3, <1>4, <1>5, <1>7 DEF Reread, text
<1>9. cJSON_Parse(t) = r
  <2>1. CString(t) = t
    BY ByteIsChar, CStringIs
  <2> QED BY <2>1 DEF cJSON_Parse
<1> QED BY <1>8, <1>9 DEF text

LEMMA MadeFirst ==
  ASSUME NEW m, Good(m), NEW n \in 1..Len(cJSON_PrintUnformatted(m))
  PROVE  MadeOf(SubSeq(cJSON_PrintUnformatted(m), 1, n), m, n)
<1> DEFINE text == cJSON_PrintUnformatted(m)
           t    == SubSeq(text, 1, n)
           B    == {Len(t) + 1}
<1>1. text \in Seq(Byte) /\ Len(text) \in Nat
  BY TextStarts
<1> HIDE DEF text
<1>2. n \in 0..Len(text) /\ n \in 1..Len(text) /\ n \in Nat
  <2>1. n \in 1..Len(text)
    BY DEF text
  <2> QED BY <1>1, <2>1
<1>3. t \in Seq(Byte) /\ Len(t) = n /\ \A i \in 1..n : t[i] = text[i]
  BY <1>1, <1>2, PrefixOf
<1> HIDE DEF t
<1>4. Runs(t, 1, text, n)
  <2>1. ASSUME NEW i \in 1..n PROVE At(t, 1 + i - 1, text[i])
    <3>1. 1 + i - 1 = i /\ i <= n
      BY <1>2
    <3> QED BY <1>3, <3>1 DEF At
  <2> QED BY <2>1 DEF Runs
<1>5. Bound(t, B)
  BY <1>2, <1>3 DEF Bound, Places
<1>6. 1 + n \in B
  BY <1>2, <1>3
<1> HIDE DEF B
<1>7. MadeOf(t, m, n)
  BY <1>2, <1>4, <1>5, <1>6 DEF MadeOf, text
<1> QED BY <1>7 DEF t, text

LEMMA RunsLonger ==
  ASSUME NEW t \in Seq(Byte), NEW x \in Seq(Byte), NEW p \in Nat, p >= 1, NEW s, NEW n \in Nat, Runs(t, p, s, n)
  PROVE  Runs(t \o x, p, s, n)
<1> DEFINE u == t \o x
<1>1. Len(t) \in Nat /\ Len(u) = Len(t) + Len(x) /\ Len(x) \in Nat /\ \A i \in 1..Len(t) : u[i] = t[i]
  BY TogetherIs, SeqIs
<1> HIDE DEF u
<1>2. ASSUME NEW i \in 1..n PROVE At(u, p + i - 1, s[i])
  <2> DEFINE j == p + i - 1
  <2>1. At(t, j, s[i])
    BY DEF Runs
  <2>2. j >= 1 /\ j \in Nat
    OBVIOUS
  <2> HIDE DEF j
  <2>3. j \in 1..Len(t) /\ t[j] = s[i]
    BY <1>1, <2>1, <2>2 DEF At
  <2>4. At(u, j, s[i])
    BY <1>1, <2>3 DEF At
  <2> QED BY <2>4 DEF j
<1>3. Runs(u, p, s, n)
  BY <1>2 DEF Runs
<1> QED BY <1>3 DEF u

(* More of a message behind it.                                            *)
LEMMA MadeMore ==
  ASSUME NEW t \in Seq(Byte), NEW m, Good(m), NEW n, MadeOf(t, m, n), NEW c \in Seq(Byte),
         NEW k \in 1..Len(cJSON_PrintUnformatted(Message(c)))
  PROVE  MadeOf(t \o SubSeq(cJSON_PrintUnformatted(Message(c)), 1, k), m, n)
<1> DEFINE text == cJSON_PrintUnformatted(m)
           more == cJSON_PrintUnformatted(Message(c))
           x    == SubSeq(more, 1, k)
           u    == t \o x
           e    == Len(t) + 1
           z    == Len(u) + 1
<1>1. more \in Seq(Byte) /\ Len(more) \in Nat /\ Len(text) \in Nat /\ Len(t) \in Nat
  BY MessageText, TextStarts, SeqIs
<1>0. n \in 1..Len(text) /\ Runs(t, 1, text, n)
  BY DEF MadeOf
<1>2. PICK B : Bound(t, B) /\ 1 + n \in B
  BY DEF MadeOf
<1> HIDE DEF more, text
<1>3. k \in 0..Len(more) /\ k \in 1..Len(more) /\ k \in Nat
  <2>1. k \in 1..Len(more)
    BY DEF more
  <2> QED BY <1>1, <2>1
<1>4. x \in Seq(Byte) /\ Len(x) = k /\ \A i \in 1..k : x[i] = more[i]
  BY <1>1, <1>3, PrefixOf
<1> HIDE DEF x
<1>5. u \in Seq(Byte) /\ Len(u) = Len(t) + k /\ \A i \in 1..k : u[Len(t) + i] = x[i]
  <2>1. /\ t \o x \in Seq(Byte) /\ Len(t \o x) = Len(t) + Len(x)
        /\ \A i \in 1..Len(x) : (t \o x)[Len(t) + i] = x[i]
    <3>1. t \in Seq(Byte) /\ x \in Seq(Byte)
      BY <1>4
    <3> HIDE DEF u
    <3>2. t \o x \in Seq(Byte)
      BY <3>1, TogetherIs, Zenon
    <3>3. Len(t \o x) = Len(t) + Len(x)
      BY <3>1, TogetherIs, Zenon
    <3>4. ASSUME NEW i \in 1..Len(x) PROVE (t \o x)[Len(t) + i] = x[i]
      BY <3>1
    <3> QED BY <3>2, <3>3, <3>4
  <2> HIDE DEF u
  <2>2. u = t \o x
    BY DEF u
  <2> QED BY <1>4, <2>1, <2>2, Zenon
<1>6. Runs(u, e, more, k) /\ e + k = z
  <2>1. ASSUME NEW i \in 1..k PROVE At(u, e + i - 1, more[i])
    <3>1. e + i - 1 = Len(t) + i /\ Len(t) + i <= Len(u)
      BY <1>1, <1>3, <1>5
    <3> HIDE DEF u
    <3> QED BY <1>4, <1>5, <3>1 DEF At
  <2>2. e + k = z
    <3> HIDE DEF u
    <3> QED BY <1>1, <1>3, <1>5
  <2> QED BY <2>1, <2>2 DEF Runs
<1>7. e \in Places(u) /\ z \in Places(u) /\ \A b \in B : b \in Places(u) /\ b \in Places(t)
  <2>1. B \subseteq Places(t)
    BY <1>2 DEF Bound
  <2> HIDE DEF u
  <2> QED BY <1>1, <1>3, <1>5, <2>1 DEF Places
<1> DEFINE C == B \cup {e, z}
<1>8. Bound(u, C)
  <2>1. C \subseteq Places(u)
    BY <1>7
  <2>2. ASSUME NEW b \in C
        PROVE  \/ b = z
               \/ \E d \in Seq(Byte) : \E i \in 1..Len(cJSON_PrintUnformatted(Message(d))) :
                    Runs(u, b, cJSON_PrintUnformatted(Message(d)), i) /\ b + i \in C
    <3>1. CASE b = e
      <4>1. Runs(u, b, cJSON_PrintUnformatted(Message(c)), k) /\ b + k \in C
        BY <1>6, <3>1 DEF more
      <4> QED BY <4>1
    <3>2. CASE b # e /\ b # z
      <4>1. b \in B /\ b # Len(t) + 1
        BY <3>2
      <4>2. PICK d \in Seq(Byte) : \E i \in 1..Len(cJSON_PrintUnformatted(Message(d))) :
              Runs(t, b, cJSON_PrintUnformatted(Message(d)), i) /\ b + i \in B
        BY <1>2, <4>1 DEF Bound
      <4>3. PICK i \in 1..Len(cJSON_PrintUnformatted(Message(d))) :
              Runs(t, b, cJSON_PrintUnformatted(Message(d)), i) /\ b + i \in B
        BY <4>2
      <4>4. i \in Nat /\ b \in Nat /\ b >= 1
        BY <1>7, <4>1, MessageText DEF Places
      <4>5. Runs(u, b, cJSON_PrintUnformatted(Message(d)), i)
        BY <1>4, <4>3, <4>4, RunsLonger
      <4> HIDE DEF u, e, z
      <4> QED BY <4>3, <4>5
    <3> QED BY <3>1, <3>2
  <2> QED BY <2>1, <2>2 DEF Bound
<1>9. Runs(u, 1, text, n)
  <2>1. n \in Nat
    BY <1>0, <1>1
  <2>2. 1 \in Nat /\ 1 >= 1
    OBVIOUS
  <2> QED BY <1>0, <1>4, <2>1, <2>2, RunsLonger
<1>10. 1 + n \in C
  BY <1>2
<1> HIDE DEF C, u
<1>11. MadeOf(u, m, n)
  BY <1>0, <1>8, <1>9, <1>10 DEF MadeOf, text
<1> QED BY <1>11 DEF u, x, more

-----------------------------------------------------------------------------
(* What is written and read line by line.                                  *)

LEMMA InkIsLine ==
  ASSUME NEW s \in Seq(Inked)
  PROVE  s \in Seq(LineByte)
<1>1. \A i \in 1..Len(s) : s[i] \in LineByte
  <2>1. \A i \in 1..Len(s) : s[i] \in Inked
    BY SeqIs
  <2> QED BY <2>1, InkIs DEF LineByte
<1>2. Len(s) \in Nat /\ s = [i \in 1..Len(s) |-> s[i]]
  BY SeqIs
<1> QED BY <1>1, <1>2, SeqBy

LEMMA AppendBehind ==
  ASSUME NEW S, NEW a \in Seq(S), NEW b \in Seq(S), NEW c \in S
  PROVE  Append(a \o b, c) = a \o Append(b, c)
OBVIOUS

LEMMA LinesText ==
  ASSUME NEW f \in Seq(Byte)
  PROVE  \A x \in Seq(LineByte) :
           GetLines(f \o x) = [done |-> GetLines(f).done, open |-> GetLines(f).open \o x]
<1> DEFINE d == GetLines(f).done
           o == GetLines(f).open
           G == {x \in Seq(LineByte) : GetLines(f \o x) = [done |-> d, open |-> o \o x]}
<1>1. GetLines(f) = [done |-> d, open |-> o] /\ o \in Seq(LineByte)
  BY GetLinesType DEF LineStateOK
<1>2. <<>> \in G
  <2>1. f \o <<>> = f
    OBVIOUS
  <2> HIDE DEF o, d
  <2>2. o \o <<>> = o
    BY <1>1
  <2>3. <<>> \in Seq(LineByte)
    OBVIOUS
  <2> QED BY <1>1, <2>1, <2>2, <2>3
<1>3. ASSUME NEW x \in Seq(LineByte), x \in G, NEW b \in LineByte PROVE Append(x, b) \in G
  <2>1. Append(x, b) \in Seq(LineByte) /\ b \in Byte /\ b # Newline
    BY DEF LineByte
  <2>2. x \in Seq(Byte)
    BY LineIsText
  <2>3. f \o x \in Seq(Byte) /\ f \o Append(x, b) = Append(f \o x, b)
    BY <2>1, <2>2
  <2> DEFINE u == f \o x
             g == GetLines(u)
  <2>4. g = [done |-> d, open |-> o \o x]
    BY <1>3
  <2> HIDE DEF u, g, o, d
  <2>5. GetLines(Append(u, b)) = [g EXCEPT !.open = Append(@, b)]
    BY <2>1, <2>3, GetLinesIs, ZenonT(40) DEF u, g
  <2>6. Append(o \o x, b) = o \o Append(x, b)
    <3>1. o \in Seq(LineByte) /\ x \in Seq(LineByte) /\ b \in LineByte
      BY <1>1, <1>3
    <3> HIDE DEF G
    <3>2. Append(o \o x, b) = o \o Append(x, b)
      <4> DEFINE q == o
      <4>1. q \in Seq(LineByte)
        BY <3>1
      <4> HIDE DEF q
      <4>2. Append(q \o x, b) = q \o Append(x, b)
        BY <4>1, SMTT(40)
      <4> QED BY <4>2 DEF q
    <3> QED BY <3>2
  <2> DEFINE y == o \o x
             v == Append(y, b)
  <2>7. g = [done |-> d, open |-> y]
    BY <2>4 DEF y
  <2> HIDE DEF y
  <2>10. g.open = y
    BY <2>7
  <2>11. [g EXCEPT !.open = Append(@, b)] = [g EXCEPT !.open = v]
    BY <2>10
  <2> HIDE DEF v
  <2>8. [g EXCEPT !.open = Append(@, b)] = [done |-> d, open |-> v]
    BY <2>7, <2>11
  <2>9. GetLines(f \o Append(x, b)) = [done |-> d, open |-> o \o Append(x, b)]
    BY <2>3, <2>5, <2>6, <2>8 DEF u, y, v
  <2> QED BY <2>1, <2>9
<1> HIDE DEF G
<1>4. \A x \in Seq(LineByte) : x \in G
  BY <1>2, <1>3, SeqInduction
<1> QED BY <1>4 DEF G

LEMMA LinesEnd ==
  ASSUME NEW f \in Seq(Byte)
  PROVE  GetLines(Append(f, Newline)) = EndLine(GetLines(f)) /\ GetLines(<<>>) = LineStart
<1>1. Newline \in Byte
  BY BytesAre DEF Newline
<1> QED BY <1>1, GetLinesIs

(* The line that getline has begun is empty where Session says so.         *)
LEMMA EolIs ==
  ASSUME NEW f \in Seq(Byte)
  PROVE  GetLines(f).open = <<>> <=> (f = <<>> \/ f[Len(f)] = Newline)
<1>1. CASE f = <<>>
  <2>1. GetLines(<<>>) = LineStart
    BY LinesEnd
  <2>2. LineStart.open = <<>>
    BY DEF LineStart
  <2> QED BY <1>1, <2>1, <2>2, Zenon
<1>2. CASE f # <<>>
  <2> DEFINE n == Len(f)
             u == SubSeq(f, 1, n - 1)
             b == f[n]
  <2>1. n \in Nat /\ n >= 1 /\ u \in Seq(Byte) /\ b \in Byte /\ f = Append(u, b)
    BY <1>2
  <2> HIDE DEF u, b, n
  <2>2. GetLines(f) = IF b = Newline THEN EndLine(GetLines(u)) ELSE [GetLines(u) EXCEPT !.open = Append(@, b)]
    BY <2>1, GetLinesIs
  <2>3. LineStateOK(GetLines(u))
    BY <2>1, GetLinesType
  <2> DEFINE g == GetLines(u)
  <2> HIDE DEF g
  <2>4. CASE b = Newline
    <3>1. EndLine(g).open = <<>>
      BY DEF EndLine
    <3> QED BY <1>2, <2>2, <2>4, <3>1 DEF g, b, n
  <2>5. CASE b # Newline
    <3> DEFINE o == g.open
               v == Append(o, b)
    <3>1. g = [done |-> g.done, open |-> o] /\ o \in Seq(LineByte)
      BY <2>3 DEF LineStateOK, g
    <3>2. v # <<>>
      <4>1. o \in Seq(Byte)
        BY <3>1, LineIsText
      <4> HIDE DEF o
      <4> QED BY <2>1, <4>1
    <3>3. [g EXCEPT !.open = Append(@, b)].open = v
      BY <3>1
    <3> QED BY <1>2, <2>2, <2>5, <3>2, <3>3 DEF g, b, n
  <2> QED BY <2>4, <2>5
<1> QED BY <1>1, <1>2

-----------------------------------------------------------------------------
(* What a rewrite leaves of the lines of ms, wherever it breaks off.       *)

LEMMA PrefixLow ==
  ASSUME NEW S, NEW a \in Seq(S), NEW b \in Seq(S), NEW k \in 0..Len(a)
  PROVE  SubSeq(a \o b, 1, k) = SubSeq(a, 1, k)
OBVIOUS

LEMMA PrefixHigh ==
  ASSUME NEW S, NEW a \in Seq(S), NEW b \in Seq(S), NEW j \in 0..Len(b)
  PROVE  SubSeq(a \o b, 1, Len(a) + j) = a \o SubSeq(b, 1, j)
OBVIOUS

LEMMA PrefixAll ==
  ASSUME NEW S, NEW s \in Seq(S)
  PROVE  SubSeq(s, 1, Len(s)) = s
OBVIOUS

LEMMA PrefixAppend ==
  ASSUME NEW S, NEW x \in Seq(S), NEW c \in S, NEW j \in 0..Len(x)
  PROVE  SubSeq(Append(x, c), 1, j) = SubSeq(x, 1, j)
OBVIOUS

Printed(ms, n) == [i \in 1..n |-> cJSON_PrintUnformatted(ms[i])]

FileText(ms) == FlattenSeq([i \in 1..Len(ms) |-> Append(cJSON_PrintUnformatted(ms[i]), Newline)])

(* The first n of the lines, and perhaps a piece of the next one, which    *)
(* may be all of it but its newline.                                       *)
PartOf(ms, L) ==
  \E n \in 0..Len(ms) :
    /\ L.done = Printed(ms, n)
    /\ \/ L.open = <<>>
       \/ /\ n < Len(ms)
          /\ \E j \in 1..Len(cJSON_PrintUnformatted(ms[n + 1])) :
               L.open = SubSeq(cJSON_PrintUnformatted(ms[n + 1]), 1, j)

AllOf(ms, L) == L.done = Printed(ms, Len(ms)) /\ L.open = <<>>

Rewritten(ms) ==
  /\ FileText(ms) \in Seq(Byte)
  /\ AllOf(ms, GetLines(FileText(ms)))
  /\ \A k \in 0..Len(FileText(ms)) : PartOf(ms, GetLines(SubSeq(FileText(ms), 1, k)))

LEMMA LineText ==
  ASSUME NEW v, Good(v)
  PROVE  LET text == cJSON_PrintUnformatted(v)
         IN  /\ text \in Seq(LineByte) /\ text \in Seq(Byte) /\ text # <<>>
             /\ Append(text, Newline) \in Seq(Byte) /\ Len(text) \in Nat
             /\ Len(Append(text, Newline)) = Len(text) + 1
<1> DEFINE text == cJSON_PrintUnformatted(v)
<1>1. text \in Seq(LineByte) /\ text \in Seq(Byte) /\ Len(text) \in Nat /\ Len(text) >= 1
  BY PrintType, InkIsLine, TextStarts
<1>2. Newline \in Byte
  BY BytesAre DEF Newline
<1> HIDE DEF text
<1>3. text # <<>> /\ Append(text, Newline) \in Seq(Byte) /\ Len(Append(text, Newline)) = Len(text) + 1
  BY <1>1, <1>2
<1> QED BY <1>1, <1>3 DEF text

LEMMA RewrittenNone == Rewritten(<<>>)
<1> DEFINE e == <<>>
           f == [i \in 1..Len(e) |-> Append(cJSON_PrintUnformatted(e[i]), Newline)]
<1>1. Len(e) = 0 /\ e \in Seq(Byte)
  OBVIOUS
<1>2. f = <<>>
  <2>1. \A i \in 1..Len(e) : FALSE
    OBVIOUS
  <2> QED BY <2>1
<1>3. FileText(e) = FlattenSeq(f)
  BY DEF FileText
<1> HIDE DEF f
<1>4. FileText(e) = e
  BY <1>2, <1>3, FlattenEmpty
<1>5. GetLines(e) = LineStart
  <2>1. \A g \in Seq(Byte) : GetLines(<<>>) = LineStart
    BY LinesEnd
  <2> HIDE DEF e
  <2>2. GetLines(<<>>) = LineStart
    BY <1>1, <2>1
  <2> QED BY <2>2 DEF e
<1>6. Printed(e, 0) = <<>>
  <2>1. \A i \in 1..0 : FALSE
    OBVIOUS
  <2> QED BY <2>1 DEF Printed
<1>7. LineStart.done = <<>> /\ LineStart.open = <<>>
  BY DEF LineStart
<1>8. SubSeq(e, 1, 0) = e
  OBVIOUS
<1> HIDE DEF e
<1>9. AllOf(e, LineStart)
  BY <1>1, <1>6, <1>7 DEF AllOf
<1>10. PartOf(e, LineStart)
  <2>1. 0 \in 0..Len(e)
    BY <1>1
  <2> QED BY <1>6, <1>7, <2>1 DEF PartOf
<1>11. \A k \in 0..Len(e) : k = 0
  BY <1>1
<1>12. Rewritten(e)
  BY <1>1, <1>4, <1>5, <1>8, <1>9, <1>10, <1>11 DEF Rewritten
<1> QED BY <1>12 DEF e

LEMMA OneMore ==
  ASSUME NEW T, \A v \in T : Good(v), NEW w \in Seq(T), NEW v \in T
  PROVE  LET u == Append(w, v)
             x == cJSON_PrintUnformatted(v)
         IN  /\ Len(w) \in Nat /\ Len(u) = Len(w) + 1 /\ u[Len(w) + 1] = v
             /\ \A n \in 0..Len(w) : Printed(u, n) = Printed(w, n)
             /\ \A i \in 1..Len(w) : u[i] = w[i]
             /\ Printed(u, Len(u)) = Append(Printed(w, Len(w)), x)
             /\ FileText(u) = FileText(w) \o Append(x, Newline)
             /\ FileText(w) \in Seq(Byte)
<1> DEFINE u == Append(w, v)
           x == cJSON_PrintUnformatted(v)
           m == Len(w)
<1>1. m \in Nat /\ Len(u) = m + 1 /\ u[m + 1] = v /\ \A i \in 1..m : u[i] = w[i] /\ w[i] \in T
  BY SeqIs
<1> HIDE DEF u, m
<1>2. ASSUME NEW n \in 0..m PROVE Printed(u, n) = Printed(w, n)
  <2>1. \A i \in 1..n : u[i] = w[i]
    BY <1>1
  <2> QED BY <2>1 DEF Printed
<1> DEFINE Q(s) == [i \in 1..Len(s) |-> Append(cJSON_PrintUnformatted(s[i]), Newline)]
           P(i) == cJSON_PrintUnformatted(w[i])
           R(i) == Append(P(i), Newline)
           d    == [i \in 1..m |-> P(i)]
           q    == [i \in 1..m |-> R(i)]
           l    == Append(x, Newline)
<1>3. \A i \in 1..m : P(i) \in Seq(Byte) /\ R(i) \in Seq(Byte)
  BY <1>1, LineText
<1>4. x \in Seq(Byte) /\ l \in Seq(Byte)
  BY LineText
<1>5. Printed(u, m + 1) = [i \in 1..(m + 1) |-> IF i = m + 1 THEN x ELSE P(i)] /\ Printed(w, m) = d
  <2>1. \A i \in 1..(m + 1) : i = m + 1 \/ i \in 1..m
    BY <1>1
  <2>2. \A i \in 1..(m + 1) : cJSON_PrintUnformatted(u[i]) = IF i = m + 1 THEN x ELSE P(i)
    BY <1>1, <2>1
  <2> HIDE DEF x
  <2> QED BY <2>2 DEF Printed
<1>6. Q(u) = [i \in 1..(m + 1) |-> IF i = m + 1 THEN l ELSE R(i)] /\ Q(w) = q
  <2>1. \A i \in 1..(m + 1) : i = m + 1 \/ i \in 1..m
    BY <1>1
  <2>2. \A i \in 1..(m + 1) : Append(cJSON_PrintUnformatted(u[i]), Newline) = IF i = m + 1 THEN l ELSE R(i)
    BY <1>1, <2>1
  <2>3. Q(w) = q
    BY DEF m
  <2> HIDE DEF l
  <2> QED BY <1>1, <2>2, <2>3
<1> HIDE DEF P, R, x, l
<1>7. Append(d, x) = [i \in 1..(m + 1) |-> IF i = m + 1 THEN x ELSE P(i)]
  <2>1. d \in Seq(Seq(Byte)) /\ Len(d) = m
    BY <1>1, <1>3
  <2> QED BY <1>1, <1>4, <2>1
<1>8. q \in Seq(Seq(Byte)) /\ Len(q) = m
  BY <1>1, <1>3
<1>9. Append(q, l) = [i \in 1..(m + 1) |-> IF i = m + 1 THEN l ELSE R(i)]
  BY <1>1, <1>4, <1>8
<1> HIDE DEF d, q
<1>10. FileText(u) = FlattenSeq(Append(q, l)) /\ FileText(w) = FlattenSeq(q)
  BY <1>6, <1>9 DEF FileText
<1>11. FlattenSeq(Append(q, l)) = FlattenSeq(q) \o l /\ FlattenSeq(q) \in Seq(Byte)
  BY <1>4, <1>8, FlattenAppend, FlattenType
<1>12. Printed(u, Len(u)) = Append(Printed(w, m), x)
  BY <1>1, <1>5, <1>7
<1> QED BY <1>1, <1>2, <1>10, <1>11, <1>12 DEF u, x, l, m

LEMMA PartMore ==
  ASSUME NEW T, \A v \in T : Good(v), NEW w \in Seq(T), NEW v \in T, NEW L, PartOf(w, L)
  PROVE  PartOf(Append(w, v), L)
<1> DEFINE u == Append(w, v)
<1>1. /\ Len(w) \in Nat /\ Len(u) = Len(w) + 1
      /\ \A n \in 0..Len(w) : Printed(u, n) = Printed(w, n)
      /\ \A i \in 1..Len(w) : u[i] = w[i]
  BY OneMore
<1>2. PICK n \in 0..Len(w) :
        /\ L.done = Printed(w, n)
        /\ \/ L.open = <<>>
           \/ /\ n < Len(w)
              /\ \E j \in 1..Len(cJSON_PrintUnformatted(w[n + 1])) :
                   L.open = SubSeq(cJSON_PrintUnformatted(w[n + 1]), 1, j)
  BY DEF PartOf
<1> HIDE DEF u
<1>3. n \in 0..Len(u) /\ (n < Len(w) => n < Len(u) /\ u[n + 1] = w[n + 1])
  <2>1. n \in 0..Len(u) /\ (n < Len(w) => n < Len(u) /\ n + 1 \in 1..Len(w))
    BY <1>1
  <2> QED BY <1>1, <2>1
<1>4. PartOf(u, L)
  <2>1. L.done = Printed(u, n)
    BY <1>1, <1>2
  <2> QED BY <1>2, <1>3, <2>1 DEF PartOf
<1> QED BY <1>4 DEF u

LEMMA RewrittenMore ==
  ASSUME NEW T, \A v \in T : Good(v), NEW w \in Seq(T), NEW v \in T, Rewritten(w)
  PROVE  Rewritten(Append(w, v))
<1> DEFINE u == Append(w, v)
           x == cJSON_PrintUnformatted(v)
           n == Len(w)
           l == Append(x, Newline)
           W == FileText(w)
           U == FileText(u)
           d == Printed(w, n)
<1>1. /\ n \in Nat /\ Len(u) = n + 1 /\ u[n + 1] = v
      /\ Printed(u, n) = d
      /\ Printed(u, Len(u)) = Append(d, x)
      /\ U = W \o l
  <2>1. n \in 0..n
    BY OneMore
  <2> QED BY <2>1, OneMore
<1>2. W \in Seq(Byte) /\ GetLines(W).done = d /\ GetLines(W).open = <<>>
  BY DEF Rewritten, AllOf
<1>3. x \in Seq(LineByte) /\ x \in Seq(Byte) /\ x # <<>> /\ l \in Seq(Byte) /\ Len(x) \in Nat /\ Len(l) = Len(x) + 1
  BY LineText
<1>4. \A k \in 0..Len(W) : PartOf(w, GetLines(SubSeq(W, 1, k)))
  BY DEF Rewritten
<1>5. ASSUME NEW L, PartOf(w, L) PROVE PartOf(u, L)
  BY <1>5, PartMore
<1>6. Newline \in Byte
  BY BytesAre DEF Newline
<1>7. u[n + 1] = v /\ cJSON_PrintUnformatted(u[n + 1]) = x
  BY <1>1
<1> HIDE DEF u, n, W, U, d, x, l
<1>8. U \in Seq(Byte) /\ Len(U) = Len(W) + Len(l) /\ Len(W) \in Nat /\ Len(U) \in Nat
  <2>0. W \in Seq(Byte) /\ l \in Seq(Byte)
    BY <1>2, <1>3
  <2>1. W \o l \in Seq(Byte) /\ Len(W \o l) = Len(W) + Len(l)
    BY ONLY <2>0, TogetherIs
  <2>2. Len(W) \in Nat /\ Len(l) \in Nat
    BY ONLY <2>0, SeqIs
  <2> QED BY <1>1, <2>1, <2>2
<1>9. ASSUME NEW y \in Seq(LineByte) PROVE GetLines(W \o y).done = d /\ GetLines(W \o y).open = y
  <2>1. GetLines(W \o y) = [done |-> GetLines(W).done, open |-> GetLines(W).open \o y]
    BY <1>2, LinesText
  <2>2. <<>> \o y = y
    OBVIOUS
  <2> QED BY <1>2, <2>1, <2>2
<1>10. GetLines(U).done = Append(d, x) /\ GetLines(U).open = <<>>
  <2> DEFINE f == W \o x
  <2>1. f \in Seq(Byte)
    BY <1>2, <1>3
  <2>2. GetLines(f).done = d /\ GetLines(f).open = x
    BY <1>3, <1>9
  <2>3. U = Append(f, Newline)
    BY <1>1, <1>2, <1>3, <1>6, AppendBehind DEF l
  <2> HIDE DEF f
  <2>4. GetLines(U) = EndLine(GetLines(f))
    BY <2>1, <2>3, LinesEnd
  <2>5. EndLine(GetLines(f)).done = Append(d, x) /\ EndLine(GetLines(f)).open = <<>>
    BY <1>3, <2>2 DEF EndLine
  <2> QED BY <2>4, <2>5
<1>11. AllOf(u, GetLines(U))
  BY <1>1, <1>10 DEF AllOf
<1>12. ASSUME NEW k \in 0..Len(U) PROVE PartOf(u, GetLines(SubSeq(U, 1, k)))
  <2>1. CASE k <= Len(W)
    <3>1. k \in 0..Len(W)
      BY <1>8, <2>1
    <3>2. SubSeq(U, 1, k) = SubSeq(W, 1, k)
      BY <1>1, <1>2, <1>3, <3>1, PrefixLow
    <3> QED BY <1>4, <1>5, <3>1, <3>2
  <2>2. CASE k > Len(W) /\ k < Len(U)
    <3> DEFINE j == k - Len(W)
               y == SubSeq(x, 1, j)
    <3>1. j \in 1..Len(x) /\ j \in 0..Len(x) /\ j \in 0..Len(l) /\ k = Len(W) + j
      BY <1>3, <1>8, <2>2
    <3> HIDE DEF j
    <3>2. SubSeq(U, 1, k) = W \o SubSeq(l, 1, j)
      BY <1>1, <1>2, <1>3, <3>1, PrefixHigh
    <3>3. SubSeq(l, 1, j) = y
      BY <1>3, <1>6, <3>1, PrefixAppend DEF l
    <3>4. y \in Seq(LineByte)
      BY <1>3, <3>1, PrefixOf
    <3>5. SubSeq(U, 1, k) = W \o y
      BY <3>2, <3>3
    <3> HIDE DEF y
    <3>6. GetLines(W \o y).done = d /\ GetLines(W \o y).open = y
      BY <1>9, <3>4
    <3>7. n \in 0..Len(u) /\ n < Len(u)
      BY <1>1
    <3> QED BY <1>1, <1>7, <3>1, <3>5, <3>6, <3>7 DEF PartOf, y
  <2>3. CASE k = Len(U)
    <3>1. SubSeq(U, 1, k) = U
      BY <1>8, <2>3, PrefixAll
    <3>2. Len(u) \in 0..Len(u)
      BY <1>1
    <3> QED BY <1>1, <1>10, <3>1, <3>2 DEF PartOf
  <2> QED BY <1>8, <2>1, <2>2, <2>3
<1>13. Rewritten(u)
  BY <1>8, <1>11, <1>12 DEF Rewritten, U
<1> QED BY <1>13 DEF u

LEMMA RewrittenIs ==
  ASSUME NEW T, \A v \in T : Good(v)
  PROVE  \A w \in Seq(T) : Rewritten(w)
<1> DEFINE G == {w \in Seq(T) : Rewritten(w)}
<1>1. <<>> \in G
  BY RewrittenNone
<1>2. ASSUME NEW w \in Seq(T), w \in G, NEW v \in T PROVE Append(w, v) \in G
  <2>1. Append(w, v) \in Seq(T)
    OBVIOUS
  <2>2. Rewritten(Append(w, v))
    BY <1>2, RewrittenMore
  <2> QED BY <2>1, <2>2
<1> HIDE DEF G
<1>3. \A w \in Seq(T) : w \in G
  BY <1>1, <1>2, SeqInduction
<1> QED BY <1>3 DEF G

-----------------------------------------------------------------------------
(* Nothing is forged.                                                      *)

Known(line, S) == cJSON_Parse(line) = Null \/ cJSON_Parse(line).node \in S

(* Of the messages S are the lines of a file that parse, and what the last *)
(* one begins with if its newline is missing.                              *)
FileKnown(L, S) ==
  /\ \A j \in 1..Len(L.done) : Known(L.done[j], S)
  /\ L.open = <<>> \/ \E m \in S : \E n : MadeOf(L.open, m, n)

SaidInv ==
  /\ BytesInv
  /\ \A m \in said : Sayable(m)
  /\ \A i \in 1..Len(messages) : messages[i] \in said
  /\ FileKnown(GetLines(bytes), said)

LEMMA GoodIsSome ==
  ASSUME NEW v, Good(v)
  PROVE  v # Null.node
<1>1. v.type \in Kinds
  BY GoodIs DEF Tidy
<1>2. Null.node.type = "none"
  BY DEF Null, Node
<1>3. "none" \notin Kinds
  BY DEF Kinds
<1> QED BY <1>1, <1>2, <1>3

LEMMA KnownGrows ==
  ASSUME NEW L, NEW S, NEW R, S \subseteq R, FileKnown(L, S)
  PROVE  FileKnown(L, R)
BY DEF FileKnown, Known

LEMMA OpenIsKnown ==
  ASSUME NEW S, \A m \in S : Sayable(m), NEW t \in Seq(Byte), NEW m \in S, NEW n, MadeOf(t, m, n)
  PROVE  Known(t, S)
<1>1. cJSON_Parse(t) = Parsed(m, 1 + n) \/ cJSON_Parse(t) = Null
  BY MadeParse
<1>2. Parsed(m, 1 + n).node = m
  BY DEF Parsed
<1> QED BY <1>1, <1>2 DEF Known

LEMMA KnownEnd ==
  ASSUME NEW S, \A m \in S : Sayable(m), NEW L, LineStateOK(L), FileKnown(L, S)
  PROVE  FileKnown(EndLine(L), S)
<1> DEFINE E == EndLine(L)
           d == L.done
           o == L.open
<1>1. E.open = <<>> /\ E.done = IF o = <<>> THEN d ELSE Append(d, o)
  BY EndLineOK
<1>2. d \in Seq(Seq(LineByte) \ {<<>>}) /\ o \in Seq(LineByte)
  BY DEF LineStateOK
<1>3. (\A j \in 1..Len(d) : Known(d[j], S)) /\ (o = <<>> \/ \E m \in S : \E n : MadeOf(o, m, n))
  BY DEF FileKnown
<1>4. o # <<>> => Known(o, S)
  <2>1. o \in Seq(Byte)
    BY <1>2, LineIsText
  <2> HIDE DEF o
  <2> QED BY <1>3, <2>1, OpenIsKnown
<1> HIDE DEF E, d, o
<1>5. \A j \in 1..Len(E.done) : Known(E.done[j], S)
  <2>1. CASE o = <<>>
    BY <1>1, <1>3, <2>1
  <2>2. CASE o # <<>>
    <3> DEFINE X == Seq(LineByte) \ {<<>>}
    <3>1. d \in Seq(X) /\ o \in X
      BY <1>2, <2>2
    <3> HIDE DEF X
    <3>2. /\ Len(Append(d, o)) = Len(d) + 1 /\ Len(d) \in Nat /\ Append(d, o)[Len(d) + 1] = o
          /\ \A j \in 1..Len(d) : Append(d, o)[j] = d[j]
      BY <3>1
    <3>3. \A j \in 1..(Len(d) + 1) : j \in 1..Len(d) \/ j = Len(d) + 1
      BY <3>2
    <3> QED BY <1>1, <1>3, <1>4, <2>2, <3>2, <3>3
  <2> QED BY <2>1, <2>2
<1>6. FileKnown(E, S)
  BY <1>1, <1>5 DEF FileKnown
<1> QED BY <1>6 DEF E

(* A part of a message at the end of the file.                             *)
LEMMA KnownText ==
  ASSUME NEW S, \A m \in S : Sayable(m), NEW f \in Seq(Byte), FileKnown(GetLines(f), S),
         NEW c \in Seq(Byte), Message(c) \in S, NEW k \in 0..Len(cJSON_PrintUnformatted(Message(c)))
  PROVE  FileKnown(GetLines(f \o SubSeq(cJSON_PrintUnformatted(Message(c)), 1, k)), S)
<1> DEFINE M == Message(c)
           text == cJSON_PrintUnformatted(M)
           x == SubSeq(text, 1, k)
           L == GetLines(f)
           d == L.done
           o == L.open
<1>1. Good(M) /\ M \in S
  BY MessageIs
<1>2. text \in Seq(LineByte) /\ x \in Seq(LineByte) /\ Len(x) = k /\ k \in Nat /\ Len(text) \in Nat
  <2>1. text \in Seq(LineByte) /\ Len(text) \in Nat
    BY <1>1, LineText
  <2> HIDE DEF text
  <2>2. k \in 0..Len(text)
    BY DEF text
  <2> QED BY <2>1, <2>2, PrefixOf
<1>3. GetLines(f \o x) = [done |-> d, open |-> o \o x]
  BY <1>2, LinesText
<1>4. o \in Seq(LineByte)
  BY GetLinesType DEF LineStateOK
<1>5. (\A j \in 1..Len(d) : Known(d[j], S)) /\ (o = <<>> \/ \E m \in S : \E n : MadeOf(o, m, n))
  BY DEF FileKnown
<1>6. o \o x = <<>> \/ \E m \in S : \E n : MadeOf(o \o x, m, n)
  <2>1. CASE k = 0
    <3>1. x = <<>>
      <4> HIDE DEF x
      <4> QED BY <1>2, <2>1
    <3> HIDE DEF x, o
    <3>2. o \o x = o
      BY <1>4, <3>1
    <3> QED BY <1>5, <3>2
  <2>2. CASE k # 0
    <3>1. k \in 1..Len(text)
      <4> HIDE DEF text
      <4>1. k \in 0..Len(text)
        BY DEF text
      <4> QED BY <1>2, <2>2, <4>1
    <3>2. CASE o = <<>>
      <4>1. MadeOf(x, M, k)
        BY <1>1, <3>1, MadeFirst
      <4> HIDE DEF x, o
      <4>2. o \o x = x
        BY <1>2, <3>2
      <4> QED BY <1>1, <4>1, <4>2
    <3>3. CASE o # <<>>
      <4>1. o \in Seq(Byte)
        BY <1>4, LineIsText
      <4>2. PICK m \in S : \E n : MadeOf(o, m, n)
        BY <1>5, <3>3
      <4>3. PICK n : MadeOf(o, m, n)
        BY <4>2
      <4>4. Good(m)
        BY <4>2 DEF Sayable
      <4> HIDE DEF o
      <4>5. MadeOf(o \o x, m, n)
        BY <3>1, <4>1, <4>3, <4>4, MadeMore
      <4> QED BY <4>2, <4>5
    <3> QED BY <3>2, <3>3
  <2> QED BY <2>1, <2>2
<1> HIDE DEF d, o, x
<1>7. FileKnown([done |-> d, open |-> o \o x], S)
  BY <1>5, <1>6 DEF FileKnown
<1> QED BY <1>3, <1>7 DEF x

LEMMA KnownAppend ==
  ASSUME NEW S, \A m \in S : Sayable(m), bytes \in Seq(Byte), FileKnown(GetLines(bytes), S),
         NEW c \in Seq(Byte), Message(c) \in S, session_append(Message(c))
  PROVE  FileKnown(GetLines(bytes'), S)
<1> DEFINE text == cJSON_PrintUnformatted(Message(c))
<1>1. PICK k \in 0..Len(text) : \E newline \in {<<>>, <<Newline>>} : bytes' = bytes \o SubSeq(text, 1, k) \o newline
  BY DEF session_append
<1> DEFINE x == SubSeq(text, 1, k)
           u == bytes \o x
<1>2. FileKnown(GetLines(u), S)
  BY KnownText
<1>3. x \in Seq(Byte) /\ Newline \in Byte
  <2>1. Good(Message(c))
    BY MessageIs
  <2>2. x \in Seq(Byte)
    BY <2>1, TextPart
  <2>3. Newline \in Byte
    BY BytesAre, SMTT(40) DEF Newline
  <2> QED BY <2>2, <2>3
<1>4. u \in Seq(Byte)
  <2> HIDE DEF x
  <2> QED BY <1>3
<1>5. PICK newline \in {<<>>, <<Newline>>} : bytes' = u \o newline
  BY <1>1
<1> HIDE DEF u
<1>6. CASE newline = <<>>
  <2>1. bytes' = u
    BY <1>4, <1>5, <1>6
  <2> QED BY <1>2, <2>1
<1>7. CASE newline = <<Newline>>
  <2>1. bytes' = Append(u, Newline)
    BY <1>3, <1>4, <1>5, <1>7
  <2>2. GetLines(bytes') = EndLine(GetLines(u))
    BY <1>4, <2>1, LinesEnd
  <2>3. LineStateOK(GetLines(u))
    BY <1>4, GetLinesType
  <2>4. FileKnown(EndLine(GetLines(u)), S)
    BY <1>2, <2>3, KnownEnd
  <2> QED BY <2>2, <2>4
<1> QED BY <1>6, <1>7

(* A rewrite leaves messages, and at most a piece of one.                  *)
LEMMA KnownRewrite ==
  ASSUME BytesInv, NEW S, \A m \in S : Sayable(m), \A i \in 1..Len(messages) : messages[i] \in S, session_rewrite
  PROVE  FileKnown(GetLines(bytes'), S)
<1> DEFINE w == messages
           W == FileText(w)
           P(i) == cJSON_PrintUnformatted(w[i])
<1>1. w \in Seq(S) /\ Len(w) \in Nat
  BY SeqBy DEF BytesInv, GoodMessages
<1>2. \A v \in S : Good(v)
  BY DEF Sayable
<1>3. Rewritten(w)
  BY <1>1, <1>2, RewrittenIs
<1>4. PICK k \in 0..Len(W) : bytes' = SubSeq(W, 1, k)
  BY DEF session_rewrite, FileText
<1> DEFINE L == GetLines(bytes')
<1>5. PartOf(w, L)
  BY <1>3, <1>4 DEF Rewritten
<1>6. ASSUME NEW i \in 1..Len(w) PROVE Known(P(i), S)
  <2>1. Good(w[i]) /\ w[i].key = <<>> /\ w[i] \in S
    BY DEF Sayable
  <2>2. cJSON_Parse(P(i)) = Parsed(w[i], Len(P(i)) + 1)
    BY <2>1, PrintedIsParsed
  <2>3. cJSON_Parse(P(i)).node = w[i]
    BY <2>2 DEF Parsed
  <2> QED BY <2>1, <2>3 DEF Known
<1> HIDE DEF L
<1>7. PICK n \in 0..Len(w) :
        /\ L.done = Printed(w, n)
        /\ \/ L.open = <<>>
           \/ n < Len(w) /\ \E j \in 1..Len(P(n + 1)) : L.open = SubSeq(P(n + 1), 1, j)
  BY <1>5 DEF PartOf
<1>8. \A j \in 1..Len(L.done) : Known(L.done[j], S)
  <2>1. Len(L.done) = n /\ \A j \in 1..n : L.done[j] = P(j)
    <3> HIDE DEF w
    <3>1. n \in Nat
      BY <1>1
    <3> QED BY <1>7, <3>1 DEF Printed
  <2>2. \A j \in 1..n : j \in 1..Len(w)
    BY <1>1
  <2> QED BY <1>6, <2>1, <2>2
<1>9. L.open = <<>> \/ \E m \in S : \E i : MadeOf(L.open, m, i)
  <2> SUFFICES ASSUME L.open # <<>> PROVE \E m \in S : \E i : MadeOf(L.open, m, i)
    OBVIOUS
  <2>1. n + 1 \in 1..Len(w)
    BY <1>1, <1>7
  <2>2. PICK j \in 1..Len(P(n + 1)) : L.open = SubSeq(P(n + 1), 1, j)
    BY <1>7
  <2>3. w[n + 1] \in S /\ Good(w[n + 1])
    BY <1>2, <2>1
  <2>4. MadeOf(SubSeq(P(n + 1), 1, j), w[n + 1], j)
    BY <2>3, MadeFirst
  <2> QED BY <2>2, <2>3, <2>4
<1> QED BY <1>8, <1>9 DEF FileKnown, L

LEMMA ForeignLine ==
  ASSUME NEW line \in ForeignLines
  PROVE  /\ line \in Seq(LineByte) /\ line \in Seq(Byte)
         /\ cJSON_Parse(line) = Null \/ Sayable(cJSON_Parse(line).node)
<1>1. line \in Seq(LineByte) /\ line \in Seq(Byte)
  <2>1. line \in Seq(LineByte)
    BY ForeignAssumption DEF LineByte
  <2> QED BY <2>1, LineIsText
<1>2. cJSON_Parse(line) # Null => Good(cJSON_Parse(line).node) /\ cJSON_Parse(line).node.key = <<>>
  BY <1>1, ParseType
<1>3. cJSON_Parse(line).node.type \notin {"string", "number"}
  BY ForeignValues
<1> QED BY <1>1, <1>2, <1>3 DEF Sayable

(* What somebody else writes into an empty file.                           *)
LEMMA KnownForeign ==
  ASSUME NEW line \in ForeignLines, NEW S, {cJSON_Parse(line).node} \ {Null.node} \subseteq S
  PROVE  FileKnown(GetLines(Append(line, Newline)), S)
<1> DEFINE e == <<>>
           g == GetLines(e)
           h == GetLines(line)
           L == GetLines(Append(line, Newline))
<1>1. line \in Seq(LineByte) /\ line \in Seq(Byte) /\ e \in Seq(Byte)
  BY ForeignLine
<1>2. g = LineStart /\ L = EndLine(h)
  BY <1>1, LinesEnd
<1>3. h = [done |-> <<>>, open |-> line]
  <2>1. GetLines(e \o line) = [done |-> g.done, open |-> g.open \o line]
    BY <1>1, LinesText
  <2>2. e \o line = line
    BY <1>1
  <2>3. g.done = <<>> /\ g.open = e
    BY <1>2 DEF LineStart
  <2> HIDE DEF g
  <2> QED BY <2>1, <2>2, <2>3
<1>4. Known(line, S)
  <2>1. cJSON_Parse(line) # Null => cJSON_Parse(line).node # Null.node
    BY ForeignLine, GoodIsSome DEF Sayable
  <2> QED BY <2>1 DEF Known
<1> HIDE DEF h, L, g
<1>5. L.open = <<>> /\ L.done = IF line = <<>> THEN <<>> ELSE <<line>>
  <2>1. h.done = <<>> /\ h.open = line
    BY <1>3
  <2>2. Append(<<>>, line) = <<line>>
    OBVIOUS
  <2> QED BY <1>2, <2>1, <2>2 DEF EndLine
<1>6. \A j \in 1..Len(L.done) : L.done[j] = line
  BY <1>5
<1>7. FileKnown(L, S)
  BY <1>4, <1>5, <1>6 DEF FileKnown
<1> QED BY <1>7 DEF L

(* What session_load takes from a file has been said.                      *)
LEMMA KnownLoad ==
  ASSUME bytes \in Seq(Byte), NEW S, \A m \in S : Sayable(m), FileKnown(GetLines(bytes), S), session_load
  PROVE  \A i \in 1..Len(messages') : messages'[i] \in S
<1> DEFINE E == EndLine(GetLines(bytes))
           l == Loaded(ParsedLines(bytes))
<1>1. FileKnown(E, S)
  BY GetLinesType, KnownEnd
<1>2. \A i \in 1..Len(l) : \E j \in 1..Len(E.done) :
         cJSON_Parse(E.done[j]) # Null /\ l[i] = cJSON_Parse(E.done[j]).node
  BY LoadedIs
<1>3. messages' = l
  BY DEF session_load
<1> HIDE DEF l, E
<1> QED BY <1>1, <1>2, <1>3 DEF FileKnown, Known

LEMMA SaidStart ==
  ASSUME BytesInit
  PROVE  SaidInv
<1>1. BytesInv
  BY BytesStart
<1>2. bytes = <<>> /\ messages = <<>> /\ said = {}
  BY DEF BytesInit
<1>3. GetLines(bytes) = LineStart
  BY <1>1, <1>2, LinesEnd DEF BytesInv
<1>4. FileKnown(LineStart, said)
  <2>1. LineStart.done = <<>> /\ LineStart.open = <<>>
    BY DEF LineStart
  <2>2. \A j \in 1..Len(<<>>) : FALSE
    OBVIOUS
  <2> QED BY <2>1, <2>2 DEF FileKnown
<1>5. \A i \in 1..Len(messages) : FALSE
  BY <1>2
<1> QED BY <1>1, <1>2, <1>3, <1>4, <1>5 DEF SaidInv

LEMMA SaidStep ==
  ASSUME SaidInv, [BytesNext]_vars
  PROVE  SaidInv'
<1>1. /\ BytesInv /\ (\A m \in said : Sayable(m)) /\ (\A i \in 1..Len(messages) : messages[i] \in said)
      /\ FileKnown(GetLines(bytes), said) /\ bytes \in Seq(Byte) /\ GoodMessages
  BY DEF SaidInv, BytesInv
<1>2. BytesInv'
  BY <1>1, BytesStep
<1>0. messages' = <<>> => \A i \in 1..Len(messages') : messages'[i] \in said
  OBVIOUS
<1>3. CASE Start
  <2>1. bytes' = bytes /\ said' = said /\ (session_load \/ messages' = <<>>)
    BY <1>3 DEF Start
  <2>2. \A i \in 1..Len(messages') : messages'[i] \in said
    BY <1>0, <1>1, <2>1, KnownLoad
  <2> QED BY <1>1, <1>2, <2>1, <2>2 DEF SaidInv
<1>4. CASE Say
  <2>1. PICK c \in Contents :
          /\ messages' = Append(messages, Message(c))
          /\ session_append(Message(c))
          /\ said' = said \cup {Message(c)}
    BY <1>4 DEF Say
  <2>2. c \in Seq(Byte)
    BY ContentsAssumption
  <2>3. Sayable(Message(c))
    BY <2>2, MessageIs DEF Sayable
  <2> DEFINE m == Message(c)
  <2>4. (\A x \in said' : Sayable(x)) /\ said \subseteq said' /\ m \in said'
    BY <1>1, <2>1, <2>3
  <2>5. FileKnown(GetLines(bytes), said')
    BY <1>1, <2>4, KnownGrows
  <2>6. FileKnown(GetLines(bytes'), said')
    BY <1>1, <2>1, <2>2, <2>4, <2>5, KnownAppend
  <2>7. \A i \in 1..Len(messages') : messages'[i] \in said'
    <3>1. messages \in Seq(said')
      <4> DEFINE R == said'
      <4>1. \A i \in 1..Len(messages) : messages[i] \in R
        BY <1>1, <2>4
      <4> HIDE DEF R
      <4>2. messages \in Seq(R)
        BY <1>1, <4>1, SeqBy DEF GoodMessages
      <4> QED BY <4>2 DEF R
    <3> HIDE DEF m
    <3>2. messages' \in Seq(said')
      BY <2>1, <2>4, <3>1 DEF m
    <3> QED BY <3>2, SeqIs
  <2> QED BY <1>2, <2>4, <2>6, <2>7 DEF SaidInv
<1>5. CASE Rewrite
  <2>1. session_rewrite /\ messages' = messages /\ said' = said
    BY <1>5 DEF Rewrite
  <2>2. FileKnown(GetLines(bytes'), said)
    BY <1>1, <2>1, KnownRewrite
  <2> QED BY <1>1, <1>2, <2>1, <2>2 DEF SaidInv
<1>6. CASE Stop
  <2>1. bytes' = bytes /\ messages' = <<>> /\ said' = said
    BY <1>6 DEF Stop
  <2> QED BY <1>0, <1>1, <1>2, <2>1 DEF SaidInv
<1>7. CASE Foreign
  <2>1. PICK line \in ForeignLines :
          /\ bytes' = Append(line, Newline)
          /\ said' = said \cup ({cJSON_Parse(line).node} \ {Null.node})
    BY <1>7 DEF Foreign
  <2>2. messages' = messages
    BY <1>7 DEF Foreign
  <2> DEFINE v == cJSON_Parse(line).node
  <2>3. v # Null.node => Sayable(v)
    <3>1. cJSON_Parse(line) = Null \/ Sayable(v)
      BY ForeignLine
    <3> QED BY <3>1
  <2>4. said' = said \cup ({v} \ {Null.node})
    BY <2>1
  <2>5. {v} \ {Null.node} \subseteq said'
    BY <2>4
  <2>6. FileKnown(GetLines(bytes'), said')
    BY <2>1, <2>5, KnownForeign
  <2> HIDE DEF v
  <2>7. (\A m \in said' : Sayable(m)) /\ \A i \in 1..Len(messages') : messages'[i] \in said'
    BY <1>1, <2>2, <2>3, <2>4
  <2> QED BY <1>2, <2>6, <2>7 DEF SaidInv
<1>8. CASE UNCHANGED vars
  <2>1. bytes' = bytes /\ messages' = messages /\ said' = said
    BY <1>8 DEF vars
  <2> QED BY <1>1, <1>2, <2>1 DEF SaidInv
<1> QED BY <1>3, <1>4, <1>5, <1>6, <1>7, <1>8 DEF BytesNext

(* What a process loads has been said.  A piece of a message parses as     *)
(* nothing whatever is written behind it, a message whose newline is       *)
(* missing as itself, and a file of whole lines as the messages they were  *)
(* printed of (main.c:1015-1037, 1070-1076).                               *)
THEOREM NothingForgedCorrect == BytesSpec => []NothingForged
<1>1. BytesInit => SaidInv
  BY SaidStart
<1>2. SaidInv /\ [BytesNext]_vars => SaidInv'
  BY SaidStep
<1>3. SaidInv => NothingForged
  <2> SUFFICES ASSUME SaidInv PROVE NothingForged
    OBVIOUS
  <2>1. DOMAIN messages = 1..Len(messages)
    BY DEF SaidInv, BytesInv, GoodMessages
  <2> QED BY <2>1 DEF SaidInv, NothingForged
<1> QED BY <1>1, <1>2, <1>3, PTL DEF BytesSpec

-----------------------------------------------------------------------------
(* The bytes as Session sees them.                                         *)

ShownAs(t) ==
  IF cJSON_Parse(t).node = Null.node THEN BySession!Torn
  ELSE [msg   |-> cJSON_Parse(t).node,
        shape |-> IF t = cJSON_PrintUnformatted(cJSON_Parse(t).node) THEN "alone" ELSE "glued"]

Shows(ls) == [i \in 1..Len(ls) |-> ShownAs(ls[i])]

LEMMA ShowsMore ==
  ASSUME NEW S, NEW ls \in Seq(S), NEW t \in S
  PROVE  /\ Shows(Append(ls, t)) = Append(Shows(ls), ShownAs(t))
         /\ Len(Shows(ls)) = Len(ls) /\ Len(ls) \in Nat
<1> DEFINE n == Len(ls)
           u == Append(ls, t)
           I(i) == ShownAs(ls[i])
           d == [i \in 1..n |-> I(i)]
           x == ShownAs(t)
           T == {I(i) : i \in 1..n} \cup {x}
<1>1. n \in Nat /\ Len(u) = n + 1 /\ u[n + 1] = t /\ \A i \in 1..n : u[i] = ls[i]
  OBVIOUS
<1>2. Shows(ls) = d
  BY DEF Shows
<1> HIDE DEF u, n
<1>3. Shows(u) = [i \in 1..(n + 1) |-> IF i = n + 1 THEN x ELSE I(i)]
  <2>1. \A i \in 1..(n + 1) : i = n + 1 \/ i \in 1..n
    BY <1>1
  <2>2. \A i \in 1..(n + 1) : ShownAs(u[i]) = IF i = n + 1 THEN x ELSE I(i)
    BY <1>1, <2>1
  <2> HIDE DEF x
  <2> QED BY <1>1, <2>2 DEF Shows
<1>4. x \in T /\ \A i \in 1..n : I(i) \in T
  OBVIOUS
<1> HIDE DEF T, I, x
<1>5. d \in Seq(T) /\ Len(d) = n
  BY <1>1, <1>4
<1>6. Append(d, x) = [i \in 1..(n + 1) |-> IF i = n + 1 THEN x ELSE I(i)]
  BY <1>1, <1>4, <1>5
<1> QED BY <1>1, <1>2, <1>3, <1>5, <1>6 DEF u, x, n

LEMMA ViewIs ==
  ASSUME NEW f \in Seq(Byte)
  PROVE  View(f) = Shows(EndLine(GetLines(f)).done)
<1> DEFINE e == EndLine(GetLines(f)).done
           ls == ParsedLines(f)
           N(i) == cJSON_Parse(e[i]).node
<1>1. e \in Seq(Seq(LineByte) \ {<<>>})
  BY LoadedIs
<1>2. Len(e) \in Nat /\ DOMAIN e = 1..Len(e)
  BY <1>1, SeqIs
<1>3. ls = [i \in 1..Len(e) |-> [text |-> e[i], node |-> N(i)]]
  BY <1>2 DEF ParsedLines
<1>4. DOMAIN ls = 1..Len(e) /\ \A i \in 1..Len(e) : ls[i].node = N(i) /\ ls[i].text = e[i]
  BY <1>3
<1> DEFINE I(i) == IF ls[i].node = Null.node
                   THEN [msg |-> [role |-> "user", content |-> <<>>], shape |-> "torn"]
                   ELSE [msg |-> ls[i].node, shape |-> Shown(ls[i])]
<1>5. View(f) = [i \in DOMAIN ls |-> I(i)]
  BY DEF View
<1>6. ASSUME NEW i \in 1..Len(e) PROVE I(i) = ShownAs(e[i])
  <2>1. ls[i].node = N(i) /\ ls[i].text = e[i]
    BY <1>4
  <2> HIDE DEF ls, e
  <2>2. CASE N(i) = Null.node
    <3>1. I(i) = [msg |-> [role |-> "user", content |-> <<>>], shape |-> "torn"]
      BY <2>1, <2>2
    <3>2. ShownAs(e[i]) = BySession!Torn
      BY <2>2 DEF ShownAs
    <3> QED BY <3>1, <3>2 DEF BySession!Torn
  <2>3. CASE N(i) # Null.node
    <3>1. I(i) = [msg |-> N(i), shape |-> Shown(ls[i])]
      BY <2>1, <2>3
    <3>2. Shown(ls[i]) = IF e[i] = cJSON_PrintUnformatted(N(i)) THEN "alone" ELSE "glued"
      BY <2>1, <2>3 DEF Shown
    <3>3. ShownAs(e[i]) = [msg |-> N(i), shape |-> IF e[i] = cJSON_PrintUnformatted(N(i)) THEN "alone" ELSE "glued"]
      BY <2>3 DEF ShownAs
    <3> QED BY <3>1, <3>2, <3>3
  <2> QED BY <2>2, <2>3
<1> HIDE DEF I, ls, e
<1>7. View(f) = Shows(e)
  BY <1>4, <1>5, <1>6 DEF Shows
<1> QED BY <1>7 DEF e

(* With the last line that is not complete, and without its newline.       *)
LEMMA ViewOpen ==
  ASSUME NEW f \in Seq(Byte)
  PROVE  LET L == GetLines(f)
         IN  /\ L.open = <<>> => View(f) = Shows(L.done)
             /\ L.open # <<>> => View(f) = Append(Shows(L.done), ShownAs(L.open))
             /\ Len(Shows(L.done)) \in Nat
<1> DEFINE L == GetLines(f)
           d == L.done
           o == L.open
<1>1. d \in Seq(Seq(LineByte) \ {<<>>}) /\ o \in Seq(LineByte)
  BY GetLinesType DEF LineStateOK
<1>2. EndLine(L).done = IF o = <<>> THEN d ELSE Append(d, o)
  BY DEF EndLine
<1>3. View(f) = Shows(EndLine(L).done)
  BY ViewIs
<1> HIDE DEF d, o, L
<1> DEFINE S == Seq(LineByte)
<1>4. o \in S /\ d \in Seq(S \ {<<>>})
  BY <1>1
<1> HIDE DEF S
<1>5. d \in Seq(S)
  <2>1. Len(d) \in Nat /\ d = [i \in 1..Len(d) |-> d[i]] /\ \A i \in 1..Len(d) : d[i] \in S \ {<<>>}
    BY <1>4, SeqIs
  <2> QED BY <2>1, SeqBy
<1>6. Shows(Append(d, o)) = Append(Shows(d), ShownAs(o)) /\ Len(Shows(d)) \in Nat
  BY <1>4, <1>5, ShowsMore
<1> QED BY <1>2, <1>3, <1>6 DEF d, o, L

LEMMA ViewEnd ==
  ASSUME NEW f \in Seq(Byte)
  PROVE  View(Append(f, Newline)) = View(f) /\ Append(f, Newline) \in Seq(Byte)
         /\ GetLines(Append(f, Newline)).open = <<>>
<1> DEFINE g == Append(f, Newline)
           L == GetLines(f)
           E == EndLine(L)
<1>1. Newline \in Byte
  BY BytesAre DEF Newline
<1>2. g \in Seq(Byte)
  BY <1>1
<1>3. GetLines(g) = E
  BY LinesEnd
<1>4. E.open = <<>>
  BY DEF EndLine
<1> HIDE DEF g, E
<1>5. View(g) = Shows(E.done)
  BY <1>2, <1>3, <1>4, ViewOpen
<1>6. View(f) = Shows(E.done)
  BY ViewIs DEF E, L
<1> QED BY <1>2, <1>3, <1>4, <1>5, <1>6 DEF g

LEMMA ShownMade ==
  ASSUME NEW t \in Seq(Byte), NEW m, Sayable(m), NEW n, MadeOf(t, m, n)
  PROVE  LET text == cJSON_PrintUnformatted(m)
         IN  /\ n # Len(text) => ShownAs(t) = BySession!Torn
             /\ n = Len(text) =>
                  ShownAs(t) = [msg |-> m, shape |-> IF t = text THEN "alone" ELSE "glued"]
<1> DEFINE text == cJSON_PrintUnformatted(m)
<1>1. n = Len(text) => cJSON_Parse(t).node = m
  BY MadeParse DEF Parsed
<1>2. n # Len(text) => cJSON_Parse(t).node = Null.node
  BY MadeParse
<1>3. m # Null.node
  BY GoodIsSome DEF Sayable
<1> QED BY <1>1, <1>2, <1>3 DEF ShownAs

(* A piece of a line is torn; without its newline the line is alone.       *)
LEMMA ShownPiece ==
  ASSUME NEW m, Sayable(m), NEW j \in 1..Len(cJSON_PrintUnformatted(m))
  PROVE  LET text == cJSON_PrintUnformatted(m)
         IN  ShownAs(SubSeq(text, 1, j)) = IF j = Len(text) THEN BySession!Line(m) ELSE BySession!Torn
<1> DEFINE text == cJSON_PrintUnformatted(m)
           t    == SubSeq(text, 1, j)
<1>1. text \in Seq(Byte) /\ Len(text) \in Nat /\ Good(m)
  BY TextStarts DEF Sayable
<1>2. MadeOf(t, m, j)
  BY <1>1, MadeFirst
<1>3. t \in Seq(Byte) /\ (j = Len(text) => t = text)
  <2> HIDE DEF text
  <2>1. j \in 0..Len(text)
    <3>1. j \in 1..Len(text)
      BY DEF text
    <3> QED BY <1>1, <3>1
  <2> QED BY <1>1, <2>1, PrefixOf, PrefixAll
<1> HIDE DEF t
<1>4. /\ j # Len(text) => ShownAs(t) = BySession!Torn
      /\ j = Len(text) => ShownAs(t) = [msg |-> m, shape |-> IF t = text THEN "alone" ELSE "glued"]
  BY <1>2, <1>3, ShownMade
<1>5. BySession!Line(m) = [msg |-> m, shape |-> "alone"]
  BY DEF BySession!Line
<1> HIDE DEF text
<1>6. ShownAs(t) = IF j = Len(text) THEN BySession!Line(m) ELSE BySession!Torn
  <2>1. CASE j = Len(text)
    <3>1. t = text
      BY <1>3, <2>1
    <3> QED BY <1>4, <1>5, <2>1, <3>1
  <2>2. CASE j # Len(text)
    BY <1>4, <2>2
  <2> QED BY <2>1, <2>2
<1> QED BY <1>6 DEF t, text

LEMMA ShownWhole ==
  ASSUME NEW m, Sayable(m)
  PROVE  ShownAs(cJSON_PrintUnformatted(m)) = BySession!Line(m)
<1> DEFINE text == cJSON_PrintUnformatted(m)
           n    == Len(text)
<1>1. text \in Seq(Byte) /\ n \in Nat /\ n >= 1
  BY TextStarts DEF Sayable
<1>2. n \in 1..Len(text)
  BY <1>1
<1>3. SubSeq(text, 1, n) = text
  <2> HIDE DEF text
  <2> QED BY <1>1, PrefixAll
<1>4. ShownAs(SubSeq(text, 1, n)) = IF n = Len(text) THEN BySession!Line(m) ELSE BySession!Torn
  BY <1>2, ShownPiece
<1> HIDE DEF text
<1>5. ShownAs(text) = BySession!Line(m)
  BY <1>3, <1>4 DEF n
<1> QED BY <1>5 DEF text

(* More behind it glues a message, and changes nothing of a torn line.     *)
LEMMA ShownGlued ==
  ASSUME NEW t \in Seq(Byte), NEW m, Sayable(m), NEW n, MadeOf(t, m, n), NEW c \in Seq(Byte),
         NEW k \in 1..Len(cJSON_PrintUnformatted(Message(c)))
  PROVE  ShownAs(t \o SubSeq(cJSON_PrintUnformatted(Message(c)), 1, k)) = BySession!Glue(ShownAs(t))
<1> DEFINE text == cJSON_PrintUnformatted(m)
           more == cJSON_PrintUnformatted(Message(c))
           x    == SubSeq(more, 1, k)
           u    == t \o x
<1>1. Good(m) /\ more \in Seq(Byte) /\ Len(more) \in Nat /\ text \in Seq(Byte) /\ Len(text) \in Nat
  BY MessageText, TextStarts DEF Sayable
<1>2. MadeOf(u, m, n)
  BY <1>1, MadeMore
<1>3. n \in 1..Len(text) /\ Runs(t, 1, text, n)
  BY DEF MadeOf
<1>4. x \in Seq(Byte) /\ Len(x) = k /\ k \in Nat /\ k >= 1
  <2> HIDE DEF more
  <2>1. k \in 1..Len(more)
    BY DEF more
  <2>2. k \in 0..Len(more) /\ k \in Nat /\ k >= 1
    BY <1>1, <2>1
  <2> QED BY <1>1, <2>2, PrefixOf
<1> HIDE DEF x, text, more
<1>5. u \in Seq(Byte) /\ Len(u) = Len(t) + k /\ Len(t) \in Nat
  BY <1>4
<1> HIDE DEF u
<1>6. /\ n # Len(text) => ShownAs(t) = BySession!Torn
      /\ n = Len(text) => ShownAs(t) = [msg |-> m, shape |-> IF t = text THEN "alone" ELSE "glued"]
  BY ShownMade DEF text
<1>7. /\ n # Len(text) => ShownAs(u) = BySession!Torn
      /\ n = Len(text) => ShownAs(u) = [msg |-> m, shape |-> IF u = text THEN "alone" ELSE "glued"]
  BY <1>2, <1>5, ShownMade DEF text
<1>8. n = Len(text) => u # text
  <2> SUFFICES ASSUME n = Len(text), u = text PROVE FALSE
    OBVIOUS
  <2>1. At(t, 1 + n - 1, text[n])
    BY <1>3 DEF Runs
  <2>2. n <= Len(t)
    <3>1. 1 + n - 1 = n
      BY <1>1, <1>3
    <3> QED BY <2>1, <3>1 DEF At
  <2> QED BY <1>1, <1>3, <1>4, <1>5, <2>2
<1>9. BySession!Glue(BySession!Torn) = BySession!Torn
  BY DEF BySession!Glue, BySession!Torn
<1>10. BySession!Glue([msg |-> m, shape |-> IF t = text THEN "alone" ELSE "glued"]) = [msg |-> m, shape |-> "glued"]
  BY DEF BySession!Glue
<1>11. ShownAs(u) = BySession!Glue(ShownAs(t))
  BY <1>6, <1>7, <1>8, <1>9, <1>10
<1> QED BY <1>11 DEF u, x, more

LEMMA ShowsPrinted ==
  ASSUME NEW S, \A m \in S : Sayable(m), NEW ms \in Seq(S), NEW n \in 0..Len(ms)
  PROVE  Shows(Printed(ms, n)) = BySession!FileOf(SubSeq(ms, 1, n))
<1> DEFINE P(i) == cJSON_PrintUnformatted(ms[i])
           u    == SubSeq(ms, 1, n)
<1>1. Len(ms) \in Nat /\ n \in Nat /\ Len(u) = n /\ \A i \in 1..n : u[i] = ms[i] /\ i \in 1..Len(ms)
  <2>1. Len(ms) \in Nat
    BY SeqIs
  <2>2. n \in Nat /\ \A i \in 1..n : i \in 1..Len(ms)
    BY <2>1
  <2> QED BY <2>1, <2>2, PrefixOf
<1>2. \A i \in 1..n : ShownAs(P(i)) = BySession!Line(u[i])
  <2>1. \A i \in 1..n : Sayable(ms[i]) /\ u[i] = ms[i]
    BY <1>1, SeqIs
  <2> QED BY <2>1, ShownWhole
<1> HIDE DEF u
<1>3. Len(Printed(ms, n)) = n /\ \A i \in 1..n : Printed(ms, n)[i] = P(i)
  BY <1>1 DEF Printed
<1> HIDE DEF P
<1>4. Shows(Printed(ms, n)) = [i \in 1..n |-> BySession!Line(u[i])]
  <2>1. \A i \in 1..n : ShownAs(Printed(ms, n)[i]) = BySession!Line(u[i])
    BY <1>2, <1>3
  <2> QED BY <1>3, <2>1 DEF Shows
<1>5. BySession!FileOf(u) = [i \in 1..n |-> BySession!Line(u[i])]
  BY <1>1 DEF BySession!FileOf
<1> QED BY <1>4, <1>5 DEF u

EndsLine(f) == f = <<>> \/ f[Len(f)] = Newline

(* A rewrite, cut anywhere.                                                *)
LEMMA RewriteAsSession ==
  ASSUME SaidInv, session_rewrite, disk' = View(bytes')
  PROVE  BySession!session_rewrite
<1> DEFINE w == messages
           W == FileText(w)
           f == bytes'
           L == GetLines(f)
           d == L.done
           o == L.open
           P(i) == cJSON_PrintUnformatted(w[i])
           F(n) == BySession!FileOf(SubSeq(w, 1, n))
<1>1. BytesInv /\ (\A m \in said : Sayable(m)) /\ \A i \in 1..Len(messages) : messages[i] \in said
  BY DEF SaidInv
<1>2. w \in Seq(said) /\ Len(w) \in Nat
  BY <1>1, SeqBy DEF BytesInv, GoodMessages
<1>3. f \in Seq(Byte)
  BY <1>1, RewriteType
<1>4. PartOf(w, L)
  <2>1. \A v \in said : Good(v)
    BY <1>1 DEF Sayable
  <2>2. Rewritten(w)
    BY <1>2, <2>1, RewrittenIs
  <2>3. PICK k \in 0..Len(W) : bytes' = SubSeq(W, 1, k)
    BY DEF session_rewrite, FileText
  <2> QED BY <2>2, <2>3 DEF Rewritten
<1>5. PICK n \in 0..Len(w) :
        /\ d = Printed(w, n)
        /\ \/ o = <<>>
           \/ n < Len(w) /\ \E j \in 1..Len(P(n + 1)) : o = SubSeq(P(n + 1), 1, j)
  BY <1>4 DEF PartOf
<1>6. o = <<>> <=> EndsLine(f)
  BY <1>3, EolIs DEF EndsLine
<1>7. (o = <<>> => View(f) = Shows(d)) /\ (o # <<>> => View(f) = Append(Shows(d), ShownAs(o)))
  BY <1>3, ViewOpen
<1>8. Shows(d) = F(n)
  BY <1>1, <1>2, <1>5, ShowsPrinted
<1>9. o # <<>> => n < Len(w) /\ (ShownAs(o) = BySession!Torn \/ ShownAs(o) = BySession!Line(w[n + 1]))
  <2> SUFFICES ASSUME o # <<>>
               PROVE  n < Len(w) /\ (ShownAs(o) = BySession!Torn \/ ShownAs(o) = BySession!Line(w[n + 1]))
    OBVIOUS
  <2>1. n + 1 \in 1..Len(w)
    BY <1>2, <1>5
  <2>2. Sayable(w[n + 1])
    BY <1>1, <2>1
  <2>3. PICK j \in 1..Len(P(n + 1)) : o = SubSeq(P(n + 1), 1, j)
    BY <1>5
  <2>4. ShownAs(SubSeq(P(n + 1), 1, j)) = IF j = Len(P(n + 1)) THEN BySession!Line(w[n + 1]) ELSE BySession!Torn
    BY <2>2, ShownPiece
  <2> QED BY <1>5, <2>3, <2>4
<1>10. disk' = View(f)
  OBVIOUS
<1>11. n = Len(w) => F(n) = BySession!FileOf(w)
  BY <1>2, PrefixAll
<1>12. n < Len(w) => n \in 0..(Len(w) - 1)
  BY <1>2
<1> HIDE DEF F, o, d, L
<1>13. EndsLine(f) <=> (bytes' = <<>> \/ bytes'[Len(bytes')] = Newline)
  BY DEF EndsLine
<1>14. CASE o = <<>> /\ n = Len(w)
  <2>1. disk' = BySession!FileOf(messages) /\ EndsLine(f)
    BY <1>6, <1>7, <1>8, <1>10, <1>11, <1>14
  <2> QED BY <1>13, <2>1 DEF BySession!session_rewrite
<1>15. CASE n < Len(w)
  <2> DEFINE t == BySession!Torn
             l == BySession!Line(messages[n + 1])
             e == EndsLine(f)
  <2>1. \/ disk' = F(n) /\ e
        \/ disk' = Append(F(n), t) /\ ~e
        \/ disk' = Append(F(n), l) /\ ~e
    BY <1>6, <1>7, <1>8, <1>9, <1>10
  <2>2. BySession!ShortFile(n)
    <3> HIDE DEF f
    <3>1. (e => (bytes' = <<>> \/ bytes'[Len(bytes')] = Newline) = TRUE)
          /\ (~e => (bytes' = <<>> \/ bytes'[Len(bytes')] = Newline) = FALSE)
      BY <1>13
    <3> HIDE DEF e, t, l
    <3> QED BY <2>1, <3>1 DEF BySession!ShortFile, F, t, l
  <2> QED BY <1>12, <1>15, <2>2 DEF BySession!session_rewrite
<1>16. n = Len(w) \/ n < Len(w)
  BY <1>2, <1>5
<1> QED BY <1>9, <1>14, <1>15, <1>16

LEMMA AppendIs ==
  ASSUME NEW S, NEW s \in Seq(S), NEW x \in S
  PROVE  /\ Len(Append(s, x)) = Len(s) + 1 /\ Append(s, x)[Len(s) + 1] = x
         /\ Append(s, x) = [i \in 1..(Len(s) + 1) |-> IF i = Len(s) + 1 THEN x ELSE s[i]]
<1> DEFINE u == Append(s, x)
           n == Len(s)
<1>1. /\ u \in Seq(S) /\ Len(u) = n + 1 /\ u[n + 1] = x /\ n \in Nat
      /\ \A i \in 1..n : u[i] = s[i]
  OBVIOUS
<1>2. u = [i \in 1..(n + 1) |-> u[i]]
  BY <1>1, SeqIs
<1>3. \A i \in 1..(n + 1) : u[i] = IF i = n + 1 THEN x ELSE s[i]
  <2>1. \A i \in 1..(n + 1) : i = n + 1 \/ i \in 1..n
    BY <1>1
  <2> HIDE DEF u, n
  <2> QED BY <1>1, <2>1
<1> HIDE DEF u, n
<1>4. u = [i \in 1..(n + 1) |-> IF i = n + 1 THEN x ELSE s[i]]
  BY <1>2, <1>3
<1> QED BY <1>1, <1>4 DEF u, n

(* An append, cut anywhere, to a file however it ends.                     *)
LEMMA AppendAsSession ==
  ASSUME SaidInv, disk = View(bytes), NEW c \in Seq(Byte), session_append(Message(c)), disk' = View(bytes')
  PROVE  BySession!session_append(Message(c))
<1> DEFINE m    == Message(c)
           text == cJSON_PrintUnformatted(m)
           L    == GetLines(bytes)
           d    == L.done
           o    == L.open
           D    == Shows(d)
           torn == BySession!Torn
           line == BySession!Line(m)
<1>1. PICK k \in 0..Len(text) : \E nl \in {<<>>, <<Newline>>} : bytes' = bytes \o SubSeq(text, 1, k) \o nl
  BY DEF session_append
<1> DEFINE x == SubSeq(text, 1, k)
           u == bytes \o x
<1>2. PICK nl \in {<<>>, <<Newline>>} : bytes' = u \o nl
  BY <1>1
<1>3. bytes \in Seq(Byte) /\ (\A v \in said : Sayable(v)) /\ (o = <<>> \/ \E v \in said : \E n : MadeOf(o, v, n))
  BY DEF SaidInv, BytesInv, FileKnown
<1>4. Good(m) /\ Sayable(m)
  BY MessageIs DEF Sayable
<1>5. text \in Seq(LineByte) /\ Len(text) \in Nat
  BY <1>4, LineText
<1>6. k \in 0..Len(text) /\ k \in Nat
  <2> HIDE DEF text
  <2> QED BY <1>5
<1> HIDE DEF text
<1>7. x \in Seq(LineByte) /\ Len(x) = k
  BY <1>5, <1>6, PrefixOf
<1> HIDE DEF x
<1>8. x \in Seq(Byte)
  BY <1>7, LineIsText
<1>9. u \in Seq(Byte)
  BY <1>3, <1>8
<1>10. o \in Seq(LineByte)
  BY <1>3, GetLinesType DEF LineStateOK
<1>11. GetLines(u) = [done |-> d, open |-> o \o x]
  BY <1>3, <1>7, LinesText
<1>12. (o = <<>> <=> EndsLine(bytes)) /\ (o \o x = <<>> <=> EndsLine(u))
  <2>1. GetLines(u).open = o \o x
    BY <1>11
  <2>2. GetLines(u).open = <<>> <=> EndsLine(u)
    BY <1>9, EolIs DEF EndsLine
  <2>3. L.open = <<>> <=> EndsLine(bytes)
    BY <1>3, EolIs DEF EndsLine
  <2> QED BY <2>1, <2>2, <2>3
<1>13. /\ o = <<>> => View(bytes) = D
       /\ o # <<>> => View(bytes) = Append(D, ShownAs(o))
       /\ Len(D) \in Nat
  BY <1>3, ViewOpen
<1>14. o \o x # <<>> => View(u) = Append(D, ShownAs(o \o x))
  <2>1. GetLines(u).done = d /\ GetLines(u).open = o \o x
    BY <1>11
  <2> DEFINE y == o \o x
             g == GetLines(u)
  <2>2. g.open # <<>> => View(u) = Append(Shows(g.done), ShownAs(g.open))
    BY <1>9, ViewOpen
  <2> HIDE DEF y, g, d
  <2>3. g.done = d /\ g.open = y
    BY <2>1 DEF y, g
  <2>4. y # <<>> => View(u) = Append(Shows(d), ShownAs(y))
    BY <2>2, <2>3
  <2> QED BY <2>4 DEF y
<1> HIDE DEF L, u, D
<1>15. /\ nl = <<>> => View(bytes') = View(u) /\ (EndsLine(bytes') <=> EndsLine(u))
       /\ nl = <<Newline>> => View(bytes') = View(u) /\ EndsLine(bytes')
  <2>1. CASE nl = <<>>
    <3>1. bytes' = u
      BY <1>2, <1>9, <2>1
    <3>2. <<>> # <<Newline>>
      OBVIOUS
    <3> QED BY <2>1, <3>1, <3>2
  <2>2. CASE nl = <<Newline>>
    <3>1. Newline \in Byte
      BY BytesAre DEF Newline
    <3>2. bytes' = Append(u, Newline)
      BY <1>2, <1>9, <2>2, <3>1
    <3>3. View(bytes') = View(u) /\ bytes' \in Seq(Byte) /\ GetLines(bytes').open = <<>>
      BY <1>9, <3>2, ViewEnd
    <3>4. EndsLine(bytes')
      BY <3>3, EolIs DEF EndsLine
    <3>5. <<>> # <<Newline>>
      OBVIOUS
    <3> QED BY <2>2, <3>3, <3>4, <3>5
  <2> QED BY <1>2, <2>1, <2>2
<1> DEFINE e == EndsLine(bytes)
           E == EndsLine(bytes')
           M == nl = <<Newline>>
<1>16. (bytes = <<>> \/ bytes[Len(bytes)] = Newline) = e /\ (bytes' = <<>> \/ bytes'[Len(bytes')] = Newline) = E
  BY DEF EndsLine
<1>17. disk = View(bytes) /\ disk' = View(bytes') /\ M \in BOOLEAN /\ (M <=> nl # <<>>) /\ E \in BOOLEAN /\ e \in BOOLEAN
  <2>1. <<>> # <<Newline>>
    OBVIOUS
  <2>2. M \in BOOLEAN /\ E \in BOOLEAN /\ e \in BOOLEAN
    BY DEF EndsLine
  <2> QED BY <1>2, <2>1, <2>2
<1>18. CASE k = 0
  <2>1. x = <<>>
    BY <1>7, <1>18
  <2>2. u = bytes
    BY <1>3, <2>1 DEF u
  <2>3. disk' = disk /\ (M => E = TRUE) /\ (~M => E = e)
    BY <1>15, <1>17, <2>2
  <2> HIDE DEF e, E, M
  <2>4. CASE M
    <3>1. disk' = disk /\ (bytes' = <<>> \/ bytes'[Len(bytes')] = Newline) = TRUE
      BY <1>16, <2>3, <2>4
    <3> QED BY <3>1 DEF BySession!session_append
  <2>5. CASE ~M
    <3>1. disk' = disk /\ (bytes' = <<>> \/ bytes'[Len(bytes')] = Newline) = (bytes = <<>> \/ bytes[Len(bytes)] = Newline)
      BY <1>16, <2>3, <2>5
    <3> QED BY <3>1 DEF BySession!session_append, BySession!file
  <2> QED BY <2>4, <2>5
<1>19. CASE k # 0
  <2>1. k \in 1..Len(text) /\ x # <<>>
    BY <1>5, <1>6, <1>7, <1>19
  <2>2. o \o x # <<>>
    <3>1. o \in Seq(Byte)
      BY <1>10, LineIsText
    <3> HIDE DEF o
    <3> QED BY <1>8, <2>1, <3>1
  <2>3. disk' = Append(D, ShownAs(o \o x)) /\ E = M
    BY <1>12, <1>14, <1>15, <1>17, <2>2
  <2> DEFINE item == IF k = Len(text) THEN line ELSE torn
  <2>4. disk' = IF e THEN Append(disk, item) ELSE [disk EXCEPT ![Len(disk)] = BySession!Glue(@)]
    <3>1. CASE o = <<>>
      <4>1. o \o x = x
        BY <1>7, <3>1
      <4>2. ShownAs(x) = item
        BY <1>4, <2>1, ShownPiece DEF text, x
      <4>3. disk = D /\ e
        BY <1>12, <1>13, <1>17, <3>1
      <4> HIDE DEF item, e, o
      <4> QED BY <2>3, <4>1, <4>2, <4>3
    <3>2. CASE o # <<>>
      <4>1. o \in Seq(Byte)
        BY <1>10, LineIsText
      <4>2. PICK v \in said : \E n : MadeOf(o, v, n)
        BY <1>3, <3>2
      <4>3. PICK n : MadeOf(o, v, n)
        BY <4>2
      <4>4. Sayable(v)
        BY <1>3
      <4> DEFINE a == ShownAs(o)
                 b == ShownAs(o \o x)
      <4>5. b = BySession!Glue(a)
        <5> HIDE DEF o
        <5>1. k \in 1..Len(cJSON_PrintUnformatted(Message(c)))
          BY <2>1 DEF text
        <5>2. ShownAs(o \o SubSeq(cJSON_PrintUnformatted(Message(c)), 1, k)) = BySession!Glue(ShownAs(o))
          BY <4>1, <4>3, <4>4, <5>1, ShownGlued
        <5> QED BY <5>2 DEF x, text
      <4>6. disk = Append(D, a) /\ ~e /\ disk' = Append(D, b)
        BY <1>12, <1>13, <1>17, <2>3, <3>2
      <4> HIDE DEF a, b, e
      <4>7. [Append(D, a) EXCEPT ![Len(Append(D, a))] = BySession!Glue(@)] = Append(D, b)
        <5> DEFINE S == {D[i] : i \in 1..Len(D)} \cup {a, b}
        <5>1. D = [i \in 1..Len(D) |-> D[i]]
          BY <1>13 DEF D, Shows
        <5>2. a \in S /\ b \in S /\ \A i \in 1..Len(D) : D[i] \in S
          OBVIOUS
        <5> HIDE DEF S
        <5>3. D \in Seq(S)
          BY <1>13, <5>1, <5>2, SeqBy
        <5> DEFINE q == Append(D, a)
                   r == Append(D, b)
                   n1 == Len(D) + 1
        <5>4. /\ Len(q) = n1 /\ q[n1] = a /\ q = [i \in 1..n1 |-> IF i = n1 THEN a ELSE D[i]]
              /\ r = [i \in 1..n1 |-> IF i = n1 THEN b ELSE D[i]]
          BY <5>2, <5>3, AppendIs
        <5> HIDE DEF q, r
        <5>5. [q EXCEPT ![n1] = BySession!Glue(@)] = [q EXCEPT ![n1] = b]
          BY <4>5, <5>4
        <5>6. [q EXCEPT ![n1] = b] = r
          BY <1>13, <5>4
        <5> QED BY <5>4, <5>5, <5>6 DEF q, r
      <4> QED BY <4>6, <4>7
    <3> QED BY <3>1, <3>2
  <2>5. BySession!Write(item, M)
    <3> HIDE DEF e, E, M, item
    <3>1. (bytes' = <<>> \/ bytes'[Len(bytes')] = Newline) = M
      BY <1>16, <2>3
    <3>2. disk' = IF (bytes = <<>> \/ bytes[Len(bytes)] = Newline) THEN Append(disk, item)
                  ELSE [disk EXCEPT ![Len(disk)] = BySession!Glue(@)]
      BY <1>16, <2>4
    <3> QED BY <3>1, <3>2 DEF BySession!Write
  <2> HIDE DEF M
  <2>6. CASE k = Len(text) /\ M
    <3>1. BySession!Write(BySession!Line(m), TRUE)
      <4>1. item = BySession!Line(m) /\ M = TRUE
        BY <1>17, <2>6
      <4> HIDE DEF item
      <4> QED BY <2>5, <4>1
    <3> QED BY <3>1 DEF BySession!session_append
  <2>7. CASE k = Len(text) /\ ~M
    <3>1. BySession!Write(BySession!Line(m), FALSE)
      <4>1. item = BySession!Line(m) /\ M = FALSE
        BY <1>17, <2>7
      <4> HIDE DEF item
      <4> QED BY <2>5, <4>1
    <3> QED BY <3>1 DEF BySession!session_append
  <2>8. CASE k # Len(text)
    <3>1. BySession!Write(BySession!Torn, M) /\ M \in BOOLEAN
      <4>1. item = BySession!Torn
        BY <2>8
      <4> HIDE DEF item
      <4> QED BY <1>17, <2>5, <4>1
    <3> QED BY <3>1 DEF BySession!session_append
  <2> QED BY <2>6, <2>7, <2>8
<1> QED BY <1>18, <1>19

ViewInv == SaidInv /\ disk = View(bytes)

LEMMA ViewStart ==
  ASSUME BytesInit
  PROVE  ViewInv
<1>1. SaidInv
  BY SaidStart
<1>2. bytes = <<>> /\ disk = <<>> /\ bytes \in Seq(Byte)
  BY <1>1 DEF BytesInit, SaidInv, BytesInv
<1>3. GetLines(bytes) = LineStart
  BY <1>2, LinesEnd
<1>4. LineStart.open = <<>> /\ LineStart.done = <<>>
  BY DEF LineStart
<1>5. View(bytes) = Shows(<<>>)
  BY <1>2, <1>3, <1>4, ViewOpen
<1>6. Shows(<<>>) = <<>>
  <2>1. \A i \in 1..Len(<<>>) : FALSE
    OBVIOUS
  <2> QED BY <2>1 DEF Shows
<1> QED BY <1>1, <1>2, <1>5, <1>6 DEF ViewInv

SessionStep ==
  running /\ running' =>
    IF messages' = messages THEN BySession!session_rewrite
    ELSE BySession!session_append(messages'[Len(messages')])

LEMMA ViewStep ==
  ASSUME ViewInv, [BytesNext]_vars
  PROVE  ViewInv' /\ [SessionStep]_vars
<1>1. SaidInv /\ disk = View(bytes)
  BY DEF ViewInv
<1>2. SaidInv'
  BY <1>1, SaidStep
<1>3. CASE UNCHANGED vars
  <2>1. disk' = disk /\ bytes' = bytes
    BY <1>3 DEF vars
  <2> QED BY <1>1, <1>2, <1>3, <2>1 DEF ViewInv
<1>4. CASE BytesNext
  <2>1. disk' = View(bytes') /\ (Start \/ Say \/ Rewrite \/ Stop \/ Foreign)
    BY <1>4 DEF BytesNext
  <2>2. ViewInv'
    BY <1>2, <2>1 DEF ViewInv
  <2>3. CASE Start \/ Stop \/ Foreign
    <3>1. ~(running /\ running')
      BY <2>3 DEF Start, Stop, Foreign
    <3> QED BY <2>2, <3>1 DEF SessionStep
  <2>4. CASE Say
    <3>1. PICK c \in Contents : messages' = Append(messages, Message(c)) /\ session_append(Message(c))
      BY <2>4 DEF Say
    <3>2. c \in Seq(Byte)
      BY ContentsAssumption
    <3>3. BySession!session_append(Message(c))
      BY <1>1, <2>1, <3>1, <3>2, AppendAsSession
    <3> DEFINE m == Message(c)
               S == said \cup {m}
    <3>4. messages \in Seq(S) /\ m \in S
      <4>1. Len(messages) \in Nat /\ messages = [i \in 1..Len(messages) |-> messages[i]]
            /\ \A i \in 1..Len(messages) : messages[i] \in said
        BY <1>1 DEF SaidInv, BytesInv, GoodMessages
      <4>2. \A i \in 1..Len(messages) : messages[i] \in S
        BY <4>1
      <4>3. m \in S
        OBVIOUS
      <4> HIDE DEF S
      <4> QED BY <4>1, <4>2, <4>3, SeqBy
    <3> HIDE DEF m, S
    <3>5. messages' # messages /\ messages'[Len(messages')] = m
      <4>1. messages' = Append(messages, m)
        BY <3>1 DEF m
      <4> QED BY <3>4, <4>1
    <3>6. SessionStep
      BY <3>3, <3>5 DEF SessionStep, m
    <3> QED BY <2>2, <3>6
  <2>5. CASE Rewrite
    <3>1. session_rewrite /\ messages' = messages
      BY <2>5 DEF Rewrite
    <3>2. BySession!session_rewrite
      BY <1>1, <2>1, <3>1, RewriteAsSession
    <3>3. SessionStep
      BY <3>1, <3>2 DEF SessionStep
    <3> QED BY <2>2, <3>3
  <2> QED BY <2>1, <2>3, <2>4, <2>5
<1> QED BY <1>3, <1>4

(* Every append and every rewrite of bytes, cut at any of them, is one of  *)
(* the steps that Session takes over lines: what Session's theorems say of *)
(* lost, torn, glued and short writes, they say of bytes                   *)
(* (main.c:1015-1037).                                                     *)
THEOREM FileAsSessionCorrect == BytesSpec => FileAsSession
<1>1. BytesInit => ViewInv
  BY ViewStart
<1>2. ViewInv /\ [BytesNext]_vars => ViewInv'
  BY ViewStep
<1>3. ViewInv /\ [BytesNext]_vars => [SessionStep]_vars
  BY ViewStep
<1>4. BytesSpec => [][SessionStep]_vars
  BY <1>1, <1>2, <1>3, PTL DEF BytesSpec
<1> QED BY <1>4 DEF FileAsSession, SessionStep
=============================================================================
