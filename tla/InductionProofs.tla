--------------------------- MODULE InductionProofs ---------------------------
(***************************************************************************)
(* Induction over the naturals for formulas that quantify over sets, and   *)
(* what follows from it about the first element of a sequence that has a   *)
(* property.                                                               *)
(***************************************************************************)
EXTENDS Integers, Sequences, SequencesExt, FiniteSetTheorems, TLAPS

(* The strict inclusion of intervals 0..k stands for the order of their    *)
(* ends: it is well-founded.                                               *)
LEMMA LeastElement ==
  ASSUME NEW T \in SUBSET Nat, NEW n \in T
  PROVE  \E x \in T : \A y \in T : x <= y
<1> DEFINE U == {0 .. k : k \in {k \in T : k <= n}}
<1>1. IsFiniteSet(0..n)
  BY FS_Interval
<1>2. IsWellFoundedOn(StrictSubsetOrdering(0..n), FiniteSubsetsOf(0..n))
  BY <1>1, FS_StrictSubsetOrderingWellFounded
<1>3. U \subseteq FiniteSubsetsOf(0..n)
  <2> SUFFICES ASSUME NEW k \in T, k <= n PROVE 0..k \in FiniteSubsetsOf(0..n)
    OBVIOUS
  <2>1. 0..k \subseteq 0..n
    OBVIOUS
  <2>2. IsFiniteSet(0..k)
    BY <1>1, <2>1, FS_Subset
  <2> QED BY <2>1, <2>2 DEF FiniteSubsetsOf
<1>4. U # {}
  OBVIOUS
<1>5. PICK s \in U : \A t \in U : ~(<<t, s>> \in StrictSubsetOrdering(0..n))
  <2> HIDE DEF U
  <2> QED BY <1>2, <1>3, <1>4, WFMin
<1>6. PICK k \in T : k <= n /\ s = 0..k
  OBVIOUS
<1>7. ASSUME NEW y \in T, y < k PROVE FALSE
  <2>1. (0..y) \in U
    BY <1>6, <1>7
  <2>2. <<0..y, 0..k>> \in StrictSubsetOrdering(0..n)
    BY <1>6, <1>7 DEF StrictSubsetOrdering
  <2> QED BY <1>5, <1>6, <2>1, <2>2
<1> QED BY <1>7

LEMMA SetInduction ==
  ASSUME NEW G \in SUBSET Nat, 0 \in G, \A n \in G : n + 1 \in G
  PROVE  G = Nat
<1> SUFFICES ASSUME NEW m \in Nat \ G PROVE FALSE
  OBVIOUS
<1>1. PICK x \in Nat \ G : \A y \in Nat \ G : x <= y
  BY LeastElement
<1>2. x # 0 /\ x - 1 \in Nat
  OBVIOUS
<1>3. x - 1 \in G
  BY <1>1, <1>2
<1> QED BY <1>1, <1>3

LEMMA MinIsLeast ==
  ASSUME NEW T \in SUBSET Nat, T # {}
  PROVE  Min(T) \in T /\ \A y \in T : Min(T) <= y
<1>1. \E x \in T : \A y \in T : x <= y
  BY LeastElement
<1> QED BY <1>1 DEF Min

LEMMA MinIs ==
  ASSUME NEW T \in SUBSET Nat, NEW x \in T, \A y \in T : x <= y
  PROVE  Min(T) = x
<1>1. Min(T) \in T /\ Min(T) <= x
  BY MinIsLeast
<1>2. x <= Min(T)
  BY <1>1
<1>3. x \in Nat /\ Min(T) \in Nat
  BY <1>1
<1> HIDE DEF Min
<1> QED BY ONLY <1>1, <1>2, <1>3

-----------------------------------------------------------------------------
(* What the recursion of FlattenSeq computes.                              *)
Flattens(ss, f, n) ==
  \A i \in 1..n : f[i] = IF i = 1 THEN ss[i] ELSE f[i - 1] \o ss[i]

LEMMA FlattenExists ==
  ASSUME NEW T, NEW ss \in Seq(Seq(T))
  PROVE  \E f : f = [i \in 1..Len(ss) |-> IF i = 1 THEN ss[i] ELSE f[i - 1] \o ss[i]]
<1> DEFINE Has(n) == \E f \in [1..n -> Seq(T)] : Flattens(ss, f, n)
           G == {n \in Nat : n <= Len(ss) => Has(n)}
<1>0. Len(ss) \in Nat /\ \A i \in 1..Len(ss) : ss[i] \in Seq(T)
  OBVIOUS
<1>1. Has(0)
  <2>1. [i \in 1..0 |-> <<>>] \in [1..0 -> Seq(T)]
    OBVIOUS
  <2>2. \A f : Flattens(ss, f, 0)
    BY DEF Flattens
  <2> QED BY <2>1, <2>2
<1>2. ASSUME NEW n \in G PROVE n + 1 \in G
  <2> SUFFICES ASSUME n + 1 <= Len(ss) PROVE Has(n + 1)
    OBVIOUS
  <2>1. n \in Nat /\ n <= Len(ss) /\ ss[n + 1] \in Seq(T)
    BY <1>0
  <2>2. PICK f \in [1..n -> Seq(T)] : Flattens(ss, f, n)
    BY <2>1
  <2> DEFINE last == IF n = 0 THEN ss[n + 1] ELSE f[n] \o ss[n + 1]
             g == [i \in 1..(n + 1) |-> IF i = n + 1 THEN last ELSE f[i]]
  <2>3. last \in Seq(T)
    <3>1. CASE n = 0
      BY <2>1, <3>1
    <3>2. CASE n # 0
      <4>1. f[n] \in Seq(T)
        BY <2>1, <3>2
      <4> QED BY <2>1, <3>2, <4>1
    <3> QED BY <3>1, <3>2
  <2> HIDE DEF last
  <2>4. g \in [1..(n + 1) -> Seq(T)]
    BY <2>1, <2>3
  <2>5. ASSUME NEW i \in 1..(n + 1)
        PROVE  g[i] = IF i = 1 THEN ss[i] ELSE g[i - 1] \o ss[i]
    <3>1. CASE i = n + 1
      <4>1. CASE n = 0
        BY <3>1, <4>1 DEF last
      <4>2. CASE n # 0
        <5>1. i # 1 /\ i - 1 = n /\ n \in 1..(n + 1) /\ n # n + 1
          BY <2>1, <3>1, <4>2
        <5>2. g[n] = f[n] /\ g[i] = last
          BY <3>1, <5>1
        <5> QED BY <3>1, <4>2, <5>1, <5>2 DEF last
      <4> QED BY <4>1, <4>2
    <3>2. CASE i # n + 1
      <4>1. i \in 1..n
        BY <2>1, <3>2
      <4>2. g[i] = f[i]
        BY <3>2
      <4>3. f[i] = IF i = 1 THEN ss[i] ELSE f[i - 1] \o ss[i]
        BY <2>2, <4>1 DEF Flattens
      <4>4. i # 1 => i - 1 \in 1..(n + 1) /\ i - 1 # n + 1
        BY <2>1, <4>1
      <4> QED BY <4>2, <4>3, <4>4
    <3> QED BY <3>1, <3>2
  <2> HIDE DEF g
  <2> QED BY <2>4, <2>5 DEF Flattens
<1> HIDE DEF Has
<1>3. G = Nat
  <2>1. G \in SUBSET Nat /\ 0 \in G
    BY <1>1
  <2>2. \A n \in G : n + 1 \in G
    BY <1>2
  <2> HIDE DEF G
  <2> QED BY <2>1, <2>2, SetInduction
<1>4. Has(Len(ss))
  BY <1>0, <1>3
<1>5. PICK f \in [1..Len(ss) -> Seq(T)] : Flattens(ss, f, Len(ss))
  BY <1>4 DEF Has
<1>6. f = [i \in 1..Len(ss) |-> f[i]]
  BY <1>5
<1>7. f = [i \in 1..Len(ss) |-> IF i = 1 THEN ss[i] ELSE f[i - 1] \o ss[i]]
  BY <1>5, <1>6 DEF Flattens
<1> QED BY <1>7

LEMMA FlattenUnique ==
  ASSUME NEW T, NEW ss \in Seq(Seq(T)), NEW n \in Nat, n <= Len(ss), NEW f, NEW g,
         Flattens(ss, f, n), Flattens(ss, g, n)
  PROVE  \A i \in 1..n : f[i] = g[i] /\ f[i] \in Seq(T)
<1> DEFINE G == {m \in Nat : m + 1 <= n => f[m + 1] = g[m + 1] /\ f[m + 1] \in Seq(T)}
<1>0. Len(ss) \in Nat /\ \A i \in 1..Len(ss) : ss[i] \in Seq(T)
  OBVIOUS
<1>1. 0 \in G
  <2> SUFFICES ASSUME 1 <= n PROVE f[1] = g[1] /\ f[1] \in Seq(T)
    OBVIOUS
  <2>1. 1 \in 1..n /\ ss[1] \in Seq(T)
    BY <1>0
  <2> QED BY <2>1 DEF Flattens
<1>2. ASSUME NEW m \in G PROVE m + 1 \in G
  <2> DEFINE k == m + 1
  <2> SUFFICES ASSUME k + 1 <= n PROVE f[k + 1] = g[k + 1] /\ f[k + 1] \in Seq(T)
    OBVIOUS
  <2>1. f[k] = g[k] /\ f[k] \in Seq(T)
    OBVIOUS
  <2>2. k \in Nat /\ k >= 1
    OBVIOUS
  <2> HIDE DEF k
  <2>3. k + 1 \in 1..n /\ k + 1 # 1 /\ (k + 1) - 1 = k /\ k + 1 \in 1..Len(ss)
    BY <1>0, <2>2
  <2>4. f[k + 1] = f[k] \o ss[k + 1] /\ g[k + 1] = g[k] \o ss[k + 1]
    BY <2>3 DEF Flattens
  <2>5. ss[k + 1] \in Seq(T)
    BY <1>0, <2>3
  <2> QED BY <2>1, <2>4, <2>5
<1>3. G = Nat
  <2>1. G \in SUBSET Nat
    OBVIOUS
  <2> HIDE DEF G
  <2> QED BY <1>1, <1>2, <2>1, SetInduction
<1> SUFFICES ASSUME NEW i \in 1..n PROVE f[i] = g[i] /\ f[i] \in Seq(T)
  OBVIOUS
<1>4. i - 1 \in G /\ (i - 1) + 1 = i
  <2>1. i - 1 \in Nat /\ (i - 1) + 1 = i
    OBVIOUS
  <2> HIDE DEF G
  <2> QED BY <1>3, <2>1
<1> QED BY <1>4

LEMMA FlattenIs ==
  ASSUME NEW T, NEW ss \in Seq(Seq(T)), ss # <<>>
  PROVE  \E f : Flattens(ss, f, Len(ss)) /\ FlattenSeq(ss) = f[Len(ss)]
<1> DEFINE f == CHOOSE f : f = [i \in 1..Len(ss) |-> IF i = 1 THEN ss[i] ELSE f[i - 1] \o ss[i]]
<1>1. f = [i \in 1..Len(ss) |-> IF i = 1 THEN ss[i] ELSE f[i - 1] \o ss[i]]
  BY FlattenExists
<1>2. Len(ss) # 0
  OBVIOUS
<1>3. FlattenSeq(ss) = f[Len(ss)]
  BY <1>2 DEF FlattenSeq
<1> HIDE DEF f
<1>4. Flattens(ss, f, Len(ss))
  BY <1>1 DEF Flattens
<1> QED BY <1>3, <1>4

LEMMA FlattenEmpty == FlattenSeq(<<>>) = <<>>
BY DEF FlattenSeq

LEMMA FlattenType ==
  ASSUME NEW T, NEW ss \in Seq(Seq(T))
  PROVE  FlattenSeq(ss) \in Seq(T)
<1>1. CASE ss = <<>>
  <2>1. <<>> \in Seq(T)
    OBVIOUS
  <2> QED BY <1>1, <2>1, FlattenEmpty
<1>2. CASE ss # <<>>
  <2>1. PICK f : Flattens(ss, f, Len(ss)) /\ FlattenSeq(ss) = f[Len(ss)]
    BY <1>2, FlattenIs
  <2>2. Len(ss) \in Nat /\ Len(ss) \in 1..Len(ss)
    BY <1>2
  <2> QED BY <2>1, <2>2, FlattenUnique
<1> QED BY <1>1, <1>2

LEMMA FlattenAppend ==
  ASSUME NEW T, NEW ss \in Seq(Seq(T)), NEW x \in Seq(T)
  PROVE  FlattenSeq(Append(ss, x)) = FlattenSeq(ss) \o x
<1> DEFINE n == Len(ss)
           tt == Append(ss, x)
<1>1. tt \in Seq(Seq(T)) /\ tt # <<>> /\ Len(tt) = n + 1 /\ n \in Nat /\ tt[n + 1] = x
      /\ \A i \in 1..n : tt[i] = ss[i]
  <2>1. ss \in Seq(Seq(T)) /\ x \in Seq(T)
    OBVIOUS
  <2>2. tt \in Seq(Seq(T)) /\ Len(tt) = n + 1 /\ n \in Nat
    OBVIOUS
  <2>3. tt[n + 1] = x /\ \A i \in 1..n : tt[i] = ss[i]
    OBVIOUS
  <2>4. tt # <<>>
    <3> HIDE DEF tt
    <3> QED BY <2>2
  <2> QED BY <2>2, <2>3, <2>4
<1> HIDE DEF tt
<1>2. PICK g : Flattens(tt, g, n + 1) /\ FlattenSeq(tt) = g[n + 1]
  BY <1>1, FlattenIs
<1>3. CASE n = 0
  <2>1. g[1] = x
    BY <1>1, <1>2, <1>3 DEF Flattens
  <2>2. ss = <<>> /\ <<>> \o x = x
    BY <1>3
  <2> QED BY <1>2, <1>3, <2>1, <2>2, FlattenEmpty DEF tt
<1>4. CASE n # 0
  <2>1. PICK f : Flattens(ss, f, n) /\ FlattenSeq(ss) = f[n]
    BY <1>4, FlattenIs
  <2>2. Flattens(ss, g, n)
    <3> SUFFICES ASSUME NEW i \in 1..n PROVE g[i] = IF i = 1 THEN ss[i] ELSE g[i - 1] \o ss[i]
      BY DEF Flattens
    <3>1. i \in 1..(n + 1)
      BY <1>1
    <3> QED BY <1>1, <1>2, <3>1 DEF Flattens
  <2>3. n \in 1..n /\ n <= Len(ss)
    BY <1>1, <1>4
  <2>4. g[n] = f[n]
    <3>1. \A i \in 1..n : g[i] = f[i] /\ g[i] \in Seq(T)
      BY <1>1, <2>1, <2>2, <2>3, FlattenUnique
    <3> QED BY <2>3, <3>1
  <2>5. g[n + 1] = g[n] \o x
    <3>1. n + 1 \in 1..(n + 1) /\ n + 1 # 1 /\ (n + 1) - 1 = n
      BY <1>1, <1>4
    <3> QED BY <1>1, <1>2, <3>1 DEF Flattens
  <2> QED BY <1>2, <2>1, <2>4, <2>5 DEF tt
<1> QED BY <1>3, <1>4

-----------------------------------------------------------------------------
LEMMA MaxIs ==
  ASSUME NEW T \in SUBSET Nat, NEW x \in T, \A y \in T : x >= y
  PROVE  Max(T) = x
<1>1. \E m \in T : \A y \in T : m >= y
  OBVIOUS
<1>2. Max(T) \in T /\ \A y \in T : Max(T) >= y
  BY <1>1 DEF Max
<1>3. Max(T) >= x /\ x >= Max(T) /\ x \in Nat /\ Max(T) \in Nat
  BY <1>2
<1> HIDE DEF Max
<1> QED BY ONLY <1>3

LEMMA MaxOf ==
  ASSUME NEW N \in Nat, NEW T \in SUBSET (0..N), T # {}
  PROVE  Max(T) \in T /\ \A y \in T : Max(T) >= y
<1> DEFINE U == {N - y : y \in T}
<1>1. U \in SUBSET Nat
  OBVIOUS
<1>2. PICK y \in T : TRUE
  OBVIOUS
<1>3. N - y \in U
  OBVIOUS
<1>4. \E x \in U : \A z \in U : x <= z
  <2> HIDE DEF U
  <2> QED BY <1>1, <1>3, LeastElement
<1>5. PICK m \in T : \A z \in U : N - m <= z
  BY <1>4
<1>6. ASSUME NEW z \in T PROVE m >= z
  <2>1. N - z \in U
    OBVIOUS
  <2>2. N - m <= N - z
    BY <1>5, <2>1
  <2>3. m \in 0..N /\ z \in 0..N
    OBVIOUS
  <2> HIDE DEF U
  <2> QED BY ONLY <2>2, <2>3, N \in Nat
<1> HIDE DEF U
<1> QED BY <1>6 DEF Max

(* The concatenation of n + 1 sequences is that of the first n, and the    *)
(* last.                                                                   *)
LEMMA FlattenNext ==
  ASSUME NEW T, NEW n \in Nat, NEW f \in [1..(n + 1) -> Seq(T)]
  PROVE  /\ FlattenSeq(f) = FlattenSeq([k \in 1..n |-> f[k]]) \o f[n + 1]
         /\ FlattenSeq([k \in 1..n |-> f[k]]) \in Seq(T) /\ f[n + 1] \in Seq(T)
<1> DEFINE g == [k \in 1..n |-> f[k]]
           x == f[n + 1]
           a == Append(g, x)
<1>1. x \in Seq(T)
  OBVIOUS
<1>2. g \in [1..n -> Seq(T)] /\ \A k \in 1..n : g[k] = f[k]
  OBVIOUS
<1>3. g \in Seq(Seq(T)) /\ Len(g) = n
  <2> HIDE DEF g
  <2> QED BY <1>2
<1> HIDE DEF g, x
<1>4. a \in Seq(Seq(T)) /\ Len(a) = n + 1 /\ a[n + 1] = x /\ \A k \in 1..n : a[k] = g[k]
  BY <1>1, <1>3
<1>5. a = [k \in 1..(n + 1) |-> a[k]]
  <2> HIDE DEF a
  <2> QED BY <1>4
<1> HIDE DEF a
<1>6. f = [k \in 1..(n + 1) |-> f[k]]
  OBVIOUS
<1>7. \A k \in 1..(n + 1) : a[k] = f[k]
  <2> TAKE k \in 1..(n + 1)
  <2>1. CASE k = n + 1
    BY <1>4, <2>1 DEF x
  <2>2. CASE k # n + 1
    <3>1. k \in 1..n
      BY <2>2
    <3> QED BY <1>2, <1>4, <3>1
  <2> QED BY <2>1, <2>2
<1>8. f = a
  BY <1>5, <1>6, <1>7
<1>9. FlattenSeq(a) = FlattenSeq(g) \o x
  BY <1>1, <1>3, FlattenAppend DEF a
<1>10. FlattenSeq(g) \in Seq(T)
  BY <1>3, FlattenType
<1> QED BY <1>1, <1>8, <1>9, <1>10 DEF g, x

(* One more element of a slice.                                            *)
LEMMA SliceNext ==
  ASSUME NEW T, NEW w \in Seq(T), NEW from \in Nat, NEW to \in Nat, from <= to, to < Len(w)
  PROVE  /\ SubSeq(w, from + 1, to + 1) = Append(SubSeq(w, from + 1, to), w[to + 1])
         /\ SubSeq(w, from + 1, to) \in Seq(T) /\ Len(SubSeq(w, from + 1, to)) = to - from
         /\ w[to + 1] \in T
<1> DEFINE s == SubSeq(w, from + 1, to)
           t == SubSeq(w, from + 1, to + 1)
           n == to - from
           a == Append(s, w[to + 1])
<1>1. n \in Nat /\ Len(w) \in Nat /\ w[to + 1] \in T
  OBVIOUS
<1>2. s \in Seq(T) /\ Len(s) = n /\ \A i \in 1..n : s[i] = w[from + i]
  OBVIOUS
<1>3. t \in Seq(T) /\ Len(t) = n + 1 /\ \A i \in 1..(n + 1) : t[i] = w[from + i]
  OBVIOUS
<1>4. from + (n + 1) = to + 1
  OBVIOUS
<1> HIDE DEF s, t
<1>5. a \in Seq(T) /\ Len(a) = n + 1 /\ a[n + 1] = w[to + 1] /\ \A i \in 1..n : a[i] = s[i]
  BY <1>1, <1>2
<1> HIDE DEF a, n
<1>6. \A i \in 1..(n + 1) : a[i] = t[i]
  <2> TAKE i \in 1..(n + 1)
  <2>1. CASE i = n + 1
    BY <1>3, <1>4, <1>5, <2>1
  <2>2. CASE i # n + 1
    <3>1. i \in 1..n
      BY <1>1, <2>2
    <3> QED BY <1>2, <1>3, <1>5, <3>1
  <2> QED BY <2>1, <2>2
<1>7. a = [i \in 1..(n + 1) |-> a[i]] /\ t = [i \in 1..(n + 1) |-> t[i]]
  BY <1>3, <1>5
<1>8. a = t
  BY <1>6, <1>7
<1> QED BY <1>1, <1>2, <1>8 DEF a, s, t, n

(* What is in one of the sequences is in their concatenation.              *)
LEMMA FlattenHas ==
  ASSUME NEW T, NEW ss \in Seq(Seq(T)), NEW i \in 1..Len(ss), NEW x, \E k \in 1..Len(ss[i]) : ss[i][k] = x
  PROVE  \E m \in 1..Len(FlattenSeq(ss)) : FlattenSeq(ss)[m] = x
<1> DEFINE To(n) == FlattenSeq([k \in 1..n |-> ss[k]])
           In(n) == \E m \in 1..Len(To(n)) : To(n)[m] = x
           G == {n \in Nat : i <= n /\ n <= Len(ss) => In(n)}
<1>0. Len(ss) \in Nat /\ i \in Nat /\ ss[i] \in Seq(T)
  OBVIOUS
<1>1. ASSUME NEW n \in Nat, n + 1 <= Len(ss)
      PROVE  /\ To(n + 1) = To(n) \o ss[n + 1] /\ To(n) \in Seq(T) /\ ss[n + 1] \in Seq(T)
  <2> DEFINE f == [k \in 1..(n + 1) |-> ss[k]]
  <2>1. f \in [1..(n + 1) -> Seq(T)]
    <3>1. \A k \in 1..(n + 1) : ss[k] \in Seq(T)
      BY <1>0, <1>1
    <3> QED BY <3>1
  <2>2. [k \in 1..n |-> f[k]] = [k \in 1..n |-> ss[k]] /\ f[n + 1] = ss[n + 1]
    OBVIOUS
  <2> HIDE DEF f
  <2>3. /\ FlattenSeq(f) = FlattenSeq([k \in 1..n |-> f[k]]) \o f[n + 1]
        /\ FlattenSeq([k \in 1..n |-> f[k]]) \in Seq(T) /\ f[n + 1] \in Seq(T)
    BY <2>1, FlattenNext
  <2> QED BY <2>2, <2>3 DEF f
<1> HIDE DEF To
<1>2. 0 \in G
  BY <1>0
<1>3. ASSUME NEW n \in G PROVE n + 1 \in G
  <2> SUFFICES ASSUME i <= n + 1, n + 1 <= Len(ss) PROVE In(n + 1)
    OBVIOUS
  <2> DEFINE a == To(n)
             b == ss[n + 1]
  <2>0. n \in Nat
    OBVIOUS
  <2>1. To(n + 1) = a \o b /\ a \in Seq(T) /\ b \in Seq(T)
    BY <1>1, <2>0
  <2>8. n <= Len(ss)
    BY ONLY <1>0, <2>0, n + 1 <= Len(ss)
  <2>2. i <= n => \E m \in 1..Len(a) : a[m] = x
    BY <2>8
  <2>3. i = n + 1 => \E k \in 1..Len(b) : b[k] = x
    OBVIOUS
  <2> HIDE DEF a, b
  <2>4. \A m \in 1..Len(a) : m \in 1..Len(a \o b) /\ (a \o b)[m] = a[m]
    BY ONLY <2>1
  <2>5. \A k \in 1..Len(b) : Len(a) + k \in 1..Len(a \o b) /\ (a \o b)[Len(a) + k] = b[k]
    BY ONLY <2>1
  <2>6. i <= n \/ i = n + 1
    BY <1>0, <2>0
  <2>7. \E m \in 1..Len(a \o b) : (a \o b)[m] = x
    BY <2>2, <2>3, <2>4, <2>5, <2>6
  <2> QED BY <2>1, <2>7
<1>4. G = Nat
  <2> HIDE DEF In
  <2>1. G \in SUBSET Nat
    BY ONLY TRUE
  <2> HIDE DEF G
  <2> QED BY <1>2, <1>3, <2>1, SetInduction
<1>5. In(Len(ss))
  <2>1. i <= Len(ss) /\ Len(ss) <= Len(ss) /\ Len(ss) \in Nat
    BY ONLY <1>0, i \in 1..Len(ss)
  <2> HIDE DEF In
  <2>2. \A n \in Nat : i <= n /\ n <= Len(ss) => In(n)
    BY <1>4
  <2> QED BY <2>1, <2>2
<1>6. ss = [k \in 1..Len(ss) |-> ss[k]]
  OBVIOUS
<1> QED BY <1>5, <1>6 DEF To
=============================================================================
