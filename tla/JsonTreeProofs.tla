--------------------------- MODULE JsonTreeProofs ---------------------------
(***************************************************************************)
(* The ownership of the nodes of tinyjson.h, for lists of any length, old  *)
(* files of any lines and answers of any blocks.                           *)
(***************************************************************************)
EXTENDS JsonTree, InductionProofs

-----------------------------------------------------------------------------
(* Where a run along pointers comes: the least set that is closed.         *)

Closed(pointers, S) == \A p \in S : pointers[p] \subseteq S

(* A graph of cells.                                                       *)
Graph(pointers) ==
  /\ IsFiniteSet(DOMAIN pointers)
  /\ \A p \in DOMAIN pointers : pointers[p] \subseteq DOMAIN pointers

RunFrom(pointers, n, f, m) ==
  f[0] = {n} /\ \A k \in 1..m : f[k] = Further(pointers, f[k - 1])

RunOf(pointers, n, f, m) ==
  f = [k \in 0..m |-> IF k = 0 THEN {n} ELSE Further(pointers, f[k - 1])]

LEMMA ReachedExists ==
  ASSUME NEW pointers, NEW n, NEW m \in Nat
  PROVE  \E f : RunOf(pointers, n, f, m)
<1> DEFINE Some(j) == \E f : f = [k \in 0..j |-> f[k]] /\ RunFrom(pointers, n, f, j)
           G == {j \in Nat : Some(j)}
<1>1. Some(0)
  <2> DEFINE f == [k \in 0..0 |-> {n}]
  <2>1. f = [k \in 0..0 |-> f[k]] /\ f[0] = {n}
    OBVIOUS
  <2> HIDE DEF f
  <2>2. RunFrom(pointers, n, f, 0)
    BY <2>1 DEF RunFrom
  <2> QED BY <2>1, <2>2
<1>2. ASSUME NEW j \in G PROVE j + 1 \in G
  <2>1. PICK f : f = [k \in 0..j |-> f[k]] /\ RunFrom(pointers, n, f, j)
    OBVIOUS
  <2> DEFINE last == Further(pointers, f[j])
             g == [k \in 0..(j + 1) |-> IF k = j + 1 THEN last ELSE f[k]]
  <2> HIDE DEF last
  <2>2. j \in Nat /\ \A k \in 0..j : g[k] = f[k]
    OBVIOUS
  <2>3. g[j + 1] = last /\ g = [k \in 0..(j + 1) |-> g[k]]
    OBVIOUS
  <2> HIDE DEF g
  <2>4. g[0] = {n}
    BY <2>1, <2>2 DEF RunFrom
  <2>5. ASSUME NEW k \in 1..(j + 1) PROVE g[k] = Further(pointers, g[k - 1])
    <3>1. CASE k = j + 1
      <4>1. k - 1 = j /\ j \in 0..j
        BY <2>2, <3>1
      <4>2. g[k - 1] = f[j] /\ g[k] = last
        BY <2>2, <2>3, <3>1, <4>1
      <4> QED BY <3>1, <4>2 DEF last
    <3>2. CASE k # j + 1
      <4>1. k \in 1..j /\ k \in 0..j /\ k - 1 \in 0..j
        BY <2>2, <3>2
      <4>2. f[k] = Further(pointers, f[k - 1])
        BY <2>1, <4>1 DEF RunFrom
      <4>3. g[k] = f[k] /\ g[k - 1] = f[k - 1]
        BY <2>2, <4>1
      <4> QED BY <4>2, <4>3
    <3> QED BY <3>1, <3>2
  <2>6. RunFrom(pointers, n, g, j + 1)
    BY <2>4, <2>5 DEF RunFrom
  <2> QED BY <2>2, <2>3, <2>6
<1> HIDE DEF Some
<1>3. G = Nat
  <2>1. G \in SUBSET Nat /\ 0 \in G
    BY <1>1
  <2> HIDE DEF G
  <2> QED BY <1>2, <2>1, SetInduction
<1>4. Some(m)
  <2>1. m \in G
    BY <1>3
  <2> QED BY <2>1
<1>5. PICK f : f = [k \in 0..m |-> f[k]] /\ RunFrom(pointers, n, f, m)
  BY <1>4 DEF Some
<1>6. \A k \in 0..m : f[k] = IF k = 0 THEN {n} ELSE Further(pointers, f[k - 1])
  <2> TAKE k \in 0..m
  <2>1. k # 0 => k \in 1..m
    OBVIOUS
  <2> QED BY <1>5, <2>1 DEF RunFrom
<1>7. f = [k \in 0..m |-> IF k = 0 THEN {n} ELSE Further(pointers, f[k - 1])]
  BY <1>5, <1>6
<1> QED BY <1>7 DEF RunOf

LEMMA ReachedIs ==
  ASSUME NEW pointers, NEW n, IsFiniteSet(DOMAIN pointers)
  PROVE  \E f : /\ RunFrom(pointers, n, f, Cardinality(DOMAIN pointers))
                /\ Reached(pointers, n) = f[Cardinality(DOMAIN pointers)]
<1> SUFFICES ASSUME NEW m, m = Cardinality(DOMAIN pointers)
             PROVE  \E f : RunFrom(pointers, n, f, m) /\ Reached(pointers, n) = f[m]
  OBVIOUS
<1> DEFINE f == CHOOSE f : f = [k \in 0..m |-> IF k = 0 THEN {n} ELSE Further(pointers, f[k - 1])]
<1>1. m \in Nat
  BY FS_CardinalityType
<1>2. Reached(pointers, n) = f[m]
  BY DEF Reached
<1>3. f = [k \in 0..m |-> IF k = 0 THEN {n} ELSE Further(pointers, f[k - 1])]
  <2>1. \E g : RunOf(pointers, n, g, m)
    BY <1>1, ReachedExists
  <2> QED BY <2>1 DEF RunOf
<1> HIDE DEF f
<1>4. f[0] = {n}
  BY <1>1, <1>3
<1>5. ASSUME NEW k \in 1..m PROVE f[k] = Further(pointers, f[k - 1])
  <2>1. k \in 0..m /\ k # 0
    BY <1>1
  <2> QED BY <1>3, <2>1
<1>6. RunFrom(pointers, n, f, m)
  BY <1>4, <1>5 DEF RunFrom
<1> QED BY <1>2, <1>6

(* What is reached lies in every closed set n is in.                       *)
LEMMA ReachedLeast ==
  ASSUME NEW pointers, IsFiniteSet(DOMAIN pointers), NEW S \in SUBSET DOMAIN pointers,
         Closed(pointers, S), NEW n \in S
  PROVE  Reached(pointers, n) \subseteq S
<1> DEFINE m == Cardinality(DOMAIN pointers)
<1>1. PICK f : RunFrom(pointers, n, f, m) /\ Reached(pointers, n) = f[m]
  BY ReachedIs
<1>2. m \in Nat
  BY FS_CardinalityType
<1> HIDE DEF m
<1> DEFINE G == {k \in Nat : k <= m => f[k] \subseteq S}
<1>3. 0 \in G
  BY <1>1 DEF RunFrom
<1>4. ASSUME NEW k \in G PROVE k + 1 \in G
  <2> SUFFICES ASSUME k + 1 <= m PROVE f[k + 1] \subseteq S
    OBVIOUS
  <2>1. k \in Nat /\ k <= m /\ f[k] \subseteq S /\ k + 1 \in 1..m /\ (k + 1) - 1 = k
    BY <1>2
  <2>2. f[k + 1] = Further(pointers, f[k])
    BY <1>1, <2>1 DEF RunFrom
  <2> QED BY <2>1, <2>2 DEF Further, Closed
<1> HIDE DEF G
<1>5. G = Nat
  <2>1. G \in SUBSET Nat
    BY DEF G
  <2> QED BY <1>3, <1>4, <2>1, SetInduction
<1>6. m \in G
  BY <1>2, <1>5
<1> QED BY <1>1, <1>2, <1>6 DEF G

(* And is closed itself: each round of the run finds a cell or ends it.    *)
LEMMA ReachedClosed ==
  ASSUME NEW pointers, Graph(pointers), NEW n \in DOMAIN pointers
  PROVE  /\ n \in Reached(pointers, n)
         /\ Reached(pointers, n) \subseteq DOMAIN pointers
         /\ Closed(pointers, Reached(pointers, n))
<1> DEFINE D == DOMAIN pointers
           m == Cardinality(D)
<1>1. IsFiniteSet(D) /\ Closed(pointers, D)
  BY DEF Graph, Closed
<1>2. PICK f : RunFrom(pointers, n, f, m) /\ Reached(pointers, n) = f[m]
  BY <1>1, ReachedIs
<1>3. m \in Nat
  BY <1>1, FS_CardinalityType
<1> HIDE DEF m
<1> DEFINE Good(k) == /\ n \in f[k] /\ f[k] \subseteq D
                      /\ Closed(pointers, f[k]) \/ Cardinality(f[k]) > k
           G == {k \in Nat : k <= m => Good(k)}
<1>4. Good(0)
  <2>1. f[0] = {n}
    BY <1>2 DEF RunFrom
  <2>2. Cardinality({n}) = 1
    BY FS_Singleton
  <2> QED BY <2>1, <2>2
<1>5. ASSUME NEW k \in G, k + 1 <= m PROVE Good(k + 1)
  <2>1. k \in Nat /\ k <= m /\ k + 1 \in 1..m /\ (k + 1) - 1 = k /\ Good(k)
    BY <1>3, <1>5
  <2>2. f[k + 1] = Further(pointers, f[k])
    BY <1>2, <2>1 DEF RunFrom
  <2>3. n \in f[k + 1] /\ f[k + 1] \subseteq D
    BY <2>1, <2>2, <1>1 DEF Further, Closed
  <2>4. CASE Closed(pointers, f[k])
    <3>1. f[k + 1] = f[k]
      BY <2>2, <2>4 DEF Further, Closed
    <3> QED BY <2>3, <2>4, <3>1
  <2>5. CASE ~Closed(pointers, f[k])
    <3>1. PICK p \in f[k] : ~(pointers[p] \subseteq f[k])
      BY <2>5 DEF Closed
    <3>. PICK x \in pointers[p] : x \notin f[k]
      BY <3>1
    <3>2. f[k] \cup {x} \subseteq f[k + 1]
      BY <2>1, <2>2 DEF Further
    <3>3. IsFiniteSet(f[k]) /\ IsFiniteSet(f[k + 1])
      BY <1>1, <2>1, <2>3, FS_Subset
    <3>4. Cardinality(f[k] \cup {x}) = Cardinality(f[k]) + 1
      BY <3>3, FS_AddElement
    <3>5. Cardinality(f[k] \cup {x}) <= Cardinality(f[k + 1])
      BY <3>2, <3>3, FS_Subset
    <3>6. Cardinality(f[k]) \in Nat /\ Cardinality(f[k + 1]) \in Nat /\ Cardinality(f[k]) > k
      BY <2>1, <2>5, <3>3, FS_CardinalityType
    <3>7. Cardinality(f[k + 1]) > k + 1
      BY <2>1, <3>4, <3>5, <3>6
    <3> QED BY <2>3, <3>7
  <2> QED BY <2>4, <2>5
<1> HIDE DEF Good
<1>6. G = Nat
  <2>1. G \in SUBSET Nat /\ 0 \in G /\ \A k \in G : k + 1 \in G
    BY <1>4, <1>5
  <2> HIDE DEF G
  <2> QED BY <2>1, SetInduction
<1>7. Good(m)
  <2>1. m \in G
    BY <1>3, <1>6
  <2> QED BY <1>3, <2>1
<1>8. n \in f[m] /\ f[m] \subseteq D
  BY <1>7 DEF Good
<1>9. Cardinality(f[m]) <= m
  BY <1>1, <1>8, FS_Subset DEF m
<1>10. Cardinality(f[m]) \in Nat
  BY <1>1, <1>8, FS_Subset, FS_CardinalityType
<1>11. ~(Cardinality(f[m]) > m)
  BY ONLY <1>3, <1>9, <1>10
<1>12. Closed(pointers, f[m])
  BY <1>7, <1>11 DEF Good
<1> QED BY <1>2, <1>8, <1>12

-----------------------------------------------------------------------------
(* Forests: no cell has two owners, and what has none is a root.           *)

Unowned(pointers, n) == \A p \in DOMAIN pointers : n \notin pointers[p]

(* Nothing is apart from the roots, not even a circle.                     *)
Anchored(pointers, roots) ==
  \A S \in SUBSET DOMAIN pointers :
    roots \subseteq S /\ Closed(pointers, S) => S = DOMAIN pointers

Forest(pointers, roots) ==
  /\ Graph(pointers)
  /\ \A p, q \in DOMAIN pointers : p # q => pointers[p] \cap pointers[q] = {}
  /\ roots \subseteq DOMAIN pointers
  /\ \A r \in roots : Unowned(pointers, r)
  /\ Anchored(pointers, roots)

LEMMA ForestOwner ==
  ASSUME NEW P, NEW R, Forest(P, R), NEW n \in DOMAIN P \ R
  PROVE  ~Unowned(P, n)
<1> SUFFICES ASSUME Unowned(P, n) PROVE FALSE
  OBVIOUS
<1> DEFINE S == DOMAIN P \ {n}
<1>1. S \in SUBSET DOMAIN P /\ R \subseteq S /\ Closed(P, S)
  BY DEF Unowned, Closed, Forest, Graph
<1>2. S = DOMAIN P
  BY <1>1 DEF Forest, Anchored
<1> QED BY <1>2

LEMMA ForestEmpty ==
  ASSUME NEW P, Forest(P, {})
  PROVE  DOMAIN P = {}
<1>1. Closed(P, {})
  BY DEF Closed
<1> QED BY <1>1 DEF Forest, Anchored

LEMMA ForestNew ==
  ASSUME NEW P, NEW Q, NEW R, NEW n, Forest(P, R), n \notin DOMAIN P,
         DOMAIN Q = DOMAIN P \cup {n}, Q[n] = {}, \A p \in DOMAIN P : Q[p] = P[p]
  PROVE  Forest(Q, R \cup {n})
<1>1. Graph(Q)
  <2>1. IsFiniteSet(DOMAIN P)
    BY DEF Forest, Graph
  <2>2. IsFiniteSet(DOMAIN Q)
    BY <2>1, FS_AddElement
  <2> QED BY <2>2 DEF Forest, Graph
<1>2. Unowned(Q, n) /\ \A r \in R : Unowned(Q, r)
  BY DEF Forest, Graph, Unowned
<1>3. Anchored(Q, R \cup {n})
  <2> SUFFICES ASSUME NEW S \in SUBSET DOMAIN Q, R \cup {n} \subseteq S, Closed(Q, S)
               PROVE  S = DOMAIN Q
    BY DEF Anchored
  <2> DEFINE T == S \ {n}
  <2>1. T \in SUBSET DOMAIN P /\ R \subseteq T /\ Closed(P, T)
    BY DEF Closed, Forest, Graph
  <2>2. T = DOMAIN P
    BY <2>1 DEF Forest, Anchored
  <2> QED BY <2>2
<1>4. R \cup {n} \subseteq DOMAIN Q
  BY DEF Forest
<1>5. \A p, q \in DOMAIN Q : p # q => Q[p] \cap Q[q] = {}
  BY DEF Forest
<1> QED BY <1>1, <1>2, <1>3, <1>4, <1>5 DEF Forest

(* A root becomes the property of p.  It must not be above p, which is     *)
(* below parent.                                                           *)
LEMMA ForestLink ==
  ASSUME NEW P, NEW Q, NEW R, NEW item \in R, NEW p \in DOMAIN P, NEW parent \in DOMAIN P,
         Forest(P, R), DOMAIN Q = DOMAIN P,
         \A q \in DOMAIN P : Q[q] = IF q = p THEN P[q] \cup {item} ELSE P[q],
         parent \notin Reached(P, item),
         \A S \in SUBSET DOMAIN P : Closed(P, S) /\ parent \in S => p \in S
  PROVE  Forest(Q, R \ {item})
<1> DEFINE F == Reached(P, item)
<1>1. item \in DOMAIN P /\ Graph(P)
  BY DEF Forest
<1>2. item \in F /\ F \subseteq DOMAIN P /\ Closed(P, F)
  BY <1>1, ReachedClosed
<1> HIDE DEF F
<1>3. Graph(Q)
  BY <1>1 DEF Graph
<1>4. \A r \in R \ {item} : Unowned(Q, r)
  BY DEF Forest, Unowned
<1>5. \A q, t \in DOMAIN Q : q # t => Q[q] \cap Q[t] = {}
  <2>1. Unowned(P, item)
    BY DEF Forest
  <2> QED BY <2>1 DEF Forest, Unowned
<1>6. Anchored(Q, R \ {item})
  <2> SUFFICES ASSUME NEW S \in SUBSET DOMAIN Q, R \ {item} \subseteq S, Closed(Q, S)
               PROVE  S = DOMAIN Q
    BY DEF Anchored
  <2>1. Closed(P, S)
    BY DEF Closed
  <2>2. S \cup F = DOMAIN P
    <3>1. R \subseteq S \cup F /\ Closed(P, S \cup F)
      BY <1>2, <2>1 DEF Closed
    <3> QED BY <1>2, <3>1 DEF Forest, Anchored
  <2>3. parent \in S
    BY <2>2 DEF F
  <2>4. p \in S
    BY <2>1, <2>3
  <2>5. item \in S
    BY <2>4 DEF Closed
  <2>6. R \subseteq S
    BY <2>5
  <2> QED BY <2>1, <2>6 DEF Forest, Anchored
<1> QED BY <1>3, <1>4, <1>5, <1>6 DEF Forest

(* A cell and what it reaches go: what stays pointed to nothing of it.     *)
LEMMA ForestReached ==
  ASSUME NEW P, NEW R, NEW item \in R, Forest(P, R)
  PROVE  /\ item \in Reached(P, item) /\ Reached(P, item) \subseteq DOMAIN P
         /\ Closed(P, Reached(P, item))
         /\ \A q \in DOMAIN P \ Reached(P, item) : P[q] \cap Reached(P, item) = {}
         /\ \A r \in R : r # item => r \notin Reached(P, item)
<1> DEFINE F == Reached(P, item)
<1>1. item \in DOMAIN P /\ Graph(P) /\ IsFiniteSet(DOMAIN P)
  BY DEF Forest, Graph
<1>2. item \in F /\ F \subseteq DOMAIN P /\ Closed(P, F)
  BY <1>1, ReachedClosed
<1>3. ASSUME NEW n \in F, n # item PROVE \E q \in F : n \in P[q]
  <2> SUFFICES ASSUME \A q \in F : n \notin P[q] PROVE FALSE
    OBVIOUS
  <2>1. Closed(P, F \ {n}) /\ item \in F \ {n} /\ F \ {n} \in SUBSET DOMAIN P
    BY <1>2, <1>3 DEF Closed
  <2>2. F \subseteq F \ {n}
    BY <1>1, <2>1, ReachedLeast
  <2> QED BY <1>3, <2>2
<1> HIDE DEF F
<1>4. ASSUME NEW q \in DOMAIN P \ F, NEW n \in F, n \in P[q] PROVE FALSE
  <2>1. n # item
    BY <1>4 DEF Forest, Unowned
  <2>2. PICK t \in F : n \in P[t]
    BY <1>3, <2>1
  <2>3. t # q /\ t \in DOMAIN P
    BY <1>2
  <2>4. P[q] \cap P[t] = {}
    BY <2>3 DEF Forest
  <2> QED BY <1>4, <2>2, <2>4
<1>5. ASSUME NEW r \in R, r # item, r \in F PROVE FALSE
  <2>1. PICK q \in F : r \in P[q]
    BY <1>3, <1>5
  <2> QED BY <1>2, <2>1 DEF Forest, Unowned
<1> QED BY <1>2, <1>4, <1>5 DEF F

LEMMA ForestDelete ==
  ASSUME NEW P, NEW Q, NEW R, NEW item \in R, Forest(P, R),
         DOMAIN Q = DOMAIN P \ Reached(P, item), \A q \in DOMAIN Q : Q[q] = P[q]
  PROVE  Forest(Q, R \ {item})
<1> DEFINE F == Reached(P, item)
<1>1. /\ item \in F /\ F \subseteq DOMAIN P /\ Closed(P, F)
      /\ \A q \in DOMAIN P \ F : P[q] \cap F = {}
      /\ \A r \in R : r # item => r \notin F
  BY ForestReached
<1>2. DOMAIN Q = DOMAIN P \ F
  OBVIOUS
<1> HIDE DEF F
<1>3. Graph(Q)
  <2>1. IsFiniteSet(DOMAIN P)
    BY DEF Forest, Graph
  <2>2. IsFiniteSet(DOMAIN Q)
    BY <1>2, <2>1, FS_Subset
  <2>3. \A q \in DOMAIN Q : Q[q] \subseteq DOMAIN Q
    BY <1>1, <1>2 DEF Forest, Graph
  <2> QED BY <2>2, <2>3 DEF Graph
<1>4. \A q, t \in DOMAIN Q : q # t => Q[q] \cap Q[t] = {}
  BY <1>2 DEF Forest
<1>5. R \ {item} \subseteq DOMAIN Q
  BY <1>1, <1>2 DEF Forest
<1>6. \A r \in R \ {item} : Unowned(Q, r)
  BY <1>2 DEF Forest, Unowned
<1>7. Anchored(Q, R \ {item})
  <2> SUFFICES ASSUME NEW S \in SUBSET DOMAIN Q, R \ {item} \subseteq S, Closed(Q, S)
               PROVE  S = DOMAIN Q
    BY DEF Anchored
  <2>1. S \cup F \in SUBSET DOMAIN P /\ R \subseteq S \cup F /\ Closed(P, S \cup F)
    BY <1>1, <1>2 DEF Closed
  <2>2. S \cup F = DOMAIN P
    BY <2>1 DEF Forest, Anchored
  <2> QED BY <1>2, <2>2
<1> QED BY <1>3, <1>4, <1>5, <1>6, <1>7 DEF Forest

(* A cell is taken out of the chain it is in: its owner p gets what came   *)
(* behind it, if anything did.                                             *)
LEMMA ForestCut ==
  ASSUME NEW P, NEW Q, NEW R, NEW c \in DOMAIN P \ R, NEW p \in DOMAIN P, NEW M,
         Forest(P, R), c \in P[p], c # p, M \in SUBSET P[c], \A x, y \in M : x = y,
         DOMAIN Q = DOMAIN P,
         \A q \in DOMAIN P : Q[q] = IF q = p THEN (P[p] \ {c}) \cup M
                                    ELSE IF q = c THEN P[c] \ M ELSE P[q]
  PROVE  Forest(Q, R \cup {c})
<1>1. Graph(P) /\ IsFiniteSet(DOMAIN P)
  BY DEF Forest, Graph
<1>2. Graph(Q)
  BY <1>1 DEF Graph
<1>3. \A q, t \in DOMAIN P : q # t => P[q] \cap P[t] = {}
  BY DEF Forest
<1>4. \A q, t \in DOMAIN Q : q # t => Q[q] \cap Q[t] = {}
  BY <1>3
<1>5. \A r \in R : Unowned(Q, r)
  BY DEF Forest, Unowned
<1>6. Unowned(Q, c)
  <2>1. c \notin P[c]
    BY <1>3
  <2> QED BY <1>3, <2>1 DEF Unowned
<1>7. Anchored(Q, R \cup {c})
  <2> SUFFICES ASSUME NEW S \in SUBSET DOMAIN Q, R \cup {c} \subseteq S, Closed(Q, S)
               PROVE  S = DOMAIN Q
    BY DEF Anchored
  <2>1. CASE M \subseteq S
    <3>1. Closed(P, S)
      BY <2>1 DEF Closed
    <3> QED BY <3>1 DEF Forest, Anchored
  <2>2. CASE ~(M \subseteq S)
    <3>1. PICK m \in M : m \notin S
      BY <2>2
    <3>2. M = {m} /\ m \in DOMAIN P /\ m \in P[c]
      BY <1>1 DEF Graph
    <3> DEFINE F == Reached(Q, m)
    <3>3. m \in F /\ F \subseteq DOMAIN Q /\ Closed(Q, F)
      BY <1>2, <3>2, ReachedClosed
    <3>4. ASSUME NEW n \in F, n # m PROVE \E q \in F : n \in Q[q]
      <4> SUFFICES ASSUME \A q \in F : n \notin Q[q] PROVE FALSE
        OBVIOUS
      <4>1. Closed(Q, F \ {n}) /\ m \in F \ {n} /\ F \ {n} \in SUBSET DOMAIN Q
        BY <3>3, <3>4 DEF Closed
      <4>2. IsFiniteSet(DOMAIN Q)
        BY <1>1
      <4>3. F \subseteq F \ {n}
        BY <4>1, <4>2, ReachedLeast
      <4> QED BY <3>4, <4>3
    <3> HIDE DEF F
    (* Otherwise c and what it reaches would be a circle.                  *)
    <3>5. p \notin F
      <4> SUFFICES ASSUME p \in F PROVE FALSE
        OBVIOUS
      <4> DEFINE U == DOMAIN P \ (F \cup {c})
      <4>1. ASSUME NEW q \in U, NEW x \in P[q], x \in F \cup {c} PROVE FALSE
        <5>1. CASE x = c
          BY <1>3, <5>1
        <5>2. CASE x = m
          BY <1>3, <3>2, <5>2
        <5>3. CASE x # c /\ x # m
          <6>1. PICK y \in F : x \in Q[y]
            BY <3>4, <4>1, <5>3
          <6>2. y \in DOMAIN P /\ x \in P[y]
            BY <3>2, <3>3, <5>3, <6>1
          <6>3. y # q
            OBVIOUS
          <6> QED BY <1>3, <6>2, <6>3
        <5> QED BY <5>1, <5>2, <5>3
      <4>2. Closed(P, U)
        BY <1>1, <4>1 DEF Closed, Graph
      <4>3. ASSUME NEW r \in R PROVE r \in U
        <5>1. Unowned(P, r) /\ r \in DOMAIN P /\ r # m
          BY <3>2 DEF Forest, Unowned
        <5>2. r \notin F
          BY <1>5, <3>3, <3>4, <5>1 DEF Unowned
        <5> QED BY <5>1, <5>2
      <4>4. U = DOMAIN P
        BY <4>2, <4>3 DEF Forest, Anchored
      <4> QED BY <4>4
    <3>6. Closed(P, S \cup F)
      BY <3>2, <3>3 DEF Closed
    <3>7. S \cup F = DOMAIN P
      BY <3>3, <3>6 DEF Forest, Anchored
    <3>8. p \in S
      BY <3>5, <3>7
    <3>9. m \in S
      BY <3>2, <3>8 DEF Closed
    <3> QED BY <3>1, <3>9
  <2> QED BY <2>1, <2>2
<1> QED BY <1>2, <1>4, <1>5, <1>6, <1>7 DEF Forest

LEMMA ForestNoLoop ==
  ASSUME NEW P, NEW R, Forest(P, R), NEW p \in DOMAIN P
  PROVE  p \notin P[p]
<1> SUFFICES ASSUME p \in P[p] PROVE FALSE
  OBVIOUS
<1> DEFINE S == DOMAIN P \ {p}
<1>1. \A q \in S : p \notin P[q]
  BY DEF Forest
<1>2. Closed(P, S)
  BY <1>1 DEF Closed, Forest, Graph
<1>3. R \subseteq S
  BY DEF Forest, Unowned
<1>4. S = DOMAIN P
  BY <1>2, <1>3 DEF Forest, Anchored
<1> QED BY <1>4

-----------------------------------------------------------------------------
(* A heap in order: what the operations of tinyjson.h rely on and keep.    *)

Node(h) ==
  [child : DOMAIN h.nodes \cup {Nil}, next : DOMAIN h.nodes \cup {Nil},
   prev : DOMAIN h.nodes \cup {Nil}, is_ref : BOOLEAN, str : h.strings \cup {Nil}]

HeapType(h) ==
  /\ h \in [nodes : [DOMAIN h.nodes -> Node(h)], strings : SUBSET (Nat \ {0}), sound : {TRUE}]
  /\ IsFiniteSet(DOMAIN h.nodes) /\ DOMAIN h.nodes \subseteq Nat \ {0}
  /\ IsFiniteSet(h.strings)

Linked(h) ==
  \A n \in DOMAIN h.nodes :
    /\ h.nodes[n].next # Nil => h.nodes[h.nodes[n].next].prev = n
    /\ h.nodes[n].prev # Nil => h.nodes[h.nodes[n].prev].next = n

StringsHeld(h) ==
  /\ \A s \in h.strings : \E n \in DOMAIN h.nodes : h.nodes[n].str = s
  /\ \A m, n \in DOMAIN h.nodes :
       m # n /\ h.nodes[m].str = h.nodes[n].str => h.nodes[m].str = Nil

(* The roots are the cells the program holds.                              *)
Good(h, roots) ==
  /\ HeapType(h)
  /\ Forest(Pointers(h), roots)
  /\ \A r \in roots : h.nodes[r].next = Nil
  /\ \A n \in DOMAIN h.nodes : Owned(h.nodes[n]) = h.nodes[n].next => h.nodes[n].next = Nil
  /\ Linked(h)
  /\ StringsHeld(h)

LEMMA HeapTypeBy ==
  ASSUME NEW cells, NEW nodes, NEW strings, NEW h,
         h = [nodes |-> nodes, strings |-> strings, sound |-> TRUE],
         IsFiniteSet(cells), cells \subseteq Nat \ {0},
         IsFiniteSet(strings), strings \subseteq Nat \ {0},
         nodes \in [cells -> [child : cells \cup {Nil}, next : cells \cup {Nil}, prev : cells \cup {Nil},
                             is_ref : BOOLEAN, str : strings \cup {Nil}]]
  PROVE  HeapType(h)
<1>1. h.nodes = nodes /\ h.strings = strings /\ DOMAIN h.nodes = cells
  OBVIOUS
<1>2. nodes \in [DOMAIN h.nodes -> Node(h)]
  BY <1>1 DEF Node
<1>3. h \in [nodes : [DOMAIN h.nodes -> Node(h)], strings : SUBSET (Nat \ {0}), sound : {TRUE}]
  BY <1>2
<1> QED BY <1>1, <1>3 DEF HeapType

LEMMA PointersOf ==
  ASSUME NEW h
  PROVE  /\ DOMAIN Pointers(h) = DOMAIN h.nodes
         /\ \A n \in DOMAIN h.nodes : \A x :
              x \in Pointers(h)[n] <=> x # Nil /\ (x = Owned(h.nodes[n]) \/ x = h.nodes[n].next)
BY DEF Pointers

LEMMA NodeType ==
  ASSUME NEW h, HeapType(h), NEW n \in DOMAIN h.nodes
  PROVE  /\ h.nodes[n] \in Node(h)
         /\ h.nodes[n].child \in DOMAIN h.nodes \cup {Nil}
         /\ h.nodes[n].next \in DOMAIN h.nodes \cup {Nil}
         /\ h.nodes[n].prev \in DOMAIN h.nodes \cup {Nil}
         /\ h.nodes[n].is_ref \in BOOLEAN
         /\ h.nodes[n].str \in h.strings \cup {Nil}
         /\ Owned(h.nodes[n]) \in DOMAIN h.nodes \cup {Nil}
<1>1. h.nodes[n] \in Node(h)
  BY DEF HeapType
<1> QED BY <1>1 DEF Node, Owned

LEMMA NilNoCell == ASSUME NEW h, HeapType(h) PROVE Nil \notin DOMAIN h.nodes /\ Nil \notin h.strings
BY NilAssumption DEF HeapType

(* A cell that is not in use.                                              *)
LEMMA NewCellIs ==
  ASSUME NEW cells, IsFiniteSet(cells)
  PROVE  NewCell(cells) \in Nat \ {0} /\ NewCell(cells) \notin cells
<1>1. Cardinality(cells) \in Nat
  BY FS_CardinalityType
<1> DEFINE n == Cardinality(cells) + 1
<1>2. n \in Nat /\ n > Cardinality(cells)
  BY <1>1
<1>3. Cardinality(1..n) = n
  BY <1>2, FS_Interval
<1>4. ~(1..n \subseteq cells)
  <2> SUFFICES ASSUME 1..n \subseteq cells PROVE FALSE
    OBVIOUS
  <2>1. Cardinality(1..n) <= Cardinality(cells)
    BY FS_Subset
  <2> QED BY <1>1, <1>2, <1>3, <2>1
<1>5. \E x \in 1..n : x \notin cells
  BY <1>4
<1>6. NewCell(cells) \in 1..n /\ NewCell(cells) \notin cells
  BY <1>5 DEF NewCell
<1> QED BY <1>2, <1>6

(* The item a new one is put behind.                                       *)
LEMMA LastOfIs ==
  ASSUME NEW h, NEW R, Good(h, R), NEW parent \in DOMAIN h.nodes, ~h.nodes[parent].is_ref,
         NEW first, first = h.nodes[parent].child, first # Nil
  PROVE  /\ LastOf(h, first) \in DOMAIN h.nodes
         /\ h.nodes[LastOf(h, first)].next = Nil
         /\ \A r \in R : LastOf(h, first) # r
         /\ \A S \in SUBSET DOMAIN h.nodes :
              Closed(Pointers(h), S) /\ parent \in S => LastOf(h, first) \in S
<1> DEFINE P == Pointers(h)
           N == Nexts(h)
           F == Reached(N, first)
<1>1. HeapType(h) /\ Forest(P, R)
  BY DEF Good
<1>2. first \in DOMAIN h.nodes /\ Owned(h.nodes[parent]) = first
  BY <1>1, NodeType DEF Owned
<1>3. DOMAIN N = DOMAIN h.nodes /\ \A n \in DOMAIN h.nodes : N[n] = {h.nodes[n].next} \ {Nil}
  BY DEF Nexts
<1>4. Graph(N)
  <2>1. IsFiniteSet(DOMAIN N)
    BY <1>1, <1>3 DEF HeapType
  <2>2. \A n \in DOMAIN N : N[n] \subseteq DOMAIN N
    BY <1>1, <1>3, NodeType
  <2> QED BY <2>1, <2>2 DEF Graph
<1>5. first \in F /\ F \subseteq DOMAIN h.nodes /\ Closed(N, F)
  BY <1>2, <1>3, <1>4, ReachedClosed
<1>6. IsFiniteSet(DOMAIN N)
  BY <1>4 DEF Graph
<1>7. ASSUME NEW S \in SUBSET DOMAIN h.nodes, Closed(N, S), first \in S PROVE F \subseteq S
  BY <1>3, <1>6, <1>7, ReachedLeast
<1>8. IsFiniteSet(F)
  BY <1>3, <1>5, <1>6, FS_Subset
<1> HIDE DEF F, N
<1>9. \E n \in F : h.nodes[n].next = Nil
  <2> SUFFICES ASSUME \A n \in F : h.nodes[n].next # Nil PROVE FALSE
    OBVIOUS
  <2> DEFINE f == [n \in F |-> h.nodes[n].next]
  <2>1. ASSUME NEW n \in F PROVE f[n] \in F \ {first}
    <3>1. h.nodes[n].next \in F
      BY <1>3, <1>5 DEF Closed
    <3>2. h.nodes[n].next # first
      <4> SUFFICES ASSUME h.nodes[n].next = first PROVE FALSE
        OBVIOUS
      <4>1. first \in P[n] /\ first \in P[parent] /\ n \in DOMAIN P /\ parent \in DOMAIN P
        BY <1>2, <1>5, PointersOf
      <4>2. n = parent
        BY <1>1, <4>1 DEF Forest
      <4> QED BY <1>2, <4>2 DEF Good
    <3> QED BY <3>1, <3>2
  <2>2. ASSUME NEW m \in F, NEW n \in F, f[m] = f[n] PROVE m = n
    <3>1. f[m] \in P[m] /\ f[n] \in P[n] /\ m \in DOMAIN P /\ n \in DOMAIN P
      BY <1>5, PointersOf
    <3> QED BY <1>1, <2>2, <3>1 DEF Forest
  <2>3. f \in Injection(F, F \ {first})
    <3>1. f \in [F -> F \ {first}]
      BY <2>1
    <3>2. DOMAIN f = F
      OBVIOUS
    <3> HIDE DEF f
    <3> QED BY <2>2, <3>1, <3>2 DEF Injection, IsInjective
  <2>4. IsFiniteSet(F \ {first}) /\ Cardinality(F \ {first}) = Cardinality(F) - 1
    BY <1>5, <1>8, FS_RemoveElement
  <2>5. Cardinality(F) <= Cardinality(F \ {first})
    BY <2>3, <2>4, FS_Injection
  <2>6. Cardinality(F) \in Nat
    BY <1>8, FS_CardinalityType
  <2> QED BY ONLY <2>4, <2>5, <2>6
<1>10. LastOf(h, first) \in F /\ h.nodes[LastOf(h, first)].next = Nil
  BY <1>9 DEF LastOf, F, N
<1>11. ASSUME NEW r \in R PROVE r \notin F
  <2>1. r # first /\ \A n \in DOMAIN h.nodes : h.nodes[n].next # r
    <3>1. \A n \in DOMAIN h.nodes : r \notin P[n]
      BY <1>1, PointersOf DEF Forest, Unowned
    <3>2. r # Nil
      BY <1>1, NilNoCell, PointersOf DEF Forest
    <3> QED BY <1>2, <3>1, <3>2, PointersOf
  <2>2. Closed(N, F \ {r}) /\ first \in F \ {r}
    BY <1>3, <1>5, <2>1 DEF Closed
  <2>3. F \subseteq F \ {r}
    BY <1>5, <1>7, <2>2
  <2> QED BY <2>3
<1>12. ASSUME NEW S \in SUBSET DOMAIN h.nodes, Closed(P, S), parent \in S PROVE F \subseteq S
  <2>1. first \in S
    BY <1>2, <1>12, PointersOf DEF Closed
  <2>2. Closed(N, S)
    BY <1>3, <1>12, PointersOf DEF Closed
  <2> QED BY <1>7, <2>1, <2>2
<1> QED BY <1>5, <1>10, <1>11, <1>12

(* h grows into g: its cells stay what they are, and point at least where  *)
(* they did; no reference is made.                                         *)
Kept(h, g) ==
  \A n \in DOMAIN h.nodes :
    /\ n \in DOMAIN g.nodes
    /\ g.nodes[n].is_ref = h.nodes[n].is_ref
    /\ g.nodes[n].str = h.nodes[n].str
    /\ Pointers(h)[n] \subseteq Pointers(g)[n]

Grown(h, g) ==
  /\ Kept(h, g)
  /\ \A n \in DOMAIN g.nodes : g.nodes[n].is_ref => n \in DOMAIN h.nodes

LEMMA GrownOnce == ASSUME NEW h PROVE Grown(h, h)
BY DEF Grown, Kept

LEMMA GrownTwice ==
  ASSUME NEW f, NEW g, NEW h, Grown(f, g), Grown(g, h)
  PROVE  Grown(f, h)
<1>1. Kept(f, h)
  BY DEF Grown, Kept
<1>2. ASSUME NEW n \in DOMAIN h.nodes, h.nodes[n].is_ref PROVE n \in DOMAIN f.nodes
  BY <1>2 DEF Grown, Kept
<1> QED BY <1>1, <1>2 DEF Grown

LEMMA NewIs ==
  ASSUME NEW h, NEW R, Good(h, R), NEW str \in BOOLEAN
  PROVE  /\ NewNode(h) \notin DOMAIN h.nodes /\ NewNode(h) # Nil
         /\ DOMAIN cj_new(h, str).nodes = DOMAIN h.nodes \cup {NewNode(h)}
         /\ cj_new(h, str).nodes[NewNode(h)].child = Nil
         /\ cj_new(h, str).nodes[NewNode(h)].next = Nil
         /\ cj_new(h, str).nodes[NewNode(h)].is_ref = FALSE
         /\ ~str => cj_new(h, str).nodes[NewNode(h)].str = Nil
         /\ Good(cj_new(h, str), R \cup {NewNode(h)})
         /\ Grown(h, cj_new(h, str))
         /\ \A n \in DOMAIN h.nodes : cj_new(h, str).nodes[n] = h.nodes[n]
<1> SUFFICES ASSUME NEW g, g = cj_new(h, str)
             PROVE  /\ NewNode(h) \notin DOMAIN h.nodes /\ NewNode(h) # Nil
                    /\ DOMAIN g.nodes = DOMAIN h.nodes \cup {NewNode(h)}
                    /\ g.nodes[NewNode(h)].child = Nil /\ g.nodes[NewNode(h)].next = Nil
                    /\ g.nodes[NewNode(h)].is_ref = FALSE /\ (~str => g.nodes[NewNode(h)].str = Nil)
                    /\ Good(g, R \cup {NewNode(h)})
                    /\ Grown(h, g)
                    /\ \A n \in DOMAIN h.nodes : g.nodes[n] = h.nodes[n]
  OBVIOUS
<1> DEFINE n == NewNode(h)
           s == IF str THEN NewCell(h.strings) ELSE Nil
<1>1. HeapType(h) /\ Forest(Pointers(h), R)
  BY DEF Good
<1>2. n \in Nat \ {0} /\ n \notin DOMAIN h.nodes
  BY <1>1, NewCellIs DEF HeapType, NewNode
<1>3. NewCell(h.strings) \in Nat \ {0} /\ NewCell(h.strings) \notin h.strings
  BY <1>1, NewCellIs DEF HeapType
<1>4. n # Nil /\ (str => s \in Nat \ {0} /\ s \notin h.strings /\ s # Nil) /\ (~str => s = Nil)
  BY <1>2, <1>3, NilAssumption
<1> DEFINE node == [child |-> Nil, next |-> Nil, prev |-> Nil, is_ref |-> FALSE, str |-> s]
           nodes == [m \in DOMAIN h.nodes \cup {n} |-> IF m = n THEN node ELSE h.nodes[m]]
           strings == h.strings \cup ({s} \ {Nil})
<1>5. g = [nodes |-> nodes, strings |-> strings, sound |-> TRUE]
  <2> HIDE DEF node
  <2>1. h \in [nodes : {h.nodes}, strings : {h.strings}, sound : {TRUE}]
    BY <1>1 DEF HeapType
  <2>2. g = [h EXCEPT !.nodes = nodes, !.strings = strings]
    BY DEF cj_new, node
  <2> HIDE DEF nodes, strings
  <2> QED BY <2>1, <2>2
<1>6. g.nodes = nodes /\ g.strings = strings /\ g.sound = TRUE
  BY <1>5
<1>7. DOMAIN g.nodes = DOMAIN h.nodes \cup {n}
  BY <1>6
<1>8. g.nodes[n] = node /\ \A m \in DOMAIN h.nodes : g.nodes[m] = h.nodes[m]
  BY <1>2, <1>6
<1>9. g.strings = IF str THEN h.strings \cup {s} ELSE h.strings
  BY <1>4, <1>6
<1>10. node.child = Nil /\ node.next = Nil /\ node.prev = Nil /\ node.is_ref = FALSE /\ node.str = s
  OBVIOUS
<1>11. HeapType(g)
  <2>1. IsFiniteSet(DOMAIN g.nodes) /\ DOMAIN g.nodes \subseteq Nat \ {0}
    BY <1>1, <1>2, <1>7, FS_AddElement DEF HeapType
  <2>2. IsFiniteSet(g.strings) /\ g.strings \subseteq Nat \ {0}
    BY <1>1, <1>4, <1>9, FS_AddElement DEF HeapType
  <2>3. ASSUME NEW m \in DOMAIN g.nodes PROVE g.nodes[m] \in Node(g)
    <3>1. CASE m = n
      <4>1. s \in g.strings \cup {Nil}
        BY <1>4, <1>9
      <4>2. g.nodes[m] = [child |-> Nil, next |-> Nil, prev |-> Nil, is_ref |-> FALSE, str |-> s]
        BY <1>8, <3>1
      <4> QED BY <4>1, <4>2 DEF Node
    <3>2. CASE m # n
      <4>1. h.nodes[m] \in Node(h) /\ g.nodes[m] = h.nodes[m]
        BY <1>1, <1>7, <1>8, <3>2, NodeType
      <4> QED BY <4>1, <1>7, <1>9 DEF Node
    <3> QED BY <3>1, <3>2
  <2>4. g.nodes \in [DOMAIN g.nodes -> Node(g)]
    <3>1. g.nodes = [m \in DOMAIN g.nodes |-> g.nodes[m]]
      BY <1>6
    <3> QED BY <2>3, <3>1
  <2>5. g = [nodes |-> g.nodes, strings |-> g.strings, sound |-> TRUE]
    BY <1>5, <1>6
  <2> QED BY <2>1, <2>2, <2>4, <2>5, HeapTypeBy DEF Node
<1> HIDE DEF node, nodes, strings, s, n
<1>12. Pointers(g)[n] = {} /\ \A m \in DOMAIN h.nodes : Pointers(g)[m] = Pointers(h)[m]
  BY <1>7, <1>8, <1>10 DEF Pointers, Owned
<1>13. Forest(Pointers(g), R \cup {n})
  <2>1. DOMAIN Pointers(g) = DOMAIN Pointers(h) \cup {n} /\ n \notin DOMAIN Pointers(h)
    BY <1>2, <1>7, PointersOf
  <2>2. \A p \in DOMAIN Pointers(h) : Pointers(g)[p] = Pointers(h)[p]
    BY <1>12, PointersOf
  <2> QED BY <1>1, <1>12, <2>1, <2>2, ForestNew
<1>14. \A r \in R \cup {n} : g.nodes[r].next = Nil
  <2>1. \A r \in R : r \in DOMAIN h.nodes
    BY <1>1, PointersOf DEF Forest
  <2> QED BY <1>8, <1>10, <2>1 DEF Good
<1>15. \A m \in DOMAIN g.nodes : Owned(g.nodes[m]) = g.nodes[m].next => g.nodes[m].next = Nil
  BY <1>7, <1>8, <1>10 DEF Good
<1>16. Linked(g)
  <2> SUFFICES ASSUME NEW m \in DOMAIN g.nodes
               PROVE  /\ g.nodes[m].next # Nil => g.nodes[g.nodes[m].next].prev = m
                      /\ g.nodes[m].prev # Nil => g.nodes[g.nodes[m].prev].next = m
    BY DEF Linked
  <2>1. CASE m = n
    BY <1>8, <1>10, <2>1
  <2>2. CASE m # n
    <3>1. m \in DOMAIN h.nodes /\ g.nodes[m] = h.nodes[m]
      BY <1>7, <1>8, <2>2
    <3>2. h.nodes[m].next \in DOMAIN h.nodes \cup {Nil} /\ h.nodes[m].prev \in DOMAIN h.nodes \cup {Nil}
      BY <1>1, <3>1, NodeType
    <3>3. /\ h.nodes[m].next # Nil => h.nodes[h.nodes[m].next].prev = m
          /\ h.nodes[m].prev # Nil => h.nodes[h.nodes[m].prev].next = m
      BY <3>1 DEF Good, Linked
    <3> QED BY <1>8, <3>1, <3>2, <3>3
  <2> QED BY <2>1, <2>2
<1>17. StringsHeld(g)
  <2>1. \A t \in h.strings : \E m \in DOMAIN h.nodes : h.nodes[m].str = t
    BY DEF Good, StringsHeld
  <2>2. \A t \in g.strings : \E m \in DOMAIN g.nodes : g.nodes[m].str = t
    BY <1>7, <1>8, <1>9, <1>10, <2>1
  <2>3. \A m \in DOMAIN h.nodes : h.nodes[m].str \in h.strings \cup {Nil}
    BY <1>1, NodeType
  <2>4. \A m \in DOMAIN h.nodes : h.nodes[m].str = s => s = Nil
    BY <1>4, <2>3
  <2>5. \A l, m \in DOMAIN g.nodes :
          l # m /\ g.nodes[l].str = g.nodes[m].str => g.nodes[l].str = Nil
    BY <1>7, <1>8, <1>10, <2>4 DEF Good, StringsHeld
  <2> QED BY <2>2, <2>5 DEF StringsHeld
<1>18. Grown(h, g)
  <2>1. Kept(h, g)
    BY <1>7, <1>8, <1>12 DEF Kept
  <2>2. \A m \in DOMAIN g.nodes : g.nodes[m].is_ref => m \in DOMAIN h.nodes
    BY <1>7, <1>8, <1>10
  <2> QED BY <2>1, <2>2 DEF Grown
<1>19. Good(g, R \cup {n})
  BY <1>11, <1>13, <1>14, <1>15, <1>16, <1>17 DEF Good
<1>20. /\ g.nodes[n].child = Nil /\ g.nodes[n].next = Nil
       /\ g.nodes[n].is_ref = FALSE /\ (~str => g.nodes[n].str = Nil)
  BY <1>4, <1>8, <1>10
<1> QED BY <1>2, <1>4, <1>7, <1>8, <1>18, <1>19, <1>20 DEF n

(* A pointer of one cell is set.                                           *)
WithNext(h, n, x) == [h EXCEPT !.nodes[n].next = x]
WithPrev(h, n, x) == [h EXCEPT !.nodes[n].prev = x]
WithChild(h, n, x) == [h EXCEPT !.nodes[n].child = x]

LEMMA SetNext ==
  ASSUME NEW h, HeapType(h), NEW n \in DOMAIN h.nodes, NEW x \in DOMAIN h.nodes \cup {Nil},
         NEW g, g = WithNext(h, n, x)
  PROVE  /\ HeapType(g) /\ DOMAIN g.nodes = DOMAIN h.nodes /\ g.strings = h.strings
         /\ \A m \in DOMAIN h.nodes :
              /\ g.nodes[m].child = h.nodes[m].child
              /\ g.nodes[m].next = IF m = n THEN x ELSE h.nodes[m].next
              /\ g.nodes[m].prev = h.nodes[m].prev
              /\ g.nodes[m].is_ref = h.nodes[m].is_ref
              /\ g.nodes[m].str = h.nodes[m].str
<1> DEFINE nodes == [h.nodes EXCEPT ![n] = [@ EXCEPT !.next = x]]
<1>1. h \in [nodes : {h.nodes}, strings : {h.strings}, sound : {TRUE}]
  BY DEF HeapType
<1>2. g = [h EXCEPT !.nodes = nodes]
  BY DEF WithNext
<1>3. DOMAIN nodes = DOMAIN h.nodes /\ nodes[n] = [h.nodes[n] EXCEPT !.next = x]
      /\ \A m \in DOMAIN h.nodes : m # n => nodes[m] = h.nodes[m]
  BY DEF HeapType
<1>4. nodes = [m \in DOMAIN h.nodes |-> nodes[m]]
  BY DEF HeapType
<1> HIDE DEF nodes
<1>5. g = [nodes |-> nodes, strings |-> h.strings, sound |-> TRUE]
  BY <1>1, <1>2
<1>6. h.nodes[n] \in Node(h)
  BY NodeType
<1>7. \A m \in DOMAIN h.nodes : nodes[m] \in Node(h)
  <2>1. nodes[n] \in Node(h)
    BY <1>3, <1>6 DEF Node
  <2> QED BY <1>3, <2>1, NodeType
<1>8. nodes \in [DOMAIN h.nodes -> Node(h)]
  BY <1>4, <1>7
<1>9. HeapType(g)
  BY <1>5, <1>8, HeapTypeBy DEF HeapType, Node
<1>10. g.nodes = nodes /\ g.strings = h.strings
  BY <1>5
<1>11. \A m \in DOMAIN h.nodes :
         /\ nodes[m].child = h.nodes[m].child
         /\ nodes[m].next = IF m = n THEN x ELSE h.nodes[m].next
         /\ nodes[m].prev = h.nodes[m].prev
         /\ nodes[m].is_ref = h.nodes[m].is_ref
         /\ nodes[m].str = h.nodes[m].str
  BY <1>3, <1>6 DEF Node
<1> QED BY <1>3, <1>9, <1>10, <1>11

LEMMA SetPrev ==
  ASSUME NEW h, HeapType(h), NEW n \in DOMAIN h.nodes, NEW x \in DOMAIN h.nodes \cup {Nil},
         NEW g, g = WithPrev(h, n, x)
  PROVE  /\ HeapType(g) /\ DOMAIN g.nodes = DOMAIN h.nodes /\ g.strings = h.strings
         /\ \A m \in DOMAIN h.nodes :
              /\ g.nodes[m].child = h.nodes[m].child
              /\ g.nodes[m].next = h.nodes[m].next
              /\ g.nodes[m].prev = IF m = n THEN x ELSE h.nodes[m].prev
              /\ g.nodes[m].is_ref = h.nodes[m].is_ref
              /\ g.nodes[m].str = h.nodes[m].str
<1> DEFINE nodes == [h.nodes EXCEPT ![n] = [@ EXCEPT !.prev = x]]
<1>1. h \in [nodes : {h.nodes}, strings : {h.strings}, sound : {TRUE}]
  BY DEF HeapType
<1>2. g = [h EXCEPT !.nodes = nodes]
  BY DEF WithPrev
<1>3. DOMAIN nodes = DOMAIN h.nodes /\ nodes[n] = [h.nodes[n] EXCEPT !.prev = x]
      /\ \A m \in DOMAIN h.nodes : m # n => nodes[m] = h.nodes[m]
  BY DEF HeapType
<1>4. nodes = [m \in DOMAIN h.nodes |-> nodes[m]]
  BY DEF HeapType
<1> HIDE DEF nodes
<1>5. g = [nodes |-> nodes, strings |-> h.strings, sound |-> TRUE]
  BY <1>1, <1>2
<1>6. h.nodes[n] \in Node(h)
  BY NodeType
<1>7. \A m \in DOMAIN h.nodes : nodes[m] \in Node(h)
  <2>1. nodes[n] \in Node(h)
    BY <1>3, <1>6 DEF Node
  <2> QED BY <1>3, <2>1, NodeType
<1>8. nodes \in [DOMAIN h.nodes -> Node(h)]
  BY <1>4, <1>7
<1>9. HeapType(g)
  BY <1>5, <1>8, HeapTypeBy DEF HeapType, Node
<1>10. g.nodes = nodes /\ g.strings = h.strings
  BY <1>5
<1>11. \A m \in DOMAIN h.nodes :
         /\ nodes[m].child = h.nodes[m].child
         /\ nodes[m].next = h.nodes[m].next
         /\ nodes[m].prev = IF m = n THEN x ELSE h.nodes[m].prev
         /\ nodes[m].is_ref = h.nodes[m].is_ref
         /\ nodes[m].str = h.nodes[m].str
  BY <1>3, <1>6 DEF Node
<1> QED BY <1>3, <1>9, <1>10, <1>11

LEMMA SetChild ==
  ASSUME NEW h, HeapType(h), NEW n \in DOMAIN h.nodes, NEW x \in DOMAIN h.nodes \cup {Nil},
         NEW g, g = WithChild(h, n, x)
  PROVE  /\ HeapType(g) /\ DOMAIN g.nodes = DOMAIN h.nodes /\ g.strings = h.strings
         /\ \A m \in DOMAIN h.nodes :
              /\ g.nodes[m].child = IF m = n THEN x ELSE h.nodes[m].child
              /\ g.nodes[m].next = h.nodes[m].next
              /\ g.nodes[m].prev = h.nodes[m].prev
              /\ g.nodes[m].is_ref = h.nodes[m].is_ref
              /\ g.nodes[m].str = h.nodes[m].str
<1> DEFINE nodes == [h.nodes EXCEPT ![n] = [@ EXCEPT !.child = x]]
<1>1. h \in [nodes : {h.nodes}, strings : {h.strings}, sound : {TRUE}]
  BY DEF HeapType
<1>2. g = [h EXCEPT !.nodes = nodes]
  BY DEF WithChild
<1>3. DOMAIN nodes = DOMAIN h.nodes /\ nodes[n] = [h.nodes[n] EXCEPT !.child = x]
      /\ \A m \in DOMAIN h.nodes : m # n => nodes[m] = h.nodes[m]
  BY DEF HeapType
<1>4. nodes = [m \in DOMAIN h.nodes |-> nodes[m]]
  BY DEF HeapType
<1> HIDE DEF nodes
<1>5. g = [nodes |-> nodes, strings |-> h.strings, sound |-> TRUE]
  BY <1>1, <1>2
<1>6. h.nodes[n] \in Node(h)
  BY NodeType
<1>7. \A m \in DOMAIN h.nodes : nodes[m] \in Node(h)
  <2>1. nodes[n] \in Node(h)
    BY <1>3, <1>6 DEF Node
  <2> QED BY <1>3, <2>1, NodeType
<1>8. nodes \in [DOMAIN h.nodes -> Node(h)]
  BY <1>4, <1>7
<1>9. HeapType(g)
  BY <1>5, <1>8, HeapTypeBy DEF HeapType, Node
<1>10. g.nodes = nodes /\ g.strings = h.strings
  BY <1>5
<1>11. \A m \in DOMAIN h.nodes :
         /\ nodes[m].child = IF m = n THEN x ELSE h.nodes[m].child
         /\ nodes[m].next = h.nodes[m].next
         /\ nodes[m].prev = h.nodes[m].prev
         /\ nodes[m].is_ref = h.nodes[m].is_ref
         /\ nodes[m].str = h.nodes[m].str
  BY <1>3, <1>6 DEF Node
<1> QED BY <1>3, <1>9, <1>10, <1>11

LEMMA RootIs ==
  ASSUME NEW h, NEW R, Good(h, R), NEW r \in R
  PROVE  /\ r \in DOMAIN h.nodes /\ r # Nil /\ h.nodes[r].next = Nil /\ h.nodes[r].prev = Nil
         /\ \A n \in DOMAIN h.nodes : h.nodes[n].next # r /\ Owned(h.nodes[n]) # r
<1>1. HeapType(h) /\ Forest(Pointers(h), R)
  BY DEF Good
<1>2. r \in DOMAIN h.nodes /\ \A n \in DOMAIN h.nodes : r \notin Pointers(h)[n]
  BY <1>1, PointersOf DEF Forest, Unowned
<1>3. r # Nil
  BY <1>1, <1>2, NilNoCell
<1>4. \A n \in DOMAIN h.nodes : h.nodes[n].next # r /\ Owned(h.nodes[n]) # r
  BY <1>2, <1>3, PointersOf
<1>5. h.nodes[r].prev = Nil
  <2>1. h.nodes[r].prev \in DOMAIN h.nodes \cup {Nil}
    BY <1>1, <1>2, NodeType
  <2>2. h.nodes[r].prev # Nil => h.nodes[h.nodes[r].prev].next = r
    BY <1>2 DEF Good, Linked
  <2> QED BY <1>4, <2>1, <2>2
<1> QED BY <1>2, <1>3, <1>4, <1>5 DEF Good

(* A child of a cell without children, or an item behind the last one.     *)
First(h, g, item, p) ==
  /\ ~h.nodes[p].is_ref /\ h.nodes[p].child = Nil
  /\ \A m \in DOMAIN h.nodes :
       /\ g.nodes[m].child = IF m = p THEN item ELSE h.nodes[m].child
       /\ g.nodes[m].next = h.nodes[m].next
       /\ g.nodes[m].prev = h.nodes[m].prev
       /\ g.nodes[m].is_ref = h.nodes[m].is_ref
       /\ g.nodes[m].str = h.nodes[m].str

Behind(h, g, item, p) ==
  /\ h.nodes[p].next = Nil
  /\ \A m \in DOMAIN h.nodes :
       /\ g.nodes[m].child = h.nodes[m].child
       /\ g.nodes[m].next = IF m = p THEN item ELSE h.nodes[m].next
       /\ g.nodes[m].prev = IF m = item THEN p ELSE h.nodes[m].prev
       /\ g.nodes[m].is_ref = h.nodes[m].is_ref
       /\ g.nodes[m].str = h.nodes[m].str

LEMMA AppendFields ==
  ASSUME NEW h, NEW R, Good(h, R), NEW parent \in DOMAIN h.nodes, ~h.nodes[parent].is_ref,
         NEW item \in R, item # parent, NEW g, g = cj_append_child(h, parent, item)
  PROVE  /\ HeapType(g) /\ DOMAIN g.nodes = DOMAIN h.nodes /\ g.strings = h.strings
         /\ \E p \in DOMAIN h.nodes :
              /\ p # item
              /\ \A S \in SUBSET DOMAIN h.nodes : Closed(Pointers(h), S) /\ parent \in S => p \in S
              /\ First(h, g, item, p) \/ (p \notin R /\ Behind(h, g, item, p))
<1> DEFINE first == h.nodes[parent].child
           last == LastOf(h, first)
           own == WithNext(h, item, Nil)
<1>1. HeapType(h) /\ item \in DOMAIN h.nodes /\ Nil \in DOMAIN h.nodes \cup {Nil}
      /\ h.nodes[item].next = Nil /\ h.nodes[item].prev = Nil
  BY RootIs DEF Good
<1>2. /\ HeapType(own) /\ DOMAIN own.nodes = DOMAIN h.nodes /\ own.strings = h.strings
      /\ \A m \in DOMAIN h.nodes :
           /\ own.nodes[m].child = h.nodes[m].child
           /\ own.nodes[m].next = h.nodes[m].next
           /\ own.nodes[m].prev = h.nodes[m].prev
           /\ own.nodes[m].is_ref = h.nodes[m].is_ref
           /\ own.nodes[m].str = h.nodes[m].str
  <2> HIDE DEF own
  <2>1. own = WithNext(h, item, Nil)
    BY DEF own
  <2> QED BY <1>1, <2>1, SetNext
<1>3. CASE first = Nil
  <2> DEFINE mid == WithPrev(own, item, Nil)
  <2>1. g = WithChild(mid, parent, item)
    BY <1>3 DEF cj_append_child, WithNext, WithPrev, WithChild
  <2>2. mid = WithPrev(own, item, Nil)
    OBVIOUS
  <2> HIDE DEF own, mid
  <2>3. /\ HeapType(mid) /\ DOMAIN mid.nodes = DOMAIN own.nodes /\ mid.strings = own.strings
        /\ \A m \in DOMAIN own.nodes :
             /\ mid.nodes[m].child = own.nodes[m].child
             /\ mid.nodes[m].next = own.nodes[m].next
             /\ mid.nodes[m].prev = IF m = item THEN Nil ELSE own.nodes[m].prev
             /\ mid.nodes[m].is_ref = own.nodes[m].is_ref
             /\ mid.nodes[m].str = own.nodes[m].str
    <3>1. HeapType(own) /\ item \in DOMAIN own.nodes /\ Nil \in DOMAIN own.nodes \cup {Nil}
      BY <1>1, <1>2
    <3> QED BY ONLY <2>2, <3>1, SetPrev
  <2>4. item \in DOMAIN mid.nodes \cup {Nil} /\ parent \in DOMAIN mid.nodes
    BY <1>1, <1>2, <2>3
  <2>5. /\ HeapType(g) /\ DOMAIN g.nodes = DOMAIN mid.nodes /\ g.strings = mid.strings
        /\ \A m \in DOMAIN mid.nodes :
             /\ g.nodes[m].child = IF m = parent THEN item ELSE mid.nodes[m].child
             /\ g.nodes[m].next = mid.nodes[m].next
             /\ g.nodes[m].prev = mid.nodes[m].prev
             /\ g.nodes[m].is_ref = mid.nodes[m].is_ref
             /\ g.nodes[m].str = mid.nodes[m].str
    <3>1. HeapType(mid)
      BY <2>3
    <3> QED BY ONLY <2>1, <2>4, <3>1, SetChild
  <2>6. First(h, g, item, parent)
    BY <1>1, <1>2, <1>3, <2>3, <2>5 DEF First
  <2>7. HeapType(g) /\ DOMAIN g.nodes = DOMAIN h.nodes /\ g.strings = h.strings
    BY <1>2, <2>3, <2>5
  <2>8. /\ parent # item
        /\ \A S \in SUBSET DOMAIN h.nodes : Closed(Pointers(h), S) /\ parent \in S => parent \in S
        /\ First(h, g, item, parent) \/ (parent \notin R /\ Behind(h, g, item, parent))
    BY <2>6
  <2> QED BY <2>7, <2>8
<1>4. CASE first # Nil
  <2>1. /\ last \in DOMAIN h.nodes /\ h.nodes[last].next = Nil /\ last # item /\ last \notin R
        /\ \A S \in SUBSET DOMAIN h.nodes : Closed(Pointers(h), S) /\ parent \in S => last \in S
    <3>1. Good(h, R) /\ first = h.nodes[parent].child /\ first # Nil
      BY <1>4
    <3> HIDE DEF first
    <3> QED BY <3>1, LastOfIs
  <2> DEFINE mid == WithNext(own, last, item)
  <2>2. g = WithPrev(mid, item, last)
    BY <1>4 DEF cj_append_child, WithNext, WithPrev, WithChild
  <2>3. mid = WithNext(own, last, item)
    OBVIOUS
  <2> HIDE DEF own, mid, last
  <2>4. item \in DOMAIN own.nodes \cup {Nil} /\ last \in DOMAIN own.nodes
    BY <1>1, <1>2, <2>1
  <2>5. /\ HeapType(mid) /\ DOMAIN mid.nodes = DOMAIN own.nodes /\ mid.strings = own.strings
        /\ \A m \in DOMAIN own.nodes :
             /\ mid.nodes[m].child = own.nodes[m].child
             /\ mid.nodes[m].next = IF m = last THEN item ELSE own.nodes[m].next
             /\ mid.nodes[m].prev = own.nodes[m].prev
             /\ mid.nodes[m].is_ref = own.nodes[m].is_ref
             /\ mid.nodes[m].str = own.nodes[m].str
    <3>1. HeapType(own)
      BY <1>2
    <3> QED BY ONLY <2>3, <2>4, <3>1, SetNext
  <2>6. item \in DOMAIN mid.nodes /\ last \in DOMAIN mid.nodes \cup {Nil}
    BY <1>1, <1>2, <2>1, <2>5
  <2>7. /\ HeapType(g) /\ DOMAIN g.nodes = DOMAIN mid.nodes /\ g.strings = mid.strings
        /\ \A m \in DOMAIN mid.nodes :
             /\ g.nodes[m].child = mid.nodes[m].child
             /\ g.nodes[m].next = mid.nodes[m].next
             /\ g.nodes[m].prev = IF m = item THEN last ELSE mid.nodes[m].prev
             /\ g.nodes[m].is_ref = mid.nodes[m].is_ref
             /\ g.nodes[m].str = mid.nodes[m].str
    <3>1. HeapType(mid)
      BY <2>5
    <3> QED BY ONLY <2>2, <2>6, <3>1, SetPrev
  <2>8. Behind(h, g, item, last)
    BY <1>1, <1>2, <2>1, <2>5, <2>7 DEF Behind
  <2> QED BY <1>2, <2>1, <2>5, <2>7, <2>8
<1> QED BY <1>3, <1>4

LEMMA AppendIs ==
  ASSUME NEW h, NEW R, Good(h, R), NEW parent \in DOMAIN h.nodes, ~h.nodes[parent].is_ref,
         NEW item \in R, parent \notin Reached(Pointers(h), item)
  PROVE  /\ Good(cj_append_child(h, parent, item), R \ {item})
         /\ Grown(h, cj_append_child(h, parent, item))
         /\ DOMAIN cj_append_child(h, parent, item).nodes = DOMAIN h.nodes
         /\ \A S \in SUBSET DOMAIN cj_append_child(h, parent, item).nodes :
              Closed(Pointers(cj_append_child(h, parent, item)), S) /\ parent \in S => item \in S
<1> SUFFICES ASSUME NEW g, g = cj_append_child(h, parent, item)
             PROVE  /\ Good(g, R \ {item}) /\ Grown(h, g) /\ DOMAIN g.nodes = DOMAIN h.nodes
                    /\ \A S \in SUBSET DOMAIN g.nodes :
                         Closed(Pointers(g), S) /\ parent \in S => item \in S
  OBVIOUS
<1>1. HeapType(h) /\ Forest(Pointers(h), R)
  BY DEF Good
<1>2. item # parent
  BY <1>1, ForestReached
<1>3. /\ item \in DOMAIN h.nodes /\ item # Nil /\ h.nodes[item].next = Nil /\ h.nodes[item].prev = Nil
      /\ \A n \in DOMAIN h.nodes : h.nodes[n].next # item /\ Owned(h.nodes[n]) # item
  BY RootIs
<1>4. HeapType(g) /\ DOMAIN g.nodes = DOMAIN h.nodes /\ g.strings = h.strings
  BY <1>2, AppendFields
<1>5. PICK p \in DOMAIN h.nodes :
        /\ p # item
        /\ \A S \in SUBSET DOMAIN h.nodes : Closed(Pointers(h), S) /\ parent \in S => p \in S
        /\ First(h, g, item, p) \/ (p \notin R /\ Behind(h, g, item, p))
  BY <1>2, AppendFields
<1>6. /\ \A m \in DOMAIN h.nodes : g.nodes[m].is_ref = h.nodes[m].is_ref /\ g.nodes[m].str = h.nodes[m].str
      /\ \A m \in DOMAIN h.nodes : m # p => Owned(g.nodes[m]) = Owned(h.nodes[m])
                                            /\ g.nodes[m].next = h.nodes[m].next
      /\ \/ Owned(g.nodes[p]) = Owned(h.nodes[p]) /\ h.nodes[p].next = Nil /\ g.nodes[p].next = item
         \/ g.nodes[p].next = h.nodes[p].next /\ Owned(h.nodes[p]) = Nil /\ Owned(g.nodes[p]) = item
  BY <1>5 DEF First, Behind, Owned
<1>7. \A q \in DOMAIN h.nodes :
        Pointers(g)[q] = IF q = p THEN Pointers(h)[q] \cup {item} ELSE Pointers(h)[q]
  <2> SUFFICES ASSUME NEW q \in DOMAIN h.nodes, NEW x
               PROVE  x \in Pointers(g)[q] <=> x \in Pointers(h)[q] \/ (q = p /\ x = item)
    OBVIOUS
  <2>1. x \in Pointers(h)[q] <=> x # Nil /\ (x = Owned(h.nodes[q]) \/ x = h.nodes[q].next)
    BY PointersOf
  <2>2. x \in Pointers(g)[q] <=> x # Nil /\ (x = Owned(g.nodes[q]) \/ x = g.nodes[q].next)
    BY <1>4, PointersOf
  <2>3. CASE q # p
    BY <1>6, <2>1, <2>2, <2>3
  <2>4. CASE q = p
    BY <1>3, <1>6, <2>1, <2>2, <2>4
  <2> QED BY <2>3, <2>4
<1>8. Forest(Pointers(g), R \ {item})
  <2> DEFINE P == Pointers(h)
             Q == Pointers(g)
  <2>1. DOMAIN P = DOMAIN h.nodes /\ DOMAIN Q = DOMAIN P
    BY <1>4, PointersOf
  <2>2. \A q \in DOMAIN P : Q[q] = IF q = p THEN P[q] \cup {item} ELSE P[q]
    BY <1>7, <2>1
  <2>3. \A S \in SUBSET DOMAIN P : Closed(P, S) /\ parent \in S => p \in S
    BY <1>5, <2>1
  <2>4. p \in DOMAIN P /\ parent \in DOMAIN P
    BY <2>1
  <2>5. Forest(P, R) /\ item \in R /\ parent \notin Reached(P, item)
    BY <1>1
  <2> HIDE DEF P, Q
  <2>6. Forest(Q, R \ {item})
    BY ONLY <2>1, <2>2, <2>3, <2>4, <2>5, ForestLink
  <2> QED BY <2>6 DEF Q
<1>9. \A r \in R \ {item} : g.nodes[r].next = Nil
  <2> SUFFICES ASSUME NEW r \in R \ {item} PROVE g.nodes[r].next = Nil
    OBVIOUS
  <2>1. r \in DOMAIN h.nodes /\ h.nodes[r].next = Nil
    BY RootIs
  <2>2. r \notin Pointers(g)[p]
    BY <1>4, <1>8, PointersOf DEF Forest, Unowned
  <2>3. CASE r # p
    BY <1>6, <2>1, <2>3
  (* The last item is no root.                                             *)
  <2>4. CASE r = p /\ First(h, g, item, p)
    BY <2>1, <2>4 DEF First
  <2> QED BY <1>5, <2>3, <2>4
<1>10. \A n \in DOMAIN g.nodes : Owned(g.nodes[n]) = g.nodes[n].next => g.nodes[n].next = Nil
  <2> SUFFICES ASSUME NEW n \in DOMAIN h.nodes, Owned(g.nodes[n]) = g.nodes[n].next
               PROVE  g.nodes[n].next = Nil
    BY <1>4
  <2>1. Owned(h.nodes[n]) = h.nodes[n].next => h.nodes[n].next = Nil
    BY DEF Good
  <2> QED BY <1>3, <1>6, <2>1
<1>11. Linked(g)
  <2> SUFFICES ASSUME NEW m \in DOMAIN h.nodes
               PROVE  /\ g.nodes[m].next # Nil => g.nodes[g.nodes[m].next].prev = m
                      /\ g.nodes[m].prev # Nil => g.nodes[g.nodes[m].prev].next = m
    BY <1>4 DEF Linked
  <2>1. /\ h.nodes[m].next # Nil => h.nodes[h.nodes[m].next].prev = m
        /\ h.nodes[m].prev # Nil => h.nodes[h.nodes[m].prev].next = m
    BY DEF Good, Linked
  <2>2. h.nodes[m].next \in DOMAIN h.nodes \cup {Nil} /\ h.nodes[m].prev \in DOMAIN h.nodes \cup {Nil}
    BY <1>1, NodeType
  <2>3. CASE First(h, g, item, p)
    BY <2>1, <2>2, <2>3 DEF First
  <2>4. CASE Behind(h, g, item, p)
    <3>1. Nil \notin DOMAIN h.nodes
      BY <1>1, NilNoCell
    <3> QED BY <1>3, <1>5, <2>1, <2>2, <2>4, <3>1 DEF Behind
  <2> QED BY <1>5, <2>3, <2>4
<1>12. StringsHeld(g)
  BY <1>4, <1>6 DEF StringsHeld, Good
<1>13. Grown(h, g)
  BY <1>4, <1>6, <1>7 DEF Grown, Kept
<1>14. ASSUME NEW S \in SUBSET DOMAIN g.nodes, Closed(Pointers(g), S), parent \in S
       PROVE  item \in S
  <2>1. Closed(Pointers(h), S)
    BY <1>4, <1>7, <1>14 DEF Closed
  <2>2. p \in S
    BY <1>4, <1>5, <1>14, <2>1
  <2> QED BY <1>5, <1>7, <1>14, <2>2 DEF Closed
<1>15. Good(g, R \ {item})
  BY <1>4, <1>8, <1>9, <1>10, <1>11, <1>12 DEF Good
<1> QED BY <1>4, <1>13, <1>14, <1>15

LEMMA ReachedAlone ==
  ASSUME NEW P, IsFiniteSet(DOMAIN P), NEW n \in DOMAIN P, P[n] = {}
  PROVE  Reached(P, n) \subseteq {n}
<1>1. Closed(P, {n}) /\ {n} \in SUBSET DOMAIN P
  BY DEF Closed
<1> QED BY <1>1, ReachedLeast

LEMMA AppendOwned ==
  ASSUME NEW h, NEW R, Good(h, R), NEW parent \in DOMAIN h.nodes, ~h.nodes[parent].is_ref,
         NEW item \in R, parent \notin Reached(Pointers(h), item)
  PROVE  /\ Good(cj_append_child(h, parent, item), R \ {item})
         /\ Grown(h, cj_append_child(h, parent, item))
         /\ DOMAIN cj_append_child(h, parent, item).nodes = DOMAIN h.nodes
BY AppendIs

LEMMA AddIs ==
  ASSUME NEW h, NEW R, Good(h, R), NEW parent \in DOMAIN h.nodes, ~h.nodes[parent].is_ref,
         NEW str \in BOOLEAN
  PROVE  /\ Good(Add(h, parent, str), R) /\ Grown(h, Add(h, parent, str))
         /\ NewNode(h) \notin DOMAIN h.nodes
         /\ NewNode(h) \in DOMAIN Add(h, parent, str).nodes
         /\ ~Add(h, parent, str).nodes[NewNode(h)].is_ref
<1> DEFINE new == cj_new(h, str)
           n == NewNode(h)
           g == cj_append_child(new, parent, n)
<1>1. /\ n \notin DOMAIN h.nodes /\ n \in DOMAIN new.nodes
      /\ new.nodes[n].child = Nil /\ new.nodes[n].next = Nil /\ new.nodes[n].is_ref = FALSE
      /\ Good(new, R \cup {n}) /\ Grown(h, new)
      /\ \A m \in DOMAIN h.nodes : m \in DOMAIN new.nodes /\ new.nodes[m] = h.nodes[m]
  <2>1. /\ n \notin DOMAIN h.nodes /\ DOMAIN new.nodes = DOMAIN h.nodes \cup {n}
        /\ new.nodes[n].child = Nil /\ new.nodes[n].next = Nil /\ new.nodes[n].is_ref = FALSE
        /\ Good(new, R \cup {n}) /\ Grown(h, new)
        /\ \A m \in DOMAIN h.nodes : new.nodes[m] = h.nodes[m]
    BY NewIs
  <2> HIDE DEF new, n
  <2> QED BY <2>1
<1>2. g = Add(h, parent, str)
  BY DEF Add
<1> HIDE DEF new, n
<1>3. Pointers(new)[n] = {}
  BY <1>1 DEF Pointers, Owned
<1>4. parent \in DOMAIN new.nodes /\ ~new.nodes[parent].is_ref /\ parent # n
  BY <1>1
<1>5. parent \notin Reached(Pointers(new), n)
  <2>1. IsFiniteSet(DOMAIN Pointers(new)) /\ n \in DOMAIN Pointers(new)
    BY <1>1, PointersOf DEF Good, HeapType
  <2> QED BY <1>3, <1>4, <2>1, ReachedAlone
<1>6. R \ {n} = R
  <2>1. R \subseteq DOMAIN h.nodes
    BY PointersOf DEF Good, Forest
  <2> QED BY <1>1, <2>1
<1>7. Good(g, R) /\ Grown(new, g) /\ DOMAIN g.nodes = DOMAIN new.nodes
  <2> DEFINE S == R \cup {n}
  <2>1. n \in S /\ S \ {n} = R
    BY <1>6
  <2>2. Good(new, S)
    BY <1>1
  <2>3. parent \in DOMAIN new.nodes
    BY <1>4
  <2>4. ~new.nodes[parent].is_ref
    BY <1>4
  <2> HIDE DEF g, S
  <2>5. /\ Good(cj_append_child(new, parent, n), S \ {n})
        /\ Grown(new, cj_append_child(new, parent, n))
        /\ DOMAIN cj_append_child(new, parent, n).nodes = DOMAIN new.nodes
    BY ONLY <1>5, <2>1, <2>2, <2>3, <2>4, AppendOwned
  <2> QED BY <2>1, <2>5 DEF g
<1> HIDE DEF g
<1>8. Grown(h, g)
  BY <1>1, <1>7, GrownTwice
<1>9. g.nodes[n].is_ref = FALSE
  BY <1>1, <1>7 DEF Grown, Kept
<1> QED BY <1>1, <1>2, <1>7, <1>8, <1>9 DEF n

(* A root is hung into another.                                            *)
LEMMA HangIs ==
  ASSUME NEW h, NEW R, Good(h, R), NEW parent \in R, ~h.nodes[parent].is_ref,
         NEW item \in R, item # parent
  PROVE  /\ Good(cj_append_child(h, parent, item), R \ {item})
         /\ Grown(h, cj_append_child(h, parent, item))
<1>1. parent \notin Reached(Pointers(h), item)
  BY ForestReached DEF Good
<1>2. parent \in DOMAIN h.nodes
  BY RootIs
<1> QED BY <1>1, <1>2, AppendIs

NoRefs(h) == \A n \in DOMAIN h.nodes : ~h.nodes[n].is_ref

LEMMA DeleteIs ==
  ASSUME NEW h, NEW R, Good(h, R), NEW item \in R,
         \A n \in DOMAIN h.nodes : h.nodes[n].is_ref => n \in Reached(Pointers(h), item)
  PROVE  /\ Good(cJSON_Delete(h, item), R \ {item}) /\ NoRefs(cJSON_Delete(h, item))
         /\ \A n \in DOMAIN cJSON_Delete(h, item).nodes :
              n \in DOMAIN h.nodes /\ cJSON_Delete(h, item).nodes[n] = h.nodes[n]
<1> SUFFICES ASSUME NEW g, g = cJSON_Delete(h, item)
             PROVE  /\ Good(g, R \ {item}) /\ NoRefs(g)
                    /\ \A n \in DOMAIN g.nodes : n \in DOMAIN h.nodes /\ g.nodes[n] = h.nodes[n]
  OBVIOUS
<1> DEFINE P == Pointers(h)
           F == Reached(P, item)
           nodes == [n \in DOMAIN h.nodes \ F |-> h.nodes[n]]
           strings == h.strings \ {h.nodes[n].str : n \in F \cap DOMAIN h.nodes}
<1>1. HeapType(h) /\ Forest(P, R) /\ DOMAIN P = DOMAIN h.nodes
  BY PointersOf DEF Good
<1>2. /\ item \in F /\ F \subseteq DOMAIN h.nodes /\ Closed(P, F)
      /\ \A q \in DOMAIN h.nodes \ F : P[q] \cap F = {}
      /\ \A r \in R : r # item => r \notin F
  BY <1>1, ForestReached
<1>3. \A n \in DOMAIN h.nodes : h.nodes[n].is_ref => n \in F
  OBVIOUS
<1>4. g = [nodes |-> nodes, strings |-> strings, sound |-> h.sound /\ FreedOnce(h, item, F)]
  BY DEF cJSON_Delete
<1> HIDE DEF F
<1>5. Nil \notin DOMAIN h.nodes
  BY <1>1, NilNoCell
<1>6. \A n \in DOMAIN h.nodes : \A x : x \in P[n] <=> x # Nil /\ (x = Owned(h.nodes[n]) \/ x = h.nodes[n].next)
  BY PointersOf
<1>7. \A m, n \in DOMAIN h.nodes :
        m # n /\ h.nodes[m].str = h.nodes[n].str => h.nodes[m].str = Nil
  BY DEF Good, StringsHeld
<1>8. FreedOnce(h, item, F)
  <2>1. ASSUME NEW n \in F
        PROVE  /\ item \notin P[n]
               /\ Owned(h.nodes[n]) = h.nodes[n].next => h.nodes[n].next = Nil
               /\ h.nodes[n].str \in h.strings \cup {Nil}
    BY <1>1, <1>2, NodeType DEF Good, Forest, Unowned
  <2>2. ASSUME NEW n \in F, NEW m \in F \ {n}
        PROVE  /\ P[m] \cap P[n] = {}
               /\ h.nodes[m].str = h.nodes[n].str => h.nodes[m].str = Nil
    BY <1>1, <1>2, <1>7 DEF Forest
  <2> QED BY <1>2, <2>1, <2>2 DEF FreedOnce
<1> HIDE DEF P
<1>9. DOMAIN nodes = DOMAIN h.nodes \ F /\ \A n \in DOMAIN nodes : nodes[n] = h.nodes[n]
  OBVIOUS
<1>10. \A s : s \in strings <=> s \in h.strings /\ \A n \in F : h.nodes[n].str # s
  BY <1>2
<1>11. strings \subseteq h.strings
  OBVIOUS
<1>12. g = [nodes |-> nodes, strings |-> strings, sound |-> TRUE]
  <2>1. h.sound = TRUE
    BY <1>1 DEF HeapType
  <2> QED BY <1>4, <1>8, <2>1
<1>13. nodes = [n \in DOMAIN nodes |-> nodes[n]]
  OBVIOUS
<1> HIDE DEF nodes, strings
<1>14. ASSUME NEW q \in DOMAIN nodes
       PROVE  /\ nodes[q].child \in DOMAIN nodes \cup {Nil}
              /\ nodes[q].next \in DOMAIN nodes \cup {Nil}
              /\ nodes[q].prev \in DOMAIN nodes \cup {Nil}
              /\ nodes[q].is_ref = FALSE
              /\ nodes[q].str \in strings \cup {Nil}
              /\ nodes[q] \in Node(h)
  <2>1. q \in DOMAIN h.nodes \ F /\ nodes[q] = h.nodes[q]
    BY <1>9
  <2>2. /\ h.nodes[q].child \in DOMAIN h.nodes \cup {Nil}
        /\ h.nodes[q].next \in DOMAIN h.nodes \cup {Nil}
        /\ h.nodes[q].prev \in DOMAIN h.nodes \cup {Nil}
        /\ h.nodes[q].is_ref \in BOOLEAN
        /\ h.nodes[q].str \in h.strings \cup {Nil}
        /\ h.nodes[q] \in Node(h)
    BY <1>1, <2>1, NodeType
  <2>3. ~h.nodes[q].is_ref
    BY <1>3, <2>1
  <2>4. h.nodes[q].child \notin F /\ h.nodes[q].next \notin F
    <3>1. Owned(h.nodes[q]) = h.nodes[q].child
      BY <2>3 DEF Owned
    <3>2. \A x \in F : x # Nil
      BY <1>2, <1>5
    <3> QED BY <1>2, <1>6, <2>1, <3>1, <3>2
  <2>5. h.nodes[q].prev \notin F
    <3> SUFFICES ASSUME NEW k \in F, h.nodes[q].prev = k PROVE FALSE
      OBVIOUS
    <3>1. k \in DOMAIN h.nodes /\ k # Nil /\ h.nodes[k].next = q
      BY <1>2, <1>5, <2>1 DEF Good, Linked
    <3>2. q \in P[k]
      BY <1>5, <1>6, <2>1, <3>1
    <3> QED BY <1>2, <2>1, <3>2 DEF Closed
  <2>6. \A n \in F : h.nodes[n].str = h.nodes[q].str => h.nodes[q].str = Nil
    BY <1>2, <1>7, <2>1
  <2> QED BY <1>9, <1>10, <2>1, <2>2, <2>3, <2>4, <2>5, <2>6
<1>15. HeapType(g)
  <2>1. IsFiniteSet(DOMAIN nodes) /\ DOMAIN nodes \subseteq Nat \ {0}
    BY <1>1, <1>9, FS_Subset DEF HeapType
  <2>2. IsFiniteSet(strings) /\ strings \subseteq Nat \ {0}
    BY <1>1, <1>11, FS_Subset DEF HeapType
  <2>3. \A n \in DOMAIN nodes :
          nodes[n] \in [child : DOMAIN nodes \cup {Nil}, next : DOMAIN nodes \cup {Nil},
                        prev : DOMAIN nodes \cup {Nil}, is_ref : BOOLEAN, str : strings \cup {Nil}]
    BY <1>14 DEF Node
  <2>4. nodes \in [DOMAIN nodes -> [child : DOMAIN nodes \cup {Nil}, next : DOMAIN nodes \cup {Nil},
                        prev : DOMAIN nodes \cup {Nil}, is_ref : BOOLEAN, str : strings \cup {Nil}]]
    BY <1>13, <2>3
  <2> QED BY <1>12, <2>1, <2>2, <2>4, HeapTypeBy
<1>16. g.nodes = nodes /\ g.strings = strings
  BY <1>12
<1>17. \A n \in DOMAIN nodes : n \in DOMAIN h.nodes /\ n \notin F
  BY <1>9
<1>18. Forest(Pointers(g), R \ {item})
  <2>1. DOMAIN Pointers(g) = DOMAIN P \ Reached(P, item)
    BY <1>1, <1>9, <1>16, PointersOf DEF F
  <2>2. \A q \in DOMAIN Pointers(g) : Pointers(g)[q] = P[q]
    BY <1>9, <1>16 DEF Pointers, P
  <2> QED BY <1>1, <2>1, <2>2, ForestDelete
<1>19. \A r \in R \ {item} : g.nodes[r].next = Nil
  <2> TAKE r \in R \ {item}
  <2>1. r \in DOMAIN nodes /\ h.nodes[r].next = Nil
    BY <1>2, <1>9, RootIs
  <2> QED BY <1>9, <1>16, <2>1
<1>20. \A n \in DOMAIN g.nodes : Owned(g.nodes[n]) = g.nodes[n].next => g.nodes[n].next = Nil
  BY <1>9, <1>16 DEF Good
<1>21. Linked(g)
  <2> SUFFICES ASSUME NEW m \in DOMAIN nodes
               PROVE  /\ nodes[m].next # Nil => nodes[nodes[m].next].prev = m
                      /\ nodes[m].prev # Nil => nodes[nodes[m].prev].next = m
    BY <1>16 DEF Linked
  <2>1. /\ h.nodes[m].next # Nil => h.nodes[h.nodes[m].next].prev = m
        /\ h.nodes[m].prev # Nil => h.nodes[h.nodes[m].prev].next = m
    BY <1>17 DEF Good, Linked
  <2>2. nodes[m] = h.nodes[m] /\ nodes[m].next \in DOMAIN nodes \cup {Nil}
        /\ nodes[m].prev \in DOMAIN nodes \cup {Nil}
    BY <1>9, <1>14
  <2> QED BY <1>9, <2>1, <2>2
<1>22. StringsHeld(g)
  <2>1. ASSUME NEW s \in strings PROVE \E n \in DOMAIN nodes : nodes[n].str = s
    <3>1. PICK n \in DOMAIN h.nodes : h.nodes[n].str = s
      BY <1>11 DEF Good, StringsHeld
    <3> QED BY <1>9, <1>10, <3>1
  <2>2. \A m, n \in DOMAIN nodes : m # n /\ nodes[m].str = nodes[n].str => nodes[m].str = Nil
    BY <1>7, <1>9
  <2> QED BY <1>16, <2>1, <2>2 DEF StringsHeld
<1>23. NoRefs(g)
  BY <1>14, <1>16 DEF NoRefs
<1>24. Good(g, R \ {item})
  BY <1>15, <1>18, <1>19, <1>20, <1>21, <1>22 DEF Good
<1> QED BY <1>9, <1>16, <1>17, <1>23, <1>24

(* The item that some steps behind c is the next of a cell, or c.          *)
WalkOf(h, c, f, m) == f = [k \in 0..m |-> IF k = 0 THEN c ELSE After(h, f[k - 1])]

LEMMA WalkExists ==
  ASSUME NEW h, NEW c, NEW m \in Nat
  PROVE  \E f : WalkOf(h, c, f, m)
<1> DEFINE Walks(f, j) == f[0] = c /\ \A k \in 1..j : f[k] = After(h, f[k - 1])
           Some(j) == \E f : f = [k \in 0..j |-> f[k]] /\ Walks(f, j)
           G == {j \in Nat : Some(j)}
<1>1. Some(0)
  <2> DEFINE f == [k \in 0..0 |-> c]
  <2>1. f = [k \in 0..0 |-> f[k]] /\ f[0] = c
    OBVIOUS
  <2> HIDE DEF f
  <2> QED BY <2>1
<1>2. ASSUME NEW j \in G PROVE j + 1 \in G
  <2>1. PICK f : f = [k \in 0..j |-> f[k]] /\ Walks(f, j)
    OBVIOUS
  <2> DEFINE last == After(h, f[j])
             g == [k \in 0..(j + 1) |-> IF k = j + 1 THEN last ELSE f[k]]
  <2> HIDE DEF last
  <2>2. j \in Nat /\ \A k \in 0..j : g[k] = f[k]
    OBVIOUS
  <2>3. g[j + 1] = last /\ g = [k \in 0..(j + 1) |-> g[k]]
    OBVIOUS
  <2> HIDE DEF g
  <2>4. g[0] = c
    BY <2>1, <2>2
  <2>5. ASSUME NEW k \in 1..(j + 1) PROVE g[k] = After(h, g[k - 1])
    <3>1. CASE k = j + 1
      <4>1. k - 1 = j /\ j \in 0..j
        BY <2>2, <3>1
      <4>2. g[k - 1] = f[j] /\ g[k] = last
        BY <2>2, <2>3, <3>1, <4>1
      <4> QED BY <3>1, <4>2 DEF last
    <3>2. CASE k # j + 1
      <4>1. k \in 1..j /\ k \in 0..j /\ k - 1 \in 0..j
        BY <2>2, <3>2
      <4>2. f[k] = After(h, f[k - 1])
        BY <2>1, <4>1
      <4>3. g[k] = f[k] /\ g[k - 1] = f[k - 1]
        BY <2>2, <4>1
      <4> QED BY <4>2, <4>3
    <3> QED BY <3>1, <3>2
  <2>6. Walks(g, j + 1)
    BY <2>4, <2>5
  <2>7. Some(j + 1)
    <3> HIDE DEF Walks
    <3> QED BY <2>3, <2>6
  <2> HIDE DEF Some
  <2> QED BY <2>2, <2>7
<1> HIDE DEF Some
<1>3. G = Nat
  <2>1. G \in SUBSET Nat /\ 0 \in G
    BY <1>1
  <2> HIDE DEF G
  <2> QED BY <1>2, <2>1, SetInduction
<1>4. Some(m)
  <2>1. m \in G
    BY <1>3
  <2> QED BY <2>1
<1>5. PICK f : f = [k \in 0..m |-> f[k]] /\ Walks(f, m)
  BY <1>4 DEF Some
<1>6. \A k \in 0..m : f[k] = IF k = 0 THEN c ELSE After(h, f[k - 1])
  <2> TAKE k \in 0..m
  <2>1. k # 0 => k \in 1..m
    OBVIOUS
  <2> QED BY <1>5, <2>1
<1>7. f = [k \in 0..m |-> IF k = 0 THEN c ELSE After(h, f[k - 1])]
  BY <1>5, <1>6
<1> QED BY <1>7 DEF WalkOf

LEMMA GetItemIs ==
  ASSUME NEW h, HeapType(h), NEW c \in DOMAIN h.nodes \cup {Nil}, NEW index \in Nat
  PROVE  /\ GetItem(h, c, index) \in DOMAIN h.nodes \cup {Nil}
         /\ GetItem(h, c, index) # Nil =>
              \/ GetItem(h, c, index) = c
              \/ \E p \in DOMAIN h.nodes : h.nodes[p].next = GetItem(h, c, index)
<1> DEFINE f == CHOOSE f : f = [k \in 0..index |-> IF k = 0 THEN c ELSE After(h, f[k - 1])]
           Right(x) == /\ x \in DOMAIN h.nodes \cup {Nil}
                       /\ x # Nil => x = c \/ \E p \in DOMAIN h.nodes : h.nodes[p].next = x
<1>1. GetItem(h, c, index) = f[index]
  BY DEF GetItem
<1>2. f = [k \in 0..index |-> IF k = 0 THEN c ELSE After(h, f[k - 1])]
  <2>1. \E g : WalkOf(h, c, g, index)
    BY WalkExists
  <2> QED BY <2>1 DEF WalkOf
<1> HIDE DEF f
<1> DEFINE G == {k \in Nat : k <= index => Right(f[k])}
<1>3. 0 \in G
  <2>1. f[0] = c
    BY <1>2
  <2> QED BY <2>1
<1>4. ASSUME NEW k \in G PROVE k + 1 \in G
  <2> SUFFICES ASSUME k + 1 <= index PROVE Right(f[k + 1])
    OBVIOUS
  <2>1. k + 1 \in 0..index /\ k + 1 # 0 /\ (k + 1) - 1 = k
    OBVIOUS
  <2>2. f[k + 1] = After(h, f[k])
    BY <1>2, <2>1
  <2>3. f[k] \in DOMAIN h.nodes \cup {Nil}
    OBVIOUS
  <2>4. CASE f[k] = Nil
    BY <2>2, <2>4 DEF After
  <2>5. CASE f[k] # Nil
    <3>1. f[k] \in DOMAIN h.nodes /\ f[k + 1] = h.nodes[f[k]].next
      BY <2>2, <2>3, <2>5 DEF After
    <3>2. h.nodes[f[k]].next \in DOMAIN h.nodes \cup {Nil}
      BY <3>1, NodeType
    <3> QED BY <3>1, <3>2
  <2> QED BY <2>4, <2>5
<1> HIDE DEF Right
<1>5. G = Nat
  <2>1. G \in SUBSET Nat
    OBVIOUS
  <2> HIDE DEF G
  <2> QED BY <1>3, <1>4, <2>1, SetInduction
<1>6. Right(f[index])
  BY <1>5
<1> QED BY <1>1, <1>6 DEF Right

LEMMA ArrayItemIs ==
  ASSUME NEW h, HeapType(h), NEW array \in DOMAIN h.nodes \cup {Nil}, NEW index \in Nat
  PROVE  /\ cJSON_GetArrayItem(h, array, index) \in DOMAIN h.nodes \cup {Nil}
         /\ cJSON_GetArrayItem(h, array, index) # Nil =>
              /\ array # Nil
              /\ \/ cJSON_GetArrayItem(h, array, index) = h.nodes[array].child
                 \/ \E p \in DOMAIN h.nodes : h.nodes[p].next = cJSON_GetArrayItem(h, array, index)
<1>1. CASE array = Nil
  BY <1>1 DEF cJSON_GetArrayItem
<1>2. CASE array # Nil
  <2>1. array \in DOMAIN h.nodes /\ h.nodes[array].child \in DOMAIN h.nodes \cup {Nil}
    BY <1>2, NodeType
  <2>2. cJSON_GetArrayItem(h, array, index) = GetItem(h, h.nodes[array].child, index)
    BY <1>2 DEF cJSON_GetArrayItem
  <2> QED BY <1>2, <2>1, <2>2, GetItemIs
<1> QED BY <1>1, <1>2

(* An item c is taken out from behind its owner p: the array whose first   *)
(* child it is, or the item before it.                                     *)
OwnedBy(h, array, c, p) ==
  \/ p = array /\ h.nodes[array].child = c /\ h.nodes[c].prev = Nil
  \/ p = h.nodes[c].prev /\ h.nodes[p].next = c /\ p # Nil

CutOut(h, g, array, c) ==
  \A m \in DOMAIN h.nodes :
    /\ g.nodes[m].child = IF m = array /\ h.nodes[c].prev = Nil THEN h.nodes[c].next
                          ELSE h.nodes[m].child
    /\ g.nodes[m].next = IF m = c THEN Nil ELSE IF m = h.nodes[c].prev THEN h.nodes[c].next
                         ELSE h.nodes[m].next
    /\ g.nodes[m].prev = IF m = c THEN Nil ELSE IF m = h.nodes[c].next THEN h.nodes[c].prev
                         ELSE h.nodes[m].prev
    /\ g.nodes[m].is_ref = h.nodes[m].is_ref
    /\ g.nodes[m].str = h.nodes[m].str

LEMMA OwnerIs ==
  ASSUME NEW h, NEW R, Good(h, R), NEW array \in DOMAIN h.nodes, ~h.nodes[array].is_ref,
         NEW c \in DOMAIN h.nodes,
         h.nodes[array].child = c \/ \E p \in DOMAIN h.nodes : h.nodes[p].next = c
  PROVE  \E p \in DOMAIN h.nodes : /\ OwnedBy(h, array, c, p) /\ p # c
                                   /\ c \in Pointers(h)[p] /\ c \notin R
<1>1. HeapType(h) /\ Forest(Pointers(h), R) /\ DOMAIN Pointers(h) = DOMAIN h.nodes
  BY PointersOf DEF Good
<1>2. Nil \notin DOMAIN h.nodes /\ h.nodes[c].prev \in DOMAIN h.nodes \cup {Nil}
  BY <1>1, NilNoCell, NodeType
<1>3. \E p \in DOMAIN h.nodes : OwnedBy(h, array, c, p) /\ c \in Pointers(h)[p]
  <2>1. CASE h.nodes[c].prev = Nil
    <3>1. \A p \in DOMAIN h.nodes : h.nodes[p].next # c
      BY <1>2, <2>1 DEF Good, Linked
    <3>2. h.nodes[array].child = c /\ Owned(h.nodes[array]) = c
      BY <3>1 DEF Owned
    <3>3. OwnedBy(h, array, c, array) /\ c \in Pointers(h)[array]
      BY <1>2, <2>1, <3>2, PointersOf DEF OwnedBy
    <3> QED BY <3>3
  <2>2. CASE h.nodes[c].prev # Nil
    <3> DEFINE p == h.nodes[c].prev
    <3>1. p \in DOMAIN h.nodes /\ h.nodes[p].next = c
      BY <1>2, <2>2 DEF Good, Linked
    <3>2. OwnedBy(h, array, c, p) /\ c \in Pointers(h)[p]
      BY <1>2, <2>2, <3>1, PointersOf DEF OwnedBy
    <3> QED BY <3>1, <3>2
  <2> QED BY <2>1, <2>2
<1>4. PICK p \in DOMAIN h.nodes : OwnedBy(h, array, c, p) /\ c \in Pointers(h)[p]
  BY <1>3
<1>5. p # c
  BY <1>1, <1>4, ForestNoLoop
<1>6. c \notin R
  BY <1>1, <1>4 DEF Forest, Unowned
<1> QED BY <1>4, <1>5, <1>6

LEMMA UnlinkFields ==
  ASSUME NEW h, NEW R, Good(h, R), NEW array \in DOMAIN h.nodes, NEW c \in DOMAIN h.nodes,
         h.nodes[c].next # c, h.nodes[c].prev # c, array # c \/ h.nodes[c].prev # Nil,
         NEW g, g = Unlink(h, array, c)
  PROVE  /\ HeapType(g) /\ DOMAIN g.nodes = DOMAIN h.nodes /\ g.strings = h.strings
         /\ CutOut(h, g, array, c)
<1> DEFINE node == h.nodes[c]
           before == IF node.prev = Nil THEN WithChild(h, array, node.next)
                     ELSE WithNext(h, node.prev, node.next)
           behind == IF node.next = Nil THEN before ELSE WithPrev(before, node.next, node.prev)
           own == WithNext(behind, c, Nil)
<1>1. g = WithPrev(own, c, Nil)
  <2> DEFINE back == IF node.next = Nil THEN before
                     ELSE [before EXCEPT !.nodes[node.next].prev = node.prev]
  <2>1. g = [back EXCEPT !.nodes[c].next = Nil, !.nodes[c].prev = Nil]
    BY Zenon DEF Unlink, WithNext, WithChild
  <2>2. back = behind
    BY DEF WithPrev
  <2> HIDE DEF back, behind
  <2>3. g = [behind EXCEPT !.nodes[c].next = Nil, !.nodes[c].prev = Nil]
    BY <2>1, <2>2
  <2> QED BY <2>3 DEF WithNext, WithPrev
<1>2. /\ HeapType(h) /\ node.next \in DOMAIN h.nodes \cup {Nil} /\ node.prev \in DOMAIN h.nodes \cup {Nil}
      /\ Nil \notin DOMAIN h.nodes
  BY NodeType, NilNoCell DEF Good
<1> DEFINE cells == DOMAIN h.nodes
           x == node.next
           y == node.prev
<1>3. /\ HeapType(before) /\ DOMAIN before.nodes = cells /\ before.strings = h.strings
      /\ \A m \in cells :
           /\ before.nodes[m].child = IF m = array /\ y = Nil THEN x ELSE h.nodes[m].child
           /\ before.nodes[m].next = IF m = y THEN x ELSE h.nodes[m].next
           /\ before.nodes[m].prev = h.nodes[m].prev
           /\ before.nodes[m].is_ref = h.nodes[m].is_ref
           /\ before.nodes[m].str = h.nodes[m].str
  <2>1. CASE y = Nil
    <3>1. before = WithChild(h, array, x)
      BY <2>1
    <3> HIDE DEF before, x, y, node
    <3> QED BY <1>2, <2>1, <3>1, SetChild DEF x, y
  <2>2. CASE y # Nil
    <3>1. before = WithNext(h, y, x)
      BY <2>2
    <3>2. y \in DOMAIN h.nodes /\ x \in DOMAIN h.nodes \cup {Nil} /\ HeapType(h)
      BY <1>2, <2>2
    <3> HIDE DEF before, x, y, node
    <3>3. /\ HeapType(before) /\ DOMAIN before.nodes = DOMAIN h.nodes /\ before.strings = h.strings
          /\ \A m \in DOMAIN h.nodes :
               /\ before.nodes[m].child = h.nodes[m].child
               /\ before.nodes[m].next = IF m = y THEN x ELSE h.nodes[m].next
               /\ before.nodes[m].prev = h.nodes[m].prev
               /\ before.nodes[m].is_ref = h.nodes[m].is_ref
               /\ before.nodes[m].str = h.nodes[m].str
      BY ONLY <3>1, <3>2, SetNext
    <3> QED BY <2>2, <3>3
  <2> QED BY <2>1, <2>2
<1>4. behind = IF x = Nil THEN before ELSE WithPrev(before, x, y)
  OBVIOUS
<1>5. own = WithNext(behind, c, Nil)
  OBVIOUS
<1>6. x \in cells \cup {Nil} /\ y \in cells \cup {Nil}
  BY <1>2
<1> HIDE DEF before, behind, own
<1>7. /\ HeapType(behind) /\ DOMAIN behind.nodes = cells /\ behind.strings = h.strings
      /\ \A m \in cells :
           /\ behind.nodes[m].child = before.nodes[m].child
           /\ behind.nodes[m].next = before.nodes[m].next
           /\ behind.nodes[m].prev = IF m = x THEN y ELSE before.nodes[m].prev
           /\ behind.nodes[m].is_ref = before.nodes[m].is_ref
           /\ behind.nodes[m].str = before.nodes[m].str
  <2>1. CASE x = Nil
    BY <1>2, <1>3, <1>4, <2>1
  <2>2. CASE x # Nil
    <3>1. behind = WithPrev(before, x, y)
      BY <1>4, <2>2
    <3>2. x \in DOMAIN before.nodes /\ y \in DOMAIN before.nodes \cup {Nil}
      BY <1>3, <1>6, <2>2
    <3> HIDE DEF x, y, node, cells
    <3>3. /\ HeapType(behind) /\ DOMAIN behind.nodes = DOMAIN before.nodes
          /\ behind.strings = before.strings
          /\ \A m \in DOMAIN before.nodes :
               /\ behind.nodes[m].child = before.nodes[m].child
               /\ behind.nodes[m].next = before.nodes[m].next
               /\ behind.nodes[m].prev = IF m = x THEN y ELSE before.nodes[m].prev
               /\ behind.nodes[m].is_ref = before.nodes[m].is_ref
               /\ behind.nodes[m].str = before.nodes[m].str
      BY <1>3, <3>1, <3>2, SetPrev
    <3> QED BY <1>3, <3>3
  <2> QED BY <2>1, <2>2
<1>8. c \in cells
  OBVIOUS
<1>9. h.nodes[c].next = x /\ h.nodes[c].prev = y /\ x # c /\ y # c
  OBVIOUS
<1> HIDE DEF x, y, node
<1>10. /\ HeapType(own) /\ DOMAIN own.nodes = cells /\ own.strings = h.strings
       /\ \A m \in cells :
            /\ own.nodes[m].child = behind.nodes[m].child
            /\ own.nodes[m].next = IF m = c THEN Nil ELSE behind.nodes[m].next
            /\ own.nodes[m].prev = behind.nodes[m].prev
            /\ own.nodes[m].is_ref = behind.nodes[m].is_ref
            /\ own.nodes[m].str = behind.nodes[m].str
  <2>1. c \in DOMAIN behind.nodes /\ Nil \in DOMAIN behind.nodes \cup {Nil}
    BY <1>7
  <2> HIDE DEF cells
  <2>2. /\ HeapType(own) /\ DOMAIN own.nodes = DOMAIN behind.nodes /\ own.strings = behind.strings
        /\ \A m \in DOMAIN behind.nodes :
             /\ own.nodes[m].child = behind.nodes[m].child
             /\ own.nodes[m].next = IF m = c THEN Nil ELSE behind.nodes[m].next
             /\ own.nodes[m].prev = behind.nodes[m].prev
             /\ own.nodes[m].is_ref = behind.nodes[m].is_ref
             /\ own.nodes[m].str = behind.nodes[m].str
    BY <1>5, <1>7, <2>1, SetNext
  <2> QED BY <1>7, <2>2
<1>11. /\ HeapType(g) /\ DOMAIN g.nodes = cells /\ g.strings = h.strings
       /\ \A m \in cells :
            /\ g.nodes[m].child = own.nodes[m].child
            /\ g.nodes[m].next = own.nodes[m].next
            /\ g.nodes[m].prev = IF m = c THEN Nil ELSE own.nodes[m].prev
            /\ g.nodes[m].is_ref = own.nodes[m].is_ref
            /\ g.nodes[m].str = own.nodes[m].str
  <2>1. c \in DOMAIN own.nodes /\ Nil \in DOMAIN own.nodes \cup {Nil}
    BY <1>10
  <2> HIDE DEF cells
  <2>2. /\ HeapType(g) /\ DOMAIN g.nodes = DOMAIN own.nodes /\ g.strings = own.strings
        /\ \A m \in DOMAIN own.nodes :
             /\ g.nodes[m].child = own.nodes[m].child
             /\ g.nodes[m].next = own.nodes[m].next
             /\ g.nodes[m].prev = IF m = c THEN Nil ELSE own.nodes[m].prev
             /\ g.nodes[m].is_ref = own.nodes[m].is_ref
             /\ g.nodes[m].str = own.nodes[m].str
    BY <1>1, <1>10, <2>1, SetPrev
  <2> QED BY <1>10, <2>2
<1>12. CutOut(h, g, array, c)
  <2> HIDE DEF cells
  <2>1. \A m \in cells :
          /\ g.nodes[m].child = IF m = array /\ y = Nil THEN x ELSE h.nodes[m].child
          /\ g.nodes[m].next = IF m = c THEN Nil ELSE IF m = y THEN x ELSE h.nodes[m].next
          /\ g.nodes[m].prev = IF m = c THEN Nil ELSE IF m = x THEN y ELSE h.nodes[m].prev
          /\ g.nodes[m].is_ref = h.nodes[m].is_ref
          /\ g.nodes[m].str = h.nodes[m].str
    BY <1>3, <1>7, <1>10, <1>11
  <2> QED BY <1>9, <2>1 DEF CutOut, cells
<1> QED BY <1>11, <1>12

LEMMA UnlinkIs ==
  ASSUME NEW h, NEW R, Good(h, R), NEW array \in DOMAIN h.nodes, ~h.nodes[array].is_ref,
         NEW c \in DOMAIN h.nodes,
         h.nodes[array].child = c \/ \E p \in DOMAIN h.nodes : h.nodes[p].next = c
  PROVE  /\ Good(Unlink(h, array, c), R \cup {c}) /\ c \notin R
         /\ DOMAIN Unlink(h, array, c).nodes = DOMAIN h.nodes
         /\ \A m \in DOMAIN h.nodes : /\ Unlink(h, array, c).nodes[m].is_ref = h.nodes[m].is_ref
                                      /\ Unlink(h, array, c).nodes[m].str = h.nodes[m].str
<1> SUFFICES ASSUME NEW g, g = Unlink(h, array, c)
             PROVE  /\ Good(g, R \cup {c}) /\ c \notin R /\ DOMAIN g.nodes = DOMAIN h.nodes
                    /\ \A m \in DOMAIN h.nodes : /\ g.nodes[m].is_ref = h.nodes[m].is_ref
                                                 /\ g.nodes[m].str = h.nodes[m].str
  OBVIOUS
<1> DEFINE x == h.nodes[c].next
           y == h.nodes[c].prev
<1>1. HeapType(h) /\ Forest(Pointers(h), R) /\ DOMAIN Pointers(h) = DOMAIN h.nodes /\ Linked(h)
  BY PointersOf DEF Good
<1>2. /\ Nil \notin DOMAIN h.nodes /\ x \in DOMAIN h.nodes \cup {Nil} /\ y \in DOMAIN h.nodes \cup {Nil}
      /\ \A m \in DOMAIN h.nodes : /\ Owned(h.nodes[m]) \in DOMAIN h.nodes \cup {Nil}
                                   /\ h.nodes[m].next \in DOMAIN h.nodes \cup {Nil}
                                   /\ h.nodes[m].prev \in DOMAIN h.nodes \cup {Nil}
  BY <1>1, NilNoCell, NodeType
<1>3. PICK p \in DOMAIN h.nodes : /\ OwnedBy(h, array, c, p) /\ p # c
                                  /\ c \in Pointers(h)[p] /\ c \notin R
  BY OwnerIs
<1>4. \A m \in DOMAIN h.nodes : m # p => h.nodes[m].next # c /\ Owned(h.nodes[m]) # c
  BY <1>1, <1>2, <1>3, PointersOf DEF Forest
<1>5. x # c /\ Owned(h.nodes[c]) # c
  BY <1>3, <1>4
<1>6. y # c /\ (array # c \/ y # Nil)
  <2>1. y # Nil => h.nodes[y].next = c
    BY <1>2 DEF Linked, Good
  <2> QED BY <1>2, <1>3, <1>5, <2>1 DEF OwnedBy
<1>7. /\ HeapType(g) /\ DOMAIN g.nodes = DOMAIN h.nodes /\ g.strings = h.strings
      /\ CutOut(h, g, array, c)
  BY <1>5, <1>6, UnlinkFields
<1>8. \A m \in DOMAIN h.nodes : g.nodes[m].is_ref = h.nodes[m].is_ref /\ g.nodes[m].str = h.nodes[m].str
  BY <1>7 DEF CutOut
(* What p pointed to instead of c.                                         *)
<1>9. \/ /\ y = Nil /\ p = array /\ Owned(h.nodes[p]) = c /\ h.nodes[p].next # c
         /\ Owned(g.nodes[p]) = x /\ g.nodes[p].next = h.nodes[p].next
      \/ /\ y = p /\ h.nodes[p].next = c /\ Owned(h.nodes[p]) # c
         /\ g.nodes[p].next = x /\ Owned(g.nodes[p]) = Owned(h.nodes[p])
  <2>1. h.nodes[p].next = c => Owned(h.nodes[p]) # c
    BY <1>2 DEF Good
  <2>2. CASE p = array /\ h.nodes[array].child = c /\ y = Nil
    <3>1. Owned(h.nodes[p]) = c
      BY <2>2 DEF Owned
    <3>2. Owned(g.nodes[p]) = x /\ g.nodes[p].next = h.nodes[p].next
      BY <1>2, <1>3, <1>7, <1>8, <2>2 DEF CutOut, Owned
    <3> QED BY <2>1, <2>2, <3>1, <3>2
  <2>3. CASE p = y /\ h.nodes[p].next = c /\ p # Nil
    <3>1. g.nodes[p].next = x /\ Owned(g.nodes[p]) = Owned(h.nodes[p])
      BY <1>3, <1>7, <1>8, <2>3 DEF CutOut, Owned
    <3> QED BY <2>1, <2>3, <3>1
  <2> QED BY <1>3, <2>2, <2>3 DEF OwnedBy
<1>10. Owned(g.nodes[c]) = Owned(h.nodes[c]) /\ g.nodes[c].next = Nil
  BY <1>6, <1>7, <1>8 DEF CutOut, Owned
<1>11. ASSUME NEW m \in DOMAIN h.nodes, m # c, m # p
       PROVE  Owned(g.nodes[m]) = Owned(h.nodes[m]) /\ g.nodes[m].next = h.nodes[m].next
  <2>1. ~(m = array /\ y = Nil) /\ m # y
    BY <1>2, <1>9, <1>11
  <2> QED BY <1>7, <1>8, <1>11, <2>1 DEF CutOut, Owned
<1> DEFINE M == {x} \ {Nil}
<1>12. /\ M \in SUBSET Pointers(h)[c] /\ \A a, b \in M : a = b
       /\ \A a : a \in Pointers(h)[c] /\ a \notin M <=> a # Nil /\ a = Owned(h.nodes[c])
  <2>1. Owned(h.nodes[c]) = x => x = Nil
    BY DEF Good
  <2> QED BY <2>1, PointersOf
<1>13. \A q \in DOMAIN h.nodes :
         Pointers(g)[q] = IF q = p THEN (Pointers(h)[p] \ {c}) \cup M
                          ELSE IF q = c THEN Pointers(h)[c] \ M ELSE Pointers(h)[q]
  <2> SUFFICES ASSUME NEW q \in DOMAIN h.nodes
               PROVE  Pointers(g)[q] = IF q = p THEN (Pointers(h)[p] \ {c}) \cup M
                                       ELSE IF q = c THEN Pointers(h)[c] \ M ELSE Pointers(h)[q]
    OBVIOUS
  <2>1. \A a : a \in Pointers(h)[q] <=> a # Nil /\ (a = Owned(h.nodes[q]) \/ a = h.nodes[q].next)
    BY PointersOf
  <2>2. \A a : a \in Pointers(g)[q] <=> a # Nil /\ (a = Owned(g.nodes[q]) \/ a = g.nodes[q].next)
    BY <1>7, PointersOf
  <2> HIDE DEF x, y
  <2>3. CASE q # p /\ q # c
    BY <1>11, <2>1, <2>2, <2>3
  <2>4. CASE q = p
    BY <1>2, <1>9, <2>1, <2>2, <2>4
  <2>5. CASE q = c
    <3>1. \A a : a \in Pointers(g)[q] <=> a \in Pointers(h)[c] /\ a \notin M
      BY <1>10, <1>12, <2>2, <2>5
    <3> QED BY <1>3, <2>5, <3>1
  <2> QED BY <2>3, <2>4, <2>5
<1>14. Forest(Pointers(g), R \cup {c})
  <2>1. DOMAIN Pointers(g) = DOMAIN Pointers(h)
    BY <1>1, <1>7, PointersOf
  <2>2. c \in DOMAIN Pointers(h) \ R /\ p \in DOMAIN Pointers(h)
    BY <1>1, <1>3
  <2>3. \A q \in DOMAIN Pointers(h) :
          Pointers(g)[q] = IF q = p THEN (Pointers(h)[p] \ {c}) \cup M
                           ELSE IF q = c THEN Pointers(h)[c] \ M ELSE Pointers(h)[q]
    BY <1>1, <1>13
  <2> HIDE DEF M
  <2> QED BY ONLY <1>1, <1>3, <1>12, <2>1, <2>2, <2>3, ForestCut
<1>15. \A r \in R \cup {c} : g.nodes[r].next = Nil
  <2> SUFFICES ASSUME NEW r \in R, r # c PROVE g.nodes[r].next = Nil
    BY <1>10
  <2>1. r \in DOMAIN h.nodes /\ h.nodes[r].next = Nil
    BY RootIs
  <2>2. CASE r = p
    BY <1>2, <1>9, <2>1, <2>2
  <2> QED BY <1>11, <2>1, <2>2
<1>16. \A m \in DOMAIN g.nodes : Owned(g.nodes[m]) = g.nodes[m].next => g.nodes[m].next = Nil
  <2> SUFFICES ASSUME NEW m \in DOMAIN h.nodes, Owned(g.nodes[m]) = g.nodes[m].next
               PROVE  g.nodes[m].next = Nil
    BY <1>7
  <2>1. CASE m = c
    BY <1>10, <2>1
  <2>2. CASE m = p
    <3>1. \A a \in Pointers(h)[p] : a \notin Pointers(h)[c]
      BY <1>1, <1>3 DEF Forest
    <3>2. x # Nil => x \in Pointers(h)[c]
      BY PointersOf
    <3>3. /\ h.nodes[p].next # Nil => h.nodes[p].next \in Pointers(h)[p]
          /\ Owned(h.nodes[p]) # Nil => Owned(h.nodes[p]) \in Pointers(h)[p]
      BY PointersOf
    <3> HIDE DEF x
    <3> QED BY <1>9, <2>2, <3>1, <3>2, <3>3
  <2>3. CASE m # c /\ m # p
    BY <1>11, <2>3 DEF Good
  <2> QED BY <2>1, <2>2, <2>3
<1>17. Linked(g)
  <2> SUFFICES ASSUME NEW m \in DOMAIN h.nodes
               PROVE  /\ g.nodes[m].next # Nil => g.nodes[g.nodes[m].next].prev = m
                      /\ g.nodes[m].prev # Nil => g.nodes[g.nodes[m].prev].next = m
    BY <1>7 DEF Linked
  <2>1. \A q \in DOMAIN h.nodes : /\ h.nodes[q].next # Nil => h.nodes[h.nodes[q].next].prev = q
                                  /\ h.nodes[q].prev # Nil => h.nodes[h.nodes[q].prev].next = q
    BY <1>1 DEF Linked
  <2>2. \A q \in DOMAIN h.nodes :
          /\ g.nodes[q].next = IF q = c THEN Nil ELSE IF q = y THEN x ELSE h.nodes[q].next
          /\ g.nodes[q].prev = IF q = c THEN Nil ELSE IF q = x THEN y ELSE h.nodes[q].prev
    BY <1>7 DEF CutOut
  <2>3. CASE m = c
    BY <2>2, <2>3
  <2>4. CASE m # c
    <3>1. ASSUME g.nodes[m].next # Nil PROVE g.nodes[g.nodes[m].next].prev = m
      <4>1. CASE m = y
        BY <1>2, <1>5, <2>2, <2>4, <3>1, <4>1
      <4>2. CASE m # y
        <5>1. g.nodes[m].next = h.nodes[m].next /\ h.nodes[m].next \in DOMAIN h.nodes
          BY <1>2, <2>2, <2>4, <3>1, <4>2
        <5>2. h.nodes[m].next # c /\ h.nodes[m].next # x
          BY <2>1, <2>4, <3>1, <4>2, <5>1
        <5> QED BY <2>1, <2>2, <3>1, <5>1, <5>2
      <4> QED BY <4>1, <4>2
    <3>2. ASSUME g.nodes[m].prev # Nil PROVE g.nodes[g.nodes[m].prev].next = m
      <4>1. CASE m = x
        BY <1>2, <1>6, <2>2, <2>4, <3>2, <4>1
      <4>2. CASE m # x
        <5>1. g.nodes[m].prev = h.nodes[m].prev /\ h.nodes[m].prev \in DOMAIN h.nodes
          BY <1>2, <2>2, <2>4, <3>2, <4>2
        <5>2. h.nodes[m].prev # c /\ h.nodes[m].prev # y
          BY <2>1, <2>4, <3>2, <4>2, <5>1
        <5> QED BY <2>1, <2>2, <3>2, <5>1, <5>2
      <4> QED BY <4>1, <4>2
    <3> QED BY <3>1, <3>2
  <2> QED BY <2>3, <2>4
<1>18. StringsHeld(g)
  BY <1>7, <1>8 DEF StringsHeld, Good
<1>19. Good(g, R \cup {c})
  BY <1>7, <1>14, <1>15, <1>16, <1>17, <1>18 DEF Good
<1> QED BY <1>3, <1>7, <1>8, <1>19

LEMMA DeleteItemIs ==
  ASSUME NEW h, NEW R, Good(h, R), NoRefs(h), NEW array \in R, NEW index \in Nat
  PROVE  /\ Good(cJSON_DeleteItemFromArray(h, array, index), R)
         /\ NoRefs(cJSON_DeleteItemFromArray(h, array, index))
         /\ \A r \in R : cJSON_DeleteItemFromArray(h, array, index).nodes[r].str = h.nodes[r].str
<1> DEFINE c == cJSON_GetArrayItem(h, array, index)
           g == Unlink(h, array, c)
<1>1. array \in DOMAIN h.nodes /\ array # Nil /\ HeapType(h) /\ ~h.nodes[array].is_ref
  BY RootIs DEF Good, NoRefs
<1>2. /\ c \in DOMAIN h.nodes \cup {Nil}
      /\ c # Nil => h.nodes[array].child = c \/ \E p \in DOMAIN h.nodes : h.nodes[p].next = c
  BY <1>1, ArrayItemIs
<1>3. CASE c = Nil
  <2>1. cJSON_DeleteItemFromArray(h, array, index) = h
    BY <1>3 DEF cJSON_DeleteItemFromArray
  <2> QED BY <2>1
<1>4. CASE c # Nil
  <2>1. cJSON_DeleteItemFromArray(h, array, index) = cJSON_Delete(g, c)
    BY <1>4 DEF cJSON_DeleteItemFromArray
  <2> HIDE DEF c
  <2>2. /\ Good(g, R \cup {c}) /\ c \notin R /\ DOMAIN g.nodes = DOMAIN h.nodes
        /\ \A m \in DOMAIN h.nodes : g.nodes[m].is_ref = h.nodes[m].is_ref /\ g.nodes[m].str = h.nodes[m].str
    BY <1>1, <1>2, <1>4, UnlinkIs
  <2> HIDE DEF g
  <2>3. NoRefs(g) /\ c \in R \cup {c} /\ (R \cup {c}) \ {c} = R
    BY <2>2 DEF NoRefs
  <2>4. \A n \in DOMAIN g.nodes : g.nodes[n].is_ref => n \in Reached(Pointers(g), c)
    BY <2>3 DEF NoRefs
  <2>5. /\ Good(cJSON_Delete(g, c), (R \cup {c}) \ {c}) /\ NoRefs(cJSON_Delete(g, c))
        /\ \A n \in DOMAIN cJSON_Delete(g, c).nodes :
             n \in DOMAIN g.nodes /\ cJSON_Delete(g, c).nodes[n] = g.nodes[n]
    BY <2>2, <2>3, <2>4, DeleteIs
  <2>6. Good(cJSON_Delete(g, c), R)
    BY <2>3, <2>5
  <2>7. ASSUME NEW r \in R PROVE cJSON_Delete(g, c).nodes[r].str = h.nodes[r].str
    <3>1. r \in DOMAIN cJSON_Delete(g, c).nodes
      BY <2>6, RootIs
    <3>2. r \in DOMAIN h.nodes
      BY RootIs
    <3> QED BY <2>2, <2>5, <3>1, <3>2
  <2> QED BY <2>1, <2>5, <2>6, <2>7
<1> QED BY <1>3, <1>4

(* Neither the string nor the children of a cell lead to another.          *)
LEMMA SetValuestringIs ==
  ASSUME NEW h, NEW R, Good(h, R), NEW item \in DOMAIN h.nodes, h.nodes[item].str # Nil
  PROVE  /\ Good(cJSON_SetValuestring(h, item), R)
         /\ DOMAIN cJSON_SetValuestring(h, item).nodes = DOMAIN h.nodes
         /\ \A n \in DOMAIN h.nodes :
              /\ cJSON_SetValuestring(h, item).nodes[n].is_ref = h.nodes[n].is_ref
              /\ n # item => cJSON_SetValuestring(h, item).nodes[n].str = h.nodes[n].str
<1> SUFFICES ASSUME NEW g, g = cJSON_SetValuestring(h, item)
             PROVE  /\ Good(g, R) /\ DOMAIN g.nodes = DOMAIN h.nodes
                    /\ \A n \in DOMAIN h.nodes : /\ g.nodes[n].is_ref = h.nodes[n].is_ref
                                                 /\ n # item => g.nodes[n].str = h.nodes[n].str
  OBVIOUS
<1> DEFINE kept == h.strings \ {h.nodes[item].str}
           s == NewCell(kept)
           nodes == [h.nodes EXCEPT ![item] = [@ EXCEPT !.str = s]]
           strings == kept \cup {s}
<1>1. HeapType(h) /\ h.nodes[item] \in Node(h) /\ h.nodes[item].str \in h.strings
  BY NodeType DEF Good
<1>2. IsFiniteSet(kept) /\ kept \subseteq Nat \ {0}
  BY <1>1, FS_Subset DEF HeapType
<1>3. s \in Nat \ {0} /\ s \notin kept /\ s # Nil
  BY <1>2, NewCellIs, NilAssumption
<1>4. g = [nodes |-> nodes, strings |-> strings, sound |-> TRUE]
  <2>1. h \in [nodes : {h.nodes}, strings : {h.strings}, sound : {TRUE}]
    BY <1>1 DEF HeapType
  <2>2. g = [h EXCEPT !.nodes = nodes, !.strings = strings,
                      !.sound = @ /\ h.nodes[item].str \in h.strings]
    BY DEF cJSON_SetValuestring
  <2> HIDE DEF nodes, strings
  <2>3. (h.sound /\ h.nodes[item].str \in h.strings) = TRUE
    BY <1>1, <2>1
  <2> QED BY <2>1, <2>2, <2>3
<1>5. DOMAIN nodes = DOMAIN h.nodes /\ nodes[item] = [h.nodes[item] EXCEPT !.str = s]
      /\ \A m \in DOMAIN h.nodes : m # item => nodes[m] = h.nodes[m]
  BY DEF HeapType
<1>6. nodes = [m \in DOMAIN h.nodes |-> nodes[m]]
  BY DEF HeapType
<1>7. strings = kept \cup {s} /\ kept = h.strings \ {h.nodes[item].str}
  OBVIOUS
<1> HIDE DEF nodes, strings, s, kept
<1>8. \A m \in DOMAIN h.nodes :
        /\ nodes[m].child = h.nodes[m].child /\ nodes[m].next = h.nodes[m].next
        /\ nodes[m].prev = h.nodes[m].prev /\ nodes[m].is_ref = h.nodes[m].is_ref
        /\ nodes[m].str = IF m = item THEN s ELSE h.nodes[m].str
  BY <1>1, <1>5 DEF Node
<1>9. \A l, m \in DOMAIN h.nodes : l # m /\ h.nodes[l].str = h.nodes[m].str => h.nodes[l].str = Nil
  BY DEF Good, StringsHeld
<1>10. \A m \in DOMAIN h.nodes : m # item => h.nodes[m].str \in kept \cup {Nil}
  <2> TAKE m \in DOMAIN h.nodes
  <2>1. h.nodes[m].str \in h.strings \cup {Nil}
    BY <1>1, NodeType
  <2> QED BY <1>7, <1>9, <2>1
<1>11. ASSUME NEW m \in DOMAIN h.nodes
       PROVE  nodes[m] \in [child : DOMAIN h.nodes \cup {Nil}, next : DOMAIN h.nodes \cup {Nil},
                            prev : DOMAIN h.nodes \cup {Nil}, is_ref : BOOLEAN, str : strings \cup {Nil}]
  <2>1. h.nodes[m] \in Node(h)
    BY <1>1, NodeType
  <2>2. CASE m = item
    BY <1>5, <1>7, <2>1, <2>2 DEF Node
  <2>3. CASE m # item
    BY <1>5, <1>7, <1>10, <2>1, <2>3 DEF Node
  <2> QED BY <2>2, <2>3
<1>12. HeapType(g)
  <2>1. nodes \in [DOMAIN h.nodes -> [child : DOMAIN h.nodes \cup {Nil}, next : DOMAIN h.nodes \cup {Nil},
                        prev : DOMAIN h.nodes \cup {Nil}, is_ref : BOOLEAN, str : strings \cup {Nil}]]
    BY <1>6, <1>11
  <2>2. IsFiniteSet(strings) /\ strings \subseteq Nat \ {0}
    BY <1>2, <1>3, <1>7, FS_AddElement
  <2>3. IsFiniteSet(DOMAIN h.nodes) /\ DOMAIN h.nodes \subseteq Nat \ {0}
    BY <1>1 DEF HeapType
  <2> QED BY <1>4, <2>1, <2>2, <2>3, HeapTypeBy
<1>13. g.nodes = nodes /\ g.strings = strings
  BY <1>4
<1>14. Pointers(g) = Pointers(h)
  BY <1>5, <1>8, <1>13 DEF Pointers, Owned
<1>15. \A r \in R : g.nodes[r].next = Nil
  <2> TAKE r \in R
  <2>1. r \in DOMAIN h.nodes /\ h.nodes[r].next = Nil
    BY RootIs
  <2> QED BY <1>8, <1>13, <2>1
<1>16. \A n \in DOMAIN g.nodes : Owned(g.nodes[n]) = g.nodes[n].next => g.nodes[n].next = Nil
  BY <1>5, <1>8, <1>13 DEF Good, Owned
<1>17. Linked(g)
  <2> SUFFICES ASSUME NEW m \in DOMAIN h.nodes
               PROVE  /\ nodes[m].next # Nil => nodes[nodes[m].next].prev = m
                      /\ nodes[m].prev # Nil => nodes[nodes[m].prev].next = m
    BY <1>5, <1>13 DEF Linked
  <2>1. h.nodes[m].next \in DOMAIN h.nodes \cup {Nil} /\ h.nodes[m].prev \in DOMAIN h.nodes \cup {Nil}
    BY <1>1, NodeType
  <2> QED BY <1>8, <2>1 DEF Good, Linked
<1>18. StringsHeld(g)
  <2>1. ASSUME NEW t \in strings PROVE \E n \in DOMAIN nodes : nodes[n].str = t
    <3>1. CASE t = s
      BY <1>5, <1>8, <3>1
    <3>2. CASE t # s
      <4>1. t \in h.strings /\ t # h.nodes[item].str
        BY <1>7, <3>2
      <4>2. PICK n \in DOMAIN h.nodes : h.nodes[n].str = t
        BY <4>1 DEF Good, StringsHeld
      <4> QED BY <1>5, <1>8, <4>1, <4>2
    <3> QED BY <3>1, <3>2
  <2>2. \A l, m \in DOMAIN nodes : l # m /\ nodes[l].str = nodes[m].str => nodes[l].str = Nil
    BY <1>3, <1>5, <1>8, <1>9, <1>10
  <2> QED BY <1>13, <2>1, <2>2 DEF StringsHeld
<1>19. Forest(Pointers(g), R)
  BY <1>14 DEF Good
<1>20. Good(g, R)
  BY <1>12, <1>15, <1>16, <1>17, <1>18, <1>19 DEF Good
<1> QED BY <1>5, <1>8, <1>13, <1>20

(* The references are below a cell, so they go when it is deleted.         *)
Below(h, top, n) ==
  \A S \in SUBSET DOMAIN h.nodes : Closed(Pointers(h), S) /\ top \in S => n \in S

RefsBelow(h, top) == \A n \in DOMAIN h.nodes : h.nodes[n].is_ref => Below(h, top, n)

LEMMA KeptBelow ==
  ASSUME NEW h, NEW R, Good(h, R), NEW g, Kept(h, g), NEW top \in DOMAIN h.nodes,
         NEW n \in DOMAIN h.nodes, Below(h, top, n)
  PROVE  Below(g, top, n)
<1> SUFFICES ASSUME NEW S \in SUBSET DOMAIN g.nodes, Closed(Pointers(g), S), top \in S
             PROVE  n \in S
  BY DEF Below
<1> DEFINE T == S \cap DOMAIN h.nodes
<1>1. DOMAIN Pointers(h) = DOMAIN h.nodes /\ Graph(Pointers(h))
  BY PointersOf DEF Good, Forest
<1>2. Closed(Pointers(h), T)
  BY <1>1 DEF Closed, Graph, Kept
<1>3. T \in SUBSET DOMAIN h.nodes /\ top \in T
  OBVIOUS
<1> QED BY <1>2, <1>3 DEF Below

LEMMA GrownBelow ==
  ASSUME NEW h, NEW R, Good(h, R), NEW g, Grown(h, g), NEW top \in DOMAIN h.nodes, RefsBelow(h, top)
  PROVE  RefsBelow(g, top)
<1> SUFFICES ASSUME NEW n \in DOMAIN g.nodes, g.nodes[n].is_ref PROVE Below(g, top, n)
  BY DEF RefsBelow
<1>1. n \in DOMAIN h.nodes /\ h.nodes[n].is_ref
  BY DEF Grown, Kept
<1>2. Below(h, top, n)
  BY <1>1 DEF RefsBelow
<1> QED BY <1>1, <1>2, KeptBelow DEF Grown

LEMMA BelowReached ==
  ASSUME NEW h, NEW R, Good(h, R), NEW top \in R, RefsBelow(h, top)
  PROVE  \A n \in DOMAIN h.nodes : h.nodes[n].is_ref => n \in Reached(Pointers(h), top)
<1>1. Forest(Pointers(h), R) /\ DOMAIN Pointers(h) = DOMAIN h.nodes
  BY PointersOf DEF Good
<1>2. /\ top \in Reached(Pointers(h), top) /\ Reached(Pointers(h), top) \in SUBSET DOMAIN h.nodes
      /\ Closed(Pointers(h), Reached(Pointers(h), top))
  BY <1>1, ForestReached
<1> QED BY <1>2 DEF RefsBelow, Below

(* What it refers to does not matter: a delete does not follow it.         *)
LEMMA AddRefIs ==
  ASSUME NEW h, NEW R, Good(h, R), NEW object \in R, ~h.nodes[object].is_ref, RefsBelow(h, object),
         NEW item \in DOMAIN h.nodes, h.nodes[item].str = Nil
  PROVE  /\ Good(AddItemReference(h, object, item), R) /\ Kept(h, AddItemReference(h, object, item))
         /\ RefsBelow(AddItemReference(h, object, item), object)
<1> DEFINE ref == NewNode(h)
           new == cj_new(h, FALSE)
           it == h.nodes[item]
           nodes == [new.nodes EXCEPT ![ref] = [@ EXCEPT !.is_ref = TRUE, !.child = it.child, !.str = it.str]]
           mid == [new EXCEPT !.nodes = nodes]
           g == cj_append_child(mid, object, ref)
<1>1. g = AddItemReference(h, object, item)
  BY DEF AddItemReference
<1>2. /\ ref \notin DOMAIN h.nodes /\ DOMAIN new.nodes = DOMAIN h.nodes \cup {ref}
      /\ new.nodes[ref].next = Nil /\ new.nodes[ref].child = Nil /\ new.nodes[ref].is_ref = FALSE
      /\ new.nodes[ref].str = Nil
      /\ Good(new, R \cup {ref}) /\ Grown(h, new)
      /\ \A m \in DOMAIN h.nodes : new.nodes[m] = h.nodes[m]
  BY NewIs
<1>3. HeapType(h) /\ it.child \in DOMAIN h.nodes \cup {Nil} /\ it.str = Nil
  BY NodeType DEF Good
<1>4. g = cj_append_child(mid, object, ref) /\ mid = [new EXCEPT !.nodes = nodes]
      /\ nodes = [new.nodes EXCEPT ![ref] = [@ EXCEPT !.is_ref = TRUE, !.child = it.child, !.str = it.str]]
  OBVIOUS
<1> HIDE DEF ref, new, it, nodes, mid, g
<1>5. HeapType(new) /\ new.nodes[ref] \in Node(new) /\ ref \in DOMAIN new.nodes
  BY <1>2, NodeType DEF Good
<1>6. DOMAIN nodes = DOMAIN new.nodes /\ \A m \in DOMAIN new.nodes : m # ref => nodes[m] = new.nodes[m]
  BY <1>4, <1>5 DEF HeapType
<1>7. /\ nodes[ref].is_ref = TRUE /\ nodes[ref].child = it.child /\ nodes[ref].str = Nil
      /\ nodes[ref].next = Nil /\ nodes[ref].prev = new.nodes[ref].prev
      /\ nodes[ref] \in Node(new)
  <2>1. nodes[ref] = [new.nodes[ref] EXCEPT !.is_ref = TRUE, !.child = it.child, !.str = it.str]
    BY <1>4, <1>5 DEF HeapType
  <2>2. it.child \in DOMAIN new.nodes \cup {Nil}
    BY <1>2, <1>3
  <2> QED BY <1>2, <1>3, <1>5, <2>1, <2>2 DEF Node
<1>8. mid = [nodes |-> nodes, strings |-> new.strings, sound |-> TRUE]
  <2>1. new \in [nodes : {new.nodes}, strings : {new.strings}, sound : {TRUE}]
    BY <1>5 DEF HeapType
  <2> QED BY <1>4, <2>1
<1>9. mid.nodes = nodes /\ mid.strings = new.strings
  BY <1>8
<1>10. HeapType(mid)
  <2>1. nodes = [m \in DOMAIN new.nodes |-> nodes[m]]
    BY <1>4, <1>5, <1>6 DEF HeapType
  <2>2. \A m \in DOMAIN new.nodes : nodes[m] \in Node(new)
    BY <1>5, <1>6, <1>7, NodeType
  <2>3. nodes \in [DOMAIN new.nodes -> Node(new)]
    BY <2>1, <2>2
  <2>4. /\ IsFiniteSet(DOMAIN new.nodes) /\ DOMAIN new.nodes \subseteq Nat \ {0}
        /\ IsFiniteSet(new.strings) /\ new.strings \subseteq Nat \ {0}
    BY <1>5 DEF HeapType
  <2> QED BY <1>8, <2>3, <2>4, HeapTypeBy DEF Node
<1>11. \A m \in DOMAIN new.nodes :
         /\ Owned(nodes[m]) = Owned(new.nodes[m]) /\ nodes[m].next = new.nodes[m].next
         /\ nodes[m].prev = new.nodes[m].prev /\ nodes[m].str = new.nodes[m].str
         /\ m # ref => nodes[m].is_ref = new.nodes[m].is_ref
  BY <1>2, <1>6, <1>7 DEF Owned
<1>12. Pointers(mid) = Pointers(new)
  BY <1>6, <1>9, <1>11 DEF Pointers
<1>13. Good(mid, R \cup {ref})
  <2>1. Forest(Pointers(mid), R \cup {ref}) /\ R \cup {ref} \subseteq DOMAIN new.nodes
    BY <1>2, <1>12, PointersOf DEF Good, Forest
  <2>2. \A r \in R \cup {ref} : mid.nodes[r].next = Nil
    BY <1>2, <1>9, <1>11, <2>1 DEF Good
  <2>3. \A n \in DOMAIN mid.nodes : Owned(mid.nodes[n]) = mid.nodes[n].next => mid.nodes[n].next = Nil
    BY <1>2, <1>6, <1>9, <1>11 DEF Good
  <2>4. Linked(mid)
    <3> SUFFICES ASSUME NEW m \in DOMAIN new.nodes
                 PROVE  /\ nodes[m].next # Nil => nodes[nodes[m].next].prev = m
                        /\ nodes[m].prev # Nil => nodes[nodes[m].prev].next = m
      BY <1>6, <1>9 DEF Linked
    <3>1. /\ new.nodes[m].next \in DOMAIN new.nodes \cup {Nil}
          /\ new.nodes[m].prev \in DOMAIN new.nodes \cup {Nil}
      BY <1>5, NodeType
    <3> QED BY <1>2, <1>11, <3>1 DEF Good, Linked
  <2>5. StringsHeld(mid)
    BY <1>2, <1>6, <1>9, <1>11 DEF Good, StringsHeld
  <2> QED BY <1>10, <2>1, <2>2, <2>3, <2>4, <2>5 DEF Good
<1>14. Pointers(mid)[ref] = {}
  BY <1>2, <1>5, <1>12 DEF Pointers, Owned
<1>15. object \in DOMAIN h.nodes /\ object # ref /\ (R \cup {ref}) \ {ref} = R
  <2>1. \A r \in R : r \in DOMAIN h.nodes
    BY RootIs
  <2> QED BY <1>2, <2>1
<1>16. object \in DOMAIN mid.nodes /\ ~mid.nodes[object].is_ref
  BY <1>2, <1>6, <1>9, <1>15
<1>17. object \notin Reached(Pointers(mid), ref)
  <2>1. IsFiniteSet(DOMAIN Pointers(mid)) /\ ref \in DOMAIN Pointers(mid)
    BY <1>5, <1>6, <1>9, <1>10, PointersOf DEF HeapType
  <2> QED BY <1>14, <1>15, <2>1, ReachedAlone
<1>18. /\ Good(g, R) /\ Grown(mid, g) /\ DOMAIN g.nodes = DOMAIN mid.nodes
       /\ \A S \in SUBSET DOMAIN g.nodes : Closed(Pointers(g), S) /\ object \in S => ref \in S
  <2>1. ref \in R \cup {ref}
    OBVIOUS
  <2>2. /\ Good(cj_append_child(mid, object, ref), (R \cup {ref}) \ {ref})
        /\ Grown(mid, cj_append_child(mid, object, ref))
        /\ DOMAIN cj_append_child(mid, object, ref).nodes = DOMAIN mid.nodes
        /\ \A S \in SUBSET DOMAIN cj_append_child(mid, object, ref).nodes :
             Closed(Pointers(cj_append_child(mid, object, ref)), S) /\ object \in S => ref \in S
    BY ONLY <1>13, <1>16, <1>17, <2>1, AppendIs
  <2> QED BY <1>4, <1>15, <2>2
<1>19. Kept(h, mid)
  <2>1. \A n \in DOMAIN h.nodes : n \in DOMAIN mid.nodes /\ mid.nodes[n] = h.nodes[n]
    BY <1>2, <1>6, <1>9
  <2> QED BY <1>2, <1>12, <2>1 DEF Kept, Grown
<1>20. Kept(h, g)
  BY <1>18, <1>19 DEF Kept, Grown
<1>21. RefsBelow(g, object)
  <2> SUFFICES ASSUME NEW n \in DOMAIN g.nodes, g.nodes[n].is_ref PROVE Below(g, object, n)
    BY DEF RefsBelow
  <2>1. CASE n = ref
    BY <1>18, <2>1 DEF Below
  <2>2. CASE n # ref
    <3>1. n \in DOMAIN h.nodes /\ h.nodes[n].is_ref
      <4>1. n \in DOMAIN mid.nodes /\ mid.nodes[n].is_ref
        BY <1>18 DEF Grown, Kept
      <4> QED BY <1>2, <1>6, <1>9, <2>2, <4>1
    <3>2. Below(h, object, n)
      BY <3>1 DEF RefsBelow
    <3> QED BY <1>15, <1>20, <3>1, <3>2, KeptBelow
  <2> QED BY <2>1, <2>2
<1> QED BY <1>1, <1>18, <1>20, <1>21

-----------------------------------------------------------------------------
(* What main.c makes of them is in order when what it starts from is.      *)

Holder(h, n) == n \in DOMAIN h.nodes /\ ~h.nodes[n].is_ref

(* g is h with more below what was there.                                  *)
Made(h, g, R) == Good(g, R) /\ Grown(h, g)

(* g is h with a tree of its own.                                          *)
RootMade(h, g, R) ==
  /\ Good(g, R \cup {NewNode(h)}) /\ Grown(h, g) /\ Holder(g, NewNode(h))
  /\ g.nodes[NewNode(h)].str = Nil
  /\ NewNode(h) \notin DOMAIN h.nodes /\ NewNode(h) # Nil

LEMMA MadeTwice ==
  ASSUME NEW f, NEW g, NEW h, NEW R, Made(f, g, R), Made(g, h, R)
  PROVE  Made(f, h, R)
BY GrownTwice DEF Made

LEMMA HolderKept ==
  ASSUME NEW h, NEW g, NEW R, NEW n, Holder(h, n), Made(h, g, R)
  PROVE  Holder(g, n)
BY DEF Holder, Made, Grown, Kept

LEMMA AddMade ==
  ASSUME NEW h, NEW R, Good(h, R), NEW p, Holder(h, p), NEW str \in BOOLEAN
  PROVE  Made(h, Add(h, p, str), R) /\ Holder(Add(h, p, str), NewNode(h))
BY AddIs DEF Made, Holder

LEMMA AddStringsMade ==
  ASSUME NEW h, NEW R, Good(h, R), NEW p, Holder(h, p), NEW n
  PROVE  Made(h, AddStrings(h, p, n), R)
<1> DEFINE one == Add(h, p, TRUE)
           two == Add(one, p, TRUE)
           three == Add(two, p, TRUE)
<1>1. Made(h, one, R)
  BY AddMade
<1>2. one = Add(h, p, TRUE) /\ two = Add(one, p, TRUE) /\ three = Add(two, p, TRUE)
  OBVIOUS
<1>3. AddStrings(h, p, n) = IF n = 2 THEN two ELSE three
  BY DEF AddStrings
<1> HIDE DEF one, two, three
<1>4. Made(one, two, R)
  <2>1. Good(one, R) /\ Holder(one, p)
    BY <1>1, HolderKept DEF Made
  <2> QED BY <1>2, <2>1, AddMade
<1>5. Made(two, three, R)
  <2>1. Good(two, R) /\ Holder(two, p)
    BY <1>1, <1>4, HolderKept DEF Made
  <2> QED BY <1>2, <2>1, AddMade
<1>6. Made(h, two, R)
  BY <1>1, <1>4, MadeTwice
<1> QED BY <1>3, <1>5, <1>6, MadeTwice

LEMMA AddBlockMade ==
  ASSUME NEW h, NEW R, Good(h, R), NEW array, Holder(h, array), NEW kind
  PROVE  Made(h, AddBlock(h, array, kind), R)
<1> DEFINE obj == NewNode(h)
           object == Add(h, array, FALSE)
           n == IF kind = "text" THEN 2 ELSE 3
           strings == AddStrings(object, obj, n)
           input == Add(strings, obj, FALSE)
           member == Add(input, NewNode(strings), TRUE)
<1>1. Made(h, object, R) /\ Holder(object, obj)
  BY AddMade
<1>2. /\ strings = AddStrings(object, obj, n) /\ input = Add(strings, obj, FALSE)
      /\ member = Add(input, NewNode(strings), TRUE)
  OBVIOUS
<1>3. AddBlock(h, array, kind) =
        IF kind \in {"text", "tool_result"} THEN strings ELSE IF kind = "no_input" THEN input ELSE member
  BY DEF AddBlock
<1> HIDE DEF obj, object, strings, input, member, n
<1>4. Made(object, strings, R)
  <2>1. Made(object, AddStrings(object, obj, n), R)
    BY <1>1, AddStringsMade DEF Made
  <2> QED BY <1>2, <2>1
<1>5. Good(strings, R) /\ Holder(strings, obj)
  BY <1>1, <1>4, HolderKept DEF Made
<1>6. Made(strings, input, R) /\ Holder(input, NewNode(strings))
  BY <1>2, <1>5, AddMade
<1>7. Made(input, member, R)
  BY <1>2, <1>6, AddMade DEF Made
<1>8. Made(h, strings, R)
  BY <1>1, <1>4, MadeTwice
<1>9. Made(h, input, R)
  BY <1>6, <1>8, MadeTwice
<1>10. Made(h, member, R)
  BY <1>7, <1>9, MadeTwice
<1> QED BY <1>3, <1>8, <1>9, <1>10

BlocksOf(h, array, kinds, f, m) ==
  f = [k \in 0..m |-> IF k = 0 THEN h ELSE AddBlock(f[k - 1], array, kinds[k])]

LEMMA BlocksExist ==
  ASSUME NEW h, NEW array, NEW kinds, NEW m \in Nat
  PROVE  \E f : BlocksOf(h, array, kinds, f, m)
<1> DEFINE Adds(f, j) == f[0] = h /\ \A k \in 1..j : f[k] = AddBlock(f[k - 1], array, kinds[k])
           Some(j) == \E f : f = [k \in 0..j |-> f[k]] /\ Adds(f, j)
           G == {j \in Nat : Some(j)}
<1>1. Some(0)
  <2> DEFINE f == [k \in 0..0 |-> h]
  <2>1. f = [k \in 0..0 |-> f[k]] /\ f[0] = h
    OBVIOUS
  <2> HIDE DEF f
  <2> QED BY <2>1
<1>2. ASSUME NEW j \in G PROVE j + 1 \in G
  <2>1. PICK f : f = [k \in 0..j |-> f[k]] /\ Adds(f, j)
    OBVIOUS
  <2> DEFINE last == AddBlock(f[j], array, kinds[j + 1])
             g == [k \in 0..(j + 1) |-> IF k = j + 1 THEN last ELSE f[k]]
  <2> HIDE DEF last
  <2>2. j \in Nat /\ \A k \in 0..j : g[k] = f[k]
    OBVIOUS
  <2>3. g[j + 1] = last /\ g = [k \in 0..(j + 1) |-> g[k]]
    OBVIOUS
  <2> HIDE DEF g
  <2>4. g[0] = h
    BY <2>1, <2>2
  <2>5. ASSUME NEW k \in 1..(j + 1) PROVE g[k] = AddBlock(g[k - 1], array, kinds[k])
    <3>1. CASE k = j + 1
      <4>1. k - 1 = j /\ j \in 0..j
        BY <2>2, <3>1
      <4>2. g[k - 1] = f[j] /\ g[k] = last
        BY <2>2, <2>3, <3>1, <4>1
      <4> QED BY <3>1, <4>2 DEF last
    <3>2. CASE k # j + 1
      <4>1. k \in 1..j /\ k \in 0..j /\ k - 1 \in 0..j
        BY <2>2, <3>2
      <4>2. f[k] = AddBlock(f[k - 1], array, kinds[k])
        BY <2>1, <4>1
      <4>3. g[k] = f[k] /\ g[k - 1] = f[k - 1]
        BY <2>2, <4>1
      <4> QED BY <4>2, <4>3
    <3> QED BY <3>1, <3>2
  <2>6. Adds(g, j + 1)
    BY <2>4, <2>5
  <2>7. Some(j + 1)
    <3> HIDE DEF Adds
    <3> QED BY <2>3, <2>6
  <2> HIDE DEF Some
  <2> QED BY <2>2, <2>7
<1> HIDE DEF Some
<1>3. G = Nat
  <2>1. G \in SUBSET Nat /\ 0 \in G
    BY <1>1
  <2> HIDE DEF G
  <2> QED BY <1>2, <2>1, SetInduction
<1>4. Some(m)
  <2>1. m \in G
    BY <1>3
  <2> QED BY <2>1
<1>5. PICK f : f = [k \in 0..m |-> f[k]] /\ Adds(f, m)
  BY <1>4 DEF Some
<1>6. \A k \in 0..m : f[k] = IF k = 0 THEN h ELSE AddBlock(f[k - 1], array, kinds[k])
  <2> TAKE k \in 0..m
  <2>1. k # 0 => k \in 1..m
    OBVIOUS
  <2> QED BY <1>5, <2>1
<1>7. f = [k \in 0..m |-> IF k = 0 THEN h ELSE AddBlock(f[k - 1], array, kinds[k])]
  BY <1>5, <1>6
<1> QED BY <1>7 DEF BlocksOf

LEMMA AddBlocksMade ==
  ASSUME NEW h, NEW R, Good(h, R), NEW array, Holder(h, array), NEW kinds, Len(kinds) \in Nat
  PROVE  Made(h, AddBlocks(h, array, kinds), R)
<1> SUFFICES ASSUME NEW m \in Nat, m = Len(kinds) PROVE Made(h, AddBlocks(h, array, kinds), R)
  OBVIOUS
<1> DEFINE f == CHOOSE f : f = [k \in 0..m |-> IF k = 0 THEN h ELSE AddBlock(f[k - 1], array, kinds[k])]
<1>1. AddBlocks(h, array, kinds) = f[m]
  BY DEF AddBlocks
<1>2. f = [k \in 0..m |-> IF k = 0 THEN h ELSE AddBlock(f[k - 1], array, kinds[k])]
  <2>1. \E g : BlocksOf(h, array, kinds, g, m)
    BY BlocksExist
  <2> QED BY <2>1 DEF BlocksOf
<1> HIDE DEF f
<1> DEFINE G == {k \in Nat : k <= m => Made(h, f[k], R)}
<1>3. 0 \in G
  <2>1. f[0] = h
    BY <1>2
  <2> QED BY <2>1, GrownOnce DEF Made
<1>4. ASSUME NEW k \in G PROVE k + 1 \in G
  <2> SUFFICES ASSUME k + 1 <= m PROVE Made(h, f[k + 1], R)
    OBVIOUS
  <2>1. k + 1 \in 0..m /\ k + 1 # 0 /\ (k + 1) - 1 = k
    OBVIOUS
  <2>2. f[k + 1] = AddBlock(f[k], array, kinds[k + 1])
    BY <1>2, <2>1
  <2>3. Made(h, f[k], R)
    OBVIOUS
  <2>4. Good(f[k], R) /\ Holder(f[k], array)
    BY <2>3, HolderKept DEF Made
  <2>5. Made(f[k], f[k + 1], R)
    BY <2>2, <2>4, AddBlockMade
  <2> QED BY <2>3, <2>5, MadeTwice
<1>5. G = Nat
  <2>1. G \in SUBSET Nat
    OBVIOUS
  <2> HIDE DEF G
  <2> QED BY <1>3, <1>4, <2>1, SetInduction
<1>6. Made(h, f[m], R)
  BY <1>5
<1> QED BY <1>1, <1>6

LEMMA NewMade ==
  ASSUME NEW h, NEW R, Good(h, R)
  PROVE  RootMade(h, cj_new(h, FALSE), R)
<1> DEFINE n == NewNode(h)
           g == cj_new(h, FALSE)
<1>1. /\ n \notin DOMAIN h.nodes /\ n # Nil /\ DOMAIN g.nodes = DOMAIN h.nodes \cup {n}
      /\ g.nodes[n].is_ref = FALSE /\ g.nodes[n].str = Nil /\ Good(g, R \cup {n}) /\ Grown(h, g)
  BY NewIs
<1> HIDE DEF n, g
<1>2. Holder(g, n)
  BY <1>1 DEF Holder
<1> QED BY <1>1, <1>2 DEF RootMade, n, g

LEMMA RootGrows ==
  ASSUME NEW h, NEW g, NEW k, NEW R, RootMade(h, g, R), Made(g, k, R \cup {NewNode(h)})
  PROVE  RootMade(h, k, R)
<1>1. Holder(k, NewNode(h)) /\ Grown(h, k)
  BY HolderKept, GrownTwice DEF RootMade, Made
<1>2. k.nodes[NewNode(h)].str = Nil
  BY DEF RootMade, Made, Holder, Grown, Kept
<1> QED BY <1>1, <1>2 DEF RootMade, Made

LEMMA ContentMade ==
  ASSUME NEW h, NEW R, Good(h, R), NEW kinds, Len(kinds) \in Nat
  PROVE  RootMade(h, Content(h, kinds), R)
<1> DEFINE new == cj_new(h, FALSE)
<1>1. RootMade(h, new, R)
  BY NewMade
<1>2. Content(h, kinds) = AddBlocks(new, NewNode(h), kinds)
  BY DEF Content
<1> HIDE DEF new
<1>3. Made(new, AddBlocks(new, NewNode(h), kinds), R \cup {NewNode(h)})
  BY <1>1, AddBlocksMade DEF RootMade
<1> QED BY <1>1, <1>2, <1>3, RootGrows

LEMMA ObjectMade ==
  ASSUME NEW h, NEW R, Good(h, R)
  PROVE  RootMade(h, Object(h), R)
<1> DEFINE new == cj_new(h, FALSE)
<1>1. RootMade(h, new, R)
  BY NewMade
<1>2. Object(h) = Add(new, NewNode(h), TRUE)
  BY DEF Object
<1> HIDE DEF new
<1>3. Made(new, Add(new, NewNode(h), TRUE), R \cup {NewNode(h)})
  BY <1>1, AddMade DEF RootMade
<1> QED BY <1>1, <1>2, <1>3, RootGrows

LEMMA MakeMessageMade ==
  ASSUME NEW h, NEW R, Good(h, R), NEW kinds, Len(kinds) \in Nat
  PROVE  RootMade(h, MakeMessage(h, kinds), R)
<1> DEFINE role == Object(h)
           content == Add(role, NewNode(h), FALSE)
<1>1. RootMade(h, role, R)
  BY ObjectMade
<1>2. MakeMessage(h, kinds) = AddBlocks(content, NewNode(role), kinds)
  BY DEF MakeMessage, Object
<1>3. content = Add(role, NewNode(h), FALSE)
  OBVIOUS
<1> HIDE DEF role, content
<1>4. Made(role, content, R \cup {NewNode(h)}) /\ Holder(content, NewNode(role))
  BY <1>1, <1>3, AddMade DEF RootMade
<1>5. Made(content, AddBlocks(content, NewNode(role), kinds), R \cup {NewNode(h)})
  BY <1>4, AddBlocksMade DEF Made
<1>6. RootMade(h, content, R)
  BY <1>1, <1>4, RootGrows
<1> QED BY <1>2, <1>5, <1>6, RootGrows

(* A tree of its own is hung into one that was there, or deleted.          *)
LEMMA RootHung ==
  ASSUME NEW h, NEW g, NEW R, Good(h, R), RootMade(h, g, R), NEW parent \in R, Holder(h, parent)
  PROVE  Made(h, cj_append_child(g, parent, NewNode(h)), R)
<1>1. /\ parent \in R \cup {NewNode(h)} /\ NewNode(h) \in R \cup {NewNode(h)} /\ NewNode(h) # parent
      /\ (R \cup {NewNode(h)}) \ {NewNode(h)} = R
  <2>1. \A r \in R : r \in DOMAIN h.nodes
    BY RootIs
  <2> QED BY <2>1 DEF RootMade
<1>2. Good(g, R \cup {NewNode(h)}) /\ ~g.nodes[parent].is_ref
  BY DEF RootMade, Grown, Kept, Holder
<1>3. Good(cj_append_child(g, parent, NewNode(h)), R) /\ Grown(g, cj_append_child(g, parent, NewNode(h)))
  BY <1>1, <1>2, HangIs
<1> QED BY <1>3, GrownTwice DEF Made, RootMade

LEMMA NoRefsGrown ==
  ASSUME NEW h, NEW g, Grown(h, g), NoRefs(h)
  PROVE  NoRefs(g)
BY DEF NoRefs, Grown, Kept

(* Without references a delete leaves the other roots as they are.         *)
LEMMA RootDeleted ==
  ASSUME NEW h, NEW R, Good(h, R), NoRefs(h), NEW item \in R
  PROVE  /\ Good(cJSON_Delete(h, item), R \ {item}) /\ NoRefs(cJSON_Delete(h, item))
         /\ \A r \in R \ {item} : cJSON_Delete(h, item).nodes[r].str = h.nodes[r].str
<1>1. /\ Good(cJSON_Delete(h, item), R \ {item}) /\ NoRefs(cJSON_Delete(h, item))
      /\ \A n \in DOMAIN cJSON_Delete(h, item).nodes :
           n \in DOMAIN h.nodes /\ cJSON_Delete(h, item).nodes[n] = h.nodes[n]
  BY DeleteIs DEF NoRefs
<1>2. \A r \in R \ {item} : r \in DOMAIN cJSON_Delete(h, item).nodes
  BY <1>1, RootIs
<1> QED BY <1>1, <1>2

LEMMA MadeDeleted ==
  ASSUME NEW h, NEW g, NEW R, Good(h, R), NoRefs(h), RootMade(h, g, R)
  PROVE  /\ Good(cJSON_Delete(g, NewNode(h)), R) /\ NoRefs(cJSON_Delete(g, NewNode(h)))
         /\ \A r \in R : cJSON_Delete(g, NewNode(h)).nodes[r].str = h.nodes[r].str
<1>1. \A r \in R : r \in DOMAIN h.nodes
  BY RootIs
<1>2. NoRefs(g) /\ Good(g, R \cup {NewNode(h)}) /\ (R \cup {NewNode(h)}) \ {NewNode(h)} = R
  BY <1>1, NoRefsGrown DEF RootMade
<1>3. /\ Good(cJSON_Delete(g, NewNode(h)), (R \cup {NewNode(h)}) \ {NewNode(h)})
      /\ NoRefs(cJSON_Delete(g, NewNode(h)))
      /\ \A r \in (R \cup {NewNode(h)}) \ {NewNode(h)} :
           cJSON_Delete(g, NewNode(h)).nodes[r].str = g.nodes[r].str
  <2>1. NewNode(h) \in R \cup {NewNode(h)}
    OBVIOUS
  <2> QED BY ONLY <1>2, <2>1, RootDeleted
<1>4. \A r \in R : g.nodes[r].str = h.nodes[r].str
  BY <1>1 DEF RootMade, Grown, Kept
<1> QED BY <1>2, <1>3, <1>4

-----------------------------------------------------------------------------
(* What the program holds at each step.                                    *)
Roots == {list, tools, local} \ {Nil}

Held ==
  /\ at \in {"load", "pruned", "prompt", "top", "printed", "answer", "discard", "said", "tools",
             "results", "answered", "gone"}
  /\ list # Nil <=> at # "gone"
  /\ tools # Nil <=> at \notin {"load", "pruned", "gone"}
  /\ local # Nil <=> at \in {"printed", "discard", "said", "tools", "answered"}
  /\ list # Nil => list # tools /\ list # local
  /\ tools # Nil => tools # local

(* A reference takes over the string of what it refers to: there is none.  *)
NoString == \A r \in {list, tools} \ {Nil} : heap.nodes[r].str = Nil

(* References live from MakeRequest to DeleteRequest.                      *)
Refs == /\ at # "printed" => NoRefs(heap)
        /\ at = "printed" => RefsBelow(heap, local)

HeapInv == Held /\ Good(heap, Roots) /\ NoString /\ Refs

LEMMA RootsAre ==
  ASSUME HeapInv
  PROVE  /\ Good(heap, Roots) /\ Roots \subseteq DOMAIN heap.nodes
         /\ list # Nil => list \in Roots /\ heap.nodes[list].str = Nil
         /\ tools # Nil => tools \in Roots /\ heap.nodes[tools].str = Nil
         /\ local # Nil => local \in Roots
         /\ at # "printed" => NoRefs(heap) /\ \A r \in Roots : Holder(heap, r)
<1>1. Good(heap, Roots)
  BY DEF HeapInv
<1>2. Roots \subseteq DOMAIN heap.nodes
  BY <1>1, RootIs
<1>3. at # "printed" => NoRefs(heap)
  BY DEF HeapInv, Refs
<1> QED BY <1>1, <1>2, <1>3 DEF HeapInv, NoString, Roots, Holder, NoRefs

(* A step that keeps the roots.                                            *)
LEMMA RootsKept ==
  ASSUME HeapInv, Held', UNCHANGED <<list, tools, local>>, at' # "printed",
         Good(heap', Roots), NoRefs(heap'), \A r \in Roots : heap'.nodes[r].str = heap.nodes[r].str
  PROVE  HeapInv'
<1>1. Roots' = Roots
  BY DEF Roots
<1>2. NoString'
  BY DEF HeapInv, NoString, Roots
<1>3. Refs'
  BY DEF Refs
<1> QED BY <1>1, <1>2, <1>3 DEF HeapInv

LEMMA RootsMade ==
  ASSUME HeapInv, Held', UNCHANGED <<list, tools, local>>, at # "printed", at' # "printed",
         Made(heap, heap', Roots)
  PROVE  HeapInv'
<1>1. NoRefs(heap) /\ Roots \subseteq DOMAIN heap.nodes
  BY RootsAre
<1>2. NoRefs(heap')
  BY <1>1, NoRefsGrown DEF Made
<1>3. \A r \in Roots : heap'.nodes[r].str = heap.nodes[r].str
  BY <1>1 DEF Made, Grown, Kept
<1> QED BY <1>2, <1>3, RootsKept DEF Made

LEMMA InitInv ==
  ASSUME TreeInit
  PROVE  HeapInv
<1> DEFINE n == NewNode(NoTree)
<1>1. NoTree.nodes = [c \in {} |-> Nil] /\ NoTree.strings = {} /\ DOMAIN NoTree.nodes = {}
  BY DEF NoTree
<1>2. HeapType(NoTree)
  <2>1. NoTree = [nodes |-> NoTree.nodes, strings |-> NoTree.strings, sound |-> TRUE]
    BY DEF NoTree
  <2>2. IsFiniteSet({}) /\ {} \subseteq Nat \ {0}
    BY FS_EmptySet
  <2>3. NoTree.nodes \in [{} -> [child : {} \cup {Nil}, next : {} \cup {Nil}, prev : {} \cup {Nil},
                                 is_ref : BOOLEAN, str : {} \cup {Nil}]]
    BY <1>1
  <2> QED BY <1>1, <2>1, <2>2, <2>3, HeapTypeBy
<1>3. Forest(Pointers(NoTree), {})
  <2>1. DOMAIN Pointers(NoTree) = {} /\ IsFiniteSet({})
    BY <1>1, PointersOf, FS_EmptySet
  <2> QED BY <2>1 DEF Forest, Graph, Anchored
<1>4. Good(NoTree, {})
  BY <1>1, <1>2, <1>3 DEF Good, Linked, StringsHeld
<1>5. RootMade(NoTree, heap, {})
  <2>1. RootMade(NoTree, cj_new(NoTree, FALSE), {})
    BY <1>4, NewMade
  <2> QED BY <2>1 DEF TreeInit
<1>6. list = n /\ tools = Nil /\ local = Nil /\ at = "load"
  BY DEF TreeInit
<1>7. n # Nil /\ Good(heap, {n}) /\ heap.nodes[n].str = Nil /\ Grown(NoTree, heap)
  BY <1>5 DEF RootMade
<1>8. Roots = {n}
  BY <1>6, <1>7 DEF Roots
<1>9. Held
  BY <1>6, <1>7 DEF Held
<1>10. NoRefs(heap)
  BY <1>1, <1>7, NoRefsGrown DEF NoRefs
<1>11. NoString
  BY <1>6, <1>7 DEF NoString
<1>12. Refs
  BY <1>6, <1>10 DEF Refs
<1> QED BY <1>7, <1>8, <1>9, <1>11, <1>12 DEF HeapInv

LEMMA LinesAre ==
  /\ \A line \in Lines : Len(line) \in Nat
  /\ \A blocks \in Answers : Len(blocks) \in Nat
BY LinesAssumption, AnswersAssumption

LEMMA LoadLineInv ==
  ASSUME HeapInv, LoadLine
  PROVE  HeapInv'
<1> DEFINE H(line) == MakeMessage(heap, line)
<1>1. PICK line \in Lines : \/ Become(cj_append_child(H(line), list, NewNode(heap)), "load")
                            \/ Become(cJSON_Delete(H(line), NewNode(heap)), "load")
  BY DEF LoadLine
<1>2. at = "load" /\ at' = "load" /\ UNCHANGED <<list, tools, local>> /\ Held' /\ list # Nil
  BY <1>1 DEF LoadLine, Become, HeapInv, Held
<1>3. Good(heap, Roots) /\ NoRefs(heap) /\ list \in Roots /\ Holder(heap, list)
  BY <1>2, RootsAre
<1>4. RootMade(heap, H(line), Roots)
  BY <1>3, LinesAre, MakeMessageMade
<1>5. CASE heap' = cj_append_child(H(line), list, NewNode(heap))
  <2> HIDE DEF H
  <2>1. Made(heap, heap', Roots)
    BY <1>3, <1>4, <1>5, RootHung
  <2> QED BY <1>2, <2>1, RootsMade
<1>6. CASE heap' = cJSON_Delete(H(line), NewNode(heap))
  <2> HIDE DEF H
  <2>1. /\ Good(heap', Roots) /\ NoRefs(heap')
        /\ \A r \in Roots : heap'.nodes[r].str = heap.nodes[r].str
    BY <1>3, <1>4, <1>6, MadeDeleted
  <2> QED BY <1>2, <2>1, RootsKept
<1> QED BY <1>1, <1>5, <1>6 DEF Become

LEMMA SizeIs == ASSUME NEW h PROVE Size(h) \in Nat /\ \A i \in 0..(Size(h) - 1) : i \in Nat
<1>1. IsFiniteSet(0..MaxMessages)
  BY MessagesAssumption, FS_Interval
<1>2. IsFiniteSet({i \in 0..MaxMessages : cJSON_GetArrayItem(h, list, i) # Nil})
  BY <1>1, FS_Subset
<1>3. Size(h) \in Nat
  BY <1>2, FS_CardinalityType DEF Size
<1> QED BY <1>3

LEMMA PruneInv ==
  ASSUME HeapInv, Prune
  PROVE  HeapInv'
<1> DEFINE Cut(h, i) == cJSON_DeleteItemFromArray(h, list, i)
<1>1. PICK i \in 0..(Size(heap) - 1) :
        heap' = Cut(heap, i) \/ heap' = Cut(Cut(heap, i), i)
  BY DEF Prune, Become
<1>2. at \in {"load", "pruned"} /\ at' = "pruned" /\ UNCHANGED <<list, tools, local>> /\ Held' /\ list # Nil
  BY DEF Prune, Become, HeapInv, Held
<1>3. Good(heap, Roots) /\ NoRefs(heap) /\ list \in Roots /\ i \in Nat
  BY <1>2, RootsAre, SizeIs
<1>4. /\ Good(Cut(heap, i), Roots) /\ NoRefs(Cut(heap, i))
      /\ \A r \in Roots : Cut(heap, i).nodes[r].str = heap.nodes[r].str
  BY <1>3, DeleteItemIs
<1>5. CASE heap' = Cut(heap, i)
  BY <1>2, <1>4, <1>5, RootsKept
<1>6. CASE heap' = Cut(Cut(heap, i), i)
  <2> DEFINE g == Cut(heap, i)
  <2>1. Good(g, Roots) /\ NoRefs(g)
    BY <1>4
  <2>2. heap' = cJSON_DeleteItemFromArray(g, list, i)
    BY <1>6
  <2>3. \A r \in Roots : g.nodes[r].str = heap.nodes[r].str
    BY <1>4
  <2> HIDE DEF g
  <2>4. /\ Good(heap', Roots) /\ NoRefs(heap')
        /\ \A r \in Roots : heap'.nodes[r].str = g.nodes[r].str
    BY <1>3, <2>1, <2>2, DeleteItemIs
  <2> QED BY <1>2, <2>3, <2>4, RootsKept
<1> QED BY <1>1, <1>5, <1>6

(* A tree of its own becomes one of the program's.                         *)
LEMMA RootTaken ==
  ASSUME HeapInv, NEW g, RootMade(heap, g, Roots)
  PROVE  /\ NewNode(heap) \notin Roots /\ NewNode(heap) # Nil /\ NewNode(heap) # list
         /\ NewNode(heap) # tools /\ NewNode(heap) # local
         /\ \A r \in Roots : g.nodes[r].str = heap.nodes[r].str
         /\ at # "printed" => NoRefs(g)
<1>1. Roots \subseteq DOMAIN heap.nodes /\ NewNode(heap) \notin DOMAIN heap.nodes /\ NewNode(heap) # Nil
  BY RootsAre DEF RootMade
<1>2. \A r \in Roots : g.nodes[r].str = heap.nodes[r].str
  BY <1>1 DEF RootMade, Grown, Kept
<1>3. at # "printed" => NoRefs(g)
  BY RootsAre, NoRefsGrown DEF RootMade
<1> QED BY <1>1, <1>2, <1>3 DEF Roots

LEMMA ToolMade ==
  ASSUME NEW h, NEW R, Good(h, R), NEW p, Holder(h, p)
  PROVE  Made(h, AddStrings(Add(h, p, FALSE), NewNode(h), 2), R)
<1> DEFINE g == Add(h, p, FALSE)
<1>1. Made(h, g, R) /\ Holder(g, NewNode(h))
  BY AddMade
<1> HIDE DEF g
<1>2. Made(g, AddStrings(g, NewNode(h), 2), R)
  BY <1>1, AddStringsMade DEF Made
<1>3. Made(h, AddStrings(g, NewNode(h), 2), R)
  BY <1>1, <1>2, MadeTwice
<1> QED BY <1>3 DEF g

LEMMA MakeToolsInv ==
  ASSUME HeapInv, MakeTools
  PROVE  HeapInv'
<1> DEFINE n == NewNode(heap)
           Tool(h) == AddStrings(Add(h, n, FALSE), NewNode(h), 2)
           new == cj_new(heap, FALSE)
           one == Tool(new)
           two == Tool(one)
           all == Tool(two)
<1>1. heap' = all /\ at' = "prompt" /\ at \in {"load", "pruned"} /\ tools' = n /\ UNCHANGED <<list, local>>
  BY DEF MakeTools, Become
<1>2. Good(heap, Roots) /\ tools = Nil /\ local = Nil /\ list # Nil /\ list \in Roots
  BY <1>1, RootsAre DEF HeapInv, Held
<1>3. RootMade(heap, new, Roots)
  BY <1>2, NewMade
<1>4. one = Tool(new) /\ two = Tool(one) /\ all = Tool(two)
  OBVIOUS
<1> HIDE DEF new, one, two, all
<1> DEFINE Step(g, k) == Made(g, k, Roots \cup {n})
<1>5. ASSUME NEW g, RootMade(heap, g, Roots) PROVE RootMade(heap, Tool(g), Roots)
  <2>1. Good(g, Roots \cup {n}) /\ Holder(g, n)
    BY <1>5 DEF RootMade
  <2> HIDE DEF n
  <2>2. Made(g, Tool(g), Roots \cup {n})
    BY <2>1, ToolMade
  <2> HIDE DEF Tool
  <2> QED BY <1>5, <2>2, RootGrows DEF n
<1> HIDE DEF Tool
<1>6. RootMade(heap, all, Roots)
  <2>1. RootMade(heap, one, Roots)
    BY <1>3, <1>4, <1>5
  <2>2. RootMade(heap, two, Roots)
    BY <1>4, <1>5, <2>1
  <2> QED BY <1>4, <1>5, <2>2
<1>7. RootMade(heap, heap', Roots)
  BY <1>1, <1>6
<1>8. n \notin Roots /\ n # Nil /\ n # list /\ NoRefs(heap')
      /\ \A r \in Roots : heap'.nodes[r].str = heap.nodes[r].str
  BY <1>1, <1>7, RootTaken
<1>9. Roots' = Roots \cup {n}
  BY <1>1, <1>2, <1>8 DEF Roots
<1>10. Good(heap', Roots') /\ heap'.nodes[n].str = Nil
  BY <1>7, <1>9 DEF RootMade
<1> HIDE DEF n
<1>11. Held'
  BY <1>1, <1>2, <1>8 DEF HeapInv, Held
<1>12. NoString'
  BY <1>1, <1>2, <1>8, <1>10 DEF HeapInv, NoString
<1>13. Refs'
  BY <1>1, <1>8 DEF Refs
<1> QED BY <1>10, <1>11, <1>12, <1>13 DEF HeapInv

LEMMA PromptInv ==
  ASSUME HeapInv, Prompt
  PROVE  HeapInv'
<1> DEFINE msg == MakeMessage(heap, <<"text">>)
<1>1. heap' = cj_append_child(msg, list, NewNode(heap)) /\ at = "prompt" /\ at' = "top"
      /\ UNCHANGED <<list, tools, local>>
  BY DEF Prompt, Become
<1>2. Held' /\ list # Nil
  BY <1>1 DEF HeapInv, Held
<1>3. Good(heap, Roots) /\ list \in Roots /\ Holder(heap, list)
  BY <1>1, <1>2, RootsAre
<1>4. Len(<<"text">>) \in Nat
  OBVIOUS
<1>5. RootMade(heap, msg, Roots)
  BY <1>3, <1>4, MakeMessageMade
<1> HIDE DEF msg
<1>6. Made(heap, heap', Roots)
  BY <1>1, <1>3, <1>5, RootHung
<1> QED BY <1>1, <1>2, <1>6, RootsMade

LEMMA InterruptedInv ==
  ASSUME HeapInv, Interrupted
  PROVE  HeapInv'
<1>1. heap' = heap /\ at = "top" /\ at' = "prompt" /\ UNCHANGED <<list, tools, local>>
  BY DEF Interrupted, Become
<1>2. Held'
  BY <1>1 DEF HeapInv, Held
<1>3. Made(heap, heap', Roots)
  BY <1>1, RootsAre, GrownOnce DEF Made
<1> QED BY <1>1, <1>2, <1>3, RootsMade

LEMMA MakeRequestInv ==
  ASSUME HeapInv, MakeRequest
  PROVE  HeapInv'
<1> DEFINE req == NewNode(heap)
           new == cj_new(heap, FALSE)
           model == Add(new, req, TRUE)
           max == Add(model, req, FALSE)
           system == Add(max, req, TRUE)
           one == AddItemReference(system, req, list)
           two == AddItemReference(one, req, tools)
           R == Roots \cup {req}
<1>1. heap' = Add(two, req, FALSE) /\ at = "top" /\ at' = "printed" /\ local' = req
      /\ UNCHANGED <<list, tools>>
  BY DEF MakeRequest, Become
<1>2. Good(heap, Roots) /\ local = Nil /\ list \in Roots /\ tools \in Roots /\ list # Nil /\ tools # Nil
      /\ heap.nodes[list].str = Nil /\ heap.nodes[tools].str = Nil
  BY <1>1, RootsAre DEF HeapInv, Held
<1>3. /\ new = cj_new(heap, FALSE) /\ model = Add(new, req, TRUE) /\ max = Add(model, req, FALSE)
      /\ system = Add(max, req, TRUE) /\ one = AddItemReference(system, req, list)
      /\ two = AddItemReference(one, req, tools)
  OBVIOUS
<1> HIDE DEF new, model, max, system, one, two
<1>4. RootMade(heap, new, Roots)
  BY <1>2, <1>3, NewMade
<1>5. ASSUME NEW g, RootMade(heap, g, Roots), NEW str \in BOOLEAN
      PROVE  RootMade(heap, Add(g, req, str), Roots)
  <2>1. Made(g, Add(g, req, str), R)
    BY <1>5, AddMade DEF RootMade
  <2> QED BY <1>5, <2>1, RootGrows
<1>6. RootMade(heap, system, Roots)
  <2>1. RootMade(heap, model, Roots)
    BY <1>3, <1>4, <1>5
  <2>2. RootMade(heap, max, Roots)
    BY <1>3, <1>5, <2>1
  <2> QED BY <1>3, <1>5, <2>2
<1>7. /\ req \notin Roots /\ req # Nil /\ req # list /\ req # tools /\ NoRefs(system)
      /\ \A r \in Roots : system.nodes[r].str = heap.nodes[r].str
  BY <1>1, <1>6, RootTaken
<1>8. Good(system, R) /\ Holder(system, req)
  BY <1>6 DEF RootMade
<1> DEFINE Holds(g) == /\ Good(g, R) /\ Holder(g, req) /\ RefsBelow(g, req)
                       /\ list \in DOMAIN g.nodes /\ g.nodes[list].str = Nil
                       /\ tools \in DOMAIN g.nodes /\ g.nodes[tools].str = Nil
<1> HIDE DEF req
<1>9. Holds(system)
  <2>1. list \in DOMAIN system.nodes /\ tools \in DOMAIN system.nodes
    BY <1>2, <1>8, RootIs
  <2> QED BY <1>2, <1>7, <1>8, <2>1 DEF RefsBelow, NoRefs
<1>10. ASSUME NEW g, Holds(g), NEW item \in {list, tools} PROVE Holds(AddItemReference(g, req, item))
  <2>1. item \in DOMAIN g.nodes /\ g.nodes[item].str = Nil /\ req \in R /\ ~g.nodes[req].is_ref
        /\ req \in DOMAIN g.nodes
    BY <1>10 DEF Holder
  <2>2. /\ Good(AddItemReference(g, req, item), R) /\ Kept(g, AddItemReference(g, req, item))
        /\ RefsBelow(AddItemReference(g, req, item), req)
    BY <1>10, <2>1, AddRefIs
  <2> QED BY <1>10, <2>1, <2>2 DEF Kept, Holder
<1>11. Holds(two)
  <2> HIDE DEF Holds
  <2>1. Holds(one)
    BY <1>3, <1>9, <1>10
  <2> QED BY <1>3, <1>10, <2>1
<1>12. Made(two, heap', R)
  BY <1>1, <1>11, AddMade
<1>13. RefsBelow(heap', req)
  BY <1>11, <1>12, GrownBelow DEF Made, Holder
<1>14. heap'.nodes[list].str = Nil /\ heap'.nodes[tools].str = Nil /\ Good(heap', R)
  BY <1>11, <1>12 DEF Made, Grown, Kept
<1>15. Roots' = R
  BY <1>1, <1>2, <1>7 DEF Roots
<1> HIDE DEF R
<1>16. Held'
  BY <1>1, <1>2, <1>7 DEF HeapInv, Held
<1>17. NoString'
  BY <1>1, <1>14 DEF NoString
<1>18. Refs'
  BY <1>1, <1>13 DEF Refs
<1> QED BY <1>14, <1>15, <1>16, <1>17, <1>18 DEF HeapInv

LEMMA DeleteRequestInv ==
  ASSUME HeapInv, DeleteRequest
  PROVE  HeapInv'
<1>1. heap' = cJSON_Delete(heap, local) /\ at = "printed" /\ at' = "answer" /\ local' = Nil
      /\ UNCHANGED <<list, tools>>
  BY DEF DeleteRequest, Become
<1>2. Good(heap, Roots) /\ local \in Roots /\ RefsBelow(heap, local)
      /\ list # local /\ tools # local /\ list # Nil /\ tools # Nil
  BY <1>1, RootsAre DEF HeapInv, Held, Refs
<1>3. \A n \in DOMAIN heap.nodes : heap.nodes[n].is_ref => n \in Reached(Pointers(heap), local)
  BY <1>2, BelowReached
<1>4. /\ Good(heap', Roots \ {local}) /\ NoRefs(heap')
      /\ \A n \in DOMAIN heap'.nodes : n \in DOMAIN heap.nodes /\ heap'.nodes[n] = heap.nodes[n]
  BY <1>1, <1>2, <1>3, DeleteIs
<1>5. Roots' = Roots \ {local} /\ list \in Roots' /\ tools \in Roots'
  BY <1>1, <1>2 DEF Roots
<1>6. list \in DOMAIN heap'.nodes /\ tools \in DOMAIN heap'.nodes
  BY <1>4, <1>5, RootIs
<1>7. Held'
  BY <1>1, <1>2 DEF HeapInv, Held
<1>8. NoString'
  BY <1>1, <1>4, <1>6, RootsAre DEF NoString
<1>9. Refs'
  BY <1>1, <1>4 DEF Refs
<1> QED BY <1>4, <1>5, <1>7, <1>8, <1>9 DEF HeapInv

LEMMA TurnFailsInv ==
  ASSUME HeapInv, TurnFails
  PROVE  HeapInv'
<1> DEFINE n == NewNode(heap)
           new == cj_new(heap, FALSE)
           body == Add(new, n, FALSE)
           all == Add(body, NewNode(new), TRUE)
<1>1. heap' = cJSON_Delete(all, n) /\ at = "answer" /\ at' = "prompt" /\ UNCHANGED <<list, tools, local>>
  BY DEF TurnFails, Become
<1>2. Good(heap, Roots) /\ NoRefs(heap)
  BY <1>1, RootsAre
<1>3. body = Add(new, n, FALSE) /\ all = Add(body, NewNode(new), TRUE)
  OBVIOUS
<1>4. RootMade(heap, new, Roots)
  BY <1>2, NewMade
<1> HIDE DEF new, body, all
<1>5. Made(new, body, Roots \cup {n}) /\ Holder(body, NewNode(new))
  BY <1>3, <1>4, AddMade DEF RootMade
<1>6. Made(body, all, Roots \cup {n})
  BY <1>3, <1>5, AddMade DEF Made
<1>7. RootMade(heap, all, Roots)
  BY <1>4, <1>5, <1>6, RootGrows
<1>8. /\ Good(heap', Roots) /\ NoRefs(heap')
      /\ \A r \in Roots : heap'.nodes[r].str = heap.nodes[r].str
  BY <1>1, <1>2, <1>7, MadeDeleted
<1>9. Held'
  BY <1>1 DEF HeapInv, Held
<1> QED BY <1>1, <1>8, <1>9, RootsKept

LEMMA CompactInv ==
  ASSUME HeapInv, Compact
  PROVE  HeapInv'
<1> DEFINE Content_(i) == cJSON_GetArrayItem(heap, cJSON_GetArrayItem(heap, list, i), 1)
           Text(i) == cJSON_GetArrayItem(heap, cJSON_GetArrayItem(heap, Content_(i), 0), 2)
<1>1. PICK i \in 0..(Size(heap) - 1) :
        /\ Text(i) # Nil /\ heap.nodes[Text(i)].str # Nil
        /\ heap' = cJSON_SetValuestring(heap, Text(i))
  BY DEF Compact, Become
<1>2. at = "answer" /\ at' = "top" /\ UNCHANGED <<list, tools, local>> /\ Held' /\ list # Nil /\ tools # Nil
      /\ local = Nil
  BY DEF Compact, Become, HeapInv, Held
<1>3. Good(heap, Roots) /\ NoRefs(heap) /\ HeapType(heap) /\ list \in DOMAIN heap.nodes /\ i \in Nat
      /\ heap.nodes[list].str = Nil /\ heap.nodes[tools].str = Nil
  BY <1>2, RootsAre, SizeIs DEF Good
<1>4. Text(i) \in DOMAIN heap.nodes
  <2>1. cJSON_GetArrayItem(heap, list, i) \in DOMAIN heap.nodes \cup {Nil}
    BY <1>3, ArrayItemIs
  <2>2. Content_(i) \in DOMAIN heap.nodes \cup {Nil}
    BY <1>3, <2>1, ArrayItemIs
  <2> HIDE DEF Content_
  <2>3. cJSON_GetArrayItem(heap, Content_(i), 0) \in DOMAIN heap.nodes \cup {Nil}
    BY <1>3, <2>2, ArrayItemIs
  <2>4. Text(i) \in DOMAIN heap.nodes \cup {Nil}
    BY <1>3, <2>3, ArrayItemIs
  <2> QED BY <1>1, <2>4
<1> DEFINE t == Text(i)
<1>5. t \in DOMAIN heap.nodes /\ heap.nodes[t].str # Nil /\ heap' = cJSON_SetValuestring(heap, t)
  BY <1>1, <1>4
<1> HIDE DEF t
<1>6. /\ Good(heap', Roots) /\ DOMAIN heap'.nodes = DOMAIN heap.nodes
      /\ \A n \in DOMAIN heap.nodes :
           /\ heap'.nodes[n].is_ref = heap.nodes[n].is_ref
           /\ n # t => heap'.nodes[n].str = heap.nodes[n].str
  BY <1>3, <1>5, SetValuestringIs
<1>7. NoRefs(heap')
  BY <1>3, <1>6 DEF NoRefs
<1>8. \A r \in Roots : heap'.nodes[r].str = heap.nodes[r].str
  <2> SUFFICES ASSUME NEW r \in Roots PROVE r \in DOMAIN heap.nodes /\ r # t
    BY <1>6
  <2>1. r = list \/ r = tools
    BY <1>2 DEF Roots
  <2> QED BY <1>3, <1>5, <2>1, RootsAre
<1> QED BY <1>2, <1>6, <1>7, <1>8, RootsKept

(* A tree of its own becomes local.                                        *)
LEMMA LocalMade ==
  ASSUME HeapInv, local = Nil, local' = NewNode(heap), UNCHANGED <<list, tools>>,
         at \in {"answer", "results"}, at' \in {"discard", "said", "tools", "answered"},
         NewNode(heap) \notin DOMAIN heap.nodes, NewNode(heap) # Nil,
         Good(heap', Roots \cup {NewNode(heap)}), NoRefs(heap'),
         \A r \in Roots : heap'.nodes[r].str = heap.nodes[r].str
  PROVE  HeapInv'
<1> DEFINE n == NewNode(heap)
<1>1. n \notin Roots /\ n # Nil /\ local' = n /\ Good(heap', Roots \cup {n})
  BY RootsAre
<1> HIDE DEF n
<1>2. list # Nil /\ tools # Nil /\ list \in Roots /\ tools \in Roots
  BY RootsAre DEF HeapInv, Held
<1>3. Roots' = Roots \cup {n}
  BY <1>1 DEF Roots
<1>4. Held'
  BY <1>1, <1>2 DEF HeapInv, Held
<1>5. NoString'
  BY <1>2, RootsAre DEF NoString
<1>6. Refs'
  BY DEF Refs
<1> QED BY <1>1, <1>3, <1>4, <1>5, <1>6 DEF HeapInv

LEMMA MakeContentInv ==
  ASSUME HeapInv, MakeContent
  PROVE  HeapInv'
<1>1. PICK blocks \in Answers : heap' = Content(heap, blocks) /\ at' \in {"discard", "said", "tools"}
  BY DEF MakeContent, Become
<1>2. at = "answer" /\ local' = NewNode(heap) /\ local = Nil /\ UNCHANGED <<list, tools>>
  BY DEF MakeContent, HeapInv, Held
<1>3. RootMade(heap, heap', Roots)
  BY <1>1, <1>2, ContentMade, LinesAre, RootsAre
<1>4. NoRefs(heap') /\ \A r \in Roots : heap'.nodes[r].str = heap.nodes[r].str
  BY <1>2, <1>3, RootTaken
<1> QED BY <1>1, <1>2, <1>3, <1>4, LocalMade DEF RootMade

(* local is deleted or hung up.                                            *)
LEMMA LocalGone ==
  ASSUME HeapInv, local' = Nil, UNCHANGED <<list, tools>>,
         at \in {"discard", "said", "tools", "answered"}, at' \in {"prompt", "results", "top"},
         Good(heap', Roots \ {local}), NoRefs(heap'),
         \A r \in Roots \ {local} : heap'.nodes[r].str = heap.nodes[r].str
  PROVE  HeapInv'
<1>1. /\ list # Nil /\ tools # Nil /\ local # Nil /\ list # local /\ tools # local
      /\ list \in Roots /\ tools \in Roots
  BY RootsAre DEF HeapInv, Held
<1>2. Roots' = Roots \ {local}
  BY <1>1 DEF Roots
<1>3. Held'
  BY <1>1 DEF HeapInv, Held
<1>4. NoString'
  BY <1>1, RootsAre DEF NoString
<1>5. Refs'
  BY DEF Refs
<1> QED BY <1>2, <1>3, <1>4, <1>5 DEF HeapInv

LEMMA DiscardInv ==
  ASSUME HeapInv, Discard
  PROVE  HeapInv'
<1> DEFINE obj == NewNode(heap)
           new == cj_new(heap, FALSE)
           half == AddStrings(new, obj, 3)
           input == cj_new(half, FALSE)
           less == cJSON_Delete(input, NewNode(half))
<1>1. \/ heap' = cJSON_Delete(cJSON_Delete(less, obj), local)
      \/ heap' = cJSON_Delete(cJSON_Delete(half, obj), local)
  BY DEF Discard, Become
<1>2. at = "discard" /\ at' = "prompt" /\ local' = Nil /\ UNCHANGED <<list, tools>>
  BY DEF Discard, Become
<1>3. Good(heap, Roots) /\ NoRefs(heap) /\ local \in Roots
  BY <1>2, RootsAre DEF HeapInv, Held
<1>4. new = cj_new(heap, FALSE) /\ half = AddStrings(new, obj, 3) /\ input = cj_new(half, FALSE)
      /\ less = cJSON_Delete(input, NewNode(half))
  OBVIOUS
<1> HIDE DEF new, half, input, less
<1>5. RootMade(heap, half, Roots)
  <2>1. RootMade(heap, new, Roots)
    BY <1>3, <1>4, NewMade
  <2>2. Made(new, half, Roots \cup {obj})
    BY <1>4, <2>1, AddStringsMade DEF RootMade
  <2> QED BY <2>1, <2>2, RootGrows
<1>6. /\ obj \notin Roots /\ NoRefs(half) /\ Good(half, Roots \cup {obj})
      /\ \A r \in Roots : half.nodes[r].str = heap.nodes[r].str
  BY <1>2, <1>5, RootTaken DEF RootMade
<1> DEFINE R == Roots \cup {obj}
<1> HIDE DEF obj
<1>7. /\ Good(less, R) /\ NoRefs(less)
      /\ \A r \in R : less.nodes[r].str = half.nodes[r].str
  <2>1. RootMade(half, input, R)
    BY <1>4, <1>6, NewMade
  <2>2. Good(half, R) /\ NoRefs(half) /\ less = cJSON_Delete(input, NewNode(half))
    BY <1>4, <1>6
  <2> HIDE DEF R
  <2> QED BY <2>1, <2>2, MadeDeleted
<1>8. ASSUME NEW g, Good(g, R), NoRefs(g), \A r \in Roots : g.nodes[r].str = heap.nodes[r].str,
             heap' = cJSON_Delete(cJSON_Delete(g, obj), local)
      PROVE  HeapInv'
  <2>1. R \ {obj} = Roots /\ obj \in R
    BY <1>6
  <2> DEFINE k == cJSON_Delete(g, obj)
  <2>2. Good(k, R \ {obj}) /\ NoRefs(k) /\ \A r \in R \ {obj} : k.nodes[r].str = g.nodes[r].str
    BY <1>8, <2>1, RootDeleted
  <2>3. heap' = cJSON_Delete(k, local)
    BY <1>8
  <2> HIDE DEF k, R
  <2>4. Good(k, Roots) /\ \A r \in Roots : k.nodes[r].str = heap.nodes[r].str
    BY <1>8, <2>1, <2>2
  <2>5. /\ Good(heap', Roots \ {local}) /\ NoRefs(heap')
        /\ \A r \in Roots \ {local} : heap'.nodes[r].str = k.nodes[r].str
    BY <1>3, <2>2, <2>3, <2>4, RootDeleted
  <2>6. \A r \in Roots \ {local} : heap'.nodes[r].str = heap.nodes[r].str
    BY <2>4, <2>5
  <2> QED BY <1>2, <2>5, <2>6, LocalGone
<1>9. CASE heap' = cJSON_Delete(cJSON_Delete(less, obj), local)
  <2>1. \A r \in Roots : less.nodes[r].str = heap.nodes[r].str
    BY <1>6, <1>7
  <2> HIDE DEF R
  <2> QED BY <1>7, <1>8, <1>9, <2>1
<1>10. CASE heap' = cJSON_Delete(cJSON_Delete(half, obj), local)
  <2>1. Good(half, R)
    BY <1>6
  <2> HIDE DEF R
  <2> QED BY <1>6, <1>8, <1>10, <2>1
<1> QED BY <1>1, <1>9, <1>10

LEMMA HangLocalInv ==
  ASSUME HeapInv, NEW step \in {"prompt", "results", "top"}, HangLocal(step),
         at \in {"said", "tools", "answered"}
  PROVE  HeapInv'
<1> DEFINE msg == NewNode(heap)
           object == Object(heap)
           full == cj_append_child(object, msg, local)
           R == Roots \cup {msg}
<1>1. heap' = cj_append_child(full, list, msg) /\ at' = step /\ local' = Nil /\ UNCHANGED <<list, tools>>
  BY DEF HangLocal, Become
<1>2. /\ Good(heap, Roots) /\ NoRefs(heap) /\ list \in Roots /\ local \in Roots /\ list # local
      /\ Roots \subseteq DOMAIN heap.nodes
  BY RootsAre DEF HeapInv, Held
<1>3. RootMade(heap, object, Roots)
  BY <1>2, ObjectMade
<1>4. /\ msg \notin Roots /\ Good(object, R) /\ Holder(object, msg) /\ NoRefs(object)
      /\ Grown(heap, object)
  BY <1>3, RootTaken DEF RootMade
<1>5. full = cj_append_child(object, msg, local)
  OBVIOUS
<1> HIDE DEF msg, object, full
<1>6. Good(full, R \ {local}) /\ Grown(object, full)
  <2>1. msg \in R /\ local \in R /\ local # msg /\ ~object.nodes[msg].is_ref
    BY <1>2, <1>4 DEF Holder
  <2> QED BY <1>4, <1>5, <2>1, HangIs
<1>7. NoRefs(full)
  BY <1>4, <1>6, NoRefsGrown
<1>8. Good(heap', (R \ {local}) \ {msg}) /\ Grown(full, heap')
  <2>1. list \in R \ {local} /\ msg \in R \ {local} /\ msg # list
    BY <1>2, <1>4
  <2>2. ~full.nodes[list].is_ref
    BY <1>6, <1>7, <2>1, RootIs DEF NoRefs
  <2> QED BY <1>1, <1>6, <2>1, <2>2, HangIs
<1>9. (R \ {local}) \ {msg} = Roots \ {local}
  BY <1>4
<1>10. Grown(heap, heap')
  BY <1>4, <1>6, <1>8, GrownTwice
<1>11. NoRefs(heap') /\ \A r \in Roots \ {local} : heap'.nodes[r].str = heap.nodes[r].str
  <2>1. \A r \in Roots : heap'.nodes[r].str = heap.nodes[r].str
    BY <1>2, <1>10 DEF Grown, Kept
  <2> QED BY <1>2, <1>10, <2>1, NoRefsGrown
<1> HIDE DEF R
<1> QED BY <1>1, <1>8, <1>9, <1>11, LocalGone

LEMMA MakeResultsInv ==
  ASSUME HeapInv, MakeResults
  PROVE  HeapInv'
<1> DEFINE n == NewNode(heap)
           results == cj_new(heap, FALSE)
           input == Object(results)
           called == cJSON_Delete(input, NewNode(results))
           R == Roots \cup {n}
           Kinds(blocks) ==
             [i \in 1..Cardinality({i \in 1..Len(blocks) : blocks[i] = "tool_use"}) |-> "tool_result"]
<1>1. PICK blocks \in Answers : heap' = AddBlocks(called, n, Kinds(blocks))
  BY DEF MakeResults, Become
<1>2. at = "results" /\ at' = "answered" /\ local' = n /\ UNCHANGED <<list, tools>> /\ local = Nil
  BY DEF MakeResults, Become, HeapInv, Held
<1>3. Len(Kinds(blocks)) \in Nat
  <2>1. Len(blocks) \in Nat
    BY LinesAre
  <2>2. IsFiniteSet(1..Len(blocks))
    BY <2>1, FS_Interval
  <2>3. IsFiniteSet({i \in 1..Len(blocks) : blocks[i] = "tool_use"})
    BY <2>2, FS_Subset
  <2>4. Cardinality({i \in 1..Len(blocks) : blocks[i] = "tool_use"}) \in Nat
    BY <2>3, FS_CardinalityType
  <2> QED BY <2>4
<1> HIDE DEF Kinds
<1>4. Good(heap, Roots)
  BY RootsAre
<1>5. RootMade(heap, results, Roots)
  BY <1>4, NewMade
<1>6. /\ n \notin Roots /\ n # Nil /\ NoRefs(results) /\ Good(results, R) /\ n \notin DOMAIN heap.nodes
      /\ \A r \in Roots : results.nodes[r].str = heap.nodes[r].str
  BY <1>2, <1>5, RootTaken DEF RootMade
<1>7. input = Object(results) /\ called = cJSON_Delete(input, NewNode(results))
  OBVIOUS
<1>8. local' = NewNode(heap) /\ n = NewNode(heap)
  BY <1>2
<1> HIDE DEF n, results, input, called
<1>9. /\ Good(called, R) /\ NoRefs(called) /\ \A r \in R : called.nodes[r].str = results.nodes[r].str
  <2>1. RootMade(results, input, R)
    BY <1>6, <1>7, ObjectMade
  <2> QED BY <1>6, <1>7, <2>1, MadeDeleted
<1>10. Holder(called, n)
  <2>1. n \in DOMAIN called.nodes
    BY <1>9, RootIs
  <2> QED BY <1>9, <2>1 DEF Holder, NoRefs
<1>11. Made(called, heap', R)
  BY <1>1, <1>3, <1>9, <1>10, AddBlocksMade
<1>12. NoRefs(heap') /\ \A r \in R : heap'.nodes[r].str = called.nodes[r].str
  <2>1. \A r \in R : r \in DOMAIN called.nodes
    BY <1>9, RootIs
  <2> QED BY <1>9, <1>11, <2>1, NoRefsGrown DEF Made, Grown, Kept
<1>13. \A r \in Roots : heap'.nodes[r].str = heap.nodes[r].str
  BY <1>6, <1>9, <1>12
<1>14. Good(heap', Roots \cup {NewNode(heap)})
  BY <1>8, <1>11 DEF Made
<1> QED BY <1>2, <1>6, <1>8, <1>12, <1>13, <1>14, LocalMade

LEMMA ExitInv ==
  ASSUME HeapInv, Exit
  PROVE  HeapInv'
<1> DEFINE g == cJSON_Delete(heap, list)
<1>1. heap' = cJSON_Delete(g, tools) /\ at = "prompt" /\ at' = "gone" /\ list' = Nil /\ tools' = Nil
      /\ local' = local
  BY DEF Exit, Become
<1>2. /\ Good(heap, Roots) /\ NoRefs(heap) /\ list \in Roots /\ tools \in Roots /\ list # tools
      /\ local = Nil /\ Roots = {list, tools}
  BY <1>1, RootsAre DEF HeapInv, Held, Roots
<1>3. Good(g, Roots \ {list}) /\ NoRefs(g)
  BY <1>2, RootDeleted
<1> HIDE DEF g
<1>4. Good(heap', (Roots \ {list}) \ {tools}) /\ NoRefs(heap')
  <2>1. tools \in Roots \ {list}
    BY <1>2
  <2> QED BY <1>1, <1>3, <2>1, RootDeleted
<1>5. (Roots \ {list}) \ {tools} = {} /\ Roots' = {}
  BY <1>1, <1>2 DEF Roots
<1>6. Held' /\ NoString' /\ Refs'
  BY <1>1, <1>2, <1>4 DEF Held, NoString, Refs
<1> QED BY <1>4, <1>5, <1>6 DEF HeapInv

LEMMA NextInv ==
  ASSUME HeapInv, TreeNext
  PROVE  HeapInv'
<1>1. ASSUME Said PROVE HeapInv'
  BY <1>1, HangLocalInv DEF Said
<1>2. ASSUME CallTools PROVE HeapInv'
  BY <1>2, HangLocalInv DEF CallTools
<1>3. ASSUME Answered PROVE HeapInv'
  BY <1>3, HangLocalInv DEF Answered
<1> QED BY <1>1, <1>2, <1>3, LoadLineInv, PruneInv, MakeToolsInv, PromptInv, InterruptedInv,
           MakeRequestInv, DeleteRequestInv, TurnFailsInv, CompactInv, MakeContentInv, DiscardInv,
           MakeResultsInv, ExitInv DEF TreeNext

LEMMA OneOwner ==
  ASSUME HeapInv, NEW n \in DOMAIN heap.nodes
  PROVE  Cardinality(Owners(n)) = 1
<1> DEFINE held == [list |-> list, tools |-> tools, local |-> local]
           names == {"list", "tools", "local"}
<1>1. Good(heap, Roots) /\ Forest(Pointers(heap), Roots) /\ HeapType(heap)
      /\ DOMAIN Pointers(heap) = DOMAIN heap.nodes
  BY PointersOf DEF HeapInv, Good
<1>2. n # Nil
  BY <1>1, NilNoCell
<1>3. held["list"] = list /\ held["tools"] = tools /\ held["local"] = local
  OBVIOUS
<1>4. \A o : o \in Owners(n) <=> \/ \E v \in names : n = held[v] /\ o = <<"program", v>>
                                 \/ \E p \in DOMAIN heap.nodes : Owned(heap.nodes[p]) = n /\ o = <<"child", p>>
                                 \/ \E p \in DOMAIN heap.nodes : heap.nodes[p].next = n /\ o = <<"next", p>>
  BY DEF Owners
<1> HIDE DEF held
<1> DEFINE Only(w) == \A o : o \in Owners(n) <=> o = w
<1>0. ASSUME NEW w, Only(w) PROVE \E o : Owners(n) = {o}
  <2>1. Owners(n) = {w}
    BY <1>0
  <2> QED BY <2>1
<1>5. \A v, w \in names : held[v] = n /\ held[w] = n => v = w
  <2>1. list # Nil => list # tools /\ list # local
    BY DEF HeapInv, Held
  <2>2. tools # Nil => tools # local
    BY DEF HeapInv, Held
  <2> QED BY <1>2, <1>3, <2>1, <2>2
<1>6. \E o : Owners(n) = {o}
  <2>1. CASE n \in Roots
    <3>1. PICK v \in names : held[v] = n
      BY <1>3, <2>1 DEF Roots
    <3>2. \A p \in DOMAIN heap.nodes : heap.nodes[p].next # n /\ Owned(heap.nodes[p]) # n
      BY <1>1, <2>1, RootIs
    <3>3. Only(<<"program", v>>)
      BY <1>4, <1>5, <3>1, <3>2
    <3> HIDE DEF Only
    <3> QED BY <1>0, <3>3
  <2>2. CASE n \notin Roots
    <3>1. \A v \in names : held[v] # n
      BY <1>2, <1>3, <2>2 DEF Roots
    <3>2. PICK p \in DOMAIN heap.nodes : n \in Pointers(heap)[p]
      BY <1>1, <2>2, ForestOwner DEF Unowned
    <3>3. \A q \in DOMAIN heap.nodes : heap.nodes[q].next = n \/ Owned(heap.nodes[q]) = n => q = p
      BY <1>1, <1>2, <3>2, PointersOf DEF Forest
    <3>4. \/ heap.nodes[p].next = n /\ Owned(heap.nodes[p]) # n
          \/ heap.nodes[p].next # n /\ Owned(heap.nodes[p]) = n
      BY <1>1, <1>2, <3>2, PointersOf DEF Good
    <3>5. CASE heap.nodes[p].next = n /\ Owned(heap.nodes[p]) # n
      <4>1. Only(<<"next", p>>)
        BY <1>4, <3>1, <3>3, <3>5
      <4> HIDE DEF Only
      <4> QED BY <1>0, <4>1
    <3>6. CASE heap.nodes[p].next # n /\ Owned(heap.nodes[p]) = n
      <4>1. Only(<<"child", p>>)
        BY <1>4, <3>1, <3>3, <3>6
      <4> HIDE DEF Only
      <4> QED BY <1>0, <4>1
    <3> QED BY <3>4, <3>5, <3>6
  <2> QED BY <2>1, <2>2
<1> QED BY <1>6, FS_Singleton

LEMMA InvExact ==
  ASSUME HeapInv
  PROVE  HeapExact
<1>1. Good(heap, Roots) /\ HeapType(heap)
  BY DEF HeapInv, Good
<1>2. heap.sound
  BY <1>1 DEF HeapType
<1>3. \A n \in DOMAIN heap.nodes :
        /\ Cardinality(Owners(n)) = 1
        /\ {heap.nodes[n].child, heap.nodes[n].next, heap.nodes[n].prev} \subseteq DOMAIN heap.nodes \cup {Nil}
  BY <1>1, OneOwner, NodeType
<1>4. ASSUME NEW s \in heap.strings
      PROVE  Cardinality({n \in DOMAIN heap.nodes : heap.nodes[n].str = s}) = 1
  <2>1. s # Nil
    BY <1>1, NilNoCell
  <2>2. PICK n \in DOMAIN heap.nodes : heap.nodes[n].str = s
    BY <1>1 DEF Good, StringsHeld
  <2>3. \A m \in DOMAIN heap.nodes : heap.nodes[m].str = s => m = n
    BY <1>1, <2>1, <2>2 DEF Good, StringsHeld
  <2>4. {m \in DOMAIN heap.nodes : heap.nodes[m].str = s} = {n}
    BY <2>2, <2>3
  <2> QED BY <2>4, FS_Singleton
<1>5. \A n \in DOMAIN heap.nodes : heap.nodes[n].str \in heap.strings \cup {Nil}
  BY <1>1, NodeType
<1>6. {list, tools, local} \subseteq DOMAIN heap.nodes \cup {Nil}
  BY RootsAre DEF Roots
<1>7. ASSUME at = "gone" PROVE DOMAIN heap.nodes = {} /\ heap.strings = {}
  <2>1. Roots = {}
    BY <1>7 DEF HeapInv, Held, Roots
  <2>2. DOMAIN heap.nodes = {}
    BY <1>1, <2>1, ForestEmpty, PointersOf DEF Good
  <2> QED BY <1>1, <2>2 DEF Good, StringsHeld
<1> QED BY <1>2, <1>3, <1>4, <1>5, <1>6, <1>7 DEF HeapExact

(* Every node of every tree has one owner and every string one node, at    *)
(* every step from the load to the exit: no delete frees anything twice or *)
(* what somebody still points to, not even that of the request whose       *)
(* arrays refer to the messages and the tools, no way out of a turn leaves *)
(* a node behind, and when the process has deleted both nothing is left -  *)
(* for lists of any length, old files of any lines and answers of any      *)
(* blocks.                                                                 *)
THEOREM EveryNodeHasOneOwner == TreeSpec => []HeapExact
<1>1. TreeInit => HeapInv
  BY InitInv
<1>2. HeapInv /\ [TreeNext]_treeVars => HeapInv'
  <2> SUFFICES ASSUME HeapInv, [TreeNext]_treeVars PROVE HeapInv'
    OBVIOUS
  <2>1. CASE TreeNext
    BY <2>1, NextInv
  <2>2. CASE UNCHANGED treeVars
    BY <2>2 DEF treeVars, HeapInv, Held, Roots, NoString, Refs
  <2> QED BY <2>1, <2>2
<1>3. HeapInv => HeapExact
  BY InvExact
<1> QED BY <1>1, <1>2, <1>3, PTL DEF TreeSpec
=============================================================================
