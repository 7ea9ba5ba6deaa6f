------------------------- MODULE RoleHierarchy_proofs -------------------------
(***************************************************************************)
(* Roles and permissions for any number of members, roles, permissions and *)
(* requests under way.                                                     *)
(***************************************************************************)
EXTENDS RoleHierarchy, FiniteSetTheorems, SequenceTheorems, WellFoundedInduction, TLAPS

(* A set of natural numbers has a least one: what is false of some number  *)
(* is false of a first one.                                                *)
LEMMA Least ==
  ASSUME NEW T \in SUBSET Nat, T # {}
  PROVE  \E n \in T : \A m \in T : n <= m
<1> DEFINE less == {p \in Nat \X Nat : p[1] < p[2]}
<1>1. IsWellFoundedOn(less, Nat)
  BY NatLessThanWellFounded, Zenon DEF less, OpToRel
<1>2. PICK n \in T : \A m \in T : <<m, n>> \notin less
  <2> HIDE DEF less
  <2> QED
    BY <1>1, WFMin
<1>3. \A m \in T : ~(m < n)
  BY <1>2
<1> QED
  BY <1>3

-----------------------------------------------------------------------------
(* The cascade: what is left after each layer.                             *)
LEMMA Unfold ==
  ASSUME NEW perms, NEW layers, Len(layers) \in Nat
  PROVE  \E after :
           /\ after = [n \in 0..Len(layers) |->
                         IF n = 0 THEN perms ELSE ApplyOverride(after[n - 1], layers[n])]
           /\ Cascade(perms, layers) = after[Len(layers)]
<1> DEFINE N == Len(layers)
           Solves(f, m) == f = [n \in 0..m |->
                         IF n = 0 THEN perms ELSE ApplyOverride(f[n - 1], layers[n])]
           Bad == {m \in Nat : ~\E f : Solves(f, m)}
<1>1. Bad = {}
  <2> SUFFICES ASSUME Bad # {} PROVE FALSE
    OBVIOUS
  <2>1. PICK m \in Bad : \A l \in Bad : m <= l
    <3> HIDE DEF Bad
    <3>1. Bad \in SUBSET Nat
      BY DEF Bad
    <3> QED
      BY <3>1, Least
  <2>2. CASE m = 0
    <3> DEFINE f == [n \in 0..0 |-> perms]
    <3>1. Solves(f, 0)
      OBVIOUS
    <3> QED
      BY <2>1, <2>2, <3>1
  <2>3. CASE m # 0
    <3>1. m \in Nat /\ m - 1 \in Nat /\ m - 1 \notin Bad
      BY <2>1, <2>3
    <3>2. PICK g : Solves(g, m - 1)
      BY <3>1
    <3> DEFINE f == [n \in 0..m |-> IF n = m THEN ApplyOverride(g[m - 1], layers[m]) ELSE g[n]]
    <3>3. \A n \in 0..m : f[n] = IF n = 0 THEN perms ELSE ApplyOverride(f[n - 1], layers[n])
      <4> SUFFICES ASSUME NEW n \in 0..m
                   PROVE  f[n] = IF n = 0 THEN perms ELSE ApplyOverride(f[n - 1], layers[n])
        OBVIOUS
      <4>1. CASE n = m
        BY <2>3, <3>1, <4>1
      <4>2. CASE n # m
        <5>1. n \in 0..(m - 1)
          BY <3>1, <4>2
        <5>2. g[n] = IF n = 0 THEN perms ELSE ApplyOverride(g[n - 1], layers[n])
          BY <3>2, <5>1
        <5>3. n # 0 => n - 1 \in 0..m /\ n - 1 # m
          BY <3>1, <5>1
        <5> QED
          BY <4>2, <5>2, <5>3
      <4> QED
        BY <4>1, <4>2
    <3>4. Solves(f, m)
      BY <3>3
    <3> QED
      BY <2>1, <3>4
  <2> QED
    BY <2>2, <2>3
<1>2. \E f : Solves(f, N)
  BY <1>1
<1> DEFINE after == CHOOSE f : Solves(f, N)
<1>3. Solves(after, N)
  BY <1>2
<1>4. Cascade(perms, layers) = after[N]
  BY DEF Cascade
<1> QED
  BY <1>3, <1>4

(* A fact of what is left, true at the start and kept by every layer, is   *)
(* true at the end; S is the numbers of the layers after which it is.      *)
LEMMA LayerByLayer ==
  ASSUME NEW N \in Nat, NEW S, 0 \in S, \A n \in 1..N : n - 1 \in S => n \in S
  PROVE  N \in S
<1> DEFINE Bad == {n \in 0..N : n \notin S}
<1> SUFFICES ASSUME Bad # {} PROVE FALSE
  BY DEF Bad
<1>1. PICK n \in Bad : \A m \in Bad : n <= m
  <2> HIDE DEF Bad
  <2>1. Bad \in SUBSET Nat
    BY DEF Bad
  <2> QED
    BY <2>1, Least
<1>2. n \in 1..N /\ n - 1 \in 0..N /\ ~(n <= n - 1)
  BY <1>1
<1> QED
  BY <1>1, <1>2

(* Nothing is granted that no layer allows.                                *)
LEMMA CascadeWithin ==
  ASSUME NEW perms, NEW layers, Len(layers) \in Nat, NEW G, perms \subseteq G,
         \A i \in 1..Len(layers) : layers[i].allow \subseteq G
  PROVE  Cascade(perms, layers) \subseteq G
<1> DEFINE N == Len(layers)
<1>1. PICK after : /\ after = [n \in 0..N |->
                                 IF n = 0 THEN perms ELSE ApplyOverride(after[n - 1], layers[n])]
                   /\ Cascade(perms, layers) = after[N]
  BY Unfold
<1> DEFINE S == {n \in 0..N : after[n] \subseteq G}
<1>2. after[0] = perms /\ \A n \in 1..N : after[n] = ApplyOverride(after[n - 1], layers[n])
  BY <1>1
<1>3. 0 \in S
  BY <1>2
<1>4. \A n \in 1..N : n - 1 \in S => n \in S
  BY <1>2 DEF ApplyOverride
<1>5. N \in S
  <2> HIDE DEF S
  <2> QED
    BY <1>3, <1>4, LayerByLayer
<1> QED
  BY <1>1, <1>5

(* What no layer speaks of is as it was.                                   *)
LEMMA Undecided ==
  ASSUME NEW perms, NEW layers, Len(layers) \in Nat, NEW b,
         \A i \in 1..Len(layers) : ~Says(b, layers[i])
  PROVE  b \in Cascade(perms, layers) <=> b \in perms
<1> DEFINE N == Len(layers)
<1>1. PICK after : /\ after = [n \in 0..N |->
                                 IF n = 0 THEN perms ELSE ApplyOverride(after[n - 1], layers[n])]
                   /\ Cascade(perms, layers) = after[N]
  BY Unfold
<1> DEFINE S == {n \in 0..N : b \in after[n] <=> b \in perms}
<1>2. after[0] = perms /\ \A n \in 1..N : after[n] = ApplyOverride(after[n - 1], layers[n])
  BY <1>1
<1>3. 0 \in S
  BY <1>2
<1>4. \A n \in 1..N : n - 1 \in S => n \in S
  BY <1>2 DEF ApplyOverride, Says
<1>5. N \in S
  <2> HIDE DEF S
  <2> QED
    BY <1>3, <1>4, LayerByLayer
<1> QED
  BY <1>1, <1>5

(* The last layer that speaks of a permission decides it.                  *)
LEMMA LastDecides ==
  ASSUME NEW perms, NEW layers, Len(layers) \in Nat, NEW b, NEW i \in 1..Len(layers),
         Says(b, layers[i]), \A j \in (i + 1)..Len(layers) : ~Says(b, layers[j])
  PROVE  b \in Cascade(perms, layers) <=> b \in layers[i].allow
<1> DEFINE N == Len(layers)
<1>1. PICK after : /\ after = [n \in 0..N |->
                                 IF n = 0 THEN perms ELSE ApplyOverride(after[n - 1], layers[n])]
                   /\ Cascade(perms, layers) = after[N]
  BY Unfold
<1> DEFINE S == {n \in 0..N : n >= i => (b \in after[n] <=> b \in layers[i].allow)}
<1>2. \A n \in 1..N : after[n] = ApplyOverride(after[n - 1], layers[n])
  BY <1>1
<1>3. 0 \in S
  OBVIOUS
<1>4. \A n \in 1..N : n - 1 \in S => n \in S
  <2> SUFFICES ASSUME NEW n \in 1..N, n - 1 \in S, n >= i
               PROVE  b \in after[n] <=> b \in layers[i].allow
    OBVIOUS
  <2>1. CASE n = i
    BY <1>2, <2>1 DEF ApplyOverride, Says
  <2>2. CASE n # i
    <3>1. n - 1 >= i /\ ~Says(b, layers[n])
      BY <2>2
    <3> QED
      BY <1>2, <3>1 DEF ApplyOverride, Says
  <2> QED
    BY <2>1, <2>2
<1>5. N \in S
  <2> HIDE DEF S
  <2> QED
    BY <1>3, <1>4, LayerByLayer
<1> QED
  BY <1>1, <1>5

(* Layers behind layers: the second part starts from what the first left.  *)
LEMMA CascadeJoins ==
  ASSUME NEW X, NEW L \in Seq(X), NEW M \in Seq(X), NEW perms
  PROVE  Cascade(perms, L \o M) = Cascade(Cascade(perms, L), M)
<1> DEFINE K == Len(L)
           N == Len(M)
           J == L \o M
           left == Cascade(perms, L)
<1>1. K \in Nat /\ N \in Nat /\ Len(J) = K + N
      /\ (\A n \in 1..K : J[n] = L[n]) /\ (\A n \in 1..N : J[K + n] = M[n])
  OBVIOUS
<1> HIDE DEF J
<1>2. PICK f : /\ f = [n \in 0..(K + N) |->
                        IF n = 0 THEN perms ELSE ApplyOverride(f[n - 1], J[n])]
               /\ Cascade(perms, J) = f[K + N]
  <2>1. Len(J) \in Nat
    BY <1>1
  <2>2. \E f : /\ f = [n \in 0..Len(J) |->
                        IF n = 0 THEN perms ELSE ApplyOverride(f[n - 1], J[n])]
               /\ Cascade(perms, J) = f[Len(J)]
    BY <2>1, Unfold
  <2>3. Len(J) = K + N
    BY <1>1
  <2> HIDE DEF K, N
  <2> QED
    BY <2>2, <2>3
<1>3. PICK g : /\ g = [n \in 0..K |->
                        IF n = 0 THEN perms ELSE ApplyOverride(g[n - 1], L[n])]
               /\ left = g[K]
  BY <1>1, Unfold
<1> HIDE DEF left
<1>4. PICK h : /\ h = [n \in 0..N |->
                        IF n = 0 THEN left ELSE ApplyOverride(h[n - 1], M[n])]
               /\ Cascade(left, M) = h[N]
  BY <1>1, Unfold
<1> HIDE DEF K, N
<1>5. /\ f[0] = perms /\ g[0] = perms /\ h[0] = left
      /\ \A n \in 1..(K + N) : f[n] = ApplyOverride(f[n - 1], J[n])
      /\ \A n \in 1..K : g[n] = ApplyOverride(g[n - 1], L[n])
      /\ \A n \in 1..N : h[n] = ApplyOverride(h[n - 1], M[n])
  BY <1>1, <1>2, <1>3, <1>4
<1> DEFINE S == {n \in 0..K : f[n] = g[n]}
           T == {n \in 0..N : f[K + n] = h[n]}
<1>6. K \in S
  <2>1. 0 \in S
    BY <1>1, <1>5
  <2>2. \A n \in 1..K : n - 1 \in S => n \in S
    BY <1>1, <1>5
  <2> HIDE DEF S
  <2> QED
    BY <1>1, <2>1, <2>2, LayerByLayer
<1>7. N \in T
  <2>1. 0 \in T
    BY <1>1, <1>3, <1>5, <1>6
  <2>2. ASSUME NEW n \in 1..N, n - 1 \in T PROVE n \in T
    <3>1. K + n \in 1..(K + N) /\ K + n - 1 = K + (n - 1)
      BY <1>1
    <3>2. f[K + n] = ApplyOverride(f[K + (n - 1)], J[K + n])
      BY <1>1, <1>5, <3>1
    <3> QED
      BY <1>1, <1>5, <2>2, <3>2
  <2> HIDE DEF T
  <2> QED
    BY <1>1, <2>1, <2>2, LayerByLayer
<1> QED
  BY <1>2, <1>4, <1>7 DEF J, left

-----------------------------------------------------------------------------
(* Enumerations by ascending key, for keys between -B and B.               *)
Sorted(e, S, key) ==
  \A i, j \in 1..Cardinality(S) : i < j => key[e[i]] <= key[e[j]]

(* Of finitely many one has the greatest key.                              *)
LEMMA Greatest ==
  ASSUME NEW B \in Nat, NEW S, S # {}, NEW key, \A x \in S : key[x] \in (-B)..B
  PROVE  \E x \in S : \A y \in S : key[y] <= key[x]
<1> DEFINE T == {B - key[x] : x \in S}
<1>1. T \in SUBSET Nat /\ T # {}
  OBVIOUS
<1>2. PICK n \in T : \A m \in T : n <= m
  <2> HIDE DEF T
  <2> QED
    BY <1>1, Least
<1>3. PICK x \in S : n = B - key[x]
  BY <1>2
<1>4. ASSUME NEW y \in S PROVE key[y] <= key[x]
  <2>1. n <= B - key[y]
    BY <1>2
  <2> QED
    BY <1>3, <2>1
<1> QED
  BY <1>4

(* Finitely many can be put in order: of the smallest set that could not,  *)
(* the others can, and the greatest goes behind them.                      *)
LEMMA SortExists ==
  ASSUME NEW B \in Nat, NEW S, IsFiniteSet(S), NEW key, \A x \in S : key[x] \in (-B)..B
  PROVE  \E e \in Enumerations(S) : Sorted(e, S, key)
<1> DEFINE Fails(A) == ~\E e \in Enumerations(A) : Sorted(e, A, key)
           Bad == {n \in Nat : \E A \in SUBSET S : Cardinality(A) = n /\ Fails(A)}
<1> SUFFICES ASSUME Fails(S) PROVE FALSE
  OBVIOUS
<1>1. Cardinality(S) \in Bad
  BY FS_CardinalityType
<1>2. PICK n \in Bad : \A m \in Bad : n <= m
  <2>1. Bad \in SUBSET Nat /\ Bad # {}
    BY <1>1
  <2> HIDE DEF Bad
  <2> QED
    BY <2>1, Least
<1>3. PICK A \in SUBSET S : Cardinality(A) = n /\ Fails(A)
  BY <1>2
<1>4. IsFiniteSet(A) /\ n \in Nat
  BY <1>2, FS_Subset
<1>5. A # {}
  <2> SUFFICES ASSUME A = {} PROVE FALSE
    OBVIOUS
  <2>1. Cardinality(A) = 0
    BY FS_EmptySet
  <2>2. [i \in 1..0 |-> 0] \in Enumerations(A)
    BY <2>1 DEF Enumerations
  <2>3. Sorted([i \in 1..0 |-> 0], A, key)
    BY <2>1 DEF Sorted
  <2> QED
    BY <1>3, <2>2, <2>3
<1>6. PICK x \in A : \A y \in A : key[y] <= key[x]
  BY <1>5, Greatest
<1> DEFINE R == A \ {x}
<1>7. IsFiniteSet(R) /\ Cardinality(R) = n - 1 /\ n - 1 \in Nat
  <2>1. IsFiniteSet(R) /\ Cardinality(R) = n - 1
    BY <1>3, <1>4, <1>6, FS_RemoveElement
  <2> HIDE DEF R
  <2> QED
    BY <2>1, FS_CardinalityType
<1>8. ~Fails(R)
  <2> SUFFICES ASSUME Fails(R) PROVE FALSE
    OBVIOUS
  <2> HIDE DEF Fails
  <2>1. n - 1 \in Bad
    BY <1>3, <1>7
  <2> HIDE DEF Bad
  <2> QED
    BY <1>2, <1>4, <2>1
<1>9. PICK e \in Enumerations(R) : Sorted(e, R, key)
  BY <1>8
<1> DEFINE f == [i \in 1..n |-> IF i = n THEN x ELSE e[i]]
<1>10. /\ \A i \in 1..(n - 1) : e[i] \in A /\ e[i] # x
       /\ \A i, j \in 1..(n - 1) : e[i] = e[j] => i = j
       /\ \A i, j \in 1..(n - 1) : i < j => key[e[i]] <= key[e[j]]
  BY <1>7, <1>9 DEF Enumerations, Sorted
<1>11. \A i \in 1..n : i = n \/ i \in 1..(n - 1)
  BY <1>4
<1>12. f \in Enumerations(A)
  BY <1>3, <1>6, <1>10, <1>11 DEF Enumerations
<1>13. Sorted(f, A, key)
  <2> SUFFICES ASSUME NEW i \in 1..n, NEW j \in 1..n, i < j
               PROVE  key[f[i]] <= key[f[j]]
    BY <1>3 DEF Sorted
  <2>1. i \in 1..(n - 1) /\ f[i] = e[i]
    BY <1>4
  <2>2. CASE j = n
    BY <1>6, <1>10, <2>1, <2>2
  <2>3. CASE j # n
    <3>1. j \in 1..(n - 1) /\ f[j] = e[j]
      BY <1>11, <2>3
    <3> QED
      BY <1>10, <2>1, <3>1
  <2> QED
    BY <2>2, <2>3
<1> QED
  BY <1>3, <1>12, <1>13

(* An enumeration leaves nobody out.                                       *)
LEMMA EnumerationOnto ==
  ASSUME NEW S, IsFiniteSet(S), NEW e \in Enumerations(S)
  PROVE  /\ Cardinality(S) \in Nat /\ e \in [1..Cardinality(S) -> S]
         /\ e \in Seq(S) /\ Len(e) = Cardinality(S)
         /\ \A i, j \in 1..Cardinality(S) : e[i] = e[j] => i = j
         /\ \A x \in S : \E i \in 1..Cardinality(S) : e[i] = x
<1> DEFINE n == Cardinality(S)
<1>1. n \in Nat
  BY FS_CardinalityType
<1>2. e \in [1..n -> S] /\ \A i, j \in 1..n : e[i] = e[j] => i = j
  BY DEF Enumerations
<1>3. e \in Injection(1..n, S)
  BY <1>2 DEF Injection, IsInjective
<1>4. Cardinality(1..n) = n
  BY <1>1, FS_Interval
<1>5. e \in Surjection(1..n, S)
  BY <1>3, <1>4, FS_Injection
<1>6. \A x \in S : \E i \in 1..n : e[i] = x
  BY <1>5 DEF Surjection
<1>7. e \in Seq(S) /\ Len(e) = n
  BY <1>1, <1>2
<1> QED
  BY <1>1, <1>2, <1>6, <1>7

LEMMA AscendingSorts ==
  ASSUME NEW B \in Nat, NEW S, IsFiniteSet(S), NEW key, \A x \in S : key[x] \in (-B)..B
  PROVE  /\ Ascending(S, key) \in Enumerations(S)
         /\ Sorted(Ascending(S, key), S, key)
BY SortExists DEF Ascending, Sorted

(* In the order of heights.                                                *)
LEMMA LowestFirstSorts ==
  ASSUME NEW B \in Nat, NEW rs, NEW S, IsFiniteSet(S), \A r \in S : Height(rs, r) \in 0..B
  PROVE  /\ LowestFirst(rs, S) \in Enumerations(S)
         /\ \A i, j \in 1..Cardinality(S) :
              i < j => Height(rs, LowestFirst(rs, S)[i]) <= Height(rs, LowestFirst(rs, S)[j])
<1> DEFINE key == [r \in S |-> Height(rs, r)]
           e == Ascending(S, key)
<1>1. \A x \in S : key[x] \in (-B)..B
  OBVIOUS
<1>2. e \in Enumerations(S) /\ Sorted(e, S, key)
  <2> HIDE DEF key
  <2> QED
    BY <1>1, AscendingSorts
<1>3. LowestFirst(rs, S) = e
  BY DEF LowestFirst
<1> HIDE DEF e
<1>4. \A i \in 1..Cardinality(S) : e[i] \in S
  BY <1>2 DEF Enumerations
<1> QED
  BY <1>2, <1>3, <1>4 DEF Sorted

-----------------------------------------------------------------------------
(* Layers by height: f is the masks, by role.                              *)
LayersOf(rs, S, f) == [i \in 1..Cardinality(S) |-> f[LowestFirst(rs, S)[i]]]

InLayers(rs, S, X, f) ==
  LET e == LowestFirst(rs, S)
      n == Cardinality(S)
      L == LayersOf(rs, S, f)
  IN /\ L \in Seq(X) /\ Len(L) = n /\ n \in Nat /\ DOMAIN e = 1..n
     /\ \A i \in 1..n : e[i] \in S /\ L[i] = f[e[i]]
     /\ \A r \in S : \E i \in 1..n : r = e[i]

LEMMA LayersAre ==
  ASSUME NEW B \in Nat, NEW rs, NEW S, IsFiniteSet(S), \A r \in S : Height(rs, r) \in 0..B,
         NEW X, NEW f, \A r \in S : f[r] \in X
  PROVE  InLayers(rs, S, X, f)
<1> DEFINE e == LowestFirst(rs, S)
           n == Cardinality(S)
<1>1. e \in Enumerations(S)
  BY LowestFirstSorts
<1> HIDE DEF e
<1>2. n \in Nat /\ e \in [1..n -> S] /\ \A x \in S : \E i \in 1..n : e[i] = x
  BY <1>1, EnumerationOnto
<1> HIDE DEF n
<1>3. LayersOf(rs, S, f) = [i \in 1..n |-> f[e[i]]]
  BY DEF LayersOf, e, n
<1>4. [i \in 1..n |-> f[e[i]]] \in [1..n -> X]
  BY <1>2
<1>5. LayersOf(rs, S, f) \in Seq(X) /\ Len(LayersOf(rs, S, f)) = n
  BY <1>2, <1>3, <1>4
<1>6. \A i \in 1..n : e[i] \in S /\ LayersOf(rs, S, f)[i] = f[e[i]]
  BY <1>2, <1>3
<1> QED
  BY <1>2, <1>5, <1>6 DEF e, n, InLayers

(* Among roles the highest that says anything decides.                     *)
HighestDecides(b, S, f, perms, speaking) ==
  b \in Cascade(perms, LayersOf(roles, S, f)) <=>
    IF speaking = {} THEN b \in perms ELSE b \in f[Highly(speaking)].allow

LEMMA RolesDecide ==
  ASSUME NEW B \in Nat, NEW S, IsFiniteSet(S), \A r \in S : Height(roles, r) \in 0..B,
         ~Tied(S), NEW f, NEW perms, NEW b, NEW speaking \in SUBSET S,
         \A r \in S : r \in speaking <=> Says(b, f[r])
  PROVE  HighestDecides(b, S, f, perms, speaking)
<1> DEFINE e == LowestFirst(roles, S)
           n == Cardinality(S)
           L == LayersOf(roles, S, f)
           X == {f[r] : r \in S}
<1>1. /\ Len(L) = n /\ n \in Nat
      /\ \A i \in 1..n : e[i] \in S /\ L[i] = f[e[i]]
      /\ \A r \in S : \E i \in 1..n : r = e[i]
  <2>1. InLayers(roles, S, X, f)
    <3>1. \A r \in S : f[r] \in X
      OBVIOUS
    <3> HIDE DEF X
    <3> QED
      BY <3>1, LayersAre
  <2> QED
    BY <2>1 DEF InLayers
<1>2. \A i, j \in 1..n : i < j => Height(roles, e[i]) <= Height(roles, e[j])
  BY LowestFirstSorts
<1> HIDE DEF e, n, L
<1>3. CASE speaking = {}
  <2>1. \A i \in 1..Len(L) : ~Says(b, L[i])
    BY <1>1, <1>3
  <2>2. b \in Cascade(perms, L) <=> b \in perms
    BY <1>1, <2>1, Undecided
  <2> QED
    BY <1>3, <2>2 DEF L, HighestDecides
<1>4. CASE speaking # {}
  <2> DEFINE T == {n - i : i \in {i \in 1..n : e[i] \in speaking}}
  <2>1. T \in SUBSET Nat /\ T # {}
    BY <1>1, <1>4
  <2>2. PICK t \in T : \A m \in T : t <= m
    <3> HIDE DEF T
    <3> QED
      BY <2>1, Least
  <2>3. PICK i \in 1..n : e[i] \in speaking /\ t = n - i
    BY <2>2
  <2>4. ASSUME NEW j \in 1..n, e[j] \in speaking PROVE j <= i
    <3>1. t <= n - j
      BY <2>2, <2>4
    <3> QED
      BY <1>1, <2>3, <3>1
  <2>5. \A j \in (i + 1)..Len(L) : ~Says(b, L[j])
    <3> SUFFICES ASSUME NEW j \in (i + 1)..Len(L), Says(b, L[j]) PROVE FALSE
      OBVIOUS
    <3>1. j \in 1..n /\ ~(j <= i)
      BY <1>1, <2>3
    <3>2. e[j] \in speaking
      BY <1>1, <3>1
    <3> QED
      BY <2>4, <3>1, <3>2
  <2>6. b \in Cascade(perms, L) <=> b \in L[i].allow
    <3>1. i \in 1..Len(L) /\ Says(b, L[i])
      BY <1>1, <2>3
    <3> QED
      BY <1>1, <2>5, <3>1, LastDecides
  <2>7. ASSUME NEW s \in speaking PROVE Height(roles, s) <= Height(roles, e[i])
    <3>1. PICK j \in 1..n : s = e[j]
      BY <1>1
    <3>2. j <= i
      BY <2>4, <3>1
    <3>3. j = i \/ j < i
      BY <3>2
    <3> QED
      BY <1>1, <1>2, <3>1, <3>3
  <2>8. /\ Highly(speaking) \in speaking
        /\ \A s \in speaking : Height(roles, s) <= Height(roles, Highly(speaking))
    BY <2>3, <2>7 DEF Highly
  <2>9. Highly(speaking) = e[i]
    <3>1. Height(roles, Highly(speaking)) = Height(roles, e[i])
      <4> DEFINE a == Height(roles, Highly(speaking))
                 c == Height(roles, e[i])
      <4>1. a <= c /\ c <= a
        BY <2>3, <2>7, <2>8
      <4>2. a \in 0..B /\ c \in 0..B
        BY <2>3, <2>8
      <4> HIDE DEF a, c
      <4>3. a = c
        BY <4>1, <4>2
      <4> QED
        BY <4>3 DEF a, c
    <3> QED
      BY <2>3, <2>8, <3>1 DEF Tied
  <2> QED
    BY <1>1, <1>4, <2>6, <2>9 DEF L, HighestDecides
<1> QED
  BY <1>3, <1>4

(* One override decides what it speaks of.                                 *)
LEMMA OneDecides ==
  ASSUME NEW perms, NEW o, NEW b
  PROVE  b \in Cascade(perms, <<o>>) <=> IF Says(b, o) THEN b \in o.allow ELSE b \in perms
<1>1. Len(<<o>>) = 1 /\ <<o>>[1] = o
  OBVIOUS
<1>2. CASE Says(b, o)
  <2>1. \A j \in (1 + 1)..Len(<<o>>) : ~Says(b, <<o>>[j])
    BY <1>1
  <2>2. b \in Cascade(perms, <<o>>) <=> b \in <<o>>[1].allow
    BY <1>1, <1>2, <2>1, LastDecides
  <2> QED
    BY <1>2, <2>2
<1>3. CASE ~Says(b, o)
  <2>1. \A j \in 1..Len(<<o>>) : ~Says(b, <<o>>[j])
    BY <1>1, <1>3
  <2> QED
    BY <1>1, <1>3, <2>1, Undecided
<1> QED
  BY <1>2, <1>3

LEMMA NoneDecides ==
  ASSUME NEW perms, NEW b PROVE b \in Cascade(perms, <<>>) <=> b \in perms
<1>1. Len(<<>>) \in Nat /\ \A i \in 1..Len(<<>>) : ~Says(b, <<>>[i])
  OBVIOUS
<1> QED
  BY <1>1, Undecided

-----------------------------------------------------------------------------
USE RolesAssumption

(* The types of what the fold reads.                                       *)
Rights ==
  /\ DOMAIN roles \subseteq Ids /\ \A r \in DOMAIN roles : roles[r] \in Role
  /\ held \in [Members -> SUBSET Ids]
  /\ \A p \in DOMAIN overrides : overrides[p] \in Mask

LEMMA IdsFinite == IsFiniteSet(Ids)
BY FS_AddElement DEF Ids

LEMMA Heights == ASSUME Rights, NEW r PROVE Height(roles, r) \in 0..MaxPosition
BY DEF Rights, Height, Live, Role

(* What the roles of a member give.                                        *)
LEMMA RolesGive ==
  ASSUME Rights, NEW u \in Members, ~Tied(Applicable(roles, held[u])), NEW b
  PROVE  b \in RolePermissions(roles, held[u]) <=> GivenByRoles(b, held[u])
<1> DEFINE S == Applicable(roles, held[u])
           speaking == {r \in S : Says(b, roles[r])}
           given == Cascade({}, LayersOf(roles, S, roles))
<1>1. IsFiniteSet(S)
  BY IdsFinite, FS_Subset DEF Rights, Applicable, Live
<1>2. \A r \in S : Height(roles, r) \in 0..MaxPosition /\ roles[r] \in Role
  BY Heights DEF Rights, Applicable, Live
<1> HIDE DEF S
<1>3. InLayers(roles, S, Role, roles)
  BY <1>1, <1>2, LayersAre
<1>4. RolePermissions(roles, held[u]) = given
  <2>1. DOMAIN LowestFirst(roles, S) = 1..Cardinality(S)
    BY <1>3 DEF InLayers
  <2> QED
    BY <2>1 DEF RolePermissions, LayersOf, S
<1>5. b \in given <=> IF speaking = {} THEN b \in {} ELSE b \in roles[Highly(speaking)].allow
  <2>1. ~Tied(S)
    BY DEF S
  <2> HIDE DEF speaking
  <2>2. speaking \in SUBSET S /\ \A r \in S : r \in speaking <=> Says(b, roles[r])
    BY DEF speaking
  <2>3. HighestDecides(b, S, roles, {}, speaking)
    BY <1>1, <1>2, <2>1, <2>2, RolesDecide
  <2> QED
    BY <2>3 DEF HighestDecides
<1> QED
  BY <1>4, <1>5 DEF GivenByRoles, S

(* What the overrides of roles in a scope leave of perms.                  *)
LEMMA ScopeDecides ==
  ASSUME Rights, NEW u \in Members, NEW scope, ~Tied(Counted(held[u], overrides, scope)), NEW b
  PROVE  /\ RoleLayers(roles, held[u], overrides, scope) \in Seq(Mask)
         /\ \A perms :
              b \in Cascade(perms, RoleLayers(roles, held[u], overrides, scope)) <=>
                IF SpeakingOf(b, scope, held[u]) = {} THEN b \in perms
                ELSE b \in overrides[Place(scope, Highly(SpeakingOf(b, scope, held[u])))].allow
<1> DEFINE S == Counted(held[u], overrides, scope)
           f == [r \in S |-> overrides[Place(scope, r)]]
           speaking == {r \in S : Says(b, f[r])}
           L == LayersOf(roles, S, f)
<1>1. IsFiniteSet(S)
  <2>1. S \subseteq Ids
    BY DEF Rights, Counted, Ids
  <2> HIDE DEF S
  <2> QED
    BY <2>1, IdsFinite, FS_Subset
<1>2. \A r \in S : Height(roles, r) \in 0..MaxPosition /\ f[r] \in Mask
  BY Heights DEF Rights, Counted
<1>3. speaking = SpeakingOf(b, scope, held[u])
  BY DEF SpeakingOf, Counted
<1>4. \A r \in S : f[r] = overrides[Place(scope, r)]
  OBVIOUS
<1>5. ~Tied(S)
  OBVIOUS
<1>6. S = Counted(held[u], overrides, scope)
  OBVIOUS
<1> HIDE DEF S, f
<1>7. InLayers(roles, S, Mask, f)
  BY <1>1, <1>2, LayersAre
<1>8. RoleLayers(roles, held[u], overrides, scope) = L
  <2>1. /\ DOMAIN LowestFirst(roles, S) = 1..Cardinality(S)
        /\ \A i \in 1..Cardinality(S) : LowestFirst(roles, S)[i] \in S
    BY <1>7 DEF InLayers
  <2> QED
    BY <1>4, <1>6, <2>1 DEF RoleLayers, LayersOf
<1>9. ASSUME NEW perms
      PROVE  b \in Cascade(perms, L) <=>
               IF speaking = {} THEN b \in perms ELSE b \in f[Highly(speaking)].allow
  <2> HIDE DEF speaking
  <2>1. speaking \in SUBSET S /\ \A r \in S : r \in speaking <=> Says(b, f[r])
    BY DEF speaking
  <2>2. HighestDecides(b, S, f, perms, speaking)
    BY <1>1, <1>2, <1>5, <2>1, RolesDecide
  <2> QED
    BY <2>2 DEF HighestDecides
<1>10. speaking # {} => Highly(speaking) \in S
  <2> SUFFICES ASSUME speaking # {} PROVE Highly(speaking) \in S
    OBVIOUS
  <2>1. \A r \in speaking : Height(roles, r) \in (-MaxPosition)..MaxPosition
    BY <1>2
  <2> DEFINE key == [r \in speaking |-> Height(roles, r)]
  <2>2. \A r \in speaking : key[r] \in (-MaxPosition)..MaxPosition
    BY <2>1
  <2>3. PICK x \in speaking : \A y \in speaking : key[y] <= key[x]
    <3> HIDE DEF key, speaking
    <3> QED
      BY <2>2, Greatest
  <2>4. \A y \in speaking : Height(roles, y) <= Height(roles, x)
    BY <2>3
  <2>5. Highly(speaking) \in speaking
    BY <2>4 DEF Highly
  <2> QED
    BY <2>5
<1>11. L \in Seq(Mask)
  BY <1>7 DEF InLayers
<1> HIDE DEF L, speaking
<1> QED
  BY <1>3, <1>4, <1>8, <1>9, <1>10, <1>11

(* And what an override of the member does.                                *)
Own(b, scope, u) == Place(scope, u) \in DOMAIN overrides /\ Says(b, overrides[Place(scope, u)])
LEMMA UserDecides ==
  ASSUME Rights, NEW u, NEW scope, NEW b
  PROVE  /\ UserLayer(overrides, scope, u) \in Seq(Mask)
         /\ \A perms :
              b \in Cascade(perms, UserLayer(overrides, scope, u)) <=>
                IF Own(b, scope, u) THEN b \in overrides[Place(scope, u)].allow ELSE b \in perms
<1>1. CASE Place(scope, u) \in DOMAIN overrides
  <2> DEFINE o == overrides[Place(scope, u)]
  <2>1. UserLayer(overrides, scope, u) = <<o>> /\ o \in Mask
    BY <1>1 DEF UserLayer, Rights
  <2>2. Own(b, scope, u) <=> Says(b, o)
    BY <1>1 DEF Own
  <2> HIDE DEF o
  <2>3. <<o>> \in Seq(Mask)
    BY <2>1
  <2> QED
    BY <2>1, <2>2, <2>3, OneDecides DEF o
<1>2. CASE Place(scope, u) \notin DOMAIN overrides
  <2>1. UserLayer(overrides, scope, u) = <<>> /\ ~Own(b, scope, u)
    BY <1>2 DEF UserLayer, Own
  <2> QED
    BY <2>1, NoneDecides
<1> QED
  BY <1>1, <1>2

(* The layers one after the other decide as the documentation has it.      *)
LEMMA FoldsAsDecided ==
  ASSUME Rights, NEW u \in Members, Ranked(u), ~GivenByRoles(Admin, held[u]), NEW b
  PROVE  /\ b \in ServerPermissions(roles, held[u], overrides, u) <=> Decided(b, u, {})
         /\ b \in ForCategory(roles, held[u], overrides, u) <=> Decided(b, u, {"category"})
         /\ b \in ForChannel(roles, held[u], overrides, u)
              <=> Decided(b, u, {"category", "channel"})
<1> DEFINE G == RolePermissions(roles, held[u])
           server == UserLayer(overrides, "server", u)
           catRoles == RoleLayers(roles, held[u], overrides, "category")
           chRoles == RoleLayers(roles, held[u], overrides, "channel")
           cat == UserLayer(overrides, "category", u)
           ch == UserLayer(overrides, "channel", u)
           C0 == Cascade(G, server)
           C1 == Cascade(C0, catRoles)
           spCat == SpeakingOf(b, "category", held[u])
           spCh == SpeakingOf(b, "channel", held[u])
           ByUser(s) == b \in overrides[Place(s, u)].allow
           ByRole(s) == b \in overrides[Place(s, Highly(SpeakingOf(b, s, held[u])))].allow
<1>1. /\ ~Tied(Applicable(roles, held[u]))
      /\ ~Tied(Counted(held[u], overrides, "category"))
      /\ ~Tied(Counted(held[u], overrides, "channel"))
  BY DEF Ranked
<1>2. b \in G <=> GivenByRoles(b, held[u])
  BY <1>1, RolesGive
<1>3. Admin \notin G
  BY <1>1, RolesGive
<1>4. /\ server \in Seq(Mask)
      /\ \A perms : b \in Cascade(perms, server) <=>
           IF Own(b, "server", u) THEN ByUser("server") ELSE b \in perms
  BY UserDecides
<1>5. /\ cat \in Seq(Mask)
      /\ \A perms : b \in Cascade(perms, cat) <=>
           IF Own(b, "category", u) THEN ByUser("category") ELSE b \in perms
  BY UserDecides
<1>6. /\ ch \in Seq(Mask)
      /\ \A perms : b \in Cascade(perms, ch) <=>
           IF Own(b, "channel", u) THEN ByUser("channel") ELSE b \in perms
  BY UserDecides
<1>7. /\ catRoles \in Seq(Mask)
      /\ \A perms : b \in Cascade(perms, catRoles) <=>
           IF spCat = {} THEN b \in perms ELSE ByRole("category")
  BY <1>1, ScopeDecides
<1>8. /\ chRoles \in Seq(Mask)
      /\ \A perms : b \in Cascade(perms, chRoles) <=>
           IF spCh = {} THEN b \in perms ELSE ByRole("channel")
  BY <1>1, ScopeDecides
<1>9. /\ ServerPermissions(roles, held[u], overrides, u) = Cascade(G, server \o <<>>)
      /\ ForCategory(roles, held[u], overrides, u) = Cascade(G, server \o (catRoles \o cat))
      /\ ForChannel(roles, held[u], overrides, u)
           = Cascade(G, server \o (((catRoles \o chRoles) \o cat) \o ch))
  BY <1>3 DEF ServerPermissions, ForCategory, ForChannel, Folded
<1> HIDE DEF G, server, catRoles, chRoles, cat, ch
<1>10. server \in Seq(Mask) /\ <<>> \in Seq(Mask)
  BY <1>4
<1>11. Cascade(G, server \o <<>>) = Cascade(C0, <<>>)
  BY <1>10, CascadeJoins
<1>12. Cascade(G, server \o (catRoles \o cat)) = Cascade(C1, cat)
  <2>1. catRoles \o cat \in Seq(Mask)
    BY <1>5, <1>7
  <2>2. Cascade(G, server \o (catRoles \o cat)) = Cascade(C0, catRoles \o cat)
    BY <1>10, <2>1, CascadeJoins
  <2> HIDE DEF C0
  <2>3. Cascade(C0, catRoles \o cat) = Cascade(C1, cat)
    BY <1>5, <1>7, CascadeJoins
  <2> QED
    BY <2>2, <2>3
<1>13. Cascade(G, server \o (((catRoles \o chRoles) \o cat) \o ch))
         = Cascade(Cascade(Cascade(C1, chRoles), cat), ch)
  <2> DEFINE two == catRoles \o chRoles
             three == two \o cat
  <2>1. two \in Seq(Mask)
    BY <1>7, <1>8
  <2>2. Cascade(C0, two) = Cascade(C1, chRoles)
    <3> HIDE DEF C0
    <3> QED
      BY <1>7, <1>8, CascadeJoins
  <2> HIDE DEF two
  <2>3. three \in Seq(Mask)
    BY <1>5, <2>1
  <2>4. Cascade(C0, three) = Cascade(Cascade(C0, two), cat)
    <3> HIDE DEF C0
    <3> QED
      BY <1>5, <2>1, CascadeJoins
  <2> HIDE DEF three
  <2>5. three \o ch \in Seq(Mask)
    BY <1>6, <2>3
  <2>6. Cascade(G, server \o (three \o ch)) = Cascade(C0, three \o ch)
    BY <1>10, <2>5, CascadeJoins
  <2>7. Cascade(C0, three \o ch) = Cascade(Cascade(C0, three), ch)
    <3> HIDE DEF C0
    <3> QED
      BY <1>6, <2>3, CascadeJoins
  <2> HIDE DEF C0, C1
  <2>8. Cascade(G, server \o (three \o ch)) = Cascade(Cascade(Cascade(C1, chRoles), cat), ch)
    BY <2>2, <2>4, <2>6, <2>7
  <2> QED
    BY <2>8 DEF three, two
<1>14. b \in C0 <=> IF Own(b, "server", u) THEN ByUser("server") ELSE GivenByRoles(b, held[u])
  BY <1>2, <1>4
<1>15. b \in C1 <=> IF spCat = {} THEN b \in C0 ELSE ByRole("category")
  BY <1>7
<1>16. b \in Cascade(C1, chRoles) <=> IF spCh = {} THEN b \in C1 ELSE ByRole("channel")
  BY <1>8
<1> HIDE DEF C0, C1
<1>17. Decided(b, u, {}) <=>
         IF Own(b, "server", u) THEN ByUser("server") ELSE GivenByRoles(b, held[u])
  BY DEF Decided, Own
<1>18. Decided(b, u, {"category"}) <=>
         IF Own(b, "category", u) THEN ByUser("category")
         ELSE IF spCat # {} THEN ByRole("category")
         ELSE IF Own(b, "server", u) THEN ByUser("server") ELSE GivenByRoles(b, held[u])
  BY DEF Decided, Own
<1>19. Decided(b, u, {"category", "channel"}) <=>
         IF Own(b, "channel", u) THEN ByUser("channel")
         ELSE IF Own(b, "category", u) THEN ByUser("category")
         ELSE IF spCh # {} THEN ByRole("channel")
         ELSE IF spCat # {} THEN ByRole("category")
         ELSE IF Own(b, "server", u) THEN ByUser("server") ELSE GivenByRoles(b, held[u])
  BY DEF Decided, Own
<1> HIDE DEF ByUser, ByRole, spCat, spCh
<1>20. b \in ServerPermissions(roles, held[u], overrides, u) <=> Decided(b, u, {})
  BY <1>9, <1>11, <1>14, <1>17, NoneDecides
<1>21. b \in ForCategory(roles, held[u], overrides, u) <=> Decided(b, u, {"category"})
  BY <1>5, <1>9, <1>12, <1>14, <1>15, <1>18
<1>22. b \in ForChannel(roles, held[u], overrides, u) <=> Decided(b, u, {"category", "channel"})
  BY <1>5, <1>6, <1>9, <1>13, <1>14, <1>15, <1>16, <1>19
<1> QED
  BY <1>20, <1>21, <1>22

LEMMA FoldsAsStated == Rights => FoldDecides
BY FoldsAsDecided DEF FoldDecides

-----------------------------------------------------------------------------
(* Types, and what a request of each kind and stage brings along.          *)
Moving == Ids \X (0..MaxPosition)
Scrubbing == Members \X SUBSET Ids
OfOneRole == {"update", "delete", "restore", "harddelete", "assign", "unassign"}

Fits(o) ==
  /\ Len(o.read) <= Len(o.roles)
  /\ o.stage = "role" => Len(o.read) < Len(o.roles)
  /\ o.stage \in {"role", "rank"} => o.kind \notin {"create", "transfer"}
  /\ o.kind \in OfOneRole => Len(o.roles) = 1
  /\ o.kind = "transfer" /\ o.stage \in {"member", "write"} => o.roles # <<>>
  /\ o.kind = "transfer" \/ o.stage \in {"member", "override"} => o.read = <<>>
  /\ o.kind = "update" /\ o.stage \in {"rank", "cap", "write"} => o.read # <<>>
  /\ o.kind \in {"assign", "unassign", "transfer"} => o.whom \in Members
  /\ o.kind \in {"upsert", "remove"} /\ o.roles = <<>> => o.whom \in Members
  /\ o.kind = "harddelete" /\ o.stage # "role" => Head(o.roles) # Everyone
  /\ o.kind \in {"create", "swap", "reorder"} => o.todo \in Seq(Moving)
  /\ o.stage = "move" => o.todo # <<>>
  /\ o.kind = "harddelete" => o.todo \in Seq(Scrubbing)

Tables ==
  /\ owner \in Members
  /\ Everyone \in DOMAIN roles
  /\ Rights
  /\ DOMAIN overrides \subseteq {Place(s, t) : s \in Scopes, t \in Ids \cup Members}

Requests ==
  /\ ops \in [Ops -> Op \cup {None}]
  /\ \A k \in Ops : ops[k] # None => Fits(ops[k])

Base == Tables /\ Requests /\ history \in History

LEMMA BaseInit == Init => Base
<1> SUFFICES ASSUME Init PROVE Base
  OBVIOUS
<1>1. Tables
  BY DEF Init, Tables, Rights, Ids, Role
<1>2. Requests
  BY DEF Init, Requests
<1>3. history \in History
  BY DEF Init, History
<1> QED
  BY <1>1, <1>2, <1>3 DEF Base

LEMMA OneRequest ==
  ASSUME Requests, NEW k \in Ops, NEW r, r = None \/ (r \in Op /\ Fits(r)), Become(k, r)
  PROVE  Requests'
<1>1. \A j \in Ops : ops'[j] = IF j = k THEN r ELSE ops[j]
  BY DEF Requests, Become
<1>2. ops' \in [Ops -> Op \cup {None}]
  BY DEF Requests, Become
<1>3. \A j \in Ops : ops'[j] # None => Fits(ops'[j])
  BY <1>1 DEF Requests
<1> QED
  BY <1>2, <1>3 DEF Requests

LEMMA AtWork ==
  ASSUME Requests, NEW k \in Ops, ops[k] # None PROVE ops[k] \in Op /\ Fits(ops[k])
BY DEF Requests

LEMMA TablesStay == ASSUME Tables, UNCHANGED tables PROVE Tables'
BY DEF Tables, tables, Rights

LEMMA EmptySequences ==
  /\ <<>> \in Seq(Ids) /\ <<>> \in Seq(Role) /\ <<>> \in Seq(Moving) /\ <<>> \in Seq(Scrubbing)
  /\ <<>> \in Seq(Moving \cup Scrubbing) /\ Len(<<>>) = 0
OBVIOUS

LEMMA Todos ==
  ASSUME NEW t, t \in Seq(Moving) \/ t \in Seq(Scrubbing)
  PROVE  t \in Seq((Ids \X (0..MaxPosition)) \cup (Members \X SUBSET Ids))
BY SeqMonotonic DEF Moving, Scrubbing

(* What a request is when it begins.                                       *)
OneRow(r) == \E x \in DOMAIN roles : r.roles = <<x>>
Customary(r) == \A i \in 1..Len(r.roles) : r.roles[i] \in DOMAIN roles \ {Everyone}
Distinct(named) == \A i, j \in 1..Len(named) : named[i] = named[j] => i = j
Fresh(r) ==
  /\ r \in Op /\ r.read = <<>> /\ r.mine = {} /\ r.todo = <<>> /\ r.row = "absent"
  /\ r.kind \in {"create", "transfer"} => r.stage = "list" /\ r.roles = <<>>
  /\ r.kind = "transfer" => r.whom \in Members
  /\ r.kind = "reorder" => r.stage = "list" /\ Customary(r)
  /\ r.kind \in {"update", "delete", "restore", "harddelete"} => r.stage = "role" /\ OneRow(r)
  /\ r.kind \in {"assign", "unassign"} => r.stage = "member" /\ OneRow(r) /\ r.whom \in Members
  /\ r.kind = "swap" => /\ r.stage = "role" /\ Customary(r)
                        /\ Distinct(r.roles) /\ Len(r.roles) = 2
  /\ r.kind = "upsert" => \/ r.stage = "role" /\ OneRow(r)
                          \/ r.stage = "rank" /\ r.roles = <<>> /\ r.whom \in Members
  /\ r.kind = "remove" => r.stage = "override" /\ (r.roles = <<>> => r.whom \in Members)

Begins(k, r) ==
  /\ Fresh(r)
  /\ ops[k] = None /\ Become(k, r)
  /\ Guarded(r.kind, r.user)
  /\ history.made < MaxRequests
  /\ history' = [history EXCEPT !.made = @ + 1,
                                !.tangled = @ \/ \E j \in Ops : ops[j] # None]
  /\ UNCHANGED tables

Request(kind, u, stage, named, whom, scope, mask) ==
  [kind |-> kind, user |-> u, stage |-> stage, roles |-> named, whom |-> whom,
   scope |-> scope, mask |-> mask, read |-> <<>>, mine |-> {}, height |-> 0,
   row |-> "absent", todo |-> <<>>]

Is(r, kind, u, stage, named, whom) ==
  /\ r \in Op /\ r.kind = kind /\ r.user = u /\ r.stage = stage /\ r.roles = named /\ r.whom = whom
  /\ r.read = <<>> /\ r.mine = {} /\ r.todo = <<>> /\ r.row = "absent"

LEMMA RequestIs ==
  ASSUME NEW kind \in Kinds, NEW u \in Members, NEW stage \in Stages, NEW named \in Seq(Ids),
         NEW whom \in Members \cup {None}, NEW scope \in Scopes, NEW mask \in Mask
  PROVE  Is(Request(kind, u, stage, named, whom, scope, mask), kind, u, stage, named, whom)
BY EmptySequences, Todos DEF Request, Op, Rows, Is

LEMMA Started ==
  ASSUME NEW k, NEW kind, NEW u, NEW stage, NEW named, NEW whom, NEW scope, NEW mask,
         Start(k, kind, u, stage, named, whom, scope, mask),
         Fresh(Request(kind, u, stage, named, whom, scope, mask))
  PROVE  \E r : Begins(k, r) /\ r.user = u
<1> DEFINE r == Request(kind, u, stage, named, whom, scope, mask)
<1>1. Become(k, r)
  BY DEF Start, Request
<1>2. r.kind = kind /\ r.user = u
  BY DEF Request
<1>3. Begins(k, r)
  BY <1>1, <1>2 DEF Start, Begins
<1> QED
  BY <1>2, <1>3

LEMMA Naming ==
  /\ \A r \in Ids : <<r>> \in Seq(Ids) /\ Len(<<r>>) = 1 /\ <<r>> # <<>> /\ Head(<<r>>) = r
  /\ \A r, s \in Ids : <<r, s>> \in Seq(Ids) /\ <<r, s>> # <<>>
  /\ NoMask \in Mask /\ Masks \subseteq Mask
BY DEF NoMask, Mask

LEMMA StartsFresh ==
  ASSUME Base, NEW k \in Ops, NEW u \in Members, StartAny(k, u)
  PROVE  \E r : Begins(k, r) /\ r.user = u
<1>1. DOMAIN roles \subseteq Ids
  BY DEF Base, Tables, Rights
<1>2. CASE \E m \in Masks : Start(k, "create", u, "list", <<>>, None, "server", m)
  <2>1. PICK m \in Masks : Start(k, "create", u, "list", <<>>, None, "server", m)
    BY <1>2
  <2>2. Fresh(Request("create", u, "list", <<>>, None, "server", m))
    <3> DEFINE q == Request("create", u, "list", <<>>, None, "server", m)
    <3>1. Is(q, "create", u, "list", <<>>, None)
      BY RequestIs, Naming, EmptySequences DEF Kinds, Stages, Scopes
    <3> HIDE DEF q
    <3>2. Fresh(q)
      BY <3>1 DEF Fresh, Is
    <3> QED
      BY <3>2 DEF q
  <2> QED
    BY <2>1, <2>2, Started
<1>3. CASE \E r \in DOMAIN roles : \E m \in Masks :
             Start(k, "update", u, "role", <<r>>, None, "server", m)
  <2>1. PICK r \in DOMAIN roles, m \in Masks :
             Start(k, "update", u, "role", <<r>>, None, "server", m)
    BY <1>3
  <2>2. Fresh(Request("update", u, "role", <<r>>, None, "server", m))
    <3> DEFINE q == Request("update", u, "role", <<r>>, None, "server", m)
    <3>1. Is(q, "update", u, "role", <<r>>, None)
      BY <1>1, RequestIs, Naming DEF Kinds, RoleOps, Stages, Scopes
    <3> HIDE DEF q
    <3>2. Fresh(q)
      BY <1>1, <3>1 DEF Fresh, Is, OneRow
    <3> QED
      BY <3>2 DEF q
  <2> QED
    BY <2>1, <2>2, Started
<1>4. CASE \E r \in DOMAIN roles : \E kind \in {"delete", "restore", "harddelete"} :
             Start(k, kind, u, "role", <<r>>, None, "server", NoMask)
  <2>1. PICK r \in DOMAIN roles, kind \in {"delete", "restore", "harddelete"} :
             Start(k, kind, u, "role", <<r>>, None, "server", NoMask)
    BY <1>4
  <2>2. Fresh(Request(kind, u, "role", <<r>>, None, "server", NoMask))
    <3> DEFINE q == Request(kind, u, "role", <<r>>, None, "server", NoMask)
    <3>1. Is(q, kind, u, "role", <<r>>, None)
      BY <1>1, RequestIs, Naming DEF Kinds, RoleOps, Stages, Scopes
    <3> HIDE DEF q
    <3>2. Fresh(q)
      BY <1>1, <3>1 DEF Fresh, Is, OneRow
    <3> QED
      BY <3>2 DEF q
  <2> QED
    BY <2>1, <2>2, Started
<1>5. CASE \E r \in DOMAIN roles : \E v \in Members, kind \in {"assign", "unassign"} :
             Start(k, kind, u, "member", <<r>>, v, "server", NoMask)
  <2>1. PICK r \in DOMAIN roles, v \in Members, kind \in {"assign", "unassign"} :
             Start(k, kind, u, "member", <<r>>, v, "server", NoMask)
    BY <1>5
  <2>2. Fresh(Request(kind, u, "member", <<r>>, v, "server", NoMask))
    <3> DEFINE q == Request(kind, u, "member", <<r>>, v, "server", NoMask)
    <3>1. Is(q, kind, u, "member", <<r>>, v)
      BY <1>1, RequestIs, Naming DEF Kinds, Stages, Scopes
    <3> HIDE DEF q
    <3>2. Fresh(q)
      BY <1>1, <3>1 DEF Fresh, Is, OneRow
    <3> QED
      BY <3>2 DEF q
  <2> QED
    BY <2>1, <2>2, Started
<1>6. CASE \E r, s \in DOMAIN roles \ {Everyone} : r # s /\
             Start(k, "swap", u, "role", <<r, s>>, None, "server", NoMask)
  <2>1. PICK r \in DOMAIN roles \ {Everyone}, s \in DOMAIN roles \ {Everyone} : r # s /\
             Start(k, "swap", u, "role", <<r, s>>, None, "server", NoMask)
    BY <1>6
  <2>2. <<r, s>> \in Seq(Ids) /\ Len(<<r, s>>) = 2 /\ <<r, s>>[1] = r /\ <<r, s>>[2] = s
    BY <1>1
  <2>3. Fresh(Request("swap", u, "role", <<r, s>>, None, "server", NoMask))
    <3> DEFINE q == Request("swap", u, "role", <<r, s>>, None, "server", NoMask)
    <3>1. Is(q, "swap", u, "role", <<r, s>>, None)
      BY <2>1, <2>2, RequestIs, Naming DEF Kinds, RoleOps, Stages, Scopes
    <3> HIDE DEF q
    <3>2. Fresh(q)
      BY <2>1, <2>2, <3>1 DEF Fresh, Is, Customary, Distinct
    <3> QED
      BY <3>2 DEF q
  <2> QED
    BY <2>1, <2>3, Started
<1>7. CASE \E n \in 2..MaxNamed : \E named \in [1..n -> DOMAIN roles \ {Everyone}] :
             Start(k, "reorder", u, "list", named, None, "server", NoMask)
  <2> PICK n \in 2..MaxNamed : \E named \in [1..n -> DOMAIN roles \ {Everyone}] :
             Start(k, "reorder", u, "list", named, None, "server", NoMask)
    BY <1>7
  <2>1. PICK named \in [1..n -> DOMAIN roles \ {Everyone}] :
             Start(k, "reorder", u, "list", named, None, "server", NoMask)
    OBVIOUS
  <2>2. /\ named \in Seq(Ids)
        /\ \A i \in 1..Len(named) : named[i] \in DOMAIN roles \ {Everyone}
    <3>1. n \in Nat /\ DOMAIN named = 1..n /\ \A i \in 1..n : named[i] \in DOMAIN roles \ {Everyone}
      BY RolesAssumption
    <3>2. named \in [1..n -> Ids]
      BY <1>1
    <3>3. named \in Seq(Ids)
      BY <3>1, <3>2
    <3>4. Len(named) = n
      BY <3>1, <3>3
    <3> QED
      BY <3>1, <3>3, <3>4
  <2>3. Fresh(Request("reorder", u, "list", named, None, "server", NoMask))
    <3> DEFINE q == Request("reorder", u, "list", named, None, "server", NoMask)
    <3>1. Is(q, "reorder", u, "list", named, None)
      BY <2>2, RequestIs, Naming DEF Kinds, Stages, Scopes
    <3> HIDE DEF q
    <3>2. Fresh(q)
      BY <2>2, <3>1 DEF Fresh, Is, Customary
    <3> QED
      BY <3>2 DEF q
  <2> QED
    BY <2>1, <2>3, Started
<1>8. CASE \E m \in Masks : \E r \in DOMAIN roles, scope \in {"category", "channel"} :
             Start(k, "upsert", u, "role", <<r>>, None, scope, m)
  <2>1. PICK m \in Masks, r \in DOMAIN roles, scope \in {"category", "channel"} :
             Start(k, "upsert", u, "role", <<r>>, None, scope, m)
    BY <1>8
  <2>2. Fresh(Request("upsert", u, "role", <<r>>, None, scope, m))
    <3> DEFINE q == Request("upsert", u, "role", <<r>>, None, scope, m)
    <3>1. Is(q, "upsert", u, "role", <<r>>, None)
      BY <1>1, RequestIs, Naming DEF Kinds, Stages, Scopes
    <3> HIDE DEF q
    <3>2. Fresh(q)
      BY <1>1, <3>1 DEF Fresh, Is, OneRow
    <3> QED
      BY <3>2 DEF q
  <2> QED
    BY <2>1, <2>2, Started
<1>9. CASE \E m \in Masks : \E v \in Members, scope \in Scopes :
             Start(k, "upsert", u, "rank", <<>>, v, scope, m)
  <2>1. PICK m \in Masks, v \in Members, scope \in Scopes :
             Start(k, "upsert", u, "rank", <<>>, v, scope, m)
    BY <1>9
  <2>2. Fresh(Request("upsert", u, "rank", <<>>, v, scope, m))
    <3> DEFINE q == Request("upsert", u, "rank", <<>>, v, scope, m)
    <3>1. Is(q, "upsert", u, "rank", <<>>, v)
      BY RequestIs, Naming, EmptySequences DEF Kinds, Stages
    <3> HIDE DEF q
    <3>2. Fresh(q)
      BY <3>1 DEF Fresh, Is
    <3> QED
      BY <3>2 DEF q
  <2> QED
    BY <2>1, <2>2, Started
<1>10. CASE \E p \in DOMAIN overrides :
       IF p.target \in Members
       THEN Start(k, "remove", u, "override", <<>>, p.target, p.scope, NoMask)
       ELSE Start(k, "remove", u, "override", <<p.target>>, None, p.scope, NoMask)
  <2>1. PICK p \in DOMAIN overrides :
       IF p.target \in Members
       THEN Start(k, "remove", u, "override", <<>>, p.target, p.scope, NoMask)
       ELSE Start(k, "remove", u, "override", <<p.target>>, None, p.scope, NoMask)
    BY <1>10
  <2>2. p.scope \in Scopes /\ p.target \in Ids \cup Members
    BY DEF Base, Tables, Place
  <2>3. CASE p.target \in Members
    <3>1. Fresh(Request("remove", u, "override", <<>>, p.target, p.scope, NoMask))
      <4> DEFINE q == Request("remove", u, "override", <<>>, p.target, p.scope, NoMask)
      <4>1. Is(q, "remove", u, "override", <<>>, p.target)
        BY <2>2, <2>3, RequestIs, Naming, EmptySequences DEF Kinds, Stages
      <4> HIDE DEF q
      <4>2. Fresh(q)
        BY <2>2, <2>3, <4>1 DEF Fresh, Is
      <4> QED
        BY <4>2 DEF q
    <3> QED
      BY <2>1, <2>3, <3>1, Started
  <2>4. CASE p.target \notin Members
    <3>1. Fresh(Request("remove", u, "override", <<p.target>>, None, p.scope, NoMask))
      <4> DEFINE q == Request("remove", u, "override", <<p.target>>, None, p.scope, NoMask)
      <4>1. Is(q, "remove", u, "override", <<p.target>>, None)
        BY <2>2, <2>4, RequestIs, Naming DEF Kinds, Stages
      <4> HIDE DEF q
      <4>2. Fresh(q)
        BY <2>2, <2>4, <4>1 DEF Fresh, Is
      <4> QED
        BY <4>2 DEF q
    <3> QED
      BY <2>1, <2>4, <3>1, Started
  <2> QED
    BY <2>3, <2>4
<1>11. CASE \E v \in Members \ {u} :
              Start(k, "transfer", u, "list", <<>>, v, "server", NoMask)
  <2>1. PICK v \in Members \ {u} : Start(k, "transfer", u, "list", <<>>, v, "server", NoMask)
    BY <1>11
  <2>2. Fresh(Request("transfer", u, "list", <<>>, v, "server", NoMask))
    <3> DEFINE q == Request("transfer", u, "list", <<>>, v, "server", NoMask)
    <3>1. Is(q, "transfer", u, "list", <<>>, v)
      BY RequestIs, Naming, EmptySequences DEF Kinds, Stages, Scopes
    <3> HIDE DEF q
    <3>2. Fresh(q)
      BY <3>1 DEF Fresh, Is
    <3> QED
      BY <3>2 DEF q
  <2> QED
    BY <2>1, <2>2, Started
<1> QED
  BY <1>2, <1>3, <1>4, <1>5, <1>6, <1>7, <1>8, <1>9, <1>10, <1>11 DEF StartAny

LEMMA BeginsBase ==
  ASSUME Base, NEW k \in Ops, NEW r, Begins(k, r) PROVE Base'
<1>1. r \in Op /\ Fits(r)
  <2>1. r.kind \in OfOneRole => OneRow(r)
    BY DEF Begins, Fresh, OfOneRole
  <2>2. OneRow(r) => Len(r.roles) = 1
    BY DEF OneRow
  <2>3. r.stage = "role" => OneRow(r) \/ Len(r.roles) = 2
    BY DEF Begins, Fresh, Op, Kinds, RoleOps
  <2> QED
    <3>1. r \in Op /\ r.read = <<>> /\ r.todo = <<>> /\ r.roles \in Seq(Ids)
      BY DEF Begins, Fresh, Op
    <3>2. /\ Len(r.read) = 0 /\ Len(r.roles) \in Nat
          /\ r.todo \in Seq(Moving) /\ r.todo \in Seq(Scrubbing)
      BY <3>1, EmptySequences
    <3>3. /\ r.stage \notin {"cap", "write", "move"}
          /\ r.stage = "rank" => r.kind = "upsert"
      <4>1. r.kind \in Kinds
        BY DEF Begins, Fresh, Op
      <4>2. r.stage \in {"list", "role", "member", "override"} \/ (r.stage = "rank" /\ r.kind = "upsert")
        BY <4>1 DEF Begins, Fresh, Kinds, RoleOps
      <4> QED
        BY <4>2
    <3>4. /\ r.stage \in {"role", "rank"} => r.kind \notin {"create", "transfer"}
          /\ r.kind = "transfer" => r.stage = "list"
          /\ r.kind = "harddelete" => r.stage = "role"
          /\ r.kind \in {"assign", "unassign", "transfer"} => r.whom \in Members
          /\ r.kind \in {"upsert", "remove"} /\ r.roles = <<>> => r.whom \in Members
      <4>1. r.kind = "upsert" /\ r.roles = <<>> => ~OneRow(r)
        BY DEF OneRow
      <4> QED
        BY <4>1 DEF Begins, Fresh
    <3>5. /\ Len(r.read) <= Len(r.roles)
          /\ r.stage = "role" => Len(r.read) < Len(r.roles)
      <4>1. Len(r.read) = 0 /\ Len(r.roles) \in Nat
        BY <3>2
      <4>2. r.stage = "role" => Len(r.roles) = 1 \/ Len(r.roles) = 2
        BY <2>2, <2>3
      <4> DEFINE m == Len(r.read)
                 n == Len(r.roles)
      <4>3. m = 0 /\ n \in Nat /\ (r.stage = "role" => n = 1 \/ n = 2)
        BY <4>1, <4>2
      <4> HIDE DEF m, n
      <4>4. m <= n /\ (r.stage = "role" => m < n)
        BY <4>3
      <4> QED
        BY <4>4 DEF m, n
    <3>6. r.kind \in OfOneRole => Len(r.roles) = 1
      BY <2>1, <2>2
    <3>7. r.kind = "update" /\ r.stage \in {"rank", "cap", "write"} => r.read # <<>>
      BY <3>3
    <3> HIDE DEF OfOneRole
    <3> QED
      BY <3>1, <3>2, <3>3, <3>4, <3>5, <3>6, <3>7 DEF Fits
<1>2. Requests'
  BY <1>1, OneRequest DEF Base, Begins
<1>3. Tables'
  BY TablesStay DEF Base, Begins
<1>4. history' \in History
  <2> DEFINE t == history.tangled \/ \E j \in Ops : ops[j] # None
  <2>1. t \in BOOLEAN
    OBVIOUS
  <2>2. history' = [history EXCEPT !.made = history.made + 1, !.tangled = t]
    BY DEF Begins
  <2> HIDE DEF t
  <2>3. history \in History /\ history.made + 1 \in 0..MaxRequests
    BY DEF Base, Begins, History
  <2> QED
    BY <2>1, <2>2, <2>3 DEF History
<1> QED
  BY <1>2, <1>3, <1>4 DEF Base

(* A step of a request that leaves what it names and has read.             *)
LEMMA Advances ==
  ASSUME NEW o \in Op, Fits(o), NEW r \in Op, r.kind = o.kind, r.roles = o.roles, r.whom = o.whom,
         r.read = o.read, r.todo = o.todo, r.stage # "move",
         r.stage = "role" => Len(o.read) < Len(o.roles),
         r.stage \in {"role", "rank"} => o.kind \notin {"create", "transfer"},
         r.stage \in {"member", "override"} => o.read = <<>>,
         o.kind = "transfer" /\ r.stage \in {"member", "write"} => o.roles # <<>>,
         o.kind = "update" /\ r.stage \in {"rank", "cap", "write"} => o.read # <<>>,
         o.kind = "harddelete" => o.stage # "role"
  PROVE  Fits(r)
BY DEF Fits

LEMMA Steps ==
  ASSUME Base, NEW k \in Ops, NEW r, r = None \/ (r \in Op /\ Fits(r)), Become(k, r),
         Tables', history' \in History
  PROVE  Base'
BY OneRequest DEF Base

LEMMA Reads ==
  ASSUME Base, NEW k \in Ops, NEW r, r = None \/ (r \in Op /\ Fits(r)), Become(k, r),
         UNCHANGED tables, history' \in History
  PROVE  Base'
<1>1. Tables'
  BY TablesStay DEF Base
<1> QED
  BY <1>1, Steps

LEMMA ReadRoleBase ==
  ASSUME Base, NEW k \in Ops, ReadRole(k) PROVE Base'
<1>1. PICK o \in Op : o = ops[k] /\ Fits(o)
  BY AtWork DEF Base, ReadRole, At
<1> DEFINE n == Len(o.read)
           r == o.roles[n + 1]
           new == [o EXCEPT !.read = Append(@, roles[r]),
                            !.stage = IF n + 1 < Len(o.roles) THEN "role" ELSE "rank"]
<1>2. o.stage = "role" /\ history' \in History /\ UNCHANGED tables
  BY <1>1 DEF ReadRole, At, Base
<1>3. n \in Nat /\ Len(o.roles) \in Nat /\ n + 1 \in 1..Len(o.roles) /\ r \in Ids
  <2>1. o.read \in Seq(Role) /\ o.roles \in Seq(Ids)
    BY DEF Op
  <2>2. n \in Nat /\ Len(o.roles) \in Nat /\ n < Len(o.roles)
    BY <1>1, <1>2, <2>1 DEF Fits
  <2>3. n + 1 \in 1..Len(o.roles)
    BY <2>2
  <2> QED
    BY <2>1, <2>2, <2>3
<1>4. \/ o.kind = "unassign" /\ Become(k, [o EXCEPT !.stage = "write"])
      \/ Become(k, None)
      \/ r \in DOMAIN roles /\ Acceptable(o.kind, r) /\ Become(k, new)
  BY <1>1 DEF ReadRole, Goto, Done
<1>5. CASE o.kind = "unassign" /\ Become(k, [o EXCEPT !.stage = "write"])
  <2> DEFINE to == [o EXCEPT !.stage = "write"]
  <2>1. /\ to \in Op /\ to.kind = o.kind /\ to.roles = o.roles /\ to.whom = o.whom
        /\ to.read = o.read /\ to.todo = o.todo /\ to.stage = "write"
    BY DEF Op, Stages
  <2> HIDE DEF to
  <2>2. Fits(to)
    BY <1>1, <1>5, <2>1, Advances
  <2>3. Become(k, to)
    BY <1>5 DEF to
  <2> QED
    BY <1>2, <2>1, <2>2, <2>3, Reads
<1>6. CASE Become(k, None)
  BY <1>2, <1>6, Reads
<1>7. CASE r \in DOMAIN roles /\ Acceptable(o.kind, r) /\ Become(k, new)
  <2>1. roles[r] \in Role
    BY <1>7 DEF Base, Tables, Rights
  <2>2. o.read \in Seq(Role)
    BY DEF Op
  <2>3. Append(o.read, roles[r]) \in Seq(Role) /\ Len(Append(o.read, roles[r])) = n + 1
        /\ Append(o.read, roles[r]) # <<>>
    <3> DEFINE row == roles[r]
               was == o.read
    <3>1. row \in Role /\ was \in Seq(Role)
      BY <2>1, <2>2
    <3> HIDE DEF row, was
    <3>2. Append(was, row) \in Seq(Role) /\ Len(Append(was, row)) = Len(was) + 1
          /\ Append(was, row) # <<>>
      BY ONLY <3>1, AppendProperties
    <3> QED
      BY <3>2 DEF row, was
  <2>4. /\ new \in Op /\ new.kind = o.kind /\ new.roles = o.roles /\ new.whom = o.whom
        /\ new.read = Append(o.read, roles[r]) /\ new.todo = o.todo
        /\ new.stage = IF n + 1 < Len(o.roles) THEN "role" ELSE "rank"
    BY <2>3 DEF Op, Stages
  <2>5. o.kind = "harddelete" => Head(o.roles) # Everyone
    <3> SUFFICES ASSUME o.kind = "harddelete" PROVE Head(o.roles) # Everyone
      OBVIOUS
    <3>1. Len(o.roles) = 1 /\ r # Everyone
      BY <1>1, <1>7 DEF Fits, OfOneRole, Acceptable
    <3>2. n = 0
      BY <1>3, <3>1
    <3>3. Head(o.roles) = o.roles[1]
      BY <3>1 DEF Op
    <3> QED
      BY <3>1, <3>2, <3>3
  <2>6. o.kind \notin {"create", "transfer"}
    BY <1>1, <1>2 DEF Fits
  <2>7. Len(new.read) <= Len(new.roles) /\ (new.stage = "role" => Len(new.read) < Len(new.roles))
        /\ new.stage \in {"role", "rank"} /\ new.read # <<>>
    BY <1>3, <2>3, <2>4
  <2> HIDE DEF new
  <2>8. Fits(new)
    BY <1>1, <1>2, <2>4, <2>5, <2>6, <2>7 DEF Fits
  <2> QED
    BY <1>2, <1>7, <2>4, <2>8, Reads
<1> QED
  BY <1>4, <1>5, <1>6, <1>7

LEMMA ReadMemberBase ==
  ASSUME Base, NEW k \in Ops, ReadMember(k) PROVE Base'
<1>1. PICK o \in Op : o = ops[k] /\ Fits(o)
  BY AtWork DEF Base, ReadMember, At
<1>2. /\ o.stage = "member" /\ o.kind \in {"assign", "unassign", "transfer"}
      /\ history' \in History /\ UNCHANGED tables
  BY <1>1 DEF ReadMember, At, Base
<1> DEFINE m == IF o.kind = "transfer" THEN o.user ELSE o.whom
           ids == held[m]
           to == IF o.kind = "transfer" THEN "write" ELSE "role"
           new == [o EXCEPT !.mine = ids, !.stage = to]
<1>3. Become(k, None) \/ Become(k, new)
  BY <1>1 DEF ReadMember, Done
<1>4. m \in Members
  BY <1>1, <1>2 DEF Fits, Op
<1>5. ids \in SUBSET Ids /\ to \in Stages
  BY <1>4 DEF Base, Tables, Rights, Stages
<1> HIDE DEF m, ids
<1>6. /\ new \in Op /\ new.kind = o.kind /\ new.roles = o.roles /\ new.whom = o.whom
      /\ new.read = o.read /\ new.todo = o.todo /\ new.stage = to
  <2> HIDE DEF to
  <2> QED
    BY <1>5 DEF Op
<1> HIDE DEF new
<1>7. o.kind # "transfer" => Len(o.read) < Len(o.roles)
  <2>1. o.kind # "transfer" => Len(o.roles) = 1 /\ Len(o.read) = 0
    BY <1>1, <1>2, EmptySequences DEF Fits, OfOneRole
  <2> DEFINE n == Len(o.roles)
             j == Len(o.read)
  <2>2. o.kind # "transfer" => n = 1 /\ j = 0
    BY <2>1
  <2> HIDE DEF n, j
  <2>3. o.kind # "transfer" => j < n
    BY <2>2
  <2> QED
    BY <2>3 DEF n, j
<1>8. o.kind = "transfer" => o.roles # <<>>
  BY <1>1, <1>2 DEF Fits
<1>9. Fits(new)
  BY <1>1, <1>2, <1>6, <1>7, <1>8, Advances
<1> QED
  BY <1>2, <1>3, <1>6, <1>9, Reads

LEMMA ReadOverrideBase ==
  ASSUME Base, NEW k \in Ops, ReadOverride(k) PROVE Base'
<1>1. PICK o \in Op : o = ops[k] /\ Fits(o)
  BY AtWork DEF Base, ReadOverride, At
<1>2. /\ o.stage = "override" /\ o.kind = "remove"
      /\ history' \in History /\ UNCHANGED tables
  BY <1>1 DEF ReadOverride, At, Base
<1> DEFINE new == [o EXCEPT !.row = "there", !.stage = IF o.roles = <<>> THEN "rank" ELSE "role"]
<1>3. Become(k, None) \/ Become(k, new)
  BY <1>1 DEF ReadOverride, Done
<1>4. /\ new \in Op /\ new.kind = o.kind /\ new.roles = o.roles /\ new.whom = o.whom
      /\ new.read = o.read /\ new.todo = o.todo
      /\ new.stage = IF o.roles = <<>> THEN "rank" ELSE "role"
  BY DEF Op, Stages, Rows
<1> HIDE DEF new
<1>5. o.roles # <<>> => Len(o.read) < Len(o.roles)
  <2>1. o.read = <<>> /\ o.roles \in Seq(Ids)
    BY <1>1, <1>2 DEF Fits, Op
  <2>2. Len(o.read) = 0 /\ Len(o.roles) \in Nat /\ (o.roles # <<>> => Len(o.roles) # 0)
    BY <2>1, EmptySequences, EmptySeq
  <2> DEFINE n == Len(o.roles)
             j == Len(o.read)
  <2>3. j = 0 /\ n \in Nat /\ (o.roles # <<>> => n # 0)
    BY <2>2
  <2> HIDE DEF n, j
  <2>4. o.roles # <<>> => j < n
    BY <2>3
  <2> QED
    BY <2>4 DEF n, j
<1>6. Fits(new)
  BY <1>1, <1>2, <1>4, <1>5, Advances
<1> QED
  BY <1>2, <1>3, <1>4, <1>6, Reads

(* A step to another stage.                                                *)
LEMMA GoesOn ==
  ASSUME Base, NEW k \in Ops, NEW o \in Op, o = ops[k], Fits(o), NEW s,
         s \in {"cap", "write", "members", "flip", "insert"}, Goto(k, s),
         o.kind = "transfer" /\ s = "write" => o.roles # <<>>,
         o.kind = "update" => o.read # <<>>,
         o.kind = "harddelete" => o.stage # "role",
         UNCHANGED owner, Tables', history' \in History
  PROVE  Base'
<1> DEFINE to == [o EXCEPT !.stage = s]
<1>1. /\ to \in Op /\ to.kind = o.kind /\ to.roles = o.roles /\ to.whom = o.whom
      /\ to.read = o.read /\ to.todo = o.todo /\ to.stage = s
  BY DEF Op, Stages
<1>2. Become(k, to)
  BY DEF Goto
<1> HIDE DEF to
<1>3. Fits(to)
  BY <1>1, Advances
<1> QED
  BY <1>1, <1>2, <1>3, Steps

(* The roles of a server, the highest first.                               *)
HighFirst(e) ==
  LET n == Cardinality(Custom)
  IN /\ n \in Nat /\ e \in [1..n -> Custom] /\ e \in Seq(Custom) /\ Len(e) = n /\ DOMAIN e = 1..n
     /\ \A i, j \in 1..n : e[i] = e[j] => i = j
     /\ \A r \in Custom : \E i \in 1..n : e[i] = r
     /\ \A i, j \in 1..n : i < j => roles[e[j]].position <= roles[e[i]].position
     /\ \A i \in 1..n : e[i] \in Custom /\ roles[e[i]].position \in 0..MaxPosition

LEMMA HighToLowSorts == ASSUME Tables PROVE HighFirst(HighToLow)
<1> DEFINE key == [r \in Custom |-> -roles[r].position]
           e == Ascending(Custom, key)
           n == Cardinality(Custom)
<1>1. \A r \in Custom : r \in Ids /\ roles[r].position \in 0..MaxPosition
  BY DEF Tables, Rights, Custom, Live, Role
<1>2. IsFiniteSet(Custom)
  BY <1>1, IdsFinite, FS_Subset
<1>3. \A r \in Custom : key[r] \in (-MaxPosition)..MaxPosition
  BY <1>1, RolesAssumption
<1>4. e \in Enumerations(Custom) /\ Sorted(e, Custom, key)
  <2> HIDE DEF key
  <2> QED
    BY <1>2, <1>3, AscendingSorts, RolesAssumption
<1>5. HighToLow = e
  BY DEF HighToLow
<1> HIDE DEF e
<1>6. /\ n \in Nat /\ e \in [1..n -> Custom] /\ e \in Seq(Custom) /\ Len(e) = n
      /\ \A i, j \in 1..n : e[i] = e[j] => i = j
      /\ \A r \in Custom : \E i \in 1..n : e[i] = r
  BY <1>2, <1>4, EnumerationOnto
<1>7. \A i \in 1..n : e[i] \in Custom /\ roles[e[i]].position \in 0..MaxPosition
  BY <1>1, <1>6
<1>8. \A i, j \in 1..n : i < j => roles[e[j]].position <= roles[e[i]].position
  <2> SUFFICES ASSUME NEW i \in 1..n, NEW j \in 1..n, i < j
               PROVE  roles[e[j]].position <= roles[e[i]].position
    OBVIOUS
  <2>1. key[e[i]] <= key[e[j]]
    BY <1>4 DEF Sorted
  <2>2. key[e[i]] = -roles[e[i]].position /\ key[e[j]] = -roles[e[j]].position
    BY <1>7
  <2> QED
    BY <1>7, <2>1, <2>2
<1> HIDE DEF n
<1>9. DOMAIN e = 1..n
  BY <1>6
<1> QED
  BY <1>5, <1>6, <1>7, <1>8, <1>9 DEF HighFirst, n

(* What a creation finds: no role; room at the bottom; or none.            *)
NoRoles(o, new) == new = [o EXCEPT !.height = 1, !.stage = "cap"]
RoomBelow(o, new) ==
  LET e == HighToLow
      lowest == roles[e[Len(e)]].position
  IN  e # <<>> /\ lowest > 1 /\ new = [o EXCEPT !.height = lowest - 1, !.stage = "cap"]
AllMoveUp(o, new) ==
  LET e == HighToLow
  IN  /\ e # <<>> /\ roles[Head(e)].position < MaxPosition
      /\ new = [o EXCEPT !.height = 1, !.stage = "move",
                  !.todo = [i \in DOMAIN e |-> <<e[i], roles[e[i]].position + 1>>]]

LEMMA CreationFinds ==
  ASSUME NEW k \in Ops, ListForCreate(k)
  PROVE  \E new : /\ Become(k, new)
                  /\ (HighToLow = <<>> /\ NoRoles(ops[k], new)) \/ RoomBelow(ops[k], new)
                     \/ AllMoveUp(ops[k], new)
BY DEF ListForCreate, NoRoles, RoomBelow, AllMoveUp

LEMMA ListForCreateBase ==
  ASSUME Base, NEW k \in Ops, ListForCreate(k) PROVE Base'
<1>1. PICK o \in Op : o = ops[k] /\ Fits(o)
  BY AtWork DEF Base, ListForCreate, At
<1>2. /\ o.stage = "list" /\ o.kind = "create"
      /\ history' \in History /\ UNCHANGED tables
  BY <1>1 DEF ListForCreate, At, Base
<1>3. PICK new : /\ Become(k, new)
                 /\ (HighToLow = <<>> /\ NoRoles(o, new)) \/ RoomBelow(o, new) \/ AllMoveUp(o, new)
  BY <1>1, CreationFinds
<1> DEFINE e == HighToLow
           n == Cardinality(Custom)
<1>4. /\ n \in Nat /\ e \in Seq(Custom) /\ Len(e) = n /\ DOMAIN e = 1..n
      /\ \A i \in 1..n : e[i] \in Custom /\ roles[e[i]].position \in 0..MaxPosition
      /\ \A i, j \in 1..n : i < j => roles[e[j]].position <= roles[e[i]].position
  BY HighToLowSorts DEF Base, HighFirst
<1> HIDE DEF e, n
<1>5. e # <<>> => n # 0 /\ 1 \in 1..n /\ n \in 1..n /\ Head(e) = e[1]
  BY <1>4, EmptySeq
<1>6. 1 \in 0..MaxPosition
  BY RolesAssumption
<1>7. CASE NoRoles(o, new)
  <2>1. /\ new \in Op /\ new.kind = o.kind /\ new.roles = o.roles /\ new.whom = o.whom
        /\ new.read = o.read /\ new.todo = o.todo /\ new.stage = "cap"
    BY <1>6, <1>7 DEF Op, Stages, NoRoles
  <2>2. Fits(new)
    BY <1>1, <1>2, <2>1, Advances
  <2> QED
    BY <1>2, <1>3, <2>1, <2>2, Reads
<1>8. CASE RoomBelow(o, new)
  <2> DEFINE h == roles[e[Len(e)]].position - 1
  <2>1. h \in 0..MaxPosition
    <3>1. e # <<>> /\ roles[e[n]].position > 1 /\ roles[e[n]].position \in 0..MaxPosition
      BY <1>4, <1>5, <1>8 DEF RoomBelow, e
    <3> QED
      BY <1>4, <3>1, RolesAssumption
  <2>2. new = [o EXCEPT !.height = h, !.stage = "cap"]
    BY <1>8 DEF RoomBelow, e
  <2> HIDE DEF h
  <2>3. /\ new \in Op /\ new.kind = o.kind /\ new.roles = o.roles /\ new.whom = o.whom
        /\ new.read = o.read /\ new.todo = o.todo /\ new.stage = "cap"
    BY <2>1, <2>2 DEF Op, Stages
  <2>4. Fits(new)
    BY <1>1, <1>2, <2>3, Advances
  <2> QED
    BY <1>2, <1>3, <2>3, <2>4, Reads
<1>9. CASE AllMoveUp(o, new)
  <2> DEFINE up == [i \in DOMAIN e |-> <<e[i], roles[e[i]].position + 1>>]
  <2>1. e # <<>> /\ roles[Head(e)].position < MaxPosition
    BY <1>9 DEF AllMoveUp, e
  <2>2. \A i \in 1..n : <<e[i], roles[e[i]].position + 1>> \in Moving
    <3> SUFFICES ASSUME NEW i \in 1..n PROVE <<e[i], roles[e[i]].position + 1>> \in Moving
      OBVIOUS
    <3>1. e[i] \in Ids /\ roles[e[i]].position \in 0..MaxPosition
      BY <1>4 DEF Base, Tables, Rights, Custom, Live
    <3>2. roles[e[i]].position <= roles[e[1]].position /\ roles[e[1]].position \in 0..MaxPosition
      <4>1. CASE i = 1
        BY <1>4, <4>1
      <4>2. CASE i # 1
        <5>1. 1 \in 1..n /\ 1 < i
          BY <1>4, <4>2
        <5> QED
          BY <1>4, <5>1
      <4> QED
        BY <4>1, <4>2
    <3>3. roles[e[i]].position + 1 \in 0..MaxPosition
      BY <1>5, <2>1, <3>1, <3>2, RolesAssumption
    <3> QED
      BY <3>1, <3>3 DEF Moving
  <2>3. up \in [1..n -> Moving] /\ up # <<>>
    <3>1. up = [i \in 1..n |-> <<e[i], roles[e[i]].position + 1>>]
      BY <1>4
    <3>2. up \in [1..n -> Moving]
      BY <2>2, <3>1
    <3> HIDE DEF up
    <3>3. Len(up) = n
      BY <1>4, <3>2
    <3> QED
      BY <1>5, <2>1, <3>2, <3>3, EmptySequences
  <2>4. new = [o EXCEPT !.height = 1, !.stage = "move", !.todo = up]
    BY <1>9 DEF AllMoveUp, e
  <2> HIDE DEF up
  <2>5. up \in Seq(Moving)
    BY <1>4, <2>3
  <2>6. up \in Seq((Ids \X (0..MaxPosition)) \cup (Members \X SUBSET Ids))
    BY <2>5, Todos
  <2>7. /\ new \in Op /\ new.kind = o.kind /\ new.roles = o.roles /\ new.whom = o.whom
        /\ new.read = o.read /\ new.todo = up /\ new.stage = "move"
    BY <1>6, <2>4, <2>6 DEF Op, Stages
  <2>8. Fits(new)
    BY <1>1, <1>2, <2>3, <2>5, <2>7 DEF Fits, OfOneRole
  <2> QED
    BY <1>2, <1>3, <2>7, <2>8, Reads
<1> QED
  BY <1>3, <1>7, <1>8, <1>9

(* Highest finds the greatest of finitely many heights.                    *)
LEMMA HighestIs ==
  ASSUME NEW B \in Nat, NEW S \in SUBSET (0..B), S # {}
  PROVE  Highest(S) \in S /\ \A m \in S : m <= Highest(S)
<1> DEFINE key == [x \in S |-> x]
<1>1. \A x \in S : key[x] \in (-B)..B /\ key[x] = x
  OBVIOUS
<1>2. \E x \in S : \A y \in S : key[y] <= key[x]
  <2> HIDE DEF key
  <2> QED
    BY <1>1, Greatest
<1>3. \E x \in S : \A y \in S : y <= x
  BY <1>1, <1>2
<1> QED
  BY <1>3 DEF Highest

LEMMA ListForTransferBase ==
  ASSUME Base, NEW k \in Ops, ListForTransfer(k) PROVE Base'
<1>1. PICK o \in Op : o = ops[k] /\ Fits(o)
  BY AtWork DEF Base, ListForTransfer, At
<1>2. /\ o.stage = "list" /\ o.kind = "transfer"
      /\ history' \in History /\ UNCHANGED tables
  BY <1>1 DEF ListForTransfer, At, Base
<1> DEFINE heights == {roles[r].position : r \in DOMAIN roles}
           top == Highest(heights) + 1
           new == [o EXCEPT !.height = top, !.stage = "insert"]
<1>3. top <= MaxPosition /\ Become(k, new)
  BY <1>1 DEF ListForTransfer
<1>4. top \in 0..MaxPosition
  <2>1. heights \in SUBSET (0..MaxPosition) /\ heights # {}
    BY DEF Base, Tables, Rights, Role
  <2> HIDE DEF heights
  <2>2. Highest(heights) \in 0..MaxPosition
    BY <2>1, HighestIs, RolesAssumption
  <2> QED
    BY <1>3, <2>2, RolesAssumption
<1> HIDE DEF top
<1>5. /\ new \in Op /\ new.kind = o.kind /\ new.roles = o.roles /\ new.whom = o.whom
      /\ new.read = o.read /\ new.todo = o.todo /\ new.stage = "insert"
  BY <1>4 DEF Op, Stages
<1> HIDE DEF new
<1>6. Fits(new)
  BY <1>1, <1>2, <1>5, Advances
<1> QED
  BY <1>2, <1>3, <1>5, <1>6, Reads

LEMMA ListForReorderBase ==
  ASSUME Base, NEW k \in Ops, ListForReorder(k) PROVE Base'
<1>1. PICK o \in Op : o = ops[k] /\ Fits(o)
  BY AtWork DEF Base, ListForReorder, At
<1>2. /\ o.stage = "list" /\ o.kind = "reorder"
      /\ history' \in History /\ UNCHANGED tables
  BY <1>1 DEF ListForReorder, At, Base
<1> DEFINE named == o.roles
           rows == [i \in DOMAIN named |-> roles[named[i]]]
           new == [o EXCEPT !.stage = "rank", !.read = rows]
<1>3. Become(k, None) \/ ((\A i \in DOMAIN named : named[i] \in Custom) /\ Become(k, new))
  BY <1>1 DEF ListForReorder, Done
<1>4. CASE Become(k, None)
  BY <1>2, <1>4, Reads
<1>5. CASE (\A i \in DOMAIN named : named[i] \in Custom) /\ Become(k, new)
  <2>1. rows \in Seq(Role) /\ Len(rows) = Len(named)
    <3>1. named \in Seq(Ids) /\ \A r \in Custom : roles[r] \in Role
      BY DEF Op, Base, Tables, Rights, Custom, Live
    <3> HIDE DEF named
    <3> DEFINE n == Len(named)
    <3>2. n \in Nat /\ DOMAIN named = 1..n
      BY <3>1
    <3>3. rows \in [1..n -> Role]
      BY <1>5, <3>1, <3>2
    <3> HIDE DEF rows, n
    <3>4. rows \in Seq(Role) /\ Len(rows) = n
      BY <3>2, <3>3
    <3> QED
      BY <3>4 DEF n
  <2> HIDE DEF rows
  <2>2. /\ new \in Op /\ new.kind = o.kind /\ new.roles = o.roles /\ new.whom = o.whom
        /\ new.read = rows /\ new.todo = o.todo /\ new.stage = "rank"
    BY <2>1 DEF Op, Stages
  <2> HIDE DEF new
  <2>3. Len(new.read) <= Len(new.roles)
    <3> DEFINE n == Len(named)
    <3>1. n \in Nat /\ Len(new.read) = n
      BY <2>1, <2>2 DEF Op
    <3> HIDE DEF n, named
    <3>2. n <= n
      BY <3>1
    <3> QED
      BY <2>2, <3>1, <3>2 DEF n, named
  <2>4. Fits(new)
    BY <1>1, <1>2, <2>2, <2>3 DEF Fits, OfOneRole
  <2> QED
    BY <1>2, <1>5, <2>2, <2>4, Reads
<1> QED
  BY <1>3, <1>4, <1>5

(* What is dealt to the roles of a swap or of a reordering.                *)
Was(o) == [i \in 1..Len(o.read) |-> o.read[i].position]
First(o) == Ascending(1..Len(o.read), [i \in 1..Len(o.read) |-> -Was(o)[i]])
Dealt(o) ==
  [i \in 1..Len(o.read) |-> Was(o)[IF o.kind = "swap" THEN Len(o.read) + 1 - i ELSE First(o)[i]]]
MovedBy(o) == {i \in 1..Len(o.read) : o.kind = "swap" \/ Dealt(o)[i] # Was(o)[i]}
InTurn(o) == Ascending(MovedBy(o), [i \in MovedBy(o) |-> i])

LEMMA MovesAre ==
  ASSUME NEW k
  PROVE  Moves(k) = [n \in 1..Cardinality(MovedBy(ops[k])) |->
                       <<ops[k].roles[InTurn(ops[k])[n]], Dealt(ops[k])[InTurn(ops[k])[n]]>>]
BY DEF Moves, InTurn, MovedBy, Dealt, First, Was

LEMMA FirstSorts ==
  ASSUME NEW o \in Op
  PROVE  LET m == Len(o.read)
         IN /\ m \in Nat /\ First(o) \in [1..m -> 1..m]
            /\ \A i, j \in 1..m : First(o)[i] = First(o)[j] => i = j
            /\ \A i \in 1..m : Was(o)[i] = o.read[i].position /\ Was(o)[i] \in 0..MaxPosition
            /\ \A i, j \in 1..m : i < j => Was(o)[First(o)[j]] <= Was(o)[First(o)[i]]
<1> DEFINE m == Len(o.read)
           all == 1..m
           was == Was(o)
           key == [i \in all |-> -was[i]]
           e == Ascending(all, key)
<1>1. o.read \in Seq(Role)
  BY DEF Op
<1>2. m \in Nat /\ \A i \in all : o.read[i] \in Role
  BY <1>1
<1>3. \A i \in all : was[i] = o.read[i].position /\ was[i] \in 0..MaxPosition
  BY <1>2 DEF Was, Role
<1>4. IsFiniteSet(all) /\ Cardinality(all) = m
  BY <1>2, FS_Interval
<1> HIDE DEF was
<1>5. \A i \in all : key[i] \in (-MaxPosition)..MaxPosition
  BY <1>3, RolesAssumption
<1>6. e \in Enumerations(all) /\ Sorted(e, all, key)
  <2> HIDE DEF key, all
  <2> QED
    BY <1>4, <1>5, AscendingSorts, RolesAssumption
<1>7. First(o) = e
  BY DEF First, was
<1> HIDE DEF e
<1>8. e \in [1..m -> all] /\ \A i, j \in 1..m : e[i] = e[j] => i = j
  BY <1>4, <1>6 DEF Enumerations
<1>9. ASSUME NEW i \in 1..m, NEW j \in 1..m, i < j PROVE was[e[j]] <= was[e[i]]
  <2>1. key[e[i]] <= key[e[j]] /\ e[i] \in all /\ e[j] \in all
    BY <1>4, <1>6, <1>8, <1>9 DEF Sorted
  <2>2. key[e[i]] = -was[e[i]] /\ key[e[j]] = -was[e[j]]
    BY <2>1
  <2> QED
    BY <1>3, <2>1, <2>2
<1> QED
  BY <1>2, <1>3, <1>7, <1>8, <1>9 DEF was, m

(* The moves of a request: each of a role it names, to a height it read.   *)
Deals(o, moves) ==
  LET m == Len(o.read)
      q == Cardinality(MovedBy(o))
  IN /\ m \in Nat /\ q \in Nat /\ Len(moves) = q /\ moves \in Seq(Moving)
     /\ \A n \in 1..q : /\ InTurn(o)[n] \in MovedBy(o)
                        /\ moves[n] = <<o.roles[InTurn(o)[n]], Dealt(o)[InTurn(o)[n]]>>
     /\ \A i, j \in 1..q : InTurn(o)[i] = InTurn(o)[j] => i = j
     /\ \A i \in MovedBy(o) : \E n \in 1..q : InTurn(o)[n] = i
     /\ \A i \in 1..m : \E j \in 1..m : Dealt(o)[i] = Was(o)[j]

LEMMA DealtAre ==
  ASSUME NEW o \in Op
  PROVE  \A i \in 1..Len(o.read) : \E j \in 1..Len(o.read) :
           /\ Dealt(o)[i] = Was(o)[j]
           /\ j = IF o.kind = "swap" THEN Len(o.read) + 1 - i ELSE First(o)[i]
<1> DEFINE m == Len(o.read)
<1>1. m \in Nat /\ \A i \in 1..m : First(o)[i] \in 1..m
  BY FirstSorts
<1>2. \A i \in 1..m : Dealt(o)[i] = Was(o)[IF o.kind = "swap" THEN m + 1 - i ELSE First(o)[i]]
  BY DEF Dealt
<1> HIDE DEF m
<1>3. \A i \in 1..m : m + 1 - i \in 1..m
  BY <1>1
<1>4. \A i \in 1..m : \E j \in 1..m :
        Dealt(o)[i] = Was(o)[j] /\ j = IF o.kind = "swap" THEN m + 1 - i ELSE First(o)[i]
  BY <1>1, <1>2, <1>3
<1> QED
  BY <1>4 DEF m

LEMMA DealtWas ==
  ASSUME NEW o \in Op, NEW i \in 1..Len(o.read)
  PROVE  \E j \in 1..Len(o.read) : Dealt(o)[i] = Was(o)[j]
<1>1. PICK j \in 1..Len(o.read) :
        /\ Dealt(o)[i] = Was(o)[j]
        /\ j = IF o.kind = "swap" THEN Len(o.read) + 1 - i ELSE First(o)[i]
  BY DealtAre, Zenon
<1> QED
  BY <1>1, Zenon

LEMMA MovesDeal ==
  ASSUME NEW k, NEW o \in Op, o = ops[k], Len(o.read) <= Len(o.roles) PROVE Deals(o, Moves(k))
<1> DEFINE m == Len(o.read)
           S == MovedBy(o)
           q == Cardinality(S)
           key == [i \in S |-> i]
           e == Ascending(S, key)
<1>1. m \in Nat /\ \A i \in 1..m : Was(o)[i] \in 0..MaxPosition
  BY FirstSorts
<1>2. S \subseteq 1..m /\ IsFiniteSet(S)
  <2>1. S \subseteq 1..m
    BY DEF MovedBy
  <2>2. IsFiniteSet(1..m)
    BY <1>1, FS_Interval
  <2> HIDE DEF S, m
  <2> QED
    BY <2>1, <2>2, FS_Subset
<1>3. InTurn(o) = e
  BY DEF InTurn
<1>4. /\ q \in Nat /\ e \in [1..q -> S] /\ \A i, j \in 1..q : e[i] = e[j] => i = j
      /\ \A i \in S : \E n \in 1..q : e[n] = i
  <2>1. \A i \in S : key[i] \in (-m)..m
    BY <1>1, <1>2
  <2> HIDE DEF key, S
  <2>2. e \in Enumerations(S)
    <3> HIDE DEF m
    <3> QED
      BY <1>1, <1>2, <2>1, AscendingSorts
  <2> HIDE DEF e
  <2> QED
    BY <1>2, <2>2, EnumerationOnto
<1> HIDE DEF e, S, q
<1>5. Moves(k) = [n \in 1..q |-> <<o.roles[e[n]], Dealt(o)[e[n]]>>]
  BY <1>3, MovesAre DEF q, S
<1>6. \A i \in 1..m : Dealt(o)[i] \in 0..MaxPosition /\ o.roles[i] \in Ids
  <2>1. \A i \in 1..m : \E j \in 1..m : Dealt(o)[i] = Was(o)[j]
    BY DealtWas, Zenon
  <2>2. o.roles \in Seq(Ids)
    BY DEF Op
  <2>3. \A i \in 1..m : i \in 1..Len(o.roles)
    BY <1>1, <2>2
  <2>4. \A i \in 1..m : Dealt(o)[i] \in 0..MaxPosition
    BY <1>1, <2>1
  <2>5. \A i \in 1..m : o.roles[i] \in Ids
    BY <2>2, <2>3, ElementOfSeq
  <2> QED
    BY <2>4, <2>5
<1>7. \A n \in 1..q : <<o.roles[e[n]], Dealt(o)[e[n]]>> \in Moving
  BY <1>2, <1>4, <1>6 DEF Moving
<1> DEFINE f == [n \in 1..q |-> <<o.roles[e[n]], Dealt(o)[e[n]]>>]
<1>8. f \in [1..q -> Moving] /\ \A n \in 1..q : f[n] = <<o.roles[e[n]], Dealt(o)[e[n]]>>
  BY <1>7
<1>9. f = Moves(k)
  BY <1>5
<1> HIDE DEF f
<1>10. f \in Seq(Moving) /\ Len(f) = q
  BY <1>4, <1>8
<1>11. \A i \in 1..m : \E j \in 1..m : Dealt(o)[i] = Was(o)[j]
  BY DealtWas, Zenon
<1>12. \A n \in 1..q : e[n] \in S /\ Moves(k)[n] = <<o.roles[e[n]], Dealt(o)[e[n]]>>
  BY <1>4, <1>8, <1>9
<1>13. /\ m \in Nat /\ q \in Nat /\ Len(Moves(k)) = q /\ Moves(k) \in Seq(Moving)
       /\ \A n \in 1..q : /\ InTurn(o)[n] \in S
                          /\ Moves(k)[n] = <<o.roles[InTurn(o)[n]], Dealt(o)[InTurn(o)[n]]>>
  BY <1>1, <1>3, <1>4, <1>9, <1>10, <1>12
<1>14. /\ \A i, j \in 1..q : InTurn(o)[i] = InTurn(o)[j] => i = j
       /\ \A i \in S : \E n \in 1..q : InTurn(o)[n] = i
  BY <1>3, <1>4
<1> QED
  BY <1>11, <1>13, <1>14 DEF Deals, q, S, m

LEMMA CheckRankHistory ==
  ASSUME Base, NEW k \in Ops, CheckRank(k) PROVE history' \in History /\ UNCHANGED tables
<1> DEFINE t == history.loose \/ Muddles(k)
<1>1. t \in BOOLEAN
  <2>1. history.loose \in BOOLEAN
    BY DEF Base, History
  <2>2. Muddles(k) \in BOOLEAN
    BY Zenon DEF Muddles
  <2> QED
    BY <2>1, <2>2
<1>2. history' = [history EXCEPT !.loose = t] /\ UNCHANGED tables
  BY DEF CheckRank
<1> HIDE DEF t
<1> QED
  BY <1>1, <1>2 DEF Base, History

LEMMA CheckRankBase ==
  ASSUME Base, NEW k \in Ops, CheckRank(k) PROVE Base'
<1>1. PICK o \in Op : o = ops[k] /\ Fits(o)
  BY AtWork DEF Base, CheckRank, At
<1>2. o.stage = "rank" /\ o.kind \in Kinds /\ history' \in History /\ UNCHANGED tables
  BY <1>1, CheckRankHistory DEF CheckRank, At
<1>3. Tables' /\ UNCHANGED owner
  BY <1>2, TablesStay DEF Base, tables
<1> DEFINE new == [o EXCEPT !.stage = "move", !.todo = Moves(k)]
<1>4. \/ Become(k, None)
      \/ o.kind \in {"update", "upsert"} /\ Goto(k, "cap")
      \/ o.kind \in {"swap", "reorder"} /\ Moves(k) # <<>> /\ Become(k, new)
      \/ o.kind = "harddelete" /\ Goto(k, "members")
      \/ o.kind \notin {"update", "upsert", "swap", "reorder", "harddelete"} /\ Goto(k, "write")
  BY <1>1 DEF CheckRank, Done
<1>5. CASE Become(k, None)
  BY <1>2, <1>5, Reads
<1>6. CASE o.kind \in {"update", "upsert"} /\ Goto(k, "cap")
  <2>1. o.kind = "update" => o.read # <<>>
    BY <1>1, <1>2 DEF Fits
  <2> QED
    BY <1>1, <1>2, <1>3, <1>6, <2>1, GoesOn
<1>7. CASE o.kind \in {"swap", "reorder"} /\ Moves(k) # <<>> /\ Become(k, new)
  <2>1. Moves(k) \in Seq(Moving)
    BY <1>1, MovesDeal DEF Deals, Fits
  <2>2. Moves(k) \in Seq((Ids \X (0..MaxPosition)) \cup (Members \X SUBSET Ids))
    BY <2>1, Todos
  <2>3. /\ new \in Op /\ new.kind = o.kind /\ new.roles = o.roles /\ new.whom = o.whom
        /\ new.read = o.read /\ new.todo = Moves(k) /\ new.stage = "move"
    BY <2>2 DEF Op, Stages
  <2> HIDE DEF new
  <2>4. Fits(new)
    BY <1>1, <1>7, <2>1, <2>3 DEF Fits, OfOneRole
  <2> QED
    BY <1>2, <1>7, <2>3, <2>4, Reads
<1>8. CASE o.kind = "harddelete" /\ Goto(k, "members")
  BY <1>1, <1>2, <1>3, <1>8, GoesOn
<1>9. CASE /\ o.kind \notin {"update", "upsert", "swap", "reorder", "harddelete"}
           /\ Goto(k, "write")
  <2>1. o.kind # "transfer"
    BY <1>1, <1>2 DEF Fits
  <2> QED
    BY <1>1, <1>2, <1>3, <1>9, <2>1, GoesOn
<1> QED
  BY <1>4, <1>5, <1>6, <1>7, <1>8, <1>9

(* Writes to one row of a table.                                           *)
LEMMA MergeTables ==
  ASSUME Tables, NEW r, NEW row, r \in DOMAIN roles => row \in Role, Merge(r, row),
         UNCHANGED <<owner, held, overrides>>
  PROVE  /\ Tables' /\ DOMAIN roles' = DOMAIN roles
         /\ \A x \in DOMAIN roles : roles'[x] = IF x = r THEN row ELSE roles[x]
<1>1. CASE r \in DOMAIN roles
  <2>1. roles' = [roles EXCEPT ![r] = row]
    BY <1>1 DEF Merge
  <2>2. /\ DOMAIN roles' = DOMAIN roles
        /\ \A x \in DOMAIN roles : roles'[x] = IF x = r THEN row ELSE roles[x]
    BY <1>1, <2>1
  <2> QED
    BY <1>1, <2>2 DEF Tables, Rights
<1>2. CASE r \notin DOMAIN roles
  <2>1. roles' = roles
    BY <1>2 DEF Merge
  <2> QED
    BY <1>2, <2>1 DEF Tables, Rights
<1> QED
  BY <1>1, <1>2

LEMMA HeldTables ==
  ASSUME Tables, NEW m, NEW ids \in SUBSET Ids, held' = [held EXCEPT ![m] = ids],
         UNCHANGED <<owner, roles, overrides>>
  PROVE  Tables'
<1>1. held' \in [Members -> SUBSET Ids]
  <2>1. held \in [Members -> SUBSET Ids]
    BY DEF Tables, Rights
  <2> QED
    BY <2>1
<1> QED
  BY <1>1 DEF Tables, Rights

(* What a request names first.                                             *)
LEMMA NamedIs ==
  ASSUME NEW o \in Op, o.roles # <<>> \/ Len(o.roles) = 1 \/ Len(o.roles) > 0
  PROVE  /\ Head(o.roles) \in Ids /\ Head(o.roles) = o.roles[1]
         /\ Len(o.roles) \in Nat /\ 1 \in 1..Len(o.roles)
<1> DEFINE s == o.roles
<1>1. s \in Seq(Ids)
  BY DEF Op
<1>2. s # <<>> \/ Len(s) = 1 \/ Len(s) > 0
  OBVIOUS
<1> HIDE DEF s
<1>3. s # <<>>
  <2>1. Len(<<>>) = 0
    OBVIOUS
  <2> QED
    BY <1>2, <2>1
<1>4. Len(s) \in Nat \ {0}
  BY <1>1, <1>3, EmptySeq
<1>5. Head(s) \in Ids /\ Head(s) = s[1]
  BY <1>1, <1>3, <1>4
<1>6. Len(s) \in Nat /\ 1 \in 1..Len(s)
  BY <1>4
<1> QED
  BY <1>5, <1>6 DEF s

(* The next of what a request still has to write, and the rest.            *)
LEMMA NextTodo ==
  ASSUME NEW T, NEW s \in Seq(T), s # <<>>
  PROVE  /\ Head(s) \in T /\ Head(s) = s[1] /\ Tail(s) \in Seq(T)
         /\ Len(s) \in Nat /\ 1 \in 1..Len(s)
         /\ Len(Tail(s)) = Len(s) - 1
         /\ \A i \in 1..Len(s) - 1 : Tail(s)[i] = s[i + 1]
         /\ Len(s) > 1 => Tail(s) # <<>>
<1>1. Len(s) \in Nat \ {0}
  BY EmptySeq
<1>2. /\ Head(s) \in T /\ Tail(s) \in Seq(T) /\ Len(Tail(s)) = Len(s) - 1
      /\ \A i \in 1..Len(Tail(s)) : Tail(s)[i] = s[i + 1]
  BY HeadTailProperties
<1>3. Head(s) = s[1]
  BY <1>1
<1>4. Len(s) > 1 => Tail(s) # <<>>
  <2>1. Len(s) > 1 => Len(Tail(s)) # 0
    BY <1>1, <1>2
  <2> QED
    BY <2>1, EmptySequences
<1>5. Len(s) \in Nat /\ 1 \in 1..Len(s)
  BY <1>1
<1>6. \A i \in 1..Len(s) - 1 : Tail(s)[i] = s[i + 1]
  BY <1>2
<1> QED
  BY <1>2, <1>3, <1>4, <1>5, <1>6, Zenon

LEMMA MoveRoleBase ==
  ASSUME Base, NEW k \in Ops, MoveRole(k) PROVE Base'
<1>1. PICK o \in Op : o = ops[k] /\ Fits(o)
  BY AtWork DEF Base, MoveRole, At
<1>2. /\ o.stage = "move" /\ o.kind \in {"create", "swap", "reorder"}
      /\ UNCHANGED <<owner, held, overrides, history>>
  BY <1>1 DEF MoveRole, At
<1> DEFINE todo == o.todo
           r == Head(todo)[1]
           h == Head(todo)[2]
           row == [roles[r] EXCEPT !.position = h]
<1>3. todo \in Seq(Moving) /\ todo # <<>>
  BY <1>1, <1>2 DEF Fits
<1>4. /\ Merge(r, row)
      /\ \/ Len(todo) > 1 /\ Become(k, [o EXCEPT !.todo = Tail(todo)])
         \/ o.kind = "create" /\ Become(k, [o EXCEPT !.todo = <<>>, !.stage = "cap"])
         \/ Become(k, None)
  BY <1>1 DEF MoveRole, Done
<1>5. Head(todo) \in Moving /\ Tail(todo) \in Seq(Moving) /\ (Len(todo) > 1 => Tail(todo) # <<>>)
  <2> HIDE DEF todo
  <2> QED
    BY <1>3, NextTodo
<1>6. h \in 0..MaxPosition
  BY <1>5 DEF Moving
<1>7. Tables'
  <2>1. r \in DOMAIN roles => row \in Role
    <3> HIDE DEF h, r
    <3> QED
      BY <1>6 DEF Base, Tables, Rights, Role
  <2> HIDE DEF row, r
  <2> QED
    BY <1>2, <1>4, <2>1, MergeTables DEF Base
<1>8. history' \in History
  BY <1>2 DEF Base
<1>9. CASE Len(todo) > 1 /\ Become(k, [o EXCEPT !.todo = Tail(todo)])
  <2> DEFINE rest == Tail(todo)
             new == [o EXCEPT !.todo = rest]
  <2>1. rest \in Seq(Moving) /\ rest # <<>>
    BY <1>5, <1>9
  <2> HIDE DEF rest
  <2>2. rest \in Seq((Ids \X (0..MaxPosition)) \cup (Members \X SUBSET Ids))
    BY <2>1, Todos
  <2>3. /\ new \in Op /\ new.kind = o.kind /\ new.roles = o.roles /\ new.whom = o.whom
        /\ new.read = o.read /\ new.todo = rest /\ new.stage = "move"
    BY <1>2, <2>2 DEF Op
  <2>4. Become(k, new)
    BY <1>9 DEF rest
  <2> HIDE DEF new
  <2>5. Fits(new)
    BY <1>1, <1>2, <2>1, <2>3 DEF Fits
  <2> QED
    BY <1>7, <1>8, <2>3, <2>4, <2>5, Steps
<1>10. CASE o.kind = "create" /\ Become(k, [o EXCEPT !.todo = <<>>, !.stage = "cap"])
  <2> DEFINE rest == <<>>
             new == [o EXCEPT !.todo = rest, !.stage = "cap"]
  <2>1. rest \in Seq(Moving)
    BY EmptySequences
  <2>2. Become(k, new)
    BY <1>10
  <2> HIDE DEF rest
  <2>3. rest \in Seq((Ids \X (0..MaxPosition)) \cup (Members \X SUBSET Ids))
    BY <2>1, Todos
  <2>4. /\ new \in Op /\ new.kind = o.kind /\ new.roles = o.roles /\ new.whom = o.whom
        /\ new.read = o.read /\ new.todo = rest /\ new.stage = "cap"
    BY <2>3 DEF Op, Stages
  <2> HIDE DEF new
  <2>5. Fits(new)
    BY <1>1, <1>2, <1>10, <2>1, <2>4 DEF Fits, OfOneRole
  <2> QED
    BY <1>7, <1>8, <2>2, <2>4, <2>5, Steps
<1>11. CASE Become(k, None)
  BY <1>7, <1>8, <1>11, Steps
<1> QED
  BY <1>4, <1>9, <1>10, <1>11

LEMMA CheckCapBase ==
  ASSUME Base, NEW k \in Ops, CheckCap(k) PROVE Base'
<1>1. PICK o \in Op : o = ops[k] /\ Fits(o)
  BY AtWork DEF Base, CheckCap, At
<1>2. o.stage = "cap" /\ o.kind \in {"create", "update", "upsert"} /\ UNCHANGED tables
  BY <1>1 DEF CheckCap, At
<1>3. history' \in History
  <2> DEFINE g == IF Actor(k) = owner THEN history.granted \cup o.mask.allow ELSE history.granted
  <2>1. g \in SUBSET Bits
    BY DEF Op, Mask, Base, History
  <2>2. history' = [history EXCEPT !.granted = g]
    BY <1>1 DEF CheckCap
  <2> HIDE DEF g
  <2> QED
    BY <2>1, <2>2 DEF Base, History
<1>4. Tables' /\ UNCHANGED owner
  BY <1>2, TablesStay DEF Base, tables
<1> DEFINE row == IF OverrideOf(o) \in DOMAIN overrides THEN "there" ELSE "absent"
           new == [o EXCEPT !.stage = "write", !.row = row]
<1>5. \/ Become(k, None)
      \/ o.kind = "create" /\ Goto(k, "insert")
      \/ o.kind = "update" /\ Goto(k, "write")
      \/ o.kind = "upsert" /\ Become(k, new)
  BY <1>1, <1>2 DEF CheckCap, Done
<1>6. o.kind = "update" => o.read # <<>>
  BY <1>1, <1>2 DEF Fits
<1>7. CASE Become(k, None)
  BY <1>2, <1>3, <1>7, Reads
<1>8. CASE o.kind = "create" /\ Goto(k, "insert")
  BY <1>1, <1>3, <1>4, <1>8, GoesOn
<1>9. CASE o.kind = "update" /\ Goto(k, "write")
  BY <1>1, <1>3, <1>4, <1>6, <1>9, GoesOn
<1>10. CASE o.kind = "upsert" /\ Become(k, new)
  <2>1. row \in Rows
    BY DEF Rows
  <2> HIDE DEF row
  <2>2. /\ new \in Op /\ new.kind = o.kind /\ new.roles = o.roles /\ new.whom = o.whom
        /\ new.read = o.read /\ new.todo = o.todo /\ new.stage = "write"
    BY <2>1 DEF Op, Stages
  <2> HIDE DEF new
  <2>3. Fits(new)
    BY <1>1, <1>10, <2>2, Advances
  <2> QED
    BY <1>2, <1>3, <1>10, <2>2, <2>3, Reads
<1> QED
  BY <1>5, <1>7, <1>8, <1>9, <1>10

LEMMA InsertBase ==
  ASSUME Base, NEW k \in Ops, Insert(k) PROVE Base'
<1>1. PICK o \in Op : o = ops[k] /\ Fits(o)
  BY AtWork DEF Base, Insert, At
<1>2. o.stage = "insert" /\ o.kind \in {"create", "transfer"} /\ UNCHANGED <<owner, held, overrides>>
  BY <1>1 DEF Insert, At
<1> DEFINE allow == IF o.kind = "create" THEN o.mask.allow ELSE {Admin}
           row == [position |-> o.height, deleted |-> FALSE, allow |-> allow, deny |-> o.mask.deny]
           g == IF o.kind = "create" THEN history.granted ELSE history.granted \cup {Admin}
<1>3. PICK r \in RoleIds \ history.used :
        /\ roles' = Put(roles, r, row)
        /\ Become(k, None) \/ (o.kind = "transfer" /\ Become(k, [o EXCEPT !.roles = <<r>>, !.stage = "member"]))
        /\ history' = [history EXCEPT !.used = @ \cup {r}, !.granted = g]
  BY <1>1, <1>2 DEF Insert, Done
<1>4. allow \in SUBSET Bits /\ o.mask.deny \in SUBSET Bits /\ o.height \in 0..MaxPosition
  BY RolesAssumption DEF Op, Mask
<1>5. history' \in History
  <2>1. g \in SUBSET Bits
    BY RolesAssumption DEF Base, History
  <2> HIDE DEF g
  <2>2. r \in Ids /\ history.used \in SUBSET Ids /\ history \in History
    BY DEF Ids, Base, History
  <2> QED
    BY <1>3, <2>1, <2>2 DEF History
<1>6. row \in Role
  <2> HIDE DEF allow
  <2> QED
    BY <1>4 DEF Role
<1> HIDE DEF row, g
<1>7. Tables'
  <2>1. /\ DOMAIN roles' = DOMAIN roles \cup {r} /\ r \in Ids
        /\ \A x \in DOMAIN roles' : roles'[x] = IF x = r THEN row ELSE roles[x]
    BY <1>3 DEF Put, Ids
  <2> QED
    BY <1>2, <1>6, <2>1 DEF Base, Tables, Rights
<1>8. CASE Become(k, None)
  BY <1>5, <1>7, <1>8, Steps
<1>9. CASE o.kind = "transfer" /\ Become(k, [o EXCEPT !.roles = <<r>>, !.stage = "member"])
  <2> DEFINE named == <<r>>
             new == [o EXCEPT !.roles = named, !.stage = "member"]
  <2>1. named \in Seq(Ids) /\ named # <<>> /\ Len(named) = 1
    BY Naming DEF Ids
  <2>2. Become(k, new)
    BY <1>9
  <2> HIDE DEF named
  <2>3. /\ new \in Op /\ new.kind = o.kind /\ new.roles = named /\ new.whom = o.whom
        /\ new.read = o.read /\ new.todo = o.todo /\ new.stage = "member"
    BY <2>1 DEF Op, Stages
  <2> HIDE DEF new
  <2>4. Len(new.read) <= Len(new.roles)
    <3>1. Len(new.read) = 0 /\ Len(new.roles) = 1
      BY <1>1, <1>9, <2>1, <2>3, EmptySequences DEF Fits
    <3> QED
      BY <3>1
  <2>5. Fits(new)
    BY <1>1, <1>9, <2>1, <2>3, <2>4 DEF Fits, OfOneRole
  <2> QED
    BY <1>5, <1>7, <2>2, <2>3, <2>5, Steps
<1> QED
  BY <1>3, <1>8, <1>9

LEMMA WriteUpdateBase ==
  ASSUME Base, NEW k \in Ops, WriteUpdate(k) PROVE Base'
<1>1. PICK o \in Op : o = ops[k] /\ Fits(o)
  BY AtWork DEF Base, WriteUpdate, At
<1>2. UNCHANGED <<owner, held, overrides, history>> /\ Become(k, None)
  BY DEF WriteUpdate, Done
<1> DEFINE r == Named(k)
           a == IF o.mask.allow # Head(o.read).allow THEN o.mask.allow ELSE roles[r].allow
           d == IF o.mask.deny # Head(o.read).deny THEN o.mask.deny ELSE roles[r].deny
           row == [roles[r] EXCEPT !.allow = a, !.deny = d]
<1>3. Merge(r, row)
  BY <1>1 DEF WriteUpdate
<1>4. r \in DOMAIN roles => row \in Role
  <2> SUFFICES ASSUME r \in DOMAIN roles PROVE row \in Role
    OBVIOUS
  <2>1. roles[r] \in Role
    BY DEF Base, Tables, Rights
  <2>2. o.mask.allow \in SUBSET Bits /\ o.mask.deny \in SUBSET Bits
    BY DEF Op, Mask
  <2>3. a \in SUBSET Bits /\ d \in SUBSET Bits
    BY <2>1, <2>2 DEF Role
  <2> HIDE DEF a, d, r
  <2> QED
    BY <2>1, <2>3 DEF Role
<1> HIDE DEF row, r
<1>5. Tables'
  BY <1>2, <1>3, <1>4, MergeTables DEF Base
<1> QED
  BY <1>2, <1>5, Steps DEF Base

LEMMA WriteTrashBase ==
  ASSUME Base, NEW k \in Ops, WriteTrash(k) PROVE Base'
<1>1. PICK o \in Op : o = ops[k] /\ Fits(o)
  BY AtWork DEF Base, WriteTrash, At
<1>2. UNCHANGED <<owner, held, overrides>> /\ Become(k, None)
  BY DEF WriteTrash, Done
<1> DEFINE r == Named(k)
           d == o.kind = "delete"
           row == [roles[r] EXCEPT !.deleted = d]
<1>3. Merge(r, row)
  BY <1>1 DEF WriteTrash
<1>4. r \in DOMAIN roles => row \in Role
  <2> SUFFICES ASSUME r \in DOMAIN roles PROVE row \in Role
    OBVIOUS
  <2>1. roles[r] \in Role /\ d \in BOOLEAN
    BY DEF Base, Tables, Rights
  <2> HIDE DEF d, r
  <2> QED
    BY <2>1 DEF Role
<1> HIDE DEF row, r
<1>5. Tables'
  BY <1>2, <1>3, <1>4, MergeTables DEF Base
<1>6. history' \in History
  <2> DEFINE t == history.loose \/ ops[k].kind = "restore"
  <2>1. t \in BOOLEAN
    BY DEF Base, History
  <2>2. history' = [history EXCEPT !.loose = t]
    BY DEF WriteTrash
  <2> HIDE DEF t
  <2> QED
    BY <2>1, <2>2 DEF Base, History
<1> QED
  BY <1>2, <1>5, <1>6, Steps

LEMMA WriteMemberBase ==
  ASSUME Base, NEW k \in Ops, WriteMember(k) PROVE Base'
<1>1. PICK o \in Op : o = ops[k] /\ Fits(o)
  BY AtWork DEF Base, WriteMember, At
<1>2. /\ o.stage = "write" /\ o.kind \in {"assign", "unassign", "transfer"}
      /\ UNCHANGED <<owner, roles, overrides, history>>
  BY <1>1 DEF WriteMember, At
<1> DEFINE m == IF o.kind = "transfer" THEN o.user ELSE o.whom
           ids == IF o.kind = "unassign" THEN o.mine \ {Named(k)} ELSE o.mine \cup {Named(k)}
<1>3. /\ held' = [held EXCEPT ![m] = ids]
      /\ IF o.kind = "transfer" THEN Goto(k, "flip") ELSE Become(k, None)
  BY <1>1 DEF WriteMember, Done
<1>4. Named(k) \in Ids
  <2>1. o.roles # <<>> \/ Len(o.roles) = 1
    BY <1>1, <1>2 DEF Fits, OfOneRole
  <2> QED
    BY <1>1, <2>1, NamedIs DEF Named
<1>5. ids \in SUBSET Ids
  BY <1>4 DEF Op
<1> HIDE DEF ids, m
<1>6. Tables'
  BY <1>2, <1>3, <1>5, HeldTables DEF Base
<1>7. history' \in History
  BY <1>2 DEF Base
<1>8. CASE o.kind = "transfer" /\ Goto(k, "flip")
  BY <1>1, <1>2, <1>6, <1>7, <1>8, GoesOn
<1>9. CASE Become(k, None)
  BY <1>6, <1>7, <1>9, Steps
<1> QED
  BY <1>3, <1>8, <1>9

LEMMA FlipOwnerBase ==
  ASSUME Base, NEW k \in Ops, FlipOwner(k) PROVE Base'
<1>1. PICK o \in Op : o = ops[k] /\ Fits(o)
  BY AtWork DEF Base, FlipOwner, At
<1>2. /\ o.kind = "transfer" /\ owner' = o.whom /\ Become(k, None)
      /\ UNCHANGED <<roles, held, overrides, history>>
  BY <1>1 DEF FlipOwner, At, Done
<1>3. owner' \in Members
  BY <1>1, <1>2 DEF Fits
<1>4. Tables'
  BY <1>2, <1>3 DEF Base, Tables, Rights
<1> QED
  BY <1>2, <1>4, Steps DEF Base

(* The holders of a role, one after the other.                             *)
Scrubs(todo, r) ==
  \E order :
    LET S == {m \in Members : r \in held[m]}
        n == Cardinality(S)
    IN /\ n \in Nat /\ DOMAIN order = 1..n /\ Len(todo) = n /\ todo \in Seq(Scrubbing)
       /\ \A i \in 1..n : order[i] \in S /\ todo[i] = <<order[i], held[order[i]] \ {r}>>
       /\ \A m \in S : \E i \in 1..n : order[i] = m
       /\ \A i, j \in 1..n : order[i] = order[j] => i = j

LEMMA HoldersAre ==
  ASSUME Tables, NEW r, NEW order \in Enumerations({m \in Members : r \in held[m]})
  PROVE  Scrubs([i \in DOMAIN order |-> <<order[i], held[order[i]] \ {r}>>], r)
<1> DEFINE S == {m \in Members : r \in held[m]}
           n == Cardinality(S)
           todo == [i \in DOMAIN order |-> <<order[i], held[order[i]] \ {r}>>]
<1>1. S \subseteq Members /\ IsFiniteSet(S)
  <2>1. S \subseteq Members
    OBVIOUS
  <2> HIDE DEF S
  <2> QED
    BY <2>1, FS_Subset, RolesAssumption
<1>2. \A m \in S : held[m] \in SUBSET Ids
  BY DEF Tables, Rights
<1> HIDE DEF S
<1>3. order \in Enumerations(S)
  BY DEF S
<1>4. /\ n \in Nat /\ order \in [1..n -> S]
      /\ \A i, j \in 1..n : order[i] = order[j] => i = j
      /\ \A m \in S : \E i \in 1..n : order[i] = m
  BY <1>1, <1>3, EnumerationOnto
<1> HIDE DEF n
<1>5. DOMAIN order = 1..n /\ \A i \in 1..n : order[i] \in S
  BY <1>4
<1>6. \A i \in 1..n : <<order[i], held[order[i]] \ {r}>> \in Scrubbing
  BY <1>1, <1>2, <1>5 DEF Scrubbing
<1>7. /\ todo \in [1..n -> Scrubbing]
      /\ \A i \in 1..n : todo[i] = <<order[i], held[order[i]] \ {r}>>
  BY <1>5, <1>6
<1> HIDE DEF todo
<1>8. todo \in Seq(Scrubbing) /\ Len(todo) = n
  BY <1>4, <1>7
<1>9. Scrubs(todo, r)
  BY <1>4, <1>5, <1>7, <1>8 DEF Scrubs, S, n
<1> QED
  BY <1>9 DEF todo

LEMMA ReadMembersBase ==
  ASSUME Base, NEW k \in Ops, ReadMembers(k) PROVE Base'
<1>1. PICK o \in Op : o = ops[k] /\ Fits(o)
  BY AtWork DEF Base, ReadMembers, At
<1>2. /\ o.stage = "members" /\ o.kind = "harddelete" /\ UNCHANGED <<tables, history>>
  BY <1>1 DEF ReadMembers, At
<1>3. PICK order \in Enumerations({m \in Members : Named(k) \in held[m]}) :
        Become(k, [o EXCEPT !.stage = "scrub",
          !.todo = [i \in DOMAIN order |-> <<order[i], held[order[i]] \ {Named(k)}>>]])
  BY <1>1 DEF ReadMembers
<1> DEFINE list == [i \in DOMAIN order |-> <<order[i], held[order[i]] \ {Named(k)}>>]
           new == [o EXCEPT !.stage = "scrub", !.todo = list]
<1>4. list \in Seq(Scrubbing)
  <2>1. Scrubs(list, Named(k))
    BY HoldersAre DEF Base
  <2> HIDE DEF list
  <2> QED
    BY <2>1 DEF Scrubs
<1>5. Become(k, new)
  BY <1>3
<1> HIDE DEF list
<1>6. list \in Seq((Ids \X (0..MaxPosition)) \cup (Members \X SUBSET Ids))
  BY <1>4, Todos
<1>7. /\ new \in Op /\ new.kind = o.kind /\ new.roles = o.roles /\ new.whom = o.whom
      /\ new.read = o.read /\ new.todo = list /\ new.stage = "scrub"
  BY <1>6 DEF Op, Stages
<1> HIDE DEF new
<1>8. Fits(new)
  BY <1>1, <1>2, <1>4, <1>7 DEF Fits, OfOneRole
<1> QED
  BY <1>2, <1>5, <1>7, <1>8, Reads DEF Base

LEMMA ScrubBase ==
  ASSUME Base, NEW k \in Ops, Scrub(k) PROVE Base'
<1>1. PICK o \in Op : o = ops[k] /\ Fits(o)
  BY AtWork DEF Base, Scrub, At
<1> DEFINE todo == o.todo
           next == Head(todo)
           rest == Tail(todo)
           new == [o EXCEPT !.todo = rest]
<1>2. /\ o.stage = "scrub" /\ o.kind = "harddelete" /\ todo # <<>>
      /\ UNCHANGED <<owner, roles, overrides, history>>
      /\ held' = [held EXCEPT ![next[1]] = next[2]] /\ Become(k, new)
  BY <1>1 DEF Scrub, At
<1>3. next \in Scrubbing /\ rest \in Seq(Scrubbing)
  <2>1. todo \in Seq(Scrubbing)
    BY <1>1, <1>2 DEF Fits
  <2> HIDE DEF todo
  <2> QED
    BY <1>2, <2>1, NextTodo
<1> HIDE DEF next, rest
<1>4. Tables'
  <2>1. next[2] \in SUBSET Ids
    BY <1>3 DEF Scrubbing
  <2> QED
    BY <1>2, <2>1, HeldTables DEF Base
<1>5. rest \in Seq((Ids \X (0..MaxPosition)) \cup (Members \X SUBSET Ids))
  BY <1>3, Todos
<1>6. /\ new \in Op /\ new.kind = o.kind /\ new.roles = o.roles /\ new.whom = o.whom
      /\ new.read = o.read /\ new.todo = rest /\ new.stage = "scrub"
  BY <1>2, <1>5 DEF Op
<1> HIDE DEF new
<1>7. Fits(new)
  BY <1>1, <1>2, <1>3, <1>6 DEF Fits, OfOneRole
<1> QED
  BY <1>2, <1>4, <1>6, <1>7, Steps DEF Base

LEMMA DropRoleBase ==
  ASSUME Base, NEW k \in Ops, DropRole(k) PROVE Base'
<1>1. PICK o \in Op : o = ops[k] /\ Fits(o)
  BY AtWork DEF Base, DropRole, At
<1>2. /\ o.stage = "scrub" /\ o.kind = "harddelete" /\ roles' = Without(roles, Head(o.roles))
      /\ UNCHANGED <<owner, held, overrides, history>> /\ Become(k, None)
  BY <1>1 DEF DropRole, At, Done, Named
<1>3. Head(o.roles) # Everyone
  BY <1>1, <1>2 DEF Fits
<1>4. /\ DOMAIN roles' = DOMAIN roles \ {Head(o.roles)}
      /\ \A r \in DOMAIN roles' : roles'[r] = roles[r]
  BY <1>2 DEF Without
<1>5. Tables'
  BY <1>2, <1>3, <1>4 DEF Base, Tables, Rights
<1> QED
  BY <1>2, <1>5, Steps DEF Base

LEMMA RowChanges ==
  ASSUME NEW o \in Op, Fits(o), NEW x \in Rows
  PROVE  [o EXCEPT !.row = x] \in Op /\ Fits([o EXCEPT !.row = x])
<1> DEFINE new == [o EXCEPT !.row = x]
<1>1. /\ new \in Op /\ new.kind = o.kind /\ new.roles = o.roles /\ new.whom = o.whom
      /\ new.read = o.read /\ new.todo = o.todo /\ new.stage = o.stage
  BY DEF Op
<1> HIDE DEF new
<1>2. Fits(new)
  BY <1>1 DEF Fits
<1> QED
  BY <1>1, <1>2 DEF new

LEMMA WriteOverrideBase ==
  ASSUME Base, NEW k \in Ops, WriteOverride(k) PROVE Base'
<1>1. PICK o \in Op : o = ops[k] /\ Fits(o)
  BY AtWork DEF Base, WriteOverride, At
<1>2. o.kind \in {"upsert", "remove"} /\ UNCHANGED <<owner, roles, held, history>>
  BY <1>1 DEF WriteOverride, At
<1> DEFINE p == OverrideOf(o)
           orphaned(j) == ops[j] # None /\ ops[j].row = "there" /\ OverrideOf(ops[j]) = p
           rid(j) == IF j = k THEN None
                     ELSE IF orphaned(j) THEN [ops[j] EXCEPT !.row = "gone"] ELSE ops[j]
<1>3. \/ overrides' = Without(overrides, p) /\ ops' = [j \in Ops |-> rid(j)]
      \/ overrides' = Put(overrides, p, o.mask) /\ Become(k, None)
      \/ overrides' = overrides /\ Become(k, None)
  BY <1>1 DEF WriteOverride, Done
<1>4. p \in {Place(s, t) : s \in Scopes, t \in Ids \cup Members} /\ o.mask \in Mask
  <2>1. o.scope \in Scopes /\ o.roles \in Seq(Ids) /\ o.mask \in Mask
    BY DEF Op
  <2>2. CASE o.roles = <<>>
    BY <1>1, <1>2, <2>1, <2>2 DEF OverrideOf, Fits
  <2>3. CASE o.roles # <<>>
    <3>1. Head(o.roles) \in Ids
      BY <2>3, NamedIs
    <3> QED
      BY <2>1, <2>3, <3>1 DEF OverrideOf
  <2> QED
    BY <2>2, <2>3
<1>5. Tables'
  <2> HIDE DEF p
  <2>1. CASE overrides' = Without(overrides, p)
    BY <1>2, <2>1 DEF Base, Tables, Rights, Without
  <2>2. CASE overrides' = Put(overrides, p, o.mask)
    BY <1>2, <1>4, <2>2 DEF Base, Tables, Rights, Put
  <2>3. CASE overrides' = overrides
    BY <1>2, <2>3 DEF Base, Tables, Rights
  <2> QED
    BY <1>3, <2>1, <2>2, <2>3
<1>6. CASE Become(k, None)
  BY <1>2, <1>5, <1>6, Steps DEF Base
<1>7. CASE ops' = [j \in Ops |-> rid(j)]
  <2>1. \A j \in Ops : rid(j) = None \/ (rid(j) \in Op /\ Fits(rid(j)))
    <3> SUFFICES ASSUME NEW j \in Ops PROVE rid(j) = None \/ (rid(j) \in Op /\ Fits(rid(j)))
      OBVIOUS
    <3>1. ops[j] # None => ops[j] \in Op /\ Fits(ops[j])
      BY AtWork DEF Base
    <3>2. "gone" \in Rows
      BY DEF Rows
    <3>3. ops[j] # None => [ops[j] EXCEPT !.row = "gone"] \in Op /\ Fits([ops[j] EXCEPT !.row = "gone"])
      BY <3>1, <3>2, RowChanges
    <3> QED
      BY <3>1, <3>3
  <2> HIDE DEF rid
  <2>2. Requests'
    BY <1>7, <2>1 DEF Requests
  <2> QED
    BY <1>2, <1>5, <2>2 DEF Base
<1> QED
  BY <1>3, <1>6, <1>7

LEMMA ThrowBase ==
  ASSUME Base, NEW k \in Ops, Throw(k) PROVE Base'
<1> DEFINE t == history.loose \/ ops[k].kind \in {"swap", "reorder"}
<1>1. t \in BOOLEAN
  BY DEF Base, History
<1>2. history' = [history EXCEPT !.loose = t] /\ UNCHANGED tables /\ Become(k, None)
  BY DEF Throw, Done
<1> HIDE DEF t
<1>3. history' \in History
  BY <1>1, <1>2 DEF Base, History
<1> QED
  BY <1>2, <1>3, Reads

LEMMA BaseStep == ASSUME Base, [Next]_vars PROVE Base'
<1>1. ASSUME NEW k \in Ops, NEW u \in Members, StartAny(k, u) PROVE Base'
  BY <1>1, StartsFresh, BeginsBase
<1>2. ASSUME NEW k \in Ops, Work(k) PROVE Base'
  BY <1>2, ReadRoleBase, ReadMemberBase, ReadOverrideBase, ListForCreateBase,
     ListForTransferBase, ListForReorderBase, CheckRankBase, MoveRoleBase, CheckCapBase,
     InsertBase, WriteUpdateBase, WriteTrashBase, WriteMemberBase, FlipOwnerBase,
     ReadMembersBase, ScrubBase, DropRoleBase, WriteOverrideBase DEF Work
<1>3. ASSUME NEW k \in Ops, Throw(k) PROVE Base'
  BY <1>3, ThrowBase
<1>4. CASE UNCHANGED vars
  BY <1>4 DEF vars, tables, Base, Tables, Rights, Requests
<1> QED
  BY <1>1, <1>2, <1>3, <1>4 DEF Next

LEMMA BaseHolds == Spec => []Base
<1>1. Init => Base
  BY BaseInit
<1>2. Base /\ [Next]_vars => Base'
  BY BaseStep
<1> QED
  BY <1>1, <1>2, PTL DEF Spec

(* The cascade decides every permission of every member as the             *)
(* documentation states it, in every state and for any number of roles and *)
(* permissions: a member's own override beats those of roles, that of the  *)
(* channel that of the category, and among roles the highest that says     *)
(* anything.                                                               *)
THEOREM FoldSafe == Spec => []FoldDecides
<1>1. Base => FoldDecides
  BY FoldsAsStated DEF Base, Tables
<1> QED
  BY <1>1, BaseHolds, PTL

-----------------------------------------------------------------------------
(* Permissions only come from owners.  G is what owners have put into      *)
(* roles and overrides: rows hold no more, nor do the rows a request has   *)
(* read, nor the mask of one that has been compared with the permissions   *)
(* of whoever asks.                                                        *)
RowsWithin(rows, set, G) ==
  /\ \A r \in DOMAIN rows : rows[r].allow \subseteq G
  /\ \A p \in DOMAIN set : set[p].allow \subseteq G

Earned(o, G) ==
  /\ \A i \in 1..Len(o.read) : o.read[i].allow \subseteq G
  /\ o.kind = "create" /\ o.stage = "insert" => o.mask.allow \subseteq G
  /\ o.kind \in {"update", "upsert"} /\ o.stage = "write" => o.mask.allow \subseteq G

Granting ==
  Admin \notin history.granted =>
    /\ RowsWithin(roles, overrides, history.granted)
    /\ \A k \in Ops : ops[k] # None => Earned(ops[k], history.granted)

LEMMA GrantingInit == Init => Granting
BY DEF Init, Granting, RowsWithin

(* Whoever is not the owner has no permission that is not in some row.     *)
LEMMA RolesWithin ==
  ASSUME Rights, NEW u \in Members, NEW G, RowsWithin(roles, overrides, G)
  PROVE  RolePermissions(roles, held[u]) \subseteq G
<1> DEFINE S == Applicable(roles, held[u])
           L == LayersOf(roles, S, roles)
<1>1. IsFiniteSet(S)
  BY IdsFinite, FS_Subset DEF Rights, Applicable, Live
<1>2. \A r \in S : Height(roles, r) \in 0..MaxPosition /\ roles[r] \in Role /\ roles[r].allow \subseteq G
  BY Heights DEF Rights, Applicable, Live, RowsWithin
<1> HIDE DEF S
<1>3. InLayers(roles, S, Role, roles)
  BY <1>1, <1>2, LayersAre
<1>4. RolePermissions(roles, held[u]) = Cascade({}, L)
  <2>1. DOMAIN LowestFirst(roles, S) = 1..Cardinality(S)
    BY <1>3 DEF InLayers
  <2> QED
    BY <2>1 DEF RolePermissions, LayersOf, S
<1>5. Len(L) \in Nat /\ \A i \in 1..Len(L) : L[i].allow \subseteq G
  BY <1>2, <1>3 DEF InLayers
<1> HIDE DEF L
<1> QED
  BY <1>4, <1>5, CascadeWithin

LEMMA PermissionsWithin ==
  ASSUME Rights, NEW u \in Members, u # owner, NEW G, RowsWithin(roles, overrides, G)
  PROVE  PermissionsOf(u) \subseteq G
<1> DEFINE given == RolePermissions(roles, held[u])
           L == UserLayer(overrides, "server", u)
<1>1. given \subseteq G
  BY RolesWithin
<1>2. Len(L) \in Nat /\ L \in Seq(Mask) /\ \A i \in 1..Len(L) : L[i].allow \subseteq G
  <2>1. CASE Place("server", u) \in DOMAIN overrides
    <3> DEFINE o == overrides[Place("server", u)]
    <3>1. L = <<o>> /\ o \in Mask /\ o.allow \subseteq G
      BY <2>1 DEF UserLayer, Rights, RowsWithin
    <3> HIDE DEF o, L
    <3>2. /\ Len(<<o>>) = 1 /\ <<o>> \in Seq(Mask) /\ \A i \in 1..1 : i = 1
          /\ <<o>>[1].allow \subseteq G
      BY <3>1
    <3> QED
      BY <3>1, <3>2
  <2>2. CASE Place("server", u) \notin DOMAIN overrides
    <3>1. L = <<>>
      BY <2>2 DEF UserLayer
    <3> HIDE DEF L
    <3> QED
      BY <3>1
  <2> QED
    BY <2>1, <2>2
<1> HIDE DEF L, given
<1>3. L \o <<>> = L
  BY <1>2
<1>4. Cascade(given, L) \subseteq G
  BY <1>1, <1>2, CascadeWithin
<1>5. PermissionsOf(u) = IF Admin \in given THEN given ELSE Cascade(given, L \o <<>>)
  BY DEF PermissionsOf, ServerPermissions, Folded, L, given
<1> QED
  BY <1>1, <1>3, <1>4, <1>5

(* Steps that grant nothing new.                                           *)
LEMMA GrantingStep ==
  ASSUME Base, Granting, NEW k \in Ops, NEW r, Become(k, r),
         history.granted \subseteq history'.granted,
         Admin \notin history'.granted =>
           /\ RowsWithin(roles', overrides', history'.granted)
           /\ r = None \/ Earned(r, history'.granted)
  PROVE  Granting'
<1> DEFINE G == history.granted
           H == history'.granted
<1> SUFFICES ASSUME Admin \notin H
             PROVE  /\ RowsWithin(roles', overrides', H)
                    /\ \A j \in Ops : ops'[j] # None => Earned(ops'[j], H)
  BY DEF Granting
<1>1. \A j \in Ops : ops'[j] = IF j = k THEN r ELSE ops[j]
  BY DEF Base, Requests, Become
<1>2. \A j \in Ops : ops[j] # None => Earned(ops[j], G)
  BY DEF Granting
<1>3. \A o : Earned(o, G) => Earned(o, H)
  BY DEF Earned
<1> HIDE DEF G, H
<1>4. \A j \in Ops : ops'[j] # None => Earned(ops'[j], H)
  BY <1>1, <1>2, <1>3 DEF H
<1> QED
  BY <1>4 DEF H

(* A step that brings no permission closer to a row.                       *)
Idle(o, r) ==
  /\ r.read = o.read /\ r.kind = o.kind
  /\ r.stage \in {"insert", "write"} => r.kind \notin {"create", "update", "upsert"}

LEMMA IdleEarns ==
  ASSUME NEW o, NEW r, Idle(o, r), NEW G, Earned(o, G) PROVE Earned(r, G)
BY DEF Idle, Earned

LEMMA IdleSteps ==
  ASSUME Base, Granting, NEW k \in Ops, ops[k] # None, NEW r, Become(k, r),
         r = None \/ Idle(ops[k], r), history'.granted = history.granted,
         Admin \notin history.granted => RowsWithin(roles', overrides', history.granted)
  PROVE  Granting'
<1>1. Admin \notin history.granted => r = None \/ Earned(r, history.granted)
  BY IdleEarns DEF Granting
<1> QED
  BY <1>1, GrantingStep

LEMMA IdleReads ==
  ASSUME Base, Granting, NEW k \in Ops, ops[k] # None, NEW r, Become(k, r),
         r = None \/ Idle(ops[k], r), history'.granted = history.granted, UNCHANGED tables
  PROVE  Granting'
<1>1. Admin \notin history.granted => RowsWithin(roles', overrides', history.granted)
  BY DEF tables, Granting
<1> QED
  BY <1>1, IdleSteps

(* Rows without new permissions.                                           *)
LEMMA SameRows ==
  ASSUME NEW G, RowsWithin(roles, overrides, G),
         \A r \in DOMAIN roles' : r \in DOMAIN roles /\ roles'[r].allow = roles[r].allow,
         UNCHANGED overrides
  PROVE  RowsWithin(roles', overrides', G)
BY DEF RowsWithin

LEMMA GotoIdle ==
  ASSUME NEW o \in Op, NEW s, s \notin {"insert", "write"} \/ o.kind \notin {"create", "update", "upsert"}
  PROVE  Idle(o, [o EXCEPT !.stage = s])
BY DEF Op, Idle

LEMMA BeginsGranting ==
  ASSUME Base, Granting, NEW k \in Ops, NEW r, Begins(k, r) PROVE Granting'
<1>1. history'.granted = history.granted /\ UNCHANGED tables /\ Become(k, r)
  BY DEF Begins, Base, History
<1>2. r.stage \in {"list", "role", "member", "override", "rank"} /\ r.read = <<>>
  BY DEF Begins, Fresh, Op, Kinds, RoleOps
<1>3. Len(r.read) = 0
  BY <1>2, EmptySequences
<1>4. Earned(r, history.granted)
  BY <1>2, <1>3 DEF Earned
<1> QED
  BY <1>1, <1>4, GrantingStep DEF tables, Granting

LEMMA ReadRoleGranting ==
  ASSUME Base, Granting, NEW k \in Ops, ReadRole(k) PROVE Granting'
<1>1. PICK o \in Op : o = ops[k] /\ Fits(o)
  BY AtWork DEF Base, ReadRole, At
<1> DEFINE n == Len(o.read)
           r == o.roles[n + 1]
           to == IF n + 1 < Len(o.roles) THEN "role" ELSE "rank"
           rows == Append(o.read, roles[r])
           new == [o EXCEPT !.read = rows, !.stage = to]
<1>2. UNCHANGED <<tables, history>> /\ ops[k] # None
  BY DEF ReadRole, At
<1>3. \/ o.kind = "unassign" /\ Become(k, [o EXCEPT !.stage = "write"])
      \/ Become(k, None)
      \/ r \in DOMAIN roles /\ Become(k, new)
  BY <1>1 DEF ReadRole, Goto, Done
<1>4. CASE o.kind = "unassign" /\ Become(k, [o EXCEPT !.stage = "write"])
  <2>1. Idle(o, [o EXCEPT !.stage = "write"])
    BY <1>4, GotoIdle
  <2> QED
    BY <1>1, <1>2, <1>4, <2>1, IdleReads
<1>5. CASE Become(k, None)
  BY <1>2, <1>5, IdleReads
<1>6. CASE r \in DOMAIN roles /\ Become(k, new)
  <2>1. roles[r] \in Role /\ o.read \in Seq(Role)
    BY <1>6 DEF Base, Tables, Rights, Op
  <2> DEFINE row == roles[r]
             was == o.read
  <2>2. /\ Len(rows) = Len(was) + 1 /\ Len(was) \in Nat /\ rows[Len(was) + 1] = row
        /\ \A i \in 1..Len(was) : rows[i] = was[i]
    <3>1. row \in Role /\ was \in Seq(Role)
      BY <2>1
    <3> HIDE DEF row, was
    <3>2. /\ Len(Append(was, row)) = Len(was) + 1 /\ Append(was, row)[Len(was) + 1] = row
          /\ \A i \in 1..Len(was) : Append(was, row)[i] = was[i]
      BY ONLY <3>1, AppendProperties
    <3>3. Len(was) \in Nat
      BY <3>1
    <3> QED
      BY <3>2, <3>3 DEF row, was
  <2>3. new.read = rows /\ new.stage = to /\ to \notin {"insert", "write"}
    BY DEF Op
  <2> HIDE DEF new, rows, row, was
  <2>4. Admin \notin history.granted =>
          row.allow \subseteq history.granted /\ \A i \in 1..Len(was) : was[i].allow \subseteq history.granted
    BY <1>1, <1>2, <1>6 DEF Granting, RowsWithin, Earned, row, was
  <2>5. \A i \in 1..Len(was) + 1 : i = Len(was) + 1 \/ i \in 1..Len(was)
    BY <2>2
  <2>6. Admin \notin history.granted => Earned(new, history.granted)
    BY <2>2, <2>3, <2>4, <2>5 DEF Earned
  <2> QED
    BY <1>2, <1>6, <2>6, GrantingStep DEF tables, Granting
<1> QED
  BY <1>3, <1>4, <1>5, <1>6

LEMMA ReadMemberGranting ==
  ASSUME Base, Granting, NEW k \in Ops, ReadMember(k) PROVE Granting'
<1>1. PICK o \in Op : o = ops[k] /\ Fits(o)
  BY AtWork DEF Base, ReadMember, At
<1>2. /\ o.kind \in {"assign", "unassign", "transfer"}
      /\ UNCHANGED <<tables, history>> /\ ops[k] # None
  BY <1>1 DEF ReadMember, At
<1> DEFINE ids == held[IF o.kind = "transfer" THEN o.user ELSE o.whom]
           to == IF o.kind = "transfer" THEN "write" ELSE "role"
           new == [o EXCEPT !.mine = ids, !.stage = to]
<1>3. Become(k, None) \/ Become(k, new)
  BY <1>1 DEF ReadMember, Done
<1> HIDE DEF ids, to
<1>4. Idle(o, new)
  BY <1>2 DEF Op, Idle
<1> QED
  BY <1>1, <1>2, <1>3, <1>4, IdleReads

LEMMA ReadOverrideGranting ==
  ASSUME Base, Granting, NEW k \in Ops, ReadOverride(k) PROVE Granting'
<1>1. PICK o \in Op : o = ops[k] /\ Fits(o)
  BY AtWork DEF Base, ReadOverride, At
<1>2. o.kind = "remove" /\ UNCHANGED <<tables, history>> /\ ops[k] # None
  BY <1>1 DEF ReadOverride, At
<1> DEFINE to == IF o.roles = <<>> THEN "rank" ELSE "role"
           new == [o EXCEPT !.row = "there", !.stage = to]
<1>3. Become(k, None) \/ Become(k, new)
  BY <1>1 DEF ReadOverride, Done
<1> HIDE DEF to
<1>4. Idle(o, new)
  BY <1>2 DEF Op, Idle
<1> QED
  BY <1>1, <1>2, <1>3, <1>4, IdleReads

LEMMA ListForCreateGranting ==
  ASSUME Base, Granting, NEW k \in Ops, ListForCreate(k) PROVE Granting'
<1>1. PICK o \in Op : o = ops[k] /\ Fits(o)
  BY AtWork DEF Base, ListForCreate, At
<1>2. UNCHANGED <<tables, history>> /\ ops[k] # None
  BY DEF ListForCreate, At
<1>3. PICK new : /\ Become(k, new)
                 /\ (HighToLow = <<>> /\ NoRoles(o, new)) \/ RoomBelow(o, new) \/ AllMoveUp(o, new)
  BY <1>1, CreationFinds
<1>4. new.read = o.read /\ new.kind = o.kind /\ new.stage \in {"cap", "move"}
  <2>1. CASE NoRoles(o, new)
    BY <2>1 DEF NoRoles, Op
  <2>2. CASE RoomBelow(o, new)
    <3> DEFINE h == roles[HighToLow[Len(HighToLow)]].position - 1
    <3>1. new = [o EXCEPT !.height = h, !.stage = "cap"]
      BY <2>2 DEF RoomBelow
    <3> HIDE DEF h
    <3> QED
      BY <3>1 DEF Op
  <2>3. CASE AllMoveUp(o, new)
    <3> DEFINE up == [i \in DOMAIN HighToLow |-> <<HighToLow[i], roles[HighToLow[i]].position + 1>>]
    <3>1. new = [o EXCEPT !.height = 1, !.stage = "move", !.todo = up]
      BY <2>3 DEF AllMoveUp
    <3> HIDE DEF up
    <3> QED
      BY <3>1 DEF Op
  <2> QED
    BY <1>3, <2>1, <2>2, <2>3
<1>5. Idle(o, new)
  BY <1>4 DEF Idle
<1> QED
  BY <1>1, <1>2, <1>3, <1>5, IdleReads

LEMMA ListForTransferGranting ==
  ASSUME Base, Granting, NEW k \in Ops, ListForTransfer(k) PROVE Granting'
<1>1. PICK o \in Op : o = ops[k] /\ Fits(o)
  BY AtWork DEF Base, ListForTransfer, At
<1>2. o.kind = "transfer" /\ UNCHANGED <<tables, history>> /\ ops[k] # None
  BY <1>1 DEF ListForTransfer, At
<1> DEFINE top == Highest({roles[r].position : r \in DOMAIN roles}) + 1
           new == [o EXCEPT !.height = top, !.stage = "insert"]
<1>3. Become(k, new)
  BY <1>1 DEF ListForTransfer
<1> HIDE DEF top
<1>4. Idle(o, new)
  BY <1>2 DEF Op, Idle
<1> QED
  BY <1>1, <1>2, <1>3, <1>4, IdleReads

LEMMA ListForReorderGranting ==
  ASSUME Base, Granting, NEW k \in Ops, ListForReorder(k) PROVE Granting'
<1>1. PICK o \in Op : o = ops[k] /\ Fits(o)
  BY AtWork DEF Base, ListForReorder, At
<1>2. UNCHANGED <<tables, history>> /\ ops[k] # None
  BY DEF ListForReorder, At
<1> DEFINE named == o.roles
           rows == [i \in DOMAIN named |-> roles[named[i]]]
           new == [o EXCEPT !.stage = "rank", !.read = rows]
<1>3. Become(k, None) \/ ((\A i \in DOMAIN named : named[i] \in Custom) /\ Become(k, new))
  BY <1>1 DEF ListForReorder, Done
<1>4. CASE Become(k, None)
  BY <1>2, <1>4, IdleReads
<1>5. CASE (\A i \in DOMAIN named : named[i] \in Custom) /\ Become(k, new)
  <2>1. named \in Seq(Ids)
    BY DEF Op
  <2> HIDE DEF named
  <2> DEFINE n == Len(named)
  <2>2. n \in Nat /\ DOMAIN named = 1..n
    BY <2>1
  <2>3. DOMAIN rows = 1..n /\ \A i \in 1..n : rows[i] = roles[named[i]] /\ named[i] \in DOMAIN roles
    BY <1>5, <2>2 DEF Custom, Live
  <2>4. rows \in Seq({roles[r] : r \in DOMAIN roles}) /\ Len(rows) = n
    <3> DEFINE X == {roles[r] : r \in DOMAIN roles}
    <3>1. \A i \in 1..n : roles[named[i]] \in X
      BY <2>3
    <3>2. rows = [i \in 1..n |-> roles[named[i]]]
      BY <2>2
    <3> HIDE DEF X
    <3>3. rows \in [1..n -> X]
      BY <3>1, <3>2
    <3> HIDE DEF rows, n
    <3>4. rows \in Seq(X) /\ Len(rows) = n
      BY <2>2, <3>3
    <3> QED
      BY <3>4 DEF X
  <2> HIDE DEF rows, n
  <2>5. new.read = rows /\ new.stage = "rank"
    BY DEF Op
  <2> HIDE DEF new
  <2>6. Admin \notin history.granted => Earned(new, history.granted)
    BY <2>3, <2>4, <2>5 DEF Earned, Granting, RowsWithin
  <2> QED
    BY <1>2, <1>5, <2>6, GrantingStep DEF tables, Granting
<1> QED
  BY <1>3, <1>4, <1>5

LEMMA CheckRankGranting ==
  ASSUME Base, Granting, NEW k \in Ops, CheckRank(k) PROVE Granting'
<1>1. PICK o \in Op : o = ops[k] /\ Fits(o)
  BY AtWork DEF Base, CheckRank, At
<1> DEFINE t == history.loose \/ Muddles(k)
<1>2. UNCHANGED tables /\ ops[k] # None /\ history' = [history EXCEPT !.loose = t]
  BY DEF CheckRank, At
<1> HIDE DEF t
<1>3. history'.granted = history.granted
  BY <1>2 DEF Base, History
<1> DEFINE new == [o EXCEPT !.stage = "move", !.todo = Moves(k)]
<1>4. \/ Become(k, None)
      \/ o.kind \in {"update", "upsert"} /\ Goto(k, "cap")
      \/ Become(k, new)
      \/ o.kind = "harddelete" /\ Goto(k, "members")
      \/ o.kind \notin {"update", "upsert", "create"} /\ Goto(k, "write")
  <2>1. o.stage = "rank"
    BY <1>1 DEF CheckRank, At
  <2>2. o.kind # "create"
    BY <1>1, <2>1 DEF Fits
  <2> QED
    BY <1>1, <2>2 DEF CheckRank, Done
<1>5. CASE Become(k, None)
  BY <1>2, <1>3, <1>5, IdleReads
<1>6. CASE Become(k, new)
  <2>1. Idle(o, new)
    BY DEF Op, Idle
  <2> QED
    BY <1>1, <1>2, <1>3, <1>6, <2>1, IdleReads
<1>7. ASSUME NEW s, Goto(k, s), s \notin {"insert", "write"} \/ o.kind \notin {"create", "update", "upsert"}
      PROVE  Granting'
  <2>1. Idle(o, [o EXCEPT !.stage = s]) /\ Become(k, [o EXCEPT !.stage = s])
    BY <1>1, <1>7, GotoIdle DEF Goto
  <2> QED
    BY <1>1, <1>2, <1>3, <2>1, IdleReads
<1> QED
  BY <1>4, <1>5, <1>6, <1>7

LEMMA MoveRoleGranting ==
  ASSUME Base, Granting, NEW k \in Ops, MoveRole(k) PROVE Granting'
<1>1. PICK o \in Op : o = ops[k] /\ Fits(o)
  BY AtWork DEF Base, MoveRole, At
<1> DEFINE r == Head(o.todo)[1]
           h == Head(o.todo)[2]
           rest == Tail(o.todo)
           empty == <<>>
           row == [roles[r] EXCEPT !.position = h]
<1>2. /\ o.kind \in {"create", "swap", "reorder"} /\ UNCHANGED <<overrides, history>>
      /\ ops[k] # None /\ Merge(r, row)
      /\ \/ Become(k, [o EXCEPT !.todo = rest])
         \/ Become(k, [o EXCEPT !.todo = empty, !.stage = "cap"])
         \/ Become(k, None)
      /\ o.stage = "move"
  BY <1>1 DEF MoveRole, At, Done
<1> HIDE DEF rest, empty
<1>3. Idle(o, [o EXCEPT !.todo = rest]) /\ Idle(o, [o EXCEPT !.todo = empty, !.stage = "cap"])
  BY <1>2 DEF Op, Idle
<1>4. \A x \in DOMAIN roles' : x \in DOMAIN roles /\ roles'[x].allow = roles[x].allow
  <2>1. r \in DOMAIN roles => row.allow = roles[r].allow
    BY DEF Base, Tables, Rights, Role
  <2> HIDE DEF row, r
  <2> QED
    BY <1>2, <2>1 DEF Merge
<1>5. Admin \notin history.granted => RowsWithin(roles', overrides', history.granted)
  BY <1>2, <1>4, SameRows DEF Granting
<1> QED
  BY <1>1, <1>2, <1>3, <1>5, IdleSteps

LEMMA CheckCapGranting ==
  ASSUME Base, Granting, NEW k \in Ops, CheckCap(k) PROVE Granting'
<1>1. PICK o \in Op : o = ops[k] /\ Fits(o)
  BY AtWork DEF Base, CheckCap, At
<1> DEFINE G == history.granted
           H == IF Actor(k) = owner THEN G \cup o.mask.allow ELSE G
<1>2. /\ o.stage = "cap" /\ o.kind \in {"create", "update", "upsert"}
      /\ UNCHANGED tables /\ ops[k] # None
  BY <1>1 DEF CheckCap, At
<1>3. history'.granted = H
  <2>1. history' = [history EXCEPT !.granted = H]
    BY <1>1 DEF CheckCap
  <2> HIDE DEF H
  <2> QED
    BY <2>1 DEF Base, History
<1> DEFINE row == IF OverrideOf(o) \in DOMAIN overrides THEN "there" ELSE "absent"
           new == [o EXCEPT !.stage = "write", !.row = row]
<1>4. \/ Become(k, None)
      \/ o.kind = "create" /\ Capped(k) /\ Become(k, [o EXCEPT !.stage = "insert"])
      \/ o.kind = "update" /\ Capped(k) /\ Become(k, [o EXCEPT !.stage = "write"])
      \/ o.kind = "upsert" /\ Capped(k) /\ Become(k, new)
  BY <1>1, <1>2 DEF CheckCap, Done, Goto
<1>5. ASSUME Admin \notin H
      PROVE  /\ RowsWithin(roles', overrides', H)
             /\ \A i \in 1..Len(o.read) : o.read[i].allow \subseteq H
             /\ Capped(k) => o.mask.allow \subseteq H
  <2>1. G \subseteq H /\ Admin \notin G
    BY <1>5
  <2>2. RowsWithin(roles, overrides, G) /\ \A i \in 1..Len(o.read) : o.read[i].allow \subseteq G
    BY <1>1, <1>2, <2>1 DEF Granting, Earned
  <2>3. ASSUME Capped(k), Actor(k) # owner PROVE o.mask.allow \subseteq G
    <3>1. PermissionsOf(Actor(k)) \subseteq G
      <4>1. Actor(k) \in Members /\ Rights
        BY <1>1 DEF Actor, Op, Base, Tables
      <4> QED
        BY <2>2, <2>3, <4>1, PermissionsWithin
    <3>2. Moved(k) \subseteq G
      BY <2>1, <2>3, <3>1 DEF Capped
    <3>3. CASE o.kind # "update"
      BY <1>1, <3>2, <3>3 DEF Moved
    <3>4. CASE o.kind = "update"
      <4>1. o.read # <<>> /\ o.read \in Seq(Role)
        BY <1>1, <1>2, <3>4 DEF Fits, Op
      <4>2. Head(o.read) = o.read[1] /\ 1 \in 1..Len(o.read)
        BY <4>1, NextTodo
      <4>3. Head(o.read).allow \subseteq G
        BY <2>2, <4>2
      <4>4. Differ(o.mask.allow, Head(o.read).allow) \subseteq G
        BY <1>1, <3>2, <3>4 DEF Moved
      <4> QED
        BY <4>3, <4>4 DEF Differ
    <3> QED
      BY <3>3, <3>4
  <2>4. Actor(k) = owner => o.mask.allow \subseteq H
    OBVIOUS
  <2>5. RowsWithin(roles', overrides', H)
    BY <1>2, <2>1, <2>2 DEF tables, RowsWithin
  <2>6. \A i \in 1..Len(o.read) : o.read[i].allow \subseteq H
    BY <2>1, <2>2
  <2>7. Capped(k) => o.mask.allow \subseteq H
    BY <2>1, <2>3, <2>4
  <2> QED
    BY <2>5, <2>6, <2>7
<1>6. G \subseteq H
  OBVIOUS
<1>7. Admin \notin H => RowsWithin(roles', overrides', H)
  BY <1>5
<1> HIDE DEF H, G, row
<1>8. ASSUME NEW r, Become(k, r), r.read = o.read, r.mask = o.mask, Capped(k) PROVE Granting'
  <2>1. Admin \notin H => Earned(r, H)
    BY <1>5, <1>8 DEF Earned
  <2> QED
    BY <1>3, <1>6, <1>7, <1>8, <2>1, GrantingStep DEF G
<1>9. CASE Become(k, None)
  BY <1>3, <1>6, <1>7, <1>9, GrantingStep DEF G
<1>10. /\ [o EXCEPT !.stage = "insert"].read = o.read /\ [o EXCEPT !.stage = "insert"].mask = o.mask
       /\ [o EXCEPT !.stage = "write"].read = o.read /\ [o EXCEPT !.stage = "write"].mask = o.mask
       /\ new.read = o.read /\ new.mask = o.mask
  BY DEF Op
<1> HIDE DEF new
<1> QED
  BY <1>4, <1>8, <1>9, <1>10

LEMMA InsertGranting ==
  ASSUME Base, Granting, NEW k \in Ops, Insert(k) PROVE Granting'
<1>1. PICK o \in Op : o = ops[k] /\ Fits(o)
  BY AtWork DEF Base, Insert, At
<1>2. /\ o.stage = "insert" /\ o.kind \in {"create", "transfer"}
      /\ UNCHANGED overrides /\ ops[k] # None
  BY <1>1 DEF Insert, At
<1> DEFINE allow == IF o.kind = "create" THEN o.mask.allow ELSE {Admin}
           row == [position |-> o.height, deleted |-> FALSE, allow |-> allow, deny |-> o.mask.deny]
           G == history.granted
           H == IF o.kind = "create" THEN G ELSE G \cup {Admin}
<1>3. PICK r \in RoleIds \ history.used :
        /\ roles' = Put(roles, r, row)
        /\ Become(k, None) \/ (o.kind = "transfer" /\ Become(k, [o EXCEPT !.roles = <<r>>, !.stage = "member"]))
        /\ history' = [history EXCEPT !.used = @ \cup {r}, !.granted = H]
  BY <1>1, <1>2 DEF Insert, Done
<1>4. history'.granted = H
  <2> HIDE DEF H
  <2> QED
    BY <1>3 DEF Base, History
<1>5. Admin \notin H => o.kind = "create" /\ H = G
  BY <1>2
<1>6. Admin \notin H => RowsWithin(roles', overrides', H)
  <2> SUFFICES ASSUME Admin \notin H PROVE RowsWithin(roles', overrides', H)
    OBVIOUS
  <2>1. o.kind = "create" /\ H = G
    BY <1>5
  <2>2. RowsWithin(roles, overrides, G) /\ o.mask.allow \subseteq G
    BY <1>1, <1>2, <2>1 DEF Granting, Earned
  <2>3. row.allow \subseteq G
    BY <2>1, <2>2
  <2> HIDE DEF row, H, G
  <2> QED
    BY <1>2, <1>3, <2>1, <2>2, <2>3 DEF RowsWithin, Put
<1>7. G \subseteq H
  OBVIOUS
<1> HIDE DEF H
<1>8. CASE Become(k, None)
  BY <1>4, <1>6, <1>7, <1>8, GrantingStep
<1>9. CASE o.kind = "transfer" /\ Become(k, [o EXCEPT !.roles = <<r>>, !.stage = "member"])
  <2>1. Admin \in H
    BY <1>5, <1>9
  <2> QED
    BY <1>4, <1>7, <1>9, <2>1, GrantingStep
<1> QED
  BY <1>3, <1>8, <1>9

LEMMA WriteUpdateGranting ==
  ASSUME Base, Granting, NEW k \in Ops, WriteUpdate(k) PROVE Granting'
<1>1. PICK o \in Op : o = ops[k] /\ Fits(o)
  BY AtWork DEF Base, WriteUpdate, At
<1>2. /\ o.stage = "write" /\ o.kind = "update" /\ UNCHANGED <<overrides, history>>
      /\ Become(k, None) /\ ops[k] # None
  BY <1>1 DEF WriteUpdate, At, Done
<1> DEFINE r == Named(k)
           a == IF o.mask.allow # Head(o.read).allow THEN o.mask.allow ELSE roles[r].allow
           d == IF o.mask.deny # Head(o.read).deny THEN o.mask.deny ELSE roles[r].deny
           row == [roles[r] EXCEPT !.allow = a, !.deny = d]
           G == history.granted
<1>3. Merge(r, row)
  BY <1>1 DEF WriteUpdate
<1>4. r \in DOMAIN roles => row.allow = a
  <2> HIDE DEF a, d
  <2> QED
    BY DEF Base, Tables, Rights, Role
<1>5. Admin \notin G => RowsWithin(roles', overrides', G)
  <2> SUFFICES ASSUME Admin \notin G PROVE RowsWithin(roles', overrides', G)
    OBVIOUS
  <2>1. RowsWithin(roles, overrides, G) /\ o.mask.allow \subseteq G
    BY <1>1, <1>2 DEF Granting, Earned
  <2>2. r \in DOMAIN roles => a \subseteq G
    BY <2>1 DEF RowsWithin
  <2> HIDE DEF row, a, r, G
  <2> QED
    BY <1>2, <1>3, <1>4, <2>1, <2>2 DEF RowsWithin, Merge
<1> QED
  BY <1>2, <1>5, IdleSteps

LEMMA WriteTrashGranting ==
  ASSUME Base, Granting, NEW k \in Ops, WriteTrash(k) PROVE Granting'
<1> DEFINE r == Named(k)
           d == ops[k].kind = "delete"
           t == history.loose \/ ops[k].kind = "restore"
           row == [roles[r] EXCEPT !.deleted = d]
<1>1. /\ UNCHANGED overrides /\ Become(k, None) /\ ops[k] # None /\ Merge(r, row)
      /\ history' = [history EXCEPT !.loose = t]
  BY DEF WriteTrash, Done, At
<1> HIDE DEF t
<1>2. history'.granted = history.granted
  BY <1>1 DEF Base, History
<1>3. \A x \in DOMAIN roles' : x \in DOMAIN roles /\ roles'[x].allow = roles[x].allow
  <2>1. r \in DOMAIN roles => row.allow = roles[r].allow
    BY DEF Base, Tables, Rights, Role
  <2> HIDE DEF row, r
  <2> QED
    BY <1>1, <2>1 DEF Merge
<1>4. Admin \notin history.granted => RowsWithin(roles', overrides', history.granted)
  BY <1>1, <1>3, SameRows DEF Granting
<1> QED
  BY <1>1, <1>2, <1>4, IdleSteps

(* Steps that change neither roles nor overrides.                          *)
LEMMA OtherTables ==
  ASSUME Base, Granting, NEW k \in Ops, ops[k] # None, NEW r, Become(k, r),
         r = None \/ Idle(ops[k], r), history'.granted = history.granted,
         UNCHANGED <<roles, overrides>>
  PROVE  Granting'
<1>1. Admin \notin history.granted => RowsWithin(roles', overrides', history.granted)
  BY DEF Granting
<1> QED
  BY <1>1, IdleSteps

LEMMA WriteMemberGranting ==
  ASSUME Base, Granting, NEW k \in Ops, WriteMember(k) PROVE Granting'
<1>1. PICK o \in Op : o = ops[k] /\ Fits(o)
  BY AtWork DEF Base, WriteMember, At
<1>2. /\ UNCHANGED <<roles, overrides, history>> /\ ops[k] # None
      /\ Become(k, [o EXCEPT !.stage = "flip"]) \/ Become(k, None)
  BY <1>1 DEF WriteMember, At, Goto, Done
<1>3. Idle(o, [o EXCEPT !.stage = "flip"])
  BY GotoIdle
<1> QED
  BY <1>1, <1>2, <1>3, OtherTables

LEMMA FlipOwnerGranting ==
  ASSUME Base, Granting, NEW k \in Ops, FlipOwner(k) PROVE Granting'
BY OtherTables DEF FlipOwner, Done, At

LEMMA ReadMembersGranting ==
  ASSUME Base, Granting, NEW k \in Ops, ReadMembers(k) PROVE Granting'
<1>1. PICK o \in Op : o = ops[k] /\ Fits(o)
  BY AtWork DEF Base, ReadMembers, At
<1>2. UNCHANGED <<tables, history>> /\ ops[k] # None
  BY DEF ReadMembers, At
<1>3. PICK list : Become(k, [o EXCEPT !.stage = "scrub", !.todo = list])
  BY <1>1 DEF ReadMembers
<1>4. Idle(o, [o EXCEPT !.stage = "scrub", !.todo = list])
  BY DEF Op, Idle
<1> QED
  BY <1>1, <1>2, <1>3, <1>4, IdleReads

LEMMA ScrubGranting ==
  ASSUME Base, Granting, NEW k \in Ops, Scrub(k) PROVE Granting'
<1>1. PICK o \in Op : o = ops[k] /\ Fits(o)
  BY AtWork DEF Base, Scrub, At
<1> DEFINE rest == Tail(o.todo)
<1>2. /\ UNCHANGED <<roles, overrides, history>> /\ ops[k] # None /\ o.kind = "harddelete"
      /\ Become(k, [o EXCEPT !.todo = rest])
  BY <1>1 DEF Scrub, At
<1> HIDE DEF rest
<1>3. Idle(o, [o EXCEPT !.todo = rest])
  BY <1>2 DEF Op, Idle
<1> QED
  BY <1>1, <1>2, <1>3, OtherTables

LEMMA DropRoleGranting ==
  ASSUME Base, Granting, NEW k \in Ops, DropRole(k) PROVE Granting'
<1>1. /\ UNCHANGED <<overrides, history>> /\ ops[k] # None /\ Become(k, None)
      /\ roles' = Without(roles, Named(k))
  BY DEF DropRole, At, Done
<1>2. \A x \in DOMAIN roles' : x \in DOMAIN roles /\ roles'[x].allow = roles[x].allow
  BY <1>1 DEF Without
<1>3. Admin \notin history.granted => RowsWithin(roles', overrides', history.granted)
  BY <1>1, <1>2, SameRows DEF Granting
<1> QED
  BY <1>1, <1>3, IdleSteps

LEMMA WriteOverrideGranting ==
  ASSUME Base, Granting, NEW k \in Ops, WriteOverride(k) PROVE Granting'
<1>1. PICK o \in Op : o = ops[k] /\ Fits(o)
  BY AtWork DEF Base, WriteOverride, At
<1>2. o.kind \in {"upsert", "remove"} /\ o.stage = "write" /\ UNCHANGED <<roles, history>> /\ ops[k] # None
  BY <1>1 DEF WriteOverride, At
<1> DEFINE p == OverrideOf(o)
           orphaned(j) == ops[j] # None /\ ops[j].row = "there" /\ OverrideOf(ops[j]) = p
           rid(j) == IF j = k THEN None
                     ELSE IF orphaned(j) THEN [ops[j] EXCEPT !.row = "gone"] ELSE ops[j]
           G == history.granted
<1>3. \/ overrides' = Without(overrides, p) /\ ops' = [j \in Ops |-> rid(j)]
      \/ o.kind = "upsert" /\ overrides' = Put(overrides, p, o.mask) /\ Become(k, None)
      \/ overrides' = overrides /\ Become(k, None)
  BY <1>1 DEF WriteOverride, Done
<1> HIDE DEF p
<1>4. CASE overrides' = Without(overrides, p) /\ ops' = [j \in Ops |-> rid(j)]
  <2>1. Admin \notin G => RowsWithin(roles', overrides', G)
    BY <1>2, <1>4 DEF Granting, RowsWithin, Without
  <2>2. ASSUME Admin \notin G, NEW j \in Ops, rid(j) # None PROVE Earned(rid(j), G)
    <3>1. ops[j] # None /\ ops[j] \in Op /\ Earned(ops[j], G)
      BY <2>2, AtWork DEF Base, Granting
    <3>2. Earned([ops[j] EXCEPT !.row = "gone"], G)
      <4> DEFINE new == [ops[j] EXCEPT !.row = "gone"]
      <4>1. /\ new.read = ops[j].read /\ new.kind = ops[j].kind /\ new.stage = ops[j].stage
            /\ new.mask = ops[j].mask
        BY <3>1 DEF Op
      <4> HIDE DEF new
      <4>2. Earned(new, G)
        BY <3>1, <4>1 DEF Earned
      <4> QED
        BY <4>2 DEF new
    <3> QED
      BY <2>2, <3>1, <3>2
  <2>3. \A j \in Ops : ops'[j] = rid(j)
    BY <1>4
  <2> HIDE DEF rid
  <2> QED
    BY <1>2, <2>1, <2>2, <2>3 DEF Granting
<1>5. CASE o.kind = "upsert" /\ overrides' = Put(overrides, p, o.mask) /\ Become(k, None)
  <2>1. Admin \notin G => RowsWithin(roles, overrides, G) /\ o.mask.allow \subseteq G
    BY <1>1, <1>2, <1>5 DEF Granting, Earned
  <2>2. Admin \notin G => RowsWithin(roles', overrides', G)
    BY <1>2, <1>5, <2>1 DEF RowsWithin, Put
  <2> QED
    BY <1>2, <1>5, <2>2, IdleSteps
<1>6. CASE overrides' = overrides /\ Become(k, None)
  BY <1>2, <1>6, OtherTables
<1> QED
  BY <1>3, <1>4, <1>5, <1>6

LEMMA ThrowGranting ==
  ASSUME Base, Granting, NEW k \in Ops, Throw(k) PROVE Granting'
<1> DEFINE t == history.loose \/ ops[k].kind \in {"swap", "reorder"}
<1>1. history' = [history EXCEPT !.loose = t] /\ UNCHANGED tables /\ Become(k, None) /\ ops[k] # None
  BY DEF Throw, Done
<1> HIDE DEF t
<1>2. history'.granted = history.granted
  BY <1>1 DEF Base, History
<1> QED
  BY <1>1, <1>2, IdleReads

LEMMA GrantingSteps == ASSUME Base, Granting, [Next]_vars PROVE Granting'
<1>1. ASSUME NEW k \in Ops, NEW u \in Members, StartAny(k, u) PROVE Granting'
  BY <1>1, StartsFresh, BeginsGranting
<1>2. ASSUME NEW k \in Ops, Work(k) PROVE Granting'
  BY <1>2, ReadRoleGranting, ReadMemberGranting, ReadOverrideGranting, ListForCreateGranting,
     ListForTransferGranting, ListForReorderGranting, CheckRankGranting, MoveRoleGranting,
     CheckCapGranting, InsertGranting, WriteUpdateGranting, WriteTrashGranting,
     WriteMemberGranting, FlipOwnerGranting, ReadMembersGranting, ScrubGranting,
     DropRoleGranting, WriteOverrideGranting DEF Work
<1>3. ASSUME NEW k \in Ops, Throw(k) PROVE Granting'
  BY <1>3, ThrowGranting
<1>4. CASE UNCHANGED vars
  BY <1>4 DEF vars, tables, Granting
<1> QED
  BY <1>1, <1>2, <1>3, <1>4 DEF Next

(* No permission is in a role or in an override that no owner has ever put *)
(* into one, however requests overlap and fail: what a request writes has  *)
(* been compared with the permissions of whoever asks, and those come from *)
(* rows.                                                                   *)
THEOREM GrantsSafe == Spec => []NothingFromNowhere
<1>1. Init => Granting
  BY GrantingInit
<1>2. Base /\ Granting /\ [Next]_vars => Granting'
  BY GrantingSteps
<1>3. Granting => NothingFromNowhere
  BY DEF Granting, RowsWithin, NothingFromNowhere
<1> QED
  BY <1>1, <1>2, <1>3, BaseHolds, PTL DEF Spec

-----------------------------------------------------------------------------
(* One request at a time.  Unless requests overlapped there is one at      *)
(* most, and what it has read is what is there: the roles of a member, the *)
(* role it assigns, the holders of a role it is about to delete.           *)
Covers(todo, r, rows, ids) ==
  /\ \A m \in Members : r \in ids[m] => \E i \in 1..Len(todo) : todo[i][1] = m
  /\ \A i \in 1..Len(todo) : todo[i][2] \subseteq DOMAIN rows \ {r}

Whole(o, rows, ids) ==
  /\ o.mine \subseteq DOMAIN rows
  /\ o.kind = "assign" /\ o.stage \in {"rank", "write"} => Head(o.roles) \in DOMAIN rows
  /\ o.kind = "transfer" /\ o.stage \in {"member", "write"} => Head(o.roles) \in DOMAIN rows
  /\ o.kind = "harddelete" /\ o.stage = "scrub" => Covers(o.todo, Head(o.roles), rows, ids)

Sound ==
  ~history.tangled =>
    /\ \A j, k \in Ops : ops[j] # None /\ ops[k] # None => j = k
    /\ \A m \in Members : held[m] \subseteq DOMAIN roles
    /\ \A k \in Ops : ops[k] # None => Whole(ops[k], roles, held)

LEMMA SoundInit == Init => Sound
BY DEF Init, Sound

(* When there is one request, a step of it leaves no other.                *)
LEMMA OnlyOne ==
  ASSUME Base, Sound, ~history.tangled, NEW k \in Ops, ops[k] # None, NEW r, Become(k, r)
  PROVE  \A j \in Ops : ops'[j] # None => j = k /\ ops'[j] = r
<1>1. \A j \in Ops : ops'[j] = IF j = k THEN r ELSE ops[j]
  BY DEF Base, Requests, Become
<1> QED
  BY <1>1 DEF Sound

LEMMA SoundStep ==
  ASSUME Base, Sound, NEW k \in Ops, ops[k] # None, NEW r, Become(k, r),
         history'.tangled = history.tangled,
         ~history.tangled => /\ \A m \in Members : held'[m] \subseteq DOMAIN roles'
                             /\ r = None \/ Whole(r, roles', held')
  PROVE  Sound'
<1> SUFFICES ASSUME ~history.tangled
             PROVE  /\ \A i, j \in Ops : ops'[i] # None /\ ops'[j] # None => i = j
                    /\ \A m \in Members : held'[m] \subseteq DOMAIN roles'
                    /\ \A j \in Ops : ops'[j] # None => Whole(ops'[j], roles', held')
  BY DEF Sound
<1>1. \A j \in Ops : ops'[j] # None => j = k /\ ops'[j] = r
  BY OnlyOne
<1> QED
  BY <1>1

(* A step that neither scrubs nor reads more than before.                  *)
Further(o, r) ==
  /\ r.mine = o.mine /\ r.kind = o.kind /\ r.roles = o.roles /\ r.stage # "scrub"
  /\ r.kind = "assign" /\ r.stage \in {"rank", "write"} => o.stage \in {"rank", "write"}
  /\ r.kind = "transfer" /\ r.stage \in {"member", "write"} => o.stage \in {"member", "write"}

LEMMA SoundFurther ==
  ASSUME Base, Sound, NEW k \in Ops, ops[k] # None, NEW r, Become(k, r),
         r = None \/ Further(ops[k], r), history'.tangled = history.tangled,
         DOMAIN roles' = DOMAIN roles, UNCHANGED held
  PROVE  Sound'
<1>1. ~history.tangled => \A m \in Members : held'[m] \subseteq DOMAIN roles'
  BY DEF Sound
<1>2. ~history.tangled => r = None \/ Whole(r, roles', held')
  BY DEF Sound, Whole, Further
<1> QED
  BY <1>1, <1>2, SoundStep

LEMMA GotoFurther ==
  ASSUME NEW o \in Op, NEW s, s # "scrub",
         o.kind = "assign" /\ s \in {"rank", "write"} => o.stage \in {"rank", "write"},
         o.kind = "transfer" /\ s \in {"member", "write"} => o.stage \in {"member", "write"}
  PROVE  Further(o, [o EXCEPT !.stage = s])
BY DEF Op, Further

LEMMA BeginsSound ==
  ASSUME Base, Sound, NEW k \in Ops, NEW r, Begins(k, r) PROVE Sound'
<1> DEFINE t == history.tangled \/ \E j \in Ops : ops[j] # None
<1>1. /\ UNCHANGED tables /\ Become(k, r) /\ ops[k] = None
      /\ history' = [history EXCEPT !.made = history.made + 1, !.tangled = t]
  BY DEF Begins
<1>2. history'.tangled = t
  <2> HIDE DEF t
  <2> QED
    BY <1>1 DEF Base, History
<1> SUFFICES ASSUME ~t PROVE Sound'
  BY <1>2 DEF Sound
<1>3. \A j \in Ops : ops'[j] = IF j = k THEN r ELSE None
  BY <1>1 DEF Base, Requests, Become
<1>4. r.mine = {} /\ r.stage \in {"list", "role", "member", "override", "rank"}
      /\ (r.stage = "rank" => r.kind = "upsert") /\ (r.kind = "transfer" => r.stage = "list")
  BY DEF Begins, Fresh, Op, Kinds, RoleOps
<1>5. Whole(r, roles', held')
  BY <1>4 DEF Whole
<1> QED
  BY <1>1, <1>3, <1>5 DEF Sound, tables

LEMMA ReadRoleSound ==
  ASSUME Base, Sound, NEW k \in Ops, ReadRole(k) PROVE Sound'
<1>1. PICK o \in Op : o = ops[k] /\ Fits(o)
  BY AtWork DEF Base, ReadRole, At
<1> DEFINE n == Len(o.read)
           r == o.roles[n + 1]
           to == IF n + 1 < Len(o.roles) THEN "role" ELSE "rank"
           rows == Append(o.read, roles[r])
           new == [o EXCEPT !.read = rows, !.stage = to]
<1>2. UNCHANGED <<tables, history>> /\ ops[k] # None /\ o.stage = "role"
  BY <1>1 DEF ReadRole, At
<1>3. \/ o.kind = "unassign" /\ Become(k, [o EXCEPT !.stage = "write"])
      \/ Become(k, None)
      \/ r \in DOMAIN roles /\ Become(k, new)
  BY <1>1 DEF ReadRole, Goto, Done
<1>4. CASE o.kind = "unassign" /\ Become(k, [o EXCEPT !.stage = "write"])
  <2>1. Further(o, [o EXCEPT !.stage = "write"])
    BY <1>4, GotoFurther
  <2> QED
    BY <1>1, <1>2, <1>4, <2>1, SoundFurther DEF tables
<1>5. CASE Become(k, None)
  BY <1>2, <1>5, SoundFurther DEF tables
<1>6. CASE r \in DOMAIN roles /\ Become(k, new)
  <2>1. o.kind = "assign" => r = Head(o.roles)
    <3> SUFFICES ASSUME o.kind = "assign" PROVE r = Head(o.roles)
      OBVIOUS
    <3>1. Len(o.roles) = 1
      BY <1>1 DEF Fits, OfOneRole
    <3>2. n = 0
      <4>1. n < Len(o.roles) /\ n \in Nat
        BY <1>1, <1>2 DEF Fits, Op
      <4> QED
        BY <3>1, <4>1
    <3>3. Head(o.roles) = o.roles[1]
      BY <3>1, NamedIs
    <3> QED
      BY <3>2, <3>3
  <2>2. new.mine = o.mine /\ new.kind = o.kind /\ new.roles = o.roles /\ new.stage = to
        /\ to \in {"role", "rank"} /\ o.kind # "transfer"
    <3> HIDE DEF rows
    <3>1. o.kind # "transfer"
      BY <1>1, <1>2 DEF Fits
    <3> QED
      BY <3>1 DEF Op
  <2> HIDE DEF new, r, to
  <2>3. ~history.tangled => Whole(new, roles', held')
    BY <1>1, <1>2, <1>6, <2>1, <2>2 DEF Sound, Whole, tables
  <2>4. ~history.tangled => \A m \in Members : held'[m] \subseteq DOMAIN roles'
    BY <1>2 DEF Sound, tables
  <2> QED
    BY <1>2, <1>6, <2>3, <2>4, SoundStep
<1> QED
  BY <1>3, <1>4, <1>5, <1>6

LEMMA ReadMemberSound ==
  ASSUME Base, Sound, NEW k \in Ops, ReadMember(k) PROVE Sound'
<1>1. PICK o \in Op : o = ops[k] /\ Fits(o)
  BY AtWork DEF Base, ReadMember, At
<1>2. /\ o.kind \in {"assign", "unassign", "transfer"} /\ o.stage = "member"
      /\ UNCHANGED <<tables, history>> /\ ops[k] # None
  BY <1>1 DEF ReadMember, At
<1> DEFINE m == IF o.kind = "transfer" THEN o.user ELSE o.whom
           ids == held[m]
           to == IF o.kind = "transfer" THEN "write" ELSE "role"
           new == [o EXCEPT !.mine = ids, !.stage = to]
<1>3. Become(k, None) \/ Become(k, new)
  BY <1>1 DEF ReadMember, Done
<1>4. m \in Members
  BY <1>1, <1>2 DEF Fits, Op
<1>5. ~history.tangled => ids \subseteq DOMAIN roles
  BY <1>4 DEF Sound
<1> HIDE DEF ids, m
<1>6. new.mine = ids /\ new.kind = o.kind /\ new.roles = o.roles /\ new.stage = to
  BY DEF Op
<1> HIDE DEF new
<1>7. ~history.tangled => Whole(new, roles', held')
  BY <1>1, <1>2, <1>5, <1>6 DEF Sound, Whole, tables
<1>8. ~history.tangled => \A x \in Members : held'[x] \subseteq DOMAIN roles'
  BY <1>2 DEF Sound, tables
<1> QED
  BY <1>2, <1>3, <1>7, <1>8, SoundStep

(* The steps of requests of other kinds.                                   *)
LEMMA OtherKinds ==
  ASSUME Base, Sound, NEW k \in Ops, ops[k] # None, NEW r, Become(k, r),
         r = None \/ (/\ r.mine = ops[k].mine /\ r.kind = ops[k].kind
                      /\ r.kind \notin {"assign", "transfer", "harddelete"}),
         history'.tangled = history.tangled, DOMAIN roles' = DOMAIN roles, UNCHANGED held
  PROVE  Sound'
<1>1. ~history.tangled => \A m \in Members : held'[m] \subseteq DOMAIN roles'
  BY DEF Sound
<1>2. ~history.tangled => r = None \/ Whole(r, roles', held')
  BY DEF Sound, Whole
<1> QED
  BY <1>1, <1>2, SoundStep

LEMMA ReadOverrideSound ==
  ASSUME Base, Sound, NEW k \in Ops, ReadOverride(k) PROVE Sound'
<1>1. PICK o \in Op : o = ops[k] /\ Fits(o)
  BY AtWork DEF Base, ReadOverride, At
<1>2. o.kind = "remove" /\ UNCHANGED <<tables, history>> /\ ops[k] # None
  BY <1>1 DEF ReadOverride, At
<1> DEFINE to == IF o.roles = <<>> THEN "rank" ELSE "role"
           new == [o EXCEPT !.row = "there", !.stage = to]
<1>3. Become(k, None) \/ Become(k, new)
  BY <1>1 DEF ReadOverride, Done
<1> HIDE DEF to
<1>4. new.mine = o.mine /\ new.kind = o.kind
  BY DEF Op
<1> HIDE DEF new
<1> QED
  BY <1>1, <1>2, <1>3, <1>4, OtherKinds DEF tables

LEMMA ListForCreateSound ==
  ASSUME Base, Sound, NEW k \in Ops, ListForCreate(k) PROVE Sound'
<1>1. PICK o \in Op : o = ops[k] /\ Fits(o)
  BY AtWork DEF Base, ListForCreate, At
<1>2. UNCHANGED <<tables, history>> /\ ops[k] # None /\ o.kind = "create"
  BY <1>1 DEF ListForCreate, At
<1>3. PICK new : /\ Become(k, new)
                 /\ (HighToLow = <<>> /\ NoRoles(o, new)) \/ RoomBelow(o, new) \/ AllMoveUp(o, new)
  BY <1>1, CreationFinds
<1>4. new.mine = o.mine /\ new.kind = o.kind
  <2>1. CASE NoRoles(o, new)
    BY <2>1 DEF NoRoles, Op
  <2>2. CASE RoomBelow(o, new)
    <3> DEFINE h == roles[HighToLow[Len(HighToLow)]].position - 1
    <3>1. new = [o EXCEPT !.height = h, !.stage = "cap"]
      BY <2>2 DEF RoomBelow
    <3> HIDE DEF h
    <3> QED
      BY <3>1 DEF Op
  <2>3. CASE AllMoveUp(o, new)
    <3> DEFINE up == [i \in DOMAIN HighToLow |-> <<HighToLow[i], roles[HighToLow[i]].position + 1>>]
    <3>1. new = [o EXCEPT !.height = 1, !.stage = "move", !.todo = up]
      BY <2>3 DEF AllMoveUp
    <3> HIDE DEF up
    <3> QED
      BY <3>1 DEF Op
  <2> QED
    BY <1>3, <2>1, <2>2, <2>3
<1> QED
  BY <1>1, <1>2, <1>3, <1>4, OtherKinds DEF tables

LEMMA ListForTransferSound ==
  ASSUME Base, Sound, NEW k \in Ops, ListForTransfer(k) PROVE Sound'
<1>1. PICK o \in Op : o = ops[k] /\ Fits(o)
  BY AtWork DEF Base, ListForTransfer, At
<1>2. o.kind = "transfer" /\ UNCHANGED <<tables, history>> /\ ops[k] # None
  BY <1>1 DEF ListForTransfer, At
<1> DEFINE top == Highest({roles[r].position : r \in DOMAIN roles}) + 1
           new == [o EXCEPT !.height = top, !.stage = "insert"]
<1>3. Become(k, new)
  BY <1>1 DEF ListForTransfer
<1> HIDE DEF top
<1>4. Further(o, new)
  BY <1>2 DEF Op, Further
<1> HIDE DEF new
<1> QED
  BY <1>1, <1>2, <1>3, <1>4, SoundFurther DEF tables

LEMMA ListForReorderSound ==
  ASSUME Base, Sound, NEW k \in Ops, ListForReorder(k) PROVE Sound'
<1>1. PICK o \in Op : o = ops[k] /\ Fits(o)
  BY AtWork DEF Base, ListForReorder, At
<1>2. UNCHANGED <<tables, history>> /\ ops[k] # None /\ o.kind = "reorder"
  BY <1>1 DEF ListForReorder, At
<1> DEFINE rows == [i \in DOMAIN o.roles |-> roles[o.roles[i]]]
           new == [o EXCEPT !.stage = "rank", !.read = rows]
<1>3. Become(k, None) \/ Become(k, new)
  BY <1>1 DEF ListForReorder, Done
<1> HIDE DEF rows
<1>4. new.mine = o.mine /\ new.kind = o.kind
  BY DEF Op
<1> HIDE DEF new
<1> QED
  BY <1>1, <1>2, <1>3, <1>4, OtherKinds DEF tables

LEMMA CheckRankSound ==
  ASSUME Base, Sound, NEW k \in Ops, CheckRank(k) PROVE Sound'
<1>1. PICK o \in Op : o = ops[k] /\ Fits(o)
  BY AtWork DEF Base, CheckRank, At
<1> DEFINE t == history.loose \/ Muddles(k)
<1>2. UNCHANGED tables /\ ops[k] # None /\ history' = [history EXCEPT !.loose = t] /\ o.stage = "rank"
  BY <1>1 DEF CheckRank, At
<1> HIDE DEF t
<1>3. history'.tangled = history.tangled
  BY <1>2 DEF Base, History
<1>4. \/ Become(k, None)
      \/ o.kind \in {"swap", "reorder"} /\ Become(k, [o EXCEPT !.stage = "move", !.todo = Moves(k)])
      \/ \E s \in {"cap", "members", "write"} : Goto(k, s)
  BY <1>1 DEF CheckRank, Done
<1>5. CASE Become(k, None)
  BY <1>2, <1>3, <1>5, SoundFurther DEF tables
<1>6. CASE o.kind \in {"swap", "reorder"} /\ Become(k, [o EXCEPT !.stage = "move", !.todo = Moves(k)])
  <2> DEFINE new == [o EXCEPT !.stage = "move", !.todo = Moves(k)]
  <2>1. new.mine = o.mine /\ new.kind = o.kind
    BY DEF Op
  <2>2. Become(k, new)
    BY <1>6
  <2> HIDE DEF new
  <2> QED
    BY <1>1, <1>2, <1>3, <1>6, <2>1, <2>2, OtherKinds DEF tables
<1>7. ASSUME NEW s \in {"cap", "members", "write"}, Goto(k, s) PROVE Sound'
  <2>1. o.kind # "transfer"
    BY <1>1, <1>2 DEF Fits
  <2>2. Further(o, [o EXCEPT !.stage = s])
    BY <1>2, <2>1, GotoFurther
  <2> QED
    BY <1>1, <1>2, <1>3, <1>7, <2>2, SoundFurther DEF tables, Goto
<1> QED
  BY <1>4, <1>5, <1>6, <1>7

LEMMA MoveRoleSound ==
  ASSUME Base, Sound, NEW k \in Ops, MoveRole(k) PROVE Sound'
<1>1. PICK o \in Op : o = ops[k] /\ Fits(o)
  BY AtWork DEF Base, MoveRole, At
<1> DEFINE r == Head(o.todo)[1]
           rest == Tail(o.todo)
           empty == <<>>
           row == [roles[r] EXCEPT !.position = Head(o.todo)[2]]
<1>2. /\ o.kind \in {"create", "swap", "reorder"} /\ UNCHANGED <<held, history>>
      /\ ops[k] # None /\ Merge(r, row)
      /\ \/ Become(k, [o EXCEPT !.todo = rest])
         \/ Become(k, [o EXCEPT !.todo = empty, !.stage = "cap"])
         \/ Become(k, None)
  BY <1>1 DEF MoveRole, At, Done
<1> HIDE DEF rest, empty, row, r
<1>3. /\ [o EXCEPT !.todo = rest].mine = o.mine /\ [o EXCEPT !.todo = rest].kind = o.kind
      /\ [o EXCEPT !.todo = empty, !.stage = "cap"].mine = o.mine
      /\ [o EXCEPT !.todo = empty, !.stage = "cap"].kind = o.kind
  BY DEF Op
<1>4. DOMAIN roles' = DOMAIN roles
  BY <1>2 DEF Merge
<1> QED
  BY <1>1, <1>2, <1>3, <1>4, OtherKinds

LEMMA CheckCapSound ==
  ASSUME Base, Sound, NEW k \in Ops, CheckCap(k) PROVE Sound'
<1>1. PICK o \in Op : o = ops[k] /\ Fits(o)
  BY AtWork DEF Base, CheckCap, At
<1> DEFINE g == IF Actor(k) = owner THEN history.granted \cup ops[k].mask.allow ELSE history.granted
           row == IF OverrideOf(o) \in DOMAIN overrides THEN "there" ELSE "absent"
           new == [o EXCEPT !.stage = "write", !.row = row]
<1>2. /\ o.kind \in {"create", "update", "upsert"} /\ UNCHANGED tables /\ ops[k] # None
      /\ history' = [history EXCEPT !.granted = g]
      /\ \/ Become(k, None) \/ Become(k, [o EXCEPT !.stage = "insert"])
         \/ Become(k, [o EXCEPT !.stage = "write"]) \/ Become(k, new)
  BY <1>1 DEF CheckCap, At, Done, Goto
<1> HIDE DEF g, row
<1>3. history'.tangled = history.tangled
  BY <1>2 DEF Base, History
<1>4. /\ [o EXCEPT !.stage = "insert"].mine = o.mine /\ [o EXCEPT !.stage = "insert"].kind = o.kind
      /\ [o EXCEPT !.stage = "write"].mine = o.mine /\ [o EXCEPT !.stage = "write"].kind = o.kind
      /\ new.mine = o.mine /\ new.kind = o.kind
  BY DEF Op
<1> HIDE DEF new
<1> QED
  BY <1>1, <1>2, <1>3, <1>4, OtherKinds DEF tables

LEMMA InsertSound ==
  ASSUME Base, Sound, NEW k \in Ops, Insert(k) PROVE Sound'
<1>1. PICK o \in Op : o = ops[k] /\ Fits(o)
  BY AtWork DEF Base, Insert, At
<1> DEFINE row == [position |-> o.height, deleted |-> FALSE,
                   allow |-> IF o.kind = "create" THEN o.mask.allow ELSE {Admin},
                   deny |-> o.mask.deny]
           g == IF o.kind = "create" THEN history.granted ELSE history.granted \cup {Admin}
<1>2. PICK r \in RoleIds \ history.used :
        /\ roles' = Put(roles, r, row)
        /\ Become(k, None) \/ (o.kind = "transfer" /\ Become(k, [o EXCEPT !.roles = <<r>>, !.stage = "member"]))
        /\ history' = [history EXCEPT !.used = @ \cup {r}, !.granted = g]
        /\ UNCHANGED held /\ ops[k] # None
  BY <1>1 DEF Insert, At, Done
<1> HIDE DEF row, g
<1>3. history'.tangled = history.tangled
  BY <1>2 DEF Base, History
<1>4. DOMAIN roles' = DOMAIN roles \cup {r}
  BY <1>2 DEF Put
<1>5. ~history.tangled => \A m \in Members : held'[m] \subseteq DOMAIN roles'
  BY <1>2, <1>4 DEF Sound
<1>6. CASE Become(k, None)
  BY <1>2, <1>3, <1>5, <1>6, SoundStep
<1>7. CASE o.kind = "transfer" /\ Become(k, [o EXCEPT !.roles = <<r>>, !.stage = "member"])
  <2> DEFINE named == <<r>>
             new == [o EXCEPT !.roles = named, !.stage = "member"]
  <2>1. Head(named) = r
    OBVIOUS
  <2>2. Become(k, new)
    BY <1>7
  <2> HIDE DEF named
  <2>3. new.mine = o.mine /\ new.kind = o.kind /\ new.roles = named /\ new.stage = "member"
    BY DEF Op
  <2> HIDE DEF new
  <2>4. ~history.tangled => Whole(new, roles', held')
    BY <1>1, <1>2, <1>4, <1>7, <2>1, <2>3 DEF Sound, Whole
  <2> QED
    BY <1>2, <1>3, <1>5, <2>2, <2>4, SoundStep
<1> QED
  BY <1>2, <1>6, <1>7

LEMMA WriteUpdateSound ==
  ASSUME Base, Sound, NEW k \in Ops, WriteUpdate(k) PROVE Sound'
<1>1. UNCHANGED <<held, history>> /\ ops[k] # None /\ Become(k, None) /\ DOMAIN roles' = DOMAIN roles
  BY DEF WriteUpdate, Done, At, Merge
<1> QED
  BY <1>1, OtherKinds

LEMMA WriteTrashSound ==
  ASSUME Base, Sound, NEW k \in Ops, WriteTrash(k) PROVE Sound'
<1> DEFINE t == history.loose \/ ops[k].kind = "restore"
<1>1. /\ UNCHANGED held /\ ops[k] # None /\ Become(k, None) /\ DOMAIN roles' = DOMAIN roles
      /\ history' = [history EXCEPT !.loose = t]
  BY DEF WriteTrash, Done, At, Merge
<1> HIDE DEF t
<1>2. history'.tangled = history.tangled
  BY <1>1 DEF Base, History
<1> QED
  BY <1>1, <1>2, OtherKinds

LEMMA WriteMemberSound ==
  ASSUME Base, Sound, NEW k \in Ops, WriteMember(k) PROVE Sound'
<1>1. PICK o \in Op : o = ops[k] /\ Fits(o)
  BY AtWork DEF Base, WriteMember, At
<1> DEFINE m == IF o.kind = "transfer" THEN o.user ELSE o.whom
           ids == IF o.kind = "unassign" THEN o.mine \ {Named(k)} ELSE o.mine \cup {Named(k)}
<1>2. /\ o.kind \in {"assign", "unassign", "transfer"} /\ o.stage = "write"
      /\ UNCHANGED <<roles, history>> /\ ops[k] # None
      /\ held' = [held EXCEPT ![m] = ids]
      /\ Become(k, None) \/ Become(k, [o EXCEPT !.stage = "flip"])
  BY <1>1 DEF WriteMember, At, Done, Goto
<1>3. ~history.tangled => ids \subseteq DOMAIN roles
  BY <1>1, <1>2 DEF Sound, Whole, Named
<1> HIDE DEF ids, m
<1>4. ~history.tangled => \A x \in Members : held'[x] \subseteq DOMAIN roles'
  BY <1>2, <1>3 DEF Sound, Base, Tables, Rights
<1> DEFINE new == [o EXCEPT !.stage = "flip"]
<1>5. new.mine = o.mine /\ new.kind = o.kind /\ new.stage = "flip"
  BY DEF Op
<1> HIDE DEF new
<1>6. ~history.tangled => Whole(new, roles', held')
  BY <1>1, <1>2, <1>5 DEF Sound, Whole
<1>7. Become(k, None) \/ Become(k, new)
  BY <1>2 DEF new
<1> QED
  BY <1>2, <1>4, <1>6, <1>7, SoundStep

LEMMA FlipOwnerSound ==
  ASSUME Base, Sound, NEW k \in Ops, FlipOwner(k) PROVE Sound'
BY OtherKinds DEF FlipOwner, Done, At

LEMMA ReadMembersSound ==
  ASSUME Base, Sound, NEW k \in Ops, ReadMembers(k) PROVE Sound'
<1>1. PICK o \in Op : o = ops[k] /\ Fits(o)
  BY AtWork DEF Base, ReadMembers, At
<1>2. UNCHANGED <<tables, history>> /\ ops[k] # None /\ o.kind = "harddelete"
  BY <1>1 DEF ReadMembers, At
<1> DEFINE r == Named(k)
<1>3. PICK order \in Enumerations({m \in Members : r \in held[m]}) :
        Become(k, [o EXCEPT !.stage = "scrub",
          !.todo = [i \in DOMAIN order |-> <<order[i], held[order[i]] \ {r}>>]])
  BY <1>1 DEF ReadMembers
<1> DEFINE list == [i \in DOMAIN order |-> <<order[i], held[order[i]] \ {r}>>]
           new == [o EXCEPT !.stage = "scrub", !.todo = list]
<1>4. Scrubs(list, r)
  BY HoldersAre DEF Base
<1>5. Become(k, new)
  BY <1>3
<1>6. r = Head(o.roles)
  BY <1>1 DEF Named
<1> HIDE DEF list, r
<1>7. new.mine = o.mine /\ new.kind = o.kind /\ new.roles = o.roles /\ new.stage = "scrub" /\ new.todo = list
  BY DEF Op
<1> HIDE DEF new
<1>8. ASSUME ~history.tangled PROVE Covers(list, r, roles, held)
  <2>1. \A m \in Members : held[m] \subseteq DOMAIN roles
    BY <1>8 DEF Sound
  <2> DEFINE S == {m \in Members : r \in held[m]}
             n == Cardinality(S)
  <2>2. PICK e : /\ n \in Nat /\ Len(list) = n
                 /\ \A i \in 1..n : e[i] \in S /\ list[i] = <<e[i], held[e[i]] \ {r}>>
                 /\ \A m \in S : \E i \in 1..n : e[i] = m
    BY <1>4 DEF Scrubs
  <2> HIDE DEF n
  <2>3. \A m \in Members : r \in held[m] => \E i \in 1..n : list[i][1] = m
    BY <2>2
  <2>4. \A i \in 1..n : list[i][2] \subseteq DOMAIN roles \ {r}
    BY <2>1, <2>2
  <2> QED
    BY <2>2, <2>3, <2>4 DEF Covers
<1>9. ~history.tangled => Whole(new, roles', held')
  BY <1>1, <1>2, <1>6, <1>7, <1>8 DEF Sound, Whole, tables
<1>10. ~history.tangled => \A m \in Members : held'[m] \subseteq DOMAIN roles'
  BY <1>2 DEF Sound, tables
<1> QED
  BY <1>2, <1>5, <1>9, <1>10, SoundStep

LEMMA ScrubSound ==
  ASSUME Base, Sound, NEW k \in Ops, Scrub(k) PROVE Sound'
<1>1. PICK o \in Op : o = ops[k] /\ Fits(o)
  BY AtWork DEF Base, Scrub, At
<1> DEFINE todo == o.todo
           next == Head(todo)
           rest == Tail(todo)
           new == [o EXCEPT !.todo = rest]
           r == Head(o.roles)
<1>2. /\ o.stage = "scrub" /\ o.kind = "harddelete" /\ todo # <<>>
      /\ UNCHANGED <<roles, history>> /\ ops[k] # None
      /\ held' = [held EXCEPT ![next[1]] = next[2]] /\ Become(k, new)
  BY <1>1 DEF Scrub, At
<1>3. todo \in Seq(Scrubbing)
  BY <1>1, <1>2 DEF Fits
<1>4. /\ new.mine = o.mine /\ new.kind = o.kind /\ new.roles = o.roles
      /\ new.stage = "scrub" /\ new.todo = rest
  <2> HIDE DEF rest
  <2> QED
    BY <1>2 DEF Op
<1> HIDE DEF new
<1>5. ASSUME ~history.tangled
      PROVE  Covers(rest, r, roles', held') /\ \A m \in Members : held'[m] \subseteq DOMAIN roles'
  <2>1. Covers(todo, r, roles, held)
    BY <1>1, <1>2, <1>5 DEF Sound, Whole
  <2> DEFINE n == Len(todo)
  <2>2. /\ next = todo[1] /\ n \in Nat /\ 1 \in 1..n /\ Len(rest) = n - 1
        /\ \A i \in 1..n - 1 : rest[i] = todo[i + 1]
    <3> HIDE DEF todo
    <3> QED
      BY <1>2, <1>3, NextTodo
  <2> HIDE DEF n, todo, rest, next, r
  <2>3. next[2] \subseteq DOMAIN roles \ {r}
    BY <2>1, <2>2 DEF Covers, n
  <2>4. \A m \in Members : held'[m] = IF m = next[1] THEN next[2] ELSE held[m]
    BY <1>2 DEF Base, Tables, Rights
  <2>5. \A m \in Members : r \in held'[m] => \E i \in 1..n - 1 : rest[i][1] = m
    <3> SUFFICES ASSUME NEW m \in Members, r \in held'[m] PROVE \E i \in 1..n - 1 : rest[i][1] = m
      OBVIOUS
    <3>1. m # next[1] /\ r \in held[m]
      BY <2>3, <2>4
    <3>2. PICK i \in 1..n : todo[i][1] = m
      BY <2>1, <3>1 DEF Covers, n
    <3>3. i # 1
      BY <2>2, <3>1, <3>2
    <3>4. i - 1 \in 1..n - 1 /\ (i - 1) + 1 = i
      BY <2>2, <3>3
    <3>5. rest[i - 1] = todo[i]
      BY <2>2, <3>4
    <3> QED
      BY <3>2, <3>4, <3>5
  <2>6. \A i \in 1..n - 1 : rest[i][2] \subseteq DOMAIN roles \ {r}
    <3>1. \A i \in 1..n - 1 : i + 1 \in 1..n
      BY <2>2
    <3> QED
      BY <2>1, <2>2, <3>1 DEF Covers, n
  <2>7. \A m \in Members : held'[m] \subseteq DOMAIN roles'
    BY <1>2, <1>5, <2>3, <2>4 DEF Sound
  <2> QED
    BY <1>2, <2>2, <2>5, <2>6, <2>7 DEF Covers
<1> HIDE DEF rest, r
<1>6. ~history.tangled => Whole(new, roles', held')
  BY <1>1, <1>2, <1>4, <1>5 DEF Sound, Whole, r
<1> QED
  BY <1>2, <1>5, <1>6, SoundStep

LEMMA DropRoleSound ==
  ASSUME Base, Sound, NEW k \in Ops, DropRole(k) PROVE Sound'
<1>1. PICK o \in Op : o = ops[k] /\ Fits(o)
  BY AtWork DEF Base, DropRole, At
<1> DEFINE r == Head(o.roles)
<1>2. /\ o.stage = "scrub" /\ o.kind = "harddelete" /\ o.todo = <<>>
      /\ roles' = Without(roles, r) /\ UNCHANGED <<held, history>> /\ Become(k, None)
      /\ ops[k] # None
  BY <1>1 DEF DropRole, At, Done, Named
<1> HIDE DEF r
<1>3. DOMAIN roles' = DOMAIN roles \ {r}
  BY <1>2 DEF Without
<1>4. ~history.tangled => \A m \in Members : r \notin held[m]
  <2>1. Len(o.todo) = 0
    BY <1>2, EmptySequences
  <2> QED
    BY <1>1, <1>2, <2>1 DEF Sound, Whole, Covers, r
<1>5. ~history.tangled => \A m \in Members : held'[m] \subseteq DOMAIN roles'
  BY <1>2, <1>3, <1>4 DEF Sound
<1> QED
  BY <1>2, <1>5, SoundStep

LEMMA WriteOverrideSound ==
  ASSUME Base, Sound, NEW k \in Ops, WriteOverride(k) PROVE Sound'
<1>1. UNCHANGED <<roles, held, history>> /\ ops[k] # None
  BY DEF WriteOverride, At
<1>2. ~history.tangled => \A j \in Ops : ops'[j] = None
  <2>1. CASE Become(k, None)
    BY <1>1, <2>1, OnlyOne
  <2>2. CASE ~Become(k, None)
    BY <1>1, <2>2 DEF WriteOverride, Done, Sound
  <2> QED
    BY <2>1, <2>2
<1> QED
  BY <1>1, <1>2 DEF Sound

LEMMA ThrowSound ==
  ASSUME Base, Sound, NEW k \in Ops, Throw(k) PROVE Sound'
<1> DEFINE t == history.loose \/ ops[k].kind \in {"swap", "reorder"}
<1>1. history' = [history EXCEPT !.loose = t] /\ UNCHANGED tables /\ Become(k, None) /\ ops[k] # None
  BY DEF Throw, Done
<1> HIDE DEF t
<1>2. history'.tangled = history.tangled
  BY <1>1 DEF Base, History
<1> QED
  BY <1>1, <1>2, OtherKinds DEF tables

LEMMA SoundSteps == ASSUME Base, Sound, [Next]_vars PROVE Sound'
<1>1. ASSUME NEW k \in Ops, NEW u \in Members, StartAny(k, u) PROVE Sound'
  BY <1>1, StartsFresh, BeginsSound
<1>2. ASSUME NEW k \in Ops, Work(k) PROVE Sound'
  BY <1>2, ReadRoleSound, ReadMemberSound, ReadOverrideSound, ListForCreateSound,
     ListForTransferSound, ListForReorderSound, CheckRankSound, MoveRoleSound, CheckCapSound,
     InsertSound, WriteUpdateSound, WriteTrashSound, WriteMemberSound, FlipOwnerSound,
     ReadMembersSound, ScrubSound, DropRoleSound, WriteOverrideSound DEF Work
<1>3. ASSUME NEW k \in Ops, Throw(k) PROVE Sound'
  BY <1>3, ThrowSound
<1>4. CASE UNCHANGED vars
  BY <1>4 DEF vars, tables, Sound
<1> QED
  BY <1>1, <1>2, <1>3, <1>4 DEF Next

LEMMA SoundHolds == Spec => []Sound
<1>1. Init => Sound
  BY SoundInit
<1>2. Base /\ Sound /\ [Next]_vars => Sound'
  BY SoundSteps
<1> QED
  BY <1>1, <1>2, BaseHolds, PTL DEF Spec

(* Types; and nobody holds a role whose row is gone, unless requests       *)
(* overlapped: the holders a deletion has read are all there are.          *)
THEOREM TypeCorrect == Spec => []TypeOK
<1>1. Base /\ Sound => TypeOK
  BY DEF Base, Tables, Rights, Requests, Sound, TypeOK
<1> QED
  BY <1>1, BaseHolds, SoundHolds, PTL

-----------------------------------------------------------------------------
(* Heights.  While a creation moves roles up, those it has not come to yet *)
(* descend strictly and lie below those it has moved; a swap or a          *)
(* reordering leaves heights that differ once all it has to do is done.    *)
Customs(rows) == Live(rows) \ {Everyone}
Even(rows) == \A r \in Customs(rows) : rows[r].position > 0
Unlike(rows) ==
  \A r, s \in Customs(rows) : r # s => rows[r].position # rows[s].position

Pending(todo, r) == \E i \in 1..Len(todo) : todo[i][1] = r

Rising(todo, rows) ==
  /\ \A i \in 1..Len(todo) : /\ todo[i][1] \in Customs(rows)
                             /\ todo[i][2] = rows[todo[i][1]].position + 1
  /\ \A i, j \in 1..Len(todo) :
       i < j => rows[todo[j][1]].position < rows[todo[i][1]].position
  /\ \A r \in Customs(rows) : ~Pending(todo, r) => rows[r].position > todo[1][2]

Settling(todo, rows) ==
  /\ \A i \in 1..Len(todo) : todo[i][1] \in Customs(rows) /\ todo[i][2] > 0
  /\ \A i, j \in 1..Len(todo) : i # j => todo[i][1] # todo[j][1] /\ todo[i][2] # todo[j][2]
  /\ \A r \in Customs(rows) : ~Pending(todo, r) =>
       /\ \A i \in 1..Len(todo) : rows[r].position # todo[i][2]
       /\ \A s \in Customs(rows) :
            ~Pending(todo, s) /\ r # s => rows[r].position # rows[s].position

(* One role gets another height.                                           *)
Lifts(rows, r, h, after) ==
  /\ r \in Customs(rows) /\ h \in Nat
  /\ DOMAIN after = DOMAIN rows
  /\ \A x \in DOMAIN rows : /\ after[x].deleted = rows[x].deleted
                            /\ after[x].position = IF x = r THEN h ELSE rows[x].position
                            /\ rows[x].position \in Nat

LEMMA LiftsCustoms ==
  ASSUME NEW rows, NEW r, NEW h, NEW after, Lifts(rows, r, h, after)
  PROVE  /\ Customs(after) = Customs(rows)
         /\ \A x \in Customs(rows) : /\ after[x].position = IF x = r THEN h ELSE rows[x].position
                                     /\ rows[x].position \in Nat
BY DEF Lifts, Customs, Live

LEMMA RisingMoves ==
  ASSUME NEW todo \in Seq(Moving), todo # <<>>, NEW rows, NEW after,
         Lifts(rows, Head(todo)[1], Head(todo)[2], after),
         Rising(todo, rows), Even(rows), Unlike(rows)
  PROVE  /\ Even(after) /\ Unlike(after)
         /\ Len(todo) > 1 => Rising(Tail(todo), after)
         /\ ~(Len(todo) > 1) => \A x \in Customs(after) : after[x].position > 1
<1> DEFINE n == Len(todo)
           t == Tail(todo)
           r == todo[1][1]
           h == todo[1][2]
           C == Customs(rows)
<1>1. /\ Head(todo) = todo[1] /\ n \in Nat /\ 1 \in 1..n /\ Len(t) = n - 1
      /\ \A i \in 1..n - 1 : t[i] = todo[i + 1] /\ i + 1 \in 1..n /\ 1 < i + 1
  <2>1. /\ Head(todo) = todo[1] /\ n \in Nat /\ 1 \in 1..n /\ Len(t) = n - 1
        /\ \A i \in 1..n - 1 : t[i] = todo[i + 1]
    BY NextTodo
  <2> HIDE DEF n, t
  <2>2. \A i \in 1..n - 1 : i + 1 \in 1..n /\ 1 < i + 1
    BY <2>1
  <2> QED
    BY <2>1, <2>2
<1>2. Lifts(rows, r, h, after)
  BY <1>1
<1>3. /\ Customs(after) = C /\ r \in C /\ h \in Nat
      /\ \A x \in C : after[x].position = IF x = r THEN h ELSE rows[x].position
      /\ \A x \in C : rows[x].position \in Nat
  <2>1. r \in C /\ h \in Nat
    BY <1>2 DEF Lifts
  <2> HIDE DEF r, h
  <2> QED
    BY <1>2, <2>1, LiftsCustoms
<1>4. /\ \A i \in 1..n : todo[i][1] \in C /\ todo[i][2] = rows[todo[i][1]].position + 1
      /\ \A i, j \in 1..n : i < j => rows[todo[j][1]].position < rows[todo[i][1]].position
      /\ \A x \in C : (~\E i \in 1..n : todo[i][1] = x) => rows[x].position > h
  BY DEF Rising, Pending
<1>5. \A x \in C : rows[x].position > 0
  BY DEF Even
<1>6. \A x, y \in C : x # y => rows[x].position # rows[y].position
  BY DEF Unlike
<1> HIDE DEF n, t, r, h, C
<1>7. h = rows[r].position + 1
  BY <1>1, <1>4 DEF r, h
<1>8. \A i \in 1..n : i # 1 => rows[todo[i][1]].position < rows[r].position /\ todo[i][1] # r
  <2> SUFFICES ASSUME NEW i \in 1..n, i # 1
               PROVE  rows[todo[i][1]].position < rows[r].position /\ todo[i][1] # r
    OBVIOUS
  <2>1. 1 < i
    BY <1>1
  <2>2. rows[todo[i][1]].position < rows[r].position
    BY <1>1, <1>4, <2>1 DEF r
  <2>3. rows[r].position \in Nat
    BY <1>3
  <2> QED
    BY <2>2, <2>3
<1>9. \A x \in C : x # r => rows[x].position # h
  <2> SUFFICES ASSUME NEW x \in C, x # r PROVE rows[x].position # h
    OBVIOUS
  <2>1. CASE \E i \in 1..n : todo[i][1] = x
    <3>1. PICK i \in 1..n : todo[i][1] = x
      BY <2>1
    <3>2. i # 1
      BY <3>1 DEF r
    <3>3. rows[x].position < rows[r].position
      BY <1>8, <3>1, <3>2
    <3> QED
      BY <1>3, <1>7, <3>3
  <2>2. CASE ~\E i \in 1..n : todo[i][1] = x
    <3>1. rows[x].position > h /\ rows[x].position \in Nat
      BY <1>3, <1>4, <2>2
    <3> QED
      BY <1>3, <3>1
  <2> QED
    BY <2>1, <2>2
<1>10. \A x \in C : after[x].position > 0
  BY <1>3, <1>5, <1>7
<1>11. \A x, y \in C : x # y => after[x].position # after[y].position
  BY <1>3, <1>6, <1>9
<1>12. ASSUME n > 1 PROVE Rising(t, after)
  <2>1. 1 \in 1..n - 1
    BY <1>1, <1>12
  <2>2. t[1] = todo[2] /\ 2 \in 1..n
    BY <1>1, <2>1
  <2>3. \A i \in 1..n - 1 : /\ t[i][1] \in C /\ t[i][1] # r
                            /\ t[i][2] = after[t[i][1]].position + 1
                            /\ after[t[i][1]].position = rows[t[i][1]].position
    <3> SUFFICES ASSUME NEW i \in 1..n - 1
                 PROVE  /\ t[i][1] \in C /\ t[i][1] # r
                        /\ t[i][2] = after[t[i][1]].position + 1
                        /\ after[t[i][1]].position = rows[t[i][1]].position
      OBVIOUS
    <3>1. t[i] = todo[i + 1] /\ i + 1 \in 1..n /\ i + 1 # 1
      BY <1>1
    <3>2. t[i][1] \in C /\ t[i][1] # r /\ t[i][2] = rows[t[i][1]].position + 1
      BY <1>4, <1>8, <3>1
    <3> QED
      BY <1>3, <3>2
  <2>4. \A i, j \in 1..n - 1 : i < j => after[t[j][1]].position < after[t[i][1]].position
    <3> SUFFICES ASSUME NEW i \in 1..n - 1, NEW j \in 1..n - 1, i < j
                 PROVE  after[t[j][1]].position < after[t[i][1]].position
      OBVIOUS
    <3>1. t[i] = todo[i + 1] /\ i + 1 \in 1..n /\ t[j] = todo[j + 1] /\ j + 1 \in 1..n
      BY <1>1
    <3>2. i + 1 < j + 1
      BY <1>1
    <3>3. rows[t[j][1]].position < rows[t[i][1]].position
      BY <1>4, <3>1, <3>2
    <3> QED
      BY <2>3, <3>3
  <2>5. t[1][2] = rows[todo[2][1]].position + 1 /\ todo[2][1] \in C
        /\ rows[todo[2][1]].position < rows[r].position
    BY <1>4, <1>8, <2>2
  <2>6. ASSUME NEW x \in C, ~\E i \in 1..n - 1 : t[i][1] = x PROVE after[x].position > t[1][2]
    <3>1. CASE x = r
      BY <1>3, <1>7, <2>5, <3>1
    <3>2. CASE x # r
      <4>1. ~\E i \in 1..n : todo[i][1] = x
        <5> SUFFICES ASSUME NEW i \in 1..n, todo[i][1] = x PROVE FALSE
          OBVIOUS
        <5>1. i # 1
          BY <3>2 DEF r
        <5>2. i - 1 \in 1..n - 1 /\ (i - 1) + 1 = i
          BY <1>1, <5>1
        <5>3. t[i - 1] = todo[i]
          BY <1>1, <5>2
        <5> QED
          BY <2>6, <5>2, <5>3
      <4>2. rows[x].position > h /\ after[x].position = rows[x].position
        BY <1>3, <1>4, <3>2, <4>1
      <4> QED
        BY <1>3, <1>7, <2>5, <4>2
    <3> QED
      BY <3>1, <3>2
  <2> QED
    BY <1>1, <1>3, <2>3, <2>4, <2>6 DEF Rising, Pending
<1>13. ASSUME ~(n > 1), NEW x \in C PROVE after[x].position > 1
  <2>1. n = 1 /\ rows[r].position > 0
    BY <1>1, <1>3, <1>5, <1>13
  <2>2. CASE x = r
    BY <1>3, <1>7, <2>1, <2>2
  <2>3. CASE x # r
    <3>1. ~\E i \in 1..n : todo[i][1] = x
      BY <2>1, <2>3 DEF r
    <3> QED
      BY <1>3, <1>4, <1>7, <2>1, <2>3, <3>1
  <2> QED
    BY <2>2, <2>3
<1>14. Even(after) /\ Unlike(after)
  BY <1>3, <1>10, <1>11 DEF Even, Unlike
<1> QED
  BY <1>3, <1>12, <1>13, <1>14 DEF n, t

LEMMA SettlingMoves ==
  ASSUME NEW todo \in Seq(Moving), todo # <<>>, NEW rows, NEW after,
         Lifts(rows, Head(todo)[1], Head(todo)[2], after), Settling(todo, rows), Even(rows)
  PROVE  /\ Even(after)
         /\ Len(todo) > 1 => Settling(Tail(todo), after)
         /\ ~(Len(todo) > 1) => Unlike(after)
<1> DEFINE n == Len(todo)
           t == Tail(todo)
           r == todo[1][1]
           h == todo[1][2]
           C == Customs(rows)
<1>1. /\ Head(todo) = todo[1] /\ n \in Nat /\ 1 \in 1..n /\ Len(t) = n - 1
      /\ \A i \in 1..n - 1 : t[i] = todo[i + 1] /\ i + 1 \in 1..n /\ 1 # i + 1
  <2>1. /\ Head(todo) = todo[1] /\ n \in Nat /\ 1 \in 1..n /\ Len(t) = n - 1
        /\ \A i \in 1..n - 1 : t[i] = todo[i + 1]
    BY NextTodo
  <2> HIDE DEF n, t
  <2>2. \A i \in 1..n - 1 : i + 1 \in 1..n /\ 1 # i + 1
    BY <2>1
  <2> QED
    BY <2>1, <2>2
<1>2. Lifts(rows, r, h, after)
  BY <1>1
<1>3. /\ Customs(after) = C /\ r \in C /\ h \in Nat
      /\ \A x \in C : after[x].position = IF x = r THEN h ELSE rows[x].position
  BY <1>2, LiftsCustoms DEF Lifts
<1>4. /\ \A i \in 1..n : todo[i][1] \in C /\ todo[i][2] > 0
      /\ \A i, j \in 1..n : i # j => todo[i][1] # todo[j][1] /\ todo[i][2] # todo[j][2]
      /\ \A x \in C : (~\E i \in 1..n : todo[i][1] = x) =>
           /\ \A i \in 1..n : rows[x].position # todo[i][2]
           /\ \A y \in C : (~\E i \in 1..n : todo[i][1] = y) /\ x # y
                             => rows[x].position # rows[y].position
  BY DEF Settling, Pending
<1>5. \A x \in C : rows[x].position > 0
  BY DEF Even
<1> HIDE DEF n, t, r, h, C
<1>6. Even(after)
  BY <1>1, <1>3, <1>4, <1>5 DEF Even, h
<1>7. \A i \in 1..n : todo[i][1] = r => i = 1
  BY <1>1, <1>4 DEF r
(* What is not in the rest was not in the whole, or is the first.          *)
<1>8. ASSUME NEW x \in C, ~\E i \in 1..n - 1 : t[i][1] = x, x # r
      PROVE  ~\E i \in 1..n : todo[i][1] = x
  <2> SUFFICES ASSUME NEW i \in 1..n, todo[i][1] = x PROVE FALSE
    OBVIOUS
  <2>1. i # 1
    BY <1>8 DEF r
  <2>2. i - 1 \in 1..n - 1 /\ (i - 1) + 1 = i
    BY <1>1, <2>1
  <2>3. t[i - 1] = todo[i]
    BY <1>1, <2>2
  <2> QED
    BY <1>8, <2>2, <2>3
<1>9. ASSUME NEW x \in C, NEW y \in C, x # y,
             ~\E i \in 1..n - 1 : t[i][1] = x, ~\E i \in 1..n - 1 : t[i][1] = y
      PROVE  after[x].position # after[y].position
  <2>1. x # r => rows[x].position # h
    BY <1>1, <1>4, <1>8, <1>9 DEF h
  <2>2. y # r => rows[y].position # h
    BY <1>1, <1>4, <1>8, <1>9 DEF h
  <2>3. x # r /\ y # r => rows[x].position # rows[y].position
    BY <1>4, <1>8, <1>9
  <2> QED
    BY <1>3, <1>9, <2>1, <2>2, <2>3
<1>10. ASSUME n > 1 PROVE Settling(t, after)
  <2>1. \A i \in 1..n - 1 : t[i][1] \in C /\ t[i][2] > 0
    BY <1>1, <1>4
  <2>2. \A i, j \in 1..n - 1 : i # j => t[i][1] # t[j][1] /\ t[i][2] # t[j][2]
    <3> SUFFICES ASSUME NEW i \in 1..n - 1, NEW j \in 1..n - 1, i # j
                 PROVE  t[i][1] # t[j][1] /\ t[i][2] # t[j][2]
      OBVIOUS
    <3>1. i + 1 # j + 1 /\ i + 1 \in 1..n /\ j + 1 \in 1..n
          /\ t[i] = todo[i + 1] /\ t[j] = todo[j + 1]
      BY <1>1
    <3>2. todo[i + 1][1] # todo[j + 1][1] /\ todo[i + 1][2] # todo[j + 1][2]
      BY <1>4, <3>1
    <3> QED
      BY <3>1, <3>2
  <2>3. ASSUME NEW x \in C, ~\E i \in 1..n - 1 : t[i][1] = x, NEW i \in 1..n - 1
        PROVE  after[x].position # t[i][2]
    <3>1. t[i] = todo[i + 1] /\ i + 1 \in 1..n /\ 1 # i + 1
      BY <1>1
    <3>2. CASE x = r
      BY <1>1, <1>3, <1>4, <3>1, <3>2 DEF h
    <3>3. CASE x # r
      <4>1. ~\E k \in 1..n : todo[k][1] = x
        BY <1>8, <2>3, <3>3
      <4>2. after[x].position = rows[x].position
        BY <1>3, <3>3
      <4>3. \A k \in 1..n : rows[x].position # todo[k][2]
        BY <1>4, <4>1
      <4> QED
        BY <3>1, <4>2, <4>3
    <3> QED
      BY <3>2, <3>3
  <2> QED
    BY <1>1, <1>3, <1>9, <2>1, <2>2, <2>3 DEF Settling, Pending
<1>11. ASSUME ~(n > 1) PROVE Unlike(after)
  <2>1. \A x : ~\E i \in 1..n - 1 : t[i][1] = x
    BY <1>1, <1>11
  <2> QED
    BY <1>3, <1>9, <2>1 DEF Unlike
<1> QED
  BY <1>6, <1>10, <1>11 DEF n, t

(* What a request that is alone knows of the roles.                        *)
Placed(o, rows) ==
  /\ o.kind = "create" => o.read = <<>>
  /\ o.stage # "move" =>
       \A i \in 1..Len(o.read) : o.roles[i] \in DOMAIN rows /\ o.read[i] = rows[o.roles[i]]
  /\ o.kind \in {"swap", "reorder"} /\ o.stage # "move" =>
       \A i \in 1..Len(o.roles) : o.roles[i] # Everyone
  /\ o.kind = "swap" /\ o.stage # "move" => Distinct(o.roles)
  /\ o.kind = "reorder" => o.stage # "role" /\ \A i \in 1..Len(o.read) : ~o.read[i].deleted
  /\ o.kind = "create" /\ o.stage = "move" => o.height = 1 /\ Rising(o.todo, rows)
  /\ o.kind = "create" /\ o.stage \in {"cap", "insert"} =>
       o.height > 0 /\ \A r \in Customs(rows) : rows[r].position > o.height
  /\ o.kind = "transfer" /\ o.stage = "insert" =>
       o.height > 0 /\ \A r \in Customs(rows) : rows[r].position < o.height
  /\ o.kind \in {"swap", "reorder"} /\ o.stage = "move" => Settling(o.todo, rows)

MidMove(o) == o # None /\ o.kind \in {"swap", "reorder"} /\ o.stage = "move"
Calm == ~history.tangled /\ ~history.loose

Level ==
  Calm =>
    /\ Even(roles)
    /\ (\A k \in Ops : ~MidMove(ops[k])) => Unlike(roles)
    /\ \A k \in Ops : ops[k] # None => Placed(ops[k], roles)

LEMMA LevelInit == Init => Level
BY DEF Init, Level, Even, Unlike, Customs, Live, MidMove

LEMMA LevelStep ==
  ASSUME Base, Sound, Level, NEW k \in Ops, ops[k] # None, NEW r, Become(k, r),
         history'.tangled = history.tangled, ~history'.loose => ~history.loose,
         Calm /\ ~history'.loose => /\ Even(roles')
                                    /\ MidMove(r) \/ Unlike(roles')
                                    /\ r = None \/ Placed(r, roles')
  PROVE  Level'
<1> SUFFICES ASSUME Calm, ~history'.loose
             PROVE  /\ Even(roles')
                    /\ (\A j \in Ops : ~MidMove(ops'[j])) => Unlike(roles')
                    /\ \A j \in Ops : ops'[j] # None => Placed(ops'[j], roles')
  BY DEF Level, Calm
<1>1. \A j \in Ops : ops'[j] # None => j = k /\ ops'[j] = r
  BY OnlyOne DEF Calm
<1>2. ops'[k] = r
  BY DEF Base, Requests, Become
<1> QED
  BY <1>1, <1>2

(* The roles, as long as they are not being moved.                         *)
LEMMA AtRest ==
  ASSUME Sound, Level, Calm, NEW k \in Ops, ops[k] # None
  PROVE  Even(roles) /\ Placed(ops[k], roles) /\ (~MidMove(ops[k]) => Unlike(roles))
<1>1. \A j \in Ops : ops[j] # None => j = k
  BY DEF Sound, Calm
<1>2. ~MidMove(ops[k]) => \A j \in Ops : ~MidMove(ops[j])
  BY <1>1 DEF MidMove
<1> QED
  BY <1>2 DEF Level

(* Some roles may go, those that stay keep their heights.                  *)
LEMMA Fewer ==
  ASSUME NEW rows, NEW after, Even(rows),
         \A r \in Customs(after) : r \in Customs(rows) /\ after[r].position = rows[r].position
  PROVE  Even(after) /\ (Unlike(rows) => Unlike(after))
BY DEF Even, Unlike

(* A step of a request that has nothing to do with heights, or is done.    *)
Steady(o, r) ==
  /\ r.read = o.read /\ r.kind = o.kind /\ r.roles = o.roles
  /\ r.stage \notin {"move", "role"} /\ o.stage # "move"
  /\ r.kind = "create" /\ r.stage \in {"cap", "insert"} =>
       o.stage \in {"cap", "insert"} /\ r.height = o.height
  /\ r.kind = "transfer" => r.stage # "insert"

LEMMA SteadyPlaced ==
  ASSUME NEW o, NEW r, Steady(o, r), NEW rows, Placed(o, rows) PROVE Placed(r, rows)
BY DEF Steady, Placed

LEMMA LevelSteady ==
  ASSUME Base, Sound, Level, NEW k \in Ops, ops[k] # None, NEW r, Become(k, r),
         r = None \/ Steady(ops[k], r), ~MidMove(ops[k]),
         history'.tangled = history.tangled, ~history'.loose => ~history.loose,
         UNCHANGED roles
  PROVE  Level'
<1>1. Calm => Even(roles) /\ Unlike(roles) /\ Placed(ops[k], roles)
  BY AtRest
<1>2. Calm => r = None \/ Placed(r, roles)
  BY <1>1, SteadyPlaced
<1> QED
  BY <1>1, <1>2, LevelStep

(* A request that ends with fewer roles of the same heights.               *)
LEMMA LevelEnds ==
  ASSUME Base, Sound, Level, NEW k \in Ops, ops[k] # None, Become(k, None), ~MidMove(ops[k]),
         history'.tangled = history.tangled, ~history'.loose => ~history.loose,
         ~history'.loose => \A r \in Customs(roles') : r \in Customs(roles)
                                           /\ roles'[r].position = roles[r].position
  PROVE  Level'
<1>1. Calm /\ ~history'.loose => Even(roles') /\ Unlike(roles')
  BY AtRest, Fewer
<1> QED
  BY <1>1, LevelStep

LEMMA GotoSteady ==
  ASSUME NEW o \in Op, NEW s, s \notin {"move", "role"}, o.stage # "move",
         o.kind = "create" /\ s \in {"cap", "insert"} => o.stage \in {"cap", "insert"},
         o.kind = "transfer" => s # "insert"
  PROVE  Steady(o, [o EXCEPT !.stage = s])
BY DEF Op, Steady

LEMMA BeginsLevel ==
  ASSUME Base, Sound, Level, NEW k \in Ops, NEW r, Begins(k, r) PROVE Level'
<1> DEFINE t == history.tangled \/ \E j \in Ops : ops[j] # None
<1>1. /\ UNCHANGED tables /\ Become(k, r) /\ ops[k] = None
      /\ history' = [history EXCEPT !.made = history.made + 1, !.tangled = t]
  BY DEF Begins
<1>2. history'.tangled = t /\ history'.loose = history.loose
  <2> HIDE DEF t
  <2> QED
    BY <1>1 DEF Base, History
<1> SUFFICES ASSUME ~t, ~history.loose PROVE Level'
  BY <1>2 DEF Level, Calm
<1>3. \A j \in Ops : ops'[j] = IF j = k THEN r ELSE None
  BY <1>1 DEF Base, Requests, Become
<1>4. /\ r.stage \in {"list", "role", "member", "override", "rank"} /\ r.read = <<>>
      /\ r.kind = "reorder" => r.stage = "list"
      /\ r.kind \in {"swap", "reorder"} => Customary(r)
      /\ r.kind = "swap" => Distinct(r.roles)
  BY DEF Begins, Fresh, Op, Kinds, RoleOps
<1>5. Len(r.read) = 0
  BY <1>4, EmptySequences
<1>6. Placed(r, roles)
  BY <1>4, <1>5 DEF Placed, Customary
<1>7. Calm /\ \A j \in Ops : ops[j] = None
  BY DEF Calm
<1>8. Even(roles) /\ Unlike(roles)
  BY <1>7 DEF Level, MidMove
<1> QED
  BY <1>1, <1>3, <1>6, <1>8 DEF Level, tables

LEMMA ReadRoleLevel ==
  ASSUME Base, Sound, Level, NEW k \in Ops, ReadRole(k) PROVE Level'
<1>1. PICK o \in Op : o = ops[k] /\ Fits(o)
  BY AtWork DEF Base, ReadRole, At
<1> DEFINE n == Len(o.read)
           r == o.roles[n + 1]
           to == IF n + 1 < Len(o.roles) THEN "role" ELSE "rank"
           rows == Append(o.read, roles[r])
           new == [o EXCEPT !.read = rows, !.stage = to]
<1>2. UNCHANGED <<tables, history>> /\ ops[k] # None /\ o.stage = "role" /\ ~MidMove(ops[k])
  BY <1>1 DEF ReadRole, At, MidMove
<1>3. \/ o.kind = "unassign" /\ Become(k, [o EXCEPT !.stage = "write"])
      \/ Become(k, None)
      \/ r \in DOMAIN roles /\ Become(k, new)
  BY <1>1 DEF ReadRole, Goto, Done
<1>4. CASE o.kind = "unassign" /\ Become(k, [o EXCEPT !.stage = "write"])
  <2>1. Steady(o, [o EXCEPT !.stage = "write"])
    BY <1>2, <1>4, GotoSteady
  <2> QED
    BY <1>1, <1>2, <1>4, <2>1, LevelSteady DEF tables
<1>5. CASE Become(k, None)
  BY <1>2, <1>5, LevelSteady DEF tables
<1>6. CASE r \in DOMAIN roles /\ Become(k, new)
  <2>1. roles[r] \in Role /\ o.read \in Seq(Role)
    BY <1>6 DEF Base, Tables, Rights, Op
  <2> DEFINE row == roles[r]
             was == o.read
  <2>2. /\ Len(rows) = Len(was) + 1 /\ Len(was) \in Nat /\ rows[Len(was) + 1] = row
        /\ \A i \in 1..Len(was) : rows[i] = was[i]
    <3>1. row \in Role /\ was \in Seq(Role)
      BY <2>1
    <3> HIDE DEF row, was
    <3>2. /\ Len(Append(was, row)) = Len(was) + 1 /\ Append(was, row)[Len(was) + 1] = row
          /\ \A i \in 1..Len(was) : Append(was, row)[i] = was[i]
      BY ONLY <3>1, AppendProperties
    <3>3. Len(was) \in Nat
      BY <3>1
    <3> QED
      BY <3>2, <3>3 DEF row, was
  <2>3. /\ new.read = rows /\ new.stage = to /\ to \in {"role", "rank"}
        /\ new.kind = o.kind /\ new.roles = o.roles
    <3> HIDE DEF rows
    <3> QED
      BY DEF Op
  <2>4. o.kind # "create" /\ o.kind # "transfer"
    BY <1>1, <1>2 DEF Fits
  <2>5. ASSUME Calm PROVE Placed(new, roles)
    <3>1. Placed(o, roles)
      BY <1>1, <1>2, <2>5, AtRest
    <3>2. o.kind # "reorder"
      BY <1>2, <3>1 DEF Placed
    <3>3. \A i \in 1..Len(was) : o.roles[i] \in DOMAIN roles /\ was[i] = roles[o.roles[i]]
      BY <1>2, <3>1 DEF Placed
    <3> HIDE DEF new, rows, row, to
    <3>4. \A i \in 1..Len(was) + 1 : i = Len(was) + 1 \/ i \in 1..Len(was)
      BY <2>2
    <3>5. \A i \in 1..Len(rows) : o.roles[i] \in DOMAIN roles /\ rows[i] = roles[o.roles[i]]
      BY <1>6, <2>2, <3>3, <3>4 DEF row
    <3>6. new.stage # "move" /\ new.stage \notin {"cap", "insert"}
      BY <2>3
    <3> QED
      BY <1>2, <2>3, <2>4, <3>1, <3>2, <3>5, <3>6 DEF Placed
  <2>6. Calm => Even(roles) /\ Unlike(roles)
    BY <1>1, <1>2, AtRest
  <2> HIDE DEF new
  <2>7. history'.tangled = history.tangled /\ history'.loose = history.loose /\ roles' = roles
    BY <1>2 DEF tables
  <2> QED
    BY <1>2, <1>6, <2>5, <2>6, <2>7, LevelStep
<1> QED
  BY <1>3, <1>4, <1>5, <1>6

LEMMA ReadMemberLevel ==
  ASSUME Base, Sound, Level, NEW k \in Ops, ReadMember(k) PROVE Level'
<1>1. PICK o \in Op : o = ops[k] /\ Fits(o)
  BY AtWork DEF Base, ReadMember, At
<1>2. /\ o.kind \in {"assign", "unassign", "transfer"} /\ o.stage = "member"
      /\ UNCHANGED <<tables, history>> /\ ops[k] # None /\ ~MidMove(ops[k])
  BY <1>1 DEF ReadMember, At, MidMove
<1> DEFINE ids == held[IF o.kind = "transfer" THEN o.user ELSE o.whom]
           to == IF o.kind = "transfer" THEN "write" ELSE "role"
           new == [o EXCEPT !.mine = ids, !.stage = to]
<1>3. Become(k, None) \/ Become(k, new)
  BY <1>1 DEF ReadMember, Done
<1> HIDE DEF ids
<1>4. new.read = o.read /\ new.kind = o.kind /\ new.roles = o.roles /\ new.stage = to
  BY DEF Op
<1> HIDE DEF new
<1>5. Calm => Even(roles) /\ Unlike(roles) /\ Placed(o, roles)
  BY <1>1, <1>2, AtRest
<1>6. Calm => Placed(new, roles)
  BY <1>2, <1>4, <1>5 DEF Placed
<1>7. history'.tangled = history.tangled /\ history'.loose = history.loose /\ roles' = roles
  BY <1>2 DEF tables
<1> QED
  BY <1>2, <1>3, <1>5, <1>6, <1>7, LevelStep

LEMMA ReadOverrideLevel ==
  ASSUME Base, Sound, Level, NEW k \in Ops, ReadOverride(k) PROVE Level'
<1>1. PICK o \in Op : o = ops[k] /\ Fits(o)
  BY AtWork DEF Base, ReadOverride, At
<1>2. /\ o.kind = "remove" /\ o.stage = "override"
      /\ UNCHANGED <<tables, history>> /\ ops[k] # None /\ ~MidMove(ops[k])
  BY <1>1 DEF ReadOverride, At, MidMove
<1> DEFINE to == IF o.roles = <<>> THEN "rank" ELSE "role"
           new == [o EXCEPT !.row = "there", !.stage = to]
<1>3. Become(k, None) \/ Become(k, new)
  BY <1>1 DEF ReadOverride, Done
<1>4. new.read = o.read /\ new.kind = o.kind /\ new.roles = o.roles /\ new.stage = to
  BY DEF Op
<1> HIDE DEF new
<1>5. Calm => Even(roles) /\ Unlike(roles) /\ Placed(o, roles)
  BY <1>1, <1>2, AtRest
<1>6. Calm => Placed(new, roles)
  BY <1>2, <1>4, <1>5 DEF Placed
<1>7. history'.tangled = history.tangled /\ history'.loose = history.loose /\ roles' = roles
  BY <1>2 DEF tables
<1> QED
  BY <1>2, <1>3, <1>5, <1>6, <1>7, LevelStep

LEMMA ListForCreateLevel ==
  ASSUME Base, Sound, Level, NEW k \in Ops, ListForCreate(k) PROVE Level'
<1>1. PICK o \in Op : o = ops[k] /\ Fits(o)
  BY AtWork DEF Base, ListForCreate, At
<1>2. /\ o.stage = "list" /\ o.kind = "create" /\ ops[k] # None /\ ~MidMove(ops[k])
      /\ UNCHANGED <<tables, history>>
  BY <1>1 DEF ListForCreate, At, MidMove
<1>3. PICK new : /\ Become(k, new)
                 /\ (HighToLow = <<>> /\ NoRoles(o, new)) \/ RoomBelow(o, new) \/ AllMoveUp(o, new)
  BY <1>1, CreationFinds
<1> DEFINE e == HighToLow
           n == Cardinality(Custom)
<1>4. /\ n \in Nat /\ e \in Seq(Custom) /\ Len(e) = n /\ DOMAIN e = 1..n
      /\ \A i, j \in 1..n : e[i] = e[j] => i = j
      /\ \A r \in Custom : \E i \in 1..n : e[i] = r
      /\ \A i \in 1..n : e[i] \in Custom /\ roles[e[i]].position \in 0..MaxPosition
      /\ \A i, j \in 1..n : i < j => roles[e[j]].position <= roles[e[i]].position
  BY HighToLowSorts DEF Base, HighFirst
<1>5. Custom = Customs(roles)
  BY DEF Custom, Customs
<1> HIDE DEF e, n
<1>6. e # <<>> => n # 0 /\ 1 \in 1..n /\ n \in 1..n /\ Head(e) = e[1]
  BY <1>4, EmptySeq
<1>7. ASSUME Calm PROVE Placed(new, roles)
  <2>1. Even(roles) /\ Unlike(roles) /\ Placed(o, roles) /\ o.read = <<>>
    BY <1>1, <1>2, <1>7, AtRest DEF Placed
  <2>2. Len(o.read) = 0
    BY <2>1, EmptySequences
  <2>3. CASE e = <<>> /\ NoRoles(o, new)
    <3>1. new.kind = "create" /\ new.stage = "cap" /\ new.height = 1 /\ new.read = o.read
      BY <1>2, <2>3 DEF NoRoles, Op
    <3>2. Len(e) = 0
      BY <2>3, EmptySequences
    <3>3. Customs(roles) = {}
      BY <1>4, <1>5, <3>2
    <3> QED
      BY <2>1, <2>2, <3>1, <3>3 DEF Placed
  <2>4. CASE RoomBelow(o, new)
    <3> DEFINE low == roles[e[n]].position
               h == low - 1
    <3>1. e # <<>> /\ low > 1 /\ new = [o EXCEPT !.height = h, !.stage = "cap"]
      BY <1>4, <2>4 DEF RoomBelow, e
    <3>2. low \in Nat
      BY <1>4, <1>6, <3>1, RolesAssumption
    <3>3. \A r \in Customs(roles) : roles[r].position >= low /\ roles[r].position \in Nat
      <4> SUFFICES ASSUME NEW r \in Custom
                   PROVE  roles[r].position >= low /\ roles[r].position \in Nat
        BY <1>5
      <4>1. PICK i \in 1..n : e[i] = r
        BY <1>4
      <4>2. roles[r].position \in Nat
        BY <1>4, <4>1, RolesAssumption
      <4>3. CASE i = n
        BY <3>2, <4>1, <4>3
      <4>4. CASE i # n
        <5>1. n \in 1..n /\ i < n
          BY <1>4, <4>4
        <5>2. roles[e[n]].position <= roles[e[i]].position
          BY <1>4, <5>1
        <5> QED
          BY <3>2, <4>1, <4>2, <5>2
      <4> QED
        BY <4>2, <4>3, <4>4
    <3> HIDE DEF low
    <3>4. h > 0 /\ \A r \in Customs(roles) : roles[r].position > h
      BY <3>1, <3>2, <3>3
    <3> HIDE DEF h
    <3>5. new.kind = "create" /\ new.stage = "cap" /\ new.height = h /\ new.read = o.read
      BY <1>2, <3>1 DEF Op
    <3> QED
      BY <2>1, <2>2, <3>4, <3>5 DEF Placed
  <2>5. CASE AllMoveUp(o, new)
    <3> DEFINE up == [i \in DOMAIN e |-> <<e[i], roles[e[i]].position + 1>>]
    <3>1. new = [o EXCEPT !.height = 1, !.stage = "move", !.todo = up]
      BY <2>5 DEF AllMoveUp, e
    <3>2. \A i \in 1..n : up[i] = <<e[i], roles[e[i]].position + 1>>
      BY <1>4
    <3>3. Len(up) = n
      <4> DEFINE X == {<<e[i], roles[e[i]].position + 1>> : i \in 1..n}
      <4>1. up \in [1..n -> X]
        BY <1>4
      <4> HIDE DEF up, X
      <4> QED
        BY <1>4, <4>1
    <3> HIDE DEF up
    <3>4. Rising(up, roles)
      <4>1. \A i \in 1..n : up[i][1] = e[i] /\ up[i][2] = roles[e[i]].position + 1 /\ e[i] \in Customs(roles)
        BY <1>4, <1>5, <3>2
      <4>2. ASSUME NEW i \in 1..n, NEW j \in 1..n, i < j
            PROVE  roles[e[j]].position < roles[e[i]].position
        <5>1. e[i] # e[j] /\ e[i] \in Customs(roles) /\ e[j] \in Customs(roles)
          BY <1>4, <1>5, <4>2
        <5>2. roles[e[i]].position # roles[e[j]].position
          BY <2>1, <5>1 DEF Unlike
        <5>3. roles[e[j]].position <= roles[e[i]].position
          BY <1>4, <4>2
        <5>4. roles[e[i]].position \in Nat /\ roles[e[j]].position \in Nat
          BY <1>4, RolesAssumption
        <5> QED
          BY <5>2, <5>3, <5>4
      <4>3. \A r \in Customs(roles) : Pending(up, r)
        BY <1>4, <1>5, <3>3, <4>1 DEF Pending
      <4> QED
        BY <3>3, <4>1, <4>2, <4>3 DEF Rising
    <3>5. /\ new.kind = "create" /\ new.stage = "move" /\ new.height = 1 /\ new.todo = up
          /\ new.read = o.read
      BY <1>2, <3>1 DEF Op
    <3> QED
      BY <2>1, <2>2, <3>4, <3>5 DEF Placed
  <2> QED
    BY <1>3, <2>3, <2>4, <2>5 DEF e
<1>8. Calm => Even(roles) /\ Unlike(roles)
  BY <1>2, AtRest
<1>9. history'.tangled = history.tangled /\ history'.loose = history.loose /\ roles' = roles
  BY <1>2 DEF tables
<1> QED
  BY <1>2, <1>3, <1>7, <1>8, <1>9, LevelStep

LEMMA ListForTransferLevel ==
  ASSUME Base, Sound, Level, NEW k \in Ops, ListForTransfer(k) PROVE Level'
<1>1. PICK o \in Op : o = ops[k] /\ Fits(o)
  BY AtWork DEF Base, ListForTransfer, At
<1>2. /\ o.stage = "list" /\ o.kind = "transfer" /\ ops[k] # None /\ ~MidMove(ops[k])
      /\ UNCHANGED <<tables, history>>
  BY <1>1 DEF ListForTransfer, At, MidMove
<1> DEFINE heights == {roles[r].position : r \in DOMAIN roles}
           top == Highest(heights) + 1
           new == [o EXCEPT !.height = top, !.stage = "insert"]
<1>3. Become(k, new)
  BY <1>1 DEF ListForTransfer
<1>4. top > 0 /\ \A r \in Customs(roles) : roles[r].position < top
  <2>1. heights \in SUBSET (0..MaxPosition) /\ heights # {}
    BY DEF Base, Tables, Rights, Role
  <2>2. \A r \in Customs(roles) : roles[r].position \in heights
    BY DEF Customs, Live
  <2> HIDE DEF heights
  <2>3. Highest(heights) \in heights /\ \A m \in heights : m <= Highest(heights)
    BY <2>1, HighestIs, RolesAssumption
  <2>4. Highest(heights) \in Nat /\ \A m \in heights : m \in Nat
    <3>1. \A m \in heights : m \in 0..MaxPosition
      BY <2>1
    <3>2. MaxPosition \in Nat
      BY RolesAssumption
    <3>3. \A m \in heights : m \in Nat
      BY <3>1, <3>2
    <3> QED
      BY <2>3, <3>3
  <2>5. \A r \in Customs(roles) : /\ roles[r].position <= Highest(heights)
                                  /\ roles[r].position \in Nat
    BY <2>2, <2>3, <2>4
  <2> DEFINE highest == Highest(heights)
  <2>6. top = highest + 1 /\ highest \in Nat
    BY <2>4
  <2> HIDE DEF highest, top
  <2>7. \A r \in Customs(roles) : roles[r].position <= highest /\ roles[r].position \in Nat
    BY <2>5 DEF highest
  <2> QED
    BY <2>6, <2>7
<1> HIDE DEF top
<1>5. /\ new.read = o.read /\ new.kind = o.kind /\ new.roles = o.roles
      /\ new.stage = "insert" /\ new.height = top
  BY DEF Op
<1> HIDE DEF new
<1>6. Calm => Even(roles) /\ Unlike(roles) /\ Placed(o, roles)
  BY <1>1, <1>2, AtRest
<1>7. Calm => Placed(new, roles)
  BY <1>2, <1>4, <1>5, <1>6 DEF Placed
<1>8. history'.tangled = history.tangled /\ history'.loose = history.loose /\ roles' = roles
  BY <1>2 DEF tables
<1> QED
  BY <1>2, <1>3, <1>6, <1>7, <1>8, LevelStep

LEMMA ListForReorderLevel ==
  ASSUME Base, Sound, Level, NEW k \in Ops, ListForReorder(k) PROVE Level'
<1>1. PICK o \in Op : o = ops[k] /\ Fits(o)
  BY AtWork DEF Base, ListForReorder, At
<1>2. /\ o.stage = "list" /\ o.kind = "reorder" /\ ops[k] # None /\ ~MidMove(ops[k])
      /\ UNCHANGED <<tables, history>>
  BY <1>1 DEF ListForReorder, At, MidMove
<1> DEFINE named == o.roles
           rows == [i \in DOMAIN named |-> roles[named[i]]]
           new == [o EXCEPT !.stage = "rank", !.read = rows]
<1>3. Become(k, None) \/ ((\A i \in DOMAIN named : named[i] \in Custom) /\ Become(k, new))
  BY <1>1 DEF ListForReorder, Done
<1>4. CASE Become(k, None)
  BY <1>2, <1>4, LevelSteady DEF tables
<1>5. CASE (\A i \in DOMAIN named : named[i] \in Custom) /\ Become(k, new)
  <2> DEFINE n == Len(named)
  <2>1. n \in Nat /\ DOMAIN named = 1..n
    BY DEF Op
  <2>2. \A i \in 1..n : rows[i] = roles[named[i]] /\ named[i] \in DOMAIN roles /\ ~roles[named[i]].deleted
    BY <1>5, <2>1 DEF Custom, Live
  <2>3. Len(rows) = n
    <3> DEFINE X == {roles[named[i]] : i \in 1..n}
    <3>1. rows \in [1..n -> X]
      BY <2>1
    <3> HIDE DEF rows, X, n
    <3> QED
      BY <2>1, <3>1
  <2> HIDE DEF rows
  <2>4. /\ new.read = rows /\ new.kind = o.kind /\ new.roles = o.roles /\ new.stage = "rank"
    BY DEF Op
  <2> HIDE DEF new, n
  <2>5. Calm => Even(roles) /\ Unlike(roles) /\ Placed(o, roles)
    BY <1>1, <1>2, AtRest
  <2>6. Calm => Placed(new, roles)
    BY <1>2, <2>2, <2>3, <2>4, <2>5 DEF Placed
  <2>7. history'.tangled = history.tangled /\ history'.loose = history.loose /\ roles' = roles
    BY <1>2 DEF tables
  <2> QED
    BY <1>2, <1>5, <2>5, <2>6, <2>7, LevelStep
<1> QED
  BY <1>3, <1>4, <1>5

LEMMA Mirrored ==
  ASSUME NEW m \in Nat, NEW i \in 1..m, NEW j \in 1..m, m + 1 - i = m + 1 - j PROVE i = j
OBVIOUS

(* Heights dealt out among the roles that had them, each to one role.      *)
LEMMA SettlingStarts ==
  ASSUME NEW k, NEW o \in Op, o = ops[k], Fits(o), o.kind \in {"swap", "reorder"},
         o.stage # "move", Placed(o, roles), Even(roles), Unlike(roles),
         \A i \in 1..Len(o.read) : ~o.read[i].deleted, Distinct(o.roles)
  PROVE  Settling(Moves(k), roles)
<1> DEFINE m == Len(o.read)
           q == Cardinality(MovedBy(o))
           c == o.roles
           was == Was(o)
           dealt == Dealt(o)
           t == InTurn(o)
           todo == Moves(k)
           C == Customs(roles)
<1>1. /\ m \in Nat /\ \A i \in 1..m : was[i] = o.read[i].position
      /\ First(o) \in [1..m -> 1..m]
      /\ \A i, j \in 1..m : First(o)[i] = First(o)[j] => i = j
  BY FirstSorts
<1>2. /\ q \in Nat /\ Len(todo) = q
      /\ \A n \in 1..q : t[n] \in MovedBy(o) /\ todo[n] = <<c[t[n]], dealt[t[n]]>>
      /\ \A i, j \in 1..q : t[i] = t[j] => i = j
      /\ \A i \in MovedBy(o) : \E n \in 1..q : t[n] = i
  <2>1. Deals(o, Moves(k))
    BY MovesDeal DEF Fits
  <2> QED
    BY <2>1 DEF Deals
<1>3. \A i \in 1..m : /\ c[i] \in DOMAIN roles /\ o.read[i] = roles[c[i]]
                      /\ c[i] # Everyone /\ i \in 1..Len(c)
  <2>1. \A i \in 1..m : i \in 1..Len(c)
    <3>1. m <= Len(c) /\ Len(c) \in Nat
      BY DEF Fits, Op
    <3> QED
      BY <1>1, <3>1
  <2> QED
    BY <2>1 DEF Placed
<1>4. \A i \in 1..m : c[i] \in C /\ was[i] = roles[c[i]].position
  <2> SUFFICES ASSUME NEW i \in 1..m PROVE c[i] \in C /\ was[i] = roles[c[i]].position
    OBVIOUS
  <2>1. c[i] \in DOMAIN roles /\ o.read[i] = roles[c[i]] /\ c[i] # Everyone /\ ~o.read[i].deleted
    BY <1>3
  <2>2. was[i] = o.read[i].position
    BY <1>1
  <2> HIDE DEF m, c, was
  <2>3. c[i] \in Live(roles)
    BY <2>1 DEF Live
  <2>4. c[i] \in C
    BY <2>1, <2>3 DEF Customs
  <2> QED
    BY <2>1, <2>2, <2>4
<1>5. \A i, j \in 1..m : c[i] = c[j] => i = j
  BY <1>3 DEF Distinct
<1>6. \A i, j \in 1..m : was[i] = was[j] => i = j
  BY <1>4, <1>5 DEF Unlike
<1>7. \A i \in 1..m : \E j \in 1..m :
        dealt[i] = was[j] /\ j = IF o.kind = "swap" THEN m + 1 - i ELSE First(o)[i]
  BY DealtAre, Zenon
<1>8. \A i \in MovedBy(o) : i \in 1..m
  BY DEF MovedBy
<1>9. \A i \in 1..m : i \notin MovedBy(o) => dealt[i] = was[i]
  BY DEF MovedBy
<1>10. \A r \in C : roles[r].position > 0
  BY DEF Even
<1>11. \A r, s \in C : r # s => roles[r].position # roles[s].position
  BY DEF Unlike
<1> HIDE DEF m, q, c, was, dealt, t, todo, C
<1>12. ASSUME NEW i \in 1..m, NEW j \in 1..m, dealt[i] = dealt[j] PROVE i = j
  <2>1. PICK x \in 1..m : dealt[i] = was[x] /\ x = IF o.kind = "swap" THEN m + 1 - i ELSE First(o)[i]
    BY <1>7
  <2>2. PICK y \in 1..m : dealt[j] = was[y] /\ y = IF o.kind = "swap" THEN m + 1 - j ELSE First(o)[j]
    BY <1>7
  <2>3. x = y
    BY <1>6, <1>12, <2>1, <2>2
  <2>4. CASE o.kind = "swap"
    <3>1. m \in Nat
      BY <1>1
    <3>2. x = m + 1 - i /\ y = m + 1 - j
      BY <2>1, <2>2, <2>4
    <3>3. m + 1 - i = m + 1 - j
      BY <2>3, <3>2
    <3> QED
      BY ONLY <3>1, <3>3, i \in 1..m, j \in 1..m, Mirrored
  <2>5. CASE o.kind # "swap"
    BY <1>1, <2>1, <2>2, <2>3, <2>5
  <2> QED
    BY <2>4, <2>5
<1>13. \A i \in 1..m : dealt[i] > 0
  <2> SUFFICES ASSUME NEW i \in 1..m PROVE dealt[i] > 0
    OBVIOUS
  <2>1. PICK j \in 1..m : dealt[i] = was[j]
    BY <1>7
  <2>2. was[j] = roles[c[j]].position /\ roles[c[j]].position > 0
    BY <1>4, <1>10
  <2> QED
    BY <2>1, <2>2
<1>14. \A n \in 1..q : t[n] \in 1..m /\ todo[n][1] = c[t[n]] /\ todo[n][2] = dealt[t[n]]
  BY <1>2, <1>8
<1>15. \A n \in 1..q : todo[n][1] \in C /\ todo[n][2] > 0
  BY <1>4, <1>13, <1>14
<1>16. \A i, j \in 1..q : i # j => todo[i][1] # todo[j][1] /\ todo[i][2] # todo[j][2]
  <2> SUFFICES ASSUME NEW i \in 1..q, NEW j \in 1..q, i # j
               PROVE  todo[i][1] # todo[j][1] /\ todo[i][2] # todo[j][2]
    OBVIOUS
  <2>1. t[i] # t[j]
    BY <1>2
  <2>2. t[i] \in 1..m /\ t[j] \in 1..m
    BY <1>14
  <2>3. c[t[i]] # c[t[j]]
    BY <1>5, <2>1, <2>2
  <2>4. dealt[t[i]] # dealt[t[j]]
    BY <1>12, <2>1, <2>2
  <2> QED
    BY <1>14, <2>3, <2>4
<1>17. ASSUME NEW r \in C, ~\E n \in 1..q : todo[n][1] = r, NEW n \in 1..q
       PROVE  roles[r].position # todo[n][2]
  <2>1. CASE \E j \in 1..m : c[j] = r
    <3>1. PICK j \in 1..m : c[j] = r
      BY <2>1
    <3>2. j \notin MovedBy(o)
      <4> SUFFICES ASSUME j \in MovedBy(o) PROVE FALSE
        OBVIOUS
      <4>1. PICK l \in 1..q : t[l] = j
        BY <1>2
      <4> QED
        BY <1>14, <1>17, <3>1, <4>1
    <3>3. roles[r].position = dealt[j]
      BY <1>4, <1>9, <3>1, <3>2
    <3>4. t[n] # j
      BY <1>2, <3>2
    <3> QED
      BY <1>12, <1>14, <3>3, <3>4
  <2>2. CASE ~\E j \in 1..m : c[j] = r
    <3>1. PICK j \in 1..m : dealt[t[n]] = was[j]
      BY <1>7, <1>14
    <3> QED
      BY <1>4, <1>11, <1>14, <1>17, <2>2, <3>1
  <2> QED
    BY <2>1, <2>2
<1> QED
  BY <1>2, <1>11, <1>15, <1>16, <1>17 DEF Settling, Pending, C, todo

LEMMA CheckRankLevel ==
  ASSUME Base, Sound, Level, NEW k \in Ops, CheckRank(k) PROVE Level'
<1>1. PICK o \in Op : o = ops[k] /\ Fits(o)
  BY AtWork DEF Base, CheckRank, At
<1> DEFINE t == history.loose \/ Muddles(k)
           todo == Moves(k)
           new == [o EXCEPT !.stage = "move", !.todo = todo]
<1>2. /\ o.stage = "rank" /\ UNCHANGED tables /\ ops[k] # None /\ ~MidMove(ops[k])
      /\ history' = [history EXCEPT !.loose = t]
  BY <1>1 DEF CheckRank, At, MidMove
<1>3. history'.tangled = history.tangled /\ history'.loose = t /\ roles' = roles
  <2> HIDE DEF t
  <2> QED
    BY <1>2 DEF Base, History, tables
<1>4. ~history'.loose => ~history.loose
  BY <1>3
<1>5. \/ Become(k, None)
      \/ o.kind \in {"update", "upsert"} /\ Goto(k, "cap")
      \/ o.kind \in {"swap", "reorder"} /\ Outranks(k) /\ Become(k, new)
      \/ Goto(k, "members")
      \/ Goto(k, "write")
  BY <1>1 DEF CheckRank, Done
<1>6. CASE Become(k, None)
  BY <1>2, <1>3, <1>4, <1>6, LevelSteady
<1>7. CASE o.kind \in {"update", "upsert"} /\ Goto(k, "cap")
  <2>1. Steady(o, [o EXCEPT !.stage = "cap"])
    BY <1>2, <1>7, GotoSteady
  <2> QED
    BY <1>1, <1>2, <1>3, <1>4, <1>7, <2>1, LevelSteady DEF Goto
<1>8. CASE Goto(k, "members")
  <2>1. Steady(o, [o EXCEPT !.stage = "members"])
    BY <1>2, GotoSteady
  <2> QED
    BY <1>1, <1>2, <1>3, <1>4, <1>8, <2>1, LevelSteady DEF Goto
<1>9. CASE Goto(k, "write")
  <2>1. Steady(o, [o EXCEPT !.stage = "write"])
    BY <1>2, GotoSteady
  <2> QED
    BY <1>1, <1>2, <1>3, <1>4, <1>9, <2>1, LevelSteady DEF Goto
<1>10. CASE o.kind \in {"swap", "reorder"} /\ Outranks(k) /\ Become(k, new)
  <2>1. /\ new.kind = o.kind /\ new.roles = o.roles /\ new.stage = "move"
        /\ new.read = o.read /\ new.todo = todo
    <3> HIDE DEF todo
    <3> QED
      BY DEF Op
  <2>2. MidMove(new)
    <3>1. todo \in Seq(Moving)
      BY <1>1, MovesDeal DEF Deals, Fits
    <3> HIDE DEF todo
    <3>2. todo \in Seq((Ids \X (0..MaxPosition)) \cup (Members \X SUBSET Ids))
      BY <3>1, Todos
    <3>3. new \in Op
      BY <3>2 DEF Op, Stages
    <3> QED
      BY <1>10, <2>1, <3>3, RequestsNone DEF MidMove
  <2> HIDE DEF new
  <2>3. ASSUME Calm, ~history'.loose PROVE Even(roles) /\ Placed(new, roles)
    <3>1. Even(roles) /\ Unlike(roles) /\ Placed(o, roles)
      BY <1>1, <1>2, <2>3, AtRest
    <3>2. \A i \in 1..Len(o.read) : ~o.read[i].deleted
      <4>1. DOMAIN o.read = 1..Len(o.read)
        BY DEF Op
      <4>2. CASE o.kind = "swap"
        BY <1>1, <1>3, <1>10, <2>3, <4>1, <4>2 DEF Muddles
      <4>3. CASE o.kind = "reorder"
        BY <3>1, <4>3 DEF Placed
      <4> QED
        BY <1>10, <4>2, <4>3
    <3>3. Distinct(o.roles)
      <4>1. o.roles \in Seq(Ids) /\ DOMAIN o.roles = 1..Len(o.roles) /\ Len(o.roles) \in Nat
        BY DEF Op
      <4>2. CASE o.kind = "swap"
        BY <1>1, <1>2, <3>1, <4>2 DEF Placed
      <4>3. CASE o.kind = "reorder"
        <5>1. ~Muddles(k)
          BY <1>3, <2>3
        <5>2. \A i, j \in 1..Len(o.roles) : i < j => o.roles[i] # o.roles[j]
          BY <1>1, <1>10, <4>1, <4>3, <5>1 DEF Muddles
        <5> QED
          BY <4>1, <5>2 DEF Distinct
      <4> QED
        BY <1>10, <4>2, <4>3
    <3>4. Settling(todo, roles)
      BY <1>1, <1>2, <1>10, <3>1, <3>2, <3>3, SettlingStarts
    <3> QED
      BY <1>2, <1>10, <2>1, <3>1, <3>4 DEF Placed
  <2> HIDE DEF t, todo
  <2> QED
    BY <1>2, <1>3, <1>4, <1>10, <2>2, <2>3, LevelStep
<1> QED
  BY <1>5, <1>6, <1>7, <1>8, <1>9, <1>10

(* The role it moves is one with a height of its own.                      *)
LEMMA MoveLifts ==
  ASSUME Base, Sound, Level, Calm, NEW k \in Ops, MoveRole(k),
         NEW o \in Op, o = ops[k], Fits(o)
  PROVE  Lifts(roles, Head(o.todo)[1], Head(o.todo)[2], roles')
<1> DEFINE todo == o.todo
           r == Head(todo)[1]
           h == Head(todo)[2]
           row == [roles[r] EXCEPT !.position = h]
<1>1. /\ o.stage = "move" /\ o.kind \in {"create", "swap", "reorder"} /\ ops[k] # None
      /\ UNCHANGED <<owner, held, overrides, history>> /\ Merge(r, row)
  BY DEF MoveRole, At
<1>2. todo \in Seq(Moving) /\ todo # <<>>
  BY <1>1 DEF Fits
<1>3. Head(todo) \in Moving /\ Head(todo) = todo[1] /\ 1 \in 1..Len(todo)
  <2> HIDE DEF todo
  <2> QED
    BY <1>2, NextTodo
<1>4. h \in 0..MaxPosition /\ h \in Nat
  BY <1>3, RolesAssumption DEF Moving
<1>5. /\ r \in DOMAIN roles => row \in Role
      /\ r \in DOMAIN roles => row.deleted = roles[r].deleted /\ row.position = h
  <2> HIDE DEF h, r
  <2> QED
    BY <1>4 DEF Base, Tables, Rights, Role
<1>6. Placed(o, roles)
  BY <1>1, AtRest
<1>7. r \in Customs(roles)
  <2>1. CASE o.kind = "create"
    <3>1. Rising(todo, roles)
      BY <1>1, <1>6, <2>1 DEF Placed
    <3> QED
      BY <1>3, <3>1 DEF Rising
  <2>2. CASE o.kind \in {"swap", "reorder"}
    <3>1. Settling(todo, roles)
      BY <1>1, <1>6, <2>2 DEF Placed
    <3> QED
      BY <1>3, <3>1 DEF Settling
  <2> QED
    BY <1>1, <2>1, <2>2
<1>8. r \in DOMAIN roles
  BY <1>7 DEF Customs, Live
<1> HIDE DEF row, r, h
<1>9. DOMAIN roles' = DOMAIN roles /\ \A x \in DOMAIN roles : roles'[x] = IF x = r THEN row ELSE roles[x]
  BY <1>1, <1>5, MergeTables DEF Base
<1>10. \A x \in DOMAIN roles : roles[x].position \in Nat
  <2>1. \A x \in DOMAIN roles : roles[x].position \in 0..MaxPosition
    BY DEF Base, Tables, Rights, Role
  <2> QED
    BY <2>1, RolesAssumption
<1>11. Lifts(roles, r, h, roles')
  BY <1>4, <1>5, <1>7, <1>8, <1>9, <1>10 DEF Lifts
<1> QED
  BY <1>11 DEF r, h

LEMMA MoveRoleLevel ==
  ASSUME Base, Sound, Level, NEW k \in Ops, MoveRole(k) PROVE Level'
<1>1. PICK o \in Op : o = ops[k] /\ Fits(o)
  BY AtWork DEF Base, MoveRole, At
<1>2. /\ o.stage = "move" /\ o.kind \in {"create", "swap", "reorder"} /\ ops[k] # None
      /\ UNCHANGED <<owner, held, overrides, history>>
  BY <1>1 DEF MoveRole, At
<1> DEFINE todo == o.todo
           rest == Tail(todo)
           none == <<>>
           r == Head(todo)[1]
           h == Head(todo)[2]
           onward == [o EXCEPT !.todo = rest]
           through == [o EXCEPT !.todo = none, !.stage = "cap"]
<1>3. todo \in Seq(Moving) /\ todo # <<>>
  BY <1>1, <1>2 DEF Fits
<1>4. \/ Len(todo) > 1 /\ Become(k, onward)
      \/ ~(Len(todo) > 1) /\ o.kind = "create" /\ Become(k, through)
      \/ ~(Len(todo) > 1) /\ o.kind # "create" /\ Become(k, None)
  BY <1>1 DEF MoveRole, Done
<1>5. /\ onward.kind = o.kind /\ onward.read = o.read /\ onward.stage = "move"
      /\ onward.todo = rest /\ onward.height = o.height /\ onward # None
  <2> HIDE DEF rest
  <2>1. rest \in Seq(Moving)
    <3> HIDE DEF todo
    <3> QED
      BY <1>3, NextTodo DEF rest
  <2>2. rest \in Seq((Ids \X (0..MaxPosition)) \cup (Members \X SUBSET Ids))
    BY <2>1, Todos
  <2>3. onward \in Op
    BY <2>2 DEF Op
  <2> QED
    BY <1>2, <2>3, RequestsNone DEF Op
<1>6. /\ through.kind = o.kind /\ through.read = o.read /\ through.stage = "cap"
      /\ through.height = o.height
  <2> HIDE DEF none
  <2> QED
    BY DEF Op
<1> HIDE DEF onward, through
<1>7. ASSUME Calm PROVE Even(roles) /\ Placed(o, roles) /\ (o.kind = "create" => Unlike(roles))
  BY <1>1, <1>2, <1>7, AtRest DEF MidMove
<1>8. ASSUME Calm PROVE Lifts(roles, r, h, roles')
  BY <1>1, <1>8, MoveLifts
<1>9. history'.tangled = history.tangled /\ history'.loose = history.loose
  BY <1>2
<1>10. ASSUME Calm, o.kind = "create"
       PROVE  /\ Even(roles') /\ Unlike(roles')
              /\ Len(todo) > 1 => Rising(rest, roles')
              /\ ~(Len(todo) > 1) => \A x \in Customs(roles') : roles'[x].position > 1
  <2>1. Rising(todo, roles) /\ Even(roles) /\ Unlike(roles)
    BY <1>2, <1>7, <1>10 DEF Placed
  <2>2. Lifts(roles, Head(todo)[1], Head(todo)[2], roles')
    BY <1>8, <1>10
  <2> HIDE DEF todo
  <2> QED
    BY <1>3, <2>1, <2>2, RisingMoves
<1>11. ASSUME Calm, o.kind # "create"
       PROVE  /\ Even(roles')
              /\ Len(todo) > 1 => Settling(rest, roles')
              /\ ~(Len(todo) > 1) => Unlike(roles')
  <2>1. Settling(todo, roles) /\ Even(roles)
    BY <1>2, <1>7, <1>11 DEF Placed
  <2>2. Lifts(roles, Head(todo)[1], Head(todo)[2], roles')
    BY <1>8, <1>11
  <2> HIDE DEF todo
  <2> QED
    BY <1>3, <2>1, <2>2, SettlingMoves
<1> HIDE DEF rest, todo, none
<1>12. Calm /\ o.kind = "create" => o.height = 1 /\ o.read = <<>>
  BY <1>2, <1>7 DEF Placed
<1>13. CASE Len(todo) > 1 /\ Become(k, onward)
  <2>1. Calm => Even(roles') /\ (MidMove(onward) \/ Unlike(roles')) /\ (onward = None \/ Placed(onward, roles'))
    <3>1. onward.kind # "create" => MidMove(onward)
      BY <1>2, <1>5 DEF MidMove
    <3>2. Calm => Even(roles') /\ Placed(onward, roles')
      BY <1>2, <1>5, <1>10, <1>11, <1>12, <1>13, <1>7 DEF Placed
    <3> QED
      BY <1>5, <1>10, <3>1, <3>2
  <2> QED
    BY <1>2, <1>9, <1>13, <2>1, LevelStep
<1>14. CASE ~(Len(todo) > 1) /\ o.kind = "create" /\ Become(k, through)
  <2>1. Len(through.read) = 0 \/ ~Calm
    BY <1>6, <1>12, <1>14, EmptySequences
  <2>2. Calm => Even(roles') /\ Unlike(roles') /\ Placed(through, roles')
    BY <1>6, <1>10, <1>12, <1>14, <2>1 DEF Placed
  <2> QED
    BY <1>2, <1>9, <1>14, <2>2, LevelStep
<1>15. CASE ~(Len(todo) > 1) /\ o.kind # "create" /\ Become(k, None)
  BY <1>2, <1>9, <1>11, <1>15, LevelStep
<1> QED
  BY <1>4, <1>13, <1>14, <1>15

LEMMA CheckCapLevel ==
  ASSUME Base, Sound, Level, NEW k \in Ops, CheckCap(k) PROVE Level'
<1>1. PICK o \in Op : o = ops[k] /\ Fits(o)
  BY AtWork DEF Base, CheckCap, At
<1> DEFINE g == IF Actor(k) = owner THEN history.granted \cup ops[k].mask.allow ELSE history.granted
           found == IF OverrideOf(ops[k]) \in DOMAIN overrides THEN "there" ELSE "absent"
           new == [o EXCEPT !.stage = "write", !.row = found]
<1>2. /\ o.stage = "cap" /\ o.kind \in {"create", "update", "upsert"}
      /\ UNCHANGED tables /\ ops[k] # None /\ ~MidMove(ops[k])
      /\ history' = [history EXCEPT !.granted = g]
  BY <1>1 DEF CheckCap, At, MidMove
<1>3. history'.tangled = history.tangled /\ history'.loose = history.loose /\ roles' = roles
  <2> HIDE DEF g
  <2> QED
    BY <1>2 DEF Base, History, tables
<1>4. Become(k, None) \/ Goto(k, "insert") \/ Goto(k, "write") \/ Become(k, new)
  BY <1>1 DEF CheckCap, Done
<1>5. Steady(o, [o EXCEPT !.stage = "insert"]) /\ Steady(o, [o EXCEPT !.stage = "write"])
  BY <1>2, GotoSteady
<1>6. Steady(o, new)
  <2> HIDE DEF found
  <2> QED
    BY <1>2 DEF Op, Steady
<1> HIDE DEF new, g
<1> QED
  BY <1>1, <1>2, <1>3, <1>4, <1>5, <1>6, LevelSteady DEF Goto

LEMMA InsertLevel ==
  ASSUME Base, Sound, Level, NEW k \in Ops, Insert(k) PROVE Level'
<1>1. PICK o \in Op : o = ops[k] /\ Fits(o)
  BY AtWork DEF Base, Insert, At
<1>2. /\ o.stage = "insert" /\ o.kind \in {"create", "transfer"} /\ ops[k] # None
      /\ ~MidMove(ops[k])
  BY <1>1 DEF Insert, At, MidMove
<1> DEFINE allow == IF o.kind = "create" THEN o.mask.allow ELSE {Admin}
           deny == o.mask.deny
           h == o.height
           row == [position |-> h, deleted |-> FALSE, allow |-> allow, deny |-> deny]
           g == IF o.kind = "create" THEN history.granted ELSE history.granted \cup {Admin}
<1>3. PICK r \in RoleIds \ history.used :
        /\ roles' = Put(roles, r, row)
        /\ \/ Become(k, None)
           \/ o.kind = "transfer" /\ Become(k, [o EXCEPT !.roles = <<r>>, !.stage = "member"])
        /\ history' = [history EXCEPT !.used = @ \cup {r}, !.granted = g]
  BY <1>1, <1>2 DEF Insert, Done
<1> DEFINE named == <<r>>
           new == [o EXCEPT !.roles = named, !.stage = "member"]
<1>4. history'.tangled = history.tangled /\ history'.loose = history.loose
  <2> HIDE DEF g
  <2> QED
    BY <1>3 DEF Base, History
<1>5. row.position = h
  OBVIOUS
<1> HIDE DEF row
<1>6. /\ DOMAIN roles' = DOMAIN roles \cup {r}
      /\ \A x \in DOMAIN roles' : roles'[x] = IF x = r THEN row ELSE roles[x]
  BY <1>3 DEF Put
<1>7. new.kind = o.kind /\ new.read = o.read /\ new.stage = "member"
  <2> HIDE DEF named
  <2> QED
    BY DEF Op
<1> HIDE DEF new
<1>8. ASSUME Calm
      PROVE  /\ Even(roles) /\ Unlike(roles) /\ h > 0
             /\ \A x \in Customs(roles) : roles[x].position # h
  <2>1. Even(roles) /\ Unlike(roles) /\ Placed(o, roles)
    BY <1>1, <1>2, <1>8, AtRest
  <2>2. \A x \in Customs(roles) : roles[x].position \in Nat
    <3>1. \A x \in DOMAIN roles : roles[x].position \in 0..MaxPosition
      BY DEF Base, Tables, Rights, Role
    <3> QED
      BY <3>1, RolesAssumption DEF Customs, Live
  <2>3. h > 0 /\ \A x \in Customs(roles) : roles[x].position > h \/ roles[x].position < h
    BY <1>2, <2>1 DEF Placed
  <2>4. h \in Nat
    BY RolesAssumption DEF Op
  <2> HIDE DEF h
  <2> QED
    BY <2>1, <2>2, <2>3, <2>4
<1> HIDE DEF h
<1>9. ASSUME Calm PROVE Even(roles') /\ Unlike(roles')
  <2>1. \A x \in Customs(roles') : \/ x = r /\ roles'[x].position = h
                                   \/ x # r /\ x \in Customs(roles) /\ roles'[x].position = roles[x].position
    BY <1>5, <1>6 DEF Customs, Live
  <2> QED
    BY <1>8, <1>9, <2>1 DEF Even, Unlike
<1>10. CASE Become(k, None)
  BY <1>2, <1>4, <1>9, <1>10, LevelStep
<1>11. CASE o.kind = "transfer" /\ Become(k, new)
  <2>1. Len(new.read) = 0
    BY <1>1, <1>7, <1>11, EmptySequences DEF Fits
  <2>2. Calm => Placed(new, roles')
    BY <1>7, <1>11, <2>1 DEF Placed
  <2> QED
    BY <1>2, <1>4, <1>9, <1>11, <2>2, LevelStep
<1> QED
  BY <1>3, <1>10, <1>11 DEF new

(* What a write to a row does to the heights: nothing.                     *)
LEMMA UpdateKeeps ==
  ASSUME Base, NEW k \in Ops, WriteUpdate(k)
  PROVE  /\ DOMAIN roles' = DOMAIN roles
         /\ \A x \in DOMAIN roles : /\ roles'[x].position = roles[x].position
                                    /\ roles'[x].deleted = roles[x].deleted
<1>1. PICK o \in Op : o = ops[k] /\ Fits(o)
  BY AtWork DEF Base, WriteUpdate, At
<1> DEFINE r == Named(k)
           a == IF o.mask.allow # Head(o.read).allow THEN o.mask.allow ELSE roles[r].allow
           d == IF o.mask.deny # Head(o.read).deny THEN o.mask.deny ELSE roles[r].deny
           row == [roles[r] EXCEPT !.allow = a, !.deny = d]
<1>2. Merge(r, row) /\ UNCHANGED <<owner, held, overrides>>
  BY <1>1 DEF WriteUpdate
<1>3. r \in DOMAIN roles => row \in Role /\ row.position = roles[r].position /\ row.deleted = roles[r].deleted
  <2> SUFFICES ASSUME r \in DOMAIN roles
               PROVE  row \in Role /\ row.position = roles[r].position /\ row.deleted = roles[r].deleted
    OBVIOUS
  <2>1. roles[r] \in Role
    BY DEF Base, Tables, Rights
  <2>2. o.mask.allow \in SUBSET Bits /\ o.mask.deny \in SUBSET Bits
    BY DEF Op, Mask
  <2>3. a \in SUBSET Bits /\ d \in SUBSET Bits
    BY <2>1, <2>2 DEF Role
  <2> HIDE DEF a, d, r
  <2> QED
    BY <2>1, <2>3 DEF Role
<1> HIDE DEF row, r
<1>4. /\ DOMAIN roles' = DOMAIN roles
      /\ \A x \in DOMAIN roles : roles'[x] = IF x = r THEN row ELSE roles[x]
  BY <1>2, <1>3, MergeTables DEF Base
<1> QED
  BY <1>3, <1>4

LEMMA TrashKeeps ==
  ASSUME Base, NEW k \in Ops, WriteTrash(k)
  PROVE  /\ DOMAIN roles' = DOMAIN roles
         /\ \A x \in DOMAIN roles :
              /\ roles'[x].position = roles[x].position
              /\ roles'[x].deleted = IF x = Named(k) THEN ops[k].kind = "delete"
                                     ELSE roles[x].deleted
<1> DEFINE r == Named(k)
           d == ops[k].kind = "delete"
           row == [roles[r] EXCEPT !.deleted = d]
<1>1. Merge(r, row) /\ UNCHANGED <<owner, held, overrides>>
  BY DEF WriteTrash
<1>2. r \in DOMAIN roles => row \in Role /\ row.position = roles[r].position /\ row.deleted = d
  <2> SUFFICES ASSUME r \in DOMAIN roles
               PROVE  row \in Role /\ row.position = roles[r].position /\ row.deleted = d
    OBVIOUS
  <2>1. roles[r] \in Role /\ d \in BOOLEAN
    BY DEF Base, Tables, Rights
  <2> HIDE DEF d, r
  <2> QED
    BY <2>1 DEF Role
<1> HIDE DEF row
<1>3. /\ DOMAIN roles' = DOMAIN roles
      /\ \A x \in DOMAIN roles : roles'[x] = IF x = r THEN row ELSE roles[x]
  BY <1>1, <1>2, MergeTables DEF Base
<1> QED
  BY <1>2, <1>3

LEMMA WriteUpdateLevel ==
  ASSUME Base, Sound, Level, NEW k \in Ops, WriteUpdate(k) PROVE Level'
<1>1. /\ UNCHANGED history /\ Become(k, None) /\ ops[k] # None /\ ~MidMove(ops[k])
  BY DEF WriteUpdate, Done, At, MidMove
<1>2. \A x \in Customs(roles') : x \in Customs(roles) /\ roles'[x].position = roles[x].position
  BY UpdateKeeps DEF Customs, Live
<1> QED
  BY <1>1, <1>2, LevelEnds

LEMMA WriteTrashLevel ==
  ASSUME Base, Sound, Level, NEW k \in Ops, WriteTrash(k) PROVE Level'
<1> DEFINE t == history.loose \/ ops[k].kind = "restore"
<1>1. /\ Become(k, None) /\ ops[k] # None /\ ~MidMove(ops[k])
      /\ ops[k].kind \in {"delete", "restore"} /\ history' = [history EXCEPT !.loose = t]
  BY DEF WriteTrash, Done, At, MidMove
<1>2. history'.tangled = history.tangled /\ history'.loose = t
  <2> HIDE DEF t
  <2> QED
    BY <1>1 DEF Base, History
<1>3. ~history'.loose => ops[k].kind = "delete" /\ ~history.loose
  BY <1>1, <1>2
<1>4. ops[k].kind = "delete" =>
        \A x \in Customs(roles') : x \in Customs(roles) /\ roles'[x].position = roles[x].position
  BY TrashKeeps DEF Customs, Live
<1> HIDE DEF t
<1> QED
  BY <1>1, <1>2, <1>3, <1>4, LevelEnds

LEMMA WriteMemberLevel ==
  ASSUME Base, Sound, Level, NEW k \in Ops, WriteMember(k) PROVE Level'
<1>1. PICK o \in Op : o = ops[k] /\ Fits(o)
  BY AtWork DEF Base, WriteMember, At
<1>2. /\ o.stage = "write" /\ UNCHANGED <<owner, roles, overrides, history>>
      /\ ops[k] # None /\ ~MidMove(ops[k])
      /\ Goto(k, "flip") \/ Become(k, None)
  BY <1>1 DEF WriteMember, At, Done, MidMove
<1>3. Steady(o, [o EXCEPT !.stage = "flip"])
  BY <1>2, GotoSteady
<1> QED
  BY <1>1, <1>2, <1>3, LevelSteady DEF Goto

LEMMA FlipOwnerLevel ==
  ASSUME Base, Sound, Level, NEW k \in Ops, FlipOwner(k) PROVE Level'
BY LevelSteady DEF FlipOwner, At, Done, MidMove

LEMMA ReadMembersLevel ==
  ASSUME Base, Sound, Level, NEW k \in Ops, ReadMembers(k) PROVE Level'
<1>1. PICK o \in Op : o = ops[k] /\ Fits(o)
  BY AtWork DEF Base, ReadMembers, At
<1>2. /\ UNCHANGED <<tables, history>> /\ ops[k] # None /\ o.kind = "harddelete"
      /\ o.stage = "members" /\ ~MidMove(ops[k])
  BY <1>1 DEF ReadMembers, At, MidMove
<1>3. PICK order : Become(k, [o EXCEPT !.stage = "scrub",
          !.todo = [i \in DOMAIN order |-> <<order[i], held[order[i]] \ {Named(k)}>>]])
  BY <1>1 DEF ReadMembers
<1> DEFINE list == [i \in DOMAIN order |-> <<order[i], held[order[i]] \ {Named(k)}>>]
           new == [o EXCEPT !.stage = "scrub", !.todo = list]
<1>4. Become(k, new)
  BY <1>3
<1> HIDE DEF list
<1>5. Steady(o, new)
  BY <1>2 DEF Op, Steady
<1> HIDE DEF new
<1> QED
  BY <1>1, <1>2, <1>4, <1>5, LevelSteady DEF tables

LEMMA ScrubLevel ==
  ASSUME Base, Sound, Level, NEW k \in Ops, Scrub(k) PROVE Level'
<1>1. PICK o \in Op : o = ops[k] /\ Fits(o)
  BY AtWork DEF Base, Scrub, At
<1> DEFINE rest == Tail(o.todo)
           new == [o EXCEPT !.todo = rest]
<1>2. /\ o.stage = "scrub" /\ o.kind = "harddelete" /\ UNCHANGED <<roles, history>>
      /\ ops[k] # None /\ Become(k, new) /\ ~MidMove(ops[k])
  BY <1>1 DEF Scrub, At, MidMove
<1>3. Steady(o, new)
  <2> HIDE DEF rest
  <2> QED
    BY <1>2 DEF Op, Steady
<1> HIDE DEF new
<1> QED
  BY <1>1, <1>2, <1>3, LevelSteady

LEMMA DropRoleLevel ==
  ASSUME Base, Sound, Level, NEW k \in Ops, DropRole(k) PROVE Level'
<1>1. /\ roles' = Without(roles, Named(k)) /\ UNCHANGED history /\ Become(k, None)
      /\ ops[k] # None /\ ~MidMove(ops[k])
  BY DEF DropRole, At, Done, MidMove
<1>2. \A r \in Customs(roles') : r \in Customs(roles) /\ roles'[r].position = roles[r].position
  BY <1>1 DEF Without, Customs, Live
<1> QED
  BY <1>1, <1>2, LevelEnds

LEMMA WriteOverrideLevel ==
  ASSUME Base, Sound, Level, NEW k \in Ops, WriteOverride(k) PROVE Level'
<1>1. UNCHANGED <<roles, history>> /\ ops[k] # None /\ ~MidMove(ops[k])
  BY DEF WriteOverride, At, MidMove
<1>2. ~history.tangled => \A j \in Ops : ops'[j] = None
  <2>1. CASE Become(k, None)
    BY <1>1, <2>1, OnlyOne
  <2>2. CASE ~Become(k, None)
    BY <1>1, <2>2 DEF WriteOverride, Done, Sound
  <2> QED
    BY <2>1, <2>2
<1>3. Calm => Even(roles) /\ Unlike(roles)
  BY <1>1, AtRest
<1> QED
  BY <1>1, <1>2, <1>3 DEF Level, Calm

LEMMA ThrowLevel ==
  ASSUME Base, Sound, Level, NEW k \in Ops, Throw(k) PROVE Level'
<1> DEFINE t == history.loose \/ ops[k].kind \in {"swap", "reorder"}
<1>1. history' = [history EXCEPT !.loose = t] /\ UNCHANGED tables /\ Become(k, None) /\ ops[k] # None
  BY DEF Throw, Done
<1>2. history'.tangled = history.tangled /\ history'.loose = t /\ roles' = roles
  <2> HIDE DEF t
  <2> QED
    BY <1>1 DEF Base, History, tables
<1>3. CASE ops[k].kind \in {"swap", "reorder"}
  BY <1>2, <1>3 DEF Level, Calm
<1>4. CASE ops[k].kind \notin {"swap", "reorder"}
  BY <1>1, <1>2, <1>4, LevelSteady DEF MidMove
<1> QED
  BY <1>3, <1>4

LEMMA LevelSteps == ASSUME Base, Sound, Level, [Next]_vars PROVE Level'
<1>1. ASSUME NEW k \in Ops, NEW u \in Members, StartAny(k, u) PROVE Level'
  BY <1>1, StartsFresh, BeginsLevel
<1>2. ASSUME NEW k \in Ops, Work(k) PROVE Level'
  BY <1>2, ReadRoleLevel, ReadMemberLevel, ReadOverrideLevel, ListForCreateLevel,
     ListForTransferLevel, ListForReorderLevel, CheckRankLevel, MoveRoleLevel, CheckCapLevel,
     InsertLevel, WriteUpdateLevel, WriteTrashLevel, WriteMemberLevel, FlipOwnerLevel,
     ReadMembersLevel, ScrubLevel, DropRoleLevel, WriteOverrideLevel DEF Work
<1>3. ASSUME NEW k \in Ops, Throw(k) PROVE Level'
  BY <1>3, ThrowLevel
<1>4. CASE UNCHANGED vars
  BY <1>4 DEF vars, tables, Level, Calm, MidMove
<1> QED
  BY <1>1, <1>2, <1>3, <1>4 DEF Next

LEMMA LevelHolds == Spec => []Level
<1>1. Init => Level
  BY LevelInit
<1>2. Base /\ Sound /\ Level /\ [Next]_vars => Level'
  BY LevelSteps
<1> QED
  BY <1>1, <1>2, BaseHolds, SoundHolds, PTL DEF Spec

(* Roles have heights of their own, above that of Everyone, unless two     *)
(* requests overlapped, heights were left half moved, or a role came back  *)
(* from the trash or swapped its height with one in it: a creation moves   *)
(* roles up the highest first, so that none meets the next, and goes below *)
(* all; a reordering deals out the heights there were; the role of a       *)
(* former owner goes above all.                                            *)
THEOREM HeightsSafe == Spec => []OwnHeight
<1>1. Base /\ Level => OwnHeight
  <2> SUFFICES ASSUME Base, Level, ~history.tangled, ~history.loose
               PROVE  /\ \A r \in Custom : roles[r].position > 0
                      /\ (\A k \in Ops : ~At(k, {"swap", "reorder"}, "move")) => Apart(Custom)
    BY DEF OwnHeight
  <2>1. Custom = Customs(roles)
    BY DEF Custom, Customs
  <2>2. Even(roles) /\ ((\A k \in Ops : ~MidMove(ops[k])) => Unlike(roles))
    BY DEF Level, Calm
  <2>3. \A k \in Ops : At(k, {"swap", "reorder"}, "move") <=> MidMove(ops[k])
    BY DEF At, MidMove
  <2> QED
    BY <2>1, <2>2, <2>3 DEF Even, Unlike, Apart
<1> QED
  BY <1>1, BaseHolds, LevelHolds, PTL

-----------------------------------------------------------------------------
(* Above whom a member is.  The rank of a member who is not the owner is   *)
(* the greatest of the heights of their roles, or 0.                       *)
Top(rows, S) == Highest({0} \cup {rows[r].position : r \in S \cap Live(rows)})
Measured(rows) == \A r \in DOMAIN rows : rows[r].position \in 0..MaxPosition
Reached(n, rows, S) ==
  /\ n \in Nat
  /\ n = 0 \/ \E q \in S \cap Live(rows) : rows[q].position = n
  /\ \A q \in S \cap Live(rows) : rows[q].position \in Nat /\ rows[q].position <= n

LEMMA BaseMeasured == ASSUME Base PROVE Measured(roles)
BY DEF Base, Tables, Rights, Role, Measured

LEMMA TopReached ==
  ASSUME NEW rows, Measured(rows), NEW S PROVE Reached(Top(rows, S), rows, S)
<1> DEFINE H == {rows[r].position : r \in S \cap Live(rows)}
           P == {0} \cup H
<1>1. \A r \in S \cap Live(rows) : rows[r].position \in 0..MaxPosition
  BY DEF Measured, Live
<1>2. MaxPosition \in Nat
  BY RolesAssumption
<1>3. P \in SUBSET (0..MaxPosition) /\ P # {}
  BY <1>1, <1>2
<1>4. /\ \A p \in P : p = 0 \/ \E q \in S \cap Live(rows) : rows[q].position = p
      /\ \A q \in S \cap Live(rows) : rows[q].position \in P
  OBVIOUS
<1>5. Top(rows, S) = Highest(P)
  BY DEF Top
<1> HIDE DEF P, H
<1>6. Highest(P) \in P /\ \A m \in P : m <= Highest(P)
  BY <1>2, <1>3, HighestIs
<1>7. \A q \in S \cap Live(rows) : rows[q].position \in Nat
  BY <1>1, <1>2
<1>8. Highest(P) \in Nat
  <2>1. Highest(P) \in 0..MaxPosition
    BY <1>3, <1>6
  <2> QED
    BY <1>2, <2>1
<1> QED
  BY <1>4, <1>5, <1>6, <1>7, <1>8 DEF Reached

LEMMA OneReached ==
  ASSUME NEW rows, NEW S, NEW m, NEW n, Reached(m, rows, S), Reached(n, rows, S) PROVE m = n
<1>1. m \in Nat /\ n \in Nat
  BY DEF Reached
<1>2. m <= n
  BY <1>1 DEF Reached
<1>3. n <= m
  BY <1>1 DEF Reached
<1> QED
  BY <1>1, <1>2, <1>3

LEMMA RankIs == ASSUME NEW u, u # owner PROVE Rank(u) = Top(roles, held[u])
BY DEF Rank, Top

(* What is as high as n or higher is as it was, and held as it was.        *)
Untouched(n, rows, S, after, T) ==
  \A x : /\ (x \in Live(rows) /\ rows[x].position >= n)
              <=> (x \in Live(after) /\ after[x].position >= n)
         /\ x \in Live(rows) /\ rows[x].position >= n =>
              after[x].position = rows[x].position /\ (x \in S <=> x \in T)

LEMMA UntouchedTop ==
  ASSUME NEW rows, NEW S, NEW after, NEW T, Measured(rows), Measured(after),
         Top(rows, S) > 0, Untouched(Top(rows, S), rows, S, after, T)
  PROVE  Top(after, T) = Top(rows, S)
<1> DEFINE n == Top(rows, S)
<1>1. Reached(n, rows, S) /\ n > 0
  BY TopReached
<1>2. Untouched(n, rows, S, after, T)
  OBVIOUS
<1>3. \A x \in Live(after) : after[x].position \in Nat
  <2>1. \A x \in Live(after) : after[x].position \in 0..MaxPosition
    BY DEF Measured, Live
  <2> QED
    BY <2>1, RolesAssumption
<1> HIDE DEF n
<1>4. n \in Nat
  BY <1>1 DEF Reached
<1>5. \E q \in T \cap Live(after) : after[q].position = n
  <2>1. PICK q \in S \cap Live(rows) : rows[q].position = n
    BY <1>1, <1>4 DEF Reached
  <2>2. rows[q].position >= n
    BY <1>4, <2>1
  <2> QED
    BY <1>2, <2>1, <2>2 DEF Untouched
<1>6. ASSUME NEW q \in T \cap Live(after) PROVE after[q].position <= n
  <2> SUFFICES ASSUME ~(after[q].position <= n) PROVE FALSE
    OBVIOUS
  <2>1. after[q].position \in Nat
    BY <1>3
  <2>2. after[q].position >= n
    BY <1>4, <2>1
  <2>3. q \in Live(rows) /\ rows[q].position >= n
    BY <1>2, <2>2 DEF Untouched
  <2>4. after[q].position = rows[q].position /\ q \in S
    BY <1>2, <2>3 DEF Untouched
  <2>5. rows[q].position <= n
    BY <1>1, <2>3, <2>4 DEF Reached
  <2> QED
    BY <2>4, <2>5
<1>7. Reached(n, after, T)
  BY <1>3, <1>4, <1>5, <1>6 DEF Reached
<1> QED
  BY <1>7, TopReached, OneReached DEF n

LEMMA UntouchedAbove ==
  ASSUME Base, Base', NEW u, u # owner, UNCHANGED owner, Rank(u) > 0,
         Untouched(Rank(u), roles, held[u], roles', held'[u])
  PROVE  Above(u)' = Above(u)
<1>1. Rank(u) = Top(roles, held[u]) /\ Rank(u)' = Top(roles', held'[u])
  BY DEF Rank, Top
<1>2. Measured(roles) /\ Measured(roles')
  BY DEF Base, Tables, Rights, Role, Measured
<1>3. Rank(u)' = Rank(u)
  BY <1>1, <1>2, UntouchedTop
<1>4. \A x : (x \in Live(roles) /\ roles[x].position >= Rank(u))
               <=> (x \in Live(roles') /\ roles'[x].position >= Rank(u))
  BY DEF Untouched
<1> QED
  BY <1>3, <1>4 DEF Above, Custom

(* What a request that is alone knows of whoever is above.                 *)
Touching == {"delete", "restore", "assign", "unassign"}
Beneath(o, own, rows, ids) ==
  /\ o.kind = "transfer" => o.user = own
  /\ o.kind \in {"assign", "unassign"} /\ o.stage \in {"role", "rank", "write"} =>
       o.mine = ids[o.whom]
  /\ o.kind \in Touching /\ o.stage = "rank" => Len(o.read) > 0
  /\ o.kind = "harddelete" /\ o.stage # "role" => Head(o.roles) \notin Live(rows)
  /\ o.kind = "harddelete" /\ o.stage = "scrub" =>
       \A i \in 1..Len(o.todo) : o.todo[i][2] = ids[o.todo[i][1]] \ {Head(o.roles)}
  /\ o.user # own =>
       /\ o.kind \in Touching /\ o.stage = "write" =>
            \/ Head(o.roles) \notin DOMAIN rows
            \/ rows[Head(o.roles)].position < Top(rows, ids[o.user])
       /\ o.kind \in {"swap", "reorder"} /\ o.stage = "move" =>
            \A i \in 1..Len(o.todo) : /\ o.todo[i][2] < Top(rows, ids[o.user])
                                      /\ rows[o.todo[i][1]].position < Top(rows, ids[o.user])

Grounded(rows, used) ==
  rows[Everyone].position = 0 /\ DOMAIN rows \subseteq used \cup {Everyone}

Lower ==
  Calm => /\ Grounded(roles, history.used)
          /\ \A k \in Ops : ops[k] # None => Beneath(ops[k], owner, roles, held)

LEMMA LowerInit == Init => Lower
BY DEF Init, Lower, Grounded

LEMMA LowerStep ==
  ASSUME Base, Sound, Lower, NEW k \in Ops, ops[k] # None, NEW r, Become(k, r),
         history'.tangled = history.tangled, ~history'.loose => ~history.loose,
         Calm /\ ~history'.loose => /\ Grounded(roles', history'.used)
                                    /\ r = None \/ Beneath(r, owner', roles', held')
  PROVE  Lower'
<1> SUFFICES ASSUME Calm, ~history'.loose
             PROVE  /\ Grounded(roles', history'.used)
                    /\ \A j \in Ops : ops'[j] # None => Beneath(ops'[j], owner', roles', held')
  BY DEF Lower, Calm
<1>1. \A j \in Ops : ops'[j] # None => j = k /\ ops'[j] = r
  BY OnlyOne DEF Calm
<1> QED
  BY <1>1

(* A step that reads.                                                      *)
LEMMA LowerReads ==
  ASSUME Base, Sound, Lower, NEW k \in Ops, ops[k] # None, NEW r, Become(k, r),
         UNCHANGED <<tables, history>>,
         Calm /\ Beneath(ops[k], owner, roles, held) => r = None \/ Beneath(r, owner, roles, held)
  PROVE  Lower'
<1>1. UNCHANGED <<owner, roles, held, history>>
  BY DEF tables
<1>2. Calm => Grounded(roles, history.used) /\ Beneath(ops[k], owner, roles, held)
  BY DEF Lower
<1> QED
  BY <1>1, <1>2, LowerStep

LEMMA LowerEnds ==
  ASSUME Base, Sound, Lower, NEW k \in Ops, ops[k] # None, Become(k, None),
         history'.tangled = history.tangled, ~history'.loose => ~history.loose,
         Calm /\ ~history'.loose /\ Grounded(roles, history.used)
           => Grounded(roles', history'.used)
  PROVE  Lower'
<1>1. Calm => Grounded(roles, history.used)
  BY DEF Lower
<1> QED
  BY <1>1, LowerStep

(* Requests of which nothing need be known here.                           *)
LEMMA FreeBeneath ==
  ASSUME NEW o, o.kind \in {"create", "update", "upsert", "remove"}, NEW own, NEW rows, NEW ids
  PROVE  Beneath(o, own, rows, ids)
BY DEF Beneath, Touching

LEMMA TransferBeneath ==
  ASSUME NEW o, o.kind = "transfer", NEW own, o.user = own, NEW rows, NEW ids
  PROVE  Beneath(o, own, rows, ids)
BY DEF Beneath, Touching

LEMMA BeginsLower ==
  ASSUME Base, Sound, Lower, NEW k \in Ops, NEW r, Begins(k, r) PROVE Lower'
<1> DEFINE t == history.tangled \/ \E j \in Ops : ops[j] # None
<1>1. /\ UNCHANGED tables /\ Become(k, r) /\ ops[k] = None
      /\ history' = [history EXCEPT !.made = history.made + 1, !.tangled = t]
  BY DEF Begins
<1>2. /\ history'.tangled = t /\ history'.loose = history.loose
      /\ history'.used = history.used
  <2> HIDE DEF t
  <2> QED
    BY <1>1 DEF Base, History
<1> SUFFICES ASSUME ~t, ~history.loose PROVE Lower'
  BY <1>2 DEF Lower, Calm
<1>3. \A j \in Ops : ops'[j] = IF j = k THEN r ELSE None
  BY <1>1 DEF Base, Requests, Become
<1>4. /\ r.stage \in {"list", "role", "member", "override", "rank"}
      /\ r.kind = "transfer" => r.user = owner
      /\ r.kind \in {"assign", "unassign"} => r.stage = "member"
      /\ r.kind \in {"update", "delete", "restore", "harddelete"} => r.stage = "role"
  BY DEF Begins, Fresh, Op, Kinds, RoleOps, Guarded
<1>5. Beneath(r, owner, roles, held)
  BY <1>4 DEF Beneath, Touching
<1>6. Grounded(roles, history.used)
  BY DEF Lower, Calm
<1> QED
  BY <1>1, <1>2, <1>3, <1>5, <1>6 DEF Lower, tables

LEMMA ReadRoleLower ==
  ASSUME Base, Sound, Lower, NEW k \in Ops, ReadRole(k) PROVE Lower'
<1>1. PICK o \in Op : o = ops[k] /\ Fits(o)
  BY AtWork DEF Base, ReadRole, At
<1> DEFINE n == Len(o.read)
           r == o.roles[n + 1]
           to == IF n + 1 < Len(o.roles) THEN "role" ELSE "rank"
           rows == Append(o.read, roles[r])
           past == [o EXCEPT !.stage = "write"]
           new == [o EXCEPT !.read = rows, !.stage = to]
<1>2. UNCHANGED <<tables, history>> /\ ops[k] # None /\ o.stage = "role"
  BY <1>1 DEF ReadRole, At
<1>3. \/ o.kind = "unassign" /\ r \notin DOMAIN roles /\ Become(k, past)
      \/ Become(k, None)
      \/ r \in DOMAIN roles /\ Acceptable(o.kind, r) /\ Become(k, new)
  BY <1>1 DEF ReadRole, Goto, Done
<1>4. n \in Nat /\ Len(rows) = n + 1
  <2>1. o.read \in Seq(Role)
    BY DEF Op
  <2> QED
    BY <2>1
<1>5. o.kind \in OfOneRole => r = Head(o.roles)
  <2> SUFFICES ASSUME o.kind \in OfOneRole PROVE r = Head(o.roles)
    OBVIOUS
  <2>1. Len(o.roles) = 1 /\ n < Len(o.roles)
    BY <1>1, <1>2 DEF Fits
  <2>2. Head(o.roles) = o.roles[1] /\ n = 0
    BY <1>4, <2>1, NamedIs
  <2> HIDE DEF n
  <2> QED
    BY <2>2
<1>6. /\ past.kind = o.kind /\ past.user = o.user /\ past.roles = o.roles /\ past.mine = o.mine
      /\ past.whom = o.whom /\ past.stage = "write"
  BY DEF Op
<1>7. /\ new.kind = o.kind /\ new.user = o.user /\ new.roles = o.roles /\ new.mine = o.mine
      /\ new.whom = o.whom /\ new.stage = to /\ new.read = rows
  <2> HIDE DEF rows, to
  <2> QED
    BY DEF Op
<1>8. to \in {"role", "rank"}
  OBVIOUS
<1> HIDE DEF past, new, rows, to, r, n
<1>9. CASE o.kind = "unassign" /\ r \notin DOMAIN roles /\ Become(k, past)
  <2>1. Head(o.roles) \notin DOMAIN roles
    BY <1>5, <1>9 DEF OfOneRole
  <2>2. Beneath(o, owner, roles, held) => Beneath(past, owner, roles, held)
    BY <1>2, <1>6, <1>9, <2>1 DEF Beneath
  <2> QED
    BY <1>1, <1>2, <1>9, <2>2, LowerReads
<1>10. CASE Become(k, None)
  BY <1>2, <1>10, LowerReads
<1>11. CASE r \in DOMAIN roles /\ Acceptable(o.kind, r) /\ Become(k, new)
  <2>1. o.kind = "harddelete" => Head(o.roles) \notin Live(roles)
    BY <1>5, <1>11 DEF OfOneRole, Acceptable, Live
  <2>2. Len(new.read) > 0
    BY <1>4, <1>7
  <2>3. new.kind # "transfer"
    BY <1>1, <1>2, <1>7 DEF Fits
  <2>4. Beneath(o, owner, roles, held) => Beneath(new, owner, roles, held)
    BY <1>2, <1>7, <1>8, <2>1, <2>2, <2>3 DEF Beneath
  <2> QED
    BY <1>1, <1>2, <1>11, <2>4, LowerReads
<1> QED
  BY <1>3, <1>9, <1>10, <1>11

LEMMA ReadMemberLower ==
  ASSUME Base, Sound, Lower, NEW k \in Ops, ReadMember(k) PROVE Lower'
<1>1. PICK o \in Op : o = ops[k] /\ Fits(o)
  BY AtWork DEF Base, ReadMember, At
<1>2. /\ o.kind \in {"assign", "unassign", "transfer"} /\ o.stage = "member"
      /\ UNCHANGED <<tables, history>> /\ ops[k] # None
  BY <1>1 DEF ReadMember, At
<1> DEFINE ids == held[IF o.kind = "transfer" THEN o.user ELSE o.whom]
           to == IF o.kind = "transfer" THEN "write" ELSE "role"
           new == [o EXCEPT !.mine = ids, !.stage = to]
<1>3. Become(k, None) \/ Become(k, new)
  BY <1>1 DEF ReadMember, Done
<1>4. o.kind # "transfer" => ids = held[o.whom] /\ to = "role"
  OBVIOUS
<1> HIDE DEF ids, to
<1>5. /\ new.kind = o.kind /\ new.user = o.user /\ new.roles = o.roles /\ new.mine = ids
      /\ new.whom = o.whom /\ new.stage = to
  BY DEF Op
<1> HIDE DEF new
<1>6. Beneath(o, owner, roles, held) => Beneath(new, owner, roles, held)
  BY <1>2, <1>4, <1>5 DEF Beneath, Touching
<1> QED
  BY <1>1, <1>2, <1>3, <1>6, LowerReads

LEMMA ReadOverrideLower ==
  ASSUME Base, Sound, Lower, NEW k \in Ops, ReadOverride(k) PROVE Lower'
<1>1. PICK o \in Op : o = ops[k] /\ Fits(o)
  BY AtWork DEF Base, ReadOverride, At
<1>2. o.kind = "remove" /\ UNCHANGED <<tables, history>> /\ ops[k] # None
  BY <1>1 DEF ReadOverride, At
<1> DEFINE to == IF o.roles = <<>> THEN "rank" ELSE "role"
           new == [o EXCEPT !.row = "there", !.stage = to]
<1>3. Become(k, None) \/ Become(k, new)
  BY <1>1 DEF ReadOverride, Done
<1>4. new.kind = "remove"
  BY <1>2 DEF Op
<1> HIDE DEF new
<1> QED
  BY <1>2, <1>3, <1>4, FreeBeneath, LowerReads

LEMMA ListForCreateLower ==
  ASSUME Base, Sound, Lower, NEW k \in Ops, ListForCreate(k) PROVE Lower'
<1>1. PICK o \in Op : o = ops[k] /\ Fits(o)
  BY AtWork DEF Base, ListForCreate, At
<1>2. o.kind = "create" /\ UNCHANGED <<tables, history>> /\ ops[k] # None
  BY <1>1 DEF ListForCreate, At
<1>3. PICK new : Become(k, new) /\ (NoRoles(o, new) \/ RoomBelow(o, new) \/ AllMoveUp(o, new))
  BY <1>1, CreationFinds
<1>4. new.kind = "create"
  BY <1>2, <1>3 DEF NoRoles, RoomBelow, AllMoveUp, Op
<1> QED
  BY <1>2, <1>3, <1>4, FreeBeneath, LowerReads

LEMMA ListForTransferLower ==
  ASSUME Base, Sound, Lower, NEW k \in Ops, ListForTransfer(k) PROVE Lower'
<1>1. PICK o \in Op : o = ops[k] /\ Fits(o)
  BY AtWork DEF Base, ListForTransfer, At
<1>2. o.kind = "transfer" /\ UNCHANGED <<tables, history>> /\ ops[k] # None
  BY <1>1 DEF ListForTransfer, At
<1> DEFINE top == Highest({roles[r].position : r \in DOMAIN roles}) + 1
           new == [o EXCEPT !.height = top, !.stage = "insert"]
<1>3. Become(k, new)
  BY <1>1 DEF ListForTransfer
<1> HIDE DEF top
<1>4. new.kind = "transfer" /\ new.user = o.user
  BY <1>2 DEF Op
<1> HIDE DEF new
<1>5. Beneath(o, owner, roles, held) => Beneath(new, owner, roles, held)
  BY <1>2, <1>4, TransferBeneath DEF Beneath
<1> QED
  BY <1>1, <1>2, <1>3, <1>5, LowerReads

LEMMA ListForReorderLower ==
  ASSUME Base, Sound, Lower, NEW k \in Ops, ListForReorder(k) PROVE Lower'
<1>1. PICK o \in Op : o = ops[k] /\ Fits(o)
  BY AtWork DEF Base, ListForReorder, At
<1>2. o.kind = "reorder" /\ UNCHANGED <<tables, history>> /\ ops[k] # None
  BY <1>1 DEF ListForReorder, At
<1> DEFINE named == o.roles
           rows == [i \in DOMAIN named |-> roles[named[i]]]
           new == [o EXCEPT !.stage = "rank", !.read = rows]
<1>3. Become(k, None) \/ Become(k, new)
  BY <1>1 DEF ListForReorder, Done
<1> HIDE DEF rows
<1>4. new.kind = "reorder" /\ new.stage = "rank"
  BY <1>2 DEF Op
<1> HIDE DEF new
<1>5. Beneath(new, owner, roles, held)
  BY <1>4 DEF Beneath, Touching
<1> QED
  BY <1>2, <1>3, <1>5, LowerReads

(* Whoever does not own the server acts on lower roles only.               *)
LEMMA LowerRead ==
  ASSUME Base, NEW k \in Ops, NEW o \in Op, o = ops[k], Fits(o), Outranks(k), o.user # owner
  PROVE  \A i \in 1..Len(o.read) : o.read[i].position < Top(roles, held[o.user])
<1>1. Rank(o.user) = Top(roles, held[o.user])
  BY RankIs
<1>2. DOMAIN o.read = 1..Len(o.read) /\ Len(o.read) \in Nat
  BY DEF Op
<1>3. o.roles = <<>> => Len(o.read) <= 0
  BY EmptySequences DEF Fits
<1>4. o.roles # <<>> => \A i \in 1..Len(o.read) : Rank(o.user) > o.read[i].position
  BY <1>2 DEF Outranks, Actor
<1>5. o.roles = <<>> => \A i \in 1..Len(o.read) : FALSE
  BY <1>2, <1>3
<1>6. \A i \in 1..Len(o.read) : o.read[i].position \in Nat
  <2>1. \A i \in 1..Len(o.read) : o.read[i] \in Role
    BY <1>2, ElementOfSeq DEF Op
  <2> QED
    BY <2>1, RolesAssumption DEF Role
<1>7. Rank(o.user) \in Nat
  BY <1>1, BaseMeasured, TopReached DEF Reached
<1> QED
  BY <1>1, <1>4, <1>5, <1>6, <1>7

Same(o, r) ==
  r.kind = o.kind /\ r.user = o.user /\ r.roles = o.roles /\ r.mine = o.mine /\ r.whom = o.whom

LEMMA GotoSame ==
  ASSUME NEW o \in Op, NEW s, NEW r, r = [o EXCEPT !.stage = s]
  PROVE  Same(o, r) /\ r.stage = s /\ r.read = o.read /\ r.todo = o.todo
BY DEF Op, Same

(* What it is going to move, and where to, is lower than whoever moves it. *)
LEMMA LowerMoves ==
  ASSUME Base, NEW k \in Ops, NEW o \in Op, o = ops[k], Fits(o), Outranks(k), o.user # owner,
         o.stage = "rank", Placed(o, roles)
  PROVE  \A n \in 1..Len(Moves(k)) :
           /\ Moves(k)[n][2] < Top(roles, held[o.user])
           /\ roles[Moves(k)[n][1]].position < Top(roles, held[o.user])
<1> DEFINE m == Len(o.read)
           h == Top(roles, held[o.user])
           t == InTurn(o)
           dealt == Dealt(o)
           was == Was(o)
           c == o.roles
           todo == Moves(k)
<1>1. \A i \in 1..m : o.read[i].position < h
  BY LowerRead
<1>2. \A i \in 1..m : was[i] = o.read[i].position
  BY FirstSorts
<1>3. \A i \in 1..m : o.read[i] = roles[c[i]]
  BY DEF Placed
<1>4. \A i \in 1..m : \E j \in 1..m : dealt[i] = was[j]
  BY DealtWas, Zenon
<1>5. \A n \in 1..Len(todo) : t[n] \in MovedBy(o) /\ todo[n] = <<c[t[n]], dealt[t[n]]>>
  BY MovesDeal DEF Deals, Fits
<1>6. \A i \in MovedBy(o) : i \in 1..m
  BY DEF MovedBy
<1> HIDE DEF m, h, t, dealt, was, c, todo
<1>7. \A n \in 1..Len(todo) : todo[n][2] < h /\ roles[todo[n][1]].position < h
  <2> SUFFICES ASSUME NEW n \in 1..Len(todo)
               PROVE  todo[n][2] < h /\ roles[todo[n][1]].position < h
    OBVIOUS
  <2>1. todo[n][1] = c[t[n]] /\ todo[n][2] = dealt[t[n]] /\ t[n] \in 1..m
    BY <1>5, <1>6
  <2>2. PICK j \in 1..m : dealt[t[n]] = was[j]
    BY <1>4, <2>1
  <2> QED
    BY <1>1, <1>2, <1>3, <2>1, <2>2
<1> QED
  BY <1>7 DEF todo, h

LEMMA CheckRankLower ==
  ASSUME Base, Sound, Level, Lower, NEW k \in Ops, CheckRank(k) PROVE Lower'
<1>1. PICK o \in Op : o = ops[k] /\ Fits(o)
  BY AtWork DEF Base, CheckRank, At
<1> DEFINE t == history.loose \/ Muddles(k)
           todo == Moves(k)
           new == [o EXCEPT !.stage = "move", !.todo = todo]
           away == [o EXCEPT !.stage = "members"]
           past == [o EXCEPT !.stage = "write"]
           cap == [o EXCEPT !.stage = "cap"]
           top == Top(roles, held[o.user])
<1>2. /\ o.stage = "rank" /\ UNCHANGED tables /\ ops[k] # None
      /\ history' = [history EXCEPT !.loose = t]
  BY <1>1 DEF CheckRank, At
<1>3. /\ history'.tangled = history.tangled /\ history'.loose = t
      /\ history'.used = history.used /\ UNCHANGED <<owner, roles, held>>
  <2> HIDE DEF t
  <2> QED
    BY <1>2 DEF Base, History, tables
<1>4. ~history'.loose => ~history.loose
  BY <1>3
<1>5. \/ Become(k, None)
      \/ o.kind \in {"update", "upsert"} /\ Become(k, cap)
      \/ o.kind \in {"swap", "reorder"} /\ Outranks(k) /\ Become(k, new)
      \/ o.kind = "harddelete" /\ Become(k, away)
      \/ /\ o.kind \notin {"update", "upsert", "swap", "reorder", "harddelete"}
         /\ Outranks(k) /\ Become(k, past)
  BY <1>1 DEF CheckRank, Done, Goto
<1>6. Calm => /\ Placed(o, roles) /\ Grounded(roles, history.used)
              /\ Beneath(o, owner, roles, held)
  BY <1>1, <1>2, AtRest DEF Lower
<1>7. Same(o, new) /\ new.stage = "move" /\ new.todo = todo
  <2> HIDE DEF todo
  <2> QED
    BY DEF Op, Same
<1>8. /\ Same(o, away) /\ away.stage = "members"
      /\ Same(o, past) /\ past.stage = "write"
      /\ Same(o, cap)
  BY GotoSame
<1>9. o.kind \notin {"create", "transfer"}
  BY <1>1, <1>2 DEF Fits
<1>10. Outranks(k) /\ o.user # owner =>
         \A i \in 1..Len(o.read) : o.read[i].position < top
  BY <1>1, LowerRead
<1>11. Outranks(k) /\ o.user # owner /\ Placed(o, roles) =>
         \A n \in 1..Len(todo) : todo[n][2] < top /\ roles[todo[n][1]].position < top
  BY <1>1, <1>2, LowerMoves
<1> HIDE DEF new, away, past, cap, todo
<1>12. CASE Become(k, None)
  BY <1>2, <1>3, <1>4, <1>6, <1>12, LowerStep
<1>13. CASE o.kind \in {"update", "upsert"} /\ Become(k, cap)
  <2>1. Beneath(cap, owner', roles', held')
    BY <1>8, <1>13, FreeBeneath DEF Same
  <2> HIDE DEF t
  <2> QED
    BY <1>2, <1>3, <1>4, <1>6, <1>13, <2>1, LowerStep
<1>14. CASE o.kind \in {"swap", "reorder"} /\ Outranks(k) /\ Become(k, new)
  <2>1. ASSUME Calm PROVE Beneath(new, owner, roles, held)
    BY <1>6, <1>7, <1>11, <1>14, <2>1 DEF Beneath, Touching, Same
  <2> HIDE DEF t, top
  <2> QED
    BY <1>2, <1>3, <1>4, <1>6, <1>14, <2>1, LowerStep
<1>15. CASE o.kind = "harddelete" /\ Become(k, away)
  <2>1. ASSUME Calm PROVE Beneath(away, owner, roles, held)
    BY <1>2, <1>6, <1>8, <1>15, <2>1 DEF Beneath, Touching, Same
  <2> HIDE DEF t, top
  <2> QED
    BY <1>2, <1>3, <1>4, <1>6, <1>15, <2>1, LowerStep
<1>16. CASE /\ o.kind \notin {"update", "upsert", "swap", "reorder", "harddelete"}
            /\ Outranks(k) /\ Become(k, past)
  <2>1. ASSUME Calm, o.kind \in Touching, o.user # owner PROVE roles[Head(o.roles)].position < top
    <3>1. Len(o.read) > 0 /\ Len(o.read) \in Nat
      BY <1>2, <1>6, <2>1 DEF Beneath, Op
    <3>2. 1 \in 1..Len(o.read)
      BY <3>1
    <3>3. Head(o.roles) = o.roles[1]
      BY <1>1, <2>1, NamedIs DEF Fits, OfOneRole, Touching
    <3>4. o.read[1] = roles[o.roles[1]]
      BY <1>2, <1>6, <2>1, <3>2 DEF Placed
    <3> QED
      BY <1>10, <1>16, <2>1, <3>2, <3>3, <3>4
  <2>2. ASSUME Calm PROVE Beneath(past, owner, roles, held)
    BY <1>2, <1>6, <1>8, <1>9, <1>16, <2>1, <2>2 DEF Beneath, Same
  <2> HIDE DEF t, top
  <2> QED
    BY <1>2, <1>3, <1>4, <1>6, <1>16, <2>2, LowerStep
<1> QED
  BY <1>5, <1>12, <1>13, <1>14, <1>15, <1>16

(* One role moves, from below a height to below it.                        *)
LEMMA LiftsBeneath ==
  ASSUME NEW rows, NEW r, NEW h, NEW after, Lifts(rows, r, h, after), NEW n \in Nat,
         rows[r].position < n, h < n, NEW S
  PROVE  Untouched(n, rows, S, after, S)
<1>1. /\ r \in DOMAIN rows /\ h \in Nat /\ DOMAIN after = DOMAIN rows
      /\ \A x \in DOMAIN rows : /\ after[x].deleted = rows[x].deleted
                                /\ after[x].position = IF x = r THEN h ELSE rows[x].position
                                /\ rows[x].position \in Nat
  BY DEF Lifts, Customs, Live
<1>2. \A x : x \in Live(rows) <=> x \in Live(after)
  BY <1>1 DEF Live
<1>3. \A x \in Live(rows) : x \in DOMAIN rows
  BY DEF Live
<1>4. \A x \in Live(rows) :
        /\ rows[x].position >= n <=> after[x].position >= n
        /\ rows[x].position >= n => after[x].position = rows[x].position
  <2> SUFFICES ASSUME NEW x \in Live(rows)
               PROVE  /\ rows[x].position >= n <=> after[x].position >= n
                      /\ rows[x].position >= n => after[x].position = rows[x].position
    OBVIOUS
  <2>1. x \in DOMAIN rows
    BY <1>3
  <2>2. CASE x = r
    BY <1>1, <2>1, <2>2
  <2>3. CASE x # r
    BY <1>1, <2>1, <2>3
  <2> QED
    BY <2>2, <2>3
<1> QED
  BY <1>2, <1>4 DEF Untouched

LEMMA LiftsGrounded ==
  ASSUME NEW rows, NEW r, NEW h, NEW after, Lifts(rows, r, h, after), Everyone \in DOMAIN rows,
         NEW used, Grounded(rows, used)
  PROVE  Grounded(after, used)
BY DEF Lifts, Customs, Grounded

LEMMA MoveRoleLower ==
  ASSUME Base, Sound, Level, Lower, NEW k \in Ops, MoveRole(k) PROVE Lower'
<1>1. PICK o \in Op : o = ops[k] /\ Fits(o)
  BY AtWork DEF Base, MoveRole, At
<1>2. /\ o.stage = "move" /\ o.kind \in {"create", "swap", "reorder"} /\ ops[k] # None
      /\ UNCHANGED <<owner, held, overrides, history>>
  BY <1>1 DEF MoveRole, At
<1> DEFINE todo == o.todo
           rest == Tail(todo)
           none == <<>>
           r == Head(todo)[1]
           h == Head(todo)[2]
           top == Top(roles, held[o.user])
           onward == [o EXCEPT !.todo = rest]
           through == [o EXCEPT !.todo = none, !.stage = "cap"]
<1>3. todo \in Seq(Moving) /\ todo # <<>>
  BY <1>1, <1>2 DEF Fits
<1>4. \/ Become(k, onward)
      \/ o.kind = "create" /\ Become(k, through)
      \/ Become(k, None)
  BY <1>1 DEF MoveRole, Done
<1>5. Same(o, onward) /\ onward.stage = "move" /\ onward.todo = rest
  <2> HIDE DEF rest
  <2> QED
    BY <1>2 DEF Op, Same
<1>6. through.kind = o.kind
  <2> HIDE DEF none
  <2> QED
    BY DEF Op
<1>7. /\ Head(todo) = todo[1] /\ 1 \in 1..Len(todo) /\ Len(todo) \in Nat
      /\ Len(rest) = Len(todo) - 1
      /\ \A i \in 1..Len(todo) - 1 : rest[i] = todo[i + 1]
  <2> HIDE DEF todo
  <2> QED
    BY <1>3, NextTodo DEF rest
<1> HIDE DEF onward, through, none, rest
<1>8. ASSUME Calm PROVE Lifts(roles, r, h, roles')
  BY <1>1, <1>8, MoveLifts
<1>9. Calm => Grounded(roles, history.used) /\ Beneath(o, owner, roles, held)
  BY <1>1, <1>2 DEF Lower
<1>10. Calm => Grounded(roles', history.used)
  BY <1>8, <1>9, LiftsGrounded DEF Base, Tables
<1>11. ASSUME Calm, o.kind # "create", o.user # owner
       PROVE  \A i \in 1..Len(rest) : /\ rest[i][2] < Top(roles', held[o.user])
                                      /\ roles'[rest[i][1]].position < Top(roles', held[o.user])
  <2>1. \A i \in 1..Len(todo) : todo[i][2] < top /\ roles[todo[i][1]].position < top
    BY <1>2, <1>9, <1>11 DEF Beneath
  <2>2. Measured(roles) /\ Measured(roles')
    BY BaseMeasured, MoveRoleBase DEF Base, Tables, Rights, Role, Measured
  <2>3. top \in Nat
    BY <2>2, TopReached DEF Reached
  <2>4. h < top /\ roles[r].position < top
    BY <1>7, <2>1
  <2>5. Untouched(top, roles, held[o.user], roles', held[o.user])
    BY <1>8, <1>11, <2>3, <2>4, LiftsBeneath
  <2>6. h \in Nat
    BY <1>8, <1>11 DEF Lifts
  <2>7. top > 0
    <3> HIDE DEF top, h
    <3> QED
      BY <2>3, <2>4, <2>6
  <2>8. Top(roles', held[o.user]) = top
    BY <2>2, <2>5, <2>7, UntouchedTop
  <2>9. \A i \in 1..Len(rest) : i + 1 \in 1..Len(todo) /\ rest[i] = todo[i + 1]
    BY <1>7
  <2>10. \A i \in 1..Len(todo) : todo[i][1] \in DOMAIN roles
    <3>1. Settling(todo, roles)
      BY <1>1, <1>2, <1>11, AtRest DEF Placed
    <3> QED
      BY <3>1 DEF Settling, Customs, Live
  <2>11. \A x \in DOMAIN roles : roles'[x].position = IF x = r THEN h ELSE roles[x].position
    BY <1>8, <1>11 DEF Lifts
  <2> HIDE DEF top, h, r, todo
  <2> QED
    BY <2>1, <2>4, <2>8, <2>9, <2>10, <2>11
<1>12. Calm /\ o.kind # "create" => Beneath(onward, owner, roles', held)
  BY <1>2, <1>5, <1>11 DEF Beneath, Touching, Same
<1>13. o.kind = "create" => /\ Beneath(onward, owner, roles', held)
                            /\ Beneath(through, owner, roles', held)
  BY <1>5, <1>6, FreeBeneath DEF Same
<1> HIDE DEF todo, r, h, top
<1>14. CASE Become(k, onward)
  BY <1>2, <1>10, <1>12, <1>13, <1>14, LowerStep
<1>15. CASE o.kind = "create" /\ Become(k, through)
  BY <1>2, <1>10, <1>13, <1>15, LowerStep
<1>16. CASE Become(k, None)
  BY <1>2, <1>10, <1>16, LowerStep
<1> QED
  BY <1>4, <1>14, <1>15, <1>16

LEMMA CheckCapLower ==
  ASSUME Base, Sound, Lower, NEW k \in Ops, CheckCap(k) PROVE Lower'
<1>1. PICK o \in Op : o = ops[k] /\ Fits(o)
  BY AtWork DEF Base, CheckCap, At
<1> DEFINE g == IF Actor(k) = owner THEN history.granted \cup ops[k].mask.allow ELSE history.granted
           found == IF OverrideOf(ops[k]) \in DOMAIN overrides THEN "there" ELSE "absent"
           in == [o EXCEPT !.stage = "insert"]
           past == [o EXCEPT !.stage = "write"]
           new == [o EXCEPT !.stage = "write", !.row = found]
<1>2. /\ o.kind \in {"create", "update", "upsert"}
      /\ UNCHANGED tables /\ ops[k] # None
      /\ history' = [history EXCEPT !.granted = g]
  BY <1>1 DEF CheckCap, At
<1>3. /\ history'.tangled = history.tangled /\ history'.loose = history.loose
      /\ history'.used = history.used /\ UNCHANGED <<owner, roles, held>>
  <2> HIDE DEF g
  <2> QED
    BY <1>2 DEF Base, History, tables
<1>4. Become(k, None) \/ Become(k, in) \/ Become(k, past) \/ Become(k, new)
  BY <1>1 DEF CheckCap, Done, Goto
<1>5. in.kind = o.kind /\ past.kind = o.kind /\ new.kind = o.kind
  <2> HIDE DEF found
  <2> QED
    BY DEF Op
<1> HIDE DEF in, past, new, g, found
<1>6. Beneath(in, owner, roles, held) /\ Beneath(past, owner, roles, held) /\ Beneath(new, owner, roles, held)
  BY <1>2, <1>5, FreeBeneath
<1>7. Calm => Grounded(roles, history.used)
  BY DEF Lower
<1> QED
  BY <1>2, <1>3, <1>4, <1>6, <1>7, LowerStep

LEMMA InsertLower ==
  ASSUME Base, Sound, Lower, NEW k \in Ops, Insert(k) PROVE Lower'
<1>1. PICK o \in Op : o = ops[k] /\ Fits(o)
  BY AtWork DEF Base, Insert, At
<1>2. o.stage = "insert" /\ o.kind \in {"create", "transfer"} /\ ops[k] # None /\ UNCHANGED owner
  BY <1>1 DEF Insert, At
<1> DEFINE allow == IF o.kind = "create" THEN o.mask.allow ELSE {Admin}
           deny == o.mask.deny
           row == [position |-> o.height, deleted |-> FALSE, allow |-> allow, deny |-> deny]
           g == IF o.kind = "create" THEN history.granted ELSE history.granted \cup {Admin}
<1>3. PICK r \in RoleIds \ history.used :
        /\ roles' = Put(roles, r, row)
        /\ \/ Become(k, None)
           \/ o.kind = "transfer" /\ Become(k, [o EXCEPT !.roles = <<r>>, !.stage = "member"])
        /\ history' = [history EXCEPT !.used = @ \cup {r}, !.granted = g]
  BY <1>1, <1>2 DEF Insert, Done
<1> DEFINE named == <<r>>
           new == [o EXCEPT !.roles = named, !.stage = "member"]
<1>4. /\ history'.tangled = history.tangled /\ history'.loose = history.loose
      /\ history'.used = history.used \cup {r}
  <2> HIDE DEF g
  <2> QED
    BY <1>3 DEF Base, History
<1> HIDE DEF row
<1>5. /\ DOMAIN roles' = DOMAIN roles \cup {r}
      /\ \A x \in DOMAIN roles' : roles'[x] = IF x = r THEN row ELSE roles[x]
  BY <1>3 DEF Put
<1>6. r # Everyone /\ Everyone \in DOMAIN roles
  BY RolesAssumption DEF Base, Tables
<1>7. Calm => Grounded(roles, history.used) /\ Beneath(o, owner, roles, held)
  BY <1>1, <1>2 DEF Lower
<1>8. Calm => Grounded(roles', history'.used)
  BY <1>4, <1>5, <1>6, <1>7 DEF Grounded
<1>9. new.kind = o.kind /\ new.user = o.user
  <2> HIDE DEF named
  <2> QED
    BY DEF Op
<1> HIDE DEF new
<1>10. CASE Become(k, None)
  BY <1>2, <1>4, <1>8, <1>10, LowerStep
<1>11. CASE o.kind = "transfer" /\ Become(k, new)
  <2>1. Calm => o.user = owner
    BY <1>7, <1>11 DEF Beneath
  <2>2. Calm => Beneath(new, owner', roles', held')
    BY <1>2, <1>9, <1>11, <2>1, TransferBeneath
  <2> QED
    BY <1>2, <1>4, <1>8, <1>11, <2>2, LowerStep
<1> QED
  BY <1>3, <1>10, <1>11 DEF new

(* Writes that leave the heights, and who is the first of them, alone.     *)
LEMMA WriteUpdateLower ==
  ASSUME Base, Sound, Lower, NEW k \in Ops, WriteUpdate(k) PROVE Lower'
<1>1. PICK o \in Op : o = ops[k] /\ Fits(o)
  BY AtWork DEF Base, WriteUpdate, At
<1>2. UNCHANGED <<owner, held, overrides, history>> /\ Become(k, None) /\ ops[k] # None
  BY DEF WriteUpdate, Done, At
<1>3. Everyone \in DOMAIN roles
  BY DEF Base, Tables
<1>4. DOMAIN roles' = DOMAIN roles /\ \A x \in DOMAIN roles : roles'[x].position = roles[x].position
  BY UpdateKeeps
<1>5. Grounded(roles, history.used) => Grounded(roles', history.used)
  BY <1>3, <1>4 DEF Grounded
<1> QED
  BY <1>2, <1>5, LowerEnds

LEMMA WriteTrashLower ==
  ASSUME Base, Sound, Lower, NEW k \in Ops, WriteTrash(k) PROVE Lower'
<1>1. PICK o \in Op : o = ops[k] /\ Fits(o)
  BY AtWork DEF Base, WriteTrash, At
<1> DEFINE t == history.loose \/ ops[k].kind = "restore"
<1>2. /\ UNCHANGED <<owner, held, overrides>> /\ Become(k, None) /\ ops[k] # None
      /\ history' = [history EXCEPT !.loose = t]
  BY DEF WriteTrash, Done, At
<1>3. /\ history'.tangled = history.tangled /\ history'.loose = t
      /\ history'.used = history.used
  <2> HIDE DEF t
  <2> QED
    BY <1>2 DEF Base, History
<1>4. Everyone \in DOMAIN roles
  BY DEF Base, Tables
<1>5. DOMAIN roles' = DOMAIN roles /\ \A x \in DOMAIN roles : roles'[x].position = roles[x].position
  BY TrashKeeps
<1>6. Grounded(roles, history.used) => Grounded(roles', history.used)
  BY <1>4, <1>5 DEF Grounded
<1> QED
  BY <1>2, <1>3, <1>6, LowerEnds

LEMMA WriteMemberLower ==
  ASSUME Base, Sound, Lower, NEW k \in Ops, WriteMember(k) PROVE Lower'
<1>1. PICK o \in Op : o = ops[k] /\ Fits(o)
  BY AtWork DEF Base, WriteMember, At
<1> DEFINE flip == [o EXCEPT !.stage = "flip"]
<1>2. /\ UNCHANGED <<owner, roles, overrides, history>> /\ ops[k] # None
      /\ (o.kind = "transfer" /\ Become(k, flip)) \/ Become(k, None)
  BY <1>1 DEF WriteMember, At, Done, Goto
<1>3. Same(o, flip)
  BY GotoSame
<1> HIDE DEF flip
<1>4. Calm => Grounded(roles, history.used) /\ Beneath(o, owner, roles, held)
  BY <1>1, <1>2 DEF Lower
<1>5. CASE Become(k, None)
  BY <1>2, <1>4, <1>5, LowerStep
<1>6. CASE o.kind = "transfer" /\ Become(k, flip)
  <2>1. Calm => o.user = owner
    BY <1>4, <1>6 DEF Beneath
  <2>2. Calm => Beneath(flip, owner', roles', held')
    BY <1>2, <1>3, <1>6, <2>1, TransferBeneath DEF Same
  <2> QED
    BY <1>2, <1>4, <1>6, <2>2, LowerStep
<1> QED
  BY <1>2, <1>5, <1>6

LEMMA FlipOwnerLower ==
  ASSUME Base, Sound, Lower, NEW k \in Ops, FlipOwner(k) PROVE Lower'
BY LowerEnds DEF FlipOwner, At, Done

LEMMA ReadMembersLower ==
  ASSUME Base, Sound, Lower, NEW k \in Ops, ReadMembers(k) PROVE Lower'
<1>1. PICK o \in Op : o = ops[k] /\ Fits(o)
  BY AtWork DEF Base, ReadMembers, At
<1>2. /\ UNCHANGED <<tables, history>> /\ ops[k] # None /\ o.kind = "harddelete"
      /\ o.stage = "members" /\ Named(k) = Head(o.roles)
  BY <1>1 DEF ReadMembers, At, Named
<1>3. PICK order \in Enumerations({m \in Members : Named(k) \in held[m]}) :
        Become(k, [o EXCEPT !.stage = "scrub",
          !.todo = [i \in DOMAIN order |-> <<order[i], held[order[i]] \ {Named(k)}>>]])
  BY <1>1 DEF ReadMembers
<1> DEFINE list == [i \in DOMAIN order |-> <<order[i], held[order[i]] \ {Named(k)}>>]
           new == [o EXCEPT !.stage = "scrub", !.todo = list]
<1>4. Become(k, new)
  BY <1>3
<1>5. Scrubs(list, Named(k))
  BY HoldersAre DEF Base
<1> HIDE DEF list
<1>6. Same(o, new) /\ new.stage = "scrub" /\ new.todo = list
  BY DEF Op, Same
<1> HIDE DEF new
<1>7. \A i \in 1..Len(list) : list[i][2] = held[list[i][1]] \ {Named(k)}
  BY <1>5 DEF Scrubs
<1>8. Beneath(o, owner, roles, held) => Beneath(new, owner, roles, held)
  BY <1>2, <1>6, <1>7 DEF Beneath, Touching, Same
<1> QED
  BY <1>1, <1>2, <1>4, <1>8, LowerReads

LEMMA ScrubLower ==
  ASSUME Base, Sound, Lower, NEW k \in Ops, Scrub(k) PROVE Lower'
<1>1. PICK o \in Op : o = ops[k] /\ Fits(o)
  BY AtWork DEF Base, Scrub, At
<1> DEFINE todo == o.todo
           rest == Tail(todo)
           new == [o EXCEPT !.todo = rest]
           next == Head(todo)
           R == Head(o.roles)
<1>2. /\ o.stage = "scrub" /\ o.kind = "harddelete" /\ UNCHANGED <<owner, roles, history>>
      /\ ops[k] # None /\ Become(k, new) /\ todo # <<>>
      /\ held' = [held EXCEPT ![next[1]] = next[2]]
  BY <1>1 DEF Scrub, At
<1>3. Same(o, new) /\ new.stage = "scrub" /\ new.todo = rest
  <2> HIDE DEF rest
  <2> QED
    BY <1>2 DEF Op, Same
<1> HIDE DEF new
<1>4. todo \in Seq(Scrubbing)
  BY <1>1, <1>2 DEF Fits
<1>5. /\ next \in Scrubbing /\ next = todo[1] /\ 1 \in 1..Len(todo) /\ Len(todo) \in Nat
      /\ Len(rest) = Len(todo) - 1 /\ rest \in Seq(Scrubbing)
      /\ \A i \in 1..Len(todo) - 1 : rest[i] = todo[i + 1]
  <2> HIDE DEF todo
  <2> QED
    BY <1>2, <1>4, NextTodo DEF rest, next
<1>6. held \in [Members -> SUBSET Ids]
  BY DEF Base, Tables, Rights
<1>7. Calm => Grounded(roles, history.used) /\ Beneath(o, owner, roles, held)
  BY <1>1, <1>2 DEF Lower
<1>8. ASSUME Calm PROVE \A i \in 1..Len(rest) : rest[i][2] = held'[rest[i][1]] \ {R}
  <2>1. \A i \in 1..Len(todo) : todo[i][2] = held[todo[i][1]] \ {R}
    BY <1>2, <1>7, <1>8 DEF Beneath
  <2> HIDE DEF todo, rest, next, R
  <2> SUFFICES ASSUME NEW i \in 1..Len(rest) PROVE rest[i][2] = held'[rest[i][1]] \ {R}
    OBVIOUS
  <2>2. i + 1 \in 1..Len(todo) /\ rest[i] = todo[i + 1]
    BY <1>5
  <2>3. rest[i][2] = held[rest[i][1]] \ {R} /\ next[2] = held[next[1]] \ {R}
    BY <1>5, <2>1, <2>2
  <2>4. rest[i] \in Scrubbing
    BY <1>5, ElementOfSeq
  <2>5. rest[i][1] \in Members /\ next[1] \in Members
    BY <1>5, <2>4 DEF Scrubbing
  <2>6. CASE rest[i][1] = next[1]
    <3>1. held'[rest[i][1]] = next[2]
      BY <1>2, <1>6, <2>5, <2>6
    <3> QED
      BY <2>3, <2>6, <3>1
  <2>7. CASE rest[i][1] # next[1]
    <3>1. held'[rest[i][1]] = held[rest[i][1]]
      BY <1>2, <1>6, <2>5, <2>7
    <3> QED
      BY <2>3, <3>1
  <2> QED
    BY <2>6, <2>7
<1>9. Calm => Beneath(new, owner', roles', held')
  BY <1>2, <1>3, <1>7, <1>8 DEF Beneath, Touching, Same
<1> HIDE DEF todo, rest, next, R
<1> QED
  BY <1>2, <1>7, <1>9, LowerStep

LEMMA DropRoleLower ==
  ASSUME Base, Sound, Lower, NEW k \in Ops, DropRole(k) PROVE Lower'
<1>1. PICK o \in Op : o = ops[k] /\ Fits(o)
  BY AtWork DEF Base, DropRole, At
<1>2. /\ roles' = Without(roles, Head(o.roles)) /\ UNCHANGED history /\ Become(k, None)
      /\ ops[k] # None /\ Head(o.roles) # Everyone
  BY <1>1 DEF DropRole, At, Done, Named, Fits
<1>3. Everyone \in DOMAIN roles
  BY DEF Base, Tables
<1>4. Grounded(roles, history.used) => Grounded(roles', history.used)
  BY <1>2, <1>3 DEF Grounded, Without
<1> QED
  BY <1>2, <1>4, LowerEnds

LEMMA WriteOverrideLower ==
  ASSUME Base, Sound, Lower, NEW k \in Ops, WriteOverride(k) PROVE Lower'
<1>1. UNCHANGED <<roles, history>> /\ ops[k] # None
  BY DEF WriteOverride, At
<1>2. ~history.tangled => \A j \in Ops : ops'[j] = None
  <2>1. CASE Become(k, None)
    BY <1>1, <2>1, OnlyOne
  <2>2. CASE ~Become(k, None)
    BY <1>1, <2>2 DEF WriteOverride, Done, Sound
  <2> QED
    BY <2>1, <2>2
<1> QED
  BY <1>1, <1>2 DEF Lower, Calm

LEMMA ThrowLower ==
  ASSUME Base, Sound, Lower, NEW k \in Ops, Throw(k) PROVE Lower'
<1> DEFINE t == history.loose \/ ops[k].kind \in {"swap", "reorder"}
<1>1. history' = [history EXCEPT !.loose = t] /\ UNCHANGED tables /\ Become(k, None) /\ ops[k] # None
  BY DEF Throw, Done
<1>2. /\ history'.tangled = history.tangled /\ history'.loose = t /\ roles' = roles
      /\ history'.used = history.used
  <2> HIDE DEF t
  <2> QED
    BY <1>1 DEF Base, History, tables
<1> QED
  BY <1>1, <1>2, LowerEnds

LEMMA LowerSteps == ASSUME Base, Sound, Level, Lower, [Next]_vars PROVE Lower'
<1>1. ASSUME NEW k \in Ops, NEW u \in Members, StartAny(k, u) PROVE Lower'
  BY <1>1, StartsFresh, BeginsLower
<1>2. ASSUME NEW k \in Ops, Work(k) PROVE Lower'
  BY <1>2, ReadRoleLower, ReadMemberLower, ReadOverrideLower, ListForCreateLower,
     ListForTransferLower, ListForReorderLower, CheckRankLower, MoveRoleLower, CheckCapLower,
     InsertLower, WriteUpdateLower, WriteTrashLower, WriteMemberLower, FlipOwnerLower,
     ReadMembersLower, ScrubLower, DropRoleLower, WriteOverrideLower DEF Work
<1>3. ASSUME NEW k \in Ops, Throw(k) PROVE Lower'
  BY <1>3, ThrowLower
<1>4. CASE UNCHANGED vars
  BY <1>4 DEF vars, tables, Lower, Calm
<1> QED
  BY <1>1, <1>2, <1>3, <1>4 DEF Next

LEMMA LowerHolds == Spec => []Lower
<1>1. Init => Lower
  BY LowerInit
<1>2. Base /\ Sound /\ Level /\ Lower /\ [Next]_vars => Lower'
  BY LowerSteps
<1> QED
  BY <1>1, <1>2, BaseHolds, SoundHolds, LevelHolds, PTL DEF Spec

-----------------------------------------------------------------------------
(* Whoever is above a member stays so.                                     *)
Keeping(k, u) ==
  /\ Base /\ Base' /\ Sound /\ Level /\ Lower /\ Calm
  /\ ops[k] # None /\ ops[k].user = u /\ u # owner /\ Rank(u) > 0

LEMMA TablesKeep ==
  ASSUME UNCHANGED <<owner, roles, held>>, NEW u PROVE Above(u)' = Above(u)
BY DEF Above, Custom, Live, Rank, Highest

(* What is known of the request, of the rank of its member and of the role *)
(* that gives it.                                                          *)
LEMMA Known ==
  ASSUME NEW k \in Ops, NEW u, Keeping(k, u)
  PROVE  /\ Beneath(ops[k], owner, roles, held) /\ Grounded(roles, history.used)
         /\ Even(roles) /\ Placed(ops[k], roles) /\ (~MidMove(ops[k]) => Unlike(roles))
         /\ Rank(u) = Top(roles, held[u]) /\ Rank(u) \in Nat
         /\ \A x \in held[u] \cap Live(roles) : roles[x].position <= Rank(u)
         /\ \E q \in held[u] \cap Customs(roles) : roles[q].position = Rank(u)
<1>1. Beneath(ops[k], owner, roles, held) /\ Grounded(roles, history.used)
  BY DEF Keeping, Lower
<1>2. Even(roles) /\ Placed(ops[k], roles) /\ (~MidMove(ops[k]) => Unlike(roles))
  BY AtRest DEF Keeping
<1>3. Rank(u) = Top(roles, held[u])
  BY RankIs DEF Keeping
<1>4. Reached(Rank(u), roles, held[u])
  BY <1>3, BaseMeasured, TopReached DEF Keeping
<1>5. Rank(u) \in Nat /\ Rank(u) # 0
  BY <1>4 DEF Reached, Keeping
<1>6. PICK q \in held[u] \cap Live(roles) : roles[q].position = Rank(u)
  BY <1>4, <1>5 DEF Reached
<1>7. q # Everyone
  BY <1>1, <1>5, <1>6 DEF Grounded
<1>8. q \in held[u] \cap Customs(roles)
  BY <1>6, <1>7 DEF Customs
<1>9. \A x \in held[u] \cap Live(roles) : roles[x].position <= Rank(u)
  BY <1>4 DEF Reached
<1> QED
  BY <1>1, <1>2, <1>3, <1>5, <1>6, <1>8, <1>9

(* A creation moves one role up: the one that gives the rank, then the     *)
(* rank rises with it and all that is above is higher still; or one above; *)
(* or one below, which the rank, moved before, is more than one above.     *)
LEMMA CreationKeeps ==
  ASSUME NEW k \in Ops, NEW u, Keeping(k, u), MoveRole(k), ops[k].kind = "create"
  PROVE  Above(u)' = Above(u)
<1>1. PICK o \in Op : o = ops[k] /\ Fits(o)
  BY AtWork DEF Keeping, Base, MoveRole, At
<1> DEFINE todo == o.todo
           r == Head(todo)[1]
           h == Head(todo)[2]
           n == Rank(u)
<1>2. /\ o.stage = "move" /\ o.kind = "create" /\ ~MidMove(ops[k])
      /\ UNCHANGED <<owner, held>> /\ todo \in Seq(Moving) /\ todo # <<>>
  BY <1>1 DEF MoveRole, At, MidMove, Fits
<1>3. Head(todo) = todo[1] /\ 1 \in 1..Len(todo) /\ Len(todo) \in Nat
  <2> HIDE DEF todo
  <2> QED
    BY <1>2, NextTodo
<1>4. Rising(todo, roles) /\ Unlike(roles)
  BY <1>1, <1>2, Known DEF Placed
<1>5. Lifts(roles, r, h, roles')
  BY <1>1, MoveLifts DEF Keeping
<1>6. PICK q \in held[u] \cap Customs(roles) : roles[q].position = n
  BY Known
<1>7. n \in Nat /\ n > 0 /\ \A x \in held[u] \cap Live(roles) : roles[x].position <= n
  BY Known DEF Keeping
<1>8. r \in Customs(roles) /\ h = roles[r].position + 1
  <2> HIDE DEF todo
  <2> QED
    BY <1>3, <1>4 DEF Rising
<1>9. /\ Live(roles') = Live(roles) /\ Customs(roles') = Customs(roles)
      /\ \A x \in Live(roles) : /\ roles'[x].position = IF x = r THEN h ELSE roles[x].position
                                /\ roles[x].position \in Nat
  BY <1>5 DEF Lifts, Live, Customs
<1>10. \A x \in Customs(roles) : x \in Live(roles)
  BY DEF Customs
<1>11. /\ Above(u) = {x \in Customs(roles) : roles[x].position >= n}
       /\ Above(u)' = {x \in Customs(roles') : roles'[x].position >= n'}
  BY DEF Above, Custom, Customs
<1>12. ASSUME NEW m, Reached(m, roles', held[u]) PROVE n' = m
  <2>1. n' = Top(roles', held'[u])
    BY <1>2 DEF Rank, Top, Keeping
  <2>2. Measured(roles')
    BY DEF Keeping, Base, Tables, Rights, Role, Measured
  <2> HIDE DEF n
  <2> QED
    BY <1>2, <1>12, <2>1, <2>2, TopReached, OneReached
<1> HIDE DEF todo, h, r, n
<1>13. CASE r = q
  <2>1. Reached(n + 1, roles', held[u])
    <3>1. q \in held[u] \cap Live(roles') /\ roles'[q].position = n + 1
      BY <1>6, <1>8, <1>9, <1>10, <1>13
    <3>2. \A x \in held[u] \cap Live(roles') : roles'[x].position \in Nat /\ roles'[x].position <= n + 1
      BY <1>6, <1>7, <1>8, <1>9, <1>13
    <3> QED
      BY <1>7, <3>1, <3>2 DEF Reached
  <2>2. n' = n + 1
    BY <1>12, <2>1
  <2>3. \A x \in Customs(roles) : x # q => roles[x].position # n
    BY <1>4, <1>6 DEF Unlike
  <2>4. \A x \in Customs(roles) : roles[x].position >= n <=> roles'[x].position >= n + 1
    <3> SUFFICES ASSUME NEW x \in Customs(roles)
                 PROVE  roles[x].position >= n <=> roles'[x].position >= n + 1
      OBVIOUS
    <3>1. roles[x].position \in Nat
      BY <1>9, <1>10
    <3>2. CASE x = q
      BY <1>6, <1>7, <1>8, <1>9, <1>10, <1>13, <3>2
    <3>3. CASE x # q
      BY <1>7, <1>9, <1>10, <1>13, <2>3, <3>1, <3>3
    <3> QED
      BY <3>2, <3>3
  <2> QED
    BY <1>9, <1>11, <2>2, <2>4
<1>14. CASE r # q /\ roles[r].position >= n
  <2>1. roles[r].position > n
    <3>1. roles[r].position # n
      BY <1>4, <1>6, <1>8, <1>14 DEF Unlike
    <3> QED
      BY <1>7, <1>8, <1>9, <1>10, <1>14, <3>1
  <2>2. r \notin held[u]
    BY <1>7, <1>8, <1>9, <1>10, <2>1
  <2>3. Reached(n, roles', held[u])
    <3>1. q \in held[u] \cap Live(roles') /\ roles'[q].position = n
      BY <1>6, <1>9, <1>10, <1>14
    <3>2. \A x \in held[u] \cap Live(roles') : roles'[x].position \in Nat /\ roles'[x].position <= n
      BY <1>7, <1>9, <2>2
    <3> QED
      BY <1>7, <3>1, <3>2 DEF Reached
  <2>4. n' = n
    BY <1>12, <2>3
  <2>5. \A x \in Customs(roles) : roles[x].position >= n <=> roles'[x].position >= n
    <3> SUFFICES ASSUME NEW x \in Customs(roles)
                 PROVE  roles[x].position >= n <=> roles'[x].position >= n
      OBVIOUS
    <3>1. CASE x = r
      BY <1>7, <1>8, <1>9, <1>10, <2>1, <3>1
    <3>2. CASE x # r
      BY <1>9, <1>10, <3>2
    <3> QED
      BY <3>1, <3>2
  <2> QED
    BY <1>9, <1>11, <2>4, <2>5
<1>15. CASE r # q /\ ~(roles[r].position >= n)
  <2>1. roles[r].position \in Nat /\ roles[r].position < n
    BY <1>7, <1>8, <1>9, <1>10, <1>15
  <2>2. ~Pending(todo, q)
    <3> SUFFICES ASSUME NEW i \in 1..Len(todo), todo[i][1] = q PROVE FALSE
      BY DEF Pending
    <3>1. todo[1][1] = r
      BY <1>3 DEF r
    <3>2. 1 < i
      BY <1>3, <1>15, <3>1
    <3>3. roles[q].position < roles[r].position
      BY <1>3, <1>4, <3>1, <3>2 DEF Rising
    <3> QED
      BY <1>6, <1>7, <2>1, <3>3
  <2>3. n > todo[1][2]
    BY <1>4, <1>6, <2>2 DEF Rising
  <2>4. todo[1][2] = h
    BY <1>3 DEF h
  <2>5. h < n /\ roles[r].position < n
    BY <1>7, <1>8, <2>1, <2>3, <2>4
  <2>6. Untouched(n, roles, held[u], roles', held[u])
    BY <1>5, <1>7, <2>5, LiftsBeneath
  <2> QED
    BY <1>2, <2>6, UntouchedAbove DEF Keeping, n
<1> QED
  BY <1>13, <1>14, <1>15

LEMMA MoveRoleKeeps ==
  ASSUME NEW k \in Ops, NEW u, Keeping(k, u), MoveRole(k) PROVE Above(u)' = Above(u)
<1>1. CASE ops[k].kind = "create"
  BY <1>1, CreationKeeps
<1>2. CASE ops[k].kind # "create"
  <2>1. PICK o \in Op : o = ops[k] /\ Fits(o)
    BY AtWork DEF Keeping, Base, MoveRole, At
  <2> DEFINE r == Head(o.todo)[1]
             h == Head(o.todo)[2]
             n == Rank(u)
  <2>2. /\ o.stage = "move" /\ o.kind \in {"swap", "reorder"} /\ UNCHANGED <<owner, held>>
        /\ o.todo \in Seq(Moving) /\ o.todo # <<>> /\ o.user = u
    BY <1>2, <2>1 DEF MoveRole, At, Fits, Keeping
  <2>3. Head(o.todo) = o.todo[1] /\ 1 \in 1..Len(o.todo)
    BY <2>2, NextTodo
  <2>4. Lifts(roles, r, h, roles')
    BY <2>1, MoveLifts DEF Keeping
  <2>5. n = Top(roles, held[u]) /\ n \in Nat /\ Beneath(o, owner, roles, held)
    BY <2>1, Known
  <2>6. h < n /\ roles[r].position < n
    BY <2>2, <2>3, <2>5 DEF Beneath, Keeping
  <2>7. Untouched(n, roles, held[u], roles', held[u])
    <3> HIDE DEF r, h, n
    <3> QED
      BY <2>4, <2>5, <2>6, LiftsBeneath
  <2> QED
    BY <2>2, <2>7, UntouchedAbove DEF Keeping
<1> QED
  BY <1>1, <1>2

LEMMA Busy == ASSUME NEW j \in Ops, Work(j) \/ Throw(j) PROVE ops[j] # None
BY DEF Work, Throw, At, ReadRole, ReadMember, ReadOverride, ListForCreate, ListForTransfer,
   ListForReorder, CheckRank, MoveRole, CheckCap, Insert, WriteUpdate, WriteTrash, WriteMember,
   FlipOwner, ReadMembers, Scrub, DropRole, WriteOverride

(* The role of a creation goes below all, hence below the one that gives   *)
(* the rank.                                                               *)
LEMMA InsertKeeps ==
  ASSUME NEW k \in Ops, NEW u, Keeping(k, u), Insert(k) PROVE Above(u)' = Above(u)
<1>1. PICK o \in Op : o = ops[k] /\ Fits(o)
  BY AtWork DEF Keeping, Base, Insert, At
<1> DEFINE n == Rank(u)
           allow == IF o.kind = "create" THEN o.mask.allow ELSE {Admin}
           deny == o.mask.deny
           row == [position |-> o.height, deleted |-> FALSE, allow |-> allow, deny |-> deny]
<1>2. o.stage = "insert" /\ o.kind \in {"create", "transfer"} /\ UNCHANGED <<owner, held>>
  BY <1>1 DEF Insert, At
<1>3. PICK r \in RoleIds \ history.used : roles' = Put(roles, r, row)
  BY <1>1 DEF Insert
<1>4. row.position = o.height
  OBVIOUS
<1> HIDE DEF row
<1>5. /\ DOMAIN roles' = DOMAIN roles \cup {r} /\ roles'[r] = row
      /\ \A x \in DOMAIN roles : x # r => roles'[x] = roles[x]
  BY <1>3 DEF Put
<1>6. /\ Beneath(o, owner, roles, held) /\ Grounded(roles, history.used) /\ Placed(o, roles)
      /\ \E q \in held[u] \cap Customs(roles) : roles[q].position = n
  BY <1>1, Known
<1>7. o.kind = "create"
  BY <1>1, <1>2, <1>6 DEF Beneath, Keeping
<1>8. o.height < n
  <2>1. \A q \in Customs(roles) : roles[q].position > o.height
    BY <1>2, <1>6, <1>7 DEF Placed
  <2> QED
    BY <1>6, <2>1
<1>9. o.height \in Nat /\ n \in Nat
  BY RolesAssumption, Known DEF Op
<1>10. r # Everyone
  BY RolesAssumption
<1>11. r \notin DOMAIN roles
  BY <1>6, <1>10 DEF Grounded
<1> HIDE DEF n
<1>12. ~(roles'[r].position >= n)
  BY <1>4, <1>5, <1>8, <1>9
<1>13. \A x : x # r => /\ x \in Live(roles) <=> x \in Live(roles')
                       /\ x \in Live(roles) => roles'[x] = roles[x]
  BY <1>5 DEF Live
<1>14. r \notin Live(roles)
  BY <1>11 DEF Live
<1>15. Untouched(n, roles, held[u], roles', held'[u])
  BY <1>2, <1>12, <1>13, <1>14 DEF Untouched
<1> QED
  BY <1>2, <1>15, UntouchedAbove DEF Keeping, n

LEMMA WriteUpdateKeeps ==
  ASSUME NEW k \in Ops, NEW u, Keeping(k, u), WriteUpdate(k) PROVE Above(u)' = Above(u)
<1>1. UNCHANGED <<owner, held>>
  BY DEF WriteUpdate
<1>2. /\ DOMAIN roles' = DOMAIN roles
      /\ \A x \in DOMAIN roles : /\ roles'[x].position = roles[x].position
                                 /\ roles'[x].deleted = roles[x].deleted
  BY UpdateKeeps DEF Keeping
<1>3. \A n : Untouched(n, roles, held[u], roles', held'[u])
  BY <1>1, <1>2 DEF Untouched, Live
<1> QED
  BY <1>1, <1>3, UntouchedAbove DEF Keeping

(* A role that goes to the trash or comes back is a lower one.             *)
LEMMA WriteTrashKeeps ==
  ASSUME NEW k \in Ops, NEW u, Keeping(k, u), WriteTrash(k) PROVE Above(u)' = Above(u)
<1> DEFINE n == Rank(u)
           r == Named(k)
<1>1. /\ ops[k].stage = "write" /\ ops[k].kind \in {"delete", "restore"} /\ UNCHANGED <<owner, held>>
      /\ r = Head(ops[k].roles)
  BY DEF WriteTrash, At, Named
<1>2. /\ DOMAIN roles' = DOMAIN roles
      /\ \A x \in DOMAIN roles :
           /\ roles'[x].position = roles[x].position
           /\ x # r => roles'[x].deleted = roles[x].deleted
  BY TrashKeeps DEF Keeping
<1>3. n = Top(roles, held[u]) /\ n \in Nat /\ Beneath(ops[k], owner, roles, held)
  BY Known
<1>4. r \notin DOMAIN roles \/ roles[r].position < n
  BY <1>1, <1>3 DEF Beneath, Touching, Keeping
<1>5. \A x \in DOMAIN roles : roles[x].position \in Nat
  BY BaseMeasured, RolesAssumption DEF Measured, Keeping
<1> HIDE DEF n, r
<1>6. \A x \in DOMAIN roles : roles[x].position >= n => x # r
  BY <1>3, <1>4, <1>5
<1>7. \A x : /\ x \in Live(roles) => x \in DOMAIN roles
             /\ x \in Live(roles') => x \in DOMAIN roles
             /\ x \in DOMAIN roles /\ x # r => (x \in Live(roles) <=> x \in Live(roles'))
  BY <1>2 DEF Live
<1>8. Untouched(n, roles, held[u], roles', held'[u])
  BY <1>1, <1>2, <1>6, <1>7 DEF Untouched
<1> QED
  BY <1>1, <1>8, UntouchedAbove DEF Keeping, n

(* A role that a member gets or loses is a lower one, or none.             *)
LEMMA HeldKeeps ==
  ASSUME NEW k \in Ops, NEW u, Keeping(k, u), UNCHANGED <<owner, roles>>, NEW r,
         r \in Live(roles) => roles[r].position < Rank(u),
         \A x : x # r => (x \in held[u] <=> x \in held'[u])
  PROVE  Above(u)' = Above(u)
<1> DEFINE n == Rank(u)
<1>1. n \in Nat
  BY Known
<1>2. \A x \in Live(roles) : roles[x].position \in Nat
  BY BaseMeasured, RolesAssumption DEF Measured, Keeping, Live
<1> HIDE DEF n
<1>3. \A x \in Live(roles) : roles[x].position >= n => x # r
  BY <1>1, <1>2 DEF n
<1>4. Untouched(n, roles, held[u], roles', held'[u])
  BY <1>3 DEF Untouched
<1> QED
  BY <1>4, UntouchedAbove DEF Keeping, n

LEMMA WriteMemberKeeps ==
  ASSUME NEW k \in Ops, NEW u, Keeping(k, u), WriteMember(k) PROVE Above(u)' = Above(u)
<1>1. PICK o \in Op : o = ops[k] /\ Fits(o)
  BY AtWork DEF Keeping, Base, WriteMember, At
<1> DEFINE r == Head(o.roles)
           ids == IF o.kind = "unassign" THEN o.mine \ {r} ELSE o.mine \cup {r}
<1>2. Beneath(o, owner, roles, held)
  BY <1>1, Known
<1>3. /\ o.stage = "write" /\ o.kind \in {"assign", "unassign", "transfer"}
      /\ UNCHANGED <<owner, roles>> /\ o.user = u
  BY <1>1 DEF WriteMember, At, Keeping
<1>4. o.kind # "transfer"
  BY <1>2, <1>3 DEF Beneath, Keeping
<1>5. held' = [held EXCEPT ![o.whom] = ids]
  BY <1>1, <1>4 DEF WriteMember, Named
<1>6. o.mine = held[o.whom]
  BY <1>2, <1>3, <1>4 DEF Beneath
<1>7. r \in DOMAIN roles => roles[r].position < Rank(u)
  <2>1. Rank(u) = Top(roles, held[u])
    BY Known
  <2> QED
    BY <1>2, <1>3, <1>4, <2>1 DEF Beneath, Touching, Keeping
<1>8. \A x : x # r => (x \in o.mine <=> x \in ids)
  OBVIOUS
<1>9. held \in [Members -> SUBSET Ids] /\ o.whom \in Members
  BY <1>1, <1>3 DEF Keeping, Base, Tables, Rights, Fits
<1> HIDE DEF ids, r
<1>10. \A x : x # r => (x \in held[u] <=> x \in held'[u])
  <2>1. CASE o.whom = u
    BY <1>5, <1>6, <1>8, <1>9, <2>1
  <2>2. CASE o.whom # u
    <3>1. held'[u] = held[u]
      BY <1>5, <1>9, <2>2
    <3> QED
      BY <3>1
  <2> QED
    BY <2>1, <2>2
<1>11. r \in Live(roles) => roles[r].position < Rank(u)
  BY <1>7 DEF Live
<1> QED
  BY <1>3, <1>10, <1>11, HeldKeeps

LEMMA ScrubKeeps ==
  ASSUME NEW k \in Ops, NEW u, Keeping(k, u), Scrub(k) PROVE Above(u)' = Above(u)
<1>1. PICK o \in Op : o = ops[k] /\ Fits(o)
  BY AtWork DEF Keeping, Base, Scrub, At
<1> DEFINE r == Head(o.roles)
           todo == o.todo
           next == Head(todo)
<1>2. Beneath(o, owner, roles, held)
  BY <1>1, Known
<1>3. /\ o.stage = "scrub" /\ o.kind = "harddelete" /\ UNCHANGED <<owner, roles>>
      /\ todo # <<>> /\ held' = [held EXCEPT ![next[1]] = next[2]] /\ todo \in Seq(Scrubbing)
  BY <1>1 DEF Scrub, At, Fits
<1>4. next = todo[1] /\ 1 \in 1..Len(todo)
  <2> HIDE DEF todo
  <2> QED
    BY <1>3, NextTodo DEF next
<1>5. r \notin Live(roles) /\ next[2] = held[next[1]] \ {r}
  BY <1>2, <1>3, <1>4 DEF Beneath
<1>6. held \in [Members -> SUBSET Ids]
  BY DEF Keeping, Base, Tables, Rights
<1> HIDE DEF r, next, todo
<1>7. \A x : x # r => (x \in held[u] <=> x \in held'[u])
  <2>1. held'[u] = held[u] \/ held'[u] = held[u] \ {r}
    BY <1>3, <1>5, <1>6
  <2> QED
    BY <2>1
<1> QED
  BY <1>3, <1>5, <1>7, HeldKeeps

LEMMA DropRoleKeeps ==
  ASSUME NEW k \in Ops, NEW u, Keeping(k, u), DropRole(k) PROVE Above(u)' = Above(u)
<1> DEFINE r == Head(ops[k].roles)
<1>1. /\ ops[k].stage = "scrub" /\ ops[k].kind = "harddelete" /\ UNCHANGED <<owner, held>>
      /\ roles' = Without(roles, r)
  BY DEF DropRole, At, Named
<1>2. r \notin Live(roles)
  BY <1>1, Known DEF Beneath
<1> HIDE DEF r
<1>3. \A x : /\ x \in Live(roles) <=> x \in Live(roles')
             /\ x \in Live(roles) => roles'[x] = roles[x]
  BY <1>1, <1>2 DEF Without, Live
<1>4. \A n : Untouched(n, roles, held[u], roles', held'[u])
  BY <1>1, <1>3 DEF Untouched
<1> QED
  BY <1>1, <1>4, UntouchedAbove DEF Keeping

LEMMA FlipOwnerKeeps ==
  ASSUME NEW k \in Ops, NEW u, Keeping(k, u), FlipOwner(k) PROVE Above(u)' = Above(u)
BY Known DEF FlipOwner, At, Beneath, Keeping

LEMMA WorkKeeps ==
  ASSUME NEW k \in Ops, NEW u, Keeping(k, u), Work(k) \/ Throw(k) PROVE Above(u)' = Above(u)
<1>1. CASE \/ ReadRole(k) \/ ReadMember(k) \/ ReadOverride(k)
           \/ ListForCreate(k) \/ ListForTransfer(k) \/ ListForReorder(k)
           \/ CheckRank(k) \/ CheckCap(k) \/ ReadMembers(k) \/ WriteOverride(k) \/ Throw(k)
  <2>1. UNCHANGED <<owner, roles, held>>
    BY <1>1 DEF ReadRole, ReadMember, ReadOverride, ListForCreate, ListForTransfer,
       ListForReorder, CheckRank, CheckCap, ReadMembers, WriteOverride, Throw, tables
  <2> QED
    BY <2>1, TablesKeep
<1>2. CASE MoveRole(k)
  BY <1>2, MoveRoleKeeps
<1>3. CASE Insert(k)
  BY <1>3, InsertKeeps
<1>4. CASE WriteUpdate(k) \/ WriteTrash(k) \/ WriteMember(k) \/ FlipOwner(k)
  BY <1>4, WriteUpdateKeeps, WriteTrashKeeps, WriteMemberKeeps, FlipOwnerKeeps
<1>5. CASE Scrub(k) \/ DropRole(k)
  BY <1>5, ScrubKeeps, DropRoleKeeps
<1> QED
  BY <1>1, <1>2, <1>3, <1>4, <1>5 DEF Work

(* A request of a member who is not the owner, made by itself, leaves      *)
(* above them whoever was above them, at each of its steps: what it moves, *)
(* trashes, restores, gives or takes is lower than their highest role, and *)
(* stays there, and what a creation moves up does not overtake them.       *)
THEOREM PlacesSafe == Spec => KeepsItsPlace
<1>1. ASSUME Base, Base', Sound, Level, Lower, [Next]_vars
      PROVE  [\A k \in Ops, u \in Members \ {owner} :
                /\ ops[k] # None /\ Actor(k) = u /\ ~history.tangled /\ ~history.loose
                /\ Rank(u) > 0
                => Above(u)' = Above(u)]_vars
  <2> SUFFICES ASSUME NEW k \in Ops, NEW u \in Members \ {owner}, Next,
                      ops[k] # None, Actor(k) = u, Calm, Rank(u) > 0
               PROVE  Above(u)' = Above(u)
    BY <1>1 DEF Calm
  <2>1. Keeping(k, u)
    BY <1>1 DEF Keeping, Actor
  <2>2. CASE \E j \in Ops, v \in Members : StartAny(j, v)
    <3>1. UNCHANGED tables
      BY <1>1, <2>2, StartsFresh DEF Begins
    <3> QED
      BY <3>1, TablesKeep DEF tables
  <2>3. ASSUME NEW j \in Ops, Work(j) \/ Throw(j) PROVE Above(u)' = Above(u)
    <3>1. ops[j] # None
      BY <2>3, Busy
    <3>2. j = k
      BY <1>1, <3>1 DEF Sound, Calm
    <3> QED
      BY <2>1, <2>3, <3>2, WorkKeeps
  <2> QED
    BY <2>2, <2>3 DEF Next
<1> QED
  BY <1>1, BaseHolds, SoundHolds, LevelHolds, LowerHolds, PTL DEF Spec, KeepsItsPlace
=============================================================================
