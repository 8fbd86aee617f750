---------------------------- MODULE CatalogueProofs -----------------------------
(***************************************************************************)
(* Proofs about the catalogue: for any codes, barcodes, files and number   *)
(* of products, generated numbers are new, their check digits are right    *)
(* and tell every misread digit.                                           *)
(***************************************************************************)
EXTENDS CatalogueProperties, FiniteSetTheorems, SequenceTheorems, WellFoundedInduction, TLAPS

-------------------------------------------------------------------------------
\* Numbers, finite sets and recursion

\* A nonempty set of naturals has a least element.
LEMMA LeastExists ==
    ASSUME NEW S \in SUBSET Nat, S # {}
    PROVE  \E x \in S : \A y \in S : x <= y
<1> DEFINE Less == OpToRel(<, Nat)
<1>1. Less = {ss \in Nat \X Nat : ss[1] < ss[2]}
  BY DEF OpToRel
<1>2. IsWellFoundedOn(Less, Nat)
  BY NatLessThanWellFounded
<1> HIDE DEF Less
<1>3. \E x \in S : \A y \in S : ~ (<<y, x>> \in Less)
  BY <1>2, WFMin
<1>4. \A x, y \in Nat : y < x => <<y, x>> \in Less
  BY <1>1
<1>5. \A x, y \in S : <<y, x>> \notin Less => x <= y
  BY <1>4
<1> QED BY <1>3, <1>5

\* Min is that element.
LEMMA MinExists ==
    ASSUME NEW S \in SUBSET Nat, S # {}
    PROVE  Min(S) \in S /\ \A y \in S : Min(S) <= y
<1>1. \E x \in S : \A y \in S : x <= y
  BY LeastExists
<1> QED BY <1>1 DEF Min

\* What holds of nothing, and of one thing more whenever it holds of some, holds of all.
LEMMA AllRows ==
    ASSUME NEW D, IsFiniteSet(D), NEW G, {} \in G,
           \A T \in SUBSET D : \A x \in D \ T : T \in G => T \cup {x} \in G
    PROVE  D \in G
<1> SUFFICES ASSUME D \notin G PROVE FALSE
  OBVIOUS
<1> DEFINE Bad  == {T \in SUBSET D : T \notin G}
           Size == {Cardinality(T) : T \in Bad}
<1>1. \A T \in SUBSET D : IsFiniteSet(T) /\ Cardinality(T) \in Nat
  BY FS_Subset, FS_CardinalityType
<1>2. Size \in SUBSET Nat /\ Size # {}
  BY <1>1
<1>3. PICK n \in Size : \A m \in Size : n <= m
  <2> HIDE DEF Size
  <2> QED BY <1>2, LeastExists
<1>4. PICK T \in Bad : n = Cardinality(T)
  OBVIOUS
<1>5. PICK x \in T : TRUE
  OBVIOUS
<1>6. Cardinality(T \ {x}) = Cardinality(T) - 1
  BY <1>1, FS_RemoveElement
<1>7. T \ {x} \in G
  <2>1. T \ {x} \in SUBSET D
    OBVIOUS
  <2>2. CASE T \ {x} \in Bad
    <3>1. Cardinality(T) <= Cardinality(T \ {x})
      BY <1>3, <1>4, <2>2
    <3>2. Cardinality(T) \in Nat
      BY <1>1
    <3> QED BY <1>6, <3>1, <3>2
  <2> QED BY <2>1, <2>2
<1>8. (T \ {x}) \cup {x} = T /\ x \in D \ (T \ {x})
  OBVIOUS
<1>9. PICK U \in SUBSET D : U = T \ {x}
  OBVIOUS
<1>10. U \cup {x} \in G
  BY <1>7, <1>8, <1>9
<1>11. U \cup {x} = T
  BY <1>8, <1>9
<1> QED BY <1>10, <1>11

\* What holds of 0 and with every number of the next one, holds up to any number.
LEMMA AllNumbers ==
    ASSUME NEW n \in Nat, NEW S, 0 \in S, \A i \in 0 .. n : i < n /\ i \in S => i + 1 \in S
    PROVE  \A i \in 0 .. n : i \in S
<1> SUFFICES ASSUME NEW k \in 0 .. n, k \notin S PROVE FALSE
  OBVIOUS
<1> DEFINE T == {i \in 0 .. n : i \notin S}
<1>1. T \in SUBSET Nat /\ k \in T
  OBVIOUS
<1>2. Min(T) \in T /\ \A i \in T : Min(T) <= i
  <2> HIDE DEF T
  <2> QED BY <1>1, MinExists
<1>3. Min(T) \in 1 .. n /\ Min(T) - 1 \notin T
  BY <1>2
<1> QED BY <1>2, <1>3

\* f is what comes of n steps from start.
Steps(f, start, F, n) ==
    f = [i \in 0 .. n |-> IF i = 0 THEN start ELSE F[<<f[i - 1], i>>]]

\* From any start steps can be taken one after the other.
LEMMA Iteration ==
    ASSUME NEW n \in Nat, NEW X, NEW start \in X, NEW F \in [X \X (1 .. n) -> X]
    PROVE  \E f \in [0 .. n -> X] : Steps(f, start, F, n)
<1> DEFINE Upto(f, k) == f[0] = start /\ \A i \in 1 .. k : f[i] = F[<<f[i - 1], i>>]
           S == {k \in 0 .. n : \E f \in [0 .. k -> X] : Upto(f, k)}
<1>1. 0 \in S
  <2> DEFINE f == [i \in 0 .. 0 |-> start]
  <2>1. f \in [0 .. 0 -> X] /\ f[0] = start
    OBVIOUS
  <2>2. Upto(f, 0)
    BY <2>1
  <2> HIDE DEF f, Upto
  <2> QED BY <2>1, <2>2
<1>2. ASSUME NEW k \in 0 .. n, k < n, k \in S PROVE k + 1 \in S
  <2>1. PICK f \in [0 .. k -> X] : f[0] = start /\ \A i \in 1 .. k : f[i] = F[<<f[i - 1], i>>]
    BY <1>2
  <2> DEFINE g == [i \in 0 .. k + 1 |-> IF i <= k THEN f[i] ELSE F[<<f[k], k + 1>>]]
  <2>2. F[<<f[k], k + 1>>] \in X
    BY <1>2
  <2>3. g \in [0 .. k + 1 -> X] /\ g[0] = start
    BY <1>2, <2>1, <2>2
  <2>4. g[k + 1] = F[<<f[k], k + 1>>] /\ \A i \in 0 .. k : g[i] = f[i]
    BY <1>2
  <2> HIDE DEF g
  <2>5. ASSUME NEW i \in 1 .. k + 1 PROVE g[i] = F[<<g[i - 1], i>>]
    <3>1. CASE i <= k
      BY <2>1, <2>4, <3>1
    <3>2. CASE i = k + 1
      <4>1. g[i - 1] = f[k]
        BY <1>2, <2>4, <3>2
      <4> QED BY <2>4, <3>2, <4>1
    <3> QED BY <3>1, <3>2
  <2>6. k + 1 \in 0 .. n
    BY <1>2
  <2> QED BY <2>3, <2>5, <2>6
<1>3. n \in S
  <2> HIDE DEF S
  <2> QED BY <1>1, <1>2, AllNumbers
<1>4. PICK f \in [0 .. n -> X] : f[0] = start /\ \A i \in 1 .. n : f[i] = F[<<f[i - 1], i>>]
  BY <1>3
<1>5. f = [i \in 0 .. n |-> IF i = 0 THEN start ELSE F[<<f[i - 1], i>>]]
  BY <1>4
<1> QED BY <1>5 DEF Steps

\* Max is the largest of finitely many.
LEMMA MaxExists ==
    ASSUME NEW S \in SUBSET Nat, IsFiniteSet(S), S # {}
    PROVE  Max(S) \in S /\ \A y \in S : y <= Max(S)
<1> DEFINE G == {T \in SUBSET S : T = {} \/ \E x \in T : \A y \in T : x >= y}
<1>1. {} \in G
  OBVIOUS
<1>2. ASSUME NEW T \in SUBSET S, NEW x \in S \ T, T \in G PROVE T \cup {x} \in G
  <2>1. CASE T = {}
    <3>1. x \in T \cup {x} /\ \A y \in T \cup {x} : x >= y
      BY <2>1
    <3> QED BY <3>1
  <2>2. CASE T # {}
    <3>1. PICK z \in T : \A y \in T : z >= y
      BY <1>2, <2>2
    <3>2. CASE z >= x
      BY <3>1, <3>2
    <3>3. CASE ~ (z >= x)
      <4>1. \A y \in T \cup {x} : x >= y
        <5>1. x \in Nat /\ z \in Nat /\ \A y \in T : y \in Nat
          OBVIOUS
        <5> QED BY <3>1, <3>3, <5>1
      <4> QED BY <4>1
    <3> QED BY <3>2, <3>3
  <2> QED BY <2>1, <2>2
<1>3. S \in G
  <2> HIDE DEF G
  <2> QED BY <1>1, <1>2, AllRows
<1>4. \E x \in S : \A y \in S : x >= y
  BY <1>3
<1>5. Max(S) \in S /\ \A y \in S : Max(S) >= y
  BY <1>4 DEF Max
<1>6. \A x, y \in Nat : x >= y <=> y <= x
  OBVIOUS
<1> QED BY <1>5, <1>6

-------------------------------------------------------------------------------
\* Sums over places

\* A sum adds one place after the other.
LEMMA SumEquation ==
    ASSUME NEW n \in Nat, NEW f \in [0 .. n - 1 -> Int]
    PROVE  \E g \in [0 .. n -> Int] :
              g[0] = 0 /\ (\A i \in 1 .. n : g[i] = g[i - 1] + f[i - 1]) /\ SumTo(f, n) = g[n]
<1> DEFINE G(g) == [i \in 0 .. n |-> IF i = 0 THEN 0 ELSE g[i - 1] + f[i - 1]]
           F == [p \in Int \X (1 .. n) |-> p[1] + f[p[2] - 1]]
<1>1. /\ 0 \in Int /\ F \in [Int \X (1 .. n) -> Int]
      /\ \A x \in Int, i \in 1 .. n : F[<<x, i>>] = x + f[i - 1]
  <2>1. \A i \in 1 .. n : i - 1 \in 0 .. n - 1
    OBVIOUS
  <2>2. PICK e \in [1 .. n -> Int] : e = [i \in 1 .. n |-> f[i - 1]]
    BY <2>1
  <2>3. F = [p \in Int \X (1 .. n) |-> p[1] + e[p[2]]]
    BY <2>2
  <2> HIDE DEF F
  <2>4. F \in [Int \X (1 .. n) -> Int] /\ \A x \in Int, i \in 1 .. n : F[<<x, i>>] = x + e[i]
    <3>1. \A x \in Int, i \in 1 .. n : x + e[i] \in Int
      OBVIOUS
    <3> QED BY <2>3, <3>1
  <2> QED BY <2>2, <2>4
<1> HIDE DEF F
<1>2. PICK h \in [0 .. n -> Int] : Steps(h, 0, F, n)
  BY <1>1, Iteration
<1>3. h = G(h)
  <2>1. h = [i \in 0 .. n |-> IF i = 0 THEN 0 ELSE F[<<h[i - 1], i>>]]
    BY <1>2 DEF Steps
  <2>2. ASSUME NEW i \in 1 .. n PROVE F[<<h[i - 1], i>>] = h[i - 1] + f[i - 1]
    <3>1. h[i - 1] \in Int
      OBVIOUS
    <3> QED BY <1>1, <3>1
  <2>3. \A i \in 0 .. n : i # 0 => i \in 1 .. n
    OBVIOUS
  <2> QED BY <2>1, <2>2, <2>3
<1>4. SumTo(f, n) = (CHOOSE g : g = G(g))[n]
  BY DEF SumTo
<1> HIDE DEF G
<1>5. PICK g : g = CHOOSE x : x = G(x)
  OBVIOUS
<1>6. g = G(g)
  BY <1>3, <1>5
<1> USE DEF G
<1>7. DOMAIN g = 0 .. n /\ g[0] = 0 /\ \A i \in 1 .. n : g[i] = g[i - 1] + f[i - 1]
  BY <1>6
<1>8. \A i \in 0 .. n : g[i] \in Int
  <2> DEFINE S == {i \in 0 .. n : g[i] \in Int}
  <2>1. 0 \in S
    BY <1>7
  <2>2. \A i \in 0 .. n : i < n /\ i \in S => i + 1 \in S
    <3>1. ASSUME NEW i \in 0 .. n, i < n, i \in S PROVE i + 1 \in S
      <4>1. i + 1 \in 1 .. n /\ (i + 1) - 1 = i /\ f[i] \in Int
        BY <3>1
      <4> QED BY <1>7, <3>1, <4>1
    <3> QED BY <3>1
  <2> HIDE DEF S
  <2>3. \A i \in 0 .. n : i \in S
    BY <2>1, <2>2, AllNumbers
  <2> USE DEF S
  <2> QED BY <2>3
<1>9. g \in [0 .. n -> Int]
  <2>1. g = [i \in 0 .. n |-> g[i]]
    BY <1>6
  <2> QED BY <1>8, <2>1
<1>10. SumTo(f, n) = g[n]
  BY <1>4, <1>5
<1> QED BY <1>7, <1>9, <1>10

\* Sums that differ at one place differ by it.
LEMMA SumOnePlace ==
    ASSUME NEW n \in Nat, NEW f \in [0 .. n - 1 -> Int], NEW g \in [0 .. n - 1 -> Int],
           NEW q \in 0 .. n - 1, \A p \in 0 .. n - 1 : p # q => f[p] = g[p]
    PROVE  /\ SumTo(f, n) \in Int /\ SumTo(g, n) \in Int
           /\ SumTo(f, n) + g[q] = SumTo(g, n) + f[q]
<1>1. PICK a \in [0 .. n -> Int] :
          a[0] = 0 /\ (\A i \in 1 .. n : a[i] = a[i - 1] + f[i - 1]) /\ SumTo(f, n) = a[n]
  BY SumEquation
<1>2. PICK b \in [0 .. n -> Int] :
          b[0] = 0 /\ (\A i \in 1 .. n : b[i] = b[i - 1] + g[i - 1]) /\ SumTo(g, n) = b[n]
  BY SumEquation
<1> DEFINE S == {i \in 0 .. n : IF i <= q THEN a[i] = b[i] ELSE a[i] + g[q] = b[i] + f[q]}
<1>3. 0 \in S
  BY <1>1, <1>2
<1>4. ASSUME NEW i \in 0 .. n, i < n, i \in S PROVE i + 1 \in S
  <2>1. i + 1 \in 1 .. n /\ (i + 1) - 1 = i /\ i \in 0 .. n - 1
    BY <1>4
  <2>2. a[i + 1] = a[i] + f[i] /\ b[i + 1] = b[i] + g[i]
    BY <1>1, <1>2, <2>1
  <2>3. /\ a[i] \in Int /\ b[i] \in Int /\ f[i] \in Int /\ g[i] \in Int
        /\ f[q] \in Int /\ g[q] \in Int
    BY <2>1
  <2>4. CASE i < q
    <3>1. f[i] = g[i] /\ a[i] = b[i] /\ i + 1 <= q
      BY <1>4, <2>1, <2>4
    <3> QED BY <2>1, <2>2, <2>3, <3>1
  <2>5. CASE i = q
    <3>1. a[i] = b[i] /\ ~ (i + 1 <= q)
      BY <1>4, <2>1, <2>5
    <3>2. a[i + 1] + g[q] = b[i + 1] + f[q]
      BY <2>2, <2>3, <2>5, <3>1
    <3> QED BY <2>1, <3>1, <3>2
  <2>6. CASE i > q
    <3>1. f[i] = g[i] /\ a[i] + g[q] = b[i] + f[q] /\ ~ (i + 1 <= q)
      BY <1>4, <2>1, <2>6
    <3>2. PICK x, y, e, u, v \in Int :
              x = a[i] /\ y = b[i] /\ e = f[i] /\ u = g[q] /\ v = f[q]
      BY <2>3
    <3>3. x + u = y + v
      BY <3>1, <3>2
    <3>4. (x + e) + u = (y + e) + v
      BY <3>3
    <3> QED BY <2>1, <2>2, <3>1, <3>2, <3>4
  <2> QED BY <2>4, <2>5, <2>6
<1>5. \A i \in 0 .. n : i \in S
  <2> HIDE DEF S
  <2> QED BY <1>3, <1>4, AllNumbers
<1>6. a[n] + g[q] = b[n] + f[q]
  <2>1. n \in 0 .. n /\ ~ (n <= q)
    OBVIOUS
  <2> QED BY <1>5, <2>1
<1>7. a[n] \in Int /\ b[n] \in Int /\ f[q] \in Int /\ g[q] \in Int
  OBVIOUS
<1> QED BY <1>1, <1>2, <1>6, <1>7

\* One place more on the right.
LEMMA SumShifted ==
    ASSUME NEW n \in Nat, NEW f \in [0 .. n - 1 -> Int], NEW g \in [0 .. n -> Int],
           \A p \in 0 .. n - 1 : g[p + 1] = f[p]
    PROVE  SumTo(g, n + 1) = g[0] + SumTo(f, n) /\ SumTo(f, n) \in Int
<1>1. PICK a \in [0 .. n -> Int] :
          a[0] = 0 /\ (\A i \in 1 .. n : a[i] = a[i - 1] + f[i - 1]) /\ SumTo(f, n) = a[n]
  BY SumEquation
<1>2. PICK b \in [0 .. n + 1 -> Int] :
          b[0] = 0 /\ (\A i \in 1 .. n + 1 : b[i] = b[i - 1] + g[i - 1]) /\ SumTo(g, n + 1) = b[n + 1]
  <2>1. n + 1 \in Nat /\ (n + 1) - 1 = n
    OBVIOUS
  <2>2. PICK m \in Nat : m = n + 1
    BY <2>1
  <2>3. g \in [0 .. m - 1 -> Int]
    BY <2>1, <2>2
  <2>4. \E c \in [0 .. m -> Int] :
           c[0] = 0 /\ (\A i \in 1 .. m : c[i] = c[i - 1] + g[i - 1]) /\ SumTo(g, m) = c[m]
    BY <2>3, SumEquation
  <2> QED BY <2>2, <2>4
<1> DEFINE S == {i \in 0 .. n : b[i + 1] = g[0] + a[i]}
<1>3. 0 \in S
  <2>1. b[1] = b[0] + g[0] /\ g[0] \in Int
    BY <1>2
  <2> QED BY <1>1, <1>2, <2>1
<1>4. ASSUME NEW i \in 0 .. n, i < n, i \in S PROVE i + 1 \in S
  <2>1. /\ i + 1 \in 1 .. n /\ (i + 1) - 1 = i /\ i \in 0 .. n - 1
        /\ i + 2 \in 1 .. n + 1 /\ (i + 2) - 1 = i + 1 /\ (i + 1) + 1 = i + 2
    BY <1>4
  <2>2. a[i + 1] = a[i] + f[i] /\ b[i + 2] = b[i + 1] + g[i + 1]
    BY <1>1, <1>2, <2>1
  <2>3. g[i + 1] = f[i] /\ f[i] \in Int /\ a[i] \in Int /\ g[0] \in Int
    BY <2>1
  <2>4. b[i + 1] = g[0] + a[i]
    BY <1>4
  <2> QED BY <2>1, <2>2, <2>3, <2>4
<1>5. \A i \in 0 .. n : i \in S
  <2> HIDE DEF S
  <2> QED BY <1>3, <1>4, AllNumbers
<1> QED BY <1>1, <1>2, <1>5

-------------------------------------------------------------------------------
\* Digits

\* A place less each time.
LEMMA LeftEquation ==
    ASSUME NEW n \in Nat
    PROVE  /\ \A k \in 0 .. n + 1 : Left(n, k) \in Nat
           /\ Left(n, 0) = n
           /\ \A k \in 1 .. n + 1 : Left(n, k) = Left(n, k - 1) \div 10
<1> DEFINE G(g) == [i \in 0 .. n + 1 |-> IF i = 0 THEN n ELSE g[i - 1] \div 10]
<1>1. PICK m \in Nat : m = n + 1
  OBVIOUS
<1> DEFINE F == [p \in Nat \X (1 .. m) |-> p[1] \div 10]
<1>2. F \in [Nat \X (1 .. m) -> Nat] /\ \A x \in Nat, i \in 1 .. m : F[<<x, i>>] = x \div 10
  <2>1. \A x \in Nat : x \div 10 \in Nat
    OBVIOUS
  <2> QED BY <2>1
<1> HIDE DEF F
<1>3. PICK h \in [0 .. m -> Nat] : Steps(h, n, F, m)
  BY <1>2, Iteration
<1>4. h = G(h)
  <2>1. h = [i \in 0 .. m |-> IF i = 0 THEN n ELSE F[<<h[i - 1], i>>]]
    BY <1>3 DEF Steps
  <2>2. ASSUME NEW i \in 1 .. m PROVE F[<<h[i - 1], i>>] = h[i - 1] \div 10
    <3>1. h[i - 1] \in Nat
      OBVIOUS
    <3> QED BY <1>2, <3>1
  <2>3. \A i \in 0 .. m : i # 0 => i \in 1 .. m
    OBVIOUS
  <2> QED BY <1>1, <2>1, <2>2, <2>3
<1>5. PICK g : g = CHOOSE x : x = G(x)
  OBVIOUS
<1>6. \A k : Left(n, k) = g[k]
  BY <1>5 DEF Left
<1> HIDE DEF G
<1>7. g = G(g)
  BY <1>4, <1>5
<1> USE DEF G
<1>8. g[0] = n /\ \A i \in 1 .. m : g[i] = g[i - 1] \div 10
  BY <1>1, <1>7
<1>9. \A i \in 0 .. m : g[i] \in Nat
  <2> DEFINE S == {i \in 0 .. m : g[i] \in Nat}
  <2>1. 0 \in S
    BY <1>8
  <2>2. \A i \in 0 .. m : i < m /\ i \in S => i + 1 \in S
    <3>1. ASSUME NEW i \in 0 .. m, i < m, i \in S PROVE i + 1 \in S
      <4>1. i + 1 \in 1 .. m /\ (i + 1) - 1 = i /\ g[i] \in Nat
        BY <3>1
      <4>2. g[i + 1] = g[i] \div 10
        BY <1>8, <4>1
      <4> QED BY <4>1, <4>2
    <3> QED BY <3>1
  <2> HIDE DEF S
  <2>3. \A i \in 0 .. m : i \in S
    BY <2>1, <2>2, AllNumbers
  <2> USE DEF S
  <2> QED BY <2>3
<1> QED BY <1>1, <1>6, <1>8, <1>9

\* A number has fewer places than its value.
LEMMA LeftEnds ==
    ASSUME NEW n \in Nat
    PROVE  /\ Left(n, n + 1) = 0
           /\ \A j, k \in 0 .. n + 1 : j <= k /\ Left(n, j) = 0 => Left(n, k) = 0
<1>1. PICK m \in Nat : m = n + 1
  OBVIOUS
<1>2. PICK g \in [0 .. m -> Nat] : g = [k \in 0 .. m |-> Left(n, k)]
  BY <1>1, LeftEquation
<1>3. g[0] = n /\ \A k \in 1 .. m : g[k] = g[k - 1] \div 10
  <2>1. \A k \in 1 .. m : k - 1 \in 0 .. m /\ k \in 0 .. m
    OBVIOUS
  <2> QED BY <1>1, <1>2, <2>1, LeftEquation
<1>4. g[m] = 0
  <2> DEFINE S == {k \in 0 .. m : g[k] = 0 \/ g[k] + k <= n}
  <2>1. 0 \in S
    BY <1>3
  <2>2. ASSUME NEW k \in 0 .. m, k < m, k \in S PROVE k + 1 \in S
    <3>1. k + 1 \in 1 .. m /\ (k + 1) - 1 = k /\ g[k] \in Nat
      BY <2>2
    <3>2. g[k + 1] = g[k] \div 10
      BY <1>3, <3>1
    <3>3. \A x \in Nat : x # 0 => x \div 10 + 1 <= x
      OBVIOUS
    <3>4. CASE g[k] = 0
      BY <3>1, <3>2, <3>4
    <3>5. CASE g[k] # 0
      <4>1. g[k] + k <= n /\ g[k] \div 10 + 1 <= g[k] /\ g[k] \div 10 \in Nat
        BY <2>2, <3>1, <3>3, <3>5
      <4> QED BY <3>1, <3>2, <4>1
    <3> QED BY <3>4, <3>5
  <2>3. \A k \in 0 .. m : k \in S
    <3> HIDE DEF S
    <3> QED BY <2>1, <2>2, AllNumbers
  <2>4. m \in S /\ g[m] \in Nat
    BY <2>3
  <2> QED BY <1>1, <2>4
<1>5. ASSUME NEW j \in 0 .. m, g[j] = 0 PROVE \A k \in 0 .. m : j <= k => g[k] = 0
  <2> DEFINE S == {k \in 0 .. m : j <= k => g[k] = 0}
  <2>1. 0 \in S
    BY <1>5
  <2>2. ASSUME NEW k \in 0 .. m, k < m, k \in S PROVE k + 1 \in S
    <3>1. k + 1 \in 1 .. m /\ (k + 1) - 1 = k
      BY <2>2
    <3>2. g[k + 1] = g[k] \div 10
      BY <1>3, <3>1
    <3>3. CASE j <= k
      BY <2>2, <3>1, <3>2, <3>3
    <3>4. CASE j = k + 1
      BY <1>5, <3>1, <3>4
    <3>5. CASE j > k + 1
      BY <3>1, <3>5
    <3> QED BY <3>3, <3>4, <3>5
  <2>3. \A k \in 0 .. m : k \in S
    <3> HIDE DEF S
    <3> QED BY <2>1, <2>2, AllNumbers
  <2> QED BY <2>3
<1>6. \A k \in 0 .. m : g[k] = Left(n, k)
  BY <1>2
<1> QED BY <1>1, <1>4, <1>5, <1>6

\* The digits of a number end where nothing is left, and at no place before.
LEMMA DigitsEnd ==
    ASSUME NEW n \in Nat
    PROVE  /\ Digits(n) \in 1 .. n + 1 /\ Left(n, Digits(n)) = 0
           /\ Digits(n) > 1 => Left(n, Digits(n) - 1) # 0
           /\ \A k \in 1 .. n + 1 : Left(n, k) = 0 /\ (k > 1 => Left(n, k - 1) # 0) => k = Digits(n)
<1> DEFINE Ends(k) == Left(n, k) = 0 /\ (k > 1 => Left(n, k - 1) # 0)
           Z == {k \in 1 .. n + 1 : Left(n, k) = 0}
<1>1. n + 1 \in Z /\ Z \in SUBSET Nat
  BY LeftEnds
<1>2. PICK k \in Z : \A j \in Z : k <= j
  <2> HIDE DEF Z
  <2> QED BY <1>1, LeastExists
<1>3. k \in 1 .. n + 1 /\ Ends(k)
  <2>1. ASSUME k > 1 PROVE Left(n, k - 1) # 0
    <3>1. k - 1 \in 1 .. n + 1 /\ ~ (k <= k - 1)
      BY <2>1
    <3> QED BY <1>2, <3>1
  <2> QED BY <2>1
<1>4. PICK d : d = Digits(n)
  OBVIOUS
<1>5. d = CHOOSE j \in 1 .. n + 1 : Ends(j)
  BY <1>4 DEF Digits
<1>6. d \in 1 .. n + 1 /\ Ends(d)
  <2>1. \E j \in 1 .. n + 1 : Ends(j)
    BY <1>3
  <2> HIDE DEF Ends
  <2> QED BY <1>5, <2>1
<1>7. ASSUME NEW i \in 1 .. n + 1, NEW j \in 1 .. n + 1, Ends(i), Ends(j) PROVE ~ (i < j)
  <2> SUFFICES ASSUME i < j PROVE FALSE
    OBVIOUS
  <2>1. i \in 0 .. n + 1 /\ j - 1 \in 0 .. n + 1 /\ i <= j - 1 /\ j > 1
    OBVIOUS
  <2>2. Left(n, i) = 0 /\ Left(n, j - 1) # 0
    BY <1>7, <2>1
  <2> QED BY <2>1, <2>2, LeftEnds
<1>8. ASSUME NEW j \in 1 .. n + 1, Ends(j) PROVE j = d
  <2>1. ~ (j < d) /\ ~ (d < j)
    BY <1>6, <1>7, <1>8
  <2> QED BY <1>6, <2>1
<1> QED BY <1>4, <1>6, <1>8

\* A number with a digit appended.
LEMMA Appended ==
    ASSUME NEW n \in Nat \ {0}, NEW m \in Nat, m \div 10 = n
    PROVE  /\ Digits(m) = Digits(n) + 1
           /\ Digit(m, 0) = m % 10
           /\ \A p \in 0 .. Digits(n) : Digit(m, p + 1) = Digit(n, p)
<1>1. m > n
  OBVIOUS
<1> DEFINE S == {k \in 0 .. n + 1 : Left(m, k + 1) = Left(n, k)}
<1>2. Left(m, 0) = m /\ \A k \in 1 .. m + 1 : Left(m, k) = Left(m, k - 1) \div 10
  BY <1>1, LeftEquation
<1>3. Left(n, 0) = n /\ \A k \in 1 .. n + 1 : Left(n, k) = Left(n, k - 1) \div 10
  BY LeftEquation
<1>4. 0 \in S
  <2>1. 1 \in 1 .. m + 1 /\ 1 - 1 = 0 /\ 0 \in 0 .. n + 1 /\ 0 + 1 = 1
    BY <1>1
  <2>2. Left(m, 1) = Left(m, 0) \div 10
    BY <1>2, <2>1
  <2> QED BY <1>1, <1>2, <1>3, <2>1, <2>2
<1>5. ASSUME NEW k \in 0 .. n + 1, k < n + 1, k \in S PROVE k + 1 \in S
  <2>1. /\ k + 1 \in 1 .. n + 1 /\ (k + 1) - 1 = k /\ k + 1 \in 0 .. n + 1
        /\ (k + 1) + 1 \in 1 .. m + 1 /\ ((k + 1) + 1) - 1 = k + 1
    BY <1>1, <1>5
  <2>2. Left(n, k + 1) = Left(n, k) \div 10
    BY <1>3, <2>1
  <2>3. Left(m, (k + 1) + 1) = Left(m, k + 1) \div 10
    BY <1>2, <2>1
  <2> QED BY <1>5, <2>1, <2>2, <2>3
<1>6. \A k \in 0 .. n + 1 : k \in S
  <2>1. PICK l \in Nat : l = n + 1
    OBVIOUS
  <2> HIDE DEF S
  <2>2. \A k \in 0 .. l : k < l /\ k \in S => k + 1 \in S
    BY <1>5, <2>1
  <2>3. \A k \in 0 .. l : k \in S
    BY <1>4, <2>2, AllNumbers
  <2> QED BY <2>1, <2>3
<1>7. PICK d : d = Digits(n)
  OBVIOUS
<1>8. d \in 1 .. n + 1 /\ Left(n, d) = 0 /\ (d > 1 => Left(n, d - 1) # 0)
  BY <1>7, DigitsEnd
<1>9. Left(m, d + 1) = 0
  BY <1>6, <1>8
<1>10. Left(m, (d + 1) - 1) # 0
  <2>1. CASE d = 1
    <3>1. Left(m, 0 + 1) = Left(n, 0) /\ 0 + 1 = (d + 1) - 1
      BY <1>6, <2>1
    <3> QED BY <1>3, <3>1
  <2>2. CASE d > 1
    <3>1. d - 1 \in 0 .. n + 1 /\ (d - 1) + 1 = (d + 1) - 1
      BY <1>8, <2>2
    <3>2. Left(m, (d - 1) + 1) = Left(n, d - 1)
      BY <1>6, <3>1
    <3> QED BY <1>8, <2>2, <3>1, <3>2
  <2> QED BY <1>8, <2>1, <2>2
<1>11. d + 1 \in 1 .. m + 1
  BY <1>1, <1>8
<1>12. Digits(m) = d + 1
  BY <1>1, <1>9, <1>10, <1>11, DigitsEnd
<1>13. \A p \in 0 .. d : Digit(m, p + 1) = Digit(n, p)
  BY <1>6, <1>8 DEF Digit
<1> QED BY <1>1, <1>2, <1>7, <1>12, <1>13 DEF Digit

\* What the check digit of a body adds up, place by place, and what a whole
\* number with its check digit does.
BodyTerms(n) == [place \in 0 .. Digits(n) - 1 |->
    IF place % 2 = 0 THEN Doubled(Digit(n, place)) ELSE Digit(n, place)]
NumberTerms(n) == [place \in 0 .. Digits(n) - 1 |->
    IF place % 2 = 1 THEN Doubled(Digit(n, place)) ELSE Digit(n, place)]

\* Doubling keeps digits apart.
LEMMA DoubledDigits ==
    /\ \A d \in 0 .. 9 : Doubled(d) \in 0 .. 9
    /\ \A d, e \in 0 .. 9 : Doubled(d) = Doubled(e) => d = e
  BY DEF Doubled

\* Digits are digits.
LEMMA DigitType ==
    ASSUME NEW n \in Nat
    PROVE  /\ Digits(n) \in Nat \ {0}
           /\ \A p \in 0 .. Digits(n) - 1 : Digit(n, p) \in 0 .. 9
<1>1. PICK d \in Nat : d = Digits(n) /\ d >= 1 /\ d <= n + 1
  <2>1. Digits(n) \in 1 .. n + 1
    BY DigitsEnd
  <2> QED BY <2>1
<1>2. \A p \in 0 .. d - 1 : Left(n, p) \in Nat
  <2>1. \A p \in 0 .. d - 1 : p \in 0 .. n + 1
    BY <1>1
  <2>2. \A p \in 0 .. n + 1 : Left(n, p) \in Nat
    BY LeftEquation
  <2> QED BY <2>1, <2>2
<1>3. \A x \in Nat : x % 10 \in 0 .. 9
  OBVIOUS
<1> QED BY <1>1, <1>2, <1>3 DEF Digit

\* The terms are digits too.
LEMMA TermsType ==
    ASSUME NEW n \in Nat
    PROVE  /\ BodyTerms(n) \in [0 .. Digits(n) - 1 -> Int]
           /\ NumberTerms(n) \in [0 .. Digits(n) - 1 -> Int]
           /\ \A p \in 0 .. Digits(n) - 1 : NumberTerms(n)[p] \in 0 .. 9
<1>1. PICK d \in Nat : d = Digits(n)
  BY DigitType
<1>2. \A p \in 0 .. d - 1 : Digit(n, p) \in 0 .. 9 /\ Doubled(Digit(n, p)) \in 0 .. 9
  BY <1>1, DigitType, DoubledDigits
<1>3. 0 .. 9 \subseteq Int
  OBVIOUS
<1> QED BY <1>1, <1>2, <1>3 DEF BodyTerms, NumberTerms

\* A check digit is a digit.
LEMMA CheckDigitType ==
    ASSUME NEW n \in Nat
    PROVE  LuhnTotal(n) \in Int /\ CheckDigit(n) \in 0 .. 9
           /\ (LuhnTotal(n) + CheckDigit(n)) % 10 = 0
<1>1. PICK d \in Nat : d = Digits(n)
  BY DigitType
<1>2. BodyTerms(n) \in [0 .. d - 1 -> Int]
  BY <1>1, TermsType
<1>3. SumTo(BodyTerms(n), d) \in Int
  <2>1. PICK f \in [0 .. d - 1 -> Int] : f = BodyTerms(n)
    BY <1>2
  <2>2. SumTo(f, d) \in Int
    <3>1. PICK g \in [0 .. d -> Int] : SumTo(f, d) = g[d]
      BY SumEquation
    <3> QED BY <3>1
  <2> QED BY <2>1, <2>2
<1>4. LuhnTotal(n) = SumTo(BodyTerms(n), d)
  BY <1>1 DEF LuhnTotal, BodyTerms
<1>5. \A t \in Int : (10 - (t % 10)) % 10 \in 0 .. 9 /\ (t + ((10 - (t % 10)) % 10)) % 10 = 0
  OBVIOUS
<1> QED BY <1>3, <1>4, <1>5 DEF CheckDigit

\* A body can be read off its barcode.
LEMMA BarcodeType ==
    ASSUME NEW n \in Nat
    PROVE  Barcode(n) \in Nat /\ Barcode(n) >= n /\ Barcode(n) \div 10 = n
<1>1. PICK c \in 0 .. 9 : c = CheckDigit(n)
  BY CheckDigitType
<1>2. n * 10 + c \in Nat /\ n * 10 + c >= n /\ (n * 10 + c) \div 10 = n
  OBVIOUS
<1> QED BY <1>1, <1>2 DEF Barcode

\* A generated barcode ends in its check digit.
LEMMA BarcodeIsValid ==
    ASSUME NEW n \in Nat \ {0}
    PROVE  LuhnValid(Barcode(n))
<1>1. PICK c \in 0 .. 9 : c = CheckDigit(n)
  BY CheckDigitType
<1>2. PICK m \in Nat : m = n * 10 + c /\ m \div 10 = n /\ m % 10 = c
  <2>1. n * 10 + c \in Nat /\ (n * 10 + c) \div 10 = n /\ (n * 10 + c) % 10 = c
    OBVIOUS
  <2> QED BY <2>1
<1>3. Barcode(n) = m
  BY <1>1, <1>2 DEF Barcode
<1>4. PICK d \in Nat : d = Digits(n) /\ d >= 1
  BY DigitType
<1>5. Digits(m) = d + 1 /\ Digit(m, 0) = c /\ \A p \in 0 .. d : Digit(m, p + 1) = Digit(n, p)
  <2>1. /\ Digits(m) = Digits(n) + 1 /\ Digit(m, 0) = c
        /\ \A p \in 0 .. Digits(n) : Digit(m, p + 1) = Digit(n, p)
    BY <1>2, Appended
  <2> QED BY <1>4, <2>1
<1>6. PICK f \in [0 .. d - 1 -> Int] : f = BodyTerms(n)
  BY <1>4, TermsType
<1>7. PICK g \in [0 .. d -> Int] : g = NumberTerms(m)
  <2>1. (d + 1) - 1 = d
    OBVIOUS
  <2> QED BY <1>5, <2>1, TermsType
<1>8. g[0] = c
  <2>1. g = [place \in 0 .. (d + 1) - 1 |->
               IF place % 2 = 1 THEN Doubled(Digit(m, place)) ELSE Digit(m, place)]
    BY <1>5, <1>7 DEF NumberTerms
  <2>2. 0 \in 0 .. (d + 1) - 1 /\ 0 % 2 # 1
    OBVIOUS
  <2> QED BY <1>5, <2>1, <2>2
<1>9. ASSUME NEW p \in 0 .. d - 1 PROVE g[p + 1] = f[p]
  <2>1. g = [place \in 0 .. (d + 1) - 1 |->
               IF place % 2 = 1 THEN Doubled(Digit(m, place)) ELSE Digit(m, place)]
    BY <1>5, <1>7 DEF NumberTerms
  <2>2. f = [place \in 0 .. d - 1 |->
               IF place % 2 = 0 THEN Doubled(Digit(n, place)) ELSE Digit(n, place)]
    BY <1>4, <1>6 DEF BodyTerms
  <2>3. p + 1 \in 0 .. (d + 1) - 1 /\ p \in 0 .. d
    OBVIOUS
  <2>4. (p + 1) % 2 = 1 <=> p % 2 = 0
    OBVIOUS
  <2>5. Digit(m, p + 1) = Digit(n, p)
    BY <1>5, <2>3
  <2> QED BY <2>1, <2>2, <2>3, <2>4, <2>5
<1>10. SumTo(g, d + 1) = c + SumTo(f, d) /\ SumTo(f, d) \in Int
  BY <1>8, <1>9, SumShifted
<1>11. LuhnTotal(n) = SumTo(f, d)
  BY <1>4, <1>6 DEF LuhnTotal, BodyTerms
<1>12. (LuhnTotal(n) + c) % 10 = 0
  BY <1>1, CheckDigitType
<1>13. SumTo(g, d + 1) % 10 = 0
  <2>1. PICK t \in Int : t = SumTo(f, d)
    BY <1>10
  <2>2. t + c = c + t
    OBVIOUS
  <2> QED BY <1>10, <1>11, <1>12, <2>1, <2>2
<1>14. LuhnValid(m)
  BY <1>5, <1>7, <1>13 DEF LuhnValid, NumberTerms
<1> QED BY <1>3, <1>14

\* A number is its digits.
LEMMA EqualDigits ==
    ASSUME NEW a \in Nat, NEW b \in Nat, Digits(a) = Digits(b),
           \A p \in 0 .. Digits(a) - 1 : Digit(a, p) = Digit(b, p)
    PROVE  a = b
<1>1. PICK d \in Nat : d = Digits(a) /\ d = Digits(b) /\ d <= a + 1 /\ d <= b + 1
  <2>1. Digits(a) \in 1 .. a + 1 /\ Digits(b) \in 1 .. b + 1
    BY DigitsEnd
  <2> QED BY <2>1
<1> DEFINE S == {k \in 0 .. d : Left(a, d - k) = Left(b, d - k)}
<1>2. 0 \in S
  <2>1. d - 0 = d /\ 0 \in 0 .. d
    OBVIOUS
  <2>2. Left(a, d) = 0 /\ Left(b, d) = 0
    BY <1>1, DigitsEnd
  <2> QED BY <2>1, <2>2
<1>3. ASSUME NEW k \in 0 .. d, k < d, k \in S PROVE k + 1 \in S
  <2>1. PICK j \in Nat : j = d - (k + 1) /\ j + 1 = d - k /\ j <= d - 1 /\ j + 1 <= d
    BY <1>3
  <2>2. j \in 0 .. d - 1 /\ j + 1 \in 1 .. a + 1 /\ j + 1 \in 1 .. b + 1 /\ (j + 1) - 1 = j
        /\ j \in 0 .. a + 1 /\ j \in 0 .. b + 1
    BY <1>1, <2>1
  <2>3. PICK x, y \in Nat : x = Left(a, j) /\ y = Left(b, j)
    BY <2>2, LeftEquation
  <2>4. x % 10 = y % 10
    <3>1. Digit(a, j) = Digit(b, j)
      BY <1>1, <2>2
    <3> QED BY <2>3, <3>1 DEF Digit
  <2>5. x \div 10 = y \div 10
    <3>1. Left(a, j + 1) = Left(a, j) \div 10 /\ Left(b, j + 1) = Left(b, j) \div 10
      BY <2>2, LeftEquation
    <3>2. Left(a, j + 1) = Left(b, j + 1)
      BY <1>3, <2>1
    <3> QED BY <2>3, <3>1, <3>2
  <2>6. x = y
    BY <2>4, <2>5
  <2>7. k + 1 \in 0 .. d
    BY <1>3
  <2> QED BY <2>1, <2>3, <2>6, <2>7
<1>4. \A k \in 0 .. d : k \in S
  <2> HIDE DEF S
  <2> QED BY <1>2, <1>3, AllNumbers
<1>5. Left(a, 0) = Left(b, 0)
  <2>1. d \in 0 .. d /\ d - d = 0
    OBVIOUS
  <2> QED BY <1>4, <2>1
<1> QED BY <1>5, LeftEquation

\* Two multiples of ten do not differ by one digit.
LEMMA SameRemainder ==
    ASSUME NEW s \in Int, NEW t \in Int, NEW u \in 0 .. 9, NEW v \in 0 .. 9,
           s % 10 = 0, t % 10 = 0, s + v = t + u
    PROVE  u = v
<1>1. (s + v) % 10 = v /\ (t + u) % 10 = u
  OBVIOUS
<1> QED BY <1>1

\* One misread digit makes a number invalid.
LEMMA OneMisread ==
    ASSUME NEW a \in Nat, NEW b \in Nat, LuhnValid(a), LuhnValid(b),
           a # b, Digits(a) = Digits(b)
    PROVE  Cardinality({place \in 0 .. Digits(a) - 1 : Digit(a, place) # Digit(b, place)}) > 1
<1>1. PICK d \in Nat : d = Digits(a) /\ d = Digits(b)
  BY DigitType
<1> DEFINE P == {place \in 0 .. d - 1 : Digit(a, place) # Digit(b, place)}
<1>2. IsFiniteSet(P) /\ Cardinality(P) \in Nat
  <2>1. 0 \in Int /\ d - 1 \in Int
    OBVIOUS
  <2>2. IsFiniteSet(0 .. d - 1) /\ P \subseteq 0 .. d - 1
    BY <2>1, FS_Interval
  <2> QED BY <2>2, FS_Subset, FS_CardinalityType
<1>3. Cardinality(P) # 0
  <2> SUFFICES ASSUME Cardinality(P) = 0 PROVE FALSE
    OBVIOUS
  <2>1. P = {}
    <3> HIDE DEF P
    <3> QED BY <1>2, FS_EmptySet
  <2> QED BY <1>1, <2>1, EqualDigits
<1>4. Cardinality(P) # 1
  <2> SUFFICES ASSUME Cardinality(P) = 1 PROVE FALSE
    OBVIOUS
  <2>1. \E x : P = {x}
    <3> HIDE DEF P
    <3> QED BY <1>2, FS_Singleton
  <2>2. PICK q \in P : \A p \in P : p = q
    BY <2>1
  <2>3. PICK f \in [0 .. d - 1 -> Int] : f = NumberTerms(a) /\ \A p \in 0 .. d - 1 : f[p] \in 0 .. 9
    BY <1>1, TermsType
  <2>4. PICK g \in [0 .. d - 1 -> Int] : g = NumberTerms(b) /\ \A p \in 0 .. d - 1 : g[p] \in 0 .. 9
    BY <1>1, TermsType
  <2>5. /\ f = [place \in 0 .. d - 1 |->
                  IF place % 2 = 1 THEN Doubled(Digit(a, place)) ELSE Digit(a, place)]
        /\ g = [place \in 0 .. d - 1 |->
                  IF place % 2 = 1 THEN Doubled(Digit(b, place)) ELSE Digit(b, place)]
    BY <1>1, <2>3, <2>4 DEF NumberTerms
  <2>6. \A p \in 0 .. d - 1 : p # q => f[p] = g[p]
    BY <2>2, <2>5
  <2>7. /\ SumTo(f, d) \in Int /\ SumTo(g, d) \in Int
        /\ SumTo(f, d) + g[q] = SumTo(g, d) + f[q]
    <3>1. q \in 0 .. d - 1
      OBVIOUS
    <3> HIDE DEF P
    <3> QED BY <2>6, <3>1, SumOnePlace
  <2>8. SumTo(f, d) % 10 = 0 /\ SumTo(g, d) % 10 = 0
    BY <1>1, <2>3, <2>4 DEF LuhnValid, NumberTerms
  <2>9. f[q] = g[q]
    <3>1. PICK s, t \in Int : s = SumTo(f, d) /\ t = SumTo(g, d)
      BY <2>7
    <3>2. PICK u, v \in 0 .. 9 : u = f[q] /\ v = g[q]
      BY <2>3, <2>4
    <3>3. s + v = t + u /\ s % 10 = 0 /\ t % 10 = 0
      BY <2>7, <2>8, <3>1, <3>2
    <3>4. u = v
      BY <3>1, <3>2, <3>3, SameRemainder
    <3> QED BY <3>2, <3>4
  <2>10. PICK x, y \in 0 .. 9 : x = Digit(a, q) /\ y = Digit(b, q) /\ x # y
    BY <1>1, DigitType
  <2>11. f[q] = (IF q % 2 = 1 THEN Doubled(x) ELSE x) /\ g[q] = (IF q % 2 = 1 THEN Doubled(y) ELSE y)
    BY <2>5, <2>10
  <2>12. Doubled(x) # Doubled(y)
    BY <2>10, DoubledDigits
  <2> QED BY <2>9, <2>10, <2>11, <2>12
<1>5. Cardinality(P) > 1
  BY <1>2, <1>3, <1>4
<1> QED BY <1>1, <1>5

-------------------------------------------------------------------------------
\* The next free numbers

\* The first number after x that is not taken.
After(x, taken) == Min((x + 1 .. x + 1 + Cardinality(taken)) \ taken)

\* There is one: more numbers are looked at than are taken.
LEMMA AfterIsFree ==
    ASSUME NEW x \in Nat, NEW taken, IsFiniteSet(taken)
    PROVE  After(x, taken) \in Nat /\ After(x, taken) > x /\ After(x, taken) \notin taken
<1>1. PICK c \in Nat : c = Cardinality(taken)
  BY FS_CardinalityType
<1> DEFINE I == x + 1 .. x + 1 + c
           S == I \ taken
<1>2. IsFiniteSet(I) /\ Cardinality(I) = c + 1
  <2>1. x + 1 \in Int /\ x + 1 + c \in Int /\ ~ (x + 1 > x + 1 + c)
        /\ (x + 1 + c) - (x + 1) + 1 = c + 1
    OBVIOUS
  <2> QED BY <2>1, FS_Interval
<1>3. S # {}
  <2> SUFFICES ASSUME I \subseteq taken PROVE FALSE
    OBVIOUS
  <2>1. Cardinality(I) <= Cardinality(taken)
    <3> HIDE DEF I
    <3> QED BY FS_Subset
  <2> QED BY <1>1, <1>2, <2>1
<1>4. S \in SUBSET Nat
  OBVIOUS
<1>5. Min(S) \in S
  <2> HIDE DEF S
  <2> QED BY <1>3, <1>4, MinExists
<1>6. \A y \in I : y \in Nat /\ y > x
  OBVIOUS
<1> QED BY <1>1, <1>5, <1>6 DEF After

\* One after the other from first on, numbers that are not taken, each larger
\* than those before.
LEMMA UntakenIsFree ==
    ASSUME NEW count \in Nat, NEW first \in Nat \ {0}, NEW taken, IsFiniteSet(taken)
    PROVE  /\ \A k \in 1 .. count : /\ Untaken(count, first, taken)[k] \in Nat
                                    /\ Untaken(count, first, taken)[k] >= first
                                    /\ Untaken(count, first, taken)[k] \notin taken
           /\ \A j, k \in 1 .. count :
                 j < k => Untaken(count, first, taken)[j] < Untaken(count, first, taken)[k]
<1> DEFINE G(g) == [k \in 0 .. count |-> IF k = 0 THEN first - 1 ELSE After(g[k - 1], taken)]
           F == [p \in Nat \X (1 .. count) |-> After(p[1], taken)]
<1>1. /\ F \in [Nat \X (1 .. count) -> Nat]
      /\ \A x \in Nat, i \in 1 .. count : F[<<x, i>>] = After(x, taken)
  <2>1. \A x \in Nat : After(x, taken) \in Nat
    BY AfterIsFree
  <2> QED BY <2>1
<1> HIDE DEF F
<1>2. first - 1 \in Nat
  OBVIOUS
<1>3. PICK h \in [0 .. count -> Nat] : Steps(h, first - 1, F, count)
  BY <1>1, <1>2, Iteration
<1>4. h = G(h)
  <2>1. h = [i \in 0 .. count |-> IF i = 0 THEN first - 1 ELSE F[<<h[i - 1], i>>]]
    BY <1>3 DEF Steps
  <2>2. ASSUME NEW i \in 1 .. count PROVE F[<<h[i - 1], i>>] = After(h[i - 1], taken)
    <3>1. h[i - 1] \in Nat
      OBVIOUS
    <3> QED BY <1>1, <3>1
  <2>3. \A i \in 0 .. count : i # 0 => i \in 1 .. count
    OBVIOUS
  <2> QED BY <2>1, <2>2, <2>3
<1>5. PICK g : g = CHOOSE x : x = G(x)
  OBVIOUS
<1>6. Untaken(count, first, taken) = g
  BY <1>5 DEF Untaken, After
<1> HIDE DEF G
<1>7. g = G(g)
  BY <1>4, <1>5
<1> USE DEF G
<1>8. g[0] = first - 1 /\ \A i \in 1 .. count : g[i] = After(g[i - 1], taken)
  BY <1>7
<1> DEFINE S == {i \in 0 .. count : g[i] \in Nat /\ \A j \in 0 .. i : j < i => g[j] \in Nat /\ g[j] < g[i]}
<1>9. 0 \in S
  BY <1>2, <1>8
<1>10. ASSUME NEW i \in 0 .. count, i < count, i \in S PROVE i + 1 \in S
  <2>1. i + 1 \in 1 .. count /\ (i + 1) - 1 = i /\ g[i] \in Nat
    BY <1>10
  <2>2. g[i + 1] = After(g[i], taken)
    BY <1>8, <2>1
  <2>3. g[i + 1] \in Nat /\ g[i + 1] > g[i]
    BY <2>1, <2>2, AfterIsFree
  <2>4. ASSUME NEW j \in 0 .. i + 1, j < i + 1 PROVE g[j] \in Nat /\ g[j] < g[i + 1]
    <3>1. CASE j = i
      BY <2>1, <2>3, <3>1
    <3>2. CASE j < i
      <4>1. j \in 0 .. i /\ j \in 0 .. count
        BY <3>2
      <4>2. g[j] \in Nat /\ g[j] < g[i]
        BY <1>10, <3>2, <4>1
      <4> QED BY <2>1, <2>3, <4>2
    <3> QED BY <2>4, <3>1, <3>2
  <2> QED BY <2>1, <2>3, <2>4
<1>11. \A i \in 0 .. count : i \in S
  <2> HIDE DEF S
  <2> QED BY <1>9, <1>10, AllNumbers
<1>12. ASSUME NEW k \in 1 .. count
       PROVE  g[k] \in Nat /\ g[k] >= first /\ g[k] \notin taken
  <2>1. k \in S /\ k - 1 \in S /\ 0 \in 0 .. k /\ 0 < k
    BY <1>11
  <2>2. g[k] \in Nat /\ g[k - 1] \in Nat /\ g[0] < g[k]
    BY <2>1
  <2>3. g[k] \notin taken
    BY <1>8, <2>2, AfterIsFree
  <2> QED BY <1>8, <2>2, <2>3
<1>13. ASSUME NEW j \in 1 .. count, NEW k \in 1 .. count, j < k PROVE g[j] < g[k]
  <2>1. k \in S /\ j \in 0 .. k
    BY <1>11, <1>13
  <2> QED BY <1>13, <2>1
<1> QED BY <1>6, <1>12, <1>13

\* What f gives for S.
Values(f, S) == {f[i] : i \in S}

\* A list of finitely many things holds finitely many values.
LEMMA ValuesAreFinite ==
    ASSUME NEW S, IsFiniteSet(S), NEW X, NEW f \in [S -> X]
    PROVE  IsFiniteSet(Values(f, S)) /\ Values(f, S) \subseteq X
<1> DEFINE G == {T \in SUBSET S : IsFiniteSet({f[i] : i \in T})}
<1>1. {} \in G
  <2>1. {f[i] : i \in {}} = {}
    OBVIOUS
  <2> QED BY <2>1, FS_EmptySet
<1>2. ASSUME NEW T \in SUBSET S, NEW x \in S \ T, T \in G PROVE T \cup {x} \in G
  <2>1. {f[i] : i \in T \cup {x}} = {f[i] : i \in T} \cup {f[x]}
    OBVIOUS
  <2>2. IsFiniteSet({f[i] : i \in T} \cup {f[x]})
    BY <1>2, FS_AddElement
  <2> QED BY <2>1, <2>2
<1>3. S \in G
  <2> HIDE DEF G
  <2> QED BY <1>1, <1>2, AllRows
<1> QED BY <1>3 DEF Values

\* The places of a list of rows without a value count up.
LEMMA PlacesCountUp ==
    ASSUME NEW M \in SUBSET Nat, IsFiniteSet(M)
    PROVE  /\ Cardinality(M) \in Nat
           /\ \A i \in M : Cardinality({j \in M : j <= i}) \in 1 .. Cardinality(M)
           /\ \A i, k \in M : i < k => Cardinality({j \in M : j <= i}) < Cardinality({j \in M : j <= k})
<1> DEFINE U(i) == {j \in M : j <= i}
<1>1. Cardinality(M) \in Nat
  BY FS_CardinalityType
<1>2. ASSUME NEW i \in M PROVE IsFiniteSet(U(i)) /\ Cardinality(U(i)) \in Nat /\ Cardinality(U(i)) <= Cardinality(M)
  <2>1. U(i) \in SUBSET M
    OBVIOUS
  <2> HIDE DEF U
  <2> QED BY <2>1, FS_Subset, FS_CardinalityType
<1>3. ASSUME NEW i \in M PROVE Cardinality(U(i)) # 0
  <2>1. i \in U(i)
    OBVIOUS
  <2> HIDE DEF U
  <2> QED BY <1>2, <2>1, FS_EmptySet
<1>4. ASSUME NEW i \in M, NEW k \in M, i < k PROVE Cardinality(U(i)) < Cardinality(U(k))
  <2>1. i \in Nat /\ k \in Nat /\ \A j \in M : j \in Nat
    OBVIOUS
  <2>2. U(i) \in SUBSET U(k) /\ k \in U(k) /\ k \notin U(i)
    <3>1. \A j \in U(i) : j \in U(k)
      BY <1>4, <2>1
    <3>2. k <= k /\ ~ (k <= i)
      BY <1>4, <2>1
    <3> QED BY <3>1, <3>2
  <2>3. Cardinality(U(i)) <= Cardinality(U(k)) /\ Cardinality(U(i)) # Cardinality(U(k))
    <3>1. IsFiniteSet(U(k))
      BY <1>2
    <3> HIDE DEF U
    <3> QED BY <2>2, <3>1, FS_Subset
  <2>4. Cardinality(U(i)) \in Nat /\ Cardinality(U(k)) \in Nat
    BY <1>2
  <2> HIDE DEF U
  <2> QED BY <2>3, <2>4
<1>5. ASSUME NEW i \in M PROVE Cardinality(U(i)) \in 1 .. Cardinality(M)
  <2> HIDE DEF U
  <2> QED BY <1>1, <1>2, <1>3
<1> QED BY <1>1, <1>4, <1>5

-------------------------------------------------------------------------------
\* Numbers of the tables

\* Codes and barcodes of a list.
CodesOf(list)    == {list[i].code : i \in DOMAIN list}
BarcodesOf(list) == {list[i].barcode : i \in DOMAIN list}

\* They are finitely many numbers.
LEMMA NumbersOfList ==
    ASSUME NEW list \in Seq(Product)
    PROVE  /\ BarcodesOf(list) \subseteq Nat /\ IsFiniteSet(BarcodesOf(list))
           /\ CodesOf(list) \subseteq Nat /\ IsFiniteSet(CodesOf(list))
<1>1. PICK n \in Nat : n = Len(list) /\ DOMAIN list = 1 .. n
  OBVIOUS
<1>2. IsFiniteSet(1 .. n)
  BY FS_Interval
<1> DEFINE bs == [i \in 1 .. n |-> list[i].barcode]
           cs == [i \in 1 .. n |-> list[i].code]
<1>3. bs \in [1 .. n -> Nat] /\ cs \in [1 .. n -> Nat]
  <2>1. \A i \in 1 .. n : list[i] \in Product
    BY <1>1
  <2>2. \A i \in 1 .. n : list[i].barcode \in Nat /\ list[i].code \in Nat
    BY <2>1 DEF Product
  <2> QED BY <2>2
<1>4. PICK b, c \in [1 .. n -> Nat] : b = bs /\ c = cs
  BY <1>3
<1>5. BarcodesOf(list) = Values(b, 1 .. n) /\ CodesOf(list) = Values(c, 1 .. n)
  BY <1>1, <1>4 DEF BarcodesOf, CodesOf, Values
<1>6. /\ IsFiniteSet(Values(b, 1 .. n)) /\ Values(b, 1 .. n) \subseteq Nat
      /\ IsFiniteSet(Values(c, 1 .. n)) /\ Values(c, 1 .. n) \subseteq Nat
  BY <1>2, ValuesAreFinite
<1> QED BY <1>5, <1>6

\* So are those of the table.
LEMMA ListNumbers ==
    ASSUME products \in Seq(Product)
    PROVE  /\ BarcodesIn \subseteq Nat /\ IsFiniteSet(BarcodesIn)
           /\ CodesIn \subseteq Nat /\ IsFiniteSet(CodesIn)
<1>1. BarcodesIn = BarcodesOf(products) /\ CodesIn = CodesOf(products)
  BY DEF BarcodesIn, CodesIn, BarcodesOf, CodesOf
<1> QED BY <1>1, NumbersOfList

\* One more than the largest is new.
LEMMA NextCodeIsNew ==
    ASSUME NEW S \in SUBSET Nat, IsFiniteSet(S)
    PROVE  NextCode(S) \in Nat \ {0} /\ \A x \in S : x < NextCode(S)
<1>1. {0} \cup S \in SUBSET Nat /\ IsFiniteSet({0} \cup S) /\ {0} \cup S # {}
  <2>1. IsFiniteSet(S \cup {0}) /\ S \cup {0} = {0} \cup S
    BY FS_AddElement
  <2> QED BY <2>1
<1>2. Max({0} \cup S) \in {0} \cup S /\ \A y \in {0} \cup S : y <= Max({0} \cup S)
  BY <1>1, MaxExists
<1>3. PICK m \in Nat : m = Max({0} \cup S)
  BY <1>2
<1>4. \A x \in S : x \in Nat /\ x <= m
  BY <1>2, <1>3
<1>5. NextCode(S) = m + 1
  BY <1>3 DEF NextCode
<1> QED BY <1>4, <1>5

\* Bodies begin at the seed, and above all barcodes as long as SQLite can hold them.
LEMMA FirstBodyIsNew ==
    ASSUME products \in Seq(Product)
    PROVE  /\ Max({0} \cup BarcodesIn) \in Nat
           /\ \A b \in BarcodesIn : b \in Nat /\ b <= Max({0} \cup BarcodesIn)
           /\ FirstBody \in Nat \ {0}
           /\ Max({0} \cup BarcodesIn) < Cap => Max({0} \cup BarcodesIn) < FirstBody
<1>1. {0} \cup BarcodesIn \in SUBSET Nat /\ IsFiniteSet({0} \cup BarcodesIn) /\ {0} \cup BarcodesIn # {}
  <2>1. IsFiniteSet(BarcodesIn \cup {0}) /\ BarcodesIn \cup {0} = {0} \cup BarcodesIn
    BY ListNumbers, FS_AddElement
  <2>2. BarcodesIn \subseteq Nat
    BY ListNumbers
  <2>3. {0} \cup BarcodesIn \in SUBSET Nat /\ {0} \cup BarcodesIn # {}
    BY <2>2
  <2> QED BY <2>1, <2>3
<1>2. /\ Max({0} \cup BarcodesIn) \in {0} \cup BarcodesIn
      /\ \A y \in {0} \cup BarcodesIn : y <= Max({0} \cup BarcodesIn)
  BY <1>1, MaxExists
<1>3. PICK m \in Nat : m = Max({0} \cup BarcodesIn)
  BY <1>1, <1>2
<1>4. Cap \in Nat /\ Seed \in Nat \ {0}
  BY CatalogueAssumption
<1>5. PICK l \in Nat : l = Largest /\ (l = Cap \/ l = m) /\ l <= m
  <2>1. {Cap, m} \in SUBSET Nat /\ {Cap, m} # {}
    BY <1>4
  <2>2. Min({Cap, m}) \in {Cap, m} /\ \A y \in {Cap, m} : Min({Cap, m}) <= y
    BY <2>1, MinExists
  <2>3. Largest = Min({Cap, m})
    BY <1>3 DEF Largest
  <2> QED BY <1>4, <2>2, <2>3
<1>6. FirstBody \in Nat /\ Seed <= FirstBody /\ l + 1 <= FirstBody
  <2>1. l + 1 \in Nat
    OBVIOUS
  <2>2. {Seed, l + 1} \in SUBSET Nat /\ IsFiniteSet({Seed, l + 1}) /\ {Seed, l + 1} # {}
    <3>1. IsFiniteSet({Seed}) /\ IsFiniteSet({Seed} \cup {l + 1})
      BY FS_Singleton, FS_AddElement
    <3>2. {Seed} \cup {l + 1} = {Seed, l + 1}
      OBVIOUS
    <3> QED BY <1>4, <2>1, <3>1, <3>2
  <2>3. Max({Seed, l + 1}) \in {Seed, l + 1} /\ \A y \in {Seed, l + 1} : y <= Max({Seed, l + 1})
    BY <2>2, MaxExists
  <2>4. FirstBody = Max({Seed, l + 1})
    BY <1>5 DEF FirstBody
  <2> QED BY <1>4, <2>1, <2>3, <2>4
<1>7. FirstBody \in Nat \ {0}
  BY <1>4, <1>6
<1>8. m < Cap => m < FirstBody
  BY <1>4, <1>5, <1>6
<1>9. \A b \in BarcodesIn : b \in Nat /\ b <= m
  BY <1>1, <1>2, <1>3
<1> QED BY <1>3, <1>7, <1>8, <1>9

-------------------------------------------------------------------------------
\* The rows of a file

\* Rows that pass share no number.
LEMMA PassingRowsDiffer ==
    ASSUME NEW file \in Seq(Row), NEW i \in 1 .. Len(file), NEW j \in 1 .. Len(file), i < j,
           CodePasses(file, i), CodePasses(file, j), BarcodePasses(file, j)
    PROVE  /\ file[i].code = file[j].code => file[j].code = None
           /\ file[i].barcode = file[j].barcode => file[j].barcode = None
<1>1. i \in 1 .. j - 1
  OBVIOUS
<1>2. file[j].code = None \/ file[i].code # file[j].code
  BY <1>1 DEF CodePasses
<1>3. file[j].barcode = None \/ file[i].barcode # file[j].barcode
  BY <1>1 DEF BarcodePasses
<1> QED BY <1>2, <1>3

\* Rows with new numbers, no two with the same.
NewRow(row) ==
    /\ row.code = None \/ row.code \notin CodesIn
    /\ row.barcode = None \/ row.barcode \notin BarcodesIn
Apart(r, s) ==
    /\ r.code = s.code => s.code = None
    /\ r.barcode = s.barcode => s.barcode = None
NewRows(rows) ==
    /\ rows \in Seq(Row)
    /\ \A i \in 1 .. Len(rows) : NewRow(rows[i])
    /\ \A i, j \in 1 .. Len(rows) : i < j => Apart(rows[i], rows[j])

\* Validation leaves rows with new numbers, no two with the same.
LEMMA ValidRows ==
    ASSUME NEW file \in Seq(Row)
    PROVE  NewRows(Valid(file))
<1>1. PICK n \in Nat : n = Len(file)
  OBVIOUS
<1> DEFINE Passes(i) == CodePasses(file, i) /\ BarcodePasses(file, i)
           G(g) == [i \in 0 .. n |-> IF i = 0 THEN <<>>
                                     ELSE IF Passes(i) THEN Append(g[i - 1], file[i]) ELSE g[i - 1]]
           F == [p \in Seq(Row) \X (1 .. n) |-> IF Passes(p[2]) THEN Append(p[1], file[p[2]]) ELSE p[1]]
<1>2. \A i \in 1 .. n : file[i] \in Row
  BY <1>1
<1>3. /\ F \in [Seq(Row) \X (1 .. n) -> Seq(Row)]
      /\ \A x \in Seq(Row), i \in 1 .. n : F[<<x, i>>] = IF Passes(i) THEN Append(x, file[i]) ELSE x
  <2> HIDE DEF Passes
  <2>1. \A x \in Seq(Row), i \in 1 .. n : (IF Passes(i) THEN Append(x, file[i]) ELSE x) \in Seq(Row)
    BY <1>2
  <2> QED BY <2>1
<1> HIDE DEF F, Passes
<1>4. PICK h \in [0 .. n -> Seq(Row)] : Steps(h, <<>>, F, n)
  <2>1. <<>> \in Seq(Row)
    OBVIOUS
  <2> QED BY <1>3, <2>1, Iteration
<1>5. h = G(h)
  <2>1. h = [i \in 0 .. n |-> IF i = 0 THEN <<>> ELSE F[<<h[i - 1], i>>]]
    BY <1>4 DEF Steps
  <2>2. ASSUME NEW i \in 1 .. n
        PROVE F[<<h[i - 1], i>>] = IF Passes(i) THEN Append(h[i - 1], file[i]) ELSE h[i - 1]
    <3>1. h[i - 1] \in Seq(Row)
      OBVIOUS
    <3> QED BY <1>3, <3>1
  <2>3. \A i \in 0 .. n : i # 0 => i \in 1 .. n
    OBVIOUS
  <2> QED BY <2>1, <2>2, <2>3
<1>6. PICK g : g = CHOOSE x : x = G(x)
  OBVIOUS
<1>7. Valid(file) = g[n]
  BY <1>1, <1>6 DEF Valid, Passes
<1> HIDE DEF G
<1>8. g = G(g)
  BY <1>5, <1>6
<1> USE DEF G
<1>9. /\ g[0] = <<>>
      /\ \A i \in 1 .. n : g[i] = IF Passes(i) THEN Append(g[i - 1], file[i]) ELSE g[i - 1]
  <2>1. g[0] = <<>>
    BY <1>8
  <2>2. ASSUME NEW i \in 1 .. n
        PROVE g[i] = IF Passes(i) THEN Append(g[i - 1], file[i]) ELSE g[i - 1]
    <3>1. i \in 0 .. n /\ i # 0
      OBVIOUS
    <3> QED BY <1>8, <3>1
  <2> QED BY <2>1, <2>2
<1> DEFINE From(v, k) == /\ v \in Seq(Row)
                         /\ \A e \in 1 .. Len(v) : \E i \in 1 .. k : v[e] = file[i] /\ Passes(i)
                         /\ \A d, e \in 1 .. Len(v) : d < e => Apart(v[d], v[e])
           S == {k \in 0 .. n : From(g[k], k)}
<1>10. 0 \in S
  <2>1. Len(<<>>) = 0 /\ <<>> \in Seq(Row)
    OBVIOUS
  <2>2. From(<<>>, 0)
    BY <2>1
  <2> HIDE DEF From
  <2> QED BY <1>9, <2>2
<1>11. ASSUME NEW k \in 0 .. n, k < n, k \in S PROVE k + 1 \in S
  <2>1. PICK m \in 1 .. n : m = k + 1 /\ m - 1 = k
    BY <1>11
  <2>2. PICK v \in Seq(Row) : v = g[k]
    BY <1>11
  <2>3. From(v, k)
    BY <1>11, <2>2
  <2>4. CASE ~ Passes(m)
    <3>1. g[m] = v
      BY <1>9, <2>1, <2>2, <2>4
    <3>2. \A i \in 1 .. k : i \in 1 .. m
      BY <2>1
    <3>3. From(v, m)
      BY <2>3, <3>2
    <3> HIDE DEF From
    <3> QED BY <2>1, <3>1, <3>3
  <2>5. CASE Passes(m)
    <3>1. PICK w \in Seq(Row) : w = Append(v, file[m])
      <4>1. PICK r \in Row : r = file[m]
        BY <1>2
      <4>2. Append(v, r) \in Seq(Row)
        OBVIOUS
      <4> QED BY <4>1, <4>2
    <3>2. g[m] = w
      BY <1>9, <2>1, <2>2, <2>5, <3>1
    <3>3. /\ Len(w) = Len(v) + 1 /\ w[Len(v) + 1] = file[m] /\ Len(v) \in Nat
          /\ \A e \in 1 .. Len(v) : w[e] = v[e]
      BY <1>2, <3>1
    <3>4. ASSUME NEW e \in 1 .. Len(w) PROVE \E i \in 1 .. m : w[e] = file[i] /\ Passes(i)
      <4>1. CASE e = Len(v) + 1
        BY <2>5, <3>3, <4>1
      <4>2. CASE e \in 1 .. Len(v)
        <5>1. PICK i \in 1 .. k : v[e] = file[i] /\ Passes(i)
          BY <2>3, <4>2
        <5>2. i \in 1 .. m
          BY <2>1
        <5> QED BY <3>3, <4>2, <5>1, <5>2
      <4> QED BY <3>3, <4>1, <4>2
    <3>5. ASSUME NEW d \in 1 .. Len(w), NEW e \in 1 .. Len(w), d < e PROVE Apart(w[d], w[e])
      <4>1. d \in 1 .. Len(v)
        BY <3>3, <3>5
      <4>2. CASE e = Len(v) + 1
        <5>1. PICK i \in 1 .. k : v[d] = file[i] /\ Passes(i)
          BY <2>3, <4>1
        <5>2. i \in 1 .. Len(file) /\ m \in 1 .. Len(file) /\ i < m
          BY <1>1, <2>1
        <5>3. /\ file[i].code = file[m].code => file[m].code = None
              /\ file[i].barcode = file[m].barcode => file[m].barcode = None
          BY <2>5, <5>1, <5>2, PassingRowsDiffer DEF Passes
        <5> QED BY <3>3, <4>1, <4>2, <5>1, <5>3 DEF Apart
      <4>3. CASE e \in 1 .. Len(v)
        BY <2>3, <3>3, <3>5, <4>1, <4>3
      <4> QED BY <3>3, <4>2, <4>3
    <3>6. From(w, m)
      BY <3>4, <3>5
    <3> HIDE DEF From
    <3> QED BY <2>1, <3>2, <3>6
  <2> QED BY <2>4, <2>5
<1>12. \A k \in 0 .. n : k \in S
  <2> HIDE DEF S
  <2> QED BY <1>10, <1>11, AllNumbers
<1>13. From(g[n], n)
  <2>1. n \in S
    <3> HIDE DEF S
    <3> QED BY <1>12
  <2> HIDE DEF From
  <2> QED BY <2>1
<1>14. \A i \in 1 .. n : Passes(i) => NewRow(file[i])
  BY DEF Passes, CodePasses, BarcodePasses, NewRow
<1>15. ASSUME NEW e \in 1 .. Len(g[n]) PROVE NewRow(g[n][e])
  <2>1. PICK i \in 1 .. n : g[n][e] = file[i] /\ Passes(i)
    BY <1>13
  <2> QED BY <1>14, <2>1
<1> QED BY <1>7, <1>13, <1>15 DEF NewRows

\* A category found or added: nothing else moves.
LEMMA WithCategoryAdds ==
    ASSUME NEW list \in Seq(Names), NEW name \in Names
    PROVE  /\ WithCategory(list, name) \in Seq(Names)
           /\ Len(WithCategory(list, name)) >= Len(list)
           /\ \A j \in 1 .. Len(list) : WithCategory(list, name)[j] = list[j]
           /\ \E j \in 1 .. Len(WithCategory(list, name)) : SameName(WithCategory(list, name)[j], name)
<1>1. CASE \E i \in DOMAIN list : SameName(list[i], name)
  <2>1. WithCategory(list, name) = list
    BY <1>1 DEF WithCategory
  <2> QED BY <1>1, <2>1
<1>2. CASE ~ \E i \in DOMAIN list : SameName(list[i], name)
  <2>1. PICK w \in Seq(Names) : w = Append(list, name)
    <3>1. Append(list, name) \in Seq(Names)
      OBVIOUS
    <3> QED BY <3>1
  <2>2. w = WithCategory(list, name)
    BY <1>2, <2>1 DEF WithCategory
  <2>3. Len(list) \in Nat /\ Len(w) = Len(list) + 1 /\ w[Len(list) + 1] = name
    BY <2>1
  <2>4. \A j \in 1 .. Len(list) : w[j] = list[j]
    BY <2>1
  <2>5. SameName(w[Len(w)], name) /\ Len(w) \in 1 .. Len(w) /\ Len(w) >= Len(list)
    BY <2>3 DEF SameName
  <2> QED BY <2>2, <2>4, <2>5
<1> QED BY <1>1, <1>2

\* Nothing leaves the list of categories, and each row finds its own.
LEMMA NamedRows ==
    ASSUME categories \in Seq(Names), NEW rows \in Seq(Row)
    PROVE  /\ Named(rows) \in Seq(Names) /\ Len(Named(rows)) >= Len(categories)
           /\ \A i \in 1 .. Len(rows) :
                 \E j \in DOMAIN Named(rows) : SameName(Named(rows)[j], rows[i].name)
<1>1. PICK n \in Nat : n = Len(rows)
  OBVIOUS
<1> DEFINE G(g) == [i \in 0 .. n |-> IF i = 0 THEN categories ELSE WithCategory(g[i - 1], rows[i].name)]
           F == [p \in Seq(Names) \X (1 .. n) |-> WithCategory(p[1], rows[p[2]].name)]
<1>2. \A i \in 1 .. n : rows[i].name \in Names
  <2>1. \A i \in 1 .. n : rows[i] \in Row
    BY <1>1
  <2> QED BY <2>1 DEF Row
<1>3. \A list \in Seq(Names), name \in Names :
         /\ WithCategory(list, name) \in Seq(Names)
         /\ Len(WithCategory(list, name)) >= Len(list)
         /\ \A j \in 1 .. Len(list) : WithCategory(list, name)[j] = list[j]
         /\ \E j \in 1 .. Len(WithCategory(list, name)) : SameName(WithCategory(list, name)[j], name)
  BY WithCategoryAdds
<1>4. /\ F \in [Seq(Names) \X (1 .. n) -> Seq(Names)]
      /\ \A x \in Seq(Names), i \in 1 .. n : F[<<x, i>>] = WithCategory(x, rows[i].name)
  <2>1. \A x \in Seq(Names), i \in 1 .. n : WithCategory(x, rows[i].name) \in Seq(Names)
    BY <1>2, <1>3
  <2> QED BY <2>1
<1> HIDE DEF F
<1>5. PICK h \in [0 .. n -> Seq(Names)] : Steps(h, categories, F, n)
  BY <1>4, Iteration
<1>6. h = G(h)
  <2>1. h = [i \in 0 .. n |-> IF i = 0 THEN categories ELSE F[<<h[i - 1], i>>]]
    BY <1>5 DEF Steps
  <2>2. ASSUME NEW i \in 1 .. n PROVE F[<<h[i - 1], i>>] = WithCategory(h[i - 1], rows[i].name)
    <3>1. h[i - 1] \in Seq(Names)
      OBVIOUS
    <3> QED BY <1>4, <3>1
  <2>3. \A i \in 0 .. n : i # 0 => i \in 1 .. n
    OBVIOUS
  <2> QED BY <2>1, <2>2, <2>3
<1>7. PICK g : g = CHOOSE x : x = G(x)
  OBVIOUS
<1>8. Named(rows) = g[n]
  BY <1>1, <1>7 DEF Named
<1> HIDE DEF G
<1>9. g = G(g)
  BY <1>6, <1>7
<1> USE DEF G
<1>10. g[0] = categories /\ \A i \in 1 .. n : g[i] = WithCategory(g[i - 1], rows[i].name)
  BY <1>9
<1> DEFINE Has(v, k) == /\ v \in Seq(Names) /\ Len(v) >= Len(categories)
                        /\ \A i \in 1 .. k : \E j \in 1 .. Len(v) : SameName(v[j], rows[i].name)
           S == {k \in 0 .. n : Has(g[k], k)}
<1>11. 0 \in S
  <2>1. Has(categories, 0)
    OBVIOUS
  <2> HIDE DEF Has
  <2> QED BY <1>10, <2>1
<1>12. ASSUME NEW k \in 0 .. n, k < n, k \in S PROVE k + 1 \in S
  <2>1. PICK m \in 1 .. n : m = k + 1 /\ m - 1 = k
    <3> HIDE DEF S
    <3> QED BY <1>12
  <2>2. PICK v \in Seq(Names) : v = g[k]
    BY <1>12
  <2>3. Has(v, k)
    BY <1>12, <2>2
  <2>4. PICK w : w = WithCategory(v, rows[m].name)
    OBVIOUS
  <2>5. /\ w \in Seq(Names) /\ Len(w) >= Len(v) /\ \A j \in 1 .. Len(v) : w[j] = v[j]
        /\ \E j \in 1 .. Len(w) : SameName(w[j], rows[m].name)
    BY <1>2, <1>3, <2>4
  <2>6. g[m] = w
    BY <1>10, <2>1, <2>2, <2>4
  <2>7. Len(w) \in Nat /\ Len(v) \in Nat /\ Len(categories) \in Nat
    BY <2>5
  <2>8. ASSUME NEW i \in 1 .. m PROVE \E j \in 1 .. Len(w) : SameName(w[j], rows[i].name)
    <3>1. CASE i = m
      BY <2>5, <3>1
    <3>2. CASE i \in 1 .. k
      <4>1. PICK j \in 1 .. Len(v) : SameName(v[j], rows[i].name)
        BY <2>3, <3>2
      <4>2. j \in 1 .. Len(w)
        BY <2>5, <2>7
      <4> QED BY <2>5, <4>1, <4>2
    <3> QED BY <2>1, <3>1, <3>2
  <2>9. Len(w) >= Len(categories)
    BY <2>3, <2>5, <2>7
  <2>10. Has(w, m)
    BY <2>5, <2>8, <2>9
  <2> HIDE DEF Has
  <2> QED BY <2>1, <2>6, <2>10
<1>13. \A k \in 0 .. n : k \in S
  <2> HIDE DEF S
  <2> QED BY <1>11, <1>12, AllNumbers
<1>14. Has(g[n], n)
  <2>1. n \in S
    <3> HIDE DEF S
    <3> QED BY <1>13
  <2> HIDE DEF Has
  <2> QED BY <2>1
<1> QED BY <1>1, <1>8, <1>14

-------------------------------------------------------------------------------
\* What an import writes

\* Places of rows without a number are numbered from 1 on.
LEMMA Places ==
    ASSUME NEW rows \in Seq(Row), NEW field
    PROVE  /\ Cardinality(Missing(rows, field)) \in Nat
           /\ \A i \in Missing(rows, field) :
                 Place(rows, field, i) \in 1 .. Cardinality(Missing(rows, field))
           /\ \A i, k \in Missing(rows, field) :
                 i < k => Place(rows, field, i) < Place(rows, field, k)
<1>1. PICK n \in Nat : n = Len(rows) /\ DOMAIN rows = 1 .. n
  OBVIOUS
<1>2. PICK M : M = Missing(rows, field)
  OBVIOUS
<1>3. M \in SUBSET (1 .. n) /\ IsFiniteSet(1 .. n)
  BY <1>1, <1>2, FS_Interval DEF Missing
<1>4. M \in SUBSET Nat /\ IsFiniteSet(M)
  <2>1. PICK I : I = 1 .. n
    OBVIOUS
  <2>2. M \in SUBSET I /\ IsFiniteSet(I)
    BY <1>3, <2>1
  <2>3. IsFiniteSet(M)
    BY ONLY <2>2, FS_Subset
  <2>4. \A i \in M : i \in Nat
    BY <1>3
  <2> QED BY <2>3, <2>4
<1>5. \A i : Place(rows, field, i) = Cardinality({j \in M : j <= i})
  BY <1>2 DEF Place
<1>6. /\ Cardinality(M) \in Nat
      /\ \A i \in M : Cardinality({j \in M : j <= i}) \in 1 .. Cardinality(M)
      /\ \A i, k \in M : i < k => Cardinality({j \in M : j <= i}) < Cardinality({j \in M : j <= k})
  BY ONLY <1>4, PlacesCountUp
<1> QED BY <1>2, <1>5, <1>6

\* What is typed is finite.
LEMMA TypedIsFinite ==
    ASSUME NEW rows \in Seq(Row), NEW field
    PROVE  IsFiniteSet(Typed(rows, field))
<1>1. PICK n \in Nat : n = Len(rows) /\ DOMAIN rows = 1 .. n
  OBVIOUS
<1>2. IsFiniteSet(1 .. n)
  BY FS_Interval
<1> DEFINE X == {rows[i][field] : i \in 1 .. n}
<1>3. PICK f \in [1 .. n -> X] : f = [i \in 1 .. n |-> rows[i][field]]
  OBVIOUS
<1>4. IsFiniteSet(Values(f, 1 .. n))
  <2> HIDE DEF X
  <2> QED BY <1>2, ValuesAreFinite
<1>5. Typed(rows, field) = Values(f, 1 .. n) \ {None}
  BY <1>1, <1>3 DEF Typed, Values
<1>6. \A V : IsFiniteSet(V) => IsFiniteSet(V \ {None})
  BY FS_Difference
<1> QED BY <1>4, <1>5, <1>6

\* The code an import gives a row, and its barcode.
CodeOf(rows, i) ==
    IF rows[i].code = None
    THEN NewCodes(Cardinality(Missing(rows, "code")), Typed(rows, "code"))[Place(rows, "code", i)]
    ELSE rows[i].code
BarcodeOf(rows, i) ==
    IF rows[i].barcode = None
    THEN Barcode(Bodies(Cardinality(Missing(rows, "barcode")), Reserved(rows))[Place(rows, "barcode", i)])
    ELSE rows[i].barcode

\* Codes are new, and no two are the same.
LEMMA CodesWritten ==
    ASSUME products \in Seq(Product), NEW rows, NewRows(rows)
    PROVE  /\ \A i \in 1 .. Len(rows) : CodeOf(rows, i) \in Nat /\ CodeOf(rows, i) \notin CodesIn
           /\ \A i, j \in 1 .. Len(rows) : i < j => CodeOf(rows, i) # CodeOf(rows, j)
<1>1. PICK n \in Nat : rows \in Seq(Row) /\ n = Len(rows) /\ DOMAIN rows = 1 .. n
  BY DEF NewRows
<1>2. PICK M : M = Missing(rows, "code")
  OBVIOUS
<1>3. PICK T : T = Typed(rows, "code") /\ IsFiniteSet(T)
  BY <1>1, TypedIsFinite
<1>4. PICK m \in Nat : m = Cardinality(M)
  BY <1>1, <1>2, Places
<1>5. PICK first \in Nat \ {0} : first = NextCode(CodesIn) /\ \A x \in CodesIn : x \in Nat /\ x < first
  BY ListNumbers, NextCodeIsNew
<1>6. PICK free : free = Untaken(m, first, T)
  OBVIOUS
<1>7. /\ \A k \in 1 .. m : free[k] \in Nat /\ free[k] >= first /\ free[k] \notin T
      /\ \A j, k \in 1 .. m : j < k => free[j] < free[k]
  BY <1>3, <1>6, UntakenIsFree
<1> DEFINE P(i) == Place(rows, "code", i)
<1>8. \A i, k \in M : P(i) \in 1 .. m /\ (i < k => P(i) < P(k))
  BY <1>1, <1>2, <1>4, Places
<1> HIDE DEF P
<1>9. \A i \in 1 .. n : CodeOf(rows, i) = IF rows[i].code = None THEN free[P(i)] ELSE rows[i].code
  BY <1>2, <1>3, <1>4, <1>5, <1>6 DEF CodeOf, NewCodes, P
<1>10. \A i \in 1 .. n : rows[i].code = None => i \in M
  BY <1>1, <1>2 DEF Missing
<1>11. \A i \in 1 .. n : rows[i].code # None => rows[i].code \in Nat /\ rows[i].code \in T
  <2>1. ASSUME NEW i \in 1 .. n, rows[i].code # None PROVE rows[i].code \in Nat /\ rows[i].code \in T
    <3>1. rows[i] \in Row
      BY <1>1
    <3>2. rows[i].code \in Codes
      BY <2>1, <3>1 DEF Row
    <3> QED BY <1>1, <1>3, <2>1, <3>2, CatalogueAssumption DEF Typed
  <2> QED BY <2>1
<1>12. ASSUME NEW i \in 1 .. n PROVE CodeOf(rows, i) \in Nat /\ CodeOf(rows, i) \notin CodesIn
  <2>1. CASE rows[i].code = None
    <3>1. P(i) \in 1 .. m /\ CodeOf(rows, i) = free[P(i)]
      BY <1>8, <1>9, <1>10, <2>1
    <3>2. free[P(i)] \in Nat /\ free[P(i)] >= first
      BY <1>7, <3>1
    <3>3. \A x \in CodesIn : x # free[P(i)]
      BY <1>5, <3>2
    <3> QED BY <3>1, <3>2, <3>3
  <2>2. CASE rows[i].code # None
    <3>1. CodeOf(rows, i) = rows[i].code /\ rows[i].code \in Nat
      BY <1>9, <1>11, <2>2
    <3>2. NewRow(rows[i])
      BY <1>1 DEF NewRows
    <3> QED BY <2>2, <3>1, <3>2 DEF NewRow
  <2> QED BY <2>1, <2>2
<1>13. ASSUME NEW i \in 1 .. n, NEW j \in 1 .. n, i < j PROVE CodeOf(rows, i) # CodeOf(rows, j)
  <2>1. CASE rows[i].code = None /\ rows[j].code = None
    <3>1. P(i) \in 1 .. m /\ P(j) \in 1 .. m /\ P(i) < P(j)
      BY <1>8, <1>10, <1>13, <2>1
    <3>2. free[P(i)] \in Nat /\ free[P(j)] \in Nat /\ free[P(i)] < free[P(j)]
      BY <1>7, <3>1
    <3> QED BY <1>9, <2>1, <3>2
  <2>2. CASE rows[i].code = None /\ rows[j].code # None
    <3>1. free[P(i)] \notin T /\ rows[j].code \in T
      BY <1>7, <1>8, <1>10, <1>11, <2>2
    <3> QED BY <1>9, <2>2, <3>1
  <2>3. CASE rows[i].code # None /\ rows[j].code = None
    <3>1. free[P(j)] \notin T /\ rows[i].code \in T
      BY <1>7, <1>8, <1>10, <1>11, <2>3
    <3> QED BY <1>9, <2>3, <3>1
  <2>4. CASE rows[i].code # None /\ rows[j].code # None
    <3>1. Apart(rows[i], rows[j])
      BY <1>1, <1>13 DEF NewRows
    <3> QED BY <1>9, <2>4, <3>1 DEF Apart
  <2> QED BY <2>1, <2>2, <2>3, <2>4
<1> QED BY <1>1, <1>12, <1>13

\* Barcodes are apart, the generated ones end in their check digit, and all of
\* them are new as long as SQLite can hold the largest.
LEMMA BarcodesWritten ==
    ASSUME products \in Seq(Product), NEW rows, NewRows(rows)
    PROVE  /\ \A i \in 1 .. Len(rows) :
                 /\ BarcodeOf(rows, i) \in Nat
                 /\ rows[i].barcode = None => LuhnValid(BarcodeOf(rows, i))
                 /\ Max({0} \cup BarcodesIn) < Cap => BarcodeOf(rows, i) \notin BarcodesIn
           /\ \A i, j \in 1 .. Len(rows) : i < j => BarcodeOf(rows, i) # BarcodeOf(rows, j)
<1>1. PICK n \in Nat : rows \in Seq(Row) /\ n = Len(rows) /\ DOMAIN rows = 1 .. n
  BY DEF NewRows
<1>2. PICK M : M = Missing(rows, "barcode")
  OBVIOUS
<1>3. PICK T : T = Typed(rows, "barcode") /\ IsFiniteSet(T) /\ T \subseteq Nat
  <2>1. Typed(rows, "barcode") \subseteq Nat
    <3>1. \A i \in 1 .. n : rows[i] \in Row
      BY <1>1
    <3>2. \A i \in 1 .. n : rows[i].barcode \in Barcodes \cup {None}
      BY <3>1 DEF Row
    <3> QED BY <1>1, <3>2, CatalogueAssumption DEF Typed
  <2> QED BY <1>1, <2>1, TypedIsFinite
<1>4. PICK m \in Nat : m = Cardinality(M)
  BY <1>1, <1>2, Places
<1>5. PICK first \in Nat \ {0} :
          /\ first = FirstBody
          /\ Max({0} \cup BarcodesIn) < Cap => Max({0} \cup BarcodesIn) < first
  BY FirstBodyIsNew
<1> DEFINE U == {r \div 10 : r \in {r \in T : Barcode(r \div 10) = r}}
<1>6. IsFiniteSet(U)
  <2> DEFINE R == {r \in T : Barcode(r \div 10) = r}
  <2>1. IsFiniteSet(R)
    <3>1. R \in SUBSET T
      OBVIOUS
    <3> HIDE DEF R
    <3> QED BY <1>3, <3>1, FS_Subset
  <2>2. PICK f \in [R -> Int] : f = [r \in R |-> r \div 10]
    <3>1. \A r \in R : r \div 10 \in Int
      BY <1>3
    <3> HIDE DEF R
    <3> QED BY <3>1
  <2>3. IsFiniteSet(Values(f, R))
    <3> HIDE DEF R
    <3> QED BY <2>1, ValuesAreFinite
  <2>4. U = Values(f, R)
    BY <2>2 DEF Values
  <2> QED BY <2>3, <2>4
<1>7. \A x \in Nat : x \notin U => Barcode(x) \notin T
  <2>1. ASSUME NEW x \in Nat, Barcode(x) \in T PROVE x \in U
    <3>1. Barcode(x) \div 10 = x
      BY BarcodeType
    <3>2. PICK r \in T : r = Barcode(x)
      BY <2>1
    <3>3. r \div 10 = x /\ Barcode(r \div 10) = r
      BY <3>1, <3>2
    <3> QED BY <3>3
  <2> QED BY <2>1
<1>8. PICK free : free = Untaken(m, first, U)
  OBVIOUS
<1>9. /\ \A k \in 1 .. m : free[k] \in Nat /\ free[k] >= first /\ free[k] \notin U
      /\ \A j, k \in 1 .. m : j < k => free[j] < free[k]
  <2> HIDE DEF U
  <2> QED BY <1>6, <1>8, UntakenIsFree
<1> DEFINE P(i) == Place(rows, "barcode", i)
<1>10. \A i, k \in M : P(i) \in 1 .. m /\ (i < k => P(i) < P(k))
  BY <1>1, <1>2, <1>4, Places
<1> HIDE DEF P
<1>11. \A i \in 1 .. n :
          BarcodeOf(rows, i) = IF rows[i].barcode = None THEN Barcode(free[P(i)]) ELSE rows[i].barcode
  BY <1>2, <1>3, <1>4, <1>5, <1>8 DEF BarcodeOf, Bodies, Reserved, P
<1> HIDE DEF U
<1>12. \A i \in 1 .. n : rows[i].barcode = None => i \in M
  BY <1>1, <1>2 DEF Missing
<1>13. \A i \in 1 .. n : rows[i].barcode # None => rows[i].barcode \in T
  BY <1>1, <1>3 DEF Typed
<1>14. ASSUME NEW i \in 1 .. n
       PROVE  /\ BarcodeOf(rows, i) \in Nat
              /\ rows[i].barcode = None => LuhnValid(BarcodeOf(rows, i))
              /\ Max({0} \cup BarcodesIn) < Cap => BarcodeOf(rows, i) \notin BarcodesIn
  <2>1. CASE rows[i].barcode = None
    <3>1. P(i) \in 1 .. m /\ BarcodeOf(rows, i) = Barcode(free[P(i)])
      BY <1>10, <1>11, <1>12, <2>1
    <3>2. PICK x \in Nat \ {0} : x = free[P(i)] /\ x >= first
      BY <1>9, <3>1
    <3>3. Barcode(x) \in Nat /\ Barcode(x) >= x /\ LuhnValid(Barcode(x))
      BY BarcodeType, BarcodeIsValid
    <3>4. ASSUME Max({0} \cup BarcodesIn) < Cap PROVE Barcode(x) \notin BarcodesIn
      <4>1. PICK y \in Nat : y = Max({0} \cup BarcodesIn) /\ \A b \in BarcodesIn : b \in Nat /\ b <= y
        BY FirstBodyIsNew
      <4>2. y < first
        BY <1>5, <3>4, <4>1
      <4>3. ~ (Barcode(x) <= y)
        BY <3>2, <3>3, <4>2
      <4> QED BY <4>1, <4>3
    <3> QED BY <3>1, <3>2, <3>3, <3>4
  <2>2. CASE rows[i].barcode # None
    <3>1. BarcodeOf(rows, i) = rows[i].barcode /\ rows[i].barcode \in Nat
      BY <1>3, <1>11, <1>13, <2>2
    <3>2. NewRow(rows[i])
      BY <1>1 DEF NewRows
    <3> QED BY <2>2, <3>1, <3>2 DEF NewRow
  <2> QED BY <2>1, <2>2
<1>15. ASSUME NEW i \in 1 .. n, NEW j \in 1 .. n, i < j PROVE BarcodeOf(rows, i) # BarcodeOf(rows, j)
  <2>1. CASE rows[i].barcode = None /\ rows[j].barcode = None
    <3>1. P(i) \in 1 .. m /\ P(j) \in 1 .. m /\ P(i) < P(j)
      BY <1>10, <1>12, <1>15, <2>1
    <3>2. PICK x, y \in Nat : x = free[P(i)] /\ y = free[P(j)] /\ x < y
      BY <1>9, <3>1
    <3>3. Barcode(x) \div 10 = x /\ Barcode(y) \div 10 = y
      BY BarcodeType
    <3>4. Barcode(x) # Barcode(y)
      BY <3>2, <3>3
    <3> QED BY <1>11, <2>1, <3>2, <3>4
  <2>2. CASE rows[i].barcode = None /\ rows[j].barcode # None
    <3>1. Barcode(free[P(i)]) \notin T /\ rows[j].barcode \in T
      BY <1>7, <1>9, <1>10, <1>12, <1>13, <2>2
    <3> QED BY <1>11, <2>2, <3>1
  <2>3. CASE rows[i].barcode # None /\ rows[j].barcode = None
    <3>1. Barcode(free[P(j)]) \notin T /\ rows[i].barcode \in T
      BY <1>7, <1>9, <1>10, <1>12, <1>13, <2>3
    <3> QED BY <1>11, <2>3, <3>1
  <2>4. CASE rows[i].barcode # None /\ rows[j].barcode # None
    <3>1. Apart(rows[i], rows[j])
      BY <1>1, <1>15 DEF NewRows
    <3> QED BY <1>11, <2>4, <3>1 DEF Apart
  <2> QED BY <2>1, <2>2, <2>3, <2>4
<1> QED BY <1>1, <1>14, <1>15

-------------------------------------------------------------------------------
\* The invariant

\* A list of products as the table takes it, and as its categories have to be.
Shelved(list, named) ==
    /\ list \in Seq(Product)
    /\ Distinct(list)
    /\ \A i \in 1 .. Len(list) : list[i].made => LuhnValid(list[i].barcode)
    /\ \A i \in 1 .. Len(list) : list[i].category \in 1 .. Len(named)
    /\ named \in Seq(Names)

\* Customers and suppliers.
People(clients, makers) ==
    /\ clients \in Seq(Customer)
    /\ \A i, j \in 1 .. Len(clients) : clients[i].code = clients[j].code => i = j
    /\ makers \in Seq(Supplier)

\* TypeOK in these parts.
LEMMA TypeOKParts ==
    TypeOK <=> /\ Shelved(products, categories)
               /\ People(customers, suppliers)
               /\ outcome \in {None, "created", "refused", "slipped"}
               /\ pulling \in BOOLEAN
<1>1. ASSUME products \in Seq(Product)
      PROVE (\A b \in Made : LuhnValid(b)) <=>
            \A i \in 1 .. Len(products) : products[i].made => LuhnValid(products[i].barcode)
  <2>1. DOMAIN products = 1 .. Len(products)
    BY <1>1
  <2> QED BY <2>1 DEF Made
<1>2. \A s, X : s \in Seq(X) => DOMAIN s = 1 .. Len(s)
  OBVIOUS
<1>3. products \in Seq(Product) => DOMAIN products = 1 .. Len(products)
  BY <1>2
<1>4. categories \in Seq(Names) => DOMAIN categories = 1 .. Len(categories)
  BY <1>2
<1>5. customers \in Seq(Customer) => DOMAIN customers = 1 .. Len(customers)
  BY <1>2
<1>6. ASSUME TypeOK PROVE /\ Shelved(products, categories)
                          /\ People(customers, suppliers)
                          /\ outcome \in {None, "created", "refused", "slipped"}
                          /\ pulling \in BOOLEAN
  BY <1>1, <1>3, <1>4, <1>5, <1>6 DEF TypeOK, Shelved, People
<1>7. ASSUME Shelved(products, categories), People(customers, suppliers),
             outcome \in {None, "created", "refused", "slipped"}, pulling \in BOOLEAN
      PROVE  TypeOK
  BY <1>1, <1>3, <1>4, <1>5, <1>7 DEF TypeOK, Shelved, People
<1> QED BY <1>6, <1>7

\* The name that is looked for is found.
LEMMA IndexOfName ==
    ASSUME NEW list \in Seq(Names), NEW name, \E j \in 1 .. Len(list) : SameName(list[j], name)
    PROVE  IndexOf(list, name) \in 1 .. Len(list)
<1> DEFINE S == {i \in DOMAIN list : SameName(list[i], name)}
<1>1. S \in SUBSET Nat /\ S # {} /\ S \subseteq 1 .. Len(list)
  OBVIOUS
<1>2. Min(S) \in S
  <2> HIDE DEF S
  <2> QED BY <1>1, MinExists
<1>3. IndexOf(list, name) = Min(S)
  BY DEF IndexOf
<1> QED BY <1>1, <1>2, <1>3

\* One more category disturbs no product.
LEMMA MoreCategories ==
    ASSUME NEW list, NEW named, NEW more, Shelved(list, named),
           more \in Seq(Names), Len(more) >= Len(named)
    PROVE  Shelved(list, more)
<1>1. Len(named) \in Nat /\ Len(more) \in Nat /\ 1 .. Len(named) \subseteq 1 .. Len(more)
  BY DEF Shelved
<1> QED BY <1>1 DEF Shelved

\* One more product, or many.
LEMMA MoreProducts ==
    ASSUME NEW list, NEW named, NEW more \in Seq(Product), Shelved(list, named), Distinct(list \o more),
           \A i \in 1 .. Len(more) : /\ more[i].made => LuhnValid(more[i].barcode)
                                     /\ more[i].category \in 1 .. Len(named)
    PROVE  /\ Shelved(list \o more, named)
           /\ BarcodesOf(list) \subseteq BarcodesOf(list \o more)
<1>1. PICK l, m \in Nat : l = Len(list) /\ m = Len(more)
  BY DEF Shelved
<1>2. PICK all \in Seq(Product) : all = list \o more
  <2>1. list \o more \in Seq(Product)
    BY DEF Shelved
  <2> QED BY <2>1
<1>3. /\ Len(all) = l + m
      /\ \A i \in 1 .. l : all[i] = list[i]
      /\ \A i \in 1 .. l + m : i > l => all[i] = more[i - l]
  BY <1>1, <1>2 DEF Shelved
<1>4. ASSUME NEW i \in 1 .. Len(all)
      PROVE  /\ all[i].made => LuhnValid(all[i].barcode)
             /\ all[i].category \in 1 .. Len(named)
  <2>1. CASE i <= l
    <3>1. i \in 1 .. l
      BY <2>1
    <3> QED BY <1>1, <1>3, <3>1 DEF Shelved
  <2>2. CASE i > l
    <3>1. i - l \in 1 .. Len(more) /\ i \in 1 .. l + m
      BY <1>1, <1>3, <2>2
    <3> QED BY <1>3, <2>2, <3>1
  <2> QED BY <2>1, <2>2
<1>5. Shelved(all, named)
  BY <1>2, <1>4 DEF Shelved
<1>6. BarcodesOf(list) \subseteq BarcodesOf(all)
  <2>1. DOMAIN list = 1 .. l /\ DOMAIN all = 1 .. l + m
    BY <1>1, <1>2, <1>3 DEF Shelved
  <2>2. \A i \in 1 .. l : i \in 1 .. l + m /\ all[i].barcode = list[i].barcode
    BY <1>3
  <2> QED BY <2>1, <2>2 DEF BarcodesOf
<1> QED BY <1>2, <1>5, <1>6

\* A product with a new code and a new barcode.
LEMMA OneMoreProduct ==
    ASSUME NEW list, NEW named, NEW row \in Product, Shelved(list, named),
           row.made => LuhnValid(row.barcode), row.category \in 1 .. Len(named),
           Distinct(Append(list, row)) \/ (row.code \notin CodesOf(list) /\ row.barcode \notin BarcodesOf(list))
    PROVE  /\ Shelved(Append(list, row), named)
           /\ BarcodesOf(list) \subseteq BarcodesOf(Append(list, row))
<1>1. PICK l \in Nat : l = Len(list) /\ DOMAIN list = 1 .. l
  BY DEF Shelved
<1>2. PICK all \in Seq(Product) : all = Append(list, row)
  <2>1. Append(list, row) \in Seq(Product)
    BY DEF Shelved
  <2> QED BY <2>1
<1>3. /\ Len(all) = l + 1 /\ DOMAIN all = 1 .. l + 1 /\ all[l + 1] = row
      /\ \A i \in 1 .. l : all[i] = list[i]
  BY <1>1, <1>2 DEF Shelved
<1>4. Distinct(all)
  <2>1. CASE Distinct(Append(list, row))
    BY <1>2, <2>1
  <2>2. CASE row.code \notin CodesOf(list) /\ row.barcode \notin BarcodesOf(list)
    <3>1. \A i \in 1 .. l : list[i].code # row.code /\ list[i].barcode # row.barcode
      BY <1>1, <2>2 DEF CodesOf, BarcodesOf
    <3>2. \A i, j \in 1 .. l : i # j => list[i].code # list[j].code /\ list[i].barcode # list[j].barcode
      BY <1>1 DEF Shelved, Distinct
    <3>3. ASSUME NEW i \in 1 .. l + 1, NEW j \in 1 .. l + 1, i # j
          PROVE all[i].code # all[j].code /\ all[i].barcode # all[j].barcode
      <4>1. CASE i \in 1 .. l /\ j \in 1 .. l
        BY <1>3, <3>2, <3>3, <4>1
      <4>2. CASE i = l + 1 /\ j \in 1 .. l
        BY <1>3, <3>1, <4>2
      <4>3. CASE i \in 1 .. l /\ j = l + 1
        BY <1>3, <3>1, <4>3
      <4> QED BY <3>3, <4>1, <4>2, <4>3
    <3> QED BY <1>3, <3>3 DEF Distinct
  <2> QED BY <2>1, <2>2
<1>5. ASSUME NEW i \in 1 .. l + 1
      PROVE  /\ all[i].made => LuhnValid(all[i].barcode)
             /\ all[i].category \in 1 .. Len(named)
  <2>1. CASE i \in 1 .. l
    BY <1>1, <1>3, <2>1 DEF Shelved
  <2>2. CASE i = l + 1
    BY <1>3, <2>2
  <2> QED BY <2>1, <2>2
<1>6. Shelved(all, named)
  BY <1>3, <1>4, <1>5 DEF Shelved
<1>7. BarcodesOf(list) \subseteq BarcodesOf(all)
  <2>1. \A i \in 1 .. l : i \in 1 .. l + 1 /\ all[i].barcode = list[i].barcode
    BY <1>3
  <2> QED BY <1>1, <1>3, <2>1 DEF BarcodesOf
<1> QED BY <1>2, <1>6, <1>7

\* The largest of more numbers is no smaller.
LEMMA MaxGrows ==
    ASSUME NEW S \in SUBSET Nat, NEW T \in SUBSET Nat, IsFiniteSet(S), IsFiniteSet(T), S \subseteq T
    PROVE  Max({0} \cup S) \in Nat /\ Max({0} \cup T) \in Nat /\ Max({0} \cup S) <= Max({0} \cup T)
<1>1. /\ IsFiniteSet({0} \cup S) /\ IsFiniteSet({0} \cup T)
  <2>1. IsFiniteSet(S \cup {0}) /\ IsFiniteSet(T \cup {0})
    BY FS_AddElement
  <2>2. S \cup {0} = {0} \cup S /\ T \cup {0} = {0} \cup T
    OBVIOUS
  <2> QED BY <2>1, <2>2
<1>2. /\ {0} \cup S \in SUBSET Nat /\ {0} \cup S # {}
      /\ {0} \cup T \in SUBSET Nat /\ {0} \cup T # {}
  OBVIOUS
<1>3. Max({0} \cup S) \in {0} \cup S
  BY <1>1, <1>2, MaxExists
<1>4. Max({0} \cup T) \in {0} \cup T /\ \A y \in {0} \cup T : y <= Max({0} \cup T)
  BY <1>1, <1>2, MaxExists
<1>5. Max({0} \cup S) \in {0} \cup T
  BY <1>3
<1> QED BY <1>2, <1>3, <1>4, <1>5

\* One list after the other.
LEMMA Joined ==
    ASSUME NEW a \in Seq(Product), NEW b \in Seq(Product)
    PROVE  /\ DOMAIN (a \o b) = 1 .. Len(a) + Len(b)
           /\ \A i \in 1 .. Len(a) : (a \o b)[i] = a[i]
           /\ \A i \in 1 .. Len(a) + Len(b) : i > Len(a) => (a \o b)[i] = b[i - Len(a)]
  OBVIOUS

\* What an import writes fits the table: always in kind, and in its numbers as
\* long as SQLite can hold the largest barcode.
LEMMA ImportedRows ==
    ASSUME Shelved(products, categories), NEW file \in Seq(Row)
    PROVE  /\ Written(Valid(file)).named \in Seq(Names)
           /\ Len(Written(Valid(file)).named) >= Len(categories)
           /\ Written(Valid(file)).rows \in Seq(Product)
           /\ \A i \in 1 .. Len(Written(Valid(file)).rows) :
                 /\ Written(Valid(file)).rows[i].made => LuhnValid(Written(Valid(file)).rows[i].barcode)
                 /\ Written(Valid(file)).rows[i].category \in 1 .. Len(Written(Valid(file)).named)
           /\ Max({0} \cup BarcodesIn) < Cap => Distinct(products \o Written(Valid(file)).rows)
<1>1. PICK rows \in Seq(Row) : rows = Valid(file) /\ NewRows(rows)
  BY ValidRows DEF NewRows
<1>2. PICK n \in Nat : n = Len(rows) /\ DOMAIN rows = 1 .. n
  OBVIOUS
<1>3. PICK named \in Seq(Names) :
          /\ named = Named(rows) /\ Len(named) >= Len(categories)
          /\ \A i \in 1 .. n : \E j \in 1 .. Len(named) : SameName(named[j], rows[i].name)
  <2>1. categories \in Seq(Names)
    BY DEF Shelved
  <2>2. /\ Named(rows) \in Seq(Names) /\ Len(Named(rows)) >= Len(categories)
        /\ \A i \in 1 .. n : \E j \in DOMAIN Named(rows) : SameName(Named(rows)[j], rows[i].name)
    BY <1>2, <2>1, NamedRows
  <2>3. DOMAIN Named(rows) = 1 .. Len(Named(rows))
    BY <2>2
  <2> QED BY <2>2, <2>3
<1>4. products \in Seq(Product)
  BY DEF Shelved
<1>5. PICK c \in [1 .. n -> Nat] :
          /\ \A i \in 1 .. n : c[i] = CodeOf(rows, i) /\ c[i] \notin CodesIn
          /\ \A i, j \in 1 .. n : i < j => c[i] # c[j]
  <2> DEFINE d == [i \in 1 .. n |-> CodeOf(rows, i)]
  <2>1. /\ \A i \in 1 .. n : CodeOf(rows, i) \in Nat /\ CodeOf(rows, i) \notin CodesIn
        /\ \A i, j \in 1 .. n : i < j => CodeOf(rows, i) # CodeOf(rows, j)
    <3>1. NewRows(rows) /\ n = Len(rows)
      BY <1>1, <1>2
    <3> QED BY <1>4, <3>1, CodesWritten
  <2>2. d \in [1 .. n -> Nat]
    BY <2>1
  <2> QED BY <2>1, <2>2
<1>6. PICK b \in [1 .. n -> Nat] :
          /\ \A i \in 1 .. n : /\ b[i] = BarcodeOf(rows, i)
                               /\ rows[i].barcode = None => LuhnValid(b[i])
                               /\ Max({0} \cup BarcodesIn) < Cap => b[i] \notin BarcodesIn
          /\ \A i, j \in 1 .. n : i < j => b[i] # b[j]
  <2> DEFINE d == [i \in 1 .. n |-> BarcodeOf(rows, i)]
  <2>1. /\ \A i \in 1 .. n : /\ BarcodeOf(rows, i) \in Nat
                             /\ rows[i].barcode = None => LuhnValid(BarcodeOf(rows, i))
                             /\ Max({0} \cup BarcodesIn) < Cap => BarcodeOf(rows, i) \notin BarcodesIn
        /\ \A i, j \in 1 .. n : i < j => BarcodeOf(rows, i) # BarcodeOf(rows, j)
    <3>1. NewRows(rows) /\ n = Len(rows)
      BY <1>1, <1>2
    <3> QED BY <1>4, <3>1, BarcodesWritten
  <2>2. d \in [1 .. n -> Nat]
    BY <2>1
  <2> QED BY <2>1, <2>2
<1>7. PICK k \in [1 .. n -> Nat] :
          \A i \in 1 .. n : k[i] = IndexOf(named, rows[i].name) /\ k[i] \in 1 .. Len(named)
  <2> DEFINE d == [i \in 1 .. n |-> IndexOf(named, rows[i].name)]
  <2>1. \A i \in 1 .. n : IndexOf(named, rows[i].name) \in 1 .. Len(named)
    BY <1>3, IndexOfName
  <2>2. d \in [1 .. n -> Nat]
    BY <2>1
  <2> QED BY <2>1, <2>2
<1> DEFINE more == [i \in 1 .. n |-> [code |-> c[i], barcode |-> b[i], made |-> rows[i].barcode = None,
                                      category |-> k[i], queued |-> FALSE]]
<1>8. Written(Valid(file)).named = named /\ Written(Valid(file)).rows = more
  <2>1. Written(rows).named = named
    BY <1>3 DEF Written
  <2>2. Written(rows).rows = [i \in 1 .. n |->
            [code |-> CodeOf(rows, i), barcode |-> BarcodeOf(rows, i), made |-> rows[i].barcode = None,
             category |-> IndexOf(named, rows[i].name), queued |-> FALSE]]
    BY <1>2, <1>3 DEF Written, CodeOf, BarcodeOf
  <2>3. Written(rows).rows = more
    <3>1. \A i \in 1 .. n : CodeOf(rows, i) = c[i]
      BY <1>5
    <3>2. \A i \in 1 .. n : BarcodeOf(rows, i) = b[i]
      BY <1>6
    <3>3. \A i \in 1 .. n : IndexOf(named, rows[i].name) = k[i]
      BY <1>7
    <3> QED BY <2>2, <3>1, <3>2, <3>3
  <2> QED BY <1>1, <2>1, <2>3
<1>9. more \in Seq(Product) /\ Len(more) = n
  <2>1. \A i \in 1 .. n : more[i] \in Product
    BY DEF Product
  <2> QED BY <2>1
<1>10. \A i \in 1 .. n : /\ more[i].code = c[i] /\ more[i].barcode = b[i] /\ more[i].category = k[i]
                         /\ more[i].made => rows[i].barcode = None
  OBVIOUS
<1>11. PICK m : m = more
  OBVIOUS
<1> HIDE DEF more
<1>12. ASSUME Max({0} \cup BarcodesIn) < Cap PROVE Distinct(products \o m)
  <2>1. PICK l \in Nat : l = Len(products) /\ DOMAIN products = 1 .. l
    BY <1>4
  <2>2. PICK all : all = products \o m
    OBVIOUS
  <2>3. /\ DOMAIN all = 1 .. l + n
        /\ \A i \in 1 .. l : all[i] = products[i]
        /\ \A i \in 1 .. l + n : i > l => all[i] = m[i - l]
    <3>1. m \in Seq(Product) /\ Len(m) = n
      BY <1>9, <1>11
    <3> QED BY <1>4, <2>1, <2>2, <3>1, Joined
  <2>4. \A i \in 1 .. l : products[i].code \in CodesIn /\ products[i].barcode \in BarcodesIn
    BY <2>1 DEF CodesIn, BarcodesIn
  <2>5. \A i, j \in 1 .. l :
           i # j => products[i].code # products[j].code /\ products[i].barcode # products[j].barcode
    BY <2>1 DEF Shelved, Distinct
  <2>6. ASSUME NEW i \in 1 .. l + n, NEW j \in 1 .. l + n, i < j
        PROVE all[i].code # all[j].code /\ all[i].barcode # all[j].barcode
    <3>1. CASE j <= l
      <4>1. i \in 1 .. l /\ j \in 1 .. l /\ i # j
        BY <2>6, <3>1
      <4> QED BY <2>3, <2>5, <4>1
    <3>2. CASE i <= l /\ j > l
      <4>1. PICK y \in 1 .. n : y = j - l
        BY <3>2
      <4>2. all[i] = products[i] /\ all[j] = m[y] /\ i \in 1 .. l
        BY <2>3, <3>2, <4>1
      <4>3. all[j].code \notin CodesIn /\ all[j].barcode \notin BarcodesIn
        BY <1>5, <1>6, <1>10, <1>11, <1>12, <4>2
      <4> QED BY <2>4, <4>2, <4>3
    <3>3. CASE i > l
      <4>1. PICK x, y \in 1 .. n : x = i - l /\ y = j - l /\ x < y
        <5>1. i - l \in 1 .. n /\ j - l \in 1 .. n /\ i - l < j - l
          BY <2>6, <3>3
        <5> QED BY <5>1
      <4>2. all[i] = m[x] /\ all[j] = m[y]
        <5>1. j > l
          BY <2>6, <3>3
        <5> QED BY <2>3, <3>3, <4>1, <5>1
      <4>3. c[x] # c[y] /\ b[x] # b[y]
        BY <1>5, <1>6, <4>1
      <4> QED BY <1>10, <1>11, <4>2, <4>3
    <3> QED BY <3>1, <3>2, <3>3
  <2>7. ASSUME NEW i \in 1 .. l + n, NEW j \in 1 .. l + n, i # j
        PROVE all[i].code # all[j].code /\ all[i].barcode # all[j].barcode
    <3>1. i < j \/ j < i
      BY <2>7
    <3> QED BY <2>6, <3>1
  <2> QED BY <2>2, <2>3, <2>7 DEF Distinct
<1>13. ASSUME NEW i \in 1 .. n
       PROVE (m[i].made => LuhnValid(m[i].barcode)) /\ m[i].category \in 1 .. Len(named)
  BY <1>6, <1>7, <1>10, <1>11
<1> QED BY <1>3, <1>8, <1>9, <1>11, <1>12, <1>13

-------------------------------------------------------------------------------
\* Every step keeps it

\* The invariant: the types, and a database that refused an import at some time
\* holds a barcode it can not count on from.
IInv ==
    /\ TypeOK
    /\ outcome = "slipped" => Max({0} \cup BarcodesIn) >= Cap

\* The parts of TypeOK, the tables and the rest.
Shelf == Shelved(products, categories)
Folk  == People(customers, suppliers)
Kind  == outcome \in {None, "created", "refused", "slipped"} /\ pulling \in BOOLEAN

\* What a step leaves: products never lose a barcode, and an import is refused
\* by the database only when the barcodes have run out.
Stocked ==
    /\ Shelved(products', categories')
    /\ BarcodesOf(products) \subseteq BarcodesOf(products')
    /\ outcome' = "slipped" => Max({0} \cup BarcodesIn) >= Cap
Staffed == People(customers', suppliers') /\ Kind'

\* The parts again, for the state after a step.
LEMMA PartsAreTypes == Shelf /\ Folk /\ Kind => TypeOK
  BY TypeOKParts DEF Kind, Shelf, Folk

\* Categories, customers and suppliers that are written by nobody, or changed.
LEMMA FewerWords ==
    ASSUME NEW list \in Seq(Names), NEW i \in DOMAIN list, NEW name \in Names
    PROVE  [list EXCEPT ![i] = name] \in Seq(Names) /\ Len([list EXCEPT ![i] = name]) = Len(list)
  OBVIOUS

\* Products entered, edited, imported or pulled.
LEMMA ProductSteps ==
    ASSUME IInv, Next
    PROVE  Stocked
<1>1. Shelved(products, categories) /\ (outcome = "slipped" => Max({0} \cup BarcodesIn) >= Cap)
  BY TypeOKParts DEF IInv
<1>2. products \in Seq(Product) /\ categories \in Seq(Names)
  BY <1>1 DEF Shelved
<1>3. BarcodesIn = BarcodesOf(products) /\ CodesIn = CodesOf(products)
  BY DEF BarcodesIn, CodesIn, BarcodesOf, CodesOf
<1>4. \A name \in Names :
         /\ WithCategory(categories, name) \in Seq(Names)
         /\ Len(WithCategory(categories, name)) >= Len(categories)
         /\ IndexOf(WithCategory(categories, name), name) \in 1 .. Len(WithCategory(categories, name))
         /\ Shelved(products, WithCategory(categories, name))
  <2>1. ASSUME NEW name \in Names
        PROVE  /\ WithCategory(categories, name) \in Seq(Names)
               /\ Len(WithCategory(categories, name)) >= Len(categories)
               /\ IndexOf(WithCategory(categories, name), name) \in 1 .. Len(WithCategory(categories, name))
               /\ Shelved(products, WithCategory(categories, name))
    <3>1. PICK w : w = WithCategory(categories, name)
      OBVIOUS
    <3>2. /\ w \in Seq(Names) /\ Len(w) >= Len(categories)
          /\ \E j \in 1 .. Len(w) : SameName(w[j], name)
      BY <1>2, <3>1, WithCategoryAdds
    <3>3. IndexOf(w, name) \in 1 .. Len(w)
      BY <3>2, IndexOfName
    <3>4. Shelved(products, w)
      BY <1>1, <3>2, MoreCategories
    <3> QED BY <3>1, <3>2, <3>3, <3>4
  <2> QED BY <2>1
<1>5. CASE UNCHANGED <<products, categories, outcome>>
  BY <1>1, <1>5 DEF Stocked
<1>6. ASSUME NEW name \in Names, CreateCategory(name) PROVE Stocked
  <2>1. products' = products /\ outcome' = outcome /\ categories' = Append(categories, name)
    BY <1>6 DEF CreateCategory
  <2>2. Append(categories, name) \in Seq(Names) /\ Len(Append(categories, name)) >= Len(categories)
    BY <1>2
  <2>3. Shelved(products, Append(categories, name))
    BY <1>1, <2>2, MoreCategories
  <2> QED BY <1>1, <2>1, <2>3 DEF Stocked
<1>7. ASSUME NEW i \in DOMAIN categories, NEW name \in Names, Rename(i, name) PROVE Stocked
  <2>1. products' = products /\ outcome' = outcome /\ categories' = [categories EXCEPT ![i] = name]
    BY <1>7 DEF Rename
  <2>2. PICK w : w = [categories EXCEPT ![i] = name]
    OBVIOUS
  <2>3. w \in Seq(Names) /\ Len(w) = Len(categories) /\ Len(w) >= Len(categories)
    BY <1>2, <2>2, FewerWords
  <2>4. Shelved(products, w)
    BY <1>1, <2>3, MoreCategories
  <2> QED BY <1>1, <2>1, <2>2, <2>4 DEF Stocked
<1>8. ASSUME NEW code \in Codes \cup {None}, NEW barcode \in Barcodes \cup {None}, NEW name \in Names,
             CreateProduct(code, barcode, name)
      PROVE  Stocked
  <2> DEFINE c == Given(code, NextCode(CodesIn))
             b == Given(barcode, Barcode(FirstBody))
             w == WithCategory(categories, name)
             row == [code |-> c, barcode |-> b, made |-> barcode = None,
                     category |-> IndexOf(w, name), queued |-> TRUE]
  <2>1. CASE c \in CodesIn \/ b \in BarcodesIn
    <3>1. products' = products /\ categories' = categories /\ outcome' = "refused"
      BY <1>8, <2>1 DEF CreateProduct
    <3> QED BY <1>1, <3>1 DEF Stocked
  <2>2. CASE ~ (c \in CodesIn \/ b \in BarcodesIn)
    <3>1. products' = Append(products, row) /\ categories' = w /\ outcome' = "created"
      BY <1>8, <2>2 DEF CreateProduct
    <3>2. w \in Seq(Names) /\ Shelved(products, w) /\ IndexOf(w, name) \in 1 .. Len(w)
      BY <1>4
    <3>3. c \in Nat
      <4>1. NextCode(CodesIn) \in Nat
        BY <1>2, ListNumbers, NextCodeIsNew
      <4>2. code # None => code \in Nat
        BY CatalogueAssumption
      <4> QED BY <4>1, <4>2 DEF Given
    <3>4. b \in Nat /\ (barcode = None => LuhnValid(b))
      <4>1. FirstBody \in Nat \ {0}
        BY <1>2, FirstBodyIsNew
      <4>2. Barcode(FirstBody) \in Nat /\ LuhnValid(Barcode(FirstBody))
        BY <4>1, BarcodeType, BarcodeIsValid
      <4>3. barcode # None => barcode \in Nat
        BY CatalogueAssumption
      <4> QED BY <4>2, <4>3 DEF Given
    <3>5. PICK v : v = w
      OBVIOUS
    <3> HIDE DEF c, b, w
    <3>6. row \in Product
      BY <3>2, <3>3, <3>4 DEF Product
    <3>7. /\ row.code = c /\ row.barcode = b /\ row.made = (barcode = None)
          /\ row.category = IndexOf(w, name)
      OBVIOUS
    <3>8. PICK r \in Product : r = row
      BY <3>6
    <3> HIDE DEF row
    <3>9. /\ r.made => LuhnValid(r.barcode)
          /\ r.category \in 1 .. Len(w)
          /\ r.code \notin CodesOf(products) /\ r.barcode \notin BarcodesOf(products)
      BY <1>3, <2>2, <3>2, <3>4, <3>7, <3>8
    <3>10. Shelved(Append(products, r), w) /\ BarcodesOf(products) \subseteq BarcodesOf(Append(products, r))
      BY <3>2, <3>9, OneMoreProduct
    <3> QED BY <3>1, <3>8, <3>10 DEF Stocked
  <2> QED BY <2>1, <2>2
<1>9. ASSUME NEW i \in DOMAIN products, NEW code \in Codes, NEW name \in Names, EditProduct(i, code, name)
      PROVE  Stocked
  <2>1. PICK w : w = WithCategory(categories, name)
    OBVIOUS
  <2>2. PICK k : k = IndexOf(w, name)
    OBVIOUS
  <2>3. /\ \A j \in DOMAIN products : products[j].code = code => i = j
        /\ categories' = w /\ outcome' = "created"
        /\ products' = [products EXCEPT ![i].code = code, ![i].category = k, ![i].queued = TRUE]
    BY <1>9, <2>1, <2>2 DEF EditProduct
  <2>4. Shelved(products, w) /\ w \in Seq(Names) /\ k \in 1 .. Len(w)
    BY <1>4, <2>1, <2>2
  <2>5. PICK l \in Nat : l = Len(products) /\ DOMAIN products = 1 .. l
    BY <1>2
  <2>6. code \in Nat
    BY CatalogueAssumption
  <2>7. PICK p \in Product : p = products[i]
    BY <1>2
  <2> DEFINE q == [p EXCEPT !.code = code, !.category = k, !.queued = TRUE]
  <2>8. q \in Product /\ q.code = code /\ q.category = k /\ q.barcode = p.barcode /\ q.made = p.made
    <3>1. k \in Nat
      BY <2>4
    <3>2. p \in [code: Nat, barcode: Nat, made: BOOLEAN, category: Nat, queued: BOOLEAN]
      BY DEF Product
    <3>3. q \in [code: Nat, barcode: Nat, made: BOOLEAN, category: Nat, queued: BOOLEAN]
      BY <2>6, <3>1, <3>2
    <3>4. q.code = code /\ q.category = k /\ q.barcode = p.barcode /\ q.made = p.made
      BY <3>2
    <3> QED BY <3>3, <3>4 DEF Product
  <2>9. PICK r \in Product : r = q
    BY <2>8
  <2>10. products' = [products EXCEPT ![i] = r]
    BY <2>3, <2>5, <2>7, <2>9
  <2> HIDE DEF q
  <2>11. PICK all \in Seq(Product) : all = products'
    BY <1>2, <2>10
  <2>12. DOMAIN all = 1 .. l /\ Len(all) = l /\ all[i] = r /\ \A j \in 1 .. l : j # i => all[j] = products[j]
    BY <1>2, <2>5, <2>10, <2>11
  <2>13. r.code = code /\ r.category = k /\ r.barcode = products[i].barcode /\ r.made = products[i].made
    BY <2>7, <2>8, <2>9
  <2>14. /\ \A j \in 1 .. l : all[j].barcode = products[j].barcode /\ all[j].made = products[j].made
         /\ \A j \in 1 .. l : j # i => all[j].code = products[j].code /\ all[j].category = products[j].category
         /\ all[i].code = code /\ all[i].category = k
    BY <2>12, <2>13
  <2>15. Distinct(all)
    <3>1. \A x, y \in 1 .. l :
             x # y => products[x].code # products[y].code /\ products[x].barcode # products[y].barcode
      BY <1>1, <2>5 DEF Shelved, Distinct
    <3>2. \A x \in 1 .. l : x # i => products[x].code # code
      BY <2>3, <2>5
    <3>3. ASSUME NEW x \in 1 .. l, NEW y \in 1 .. l, x # y
          PROVE all[x].code # all[y].code /\ all[x].barcode # all[y].barcode
      BY <2>14, <3>1, <3>2, <3>3
    <3> QED BY <2>12, <3>3 DEF Distinct
  <2>16. \A j \in 1 .. l : all[j].made => LuhnValid(all[j].barcode)
    BY <2>4, <2>5, <2>14 DEF Shelved
  <2>17. \A j \in 1 .. l : all[j].category \in 1 .. Len(w)
    BY <2>4, <2>5, <2>14 DEF Shelved
  <2>18. Shelved(all, w)
    BY <2>4, <2>12, <2>15, <2>16, <2>17 DEF Shelved
  <2>19. BarcodesOf(products) \subseteq BarcodesOf(all)
    BY <2>5, <2>12, <2>14 DEF BarcodesOf
  <2> QED BY <2>3, <2>11, <2>18, <2>19 DEF Stocked
<1>10. ASSUME NEW n \in 1 .. MaxRows, NEW file \in [1 .. n -> Row], Import(file) PROVE Stocked
  <2>1. file \in Seq(Row)
    BY CatalogueAssumption
  <2>2. PICK more, named : more = Written(Valid(file)).rows /\ named = Written(Valid(file)).named
    OBVIOUS
  <2>3. /\ named \in Seq(Names) /\ Len(named) >= Len(categories) /\ more \in Seq(Product)
        /\ \A i \in 1 .. Len(more) : /\ more[i].made => LuhnValid(more[i].barcode)
                                     /\ more[i].category \in 1 .. Len(named)
        /\ Max({0} \cup BarcodesIn) < Cap => Distinct(products \o more)
    BY <1>1, <2>1, <2>2, ImportedRows
  <2>4. \/ products' = products /\ categories' = categories /\ outcome' = "refused"
        \/ /\ Distinct(products \o more)
           /\ products' = products \o more /\ categories' = named /\ outcome' = "created"
        \/ /\ ~ Distinct(products \o more)
           /\ products' = products /\ categories' = categories /\ outcome' = "slipped"
    BY <1>10, <2>2 DEF Import
  <2>5. CASE products' = products /\ categories' = categories /\ outcome' = "refused"
    BY <1>1, <2>5 DEF Stocked
  <2>6. CASE /\ Distinct(products \o more)
             /\ products' = products \o more /\ categories' = named /\ outcome' = "created"
    <3>1. Shelved(products, named)
      BY <1>1, <2>3, MoreCategories
    <3>2. Shelved(products \o more, named) /\ BarcodesOf(products) \subseteq BarcodesOf(products \o more)
      BY <2>3, <2>6, <3>1, MoreProducts
    <3> QED BY <2>6, <3>2 DEF Stocked
  <2>7. CASE /\ ~ Distinct(products \o more)
             /\ products' = products /\ categories' = categories /\ outcome' = "slipped"
    <3>1. ~ (Max({0} \cup BarcodesIn) < Cap)
      BY <2>3, <2>7
    <3>2. Max({0} \cup BarcodesIn) \in Nat /\ Cap \in Nat
      BY <1>2, FirstBodyIsNew, CatalogueAssumption
    <3>3. Max({0} \cup BarcodesIn) >= Cap
      BY <3>1, <3>2
    <3> QED BY <1>1, <2>7, <3>3 DEF Stocked
  <2> QED BY <2>4, <2>5, <2>6, <2>7
<1>11. ASSUME NEW code \in Codes, NEW barcode \in Barcodes, PullProduct(code, barcode) PROVE Stocked
  <2> DEFINE row == [code |-> code, barcode |-> barcode, made |-> FALSE, category |-> 1, queued |-> TRUE]
  <2>1. /\ categories # <<>> /\ categories' = categories /\ outcome' = outcome
        /\ pulling' = Distinct(Append(products, row))
        /\ products' = IF pulling' THEN Append(products, row) ELSE products
    BY <1>11 DEF PullProduct
  <2>2. CASE Distinct(Append(products, row))
    <3>1. products' = Append(products, row)
      BY <2>1, <2>2
    <3>2. code \in Nat /\ barcode \in Nat
      BY CatalogueAssumption
    <3>3. row \in Product /\ row.made = FALSE /\ row.category = 1
      BY <3>2 DEF Product
    <3>4. 1 \in 1 .. Len(categories)
      BY <1>2, <2>1
    <3>5. PICK r \in Product : r = row
      BY <3>3
    <3>6. (r.made => LuhnValid(r.barcode)) /\ r.category \in 1 .. Len(categories)
      BY <3>3, <3>4, <3>5
    <3>7. Distinct(Append(products, r))
      BY <2>2, <3>5
    <3> HIDE DEF row
    <3>8. Shelved(Append(products, r), categories) /\ BarcodesOf(products) \subseteq BarcodesOf(Append(products, r))
      BY <1>1, <3>6, <3>7, OneMoreProduct
    <3> QED BY <1>1, <2>1, <3>1, <3>5, <3>8 DEF Stocked
  <2>3. CASE ~ Distinct(Append(products, row))
    <3>1. products' = products
      BY <2>1, <2>3
    <3> QED BY <1>1, <2>1, <3>1 DEF Stocked
  <2> QED BY <2>2, <2>3
<1>12. ASSUME NEW code \in Codes \cup {None}, NEW phone \in Phones \cup {None}, CreateCustomer(code, phone)
       PROVE  Stocked
  <2>1. products' = products /\ categories' = categories
    BY <1>12 DEF CreateCustomer
  <2>2. outcome' = "refused" \/ outcome' = "created"
    BY <1>12 DEF CreateCustomer
  <2> QED BY <1>1, <2>1, <2>2 DEF Stocked
<1>13. CASE \/ \E i \in DOMAIN customers, code \in Codes \cup {None}, phone \in Phones \cup {None} :
                 EditCustomer(i, code, phone)
            \/ \E i \in DOMAIN customers : ToggleCustomer(i)
            \/ \E phone \in Phones \cup {None} : CreateSupplier(phone)
            \/ \E i \in DOMAIN suppliers, phone \in Phones \cup {None} : EditSupplier(i, phone)
  BY <1>5, <1>13 DEF EditCustomer, ToggleCustomer, CreateSupplier, EditSupplier
<1> QED BY <1>6, <1>7, <1>8, <1>9, <1>10, <1>11, <1>12, <1>13 DEF Next

\* Customers and suppliers, and how a step ends.
LEMMA PeopleSteps ==
    ASSUME IInv, Next
    PROVE  Staffed
<1>1. People(customers, suppliers) /\ Kind
  BY TypeOKParts DEF IInv, Kind
<1>2. customers \in Seq(Customer) /\ suppliers \in Seq(Supplier)
  BY <1>1 DEF People
<1>3. PICK l \in Nat : l = Len(customers) /\ DOMAIN customers = 1 .. l
  BY <1>2
<1>4. \A i, j \in 1 .. l : customers[i].code = customers[j].code => i = j
  BY <1>1, <1>3 DEF People
<1>5. CASE UNCHANGED <<customers, suppliers>> /\ Kind'
  BY <1>1, <1>5 DEF Staffed
<1>6. ASSUME NEW name \in Names, CreateCategory(name) PROVE Staffed
  BY <1>1, <1>5, <1>6 DEF CreateCategory, Kind
<1>7. ASSUME NEW i \in DOMAIN categories, NEW name \in Names, Rename(i, name) PROVE Staffed
  BY <1>1, <1>5, <1>7 DEF Rename, Kind
<1>8. ASSUME NEW code \in Codes \cup {None}, NEW barcode \in Barcodes \cup {None}, NEW name \in Names,
             CreateProduct(code, barcode, name)
      PROVE  Staffed
  <2>1. outcome' = "refused" \/ outcome' = "created"
    BY <1>8 DEF CreateProduct
  <2>2. UNCHANGED <<customers, suppliers>> /\ pulling' = pulling
    BY <1>8 DEF CreateProduct
  <2> QED BY <1>1, <1>5, <2>1, <2>2 DEF Kind
<1>9. ASSUME NEW i \in DOMAIN products, NEW code \in Codes, NEW name \in Names, EditProduct(i, code, name)
      PROVE  Staffed
  BY <1>1, <1>5, <1>9 DEF EditProduct, Kind
<1>10. ASSUME NEW n \in 1 .. MaxRows, NEW file \in [1 .. n -> Row], Import(file) PROVE Staffed
  <2>1. outcome' = "refused" \/ outcome' = "created" \/ outcome' = "slipped"
    BY <1>10 DEF Import
  <2>2. UNCHANGED <<customers, suppliers>> /\ pulling' = pulling
    BY <1>10 DEF Import
  <2> QED BY <1>1, <1>5, <2>1, <2>2 DEF Kind
<1>11. ASSUME NEW code \in Codes, NEW barcode \in Barcodes, PullProduct(code, barcode) PROVE Staffed
  <2>1. outcome' = outcome /\ UNCHANGED <<customers, suppliers>>
    BY <1>11 DEF PullProduct
  <2>2. pulling' \in BOOLEAN
    BY <1>11 DEF PullProduct, Distinct
  <2> QED BY <1>1, <1>5, <2>1, <2>2 DEF Kind
<1>12. ASSUME NEW code \in Codes \cup {None}, NEW phone \in Phones \cup {None}, CreateCustomer(code, phone)
       PROVE  Staffed
  <2> DEFINE c == Given(code, NextCode(CustomerCodes))
  <2>1. (outcome' = "refused" \/ outcome' = "created") /\ pulling' = pulling /\ suppliers' = suppliers
    BY <1>12 DEF CreateCustomer
  <2>2. CASE c \in CustomerCodes
    <3>1. customers' = customers
      BY <1>12, <2>2 DEF CreateCustomer
    <3> QED BY <1>1, <1>5, <2>1, <3>1 DEF Kind
  <2>3. CASE c \notin CustomerCodes
    <3>1. customers' = Append(customers, [code |-> c, phone |-> phone, active |-> TRUE])
      BY <1>12, <2>3 DEF CreateCustomer
    <3>2. c \in Nat
      <4>1. CustomerCodes \in SUBSET Nat /\ IsFiniteSet(CustomerCodes)
        <5>1. PICK f \in [1 .. l -> Nat] : f = [i \in 1 .. l |-> customers[i].code]
          <6>1. \A i \in 1 .. l : customers[i] \in Customer
            BY <1>2, <1>3
          <6>2. \A i \in 1 .. l : customers[i].code \in Nat
            BY <6>1 DEF Customer
          <6>3. [i \in 1 .. l |-> customers[i].code] \in [1 .. l -> Nat]
            BY <6>2
          <6> QED BY <6>3
        <5>2. IsFiniteSet(1 .. l)
          BY FS_Interval
        <5>3. IsFiniteSet(Values(f, 1 .. l)) /\ Values(f, 1 .. l) \subseteq Nat
          BY <5>2, ValuesAreFinite
        <5>4. CustomerCodes = Values(f, 1 .. l)
          BY <1>3, <5>1 DEF CustomerCodes, Values
        <5> QED BY <5>3, <5>4
      <4>2. NextCode(CustomerCodes) \in Nat
        BY <4>1, NextCodeIsNew
      <4>3. code # None => code \in Nat
        BY CatalogueAssumption
      <4> QED BY <4>2, <4>3 DEF Given
    <3>3. PICK x : x = c
      OBVIOUS
    <3>4. PICK r \in Customer : r = [code |-> x, phone |-> phone, active |-> TRUE]
      BY <3>2, <3>3 DEF Customer
    <3>5. r.code = x /\ \A i \in 1 .. l : customers[i].code # x
      BY <1>3, <2>3, <3>3, <3>4 DEF CustomerCodes
    <3>6. Append(customers, r) \in Seq(Customer)
      BY <1>2
    <3>7. PICK all \in Seq(Customer) : all = Append(customers, r)
      BY <3>6
    <3>8. Len(all) = l + 1 /\ all[l + 1] = r /\ \A i \in 1 .. l : all[i] = customers[i]
      BY <1>2, <1>3, <3>7
    <3>9. ASSUME NEW i \in 1 .. Len(all), NEW j \in 1 .. Len(all), all[i].code = all[j].code PROVE i = j
      <4>1. CASE i \in 1 .. l /\ j \in 1 .. l
        BY <1>4, <3>8, <3>9, <4>1
      <4>2. CASE i = l + 1 /\ j \in 1 .. l
        BY <3>5, <3>8, <3>9, <4>2
      <4>3. CASE i \in 1 .. l /\ j = l + 1
        BY <3>5, <3>8, <3>9, <4>3
      <4> QED BY <3>8, <4>1, <4>2, <4>3
    <3>10. People(all, suppliers)
      BY <1>2, <3>9 DEF People
    <3>11. customers' = all
      BY <3>1, <3>3, <3>4, <3>7
    <3> QED BY <1>1, <2>1, <3>10, <3>11 DEF Staffed, Kind
  <2> QED BY <2>2, <2>3
<1>13. ASSUME NEW i \in DOMAIN customers, NEW r \in Customer, customers' = [customers EXCEPT ![i] = r],
              suppliers' = suppliers, outcome' = outcome, pulling' = pulling,
              \A j \in DOMAIN customers : customers[j].code = r.code => i = j
       PROVE  Staffed
  <2>1. PICK all \in Seq(Customer) : all = customers'
    <3>1. customers' = [customers EXCEPT ![i] = r]
      BY <1>13
    <3>2. [customers EXCEPT ![i] = r] \in Seq(Customer)
      BY <1>2
    <3> QED BY <3>1, <3>2
  <2>2. Len(all) = l /\ all[i] = r /\ \A j \in 1 .. l : j # i => all[j] = customers[j]
    BY <1>2, <1>3, <1>13, <2>1
  <2>3. ASSUME NEW x \in 1 .. l, NEW y \in 1 .. l, all[x].code = all[y].code PROVE x = y
    BY <1>3, <1>4, <1>13, <2>2, <2>3
  <2>4. People(all, suppliers)
    BY <1>2, <2>2, <2>3 DEF People
  <2> QED BY <1>1, <1>13, <2>1, <2>4 DEF Staffed, Kind
<1>14. ASSUME NEW i \in DOMAIN customers, NEW code \in Codes \cup {None}, NEW phone \in Phones \cup {None},
              EditCustomer(i, code, phone)
       PROVE  Staffed
  <2>1. PICK p \in Customer : p = customers[i]
    BY <1>2
  <2>2. PICK c, h : c = Kept(code, p.code) /\ h = Kept(phone, p.phone)
    OBVIOUS
  <2>3. c \in Nat /\ h \in Phones \cup {None}
    <3>1. code # None => code \in Nat
      BY CatalogueAssumption
    <3> QED BY <2>2, <3>1 DEF Kept, Customer
  <2>4. PICK r \in Customer : r = [p EXCEPT !.code = c, !.phone = h] /\ r.code = c
    <3>1. [p EXCEPT !.code = c, !.phone = h] \in Customer
      BY <2>3 DEF Customer
    <3>2. [p EXCEPT !.code = c, !.phone = h].code = c
      BY DEF Customer
    <3> QED BY <3>1, <3>2
  <2>5. /\ \A j \in DOMAIN customers : customers[j].code = c => i = j
        /\ customers' = [customers EXCEPT ![i].code = Kept(code, @), ![i].phone = Kept(phone, @)]
        /\ suppliers' = suppliers /\ outcome' = outcome /\ pulling' = pulling
    BY <1>14, <2>1, <2>2 DEF EditCustomer
  <2>6. customers' = [customers EXCEPT ![i] = r]
    <3>1. PICK q \in Customer : q = [p EXCEPT !.code = c] /\ q.phone = p.phone
      <4>1. [p EXCEPT !.code = c] \in Customer /\ [p EXCEPT !.code = c].phone = p.phone
        BY <2>3 DEF Customer
      <4> QED BY <4>1
    <3>2. r = [q EXCEPT !.phone = h]
      BY <2>4, <3>1
    <3>3. PICK list \in Seq(Customer) : list = [customers EXCEPT ![i] = q]
      <4>1. [customers EXCEPT ![i] = q] \in Seq(Customer)
        BY <1>2
      <4> QED BY <4>1
    <3>4. list[i] = q /\ [list EXCEPT ![i] = r] = [customers EXCEPT ![i] = r]
      BY <1>2, <1>3, <3>3
    <3>5. [customers EXCEPT ![i].code = Kept(code, @)] = list
      BY <2>1, <2>2, <3>1, <3>3
    <3>6. customers' = [[customers EXCEPT ![i].code = Kept(code, @)] EXCEPT ![i].phone = Kept(phone, @)]
      BY <2>5
    <3>7. customers' = [list EXCEPT ![i] = [q EXCEPT !.phone = Kept(phone, q.phone)]]
      BY <3>4, <3>5, <3>6
    <3> QED BY <2>2, <3>1, <3>2, <3>4, <3>7
  <2>7. \A j \in DOMAIN customers : customers[j].code = r.code => i = j
    BY <2>4, <2>5
  <2>8. suppliers' = suppliers /\ outcome' = outcome /\ pulling' = pulling
    BY <2>5
  <2> QED BY <1>13, <2>6, <2>7, <2>8
<1>15. ASSUME NEW i \in DOMAIN customers, ToggleCustomer(i) PROVE Staffed
  <2>1. PICK p \in Customer : p = customers[i]
    BY <1>2
  <2>2. PICK r \in Customer : r = [code |-> p.code, phone |-> p.phone, active |-> ~ p.active]
    BY DEF Customer
  <2>3. /\ customers' = [customers EXCEPT ![i].active = ~ @]
        /\ suppliers' = suppliers /\ outcome' = outcome /\ pulling' = pulling
    BY <1>15 DEF ToggleCustomer
  <2>4. [p EXCEPT !.active = ~ @] = r
    BY <2>2 DEF Customer
  <2>5. customers' = [customers EXCEPT ![i] = r]
    BY <1>2, <1>3, <2>1, <2>3, <2>4
  <2>6. \A j \in DOMAIN customers : customers[j].code = r.code => i = j
    BY <1>3, <1>4, <2>1, <2>2
  <2> QED BY <1>13, <2>3, <2>5, <2>6
<1>16. ASSUME NEW phone \in Phones \cup {None}, CreateSupplier(phone) PROVE Staffed
  <2>1. /\ suppliers' = Append(suppliers, [phone |-> phone])
        /\ customers' = customers /\ outcome' = outcome /\ pulling' = pulling
    BY <1>16 DEF CreateSupplier
  <2>2. PICK r \in Supplier : r = [phone |-> phone]
    BY DEF Supplier
  <2>3. Append(suppliers, r) \in Seq(Supplier)
    BY <1>2
  <2>4. People(customers, Append(suppliers, r))
    BY <1>1, <2>3 DEF People
  <2> QED BY <1>1, <2>1, <2>2, <2>4 DEF Staffed, Kind
<1>17. ASSUME NEW i \in DOMAIN suppliers, NEW phone \in Phones \cup {None}, EditSupplier(i, phone) PROVE Staffed
  <2>1. PICK p \in Supplier : p = suppliers[i]
    BY <1>2
  <2>2. PICK h \in Phones \cup {None} : h = Kept(phone, p.phone)
    BY DEF Kept, Supplier
  <2>3. PICK r \in Supplier : r = [p EXCEPT !.phone = h]
    BY DEF Supplier
  <2>4. /\ suppliers' = [suppliers EXCEPT ![i].phone = Kept(phone, @)]
        /\ customers' = customers /\ outcome' = outcome /\ pulling' = pulling
    BY <1>17 DEF EditSupplier
  <2>5. suppliers' = [suppliers EXCEPT ![i] = r]
    BY <1>2, <2>1, <2>2, <2>3, <2>4
  <2>6. suppliers' \in Seq(Supplier)
    BY <1>2, <2>5
  <2>7. PICK all \in Seq(Supplier) : all = suppliers'
    BY <2>6
  <2>8. People(customers, all)
    BY <1>1 DEF People
  <2> QED BY <1>1, <2>4, <2>7, <2>8 DEF Staffed, Kind
<1> QED BY <1>6, <1>7, <1>8, <1>9, <1>10, <1>11, <1>12, <1>14, <1>15, <1>16, <1>17 DEF Next

-------------------------------------------------------------------------------
\* The theorems

\* The invariant is kept.
LEMMA IInvKept == IInv /\ [Next]_vars => IInv'
<1> SUFFICES ASSUME IInv, [Next]_vars PROVE IInv'
  OBVIOUS
<1>1. CASE UNCHANGED vars
  <2>1. /\ products' = products /\ categories' = categories /\ customers' = customers
        /\ suppliers' = suppliers /\ outcome' = outcome /\ pulling' = pulling
    BY <1>1 DEF vars
  <2>2. TypeOK'
    BY <2>1 DEF IInv, TypeOK, Made
  <2>3. outcome' = "slipped" => (Max({0} \cup BarcodesIn) >= Cap)'
    BY <2>1 DEF IInv, BarcodesIn
  <2> QED BY <2>2, <2>3 DEF IInv
<1>2. CASE Next
  <2>1. Stocked /\ Staffed
    BY <1>2, ProductSteps, PeopleSteps
  <2>2. TypeOK'
    <3>1. Shelf' /\ Folk' /\ Kind'
      BY <2>1 DEF Stocked, Staffed, Shelf, Folk
    <3> QED BY <3>1, PartsAreTypes, PTL
  <2>3. outcome' = "slipped" => Max({0} \cup BarcodesOf(products')) >= Cap
    <3>1. products \in Seq(Product) /\ products' \in Seq(Product)
      BY <2>1, TypeOKParts DEF IInv, Stocked, Shelved
    <3>2. BarcodesIn = BarcodesOf(products)
      BY DEF BarcodesIn, BarcodesOf
    <3>3. /\ BarcodesOf(products) \in SUBSET Nat /\ IsFiniteSet(BarcodesOf(products))
          /\ BarcodesOf(products') \in SUBSET Nat /\ IsFiniteSet(BarcodesOf(products'))
      BY <3>1, NumbersOfList
    <3>4. PICK x, y \in Nat : /\ x = Max({0} \cup BarcodesOf(products))
                              /\ y = Max({0} \cup BarcodesOf(products')) /\ x <= y
      BY <2>1, <3>3, MaxGrows DEF Stocked
    <3>5. outcome' = "slipped" => x >= Cap
      BY <2>1, <3>2, <3>4 DEF Stocked
    <3> QED BY <3>4, <3>5, CatalogueAssumption
  <2>4. BarcodesIn' = BarcodesOf(products')
    BY DEF BarcodesIn, BarcodesOf
  <2> QED BY <2>2, <2>3, <2>4 DEF IInv
<1> QED BY <1>1, <1>2

\* It holds of an empty catalogue, with nothing tried yet.
LEMMA IInvAtFirst == Init => IInv
<1> SUFFICES ASSUME Init PROVE IInv
  OBVIOUS
<1>1. /\ products = <<>> /\ categories = <<>> /\ customers = <<>> /\ suppliers = <<>>
      /\ outcome = None /\ pulling = TRUE
  BY DEF Init
<1>2. \A X : <<>> \in Seq(X) /\ Len(<<>>) = 0 /\ DOMAIN <<>> = 1 .. 0
  OBVIOUS
<1>3. Shelved(products, categories) /\ People(customers, suppliers)
  BY <1>1, <1>2 DEF Shelved, People, Distinct
<1>4. TypeOK
  BY <1>1, <1>3, TypeOKParts
<1>5. outcome # "slipped"
  BY <1>1, CatalogueAssumption
<1> QED BY <1>4, <1>5 DEF IInv

\* The invariant is one.
THEOREM CatalogueInvariant == Spec => []IInv
<1>1. Init => IInv
  BY IInvAtFirst
<1>2. IInv /\ [Next]_vars => IInv'
  BY IInvKept
<1> QED BY <1>1, <1>2, PTL DEF Spec

\* Types; codes and barcodes are unique, generated barcodes end in their check
\* digit and products have a category, however many are entered, edited,
\* imported or pulled, in whatever order.
THEOREM CatalogueTypeCorrect == Spec => []TypeOK
<1>1. IInv => TypeOK
  BY DEF IInv
<1> QED BY <1>1, CatalogueInvariant, PTL

\* A generated label with one digit misread is no other product's label, for
\* barcodes of any length.
THEOREM MisreadDigitIsNoticed == Spec => []OneMisreadDigitFindsNoOther
<1>1. IInv => OneMisreadDigitFindsNoOther
  <2> SUFFICES ASSUME IInv PROVE OneMisreadDigitFindsNoOther
    OBVIOUS
  <2>1. \A b \in Made : b \in Nat /\ LuhnValid(b)
    <3>1. products \in Seq(Product) /\ \A b \in Made : LuhnValid(b)
      BY DEF IInv, TypeOK
    <3>2. \A i \in DOMAIN products : products[i] \in Product
      BY <3>1
    <3>3. \A b \in Made : b \in Nat
      BY <3>2 DEF Made, Product
    <3> QED BY <3>1, <3>3
  <2>2. \A a, b \in Made :
           a # b /\ Digits(a) = Digits(b) =>
             Cardinality({place \in 0 .. Digits(a) - 1 : Digit(a, place) # Digit(b, place)}) > 1
    <3>1. ASSUME NEW a \in Made, NEW b \in Made, a # b, Digits(a) = Digits(b)
          PROVE  Cardinality({place \in 0 .. Digits(a) - 1 : Digit(a, place) # Digit(b, place)}) > 1
      <4>1. a \in Nat /\ b \in Nat /\ LuhnValid(a) /\ LuhnValid(b)
        BY <2>1
      <4> QED BY <3>1, <4>1, OneMisread
    <3> QED BY <3>1
  <2> QED BY <2>2 DEF OneMisreadDigitFindsNoOther
<1> QED BY <1>1, CatalogueInvariant, PTL

\* The database refuses an import that was validated only when a barcode is
\* larger than SQLite's integers: what is generated for a file collides with
\* neither the file nor the catalogue, however many rows it has and whatever
\* was typed in them.
THEOREM NothingSlipsThrough == Spec => NothingSlips
<1>1. IInv /\ [Next]_vars => [outcome' = "slipped" => Max({0} \cup BarcodesIn) >= Cap]_vars
  <2> SUFFICES ASSUME IInv, Next PROVE outcome' = "slipped" => Max({0} \cup BarcodesIn) >= Cap
    BY DEF vars
  <2> QED BY ProductSteps DEF Stocked
<1> QED BY <1>1, CatalogueInvariant, PTL DEF Spec, NothingSlips

===============================================================================
