------------------------------ MODULE BooksProofs ------------------------------
(***************************************************************************)
(* Proofs about the books: for any products, users, prices, terms and      *)
(* number of days the reports tell one story.                              *)
(***************************************************************************)
EXTENDS BooksProperties, FiniteSetTheorems, SequenceTheorems, WellFoundedInduction, TLAPS

-------------------------------------------------------------------------------
\* Numbers and finite sets

\* A nonempty set of naturals has a least element.
LEMMA LeastExists ==
    ASSUME NEW S \in SUBSET Nat, S # {}
    PROVE  \E x \in S : \A y \in S : x <= y
<1> DEFINE Less == OpToRel(<, Nat)
<1>1. Less = {ss \in Nat \X Nat : ss[1] < ss[2]}
  BY DEF OpToRel
<1>2. IsWellFoundedOn(Less, Nat)
  BY NatLessThanWellFounded
<1> HIDE DEF Less
<1>3. \E x \in S : \A y \in S : ~ (<<y, x>> \in Less)
  BY <1>2, WFMin
<1>4. \A x, y \in Nat : y < x => <<y, x>> \in Less
  BY <1>1
<1>5. \A x, y \in S : <<y, x>> \notin Less => x <= y
  BY <1>4
<1> QED BY <1>3, <1>5

\* What holds of no rows, and of one row more whenever it holds of some, holds of all.
LEMMA AllRows ==
    ASSUME NEW D, IsFiniteSet(D), NEW G, {} \in G,
           \A T \in SUBSET D : \A x \in D \ T : T \in G => T \cup {x} \in G
    PROVE  D \in G
<1> SUFFICES ASSUME D \notin G PROVE FALSE
  OBVIOUS
<1> DEFINE Bad  == {T \in SUBSET D : T \notin G}
           Size == {Cardinality(T) : T \in Bad}
<1>1. \A T \in SUBSET D : IsFiniteSet(T) /\ Cardinality(T) \in Nat
  BY FS_Subset, FS_CardinalityType
<1>2. Size \in SUBSET Nat /\ Size # {}
  BY <1>1
<1>3. PICK n \in Size : \A m \in Size : n <= m
  <2> HIDE DEF Size
  <2> QED BY <1>2, LeastExists
<1>4. PICK T \in Bad : n = Cardinality(T)
  OBVIOUS
<1>5. PICK x \in T : TRUE
  OBVIOUS
<1>6. Cardinality(T \ {x}) = Cardinality(T) - 1
  BY <1>1, FS_RemoveElement
<1>7. T \ {x} \in G
  <2>1. T \ {x} \in SUBSET D
    OBVIOUS
  <2>2. CASE T \ {x} \in Bad
    <3>1. Cardinality(T) <= Cardinality(T \ {x})
      BY <1>3, <1>4, <2>2
    <3>2. Cardinality(T) \in Nat
      BY <1>1
    <3> QED BY <1>6, <3>1, <3>2
  <2> QED BY <2>1, <2>2
<1>8. (T \ {x}) \cup {x} = T /\ x \in D \ (T \ {x})
  OBVIOUS
<1>9. PICK U \in SUBSET D : U = T \ {x}
  OBVIOUS
<1>10. U \cup {x} \in G
  BY <1>7, <1>8, <1>9
<1>11. U \cup {x} = T
  BY <1>8, <1>9
<1> QED BY <1>10, <1>11

-------------------------------------------------------------------------------
\* Sums

Units(f) == UNION {{i} \X (1 .. f[i]) : i \in DOMAIN f}

\* Finitely many numbers have a sum.
LEMMA TotalType ==
    ASSUME NEW S, IsFiniteSet(S), NEW f \in [S -> Nat]
    PROVE  IsFiniteSet(Units(f)) /\ Total(f) \in Nat
<1>1. ASSUME NEW d \in S PROVE IsFiniteSet({d} \X (1 .. f[d]))
  <2>1. f[d] \in Int /\ 1 \in Int
    OBVIOUS
  <2>2. IsFiniteSet({d}) /\ IsFiniteSet(1 .. f[d])
    BY <2>1, FS_Interval, FS_Singleton
  <2> QED BY <2>2, FS_Product
<1> DEFINE parts == {{d} \X (1 .. f[d]) : d \in S}
           part  == [d \in S |-> {d} \X (1 .. f[d])]
<1>2. IsFiniteSet(parts)
  <2>1. part \in Surjection(S, parts)
    BY DEF Surjection
  <2> QED BY <2>1, FS_Surjection
<1>3. \A p \in parts : IsFiniteSet(p)
  BY <1>1
<1>4. IsFiniteSet(UNION parts)
  <2> HIDE DEF parts
  <2> QED BY <1>2, <1>3, FS_UNION
<1>5. Units(f) = UNION parts
  BY DEF Units
<1>6. Total(f) = Cardinality(Units(f))
  BY DEF Total, Units
<1> QED BY <1>4, <1>5, <1>6, FS_CardinalityType

\* The sum of nothing.
LEMMA TotalNone ==
    ASSUME NEW f, DOMAIN f = {}
    PROVE  Total(f) = 0
<1>1. UNION {{i} \X (1 .. f[i]) : i \in DOMAIN f} = {}
  OBVIOUS
<1> QED BY <1>1, FS_EmptySet DEF Total

\* The units of one row more.
LEMMA UnitsMore ==
    ASSUME NEW S, NEW x, x \notin S, NEW f \in [S -> Nat], NEW g \in [S \cup {x} -> Nat],
           \A i \in S : g[i] = f[i]
    PROVE  Units(g) = Units(f) \cup ({x} \X (1 .. g[x])) /\ Units(f) \cap ({x} \X (1 .. g[x])) = {}
<1>1. \A u : u \in Units(f) <=> \E i \in S : u \in {i} \X (1 .. f[i])
  BY DEF Units
<1>2. \A u : u \in Units(g) <=> \E i \in S \cup {x} : u \in {i} \X (1 .. g[i])
  BY DEF Units
<1>3. ASSUME NEW u PROVE u \in Units(g) <=> u \in Units(f) \cup ({x} \X (1 .. g[x]))
  <2>1. ASSUME u \in Units(g) PROVE u \in Units(f) \cup ({x} \X (1 .. g[x]))
    <3>1. PICK i \in S \cup {x} : u \in {i} \X (1 .. g[i])
      BY <1>2, <2>1
    <3>2. CASE i = x
      BY <3>1, <3>2
    <3>3. CASE i \in S
      BY <1>1, <3>1, <3>3
    <3> QED BY <3>2, <3>3
  <2>2. ASSUME u \in Units(f) PROVE u \in Units(g)
    BY <1>1, <1>2, <2>2
  <2>3. ASSUME u \in {x} \X (1 .. g[x]) PROVE u \in Units(g)
    BY <1>2, <2>3
  <2> QED BY <2>1, <2>2, <2>3
<1>4. ASSUME NEW u, u \in Units(f), u \in {x} \X (1 .. g[x]) PROVE FALSE
  <2>1. PICK i \in S : u \in {i} \X (1 .. f[i])
    BY <1>1, <1>4
  <2>2. u[1] = i /\ u[1] = x
    BY <1>4, <2>1
  <2> QED BY <2>2
<1> QED BY <1>3, <1>4

\* One row more.
LEMMA TotalMore ==
    ASSUME NEW S, IsFiniteSet(S), NEW x, x \notin S,
           NEW f \in [S -> Nat], NEW g \in [S \cup {x} -> Nat], \A i \in S : g[i] = f[i]
    PROVE  Total(g) = Total(f) + g[x]
<1> DEFINE own == {x} \X (1 .. g[x])
<1>1. g[x] \in Nat /\ g[x] \in Int /\ 1 \in Int
  <2>1. x \in S \cup {x}
    OBVIOUS
  <2> QED BY <2>1
<1>2. IsFiniteSet(own) /\ Cardinality(own) = g[x]
  <2>1. /\ IsFiniteSet({x}) /\ Cardinality({x}) = 1
        /\ IsFiniteSet(1 .. g[x]) /\ Cardinality(1 .. g[x]) = IF 1 > g[x] THEN 0 ELSE g[x] - 1 + 1
    BY <1>1, FS_Singleton, FS_Interval
  <2>2. IsFiniteSet(own) /\ Cardinality(own) = 1 * Cardinality(1 .. g[x])
    BY <2>1, FS_Product
  <2> QED BY <1>1, <2>1, <2>2
<1>3. IsFiniteSet(Units(f)) /\ Total(f) \in Nat
  BY TotalType
<1>4. Units(g) = Units(f) \cup own /\ Units(f) \cap own = {}
  BY UnitsMore
<1>5. Total(f) = Cardinality(Units(f)) /\ Total(g) = Cardinality(Units(g))
  BY DEF Total, Units
<1> HIDE DEF own
<1>6. Cardinality(Units(f) \cup own)
        = Cardinality(Units(f)) + Cardinality(own) - Cardinality(Units(f) \cap own)
  BY <1>2, <1>3, FS_Union
<1>7. Cardinality(Units(f) \cap own) = 0
  BY <1>4, FS_EmptySet
<1> QED BY <1>1, <1>2, <1>3, <1>4, <1>5, <1>6, <1>7

Counts(S) == [S -> Nat]

\* The rows among T.
Part(f, T) == [i \in T |-> f[i]]

\* A column is a column of numbers.
LEMMA CountsType == ASSUME NEW S, NEW f \in Counts(S), NEW i \in S PROVE f[i] \in Nat
  BY DEF Counts

\* Some rows of a column are a column.
LEMMA PartCounts ==
    ASSUME NEW S, NEW f \in Counts(S), NEW T \in SUBSET S
    PROVE  Part(f, T) \in Counts(T) /\ \A i \in T : Part(f, T)[i] = f[i]
  BY DEF Counts, Part

\* One row more of the same.
LEMMA TotalStep ==
    ASSUME NEW S, IsFiniteSet(S), NEW f \in Counts(S), NEW T \in SUBSET S, NEW x \in S \ T
    PROVE  /\ IsFiniteSet(T) /\ Total(Part(f, T)) \in Nat
           /\ Total(Part(f, T \cup {x})) = Total(Part(f, T)) + f[x]
<1> USE DEF Counts
<1>1. IsFiniteSet(T) /\ x \notin T
  BY FS_Subset
<1>2. Part(f, T) \in Counts(T) /\ Part(f, T \cup {x}) \in [T \cup {x} -> Nat]
  BY DEF Part
<1>3. Part(f, T \cup {x})[x] = f[x] /\ \A i \in T : Part(f, T \cup {x})[i] = Part(f, T)[i]
  BY DEF Part
<1> QED BY <1>1, <1>2, <1>3, TotalMore, TotalType

\* The sum of all rows.
LEMMA TotalAll == ASSUME NEW S, NEW f \in Counts(S) PROVE Part(f, S) = f
  BY DEF Counts, Part

\* The sum of sums.
LEMMA TotalPlus ==
    ASSUME NEW S, IsFiniteSet(S), NEW f \in Counts(S), NEW g \in Counts(S), NEW h \in Counts(S),
           \A i \in S : h[i] = f[i] + g[i]
    PROVE  Total(h) = Total(f) + Total(g)
<1>0. \A T \in SUBSET S : \A x \in S \ T : \A k \in Counts(S) :
         /\ Total(Part(k, T)) \in Nat
         /\ Total(Part(k, T \cup {x})) = Total(Part(k, T)) + k[x]
  BY TotalStep
<1> DEFINE G == {T \in SUBSET S : Total(Part(h, T)) = Total(Part(f, T)) + Total(Part(g, T))}
<1>1. {} \in G
  <2>1. DOMAIN Part(h, {}) = {} /\ DOMAIN Part(f, {}) = {} /\ DOMAIN Part(g, {}) = {}
    BY DEF Part
  <2> QED BY <2>1, TotalNone
<1>2. ASSUME NEW T \in SUBSET S, NEW x \in S \ T, T \in G PROVE T \cup {x} \in G
  <2>1. /\ Total(Part(h, T)) = Total(Part(f, T)) + Total(Part(g, T))
        /\ h[x] = f[x] + g[x] /\ f[x] \in Nat /\ g[x] \in Nat
    BY <1>2, CountsType
  <2>2. \A k \in Counts(S) : /\ Total(Part(k, T)) \in Nat
                              /\ Total(Part(k, T \cup {x})) = Total(Part(k, T)) + k[x]
    BY <1>0
  <2>3. /\ Total(Part(f, T)) \in Nat /\ Total(Part(g, T)) \in Nat
        /\ Total(Part(h, T \cup {x})) = Total(Part(h, T)) + h[x]
        /\ Total(Part(f, T \cup {x})) = Total(Part(f, T)) + f[x]
        /\ Total(Part(g, T \cup {x})) = Total(Part(g, T)) + g[x]
    BY <2>2
  <2> QED BY <2>1, <2>3
<1>3. S \in G
  <2> HIDE DEF G
  <2> QED BY <1>1, <1>2, AllRows
<1> QED BY <1>3, TotalAll

\* The sum of multiples.
LEMMA TotalTimes ==
    ASSUME NEW S, IsFiniteSet(S), NEW f \in Counts(S), NEW h \in Counts(S), NEW c \in Nat,
           \A i \in S : h[i] = f[i] * c
    PROVE  Total(h) = Total(f) * c
<1> DEFINE G == {T \in SUBSET S : Total(Part(h, T)) = Total(Part(f, T)) * c}
<1>1. {} \in G
  <2>1. DOMAIN Part(h, {}) = {} /\ DOMAIN Part(f, {}) = {}
    BY DEF Part
  <2> QED BY <2>1, TotalNone
<1>2. ASSUME NEW T \in SUBSET S, NEW x \in S \ T, T \in G PROVE T \cup {x} \in G
  <2>1. Total(Part(h, T)) = Total(Part(f, T)) * c /\ h[x] = f[x] * c /\ f[x] \in Nat
    BY <1>2, CountsType
  <2>2. /\ Total(Part(f, T)) \in Nat
        /\ Total(Part(h, T \cup {x})) = Total(Part(h, T)) + h[x]
        /\ Total(Part(f, T \cup {x})) = Total(Part(f, T)) + f[x]
    BY TotalStep
  <2>3. \A a, b \in Nat : (a + b) * c = a * c + b * c
    OBVIOUS
  <2>4. Total(Part(h, T \cup {x})) = Total(Part(f, T \cup {x})) * c
    BY <2>1, <2>2, <2>3
  <2> QED BY <2>4
<1>3. S \in G
  <2> HIDE DEF G
  <2> QED BY <1>1, <1>2, AllRows
<1> QED BY <1>3, TotalAll

\* Rows that are not in the sum count nothing.
LEMMA TotalRest ==
    ASSUME NEW S, IsFiniteSet(S), NEW A \in SUBSET S, NEW f \in Counts(S), NEW g \in Counts(A),
           \A i \in A : f[i] = g[i], \A i \in S \ A : f[i] = 0
    PROVE  Total(f) = Total(g)
<1> DEFINE G == {T \in SUBSET S : Total(Part(f, T)) = Total(Part(g, T \cap A))}
<1>1. {} \in G
  <2>1. DOMAIN Part(f, {}) = {} /\ DOMAIN Part(g, {} \cap A) = {}
    BY DEF Part
  <2> QED BY <2>1, TotalNone
<1>2. ASSUME NEW T \in SUBSET S, NEW x \in S \ T, T \in G PROVE T \cup {x} \in G
  <2>1. Total(Part(f, T)) = Total(Part(g, T \cap A)) /\ Total(Part(f, T)) \in Nat
    BY <1>2, TotalStep
  <2>2. Total(Part(f, T \cup {x})) = Total(Part(f, T)) + f[x]
    BY TotalStep
  <2>3. CASE x \in A
    <3>1. IsFiniteSet(A) /\ T \cap A \in SUBSET A /\ x \in A \ (T \cap A)
      BY <2>3, FS_Subset
    <3>2. Total(Part(g, (T \cap A) \cup {x})) = Total(Part(g, T \cap A)) + g[x]
      BY <3>1, TotalStep
    <3>3. (T \cap A) \cup {x} = (T \cup {x}) \cap A
      BY <2>3
    <3> QED BY <2>1, <2>2, <2>3, <3>2, <3>3
  <2>4. CASE x \notin A
    <3>1. (T \cup {x}) \cap A = T \cap A /\ f[x] = 0
      BY <2>4
    <3>2. Total(Part(f, T)) + 0 = Total(Part(f, T))
      BY <2>1
    <3> QED BY <2>1, <2>2, <3>1, <3>2
  <2> QED BY <2>3, <2>4
<1>3. S \in G
  <2> HIDE DEF G
  <2> QED BY <1>1, <1>2, AllRows
<1>4. S \cap A = A
  OBVIOUS
<1> QED BY <1>3, <1>4, TotalAll

\* Rows grouped: the sum of the sums of the groups.
LEMMA TotalGrouped ==
    ASSUME NEW S, IsFiniteSet(S), NEW D, IsFiniteSet(D), NEW key \in [S -> D],
           NEW f \in Counts(S), NEW h \in Counts(D),
           \A d \in D : h[d] = Total([i \in {i \in S : key[i] = d} |-> f[i]])
    PROVE  Total(f) = Total(h)
<1> DEFINE In(T) == {i \in S : key[i] \in T}
           G == {T \in SUBSET D : Total(Part(f, In(T))) = Total(Part(h, T))}
<1>1. {} \in G
  <2>1. In({}) = {} /\ DOMAIN Part(f, {}) = {} /\ DOMAIN Part(h, {}) = {}
    BY DEF Part
  <2> QED BY <2>1, TotalNone
<1>2. ASSUME NEW T \in SUBSET D, NEW x \in D \ T, T \in G PROVE T \cup {x} \in G
  <2> DEFINE new == {i \in S : key[i] = x}
  <2>1. /\ IsFiniteSet(In(T)) /\ IsFiniteSet(new) /\ IsFiniteSet(In(T \cup {x}))
    BY FS_Subset
  <2>2. In(T \cup {x}) = In(T) \cup new /\ In(T) \cap new = {}
    OBVIOUS
  <2>3. Total(Part(h, T \cup {x})) = Total(Part(h, T)) + h[x]
    BY TotalStep
  <2>4. h[x] = Total(Part(f, new))
    BY DEF Part
  <2>5. Total(Part(f, In(T \cup {x}))) = Total(Part(f, In(T))) + Total(Part(f, new))
    <3>1. PICK A \in SUBSET S, B \in SUBSET S, C \in SUBSET S :
              A = In(T) /\ B = new /\ C = In(T \cup {x})
      OBVIOUS
    <3>2. C = A \cup B /\ A \cap B = {} /\ IsFiniteSet(A) /\ IsFiniteSet(B) /\ IsFiniteSet(C)
      BY <2>1, <2>2, <3>1
    <3> HIDE DEF In, new
    <3>3. PICK a \in Counts(C) : a = [i \in C |-> IF i \in A THEN f[i] ELSE 0]
      BY <3>2 DEF Counts
    <3>4. PICK b \in Counts(C) : b = [i \in C |-> IF i \in B THEN f[i] ELSE 0]
      BY <3>2 DEF Counts
    <3>5. Part(f, A) \in Counts(A) /\ Part(f, B) \in Counts(B) /\ Part(f, C) \in Counts(C)
      BY PartCounts
    <3>6. ASSUME NEW U \in SUBSET C, NEW u \in Counts(C),
                 u = [i \in C |-> IF i \in U THEN f[i] ELSE 0]
          PROVE  Total(u) = Total(Part(f, U))
      <4>1. PICK w \in Counts(U) : w = Part(f, U)
        <5>1. U \in SUBSET S
          OBVIOUS
        <5> QED BY <5>1, PartCounts
      <4>2. \A i \in U : u[i] = w[i]
        BY <3>6, <4>1 DEF Part
      <4>3. \A i \in C \ U : u[i] = 0
        BY <3>6
      <4>4. Total(u) = Total(w)
        BY <3>2, <4>2, <4>3, TotalRest
      <4> QED BY <4>1, <4>4
    <3>7. Total(a) = Total(Part(f, A)) /\ Total(b) = Total(Part(f, B))
      BY <3>2, <3>3, <3>4, <3>6
    <3>8. Total(Part(f, C)) = Total(a) + Total(b)
      <4>1. PICK c \in Counts(C) : c = Part(f, C)
        BY <3>5
      <4>2. \A i \in C : c[i] = a[i] + b[i]
        <5>1. ASSUME NEW i \in C PROVE c[i] = a[i] + b[i]
          <6>1. c[i] = f[i] /\ f[i] \in Nat
            BY <4>1, CountsType DEF Part
          <6>2. CASE i \in A
            BY <3>2, <3>3, <3>4, <6>1, <6>2
          <6>3. CASE i \in B
            BY <3>2, <3>3, <3>4, <6>1, <6>3
          <6> QED BY <3>2, <6>2, <6>3
        <5> QED BY <5>1
      <4>3. Total(c) = Total(a) + Total(b)
        BY <3>2, <4>2, TotalPlus
      <4> QED BY <4>1, <4>3
    <3> QED BY <3>1, <3>7, <3>8
  <2>6. Total(Part(f, In(T))) = Total(Part(h, T))
    BY <1>2
  <2> QED BY <2>3, <2>4, <2>5, <2>6
<1>3. D \in G
  <2> HIDE DEF G
  <2> QED BY <1>1, <1>2, AllRows
<1>4. In(D) = S
  OBVIOUS
<1> QED BY <1>3, <1>4, TotalAll

\* One column of a table.
Column(Q, S, d) == [i \in S |-> Q[i][d]]

\* The sum over rows of what each is in each column, column by column.
LEMMA TotalSwapped ==
    ASSUME NEW S, IsFiniteSet(S), NEW D, IsFiniteSet(D), NEW Q, \A i \in S : Q[i] \in Counts(D),
           NEW f \in Counts(S), NEW h \in Counts(D),
           \A i \in S : f[i] = Total(Q[i]),
           \A d \in D : h[d] = Total(Column(Q, S, d))
    PROVE  Total(f) = Total(h)
<1>0. \A T \in SUBSET D : \A x \in D \ T : \A k \in Counts(D) :
         /\ Total(Part(k, T)) \in Nat
         /\ Total(Part(k, T \cup {x})) = Total(Part(k, T)) + k[x]
  BY TotalStep
<1> DEFINE Over(T) == [i \in S |-> Total(Part(Q[i], T))]
           G == {T \in SUBSET D : Total(Over(T)) = Total(Part(h, T))}
<1>1. {} \in G
  <2>1. \A i \in S : Total(Part(Q[i], {})) = 0
    <3>1. \A i \in S : DOMAIN Part(Q[i], {}) = {}
      BY DEF Part
    <3> QED BY <3>1, TotalNone
  <2>2. Over({}) \in Counts(S) /\ \A i \in S : Over({})[i] = 0
    BY <2>1 DEF Counts
  <2>3. PICK a \in Counts(S) : a = Over({}) /\ \A i \in S : a[i] = 0
    BY <2>2
  <2>4. PICK none \in [{} -> Nat] : none = Part(h, {})
    BY DEF Part
  <2>5. Total(a) = Total(none)
    <3>1. PICK A \in SUBSET S : A = {}
      OBVIOUS
    <3>2. none \in Counts(A)
      <4>1. A \in SUBSET D
        BY <3>1
      <4>2. none = Part(h, A)
        BY <2>4, <3>1, Zenon
      <4> QED BY <4>1, <4>2, PartCounts
    <3>3. \A i \in A : a[i] = none[i]
      BY <3>1
    <3>4. \A i \in S \ A : a[i] = 0
      BY <2>2, <2>3
    <3> QED BY <3>2, <3>3, <3>4, TotalRest
  <2> QED BY <2>3, <2>4, <2>5
<1>2. ASSUME NEW T \in SUBSET D, NEW x \in D \ T, T \in G PROVE T \cup {x} \in G
  <2>1. \A k \in Counts(D) : /\ Total(Part(k, T)) \in Nat
                              /\ Total(Part(k, T \cup {x})) = Total(Part(k, T)) + k[x]
    BY <1>0
  <2>2. \A i \in S : /\ Total(Part(Q[i], T)) \in Nat
                     /\ Total(Part(Q[i], T \cup {x})) = Total(Part(Q[i], T)) + Q[i][x]
                     /\ Q[i][x] \in Nat
    <3>1. \A i \in S : Q[i] \in Counts(D) /\ Q[i][x] \in Nat
      BY CountsType
    <3> QED BY <2>1, <3>1
  <2>3. Over(T) \in Counts(S) /\ Column(Q, S, x) \in Counts(S)
    BY <2>2 DEF Counts, Column
  <2>4. Over(T \cup {x}) \in Counts(S)
    <3>1. \A i \in S : Total(Part(Q[i], T \cup {x})) \in Nat
      <4>1. \A m, n \in Nat : m + n \in Nat
        OBVIOUS
      <4> QED BY <2>2, <4>1
    <3> QED BY <3>1 DEF Counts
  <2>5. PICK a \in Counts(S) : a = Over(T)
    BY <2>3
  <2>6. PICK b \in Counts(S) : b = Column(Q, S, x)
    BY <2>3
  <2>7. PICK c \in Counts(S) : c = Over(T \cup {x})
    BY <2>4
  <2>8. \A i \in S : c[i] = a[i] + b[i]
    BY <2>2, <2>5, <2>6, <2>7 DEF Column
  <2>9. Total(c) = Total(a) + Total(b)
    BY <2>8, TotalPlus
  <2>10. Total(Part(h, T \cup {x})) = Total(Part(h, T)) + h[x]
    BY <2>1
  <2>11. h[x] = Total(b) /\ Total(a) = Total(Part(h, T))
    BY <1>2, <2>5, <2>6
  <2>12. Total(Part(h, T \cup {x})) = Total(c) /\ Total(Part(h, T)) \in Nat
    BY <2>1, <2>9, <2>10, <2>11
  <2> QED BY <2>7, <2>12
<1>3. D \in G
  <2> HIDE DEF G
  <2> QED BY <1>1, <1>2, AllRows
<1>4. Over(D) = f
  <2>1. \A i \in S : Part(Q[i], D) = Q[i]
    BY TotalAll
  <2>2. f = [i \in S |-> f[i]]
    BY DEF Counts
  <2> QED BY <2>1, <2>2
<1> QED BY <1>3, <1>4, TotalAll

\* Three make a finite set.
LEMMA ThreeFinite == ASSUME NEW a, NEW b, NEW c PROVE IsFiniteSet({a, b, c})
<1>1. IsFiniteSet({a}) /\ IsFiniteSet({b}) /\ IsFiniteSet({c})
  BY FS_Singleton
<1>2. IsFiniteSet({a} \cup {b})
  BY <1>1, FS_Union
<1>3. IsFiniteSet(({a} \cup {b}) \cup {c})
  BY <1>1, <1>2, FS_Union
<1>4. ({a} \cup {b}) \cup {c} = {a, b, c}
  OBVIOUS
<1> QED BY <1>3, <1>4

\* The sum of three.
LEMMA TotalThree ==
    ASSUME NEW a, NEW b, NEW c, a # b, a # c, b # c, NEW h \in Counts({a, b, c})
    PROVE  Total(h) = h[a] + h[b] + h[c]
<1> DEFINE M == {a, b, c}
<1>1. IsFiniteSet(M)
  BY ThreeFinite
<1>2. h[a] \in Nat /\ h[b] \in Nat /\ h[c] \in Nat
  BY CountsType
<1>3. ASSUME NEW T \in SUBSET M, NEW x \in M \ T
      PROVE  Total(Part(h, T \cup {x})) = Total(Part(h, T)) + h[x]
  BY <1>1, TotalStep
<1>4. Total(Part(h, {})) = 0
  <2>1. DOMAIN Part(h, {}) = {}
    BY DEF Part
  <2> QED BY <2>1, TotalNone
<1>5. PICK none \in SUBSET M : none = {}
  OBVIOUS
<1>6. PICK one \in SUBSET M : one = none \cup {a}
  BY <1>5
<1>7. PICK two \in SUBSET M : two = one \cup {b}
  BY <1>5, <1>6
<1>8. Total(Part(h, one)) = Total(Part(h, none)) + h[a]
  BY <1>3, <1>5, <1>6
<1>9. Total(Part(h, two)) = Total(Part(h, one)) + h[b]
  BY <1>3, <1>5, <1>6, <1>7
<1>10. Total(Part(h, two \cup {c})) = Total(Part(h, two)) + h[c]
  BY <1>3, <1>5, <1>6, <1>7
<1>11. two \cup {c} = M
  BY <1>5, <1>6, <1>7
<1>12. Part(h, M) = h
  BY TotalAll
<1>13. Total(Part(h, none)) = 0
  BY <1>4, <1>5
<1>14. Total(Part(h, one)) = h[a]
  BY <1>2, <1>8, <1>13
<1>15. Total(Part(h, two)) = h[a] + h[b]
  BY <1>9, <1>14
<1>16. Total(h) = Total(Part(h, two)) + h[c]
  BY <1>10, <1>11, <1>12
<1> QED BY <1>15, <1>16

-------------------------------------------------------------------------------
\* Rows of the books

\* What a sale is made of.
LEMMA SaleFields ==
    ASSUME TypeOK, NEW i \in DOMAIN sales
    PROVE  /\ sales[i] \in Sale
           /\ sales[i].cashier \in Users /\ sales[i].day \in Days
           /\ sales[i].items \in [Products -> Nat] /\ sales[i].cost \in [Products -> Costs]
           /\ sales[i].discount \in Nat /\ sales[i].total \in Nat
           /\ sales[i].method \in Methods
           /\ sales[i].status \in {"COMPLETED", "CANCELLED"}
<1>1. sales[i] \in Sale
  BY DEF TypeOK
<1> QED BY <1>1 DEF Sale

\* Any choice of a table's rows is finite.
LEMMA RowsFinite ==
    ASSUME NEW X, NEW list \in Seq(X), NEW R \in SUBSET DOMAIN list
    PROVE  IsFiniteSet(R)
<1>1. DOMAIN list = 1 .. Len(list) /\ Len(list) \in Int /\ 1 \in Int
  OBVIOUS
<1>2. IsFiniteSet(1 .. Len(list))
  BY <1>1, FS_Interval
<1> QED BY <1>1, <1>2, FS_Subset

\* Rows of the sales table.
LEMMA SalesRows ==
    ASSUME TypeOK, NEW R \in SUBSET DOMAIN sales
    PROVE  /\ IsFiniteSet(R)
           /\ [i \in R |-> sales[i].total] \in Counts(R)
           /\ [i \in R |-> sales[i].discount] \in Counts(R)
<1>1. IsFiniteSet(R)
  BY RowsFinite DEF TypeOK
<1>2. \A i \in R : sales[i].total \in Nat /\ sales[i].discount \in Nat
  BY SaleFields
<1> QED BY <1>1, <1>2 DEF Counts

\* What was sold of each product, and what it cost.
LEMMA ItemColumns ==
    ASSUME NEW s \in Sale
    PROVE  /\ \A p \in Products : Quantity(s, p) \in Nat /\ Cost(s, p) \in Nat
           /\ [p \in Products |-> Cost(s, p)] \in Counts(Products)
           /\ SaleCost(s) = Total([p \in Products |-> Cost(s, p)]) /\ SaleCost(s) \in Nat
           /\ [p \in Products |-> s.items[p] * Price] \in Counts(Products)
           /\ Amount(s.items) = Total([p \in Products |-> s.items[p] * Price])
           /\ Amount(s.items) \in Nat
<1>1. s.items \in [Products -> Nat] /\ s.cost \in [Products -> Costs]
  BY DEF Sale
<1>2. Costs \subseteq Nat /\ Price \in Nat /\ IsFiniteSet(Products)
  BY BooksAssumption
<1>3. \A m, n \in Nat : m * n \in Nat
  OBVIOUS
<1>4. \A p \in Products : Quantity(s, p) \in Nat
  BY <1>1 DEF Quantity
<1>5. \A p \in Products : Cost(s, p) \in Nat
  <2>1. \A p \in Products : s.cost[p] \in Nat
    BY <1>1, <1>2
  <2> QED BY <1>3, <1>4, <2>1 DEF Cost
<1>6. \A p \in Products : s.items[p] * Price \in Nat
  BY <1>1, <1>2, <1>3
<1>7. /\ [p \in Products |-> Cost(s, p)] \in Counts(Products)
      /\ [p \in Products |-> s.items[p] * Price] \in Counts(Products)
  BY <1>5, <1>6 DEF Counts
<1>8. \A k \in Counts(Products) : Total(k) \in Nat
  BY <1>2, TotalType DEF Counts
<1>9. Total([p \in Products |-> Cost(s, p)]) \in Nat
  BY <1>7, <1>8
<1>10. Total([p \in Products |-> s.items[p] * Price]) \in Nat
  BY <1>7, <1>8
<1> QED BY <1>4, <1>5, <1>7, <1>9, <1>10 DEF SaleCost, Amount

\* Where the rows of a report come from.
LEMMA CountedRows ==
    ASSUME TypeOK, NEW from, NEW to
    PROVE  /\ Counted(from, to) \in SUBSET DOMAIN sales
           /\ {i \in Counted(from, to) : Own(i, None)} = Counted(from, to)
           /\ \A c : {i \in Counted(from, to) : Own(i, c)} \in SUBSET DOMAIN sales
  BY DEF Counted, Own

-------------------------------------------------------------------------------
\* What the reports say of each other, for any dates

\* profit_report and sales_report of the shop add up the same rows.
LEMMA SalesAreProfits ==
    ASSUME TypeOK, NEW from, NEW to
    PROVE  /\ SalesReport(from, to, None).total_sales = ProfitReport(from, to).total_sales
           /\ SalesReport(from, to, None).total_sales
                = Total([i \in Counted(from, to) |-> sales[i].total])
           /\ SalesReport(from, to, None).total_discounts
                = Total([i \in Counted(from, to) |-> sales[i].discount])
           /\ SalesReport(from, to, None).transaction_count = Cardinality(Counted(from, to))
           /\ ProfitReport(from, to).cogs
                = Total([i \in Counted(from, to) |-> SaleCost(sales[i])])
<1>1. {i \in Counted(from, to) : Own(i, None)} = Counted(from, to)
  BY CountedRows
<1> QED BY <1>1 DEF SalesReport, ProfitReport, CostOfSales

\* What was taken by each method, with store credit, is what was sold.
LEMMA SalesArePayments ==
    ASSUME TypeOK, Whole, NEW from, NEW to
    PROVE  Total([i \in Counted(from, to) |-> sales[i].total])
             = PaymentReport(from, to, None).grand_total + PaidBy("CREDIT", from, to, None)
<1> DEFINE M == {"POS", "TRANSFER", "CREDIT"}
           paid(m) == {i \in Payments(from, to, None) : sales[i].method = m}
<1>1. PICK R : R = Counted(from, to)
  OBVIOUS
<1>2. PICK P : P = Payments(from, to, None)
  OBVIOUS
<1>3. R \in SUBSET DOMAIN sales
  BY <1>1, CountedRows
<1>4. P \in SUBSET R
  BY <1>1, <1>2 DEF Payments, Counted
<1>5. ASSUME NEW i \in R \ P PROVE sales[i].total = 0
  <2>1. i \in DOMAIN sales /\ sales[i].day \in from .. to /\ sales[i].status # "CANCELLED"
    BY <1>1, <1>5 DEF Counted
  <2>2. "payment" \notin sales[i].rows
    BY <1>2, <1>5, <2>1 DEF Payments, Own
  <2>3. ~ (sales[i].total > 0) /\ sales[i].total \in Nat
    BY <2>1, <2>2, SaleFields DEF Whole
  <2> QED BY <2>3
<1>6. PICK f \in Counts(R) : f = [i \in R |-> sales[i].total]
  BY <1>3, SalesRows
<1>7. P \in SUBSET DOMAIN sales /\ IsFiniteSet(R) /\ IsFiniteSet(P)
  BY <1>3, <1>4, SalesRows
<1>8. PICK g \in Counts(P) : g = [i \in P |-> sales[i].total]
  BY <1>7, SalesRows
<1>9. Total(f) = Total(g)
  <2>1. (\A i \in P : f[i] = g[i]) /\ \A i \in R \ P : f[i] = 0
    BY <1>4, <1>5, <1>6, <1>8
  <2> QED BY <1>4, <1>7, <2>1, TotalRest
<1>10. PICK key \in [P -> M] : key = [i \in P |-> sales[i].method]
  <2>1. \A i \in P : sales[i].method \in M
    BY <1>7, SaleFields, BooksAssumption
  <2> QED BY <2>1
<1>11. ASSUME NEW m \in M
       PROVE  /\ PaidBy(m, from, to, None) = Total([i \in {i \in P : key[i] = m} |-> g[i]])
              /\ PaidBy(m, from, to, None) \in Nat
  <2>1. PICK Q \in SUBSET P : Q = {i \in P : key[i] = m}
    OBVIOUS
  <2>2. Q = paid(m)
    BY <1>2, <1>10, <2>1
  <2>3. [i \in Q |-> sales[i].total] = [i \in Q |-> g[i]]
    BY <1>8
  <2>4. PaidBy(m, from, to, None) = Total([i \in Q |-> sales[i].total])
    BY <2>2 DEF PaidBy
  <2>5. Q \in SUBSET DOMAIN sales
    BY <1>7
  <2>6. IsFiniteSet(Q) /\ [i \in Q |-> sales[i].total] \in Counts(Q)
    BY <2>5, SalesRows
  <2>7. Total([i \in Q |-> sales[i].total]) \in Nat
    BY <2>6, TotalType DEF Counts
  <2> QED BY <2>1, <2>3, <2>4, <2>7
<1>12. PICK h \in Counts(M) : h = [m \in M |-> PaidBy(m, from, to, None)]
  BY <1>11 DEF Counts
<1>13. Total(g) = Total(h)
  <2>1. IsFiniteSet(M)
    BY ThreeFinite
  <2>2. \A m \in M : h[m] = Total([i \in {i \in P : key[i] = m} |-> g[i]])
    BY <1>11, <1>12
  <2> HIDE DEF M
  <2> QED BY <1>7, <2>1, <2>2, TotalGrouped
<1>14. Total(h) = h["POS"] + h["TRANSFER"] + h["CREDIT"]
  BY TotalThree
<1>15. PaymentReport(from, to, None).grand_total = h["POS"] + h["TRANSFER"]
  BY <1>12 DEF PaymentReport
<1>16. PaidBy("CREDIT", from, to, None) = h["CREDIT"]
  BY <1>12
<1> QED BY <1>1, <1>6, <1>9, <1>13, <1>14, <1>15, <1>16

\* What was sold of each product costs what the sales cost.
LEMMA GoodsCostSales ==
    ASSUME TypeOK, NEW from, NEW to
    PROVE  /\ Total([i \in Counted(from, to) |-> SaleCost(sales[i])])
                = Total([p \in Products |-> GoodsReport(from, to)[p].cost])
           /\ \A p \in Products : GoodsReport(from, to)[p].cost \in Nat
<1>1. PICK R : R = Counted(from, to)
  OBVIOUS
<1>2. R \in SUBSET DOMAIN sales
  BY <1>1, CountedRows
<1>3. IsFiniteSet(R) /\ IsFiniteSet(Products)
  BY <1>2, SalesRows, BooksAssumption
<1>4. ASSUME NEW i \in R
      PROVE  /\ [p \in Products |-> Cost(sales[i], p)] \in Counts(Products)
             /\ SaleCost(sales[i]) = Total([p \in Products |-> Cost(sales[i], p)])
             /\ SaleCost(sales[i]) \in Nat
             /\ \A p \in Products : Cost(sales[i], p) \in Nat
  <2>1. sales[i] \in Sale
    BY <1>2, SaleFields
  <2> QED BY <2>1, ItemColumns
<1>5. PICK Q \in [R -> Counts(Products)] : Q = [i \in R |-> [p \in Products |-> Cost(sales[i], p)]]
  BY <1>4
<1>6. PICK f \in Counts(R) : f = [i \in R |-> SaleCost(sales[i])]
  BY <1>4 DEF Counts
<1>7. ASSUME NEW p \in Products
      PROVE  /\ GoodsReport(from, to)[p].cost = Total(Column(Q, R, p))
             /\ GoodsReport(from, to)[p].cost \in Nat
  <2>1. GoodsReport(from, to)[p].cost = Total([i \in R |-> Cost(sales[i], p)])
    BY <1>1 DEF GoodsReport
  <2>2. [i \in R |-> Cost(sales[i], p)] = Column(Q, R, p)
    BY <1>5 DEF Column
  <2>3. [i \in R |-> Cost(sales[i], p)] \in Counts(R)
    BY <1>4 DEF Counts
  <2>4. Total([i \in R |-> Cost(sales[i], p)]) \in Nat
    BY <1>3, <2>3, TotalType DEF Counts
  <2> QED BY <2>1, <2>2, <2>4
<1>8. PICK h \in Counts(Products) : h = [p \in Products |-> GoodsReport(from, to)[p].cost]
  BY <1>7 DEF Counts
<1>9. Total(f) = Total(h)
  <2>1. \A i \in R : f[i] = Total(Q[i])
    BY <1>4, <1>5, <1>6
  <2>2. \A p \in Products : h[p] = Total(Column(Q, R, p))
    BY <1>7, <1>8
  <2>3. \A i \in R : Q[i] \in Counts(Products)
    OBVIOUS
  <2> QED BY <1>3, <2>1, <2>2, <2>3, TotalSwapped
<1> QED BY <1>1, <1>6, <1>7, <1>8, <1>9

\* What the goods were priced at, less the discounts, is what they were sold for.
LEMMA GoodsAreSales ==
    ASSUME TypeOK, Whole, \A i \in DOMAIN sales : Amount(sales[i].items) = sales[i].total + sales[i].discount,
           NEW from, NEW to
    PROVE  /\ Total([p \in Products |-> GoodsReport(from, to)[p].revenue])
                = Total([i \in Counted(from, to) |-> sales[i].total])
                    + Total([i \in Counted(from, to) |-> sales[i].discount])
           /\ Total([i \in Counted(from, to) |-> sales[i].total]) \in Nat
           /\ Total([i \in Counted(from, to) |-> sales[i].discount]) \in Nat
<1>1. PICK R : R = Counted(from, to)
  OBVIOUS
<1>2. R \in SUBSET DOMAIN sales
  BY <1>1, CountedRows
<1>3. IsFiniteSet(R) /\ IsFiniteSet(Products) /\ Price \in Nat
  BY <1>2, SalesRows, BooksAssumption
<1>4. PICK f \in Counts(R) : f = [i \in R |-> sales[i].total]
  BY <1>2, SalesRows
<1>5. PICK g \in Counts(R) : g = [i \in R |-> sales[i].discount]
  BY <1>2, SalesRows
<1>6. ASSUME NEW i \in R
      PROVE  /\ [p \in Products |-> sales[i].items[p] * Price] \in Counts(Products)
             /\ Amount(sales[i].items) = Total([p \in Products |-> sales[i].items[p] * Price])
             /\ Amount(sales[i].items) \in Nat
             /\ \A p \in Products : /\ sales[i].items[p] \in Nat
                                    /\ Quantity(sales[i], p) = sales[i].items[p]
  <2>1. sales[i] \in Sale /\ sales[i].items \in [Products -> Nat]
    BY <1>2, SaleFields
  <2>2. \A p \in Products : Quantity(sales[i], p) = sales[i].items[p]
    BY <1>2 DEF Whole, Quantity
  <2> QED BY <2>1, <2>2, ItemColumns
<1>7. PICK a \in Counts(R) : a = [i \in R |-> Amount(sales[i].items)]
  BY <1>6 DEF Counts
<1>8. Total(a) = Total(f) + Total(g)
  <2>1. \A i \in R : a[i] = f[i] + g[i]
    BY <1>2, <1>4, <1>5, <1>7
  <2> QED BY <1>3, <2>1, TotalPlus
<1>9. PICK Q \in [R -> Counts(Products)] :
           Q = [i \in R |-> [p \in Products |-> sales[i].items[p] * Price]]
  BY <1>6
<1>10. ASSUME NEW p \in Products
       PROVE  /\ GoodsReport(from, to)[p].revenue = Total(Column(Q, R, p))
              /\ GoodsReport(from, to)[p].revenue \in Nat
  <2>1. PICK sold \in Counts(R) : sold = [i \in R |-> Quantity(sales[i], p)]
    BY <1>6 DEF Counts
  <2>2. GoodsReport(from, to)[p].revenue = Total(sold) * Price
    BY <1>1, <2>1 DEF GoodsReport
  <2>3. \A m, n \in Nat : m * n \in Nat
    OBVIOUS
  <2>4. PICK worth \in Counts(R) : worth = Column(Q, R, p)
    BY <1>6, <1>9, CountsType DEF Counts, Column
  <2>5. Total(worth) = Total(sold) * Price
    <3>1. \A i \in R : worth[i] = sold[i] * Price
      BY <1>6, <1>9, <2>1, <2>4 DEF Column
    <3> QED BY <1>3, <3>1, TotalTimes
  <2>6. Total(worth) \in Nat
    BY <1>3, TotalType DEF Counts
  <2> QED BY <2>2, <2>4, <2>5, <2>6
<1>11. PICK h \in Counts(Products) : h = [p \in Products |-> GoodsReport(from, to)[p].revenue]
  BY <1>10 DEF Counts
<1>12. Total(a) = Total(h)
  <2>1. \A i \in R : a[i] = Total(Q[i])
    BY <1>6, <1>7, <1>9
  <2>2. \A p \in Products : h[p] = Total(Column(Q, R, p))
    BY <1>10, <1>11
  <2>3. \A i \in R : Q[i] \in Counts(Products)
    OBVIOUS
  <2> QED BY <1>3, <2>1, <2>2, <2>3, TotalSwapped
<1>13. Total(f) \in Nat /\ Total(g) \in Nat
  BY <1>3, TotalType DEF Counts
<1> QED BY <1>1, <1>4, <1>5, <1>8, <1>11, <1>12, <1>13

\* Cashiers add up to the shop.
LEMMA CashiersAreSales ==
    ASSUME TypeOK, NEW from, NEW to
    PROVE  /\ Total([u \in Users |-> CashierReport(from, to)[u].total_sales])
                = Total([i \in Counted(from, to) |-> sales[i].total])
           /\ \A u \in Users :
                /\ SalesReport(from, to, u).total_sales = CashierReport(from, to)[u].total_sales
                /\ SalesReport(from, to, u).total_sales \in Nat
<1>1. PICK R : R = Counted(from, to)
  OBVIOUS
<1>2. R \in SUBSET DOMAIN sales
  BY <1>1, CountedRows
<1>3. IsFiniteSet(R) /\ IsFiniteSet(Users) /\ None \notin Users
  BY <1>2, SalesRows, BooksAssumption
<1>4. PICK f \in Counts(R) : f = [i \in R |-> sales[i].total]
  BY <1>2, SalesRows
<1>5. PICK key \in [R -> Users] : key = [i \in R |-> sales[i].cashier]
  BY <1>2, SaleFields
<1>6. ASSUME NEW u \in Users
      PROVE  /\ CashierReport(from, to)[u].total_sales
                  = Total([i \in {i \in R : key[i] = u} |-> f[i]])
             /\ CashierReport(from, to)[u].total_sales \in Nat
             /\ SalesReport(from, to, u).total_sales = CashierReport(from, to)[u].total_sales
  <2>1. PICK own \in SUBSET R : own = {i \in R : key[i] = u}
    OBVIOUS
  <2>2. own = {i \in Counted(from, to) : sales[i].cashier = u}
    BY <1>1, <1>5, <2>1
  <2>3. own = {i \in Counted(from, to) : Own(i, u)}
    BY <1>3, <2>2 DEF Own
  <2>4. [i \in own |-> sales[i].total] = [i \in own |-> f[i]]
    BY <1>4
  <2>5. own \in SUBSET DOMAIN sales
    BY <1>2
  <2>6. IsFiniteSet(own) /\ [i \in own |-> sales[i].total] \in Counts(own)
    BY <2>5, SalesRows
  <2>7. Total([i \in own |-> sales[i].total]) \in Nat
    BY <2>6, TotalType DEF Counts
  <2>8. CashierReport(from, to)[u].total_sales = Total([i \in own |-> sales[i].total])
    BY <2>2 DEF CashierReport
  <2>9. SalesReport(from, to, u).total_sales = Total([i \in own |-> sales[i].total])
    BY <2>3 DEF SalesReport
  <2> QED BY <2>1, <2>4, <2>7, <2>8, <2>9
<1>7. PICK h \in Counts(Users) : h = [u \in Users |-> CashierReport(from, to)[u].total_sales]
  BY <1>6 DEF Counts
<1>8. Total(f) = Total(h)
  <2>1. \A u \in Users : h[u] = Total([i \in {i \in R : key[i] = u} |-> f[i]])
    BY <1>6, <1>7
  <2> QED BY <1>3, <2>1, TotalGrouped
<1> QED BY <1>1, <1>4, <1>6, <1>7, <1>8

\* Cashiers add up to the shop, in what their goods cost too.
LEMMA CashiersCostSales ==
    ASSUME TypeOK, NEW from, NEW to
    PROVE  /\ \A u \in Users : CostOfSales(from, to, u) \in Nat
           /\ CostOfSales(from, to, None) = Total([u \in Users |-> CostOfSales(from, to, u)])
<1>1. PICK R : R = Counted(from, to)
  OBVIOUS
<1>2. R \in SUBSET DOMAIN sales
  BY <1>1, CountedRows
<1>3. IsFiniteSet(R) /\ IsFiniteSet(Users) /\ None \notin Users
  BY <1>2, SalesRows, BooksAssumption
<1>4. \A i \in R : SaleCost(sales[i]) \in Nat
  BY <1>2, SaleFields, ItemColumns
<1>5. PICK f \in Counts(R) : f = [i \in R |-> SaleCost(sales[i])]
  BY <1>4 DEF Counts
<1>6. PICK key \in [R -> Users] : key = [i \in R |-> sales[i].cashier]
  BY <1>2, SaleFields
<1>7. ASSUME NEW u \in Users
      PROVE  /\ CostOfSales(from, to, u) = Total([i \in {i \in R : key[i] = u} |-> f[i]])
             /\ CostOfSales(from, to, u) \in Nat
  <2>1. PICK own \in SUBSET R : own = {i \in R : key[i] = u}
    OBVIOUS
  <2>2. own = {i \in Counted(from, to) : Own(i, u)}
    BY <1>1, <1>3, <1>6, <2>1 DEF Own
  <2>3. [i \in own |-> SaleCost(sales[i])] = [i \in own |-> f[i]]
    BY <1>5
  <2>4. [i \in own |-> f[i]] \in [own -> Nat] /\ IsFiniteSet(own)
    BY <1>3, <1>4, <1>5, FS_Subset
  <2>5. Total([i \in own |-> f[i]]) \in Nat
    BY <2>4, TotalType
  <2>6. CostOfSales(from, to, u) = Total([i \in own |-> SaleCost(sales[i])])
    BY <2>2 DEF CostOfSales
  <2> QED BY <2>1, <2>3, <2>5, <2>6
<1>8. PICK h \in Counts(Users) : h = [u \in Users |-> CostOfSales(from, to, u)]
  BY <1>7 DEF Counts
<1>9. Total(f) = Total(h)
  <2>1. \A u \in Users : h[u] = Total([i \in {i \in R : key[i] = u} |-> f[i]])
    BY <1>7, <1>8
  <2> QED BY <1>3, <2>1, TotalGrouped
<1>10. CostOfSales(from, to, None) = Total(f)
  BY <1>1, <1>5, CountedRows DEF CostOfSales
<1> QED BY <1>7, <1>8, <1>9, <1>10

\* The rows of a day among those of all days.
LEMMA DayRows ==
    ASSUME TypeOK, NEW d \in Days
    PROVE  /\ Counted(d, d) = {i \in Counted(1, MaxDay) : sales[i].day = d}
           /\ {i \in DOMAIN expenses : expenses[i].day \in d .. d}
                = {i \in {i \in DOMAIN expenses : expenses[i].day \in 1 .. MaxDay} : expenses[i].day = d}
<1>1. MaxDay \in Nat /\ d \in 1 .. MaxDay
  BY BooksAssumption DEF Days
<1>2. \A e \in Int : e \in d .. d <=> e = d
  BY <1>1
<1>3. \A i \in DOMAIN sales : sales[i].day \in 1 .. MaxDay /\ sales[i].day \in Int
  BY <1>1, SaleFields DEF Days
<1>4. \A i \in DOMAIN expenses : expenses[i].day \in 1 .. MaxDay /\ expenses[i].day \in Int
  <2>1. \A i \in DOMAIN expenses : expenses[i] \in Expense
    BY DEF TypeOK
  <2> QED BY <1>1, <2>1 DEF Expense, Days
<1>5. Counted(d, d) = {i \in Counted(1, MaxDay) : sales[i].day = d}
  BY <1>2, <1>3 DEF Counted
<1> QED BY <1>2, <1>4, <1>5

\* Days add up to the period.
LEMMA DaysAddUp ==
    ASSUME TypeOK
    PROVE  /\ Total([i \in Counted(1, MaxDay) |-> sales[i].total])
                = Total([d \in Days |-> Total([i \in Counted(d, d) |-> sales[i].total])])
           /\ Total([i \in Counted(1, MaxDay) |-> SaleCost(sales[i])])
                = Total([d \in Days |-> Total([i \in Counted(d, d) |-> SaleCost(sales[i])])])
           /\ ExpensesOf(1, MaxDay) = Total([d \in Days |-> ExpensesOf(d, d)])
<1>1. IsFiniteSet(Days)
  <2>1. MaxDay \in Int /\ 1 \in Int
    BY BooksAssumption
  <2> QED BY <2>1, FS_Interval DEF Days
<1>2. ASSUME NEW R, IsFiniteSet(R), NEW key \in [R -> Days], NEW f \in Counts(R)
      PROVE  Total(f) = Total([d \in Days |-> Total([i \in {i \in R : key[i] = d} |-> f[i]])])
  <2>1. ASSUME NEW d \in Days PROVE Total([i \in {i \in R : key[i] = d} |-> f[i]]) \in Nat
    <3>1. PICK own \in SUBSET R : own = {i \in R : key[i] = d}
      OBVIOUS
    <3>2. [i \in own |-> f[i]] \in [own -> Nat] /\ IsFiniteSet(own)
      BY <1>2, FS_Subset DEF Counts
    <3>3. Total([i \in own |-> f[i]]) \in Nat
      BY <3>2, TotalType
    <3> QED BY <3>1, <3>3
  <2>2. PICK h \in Counts(Days) :
            h = [d \in Days |-> Total([i \in {i \in R : key[i] = d} |-> f[i]])]
    BY <2>1 DEF Counts
  <2>3. \A d \in Days : h[d] = Total([i \in {i \in R : key[i] = d} |-> f[i]])
    BY <2>2
  <2>4. Total(f) = Total(h)
    BY <1>1, <1>2, <2>3, TotalGrouped
  <2> QED BY <2>2, <2>4
<1>3. PICK R : R = Counted(1, MaxDay)
  OBVIOUS
<1>4. R \in SUBSET DOMAIN sales
  BY <1>3, CountedRows
<1>5. IsFiniteSet(R)
  BY <1>4, SalesRows
<1>6. PICK key \in [R -> Days] : key = [i \in R |-> sales[i].day]
  BY <1>4, SaleFields
<1>7. \A d \in Days : {i \in R : key[i] = d} = Counted(d, d)
  BY <1>3, <1>6, DayRows
<1>8. Total([i \in R |-> sales[i].total])
        = Total([d \in Days |-> Total([i \in Counted(d, d) |-> sales[i].total])])
  <2>1. PICK f \in Counts(R) : f = [i \in R |-> sales[i].total]
    BY <1>4, SalesRows
  <2>2. ASSUME NEW d \in Days
        PROVE  [i \in {i \in R : key[i] = d} |-> f[i]] = [i \in Counted(d, d) |-> sales[i].total]
    <3>1. PICK own \in SUBSET R : own = {i \in R : key[i] = d} /\ own = Counted(d, d)
      BY <1>7
    <3>2. [i \in own |-> f[i]] = [i \in own |-> sales[i].total]
      BY <2>1
    <3> QED BY <3>1, <3>2
  <2>3. [d \in Days |-> Total([i \in {i \in R : key[i] = d} |-> f[i]])]
          = [d \in Days |-> Total([i \in Counted(d, d) |-> sales[i].total])]
    BY <2>2
  <2>4. Total(f) = Total([d \in Days |-> Total([i \in {i \in R : key[i] = d} |-> f[i]])])
    BY <1>2, <1>5
  <2> QED BY <2>1, <2>3, <2>4
<1>9. Total([i \in R |-> SaleCost(sales[i])])
        = Total([d \in Days |-> Total([i \in Counted(d, d) |-> SaleCost(sales[i])])])
  <2>1. PICK f \in Counts(R) : f = [i \in R |-> SaleCost(sales[i])]
    BY <1>4, SaleFields, ItemColumns DEF Counts
  <2>2. ASSUME NEW d \in Days
        PROVE  [i \in {i \in R : key[i] = d} |-> f[i]] = [i \in Counted(d, d) |-> SaleCost(sales[i])]
    <3>1. PICK own \in SUBSET R : own = {i \in R : key[i] = d} /\ own = Counted(d, d)
      BY <1>7
    <3>2. [i \in own |-> f[i]] = [i \in own |-> SaleCost(sales[i])]
      BY <2>1
    <3> QED BY <3>1, <3>2
  <2>3. [d \in Days |-> Total([i \in {i \in R : key[i] = d} |-> f[i]])]
          = [d \in Days |-> Total([i \in Counted(d, d) |-> SaleCost(sales[i])])]
    BY <2>2
  <2>4. Total(f) = Total([d \in Days |-> Total([i \in {i \in R : key[i] = d} |-> f[i]])])
    BY <1>2, <1>5
  <2> QED BY <2>1, <2>3, <2>4
<1>10. ExpensesOf(1, MaxDay) = Total([d \in Days |-> ExpensesOf(d, d)])
  <2>1. PICK E : E = {i \in DOMAIN expenses : expenses[i].day \in 1 .. MaxDay}
    OBVIOUS
  <2>2. E \in SUBSET DOMAIN expenses
    BY <2>1
  <2>3. IsFiniteSet(E)
    BY <2>2, RowsFinite DEF TypeOK
  <2>4. \A i \in E : expenses[i].day \in Days /\ expenses[i].amount \in Nat
    <3>1. \A i \in E : expenses[i] \in Expense
      BY <2>2 DEF TypeOK
    <3>2. Amounts \subseteq Nat
      BY BooksAssumption
    <3> QED BY <3>1, <3>2 DEF Expense
  <2>5. PICK on \in [E -> Days] : on = [i \in E |-> expenses[i].day]
    BY <2>4
  <2>6. PICK f \in Counts(E) : f = [i \in E |-> expenses[i].amount]
    BY <2>4 DEF Counts
  <2>7. ASSUME NEW d \in Days
        PROVE  Total([i \in {i \in E : on[i] = d} |-> f[i]]) = ExpensesOf(d, d)
    <3>1. PICK own \in SUBSET E : own = {i \in E : on[i] = d}
      OBVIOUS
    <3>2. own = {i \in DOMAIN expenses : expenses[i].day \in d .. d}
      BY <2>1, <2>5, <3>1, DayRows
    <3>3. [i \in own |-> f[i]] = [i \in own |-> expenses[i].amount]
      BY <2>6
    <3> QED BY <3>1, <3>2, <3>3 DEF ExpensesOf
  <2>8. [d \in Days |-> Total([i \in {i \in E : on[i] = d} |-> f[i]])]
          = [d \in Days |-> ExpensesOf(d, d)]
    BY <2>7
  <2>9. Total(f) = Total([d \in Days |-> ExpensesOf(d, d)])
    BY <1>2, <2>3, <2>8
  <2> QED BY <2>1, <2>6, <2>9 DEF ExpensesOf
<1> QED BY <1>3, <1>8, <1>9, <1>10

\* What was paid and what is owed add up to what was bought.
LEMMA PurchasesAddUp ==
    ASSUME TypeOK, \A i \in DOMAIN purchases :
                     purchases[i].total_cost = purchases[i].amount_paid + purchases[i].balance,
           NEW from, NEW to
    PROVE  PurchaseReport(from, to).total_cost
             = PurchaseReport(from, to).total_paid + PurchaseReport(from, to).total_balance
<1>1. PICK R : R = {i \in DOMAIN purchases : purchases[i].day \in from .. to}
  OBVIOUS
<1>2. R \in SUBSET DOMAIN purchases
  BY <1>1
<1>3. IsFiniteSet(R)
  BY <1>2, RowsFinite DEF TypeOK
<1>4. \A i \in R : /\ purchases[i].total_cost \in Nat /\ purchases[i].amount_paid \in Nat
                   /\ purchases[i].balance \in Nat
  <2>1. \A i \in R : purchases[i] \in Purchase
    BY <1>2 DEF TypeOK
  <2> QED BY <2>1 DEF Purchase
<1>5. PICK f \in Counts(R) : f = [i \in R |-> purchases[i].amount_paid]
  BY <1>4 DEF Counts
<1>6. PICK g \in Counts(R) : g = [i \in R |-> purchases[i].balance]
  BY <1>4 DEF Counts
<1>7. PICK h \in Counts(R) : h = [i \in R |-> purchases[i].total_cost]
  BY <1>4 DEF Counts
<1>8. Total(h) = Total(f) + Total(g)
  <2>1. \A i \in R : h[i] = f[i] + g[i]
    BY <1>2, <1>5, <1>6, <1>7
  <2> QED BY <1>3, <2>1, TotalPlus
<1> QED BY <1>1, <1>5, <1>6, <1>7, <1>8 DEF PurchaseReport

-------------------------------------------------------------------------------
\* The inductive invariant

\* Goods come to what was paid for them and the discount.
SalesAddUp == \A i \in DOMAIN sales : Amount(sales[i].items) = sales[i].total + sales[i].discount

\* What a purchase cost is what was paid of it and what is owed.
PurchasesBalance ==
    \A i \in DOMAIN purchases :
       purchases[i].total_cost = purchases[i].amount_paid + purchases[i].balance

\* The form and the page are never open together.
OneInFront == ~ (form.open /\ sheet.open)

\* The tabs read so far are the first of those the user has, and unless the
\* worker committed something in between they show the books as they are.
TabsAreRead ==
    sheet.open =>
      /\ Len(sheet.tabs) <= Len(OwnTabs)
      /\ ~ sheet.torn => \A k \in 1 .. Len(sheet.tabs) :
                           sheet.tabs[k] = Read(OwnTabs[k], sheet.from, sheet.to)

IInv == TypeOK /\ SalesAddUp /\ PurchasesBalance /\ OneInFront /\ TabsAreRead

-------------------------------------------------------------------------------
\* What the invariant says of the reports

\* The sums of the shop's tabs tell one story for any dates.
LEMMA OneStory ==
    ASSUME IInv, Whole, NEW from, NEW to
    PROVE  /\ SalesReport(from, to, None).total_sales = ProfitReport(from, to).total_sales
           /\ SalesReport(from, to, None).total_sales
                = PaymentReport(from, to, None).grand_total + PaidBy("CREDIT", from, to, None)
           /\ SalesReport(from, to, None).total_sales + SalesReport(from, to, None).total_discounts
                = Total([p \in Products |-> GoodsReport(from, to)[p].revenue])
           /\ SalesReport(from, to, None).total_sales
                = Total([p \in Products |-> GoodsReport(from, to)[p].revenue])
                    - SalesReport(from, to, None).total_discounts
           /\ ProfitReport(from, to).cogs
                = Total([p \in Products |-> GoodsReport(from, to)[p].cost])
           /\ SalesReport(from, to, None).total_sales
                = Total([u \in Users |-> CashierReport(from, to)[u].total_sales])
<1>1. TypeOK /\ SalesAddUp
  BY DEF IInv
<1>2. /\ SalesReport(from, to, None).total_sales = ProfitReport(from, to).total_sales
      /\ SalesReport(from, to, None).total_sales
           = Total([i \in Counted(from, to) |-> sales[i].total])
      /\ SalesReport(from, to, None).total_discounts
           = Total([i \in Counted(from, to) |-> sales[i].discount])
      /\ ProfitReport(from, to).cogs = Total([i \in Counted(from, to) |-> SaleCost(sales[i])])
  BY <1>1, SalesAreProfits
<1>3. Total([i \in Counted(from, to) |-> sales[i].total])
        = PaymentReport(from, to, None).grand_total + PaidBy("CREDIT", from, to, None)
  BY <1>1, SalesArePayments
<1>4. /\ Total([p \in Products |-> GoodsReport(from, to)[p].revenue])
           = Total([i \in Counted(from, to) |-> sales[i].total])
               + Total([i \in Counted(from, to) |-> sales[i].discount])
      /\ Total([i \in Counted(from, to) |-> sales[i].total]) \in Nat
      /\ Total([i \in Counted(from, to) |-> sales[i].discount]) \in Nat
  BY <1>1, GoodsAreSales DEF SalesAddUp
<1>5. Total([i \in Counted(from, to) |-> SaleCost(sales[i])])
        = Total([p \in Products |-> GoodsReport(from, to)[p].cost])
  BY <1>1, GoodsCostSales
<1>6. Total([u \in Users |-> CashierReport(from, to)[u].total_sales])
        = Total([i \in Counted(from, to) |-> sales[i].total])
  BY <1>1, CashiersAreSales
<1>7. \A m, n \in Nat : m = (m + n) - n
  OBVIOUS
<1>8. SalesReport(from, to, None).total_sales
        = Total([p \in Products |-> GoodsReport(from, to)[p].revenue])
            - SalesReport(from, to, None).total_discounts
  BY <1>2, <1>4, <1>7
<1> QED BY <1>2, <1>3, <1>4, <1>5, <1>6, <1>8

\* The dashboard of a day and its end of day show the same figures.
LEMMA DashboardIsEndOfDay ==
    ASSUME TypeOK, NEW d
    PROVE  /\ DashboardSummary(d) = EndOfDay(d, None)
           /\ DashboardSummary(d).total_sales = Total([i \in Counted(d, d) |-> sales[i].total])
           /\ DashboardSummary(d).cogs = Total([i \in Counted(d, d) |-> SaleCost(sales[i])])
           /\ DashboardSummary(d).total_expenses = ExpensesOf(d, d)
<1>1. /\ SalesReport(d, d, None).total_sales = ProfitReport(d, d).total_sales
      /\ SalesReport(d, d, None).total_sales = Total([i \in Counted(d, d) |-> sales[i].total])
      /\ SalesReport(d, d, None).transaction_count = Cardinality(Counted(d, d))
      /\ ProfitReport(d, d).cogs = Total([i \in Counted(d, d) |-> SaleCost(sales[i])])
  BY SalesAreProfits
<1>2. /\ ProfitReport(d, d).cogs = CostOfSales(d, d, None)
      /\ ProfitReport(d, d).gross_profit = ProfitReport(d, d).total_sales - ProfitReport(d, d).cogs
      /\ ProfitReport(d, d).total_expenses = ExpensesOf(d, d)
      /\ ProfitReport(d, d).net_profit
           = ProfitReport(d, d).total_sales - ProfitReport(d, d).cogs - ExpensesOf(d, d)
  BY DEF ProfitReport
<1>3. /\ PaymentReport(d, d, None).pos_total = PaidBy("POS", d, d, None)
      /\ PaymentReport(d, d, None).transfer_total = PaidBy("TRANSFER", d, d, None)
  BY DEF PaymentReport
<1>4. DashboardSummary(d) = EndOfDay(d, None)
  BY <1>1, <1>2, <1>3 DEF DashboardSummary, EndOfDay
<1>5. /\ DashboardSummary(d).total_sales = ProfitReport(d, d).total_sales
      /\ DashboardSummary(d).cogs = ProfitReport(d, d).cogs
      /\ DashboardSummary(d).total_expenses = ProfitReport(d, d).total_expenses
  BY DEF DashboardSummary
<1> QED BY <1>1, <1>2, <1>4, <1>5

\* The invariant implies that the reports agree.
LEMMA InvariantReportsAgree == IInv => ReportsAgree
<1> SUFFICES ASSUME IInv, Whole PROVE ReportsAgree
  BY DEF ReportsAgree
<1> DEFINE period == ProfitReport(1, MaxDay)
           goods  == GoodsReport(1, MaxDay)
           total  == SalesReport(1, MaxDay, None)
           bought == PurchaseReport(1, MaxDay)
<1>1. TypeOK /\ PurchasesBalance
  BY DEF IInv
<1>2. \A d \in Days : DashboardSummary(d) = EndOfDay(d, None)
  BY <1>1, DashboardIsEndOfDay
<1>3. \A f \in {"total_sales", "cogs", "total_expenses"} :
        period[f] = Total([d \in Days |-> DashboardSummary(d)[f]])
  <2>1. /\ [d \in Days |-> DashboardSummary(d)["total_sales"]]
             = [d \in Days |-> Total([i \in Counted(d, d) |-> sales[i].total])]
        /\ [d \in Days |-> DashboardSummary(d)["cogs"]]
             = [d \in Days |-> Total([i \in Counted(d, d) |-> SaleCost(sales[i])])]
        /\ [d \in Days |-> DashboardSummary(d)["total_expenses"]]
             = [d \in Days |-> ExpensesOf(d, d)]
    <3>1. \A d : /\ DashboardSummary(d)["total_sales"]
                      = Total([i \in Counted(d, d) |-> sales[i].total])
                 /\ DashboardSummary(d)["cogs"]
                      = Total([i \in Counted(d, d) |-> SaleCost(sales[i])])
                 /\ DashboardSummary(d)["total_expenses"] = ExpensesOf(d, d)
      BY <1>1, DashboardIsEndOfDay
    <3> QED BY <3>1
  <2>2. /\ period["total_sales"] = Total([i \in Counted(1, MaxDay) |-> sales[i].total])
        /\ period["cogs"] = Total([i \in Counted(1, MaxDay) |-> SaleCost(sales[i])])
        /\ period["total_expenses"] = ExpensesOf(1, MaxDay)
    <3>1. /\ period.total_sales = Total([i \in Counted(1, MaxDay) |-> sales[i].total])
          /\ period.total_expenses = ExpensesOf(1, MaxDay)
      BY DEF ProfitReport
    <3>2. period.cogs = Total([i \in Counted(1, MaxDay) |-> SaleCost(sales[i])])
      BY <1>1, SalesAreProfits
    <3> QED BY <3>1, <3>2
  <2>3. /\ Total([i \in Counted(1, MaxDay) |-> sales[i].total])
             = Total([d \in Days |-> Total([i \in Counted(d, d) |-> sales[i].total])])
        /\ Total([i \in Counted(1, MaxDay) |-> SaleCost(sales[i])])
             = Total([d \in Days |-> Total([i \in Counted(d, d) |-> SaleCost(sales[i])])])
        /\ ExpensesOf(1, MaxDay) = Total([d \in Days |-> ExpensesOf(d, d)])
    BY <1>1, DaysAddUp
  <2>4. period["total_sales"] = Total([d \in Days |-> DashboardSummary(d)["total_sales"]])
    BY <2>1, <2>2, <2>3
  <2>5. period["cogs"] = Total([d \in Days |-> DashboardSummary(d)["cogs"]])
    BY <2>1, <2>2, <2>3
  <2>6. period["total_expenses"] = Total([d \in Days |-> DashboardSummary(d)["total_expenses"]])
    BY <2>1, <2>2, <2>3
  <2> HIDE DEF period
  <2> QED BY <2>4, <2>5, <2>6
<1>4. /\ total.total_sales = Total([p \in Products |-> goods[p].revenue]) - total.total_discounts
      /\ period.cogs = Total([p \in Products |-> goods[p].cost])
      /\ total.total_sales = PaymentReport(1, MaxDay, None).grand_total
                               + PaidBy("CREDIT", 1, MaxDay, None)
  BY OneStory
<1>5. bought.total_cost = bought.total_paid + bought.total_balance
  BY <1>1, PurchasesAddUp DEF PurchasesBalance
<1>6. InventoryReport.low_stock_count = Cardinality(LowStock)
  BY DEF InventoryReport, LowStock
<1>7. \A d \in Days, f \in {"total_sales", "cogs"} :
        EndOfDay(d, None)[f] = Total([u \in Users |-> EndOfDay(d, u)[f]])
  <2> SUFFICES ASSUME NEW d \in Days
               PROVE  /\ EndOfDay(d, None)["total_sales"]
                           = Total([u \in Users |-> EndOfDay(d, u)["total_sales"]])
                      /\ EndOfDay(d, None)["cogs"]
                           = Total([u \in Users |-> EndOfDay(d, u)["cogs"]])
    OBVIOUS
  <2>1. \A u : /\ EndOfDay(d, u)["total_sales"] = SalesReport(d, d, u).total_sales
               /\ EndOfDay(d, u)["cogs"] = CostOfSales(d, d, u)
    BY DEF EndOfDay
  <2>2. SalesReport(d, d, None).total_sales = Total([u \in Users |-> SalesReport(d, d, u).total_sales])
    <3>1. SalesReport(d, d, None).total_sales
            = Total([u \in Users |-> CashierReport(d, d)[u].total_sales])
      BY OneStory
    <3>2. \A u \in Users : SalesReport(d, d, u).total_sales = CashierReport(d, d)[u].total_sales
      BY <1>1, CashiersAreSales
    <3>3. [u \in Users |-> SalesReport(d, d, u).total_sales]
            = [u \in Users |-> CashierReport(d, d)[u].total_sales]
      BY <3>2
    <3> QED BY <3>1, <3>3
  <2>3. CostOfSales(d, d, None) = Total([u \in Users |-> CostOfSales(d, d, u)])
    BY <1>1, CashiersCostSales
  <2>4. /\ [u \in Users |-> EndOfDay(d, u)["total_sales"]]
             = [u \in Users |-> SalesReport(d, d, u).total_sales]
        /\ [u \in Users |-> EndOfDay(d, u)["cogs"]] = [u \in Users |-> CostOfSales(d, d, u)]
    BY <2>1
  <2> QED BY <2>1, <2>2, <2>3, <2>4
<1> QED BY <1>2, <1>3, <1>4, <1>5, <1>6, <1>7 DEF ReportsAgree

\* The invariant implies that the tabs of one reading agree.
LEMMA InvariantSheetAgrees == IInv => SheetAgrees
<1> SUFFICES ASSUME IInv, Whole, sheet.open, ~ sheet.torn, Len(sheet.tabs) = Len(OwnTabs)
             PROVE  /\ sheet.from = day /\ sheet.to = day =>
                         sheet.tabs[Len(sheet.tabs)].amount = sheet.tabs[1].amount
                    /\ user = Admin =>
                         /\ sheet.tabs[1].amount = sheet.tabs[2].amount
                         /\ sheet.tabs[1].amount = sheet.tabs[3].amount + sheet.tabs[3].other
                         /\ sheet.tabs[1].amount + sheet.tabs[1].other = sheet.tabs[4].amount
                         /\ sheet.tabs[2].other = sheet.tabs[4].other
                         /\ sheet.tabs[1].amount = sheet.tabs[5].amount
                         /\ sheet.from = day /\ sheet.to = day =>
                              sheet.tabs[6].other = sheet.tabs[2].other
  BY DEF SheetAgrees
<1>1. TypeOK /\ \A k \in 1 .. Len(OwnTabs) : sheet.tabs[k] = Read(OwnTabs[k], sheet.from, sheet.to)
  BY DEF IInv, TabsAreRead
<1>2. PICK t : t = sheet.tabs
  OBVIOUS
<1>3. PICK from, to : from = sheet.from /\ to = sheet.to
  OBVIOUS
<1>4. CASE user = Admin
  <2>1. OwnTabs = <<"sales", "profit", "payments", "goods", "cashiers", "eod">> /\ Scope = None
    BY <1>4 DEF OwnTabs, Tabs, Scope
  <2>2. /\ t[1] = SalesTab(from, to) /\ t[2] = ProfitTab(from, to) /\ t[3] = PaymentsTab(from, to)
        /\ t[4] = GoodsTab(from, to) /\ t[5] = CashiersTab(from, to) /\ t[6] = DayTab
    BY <1>1, <1>2, <1>3, <2>1 DEF Read
  <2>3. /\ t[1].amount = SalesReport(from, to, None).total_sales
        /\ t[1].other = SalesReport(from, to, None).total_discounts
        /\ t[2].amount = ProfitReport(from, to).total_sales
        /\ t[2].other = ProfitReport(from, to).cogs
    BY <2>1, <2>2 DEF SalesTab, ProfitTab
  <2>4. /\ t[3].amount = PaymentReport(from, to, None).grand_total
        /\ t[3].other = PaidBy("CREDIT", from, to, None)
        /\ t[4].amount = Total([p \in Products |-> GoodsReport(from, to)[p].revenue])
        /\ t[4].other = Total([p \in Products |-> GoodsReport(from, to)[p].cost])
        /\ t[5].amount = Total([u \in Users |-> CashierReport(from, to)[u].total_sales])
    BY <2>2 DEF PaymentsTab, GoodsTab, CashiersTab
  <2>5. t[6].amount = EndOfDay(day, None).total_sales /\ t[6].other = EndOfDay(day, None).cogs
    BY <1>4, <2>2 DEF DayTab
  <2>6. /\ t[1].amount = t[2].amount
        /\ t[1].amount = t[3].amount + t[3].other
        /\ t[1].amount + t[1].other = t[4].amount
        /\ t[2].other = t[4].other
        /\ t[1].amount = t[5].amount
    <3>1. /\ SalesReport(from, to, None).total_sales = ProfitReport(from, to).total_sales
          /\ SalesReport(from, to, None).total_sales
               = PaymentReport(from, to, None).grand_total + PaidBy("CREDIT", from, to, None)
          /\ SalesReport(from, to, None).total_sales + SalesReport(from, to, None).total_discounts
               = Total([p \in Products |-> GoodsReport(from, to)[p].revenue])
          /\ ProfitReport(from, to).cogs = Total([p \in Products |-> GoodsReport(from, to)[p].cost])
          /\ SalesReport(from, to, None).total_sales
               = Total([u \in Users |-> CashierReport(from, to)[u].total_sales])
      BY OneStory
    <3>2. t[1].amount = t[2].amount /\ t[2].other = t[4].other /\ t[1].amount = t[5].amount
      BY <2>3, <2>4, <3>1
    <3>3. t[1].amount = t[3].amount + t[3].other
      BY <2>3, <2>4, <3>1
    <3>4. t[1].amount + t[1].other = t[4].amount
      BY <2>3, <2>4, <3>1
    <3> QED BY <3>2, <3>3, <3>4
  <2>7. ASSUME from = day, to = day PROVE t[6].amount = t[1].amount /\ t[6].other = t[2].other
    <3>1. /\ EndOfDay(day, None).total_sales = SalesReport(day, day, None).total_sales
          /\ EndOfDay(day, None).cogs = CostOfSales(day, day, None)
      BY DEF EndOfDay
    <3>2. ProfitReport(day, day).cogs = CostOfSales(day, day, None)
      BY DEF ProfitReport
    <3> QED BY <2>3, <2>5, <2>7, <3>1, <3>2
  <2>8. Len(t) = 6
    BY <1>2, <2>1
  <2> QED BY <1>2, <1>3, <2>6, <2>7, <2>8
<1>5. CASE user # Admin
  <2>1. OwnTabs = <<"sales", "eod">> /\ Scope = user
    BY <1>5 DEF OwnTabs, Scope
  <2>2. t[1] = SalesTab(from, to) /\ t[2] = DayTab
    BY <1>1, <1>2, <1>3, <2>1 DEF Read
  <2>3. t[1].amount = SalesReport(from, to, user).total_sales
    BY <2>1, <2>2 DEF SalesTab
  <2>4. t[2].amount = EndOfDay(day, user).total_sales
    BY <1>5, <2>2 DEF DayTab
  <2>5. EndOfDay(day, user).total_sales = SalesReport(day, day, user).total_sales
    BY DEF EndOfDay
  <2>6. Len(t) = 2
    BY <1>2, <2>1
  <2> QED BY <1>2, <1>3, <1>5, <2>3, <2>4, <2>5, <2>6
<1> QED BY <1>4, <1>5

-------------------------------------------------------------------------------
\* What a tab shows is a number

\* Sums over rows of the sales table are numbers.
LEMMA SumsAreNumbers ==
    ASSUME TypeOK, NEW R \in SUBSET DOMAIN sales
    PROVE  /\ Total([i \in R |-> sales[i].total]) \in Nat
           /\ Total([i \in R |-> sales[i].discount]) \in Nat
           /\ Total([i \in R |-> SaleCost(sales[i])]) \in Nat
           /\ Cardinality(R) \in Nat
<1>1. /\ IsFiniteSet(R)
      /\ [i \in R |-> sales[i].total] \in Counts(R)
      /\ [i \in R |-> sales[i].discount] \in Counts(R)
  BY SalesRows
<1>2. [i \in R |-> SaleCost(sales[i])] \in Counts(R)
  <2>1. \A i \in R : SaleCost(sales[i]) \in Nat
    BY SaleFields, ItemColumns
  <2> QED BY <2>1 DEF Counts
<1>3. \A f \in Counts(R) : Total(f) \in Nat
  BY <1>1, TotalType DEF Counts
<1>4. Cardinality(R) \in Nat
  BY <1>1, FS_CardinalityType
<1> QED BY <1>1, <1>2, <1>3, <1>4

\* What was taken by a method is a number.
LEMMA PaidByType ==
    ASSUME TypeOK, NEW m, NEW from, NEW to, NEW c
    PROVE  PaidBy(m, from, to, c) \in Nat
<1>1. PICK R \in SUBSET DOMAIN sales : R = {i \in Payments(from, to, c) : sales[i].method = m}
  BY DEF Payments
<1> QED BY <1>1, SumsAreNumbers DEF PaidBy

\* Every tab of the page reads two numbers.
LEMMA TabType ==
    ASSUME TypeOK, NEW tab \in {"sales", "profit", "payments", "goods", "cashiers", "eod"},
           NEW from, NEW to
    PROVE  Read(tab, from, to) \in Tab
<1>1. ASSUME NEW a, NEW b, NEW c
      PROVE  /\ SalesReport(a, b, c).total_sales \in Nat /\ SalesReport(a, b, c).total_discounts \in Nat
             /\ CostOfSales(a, b, c) \in Nat
  <2>1. PICK R \in SUBSET DOMAIN sales : R = {i \in Counted(a, b) : Own(i, c)}
    BY CountedRows
  <2> QED BY <2>1, SumsAreNumbers DEF SalesReport, CostOfSales
<1>2. SalesTab(from, to) \in Tab
  BY <1>1 DEF SalesTab, Tab
<1>3. ProfitTab(from, to) \in Tab
  <2>1. PICK R \in SUBSET DOMAIN sales : R = Counted(from, to)
    BY CountedRows
  <2>2. ProfitReport(from, to).total_sales = Total([i \in R |-> sales[i].total])
    BY <2>1 DEF ProfitReport
  <2>3. ProfitReport(from, to).cogs = CostOfSales(from, to, None)
    BY DEF ProfitReport
  <2>4. ProfitReport(from, to).total_sales \in Nat /\ ProfitReport(from, to).cogs \in Nat
    BY <1>1, <2>2, <2>3, SumsAreNumbers
  <2> QED BY <2>4 DEF ProfitTab, Tab
<1>4. PaymentsTab(from, to) \in Tab
  <2>1. /\ PaidBy("POS", from, to, None) \in Nat /\ PaidBy("TRANSFER", from, to, None) \in Nat
        /\ PaidBy("CREDIT", from, to, None) \in Nat
    BY PaidByType
  <2>2. PaymentReport(from, to, None).grand_total
          = PaidBy("POS", from, to, None) + PaidBy("TRANSFER", from, to, None)
    BY DEF PaymentReport
  <2> QED BY <2>1, <2>2 DEF PaymentsTab, Tab
<1>5. GoodsTab(from, to) \in Tab
  <2>1. IsFiniteSet(Products) /\ Price \in Nat
    BY BooksAssumption
  <2>2. \A p \in Products : GoodsReport(from, to)[p].cost \in Nat
    BY GoodsCostSales
  <2>3. ASSUME NEW p \in Products PROVE GoodsReport(from, to)[p].revenue \in Nat
    <3>1. PICK R \in SUBSET DOMAIN sales : R = Counted(from, to)
      BY CountedRows
    <3>2. \A i \in R : Quantity(sales[i], p) \in Nat
      BY SaleFields, ItemColumns
    <3>3. [i \in R |-> Quantity(sales[i], p)] \in [R -> Nat] /\ IsFiniteSet(R)
      BY <3>2, SalesRows
    <3>4. Total([i \in R |-> Quantity(sales[i], p)]) \in Nat
      BY <3>3, TotalType
    <3>5. GoodsReport(from, to)[p].revenue = Total([i \in R |-> Quantity(sales[i], p)]) * Price
      BY <3>1 DEF GoodsReport
    <3>6. \A m, n \in Nat : m * n \in Nat
      OBVIOUS
    <3> QED BY <2>1, <3>4, <3>5, <3>6
  <2>4. /\ [p \in Products |-> GoodsReport(from, to)[p].revenue] \in [Products -> Nat]
        /\ [p \in Products |-> GoodsReport(from, to)[p].cost] \in [Products -> Nat]
    BY <2>2, <2>3
  <2>5. /\ Total([p \in Products |-> GoodsReport(from, to)[p].revenue]) \in Nat
        /\ Total([p \in Products |-> GoodsReport(from, to)[p].cost]) \in Nat
    BY <2>1, <2>4, TotalType
  <2> QED BY <2>5 DEF GoodsTab, Tab
<1>6. CashiersTab(from, to) \in Tab
  <2>1. IsFiniteSet(Users)
    BY BooksAssumption
  <2>2. ASSUME NEW u \in Users
        PROVE  /\ CashierReport(from, to)[u].total_sales \in Nat
               /\ CashierReport(from, to)[u].transaction_count \in Nat
    <3>1. PICK R \in SUBSET DOMAIN sales : R = {i \in Counted(from, to) : sales[i].cashier = u}
      BY CountedRows
    <3>2. /\ CashierReport(from, to)[u].total_sales = Total([i \in R |-> sales[i].total])
          /\ CashierReport(from, to)[u].transaction_count = Cardinality(R)
      BY <3>1 DEF CashierReport
    <3> QED BY <3>2, SumsAreNumbers
  <2>3. /\ [u \in Users |-> CashierReport(from, to)[u].total_sales] \in [Users -> Nat]
        /\ [u \in Users |-> CashierReport(from, to)[u].transaction_count] \in [Users -> Nat]
    BY <2>2
  <2>4. /\ Total([u \in Users |-> CashierReport(from, to)[u].total_sales]) \in Nat
        /\ Total([u \in Users |-> CashierReport(from, to)[u].transaction_count]) \in Nat
    BY <2>1, <2>3, TotalType
  <2> QED BY <2>4 DEF CashiersTab, Tab
<1>7. DayTab \in Tab
  <2>1. \A c : /\ EndOfDay(day, c).total_sales = SalesReport(day, day, c).total_sales
               /\ EndOfDay(day, c).cogs = CostOfSales(day, day, c)
    BY DEF EndOfDay
  <2> QED BY <1>1, <2>1 DEF DayTab, Tab
<1> QED BY <1>2, <1>3, <1>4, <1>5, <1>6, <1>7 DEF Read

-------------------------------------------------------------------------------
\* The steps

\* What goods come to is a number.
LEMMA AmountType == ASSUME NEW items \in [Products -> Nat] PROVE Amount(items) \in Nat
<1>1. \A m, n \in Nat : m * n \in Nat
  OBVIOUS
<1>2. \A p \in Products : items[p] * Price \in Nat
  BY <1>1, BooksAssumption
<1>3. [p \in Products |-> items[p] * Price] \in [Products -> Nat]
  BY <1>2
<1> QED BY <1>3, TotalType, BooksAssumption DEF Amount

\* A sale is added with its types, and goods come to total and discount.
LEMMA BookedKeeps ==
    ASSUME TypeOK, SalesAddUp,
           NEW items \in [Products -> Nat], NEW cashier \in Users, NEW d \in Days,
           NEW cost \in [Products -> Costs], NEW discount \in Nat, NEW method \in Methods,
           NEW rows \in SUBSET {"items", "payment"},
           Booked(items, cashier, d, cost, discount, method, rows)
    PROVE  /\ sales' \in Seq(Sale)
           /\ \A i \in DOMAIN sales' : sales'[i].total > 0 \/ "payment" \notin sales'[i].rows
           /\ SalesAddUp'
<1>1. PICK total : total = Amount(items) - discount
  OBVIOUS
<1>2. Amount(items) \in Nat /\ total >= 0
  BY <1>1, AmountType DEF Booked
<1>3. total \in Nat /\ Amount(items) = total + discount
  BY <1>1, <1>2
<1>4. PICK s : s = [cashier |-> cashier, day |-> d, items |-> items, cost |-> cost,
                    discount |-> discount, total |-> total, method |-> method,
                    status |-> "COMPLETED",
                    rows |-> IF total > 0 THEN rows ELSE rows \ {"payment"}]
  OBVIOUS
<1>5. s \in Sale
  BY <1>3, <1>4 DEF Sale
<1>6. sales' = Append(sales, s)
  BY <1>1, <1>4 DEF Booked
<1>7. s.total > 0 \/ "payment" \notin s.rows
  BY <1>4
<1>8. Amount(s.items) = s.total + s.discount
  BY <1>3, <1>4
<1>9. sales \in Seq(Sale)
  BY DEF TypeOK
<1>10. sales' \in Seq(Sale) /\ DOMAIN sales' = DOMAIN sales \cup {Len(sales) + 1}
  BY <1>5, <1>6, <1>9
<1>11. ASSUME NEW i \in DOMAIN sales'
       PROVE  /\ sales'[i].total > 0 \/ "payment" \notin sales'[i].rows
              /\ Amount(sales'[i].items) = sales'[i].total + sales'[i].discount
  <2>1. CASE i \in DOMAIN sales
    <3>1. sales'[i] = sales[i]
      BY <1>6, <1>9, <2>1
    <3> QED BY <2>1, <3>1 DEF TypeOK, SalesAddUp
  <2>2. CASE i = Len(sales) + 1
    <3>1. sales'[i] = s
      BY <1>6, <1>9, <2>2
    <3> QED BY <1>7, <1>8, <3>1
  <2> QED BY <1>10, <2>1, <2>2
<1> QED BY <1>10, <1>11 DEF SalesAddUp

\* A cancelled sale keeps everything but its status.
LEMMA CancelKeeps ==
    ASSUME TypeOK, SalesAddUp, NEW n \in DOMAIN sales,
           sales' = [sales EXCEPT ![n].status = "CANCELLED"]
    PROVE  /\ sales' \in Seq(Sale)
           /\ \A i \in DOMAIN sales' : sales'[i].total > 0 \/ "payment" \notin sales'[i].rows
           /\ SalesAddUp'
<1>1. PICK s : s = [sales[n] EXCEPT !.status = "CANCELLED"]
  OBVIOUS
<1>2. sales' = [sales EXCEPT ![n] = s]
  BY <1>1
<1>3. sales[n] \in Sale /\ sales \in Seq(Sale)
  BY SaleFields DEF TypeOK
<1>4. /\ s \in Sale /\ s.total = sales[n].total /\ s.rows = sales[n].rows
      /\ s.items = sales[n].items /\ s.discount = sales[n].discount
  BY <1>1, <1>3 DEF Sale
<1>5. sales' \in Seq(Sale) /\ DOMAIN sales' = DOMAIN sales
  BY <1>2, <1>3, <1>4
<1>6. ASSUME NEW i \in DOMAIN sales'
      PROVE  /\ sales'[i].total = sales[i].total /\ sales'[i].rows = sales[i].rows
             /\ sales'[i].items = sales[i].items /\ sales'[i].discount = sales[i].discount
  BY <1>2, <1>4, <1>5
<1> QED BY <1>5, <1>6 DEF TypeOK, SalesAddUp

\* What a page shows depends on the books, the day and who is signed in.
LEMMA ReadKept ==
    ASSUME sales' = sales, expenses' = expenses, day' = day, user' = user
    PROVE  /\ OwnTabs' = OwnTabs
           /\ \A tab, from, to : Read(tab, from, to)' = Read(tab, from, to)
<1>1. OwnTabs' = OwnTabs /\ Scope' = Scope
  BY DEF OwnTabs, Scope
<1>2. ASSUME NEW a, NEW b PROVE Counted(a, b)' = Counted(a, b) /\ ExpensesOf(a, b)' = ExpensesOf(a, b)
  BY DEF Counted, ExpensesOf
<1>3. ASSUME NEW i, NEW c PROVE Own(i, c)' = Own(i, c)
  BY DEF Own
<1>4. ASSUME NEW a, NEW b, NEW c
      PROVE  /\ SalesReport(a, b, c)' = SalesReport(a, b, c)
             /\ CostOfSales(a, b, c)' = CostOfSales(a, b, c)
             /\ Payments(a, b, c)' = Payments(a, b, c)
  BY <1>2, <1>3 DEF SalesReport, CostOfSales, Payments, SaleCost, Cost, Quantity
<1>5. ASSUME NEW a, NEW b PROVE ProfitReport(a, b)' = ProfitReport(a, b)
  BY <1>2, <1>4 DEF ProfitReport
<1>6. ASSUME NEW m, NEW a, NEW b, NEW c PROVE PaidBy(m, a, b, c)' = PaidBy(m, a, b, c)
  BY <1>4 DEF PaidBy
<1>7. ASSUME NEW a, NEW b, NEW c PROVE PaymentReport(a, b, c)' = PaymentReport(a, b, c)
  BY <1>6 DEF PaymentReport
<1>8. ASSUME NEW a, NEW b
      PROVE  GoodsReport(a, b)' = GoodsReport(a, b) /\ CashierReport(a, b)' = CashierReport(a, b)
  BY <1>2 DEF GoodsReport, CashierReport, Cost, Quantity
<1>9. ASSUME NEW d, NEW c PROVE EndOfDay(d, c)' = EndOfDay(d, c)
  BY <1>2, <1>4, <1>7 DEF EndOfDay
<1>10. ASSUME NEW a, NEW b
       PROVE  /\ SalesTab(a, b)' = SalesTab(a, b) /\ ProfitTab(a, b)' = ProfitTab(a, b)
              /\ PaymentsTab(a, b)' = PaymentsTab(a, b) /\ GoodsTab(a, b)' = GoodsTab(a, b)
              /\ CashiersTab(a, b)' = CashiersTab(a, b)
  <2>1. SalesTab(a, b)' = SalesTab(a, b)
    BY <1>1, <1>4 DEF SalesTab
  <2>2. ProfitTab(a, b)' = ProfitTab(a, b)
    BY <1>5 DEF ProfitTab
  <2>3. PaymentsTab(a, b)' = PaymentsTab(a, b)
    BY <1>6, <1>7 DEF PaymentsTab
  <2>4. GoodsTab(a, b)' = GoodsTab(a, b) /\ CashiersTab(a, b)' = CashiersTab(a, b)
    BY <1>8 DEF GoodsTab, CashiersTab
  <2> QED BY <2>1, <2>2, <2>3, <2>4
<1>11. DayTab' = DayTab
  BY <1>9 DEF DayTab
<1>12. ASSUME NEW tab, NEW a, NEW b PROVE Read(tab, a, b)' = Read(tab, a, b)
  BY <1>10, <1>11 DEF Read
<1> QED BY <1>1, <1>12

\* The first state.
LEMMA InitInv == Init => IInv
<1> SUFFICES ASSUME Init PROVE IInv
  OBVIOUS
<1>1. Min(Costs) \in Costs
  <2>1. Costs \in SUBSET Nat /\ Costs # {}
    BY BooksAssumption
  <2>2. \E x \in Costs : \A y \in Costs : x <= y
    BY <2>1, LeastExists
  <2> QED BY <2>2 DEF Min
<1>2. Opening \in Nat /\ MaxDay \in Nat \ {0} /\ Admin \in Users
  BY BooksAssumption
<1>3. day \in Days /\ user \in Users
  BY <1>2 DEF Init, Days
<1>4. product \in [Products -> [cost: Costs, quantity: Nat]]
  BY <1>1, <1>2 DEF Init
<1>5. /\ sales \in Seq(Sale) /\ purchases \in Seq(Purchase) /\ expenses \in Seq(Expense)
      /\ DOMAIN sales = {} /\ DOMAIN purchases = {}
  BY DEF Init
<1>6. form \in [open: BOOLEAN, lines: Seq(PurchaseLine)] /\ ~ form.open
  BY DEF Init, NoForm
<1>7. sheet \in [open: BOOLEAN, from: Days, to: Days, tabs: Seq(Tab), torn: BOOLEAN] /\ ~ sheet.open
  BY <1>2 DEF Init, Closed, Days
<1>8. TypeOK
  BY <1>3, <1>4, <1>5, <1>6, <1>7 DEF TypeOK
<1>9. SalesAddUp /\ PurchasesBalance
  BY <1>5 DEF SalesAddUp, PurchasesBalance
<1> QED BY <1>6, <1>7, <1>8, <1>9 DEF IInv, OneInFront, TabsAreRead

\* A sale.
LEMMA SellKeeps ==
    ASSUME IInv, NEW items \in Baskets, NEW discount \in Discounts, NEW method \in Methods,
           Sell(items, discount, method)
    PROVE  IInv'
<1>1. TypeOK /\ SalesAddUp /\ PurchasesBalance
  BY DEF IInv
<1>2. items \in [Products -> Nat]
  BY BooksAssumption DEF Baskets
<1>3. discount \in Nat
  BY BooksAssumption
<1>4. product \in [Products -> [cost: Costs, quantity: Nat]] /\ day \in Days /\ user \in Users
  BY <1>1 DEF TypeOK
<1>5. PICK cost \in [Products -> Costs] : cost = [p \in Products |-> product[p].cost]
  BY <1>4
<1>6. PICK rows \in SUBSET {"items", "payment"} : rows = {"items", "payment"}
  OBVIOUS
<1>7. Booked(items, user, day, cost, discount, method, rows)
  BY <1>5, <1>6 DEF Sell
<1>8. /\ sales' \in Seq(Sale) /\ SalesAddUp'
      /\ \A i \in DOMAIN sales' : sales'[i].total > 0 \/ "payment" \notin sales'[i].rows
  <2>1. PICK u \in Users, d \in Days : u = user /\ d = day
    BY <1>4
  <2>2. Booked(items, u, d, cost, discount, method, rows)
    BY <1>7, <2>1
  <2> QED BY <1>1, <1>2, <1>3, <2>2, BookedKeeps
<1>9. product' \in [Products -> [cost: Costs, quantity: Nat]]
  <2>1. ASSUME NEW p \in Products
        PROVE  [product[p] EXCEPT !.quantity = @ - items[p]] \in [cost: Costs, quantity: Nat]
    <3>1. items[p] <= product[p].quantity
      BY DEF Sell
    <3>2. product[p].quantity - items[p] \in Nat
      BY <1>2, <1>4, <3>1
    <3> QED BY <1>4, <3>2
  <2>2. product' = [p \in Products |-> [product[p] EXCEPT !.quantity = @ - items[p]]]
    BY DEF Sell
  <2> QED BY <2>1, <2>2
<1>10. /\ UNCHANGED <<day, user, purchases, expenses, form, sheet>>
       /\ ~ form.open /\ ~ sheet.open
  BY DEF Sell, Idle
<1>11. TypeOK'
  BY <1>1, <1>8, <1>9, <1>10 DEF TypeOK
<1> QED BY <1>1, <1>8, <1>10, <1>11 DEF IInv, PurchasesBalance, OneInFront, TabsAreRead

\* A cancellation.
LEMMA CancelSaleKeeps ==
    ASSUME IInv, NEW n \in DOMAIN sales, CancelSale(n)
    PROVE  IInv'
<1>1. TypeOK /\ SalesAddUp /\ PurchasesBalance
  BY DEF IInv
<1>2. /\ sales' \in Seq(Sale) /\ SalesAddUp'
      /\ \A i \in DOMAIN sales' : sales'[i].total > 0 \/ "payment" \notin sales'[i].rows
  BY <1>1, CancelKeeps DEF CancelSale
<1>3. product' \in [Products -> [cost: Costs, quantity: Nat]]
  <2>1. product \in [Products -> [cost: Costs, quantity: Nat]] /\ sales[n] \in Sale
    BY <1>1, SaleFields DEF TypeOK
  <2>2. \A p \in Products : Quantity(sales[n], p) \in Nat
    BY <2>1, ItemColumns
  <2>3. ASSUME NEW p \in Products
        PROVE  [product[p] EXCEPT !.quantity = @ + Quantity(sales[n], p)]
                 \in [cost: Costs, quantity: Nat]
    BY <2>1, <2>2
  <2>4. product' = [p \in Products |-> [product[p] EXCEPT !.quantity = @ + Quantity(sales[n], p)]]
    BY DEF CancelSale
  <2> QED BY <2>3, <2>4
<1>4. /\ UNCHANGED <<day, user, purchases, expenses, form, sheet>>
      /\ ~ form.open /\ ~ sheet.open
  BY DEF CancelSale, Idle
<1>5. TypeOK'
  BY <1>1, <1>2, <1>3, <1>4 DEF TypeOK
<1> QED BY <1>1, <1>2, <1>4, <1>5 DEF IInv, PurchasesBalance, OneInFront, TabsAreRead

\* Rows of another PC: an open page that has read something is torn.
LEMMA PullKeeps == ASSUME IInv, Pull PROVE IInv'
<1>1. TypeOK /\ SalesAddUp /\ PurchasesBalance /\ OneInFront /\ TabsAreRead
  BY DEF IInv
<1>2. /\ sales' \in Seq(Sale) /\ SalesAddUp'
      /\ \A i \in DOMAIN sales' : sales'[i].total > 0 \/ "payment" \notin sales'[i].rows
  <2>1. ASSUME NEW items \in Baskets, NEW d \in Days, NEW terms \in Terms,
               NEW rows \in SUBSET {"items", "payment"}, PullSale(items, d, terms, rows)
        PROVE  /\ sales' \in Seq(Sale) /\ SalesAddUp'
               /\ \A i \in DOMAIN sales' : sales'[i].total > 0 \/ "payment" \notin sales'[i].rows
    <3>1. items \in [Products -> Nat] /\ Admin \in Users
      BY BooksAssumption DEF Baskets
    <3>2. terms.cost \in [Products -> Costs] /\ terms.discount \in Nat /\ terms.method \in Methods
      <4>1. terms \in [cost: [Products -> Costs], discount: Discounts, method: Methods]
        BY BooksAssumption
      <4>2. Discounts \subseteq Nat
        BY BooksAssumption
      <4> QED BY <4>1, <4>2
    <3>3. Booked(items, Admin, d, terms.cost, terms.discount, terms.method, rows)
      BY <2>1 DEF PullSale
    <3> QED BY <1>1, <3>1, <3>2, <3>3, BookedKeeps
  <2>2. ASSUME NEW n \in DOMAIN sales, PullCancel(n)
        PROVE  /\ sales' \in Seq(Sale) /\ SalesAddUp'
               /\ \A i \in DOMAIN sales' : sales'[i].total > 0 \/ "payment" \notin sales'[i].rows
    BY <1>1, <2>2, CancelKeeps DEF PullCancel
  <2> QED BY <2>1, <2>2 DEF Pull
<1>3. /\ sheet' = [sheet EXCEPT !.torn = sheet.tabs # <<>> \/ @]
      /\ UNCHANGED <<day, user, product, purchases, expenses, form>>
  BY DEF Pull, PullSale, PullCancel
<1>4. sheet \in [open: BOOLEAN, from: Days, to: Days, tabs: Seq(Tab), torn: BOOLEAN]
  BY <1>1 DEF TypeOK
<1>5. /\ sheet' \in [open: BOOLEAN, from: Days, to: Days, tabs: Seq(Tab), torn: BOOLEAN]
      /\ sheet'.open = sheet.open /\ sheet'.tabs = sheet.tabs
      /\ sheet'.torn \/ sheet.tabs = <<>>
  <2>1. PICK torn \in BOOLEAN : torn <=> sheet.tabs # <<>> \/ sheet.torn
    OBVIOUS
  <2>2. sheet' = [sheet EXCEPT !.torn = sheet.tabs # <<>> \/ sheet.torn]
    BY <1>3, <1>4
  <2>3. torn = (sheet.tabs # <<>> \/ sheet.torn)
    BY <1>4, <2>1, Zenon
  <2>4. sheet' = [sheet EXCEPT !.torn = torn]
    BY <2>2, <2>3, Zenon
  <2> QED BY <1>4, <2>1, <2>4
<1>6. TypeOK'
  BY <1>1, <1>2, <1>3, <1>5 DEF TypeOK
<1>7. TabsAreRead'
  <2>1. OwnTabs' = OwnTabs
    BY <1>3 DEF OwnTabs
  <2>2. sheet.open => Len(sheet.tabs) <= Len(OwnTabs)
    BY <1>1 DEF TabsAreRead
  <2>3. ASSUME ~ sheet'.torn, NEW k \in 1 .. Len(sheet'.tabs) PROVE FALSE
    <3>1. sheet'.tabs = <<>>
      BY <1>5, <2>3
    <3> QED BY <2>3, <3>1
  <2> QED BY <1>5, <2>1, <2>2, <2>3 DEF TabsAreRead
<1> QED BY <1>1, <1>2, <1>3, <1>5, <1>6, <1>7 DEF IInv, PurchasesBalance, OneInFront

\* Expenses, prices, days and users: with neither form nor page open.
LEMMA IdleKeeps ==
    ASSUME IInv,
           \/ \E amount \in Amounts, d \in Days : RecordExpense(amount, d)
           \/ \E amount \in Amounts, i \in DOMAIN expenses : EditExpense(i, amount)
           \/ \E p \in Products, cost \in Costs : EditCost(p, cost)
           \/ NextDay \/ \E u \in Users : SignIn(u)
           \/ OpenPurchase \/ \E from, to \in Days : OpenReports(from, to)
    PROVE  IInv'
<1>1. /\ TypeOK /\ ~ form.open /\ ~ sheet.open
      /\ UNCHANGED <<sales, purchases>>
  BY DEF IInv, RecordExpense, EditExpense, EditCost, NextDay, SignIn, OpenPurchase, OpenReports, Idle
<1>2. ASSUME NEW amount \in Amounts, NEW d \in Days, RecordExpense(amount, d) PROVE TypeOK'
  <2>1. expenses' \in Seq(Expense)
    BY <1>1, <1>2 DEF RecordExpense, TypeOK, Expense
  <2> QED BY <1>1, <1>2, <2>1 DEF RecordExpense, TypeOK
<1>3. ASSUME NEW amount \in Amounts, NEW i \in DOMAIN expenses, EditExpense(i, amount) PROVE TypeOK'
  <2>1. PICK e : e = [expenses[i] EXCEPT !.amount = amount]
    OBVIOUS
  <2>2. expenses \in Seq(Expense) /\ e \in Expense
    <3>1. expenses \in Seq(Expense)
      BY <1>1 DEF TypeOK
    <3>2. expenses[i] \in Expense
      BY <3>1
    <3>3. e \in Expense
      BY <2>1, <3>2 DEF Expense
    <3> QED BY <3>1, <3>3
  <2>3. expenses' = [expenses EXCEPT ![i] = e]
    BY <1>3, <2>1 DEF EditExpense
  <2>4. expenses' \in Seq(Expense)
    BY <2>2, <2>3
  <2> QED BY <1>1, <1>3, <2>4 DEF EditExpense, TypeOK
<1>4. ASSUME NEW p \in Products, NEW cost \in Costs, EditCost(p, cost) PROVE TypeOK'
  <2>1. product' \in [Products -> [cost: Costs, quantity: Nat]]
    BY <1>1, <1>4 DEF EditCost, TypeOK
  <2> QED BY <1>1, <1>4, <2>1 DEF EditCost, TypeOK
<1>5. ASSUME NextDay PROVE TypeOK'
  <2>1. day' \in Days
    BY <1>1, <1>5, BooksAssumption DEF NextDay, TypeOK, Days
  <2> QED BY <1>1, <1>5, <2>1 DEF NextDay, TypeOK
<1>6. ASSUME NEW u \in Users, SignIn(u) PROVE TypeOK'
  BY <1>1, <1>6 DEF SignIn, TypeOK
<1>7. ASSUME OpenPurchase PROVE TypeOK' /\ ~ sheet'.open
  <2>1. form' \in [open: BOOLEAN, lines: Seq(PurchaseLine)]
    <3>1. form' = [open |-> TRUE, lines |-> <<>>]
      BY <1>7 DEF OpenPurchase, NoForm
    <3> QED BY <3>1
  <2> QED BY <1>1, <1>7, <2>1 DEF OpenPurchase, TypeOK
<1>8. ASSUME NEW from \in Days, NEW to \in Days, OpenReports(from, to)
      PROVE  TypeOK' /\ ~ form'.open /\ TabsAreRead'
  <2>1. sheet' = [open |-> TRUE, from |-> from, to |-> to, tabs |-> <<>>, torn |-> FALSE]
    BY <1>8 DEF OpenReports, Closed
  <2>2. sheet' \in [open: BOOLEAN, from: Days, to: Days, tabs: Seq(Tab), torn: BOOLEAN]
    BY <2>1
  <2>3. TypeOK' /\ ~ form'.open
    BY <1>1, <1>8, <2>2 DEF OpenReports, TypeOK
  <2>4. Len(sheet'.tabs) = 0 /\ Len(OwnTabs') \in Nat /\ Len(OwnTabs') >= 0
    BY <2>1 DEF OwnTabs, Tabs
  <2> QED BY <2>3, <2>4 DEF TabsAreRead
<1>9. SalesAddUp' /\ PurchasesBalance'
  BY <1>1 DEF IInv, SalesAddUp, PurchasesBalance
<1>10. \/ TypeOK' /\ ~ sheet'.open
       \/ TypeOK' /\ ~ form'.open /\ TabsAreRead'
  BY <1>1, <1>2, <1>3, <1>4, <1>5, <1>6, <1>7, <1>8
     DEF RecordExpense, EditExpense, EditCost, NextDay, SignIn
<1> QED BY <1>9, <1>10 DEF IInv, OneInFront, TabsAreRead

\* The purchase form.
LEMMA FormKeeps ==
    ASSUME IInv,
           \/ Reject
           \/ \E line \in [product: Products, quantity: 1 .. MaxPieces, cost: Costs] : AddLine(line)
    PROVE  IInv'
<1>1. TypeOK /\ ~ sheet.open /\ UNCHANGED <<day, user, product, sales, purchases, expenses, sheet>>
  BY DEF IInv, OneInFront, Reject, AddLine
<1>2. form' \in [open: BOOLEAN, lines: Seq(PurchaseLine)]
  <2>1. CASE Reject
    BY <2>1 DEF Reject, NoForm
  <2>2. ASSUME NEW line \in [product: Products, quantity: 1 .. MaxPieces, cost: Costs], AddLine(line)
        PROVE  form' \in [open: BOOLEAN, lines: Seq(PurchaseLine)]
    <3>1. line \in PurchaseLine
      BY BooksAssumption DEF PurchaseLine
    <3>2. form \in [open: BOOLEAN, lines: Seq(PurchaseLine)]
      BY <1>1 DEF TypeOK
    <3>3. form' = [form EXCEPT !.lines = Append(form.lines, line)]
      BY <2>2, <3>2 DEF AddLine
    <3>4. Append(form.lines, line) \in Seq(PurchaseLine)
      BY <3>1, <3>2
    <3>5. PICK lines \in Seq(PurchaseLine) : lines = Append(form.lines, line)
      BY <3>4
    <3>6. form' = [form EXCEPT !.lines = lines]
      BY <3>3, <3>5
    <3> QED BY <3>2, <3>6
  <2> QED BY <2>1, <2>2
<1>3. TypeOK'
  BY <1>1, <1>2 DEF TypeOK
<1>4. SalesAddUp' /\ PurchasesBalance'
  BY <1>1 DEF IInv, SalesAddUp, PurchasesBalance
<1> QED BY <1>1, <1>3, <1>4 DEF IInv, OneInFront, TabsAreRead

\* A purchase: stock, prices and the header.
LEMMA CompletePurchaseKeeps ==
    ASSUME IInv, NEW paid \in 0 .. MaxPaid, CompletePurchase(paid)
    PROVE  IInv'
<1>1. TypeOK /\ PurchasesBalance /\ form.open /\ ~ sheet.open
  BY DEF IInv, OneInFront, CompletePurchase
<1>2. PICK lines \in Seq(PurchaseLine) : lines = form.lines
  BY <1>1 DEF TypeOK
<1>3. PICK total : total = Total([i \in DOMAIN lines |-> lines[i].quantity * lines[i].cost])
  OBVIOUS
<1>4. Costs \subseteq Nat
  BY BooksAssumption
<1>5. \A i \in DOMAIN lines : lines[i] \in PurchaseLine
  OBVIOUS
<1>6. total \in Nat
  <2>1. IsFiniteSet(DOMAIN lines)
    BY RowsFinite
  <2>2. \A m, n \in Nat : m * n \in Nat
    OBVIOUS
  <2>3. \A i \in DOMAIN lines : lines[i].quantity \in Nat /\ lines[i].cost \in Nat
    BY <1>4, <1>5 DEF PurchaseLine
  <2>4. [i \in DOMAIN lines |-> lines[i].quantity * lines[i].cost] \in [DOMAIN lines -> Nat]
    BY <2>2, <2>3
  <2>5. Total([i \in DOMAIN lines |-> lines[i].quantity * lines[i].cost]) \in Nat
    BY <2>1, <2>4, TotalType
  <2> QED BY <1>3, <2>5
<1>7. PICK bought : bought = [day |-> day, total_cost |-> total,
                              amount_paid |-> paid, balance |-> total - paid]
  OBVIOUS
<1>8. paid <= total /\ purchases' = Append(purchases, bought)
  BY <1>2, <1>3, <1>7 DEF CompletePurchase, Payable
<1>9. bought \in Purchase /\ bought.total_cost = bought.amount_paid + bought.balance
  <2>1. paid \in Nat /\ total - paid \in Nat /\ total = paid + (total - paid)
    BY <1>6, <1>8, BooksAssumption
  <2>2. day \in Days
    BY <1>1 DEF TypeOK
  <2> QED BY <1>6, <1>7, <2>1, <2>2 DEF Purchase
<1>10. purchases' \in Seq(Purchase) /\ PurchasesBalance'
  <2>1. purchases \in Seq(Purchase)
    BY <1>1 DEF TypeOK
  <2>2. purchases' \in Seq(Purchase) /\ DOMAIN purchases' = DOMAIN purchases \cup {Len(purchases) + 1}
    BY <1>8, <1>9, <2>1
  <2>3. purchases'[Len(purchases) + 1] = bought /\ \A i \in DOMAIN purchases : purchases'[i] = purchases[i]
    BY <1>8, <1>9, <2>1
  <2> QED BY <1>1, <1>9, <2>2, <2>3 DEF PurchasesBalance
<1>11. product' \in [Products -> [cost: Costs, quantity: Nat]]
  <2> DEFINE on(p) == {i \in DOMAIN lines : lines[i].product = p}
  <2>1. product \in [Products -> [cost: Costs, quantity: Nat]]
    BY <1>1 DEF TypeOK
  <2>2. product' = [p \in Products |->
                      IF on(p) = {} THEN product[p]
                      ELSE [cost |-> lines[CHOOSE i \in on(p) : TRUE].cost,
                            quantity |-> product[p].quantity + lines[CHOOSE i \in on(p) : TRUE].quantity]]
    BY <1>2 DEF CompletePurchase
  <2>3. ASSUME NEW p \in Products, on(p) # {}
        PROVE  [cost |-> lines[CHOOSE i \in on(p) : TRUE].cost,
                quantity |-> product[p].quantity + lines[CHOOSE i \in on(p) : TRUE].quantity]
                 \in [cost: Costs, quantity: Nat]
    <3>1. PICK n : n = CHOOSE i \in on(p) : TRUE
      OBVIOUS
    <3>2. n \in DOMAIN lines
      BY <2>3, <3>1
    <3>3. lines[n].cost \in Costs /\ lines[n].quantity \in Nat
      BY <1>5, <3>2 DEF PurchaseLine
    <3>4. product[p].quantity + lines[n].quantity \in Nat
      BY <2>1, <3>3
    <3> QED BY <3>1, <3>3, <3>4
  <2> HIDE DEF on
  <2> QED BY <2>1, <2>2, <2>3
<1>12. form' \in [open: BOOLEAN, lines: Seq(PurchaseLine)] /\ ~ form'.open
  BY DEF CompletePurchase, NoForm
<1>13. UNCHANGED <<day, user, sales, expenses, sheet>>
  BY DEF CompletePurchase
<1>14. TypeOK'
  BY <1>1, <1>10, <1>11, <1>12, <1>13 DEF TypeOK
<1>15. SalesAddUp'
  BY <1>13 DEF IInv, SalesAddUp
<1> QED BY <1>1, <1>10, <1>12, <1>13, <1>14, <1>15 DEF IInv, OneInFront, TabsAreRead

\* The pages only read.
LEMMA PageKeeps == ASSUME IInv, ReadTab \/ CloseReports PROVE IInv'
<1>1. TypeOK /\ OneInFront /\ TabsAreRead /\ UNCHANGED <<day, user, product, sales, purchases, expenses, form>>
  BY DEF IInv, ReadTab, CloseReports
<1>2. sheet \in [open: BOOLEAN, from: Days, to: Days, tabs: Seq(Tab), torn: BOOLEAN]
  BY <1>1 DEF TypeOK
<1>3. SalesAddUp' /\ PurchasesBalance' /\ sheet.open
  BY <1>1 DEF IInv, SalesAddUp, PurchasesBalance, ReadTab, CloseReports
<1>4. CASE CloseReports
  <2>1. sheet' \in [open: BOOLEAN, from: Days, to: Days, tabs: Seq(Tab), torn: BOOLEAN] /\ ~ sheet'.open
    BY <1>4, BooksAssumption DEF CloseReports, Closed, Days
  <2>2. TypeOK'
    BY <1>1, <2>1 DEF TypeOK
  <2> QED BY <1>3, <2>1, <2>2 DEF IInv, OneInFront, TabsAreRead
<1>5. CASE ReadTab
  <2>1. PICK n : n = Len(sheet.tabs) + 1
    OBVIOUS
  <2>2. n \in 1 .. Len(OwnTabs) /\ Len(OwnTabs) \in Nat
    BY <1>2, <1>5, <2>1 DEF ReadTab, OwnTabs, Tabs
  <2>3. OwnTabs[n] \in {"sales", "profit", "payments", "goods", "cashiers", "eod"}
    BY <2>2 DEF OwnTabs, Tabs
  <2>4. PICK t : t = Read(OwnTabs[n], sheet.from, sheet.to)
    OBVIOUS
  <2>5. t \in Tab
    BY <1>1, <2>3, <2>4, TabType
  <2>6. sheet' = [sheet EXCEPT !.tabs = Append(sheet.tabs, t)]
    BY <1>2, <1>5, <2>1, <2>4 DEF ReadTab
  <2>7. /\ sheet' \in [open: BOOLEAN, from: Days, to: Days, tabs: Seq(Tab), torn: BOOLEAN]
        /\ sheet'.open = sheet.open /\ sheet'.from = sheet.from /\ sheet'.to = sheet.to
        /\ sheet'.torn = sheet.torn /\ sheet'.tabs = Append(sheet.tabs, t)
    <3>1. Append(sheet.tabs, t) \in Seq(Tab)
      BY <1>2, <2>5
    <3>2. PICK tabs \in Seq(Tab) : tabs = Append(sheet.tabs, t)
      BY <3>1
    <3>3. sheet' = [sheet EXCEPT !.tabs = tabs]
      BY <2>6, <3>2
    <3> QED BY <1>2, <3>2, <3>3
  <2>8. TypeOK'
    BY <1>1, <2>7 DEF TypeOK
  <2>9. OwnTabs' = OwnTabs /\ \A tab, from, to : Read(tab, from, to)' = Read(tab, from, to)
    BY <1>1, ReadKept
  <2>10. Len(sheet'.tabs) = n
    BY <1>2, <2>1, <2>5, <2>7
  <2>11. ASSUME ~ sheet'.torn, NEW k \in 1 .. Len(sheet'.tabs)
         PROVE  sheet'.tabs[k] = Read(OwnTabs[k], sheet.from, sheet.to)'
    <3>1. PICK from, to : from = sheet.from /\ to = sheet.to
      OBVIOUS
    <3>2. PICK tab : tab = OwnTabs[k]
      OBVIOUS
    <3>3. sheet'.tabs[k] = Read(tab, from, to)
      <4>1. CASE k = n
        BY <1>2, <2>1, <2>4, <2>5, <2>7, <3>1, <3>2, <4>1
      <4>2. CASE k # n
        <5>1. k \in 1 .. Len(sheet.tabs)
          BY <1>2, <2>1, <2>10, <4>2
        <5>2. sheet.tabs[k] = Read(tab, from, to)
          BY <1>1, <1>3, <2>7, <2>11, <3>1, <3>2, <5>1 DEF TabsAreRead
        <5> QED BY <1>2, <2>5, <2>7, <5>1, <5>2
      <4> QED BY <4>1, <4>2
    <3>4. Read(tab, from, to)' = Read(tab, from, to)
      BY <2>9
    <3>5. tab = OwnTabs'[k] /\ from = sheet'.from /\ to = sheet'.to
      BY <2>7, <2>9, <3>1, <3>2
    <3> QED BY <3>3, <3>4, <3>5
  <2>12. TabsAreRead'
    BY <2>2, <2>9, <2>10, <2>11 DEF TabsAreRead
  <2> QED BY <1>1, <1>3, <2>7, <2>8, <2>12 DEF IInv, OneInFront
<1> QED BY <1>4, <1>5

\* Every step keeps the invariant.
LEMMA StepInv == IInv /\ [Next]_vars => IInv'
<1> SUFFICES ASSUME IInv, [Next]_vars PROVE IInv'
  OBVIOUS
<1>1. CASE UNCHANGED vars
  <2>1. UNCHANGED <<day, user, product, sales, purchases, expenses, form, sheet>>
    BY <1>1 DEF vars
  <2>2. OwnTabs' = OwnTabs /\ \A tab, from, to : Read(tab, from, to)' = Read(tab, from, to)
    BY <2>1, ReadKept
  <2>3. TypeOK' /\ SalesAddUp' /\ PurchasesBalance' /\ OneInFront'
    BY <2>1 DEF IInv, TypeOK, SalesAddUp, PurchasesBalance, OneInFront
  <2>4. TabsAreRead'
    BY <2>1, <2>2 DEF IInv, TabsAreRead
  <2> QED BY <2>3, <2>4 DEF IInv
<1>2. ASSUME NEW items \in Baskets, NEW discount \in Discounts, NEW method \in Methods,
             Sell(items, discount, method)
      PROVE  IInv'
  BY <1>2, SellKeeps
<1>3. ASSUME NEW i \in DOMAIN sales, CancelSale(i) PROVE IInv'
  BY <1>3, CancelSaleKeeps
<1>4. CASE Pull
  BY <1>4, PullKeeps
<1>5. ASSUME NEW paid \in 0 .. MaxPaid, CompletePurchase(paid) PROVE IInv'
  BY <1>5, CompletePurchaseKeeps
<1>6. CASE \/ \E amount \in Amounts, d \in Days : RecordExpense(amount, d)
           \/ \E amount \in Amounts, i \in DOMAIN expenses : EditExpense(i, amount)
           \/ \E p \in Products, cost \in Costs : EditCost(p, cost)
           \/ NextDay \/ \E u \in Users : SignIn(u)
           \/ OpenPurchase \/ \E from, to \in Days : OpenReports(from, to)
  BY <1>6, IdleKeeps
<1>7. CASE \/ Reject
           \/ \E line \in [product: Products, quantity: 1 .. MaxPieces, cost: Costs] : AddLine(line)
  BY <1>7, FormKeeps
<1>8. CASE ReadTab \/ CloseReports
  BY <1>8, PageKeeps
<1> QED BY <1>1, <1>2, <1>3, <1>4, <1>5, <1>6, <1>7, <1>8 DEF Next

\* The invariant holds in every state.
THEOREM BooksInvariant == Spec => []IInv
<1>1. Init => IInv
  BY InitInv
<1>2. IInv /\ [Next]_vars => IInv'
  BY StepInv
<1> QED BY <1>1, <1>2, PTL DEF Spec

\* Every table holds rows of its kind, a sale without money has no payment, and
\* a purchase is never paid beyond what it cost.
THEOREM BooksTypeCorrect == Spec => []TypeOK
<1>1. IInv => TypeOK
  BY DEF IInv
<1> QED BY <1>1, BooksInvariant, PTL

\* The queries of the reports tell one story of the books.
THEOREM ReportsAreOneStory == Spec => []ReportsAgree
<1>1. IInv => ReportsAgree
  BY InvariantReportsAgree
<1> QED BY <1>1, BooksInvariant, PTL

\* The tabs of one reading of the Reports page, and of My Sales, agree.
THEOREM SheetIsConsistent == Spec => []SheetAgrees
<1>1. IInv => SheetAgrees
  BY InvariantSheetAgrees
<1> QED BY <1>1, BooksInvariant, PTL

-------------------------------------------------------------------------------
\* Closed days

\* The figures of a day, from its documents alone: s and e are the sales and
\* the expenses of that day.
FiguresOf(s, e) ==
    LET rows == {i \in DOMAIN s : s[i].status # "CANCELLED"}
        paid(m) == {i \in DOMAIN s : /\ "payment" \in s[i].rows
                                     /\ s[i].status # "CANCELLED" /\ s[i].method = m}
        total == Total([i \in rows |-> s[i].total])
        cogs == Total([i \in rows |-> SaleCost(s[i])])
        spent == Total([i \in DOMAIN e |-> e[i].amount])
    IN  [total_sales |-> total, cogs |-> cogs, gross_profit |-> total - cogs,
         total_expenses |-> spent, net_profit |-> total - cogs - spent,
         transaction_count |-> Cardinality(rows),
         pos_total |-> Total([i \in paid("POS") |-> s[i].total]),
         transfer_total |-> Total([i \in paid("TRANSFER") |-> s[i].total])]

\* The dashboard shows nothing but those.
LEMMA DashboardIsOfDocuments ==
    ASSUME TypeOK, NEW d \in Days
    PROVE  DashboardSummary(d) = FiguresOf(Of(d, sales), Of(d, expenses))
<1>1. PICK s : s = Of(d, sales)
  OBVIOUS
<1>2. PICK e : e = Of(d, expenses)
  OBVIOUS
<1>3. \A i \in Int : i \in d .. d <=> i = d
  BY BooksAssumption DEF Days
<1>4. \A i \in DOMAIN sales : sales[i].day \in d .. d <=> sales[i].day = d
  <2>1. \A i \in DOMAIN sales : sales[i].day \in Int
    BY SaleFields, BooksAssumption DEF Days
  <2> QED BY <1>3, <2>1
<1>5. \A i \in DOMAIN expenses : expenses[i].day \in d .. d <=> expenses[i].day = d
  <2>1. \A i \in DOMAIN expenses : expenses[i] \in Expense
    BY DEF TypeOK
  <2>2. \A i \in DOMAIN expenses : expenses[i].day \in Int
    BY <2>1, BooksAssumption DEF Expense, Days
  <2> QED BY <1>3, <2>2
<1>6. /\ DOMAIN s = {i \in DOMAIN sales : sales[i].day = d}
      /\ \A i \in DOMAIN s : s[i] = sales[i]
      /\ DOMAIN e = {i \in DOMAIN expenses : expenses[i].day = d}
      /\ \A i \in DOMAIN e : e[i] = expenses[i]
  BY <1>1, <1>2 DEF Of
<1>7. PICK R : R = {i \in DOMAIN s : s[i].status # "CANCELLED"}
  OBVIOUS
<1>8. Counted(d, d) = R
  BY <1>4, <1>6, <1>7 DEF Counted
<1>9. /\ [i \in R |-> sales[i].total] = [i \in R |-> s[i].total]
      /\ [i \in R |-> SaleCost(sales[i])] = [i \in R |-> SaleCost(s[i])]
  <2>1. \A i \in R : sales[i] = s[i]
    BY <1>6, <1>7
  <2> QED BY <2>1
<1>10. /\ ProfitReport(d, d).total_sales = Total([i \in R |-> s[i].total])
       /\ ProfitReport(d, d).cogs = Total([i \in R |-> SaleCost(s[i])])
       /\ Cardinality(Counted(d, d)) = Cardinality(R)
  <2>1. ProfitReport(d, d).total_sales = Total([i \in Counted(d, d) |-> sales[i].total])
    BY DEF ProfitReport
  <2>2. ProfitReport(d, d).cogs = Total([i \in Counted(d, d) |-> SaleCost(sales[i])])
    BY SalesAreProfits
  <2> QED BY <1>8, <1>9, <2>1, <2>2
<1>11. ExpensesOf(d, d) = Total([i \in DOMAIN e |-> e[i].amount])
  <2>1. {i \in DOMAIN expenses : expenses[i].day \in d .. d} = DOMAIN e
    BY <1>5, <1>6
  <2>2. [i \in DOMAIN e |-> expenses[i].amount] = [i \in DOMAIN e |-> e[i].amount]
    BY <1>6
  <2> QED BY <2>1, <2>2 DEF ExpensesOf
<1>12. ASSUME NEW m
       PROVE  PaidBy(m, d, d, None)
                = Total([i \in {i \in DOMAIN s : /\ "payment" \in s[i].rows
                                                 /\ s[i].status # "CANCELLED"
                                                 /\ s[i].method = m} |-> s[i].total])
  <2>1. PICK P : P = {i \in DOMAIN s : /\ "payment" \in s[i].rows
                                       /\ s[i].status # "CANCELLED" /\ s[i].method = m}
    OBVIOUS
  <2>2. P = {i \in Payments(d, d, None) : sales[i].method = m}
    BY <1>4, <1>6, <2>1 DEF Payments, Own
  <2>3. [i \in P |-> sales[i].total] = [i \in P |-> s[i].total]
    BY <1>6, <2>1
  <2> QED BY <2>1, <2>2, <2>3 DEF PaidBy
<1>13. /\ ProfitReport(d, d).gross_profit = ProfitReport(d, d).total_sales - ProfitReport(d, d).cogs
       /\ ProfitReport(d, d).total_expenses = ExpensesOf(d, d)
       /\ ProfitReport(d, d).net_profit
            = ProfitReport(d, d).total_sales - ProfitReport(d, d).cogs - ExpensesOf(d, d)
  BY DEF ProfitReport
<1> QED BY <1>1, <1>2, <1>7, <1>10, <1>11, <1>12, <1>13 DEF DashboardSummary, FiguresOf

\* A day's figures change only with that day's sales and expenses.
THEOREM ClosedDaysStay == Spec => ClosedDaysAreKept
<1> DEFINE Kept == \A d \in Days : DocumentsOf(d)' = DocumentsOf(d) =>
                                     DashboardSummary(d)' = DashboardSummary(d)
<1> DEFINE Shown == \A d \in Days : DashboardSummary(d) = FiguresOf(Of(d, sales), Of(d, expenses))
<1>0. TypeOK => Shown
  BY DashboardIsOfDocuments
<1>a. TypeOK' => Shown'
  <2> HIDE DEF Shown
  <2> QED BY <1>0, PTL
<1>1. ASSUME TypeOK, TypeOK' PROVE Kept
  <2>1. ASSUME NEW d \in Days, DocumentsOf(d)' = DocumentsOf(d)
        PROVE  DashboardSummary(d)' = DashboardSummary(d)
    <3>1. Of(d, sales)' = Of(d, sales) /\ Of(d, expenses)' = Of(d, expenses)
      BY <2>1 DEF DocumentsOf
    <3>2. DashboardSummary(d) = FiguresOf(Of(d, sales), Of(d, expenses))
      BY <1>0, <1>1
    <3>3. DashboardSummary(d)' = FiguresOf(Of(d, sales), Of(d, expenses))'
      BY <1>a, <1>1
    <3>4. FiguresOf(Of(d, sales), Of(d, expenses))' = FiguresOf(Of(d, sales), Of(d, expenses))
      BY <3>1
    <3> QED BY <3>2, <3>3, <3>4
  <2> QED BY <2>1
<1>2. IInv => TypeOK
  BY DEF IInv
<1>3. TypeOK /\ TypeOK' => [Kept]_vars
  BY <1>1
<1> QED BY <1>2, <1>3, BooksInvariant, PTL DEF ClosedDaysAreKept

===============================================================================
