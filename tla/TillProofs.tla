------------------------------- MODULE TillProofs -------------------------------
(***************************************************************************)
(* Proofs about the screens that sell: what is shown, booked, printed and  *)
(* taken back.                                                             *)
(***************************************************************************)
EXTENDS TillProperties, SequenceTheorems, WellFoundedInduction, TLAPS

BooksTypes ==
    /\ sales \in Seq(Sale)
    /\ exchanges \in Seq(Exchange)
    /\ carts \in Nat
    /\ popup \in Popups
    /\ printer \in [state: PrinterStates, there: BOOLEAN]
    /\ paper \in [sale: Nat, whole: BOOLEAN, status: {"COMPLETED", "CANCELLED"}]

ShopTypes ==
    /\ role \in {"ADMIN", "CASHIER"}
    /\ shop \in [Products -> Product]
    /\ events \in 0 .. MaxEvents

CartTypes(lines) ==
    /\ lines \in Seq(Line)
    /\ \A i \in 1 .. Len(lines) : lines[i].quantity > 0
    /\ \A i, j \in 1 .. Len(lines) : lines[i].product = lines[j].product => i = j

ScreenTypes ==
    /\ CartTypes(cart)
    /\ \A p \in DOMAIN found : p \in Products /\ found[p] \in Product
    /\ customer \in Customers \cup {None}
    /\ discount \in Discounts \cup {0}

\* What the form offers is of a receipt that is there; who confirms has chosen.
FormKnows ==
    /\ form \in [sale: Nat \cup {None}, returned: Products \cup {None}, out: Nat,
                  issued: Products \cup {None}, price: Nat, in: Nat]
    /\ form.sale # None => form.sale \in 1 .. Len(sales) /\ form.returned \in Products
    /\ popup.kind \in {"confirm", "override"} => form.sale # None /\ form.issued # None

ExchangesKnow == \A i \in 1 .. Len(exchanges) : exchanges[i].sale \in 1 .. Len(sales)

PopupKnows == popup.kind = "complete" => popup.sale \in 1 .. Len(sales)

\* A cart that is sold and still there is in the dialog, or was printed again.
CartsKnow ==
    \A i \in 1 .. Len(sales) :
        /\ sales[i].cart <= carts
        /\ sales[i].cart = carts =>
              sales[i].again \/ (popup.kind = "complete" /\ popup.sale = i)

PaperKnows ==
    paper.status = "CANCELLED" => paper.sale \in 1 .. Len(sales) /\ sales[paper.sale].again

BooksKnow ==
    /\ BooksTypes /\ ExchangesKnow /\ PopupKnows /\ CartsKnow /\ PaperKnows
    /\ OneSalePerCart /\ NoFalseClaim /\ ReturnedWithinSold /\ BookedAsConfirmed

TInv == ShopTypes /\ ScreenTypes /\ BooksKnow /\ FormKnows

-------------------------------------------------------------------------------
\* Steps through numbers

\* A nonempty set of naturals has a least element.
LEMMA MinExists ==
    ASSUME NEW S \in SUBSET Nat, S # {}
    PROVE  Min(S) \in S /\ \A y \in S : Min(S) <= y
<1> DEFINE Less == OpToRel(<, Nat)
<1>1. Less = {ss \in Nat \X Nat : ss[1] < ss[2]}
  BY DEF OpToRel
<1>2. IsWellFoundedOn(Less, Nat)
  BY NatLessThanWellFounded
<1> HIDE DEF Less
<1>3. \E x \in S : \A y \in S : ~ (<<y, x>> \in Less)
  BY <1>2, WFMin
<1>4. \A x, y \in Nat : y < x => <<y, x>> \in Less
  BY <1>1
<1>5. \A x, y \in S : <<y, x>> \notin Less => x <= y
  BY <1>4
<1>6. \E x \in S : \A y \in S : x <= y
  BY <1>3, <1>5
<1> QED BY <1>6 DEF Min

\* What the assumption says of prices and of quantities in stock.
LEMMA ShopNumbers == \A x \in Product : x.price \in Nat /\ x.quantity \in Nat /\ x.quantity \in Int
<1> SUFFICES ASSUME NEW x \in Product PROVE x.price \in Nat /\ x.quantity \in Nat /\ x.quantity \in Int
  OBVIOUS
<1>1. x.price \in Prices /\ x.quantity \in 0 .. MaxStock
  BY DEF Product, Quantities
<1>2. Prices \subseteq Nat
  BY TillAssumption
<1>3. MaxStock \in Nat
  BY TillAssumption
<1>4. \A n \in 0 .. MaxStock : n \in Nat /\ n \in Int
  BY <1>3
<1> QED BY <1>1, <1>2, <1>4

\* What holds of 0 and with every number of the next one, holds up to any number.
LEMMA AllNumbers ==
    ASSUME NEW n \in Nat, NEW S, 0 \in S, \A i \in 0 .. n : i < n /\ i \in S => i + 1 \in S
    PROVE  \A i \in 0 .. n : i \in S
<1> SUFFICES ASSUME NEW k \in 0 .. n, k \notin S PROVE FALSE
  OBVIOUS
<1> DEFINE T == {i \in 0 .. n : i \notin S}
<1>1. T \in SUBSET Nat /\ k \in T
  OBVIOUS
<1>2. Min(T) \in T /\ \A i \in T : Min(T) <= i
  <2> HIDE DEF T
  <2> QED BY <1>1, MinExists
<1>3. Min(T) \in 1 .. n /\ Min(T) - 1 \notin T
  BY <1>2
<1> QED BY <1>2, <1>3

\* f is what comes of n steps from start.
Steps(f, start, F, n) ==
    f = [i \in 0 .. n |-> IF i = 0 THEN start ELSE F[<<f[i - 1], i>>]]

\* From any start steps can be taken one after the other.
LEMMA Iteration ==
    ASSUME NEW n \in Nat, NEW X, NEW start \in X, NEW F \in [X \X (1 .. n) -> X]
    PROVE  \E f \in [0 .. n -> X] : Steps(f, start, F, n)
<1> DEFINE Upto(f, k) == f[0] = start /\ \A i \in 1 .. k : f[i] = F[<<f[i - 1], i>>]
           S == {k \in 0 .. n : \E f \in [0 .. k -> X] : Upto(f, k)}
<1>1. 0 \in S
  <2> DEFINE f == [i \in 0 .. 0 |-> start]
  <2>1. f \in [0 .. 0 -> X] /\ f[0] = start
    OBVIOUS
  <2>2. Upto(f, 0)
    BY <2>1
  <2> HIDE DEF f, Upto
  <2> QED BY <2>1, <2>2
<1>2. ASSUME NEW k \in 0 .. n, k < n, k \in S PROVE k + 1 \in S
  <2>1. PICK f \in [0 .. k -> X] : f[0] = start /\ \A i \in 1 .. k : f[i] = F[<<f[i - 1], i>>]
    BY <1>2
  <2> DEFINE g == [i \in 0 .. k + 1 |-> IF i <= k THEN f[i] ELSE F[<<f[k], k + 1>>]]
  <2>2. F[<<f[k], k + 1>>] \in X
    BY <1>2
  <2>3. g \in [0 .. k + 1 -> X] /\ g[0] = start
    BY <1>2, <2>1, <2>2
  <2>4. g[k + 1] = F[<<f[k], k + 1>>] /\ \A i \in 0 .. k : g[i] = f[i]
    BY <1>2
  <2> HIDE DEF g
  <2>5. ASSUME NEW i \in 1 .. k + 1 PROVE g[i] = F[<<g[i - 1], i>>]
    <3>1. CASE i <= k
      BY <2>1, <2>4, <3>1
    <3>2. CASE i = k + 1
      <4>1. g[i - 1] = f[k]
        BY <1>2, <2>4, <3>2
      <4> QED BY <2>4, <3>2, <4>1
    <3> QED BY <3>1, <3>2
  <2>6. k + 1 \in 0 .. n
    BY <1>2
  <2> QED BY <2>3, <2>5, <2>6
<1>3. n \in S
  <2> HIDE DEF S
  <2> QED BY <1>1, <1>2, AllNumbers
<1>4. PICK f \in [0 .. n -> X] : f[0] = start /\ \A i \in 1 .. n : f[i] = F[<<f[i - 1], i>>]
  BY <1>3
<1>5. f = [i \in 0 .. n |-> IF i = 0 THEN start ELSE F[<<f[i - 1], i>>]]
  BY <1>4
<1> QED BY <1>5 DEF Steps

\* A sum adds one number after the other.
LEMMA SumEquation ==
    ASSUME NEW n \in Nat, NEW f, \A i \in 1 .. n : f[i] \in Int
    PROVE  \E g \in [0 .. n -> Int] :
              g[0] = 0 /\ (\A i \in 1 .. n : g[i] = g[i - 1] + f[i]) /\ SumTo(f, n) = g[n]
<1> DEFINE G(g) == [i \in 0 .. n |-> IF i = 0 THEN 0 ELSE g[i - 1] + f[i]]
           F == [p \in Int \X (1 .. n) |-> p[1] + f[p[2]]]
<1>1. 0 \in Int /\ F \in [Int \X (1 .. n) -> Int] /\ \A x \in Int, i \in 1 .. n : F[<<x, i>>] = x + f[i]
  OBVIOUS
<1> HIDE DEF F
<1>2. PICK h \in [0 .. n -> Int] : Steps(h, 0, F, n)
  BY <1>1, Iteration
<1>3. h = G(h)
  <2>1. h = [i \in 0 .. n |-> IF i = 0 THEN 0 ELSE F[<<h[i - 1], i>>]]
    BY <1>2 DEF Steps
  <2>2. ASSUME NEW i \in 1 .. n PROVE F[<<h[i - 1], i>>] = h[i - 1] + f[i]
    <3>1. i - 1 \in 0 .. n
      OBVIOUS
    <3>2. h[i - 1] \in Int
      BY <1>2, <3>1
    <3> QED BY <1>1, <3>2
  <2>3. \A i \in 0 .. n : i # 0 => i \in 1 .. n
    OBVIOUS
  <2> QED BY <2>1, <2>2, <2>3
<1>4. SumTo(f, n) = (CHOOSE g : g = G(g))[n]
  BY DEF SumTo
<1> HIDE DEF G
<1>5. PICK g : g = (CHOOSE x : x = G(x)) /\ g = G(g)
  BY <1>3
<1>6. g[0] = 0 /\ \A i \in 1 .. n : g[i] = g[i - 1] + f[i]
  <2>1. g = [i \in 0 .. n |-> IF i = 0 THEN 0 ELSE g[i - 1] + f[i]]
    BY <1>5 DEF G
  <2> QED BY <2>1
<1>7. \A i \in 0 .. n : g[i] = h[i]
  <2> DEFINE S == {i \in 0 .. n : g[i] = h[i]}
  <2>1. h[0] = 0 /\ \A i \in 1 .. n : h[i] = h[i - 1] + f[i]
    BY <1>3 DEF G
  <2>2. 0 \in S
    BY <1>6, <2>1
  <2>3. ASSUME NEW i \in 0 .. n, i < n, i \in S PROVE i + 1 \in S
    <3>1. i + 1 \in 1 .. n /\ (i + 1) - 1 = i /\ i + 1 \in 0 .. n
      BY <2>3
    <3> QED BY <1>6, <2>1, <2>3, <3>1
  <2> HIDE DEF S
  <2>4. \A i \in 0 .. n : i \in S
    BY <2>2, <2>3, AllNumbers
  <2> QED BY <2>4 DEF S
<1>8. g \in [0 .. n -> Int]
  BY <1>5, <1>7 DEF G
<1>9. SumTo(f, n) = g[n]
  BY <1>4, <1>5
<1> QED BY <1>6, <1>8, <1>9

\* A sum of integers is one.
LEMMA SumType ==
    ASSUME NEW n \in Nat, NEW f, \A i \in 1 .. n : f[i] \in Int
    PROVE  SumTo(f, n) \in Int
  BY SumEquation

\* A sum is that of the numbers before the last one, and the last one.
LEMMA SumGrows ==
    ASSUME NEW n \in Nat, NEW f, NEW h, \A i \in 1 .. n : f[i] \in Int /\ h[i] = f[i],
           h[n + 1] \in Int
    PROVE  SumTo(h, n + 1) = SumTo(f, n) + h[n + 1]
<1>1. PICK g \in [0 .. n -> Int] :
        g[0] = 0 /\ (\A i \in 1 .. n : g[i] = g[i - 1] + f[i]) /\ SumTo(f, n) = g[n]
  BY SumEquation
<1>2. n + 1 \in Nat /\ \A i \in 1 .. n + 1 : h[i] \in Int
  OBVIOUS
<1>3. PICK k \in [0 .. n + 1 -> Int] :
        k[0] = 0 /\ (\A i \in 1 .. n + 1 : k[i] = k[i - 1] + h[i]) /\ SumTo(h, n + 1) = k[n + 1]
  BY <1>2, SumEquation
<1> DEFINE S == {i \in 0 .. n : g[i] = k[i]}
<1>4. 0 \in S
  BY <1>1, <1>3
<1>5. ASSUME NEW i \in 0 .. n, i < n, i \in S PROVE i + 1 \in S
  <2>1. i + 1 \in 1 .. n /\ (i + 1) - 1 = i /\ i + 1 \in 0 .. n /\ i + 1 \in 1 .. n + 1
    BY <1>5
  <2> QED BY <1>1, <1>3, <1>5, <2>1
<1> HIDE DEF S
<1>6. \A i \in 0 .. n : i \in S
  BY <1>4, <1>5, AllNumbers
<1>7. g[n] = k[n]
  BY <1>6 DEF S
<1>8. n + 1 \in 1 .. n + 1 /\ (n + 1) - 1 = n
  OBVIOUS
<1>9. k[n + 1] = k[n] + h[n + 1]
  BY <1>3, <1>8
<1> QED BY <1>1, <1>3, <1>7, <1>9

\* The same numbers have the same sum.
LEMMA SumSame ==
    ASSUME NEW n \in Nat, NEW f, NEW h, \A i \in 1 .. n : f[i] \in Int /\ h[i] = f[i]
    PROVE  SumTo(h, n) = SumTo(f, n)
<1>1. CASE n = 0
  <2>1. SumTo(f, 0) = 0 /\ SumTo(h, 0) = 0
    <3>1. \A x : (\A i \in 1 .. 0 : x[i] \in Int)
      OBVIOUS
    <3> QED BY <3>1, SumEquation
  <2> QED BY <1>1, <2>1
<1>2. CASE n # 0
  <2>1. PICK m \in Nat : n = m + 1
    BY <1>2
  <2>2. \A i \in 1 .. m : f[i] \in Int /\ h[i] = f[i]
    BY <2>1
  <2>3. f[m + 1] \in Int /\ h[m + 1] = f[m + 1]
    BY <2>1
  <2>4. SumTo(h, m + 1) = SumTo(f, m) + h[m + 1]
    BY <2>2, <2>3, SumGrows
  <2>5. SumTo(f, m + 1) = SumTo(f, m) + f[m + 1]
    BY <2>2, <2>3, SumGrows
  <2> QED BY <2>1, <2>3, <2>4, <2>5
<1> QED BY <1>1, <1>2

\* Nothing adds up to nothing.
LEMMA SumOfNone ==
    ASSUME NEW n \in Nat, NEW f, \A i \in 1 .. n : f[i] = 0
    PROVE  SumTo(f, n) = 0
<1>1. \A i \in 1 .. n : f[i] \in Int
  OBVIOUS
<1>2. PICK g \in [0 .. n -> Int] :
        g[0] = 0 /\ (\A i \in 1 .. n : g[i] = g[i - 1] + f[i]) /\ SumTo(f, n) = g[n]
  BY <1>1, SumEquation
<1> DEFINE S == {i \in 0 .. n : g[i] = 0}
<1>3. 0 \in S
  BY <1>2
<1>4. ASSUME NEW i \in 0 .. n, i < n, i \in S PROVE i + 1 \in S
  <2>1. i + 1 \in 1 .. n /\ (i + 1) - 1 = i /\ i + 1 \in 0 .. n
    BY <1>4
  <2> QED BY <1>2, <1>4, <2>1
<1> HIDE DEF S
<1>5. \A i \in 0 .. n : i \in S
  BY <1>3, <1>4, AllNumbers
<1> QED BY <1>2, <1>5 DEF S

\* What is kept of a cart is a cart without empty lines.
LEMMA KeptTypes ==
    ASSUME NEW lines \in Seq(Line),
           \A i, j \in 1 .. Len(lines) : lines[i].product = lines[j].product => i = j
    PROVE  CartTypes(Kept(lines))
<1> DEFINE n == Len(lines)
           X == Seq(Line)
           Next1(x, i) == IF lines[i].quantity > 0 THEN Append(x, lines[i]) ELSE x
           G(g) == [i \in 0 .. n |-> IF i = 0 THEN <<>> ELSE Next1(g[i - 1], i)]
           F == [p \in X \X (1 .. n) |-> Next1(p[1], p[2])]
<1>1. n \in Nat /\ <<>> \in X /\ \A i \in 1 .. n : lines[i] \in Line
  OBVIOUS
<1>2. \A x \in X, i \in 1 .. n : Next1(x, i) \in X
  BY <1>1
<1> HIDE DEF X, Next1
<1>3. F \in [X \X (1 .. n) -> X] /\ \A x \in X, i \in 1 .. n : F[<<x, i>>] = Next1(x, i)
  BY <1>2
<1> HIDE DEF F
<1>4. PICK f \in [0 .. n -> X] : Steps(f, <<>>, F, n)
  BY <1>1, <1>3, Iteration
<1>5. f = G(f)
  <2>1. f = [i \in 0 .. n |-> IF i = 0 THEN <<>> ELSE F[<<f[i - 1], i>>]]
    BY <1>4 DEF Steps
  <2>2. ASSUME NEW i \in 1 .. n PROVE F[<<f[i - 1], i>>] = Next1(f[i - 1], i)
    <3>1. i - 1 \in 0 .. n
      BY <1>1
    <3>2. f[i - 1] \in X
      BY <1>4, <3>1
    <3> QED BY <1>3, <3>2
  <2>3. \A i \in 0 .. n : i # 0 => i \in 1 .. n
    BY <1>1
  <2> QED BY <2>1, <2>2, <2>3
<1>6. Kept(lines) = (CHOOSE g : g = G(g))[n]
  BY DEF Kept, Next1
<1> HIDE DEF G
<1>7. PICK g : g = (CHOOSE x : x = G(x)) /\ g = G(g)
  BY <1>5
<1>8. g[0] = <<>> /\ \A i \in 1 .. n : g[i] = Next1(g[i - 1], i)
  <2>1. g = [i \in 0 .. n |-> IF i = 0 THEN <<>> ELSE Next1(g[i - 1], i)]
    BY <1>7 DEF G
  <2> HIDE DEF n
  <2>2. n \in Nat
    BY <1>1
  <2> QED BY <2>1, <2>2
<1> DEFINE From(x, k) == \A j \in 1 .. Len(x) : \E i \in 1 .. k : x[j].product = lines[i].product
           S == {k \in 0 .. n : CartTypes(g[k]) /\ From(g[k], k)}
<1>9. 0 \in S
  <2>1. <<>> \in Seq(Line) /\ Len(<<>>) = 0 /\ 1 .. 0 = {}
    OBVIOUS
  <2>2. CartTypes(<<>>)
    BY <2>1 DEF CartTypes
  <2>3. From(<<>>, 0)
    BY <2>1
  <2> HIDE DEF From
  <2> QED BY <1>1, <1>8, <2>2, <2>3
<1>10. ASSUME NEW k \in 0 .. n, k < n, k \in S PROVE k + 1 \in S
  <2>1. k + 1 \in 1 .. n /\ (k + 1) - 1 = k /\ k + 1 \in 0 .. n
    BY <1>1, <1>10
  <2>2. PICK x \in Seq(Line) : x = g[k] /\ CartTypes(x) /\ From(x, k)
    BY <1>10 DEF CartTypes
  <2>3. PICK line \in Line : line = lines[k + 1]
    BY <1>1, <2>1
  <2>4. g[k + 1] = Next1(x, k + 1)
    BY <1>8, <2>1, <2>2
  <2>5. \A i \in 1 .. k : i \in 1 .. k + 1 /\ i \in 1 .. n /\ i # k + 1
    BY <1>1, <1>10
  <2>6. CASE ~ line.quantity > 0
    <3>1. g[k + 1] = x
      BY <2>3, <2>4, <2>6 DEF Next1
    <3>2. From(x, k + 1)
      BY <2>2, <2>5
    <3> QED BY <2>1, <2>2, <3>1, <3>2
  <2>7. CASE line.quantity > 0
    <3>1. PICK y : y = Append(x, line)
      OBVIOUS
    <3>2. g[k + 1] = y
      BY <2>3, <2>4, <2>7, <3>1 DEF Next1
    <3>3. /\ y \in Seq(Line) /\ Len(y) = Len(x) + 1 /\ Len(x) \in Nat
          /\ \A j \in 1 .. Len(x) : y[j] = x[j]
          /\ y[Len(x) + 1] = line
      BY <2>2, <3>1, AppendProperties
    <3>4. \A j \in 1 .. Len(y) : j \in 1 .. Len(x) \/ j = Len(x) + 1
      BY <3>3
    <3>5. \A j \in 1 .. Len(x) : y[j].product # line.product
      <4>1. k + 1 \in 1 .. Len(lines) /\ \A i \in 1 .. k : i \in 1 .. Len(lines) /\ i # k + 1
        BY <2>1, <2>5
      <4>2. \A i \in 1 .. k : lines[i].product # line.product
        BY <2>3, <4>1
      <4>3. ASSUME NEW j \in 1 .. Len(x) PROVE y[j].product # line.product
        <5>1. PICK i \in 1 .. k : x[j].product = lines[i].product
          BY <2>2
        <5> QED BY <3>3, <4>2, <5>1
      <4> QED BY <4>3
    <3>6. From(y, k + 1)
      <4>1. ASSUME NEW j \in 1 .. Len(x) PROVE \E i \in 1 .. k + 1 : y[j].product = lines[i].product
        <5>1. PICK i \in 1 .. k : x[j].product = lines[i].product
          BY <2>2
        <5> QED BY <2>5, <3>3, <5>1
      <4>2. y[Len(x) + 1].product = lines[k + 1].product /\ k + 1 \in 1 .. k + 1
        BY <2>1, <2>3, <3>3
      <4> QED BY <3>4, <4>1, <4>2
    <3>7. CartTypes(y)
      <4>1. \A j \in 1 .. Len(y) : y[j].quantity > 0
        BY <2>2, <2>7, <3>3, <3>4 DEF CartTypes
      <4>2. \A i, j \in 1 .. Len(y) : y[i].product = y[j].product => i = j
        <5>1. \A i, j \in 1 .. Len(x) : y[i].product = y[j].product => i = j
          BY <2>2, <3>3 DEF CartTypes
        <5>2. \A i \in 1 .. Len(x) : y[i].product # y[Len(x) + 1].product
          BY <3>3, <3>5
        <5> QED BY <3>4, <5>1, <5>2
      <4> QED BY <3>3, <4>1, <4>2 DEF CartTypes
    <3> QED BY <2>1, <3>2, <3>6, <3>7
  <2> QED BY <2>6, <2>7
<1> HIDE DEF S
<1>11. \A k \in 0 .. n : k \in S
  BY <1>1, <1>9, <1>10, AllNumbers
<1>12. CartTypes(g[n])
  BY <1>1, <1>11 DEF S
<1> QED BY <1>6, <1>7, <1>12

-------------------------------------------------------------------------------
\* What the screens leave alone

\* A dialog that opens is one of the dialogs.
LEMMA PopupFacts ==
    ASSUME NEW kind \in {"none", "insufficient", "complete", "exchange", "confirm", "override", "done"}
    PROVE  Say(kind) \in Popups /\ Say(kind).kind = kind /\ NoPopup \in Popups /\ NoPopup.kind = "none"
  BY DEF Say, NoPopup, Popups

\* The parts of the invariant say what the types are.
LEMMA TypesAreInv == ASSUME TInv PROVE TypeOK
<1>1. ShopTypes /\ ScreenTypes /\ BooksTypes /\ CartTypes(cart)
  BY DEF TInv, BooksKnow, ScreenTypes
<1>2. DOMAIN cart = 1 .. Len(cart)
  BY <1>1 DEF CartTypes
<1>3. /\ cart \in Seq(Line)
      /\ \A i \in DOMAIN cart : cart[i].quantity > 0
      /\ \A i, j \in DOMAIN cart : cart[i].product = cart[j].product => i = j
  BY <1>1, <1>2 DEF CartTypes
<1> QED BY <1>1, <1>3 DEF ShopTypes, ScreenTypes, BooksTypes, TypeOK

\* Nothing is booked or printed, and no dialog of a sale opened or closed.
Idles ==
    /\ sales' = sales /\ exchanges' = exchanges /\ carts' = carts
    /\ printer' = printer /\ paper' = paper
    /\ \/ popup' = popup
       \/ popup' \in Popups /\ popup.kind # "complete" /\ popup'.kind # "complete"

\* What is true of the books stays so.
LEMMA BooksStay ==
    ASSUME BooksKnow, Idles
    PROVE  BooksKnow'
<1>1. BooksTypes'
  BY DEF BooksKnow, BooksTypes, Idles
<1>2. ExchangesKnow' /\ PopupKnows' /\ CartsKnow' /\ PaperKnows'
  BY DEF BooksKnow, Idles, ExchangesKnow, PopupKnows, CartsKnow, PaperKnows
<1>3. OneSalePerCart' /\ NoFalseClaim' /\ ReturnedWithinSold' /\ BookedAsConfirmed'
  BY DEF BooksKnow, Idles, OneSalePerCart, NoFalseClaim, ReturnedWithinSold, ReturnedSoFar,
         BookedAsConfirmed
<1> QED BY <1>1, <1>2, <1>3 DEF BooksKnow

\* Receipts only become more.
LEMMA FormStays ==
    ASSUME BooksTypes, BooksTypes', FormKnows, form' = form, Len(sales) <= Len(sales'),
           popup'.kind \in {"confirm", "override"} => popup.kind \in {"confirm", "override"}
    PROVE  FormKnows'
<1>1. Len(sales) \in Nat /\ Len(sales') \in Nat
  BY DEF BooksTypes
<1> QED BY <1>1 DEF FormKnows

\* A product that got another price, quantity or state is one.
LEMMA ElsewhereStep ==
    ASSUME TInv, Elsewhere
    PROVE  TInv'
<1>1. ShopTypes /\ ScreenTypes /\ BooksKnow /\ FormKnows
  BY DEF TInv
<1>2. Idles /\ form' = form /\ role' = role /\ cart' = cart /\ found' = found
      /\ customer' = customer /\ discount' = discount
  BY DEF Elsewhere, books, screen, Idles
<1>3. events' \in 0 .. MaxEvents
  BY <1>1, TillAssumption DEF Elsewhere, Behind, ShopTypes
<1>4. shop' \in [Products -> Product]
  <2>1. PICK p \in Products :
          \/ \E price \in Prices \ {shop[p].price} : shop' = [shop EXCEPT ![p].price = price]
          \/ \E q \in {shop[p].quantity - 1, shop[p].quantity + 1} \cap Quantities :
                 shop' = [shop EXCEPT ![p].quantity = q]
          \/ shop' = [shop EXCEPT ![p].active = ~ @]
    BY DEF Elsewhere
  <2>2. PICK x \in Product : x = shop[p]
    BY <1>1 DEF ShopTypes
  <2>3. \E y \in Product : shop' = [shop EXCEPT ![p] = y]
    <3>1. CASE \E price \in Prices : shop' = [shop EXCEPT ![p].price = price]
      <4>1. PICK price \in Prices : shop' = [shop EXCEPT ![p].price = price]
        BY <3>1
      <4>2. [x EXCEPT !.price = price] \in Product
        BY DEF Product
      <4> QED BY <2>2, <4>1, <4>2
    <3>2. CASE \E q \in Quantities : shop' = [shop EXCEPT ![p].quantity = q]
      <4>1. PICK q \in Quantities : shop' = [shop EXCEPT ![p].quantity = q]
        BY <3>2
      <4>2. [x EXCEPT !.quantity = q] \in Product
        BY DEF Product
      <4> QED BY <2>2, <4>1, <4>2
    <3>3. CASE shop' = [shop EXCEPT ![p].active = ~ @]
      <4>1. PICK b \in BOOLEAN : b = (~ x.active)
        OBVIOUS
      <4>2. [x EXCEPT !.active = b] \in Product
        BY DEF Product
      <4>3. shop' = [shop EXCEPT ![p] = [x EXCEPT !.active = b]]
        BY <2>2, <3>3, <4>1
      <4> QED BY <4>2, <4>3
    <3> QED BY <2>1, <3>1, <3>2, <3>3
  <2> QED BY <1>1, <2>3 DEF ShopTypes
<1>5. ShopTypes'
  BY <1>1, <1>2, <1>3, <1>4 DEF ShopTypes
<1>6. ScreenTypes'
  BY <1>1, <1>2 DEF ScreenTypes, CartTypes
<1>7. BooksKnow'
  BY <1>1, <1>2, BooksStay
<1>8. FormKnows'
  BY <1>1, <1>2 DEF FormKnows, Elsewhere, books
<1> QED BY <1>5, <1>6, <1>7, <1>8 DEF TInv

\* What the screen does to the cart, its customer and the discount.
LEMMA ScreenStep ==
    ASSUME TInv, Idles, form' = form, role' = role, shop' = shop, events' = events, ScreenTypes',
           popup'.kind \in {"confirm", "override"} => popup.kind \in {"confirm", "override"}
    PROVE  TInv'
<1>1. ShopTypes'
  BY DEF TInv, ShopTypes
<1>2. BooksKnow'
  BY BooksStay DEF TInv
<1>3. FormKnows'
  <2>1. Len(sales) <= Len(sales')
    BY DEF TInv, BooksKnow, BooksTypes, Idles
  <2> QED BY <1>2, <2>1, FormStays DEF TInv, BooksKnow
<1> QED BY <1>1, <1>2, <1>3 DEF TInv

\* A cart with one more of a product is a cart.
LEMMA AddedTypes ==
    ASSUME CartTypes(cart), NEW p \in Products, NEW seen \in Product
    PROVE  CartTypes(Added(p, seen))
<1>1. PICK x \in Seq(Line) : x = cart /\ CartTypes(x)
  BY DEF CartTypes
<1>2. Len(x) \in Nat /\ DOMAIN x = 1 .. Len(x)
  BY <1>1
<1>3. CASE Of(p) = {}
  <2>1. PICK line : line = [product |-> p, price |-> seen.price, quantity |-> 1, max |-> seen.quantity]
    OBVIOUS
  <2>2. line \in Line /\ line.product = p /\ line.quantity = 1
    BY <2>1 DEF Line, Product
  <2>3. PICK y : y = Append(x, line)
    OBVIOUS
  <2>4. /\ y \in Seq(Line) /\ Len(y) = Len(x) + 1
        /\ \A j \in 1 .. Len(x) : y[j] = x[j]
        /\ y[Len(x) + 1] = line
    BY <1>1, <2>2, <2>3, AppendProperties
  <2>5. \A j \in 1 .. Len(y) : j \in 1 .. Len(x) \/ j = Len(x) + 1
    BY <1>2, <2>4
  <2>6. \A j \in 1 .. Len(x) : y[j].product # p
    BY <1>1, <1>2, <1>3, <2>4 DEF Of
  <2>7. \A j \in 1 .. Len(y) : y[j].quantity > 0
    BY <1>1, <2>2, <2>4, <2>5 DEF CartTypes
  <2>8. \A i, j \in 1 .. Len(y) : y[i].product = y[j].product => i = j
    BY <1>1, <2>2, <2>4, <2>5, <2>6 DEF CartTypes
  <2>9. Added(p, seen) = y
    BY <1>1, <1>3, <2>1, <2>3 DEF Added
  <2> QED BY <2>4, <2>7, <2>8, <2>9 DEF CartTypes
<1>4. CASE Of(p) # {}
  <2> DEFINE New(i) == IF i \in Of(p)
                       THEN [x[i] EXCEPT !.quantity = @ + 1,
                                         !.max = IF seen.quantity > @ THEN seen.quantity ELSE @]
                       ELSE x[i]
  <2>1. ASSUME NEW i \in 1 .. Len(x)
        PROVE  New(i) \in Line /\ New(i).product = x[i].product /\ New(i).quantity > 0
    <3>1. PICK line \in Line : line = x[i] /\ line.quantity > 0
      BY <1>1 DEF CartTypes
    <3>2. PICK max \in Quantities : max = (IF seen.quantity > line.max THEN seen.quantity ELSE line.max)
      BY DEF Line, Product
    <3>3. PICK n \in Nat : n = line.quantity + 1 /\ n > 0
      BY <3>1 DEF Line
    <3>4. [line EXCEPT !.quantity = n, !.max = max] \in Line
          /\ [line EXCEPT !.quantity = n, !.max = max].product = line.product
          /\ [line EXCEPT !.quantity = n, !.max = max].quantity = n
      BY DEF Line
    <3>5. CASE i \in Of(p)
      <4>1. New(i) = [line EXCEPT !.quantity = n, !.max = max]
        BY <3>1, <3>2, <3>3, <3>5
      <4> HIDE DEF New
      <4> QED BY <3>1, <3>3, <3>4, <4>1
    <3>6. CASE i \notin Of(p)
      <4>1. New(i) = line
        BY <3>1, <3>6
      <4> HIDE DEF New
      <4> QED BY <3>1, <4>1
    <3> HIDE DEF New
    <3> QED BY <3>5, <3>6
  <2> HIDE DEF New
  <2>2. PICK y : y = [i \in 1 .. Len(x) |-> New(i)]
    OBVIOUS
  <2>3. /\ y \in Seq(Line) /\ Len(y) = Len(x)
        /\ \A i \in 1 .. Len(x) : y[i] = New(i)
    BY <1>2, <2>1, <2>2
  <2>4. /\ \A j \in 1 .. Len(y) : y[j].quantity > 0
        /\ \A i, j \in 1 .. Len(y) : y[i].product = y[j].product => i = j
    BY <1>1, <2>1, <2>3 DEF CartTypes
  <2>5. Added(p, seen) = y
    BY <1>1, <1>2, <1>4, <2>2 DEF Added, New
  <2> QED BY <2>3, <2>4, <2>5 DEF CartTypes
<1> QED BY <1>3, <1>4

\* A product is scanned, or picked from what was found.
LEMMA AddStep ==
    ASSUME TInv, NEW p \in Products, Scan(p) \/ PickFound(p)
    PROVE  TInv'
<1>1. CartTypes(cart) /\ ShopTypes /\ ScreenTypes
  BY DEF TInv, ScreenTypes
<1>2. \E seen \in Product : AddProduct(p, seen)
  BY <1>1 DEF Scan, PickFound, ShopTypes, ScreenTypes
<1>3. CartTypes(cart')
  BY <1>1, <1>2, AddedTypes DEF AddProduct
<1>4. \A q \in DOMAIN found' : q \in Products /\ found'[q] \in Product
  <2>1. CASE Scan(p)
    BY <1>1, <2>1 DEF Scan, ScreenTypes
  <2>2. CASE PickFound(p)
    <3>1. DOMAIN found' = {}
      BY <2>2 DEF PickFound
    <3> QED BY <3>1
  <2> QED BY <2>1, <2>2
<1>5. /\ Idles /\ form' = form /\ role' = role /\ shop' = shop /\ events' = events /\ popup' = popup
      /\ customer' = customer /\ discount' = discount
  BY DEF Scan, PickFound, books, Idles
<1>6. ScreenTypes'
  <2>1. CartTypes(cart') = CartTypes(cart)'
    BY DEF CartTypes
  <2> QED BY <1>1, <1>3, <1>4, <1>5, <2>1 DEF ScreenTypes
<1> QED BY <1>5, <1>6, ScreenStep

\* The products that were found are.
LEMMA SearchStep == ASSUME TInv, Search PROVE TInv'
<1>1. /\ Idles /\ form' = form /\ role' = role /\ shop' = shop /\ events' = events /\ popup' = popup
      /\ customer' = customer /\ discount' = discount /\ cart' = cart
      /\ found' = [p \in {q \in Products : shop[q].active} |-> shop[p]]
  BY DEF Search, books, Idles
<1>2. ScreenTypes'
  BY <1>1 DEF TInv, ScreenTypes, ShopTypes, CartTypes
<1> QED BY <1>1, <1>2, ScreenStep

\* Another customer or discount is chosen.
LEMMA ChooseStep == ASSUME TInv, Choose PROVE TInv'
<1>1. /\ Idles /\ form' = form /\ role' = role /\ shop' = shop /\ events' = events /\ popup' = popup
      /\ cart' = cart /\ found' = found
      /\ customer' \in Customers \/ customer' = customer
      /\ discount' \in Discounts \cup {0} \/ discount' = discount
  BY DEF Choose, books, Idles
<1>2. ScreenTypes'
  BY <1>1 DEF TInv, ScreenTypes, CartTypes
<1> QED BY <1>1, <1>2, ScreenStep

\* The lesser and the greater of two numbers.
LEMMA OfTwo ==
    ASSUME NEW a \in Int, NEW b \in Int
    PROVE  /\ Min({a, b}) = IF a <= b THEN a ELSE b
           /\ Max({a, b}) = IF a >= b THEN a ELSE b
<1> DEFINE low == IF a <= b THEN a ELSE b
           high == IF a >= b THEN a ELSE b
<1>1. low \in {a, b} /\ \A y \in {a, b} : low <= y
  OBVIOUS
<1>2. high \in {a, b} /\ \A y \in {a, b} : high >= y
  OBVIOUS
<1>3. \A x \in {a, b} : (\A y \in {a, b} : x <= y) => x = low
  OBVIOUS
<1>4. \A x \in {a, b} : (\A y \in {a, b} : x >= y) => x = high
  OBVIOUS
<1> HIDE DEF low, high
<1>5. Min({a, b}) = low
  BY <1>1, <1>3 DEF Min
<1>6. Max({a, b}) = high
  BY <1>2, <1>4 DEF Max
<1> QED BY <1>5, <1>6 DEF low, high

\* A cart whose lines are of the same products and not empty is one.
LEMMA SameLines ==
    ASSUME CartTypes(cart), NEW y \in Seq(Line), Len(y) = Len(cart),
           \A i \in 1 .. Len(y) : y[i].product = cart[i].product /\ y[i].quantity > 0
    PROVE  CartTypes(y)
  BY DEF CartTypes

\* The stepper keeps a line between one and the stock.
LEMMA StepStep ==
    ASSUME TInv, NEW i \in DOMAIN cart, NEW delta \in {-1, 1}, Step(i, delta)
    PROVE  TInv'
<1>1. /\ Idles /\ form' = form /\ role' = role /\ shop' = shop /\ events' = events /\ popup' = popup
      /\ customer' = customer /\ discount' = discount /\ found' = found
  BY DEF Step, books, Idles
<1>2. CartTypes(cart) /\ ScreenTypes
  BY DEF TInv, ScreenTypes
<1>3. PICK x \in Seq(Line) : x = cart
  BY <1>2 DEF CartTypes
<1>4. PICK line \in Line : line = x[i] /\ line.max > 1
  BY <1>3 DEF Step
<1>5. line.quantity \in Nat /\ line.max \in Nat
  BY <1>4, TillAssumption DEF Line, Quantities
<1>6. PICK n \in Nat : n > 0 /\ n = Min({Max({line.quantity + delta, 1}), line.max})
  <2>1. PICK more \in Int : more = line.quantity + delta
    BY <1>5
  <2>2. PICK m \in Nat : m = Max({more, 1}) /\ m > 0
    <3>1. 1 \in Int
      OBVIOUS
    <3>2. Max({more, 1}) = IF more >= 1 THEN more ELSE 1
      BY <3>1, OfTwo
    <3> QED BY <3>2
  <2>3. Min({m, line.max}) = IF m <= line.max THEN m ELSE line.max
    <3>1. m \in Int /\ line.max \in Int
      BY <1>5
    <3> QED BY <3>1, OfTwo
  <2> QED BY <1>4, <1>5, <2>1, <2>2, <2>3
<1>7. PICK new \in Line : new = [line EXCEPT !.quantity = n]
  BY <1>4 DEF Line
<1>8. new.product = line.product /\ new.quantity = n
  BY <1>7 DEF Line
<1>9. PICK y : y = [x EXCEPT ![i] = new]
  OBVIOUS
<1>10. cart' = y
  BY <1>3, <1>4, <1>6, <1>7, <1>9 DEF Step
<1>11. y \in Seq(Line) /\ Len(y) = Len(x) /\ \A j \in 1 .. Len(x) : y[j] = IF j = i THEN new ELSE x[j]
  BY <1>3, <1>9
<1>12. CartTypes(y)
  <2>1. \A j \in 1 .. Len(x) : x[j].quantity > 0
    BY <1>2, <1>3 DEF CartTypes
  <2>2. \A j \in 1 .. Len(y) : y[j].product = cart[j].product /\ y[j].quantity > 0
    BY <1>3, <1>4, <1>6, <1>8, <1>11, <2>1
  <2>3. Len(y) = Len(cart)
    BY <1>3, <1>11
  <2> QED BY <1>2, <1>11, <2>2, <2>3, SameLines
<1>13. ScreenTypes'
  BY <1>1, <1>2, <1>10, <1>12 DEF ScreenTypes, CartTypes
<1> QED BY <1>1, <1>13, ScreenStep

\* A cart without one of its lines is one.
LEMMA RemoveStep ==
    ASSUME TInv, NEW i \in DOMAIN cart, RemoveRow(i)
    PROVE  TInv'
<1>1. /\ Idles /\ form' = form /\ role' = role /\ shop' = shop /\ events' = events /\ popup' = popup
      /\ customer' = customer /\ discount' = discount /\ found' = found
  BY DEF RemoveRow, books, Idles
<1>2. CartTypes(cart) /\ ScreenTypes
  BY DEF TInv, ScreenTypes
<1>3. PICK x \in Seq(Line) : x = cart
  BY <1>2 DEF CartTypes
<1>4. i \in 1 .. Len(x) /\ Len(x) \in Nat
  BY <1>3
<1>5. PICK h : h = SubSeq(x, 1, i - 1)
  OBVIOUS
<1>6. PICK t : t = SubSeq(x, i + 1, Len(x))
  OBVIOUS
<1>7. h \in Seq(Line) /\ Len(h) = i - 1 /\ \A j \in 1 .. i - 1 : h[j] = x[j]
  BY <1>3, <1>4, <1>5, SubSeqProperties
<1>8. t \in Seq(Line) /\ Len(t) = Len(x) - i /\ \A j \in 1 .. Len(x) - i : t[j] = x[i + j]
  BY <1>3, <1>4, <1>6, SubSeqProperties
<1>9. PICK y : y = h \o t
  OBVIOUS
<1>10. y \in Seq(Line) /\ Len(y) = Len(h) + Len(t)
       /\ \A j \in 1 .. Len(h) + Len(t) : y[j] = IF j <= Len(h) THEN h[j] ELSE t[j - Len(h)]
  BY <1>7, <1>8, <1>9, ConcatProperties
<1>11. cart' = y
  BY <1>3, <1>5, <1>6, <1>9 DEF RemoveRow, RemoveAt
<1>12. /\ Len(y) = Len(x) - 1
       /\ \A j \in 1 .. Len(x) - 1 : y[j] = IF j < i THEN x[j] ELSE x[j + 1]
  <2>1. Len(y) = Len(x) - 1
    BY <1>4, <1>7, <1>8, <1>10
  <2>2. ASSUME NEW j \in 1 .. Len(x) - 1 PROVE y[j] = IF j < i THEN x[j] ELSE x[j + 1]
    <3>1. CASE j < i
      BY <1>4, <1>7, <1>8, <1>10, <3>1
    <3>2. CASE ~ j < i
      <4>1. PICK k \in 1 .. Len(x) - i : k = j - (i - 1)
        <5>1. PICK n \in Nat, a \in Nat, b \in Nat :
                 n = Len(x) /\ a = i /\ b = j /\ a \in 1 .. n /\ b \in 1 .. n - 1
          BY <1>4
        <5>2. b - (a - 1) \in 1 .. n - a
          BY <3>2, <5>1
        <5> QED BY <5>1, <5>2
      <4>2. i + k = j + 1 /\ j \in 1 .. Len(h) + Len(t) /\ ~ j <= Len(h) /\ j - Len(h) = k
        BY <1>4, <1>7, <1>8, <3>2, <4>1
      <4>3. y[j] = t[k]
        BY <1>10, <4>2
      <4>4. t[k] = x[j + 1]
        BY <1>8, <4>1, <4>2
      <4> QED BY <3>2, <4>3, <4>4
    <3> QED BY <3>1, <3>2
  <2> QED BY <2>1, <2>2
<1>13. ASSUME NEW j \in 1 .. Len(y)
       PROVE  \E k \in 1 .. Len(x) : y[j] = x[k] /\ k = IF j < i THEN j ELSE j + 1
  BY <1>4, <1>12
<1>14. \A j \in 1 .. Len(y) : y[j].quantity > 0
  BY <1>2, <1>3, <1>13 DEF CartTypes
<1>15. ASSUME NEW a \in 1 .. Len(y), NEW b \in 1 .. Len(y), y[a].product = y[b].product PROVE a = b
  <2>1. PICK k \in 1 .. Len(x) : y[a] = x[k] /\ k = IF a < i THEN a ELSE a + 1
    BY <1>13
  <2>2. PICK l \in 1 .. Len(x) : y[b] = x[l] /\ l = IF b < i THEN b ELSE b + 1
    BY <1>13
  <2>3. k = l
    BY <1>2, <1>3, <1>15, <2>1, <2>2 DEF CartTypes
  <2> QED BY <1>4, <1>12, <2>1, <2>2, <2>3
<1>16. CartTypes(y)
  BY <1>10, <1>14, <1>15 DEF CartTypes
<1>17. ScreenTypes'
  BY <1>1, <1>2, <1>11, <1>16 DEF ScreenTypes, CartTypes
<1> QED BY <1>1, <1>17, ScreenStep

\* The dialog of the stock opens, or one is dismissed.
LEMMA DialogStep == ASSUME TInv, Insufficient \/ Dismiss PROVE TInv'
<1>1. /\ sales' = sales /\ exchanges' = exchanges /\ carts' = carts /\ printer' = printer /\ paper' = paper
      /\ form' = form /\ role' = role /\ shop' = shop /\ events' = events
      /\ cart' = cart /\ customer' = customer /\ discount' = discount /\ found' = found
  BY DEF Insufficient, Dismiss, books, screen
<1>2. popup.kind # "complete" /\ popup' \in {NoPopup, Say("insufficient")}
  BY PopupFacts DEF Insufficient, Dismiss, Free
<1>3. popup' \in Popups /\ popup'.kind \in {"none", "insufficient"}
  BY <1>2, PopupFacts
<1>4. Idles
  BY <1>1, <1>2, <1>3 DEF Idles
<1>5. ScreenTypes'
  BY <1>1 DEF TInv, ScreenTypes, CartTypes
<1> QED BY <1>1, <1>3, <1>4, <1>5, ScreenStep

\* The cart that is reduced to the stock is a cart.
LEMMA ReduceStep == ASSUME TInv, Reduce PROVE TInv'
<1>1. /\ sales' = sales /\ exchanges' = exchanges /\ carts' = carts /\ printer' = printer /\ paper' = paper
      /\ form' = form /\ role' = role /\ shop' = shop /\ events' = events
      /\ customer' = customer /\ discount' = discount /\ found' = found
  BY DEF Reduce, books
<1>2. popup.kind # "complete" /\ popup' = NoPopup /\ NoPopup \in Popups /\ NoPopup.kind = "none"
  BY PopupFacts DEF Reduce, Showing
<1>3. Idles
  BY <1>1, <1>2 DEF Idles
<1>4. CartTypes(cart) /\ ScreenTypes /\ ShopTypes
  BY DEF TInv, ScreenTypes
<1>5. PICK x \in Seq(Line) : x = cart
  BY <1>4 DEF CartTypes
<1>6. Len(x) \in Nat /\ DOMAIN x = 1 .. Len(x)
  BY <1>5
<1>7. ASSUME NEW i \in 1 .. Len(x) PROVE Clamped(x[i]) \in Line /\ Clamped(x[i]).product = x[i].product
  <2>1. PICK line \in Line : line = x[i]
    BY <1>5
  <2>2. PICK q \in Quantities : q = shop[line.product].quantity
    BY <1>4 DEF ShopTypes, Line, Product
  <2>3. line.quantity \in Nat /\ q \in Nat
    BY <2>1, TillAssumption DEF Line, Quantities
  <2>4. PICK n \in Nat : n = Min({line.quantity, q})
    BY <2>3, OfTwo
  <2>5. Clamped(line) = [line EXCEPT !.quantity = n, !.max = q]
    BY <2>2, <2>4 DEF Clamped
  <2>6. [line EXCEPT !.quantity = n, !.max = q] \in Line
        /\ [line EXCEPT !.quantity = n, !.max = q].product = line.product
    BY DEF Line
  <2> QED BY <2>1, <2>5, <2>6
<1>8. PICK y : y = [i \in 1 .. Len(x) |-> Clamped(x[i])]
  OBVIOUS
<1>9. y \in Seq(Line) /\ Len(y) = Len(x) /\ \A i \in 1 .. Len(x) : y[i].product = x[i].product
  BY <1>6, <1>7, <1>8
<1>10. CartTypes(Kept(y))
  <2>1. \A i, j \in 1 .. Len(y) : y[i].product = y[j].product => i = j
    BY <1>4, <1>5, <1>9 DEF CartTypes
  <2> QED BY <1>9, <2>1, KeptTypes
<1>11. cart' = Kept(y)
  BY <1>5, <1>6, <1>8 DEF Reduce
<1>12. CartTypes(cart')
  BY <1>10, <1>11
<1>13. ScreenTypes'
  <2>1. CartTypes(cart') = CartTypes(cart)'
    BY DEF CartTypes
  <2> QED BY <1>1, <1>4, <1>12, <2>1 DEF ScreenTypes
<1> QED BY <1>1, <1>2, <1>3, <1>13, ScreenStep

\* What the steps of the exchange form leave alone.
LEMMA FormStep ==
    ASSUME TInv, UNCHANGED <<role, shop, events, books, screen, printer, paper>>,
           popup.kind # "complete", popup' \in Popups, popup'.kind # "complete", FormKnows'
    PROVE  TInv'
<1>1. /\ sales' = sales /\ exchanges' = exchanges /\ carts' = carts /\ printer' = printer /\ paper' = paper
      /\ role' = role /\ shop' = shop /\ events' = events
      /\ cart' = cart /\ customer' = customer /\ discount' = discount /\ found' = found
  BY DEF books, screen
<1>2. Idles
  BY <1>1 DEF Idles
<1>3. BooksKnow'
  BY <1>2, BooksStay DEF TInv
<1>4. ScreenTypes' /\ ShopTypes'
  BY <1>1 DEF TInv, ScreenTypes, CartTypes, ShopTypes
<1> QED BY <1>3, <1>4 DEF TInv

\* The form is opened, closed, filled in and handed to the dialogs.
LEMMA FillStep ==
    ASSUME TInv,
           \/ OpenExchange \/ CloseExchange \/ AskConfirmation
           \/ \E s \in DOMAIN sales, p \in Products : FindSale(s, p)
           \/ \E p \in Products : ChooseReplacement(p)
    PROVE  TInv'
<1> DEFINE Forms == [sale: Nat \cup {None}, returned: Products \cup {None}, out: Nat,
                     issued: Products \cup {None}, price: Nat, in: Nat]
<1>0. form \in Forms /\ FormKnows /\ ShopTypes /\ sales \in Seq(Sale)
  BY DEF TInv, FormKnows, BooksKnow, BooksTypes
<1>1. NoForm \in Forms /\ NoForm.sale = None /\ NoForm.issued = None
  BY DEF NoForm
<1>2. CASE OpenExchange \/ CloseExchange
  <2>1. popup' \in {NoPopup, Say("exchange")} /\ popup.kind # "complete" /\ form' = NoForm
        /\ UNCHANGED <<role, shop, events, books, screen, printer, paper>>
    BY <1>2, PopupFacts DEF OpenExchange, CloseExchange, Free, Showing
  <2>2. popup' \in Popups /\ popup'.kind \in {"none", "exchange"}
    BY <2>1, PopupFacts
  <2>3. FormKnows'
    BY <1>1, <2>1, <2>2 DEF FormKnows
  <2> QED BY <2>1, <2>2, <2>3, FormStep
<1>3. CASE AskConfirmation
  <2>1. popup' = Say("confirm") /\ popup.kind # "complete" /\ form' = form /\ sales' = sales
        /\ form.sale # None /\ form.issued # None
        /\ UNCHANGED <<role, shop, events, books, screen, printer, paper>>
    BY <1>3 DEF AskConfirmation, Showing, books
  <2>2. popup' \in Popups /\ popup'.kind = "confirm"
    BY <2>1, PopupFacts
  <2>3. FormKnows'
    BY <1>0, <2>1, <2>2 DEF FormKnows
  <2> QED BY <2>1, <2>2, <2>3, FormStep
<1>4. ASSUME NEW s \in DOMAIN sales, NEW p \in Products, FindSale(s, p) PROVE TInv'
  <2>1. popup' = popup /\ popup.kind = "exchange" /\ sales' = sales
        /\ UNCHANGED <<role, shop, events, books, screen, printer, paper>>
    BY <1>4 DEF FindSale, Showing, books
  <2>2. s \in 1 .. Len(sales) /\ s \in Nat
    BY <1>0
  <2>3. sales[s].items[p] \in Nat
    <3>1. sales[s] \in Sale
      BY <1>0, <2>2
    <3> QED BY <3>1 DEF Sale
  <2>4. PICK n \in Nat : form' = [NoForm EXCEPT !.sale = s, !.returned = p, !.out = n]
    <3>1. \A n \in 1 .. sales[s].items[p] : n \in Nat
      BY <2>3
    <3> QED BY <1>4, <3>1 DEF FindSale
  <2>5. form' \in Forms /\ form'.sale = s /\ form'.returned = p
    BY <1>1, <2>2, <2>4 DEF NoForm
  <2>6. popup' \in Popups
    BY <2>1 DEF TInv, BooksKnow, BooksTypes
  <2>7. FormKnows'
    BY <2>1, <2>2, <2>5 DEF FormKnows
  <2> QED BY <2>1, <2>6, <2>7, FormStep
<1>5. ASSUME NEW p \in Products, ChooseReplacement(p) PROVE TInv'
  <2>1. popup' = popup /\ popup.kind = "exchange" /\ sales' = sales
        /\ UNCHANGED <<role, shop, events, books, screen, printer, paper>>
    BY <1>5 DEF ChooseReplacement, Showing, books
  <2>2. shop[p].price \in Nat /\ shop[p].quantity \in Int
    <3>1. shop[p] \in Product
      BY <1>0 DEF ShopTypes
    <3> QED BY <3>1, ShopNumbers
  <2>3. PICK n \in Nat : form' = [form EXCEPT !.issued = p, !.price = shop[p].price, !.in = n]
    <3>0. 1 \in Int
      OBVIOUS
    <3>1. Max({shop[p].quantity, 1}) \in Int
      BY <2>2, <3>0, OfTwo
    <3>2. \A n \in 1 .. Max({shop[p].quantity, 1}) : n \in Nat
      BY <3>1
    <3> QED BY <1>5, <3>2 DEF ChooseReplacement
  <2>4. form' \in Forms /\ form'.sale = form.sale /\ form'.returned = form.returned
    BY <1>0, <2>2, <2>3
  <2>5. popup' \in Popups
    BY <2>1 DEF TInv, BooksKnow, BooksTypes
  <2>6. FormKnows'
    BY <1>0, <2>1, <2>4 DEF FormKnows
  <2> QED BY <2>1, <2>5, <2>6, FormStep
<1> QED BY <1>2, <1>3, <1>4, <1>5

-------------------------------------------------------------------------------
\* Sales, print jobs and exchanges

\* What is there of a sale stays; what is new is of the cart.
Grows ==
    /\ sales' \in Seq(Sale) /\ Len(sales) <= Len(sales') /\ exchanges' = exchanges
    /\ \A i \in 1 .. Len(sales) :
         /\ sales'[i].cart = sales[i].cart /\ sales'[i].items = sales[i].items
         /\ sales[i].again => sales'[i].again
    /\ \A i \in 1 .. Len(sales') : i > Len(sales) => sales'[i].cart = carts

\* What an exchange takes back of a receipt.
Taken(e, s, p) == IF e.sale = s /\ e.returned = p THEN e.out ELSE 0

\* What is returned so far is a sum of what the exchanges took.
LEMMA TakenTypes ==
    ASSUME BooksTypes, NEW s, NEW p
    PROVE  LET f == [i \in DOMAIN exchanges |-> Taken(exchanges[i], s, p)]
           IN  /\ ReturnedSoFar(s, p) = SumTo(f, Len(exchanges))
               /\ \A i \in 1 .. Len(exchanges) : f[i] \in Int /\ f[i] = Taken(exchanges[i], s, p)
<1>1. exchanges \in Seq(Exchange) /\ DOMAIN exchanges = 1 .. Len(exchanges)
  BY DEF BooksTypes
<1>2. ASSUME NEW i \in 1 .. Len(exchanges) PROVE Taken(exchanges[i], s, p) \in Int
  <2>1. exchanges[i] \in Exchange
    BY <1>1
  <2>2. exchanges[i].out \in Nat
    BY <2>1 DEF Exchange
  <2> QED BY <2>2 DEF Taken
<1> QED BY <1>1, <1>2 DEF ReturnedSoFar, Taken

\* Nothing is taken back of a receipt that is new.
LEMMA BooksGrow ==
    ASSUME BooksKnow, Grows
    PROVE  ExchangesKnow' /\ ReturnedWithinSold' /\ BookedAsConfirmed'
<1>1. BooksTypes /\ ExchangesKnow /\ ReturnedWithinSold /\ BookedAsConfirmed
  BY DEF BooksKnow
<1>2. sales \in Seq(Sale) /\ sales' \in Seq(Sale) /\ Len(sales) \in Nat /\ Len(sales') \in Nat
      /\ Len(sales) <= Len(sales') /\ DOMAIN sales = 1 .. Len(sales)
      /\ DOMAIN sales' = 1 .. Len(sales') /\ exchanges' = exchanges /\ Len(exchanges) \in Nat
  BY <1>1 DEF BooksTypes, Grows
<1>3. ExchangesKnow'
  BY <1>1, <1>2 DEF ExchangesKnow
<1>4. BookedAsConfirmed'
  BY <1>1, <1>2 DEF BookedAsConfirmed
<1>5. ASSUME NEW s \in 1 .. Len(sales'), NEW p \in Products
      PROVE  ReturnedSoFar(s, p) <= sales'[s].items[p]
  <2>1. CASE s \in 1 .. Len(sales)
    BY <1>1, <1>2, <2>1 DEF Grows, ReturnedWithinSold
  <2>2. CASE s \notin 1 .. Len(sales)
    <3>1. PICK f : f = [i \in DOMAIN exchanges |-> Taken(exchanges[i], s, p)]
      OBVIOUS
    <3>2. ReturnedSoFar(s, p) = SumTo(f, Len(exchanges))
          /\ \A i \in 1 .. Len(exchanges) : f[i] = Taken(exchanges[i], s, p)
      BY <1>1, <3>1, TakenTypes
    <3>3. \A i \in 1 .. Len(exchanges) : f[i] = 0
      BY <1>1, <2>2, <3>2 DEF ExchangesKnow, Taken
    <3>4. SumTo(f, Len(exchanges)) = 0
      BY <1>2, <3>3, SumOfNone
    <3>5. sales'[s].items[p] \in Nat
      <4>1. sales'[s] \in Sale
        BY <1>2
      <4> QED BY <4>1 DEF Sale
    <3> QED BY <3>2, <3>4, <3>5
  <2> QED BY <2>1, <2>2
<1>6. ReturnedWithinSold'
  BY <1>2, <1>5 DEF ReturnedWithinSold, ReturnedSoFar
<1> QED BY <1>3, <1>4, <1>6

\* What a print job leaves: a whole receipt unless it failed, or the paper as it was.
LEMMA Prints ==
    ASSUME BooksTypes, sales' \in Seq(Sale), NEW s \in 1 .. Len(sales'),
           NEW trouble \in Troubles \cup {None}, PrintReceipt(s, trouble)
    PROVE  /\ printer' \in [state: PrinterStates, there: BOOLEAN]
           /\ paper' \in [sale: Nat, whole: BOOLEAN, status: {"COMPLETED", "CANCELLED"}]
           /\ paper' = paper \/ (paper'.sale = s /\ paper'.status = sales'[s].status)
           /\ printer.there /\ ~ Failed(trouble) => paper'.sale = s /\ paper'.whole
<1>1. s \in Nat
  OBVIOUS
<1>2. PICK state \in PrinterStates : state = StateAfter(trouble)
  BY DEF StateAfter, PrinterStates
<1>3. printer' \in [state: PrinterStates, there: BOOLEAN]
  <2>1. PICK x \in [state: PrinterStates, there: BOOLEAN] : x = printer
    BY DEF BooksTypes
  <2>2. printer' = [x EXCEPT !.state = state]
    BY <1>2, <2>1 DEF PrintReceipt
  <2> HIDE DEF PrinterStates
  <2>3. [x EXCEPT !.state = state] \in [state: PrinterStates, there: BOOLEAN]
    OBVIOUS
  <2> QED BY <2>2, <2>3
<1>4. PICK whole \in BOOLEAN : whole <=> trouble \in {None, "close"}
  <2>1. CASE trouble \in {None, "close"}
    BY <2>1
  <2>2. CASE trouble \notin {None, "close"}
    BY <2>2
  <2> QED BY <2>1, <2>2
<1>5. PICK status \in {"COMPLETED", "CANCELLED"} : status = sales'[s].status
  <2>1. sales'[s] \in Sale
    OBVIOUS
  <2> QED BY <2>1 DEF Sale
<1>6. PICK new : new = [sale |-> s, whole |-> whole, status |-> status]
  OBVIOUS
<1>7. /\ new \in [sale: Nat, whole: BOOLEAN, status: {"COMPLETED", "CANCELLED"}]
      /\ new.sale = s /\ new.whole = whole /\ new.status = status
  BY <1>1, <1>6
<1>8. paper' = IF printer.there /\ trouble \notin {"open", "start"} THEN new ELSE paper
  BY <1>4, <1>5, <1>6 DEF PrintReceipt
<1>9. paper \in [sale: Nat, whole: BOOLEAN, status: {"COMPLETED", "CANCELLED"}]
  BY DEF BooksTypes
<1>10. ASSUME printer.there, ~ Failed(trouble) PROVE paper' = new /\ whole
  <2>1. trouble = None /\ trouble \notin {"open", "start"}
    BY <1>10, TillAssumption DEF Failed
  <2> QED BY <1>4, <1>8, <1>10, <2>1
<1>11. paper' = new \/ paper' = paper
  BY <1>8
<1> QED BY <1>3, <1>5, <1>7, <1>9, <1>10, <1>11

\* What is sold of a product is there.
LEMMA SoldFacts ==
    ASSUME CartTypes(cart), ShopTypes, InStock(cart), NEW p \in Products
    PROVE  Sold(cart)[p] \in Nat /\ Sold(cart)[p] <= shop[p].quantity
<1> DEFINE of == {i \in DOMAIN cart : cart[i].product = p}
<1>1. cart \in Seq(Line) /\ DOMAIN cart = 1 .. Len(cart)
  BY DEF CartTypes
<1>2. Sold(cart)[p] = IF of = {} THEN 0 ELSE cart[Min(of)].quantity
  BY DEF Sold
<1>3. shop[p].quantity \in Nat
  BY ShopNumbers DEF ShopTypes
<1>4. of \in SUBSET Nat
  BY <1>1
<1>5. CASE of = {}
  BY <1>2, <1>3, <1>5
<1>6. CASE of # {}
  <2>1. PICK i : i = Min(of)
    OBVIOUS
  <2>2. i \in of
    <3> HIDE DEF of
    <3> QED BY <1>4, <1>6, <2>1, MinExists
  <2>3. i \in 1 .. Len(cart) /\ cart[i].product = p
    BY <1>1, <2>2
  <2>4. cart[i].quantity \in Nat
    <3>1. cart[i] \in Line
      BY <1>1, <2>3
    <3> QED BY <3>1 DEF Line
  <2>5. cart[i].quantity <= shop[p].quantity
    BY <1>1, <2>3 DEF InStock
  <2> QED BY <1>2, <1>6, <2>1, <2>4, <2>5
<1> QED BY <1>5, <1>6

\* What is due is a number.
LEMMA DueType ==
    ASSUME ShopTypes, ScreenTypes
    PROVE  Due \in Int
<1>1. cart \in Seq(Line) /\ DOMAIN cart = 1 .. Len(cart) /\ Len(cart) \in Nat
  BY DEF ScreenTypes, CartTypes
<1>2. PICK price : price = [i \in DOMAIN cart |-> shop[cart[i].product].price]
  OBVIOUS
<1>3. PICK f : f = [i \in DOMAIN cart |-> price[i] * cart[i].quantity]
  OBVIOUS
<1>4. ASSUME NEW i \in 1 .. Len(cart) PROVE f[i] \in Int
  <2>1. cart[i] \in Line
    BY <1>1
  <2>2. cart[i].product \in Products /\ cart[i].quantity \in Nat
    BY <2>1 DEF Line
  <2>3. shop[cart[i].product].price \in Nat
    BY <2>2, TillAssumption DEF ShopTypes, Product
  <2> QED BY <1>1, <1>2, <1>3, <2>2, <2>3
<1>5. SumTo(f, Len(cart)) \in Int
  BY <1>1, <1>4, SumType
<1>6. Amount(cart, price) \in Int
  BY <1>3, <1>5 DEF Amount
<1>7. discount \in Int
  BY TillAssumption DEF ScreenTypes
<1> QED BY <1>2, <1>6, <1>7 DEF Due, Reduction

\* A sale is of the present cart, and the dialog shows it.
LEMMA SaleStep == ASSUME TInv, CompleteSale PROVE TInv'
<1>0. /\ ShopTypes /\ ScreenTypes /\ BooksKnow /\ FormKnows /\ BooksTypes /\ CartTypes(cart)
  BY DEF TInv, BooksKnow, ScreenTypes
<1>1. /\ role' = role /\ events' = events /\ exchanges' = exchanges /\ form' = form
      /\ cart' = cart /\ found' = found /\ customer' = customer /\ discount' = discount
      /\ carts' = carts /\ popup = NoPopup /\ InStock(cart) /\ Due >= 0
  BY DEF CompleteSale, screen, Free, Sellable
<1>2. PICK sold : sold = Sold(cart)
  OBVIOUS
<1>3. sold \in [Products -> Nat] /\ \A p \in Products : sold[p] <= shop[p].quantity
  <2>1. \A p \in Products : sold[p] \in Nat /\ sold[p] <= shop[p].quantity
    BY <1>0, <1>1, <1>2, SoldFacts
  <2>2. sold = [p \in Products |-> sold[p]]
    BY <1>2 DEF Sold
  <2> QED BY <2>1, <2>2
<1>4. shop' \in [Products -> Product]
  <2>1. shop' = [p \in Products |-> [shop[p] EXCEPT !.quantity = shop[p].quantity - sold[p]]]
    BY <1>2 DEF CompleteSale
  <2>2. ASSUME NEW p \in Products
        PROVE  [shop[p] EXCEPT !.quantity = shop[p].quantity - sold[p]] \in Product
    <3>1. PICK x \in Product : x = shop[p]
      BY <1>0 DEF ShopTypes
    <3>2. PICK n \in Quantities : n = x.quantity - sold[p]
      BY <1>3, <3>1, TillAssumption DEF Product, Quantities
    <3>3. [x EXCEPT !.quantity = n] \in Product
      BY DEF Product
    <3> QED BY <3>1, <3>2, <3>3
  <2> QED BY <2>1, <2>2
<1>5. PICK total \in Nat : total = Due
  BY <1>0, <1>1, DueType
<1>6. PICK prices \in [Products -> Prices] : prices = [p \in Products |-> shop[p].price]
  BY <1>0 DEF ShopTypes, Product
<1>7. PICK sale : sale = [items |-> sold, prices |-> prices, total |-> total, discount |-> discount,
                          cart |-> carts, again |-> FALSE, status |-> "COMPLETED"]
  OBVIOUS
<1>8. sale \in Sale /\ sale.cart = carts /\ sale.status = "COMPLETED"
  <2>1. discount \in Nat /\ carts \in Nat
    BY <1>0, TillAssumption DEF ScreenTypes, BooksTypes
  <2> QED BY <1>3, <1>7, <2>1 DEF Sale
<1>9. sales' = Append(sales, sale)
  BY <1>2, <1>5, <1>6, <1>7 DEF CompleteSale
<1>10. PICK n \in Nat : n = Len(sales)
  BY <1>0 DEF BooksTypes
<1>11. /\ sales \in Seq(Sale) /\ sales' \in Seq(Sale) /\ Len(sales') = n + 1
       /\ \A i \in 1 .. n : sales'[i] = sales[i]
       /\ sales'[n + 1] = sale
  BY <1>0, <1>8, <1>9, <1>10, AppendProperties DEF BooksTypes
<1>12. Grows
  <2>1. \A i \in 1 .. Len(sales') : i > Len(sales) => i = n + 1
    BY <1>10, <1>11
  <2> QED BY <1>1, <1>8, <1>10, <1>11, <2>1 DEF Grows
<1>13. ExchangesKnow' /\ ReturnedWithinSold' /\ BookedAsConfirmed'
  BY <1>0, <1>12, BooksGrow
<1>14. PICK s \in 1 .. Len(sales') : s = n + 1 /\ s \in Nat
  BY <1>11
<1>15. PICK trouble \in Troubles \cup {None} :
         /\ PrintReceipt(s, trouble)
         /\ popup' = [kind |-> "complete", sale |-> s,
                      printed |-> printer.there /\ ~ Failed(trouble), state |-> printer'.state]
  BY <1>11, <1>14 DEF CompleteSale
<1>16. /\ printer' \in [state: PrinterStates, there: BOOLEAN]
       /\ paper' \in [sale: Nat, whole: BOOLEAN, status: {"COMPLETED", "CANCELLED"}]
       /\ paper' = paper \/ (paper'.sale = s /\ paper'.status = sales'[s].status)
       /\ printer.there /\ ~ Failed(trouble) => paper'.sale = s /\ paper'.whole
  BY <1>0, <1>11, <1>15, Prints
<1>17. PICK printed \in BOOLEAN : printed = (printer.there /\ ~ Failed(trouble))
  OBVIOUS
<1>18. popup' \in Popups /\ popup'.kind = "complete" /\ popup'.sale = s /\ popup'.printed = printed
  <2>1. popup' = [kind |-> "complete", sale |-> s, printed |-> printed, state |-> printer'.state]
    BY <1>15, <1>17
  <2> QED BY <1>14, <1>16, <2>1 DEF Popups
<1>19. BooksTypes'
  BY <1>0, <1>1, <1>11, <1>16, <1>18 DEF BooksTypes
<1>20. PopupKnows'
  BY <1>14, <1>18 DEF PopupKnows
<1>21. NoFalseClaim'
  <2>1. printed => paper'.sale = s /\ paper'.whole
    BY <1>16, <1>17, Zenon
  <2> QED BY <1>18, <2>1 DEF NoFalseClaim
<1>22. popup.kind # "complete"
  BY <1>1, PopupFacts
<1>23. \A i \in 1 .. Len(sales') : i \in 1 .. n \/ i = n + 1
  BY <1>11
<1>24. CartsKnow'
  <2>1. \A i \in 1 .. n : sales[i].cart <= carts /\ (sales[i].cart = carts => sales[i].again)
    BY <1>0, <1>10, <1>22 DEF BooksKnow, CartsKnow
  <2>2. carts \in Nat
    BY <1>0 DEF BooksTypes
  <2>3. ASSUME NEW i \in 1 .. Len(sales')
        PROVE  /\ sales'[i].cart <= carts'
               /\ sales'[i].cart = carts' =>
                    sales'[i].again \/ (popup'.kind = "complete" /\ popup'.sale = i)
    <3>1. CASE i \in 1 .. n
      BY <1>1, <1>11, <2>1, <3>1
    <3>2. CASE i = n + 1
      BY <1>1, <1>8, <1>11, <1>14, <1>18, <2>2, <3>2
    <3> QED BY <1>23, <3>1, <3>2
  <2> QED BY <2>3 DEF CartsKnow
<1>25. OneSalePerCart'
  <2>1. ASSUME NEW i \in 1 .. Len(sales'), NEW j \in 1 .. Len(sales'), i < j,
               sales'[i].cart = sales'[j].cart
        PROVE  sales'[i].again
    <3>1. i \in 1 .. n
      BY <1>23, <2>1
    <3>2. DOMAIN sales = 1 .. n
      BY <1>10, <1>11
    <3>3. CASE j \in 1 .. n
      BY <1>0, <1>11, <2>1, <3>1, <3>2, <3>3 DEF BooksKnow, OneSalePerCart
    <3>4. CASE j = n + 1
      <4>1. sales[i].cart = carts
        BY <1>8, <1>11, <2>1, <3>1, <3>4
      <4>2. sales[i].again
        BY <1>0, <1>10, <1>22, <3>1, <4>1 DEF BooksKnow, CartsKnow
      <4> QED BY <1>11, <3>1, <4>2
    <3> QED BY <1>23, <3>3, <3>4
  <2>2. DOMAIN sales' = 1 .. Len(sales')
    BY <1>11
  <2> QED BY <2>1, <2>2 DEF OneSalePerCart
<1>26. PaperKnows'
  <2>1. sales'[s].status = "COMPLETED"
    BY <1>8, <1>11, <1>14
  <2>2. CASE paper' = paper
    <3>1. paper'.status = "CANCELLED" => paper.sale \in 1 .. n /\ sales[paper.sale].again
      BY <1>0, <1>10, <2>2 DEF BooksKnow, PaperKnows
    <3>2. \A i \in 1 .. n : i \in 1 .. Len(sales')
      BY <1>11
    <3> QED BY <1>11, <2>2, <3>1, <3>2 DEF PaperKnows
  <2>3. CASE paper'.status = "COMPLETED"
    BY <2>3 DEF PaperKnows
  <2> QED BY <1>16, <2>1, <2>2, <2>3
<1>27. BooksKnow'
  BY <1>13, <1>19, <1>20, <1>21, <1>24, <1>25, <1>26 DEF BooksKnow
<1>28. FormKnows'
  <2>1. Len(sales) <= Len(sales')
    BY <1>10, <1>11
  <2>2. popup'.kind \notin {"confirm", "override"}
    BY <1>18
  <2> QED BY <1>0, <1>1, <1>19, <2>1, <2>2, FormStays
<1>29. ShopTypes' /\ ScreenTypes'
  BY <1>0, <1>1, <1>4 DEF ShopTypes, ScreenTypes, CartTypes
<1> QED BY <1>27, <1>28, <1>29 DEF TInv

\* Marks are set on sales that are there.
Marks ==
    /\ sales' \in Seq(Sale) /\ Len(sales') = Len(sales) /\ exchanges' = exchanges /\ carts' = carts
    /\ \A i \in 1 .. Len(sales) :
         /\ sales'[i].cart = sales[i].cart /\ sales'[i].items = sales[i].items
         /\ sales[i].again => sales'[i].again

\* What is true of the books but of status and marks stays so.
LEMMA MarksKeep ==
    ASSUME BooksKnow, Marks
    PROVE  /\ ExchangesKnow' /\ ReturnedWithinSold' /\ BookedAsConfirmed' /\ OneSalePerCart'
           /\ paper' = paper => PaperKnows'
           /\ popup' = popup => PopupKnows' /\ CartsKnow'
<1>1. BooksTypes
  BY DEF BooksKnow
<1>2. sales \in Seq(Sale) /\ Len(sales) \in Nat /\ DOMAIN sales = 1 .. Len(sales)
      /\ DOMAIN sales' = 1 .. Len(sales)
  BY <1>1 DEF BooksTypes, Marks
<1>3. Grows
  BY <1>2 DEF Grows, Marks
<1>4. ExchangesKnow' /\ ReturnedWithinSold' /\ BookedAsConfirmed'
  BY <1>3, BooksGrow
<1>5. OneSalePerCart'
  BY <1>2 DEF BooksKnow, OneSalePerCart, Marks
<1>6. paper' = paper => PaperKnows'
  BY DEF BooksKnow, PaperKnows, Marks
<1>7. popup' = popup => PopupKnows' /\ CartsKnow'
  BY DEF BooksKnow, PopupKnows, CartsKnow, Marks
<1> QED BY <1>4, <1>5, <1>6, <1>7

\* A sale that gets another status stays what it is otherwise.
LEMMA StatusMarks ==
    ASSUME BooksTypes, NEW s \in 1 .. Len(sales), exchanges' = exchanges, carts' = carts,
           sales' = [sales EXCEPT ![s].status = "CANCELLED"]
    PROVE  Marks
<1>1. PICK x \in Sale : x = sales[s]
  BY DEF BooksTypes
<1>2. PICK y : y = [x EXCEPT !.status = "CANCELLED"]
  OBVIOUS
<1>3. y \in Sale /\ y.cart = x.cart /\ y.items = x.items /\ y.again = x.again
  BY <1>2 DEF Sale
<1>4. sales' = [sales EXCEPT ![s] = y]
  BY <1>1, <1>2
<1>5. sales' \in Seq(Sale) /\ Len(sales') = Len(sales)
      /\ \A i \in 1 .. Len(sales) : sales'[i] = IF i = s THEN y ELSE sales[i]
  <2>1. sales \in Seq(Sale) /\ y \in Sale
    BY <1>3 DEF BooksTypes
  <2> HIDE DEF Sale
  <2> QED BY <1>4, <2>1
<1> QED BY <1>1, <1>3, <1>5 DEF Marks

\* Goods come back.
LEMMA GoodsBack ==
    ASSUME ShopTypes, BooksTypes, NEW s \in 1 .. Len(sales), NEW back,
           back = [p \in Products |-> [shop[p] EXCEPT !.quantity = @ + sales[s].items[p]]],
           \A p \in Products : shop[p].quantity + sales[s].items[p] <= MaxStock
    PROVE  back \in [Products -> Product]
<1>1. ASSUME NEW p \in Products
      PROVE  [shop[p] EXCEPT !.quantity = shop[p].quantity + sales[s].items[p]] \in Product
  <2>1. PICK x \in Product : x = shop[p]
    BY DEF ShopTypes
  <2>2. sales[s].items[p] \in Nat
    <3>1. sales[s] \in Sale
      BY DEF BooksTypes
    <3> QED BY <3>1 DEF Sale
  <2>3. PICK n \in Quantities : n = x.quantity + sales[s].items[p]
    <3>1. x.quantity \in Nat /\ MaxStock \in Nat
      BY ShopNumbers, TillAssumption
    <3>2. x.quantity + sales[s].items[p] \in 0 .. MaxStock
      BY <2>1, <2>2, <3>1
    <3> QED BY <3>2 DEF Quantities
  <2>4. [x EXCEPT !.quantity = n] \in Product
    BY DEF Product
  <2> QED BY <2>1, <2>3, <2>4
<1> QED BY <1>1

\* A cancellation, pulled or made here, is of a sale that is there.
LEMMA CancelStep ==
    ASSUME TInv, NEW s \in DOMAIN sales, PullCancel(s) \/ CancelSale(s)
    PROVE  TInv'
<1>0. /\ ShopTypes /\ ScreenTypes /\ BooksKnow /\ FormKnows /\ BooksTypes
  BY DEF TInv, BooksKnow
<1>1. s \in 1 .. Len(sales) /\ Len(sales) \in Nat
  BY <1>0 DEF BooksTypes
<1>2. /\ role' = role /\ exchanges' = exchanges /\ form' = form /\ carts' = carts
      /\ cart' = cart /\ found' = found /\ customer' = customer /\ discount' = discount
      /\ printer' = printer /\ paper' = paper
      /\ sales' = [sales EXCEPT ![s].status = "CANCELLED"]
  BY DEF PullCancel, CancelSale, screen
<1>3. Marks
  BY <1>0, <1>1, <1>2, StatusMarks
<1>4. /\ ExchangesKnow' /\ ReturnedWithinSold' /\ BookedAsConfirmed' /\ OneSalePerCart'
      /\ paper' = paper => PaperKnows'
      /\ popup' = popup => PopupKnows' /\ CartsKnow'
  BY <1>0, <1>3, MarksKeep
<1>5. /\ popup' \in Popups
      /\ popup' = popup \/ (popup.kind = "none" /\ popup'.kind = "done")
  <2>1. CASE PullCancel(s)
    BY <1>0, <2>1 DEF PullCancel, BooksTypes
  <2>2. CASE CancelSale(s)
    BY <2>2, PopupFacts DEF CancelSale, Free
  <2> QED BY <2>1, <2>2
<1>6. PopupKnows' /\ CartsKnow' /\ NoFalseClaim'
  <2>1. CASE popup' = popup
    BY <1>0, <1>2, <1>4, <2>1 DEF BooksKnow, NoFalseClaim
  <2>2. CASE popup.kind = "none" /\ popup'.kind = "done"
    BY <1>0, <1>3, <2>2 DEF BooksKnow, NoFalseClaim, PopupKnows, CartsKnow, Marks
  <2> QED BY <1>5, <2>1, <2>2
<1>7. BooksTypes'
  BY <1>0, <1>2, <1>3, <1>5 DEF BooksTypes, Marks
<1>8. BooksKnow'
  BY <1>2, <1>4, <1>6, <1>7 DEF BooksKnow
<1>9. FormKnows'
  <2>1. Len(sales) <= Len(sales')
    BY <1>1, <1>3 DEF Marks
  <2>2. popup'.kind \in {"confirm", "override"} => popup.kind \in {"confirm", "override"}
    BY <1>5
  <2> QED BY <1>0, <1>2, <1>7, <2>1, <2>2, FormStays
<1>10. ShopTypes'
  <2> DEFINE back == [p \in Products |-> [shop[p] EXCEPT !.quantity = @ + sales[s].items[p]]]
  <2>1. events' \in 0 .. MaxEvents
    BY <1>0, TillAssumption DEF PullCancel, CancelSale, Behind, ShopTypes
  <2>2. shop' \in [Products -> Product]
    <3>1. CASE PullCancel(s)
      <4>1. shop' \in {shop, back} /\ \A p \in Products : back[p].quantity <= MaxStock
        BY <3>1 DEF PullCancel
      <4>2. \A p \in Products : back[p].quantity = shop[p].quantity + sales[s].items[p]
        BY <1>0 DEF ShopTypes, Product
      <4>3. \A p \in Products : shop[p].quantity + sales[s].items[p] <= MaxStock
        BY <4>1, <4>2
      <4>4. back \in [Products -> Product]
        BY <1>0, <1>1, <4>3, GoodsBack
      <4> HIDE DEF back
      <4> QED BY <1>0, <4>1, <4>4 DEF ShopTypes
    <3>2. CASE CancelSale(s)
      <4>1. shop' = back /\ \A p \in Products : shop[p].quantity + sales[s].items[p] <= MaxStock
        BY <3>2 DEF CancelSale
      <4>2. back \in [Products -> Product]
        BY <1>0, <1>1, <4>1, GoodsBack
      <4> HIDE DEF back
      <4> QED BY <4>1, <4>2
    <3> QED BY <3>1, <3>2
  <2> QED BY <1>0, <1>2, <2>1, <2>2 DEF ShopTypes
<1>11. ScreenTypes'
  BY <1>0, <1>2 DEF ScreenTypes, CartTypes
<1> QED BY <1>8, <1>9, <1>10, <1>11 DEF TInv

\* A new sale begins with an empty cart that has a number of its own.
LEMMA NewSaleStep == ASSUME TInv, NewSale PROVE TInv'
<1>0. /\ ShopTypes /\ ScreenTypes /\ BooksKnow /\ FormKnows /\ BooksTypes
  BY DEF TInv, BooksKnow
<1>1. /\ role' = role /\ shop' = shop /\ events' = events /\ sales' = sales /\ exchanges' = exchanges
      /\ form' = form /\ cart' = <<>> /\ carts' = carts + 1
      /\ found' = found /\ customer' = customer /\ discount' = discount
      /\ printer' = printer /\ paper' = paper /\ popup' = NoPopup
  BY DEF NewSale, AfterNew, books
<1>2. popup' \in Popups /\ popup'.kind = "none"
  BY <1>1, PopupFacts
<1>3. BooksTypes'
  BY <1>0, <1>1, <1>2 DEF BooksTypes
<1>4. ExchangesKnow' /\ PopupKnows' /\ PaperKnows' /\ NoFalseClaim'
  BY <1>0, <1>1, <1>2 DEF BooksKnow, ExchangesKnow, PopupKnows, PaperKnows, NoFalseClaim
<1>5. OneSalePerCart' /\ ReturnedWithinSold' /\ BookedAsConfirmed'
  BY <1>0, <1>1 DEF BooksKnow, OneSalePerCart, ReturnedWithinSold, ReturnedSoFar, BookedAsConfirmed
<1>6. CartsKnow'
  <2>1. ASSUME NEW i \in 1 .. Len(sales) PROVE sales[i].cart <= carts + 1 /\ sales[i].cart # carts + 1
    <3>1. sales[i].cart <= carts
      BY <1>0 DEF BooksKnow, CartsKnow
    <3>2. sales[i].cart \in Nat /\ carts \in Nat
      <4>1. sales[i] \in Sale
        BY <1>0 DEF BooksTypes
      <4> QED BY <1>0, <4>1 DEF BooksTypes, Sale
    <3> QED BY <3>1, <3>2
  <2> QED BY <1>1, <2>1 DEF CartsKnow
<1>7. BooksKnow'
  BY <1>3, <1>4, <1>5, <1>6 DEF BooksKnow
<1>8. FormKnows'
  BY <1>0, <1>1, <1>2 DEF FormKnows
<1>9. CartTypes(<<>>)
  BY DEF CartTypes
<1>10. ScreenTypes' /\ ShopTypes'
  BY <1>0, <1>1, <1>9 DEF ScreenTypes, ShopTypes, CartTypes
<1> QED BY <1>7, <1>8, <1>10 DEF TInv

\* Who prints from the dialog marks the sale, and its cart is still there.
LEMMA PrintAgainStep == ASSUME TInv, PrintAgain PROVE TInv'
<1>0. /\ ShopTypes /\ ScreenTypes /\ BooksKnow /\ FormKnows /\ BooksTypes
  BY DEF TInv, BooksKnow
<1>1. PICK s \in 1 .. Len(sales) : s = popup.sale
  BY <1>0 DEF PrintAgain, Showing, BooksKnow, PopupKnows
<1>2. /\ role' = role /\ shop' = shop /\ events' = events /\ exchanges' = exchanges /\ form' = form
      /\ cart' = cart /\ found' = found /\ customer' = customer /\ discount' = discount
      /\ carts' = carts /\ popup' = NoPopup
      /\ sales' = [sales EXCEPT ![s].again = TRUE]
  BY <1>1 DEF PrintAgain, screen
<1>3. PICK x \in Sale : x = sales[s]
  BY <1>0 DEF BooksTypes
<1>4. PICK y : y = [x EXCEPT !.again = TRUE]
  OBVIOUS
<1>5. y \in Sale /\ y.cart = x.cart /\ y.items = x.items /\ y.again
  BY <1>4 DEF Sale
<1>6. sales' \in Seq(Sale) /\ Len(sales') = Len(sales)
      /\ \A i \in 1 .. Len(sales) : sales'[i] = IF i = s THEN y ELSE sales[i]
  <2>1. sales' = [sales EXCEPT ![s] = y]
    BY <1>2, <1>3, <1>4
  <2> QED BY <1>0, <1>5, <2>1 DEF BooksTypes
<1>7. Marks
  BY <1>2, <1>3, <1>5, <1>6 DEF Marks
<1>8. ExchangesKnow' /\ ReturnedWithinSold' /\ BookedAsConfirmed' /\ OneSalePerCart'
      /\ (paper' = paper => PaperKnows')
  BY <1>0, <1>7, MarksKeep
<1>9. PICK trouble \in Troubles \cup {None} : PrintReceipt(s, trouble)
  BY <1>1 DEF PrintAgain
<1>10. /\ printer' \in [state: PrinterStates, there: BOOLEAN]
       /\ paper' \in [sale: Nat, whole: BOOLEAN, status: {"COMPLETED", "CANCELLED"}]
       /\ paper' = paper \/ (paper'.sale = s /\ paper'.status = sales'[s].status)
  <2>1. s \in 1 .. Len(sales')
    BY <1>6
  <2> QED BY <1>0, <1>6, <1>9, <2>1, Prints
<1>11. popup' \in Popups /\ popup'.kind = "none"
  BY <1>2, PopupFacts
<1>12. PaperKnows'
  <2>1. CASE paper'.sale = s
    <3>1. s \in 1 .. Len(sales') /\ sales'[s].again
      BY <1>5, <1>6
    <3> QED BY <2>1, <3>1 DEF PaperKnows
  <2> QED BY <1>8, <1>10, <2>1
<1>13. PopupKnows' /\ NoFalseClaim'
  BY <1>11 DEF PopupKnows, NoFalseClaim
<1>14. CartsKnow'
  <2>1. ASSUME NEW i \in 1 .. Len(sales)
        PROVE  sales'[i].cart <= carts /\ (sales'[i].cart = carts => sales'[i].again)
    <3>1. /\ sales[i].cart <= carts
          /\ sales[i].cart = carts => sales[i].again \/ i = s
      BY <1>0, <1>1 DEF BooksKnow, CartsKnow
    <3> QED BY <1>3, <1>5, <1>6, <3>1
  <2> QED BY <1>2, <1>6, <2>1 DEF CartsKnow
<1>15. BooksTypes'
  BY <1>0, <1>2, <1>6, <1>10, <1>11 DEF BooksTypes
<1>16. BooksKnow'
  BY <1>8, <1>12, <1>13, <1>14, <1>15 DEF BooksKnow
<1>17. FormKnows'
  BY <1>0, <1>2, <1>6, <1>11 DEF FormKnows
<1>18. ScreenTypes' /\ ShopTypes'
  BY <1>0, <1>2 DEF ScreenTypes, ShopTypes, CartTypes
<1> QED BY <1>16, <1>17, <1>18 DEF TInv

\* What is reprinted by number is not cancelled.
LEMMA ReprintStep ==
    ASSUME TInv, NEW s \in DOMAIN sales, Reprint(s)
    PROVE  TInv'
<1>0. /\ ShopTypes /\ ScreenTypes /\ BooksKnow /\ FormKnows /\ BooksTypes
  BY DEF TInv, BooksKnow
<1>1. s \in 1 .. Len(sales)
  BY <1>0 DEF BooksTypes
<1>2. /\ role' = role /\ shop' = shop /\ events' = events /\ exchanges' = exchanges /\ form' = form
      /\ cart' = cart /\ found' = found /\ customer' = customer /\ discount' = discount
      /\ carts' = carts /\ popup' = popup /\ popup = NoPopup /\ sales' = sales
      /\ sales[s].status # "CANCELLED"
  BY DEF Reprint, Reprintable, screen, books, Free
<1>3. popup.kind = "none"
  BY <1>2, PopupFacts
<1>4. PICK trouble \in Troubles \cup {None} : PrintReceipt(s, trouble)
  BY DEF Reprint
<1>5. /\ printer' \in [state: PrinterStates, there: BOOLEAN]
      /\ paper' \in [sale: Nat, whole: BOOLEAN, status: {"COMPLETED", "CANCELLED"}]
      /\ paper' = paper \/ (paper'.sale = s /\ paper'.status = sales'[s].status)
  <2>1. sales' \in Seq(Sale) /\ s \in 1 .. Len(sales')
    BY <1>0, <1>1, <1>2 DEF BooksTypes
  <2> QED BY <1>0, <1>4, <2>1, Prints
<1>6. PaperKnows'
  <2>1. CASE paper' = paper
    BY <1>0, <1>2, <2>1 DEF BooksKnow, PaperKnows
  <2>2. CASE paper'.status = sales[s].status
    BY <1>2, <2>2 DEF PaperKnows
  <2> QED BY <1>2, <1>5, <2>1, <2>2
<1>7. BooksTypes'
  BY <1>0, <1>2, <1>5 DEF BooksTypes
<1>8. ExchangesKnow' /\ PopupKnows' /\ CartsKnow' /\ NoFalseClaim'
  BY <1>0, <1>2, <1>3 DEF BooksKnow, ExchangesKnow, PopupKnows, CartsKnow, NoFalseClaim
<1>9. OneSalePerCart' /\ ReturnedWithinSold' /\ BookedAsConfirmed'
  BY <1>0, <1>2 DEF BooksKnow, OneSalePerCart, ReturnedWithinSold, ReturnedSoFar, BookedAsConfirmed
<1>10. BooksKnow'
  BY <1>6, <1>7, <1>8, <1>9 DEF BooksKnow
<1>11. FormKnows' /\ ScreenTypes' /\ ShopTypes'
  BY <1>0, <1>2 DEF FormKnows, ScreenTypes, ShopTypes, CartTypes
<1> QED BY <1>10, <1>11 DEF TInv

\* An exchange books what was confirmed and takes back no more than is left.
LEMMA BookStep ==
    ASSUME TInv, popup.kind \in {"confirm", "override"}, Book
    PROVE  TInv'
<1>0. /\ ShopTypes /\ ScreenTypes /\ BooksKnow /\ FormKnows /\ BooksTypes
  BY DEF TInv, BooksKnow
<1>1. /\ role' = role /\ events' = events /\ sales' = sales /\ form' = form
      /\ cart' = cart /\ found' = found /\ customer' = customer /\ discount' = discount
      /\ carts' = carts /\ printer' = printer /\ paper' = paper /\ popup' = Say("exchange")
      /\ popup.kind # "complete"
  BY DEF Book, screen
<1>2. popup' \in Popups /\ popup'.kind = "exchange"
  BY <1>1, PopupFacts
<1>3. PICK s \in 1 .. Len(sales), r \in Products, i \in Products, out \in Nat, in \in Nat, price \in Nat :
        /\ s = form.sale /\ r = form.returned /\ i = form.issued
        /\ out = form.out /\ in = form.in /\ price = form.price
  BY <1>0 DEF FormKnows
<1>4. PICK x \in Product, y \in Product : x = shop[r] /\ y = shop[i]
  BY <1>0 DEF ShopTypes
<1>5. x.quantity \in Nat /\ y.quantity \in Nat /\ y.price \in Nat
  BY ShopNumbers
<1>6. PICK sold \in Nat, was \in Nat : sold = sales[s].items[r] /\ was = sales[s].prices[r]
  <2>1. sales[s] \in Sale
    BY <1>0 DEF BooksTypes
  <2> QED BY <2>1, TillAssumption DEF Sale
<1>7. shop' \in [Products -> Product]
  <2>1. x.quantity + out <= MaxStock /\ in <= y.quantity + (IF i = r THEN out ELSE 0)
    <3>1. LET after == [shop EXCEPT ![r].quantity = @ + out]
          IN  after[r].quantity <= MaxStock
      BY <1>3 DEF Book
    <3>2. [shop EXCEPT ![r].quantity = @ + out][r].quantity = x.quantity + out
      BY <1>0, <1>4 DEF ShopTypes, Product
    <3>3. in <= y.quantity + (IF i = r THEN out ELSE 0)
      BY <1>3, <1>4 DEF Book, Exchangeable, Issuable
    <3> QED BY <3>1, <3>2, <3>3
  <2>2. PICK n \in Quantities : n = x.quantity + out
    BY <1>5, <2>1, TillAssumption DEF Quantities
  <2>3. PICK x1 \in Product : x1 = [x EXCEPT !.quantity = n] /\ x1.quantity = n
    <3>1. [x EXCEPT !.quantity = n] \in Product /\ [x EXCEPT !.quantity = n].quantity = n
      BY DEF Product
    <3> QED BY <3>1
  <2>4. PICK after \in [Products -> Product] : after = [shop EXCEPT ![r] = x1]
    BY <1>0 DEF ShopTypes
  <2>5. after = [shop EXCEPT ![r].quantity = @ + out]
    BY <1>4, <2>2, <2>3, <2>4
  <2>6. shop' = [after EXCEPT ![i].quantity = @ - in]
    BY <1>3, <2>5 DEF Book
  <2>7. PICK y1 \in Product : y1 = after[i]
    OBVIOUS
  <2>8. in <= y1.quantity
    <3>1. CASE i = r
      <4>1. y1 = x1 /\ y = x
        BY <1>0, <1>4, <2>4, <2>7, <3>1 DEF ShopTypes
      <4> QED BY <1>5, <2>1, <2>2, <2>3, <3>1, <4>1
    <3>2. CASE i # r
      <4>1. y1 = y
        BY <1>0, <1>4, <2>4, <2>7, <3>2 DEF ShopTypes
      <4> QED BY <1>5, <2>1, <3>2, <4>1
    <3> QED BY <3>1, <3>2
  <2>9. PICK m \in Quantities : m = y1.quantity - in
    <3>1. y1.quantity \in 0 .. MaxStock
      BY DEF Product, Quantities
    <3> QED BY <2>8, <3>1, TillAssumption DEF Quantities
  <2>10. [y1 EXCEPT !.quantity = m] \in Product
    BY DEF Product
  <2>11. shop' = [after EXCEPT ![i] = [y1 EXCEPT !.quantity = m]]
    BY <2>6, <2>7, <2>9
  <2> QED BY <2>10, <2>11
<1>8. PICK difference \in Int : difference = Difference /\ difference = y.price * in - was * out
  <2>1. Difference = y.price * in - was * out
    BY <1>3, <1>4, <1>6 DEF Difference
  <2>2. y.price * in - was * out \in Int
    BY <1>5
  <2> QED BY <2>1, <2>2
<1>9. PICK shown \in Int : shown = Preview /\ shown = price * in - was * out
  <2>1. Preview = price * in - was * out
    BY <1>3, <1>6 DEF Preview
  <2>2. price * in - was * out \in Int
    OBVIOUS
  <2> QED BY <2>1, <2>2
<1>10. PICK stale \in BOOLEAN : stale = (shop[form.issued].price # form.price)
  OBVIOUS
<1>11. PICK payment \in {"POS", None} : payment = Payment(difference)
  BY DEF Payment
<1>12. PICK e : e = [sale |-> s, returned |-> r, out |-> out, issued |-> i, in |-> in,
                     difference |-> difference, payment |-> payment, shown |-> shown, stale |-> stale]
  OBVIOUS
<1>13. /\ e \in Exchange /\ e.sale = s /\ e.returned = r /\ e.out = out /\ e.difference = difference
       /\ e.payment = payment /\ e.shown = shown /\ e.stale = stale
  <2>1. s \in Nat
    OBVIOUS
  <2> QED BY <1>12, <2>1 DEF Exchange
<1>14. exchanges' = Append(exchanges, e)
  BY <1>3, <1>8, <1>9, <1>10, <1>11, <1>12 DEF Book
<1>15. PICK n \in Nat : n = Len(exchanges)
  BY <1>0 DEF BooksTypes
<1>16. /\ exchanges \in Seq(Exchange) /\ exchanges' \in Seq(Exchange) /\ Len(exchanges') = n + 1
       /\ \A k \in 1 .. n : exchanges'[k] = exchanges[k]
       /\ exchanges'[n + 1] = e
  BY <1>0, <1>13, <1>14, <1>15, AppendProperties DEF BooksTypes
<1>17. \A k \in 1 .. Len(exchanges') : k \in 1 .. n \/ k = n + 1
  BY <1>16
<1>18. BooksTypes'
  BY <1>0, <1>1, <1>2, <1>16 DEF BooksTypes
<1>19. ExchangesKnow'
  <2>1. \A k \in 1 .. n : exchanges[k].sale \in 1 .. Len(sales)
    BY <1>0, <1>15 DEF BooksKnow, ExchangesKnow
  <2> QED BY <1>1, <1>13, <1>16, <1>17, <2>1 DEF ExchangesKnow
<1>20. BookedAsConfirmed'
  <2>1. ~ stale => difference = shown
    <3>1. ~ stale => shop[form.issued].price = form.price
      BY <1>10, Zenon
    <3>2. ~ stale => y.price = price
      BY <1>3, <1>4, <3>1
    <3> QED BY <1>8, <1>9, <3>2
  <2>2. (payment # None) <=> (difference > 0)
    BY <1>11, TillAssumption DEF Payment
  <2>3. ASSUME NEW k \in 1 .. Len(exchanges')
        PROVE  /\ ~ exchanges'[k].stale => exchanges'[k].difference = exchanges'[k].shown
               /\ (exchanges'[k].payment # None) <=> (exchanges'[k].difference > 0)
    <3>1. CASE k \in 1 .. n
      <4>1. k \in DOMAIN exchanges
        BY <1>15, <1>16, <3>1
      <4>2. LET z == exchanges[k]
            IN  /\ ~ z.stale => z.difference = z.shown
                /\ (z.payment # None) <=> (z.difference > 0)
        BY <1>0, <4>1 DEF BooksKnow, BookedAsConfirmed
      <4> QED BY <1>16, <3>1, <4>2
    <3>2. CASE k = n + 1
      BY <1>13, <1>16, <2>1, <2>2, <3>2
    <3> QED BY <1>17, <3>1, <3>2
  <2>4. DOMAIN exchanges' = 1 .. Len(exchanges')
    BY <1>16
  <2> QED BY <2>3, <2>4 DEF BookedAsConfirmed
<1>21. ASSUME NEW z \in 1 .. Len(sales), NEW p \in Products
       PROVE  ReturnedSoFar(z, p)' <= sales[z].items[p]
  <2>1. PICK f : f = [k \in DOMAIN exchanges |-> Taken(exchanges[k], z, p)]
    OBVIOUS
  <2>2. PICK h : h = [k \in DOMAIN exchanges' |-> Taken(exchanges'[k], z, p)]
    OBVIOUS
  <2>3. /\ ReturnedSoFar(z, p) = SumTo(f, n)
        /\ \A k \in 1 .. n : f[k] \in Int /\ f[k] = Taken(exchanges[k], z, p)
    BY <1>0, <1>15, <2>1, TakenTypes
  <2>4. ReturnedSoFar(z, p)' = SumTo(h, n + 1)
    BY <1>16, <2>2 DEF ReturnedSoFar, Taken
  <2>5. \A k \in 1 .. n + 1 : h[k] = Taken(exchanges'[k], z, p)
    BY <1>16, <2>2
  <2>6. \A k \in 1 .. n : f[k] \in Int /\ h[k] = f[k]
    BY <1>16, <2>3, <2>5
  <2>7. h[n + 1] = Taken(e, z, p)
    BY <1>16, <2>5
  <2>8. Taken(e, z, p) \in Int /\ Taken(e, z, p) = IF z = s /\ p = r THEN out ELSE 0
    BY <1>13 DEF Taken
  <2>9. SumTo(h, n + 1) = SumTo(f, n) + h[n + 1]
    BY <2>6, <2>7, <2>8, SumGrows
  <2>10. SumTo(f, n) \in Int
    BY <2>3, SumType
  <2>11. ReturnedSoFar(z, p) <= sales[z].items[p]
    BY <1>0 DEF BooksKnow, BooksTypes, ReturnedWithinSold
  <2>12. CASE z = s /\ p = r
    <3>1. out <= sold - ReturnedSoFar(z, p)
      BY <1>3, <1>6, <2>12 DEF Book, Exchangeable, Left
    <3> QED BY <1>6, <2>3, <2>4, <2>7, <2>8, <2>9, <2>10, <2>12, <3>1
  <2>13. CASE ~ (z = s /\ p = r)
    BY <2>3, <2>4, <2>7, <2>8, <2>9, <2>10, <2>11, <2>13
  <2> QED BY <2>12, <2>13
<1>22. ReturnedWithinSold'
  <2>1. DOMAIN sales' = 1 .. Len(sales)
    BY <1>0, <1>1 DEF BooksTypes
  <2>2. ReturnedWithinSold' = (\A z \in DOMAIN sales', p \in Products : ReturnedSoFar(z, p)' <= sales'[z].items[p])
    BY DEF ReturnedWithinSold
  <2> QED BY <1>1, <1>21, <2>1, <2>2
<1>23. PopupKnows' /\ CartsKnow' /\ PaperKnows' /\ OneSalePerCart' /\ NoFalseClaim'
  BY <1>0, <1>1, <1>2 DEF BooksKnow, PopupKnows, CartsKnow, PaperKnows, OneSalePerCart, NoFalseClaim
<1>24. BooksKnow'
  BY <1>18, <1>19, <1>20, <1>22, <1>23 DEF BooksKnow
<1>25. FormKnows' /\ ScreenTypes' /\ ShopTypes'
  BY <1>0, <1>1, <1>2, <1>7 DEF FormKnows, ScreenTypes, ShopTypes, CartTypes
<1> QED BY <1>24, <1>25 DEF TInv

\* Confirm and the reason for a late sale lead to the exchange, on, or back to the form.
LEMMA ConfirmStep == ASSUME TInv, Confirm \/ Override PROVE TInv'
<1>1. popup.kind \in {"confirm", "override"}
  BY DEF Confirm, Override, Showing
<1>2. CASE Book
  BY <1>1, <1>2, BookStep
<1>3. CASE /\ popup' \in {Say("override"), Say("exchange")}
           /\ UNCHANGED <<role, shop, events, books, screen, form, printer, paper>>
  <2>1. popup' \in Popups /\ popup'.kind \in {"override", "exchange"} /\ popup.kind # "complete"
    BY <1>1, <1>3, PopupFacts
  <2>2. FormKnows'
    BY <1>1, <1>3, <2>1 DEF TInv, FormKnows, books
  <2> QED BY <1>3, <2>1, <2>2, FormStep
<1> QED BY <1>2, <1>3 DEF Confirm, Override

-------------------------------------------------------------------------------
\* The theorems

\* At first nothing is sold, shown or printed.
LEMMA TInvInit == Init => TInv
<1> SUFFICES ASSUME Init PROVE TInv
  OBVIOUS
<1>1. Min(Prices) \in Prices
  <2>1. Prices \in SUBSET Nat /\ Prices # {}
    BY TillAssumption
  <2> QED BY <2>1, MinExists
<1>2. Opening \in Quantities /\ MaxEvents \in Nat
  BY TillAssumption DEF Quantities
<1>3. ShopTypes
  <2>1. [price: {Min(Prices)}, quantity: {Opening}, active: {TRUE}] \subseteq Product
    BY <1>1, <1>2 DEF Product
  <2>2. shop \in [Products -> Product]
    BY <2>1 DEF Init
  <2> QED BY <1>2, <2>2 DEF Init, ShopTypes
<1>4. /\ cart = <<>> /\ found = <<>> /\ customer = None /\ discount = 0 /\ sales = <<>> /\ exchanges = <<>>
      /\ carts = 0 /\ popup = NoPopup /\ form = NoForm
  BY DEF Init
<1>5. ScreenTypes
  BY <1>4 DEF ScreenTypes, CartTypes
<1>6. NoPopup \in Popups /\ NoPopup.kind = "none"
  BY PopupFacts
<1>7. BooksTypes
  BY <1>4, <1>6 DEF Init, BooksTypes, PrinterStates
<1>8. paper.status = "COMPLETED"
  BY DEF Init
<1>9. BooksKnow
  BY <1>4, <1>6, <1>7, <1>8
     DEF BooksKnow, ExchangesKnow, PopupKnows, CartsKnow, PaperKnows, OneSalePerCart, NoFalseClaim,
         ReturnedWithinSold, BookedAsConfirmed
<1>10. FormKnows
  BY <1>4, <1>6 DEF FormKnows, NoForm
<1> QED BY <1>3, <1>5, <1>9, <1>10 DEF TInv

\* Every step of the window, the worker and the other pages keeps it.
LEMMA TInvInductive == TInv /\ [Next]_vars => TInv'
<1> SUFFICES ASSUME TInv, [Next]_vars PROVE TInv'
  OBVIOUS
<1>1. CASE UNCHANGED vars
  <2>1. /\ Idles /\ form' = form /\ role' = role /\ shop' = shop /\ events' = events /\ popup' = popup
        /\ cart' = cart /\ found' = found /\ customer' = customer /\ discount' = discount
    BY <1>1 DEF vars, books, screen, Idles
  <2>2. ScreenTypes'
    BY <2>1 DEF TInv, ScreenTypes, CartTypes
  <2> QED BY <2>1, <2>2, ScreenStep
<1>2. CASE Elsewhere
  BY <1>2, ElsewhereStep
<1>3. ASSUME NEW s \in DOMAIN sales, PullCancel(s) PROVE TInv'
  BY <1>3, CancelStep
<1>4. CASE Selling
  <2>1. ASSUME NEW p \in Products, Scan(p) \/ PickFound(p) PROVE TInv'
    BY <2>1, AddStep
  <2>2. CASE Search
    BY <2>2, SearchStep
  <2>3. ASSUME NEW i \in DOMAIN cart, RemoveRow(i) \/ Step(i, -1) \/ Step(i, 1) PROVE TInv'
    BY <2>3, RemoveStep, StepStep
  <2>4. CASE Choose
    BY <2>4, ChooseStep
  <2>5. CASE CompleteSale
    BY <2>5, SaleStep
  <2>6. CASE Insufficient \/ Dismiss
    BY <2>6, DialogStep
  <2>7. CASE Reduce
    BY <2>7, ReduceStep
  <2>8. CASE NewSale
    BY <2>8, NewSaleStep
  <2>9. CASE PrintAgain
    BY <2>9, PrintAgainStep
  <2>10. ASSUME NEW s \in DOMAIN sales, Reprint(s) \/ CancelSale(s) PROVE TInv'
    BY <2>10, ReprintStep, CancelStep
  <2> QED BY <1>4, <2>1, <2>2, <2>3, <2>4, <2>5, <2>6, <2>7, <2>8, <2>9, <2>10 DEF Selling
<1>5. CASE Exchanging
  <2>1. CASE \/ OpenExchange \/ CloseExchange \/ AskConfirmation
             \/ \E s \in DOMAIN sales, p \in Products : FindSale(s, p)
             \/ \E p \in Products : ChooseReplacement(p)
    BY <2>1, FillStep
  <2>2. CASE Confirm \/ Override
    BY <2>2, ConfirmStep
  <2> QED BY <1>5, <2>1, <2>2 DEF Exchanging
<1> QED BY <1>1, <1>2, <1>3, <1>4, <1>5 DEF Next

\* The inductive invariant holds of every window.
THEOREM TillKnows == Spec => []TInv
  BY TInvInit, TInvInductive, PTL DEF Spec

\* Types; a cart never has an empty line or two lines of one product, which the sale would
\* refuse (pos_page.py:521-545, sale_service.py:403).
THEOREM TillTypeCorrect == Spec => []TypeOK
  BY TypesAreInv, TillKnows, PTL

\* One cart becomes two sales only if the cashier printed again (pos_page.py:816).
THEOREM CartsAreSoldOnce == Spec => []OneSalePerCart
<1>1. TInv => OneSalePerCart
  BY DEF TInv, BooksKnow
<1> QED BY <1>1, TillKnows, PTL

\* The popup claims a printed receipt only if a whole one came out (popups.py:25-28).
THEOREM PopupIsHonest == Spec => []NoFalseClaim
<1>1. TInv => NoFalseClaim
  BY DEF TInv, BooksKnow
<1> QED BY <1>1, TillKnows, PTL

\* No receipt of a cancelled sale is printed but from the dialog its completion left open
\* (receipt_service.py:53, pos_page.py:816).
THEOREM CancelledIsNotPrinted == Spec => []CancelledNeverPrinted
<1>1. TInv => CancelledNeverPrinted
  BY DEF TInv, BooksKnow, PaperKnows, CancelledNeverPrinted
<1> QED BY <1>1, TillKnows, PTL

\* However many exchanges are made of a receipt, from a form that offers all of it again,
\* they never take back more than it sold (exchange_service.py:322-333).
THEOREM ReturnsAreSold == Spec => []ReturnedWithinSold
<1>1. TInv => ReturnedWithinSold
  BY DEF TInv, BooksKnow
<1> QED BY <1>1, TillKnows, PTL

\* What is booked is what was confirmed, unless a price changed behind the form
\* (exchange_page.py:364-408, exchange_service.py:350-385).
THEOREM ExchangesAreConfirmed == Spec => []BookedAsConfirmed
<1>1. TInv => BookedAsConfirmed
  BY DEF TInv, BooksKnow
<1> QED BY <1>1, TillKnows, PTL

\* Only a sale makes a receipt.
LEMMA OnlySales ==
    ASSUME TInv, [Next]_vars, Len(sales') > Len(sales)
    PROVE  CompleteSale
<1>1. sales \in Seq(Sale) /\ Len(sales) \in Nat
  BY DEF TInv, BooksKnow, BooksTypes
<1>2. sales' # sales
  BY <1>1
<1>3. ASSUME NEW s \in DOMAIN sales, PullCancel(s) \/ CancelSale(s) PROVE FALSE
  <2>1. sales' = [sales EXCEPT ![s].status = "CANCELLED"]
    BY <1>3 DEF PullCancel, CancelSale
  <2>2. s \in 1 .. Len(sales) /\ exchanges' = exchanges /\ carts' = carts
    BY <1>1, <1>3 DEF PullCancel, CancelSale, screen
  <2>3. Len(sales') = Len(sales)
    <3>1. Marks
      BY <2>1, <2>2, StatusMarks DEF TInv, BooksKnow
    <3> QED BY <3>1 DEF Marks
  <2> QED BY <1>1, <2>3
<1>4. CASE PrintAgain
  <2>1. PICK s : sales' = [sales EXCEPT ![s].again = TRUE]
    BY <1>4 DEF PrintAgain
  <2>2. DOMAIN sales' = DOMAIN sales
    BY <1>1, <2>1
  <2>3. PICK y : y = [sales[s] EXCEPT !.again = TRUE]
    OBVIOUS
  <2>4. Len(sales') = Len(sales)
    BY <1>1, <2>1
  <2> QED BY <1>1, <2>4
<1>5. CASE UNCHANGED sales
  BY <1>2, <1>5
<1>6. Selling =>
        \/ UNCHANGED sales \/ CompleteSale \/ PrintAgain
        \/ \E s \in DOMAIN sales : CancelSale(s)
  BY DEF Selling, Scan, PickFound, Search, RemoveRow, Step, Choose, Insufficient, Reduce, Dismiss,
         NewSale, Reprint, books
<1>7. Exchanging => UNCHANGED sales
  BY DEF Exchanging, OpenExchange, CloseExchange, FindSale, ChooseReplacement, AskConfirmation,
         Confirm, Override, Book, books
<1>8. UNCHANGED vars \/ Elsewhere => UNCHANGED sales
  BY DEF vars, books, Elsewhere
<1> QED BY <1>3, <1>4, <1>5, <1>6, <1>7, <1>8 DEF Next

\* A sale charges the TOTAL the cashier read, unless a price changed after its product
\* was put in the cart (pos_page.py:673, sale_service.py:207).
THEOREM ShownIsCharged == Spec => ChargedAsShown
<1> DEFINE Step1 == sales' # sales /\ Len(sales') > Len(sales)
                      /\ (\A i \in DOMAIN cart : cart[i].price = shop[cart[i].product].price)
                    => Last(sales').total = Shown
<1>1. ASSUME TInv, [Next]_vars, Len(sales') > Len(sales),
             \A i \in DOMAIN cart : cart[i].price = shop[cart[i].product].price
      PROVE  Last(sales').total = Shown
  <2>1. CompleteSale
    BY <1>1, OnlySales
  <2>2. Due \in Int /\ Due >= 0
    BY <1>1, <2>1, DueType DEF TInv, CompleteSale, Sellable
  <2>3. PICK price : price = [i \in DOMAIN cart |-> cart[i].price]
    OBVIOUS
  <2>4. price = [i \in DOMAIN cart |-> shop[cart[i].product].price]
    BY <1>1, <2>3
  <2>5. Due = Amount(cart, price) - discount
    BY <2>4 DEF Due, Reduction
  <2>6. Shown = IF Due < 0 THEN 0 ELSE Due
    BY <2>3, <2>5 DEF Shown
  <2>7. Shown = Due
    BY <2>2, <2>6
  <2>8. PICK sale : sales' = Append(sales, sale) /\ sale.total = Due
    <3>1. PICK total : total = Due
      OBVIOUS
    <3>2. \E sale : /\ sales' = Append(sales, sale)
                    /\ sale = [items |-> Sold(cart), prices |-> [p \in Products |-> shop[p].price],
                               total |-> total, discount |-> discount, cart |-> carts,
                               again |-> FALSE, status |-> "COMPLETED"]
      BY <2>1, <3>1 DEF CompleteSale
    <3> QED BY <3>1, <3>2
  <2>9. Last(sales') = sale
    <3>1. sales \in Seq(Sale) /\ sales' \in Seq(Sale)
      BY <1>1, TInvInductive DEF TInv, BooksKnow, BooksTypes
    <3>2. DOMAIN sales' = 1 .. Len(sales) + 1 /\ sales'[Len(sales) + 1] = sale /\ Len(sales') = Len(sales) + 1
      BY <2>8, <3>1
    <3> QED BY <3>1, <3>2 DEF Last
  <2> QED BY <2>7, <2>8, <2>9
<1>2. TInv /\ [Next]_vars => [Step1]_vars
  BY <1>1
<1>3. ChargedAsShown <=> [][Step1]_vars
  BY DEF ChargedAsShown
<1> HIDE DEF Step1
<1> QED BY <1>2, <1>3, TillKnows, PTL DEF Spec

===============================================================================
