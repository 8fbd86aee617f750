------------------------------- MODULE Catalogue -------------------------------
(***************************************************************************)
(* The records everything else refers to: products with their codes and    *)
(* barcodes, categories, customers and suppliers, entered one at a time,   *)
(* imported from a file or pulled from another PC.                         *)
(*                                                                         *)
(* Numbers are generated from what the table holds: a code is one more     *)
(* than the largest, a barcode is one more than the largest barcode with a *)
(* Luhn digit appended.  The largest is what SQLite makes of the texts,    *)
(* and SQLite's integers end at 2^63 - 1, Cap here.                        *)
(*                                                                         *)
(* Abstractions.  A code is the number in it (texts without one are never  *)
(* compared with generated ones), a barcode of digits is its number, a     *)
(* name of a category is a word in one of two spellings that differ in     *)
(* case.  Names, prices and quantities of products are left out: Store and *)
(* Books have them.                                                        *)
(***************************************************************************)
EXTENDS Integers, Sequences, FiniteSetsExt

CONSTANTS
    Seed, Cap,
    Words,          \* names of categories but for their case
    Codes,          \* numbers of codes people type
    Barcodes,       \* barcodes people type
    Phones,
    MaxProducts, MaxCustomers, MaxSuppliers, MaxRows,  \* bounds
    None

ASSUME CatalogueAssumption ==
    /\ Seed \in Nat \ {0} /\ Cap \in Nat /\ Seed < Cap
    /\ Codes \subseteq Nat \ {0} /\ Barcodes \subseteq Nat \ {0}
    /\ {MaxProducts, MaxCustomers, MaxSuppliers, MaxRows} \subseteq Nat
    /\ None \notin Phones \cup {"created", "refused", "slipped"}

VARIABLES
    products, categories, customers, suppliers,
    outcome,    \* how the last entry or import ended
    pulling     \* FALSE: the pull fails each time on the same row

vars == <<products, categories, customers, suppliers, outcome, pulling>>

Names    == Words \X {"lower", "Upper"}
Product  == [code: Nat, barcode: Nat, made: BOOLEAN, category: Nat, queued: BOOLEAN]
Customer == [code: Nat, phone: Phones \cup {None}, active: BOOLEAN]
Supplier == [phone: Phones \cup {None}]

-------------------------------------------------------------------------------
\* Luhn, and the numbers of the tables

\* What is left of a number without its last places.
Left(n, places) ==
    LET left[i \in 0 .. n + 1] == IF i = 0 THEN n ELSE left[i - 1] \div 10
    IN  left[places]

\* The digit at a place counted from the right, which is place 0.
Digit(n, place) == Left(n, place) % 10

\* How many there are; 0 has one.
Digits(n) == CHOOSE k \in 1 .. n + 1 : Left(n, k) = 0 /\ (k > 1 => Left(n, k - 1) # 0)

\* What f gives for the first n places, added up from the right.
SumTo(f, n) ==
    LET total[i \in 0 .. n] == IF i = 0 THEN 0 ELSE total[i - 1] + f[i - 1]
    IN  total[n]

Doubled(d) == IF d * 2 > 9 THEN d * 2 - 9 ELSE d * 2

LuhnTotal(body) ==
    SumTo([place \in 0 .. Digits(body) - 1 |->
             IF place % 2 = 0 THEN Doubled(Digit(body, place)) ELSE Digit(body, place)],
          Digits(body))

\* Fault: a total that ends in 0 gives the digit 10.
CheckDigit_Ten(body) == 10 - (LuhnTotal(body) % 10)

\* Fault: no check digit, the last digit is always the same.
CheckDigit_Zero(body) == 0

CheckDigit(body) == (10 - (LuhnTotal(body) % 10)) % 10

Barcode(body) == body * 10 + CheckDigit(body)

BarcodesIn == {products[i].barcode : i \in DOMAIN products}
CodesIn    == {products[i].code : i \in DOMAIN products}

\* max_numeric_barcode: CAST ends at the largest integer.
Largest == Min({Cap, Max({0} \cup BarcodesIn)})

\* A generator lives as long as the session of one entry or import.
FirstBody == Max({Seed, Largest + 1})

\* One number after the other from first on, past those that are taken.
Untaken(count, first, taken) ==
    LET next[k \in 0 .. count] ==
          IF k = 0 THEN first - 1
          ELSE Min((next[k - 1] + 1 .. next[k - 1] + 1 + Cardinality(taken)) \ taken)
    IN  next

\* generate_many: past the bodies whose barcode is reserved by the file.
Bodies(count, reserved) ==
    Untaken(count, FirstBody, {r \div 10 : r \in {r \in reserved : Barcode(r \div 10) = r}})

NextCode(codes) == Max({0} \cup codes) + 1

\* _next_codes: above the largest code, past the codes of the file.
NewCodes(count, inFile) == Untaken(count, NextCode(CodesIn), inFile)

-------------------------------------------------------------------------------
\* Categories

SameName(a, b) == a[1] = b[1]

Called(name) == {i \in DOMAIN categories : SameName(categories[i], name)}

\* get_or_create ignores the case.
WithCategory(list, name) ==
    IF \E i \in DOMAIN list : SameName(list[i], name) THEN list ELSE Append(list, name)

IndexOf(list, name) == Min({i \in DOMAIN list : SameName(list[i], name)})

CreateCategory(name) ==
    /\ Called(name) = {}
    /\ categories' = Append(categories, name)
    /\ UNCHANGED <<products, customers, suppliers, outcome, pulling>>

Rename(i, name) ==
    /\ Called(name) \subseteq {i}
    /\ categories' = [categories EXCEPT ![i] = name]
    /\ UNCHANGED <<products, customers, suppliers, outcome, pulling>>

-------------------------------------------------------------------------------
\* One product

\* What is typed, or what is generated.
Given(typed, generated) == IF typed = None THEN generated ELSE typed

\* ProductService.create.  The form cannot give a barcode, the service can.
CreateProduct(code, barcode, name) ==
    LET c == Given(code, NextCode(CodesIn))
        b == Given(barcode, Barcode(FirstBody))
    IN  /\ Len(products) < MaxProducts
        /\ IF c \in CodesIn \/ b \in BarcodesIn
           THEN outcome' = "refused" /\ UNCHANGED <<products, categories>>
           ELSE /\ categories' = WithCategory(categories, name)
                /\ products' = Append(products, [code |-> c, barcode |-> b, made |-> barcode = None,
                                                 category |-> IndexOf(categories', name),
                                                 queued |-> TRUE])
                /\ outcome' = "created"
        /\ UNCHANGED <<customers, suppliers, pulling>>

\* ProductService.update: a code that another product has is refused.  The page
\* cannot reach it: its dialog reads the category of a product whose session is
\* closed.
EditProduct(i, code, name) ==
    /\ \A j \in DOMAIN products : products[j].code = code => i = j
    /\ categories' = WithCategory(categories, name)
    /\ products' = [products EXCEPT ![i].code = code,
                                    ![i].category = IndexOf(categories', name),
                                    ![i].queued = TRUE]
    /\ outcome' = "created"
    /\ UNCHANGED <<customers, suppliers, pulling>>

-------------------------------------------------------------------------------
\* The import

Row == [code: Codes \cup {None}, barcode: Barcodes \cup {None}, name: Names]

\* Whether a row's code passes: not in the catalogue and not in an earlier row,
\* even one that was rejected for its barcode.
CodePasses(file, i) ==
    \/ file[i].code = None
    \/ /\ file[i].code \notin CodesIn
       /\ \A j \in 1 .. i - 1 : file[j].code # file[i].code

BarcodePasses(file, i) ==
    \/ file[i].barcode = None
    \/ /\ file[i].barcode \notin BarcodesIn
       /\ \A j \in 1 .. i - 1 : file[j].barcode # file[i].barcode \/ ~ CodePasses(file, j)

\* _validate_row, of all rows before anything is written.  A row that fails for
\* its other fields is as if it were not in the file.
Valid(file) ==
    LET valid[i \in 0 .. Len(file)] ==
          IF i = 0 THEN <<>>
          ELSE IF CodePasses(file, i) /\ BarcodePasses(file, i)
          THEN Append(valid[i - 1], file[i]) ELSE valid[i - 1]
    IN  valid[Len(file)]

Typed(rows, field) == {rows[i][field] : i \in DOMAIN rows} \ {None}
Missing(rows, field) == {i \in DOMAIN rows : rows[i][field] = None}

\* The place of a row among the rows without one.
Place(rows, field, i) == Cardinality({j \in Missing(rows, field) : j <= i})

\* Fault: barcodes of the file are not reserved.
Reserved_None(rows) == {}

Reserved(rows) == Typed(rows, "barcode")

\* _resolve_categories
Named(rows) ==
    LET named[i \in 0 .. Len(rows)] ==
          IF i = 0 THEN categories ELSE WithCategory(named[i - 1], rows[i].name)
    IN  named[Len(rows)]

\* _write_rows: nothing is put in the outbox.
Written(rows) ==
    LET codes  == NewCodes(Cardinality(Missing(rows, "code")), Typed(rows, "code"))
        bodies == Bodies(Cardinality(Missing(rows, "barcode")), Reserved(rows))
    IN  [named |-> Named(rows),
         rows |-> [i \in DOMAIN rows |->
            [code |-> IF rows[i].code = None THEN codes[Place(rows, "code", i)] ELSE rows[i].code,
             barcode |-> IF rows[i].barcode = None
                         THEN Barcode(bodies[Place(rows, "barcode", i)]) ELSE rows[i].barcode,
             made |-> rows[i].barcode = None,
             category |-> IndexOf(Named(rows), rows[i].name),
             queued |-> FALSE]]]

\* The constraints of the table.
Distinct(list) ==
    \A i, j \in DOMAIN list :
        i # j => list[i].code # list[j].code /\ list[i].barcode # list[j].barcode

\* import_csv: all valid rows, or none when the database refuses one.
Import(file) ==
    LET rows == Valid(file)
        written == Written(rows)
    IN  /\ Len(products) + Len(file) <= MaxProducts
        /\ IF rows = <<>>
           THEN outcome' = "refused" /\ UNCHANGED <<products, categories>>
           ELSE IF Distinct(products \o written.rows)
           THEN /\ products' = products \o written.rows
                /\ categories' = written.named
                /\ outcome' = "created"
           ELSE outcome' = "slipped" /\ UNCHANGED <<products, categories>>
        /\ UNCHANGED <<customers, suppliers, pulling>>

-------------------------------------------------------------------------------
\* Customers and suppliers

\* An emptied field reaches the service as None, which leaves it as it was.
Kept(new, old) == IF new = None THEN old ELSE new

CustomerCodes == {customers[i].code : i \in DOMAIN customers}

\* create and create_for_sale
CreateCustomer(code, phone) ==
    LET c == Given(code, NextCode(CustomerCodes))
    IN  /\ Len(customers) < MaxCustomers
        /\ IF c \in CustomerCodes
           THEN outcome' = "refused" /\ UNCHANGED customers
           ELSE /\ customers' = Append(customers, [code |-> c, phone |-> phone, active |-> TRUE])
                /\ outcome' = "created"
        /\ UNCHANGED <<products, categories, suppliers, pulling>>

EditCustomer(i, code, phone) ==
    /\ \A j \in DOMAIN customers : customers[j].code = Kept(code, customers[i].code) => i = j
    /\ customers' = [customers EXCEPT ![i].code = Kept(code, @), ![i].phone = Kept(phone, @)]
    /\ UNCHANGED <<products, categories, suppliers, outcome, pulling>>

\* The page asks, and the handler looks again which way to turn.
ToggleCustomer(i) ==
    /\ customers' = [customers EXCEPT ![i].active = ~ @]
    /\ UNCHANGED <<products, categories, suppliers, outcome, pulling>>

CreateSupplier(phone) ==
    /\ Len(suppliers) < MaxSuppliers
    /\ suppliers' = Append(suppliers, [phone |-> phone])
    /\ UNCHANGED <<products, categories, customers, outcome, pulling>>

EditSupplier(i, phone) ==
    /\ suppliers' = [suppliers EXCEPT ![i].phone = Kept(phone, @)]
    /\ UNCHANGED <<products, categories, customers, outcome, pulling>>

-------------------------------------------------------------------------------
\* A product of another PC, which generates the same numbers: what is taken here
\* makes the row fail, and the pull with it, now and each time it is tried.
PullProduct(code, barcode) ==
    LET row == [code |-> code, barcode |-> barcode, made |-> FALSE, category |-> 1,
                queued |-> TRUE]
    IN  /\ pulling /\ categories # <<>>
        /\ Len(products) < MaxProducts
        /\ pulling' = Distinct(Append(products, row))
        /\ products' = IF pulling' THEN Append(products, row) ELSE products
        /\ UNCHANGED <<categories, customers, suppliers, outcome>>

-------------------------------------------------------------------------------

Init ==
    /\ products = <<>>
    /\ categories = <<>>
    /\ customers = <<>>
    /\ suppliers = <<>>
    /\ outcome = None
    /\ pulling = TRUE

Next ==
    \/ \E name \in Names : CreateCategory(name)
    \/ \E i \in DOMAIN categories, name \in Names : Rename(i, name)
    \/ \E code \in Codes \cup {None}, barcode \in Barcodes \cup {None}, name \in Names :
         CreateProduct(code, barcode, name)
    \/ \E i \in DOMAIN products, code \in Codes, name \in Names : EditProduct(i, code, name)
    \/ \E n \in 1 .. MaxRows : \E file \in [1 .. n -> Row] : Import(file)
    \/ \E code \in Codes \cup {None}, phone \in Phones \cup {None} : CreateCustomer(code, phone)
    \/ \E i \in DOMAIN customers, code \in Codes \cup {None}, phone \in Phones \cup {None} :
         EditCustomer(i, code, phone)
    \/ \E i \in DOMAIN customers : ToggleCustomer(i)
    \/ \E phone \in Phones \cup {None} : CreateSupplier(phone)
    \/ \E i \in DOMAIN suppliers, phone \in Phones \cup {None} : EditSupplier(i, phone)
    \/ \E code \in Codes, barcode \in Barcodes : PullProduct(code, barcode)

Spec == Init /\ [][Next]_vars

===============================================================================
