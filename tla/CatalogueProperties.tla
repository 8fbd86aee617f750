-------------------------- MODULE CatalogueProperties ---------------------------
(***************************************************************************)
(* What the generated numbers are relied on for.                           *)
(***************************************************************************)
EXTENDS Catalogue

Made == {products[i].barcode : i \in {i \in DOMAIN products : products[i].made}}

\* A number with its check digit: every second digit from the right but the last
\* is doubled, and all of them add up to a multiple of ten.
LuhnValid(n) ==
    SumTo([place \in 0 .. Digits(n) - 1 |->
             IF place % 2 = 1 THEN Doubled(Digit(n, place)) ELSE Digit(n, place)],
          Digits(n)) % 10 = 0

\* Types; codes and barcodes are unique, generated barcodes end in their check
\* digit (codes.py:45), and a product has a category.
TypeOK ==
    /\ products \in Seq(Product)
    /\ Distinct(products)
    /\ \A b \in Made : LuhnValid(b)
    /\ \A i \in DOMAIN products : products[i].category \in DOMAIN categories
    /\ categories \in Seq(Names)
    /\ customers \in Seq(Customer)
    /\ \A i, j \in DOMAIN customers : customers[i].code = customers[j].code => i = j
    /\ suppliers \in Seq(Supplier)
    /\ outcome \in {None, "created", "refused", "slipped"}
    /\ pulling \in BOOLEAN

\* No import is refused by the database after all its rows were validated, as
\* long as barcodes are numbers SQLite can hold: what is generated collides with
\* neither the file nor the catalogue (product_import.py:205, codes.py:76).
NothingSlips ==
    [][ outcome' = "slipped" => Max({0} \cup BarcodesIn) >= Cap ]_vars

\* Nothing checks the check digit of a scanned barcode.  What protects the till
\* is that a generated label with one digit misread is no other product's label
\* (product_service.py:61, codes.py:14).
OneMisreadDigitFindsNoOther ==
    \A a, b \in Made :
        a # b /\ Digits(a) = Digits(b) =>
            Cardinality({place \in 0 .. Digits(a) - 1 : Digit(a, place) # Digit(b, place)}) > 1

\* There is always a barcode for the next product
\* (README.md:155: "Every new product gets a unique barcode: a 13-digit value").
NextBarcodeIsFree == Barcode(FirstBody) \notin BarcodesIn

===============================================================================
