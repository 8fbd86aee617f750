------------------------------ MODULE MCCatalogue -------------------------------
(* A small catalogue for TLC: bodies of barcodes begin at 10 and integers end at
   9223, so that the third product made alone has a barcode that is too large. *)
EXTENDS CatalogueProperties

CONSTANTS gowns, phone

OneWord == {gowns}
TwoCodes == {1, 2}
\* The barcodes of the bodies 10 and 11.
TwoBarcodes == {109, 117}
OnePhone == {phone}

\* Customers and suppliers know nothing of products.
Small ==
    /\ products # <<>> => customers = <<>> /\ suppliers = <<>>
    /\ customers # <<>> => suppliers = <<>> /\ categories = <<>>
    /\ Len(products) > 2 => \A i \in DOMAIN products : products[i].code \notin {1} \/ i = 1

===============================================================================
