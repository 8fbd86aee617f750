-------------------------------- MODULE MCVault --------------------------------
(* A shop with one sale for TLC, installed on databases of all ages. *)
EXTENDS VaultProperties

CONSTANTS sale

OneSale == {sale}
AllVersions == {0, 3, 4, 5, 6}
ThisVersion == {5}

===============================================================================
