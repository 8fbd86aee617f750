-------------------------------- MODULE MCShell --------------------------------
(* Two copies on a PC for TLC, with two cashiers. *)
EXTENDS ShellProperties, TLC

CONSTANTS one, two, amina, bello, usb

TwoCopies == {one, two}
BothCashiers == {amina, bello}
OneSeeded == {amina}
OnePrinter == {usb}

Alike == Permutations(TwoCopies)

\* Threads and accounts are looked at apart, and so are threads and printers.
Small ==
    /\ registered => /\ \A u \in Accounts : Turnings(u) = {}
                     /\ saved = None
    /\ saved # None => Rows <= 3

===============================================================================
