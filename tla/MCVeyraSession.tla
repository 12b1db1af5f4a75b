--------------------------- MODULE MCVeyraSession ---------------------------
(* Two links of one type and one of another: a re-registration, a hand-off. *)
EXTENDS VeyraSession, TLC

CONSTANTS usb, wifi, wifi2

MCLinks  == {usb, wifi, wifi2}
MCTypeOf == [l \in MCLinks |-> IF l = usb THEN "USB" ELSE "WIFI_LAN"]

\* The two links of one type are interchangeable.
MCSymmetry == Permutations({wifi, wifi2})

=============================================================================
