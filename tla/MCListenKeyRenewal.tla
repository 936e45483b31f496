------------------------- MODULE MCListenKeyRenewal -------------------------
(* Two spot managers and a perp one; the spot managers are alike. *)
EXTENDS ListenKeyRenewal, TLC

CONSTANTS spot, other, perp
MCManagers == {spot, other, perp}
MCPerp == {perp}
MCSymmetry == Permutations({spot, other})
=============================================================================
