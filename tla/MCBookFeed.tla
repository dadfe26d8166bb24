------------------------------ MODULE MCBookFeed ------------------------------
(***************************************************************************)
(* A dollar of two price units whose upper half is off the grid.  The venue *)
(* quotes at 0 and 1: two legal YES bids, and NO bids that are one legal    *)
(* and one off-grid offer.  It lets twice as much rest as a Quantity holds. *)
(***************************************************************************)
EXTENDS BookFeed, TLC

CONSTANTS s1, s2

MCBands == {[start |-> 0, end |-> 1, step |-> 1]}
MCVenuePrices == {0, 1}
MCExtras == {{}, {0}}
MCSymmetry == Permutations({s1, s2})
MCChanges == {-1, 1}
=============================================================================
