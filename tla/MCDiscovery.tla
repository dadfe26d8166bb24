------------------------------ MODULE MCDiscovery ------------------------------
(***************************************************************************)
(* Venues with four markets.  The first is one of several kinds with one   *)
(* of several grids, or an ordinary one with any band, or two, for a grid; *)
(* the second may be unreadable; the others are ordinary.                  *)
(***************************************************************************)
EXTENDS Discovery

Band(start, end, step) == [start |-> start, end |-> end, step |-> step]

SoundBands == {Band(0, 1, 1), Band(1, 3, 1), Band(1, 3, 2), Band(2, 3, 1), Band(0, 3, 3)}

Bands ==
  SoundBands \cup
    {Band(0, 1, 0), Band(2, 1, 1), Band(1, 1, 1), Band(0, 3, 2), Band(2, 4, 1)}

Ordinary(t) ==
  [ticker                |-> t,
   mve_collection_ticker |-> None,
   market_type           |-> "binary",
   status                |-> "active",
   price_ranges          |-> <<Band(0, 3, 1)>>,
   close_time            |-> 3,
   open_interest         |-> 1]

Kinds ==
  {Ordinary(1),
   [Ordinary(1) EXCEPT !.mve_collection_ticker = ""],
   [Ordinary(1) EXCEPT !.mve_collection_ticker = "COMBO"],
   [Ordinary(1) EXCEPT !.market_type = "scalar"],
   [Ordinary(1) EXCEPT !.status = "paused"],
   [Ordinary(1) EXCEPT !.status = "closed"],
   [Ordinary(1) EXCEPT !.close_time = 1],
   [Ordinary(1) EXCEPT !.close_time = 2],
   [Ordinary(1) EXCEPT !.open_interest = 0]}

Venue(first, second) == <<first, second, Ordinary(3), Ordinary(4)>>

MCCatalogs ==
  {Venue([kind EXCEPT !.price_ranges = grid], Ordinary(2))
     : kind \in Kinds, grid \in {<<>>, <<Band(0, 3, 2)>>, <<Band(0, 3, 3)>>}}
  \cup
  {Venue([Ordinary(1) EXCEPT !.price_ranges = <<band>>], Ordinary(2)) : band \in Bands}
  \cup
  {Venue([Ordinary(1) EXCEPT !.price_ranges = <<a, b>>], Ordinary(2))
     : a \in SoundBands, b \in SoundBands \cup {Band(1, 1, 1), Band(2, 1, 1)}}
  \cup
  {Venue(Ordinary(1), Unreadable)}

MCTickers == 1 .. 4
=============================================================================
