------------------------------ MODULE MCRecorder ------------------------------
(***************************************************************************)
(* Recordings of a book with one legal price, 0, and one off the grid, 1,  *)
(* under YES-leg pricing; of the same under NO-leg pricing, whose grid     *)
(* could not be looked up; and with a gap simulated at the first delta.   *)
(* A snapshot may be empty, one-sided, locked or illegal; the clock may    *)
(* advance or step back.                                                   *)
(***************************************************************************)
EXTENDS Recorder

Band == [start |-> 0, end |-> 0, step |-> 1]

Recording(grid, convention, gap) ==
  [price_grid |-> grid, price_convention |-> convention, simulate_gap_after |-> gap]

Usual == Recording({Band}, "YesLegPricing", 0)

MCRecordings ==
  {Usual,
   Recording({}, "NoLegPricing", 0),
   Recording({Band}, "NoLegPricing", 1)}

MCUsual == {Usual}

NoLevels == [p \in {} |-> 0]

OneLevel(price) == [p \in {price} |-> 1]

MCQuoted ==
  {[Bid |-> NoLevels, Ask |-> NoLevels],
   [Bid |-> OneLevel(0), Ask |-> OneLevel(0)],
   [Bid |-> OneLevel(1), Ask |-> NoLevels]}

Change(side, price, delta) == [side |-> side, price |-> price, delta |-> delta]

MCChanges ==
  {Change("Bid", 0, -1), Change("Bid", 0, 1), Change("Bid", 1, 1), Change("Ask", 0, -1)}

\* It may step back before the third record and before the fourth.
MCTicks == [n \in 0..MaxRecords |-> IF n \in {2, 3} THEN {-1, 2} ELSE {1}]
=============================================================================
