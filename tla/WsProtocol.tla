------------------------------ MODULE WsProtocol ------------------------------
(***************************************************************************)
(* The part of src/api/ws_protocol.cpp that decides what the book is told: *)
(* bringing both sides of the market onto the YES scale, and refusing a    *)
(* message a level of which cannot be read.  JSON is abstracted: a wire    *)
(* message is a record of the fields the parser reads.                     *)
(***************************************************************************)
EXTENDS OrderBook

CONSTANT Convention  \* how the subscription asked for NO prices to be quoted

ConventionAssumption == Convention \in {"NoLegPricing", "YesLegPricing"}

\* A NO bid at p is an offer to sell YES at one dollar less p.
yes_price_from_no(price) == PriceMax - price

yes_price_from_book_entry(published, side) ==
  IF side = "Bid" \/ Convention = "YesLegPricing"
  THEN published
  ELSE yes_price_from_no(published)

\* A side of a snapshot, moved onto the YES scale; reflecting a price twice
\* gives it back.
ParsedLevels(listed, side) ==
  [p \in {yes_price_from_book_entry(w, side) : w \in DOMAIN listed}
     |-> listed[yes_price_from_book_entry(p, side)]]

\* A resting size that is negative, or any size beyond the range of Quantity,
\* fails the whole message.
Readable(wire) ==
  IF wire.type = "orderbook_snapshot"
  THEN \A side \in Side : \A w \in DOMAIN wire.levels[side] :
          wire.levels[side][w] \in 0..MaxQuantity
  ELSE wire.delta \in -MaxQuantity .. MaxQuantity

parse_snapshot(wire) ==
  [market_ticker |-> wire.market_ticker,
   subscription  |-> wire.subscription,
   sequence      |-> wire.sequence,
   levels        |-> [side \in Side |-> ParsedLevels(wire.levels[side], side)]]

parse_delta(wire) ==
  [market_ticker |-> wire.market_ticker,
   subscription  |-> wire.subscription,
   sequence      |-> wire.sequence,
   side          |-> wire.side,
   price         |-> yes_price_from_book_entry(wire.price, wire.side),
   delta         |-> wire.delta]
=============================================================================
