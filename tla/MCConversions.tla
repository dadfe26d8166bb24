----------------------------- MODULE MCConversions -----------------------------
(***************************************************************************)
(* Every text of up to five characters, for a field of two places that is  *)
(* stored narrower than it is read, and two fields of one place; midnights *)
(* before the ends of a century, of a year, of a leap February, and of     *)
(* 1969; one document of each kind, whole, and messages that leave out     *)
(* what they may.                                                          *)
(***************************************************************************)
EXTENDS Conversions, TLC

MCTexts ==
  UNION {[1..n -> {0, 1, 2, 7} \cup {Minus, Point, Junk}] : n \in 0..5}

MCForms ==
  {[fractional_digits |-> 2, allow_negative |-> FALSE, limit |-> 71],
   [fractional_digits |-> 1, allow_negative |-> FALSE, limit |-> 127],
   [fractional_digits |-> 1, allow_negative |-> TRUE,  limit |-> 127]}

Midnight(y, m, d) == [year |-> y, month |-> m, day |-> d]

MCMidnights ==
  {Midnight(1899, 12, 31), Midnight(1900, 2, 28), Midnight(1969, 12, 31),
   Midnight(1972, 2, 28), Midnight(2000, 2, 28), Midnight(2026, 9, 30)}

MCZones ==
  {[sign |-> sign, hours |-> h, minutes |-> m] : sign \in {-1, 1}, h \in 0..2, m \in 0..1}

-----------------------------------------------------------------------------
OneLevel(price, size) == [p \in {price} |-> size]

Message(type, header, body) ==
  [reader |-> "message", of |-> [type |-> type, msg |-> body] @@ header]

Numbered == [sid |-> 1, seq |-> 2]

Timed == [ts_ms |-> 2500, ts |-> 2000000]

Trade ==
  [market_ticker |-> "OURS", trade_id |-> "T", yes_price_dollars |-> 1, count_fp |-> 1]

MCMessages ==
  {Message("orderbook_snapshot", Numbered,
           [market_ticker |-> "OURS", yes_dollars_fp |-> OneLevel(1, 1),
            no_dollars_fp |-> OneLevel(1, 2)]),
   Message("orderbook_delta", Numbered,
           Timed @@ [market_ticker |-> "OURS", side |-> "no", price_dollars |-> 1,
                     delta_fp |-> -1]),
   Message("trade", [sid |-> 2],
           Timed @@ Trade @@
             [is_block_trade |-> TRUE, taker_side |-> "no", taker_outcome_side |-> "no",
              taker_book_side |-> "ask"]),
   Message("trade", [sid |-> 2], [taker_book_side |-> "bid", ts |-> 2000000] @@ Trade),
   Message("subscribed", [id |-> 1], [channel |-> "trade", sid |-> 2]),
   Message("error", [id |-> 1], [code |-> 6, msg |-> "text", market_ticker |-> "OURS"]),
   Message("rfq", [sid |-> 2], [rfq_id |-> 1])}

JournalLine ==
  [kind |-> "message", t_local_us |-> -1, conn |-> 1, type |-> "trade", payload |-> "text"]

MCRecords ==
  {[reader |-> "record", of |-> optional @@ JournalLine] : optional \in
     {[t_exchange_us |-> -2, sid |-> 3, seq |-> 4, ticker |-> "OURS", market_id |-> "M"],
      [field \in OptionalFields |-> IF field = "seq" THEN 4 ELSE Nothing]}}

Grid == <<[start |-> 0, end |-> 1, step |-> 1], [start |-> 2, end |-> 3, step |-> 1]>>

OneBand == <<[start |-> 0, end |-> 1, step |-> 1]>>

MCMetadata ==
  {[reader |-> "metadata",
    of |-> [market_ticker |-> "OURS", price_convention |-> convention, build |-> "1",
            price_ranges |-> Grid]]
     : convention \in {"YesLegPricing", "NoLegPricing"}}

MCMarket ==
  [reader |-> "market",
   of |-> [ticker |-> "OURS", event_ticker |-> "EVENT", market_type |-> "binary",
           status |-> "active", price_level_structure |-> "linear", price_ranges |-> OneBand,
           open_time |-> 1, close_time |-> 2, expected_expiration_time |-> 3,
           mve_collection_ticker |-> "", yes_bid_dollars |-> 1, yes_ask_dollars |-> 2,
           yes_bid_size_fp |-> 1, yes_ask_size_fp |-> 1, last_price_dollars |-> 1,
           volume_fp |-> 1, volume_24h_fp |-> 1, open_interest_fp |-> 1,
           can_close_early |-> TRUE]]

MCSources == MCMessages \cup MCRecords \cup MCMetadata \cup {MCMarket}

MCParsedFields ==
  {"yes_dollars_fp", "no_dollars_fp", "side", "price_dollars", "delta_fp", "ts",
   "yes_price_dollars", "count_fp", "taker_side", "taker_outcome_side", "taker_book_side",
   "v", "kind", "price_convention", "open_time", "close_time",
   "expected_expiration_time", "yes_bid_dollars", "yes_ask_dollars", "yes_bid_size_fp",
   "yes_ask_size_fp", "last_price_dollars", "volume_fp", "volume_24h_fp",
   "open_interest_fp"}

NoBands == {}
=============================================================================
