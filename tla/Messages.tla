-------------------------------- MODULE Messages --------------------------------
(***************************************************************************)
(* parse_ws_message (src/api/ws_protocol.cpp): what is made of a message   *)
(* of the venue some of whose fields may be missing or of another form.    *)
(* `root` is the message, its `msg` the body.                              *)
(***************************************************************************)
EXTENDS WsProtocol, Json

Handled == {"orderbook_snapshot", "orderbook_delta", "trade", "subscribed", "error"}

\* Both spellings of a side: by outcome, and by its position in the book.
book_side_from_string ==
  [yes |-> "Bid", bid |-> "Bid", no |-> "Ask", ask |-> "Ask"]

\* A record and, besides its own, the fields of another.
Beside(record, other) ==
  [field \in DOMAIN record \cup DOMAIN other |->
     IF field \in DOMAIN record THEN record[field] ELSE other[field]]

Header(root) ==
  Required(root, "sid", "none") \o Required(root, "seq", "none")

\* Both are of the same moment: `ts_ms` counts milliseconds, and `ts` is the instant
\* that its text says, in microseconds.
MicrosPerMilli == 1000

\* Faulty: the deprecated time of whole seconds is preferred.
exchange_timePrefersTs(body) ==
  IF Sound(body, "ts") THEN body.ts
  ELSE IF Sound(body, "ts_ms") THEN MicrosPerMilli * body.ts_ms ELSE None

\* Milliseconds, failing that whole seconds, failing that nothing; never a
\* problem.
exchange_time(body) ==
  IF Sound(body, "ts_ms") THEN MicrosPerMilli * body.ts_ms ELSE Otherwise(body, "ts", None)

-----------------------------------------------------------------------------
(***************************************************************************)
(* A snapshot.  A side that is absent or null is empty; one bad level of a *)
(* side condemns the message.                                              *)
(***************************************************************************)
Listed == [Bid |-> "yes_dollars_fp", Ask |-> "no_dollars_fp"]

\* Faulty: whichever side is bad, the YES side is named.
SideProblemYesNamed(body, side) ==
  IF Permitted(body, Listed[side], "MalformedLevel") = <<>> THEN <<>>
  ELSE <<[kind |-> "MalformedLevel", field |-> Listed["Bid"]]>>

SideProblem(body, side) ==
  IF Permitted(body, Listed[side], "MalformedLevel") = <<>> THEN <<>>
  ELSE <<[kind |-> "MalformedLevel", field |-> Listed[side]]>>

SnapshotProblems(root) ==
  Header(root)
    \o Required(root.msg, "market_ticker", "none")
    \o SideProblem(root.msg, "Bid")
    \o SideProblem(root.msg, "Ask")

read_snapshot(root) ==
  Unless(SnapshotProblems(root),
         Beside([type |-> "orderbook_snapshot"],
                parse_snapshot([market_ticker |-> root.msg.market_ticker,
                                subscription  |-> root.sid,
                                sequence      |-> root.seq,
                                levels        |-> [side \in Side |->
                                  Otherwise(root.msg, Listed[side], NoLevels)]])))

-----------------------------------------------------------------------------
\* Faulty: a size that cannot be read is taken for a change of nothing.
DeltaProblemsNoSize(root) ==
  Header(root)
    \o Required(root.msg, "market_ticker", "none")
    \o Required(root.msg, "side", "InvalidSide")
    \o Required(root.msg, "price_dollars", "InvalidPrice")

DeltaProblems(root) ==
  Header(root)
    \o Required(root.msg, "market_ticker", "none")
    \o Required(root.msg, "side", "InvalidSide")
    \o Required(root.msg, "price_dollars", "InvalidPrice")
    \o Required(root.msg, "delta_fp", "InvalidQuantity")

read_delta(root) ==
  Unless(DeltaProblems(root),
         Beside([type |-> "orderbook_delta", exchange_time |-> exchange_time(root.msg)],
                parse_delta([market_ticker |-> root.msg.market_ticker,
                             subscription  |-> root.sid,
                             sequence      |-> root.seq,
                             side          |-> book_side_from_string[root.msg.side],
                             price         |-> root.msg.price_dollars,
                             delta         |-> Otherwise(root.msg, "delta_fp", 0)])))

-----------------------------------------------------------------------------
(***************************************************************************)
(* A trade.  The first of three fields that tells the direction is taken.  *)
(***************************************************************************)
\* Faulty: a field that is there decides, readable or not.
TakerFirstPresent(body) ==
  LET told == {field \in {"taker_side", "taker_outcome_side", "taker_book_side"} :
                 Has(body, field)}
      first == IF "taker_side" \in told THEN "taker_side"
               ELSE IF "taker_outcome_side" \in told THEN "taker_outcome_side"
               ELSE "taker_book_side"
  IN  Otherwise(body, first, None)

Taker(body) ==
  Otherwise(body, "taker_side",
            Otherwise(body, "taker_outcome_side",
                      Otherwise(body, "taker_book_side", None)))

TradeProblems(root) ==
  Required(root, "sid", "none")
    \o Required(root.msg, "market_ticker", "none")
    \o Required(root.msg, "trade_id", "none")
    \o Required(root.msg, "yes_price_dollars", "InvalidPrice")
    \o Required(root.msg, "count_fp", "InvalidQuantity")
    \o Permitted(root.msg, "is_block_trade", "none")
    \o (IF Taker(root.msg) # None THEN <<>>
        ELSE <<[kind |-> "InvalidSide", field |-> "taker_side"]>>)

\* A taker who bought NO has, in YES terms, sold.
read_trade(root) ==
  Unless(TradeProblems(root),
         [type           |-> "trade",
          subscription   |-> root.sid,
          market_ticker  |-> root.msg.market_ticker,
          trade_id       |-> root.msg.trade_id,
          yes_price      |-> root.msg.yes_price_dollars,
          quantity       |-> root.msg.count_fp,
          is_block_trade |-> Otherwise(root.msg, "is_block_trade", FALSE),
          taker_side     |-> IF book_side_from_string[Taker(root.msg)] = "Bid"
                             THEN "BuyYes" ELSE "SellYes",
          exchange_time  |-> exchange_time(root.msg)])

-----------------------------------------------------------------------------
read_subscribed(root) ==
  Unless(Required(root, "id", "none")
           \o Required(root.msg, "channel", "none")
           \o Required(root.msg, "sid", "none"),
         [type |-> "subscribed", command_id |-> root.id, channel |-> root.msg.channel,
          subscription |-> root.msg.sid])

\* Some errors are not a reply, so that the command may be missing.
read_error(root) ==
  Unless(Required(root.msg, "code", "none") \o Required(root.msg, "msg", "none"),
         [type |-> "error", command_id |-> Otherwise(root, "id", 0), code |-> root.msg.code,
          message |-> root.msg.msg,
          market_ticker |-> Otherwise(root.msg, "market_ticker", None)])

\* A type that nobody knows is an event and not a failure.
parse_ws_message(root) ==
  IF root = Unparsable THEN Refuse("MalformedJson", NoField)
  ELSE IF root = WrongType THEN Refuse("NotAnObject", NoField)
  ELSE IF Required(root, "type", "none") # <<>>
  THEN Failure(Head(Required(root, "type", "none")))
  ELSE IF root.type \in Handled /\ ~Sound(root, "msg") THEN Refuse("MissingField", "msg")
  ELSE CASE root.type = "orderbook_snapshot" -> read_snapshot(root)
         [] root.type = "orderbook_delta"    -> read_delta(root)
         [] root.type = "trade"              -> read_trade(root)
         [] root.type = "subscribed"         -> read_subscribed(root)
         [] root.type = "error"              -> read_error(root)
         [] OTHER                            -> [type |-> "unhandled", of |-> root.type]
=============================================================================
