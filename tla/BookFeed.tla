------------------------------- MODULE BookFeed -------------------------------
(***************************************************************************)
(* A venue, a connection that may lose, repeat and reorder anything, and   *)
(* one order book.                                                         *)
(*                                                                         *)
(* The venue keeps the market: bids for YES and bids for NO, each at its   *)
(* own leg's price.  On every subscription of the current connection it    *)
(* numbers what it sends from 1.  The recorder's book sees some of those   *)
(* messages, in any order and any number of times, parsed by WsProtocol    *)
(* and applied by OrderBook.  When the connection drops, the book is       *)
(* invalidated (MarketState::on_disconnected), everything in flight is     *)
(* gone, and the venue may use the same sids and numbers again.            *)
(*                                                                         *)
(* What the book owes its readers: whenever it says it is valid, it is the *)
(* venue's book as of the last message applied.                            *)
(***************************************************************************)
EXTENDS WsProtocol, Sequences

CONSTANTS
  Sids,         \* subscription ids, scoped to a connection
  VenuePrices,  \* prices the venue may quote, whether or not they are legal
  OtherTicker,  \* a market this book is not for
  Changes,      \* the sizes by which the venue may change a level
  Extras,       \* sets of prices a snapshot may list though nothing rests there
  VenueMax,     \* bound: the most that ever rests at a level of the venue
  MaxSequence   \* bound: messages per subscription

ASSUME ConstantsAssumption ==
  /\ ConventionAssumption
  /\ PriceMax \in Nat
  /\ MaxQuantity \in Nat \ {0}
  /\ VenueMax \in Nat
  /\ MaxSequence \in Nat
  /\ Extras \subseteq SUBSET VenuePrices
  /\ VenuePrices \subseteq Int
  /\ Changes \subseteq Int
  /\ OtherTicker # Ticker
  /\ None \notin Nat \cup Sids

VARIABLES
  market,   \* the venue's book: side -> own-leg price -> resting quantity
  history,  \* per sid, the venue's book as of each message it sent there
  channel,  \* every message sent on this connection; delivery removes none
  book      \* the recorder's order book

vars == <<market, history, channel, book>>

Market == [Side -> [VenuePrices -> 0..VenueMax]]

\* The price at which the venue publishes a level of `side`: NO bids go out at
\* their own price unless the subscription asked for YES-leg pricing.
WirePrice(price, side) ==
  IF side = "Ask" /\ Convention = "YesLegPricing" THEN PriceMax - price ELSE price

Open(sid) == history[sid] # <<>>

\* The listed levels of one side of the venue's book, as they go out.
WireLevels(resting, listed, side) ==
  [w \in {WirePrice(p, side) : p \in listed} |-> resting[WirePrice(w, side)]]

SnapshotMessage(sid, ticker, listed) ==
  [type          |-> "orderbook_snapshot",
   market_ticker |-> ticker,
   subscription  |-> sid,
   sequence      |-> Len(history[sid]) + 1,
   levels        |-> [side \in Side |->
                        WireLevels(market[side], listed[side], side)]]

DeltaMessage(sid, side, price, change) ==
  [type          |-> "orderbook_delta",
   market_ticker |-> Ticker,
   subscription  |-> sid,
   sequence      |-> Len(history[sid]) + 1,
   side          |-> side,
   price         |-> WirePrice(price, side),
   delta         |-> change]

Quoted(side) == {p \in VenuePrices : market[side][p] > 0}

Init ==
  /\ market \in Market
  /\ history = [sid \in Sids |-> <<>>]
  /\ channel = {}
  /\ book = AwaitingBook

(***************************************************************************)
(* The venue.                                                              *)
(***************************************************************************)
\* A snapshot lists every quoted level, and may list a level nothing rests at.
SendSnapshot(sid, extra) ==
  /\ Len(history[sid]) < MaxSequence
  /\ channel' = channel \cup
       {SnapshotMessage(sid, Ticker, [side \in Side |-> Quoted(side) \cup extra])}
  /\ history' = [history EXCEPT ![sid] = Append(@, market)]
  /\ UNCHANGED <<market, book>>

\* A message about some other market takes a number of this subscription too.
SendOther(sid) ==
  /\ Open(sid)
  /\ Len(history[sid]) < MaxSequence
  /\ channel' = channel \cup
       {SnapshotMessage(sid, OtherTicker, [side \in Side |-> {}])}
  /\ history' = [history EXCEPT ![sid] = Append(@, market)]
  /\ UNCHANGED <<market, book>>

\* A level changes, and every open subscription is told.
ChangeLevel(side, price, change) ==
  /\ market[side][price] + change \in 0..VenueMax
  /\ \A sid \in Sids : Len(history[sid]) < MaxSequence
  /\ market' = [market EXCEPT ![side][price] = @ + change]
  /\ channel' = channel \cup
       {DeltaMessage(sid, side, price, change) : sid \in {s \in Sids : Open(s)}}
  /\ history' = [sid \in Sids |-> IF Open(sid) THEN Append(history[sid], market')
                                  ELSE history[sid]]
  /\ UNCHANGED book

(***************************************************************************)
(* The recorder.                                                           *)
(***************************************************************************)
DeliverSnapshot(message) ==
  LET snapshot == parse_snapshot(message)
  IN  /\ message.type = "orderbook_snapshot"
      /\ Readable(message)
      /\ \E verdict \in SnapshotVerdicts(snapshot) :
            book' = AfterSnapshot(book, snapshot, verdict)
      /\ UNCHANGED <<market, history, channel>>

DeliverDelta(message) ==
  LET delta == parse_delta(message)
  IN  /\ message.type = "orderbook_delta"
      /\ Readable(message)
      /\ book' = AfterDelta(book, delta, DeltaVerdict(book, delta))
      /\ UNCHANGED <<market, history, channel>>

\* The connection is lost and another one begins, with nothing open on it.
Reconnect ==
  /\ history' = [sid \in Sids |-> <<>>]
  /\ channel' = {}
  /\ book' = AwaitingBook
  /\ UNCHANGED market

Next ==
  \/ \E sid \in Sids : \/ \E extra \in Extras : SendSnapshot(sid, extra)
                       \/ SendOther(sid)
  \/ \E side \in Side, price \in VenuePrices, change \in Changes :
        ChangeLevel(side, price, change)
  \/ \E message \in channel : DeliverSnapshot(message) \/ DeliverDelta(message)
  \/ Reconnect

Spec == Init /\ [][Next]_vars

-----------------------------------------------------------------------------
(***************************************************************************)
(* The venue's book as the recorder should hold it: YES bids where they    *)
(* are, NO bids as offers on the YES scale, nothing where nothing rests.   *)
(***************************************************************************)
YesScale(price, side) == IF side = "Bid" THEN price ELSE PriceMax - price

OnYesScale(resting, prices, side) ==
  [p \in {YesScale(q, side) : q \in prices} |-> resting[YesScale(p, side)]]

MirrorSide(resting, side) ==
  OnYesScale(resting, {q \in VenuePrices : resting[q] > 0}, side)

Mirror(venue) == [side \in Side |-> MirrorSide(venue[side], side)]

TypeOK ==
  /\ market \in Market
  /\ history \in [Sids -> Seq(Market)]
  /\ book \in Books(Sids, Nat \ {0})

\* The book that the recorder's book claims to be: the venue's, as of message
\* last_sequence of the subscription.
InSync ==
  is_valid(book) =>
    /\ book.subscription \in Sids
    /\ book.last_sequence \in 1 .. Len(history[book.subscription])
    /\ book.levels = Mirror(history[book.subscription][book.last_sequence])

\* A delta that takes more than the level holds means the venue and the book
\* disagree (quantity.hpp:80-85).  Whatever was lost, repeated or reordered on
\* the way, no message of this connection can be refused for that reason: a gap
\* is always seen first.
LossIsNeverSeenAsNegative ==
  \A message \in channel :
     message.type = "orderbook_delta" =>
       DeltaVerdict(book, parse_delta(message)) # "QuantityWouldGoNegative"

\* Recovery is not needlessly forced: the message that follows the last one
\* applied, when legal, is one the book will take.
NextDeltaFits ==
  \A message \in channel :
     LET delta == parse_delta(message)
     IN  /\ is_valid(book)
         /\ message.type = "orderbook_delta"
         /\ delta.subscription = book.subscription
         /\ delta.sequence = book.last_sequence + 1
         /\ validate_price(delta.price) = Accepted
         /\ history[delta.subscription][delta.sequence][delta.side]
                   [YesScale(delta.price, delta.side)] <= MaxQuantity
         => DeltaVerdict(book, delta) = Accepted

\* The quotes read off a valid book are the venue's: the best bid is its highest
\* YES bid, the best ask one dollar less its highest NO bid.
HighestBid(venue, side) ==
  LET prices == {p \in VenuePrices : venue[side][p] > 0}
  IN  IF prices = {} THEN None
      ELSE CHOOSE p \in prices : \A q \in prices : q <= p

QuotesAreTheVenues ==
  is_valid(book) =>
    LET venue == history[book.subscription][book.last_sequence]
        no    == HighestBid(venue, "Ask")
    IN  /\ best_bid(book) = HighestBid(venue, "Bid")
        /\ best_ask(book) = (IF no = None THEN None ELSE PriceMax - no)
=============================================================================
