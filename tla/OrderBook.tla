------------------------------ MODULE OrderBook ------------------------------
(***************************************************************************)
(* One market's aggregated L2 book on the YES price scale                  *)
(* (src/book/order_book.cpp), as a record and the operators that apply a   *)
(* normalized message to it.  Every machine that owns a book uses these    *)
(* operators, as live collection and replay share the C++ class.           *)
(*                                                                         *)
(* A side is a map from price to resting quantity, as std::map is: a price *)
(* that is not in the map's domain has no level.  A snapshot lists a price *)
(* at most once per side (the venue aggregates by price).                  *)
(***************************************************************************)
EXTENDS Integers

CONSTANTS
  Ticker,       \* the market this book is for
  PriceMax,     \* the price of one dollar: 10000 units in the code
  Bands,        \* the market's published price_ranges
  MaxQuantity,  \* the largest Quantity: 2^63 - 1 in the code
  None          \* an empty std::optional

Side == {"Bid", "Ask"}

Accepted == "Accepted"

(***************************************************************************)
(* Prices: settlement bounds, then the tick grid when one is known.        *)
(***************************************************************************)
is_valid_yes_price(price) == price \in 0..PriceMax

OnBand(price, band) ==
  /\ band.step > 0
  /\ price \in band.start .. band.end
  /\ (price - band.start) % band.step = 0

is_on_price_grid(price) == \E band \in Bands : OnBand(price, band)

validate_price(price) ==
  IF ~is_valid_yes_price(price) THEN "PriceOutOfBounds"
  ELSE IF Bands # {} /\ ~is_on_price_grid(price) THEN "PriceOffGrid"
  ELSE Accepted

(***************************************************************************)
(* One side of the book.                                                   *)
(***************************************************************************)
NoLevels == [price \in {} |-> 0]

Resting(levels, price) ==
  IF price \in DOMAIN levels THEN levels[price] ELSE 0

\* Faulty: the level that falls to zero is not erased.
WithLevelNeverErased(levels, price, quantity) ==
  [p \in DOMAIN levels \cup {price} |-> IF p = price THEN quantity ELSE levels[p]]

\* Emplace, overwrite or erase: no level is ever stored with nothing in it.
WithLevel(levels, price, quantity) ==
  [p \in IF quantity = 0 THEN DOMAIN levels \ {price}
                         ELSE DOMAIN levels \cup {price}
     |-> IF p = price THEN quantity ELSE levels[p]]

WithoutZeroLevels(listed) ==
  [p \in {q \in DOMAIN listed : listed[q] > 0} |-> listed[p]]

\* Faulty: a level may not reach the largest quantity.
apply_deltaOffByOne(quantity, delta) ==
  IF delta < 0
  THEN IF quantity + delta < 0 THEN "QuantityWouldGoNegative" ELSE Accepted
  ELSE IF quantity >= MaxQuantity - delta THEN "QuantityOverflow" ELSE Accepted

\* Why a change of `delta` to a level that holds `quantity` is impossible.
apply_delta(quantity, delta) ==
  IF delta < 0
  THEN IF quantity + delta < 0 THEN "QuantityWouldGoNegative" ELSE Accepted
  ELSE IF quantity > MaxQuantity - delta THEN "QuantityOverflow" ELSE Accepted

(***************************************************************************)
(* The book.                                                               *)
(***************************************************************************)
AwaitingBook ==
  [status        |-> "AwaitingSnapshot",
   levels        |-> [side \in Side |-> NoLevels],
   last_sequence |-> None,
   subscription  |-> None]

is_valid(book) == book.status = "Valid"

\* Whether a rejection says that the book can no longer be trusted, as opposed
\* to the message being meant for something else.
invalidates_book(rejection) ==
  rejection \notin {Accepted, "WrongMarket", "DeltaBeforeSnapshot"}

\* The book after a message refused with `rejection`.
Refused(book, rejection) ==
  IF invalidates_book(rejection) THEN AwaitingBook ELSE book

(***************************************************************************)
(* apply(BookSnapshot): everything is validated before anything is stored, *)
(* and continuity with what came before is not checked.  The levels are    *)
(* validated in the order listed, so the rejection reported is one of the  *)
(* problems present; all of them invalidate.                               *)
(***************************************************************************)
LevelProblem(price, quantity) ==
  LET problem == validate_price(price)
  IN  IF problem # Accepted THEN problem
      ELSE IF quantity < 0 THEN "NegativeSnapshotLevel"
      ELSE Accepted

LevelProblems(snapshot) ==
  {problem \in UNION {{LevelProblem(p, snapshot.levels[side][p])
                         : p \in DOMAIN snapshot.levels[side]} : side \in Side}
     : problem # Accepted}

SnapshotVerdicts(snapshot) ==
  IF snapshot.market_ticker # Ticker THEN {"WrongMarket"}
  ELSE IF LevelProblems(snapshot) # {} THEN LevelProblems(snapshot)
  ELSE {Accepted}

\* Faulty: the levels of before are not cleared.
AfterSnapshotUncleared(book, snapshot, verdict) ==
  LET new(side) == WithoutZeroLevels(snapshot.levels[side])
      old(side) == book.levels[side]
  IN  IF verdict = Accepted
      THEN [status        |-> "Valid",
            levels        |-> [side \in Side |->
                                 [p \in DOMAIN new(side) \cup DOMAIN old(side) |->
                                    Resting(IF p \in DOMAIN new(side) THEN new(side)
                                            ELSE old(side), p)]],
            last_sequence |-> snapshot.sequence,
            subscription  |-> snapshot.subscription]
      ELSE Refused(book, verdict)

AfterSnapshot(book, snapshot, verdict) ==
  IF verdict = Accepted
  THEN [status        |-> "Valid",
        levels        |-> [side \in Side |->
                             WithoutZeroLevels(snapshot.levels[side])],
        last_sequence |-> snapshot.sequence,
        subscription  |-> snapshot.subscription]
  ELSE Refused(book, verdict)

(***************************************************************************)
(* apply(BookDelta): the checks in the order the code makes them.          *)
(***************************************************************************)
\* Faulty: only an old number is refused, not a gap.
DeltaVerdictNoGap(book, delta) ==
  IF delta.market_ticker # Ticker THEN "WrongMarket"
  ELSE IF ~is_valid(book) THEN "DeltaBeforeSnapshot"
  ELSE IF delta.subscription # book.subscription THEN "SubscriptionMismatch"
  ELSE IF delta.sequence < book.last_sequence + 1 THEN "SequenceRegressed"
  ELSE IF validate_price(delta.price) # Accepted THEN validate_price(delta.price)
  ELSE apply_delta(Resting(book.levels[delta.side], delta.price), delta.delta)

DeltaVerdict(book, delta) ==
  IF delta.market_ticker # Ticker THEN "WrongMarket"
  ELSE IF ~is_valid(book) THEN "DeltaBeforeSnapshot"
  ELSE IF delta.subscription # book.subscription THEN "SubscriptionMismatch"
  ELSE IF delta.sequence > book.last_sequence + 1 THEN "SequenceGap"
  ELSE IF delta.sequence < book.last_sequence + 1 THEN "SequenceRegressed"
  ELSE IF validate_price(delta.price) # Accepted THEN validate_price(delta.price)
  ELSE apply_delta(Resting(book.levels[delta.side], delta.price), delta.delta)

AfterDelta(book, delta, verdict) ==
  IF verdict = Accepted
  THEN [book EXCEPT
          !.levels[delta.side] =
             WithLevel(@, delta.price, Resting(@, delta.price) + delta.delta),
          !.last_sequence = delta.sequence]
  ELSE Refused(book, verdict)

(***************************************************************************)
(* What the book reports.                                                  *)
(***************************************************************************)
Highest(prices) == CHOOSE p \in prices : \A q \in prices : q <= p
Lowest(prices) == CHOOSE p \in prices : \A q \in prices : p <= q

HasQuote(book, side) == is_valid(book) /\ DOMAIN book.levels[side] # {}

\* Faulty: the wrong end of the bids.
best_bidLowest(book) ==
  IF HasQuote(book, "Bid") THEN Lowest(DOMAIN book.levels["Bid"]) ELSE None

best_bid(book) ==
  IF HasQuote(book, "Bid") THEN Highest(DOMAIN book.levels["Bid"]) ELSE None

best_ask(book) ==
  IF HasQuote(book, "Ask") THEN Lowest(DOMAIN book.levels["Ask"]) ELSE None

\* A crossed or locked book is reported, not refused.
is_crossed(book) ==
  /\ best_bid(book) # None
  /\ best_ask(book) # None
  /\ best_bid(book) >= best_ask(book)

(***************************************************************************)
(* The shape of a book: a valid one holds only levels the venue can quote, *)
(* with something resting at each; one awaiting a snapshot holds nothing.  *)
(***************************************************************************)
LegalPrices == {price \in 0..PriceMax : validate_price(price) = Accepted}

Levels == UNION {[prices -> 1..MaxQuantity] : prices \in SUBSET LegalPrices}

ValidBooks(Subscriptions, Sequences) ==
  [status        : {"Valid"},
   levels        : [Side -> Levels],
   last_sequence : Sequences,
   subscription  : Subscriptions]

Books(Subscriptions, Sequences) ==
  {AwaitingBook} \cup ValidBooks(Subscriptions, Sequences)
=============================================================================
