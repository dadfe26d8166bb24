------------------------------ MODULE Eligibility ------------------------------
(***************************************************************************)
(* Which markets are in the research universe (src/api/eligibility.cpp):   *)
(* a market is eligible, or rejected for the first reason there is.        *)
(***************************************************************************)
EXTENDS Integers, Sequences, SequencesExt

CONSTANTS
  PriceMax,               \* the price of one dollar
  None,                   \* an empty std::optional
  required_status,        \* a MarketStatus, or None
  minimum_time_to_close,
  minimum_open_interest

ASSUME CriteriaAssumption ==
  /\ PriceMax \in Nat
  /\ minimum_time_to_close \in Int
  /\ minimum_open_interest \in Int

\* The book of a market that publishes these price_ranges.
Book(price_ranges) ==
  INSTANCE OrderBook WITH Bands <- ToSet(price_ranges), Ticker <- None, MaxQuantity <- 0

Eligible == "eligible"

Structural ==
  {"Multivariate", "NotBinaryMarket", "UnknownStatus", "NoPriceGrid",
   "MalformedPriceGrid", "PriceGridOutOfBounds", "OverlappingPriceBands"}

Selection ==
  {"StatusNotRequested", "AlreadyClosed", "ClosesTooSoon", "InsufficientOpenInterest"}

-----------------------------------------------------------------------------
(***************************************************************************)
(* Each check is a sequence of what it finds, in the order of the code;    *)
(* the first finding is the reason.                                        *)
(***************************************************************************)
When(problem, reason) == IF problem THEN <<reason>> ELSE <<>>

FirstOf(findings) == IF findings = <<>> THEN Eligible ELSE Head(findings)

BandProblems(band) ==
  When(band.step <= 0 \/ band.start >= band.end, "MalformedPriceGrid")
    \o When({band.start, band.end} \ (0 .. PriceMax) # {}, "PriceGridOutOfBounds")
    \o When(band.step > 0 /\ (band.end - band.start) % band.step # 0, "MalformedPriceGrid")

Disjoint(a, b) == a.end < b.start \/ b.end < a.start

\* Faulty: bands that share an end are taken to be disjoint.
OverlapsBeyondTheEnd(price_ranges) ==
  \E i, j \in DOMAIN price_ranges :
     /\ i < j
     /\ price_ranges[i].end > price_ranges[j].start
     /\ price_ranges[j].end > price_ranges[i].start

Overlaps(price_ranges) ==
  \E i, j \in DOMAIN price_ranges :
     i < j /\ ~Disjoint(price_ranges[i], price_ranges[j])

validate_price_grid(price_ranges) ==
  When(price_ranges = <<>>, "NoPriceGrid")
    \o FlattenSeq([i \in DOMAIN price_ranges |-> BandProblems(price_ranges[i])])
    \o When(Overlaps(price_ranges), "OverlappingPriceBands")

is_multivariate(market) == market.mve_collection_ticker \notin {None, ""}

\* What this software cannot represent.
StructuralProblems(market) ==
  When(is_multivariate(market), "Multivariate")
    \o When(market.market_type # "binary", "NotBinaryMarket")
    \o When(market.status = "Unknown", "UnknownStatus")
    \o validate_price_grid(market.price_ranges)

\* What the study chose not to look at.
SelectionProblems(market, as_of) ==
  When(required_status # None /\ market.status # required_status, "StatusNotRequested")
    \o When(market.close_time <= as_of, "AlreadyClosed")
    \o When(market.close_time - as_of < minimum_time_to_close, "ClosesTooSoon")
    \o When(market.open_interest < minimum_open_interest, "InsufficientOpenInterest")

\* Faulty: what was chosen is looked at before what can be represented.
check_eligibilitySelectionFirst(market, as_of) ==
  FirstOf(SelectionProblems(market, as_of) \o StructuralProblems(market))

check_eligibility(market, as_of) ==
  FirstOf(StructuralProblems(market) \o SelectionProblems(market, as_of))

\* A selection, with one market more on the side where its reason puts it.
Sorted(selection, market, reason) ==
  IF reason = Eligible
  THEN [selection EXCEPT !.eligible = Append(@, market)]
  ELSE [selection EXCEPT !.rejected = Append(@, [market |-> market, reason |-> reason])]

select_universe(markets, as_of) ==
  LET selection[n \in 0 .. Len(markets)] ==
        IF n = 0 THEN [eligible |-> <<>>, rejected |-> <<>>]
        ELSE Sorted(selection[n - 1], markets[n], check_eligibility(markets[n], as_of))
  IN  selection[Len(markets)]
=============================================================================
