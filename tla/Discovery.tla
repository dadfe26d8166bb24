------------------------------- MODULE Discovery -------------------------------
(***************************************************************************)
(* One scouting of a venue: fetch_all_markets (src/api/market_query.cpp)   *)
(* follows cursors from page to page while the venue's listing changes     *)
(* under it, and the markets it gives are sorted into eligible and         *)
(* rejected (src/apps/scout.cpp).                                          *)
(*                                                                         *)
(* An honest venue lists its markets in one order and its cursor says how  *)
(* far a reader has come; 0 is the empty cursor.  The other venue answers  *)
(* anything.                                                               *)
(***************************************************************************)
EXTENDS Eligibility, FiniteSets

CONSTANTS
  Tickers,     \* markets there may be, in the order they are listed
  Catalogs,    \* what the venue may say of each: ticker -> market, or Unreadable
  Unreadable,  \* a market that read_market refuses
  limit,       \* markets per page
  max_pages,
  Statuses,    \* HTTP status codes there may be
  Clock,       \* readings of the local clock
  MaxChanges   \* bound: changes of the listing

\* The markets of these names, whose statuses are among these.
MarketObjects(tickers, statuses) ==
  [ticker                : tickers,
   mve_collection_ticker : {None} \cup STRING,
   market_type           : STRING,
   status                : statuses,
   price_ranges          : Seq([start : Int, end : Int, step : Int]),
   close_time            : Int,
   open_interest         : Int]

KnownStatuses == {"initialized", "active", "closed", "determined", "finalized"}

\* What is read of such markets, as values of the program.
ReadMarkets == MarketObjects(Tickers, KnownStatuses \cup {"Unknown"})

\* Why no list was fetched, and how the request failed if that is why.
QueryErrors ==
  [kind  : {"Rest", "Parse", "CursorNotAdvancing", "PageLimitReached"},
   cause : {None, "Transport", "RateLimited", "NotFound", "ClientError", "ServerError",
            "UnexpectedStatus"}]

Selections ==
  [eligible : Seq(ReadMarkets),
   rejected : Seq([market : ReadMarkets, reason : Structural \cup Selection])]

ASSUME DiscoveryAssumption ==
  /\ Tickers \subseteq Nat \ {0}
  /\ IsFiniteSet(Tickers)
  /\ \A catalog \in Catalogs, t \in Tickers :
        catalog[t] \in {Unreadable} \cup MarketObjects({t}, STRING)
  /\ limit \in Nat \ {0}
  /\ max_pages \in Nat
  /\ Clock \subseteq Int
  /\ MaxChanges \in Nat

\* An empty std::optional is none of the values it may hold.
ASSUME NoneAssumption ==
  /\ None \notin QueryErrors
  /\ None \notin [as_of : Clock, selection : Selections]

VARIABLES
  venue,    \* the venue's markets, and which of them have been listed
  scout,    \* the local variables of fetch_all_markets, then its result
  universe  \* the UniverseSelection, or None

vars == <<venue, scout, universe>>

NoCursor == 0

-----------------------------------------------------------------------------
(***************************************************************************)
(* The venue.  `listed` is listed now, `throughout` has been since the     *)
(* first request, and `ever` at some time since.                           *)
(***************************************************************************)
After(cursor) == {t \in venue.listed : t > cursor}

\* Some of the markets, in the order in which they are listed.
InOrder(markets) ==
  CHOOSE listing \in [1 .. Cardinality(markets) -> markets] :
     /\ ToSet(listing) = markets
     /\ \A i, j \in DOMAIN listing : i < j => listing[i] < listing[j]

\* The page at a cursor; the last page may carry a cursor, to an empty one.
HonestPages(cursor) ==
  LET ahead == InOrder(After(cursor))
      page  == SubSeq(ahead, 1, IF Len(ahead) < limit THEN Len(ahead) ELSE limit)
      full  == IF page = <<>> THEN {} ELSE {[tickers |-> page, cursor |-> Last(page)]}
      last  == {[tickers |-> page, cursor |-> NoCursor]}
  IN  IF Len(ahead) > limit THEN full
      ELSE IF Len(ahead) = limit THEN full \cup last
      ELSE last

Pages(cursor) ==
  IF venue.honest THEN HonestPages(cursor)
  ELSE [tickers : {<<>>} \cup {<<t>> : t \in venue.listed},
        cursor  : Tickers \cup {NoCursor}]

\* What the transport returns: nothing, a status, or a body with its status.
Responses(cursor) ==
  {[status |-> None, page |-> None]}
    \cup {[status |-> status, page |-> None] : status \in Statuses}
    \cup {[status |-> 200, page |-> page] : page \in Pages(cursor)}

List ==
  /\ venue.honest
  /\ scout.phase = "fetching"
  /\ venue.changes < MaxChanges
  /\ \E t \in Tickers :
        venue' = [venue EXCEPT
                    !.listed     = IF t \in @ THEN @ \ {t} ELSE @ \cup {t},
                    !.throughout = @ \ {t},
                    !.ever       = @ \cup {t},
                    !.changes    = @ + 1]
  /\ UNCHANGED <<scout, universe>>

-----------------------------------------------------------------------------
(***************************************************************************)
(* One page.                                                               *)
(***************************************************************************)
RestErrorKind(status) ==
  CASE status = None          -> "Transport"
    [] status = 429           -> "RateLimited"
    [] status = 404           -> "NotFound"
    [] status \in 500 .. 599  -> "ServerError"
    [] status \in (400 .. 499) \ {404, 429} -> "ClientError"
    [] OTHER                  -> "UnexpectedStatus"

Failed(kind, cause) ==
  [scout EXCEPT !.phase = "failed", !.error = [kind |-> kind, cause |-> cause]]

market_status_from_string(text) == IF text \in KnownStatuses THEN text ELSE "Unknown"

\* A status nobody knows is no error; any other field that is not what it should
\* be makes the market unreadable.
read_market(object) == [object EXCEPT !.status = market_status_from_string(@)]

\* A body that is no page, or one market of it that cannot be read, fails all.  A
\* cursor that is no string fails nothing: it is NoCursor, as one that is missing.
Parses(page) ==
  page # None /\ \A i \in DOMAIN page.tickers : venue.catalog[page.tickers[i]] # Unreadable

\* Faulty: one request more than max_pages.
TurnOneMore(s) ==
  IF s.page_number <= max_pages THEN s
  ELSE [s EXCEPT !.phase = "failed", !.error = [kind |-> "PageLimitReached", cause |-> None]]

\* Faulty: a list cut short by the limit is returned as if it were whole.
TurnTruncated(s) ==
  IF s.page_number < max_pages THEN s ELSE [s EXCEPT !.phase = "fetched"]

\* The head of the loop, and what follows the loop.
Turn(s) ==
  IF s.page_number < max_pages THEN s
  ELSE [s EXCEPT !.phase = "failed", !.error = [kind |-> "PageLimitReached", cause |-> None]]

\* Faulty: pages are not counted, a cursor that advances being taken for progress.
FollowedUncounted(fetched, cursor) ==
  [fetched EXCEPT !.cursor = cursor]

Followed(fetched, cursor) ==
  Turn([fetched EXCEPT !.cursor = cursor, !.page_number = @ + 1])

AfterPage(page) ==
  LET fetched == [scout EXCEPT
                    !.markets = @ \o [i \in DOMAIN page.tickers |->
                                        read_market(venue.catalog[page.tickers[i]])]]
  IN  IF page.cursor = NoCursor THEN [fetched EXCEPT !.phase = "fetched"]
      ELSE IF page.cursor = scout.cursor THEN Failed("CursorNotAdvancing", None)
      ELSE Followed(fetched, page.cursor)

AfterResponse(response) ==
  IF response.status \notin 200 .. 299
  THEN Failed("Rest", RestErrorKind(response.status))
  ELSE IF ~Parses(response.page) THEN Failed("Parse", None)
  ELSE AfterPage(response.page)

-----------------------------------------------------------------------------
Init ==
  /\ \E catalog \in Catalogs, honest \in BOOLEAN, listed \in SUBSET Tickers :
        venue = [catalog    |-> catalog,
                 honest     |-> honest,
                 listed     |-> listed,
                 throughout |-> listed,
                 ever       |-> listed,
                 changes    |-> 0]
  /\ scout = Turn([phase       |-> "fetching",
                   markets     |-> <<>>,
                   cursor      |-> NoCursor,
                   page_number |-> 0,
                   requests    |-> 0,  \* sent so far
                   error       |-> None])
  /\ universe = None

Fetch ==
  /\ scout.phase = "fetching"
  /\ \E response \in Responses(scout.cursor) :
        scout' = [AfterResponse(response) EXCEPT !.requests = @ + 1]
  /\ UNCHANGED <<venue, universe>>

Select ==
  /\ scout.phase = "fetched"
  /\ \E as_of \in Clock :
        universe' = [as_of |-> as_of, selection |-> select_universe(scout.markets, as_of)]
  /\ scout' = [scout EXCEPT !.phase = "selected"]
  /\ UNCHANGED venue

Next == List \/ Fetch \/ Select

Spec == Init /\ [][Next]_vars

-----------------------------------------------------------------------------
Markets ==
  {read_market(venue.catalog[t]) : t \in {u \in Tickers : venue.catalog[u] # Unreadable}}

TypeOK ==
  /\ venue.catalog \in Catalogs
  /\ venue.listed \cup venue.throughout \cup venue.ever \subseteq Tickers
  /\ venue.changes \in 0 .. MaxChanges
  /\ scout.phase \in {"fetching", "fetched", "selected", "failed"}
  /\ scout.markets \in Seq(Markets)
  /\ scout.cursor \in Tickers \cup {NoCursor}
  /\ scout.phase = "fetching" => scout.page_number \in 0 .. max_pages - 1
  /\ (scout.error = None) <=> (scout.phase # "failed")
  /\ (universe = None) <=> (scout.phase # "selected")

\* "Returning a truncated list silently would understate the universe"
\* (market_query.cpp:130): when the venue is honest, the markets returned are all
\* that it has listed since the first request, none of them twice, and no other
\* than it has listed, however its listing changed from page to page.
NothingMissed ==
  LET found == {scout.markets[i].ticker : i \in DOMAIN scout.markets}
  IN  venue.honest /\ scout.phase \in {"fetched", "selected"} =>
        /\ venue.throughout \subseteq found
        /\ found \subseteq venue.ever
        /\ Cardinality(found) = Len(scout.markets)

\* "This is an unbounded loop driven by a remote server" (market_query.hpp):
\* whatever a venue answers, it is asked at most max_pages times.
RequestsAreBounded == scout.requests <= max_pages

\* The grid of a market is one that a book can use: each band's ends are prices
\* the book accepts, and no price is on two bands.
SoundGrid(price_ranges) ==
  /\ price_ranges # <<>>
  /\ \A band \in ToSet(price_ranges) :
        /\ band.start # band.end
        /\ Book(<<band>>)!validate_price(band.start) = "Accepted"
        /\ Book(<<band>>)!validate_price(band.end) = "Accepted"
  /\ \A price \in 0 .. PriceMax :
        Cardinality({i \in DOMAIN price_ranges :
                       price \in price_ranges[i].start .. price_ranges[i].end}) <= 1

Representable(market) ==
  /\ market.mve_collection_ticker \in {None, ""}
  /\ market.market_type = "binary"
  /\ market.status \in KnownStatuses
  /\ SoundGrid(market.price_ranges)

Wanted(market, as_of) ==
  /\ required_status \in {None, market.status}
  /\ market.close_time > as_of
  /\ market.close_time >= as_of + minimum_time_to_close
  /\ market.open_interest >= minimum_open_interest

\* Every market that was found, can be represented and is wanted is in the
\* universe, and no other: what the book does with a grid and what the filter
\* thinks of it agree.
UniverseIsTheRule ==
  universe # None =>
    \A market \in ToSet(scout.markets) :
       market \in ToSet(universe.selection.eligible)
         <=> Representable(market) /\ Wanted(market, universe.as_of)

\* "The reason reported is the most fundamental one" (eligibility.cpp:108): a
\* market said to be left out by choice is one that could have been recorded.
ChosenIsRepresentable ==
  universe # None =>
    \A rejection \in ToSet(universe.selection.rejected) :
       rejection.reason \in Selection => Representable(rejection.market)
=============================================================================
