-------------------------------- MODULE Records --------------------------------
(***************************************************************************)
(* The documents that are read back or fetched: a line of the journal      *)
(* (src/data/journal.cpp), the metadata in a session's first record        *)
(* (src/replay/replay.cpp), and a market of the REST interface             *)
(* (src/api/market.cpp).                                                   *)
(***************************************************************************)
EXTENDS Integers, Json

CONSTANTS
  Nothing,   \* an empty std::optional
  NoInteger  \* a boolean or a real number, where an integer is asked for

kJournalVersion == 1

RequiredFields == {"kind", "t_local_us", "conn", "type", "payload"}

OptionalFields == {"t_exchange_us", "sid", "seq", "ticker", "market_id"}

\* A field that is absent and one of the wrong form are the same problem.
Needed(document, field, kind) ==
  IF Sound(document, field) THEN <<>> ELSE <<[kind |-> kind, field |-> field]>>

\* What a record does not have is left out, rather than written as null.
encode_journal_record(record) ==
  [field \in {"v"} \cup RequiredFields
               \cup {f \in OptionalFields : record[f] # Nothing} |->
     IF field = "v" THEN kJournalVersion ELSE record[field]]

\* Of a version nobody knows the value is reported, and not the field.
VersionProblem(line) ==
  IF ~Has(line, "v") \/ line.v = WrongType
  THEN <<[kind |-> "MissingField", field |-> "v"]>>
  ELSE IF line.v # kJournalVersion
  THEN <<[kind |-> "UnsupportedVersion", field |-> line.v]>>
  ELSE <<>>

\* A kind nobody knows is a malformed record, of which the text is reported.
KindProblem(line) ==
  IF Has(line, "kind") /\ line.kind = Unparsable
  THEN <<[kind |-> "MalformedRecord", field |-> line.kind]>>
  ELSE Needed(line, "kind", "MissingField")

RecordProblems(line) ==
  VersionProblem(line)
    \o KindProblem(line)
    \o Needed(line, "t_local_us", "MissingField")
    \o Needed(line, "conn", "MissingField")
    \o Needed(line, "type", "MissingField")
    \o Needed(line, "payload", "MissingField")

decode_journal_record(line) ==
  IF line \in {WrongType, Unparsable} THEN Refuse("MalformedRecord", NoField)
  ELSE Unless(RecordProblems(line),
              [type |-> "record",
               of   |-> [field \in RequiredFields \cup OptionalFields |->
                           IF field \in RequiredFields THEN line[field]
                           ELSE Otherwise(line, field, Nothing)]])

-----------------------------------------------------------------------------
\* Faulty: the grid is left behind.
encode_session_metadataNoGrid(metadata) ==
  [metadata EXCEPT !.price_convention =
                     IF @ = "YesLegPricing" THEN "yes_leg" ELSE "no_leg",
                   !.price_ranges = <<>>]

encode_session_metadata(metadata) ==
  [metadata EXCEPT !.price_convention =
                     IF @ = "YesLegPricing" THEN "yes_leg" ELSE "no_leg"]

Bounds == {"start", "end", "step"}

ListedBands(document) == Otherwise(document, "price_ranges", <<>>)

\* What a real number or a boolean is cut to, as 1.5 and true are.
Cut == 1

\* A band may lack a number, which then is 0.
BandValue(band, bound) ==
  IF ~Has(band, bound) THEN 0
  ELSE IF band[bound] = NoInteger THEN Cut ELSE band[bound]

BandsOf(document) ==
  [i \in DOMAIN ListedBands(document) |->
     [bound \in Bounds |-> BandValue(ListedBands(document)[i], bound)]]

\* What is no number at all throws (band.value), and nobody catches it.
Throws(band) ==
  band # WrongType /\ \E bound \in Bounds : Has(band, bound) /\ ~Sound(band, bound)

\* The bands are read in their order, and one that is no object is refused.
RefusedBands(bands) ==
  {i \in DOMAIN bands : /\ bands[i] = WrongType
                        /\ \A j \in DOMAIN bands : j < i => ~Throws(bands[j])}

MetadataProblems(document) ==
  Needed(document, "market_ticker", "MalformedMetadata")
    \o (IF Has(document, "price_convention") /\ document.price_convention # WrongType
        THEN <<>>
        ELSE <<[kind |-> "MalformedMetadata", field |-> "price_convention"]>>)
    \o (IF RefusedBands(ListedBands(document)) = {} THEN <<>>
        ELSE <<[kind |-> "MalformedMetadata", field |-> "price_ranges"]>>)

\* A convention that is not "no_leg" is taken for the other one.
decode_session_metadata(document) ==
  IF document \in {WrongType, Unparsable} THEN Refuse("MalformedMetadata", "not an object")
  ELSE Unless(MetadataProblems(document),
              IF \E i \in DOMAIN ListedBands(document) : Throws(ListedBands(document)[i])
              THEN [type |-> "thrown"]
              ELSE [type |-> "metadata",
                    of   |-> [market_ticker    |-> document.market_ticker,
                              price_convention |-> IF document.price_convention = "no_leg"
                                                   THEN "NoLegPricing" ELSE "YesLegPricing",
                              build            |-> Otherwise(document, "build", ""),
                              price_ranges     |-> BandsOf(document)]])

-----------------------------------------------------------------------------
(***************************************************************************)
(* read_market.  Null is as good as absent where absence is allowed.       *)
(***************************************************************************)
MarketFields ==
  << <<"ticker", "none">>, <<"event_ticker", "none">>, <<"market_type", "none">>,
     <<"status", "none">>, <<"price_level_structure", "none">> >>

MarketNumbers ==
  << <<"yes_bid_dollars", "InvalidPrice">>, <<"yes_ask_dollars", "InvalidPrice">>,
     <<"yes_bid_size_fp", "InvalidQuantity">>, <<"yes_ask_size_fp", "InvalidQuantity">>,
     <<"last_price_dollars", "InvalidPrice">>, <<"volume_fp", "InvalidQuantity">>,
     <<"volume_24h_fp", "InvalidQuantity">>, <<"open_interest_fp", "InvalidQuantity">>,
     <<"can_close_early", "none">> >>

AllRequired(object, fields) ==
  LET problems[i \in 0..Len(fields)] ==
        IF i = 0 THEN <<>>
        ELSE problems[i - 1] \o Required(object, fields[i][1], fields[i][2])
  IN  problems[Len(fields)]

\* Any problem of any band is one of the list.
GridProblems(object) ==
  LET problems == Required(object, "price_ranges", "InvalidPriceRange")
  IN  IF problems # <<>> THEN problems
      ELSE IF \A i \in DOMAIN object.price_ranges :
                LET band == object.price_ranges[i]
                IN  /\ band # WrongType
                    /\ \A bound \in Bounds : Sound(band, bound) /\ band[bound] # NoInteger
      THEN <<>>
      ELSE <<[kind |-> "InvalidPriceRange", field |-> "price_ranges"]>>

MarketProblems(object) ==
  AllRequired(object, MarketFields)
    \o GridProblems(object)
    \o Required(object, "open_time", "InvalidTimestamp")
    \o Required(object, "close_time", "InvalidTimestamp")
    \o Permitted(object, "expected_expiration_time", "InvalidTimestamp")
    \o Permitted(object, "mve_collection_ticker", "none")
    \o AllRequired(object, MarketNumbers)

MarketOptional == {"expected_expiration_time", "mve_collection_ticker"}

MarketNames ==
  {MarketFields[i][1] : i \in DOMAIN MarketFields}
    \cup {"price_ranges", "open_time", "close_time"} \cup MarketOptional
    \cup {MarketNumbers[i][1] : i \in DOMAIN MarketNumbers}

read_market(object) ==
  IF object \in {WrongType, Unparsable} THEN Refuse("NotAnObject", NoField)
  ELSE Unless(MarketProblems(object),
              [type |-> "market",
               of   |-> [field \in DOMAIN object \cup MarketOptional |->
                           IF field \in MarketOptional
                           THEN Otherwise(object, field, Nothing)
                           ELSE object[field]]])
=============================================================================
