------------------------------- MODULE Documents -------------------------------
(***************************************************************************)
(* Documents on their way to a reader, any few of whose fields are lost,   *)
(* change their type or become unreadable: what the venue may do to its    *)
(* messages and markets without notice, and a disk to a journal.           *)
(***************************************************************************)
EXTENDS Messages, Records, FiniteSets

CONSTANTS
  Sources,     \* bound: what is sent or written, as [reader, source]
  ParsedFields,\* fields whose string is parsed further
  MaxDamage    \* bound: fields damaged

VARIABLES
  source,
  document,
  damaged      \* names of the damaged fields

documents == <<source, document, damaged>>

\* The document that the venue, the writer or the recorder makes of a source.
Written(s) ==
  CASE s.reader = "record"   -> encode_journal_record(s.of)
    [] s.reader = "metadata" -> encode_session_metadata(s.of)
    [] OTHER                 -> s.of

Read(reader, object) ==
  CASE reader = "message"  -> parse_ws_message(object)
    [] reader = "record"   -> decode_journal_record(object)
    [] reader = "metadata" -> decode_session_metadata(object)
    [] reader = "market"   -> read_market(object)

DocumentInit(sources) ==
  /\ source \in sources
  /\ document = Written(source)
  /\ damaged = {}

Without(object, field) == [f \in DOMAIN object \ {field} |-> object[f]]

\* An object still, whatever became of the field.
Spoilt(object, field) ==
  ({Without(object, field), [object EXCEPT ![field] = WrongType]}
     \cup {[object EXCEPT ![field] = Unparsable] : f \in {field} \cap ParsedFields})
    \ {WrongType, Unparsable}

Object == document \notin {WrongType, Unparsable}

\* A band that is no object any more, or has lost one of its numbers or prices, or
\* has something else instead.
SpoiltBand(band) ==
  {WrongType} \cup
    UNION {{Without(band, bound), [band EXCEPT ![bound] = WrongType],
            [band EXCEPT ![bound] = IF source.reader = "metadata" THEN NoInteger ELSE Unparsable]}
             : bound \in {b \in Bounds : Sound(band, b) /\ band[b] # NoInteger}}

\* The whole document, or one of its fields, which a message has at two depths, or
\* a band of its list, which goes by the name of the list.
Spoil ==
  /\ Object
  /\ Cardinality(damaged) < MaxDamage
  /\ \/ /\ document' \in {WrongType, Unparsable}
        /\ damaged' = damaged \cup {NoField}
     \/ \E field \in DOMAIN document \ damaged :
          /\ document' \in Spoilt(document, field)
          /\ damaged' = damaged \cup {field}
     \/ /\ source.reader = "message"
        /\ Sound(document, "msg")
        /\ \E field \in DOMAIN document.msg \ damaged :
             /\ document' \in {[document EXCEPT !.msg = body]
                                : body \in Spoilt(document.msg, field)} \ {WrongType, Unparsable}
             /\ damaged' = damaged \cup {field}
     \/ /\ source.reader \in {"metadata", "market"}
        /\ Sound(document, "price_ranges")
        /\ \E i \in DOMAIN document.price_ranges :
             /\ document.price_ranges[i] # WrongType
             /\ document' \in {[document EXCEPT !.price_ranges = [@ EXCEPT ![i] = band]]
                                : band \in SpoiltBand(document.price_ranges[i])}
                               \ {WrongType, Unparsable}
        /\ damaged' = damaged \cup {"price_ranges"}
  /\ UNCHANGED source

DocumentSpec == DocumentInit(Sources) /\ [][Spoil]_documents

-----------------------------------------------------------------------------
(***************************************************************************)
(* What is sent or written can be read, and is what its writer has.        *)
(***************************************************************************)
Fails(result) == result.type = "failure"

Unspoilt(object) ==
  /\ object = [field \in DOMAIN object |-> object[field]]
  /\ object \notin {WrongType, Unparsable}
  /\ \A field \in DOMAIN object : object[field] \notin {WrongType, Unparsable}

TakerFields == {"taker_side", "taker_outcome_side", "taker_book_side"}

\* The fields that tell a trade's direction tell the same.
OneDirection(body) ==
  \A one, other \in TakerFields \cap DOMAIN body :
    /\ body[one] # None
    /\ book_side_from_string[body[one]] = book_side_from_string[body[other]]

\* A field is known by its name alone, which of a message that is timed is not
\* both its own and its body's.
SentMessage(root) ==
  /\ Has(root, "msg") => Unspoilt(root.msg)
  /\ root.type \in {"orderbook_delta", "trade"} => DOMAIN root \cap DOMAIN root.msg = {}
  /\ root.type = "trade" => OneDirection(root.msg)
  /\ ~Fails(parse_ws_message(root))

WrittenRecord(record) ==
  record = [field \in RequiredFields \cup OptionalFields |-> record[field]]

Grids == Seq([Bounds -> Int])

WrittenMetadata(metadata) ==
  /\ metadata = [field \in {"market_ticker", "price_convention", "build", "price_ranges"} |->
                   metadata[field]]
  /\ metadata.price_convention \in {"YesLegPricing", "NoLegPricing"}
  /\ metadata.price_ranges \in Grids

ListedMarket(market) ==
  /\ DOMAIN market \subseteq MarketNames
  /\ ~Fails(read_market(market))
  /\ market.price_ranges \in Grids

ASSUME DocumentsAssumption ==
  /\ "no_leg" \notin {WrongType, Unparsable} /\ WrongType # Unparsable
  /\ WrongType \notin [Bounds -> Int]
  /\ {WrongType, Unparsable, NoInteger} \cap Int = {}
  /\ \A s \in Sources :
       /\ Unspoilt(Written(s))
       /\ \/ s.reader = "message" /\ SentMessage(s.of)
          \/ s.reader = "record" /\ WrittenRecord(s.of)
          \/ s.reader = "metadata" /\ WrittenMetadata(s.of)
          \/ s.reader = "market" /\ ListedMarket(s.of)

-----------------------------------------------------------------------------
outcome == Read(source.reader, document)

intact == Read(source.reader, Written(source))

\* What a reader may say of a field that it could not read, and of no other.
Fallback ==
  [exchange_time |-> None, is_block_trade |-> FALSE, command_id |-> 0,
   market_ticker |-> None]

\* A document is refused, or read as what it was before the damage, except that
\* a field which may be missing may be missed: nothing is ever read into a price,
\* a size, a number or a direction that was not there (ws_protocol.cpp:193-340,
\* journal.cpp:172-243, market.cpp:86-180), but for three things that are read from
\* nothing.  A side that is gone from a snapshot is an empty one; a convention nobody
\* knows is YES-leg pricing; and of the grid in a session's metadata a number that
\* is gone is 0, and one that is no integer is cut to one (replay.cpp:63-88).
SameOrMissing(read, was, fallbacks) ==
  /\ DOMAIN read = DOMAIN was
  /\ \A c \in DOMAIN read :
       \/ read[c] = was[c]
       \/ c \in DOMAIN fallbacks /\ read[c] = fallbacks[c]

SidesSame(read, was) ==
  \A side \in Side :
    read.levels[side] =
      (IF Has(document.msg, Listed[side]) THEN was.levels[side] ELSE NoLevels)

\* The bands of the metadata, number by number.
BandsSame(read, was) ==
  IF Sound(document, "price_ranges")
  THEN /\ DOMAIN read = DOMAIN was
       /\ \A i \in DOMAIN read, bound \in Bounds :
            read[i][bound] =
              (IF ~Has(document.price_ranges[i], bound) THEN 0
               ELSE IF document.price_ranges[i][bound] = NoInteger THEN Cut
               ELSE was[i][bound])
  ELSE read = <<>>

RecordFallback == [field \in OptionalFields |-> Nothing]

MetadataFallback == [build |-> "", price_convention |-> "YesLegPricing"]

MarketFallback == [field \in MarketOptional |-> Nothing]

NothingIsMisread ==
  ~Fails(outcome) /\ outcome.type = intact.type =>
    CASE outcome.type = "orderbook_snapshot" ->
           /\ SidesSame(outcome, intact)
           /\ SameOrMissing(Without(outcome, "levels"), Without(intact, "levels"), Fallback)
      [] outcome.type = "record" ->
           SameOrMissing(outcome.of, intact.of, RecordFallback)
      [] outcome.type = "metadata" ->
           /\ BandsSame(outcome.of.price_ranges, intact.of.price_ranges)
           /\ SameOrMissing(Without(outcome.of, "price_ranges"),
                            Without(intact.of, "price_ranges"), MetadataFallback)
      [] outcome.type = "market" ->
           SameOrMissing(outcome.of, intact.of, MarketFallback)
      [] OTHER ->
           SameOrMissing(IF Has(outcome, "exchange_time")
                         THEN Without(outcome, "exchange_time") ELSE outcome,
                         IF Has(intact, "exchange_time")
                         THEN Without(intact, "exchange_time") ELSE intact,
                         Fallback)

\* What is reported of a damaged field: its name.  But of a version and of a kind
\* nobody knows it is the value (journal.cpp:183-194), and of metadata that are no
\* object these words (replay.cpp:54).
Reported(field) ==
  CASE /\ source.reader = "record"
       /\ field \in {"v", "kind"}
       /\ Object
       /\ Has(document, field)
       /\ document[field] # WrongType -> document[field]
    [] source.reader = "metadata" /\ field = NoField -> "not an object"
    [] OTHER -> field

\* A problem is reported of a field that has one, so that what changed at the
\* venue is known by name (market.cpp:12-17, ws_protocol.cpp:133-137), and what is
\* wrong with a journal by name or value; of the three fields that tell a trade's
\* direction, the first is named for all.
TheDamagedFieldIsNamed ==
  Fails(outcome) =>
    \/ \E field \in damaged : outcome.field = Reported(field)
    \/ outcome.field = "taker_side" /\ damaged \cap TakerFields # {}

\* "Any one suffices": a trade keeps its direction, and is kept, while one of the
\* fields that tell it is left (ws_protocol.cpp:275-290).
DirectionSurvives ==
  /\ source.reader = "message"
  /\ source.of.type = "trade"
  /\ damaged \subseteq TakerFields
  /\ Object /\ \E field \in TakerFields : Sound(document.msg, field)
  => ~Fails(outcome) /\ outcome.taker_side = intact.taker_side

\* A message is timed by its milliseconds whatever becomes of the seconds, and is
\* not refused for want of a time (ws_protocol.cpp:81-97).
TimeIsTheFinest ==
  source.reader = "message" /\ ~Fails(outcome) /\ Has(outcome, "exchange_time") =>
    outcome.exchange_time =
      (IF Has(source.of.msg, "ts_ms") /\ "ts_ms" \notin damaged
       THEN intact.exchange_time
       ELSE IF Sound(document.msg, "ts") THEN document.msg.ts ELSE None)

\* What is written into a journal is what is read from it, with or without each
\* of its optional fields (journal.cpp:142-243), and so are the metadata of a
\* session, grid and convention included (replay.cpp:31-90).
WhatIsWrittenIsRead ==
  source.reader \in {"record", "metadata"} =>
    ~Fails(intact) /\ intact.of = source.of
=============================================================================
