-------------------------------- MODULE Replay --------------------------------
(***************************************************************************)
(* Offline replay of a journal (replay_segments in src/replay/replay.cpp): *)
(* one pass over the records, in order, with the same normalizer and the   *)
(* same MarketState as the live recording.                                 *)
(*                                                                         *)
(* A record is of a kind, has a time and the connection it was written on, *)
(* and a payload: of a Message the message as the venue sent it, of a      *)
(* SessionStarted the metadata, or Unreadable when the payload cannot be   *)
(* parsed.  The grid and the convention are those of the metadata, so that *)
(* they are parameters here and not constants.                             *)
(***************************************************************************)
EXTENDS Integers, Sequences

CONSTANTS Ticker, PriceMax, MaxQuantity, None

Market(price_grid) == INSTANCE MarketState WITH Bands <- price_grid

Wire(price_convention) ==
  INSTANCE WsProtocol WITH Convention <- price_convention, Bands <- {}

RecordKinds == {"SessionStarted", "ConnectionLost", "Message", "SessionEnded"}

Unreadable == [type |-> "unparsed"]

\* The event that parse_ws_message makes of a message that it can read.
Normalized(wire, price_convention) ==
  CASE wire.type = "orderbook_snapshot" ->
         [wire EXCEPT !.levels =
            [side \in DOMAIN @ |-> Wire(price_convention)!ParsedLevels(@[side], side)]]
    [] wire.type = "orderbook_delta" ->
         [wire EXCEPT !.price =
            Wire(price_convention)!yes_price_from_book_entry(@, wire.side)]
    [] OTHER -> wire

Options(metadata_override, stop_on_parse_failure) ==
  [metadata_override     |-> metadata_override,
   stop_on_parse_failure |-> stop_on_parse_failure]

DefaultOptions == Options(None, FALSE)

NewReplay(options) ==
  [error          |-> None,
   metadata       |-> options.metadata_override,
   state          |-> None,   \* created at the first record that needs it
   last_time      |-> None,
   records        |-> 0,
   messages       |-> 0,
   parse_failures |-> 0,
   lifecycle      |-> 0]

Fail(replay, kind) == [replay EXCEPT !.error = kind]

\* What is replayed is the state of the metadata's grid.
Held(replay) ==
  IF replay.state # None THEN replay.state
  ELSE Market(replay.metadata.price_grid)!NewMarketState

\* The metadata are the first session's, unless they are overridden.
ReplaySession(replay, record) ==
  LET counted == [replay EXCEPT !.lifecycle = @ + 1]
  IN  IF replay.metadata # None THEN counted
      ELSE IF record.payload = Unreadable THEN Fail(counted, "MalformedMetadata")
      ELSE [counted EXCEPT !.metadata = record.payload]

\* Faulty: the convention is assumed.
ReplayMessageAssumed(replay, record, options) ==
  LET counted  == [replay EXCEPT !.messages = @ + 1, !.state = Held(replay)]
      failed   == [counted EXCEPT !.parse_failures = @ + 1]
      metadata == replay.metadata
  IN  IF record.payload # Unreadable
      THEN [counted EXCEPT !.state =
              Market(metadata.price_grid)!apply(@,
                Normalized(record.payload, "YesLegPricing"), record.at)]
      ELSE IF options.stop_on_parse_failure THEN Fail(failed, "ParseFailure")
      ELSE failed

ReplayMessage(replay, record, options) ==
  LET counted  == [replay EXCEPT !.messages = @ + 1, !.state = Held(replay)]
      failed   == [counted EXCEPT !.parse_failures = @ + 1]
      metadata == replay.metadata
  IN  IF record.payload # Unreadable
      THEN [counted EXCEPT !.state =
              Market(metadata.price_grid)!apply(@,
                Normalized(record.payload, metadata.price_convention), record.at)]
      ELSE IF options.stop_on_parse_failure THEN Fail(failed, "ParseFailure")
      ELSE failed

\* What one record does, in the order of the loop's early returns.
ReplayRecord(replay, record, options) ==
  LET timed == [replay EXCEPT !.last_time = record.at, !.records = @ + 1]
  IN  IF replay.error # None THEN replay
      ELSE IF record.kind = "SessionStarted" THEN ReplaySession(timed, record)
      ELSE IF replay.metadata = None THEN Fail(timed, "MissingSessionRecord")
      ELSE IF record.kind = "Message" THEN ReplayMessage(timed, record, options)
      ELSE IF record.kind = "ConnectionLost"
      THEN [timed EXCEPT !.lifecycle = @ + 1,
                         !.state = Market(replay.metadata.price_grid)!on_disconnected(
                                     Held(replay), record.at)]
      ELSE [timed EXCEPT !.lifecycle = @ + 1, !.state = Held(replay)]

\* The replay of the first n records, for every n.
ReplayOf(records, options) ==
  LET replayed[n \in 0..Len(records)] ==
        IF n = 0 THEN NewReplay(options)
        ELSE ReplayRecord(replayed[n - 1], records[n], options)
  IN  replayed

\* What ends without an error and without metadata had no record of a session.
Concluded(replay) ==
  IF replay.error = None /\ replay.metadata = None
  THEN Fail(replay, "MissingSessionRecord") ELSE replay

\* The market state that a replay reports: the intervals are closed at the time
\* of the last record.
ReportedState(replay) ==
  IF replay.state = None THEN Held(replay)
  ELSE Market(replay.metadata.price_grid)!finish(replay.state, replay.last_time)
=============================================================================
