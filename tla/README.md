# A verification of eventbook's recorder

eventbook records the level-2 order book of one prediction market from a
WebSocket, journals every message, and rebuilds the book offline by replaying
the journal. Its worth rests on two claims: a book that says it is valid is the
venue's book, and a replay gives exactly what the live recording saw. The
modules here state those claims, and the promises of the parts they rest on,
and check them with TLC; both claims, and every promise but the two of
liveness, are proved with TLAPS for every value of the constants.

    tlc -config <run>.cfg <module>.tla     # the table under "Runs"
    tlapm <module>_proofs.tla              # the table under "Proofs"

## 1. Inventory

Everything runs on one thread, an `io_context`, except the deadline of a timed
recording, which calls `stop()` from a thread of its own. The control flow is

    venue -> WebSocketSession -> parse_ws_message -> collect -> JournalWriter
                    ^                                   |
                    +---- reconnect(), stop() ----------+-----> MarketState -> OrderBook

    journal directory -> JournalReader -> parse_ws_message -> replay -> MarketState

| Component | State it keeps | Operations | What is hard | What makes it correct |
|---|---|---|---|---|
| Order book (`book/order_book.cpp`) | levels per side, subscription, last sequence, or none | apply snapshot, apply delta, invalidate, best quotes | lost, repeated and reordered messages; another subscription's numbers; levels at the limit of int64 | a valid book is the venue's as of its last message |
| Prices, quantities, grid (`common/price`, `common/quantity`) | none | grid membership, reflection of NO prices, `apply_delta` | boundaries, mirrored twice or not at all | the book sees YES prices, and refuses no legal change |
| Normalization (`api/ws_protocol.cpp`) | none | parse a message | a message partly readable; three fields that may tell a trade's direction | refused whole and a broken field named, or parsed to what the venue meant |
| Session (`api/ws_session.cpp`) | stream, operation in flight, retry timer, queue of handlers, attempt, connection id | dial, handshakes, subscribe, read, fail, schedule_reconnect, reconnect, stop | handlers that run after a teardown; requests and stops between any two handlers; backoff | one attempt at a time, each loss redialled, each stop obeyed |
| Market state (`book/market_state.cpp`) | a book, counters, time spent invalid | apply, on_disconnected, finish | a clock that steps back; intervals opened by one event and closed by another | counters and holes are those of the events |
| Recorder (`apps/collect.cpp`) | the grid, the flag that a recovery was asked for, the simulated gap, counters | the session's handlers, deadline, footer | a recovery asked for twice, or never; journal and state that drift apart; a grid that could not be looked up; numbers shifted on purpose | what is journalled is what was applied; an invalid book is recovered |
| Replay (`replay/replay.cpp`) | the metadata, a market state, counters | one pass over the records, with the journal's metadata or others | several sessions in a directory, a part of one, unreadable records | the live state again |
| Journal (`data/journal.cpp`) | pending records, open segment, a stream that may have failed, counters | create, write, flush, rotate; list, open, next | a disk that refuses, a kill at any point, two segments in one second | nothing is reordered, no later flush is behind a torn one, a compressed log repeats nothing, and what is lost is told |
| REST discovery (`api/market_query.cpp`, `rest_client`, `market`) | cursor, markets so far | fetch a page, fetch all | a venue whose cursors go round; a failure half way | all the markets or an error, never a part |
| Eligibility and scouting (`api/eligibility.cpp`, `apps/scout.cpp`) | none | check a market, select a universe | the order of reasons; malformed grids | every market selected or rejected for one reason; a grid passed is one the book can use |
| Decimals (`common/decimal.cpp`) | none | parse, format | sums and shifts at the limit of int64; narrower fields | what the text says, or an overflow and no sooner; inverse conversions |
| Time (`common/time.cpp`, `segment_stamp`) | none | parse, format, stamp | instants before 1970, leap days, zones | the instant a clock on the wall shows; names that sort |
| HTTP transport, signing, version, `Result` | none between calls | | I/O and cryptography | |

The hazards of each, at the line where they bite, are in PROJECT.json with the
properties that would catch them.

## 2. Modules

| Module | Models | Built on |
|---|---|---|
| `OrderBook` | the book as a value, and each of its operations as an operator: verdict first, effect second, as the code returns an error or goes on | |
| `WsProtocol` | the parser: which side and price a wire entry means, and which messages are refused | `OrderBook` |
| `BookFeed` | a venue and one recorder's book: the venue changes its market and sends; the channel loses, repeats and reorders; connections end | `WsProtocol` |
| `Session` | a `WebSocketSession` and its `io_context` | |
| `MarketState` | the state around the book as a value, `apply`, `on_disconnected`, `finish` | `OrderBook` |
| `Replay` | `replay_segments`, a function of a sequence of records and of its options | instances of `MarketState` and `WsProtocol`, one for each grid and convention |
| `Recorder` | `collect`: the grid it looks up, the handlers it gives a session, the simulated gap, its journal as a sequence of records, a restart | `Session`, `Replay` |
| `EventLog` | what a reader of a journal is promised: an increasing log that is only extended, but for a last line without its end, which may be taken back | |
| `Journal` | the writer, its disk, its death, and the reader of a directory | implements `EventLog` |
| `Eligibility` | the reasons for leaving a market out, in their order, and the check of a grid; its `Book` is `OrderBook` with the grid in question | `OrderBook` |
| `Discovery` | `scout`: pages fetched from a venue whose listing changes, or that answers anything, then the selection | `Eligibility` |
| `Numerals` | decimal numerals of a width, and powers of ten | |
| `Decimals` | `parse_scaled_decimal`, a branch or a turn of a loop at a time; `format_scaled_decimal` | `Numerals` |
| `Times` | `parse_rfc3339`, `format_rfc3339`, `segment_stamp`, and a wall clock that they are compared with | `Numerals` |
| `Json` | a JSON object and the two `FieldReader`s | |
| `Messages` | `parse_ws_message`, every type and field | `WsProtocol`, `Json` |
| `Records` | a journal line, the metadata of a session, a REST market | `Json` |
| `Documents` | documents whose fields are lost, change type or become unreadable on their way to a reader | `Messages`, `Records` |
| `Conversions` | one conversion at a time | `Decimals`, `Times`, `Documents` |
| `MC*` | constants of the instances that a .cfg file cannot write | |
| `Recursion` | induction over the naturals, for proofs about recursive functions | TLAPS |
| `BookFeed_proofs`, `Session_proofs`, `Journal_proofs`, `Discovery_proofs`, `Conversions_proofs` | the theorems about each of these modules | the module, `Recursion` |
| `Recorder_proofs` | those about `Recorder` that are of the session and the live book | `Recorder`, `Session_proofs` |
| `Replay_proofs` | those that compare a recording with the replays of its journal | `Recorder_proofs` |

How state and actions correspond to the code:

* **OrderBook.** A book is a record of `levels`, `subscription` and
  `last_sequence`; `AwaitingBook` is the book after `invalidate()`. The two
  `apply` overloads are `AfterSnapshot` and `AfterDelta`, applied to the verdict
  of `SnapshotVerdicts` and `DeltaVerdict`, whose order of checks is the code's.
  A snapshot with several bad levels is refused for whichever is listed first;
  levels are sets here, so any of them may be.
* **BookFeed.** The venue keeps, per subscription, the book as of each message
  it sent. The channel keeps every message of the connection and delivery takes
  none out, which is loss, duplication and reordering at once. `Reconnect` is
  `MarketState::on_disconnected`. The venue may quote prices off the grid, and
  let more rest than a Quantity holds, so refusals happen.
* **Session.** An operation in flight, a timer that runs, and a queue of
  handlers. `run()` takes the first of the queue. `OperationEnds` and
  `TimerExpires` put a handler in it when the world decides; `reconnect()` and
  `stop()` post theirs. A teardown turns the handler of the operation in flight
  into an aborted one, which Beast and Asio still run. `Prompt` says whether
  what is queued runs before a wait can be over: it is what a backoff longer than a
  handler gives, and what a suspended process does not.
* **MarketState, Replay.** Pure: `ReplayOf(records, options)` folds `ReplayRecord`,
  which has one branch per kind of record and each early return of the loop. A
  record's payload is the message as it was on the wire: the replay normalizes it
  again, under the convention and the grid of the metadata that it has read or was
  given. That is why the grid is a parameter, `Market(price_grid)`, and no constant.
* **Recorder.** Each action is a session action together with the whole handler
  collect gave it: `OnNotice` (a connection was lost: a record, then
  `on_disconnected`, at one instant), `OnMessage` (journal, count, shift the number if a gap is being
  simulated, apply, ask for recovery), `OnUnreadable`, `Finish` (`finish`, then the
  footer with its counters). How a recording is made (the grid that the look-up gave,
  or none when it failed; the convention; the simulated gap) is chosen when
  the process starts. The system clock is read where the code reads it and may step back.
  `Restart` belongs to `RestartedSpec` only.
* **Journal.** `journal` is the writer and its directory; an operation is the
  set of its outcomes, because a disk may refuse any write or open. A record is
  its number; `rotate_bytes` is a number of records. A large block is
  written through; a small one stays in the stream's buffer and is refused, if
  at all, by `out.flush()`. Of either the disk may keep a part (`Tears`): up to the inside
  of a line, to a line without its end, or behind a line. The stream is libstdc++'s, which
  CI builds with (`ci.yml:21`): a `filebuf` whose flush is refused half way keeps the whole
  block, and `out.close()`, at the next rotation or at the end, tries once more from its
  beginning, behind the part that is there, and may tear it too (`closed`). `Kill` loses
  what is in memory, or tears the block being written. `Read` is a replay of the
  directory, at any moment: `ReadDirectory` is what `list_journal_segments` and
  `JournalReader::next` give `replay_segments` until its first error, and `read` what
  the last replay was given, the log of `EventLog`.
* **Eligibility, Discovery.** A check is the sequence of its findings, and the
  reason is the first. `Fetch` is a turn of `fetch_all_markets`: request,
  status, parse, cursor. An honest venue's cursor says how far the reader has
  come in its listing; the other venue's pages and cursors are arbitrary. What a
  market says of itself is a constant, its fields being read once.
* **Decimals.** `reader` holds the local variables of `parse_scaled_decimal`, so that
  each value the C++ arithmetic computes is the value of a variable in some state, and
  an overflow would be one out of range. `kMax` is the largest int64. The value of
  a text is defined apart from the reader, by the digits' places (`Says`).
* **Times.** A text is the record of its fixed-width fields. Conversions are
  operators; `Tick` is a clock that counts by carrying, on the real calendar, and
  what it shows is what the conversions must give.
* **Json, Messages, Records.** An object is a function from the fields that are
  present. A reader is a sequence of the problems it met, as the code records the
  first and goes on; the order of concatenation is the order in which the code reads.
  What is reported of a problem is a field's name, but the value of a version or a kind of
  record that nobody knows, and the words "not an object" of metadata that are none. The
  numbers of a band are read as the code reads them: in a market each must be there, in the
  metadata of a session a missing one is 0, one that is no integer is cut, and one that is no
  number ends in the outcome `thrown`.
* **Documents.** `Spoil` damages a field that no reader has been warned of, a band of the
  grid or one of its numbers, or the whole document; the properties compare what is then read with what would have been.

## 3. Runs

| Run | Question | What it shows |
|---|---|---|
| `BookFeed` | May a hole in the feed pass unnoticed? | No: `InSync`. A loss is seen as a gap before it is seen as a negative level, the next legal message is never refused, and the best quotes are the venue's. |
| `Session` | Can handlers and requests cross so that a session dials twice, reads a stream that is gone, stops by itself, or does not stop? | No, while what is queued runs before a wait is over. |
| `SessionRequested` | Does the backoff ladder start over on a requested reconnect? | No. The read it aborts reports a failure of its own, and schedules a second time. |
| `SessionStalled` | And if the wait is over before that handler runs? | Two connections are dialled. |
| `Recorder` | Does the journal, replayed at any moment, give the live state? Does any part of it? Is an invalid book recovered? Is invalid time all of it? | Yes: with a grid or without, under either convention, with losses, gaps real and simulated, illegal and unreadable deltas, requests and a clock that steps both ways. |
| `RecorderSnapshotLost` | And if a snapshot is unreadable? | The connection lives on with no book: deltas before a snapshot ask for nothing. |
| `RecorderRestart` | May a directory hold two runs? | The replay carries the first run's book into the second, as valid. |
| `Journal` | What does a directory say after rotations, refusals, kills and later processes? | Compressed: only more than before, in order and once, but for a last line without its end. Nothing follows a torn block but that block itself, when its stream is closed. A process that has lost a record has counted a failure. |
| `Discovery` | Does a scouting give all the venue listed, and select what the rule says? | Yes or an error, in at most `max_pages` requests; a grid that passes is one the book reads without ambiguity, and a market that cannot be represented is never counted as unwanted. |
| `JournalDrops` | Is each record lost among `dropped_records`? | Not those of a block that the stream had buffered. |
| `JournalTorn` | Does a torn final line cost only itself? | A replay refuses the whole directory. |
| `Conversions` | Is a number, a time, a message, a record ever read as another than was written? | No. Each is read for what it says or refused, numbers exactly up to the limit and without a wrap on the way; what is reported of a refused document, a name or a value, is of something that was damaged; the names of segments sort as the seconds do. Three things are read from nothing: a side that is absent from a snapshot is empty; a convention that nobody knows is YES-leg pricing; and of the grid in a session's metadata a number that is missing is 0, and one that is no integer is cut to one. (One that is no number at all throws, instead of a refusal, and nothing in `apps/replay.cpp` catches it: the outcome `thrown`.) |

The runs whose outcome is a violation each check one sentence of the
repository's own comments, quoted under "findings" in PROJECT.json. None of
them is a defect of what the passing runs say: each relaxes one condition
(`Prompt`, which messages can be unreadable, restarts, compression), or checks a stronger
sentence than the code keeps.

### Bounds, and why they are enough

* `BookFeed`: two subscriptions, two prices (one off the grid once
  reflected), three messages per subscription, levels up to twice what a
  Quantity holds. Three messages are a snapshot, a hole and a delta behind it;
  two subscriptions whose numbers continue one another are the case that
  `subscription` is checked for. The proofs have no bound.
* `Session`: counters saturate at `MaxCount` 4, above the three attempts after which it
  gives up and the doublings that reach the cap of the backoff. The
  queue is not bounded by the model but by the session.
* `Recorder`: five records are a header, a snapshot, a message that breaks the
  book, the loss and a second snapshot, or the footer in their place. The
  clock moves by 1, and before the third and the fourth record by -1 or 2, so that
  intervals of both signs, and sums that would be told apart, occur. Levels have one
  legal price and one illegal. Three recordings: a grid and YES-leg prices; no grid
  and NO-leg prices; a grid, NO-leg prices and a gap simulated at the first delta.
* `Journal`: four records in blocks of two, segments of three records or one tick of
  the clock, three segments, one refusal, one kill. One refusal reaches each of
  the paths after it (a stream stays failed until a segment is opened). The
  thousand names of a second are not exhausted (`SuffixLimit` 9 with three
  segments); if they were, a later process would append behind a torn block. Blocks
  of two are torn in every place: before, inside and behind each line.
* `Discovery`: four markets on pages of one, three pages at most, so that a listing
  ends before, at and beyond the limit; one change of the listing. One market goes
  through every kind (each field that the filter reads, on both sides of its
  threshold) and every grid of up to two bands of five sound ones, touching,
  nested and apart, and five that are not.
* `Conversions`: all texts of up to five characters out of four digits, the sign, the
  point and any other; an int64 that ends at 127 and a price at 71, so that every
  check has texts on both sides of it. A day of three hours of two minutes of two
  seconds of ten units, two days from each of six midnights before the turn of
  a day, month, year, century and leap February, before and after 1970: the carries
  are all there. Three damaged fields are the three that tell a trade's direction. The
  metadata have a grid of two bands, so that the one that throws may stand before or behind
  the one that is refused; the market has one.

CHECK_DEADLOCK is off where a bound or the end of the program stops the system.

### Fairness

Only `Session` states liveness. `run()` is called and takes handlers while it
has any: WF on `run` and `Handler` is what `io_context::run` does. An operation
ends because each has a deadline: `handshake_timeout` from the connect to the
subscription, `idle_timeout` with keep-alive pings on a read, and the
resolver's own; hence WF on `OperationEnds`. A timer expires: WF on
`TimerExpires`. Nothing is assumed of the caller: `reconnect()` and `stop()` may
never come. `StopEnds` and `LossIsRedialled` hold under exactly that.

## 4. Proofs

A run shows a property on one small instance; a theorem shows it for every value of the
constants: any grid, any number of prices, bands, markets, pages, records, refusals and kills,
any listing, any clock, any text, any date, any document.

| Module | Theorem | States |
|---|---|---|
| `BookFeed_proofs` | `TypeCorrect`, `Synchronized` | `TypeOK`; `InSync`, the first claim |
| | `LossIsSeenAsAGap`, `RecoveryIsNotForced`, `QuotesAreRight` | `LossIsNeverSeenAsNegative`, `NextDeltaFits`, `QuotesAreTheVenues` |
| `Session_proofs` | `TypeCorrect`, `BackoffIsCapped` | `TypeOK`; the doubling never passes the cap nor turns negative |
| | `OneAttemptAlways`, `StreamIsThere`, `EndIsTold` | `OneAttempt`, `HandlersFindTheirStream`, `EndsOnlyWhenTold` |
| `Recorder_proofs` | `RecorderIsTyped`, `BookStaysCurrent`, `ConnectionsAreUnbroken` | `RecorderTypeOK`, `BookIsCurrent`, `SameConnectionIsUnbroken` |
| | `InvalidIsRecovered` | `NeverLeftInvalid` |
| `Replay_proofs` | `LiveIsReplayed` | `LiveIsReplay`, the second claim |
| | `SimulatedGapStaysLocal`, `PartsStandAlone`, `HolesStayTimed` | `SimulatedGapIsLocal`, `SegmentsStandAlone`, `HolesAreTimed` |
| `Journal_proofs` | `TypeCorrect`, `LossesAreCounted` | `TypeOK`, `LossIsCounted` |
| | `TearsStayLast` and its corollary | `OnlyItsRetryFollowsATear`, while names are left |
| | `JournalIsALog` | `HistoryIsKept`: a compressed `Journal` implements `EventLog`, while the clock does not go back |
| `Discovery_proofs` | `TypeCorrect`, `LoopIsBounded`, `ListIsWhole` | `TypeOK`, `RequestsAreBounded`, `NothingMissed` |
| | `RuleIsKept`, `ChoiceComesLast` | `UniverseIsTheRule`, `ChosenIsRepresentable` |
| `Conversions_proofs` | `NothingEverWraps`, `DecimalsAreReadRight`, `FormattingIsTheInverse` | `NothingWraps`, `ReadsWhatItSays`, `FormatIsInverse` |
| | `TimesAreWrittenAsShown`, `ZonesTellTheSameTime`, `NoMomentIsFolded`, `StampsAreSorted` | `WrittenAsShown`, `ZonesAgree`, `NothingIsFolded`, `StampsSort` |
| | `NothingIsInvented`, `TheRightFieldIsNamed` | `NothingIsMisread`, `TheDamagedFieldIsNamed` |
| | `TheDirectionIsKept`, `TheFinestTimeIsTaken`, `TheJournalIsReadBack` | `DirectionSurvives`, `TimeIsTheFinest`, `WhatIsWrittenIsRead` |
| | `ConversionsDoNotMeet`, `ConversionsAreRight` | the specification that the run checks implements each of the three conversions; all twelve properties hold of it |

### What is assumed

Each assumption is an ASSUME of the module that declares the constants, which TLC evaluates
in every run, or a hypothesis that the theorem shows.

* `ConstantsAssumption` (`BookFeed`), `SessionAssumption`, `RecorderAssumption`,
  `JournalAssumption`, `CriteriaAssumption`, `DiscoveryAssumption`, `DecimalsAssumption`,
  `TimesAssumption`, `ConversionsAssumption` give constants the types of the code's fields: the convention is one of the two that exist,
  bounds are naturals, prices and readings of a clock are integers. Those that say more: a
  Quantity holds at least one; the two tickers differ; the power of ten of a decimal's
  places fits the integer (`kPowersOfTen`); there is something to convert of each kind; a venue describes a market under the market's own name, and
  lists finitely many; `max_reconnect_attempts` and the number of records stay below the
  bound where counters saturate, which without it would be a property of the bound.
* `NoneAssumption` (`Recorder`, `Discovery`): an empty `std::optional` is none of the
  values it may hold.
* `ClockAssumption` (`Times`): the midnights from which a clock is started are of days that
  exist, a zone is less than a day, and what is no field of a time is none of its values.
* `DocumentsAssumption` (`Documents`) is about the document before it is damaged: what is
  sent, written or listed has no unreadable field and can be read; the fields that tell a trade's direction
  agree; a band's numbers are integers; a delta or trade does not use one name both for a field of its own and of its
  body (the theorems tell damaged fields by name); a market has the fields that the reader knows.
* `Prompt`, for the theorems about `Session` except the first two and for all about
  `Recorder`: what is queued runs before a wait can be over. It is a hypothesis, because the
  code does not have it by itself: `SessionStalled` shows two connections without it.
* `"orderbook_snapshot" \notin UnreadableKinds`, for `InvalidIsRecovered`:
  `RecorderSnapshotLost` shows what an unreadable snapshot does.
* `NamesLeft(journal.directory)`, for `TearsStayLast`: each second has a segment name that is
  not taken. When a thousand are, `open_segment` opens the last one again and appends. The corollary
  trades it for fewer segments than a second has names.
* `compress`, for `JournalIsALog`: of frames, what follows a torn one cannot be read, so that
  the block which `close()` writes again repeats nothing. Of plain lines (`--no-compress`) those that the
  first try completed are read twice, and `HistoryIsKept` is false: with `compress` FALSE
  in `Journal.cfg` TLC finds it so. The theorems about the other properties need no `compress`.
* `Ticks \subseteq Nat`, for `JournalIsALog` too: no reading of the system clock is before
  the last one. The names of segments are readings of that clock, so that one set back names
  a later segment before an earlier one. Names need not be left: a last name that is opened
  again is that of the last segment.

### How the invariants are carried

Almost no property here is inductive. What is added to each:

* **BookFeed** (`IInv`). `InSync` does not say that a message in flight is what the venue
  sent. A subscription's history ends in the present market (`HistoryOK`), and each
  message in the channel is `Truthful`: a snapshot lists what the venue had at its
  number, a delta leads from the entry before its number to the entry at it. What the
  venue does only appends to histories, so what was truthful stays so
  (`TruthfulKept`) and what the book claims is still there (`InSyncKept`). What the
  book does with a truthful message gives the next entry: a snapshot is the mirror of
  its entry (`ParsedListing`), a delta accepted in line changes one level
  (`MirrorChange`).
* **Session** (`IInv`, in each state `Sound`). Who owns the stream, which
  handlers are owed to whom, and what an unfinished session still has to do. Most cases are about the
  queue: what a teardown makes of the handler it finds there, and that no two handlers
  in it go on with the stream.
* **Recorder** (`RInv`). A recording adds to `Sound` that the handler of one
  operation is owed at most (`Orderly`), that the number last seen is the number last
  sent on this connection unless the book is invalid or a recovery was asked for
  (`Current`), and which connection each record of the journal is of (`Numbered`). `NeverLeftInvalid` is
  then a matter of the flag `collect` keeps.
* **Replay** (`PInv`). A replay is a fold over the journal, so that one record more is one
  step more of it (`Recursion` gives the induction that a fold needs): the replay of
  what is journalled is kept equal to the live state (`Mirrored`), field by field, and
  for each place where a part may begin the replay of that part has reached the same
  book or none. Where a gap was simulated the two differ until the next snapshot.
  `HolesAreTimed` adds up, over all records, the time for which the observed book was invalid; the
  counter of the live state is that sum, whatever the clock reads.
* **Journal** (`IInv`). `OnlyItsRetryFollowsATear` does not say which segments are still
  written to. The invariant does: the segment of a stream that has not failed has no tear, and
  that of a stream which holds a block it could not flush has at most a part of this block, as
  its last (`Awaits`, `TearsAreLast`). For `LossIsCounted` it says where each record
  is as long as no failure was counted, in a segment or pending, that a block is held only
  after a failure, and that drops, pending records and the first record of the process
  add up to no more than was written.
  For the refinement (`ReadIsLog`) it says that a new name sorts last: segments are in the
  order of their names, none is later than now, and the counters of a second are taken
  one after the other (`InTime`); that the writer writes to the last segment; and that what
  is held or pending rises behind the log that can be read (`Chained`). Each step of a
  writer is shown to keep both, and to keep the log as the beginning of the next (`Kept`), whether
  what it writes can be read or stands behind a tear. Below that are
  the lemmas about reading: of nested parts until the first error (`ReadOnMore`), and that
  segments of different names have one listing, which is the directory when that ascends
  (`ListedInOrder`).
* **Discovery** (`DInv`). `NothingMissed` says nothing before the last page. The invariant
  says of a market listed throughout that it is found already or still ahead of the
  cursor, and that what is found ascends and ends at the cursor (`InStep`). For the
  selection, each market's reason is derived from its findings for any number of bands
  (`GridFindings`, `ReasonOfAMarket`): a grid without findings has one book that reads
  every price as one tick of one band.
* **Decimals** (`DecimalInv`, `RightSoFar`). How large the fraction may be when so many
  of its digits have been read, and that a shift is tested before it is made. What has been read is
  the number that its digits say, and a refusal is one of a text that says nothing that fits:
  each turn of a loop takes one digit from the text's numeral, and a number that has
  outgrown the limit is not brought back by the digits behind it. The inverse adds that a
  numeral of a width is read as the number it was written for.
* **Times** (`TimeInv`). The wall shows the instant that has been reached:
  `InstantShown(wall) = now`, where a tick of the wall is a carry through its fields and a
  tick of the instant adds one. The days before a date count up by one from each date to the
  next, over ends of months and leap Februaries, so that a date is found again from its count.
  A text is then read as the instant of its fields, and no other field will do.
* **Documents** (`DocumentInv`). What is left of the source: each field is what it was,
  or spoilt, and is lost only by its name (`Damaged`, `BodyDamaged`). A reader's problems
  are the fields it misses (`Tells`), so that a failure names one of the lost, and a
  field that is read is the source's. `TimeIsTheFinest` needs that damage shows (`DamageShows`).
* **Conversions**. Each step is one of one conversion, and leaves the others as they are.

Recursive functions (the fold of a replay, the digits of a number, the loop of a selection)
need induction. The library's theorems for it have an operator for a parameter, which the
provers cannot instantiate; `Recursion` states the same of a set, from the least
element of a well-founded order, and the proofs define the set of the lengths for which
the claim holds.

### What is only checked by TLC

* `StopEnds` and `LossIsRedialled`: liveness, out of the prover's reach.
* Everything about `RestartedSpec`, and the runs that expect a violation: the sentences
  they check are false of some instance, which is all there is to show.

## 5. Not modelled

* In `Recorder`: the periodic report and the report at the end, which only read; the
  index that a record carries over its payload (`type`, `ticker`, `seq`), which a replay
  does not use; what a grid without a usable band does (see the hazard at
  `collect.cpp:119`). A venue that refuses the subscription is one that sends nothing.
* In `Replay`: a segment that cannot be read, which is `Journal`'s, and a directory
  without segments. A second session in a directory is replayed under the first's
  metadata, as in the code; `RecorderRestart` shows what that does to its book.
* In `Session`: the time a synchronous close may take; a close ends at once.
* In `Journal`: power loss and `fsync`; the level of compression and the
  contents of a record; one reading of the clock per operation; a standard library other than
  libstdc++, whose `close()` may treat what it could not flush differently.
* In `Discovery`: a market whose fields change between two readings of it;
  percent-encoding of queries; a request is assumed to be answered (see the
  hazard at `beast_http_transport.cpp:147`), so no liveness is claimed. A cursor that is
  no string is `NoCursor`, as an empty or a missing one is: `parse_market_page` reads the
  three alike, and the list is then cut short without an error (see the hazard at
  `market.cpp:303`). An honest venue's cursors are strings.
* In `Journal`: a clock that steps back between two rotations names the later segment
  before the earlier one, and a replay then reads them swapped; `HistoryIsKept` and
  `StampsSort` are about a clock that does not. A writer that flushes every record
  (`flush_every` 1) and whose stream has failed returns before it would rotate, and
  drops until it is closed; progress of a failed writer is not stated.
* In `Conversions`: the text of JSON itself; payloads that are no UTF-8 (`dump` throws); an integer
  that is too large for its field (a version and a band's numbers are cut to its bits, a
  `ts_ms` near the ends of an int64 overflows as microseconds); the minimum length
  of a time's text, which its fields imply.
* Signing and HTTP transport: cryptography and I/O. Their failures are outcomes of
  the actions above.

## 6. Plan

Written so far, most important first: the book against the venue, the session,
the recorder with its replay, the journal, discovery, and the conversions that all
of them take as given. Every
safety property of a passing run is proved, and that the journal implements the log it
promises, under the assumptions named in "What is assumed"; liveness is only checked.

Left to model: the progress of a writer whose stream failed, and the retry of a
subscription that the venue refuses, once the code has one.
