------------------------------- MODULE Recorder -------------------------------
(***************************************************************************)
(* A recording (src/apps/collect.cpp): the grid that collect looks up, the *)
(* handlers that it gives its Session, the MarketState they drive, and the *)
(* journal they write, with a venue at the other end of the connection.    *)
(*                                                                         *)
(* TCP delivers what the venue sends on a connection in order and once,    *)
(* but the connection may fail anywhere, a message may be one the parser   *)
(* refuses, and the venue may skip a number.  The venue snapshots the book *)
(* once, when it is subscribed to.                                         *)
(*                                                                         *)
(* The journal here is the sequence of records handed to JournalWriter.    *)
(***************************************************************************)
EXTENDS Session, Replay

CONSTANTS
  Recordings,     \* ways to record: grid looked up, convention, simulated gap
  Quoted,         \* what a snapshot may list, side by side, on the YES scale
  Changes,        \* what a delta may say: side, price on the YES scale, size
  Others,         \* the other events the venue may send
  UnreadableKinds,\* the kinds of message that may be unreadable
  Ticks,          \* how far the system clock may have moved, by the number of records
  Deadline,       \* whether a duration was asked for
  MaxRestarts,    \* bound: times that the process is killed and started again
  MaxRecords      \* bound: records in the journal

\* A loss is journalled between two connections, so that they are all counted.
\* What a snapshot lists is what the parser can read, and no side is missing.
ASSUME RecorderAssumption ==
  /\ PriceMax \in Nat
  /\ MaxQuantity \in Nat
  /\ MaxRecords \in Nat
  /\ MaxRecords <= MaxCount
  /\ \A n \in 0..MaxRecords : Ticks[n] \subseteq Int
  /\ \A recording \in Recordings :
       /\ recording.price_convention \in {"NoLegPricing", "YesLegPricing"}
       /\ recording.simulate_gap_after \in Nat
  /\ \A levels \in Quoted :
       /\ DOMAIN levels = Market({})!Side
       /\ \A side \in Market({})!Side : \A price \in DOMAIN levels[side] :
             price \in Int /\ levels[side][price] \in 0..MaxQuantity
  /\ \A change \in Changes :
       change.side \in Market({})!Side /\ change.price \in Int /\ change.delta \in Int
  /\ Others \subseteq Market({})!OtherEvents

\* A market's state, on a grid.
States(grid) ==
  [book          : Market(grid)!Books({1}, Nat \ {0}),
   stats         : [Market(grid)!Counters -> Nat],
   invalid_time  : Int,
   invalid_since : Int \cup {None}]

\* An empty std::optional is none of the values it may hold.
ASSUME NoneAssumption ==
  /\ None \notin {"ParseFailure", Unreadable}
  /\ None \notin Int
  /\ \A recording \in Recordings :
       /\ None \notin States(recording.price_grid)
       /\ None # [market_ticker    |-> Ticker,
                  price_grid       |-> recording.price_grid,
                  price_convention |-> recording.price_convention]

VARIABLES
  venue,     \* what the venue has sent on this connection
  clock,     \* the last reading of the system clock
  state,     \* the live MarketState
  collect,   \* collect's own variables, and what its session counts
  journal,
  finished,  \* run() has returned and the footer is written
  restarts

recorder == <<state, collect, journal, finished, restarts>>

recorderVars == <<session, venue, clock, recorder>>

\* `sequence` is the last number the venue used on the subscription, `missed`
\* whether a message since the last one applied was unreadable.
NothingSent == [sequence |-> 0, missed |-> FALSE]

Record(kind, at, payload) ==
  [kind |-> kind, at |-> at, connection |-> session.connections, payload |-> payload]

NoPayload == [type |-> "none"]

Grid == collect.recording.price_grid

Convention == collect.recording.price_convention

Metadata ==
  [market_ticker |-> Ticker, price_grid |-> Grid, price_convention |-> Convention]

\* The grid is empty when its look-up failed, and the recording goes on without.
NewCollect(recording) ==
  [recording          |-> recording,
   recovery_requested |-> FALSE,
   delta_count        |-> 0,
   sequence_shift     |-> 0,
   messages_received  |-> 0,
   parse_failures     |-> 0]

NewState == Market({})!NewMarketState

RecorderInit ==
  /\ Init
  /\ venue = NothingSent
  /\ clock = 0
  /\ state = NewState
  /\ \E recording \in Recordings : collect = NewCollect(recording)
  /\ journal = <<>>
  /\ finished = FALSE
  /\ restarts = 0

\* local_now(): the clock may have moved either way since it was last read.
Readings == {clock + tick : tick \in Ticks[Len(journal)]}

Journalled(record) ==
  /\ Len(journal) < MaxRecords
  /\ journal' = Append(journal, record)

-----------------------------------------------------------------------------
\* The session record is written before anything else, then the session runs.
Start ==
  \E at \in Readings :
    /\ run
    /\ Journalled(Record("SessionStarted", at, Metadata))
    /\ clock' = at
    /\ UNCHANGED <<venue, state, collect, finished, restarts>>

\* Faulty: the loss is journalled and the live book carries on.
OnNoticeJournalOnly ==
  IF session'.lost
  THEN \E at \in Readings :
         /\ clock' = at
         /\ Journalled(Record("ConnectionLost", at, NoPayload))
         /\ UNCHANGED <<state, collect, finished, restarts>>
  ELSE UNCHANGED <<clock, recorder>>

\* Disconnected: one reading of the clock serves the journal and the book.
OnNotice ==
  IF session'.lost
  THEN \E at \in Readings :
         /\ clock' = at
         /\ Journalled(Record("ConnectionLost", at, NoPayload))
         /\ state' = Market(Grid)!on_disconnected(state, at)
         /\ UNCHANGED <<collect, finished, restarts>>
  ELSE UNCHANGED <<clock, recorder>>

\* Every handler of the session but that of a message.
OnOtherHandler ==
  /\ \/ OnResolve
     \/ OnConnect
     \/ OnTlsHandshake
     \/ OnWsHandshake
     \/ OnSubscribe
     \/ OnReadError
     \/ OnReconnect
     \/ OnTimer
     \/ OnStop
  /\ OnNotice
  /\ venue' = IF session'.stream THEN venue ELSE NothingSent

OnWorld ==
  /\ OperationEnds \/ TimerExpires \/ (Deadline /\ stop)
  /\ UNCHANGED <<venue, clock, recorder>>

-----------------------------------------------------------------------------
(***************************************************************************)
(* What the venue may send next, quoted as the subscription asked.  A      *)
(* number is skipped at most once.  (Reflected twice, a price is itself.)  *)
(***************************************************************************)
NextSnapshots ==
  IF venue.sequence # 0 THEN {}
  ELSE {[type |-> "orderbook_snapshot", market_ticker |-> Ticker, subscription |-> 1,
         sequence |-> 1,
         levels |-> [side \in DOMAIN levels |->
                       Wire(Convention)!ParsedLevels(levels[side], side)]]
          : levels \in Quoted}

NextDeltas ==
  IF venue.sequence = 0 THEN {}
  ELSE {[type |-> "orderbook_delta", market_ticker |-> Ticker, subscription |-> 1,
         sequence |-> venue.sequence + step, side |-> change.side,
         price |-> Wire(Convention)!yes_price_from_book_entry(change.price, change.side),
         delta |-> change.delta] : step \in {1, 2}, change \in Changes}

NextOthers == {[type |-> type] : type \in Others}

\* The message's number, when it has one, is used whether or not it is readable.
Sent(message, readable, skipped) ==
  venue' = IF message.type \in Market(Grid)!OtherEvents THEN venue
           ELSE [sequence |-> message.sequence,
                 missed   |-> message.type = "orderbook_delta"
                              /\ (venue.missed \/ ~readable \/ skipped)]

-----------------------------------------------------------------------------
(***************************************************************************)
(* on_raw, then on_event: the record is written first, and the event is    *)
(* applied at the record's time.                                           *)
(***************************************************************************)
IsSnapshot(event) == event.type = "orderbook_snapshot"
IsDelta(event) == event.type = "orderbook_delta"

\* Faulty: a recovery is asked for once and for all.
StillRequestedForever(event) == collect.recovery_requested

\* A snapshot settles the recovery before the book has even seen it.
StillRequested(event) == collect.recovery_requested /\ ~IsSnapshot(event)

DeltaCount(event) == collect.delta_count + (IF IsDelta(event) THEN 1 ELSE 0)

\* Faulty: the numbers stay shifted over the next snapshot.
SequenceShiftKept(event) ==
  IF IsDelta(event) /\ DeltaCount(event) = collect.recording.simulate_gap_after THEN 1
  ELSE collect.sequence_shift

\* A simulated gap shifts the numbers of one delta and of all that follow it,
\* until the next snapshot.
SequenceShift(event) ==
  IF IsSnapshot(event) THEN 0
  ELSE IF IsDelta(event) /\ DeltaCount(event) = collect.recording.simulate_gap_after
  THEN 1
  ELSE collect.sequence_shift

\* What the live book is told; the journal has the message as it came.
Adjusted(event) ==
  IF IsDelta(event) THEN [event EXCEPT !.sequence = @ + SequenceShift(event)] ELSE event

OnMessage(message) ==
  \E at \in Readings :
    LET event   == Normalized(message, Convention)
        verdict == Market(Grid)!Rejection(state, Adjusted(event))
        asks    == Market(Grid)!invalidates_book(verdict) /\ ~StillRequested(event)
    IN  /\ on_message(asks)
        /\ clock' = at
        /\ Journalled(Record("Message", at, message))
        /\ state' = Market(Grid)!apply(state, Adjusted(event), at)
        /\ collect' = [collect EXCEPT
                         !.recovery_requested = StillRequested(event) \/ asks,
                         !.delta_count        = DeltaCount(event),
                         !.sequence_shift     = SequenceShift(event),
                         !.messages_received  = @ + 1]
        /\ UNCHANGED <<finished, restarts>>

\* Kept in the journal, counted, and otherwise ignored.
OnUnreadable ==
  \E at \in Readings :
    /\ on_message(FALSE)
    /\ clock' = at
    /\ Journalled(Record("Message", at, Unreadable))
    /\ collect' = [collect EXCEPT !.messages_received = @ + 1, !.parse_failures = @ + 1]
    /\ UNCHANGED <<state, finished, restarts>>

OnRead ==
  \E message \in NextSnapshots \cup NextDeltas \cup NextOthers :
    LET skipped == IsDelta(message) /\ message.sequence # venue.sequence + 1
    IN  \/ OnMessage(message) /\ Sent(message, TRUE, skipped)
        \/ /\ message.type \in UnreadableKinds
           /\ OnUnreadable
           /\ Sent(message, FALSE, skipped)

-----------------------------------------------------------------------------
\* The counters, so that "a journal can be audited for completeness without
\* re-deriving them" (collect.cpp:368).
Footer(final) ==
  [type           |-> "session_ended",
   messages       |-> collect.messages_received,
   parse_failures |-> collect.parse_failures,
   stats          |-> final.stats,
   final_book     |-> final.book]

\* The deadline's thread is joined, and the footer closes the journal.
Finish ==
  \E at \in Readings :
    /\ Returned
    /\ ~finished
    /\ Deadline => session.stop_asked
    /\ clock' = at
    /\ state' = Market(Grid)!finish(state, at)
    /\ Journalled(Record("SessionEnded", at, Footer(state')))
    /\ finished' = TRUE
    /\ UNCHANGED <<session, venue, collect, restarts>>

\* The process is killed, or has finished, and collect is started again on the
\* same directory, perhaps otherwise.  What was still pending when it was killed
\* is lost.
Restart ==
  /\ restarts < MaxRestarts
  /\ session.phase # "created"
  /\ \E trust_store_ready \in BOOLEAN : session' = Created(trust_store_ready)
  /\ \E kept \in 0..Len(journal) :
        /\ finished => kept = Len(journal)
        /\ journal' = SubSeq(journal, 1, kept)
  /\ venue' = NothingSent
  /\ state' = NewState
  /\ \E recording \in Recordings : collect' = NewCollect(recording)
  /\ finished' = FALSE
  /\ restarts' = restarts + 1
  /\ UNCHANGED clock

RecorderNext ==
  \/ Start
  \/ OnWorld
  \/ OnOtherHandler
  \/ OnRead
  \/ Finish

RecorderSpec == RecorderInit /\ [][RecorderNext]_recorderVars

\* Recordings that are killed and started again.
RestartedSpec == RecorderInit /\ [][RecorderNext \/ Restart]_recorderVars

-----------------------------------------------------------------------------
Replayed == ReplayOf(journal, DefaultOptions)

LastReplayed == Replayed[Len(journal)]

\* The state that a replay has come to, whether or not it has begun.
StateOf(replay) == IF replay.state = None THEN NewState ELSE replay.state

IsValid(market) == Market({})!is_valid(market.book)

Connected == session.phase = "running" /\ session.stream

ReadyHandlers == {session.queue[i].name : i \in DOMAIN session.queue}

\* No gap has been simulated, so that the journal has what the book was told.
Genuine ==
  \/ collect.recording.simulate_gap_after = 0
  \/ collect.delta_count < collect.recording.simulate_gap_after

RecorderTypeOK ==
  /\ TypeOK
  /\ venue \in [sequence : Nat, missed : BOOLEAN]
  /\ clock \in Int
  /\ state \in States(Grid)
  /\ collect \in [recording : Recordings, recovery_requested : BOOLEAN, delta_count : Nat,
                  sequence_shift : {0, 1}, messages_received : Nat, parse_failures : Nat]
  /\ \A i \in DOMAIN journal : journal[i].kind \in RecordKinds
  /\ finished \in BOOLEAN

\* Replaying what has been journalled so far, under the metadata it carries, gives
\* the live state, book and counters and intervals alike (collect.cpp:201-207,
\* replay.hpp:20-26), and the footer says what a replay finds: what was journalled
\* and what was applied are the same events at the same instants.
LiveIsReplay ==
  Genuine =>
    LET replay == LastReplayed
    IN  /\ Concluded(replay).error =
             IF journal = <<>> THEN "MissingSessionRecord" ELSE None
        /\ replay.messages = collect.messages_received
        /\ replay.parse_failures = collect.parse_failures
        /\ IF finished
           THEN /\ ReportedState(replay) = state
                /\ LET footer == journal[Len(journal)].payload
                   IN  /\ footer.messages = replay.messages
                       /\ footer.parse_failures = replay.parse_failures
                       /\ footer.stats = ReportedState(replay).stats
                       /\ footer.final_book = replay.state.book
           ELSE state = StateOf(replay)

\* A simulated gap (collect.cpp:308-316) is noticed as a real one would be, and
\* does no harm beyond that: no shifted number reaches a valid book, and once the
\* live book is valid again it is the replay's, which never saw a gap.
SimulatedGapIsLocal ==
  IsValid(state) =>
    /\ collect.sequence_shift = 0
    /\ state.book = StateOf(LastReplayed).book

\* A part of the journal that begins anywhere, as a segment does, can be replayed
\* by itself under its session's metadata (replay.hpp, metadata_override): a book
\* that comes out valid is the live one, and a strict replay stops exactly for a
\* message that could not be parsed.
SegmentsStandAlone ==
  \A first \in 2 .. Len(journal) + 1, strict \in BOOLEAN :
    LET part   == SubSeq(journal, first, Len(journal))
        replay == ReplayOf(part, Options(Metadata, strict))[Len(part)]
        failed == \E i \in DOMAIN part : part[i].payload = Unreadable
    IN  /\ replay.error = IF strict /\ failed THEN "ParseFailure" ELSE None
        /\ replay.error = None /\ IsValid(StateOf(replay)) /\ Genuine
             => replay.state.book = state.book

\* A book that has become invalid while it is connected is recovered: once the
\* connection's snapshot has come, an invalid book means that a reconnect is
\* asked for, and waits to be carried out (collect.cpp:337).
NeverLeftInvalid ==
  Connected /\ venue.sequence > 0 /\ ~IsValid(state) =>
    "reconnect" \in ReadyHandlers

\* A valid book belongs to the connection being read, and has been told of every
\* number the venue used on it, unless a message could not be read.
BookIsCurrent ==
  session.phase = "running" /\ IsValid(state) =>
    /\ session.stream
    /\ venue.sequence > 0
    /\ IF venue.missed THEN state.book.last_sequence < venue.sequence
       ELSE state.book.last_sequence = venue.sequence

\* Records that carry the same connection id share an uninterrupted stream
\* (ws_session.hpp:172): no loss is between two messages of one connection.
SameConnectionIsUnbroken ==
  \A i, j \in DOMAIN journal :
    /\ i < j
    /\ journal[i].kind = "Message"
    /\ journal[j].kind = "Message"
    /\ journal[i].connection = journal[j].connection
    => \A k \in i .. j : journal[k].kind = "Message"

\* The time for which the book was not to be trusted is all the time that passed
\* from one observation to the next while it was invalid, however its intervals
\* opened and closed, and whichever way the clock stepped.
Observed(record) ==
  \/ record.kind = "ConnectionLost"
  \/ record.kind = "Message" /\ record.payload # Unreadable

HoleAfter(records, i) ==
  /\ \E k \in 1..i : Observed(records[k])
  /\ ~IsValid(ReplayOf(records, DefaultOptions)[i].state)

TimeUntil(records, n) ==
  LET spent[i \in 1..n] ==
        IF i = 1 THEN 0
        ELSE spent[i - 1] + (IF HoleAfter(records, i - 1)
                             THEN records[i].at - records[i - 1].at ELSE 0)
  IN  spent[n]

HolesAreTimed ==
  finished /\ Genuine => state.invalid_time = TimeUntil(journal, Len(journal))

\* "The book cannot span a disconnection: whatever the venue did while we were
\* away is unknown" (replay.cpp:154).  While a recording runs, the replay of its
\* directory does not call valid a book that the recording does not.
ReplayedBookIsTheLiveBook ==
  /\ session.phase # "created"
  /\ IsValid(StateOf(LastReplayed))
  => IsValid(state)
=============================================================================
