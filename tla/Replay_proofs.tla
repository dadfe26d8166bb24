----------------------------- MODULE Replay_proofs -----------------------------
(***************************************************************************)
(* What is recorded can be replayed: proofs, for every value of Recorder's *)
(* constants, that the replay of a journal finds what the recording knew.  *)
(***************************************************************************)
EXTENDS Recorder_proofs

-----------------------------------------------------------------------------
(***************************************************************************)
(* The inductive invariant.                                                *)
(***************************************************************************)

\* The replays of a session with some metadata.
ReplaysOf(metadata) ==
  [error          : {None, "ParseFailure"},
   metadata       : {None, metadata},
   state          : {None} \cup States(metadata.price_grid),
   last_time      : {None} \cup Int,
   records        : Nat,
   messages       : Nat,
   parse_failures : Nat,
   lifecycle      : Nat]

\* The replay of all that is journalled has come to the live state; where a gap was
\* simulated, to the live book once that is valid again.
Mirrored ==
  LET replay == LastReplayed
  IN  /\ replay \in ReplaysOf(Metadata)
      /\ replay.error = None
      /\ replay.metadata = IF Len(journal) = 0 THEN None ELSE Metadata
      /\ replay.messages = collect.messages_received
      /\ replay.parse_failures = collect.parse_failures
      /\ Genuine /\ ~finished => state = StateOf(replay)
      /\ IsValid(state) => state.book = StateOf(replay).book

\* The metadata are there before anything else, and no number is shifted before a
\* gap is simulated.
Written ==
  /\ session.phase # "created" => Len(journal) > 0
  /\ Genuine => collect.sequence_shift = 0

\* The footer says what the recording knew, and nothing follows it.
Footed ==
  finished =>
    /\ session.phase = "ended"
    /\ Len(journal) > 0
    /\ LET footer == journal[Len(journal)].payload
       IN  /\ footer.messages = collect.messages_received
           /\ footer.parse_failures = collect.parse_failures
           /\ footer.stats = state.stats
           /\ footer.final_book = state.book
    /\ LastReplayed.state # None
    /\ Genuine => state = ReportedState(LastReplayed)

\* The part of the journal from one record on, and its replay.
Part(first) == SubSeq(journal, first, Len(journal))

PartReplay(first, strict) ==
  ReplayOf(Part(first), Options(Metadata, strict))[Len(Part(first))]

Failed(first) == \E i \in first..Len(journal) : journal[i].payload = Unreadable

\* SegmentsStandAlone of one part, whose replay has its metadata from the start.
StandsAlone(first, strict) ==
  LET replay == PartReplay(first, strict)
  IN  /\ replay \in ReplaysOf(Metadata)
      /\ replay.metadata = Metadata
      /\ replay.error = IF strict /\ Failed(first) THEN "ParseFailure" ELSE None
      /\ replay.error = None /\ IsValid(StateOf(replay)) /\ Genuine
           => StateOf(replay).book = state.book

Alone ==
  \A first \in 2 .. Len(journal) + 1, strict \in BOOLEAN : StandsAlone(first, strict)

\* The time for which a market has been invalid, at an instant.
Elapsed(market, at) ==
  market.invalid_time + (IF market.invalid_since = None THEN 0 ELSE at - market.invalid_since)

\* The market is observed once a loss or a message that can be read is journalled.
Begins(records) == \E k \in 1..Len(records) : Observed(records[k])

\* The time that is spent is what a replay would count, and an interval is open while
\* the observed book is invalid, until the footer closes it.
Timed ==
  /\ Begins(journal) => LastReplayed.state # None
  /\ Len(journal) > 0 => journal[Len(journal)].at \in Int
  /\ Genuine /\ Len(journal) > 0 =>
       /\ Elapsed(state, journal[Len(journal)].at) = TimeUntil(journal, Len(journal))
       /\ state.invalid_since # None
            <=> ~finished /\ Begins(journal) /\ ~IsValid(state)

PInv ==
  /\ RInv
  /\ Written
  /\ Mirrored
  /\ Footed
  /\ Alone
  /\ Timed

-----------------------------------------------------------------------------
(***************************************************************************)
(* A replay, record by record.                                             *)
(***************************************************************************)

\* What the replay of the first n records is, for every n.
ReplayRule(replayed, records, options) ==
  replayed = [n \in 0..Len(records) |->
                IF n = 0 THEN NewReplay(options)
                ELSE ReplayRecord(replayed[n - 1], records[n], options)]

LEMMA ReplayExists ==
  ASSUME NEW records, NEW options, Len(records) \in Nat
  PROVE  ReplayRule(ReplayOf(records, options), records, options)
<1> DEFINE Step(replay, n) == ReplayRecord(replay, records[n], options)
           Rule(f, m) == f = [n \in 0..m |-> IF n = 0 THEN NewReplay(options)
                                             ELSE Step(f[n - 1], n)]
           S == {m \in Nat : \E f : Rule(f, m)}
<1>1. 0 \in S
  <2>1. Rule([n \in 0..0 |-> NewReplay(options)], 0)
    OBVIOUS
  <2> QED BY <2>1
<1>2. ASSUME NEW m \in Nat, m \in S
      PROVE  m + 1 \in S
  <2>1. PICK f : Rule(f, m)
    BY <1>2
  <2> DEFINE g == [n \in 0 .. m + 1 |-> IF n = m + 1 THEN Step(f[m], m + 1) ELSE f[n]]
  <2>2. \A n \in 0..m : g[n] = f[n]
    OBVIOUS
  <2>3. \A n \in 0 .. m + 1 :
           g[n] = IF n = 0 THEN NewReplay(options) ELSE Step(g[n - 1], n)
    <3> HIDE DEF Step
    <3>1. g[m + 1] = Step(g[m], m + 1)
      BY <2>2
    <3>2. \A n \in 0..m : f[n] = IF n = 0 THEN NewReplay(options) ELSE Step(f[n - 1], n)
      BY <2>1
    <3> HIDE DEF g
    <3> QED BY <2>2, <3>1, <3>2
  <2>4. DOMAIN g = 0 .. m + 1 /\ g = [n \in 0 .. m + 1 |-> g[n]]
    OBVIOUS
  <2>5. Rule(g, m + 1)
    <3> HIDE DEF g, Step
    <3> QED BY <2>3, <2>4
  <2> HIDE DEF g, Step
  <2>6. \E h : Rule(h, m + 1)
    BY <2>5
  <2> QED BY <2>6
<1>3. Nat \subseteq S
  <2> HIDE DEF S
  <2> QED BY <1>1, <1>2, NatsByInduction
<1>4. \E f : Rule(f, Len(records))
  BY <1>3
<1>5. ReplayOf(records, options) = CHOOSE f : Rule(f, Len(records))
  BY DEF ReplayOf
<1>6. Rule(ReplayOf(records, options), Len(records))
  <2> HIDE DEF Rule
  <2> QED BY <1>4, <1>5
<1> QED BY <1>6 DEF ReplayRule

LEMMA ReplaySteps ==
  ASSUME NEW records, NEW options, Len(records) \in Nat
  PROVE  LET replayed == ReplayOf(records, options)
         IN  /\ replayed[0] = NewReplay(options)
             /\ \A n \in 1..Len(records) :
                   replayed[n] = ReplayRecord(replayed[n - 1], records[n], options)
<1> DEFINE replayed == ReplayOf(records, options)
<1>1. replayed = [n \in 0..Len(records) |->
                    IF n = 0 THEN NewReplay(options)
                    ELSE ReplayRecord(replayed[n - 1], records[n], options)]
  BY ReplayExists DEF ReplayRule
<1> HIDE DEF replayed
<1>2. replayed[0] = NewReplay(options)
  BY <1>1
<1>3. \A n \in 1..Len(records) :
         replayed[n] = ReplayRecord(replayed[n - 1], records[n], options)
  BY <1>1
<1> QED BY <1>2, <1>3 DEF replayed

\* What follows a record does not change what the replay had come to.
LEMMA ReplayOfMore ==
  ASSUME NEW records, NEW more, NEW options, Len(records) \in Nat, Len(more) \in Nat,
         Len(records) <= Len(more), \A i \in 1..Len(records) : more[i] = records[i]
  PROVE  \A n \in 0..Len(records) : ReplayOf(more, options)[n] = ReplayOf(records, options)[n]
<1> DEFINE old == ReplayOf(records, options)
           new == ReplayOf(more, options)
           S == {n \in 0..Len(records) : new[n] = old[n]}
<1>1. /\ old[0] = NewReplay(options) /\ new[0] = NewReplay(options)
      /\ \A n \in 1..Len(records) : old[n] = ReplayRecord(old[n - 1], records[n], options)
      /\ \A n \in 1..Len(more) : new[n] = ReplayRecord(new[n - 1], more[n], options)
  BY ReplaySteps
<1> HIDE DEF old, new
<1>2. 0 \in S
  BY <1>1
<1>3. \A n \in 0 .. Len(records) - 1 : n \in S => n + 1 \in S
  <2> SUFFICES ASSUME NEW n \in 0 .. Len(records) - 1, new[n] = old[n]
               PROVE  new[n + 1] = old[n + 1]
    OBVIOUS
  <2>1. n + 1 \in 1..Len(records) /\ n + 1 \in 1..Len(more) /\ (n + 1) - 1 = n
    OBVIOUS
  <2>2. /\ old[n + 1] = ReplayRecord(old[n], records[n + 1], options)
        /\ new[n + 1] = ReplayRecord(new[n], more[n + 1], options)
    BY <1>1, <2>1
  <2> QED BY <2>1, <2>2
<1>4. 0..Len(records) \subseteq S
  <2> HIDE DEF S
  <2> QED BY <1>2, <1>3, IntervalByInduction
<1> QED BY <1>4 DEF old, new

\* One more record is replayed after all the others.
LEMMA ReplayOfNext ==
  ASSUME NEW records, NEW more, NEW options, Len(records) \in Nat,
         Len(more) = Len(records) + 1, \A i \in 1..Len(records) : more[i] = records[i]
  PROVE  ReplayOf(more, options)[Len(more)]
           = ReplayRecord(ReplayOf(records, options)[Len(records)], more[Len(more)], options)
<1>1. /\ ReplayOf(more, options)[Len(more)]
           = ReplayRecord(ReplayOf(more, options)[Len(more) - 1], more[Len(more)], options)
      /\ Len(more) - 1 = Len(records)
  BY ReplaySteps
<1>2. ReplayOf(more, options)[Len(records)] = ReplayOf(records, options)[Len(records)]
  BY ReplayOfMore
<1> QED BY <1>1, <1>2

\* A record is timed and counted first.
AtRecord(replay, record) == [replay EXCEPT !.last_time = record.at, !.records = @ + 1]

LEMMA AtRecordFacts ==
  ASSUME NEW m, NEW r \in ReplaysOf(m), NEW record, record.at \in Int
  PROVE  LET timed == AtRecord(r, record)
         IN  /\ timed \in ReplaysOf(m)
             /\ timed.last_time = record.at
             /\ timed.error = r.error
             /\ timed.metadata = r.metadata
             /\ timed.state = r.state
             /\ timed.messages = r.messages
             /\ timed.parse_failures = r.parse_failures
<1>1. r.records + 1 \in Nat
  BY DEF ReplaysOf
<1> QED BY <1>1 DEF AtRecord, ReplaysOf

\* What is replayed is a state of the grid, and what StateOf says.
LEMMA HeldFacts ==
  ASSUME NEW m, None \notin States(m.price_grid), NEW r \in ReplaysOf(m), r.metadata = m
  PROVE  /\ Held(r) \in States(m.price_grid)
         /\ Held(r) = StateOf(r)
<1>1. CASE r.state = None
  <2>1. Held(r) = Market(m.price_grid)!NewMarketState
    BY <1>1 DEF Held
  <2>2. Market(m.price_grid)!NewMarketState = NewState /\ NewState \in States(m.price_grid)
    BY EmptyBook, NewStateType
  <2> QED BY <1>1, <2>1, <2>2 DEF StateOf
<1>2. CASE r.state # None
  BY <1>2 DEF Held, StateOf, ReplaysOf
<1> QED BY <1>1, <1>2

\* The first session's record gives the replay its metadata.
LEMMA StartedIsReplayed ==
  ASSUME NEW m, m # Unreadable, NEW r \in ReplaysOf(m), r.error = None, r.metadata = None,
         NEW record, record.at \in Int, record.kind = "SessionStarted", record.payload = m,
         NEW options
  PROVE  LET next == ReplayRecord(r, record, options)
         IN  /\ next \in ReplaysOf(m)
             /\ next.error = None
             /\ next.metadata = m
             /\ next.last_time = record.at
             /\ next.state = r.state
             /\ next.messages = r.messages
             /\ next.parse_failures = r.parse_failures
<1> DEFINE timed == AtRecord(r, record)
<1>1. /\ timed \in ReplaysOf(m)
      /\ timed.last_time = record.at
      /\ timed.error = None
      /\ timed.metadata = None
      /\ timed.state = r.state
      /\ timed.messages = r.messages
      /\ timed.parse_failures = r.parse_failures
  BY AtRecordFacts
<1>2. ReplayRecord(r, record, options) = ReplaySession(timed, record)
  BY DEF ReplayRecord, AtRecord
<1> HIDE DEF timed
<1> DEFINE counted == [timed EXCEPT !.lifecycle = @ + 1]
<1>3. timed.lifecycle + 1 \in Nat
  BY <1>1 DEF ReplaysOf
<1>4. ReplaySession(timed, record) = [counted EXCEPT !.metadata = m]
  BY <1>1 DEF ReplaySession, ReplaysOf
<1>5. /\ counted \in ReplaysOf(m)
      /\ counted.state = r.state
      /\ counted.messages = r.messages
      /\ counted.error = None /\ counted.last_time = record.at
      /\ counted.parse_failures = r.parse_failures
  BY <1>1, <1>3 DEF ReplaysOf
<1> HIDE DEF counted
<1> QED BY <1>2, <1>4, <1>5 DEF ReplaysOf

\* A message that can be read is applied at the record's time.
LEMMA MessageIsReplayed ==
  ASSUME NEW m, m # None, None \notin States(m.price_grid), NEW r \in ReplaysOf(m),
         r.error = None, r.metadata = m,
         NEW record, record.at \in Int, record.kind = "Message", record.payload # Unreadable,
         NEW options, NEW market,
         market = Market(m.price_grid)!apply(
                    StateOf(r), Normalized(record.payload, m.price_convention), record.at),
         market \in States(m.price_grid)
  PROVE  LET next == ReplayRecord(r, record, options)
         IN  /\ next \in ReplaysOf(m)
             /\ next.error = None
             /\ next.metadata = m
             /\ next.last_time = record.at
             /\ next.state = market
             /\ next.messages = r.messages + 1
             /\ next.parse_failures = r.parse_failures
<1> DEFINE timed == AtRecord(r, record)
<1>1. /\ timed \in ReplaysOf(m)
      /\ timed.last_time = record.at
      /\ timed.error = None
      /\ timed.metadata = m
      /\ timed.state = r.state
      /\ timed.messages = r.messages
      /\ timed.parse_failures = r.parse_failures
  BY AtRecordFacts
<1>2. ReplayRecord(r, record, options) = ReplayMessage(timed, record, options)
  BY DEF ReplayRecord, AtRecord
<1>3. Held(timed) \in States(m.price_grid) /\ Held(timed) = StateOf(r)
  BY <1>1, HeldFacts DEF StateOf
<1> HIDE DEF timed
<1> DEFINE counted == [timed EXCEPT !.messages = @ + 1, !.state = Held(timed)]
<1>4. timed.messages + 1 \in Nat
  BY <1>1 DEF ReplaysOf
<1>5. /\ counted \in ReplaysOf(m)
      /\ counted.state = StateOf(r)
      /\ counted.messages = r.messages + 1
      /\ counted.error = None /\ counted.metadata = m /\ counted.last_time = record.at
      /\ counted.parse_failures = r.parse_failures
  BY <1>1, <1>3, <1>4 DEF ReplaysOf
<1>6. ReplayMessage(timed, record, options)
        = [counted EXCEPT !.state =
             Market(m.price_grid)!apply(@, Normalized(record.payload, m.price_convention),
                                        record.at)]
  BY <1>1 DEF ReplayMessage
<1> HIDE DEF counted
<1>7. ReplayMessage(timed, record, options) = [counted EXCEPT !.state = market]
  BY <1>5, <1>6
<1> QED BY <1>2, <1>5, <1>7 DEF ReplaysOf

\* A message that cannot be read is counted, and stops a strict replay.
LEMMA FailureIsReplayed ==
  ASSUME NEW m, m # None, None \notin States(m.price_grid), NEW r \in ReplaysOf(m),
         r.error = None, r.metadata = m,
         NEW record, record.at \in Int, record.kind = "Message", record.payload = Unreadable,
         NEW strict \in BOOLEAN, NEW override
  PROVE  LET next == ReplayRecord(r, record, Options(override, strict))
         IN  /\ next \in ReplaysOf(m)
             /\ next.error = IF strict THEN "ParseFailure" ELSE None
             /\ next.metadata = m
             /\ next.last_time = record.at
             /\ next.state = StateOf(r)
             /\ next.messages = r.messages + 1
             /\ next.parse_failures = r.parse_failures + 1
<1> DEFINE timed == AtRecord(r, record)
           options == Options(override, strict)
<1>1. /\ timed \in ReplaysOf(m)
      /\ timed.last_time = record.at
      /\ timed.error = None
      /\ timed.metadata = m
      /\ timed.state = r.state
      /\ timed.messages = r.messages
      /\ timed.parse_failures = r.parse_failures
  BY AtRecordFacts
<1>2. ReplayRecord(r, record, options) = ReplayMessage(timed, record, options)
  BY DEF ReplayRecord, AtRecord
<1>3. Held(timed) \in States(m.price_grid) /\ Held(timed) = StateOf(r)
  BY <1>1, HeldFacts DEF StateOf
<1>4. options.stop_on_parse_failure = strict
  BY DEF Options
<1> HIDE DEF timed, options
<1> DEFINE counted == [timed EXCEPT !.messages = @ + 1, !.state = Held(timed)]
           failed == [counted EXCEPT !.parse_failures = @ + 1]
<1>5. timed.messages + 1 \in Nat /\ timed.parse_failures + 1 \in Nat
  BY <1>1 DEF ReplaysOf
<1>6. /\ failed \in ReplaysOf(m)
      /\ failed.state = StateOf(r)
      /\ failed.messages = r.messages + 1
      /\ failed.error = None /\ failed.metadata = m /\ failed.last_time = record.at
      /\ failed.parse_failures = r.parse_failures + 1
  BY <1>1, <1>3, <1>5 DEF ReplaysOf
<1>7. ReplayMessage(timed, record, options)
        = IF strict THEN Fail(failed, "ParseFailure") ELSE failed
  BY <1>1, <1>4 DEF ReplayMessage
<1> HIDE DEF failed
<1> QED BY <1>2, <1>6, <1>7 DEF ReplaysOf, Fail, options

\* A loss is applied at the record's time.
LEMMA LossIsReplayed ==
  ASSUME NEW m, m # None, None \notin States(m.price_grid), NEW r \in ReplaysOf(m),
         r.error = None, r.metadata = m,
         NEW record, record.at \in Int, record.kind = "ConnectionLost", NEW options
  PROVE  LET next == ReplayRecord(r, record, options)
         IN  /\ next \in ReplaysOf(m)
             /\ next.error = None
             /\ next.metadata = m
             /\ next.last_time = record.at
             /\ next.state = Market(m.price_grid)!on_disconnected(StateOf(r), record.at)
             /\ next.messages = r.messages
             /\ next.parse_failures = r.parse_failures
<1> DEFINE timed == AtRecord(r, record)
           market == Market(m.price_grid)!on_disconnected(StateOf(r), record.at)
<1>1. /\ timed \in ReplaysOf(m)
      /\ timed.last_time = record.at
      /\ timed.error = None
      /\ timed.metadata = m
      /\ timed.messages = r.messages
      /\ timed.parse_failures = r.parse_failures
  BY AtRecordFacts
<1>2. Held(r) \in States(m.price_grid) /\ Held(r) = StateOf(r)
  BY HeldFacts
<1>3. ReplayRecord(r, record, options)
        = [timed EXCEPT !.lifecycle = @ + 1,
                        !.state = Market(r.metadata.price_grid)!on_disconnected(
                                    Held(r), record.at)]
  BY DEF ReplayRecord, AtRecord
<1>4. Market(r.metadata.price_grid)!on_disconnected(Held(r), record.at) = market
  BY <1>2
<1>5. market \in States(m.price_grid)
  BY <1>2, DisconnectedFacts
<1> HIDE DEF timed, market
<1>6. timed.lifecycle + 1 \in Nat
  BY <1>1 DEF ReplaysOf
<1>7. ReplayRecord(r, record, options)
        = [timed EXCEPT !.lifecycle = timed.lifecycle + 1, !.state = market]
  BY <1>3, <1>4
<1> QED BY <1>1, <1>5, <1>6, <1>7 DEF ReplaysOf, market

\* The end of a session changes nothing but the time.
LEMMA EndIsReplayed ==
  ASSUME NEW m, m # None, None \notin States(m.price_grid), NEW r \in ReplaysOf(m),
         r.error = None, r.metadata = m,
         NEW record, record.at \in Int, record.kind = "SessionEnded", NEW options
  PROVE  LET next == ReplayRecord(r, record, options)
         IN  /\ next \in ReplaysOf(m)
             /\ next.error = None
             /\ next.metadata = m
             /\ next.last_time = record.at
             /\ next.state = StateOf(r)
             /\ next.messages = r.messages
             /\ next.parse_failures = r.parse_failures
<1> DEFINE timed == AtRecord(r, record)
<1>1. /\ timed \in ReplaysOf(m)
      /\ timed.last_time = record.at
      /\ timed.error = None
      /\ timed.metadata = m
      /\ timed.messages = r.messages
      /\ timed.parse_failures = r.parse_failures
  BY AtRecordFacts
<1>2. Held(r) \in States(m.price_grid) /\ Held(r) = StateOf(r)
  BY HeldFacts
<1>3. ReplayRecord(r, record, options)
        = [timed EXCEPT !.lifecycle = @ + 1, !.state = Held(r)]
  BY DEF ReplayRecord, AtRecord
<1> HIDE DEF timed
<1>4. timed.lifecycle + 1 \in Nat
  BY <1>1 DEF ReplaysOf
<1> QED BY <1>1, <1>2, <1>3, <1>4 DEF ReplaysOf

-----------------------------------------------------------------------------
(***************************************************************************)
(* Two market states that are told the same.                               *)
(***************************************************************************)

\* An observation is of a book, and leaves it.
LEMMA AppliedBook ==
  ASSUME NEW grid, NEW st \in States(grid), NEW event, NEW at
  PROVE  Market(grid)!apply(st, event, at).book
           = Market(grid)!AfterEvent(st.book, event, Market(grid)!Rejection(st, event))
<1>1. ASSUME NEW book, NEW counters
      PROVE  Market(grid)!note_validity(Noting(grid, st, book, counters), at).book = book
  <2> DEFINE noted == Noting(grid, st, book, counters)
  <2>1. noted.book = book /\ DOMAIN noted = DOMAIN st
    BY DEF Noting, States
  <2>2. DOMAIN st = {"book", "stats", "invalid_time", "invalid_since"}
    BY DEF States
  <2> HIDE DEF noted
  <2> DEFINE timed == IF Market(grid)!is_valid(noted.book) THEN Market(grid)!finish(noted, at)
                      ELSE IF noted.invalid_since = None
                      THEN [noted EXCEPT !.invalid_since = at]
                      ELSE noted
  <2>3. timed.book = book /\ DOMAIN timed = DOMAIN noted
    BY <2>1, <2>2 DEF Market!finish
  <2>4. Market(grid)!note_validity(noted, at)
          = IF Market(grid)!is_crossed(noted.book)
            THEN [timed EXCEPT !.stats = Market(grid)!Count(@, {"crossed_observations"})]
            ELSE timed
    BY DEF Market!note_validity
  <2> HIDE DEF timed
  <2> QED BY <2>1, <2>2, <2>3, <2>4 DEF noted
<1> DEFINE verdict == Market(grid)!Rejection(st, event)
           book == Market(grid)!AfterEvent(st.book, event, verdict)
<1>2. Market(grid)!apply(st, event, at)
        = Market(grid)!note_validity(
            Noting(grid, st, book, Market(grid)!Counts(event, verdict)), at)
  BY DEF Market!apply, Noting
<1> HIDE DEF book, verdict
<1>3. Market(grid)!apply(st, event, at).book = book
  BY <1>1, <1>2
<1> QED BY <1>3 DEF book, verdict

\* The book that an event leaves depends on the book before it and on nothing else.
LEMMA SameBookAfter ==
  ASSUME NEW grid, NEW one \in States(grid), NEW other \in States(grid),
         one.book = other.book, NEW event, NEW at
  PROVE  Market(grid)!apply(one, event, at).book = Market(grid)!apply(other, event, at).book
<1>1. Market(grid)!Rejection(one, event) = Market(grid)!Rejection(other, event)
  BY DEF Market!Rejection
<1> QED BY <1>1, AppliedBook

\* A snapshot that is taken gives the same book whatever there was before.
LEMMA SameBookFromSnapshot ==
  ASSUME NEW grid, NEW one \in States(grid), NEW other \in States(grid), NEW at \in Int,
         NEW event, SnapshotEvent(grid, event),
         IsValid(Market(grid)!apply(one, event, at))
  PROVE  Market(grid)!apply(one, event, at).book = Market(grid)!apply(other, event, at).book
<1> DEFINE after(st) == Market(grid)!apply(st, event, at)
<1>1. \A st \in States(grid) :
         IsValid(after(st)) <=>
           ~Market(grid)!invalidates_book(Market(grid)!Rejection(st, event))
  BY SnapshotFacts
<1>2. Market(grid)!Rejection(one, event) = Market(grid)!Rejection(other, event)
  BY DEF SnapshotEvent, Market!Rejection
<1>3. \A st \in States(grid) : IsValid(after(st)) => after(st).book = SnapshotBook(grid, event)
  BY SnapshotFacts
<1> HIDE DEF after
<1>4. IsValid(after(one)) /\ IsValid(after(other))
  BY <1>1, <1>2 DEF after
<1> QED BY <1>3, <1>4 DEF after

\* Nothing that is sent is taken for what cannot be parsed, and a number that is not
\* shifted is told as it came.
LEMMA SentIsTold ==
  ASSUME RInv, NEW message \in NextSnapshots \cup NextDeltas \cup NextOthers
  PROVE  LET event == Normalized(message, Convention)
         IN  /\ message # Unreadable
             /\ SequenceShift(event) = 0 => Adjusted(event) = event
             /\ \/ SnapshotEvent(Grid, event) /\ Adjusted(event) = event
                \/ DeltaEvent(Grid, event) /\ DeltaEvent(Grid, Adjusted(event))
                \/ event.type \in Market(Grid)!OtherEvents /\ Adjusted(event) = event
<1> DEFINE event == Normalized(message, Convention)
<1>1. /\ collect.recording \in Recordings
      /\ collect.sequence_shift \in {0, 1}
      /\ venue.sequence \in Nat
  BY DEF RInv, Typed, Collects
<1>2. CASE message \in NextSnapshots
  <2>1. message.type # "unparsed"
    BY <1>1, <1>2, SnapshotSent
  <2> QED BY <1>1, <1>2, <2>1, SnapshotSent DEF Unreadable
<1>3. CASE message \in NextDeltas
  <2>1. message.type # "unparsed"
    BY <1>1, <1>3, DeltaSent
  <2> QED BY <1>1, <1>3, <2>1, DeltaSent DEF Unreadable
<1>4. CASE message \in NextOthers
  <2>1. message.type # "unparsed"
    BY <1>4, OtherSent DEF Market!OtherEvents
  <2> QED BY <1>4, <2>1, OtherSent DEF Unreadable
<1> QED BY <1>2, <1>3, <1>4

\* Of two books of which the first is the second's unless it is not to be trusted, that
\* still holds when both are told the same.
LEMMA ToldAlike ==
  ASSUME NEW grid, NEW one \in States(grid), NEW other \in States(grid), NEW at \in Int,
         NEW event,
         \/ SnapshotEvent(grid, event)
         \/ DeltaEvent(grid, event)
         \/ event.type \in Market(grid)!OtherEvents,
         IsValid(one) => one.book = other.book,
         IsValid(Market(grid)!apply(one, event, at))
  PROVE  Market(grid)!apply(one, event, at).book = Market(grid)!apply(other, event, at).book
<1>1. CASE SnapshotEvent(grid, event)
  BY <1>1, SameBookFromSnapshot
<1>2. CASE DeltaEvent(grid, event)
  <2>1. IsValid(one)
    BY <1>2, DeltaFacts
  <2> QED BY <2>1, SameBookAfter
<1>3. CASE event.type \in Market(grid)!OtherEvents
  <2>1. Market(grid)!apply(one, event, at).book = one.book
    BY <1>3, OtherFacts
  <2>2. IsValid(one)
    BY <2>1 DEF IsValid
  <2> QED BY <2>2, SameBookAfter
<1> QED BY <1>1, <1>2, <1>3

LEMMA AppliedType ==
  ASSUME NEW grid, NEW st \in States(grid), NEW at \in Int, NEW event,
         \/ SnapshotEvent(grid, event)
         \/ DeltaEvent(grid, event)
         \/ event.type \in Market(grid)!OtherEvents
  PROVE  Market(grid)!apply(st, event, at) \in States(grid)
BY SnapshotFacts, DeltaFacts, OtherFacts

-----------------------------------------------------------------------------
(***************************************************************************)
(* The time for which a book was not to be trusted.                        *)
(***************************************************************************)

\* The time from the record before it that a record adds.
Added(records, i) ==
  IF HoleAfter(records, i - 1) THEN records[i].at - records[i - 1].at ELSE 0

SpentRule(spent, records, n) ==
  spent = [i \in 1..n |-> IF i = 1 THEN 0 ELSE spent[i - 1] + Added(records, i)]

\* What TimeUntil sums up is a function with these steps, for any number of records.
LEMMA TimeSteps ==
  ASSUME NEW records, NEW n \in Nat \ {0}
  PROVE  \E spent : SpentRule(spent, records, n) /\ TimeUntil(records, n) = spent[n]
<1> DEFINE Step(spent, i) == IF i = 1 THEN 0 ELSE spent + Added(records, i)
           Rule(f, m) == f = [i \in 1..m |-> IF i = 1 THEN 0
                                             ELSE f[i - 1] + Added(records, i)]
           S == {m \in Nat : \E f : Rule(f, m)}
<1>1. 0 \in S
  <2>1. Rule([i \in 1..0 |-> 0], 0)
    OBVIOUS
  <2> QED BY <2>1
<1>2. ASSUME NEW m \in Nat, m \in S
      PROVE  m + 1 \in S
  <2>1. PICK f : Rule(f, m)
    BY <1>2
  <2> DEFINE last == IF m = 0 THEN 0 ELSE f[m] + Added(records, m + 1)
             g == [i \in 1 .. m + 1 |-> IF i = m + 1 THEN last ELSE f[i]]
  <2>2. DOMAIN g = 1 .. m + 1 /\ g = [i \in 1 .. m + 1 |-> g[i]]
    OBVIOUS
  <2>3. (\A i \in 1..m : g[i] = f[i]) /\ g[m + 1] = last
    OBVIOUS
  <2>4. \A i \in 1..m : f[i] = IF i = 1 THEN 0 ELSE f[i - 1] + Added(records, i)
    BY <2>1
  <2> HIDE DEF g
  <2>5. \A i \in 1 .. m + 1 : g[i] = IF i = 1 THEN 0 ELSE g[i - 1] + Added(records, i)
    <3>1. ASSUME NEW i \in 1..m
          PROVE  g[i] = IF i = 1 THEN 0 ELSE g[i - 1] + Added(records, i)
      <4>1. i # 1 => i - 1 \in 1..m
        OBVIOUS
      <4> QED BY <2>3, <2>4, <4>1
    <3>2. g[m + 1] = IF m + 1 = 1 THEN 0 ELSE g[(m + 1) - 1] + Added(records, m + 1)
      <4>1. CASE m = 0
        BY <2>3, <4>1
      <4>2. CASE m # 0
        <5>1. m \in 1..m /\ (m + 1) - 1 = m /\ m + 1 # 1
          BY <4>2
        <5> QED BY <2>3, <4>2, <5>1
      <4> QED BY <4>1, <4>2
    <3>3. \A i \in 1 .. m + 1 : i \in 1..m \/ i = m + 1
      OBVIOUS
    <3> QED BY <3>1, <3>2, <3>3
  <2>6. Rule(g, m + 1)
    BY <2>2, <2>5
  <2> HIDE DEF Rule
  <2>7. \E h : Rule(h, m + 1)
    BY <2>6
  <2> QED BY <2>7
<1>3. Nat \subseteq S
  <2> HIDE DEF S
  <2> QED BY <1>1, <1>2, NatsByInduction
<1>4. \E f : Rule(f, n)
  BY <1>3
<1> DEFINE spent == CHOOSE f : Rule(f, n)
<1>5. Rule(spent, n)
  <2> HIDE DEF Rule
  <2> QED BY <1>4
<1>6. TimeUntil(records, n) = spent[n]
  BY DEF TimeUntil, Added
<1> HIDE DEF spent
<1> QED BY <1>5, <1>6 DEF SpentRule

\* What follows a record does not change what was open at it.
LEMMA HoleStays ==
  ASSUME NEW records, NEW more, Len(records) \in Nat, Len(more) = Len(records) + 1,
         \A i \in 1..Len(records) : more[i] = records[i],
         NEW i \in 1..Len(records)
  PROVE  HoleAfter(more, i) <=> HoleAfter(records, i)
<1>1. ReplayOf(more, DefaultOptions)[i] = ReplayOf(records, DefaultOptions)[i]
  BY ReplayOfMore
<1>2. \A k \in 1..i : more[k] = records[k]
  OBVIOUS
<1> QED BY <1>1, <1>2 DEF HoleAfter

LEMMA FirstTime == ASSUME NEW records PROVE TimeUntil(records, 1) = 0
<1>1. PICK spent : SpentRule(spent, records, 1) /\ TimeUntil(records, 1) = spent[1]
  BY TimeSteps
<1> QED BY <1>1 DEF SpentRule

\* One more record adds the time since the record before it, if the book was invalid.
LEMMA TimeNext ==
  ASSUME NEW records, NEW more, NEW n \in Nat \ {0}, Len(records) = n, Len(more) = n + 1,
         \A i \in 1..n : more[i] = records[i]
  PROVE  TimeUntil(more, n + 1)
           = TimeUntil(records, n)
               + (IF HoleAfter(records, n) THEN more[n + 1].at - records[n].at ELSE 0)
<1>1. PICK old : SpentRule(old, records, n) /\ TimeUntil(records, n) = old[n]
  BY TimeSteps
<1>2. PICK new : SpentRule(new, more, n + 1) /\ TimeUntil(more, n + 1) = new[n + 1]
  BY TimeSteps
<1>3. \A i \in 1..n : old[i] = IF i = 1 THEN 0 ELSE old[i - 1] + Added(records, i)
  BY <1>1 DEF SpentRule
<1>4. \A i \in 1 .. n + 1 : new[i] = IF i = 1 THEN 0 ELSE new[i - 1] + Added(more, i)
  BY <1>2 DEF SpentRule
<1>5. \A i \in 2..n : Added(more, i) = Added(records, i)
  <2> SUFFICES ASSUME NEW i \in 2..n
               PROVE  Added(more, i) = Added(records, i)
    OBVIOUS
  <2>1. i - 1 \in 1..n /\ i \in 1..n
    OBVIOUS
  <2>2. HoleAfter(more, i - 1) <=> HoleAfter(records, i - 1)
    BY <2>1, HoleStays
  <2> QED BY <2>1, <2>2 DEF Added
<1> DEFINE S == {i \in 0..n : i # 0 => new[i] = old[i]}
<1>6. 0 \in S
  OBVIOUS
<1>7. \A i \in 0 .. n - 1 : i \in S => i + 1 \in S
  <2> SUFFICES ASSUME NEW i \in 0 .. n - 1, i # 0 => new[i] = old[i]
               PROVE  new[i + 1] = old[i + 1]
    OBVIOUS
  <2>1. i + 1 \in 1..n /\ i + 1 \in 1 .. n + 1 /\ (i + 1) - 1 = i
    OBVIOUS
  <2>2. CASE i = 0
    BY <1>3, <1>4, <2>1, <2>2
  <2>3. CASE i # 0
    <3>1. i + 1 \in 2..n /\ i + 1 # 1
      BY <2>3
    <3>2. /\ new[i + 1] = new[i] + Added(more, i + 1)
          /\ old[i + 1] = old[i] + Added(records, i + 1)
      BY <1>3, <1>4, <2>1, <3>1
    <3> QED BY <1>5, <2>3, <3>1, <3>2
  <2> QED BY <2>2, <2>3
<1>8. 0..n \subseteq S
  <2> HIDE DEF S
  <2> QED BY <1>6, <1>7, IntervalByInduction
<1>9. new[n] = old[n]
  BY <1>8
<1>10. new[n + 1] = new[n] + Added(more, n + 1)
  <2>1. n + 1 \in 1 .. n + 1 /\ n + 1 # 1 /\ (n + 1) - 1 = n
    OBVIOUS
  <2> QED BY <1>4, <2>1
<1>11. Added(more, n + 1) = IF HoleAfter(records, n) THEN more[n + 1].at - records[n].at ELSE 0
  <2>1. (n + 1) - 1 = n /\ n \in 1..n
    OBVIOUS
  <2>2. HoleAfter(more, n) <=> HoleAfter(records, n)
    BY <2>1, HoleStays
  <2> QED BY <2>1, <2>2 DEF Added
<1> QED BY <1>1, <1>2, <1>9, <1>10, <1>11

\* An interval that is open goes on with the clock.
LEMMA ElapsedLater ==
  ASSUME NEW grid, NEW st \in States(grid), NEW before \in Int, NEW at \in Int
  PROVE  /\ Elapsed(st, before) \in Int
         /\ Elapsed(st, at) = Elapsed(st, before)
                                + (IF st.invalid_since # None THEN at - before ELSE 0)
<1>1. st.invalid_time \in Int /\ (st.invalid_since = None \/ st.invalid_since \in Int)
  BY DEF States
<1>2. CASE st.invalid_since = None
  BY <1>1, <1>2 DEF Elapsed
<1>3. CASE st.invalid_since # None
  BY <1>1, <1>3 DEF Elapsed
<1> QED BY <1>2, <1>3

LEMMA FinishIsTimed ==
  ASSUME NEW grid, NEW st \in States(grid), NEW at \in Int
  PROVE  LET after == Market(grid)!finish(st, at)
         IN  /\ Elapsed(after, at) = Elapsed(st, at)
             /\ after.invalid_since = None
<1>1. st.invalid_time \in Int /\ (st.invalid_since = None \/ st.invalid_since \in Int)
  BY DEF States
<1>2. CASE st.invalid_since = None
  BY <1>2 DEF Market!finish
<1>3. CASE st.invalid_since # None
  <2> DEFINE after == [st EXCEPT !.invalid_time = @ + (at - st.invalid_since),
                                 !.invalid_since = None]
  <2>1. Market(grid)!finish(st, at) = after
    BY <1>3 DEF Market!finish
  <2>2. /\ after.invalid_time = st.invalid_time + (at - st.invalid_since)
        /\ after.invalid_since = None
    BY DEF States
  <2> HIDE DEF after
  <2>3. st.invalid_time + (at - st.invalid_since) \in Int
    BY <1>1, <1>3
  <2> QED BY <1>3, <2>1, <2>2, <2>3 DEF Elapsed
<1> QED BY <1>2, <1>3

\* An observation opens an interval or closes it, and loses no time by it.
LEMMA NotedIsTimed ==
  ASSUME NEW grid, NEW st \in States(grid), NEW at \in Int,
         NEW book \in Market(grid)!Books({1}, Nat \ {0}), NEW counters
  PROVE  LET after == Market(grid)!note_validity(Noting(grid, st, book, counters), at)
         IN  /\ Elapsed(after, at) = Elapsed(st, at)
             /\ after.invalid_since # None <=> ~IsValid(after)
<1> DEFINE noted == Noting(grid, st, book, counters)
           timed == IF Market(grid)!is_valid(noted.book) THEN Market(grid)!finish(noted, at)
                    ELSE IF noted.invalid_since = None THEN [noted EXCEPT !.invalid_since = at]
                    ELSE noted
           after == Market(grid)!note_validity(noted, at)
<1>1. Market(grid)!Count(st.stats, counters) \in [Market(grid)!Counters -> Nat]
  BY CountType DEF States
<1>2. /\ noted \in States(grid)
      /\ noted.book = book
      /\ noted.invalid_time = st.invalid_time
      /\ noted.invalid_since = st.invalid_since
  BY <1>1 DEF States, Noting
<1>3. Elapsed(noted, at) = Elapsed(st, at)
  BY <1>2 DEF Elapsed
<1> HIDE DEF noted
<1>4. after = IF Market(grid)!is_crossed(noted.book)
              THEN [timed EXCEPT !.stats = Market(grid)!Count(@, {"crossed_observations"})]
              ELSE timed
  BY DEF Market!note_validity
<1>5. /\ timed \in States(grid)
      /\ timed.book = book
      /\ Elapsed(timed, at) = Elapsed(st, at)
      /\ timed.invalid_since # None <=> ~Market(grid)!is_valid(book)
  <2>1. CASE Market(grid)!is_valid(book)
    <3>1. timed = Market(grid)!finish(noted, at)
      BY <1>2, <2>1
    <3> HIDE DEF timed
    <3> QED BY <1>2, <1>3, <2>1, <3>1, FinishFacts, FinishIsTimed
  <2>2. CASE ~Market(grid)!is_valid(book) /\ noted.invalid_since = None
    <3>1. timed = [noted EXCEPT !.invalid_since = at]
      BY <1>2, <2>2
    <3> HIDE DEF timed
    <3>2. /\ timed \in States(grid)
          /\ timed.book = book
          /\ timed.invalid_time = noted.invalid_time
          /\ timed.invalid_since = at
      BY <1>2, <3>1 DEF States
    <3>3. at # None /\ noted.invalid_time \in Int
      BY <1>2, NoneAssumption DEF States
    <3> QED BY <1>3, <2>2, <3>2, <3>3 DEF Elapsed
  <2>3. CASE ~Market(grid)!is_valid(book) /\ noted.invalid_since # None
    <3>1. timed = noted
      BY <1>2, <2>3
    <3> QED BY <1>2, <1>3, <2>3, <3>1
  <2> QED BY <2>1, <2>2, <2>3
<1> HIDE DEF timed
<1>6. /\ after.book = timed.book
      /\ after.invalid_time = timed.invalid_time
      /\ after.invalid_since = timed.invalid_since
  BY <1>4, <1>5 DEF States
<1>7. IsValid(after) <=> Market(grid)!is_valid(book)
  BY <1>5, <1>6, ValidIsValid
<1> HIDE DEF after
<1> QED BY <1>5, <1>6, <1>7 DEF Elapsed, after, noted

-----------------------------------------------------------------------------
(***************************************************************************)
(* The steps of a recording, as a replay sees them.                        *)
(***************************************************************************)

\* The metadata that a recording writes are there, and say how it is recorded.
LEMMA MetadataFacts ==
  ASSUME Typed
  PROVE  /\ Metadata # None
         /\ Metadata # Unreadable
         /\ Metadata.price_grid = Grid
         /\ Metadata.price_convention = Convention
         /\ None \notin States(Grid)
         /\ None # "ParseFailure"
<1>1. collect.recording \in Recordings
  BY DEF Typed, Collects
<1>2. Metadata # Unreadable
  <2>1. "market_ticker" \in DOMAIN Metadata /\ "market_ticker" \notin DOMAIN Unreadable
    BY DEF Metadata, Unreadable
  <2> QED BY <2>1
<1> QED BY <1>1, <1>2, NoneAssumption DEF Metadata, Grid, Convention

\* What a record does to a market.
After(record, st) ==
  IF record.kind = "ConnectionLost" THEN Market(Grid)!on_disconnected(st, record.at)
  ELSE IF record.kind = "Message" /\ record.payload # Unreadable
  THEN Market(Grid)!apply(st, Normalized(record.payload, Convention), record.at)
  ELSE st

IsMessage(record) == record.kind = "Message"
IsFailure(record) == record.kind = "Message" /\ record.payload = Unreadable

LEMMA RecordIsReplayed ==
  ASSUME Typed, NEW r \in ReplaysOf(Metadata), r.error = None, r.metadata = Metadata,
         NEW record, record.at \in Int,
         record.kind \in {"Message", "ConnectionLost", "SessionEnded"},
         After(record, StateOf(r)) \in States(Grid),
         NEW strict \in BOOLEAN, NEW override
  PROVE  LET next == ReplayRecord(r, record, Options(override, strict))
         IN  /\ next \in ReplaysOf(Metadata)
             /\ next.error = IF strict /\ IsFailure(record) THEN "ParseFailure" ELSE None
             /\ next.metadata = Metadata
             /\ next.last_time = record.at
             /\ next.state = After(record, StateOf(r))
             /\ next.messages = r.messages + (IF IsMessage(record) THEN 1 ELSE 0)
             /\ next.parse_failures = r.parse_failures + (IF IsFailure(record) THEN 1 ELSE 0)
<1> DEFINE options == Options(override, strict)
<1>1. /\ Metadata # None
      /\ Metadata # Unreadable
      /\ Metadata.price_grid = Grid
      /\ Metadata.price_convention = Convention
      /\ None \notin States(Metadata.price_grid)
  BY MetadataFacts
<1>2. r.messages \in Nat /\ r.parse_failures \in Nat
  BY DEF ReplaysOf
<1>3. CASE record.kind = "Message" /\ record.payload # Unreadable
  <2>1. After(record, StateOf(r))
          = Market(Metadata.price_grid)!apply(
              StateOf(r), Normalized(record.payload, Metadata.price_convention), record.at)
    BY <1>1, <1>3 DEF After
  <2>2. After(record, StateOf(r)) \in States(Metadata.price_grid)
    BY <1>1
  <2>3. LET next == ReplayRecord(r, record, options)
        IN  /\ next \in ReplaysOf(Metadata)
            /\ next.error = None
            /\ next.metadata = Metadata
            /\ next.last_time = record.at
            /\ next.state = After(record, StateOf(r))
            /\ next.messages = r.messages + 1
            /\ next.parse_failures = r.parse_failures
    BY <1>1, <1>3, <2>1, <2>2, MessageIsReplayed
  <2> QED BY <1>2, <1>3, <2>3 DEF IsMessage, IsFailure
<1>4. CASE record.kind = "Message" /\ record.payload = Unreadable
  <2>1. After(record, StateOf(r)) = StateOf(r)
    BY <1>4 DEF After
  <2> QED BY <1>1, <1>2, <1>4, <2>1, FailureIsReplayed DEF IsMessage, IsFailure
<1>5. CASE record.kind = "ConnectionLost"
  <2>1. After(record, StateOf(r))
          = Market(Metadata.price_grid)!on_disconnected(StateOf(r), record.at)
    BY <1>1, <1>5 DEF After
  <2> QED BY <1>1, <1>2, <1>5, <2>1, LossIsReplayed DEF IsMessage, IsFailure
<1>6. CASE record.kind = "SessionEnded"
  <2>1. After(record, StateOf(r)) = StateOf(r)
    BY <1>6 DEF After
  <2> QED BY <1>1, <1>2, <1>6, <2>1, EndIsReplayed DEF IsMessage, IsFailure
<1> QED BY <1>3, <1>4, <1>5, <1>6

\* A record is journalled, and the recording does what it says; a footer closes the
\* intervals besides.
Tells(record) ==
  /\ Extends(record)
  /\ record.at \in Int
  /\ record.kind \in {"Message", "ConnectionLost", "SessionEnded"}
  /\ record.payload = Unreadable => record.kind = "Message"
  /\ collect'.recording = collect.recording
  /\ collect'.messages_received
       = collect.messages_received + (IF IsMessage(record) THEN 1 ELSE 0)
  /\ collect'.parse_failures = collect.parse_failures + (IF IsFailure(record) THEN 1 ELSE 0)
  /\ Genuine' => Genuine
  /\ Genuine' /\ ~finished' => state' = After(record, state)
  /\ \A st \in States(Grid) : After(record, st) \in States(Grid)
  /\ \A st \in States(Grid) :
        IsValid(state') /\ (IsValid(state) => state.book = st.book)
          => state'.book = After(record, st).book
  /\ \A st \in States(Grid) :
        Genuine' /\ IsValid(After(record, st)) /\ (IsValid(st) => st.book = state.book)
          => After(record, st).book = state'.book

LEMMA LastReplayedNext ==
  ASSUME Typed, NEW record, Extends(record)
  PROVE  LastReplayed' = ReplayRecord(LastReplayed, record, DefaultOptions)
<1>1. /\ Len(journal) \in Nat
      /\ Len(journal') = Len(journal) + 1
      /\ \A i \in 1..Len(journal) : journal'[i] = journal[i]
      /\ journal'[Len(journal')] = record
  BY DEF Extends
<1> QED BY <1>1, ReplayOfNext DEF LastReplayed, Replayed

\* The replay goes on as the recording does.
LEMMA TellsMirrored ==
  ASSUME Typed, Mirrored, ~finished, Len(journal) > 0, NEW record, Tells(record)
  PROVE  /\ Mirrored'
         /\ LastReplayed' \in ReplaysOf(Metadata)
         /\ LastReplayed'.state = After(record, StateOf(LastReplayed))
         /\ LastReplayed'.last_time = record.at
         /\ LastReplayed'.metadata = Metadata
<1> DEFINE r == LastReplayed
<1>1. /\ r \in ReplaysOf(Metadata)
      /\ r.error = None
      /\ r.metadata = Metadata
      /\ r.messages = collect.messages_received
      /\ r.parse_failures = collect.parse_failures
      /\ Genuine => state = StateOf(r)
      /\ IsValid(state) => state.book = StateOf(r).book
  BY DEF Mirrored
<1>2. Metadata.price_grid = Grid /\ None \notin States(Grid)
  BY MetadataFacts
<1>3. StateOf(r) \in States(Grid)
  BY <1>1, <1>2, HeldFacts
<1>4. After(record, StateOf(r)) \in States(Grid)
  BY <1>3 DEF Tells
<1>5. LastReplayed' = ReplayRecord(r, record, Options(None, FALSE))
  BY LastReplayedNext DEF Tells, DefaultOptions
<1> HIDE DEF r
<1>6. /\ LastReplayed' \in ReplaysOf(Metadata)
      /\ LastReplayed'.error = None
      /\ LastReplayed'.metadata = Metadata
      /\ LastReplayed'.last_time = record.at
      /\ LastReplayed'.state = After(record, StateOf(r))
      /\ LastReplayed'.messages = r.messages + (IF IsMessage(record) THEN 1 ELSE 0)
      /\ LastReplayed'.parse_failures = r.parse_failures + (IF IsFailure(record) THEN 1 ELSE 0)
  <2>1. record.at \in Int /\ record.kind \in {"Message", "ConnectionLost", "SessionEnded"}
    BY DEF Tells
  <2>2. ASSUME NEW strict \in BOOLEAN, ~strict
        PROVE  LET next == ReplayRecord(r, record, Options(None, strict))
               IN  /\ next \in ReplaysOf(Metadata)
                   /\ next.error = None
                   /\ next.metadata = Metadata
                   /\ next.last_time = record.at
                   /\ next.state = After(record, StateOf(r))
                   /\ next.messages = r.messages + (IF IsMessage(record) THEN 1 ELSE 0)
                   /\ next.parse_failures
                        = r.parse_failures + (IF IsFailure(record) THEN 1 ELSE 0)
    BY <1>1, <1>4, <2>1, <2>2, RecordIsReplayed
  <2> QED BY <1>5, <2>2
<1>7. StateOf(LastReplayed)' = After(record, StateOf(r))
  BY <1>2, <1>4, <1>6 DEF StateOf
<1>8. Metadata' = Metadata /\ ReplaysOf(Metadata)' = ReplaysOf(Metadata)
  BY DEF Metadata, Grid, Convention, ReplaysOf, States, Tells
<1>9. Len(journal') # 0
  BY DEF Tells, Extends
<1>10. Genuine' /\ ~finished' => state' = StateOf(LastReplayed)'
  BY <1>1, <1>7 DEF Tells
<1>11. IsValid(state)' => (state.book)' = (StateOf(LastReplayed).book)'
  <2>1. IsValid(state') => state'.book = After(record, StateOf(r)).book
    BY <1>1, <1>3 DEF Tells
  <2> QED BY <1>7, <2>1 DEF IsValid
<1>12. /\ LastReplayed'.messages = collect'.messages_received
       /\ LastReplayed'.parse_failures = collect'.parse_failures
  BY <1>1, <1>6 DEF Tells
<1>13. Mirrored'
  BY <1>6, <1>8, <1>9, <1>10, <1>11, <1>12 DEF Mirrored
<1> QED BY <1>6, <1>13 DEF r

\* What is journalled as observed is.
LEMMA ObservedIsTimed ==
  ASSUME Typed, NEW st \in States(Grid), NEW record, record.at \in Int, Observed(record),
         After(record, st) \in States(Grid)
  PROVE  /\ Elapsed(After(record, st), record.at) = Elapsed(st, record.at)
         /\ After(record, st).invalid_since # None <=> ~IsValid(After(record, st))
<1>1. CASE record.kind = "ConnectionLost"
  <2> DEFINE book == Market(Grid)!AwaitingBook
  <2>1. After(record, st)
          = Market(Grid)!note_validity(Noting(Grid, st, book, {"disconnections"}), record.at)
    BY <1>1 DEF After, Market!on_disconnected, Noting
  <2>2. book \in Market(Grid)!Books({1}, Nat \ {0})
    BY EmptyBook
  <2> HIDE DEF book
  <2> QED BY <2>1, <2>2, NotedIsTimed
<1>2. CASE record.kind = "Message" /\ record.payload # Unreadable
  <2> DEFINE event == Normalized(record.payload, Convention)
             verdict == Market(Grid)!Rejection(st, event)
             book == Market(Grid)!AfterEvent(st.book, event, verdict)
             counters == Market(Grid)!Counts(event, verdict)
  <2>1. After(record, st)
          = Market(Grid)!note_validity(Noting(Grid, st, book, counters), record.at)
    BY <1>2 DEF After, Market!apply, Noting
  <2>2. book = After(record, st).book
    <3>1. Market(Grid)!apply(st, event, record.at).book = book
      <4> HIDE DEF event
      <4> QED BY AppliedBook
    <3> QED BY <1>2, <3>1 DEF After
  <2>3. book \in Market(Grid)!Books({1}, Nat \ {0})
    BY <2>2 DEF States
  <2> HIDE DEF event, verdict, book, counters
  <2> QED BY <2>1, <2>3, NotedIsTimed
<1> QED BY <1>1, <1>2 DEF Observed

\* The time goes on as the records do.
LEMMA TellsTimed ==
  ASSUME Typed, Typed', Mirrored, Mirrored', Timed, ~finished, Len(journal) > 0,
         NEW record, Tells(record),
         finished' => /\ record.kind = "SessionEnded"
                      /\ state' = Market(Grid)!finish(state, record.at),
         LastReplayed'.state = After(record, StateOf(LastReplayed))
  PROVE  Timed'
<1> DEFINE n == Len(journal)
           before == journal[n].at
           at == record.at
<1>1. /\ n \in Nat \ {0}
      /\ Len(journal') = n + 1
      /\ \A i \in 1..n : journal'[i] = journal[i]
      /\ journal'[n + 1] = record
      /\ at \in Int
      /\ before \in Int
  BY DEF Tells, Extends, Timed
<1>2. Begins(journal)' <=> Begins(journal) \/ Observed(record)
  <2>1. Begins(journal') <=> Begins(journal) \/ Observed(record)
    <3> HIDE DEF n
    <3>1. \A k \in 1 .. n + 1 : k \in 1..n \/ k = n + 1
      BY <1>1
    <3>2. n + 1 \in 1 .. n + 1 /\ \A k \in 1..n : k \in 1 .. n + 1
      BY <1>1
    <3> QED BY <1>1, <3>1, <3>2 DEF Begins, n
  <2> QED BY <2>1 DEF Begins, Observed
<1>3. StateOf(LastReplayed) \in States(Grid) /\ None \notin States(Grid)
  <2>1. LastReplayed \in ReplaysOf(Metadata) /\ LastReplayed.metadata = Metadata
    BY DEF Mirrored
  <2> QED BY <2>1, MetadataFacts, HeldFacts
<1>4. LastReplayed'.state # None
  BY <1>3 DEF Tells
<1>5. state \in States(Grid) /\ After(record, state) \in States(Grid)
  BY DEF Typed, Tells
<1>6. ASSUME Genuine'
      PROVE  /\ Elapsed(state', at) = TimeUntil(journal', n + 1)
             /\ state'.invalid_since # None
                  <=> ~finished' /\ Begins(journal)' /\ ~IsValid(state')
  <2>1. /\ state = StateOf(LastReplayed)
        /\ Elapsed(state, before) = TimeUntil(journal, n)
        /\ state.invalid_since # None <=> Begins(journal) /\ ~IsValid(state)
        /\ ~finished' => state' = After(record, state)
    BY <1>6 DEF Tells, Mirrored, Timed
  <2>2. HoleAfter(journal, n) <=> state.invalid_since # None
    <3>1. ReplayOf(journal, DefaultOptions)[n] = LastReplayed
      BY DEF LastReplayed, Replayed
    <3>2. HoleAfter(journal, n) <=> Begins(journal) /\ ~IsValid(LastReplayed.state)
      BY <3>1 DEF HoleAfter, Begins
    <3>3. Begins(journal) => LastReplayed.state = StateOf(LastReplayed)
      BY DEF Timed, StateOf
    <3> QED BY <2>1, <3>2, <3>3
  <2>3. TimeUntil(journal', n + 1)
          = TimeUntil(journal, n)
              + (IF HoleAfter(journal, n) THEN journal'[n + 1].at - journal[n].at ELSE 0)
    <3> HIDE DEF n
    <3> QED BY <1>1, TimeNext DEF n
  <2>4. Elapsed(state, at) = Elapsed(state, before)
                               + (IF state.invalid_since # None THEN at - before ELSE 0)
    <3>1. state \in States(Grid) /\ before \in Int /\ at \in Int
      BY <1>1, <1>5
    <3> HIDE DEF before, at
    <3> QED BY <3>1, ElapsedLater
  <2> HIDE DEF n, before, at
  <2>5. TimeUntil(journal', n + 1) = Elapsed(state, at)
    BY <1>1, <2>1, <2>2, <2>3, <2>4 DEF before, at
  <2>6. CASE finished'
    <3>1. Elapsed(state', at) = Elapsed(state, at) /\ state'.invalid_since = None
      BY <1>1, <1>5, <2>6, FinishIsTimed DEF at
    <3> QED BY <2>5, <2>6, <3>1
  <2>7. CASE ~finished' /\ Observed(record)
    <3>1. /\ Elapsed(state', at) = Elapsed(state, at)
          /\ state'.invalid_since # None <=> ~IsValid(state')
      BY <1>1, <1>5, <2>1, <2>7, ObservedIsTimed DEF at
    <3> QED BY <1>2, <2>5, <2>7, <3>1
  <2>8. CASE ~finished' /\ ~Observed(record)
    <3>1. After(record, state) = state
      BY <2>8 DEF After, Observed
    <3> QED BY <1>2, <2>1, <2>5, <2>8, <3>1
  <2> QED BY <2>6, <2>7, <2>8
<1> HIDE DEF n, before, at
<1>7. journal'[Len(journal')].at = at /\ at \in Int
  BY <1>1 DEF at
<1>8. Elapsed(state, journal[Len(journal)].at)' = Elapsed(state', at)
  BY <1>7 DEF Elapsed
<1>9. IsValid(state)' <=> IsValid(state')
  BY DEF IsValid
<1>10. TimeUntil(journal, Len(journal))' = TimeUntil(journal', n + 1)
  BY <1>1 DEF TimeUntil, HoleAfter, Observed, IsValid
<1> QED BY <1>4, <1>6, <1>7, <1>8, <1>9, <1>10 DEF Timed

\* A part goes on with the record, under the same metadata.
LEMMA PartNext ==
  ASSUME Typed, NEW record, Extends(record), NEW first \in 2 .. Len(journal) + 1,
         NEW strict \in BOOLEAN, Metadata' = Metadata
  PROVE  /\ PartReplay(first, strict)'
              = ReplayRecord(PartReplay(first, strict), record, Options(Metadata, strict))
         /\ Failed(first)' <=> Failed(first) \/ record.payload = Unreadable
<1>1. /\ Len(journal) \in Nat
      /\ Len(journal') = Len(journal) + 1
      /\ \A i \in 1..Len(journal) : journal'[i] = journal[i]
      /\ journal'[Len(journal) + 1] = record
  BY DEF Extends
<1>2. PICK S : journal \in Seq(S)
  BY DEF Typed
<1>3. PICK T : journal' \in Seq(T)
  BY DEF Extends
<1> DEFINE old == SubSeq(journal, first, Len(journal))
           new == SubSeq(journal', first, Len(journal'))
<1>4. /\ Len(old) = Len(journal) - first + 1
      /\ \A i \in 1..Len(old) : old[i] = journal[first + i - 1]
  BY <1>1, <1>2
<1>5. /\ Len(new) = Len(journal) - first + 2
      /\ \A i \in 1..Len(new) : new[i] = journal'[first + i - 1]
  BY <1>1, <1>3
<1> HIDE DEF old, new
<1>6. /\ Len(old) \in Nat
      /\ Len(new) = Len(old) + 1
      /\ \A i \in 1..Len(old) : new[i] = old[i]
      /\ new[Len(new)] = record
  <2>1. Len(old) \in Nat /\ Len(new) = Len(old) + 1
    BY <1>1, <1>4, <1>5
  <2>2. \A i \in 1..Len(old) : first + i - 1 \in 1..Len(journal) /\ i \in 1..Len(new)
    BY <1>1, <1>4, <2>1
  <2>3. \A i \in 1..Len(old) : new[i] = old[i]
    BY <1>1, <1>4, <1>5, <2>2
  <2>4. Len(new) \in 1..Len(new) /\ first + Len(new) - 1 = Len(journal) + 1
    BY <1>1, <1>5, <2>1
  <2> QED BY <1>1, <1>5, <2>1, <2>3, <2>4
<1>7. ReplayOf(new, Options(Metadata, strict))[Len(new)]
        = ReplayRecord(ReplayOf(old, Options(Metadata, strict))[Len(old)], record,
                       Options(Metadata, strict))
  BY <1>6, ReplayOfNext
<1>8. /\ PartReplay(first, strict) = ReplayOf(old, Options(Metadata, strict))[Len(old)]
      /\ PartReplay(first, strict)' = ReplayOf(new, Options(Metadata, strict))[Len(new)]
  BY DEF PartReplay, Part, old, new
<1>9. Failed(first)' <=> Failed(first) \/ record.payload = Unreadable
  <2>1. \A i \in first..Len(journal) : i \in first..Len(journal') /\ i \in 1..Len(journal)
    BY <1>1
  <2>2. \A i \in first..Len(journal') : i \in first..Len(journal) \/ i = Len(journal) + 1
    BY <1>1
  <2>3. Len(journal) + 1 \in first..Len(journal')
    BY <1>1
  <2> QED BY <1>1, <2>1, <2>2, <2>3 DEF Failed
<1> QED BY <1>7, <1>8, <1>9

\* A part of nothing has nothing to say.
LEMMA NothingStandsAlone ==
  ASSUME Typed', NEW first, first = Len(journal') + 1, NEW strict \in BOOLEAN
  PROVE  StandsAlone(first, strict)'
<1>1. Len(journal') \in Nat
  <2>1. PICK S : journal' \in Seq(S)
    BY DEF Typed
  <2> QED BY <2>1
<1> DEFINE part == SubSeq(journal', first, Len(journal'))
           r == PartReplay(first, strict)'
<1>2. Len(part) = 0
  <2>1. PICK S : journal' \in Seq(S)
    BY DEF Typed
  <2> QED BY <1>1, <2>1
<1>3. r = NewReplay(Options(Metadata', strict))
  <2>1. r = ReplayOf(part, Options(Metadata', strict))[Len(part)]
    BY DEF PartReplay, Part
  <2> HIDE DEF part
  <2> QED BY <1>2, <2>1, ReplaySteps
<1>4. r = [error |-> None, metadata |-> Metadata', state |-> None, last_time |-> None,
           records |-> 0, messages |-> 0, parse_failures |-> 0, lifecycle |-> 0]
  BY <1>3 DEF NewReplay, Options
<1>5. ~Failed(first)'
  BY <1>1 DEF Failed
<1> HIDE DEF r
<1>6. r \in ReplaysOf(Metadata') /\ r.error = None /\ r.metadata = Metadata' /\ r.state = None
  BY <1>4 DEF ReplaysOf
<1>7. StateOf(r) = NewState
  BY <1>6 DEF StateOf
<1>8. ~IsValid(StateOf(r))
  BY <1>7, NewStateType
<1>9. ReplaysOf(Metadata') = ReplaysOf(Metadata)'
  BY DEF ReplaysOf, States
<1> QED BY <1>5, <1>6, <1>8, <1>9 DEF StandsAlone, r, StateOf, IsValid, NewState

LEMMA TellsAlone ==
  ASSUME Typed, Typed', Alone, NEW record, Tells(record)
  PROVE  Alone'
<1>1. /\ Len(journal) \in Nat
      /\ Len(journal') = Len(journal) + 1
  BY DEF Tells, Extends
<1>2. Metadata' = Metadata /\ ReplaysOf(Metadata)' = ReplaysOf(Metadata)
  BY DEF Metadata, Grid, Convention, ReplaysOf, States, Tells
<1>3. /\ record.at \in Int
      /\ record.kind \in {"Message", "ConnectionLost", "SessionEnded"}
      /\ record.payload = Unreadable <=> IsFailure(record)
      /\ Extends(record)
  BY DEF Tells, IsFailure
<1>4. /\ Metadata.price_grid = Grid
      /\ None \notin States(Grid)
      /\ None # "ParseFailure"
  BY MetadataFacts
<1>5. ASSUME NEW first \in 2 .. Len(journal) + 1, NEW strict \in BOOLEAN
      PROVE  StandsAlone(first, strict)'
  <2> DEFINE r == PartReplay(first, strict)
             next == ReplayRecord(r, record, Options(Metadata, strict))
  <2>1. /\ r \in ReplaysOf(Metadata)
        /\ r.metadata = Metadata
        /\ r.error = IF strict /\ Failed(first) THEN "ParseFailure" ELSE None
        /\ r.error = None /\ IsValid(StateOf(r)) /\ Genuine => StateOf(r).book = state.book
    BY DEF Alone, StandsAlone
  <2>2. /\ PartReplay(first, strict)' = next
        /\ Failed(first)' <=> Failed(first) \/ IsFailure(record)
    BY <1>2, <1>3, PartNext
  <2>3. ASSUME /\ next \in ReplaysOf(Metadata)
               /\ next.metadata = Metadata
               /\ next.error = IF strict /\ Failed(first)' THEN "ParseFailure" ELSE None,
               next.error = None /\ IsValid(StateOf(next)) /\ Genuine'
                 => StateOf(next).book = state'.book
        PROVE  StandsAlone(first, strict)'
    BY <1>2, <2>2, <2>3 DEF StandsAlone, StateOf, IsValid, NewState
  <2> HIDE DEF r
  <2>4. CASE r.error # None
    <3>1. next = r
      BY <2>4 DEF ReplayRecord
    <3>2. strict /\ Failed(first) /\ r.error = "ParseFailure"
      BY <2>1, <2>4
    <3> QED BY <2>1, <2>2, <2>3, <2>4, <3>1, <3>2
  <2>5. CASE r.error = None
    <3>1. ~(strict /\ Failed(first))
      BY <1>4, <2>1, <2>5
    <3>2. StateOf(r) \in States(Grid)
      BY <1>4, <2>1, HeldFacts
    <3>3. After(record, StateOf(r)) \in States(Grid)
      BY <3>2 DEF Tells
    <3>4. /\ next \in ReplaysOf(Metadata)
          /\ next.error = IF strict /\ IsFailure(record) THEN "ParseFailure" ELSE None
          /\ next.metadata = Metadata
          /\ next.state = After(record, StateOf(r))
      BY <1>3, <2>1, <2>5, <3>3, RecordIsReplayed
    <3> HIDE DEF next
    <3>5. StateOf(next) = After(record, StateOf(r))
      BY <1>4, <3>3, <3>4 DEF StateOf
    <3>6. IsValid(StateOf(next)) /\ Genuine' => StateOf(next).book = state'.book
      <4>1. Genuine' /\ IsValid(StateOf(r)) => StateOf(r).book = state.book
        BY <2>1, <2>5 DEF Tells
      <4> QED BY <3>2, <3>5, <4>1 DEF Tells
    <3>7. next.error = IF strict /\ Failed(first)' THEN "ParseFailure" ELSE None
      BY <2>2, <3>1, <3>4
    <3> QED BY <2>3, <3>4, <3>6, <3>7
  <2> QED BY <2>4, <2>5
<1>6. ASSUME NEW first \in 2 .. Len(journal') + 1, NEW strict \in BOOLEAN
      PROVE  StandsAlone(first, strict)'
  <2>1. first \in 2 .. Len(journal) + 1 \/ first = Len(journal') + 1
    BY <1>1
  <2>2. CASE first \in 2 .. Len(journal) + 1
    BY <1>5, <2>2
  <2>3. CASE first = Len(journal') + 1
    BY <2>3, NothingStandsAlone
  <2> QED BY <2>1, <2>2, <2>3
<1> QED BY <1>6 DEF Alone

\* As long as no gap is simulated no number is shifted.
LEMMA GenuineStep ==
  ASSUME RInv, Written, NEW event, collect' \in Collects,
         collect'.recording = collect.recording, collect'.delta_count = DeltaCount(event),
         Genuine'
  PROVE  Genuine /\ SequenceShift(event) = 0
<1>1. /\ collect.delta_count \in Nat
      /\ collect.recording.simulate_gap_after \in Nat
  BY RecordingFacts DEF RInv, Typed, Collects
<1>2. /\ DeltaCount(event) \in Nat
      /\ DeltaCount(event) >= collect.delta_count
      /\ IsDelta(event) => DeltaCount(event) > 0
  BY <1>1 DEF DeltaCount
<1>3. \/ collect.recording.simulate_gap_after = 0
      \/ DeltaCount(event) < collect.recording.simulate_gap_after
  BY DEF Genuine
<1>4. Genuine
  BY <1>1, <1>2, <1>3 DEF Genuine
<1>5. ~(IsDelta(event) /\ DeltaCount(event) = collect.recording.simulate_gap_after)
  BY <1>1, <1>2, <1>3
<1> QED BY <1>4, <1>5 DEF Written, SequenceShift

LEMMA MessageTells ==
  ASSUME RInv, Written, Current',
         NEW message \in NextSnapshots \cup NextDeltas \cup NextOthers, OnMessage(message)
  PROVE  /\ \E record : Tells(record) /\ record.kind = "Message"
         /\ Genuine' => collect'.sequence_shift = 0
         /\ finished' = finished
<1> DEFINE event == Normalized(message, Convention)
           told == Adjusted(event)
           verdict == Market(Grid)!Rejection(state, told)
           asks == Market(Grid)!invalidates_book(verdict) /\ ~StillRequested(event)
           record(at) == Record("Message", at, message)
<1>1. PICK at \in Readings :
         /\ Journalled(record(at))
         /\ state' = Market(Grid)!apply(state, told, at)
         /\ collect' = [collect EXCEPT
                          !.recovery_requested = StillRequested(event) \/ asks,
                          !.delta_count        = DeltaCount(event),
                          !.sequence_shift     = SequenceShift(event),
                          !.messages_received  = @ + 1]
         /\ finished' = finished
  BY DEF OnMessage
<1>2. asks \in BOOLEAN
  BY DEF Market!invalidates_book
<1>3. /\ message # Unreadable
      /\ SequenceShift(event) = 0 => told = event
      /\ \/ SnapshotEvent(Grid, event) /\ told = event
         \/ DeltaEvent(Grid, event) /\ DeltaEvent(Grid, told)
         \/ event.type \in Market(Grid)!OtherEvents /\ told = event
  BY SentIsTold
<1>4. event = Normalized(message, Convention)
  OBVIOUS
<1> HIDE DEF event, told, asks, verdict
<1>5. /\ collect' \in Collects
      /\ collect'.recording = collect.recording
      /\ collect'.sequence_shift = SequenceShift(event)
      /\ collect'.delta_count = DeltaCount(event)
      /\ collect'.messages_received = collect.messages_received + 1
      /\ collect'.parse_failures = collect.parse_failures
  BY <1>1, <1>2, CollectsAfter DEF RInv, Typed
<1>6. Extends(record(at)) /\ at \in Int
  BY <1>1, JournalledFacts, ReadingType DEF RInv, Journalled
<1>7. /\ record(at).kind = "Message" /\ record(at).at = at /\ record(at).payload = message
      /\ state \in States(Grid)
      /\ collect.parse_failures \in Nat
  BY RecordFields DEF RInv, Typed, Collects
<1> HIDE DEF record
<1>8. Genuine' => Genuine /\ SequenceShift(event) = 0
  BY <1>5, GenuineStep
<1>9. \A st : After(record(at), st) = Market(Grid)!apply(st, event, at)
  BY <1>3, <1>4, <1>7 DEF After
<1>10. IsValid(state') => SequenceShift(event) = 0
  BY <1>5 DEF Current, IsValid
<1>11. /\ IsMessage(record(at)) /\ ~IsFailure(record(at))
       /\ record(at).payload # Unreadable
  BY <1>3, <1>7 DEF IsMessage, IsFailure
<1>12. Genuine' /\ ~finished' => state' = After(record(at), state)
  BY <1>1, <1>3, <1>8, <1>9
<1>13. \A st \in States(Grid) : After(record(at), st) \in States(Grid)
  <2> SUFFICES ASSUME NEW st \in States(Grid)
               PROVE  Market(Grid)!apply(st, event, at) \in States(Grid)
    BY <1>9
  <2> QED BY <1>3, <1>6, AppliedType
<1>14. ASSUME NEW st \in States(Grid), IsValid(state'), IsValid(state) => state.book = st.book
       PROVE  state'.book = After(record(at), st).book
  <2>1. told = event
    BY <1>3, <1>10, <1>14
  <2>2. state' = Market(Grid)!apply(state, event, at)
    BY <1>1, <2>1
  <2> QED BY <1>3, <1>6, <1>7, <1>9, <1>14, <2>1, <2>2, ToldAlike
<1>15. ASSUME NEW st \in States(Grid), Genuine', IsValid(After(record(at), st)),
              IsValid(st) => st.book = state.book
       PROVE  After(record(at), st).book = state'.book
  <2>1. told = event
    BY <1>3, <1>8, <1>15
  <2>2. state' = Market(Grid)!apply(state, event, at)
    BY <1>1, <2>1
  <2> QED BY <1>3, <1>6, <1>7, <1>9, <1>15, <2>1, <2>2, ToldAlike
<1>16. /\ collect'.messages_received
            = collect.messages_received + (IF IsMessage(record(at)) THEN 1 ELSE 0)
       /\ collect'.parse_failures
            = collect.parse_failures + (IF IsFailure(record(at)) THEN 1 ELSE 0)
  BY <1>5, <1>7, <1>11
<1>17. record(at).at \in Int
  BY <1>6, <1>7
<1>18. Tells(record(at))
  BY <1>5, <1>6, <1>7, <1>8, <1>11, <1>12, <1>13, <1>14, <1>15, <1>16, <1>17 DEF Tells
<1>19. Genuine' => collect'.sequence_shift = 0
  BY <1>5, <1>8
<1> QED BY <1>1, <1>7, <1>18, <1>19

LEMMA UnreadableTells ==
  ASSUME RInv, Written, OnUnreadable
  PROVE  /\ \E record : Tells(record) /\ record.kind = "Message"
         /\ Genuine' => collect'.sequence_shift = 0
         /\ finished' = finished
<1> DEFINE record(at) == Record("Message", at, Unreadable)
<1>1. PICK at \in Readings :
         /\ Journalled(record(at))
         /\ collect' = [collect EXCEPT !.messages_received = @ + 1, !.parse_failures = @ + 1]
         /\ state' = state
         /\ finished' = finished
  BY DEF OnUnreadable
<1>2. collect \in Collects /\ collect.messages_received \in Nat /\ collect.parse_failures \in Nat
  BY DEF RInv, Typed, Collects
<1>3. /\ collect'.recording = collect.recording
      /\ collect'.delta_count = collect.delta_count
      /\ collect'.sequence_shift = collect.sequence_shift
      /\ collect'.messages_received = collect.messages_received + 1
      /\ collect'.parse_failures = collect.parse_failures + 1
  BY <1>1, <1>2 DEF Collects
<1>4. Extends(record(at)) /\ at \in Int
  BY <1>1, JournalledFacts, ReadingType DEF RInv, Journalled
<1>5. record(at).kind = "Message" /\ record(at).at = at /\ record(at).payload = Unreadable
  BY RecordFields
<1> HIDE DEF record
<1>6. \A st : After(record(at), st) = st
  BY <1>5 DEF After
<1>7. IsMessage(record(at)) /\ IsFailure(record(at))
  BY <1>5 DEF IsMessage, IsFailure
<1>8. Genuine' <=> Genuine
  BY <1>3 DEF Genuine
<1>9. Tells(record(at))
  BY <1>1, <1>3, <1>4, <1>5, <1>6, <1>7, <1>8 DEF Tells
<1> QED BY <1>1, <1>3, <1>5, <1>8, <1>9 DEF Written

LEMMA LossTells ==
  ASSUME RInv, Written, OnNotice, session'.lost
  PROVE  /\ \E record : Tells(record) /\ record.kind = "ConnectionLost"
         /\ Genuine' => collect'.sequence_shift = 0
         /\ finished' = finished
<1> DEFINE record(at) == Record("ConnectionLost", at, NoPayload)
<1>1. PICK at \in Readings :
         /\ Journalled(record(at))
         /\ state' = Market(Grid)!on_disconnected(state, at)
         /\ collect' = collect
         /\ finished' = finished
  BY DEF OnNotice
<1>2. /\ collect.messages_received \in Nat /\ collect.parse_failures \in Nat
      /\ state \in States(Grid)
  BY DEF RInv, Typed, Collects
<1>3. Extends(record(at)) /\ at \in Int
  BY <1>1, JournalledFacts, ReadingType DEF RInv, Journalled
<1>4. record(at).kind = "ConnectionLost" /\ record(at).at = at /\ record(at).payload = NoPayload
  BY RecordFields
<1> HIDE DEF record
<1>5. \A st : After(record(at), st) = Market(Grid)!on_disconnected(st, at)
  BY <1>4 DEF After
<1>6. ~IsMessage(record(at)) /\ ~IsFailure(record(at))
  BY <1>4 DEF IsMessage, IsFailure
<1>7. Genuine' <=> Genuine
  BY <1>1 DEF Genuine
<1>8. NoPayload # Unreadable
  <2>1. NoPayload.type # Unreadable.type
    BY DEF NoPayload, Unreadable
  <2> QED BY <2>1
<1>9. \A st \in States(Grid) :
         /\ After(record(at), st) \in States(Grid)
         /\ ~IsValid(After(record(at), st))
  BY <1>3, <1>5, DisconnectedFacts
<1>10. ~IsValid(state') /\ state' = After(record(at), state)
  BY <1>1, <1>2, <1>5, <1>9
<1>11. Tells(record(at))
  BY <1>1, <1>2, <1>3, <1>4, <1>6, <1>7, <1>8, <1>9, <1>10 DEF Tells
<1> QED BY <1>1, <1>4, <1>7, <1>11 DEF Written

LEMMA FinishTells ==
  ASSUME RInv, Written, Finish
  PROVE  \E record :
           /\ Tells(record)
           /\ record.kind = "SessionEnded"
           /\ record.payload = Footer(state')
           /\ state' = Market(Grid)!finish(state, record.at)
<1> DEFINE record(at) == Record("SessionEnded", at, Footer(state'))
<1>1. PICK at \in Readings :
         /\ state' = Market(Grid)!finish(state, at)
         /\ Journalled(record(at))
         /\ finished' = TRUE
         /\ collect' = collect
  BY DEF Finish
<1>2. /\ collect.messages_received \in Nat /\ collect.parse_failures \in Nat
      /\ state \in States(Grid)
  BY DEF RInv, Typed, Collects
<1>3. Extends(record(at)) /\ at \in Int
  BY <1>1, JournalledFacts, ReadingType DEF RInv, Journalled
<1>4. record(at).kind = "SessionEnded" /\ record(at).at = at /\ record(at).payload = Footer(state')
  BY RecordFields
<1> HIDE DEF record
<1>5. \A st : After(record(at), st) = st
  BY <1>4 DEF After
<1>6. ~IsMessage(record(at)) /\ ~IsFailure(record(at))
  BY <1>4 DEF IsMessage, IsFailure
<1>7. Genuine' <=> Genuine
  BY <1>1 DEF Genuine
<1>8. Footer(state') # Unreadable
  <2>1. Footer(state').type # Unreadable.type
    BY DEF Footer, Unreadable
  <2> QED BY <2>1
<1>9. state'.book = state.book
  BY <1>1, <1>2, <1>3, FinishFacts
<1>10. Tells(record(at))
  BY <1>1, <1>2, <1>3, <1>4, <1>5, <1>6, <1>7, <1>8, <1>9 DEF Tells, IsValid
<1> QED BY <1>1, <1>4, <1>10

-----------------------------------------------------------------------------
(***************************************************************************)
(* The invariant is kept.                                                  *)
(***************************************************************************)
LEMMA PStart == RecorderInit => PInv
<1> SUFFICES ASSUME RecorderInit
             PROVE  PInv
  OBVIOUS
<1>0. PICK trust_store_ready \in BOOLEAN : session = Created(trust_store_ready)
  BY DEF RecorderInit, Init
<1>1. RInv /\ session.phase = "created"
  BY <1>0, RStart DEF Created
<1>2. /\ journal = <<>> /\ Len(journal) = 0
      /\ state = NewState
      /\ ~finished
  BY DEF RecorderInit
<1>3. PICK recording \in Recordings : collect = NewCollect(recording)
  BY DEF RecorderInit
<1>4. /\ collect.sequence_shift = 0
      /\ collect.messages_received = 0
      /\ collect.parse_failures = 0
  BY <1>3 DEF NewCollect
<1>5. LastReplayed = NewReplay(DefaultOptions)
  <2>1. Len(journal) \in Nat
    BY <1>2
  <2>2. Replayed[0] = NewReplay(DefaultOptions)
    BY <2>1, ReplaySteps DEF Replayed
  <2> QED BY <1>2, <2>2 DEF LastReplayed
<1>6. LastReplayed = [error |-> None, metadata |-> None, state |-> None, last_time |-> None,
                      records |-> 0, messages |-> 0, parse_failures |-> 0, lifecycle |-> 0]
  BY <1>5 DEF NewReplay, DefaultOptions, Options
<1>7. LastReplayed \in ReplaysOf(Metadata)
  BY <1>6 DEF ReplaysOf
<1>8. StateOf(LastReplayed) = NewState
  BY <1>6 DEF StateOf
<1>9. Mirrored
  BY <1>2, <1>4, <1>6, <1>7, <1>8 DEF Mirrored
<1>10. Written /\ Footed
  BY <1>1, <1>2, <1>4 DEF Written, Footed
<1>11. Alone
  <2>1. 2 .. Len(journal) + 1 = {}
    BY <1>2
  <2> QED BY <2>1 DEF Alone
<1>12. Timed
  BY <1>2 DEF Timed, Begins
<1> QED BY <1>1, <1>9, <1>10, <1>11, <1>12 DEF PInv

\* A step that is not journalled.
LEMMA QuietKeeps ==
  ASSUME PInv, UNCHANGED recorder,
         \/ session'.phase = session.phase
         \/ session.phase = "running" /\ session'.phase # "created"
  PROVE  Written' /\ Mirrored' /\ Footed' /\ Alone' /\ Timed'
<1>1. UNCHANGED <<state, collect, journal, finished>>
  BY DEF recorder
<1>2. Written'
  BY <1>1 DEF PInv, Written, Genuine
<1>3. /\ LastReplayed' = LastReplayed
      /\ StateOf(LastReplayed)' = StateOf(LastReplayed)
  BY <1>1 DEF LastReplayed, Replayed, StateOf, NewState
<1>4. /\ Metadata' = Metadata
      /\ ReplaysOf(Metadata)' = ReplaysOf(Metadata)
      /\ Genuine' <=> Genuine
      /\ IsValid(state)' <=> IsValid(state)
  BY <1>1 DEF Metadata, Grid, Convention, ReplaysOf, States, Genuine, IsValid
<1>5. Mirrored'
  BY <1>1, <1>3, <1>4 DEF PInv, Mirrored
<1>6. Footed'
  <2>1. ReportedState(LastReplayed)' = ReportedState(LastReplayed)
    BY <1>3 DEF ReportedState, Held
  <2> QED BY <1>1, <1>3, <1>4, <2>1 DEF PInv, Footed
<1>7. Alone'
  <2>1. ASSUME NEW first \in 2 .. Len(journal) + 1, NEW strict \in BOOLEAN
        PROVE  StandsAlone(first, strict)'
    <3>1. PartReplay(first, strict)' = PartReplay(first, strict)
      BY <1>1, <1>4 DEF PartReplay, Part
    <3>2. Failed(first)' <=> Failed(first)
      BY <1>1 DEF Failed
    <3>3. StandsAlone(first, strict)
      BY DEF PInv, Alone
    <3> QED BY <1>1, <1>4, <3>1, <3>2, <3>3 DEF StandsAlone, StateOf, IsValid, NewState
  <2> QED BY <1>1, <2>1 DEF Alone
<1>8. Timed'
  <2>1. /\ Begins(journal)' <=> Begins(journal)
        /\ TimeUntil(journal, Len(journal))' = TimeUntil(journal, Len(journal))
        /\ Elapsed(state, journal[Len(journal)].at)' = Elapsed(state, journal[Len(journal)].at)
    BY <1>1 DEF Begins, Observed, TimeUntil, HoleAfter, IsValid, Elapsed
  <2> QED BY <1>1, <1>3, <1>4, <2>1 DEF PInv, Timed
<1> QED BY <1>2, <1>5, <1>6, <1>7, <1>8

\* The session's record is the first, and a replay of it has nothing but the metadata.
LEMMA StartReplays ==
  ASSUME PInv, RInv', Start
  PROVE  PInv'
<1> DEFINE record(at) == Record("SessionStarted", at, Metadata)
<1>1. PICK at \in Readings :
         /\ run
         /\ Journalled(record(at))
         /\ UNCHANGED <<state, collect, finished>>
  BY DEF Start
<1>2. /\ session.phase = "created"
      /\ journal = <<>> /\ Len(journal) = 0
      /\ ~finished
      /\ state = NewState
  <2>1. session.phase = "created"
    BY <1>1 DEF run
  <2> QED BY <2>1 DEF PInv, RInv, Begun, Footed
<1>3. Extends(record(at)) /\ at \in Int
  BY <1>1, JournalledFacts, ReadingType DEF PInv, RInv, Journalled
<1>4. record(at).kind = "SessionStarted" /\ record(at).at = at /\ record(at).payload = Metadata
  BY RecordFields
<1> HIDE DEF record
<1>5. /\ Metadata' = Metadata
      /\ ReplaysOf(Metadata)' = ReplaysOf(Metadata)
      /\ Genuine' <=> Genuine
      /\ IsValid(state)' <=> IsValid(state)
  BY <1>1 DEF Metadata, Grid, Convention, ReplaysOf, States, Genuine, IsValid
<1>6. /\ LastReplayed \in ReplaysOf(Metadata)
      /\ LastReplayed.error = None
      /\ LastReplayed.metadata = None
      /\ LastReplayed.messages = collect.messages_received
      /\ LastReplayed.parse_failures = collect.parse_failures
      /\ Genuine => state = StateOf(LastReplayed)
      /\ IsValid(state) => state.book = StateOf(LastReplayed).book
  BY <1>2 DEF PInv, Mirrored
<1>7. LastReplayed' = ReplayRecord(LastReplayed, record(at), DefaultOptions)
  BY <1>3, LastReplayedNext DEF PInv, RInv
<1>8. /\ LastReplayed' \in ReplaysOf(Metadata)
      /\ LastReplayed'.error = None
      /\ LastReplayed'.metadata = Metadata
      /\ LastReplayed'.state = LastReplayed.state
      /\ LastReplayed'.messages = LastReplayed.messages
      /\ LastReplayed'.parse_failures = LastReplayed.parse_failures
  <2>1. Metadata # Unreadable
    BY MetadataFacts DEF PInv, RInv
  <2> QED BY <1>3, <1>4, <1>6, <1>7, <2>1, StartedIsReplayed
<1>9. StateOf(LastReplayed)' = StateOf(LastReplayed)
  BY <1>8 DEF StateOf, NewState
<1>10. Len(journal') = 1
  BY <1>2, <1>3 DEF Extends
<1>11. Mirrored'
  BY <1>1, <1>5, <1>6, <1>8, <1>9, <1>10 DEF Mirrored
<1>12. Written'
  BY <1>1, <1>5, <1>10 DEF PInv, Written
<1>13. Footed'
  BY <1>1, <1>2 DEF Footed
<1>14. Alone'
  <2>1. Typed'
    BY DEF RInv
  <2>2. ASSUME NEW first \in 2 .. Len(journal') + 1, NEW strict \in BOOLEAN
        PROVE  StandsAlone(first, strict)'
    <3>1. first = Len(journal') + 1
      BY <1>10
    <3> QED BY <2>1, <3>1, NothingStandsAlone
  <2> QED BY <2>2 DEF Alone
<1>15. Timed'
  <2>1. journal'[1] = record(at)
    BY <1>2, <1>3 DEF Extends
  <2>2. ~Begins(journal')
    BY <1>4, <1>10, <2>1 DEF Begins, Observed
  <2>3. Elapsed(NewState, at) = 0 /\ NewState.invalid_since = None
    BY DEF Elapsed, NewState, Market!NewMarketState
  <2>4. TimeUntil(journal', 1) = 0
    BY FirstTime
  <2>5. /\ Begins(journal)' <=> Begins(journal')
        /\ TimeUntil(journal, Len(journal))' = TimeUntil(journal', Len(journal'))
        /\ Elapsed(state, journal[Len(journal)].at)' = Elapsed(state', journal'[Len(journal')].at)
    BY DEF Begins, Observed, TimeUntil, HoleAfter, IsValid, Elapsed
  <2> QED BY <1>1, <1>2, <1>3, <1>4, <1>10, <2>1, <2>2, <2>3, <2>4, <2>5 DEF Timed
<1> QED BY <1>11, <1>12, <1>13, <1>14, <1>15 DEF PInv

\* A record of a recording that goes on.
LEMMA RecordedKeeps ==
  ASSUME PInv, RInv', session.phase = "running", NEW record, Tells(record),
         finished' = finished, Genuine' => collect'.sequence_shift = 0
  PROVE  PInv'
<1>1. Typed /\ Typed' /\ ~finished /\ Len(journal) > 0
  BY DEF PInv, RInv, Footed, Written
<1>2. Mirrored'
  BY <1>1, TellsMirrored DEF PInv
<1>3. Alone'
  BY <1>1, TellsAlone DEF PInv
<1>4. Written'
  <2>1. Len(journal') > 0
    BY DEF Tells, Extends
  <2> QED BY <2>1 DEF Written
<1>5. Footed'
  BY <1>1 DEF Footed
<1>6. Timed'
  BY <1>1, <1>2, TellsMirrored, TellsTimed DEF PInv
<1> QED BY <1>2, <1>3, <1>4, <1>5, <1>6 DEF PInv

\* The footer's interval is closed at its own time, as a replay's is.
LEMMA FinishReplays ==
  ASSUME PInv, RInv', Finish
  PROVE  PInv'
<1>1. PICK record :
         /\ Tells(record)
         /\ record.kind = "SessionEnded"
         /\ record.payload = Footer(state')
         /\ state' = Market(Grid)!finish(state, record.at)
  BY FinishTells DEF PInv
<1>2. /\ session.phase = "ended" /\ session' = session
      /\ ~finished /\ finished'
      /\ collect' = collect
  <2>1. Sound(session)
    BY DEF PInv, RInv
  <2>2. session.phase = "running" => ~OutOfWork
    BY <2>1 DEF Sound, GoesOn, OutOfWork
  <2> QED BY <2>2 DEF Finish, Returned
<1>3. Typed /\ Typed' /\ Len(journal) > 0
  BY <1>2 DEF PInv, RInv, Written
<1>4. /\ Mirrored'
      /\ LastReplayed' \in ReplaysOf(Metadata)
      /\ LastReplayed'.state = After(record, StateOf(LastReplayed))
      /\ LastReplayed'.last_time = record.at
      /\ LastReplayed'.metadata = Metadata
  BY <1>1, <1>2, <1>3, TellsMirrored DEF PInv
<1>5. Alone'
  BY <1>1, <1>3, TellsAlone DEF PInv
<1>6. /\ Len(journal') = Len(journal) + 1
      /\ Len(journal) \in Nat
      /\ journal'[Len(journal')] = record
  BY <1>1 DEF Tells, Extends
<1>7. Genuine' <=> Genuine
  BY <1>2 DEF Genuine
<1>8. Written'
  BY <1>2, <1>6, <1>7 DEF PInv, Written
<1>9. LastReplayed'.state = StateOf(LastReplayed) /\ StateOf(LastReplayed) \in States(Grid)
  <2>1. After(record, StateOf(LastReplayed)) = StateOf(LastReplayed)
    BY <1>1 DEF After
  <2>2. /\ LastReplayed \in ReplaysOf(Metadata)
        /\ LastReplayed.metadata = Metadata
    BY <1>3 DEF PInv, Mirrored
  <2>3. Metadata.price_grid = Grid /\ None \notin States(Grid)
    BY <1>3, MetadataFacts
  <2> QED BY <1>4, <2>1, <2>2, <2>3, HeldFacts
<1>10. LastReplayed'.state # None /\ Metadata.price_grid = Grid
  BY <1>3, <1>9, MetadataFacts
<1>11. ReportedState(LastReplayed)' = Market(Grid)!finish(StateOf(LastReplayed), record.at)
  BY <1>4, <1>9, <1>10 DEF ReportedState
<1>12. Genuine' => state' = ReportedState(LastReplayed)'
  BY <1>1, <1>2, <1>7, <1>11 DEF PInv, Mirrored
<1>13. /\ record.payload.messages = collect'.messages_received
       /\ record.payload.parse_failures = collect'.parse_failures
       /\ record.payload.stats = state'.stats
       /\ record.payload.final_book = state'.book
  BY <1>1, <1>2 DEF Footer
<1>14. Footed'
  BY <1>2, <1>6, <1>10, <1>12, <1>13 DEF Footed
<1>15. Timed'
  BY <1>1, <1>2, <1>3, <1>4, TellsTimed DEF PInv
<1> QED BY <1>4, <1>5, <1>8, <1>14, <1>15 DEF PInv

LEMMA OtherHandlerReplays ==
  ASSUME PInv, RInv', OnOtherHandler
  PROVE  PInv'
<1>1. OtherHandlers /\ OnNotice
  BY DEF OnOtherHandler, OtherHandlers
<1>2. session.phase = "running"
  BY <1>1 DEF OtherHandlers, Handles, Running, OnResolve, OnConnect, OnTlsHandshake,
     OnWsHandshake, OnSubscribe, OnReadError, OnReconnect, OnTimer, OnStop
<1>3. session'.phase # "created"
  BY <1>1, HandlerStep, StaysBegun DEF PInv, RInv
<1>4. CASE session'.lost
  BY <1>1, <1>2, <1>4, LossTells, RecordedKeeps DEF PInv
<1>5. CASE ~session'.lost
  <2>1. UNCHANGED recorder
    BY <1>1, <1>5 DEF OnNotice
  <2> QED BY <1>2, <1>3, <2>1, QuietKeeps DEF PInv
<1> QED BY <1>4, <1>5

LEMMA ReadReplays ==
  ASSUME PInv, RInv', OnRead
  PROVE  PInv'
<1>1. PICK message \in NextSnapshots \cup NextDeltas \cup NextOthers :
         OnMessage(message) \/ OnUnreadable
  BY DEF OnRead
<1>2. session.phase = "running"
  BY <1>1 DEF OnMessage, OnUnreadable, on_message, Handles, Running
<1>3. Current'
  BY DEF RInv
<1>4. CASE OnMessage(message)
  BY <1>2, <1>3, <1>4, MessageTells, RecordedKeeps DEF PInv
<1>5. CASE OnUnreadable
  BY <1>2, <1>5, UnreadableTells, RecordedKeeps DEF PInv
<1> QED BY <1>1, <1>4, <1>5

LEMMA PStep == ASSUME Prompt PROVE PInv /\ [RecorderNext]_recorderVars => PInv'
<1> SUFFICES ASSUME PInv, [RecorderNext]_recorderVars
             PROVE  PInv'
  OBVIOUS
<1>1. RInv'
  BY RStep DEF PInv
<1>2. CASE Start
  BY <1>1, <1>2, StartReplays
<1>3. CASE OnWorld
  <2>1. session'.phase = session.phase
    BY <1>3, WorldFacts DEF OnWorld, PInv, RInv
  <2>2. UNCHANGED recorder
    BY <1>3 DEF OnWorld
  <2> QED BY <1>1, <2>1, <2>2, QuietKeeps DEF PInv
<1>4. CASE OnOtherHandler
  BY <1>1, <1>4, OtherHandlerReplays
<1>5. CASE OnRead
  BY <1>1, <1>5, ReadReplays
<1>6. CASE Finish
  BY <1>1, <1>6, FinishReplays
<1>7. CASE UNCHANGED recorderVars
  <2>1. session' = session /\ UNCHANGED recorder
    BY <1>7 DEF recorderVars
  <2> QED BY <1>1, <2>1, QuietKeeps DEF PInv
<1> QED BY <1>2, <1>3, <1>4, <1>5, <1>6, <1>7 DEF RecorderNext

-----------------------------------------------------------------------------
(***************************************************************************)
(* The theorems.                                                           *)
(***************************************************************************)

\* At every moment of a recording the journal can be replayed, whole or from any
\* record on, and the replay comes to what the recording knows.
THEOREM RecordingIsReplayable ==
  ASSUME Prompt
  PROVE  RecorderSpec => []PInv
BY PStart, PStep, PTL DEF RecorderSpec

\* The replay of the journal written so far is the live state, its counters and its
\* intervals included, and when the recording has ended it is what the footer says
\* (collect.cpp:201-207, replay.hpp:20-26).
THEOREM LiveIsReplayed ==
  ASSUME Prompt
  PROVE  RecorderSpec => []LiveIsReplay
<1>1. PInv => LiveIsReplay
  <2> SUFFICES ASSUME PInv, Genuine
               PROVE  LiveIsReplay
    BY DEF LiveIsReplay
  <2> DEFINE r == LastReplayed
  <2>1. /\ r \in ReplaysOf(Metadata)
        /\ r.error = None
        /\ r.messages = collect.messages_received
        /\ r.parse_failures = collect.parse_failures
        /\ ~finished => state = StateOf(r)
    BY DEF PInv, Mirrored
  <2>2. ASSUME finished
        PROVE  LET footer == journal[Len(journal)].payload
               IN  /\ footer.messages = r.messages
                   /\ footer.parse_failures = r.parse_failures
                   /\ footer.stats = state.stats
                   /\ footer.final_book = state.book
                   /\ r.state # None
                   /\ state = ReportedState(r)
    BY <2>1, <2>2 DEF PInv, Footed
  <2>6. Concluded(r).error = IF journal = <<>> THEN "MissingSessionRecord" ELSE None
    <3>1. r.metadata = IF Len(journal) = 0 THEN None ELSE Metadata
      BY DEF PInv, Mirrored
    <3>2. Metadata # None
      BY MetadataFacts DEF PInv, RInv
    <3>3. journal = <<>> <=> Len(journal) = 0
      <4>1. PICK S : journal \in Seq(S)
        BY DEF PInv, RInv, Typed
      <4> QED BY <4>1
    <3> QED BY <2>1, <3>1, <3>2, <3>3 DEF Concluded, Fail, ReplaysOf
  <2> HIDE DEF r
  <2>3. ASSUME finished
        PROVE  ReportedState(r).book = r.state.book
    <3>1. r.state # None /\ r.state \in States(Metadata.price_grid)
      BY <2>1, <2>2, <2>3 DEF ReplaysOf
    <3>2. ReportedState(r) = Market(r.metadata.price_grid)!finish(r.state, r.last_time)
      BY <3>1 DEF ReportedState
    <3>3. Market(r.metadata.price_grid)!finish(r.state, r.last_time).book = r.state.book
      BY <3>1 DEF Market!finish, States
    <3> QED BY <3>2, <3>3
  <2>4. CASE finished
    BY <2>1, <2>2, <2>3, <2>4, <2>6 DEF LiveIsReplay, r
  <2>5. CASE ~finished
    BY <2>1, <2>5, <2>6 DEF LiveIsReplay, r
  <2> QED BY <2>4, <2>5
<1> QED BY <1>1, RecordingIsReplayable, PTL

\* A gap that is simulated is gone when the live book is valid again: no number is
\* shifted for it, and it is the book that a replay of the journal has, which has
\* none of the gap (collect.cpp:308-316).
THEOREM SimulatedGapStaysLocal ==
  ASSUME Prompt
  PROVE  RecorderSpec => []SimulatedGapIsLocal
<1>1. PInv => SimulatedGapIsLocal
  BY DEF PInv, RInv, Current, Mirrored, SimulatedGapIsLocal
<1> QED BY <1>1, RecordingIsReplayable, PTL

\* A journal's last part, from whatever record it begins, is enough for the live book
\* as soon as a snapshot in it was taken, and a strict replay of it stops exactly when
\* a message in it could not be parsed (replay.hpp, metadata_override).
THEOREM PartsStandAlone ==
  ASSUME Prompt
  PROVE  RecorderSpec => []SegmentsStandAlone
<1>1. PInv => SegmentsStandAlone
  <2> SUFFICES ASSUME PInv,
                      NEW first \in 2 .. Len(journal) + 1, NEW strict \in BOOLEAN
               PROVE  LET part   == SubSeq(journal, first, Len(journal))
                          replay == ReplayOf(part, Options(Metadata, strict))[Len(part)]
                          failed == \E i \in DOMAIN part : part[i].payload = Unreadable
                      IN  /\ replay.error = IF strict /\ failed THEN "ParseFailure" ELSE None
                          /\ replay.error = None /\ IsValid(StateOf(replay)) /\ Genuine
                               => replay.state.book = state.book
    BY DEF SegmentsStandAlone
  <2> DEFINE part   == SubSeq(journal, first, Len(journal))
             replay == ReplayOf(part, Options(Metadata, strict))[Len(part)]
             failed == \E i \in DOMAIN part : part[i].payload = Unreadable
  <2>1. replay = PartReplay(first, strict)
    BY DEF PartReplay, Part
  <2>2. failed <=> Failed(first)
    <3>1. PICK S : journal \in Seq(S)
      BY DEF PInv, RInv, Typed
    <3>2. /\ DOMAIN part = 1 .. Len(journal) - first + 1
          /\ \A i \in DOMAIN part : part[i] = journal[first + i - 1]
          /\ Len(journal) \in Nat
      BY <3>1
    <3> HIDE DEF part
    <3>3. ASSUME Failed(first) PROVE failed
      <4>1. PICK i \in first..Len(journal) : journal[i].payload = Unreadable
        BY <3>3 DEF Failed
      <4>2. i - first + 1 \in DOMAIN part /\ first + (i - first + 1) - 1 = i
        BY <3>2
      <4> QED BY <3>2, <4>1, <4>2
    <3>4. ASSUME failed PROVE Failed(first)
      <4>1. PICK i \in DOMAIN part : part[i].payload = Unreadable
        BY <3>4
      <4>2. first + i - 1 \in first..Len(journal)
        BY <3>2
      <4> QED BY <3>2, <4>1, <4>2 DEF Failed
    <3> QED BY <3>3, <3>4
  <2>3. /\ replay.error = IF strict /\ Failed(first) THEN "ParseFailure" ELSE None
        /\ replay.error = None /\ IsValid(StateOf(replay)) /\ Genuine
             => StateOf(replay).book = state.book
    BY <2>1 DEF PInv, Alone, StandsAlone
  <2> HIDE DEF part, replay, failed
  <2>4. IsValid(StateOf(replay)) => StateOf(replay) = replay.state
    BY NewStateType DEF StateOf
  <2>5. /\ replay.error = IF strict /\ failed THEN "ParseFailure" ELSE None
        /\ replay.error = None /\ IsValid(StateOf(replay)) /\ Genuine
             => replay.state.book = state.book
    BY <2>2, <2>3, <2>4
  <2> QED BY <2>5 DEF part, replay, failed
<1> QED BY <1>1, RecordingIsReplayable, PTL

\* The invalid time that a recording reports is the time that passed, record by
\* record, while the book it had observed was invalid, whatever the clock did
\* (market_state.cpp).
THEOREM HolesStayTimed ==
  ASSUME Prompt
  PROVE  RecorderSpec => []HolesAreTimed
<1>1. PInv => HolesAreTimed
  <2> SUFFICES ASSUME PInv, finished, Genuine
               PROVE  state.invalid_time = TimeUntil(journal, Len(journal))
    BY DEF HolesAreTimed
  <2>1. /\ Elapsed(state, journal[Len(journal)].at) = TimeUntil(journal, Len(journal))
        /\ state.invalid_since = None
    BY DEF PInv, Timed, Footed
  <2>2. state.invalid_time \in Int
    BY DEF PInv, RInv, Typed, States
  <2> QED BY <2>1, <2>2 DEF Elapsed
<1> QED BY <1>1, RecordingIsReplayable, PTL
=============================================================================
