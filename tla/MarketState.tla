------------------------------ MODULE MarketState ------------------------------
(***************************************************************************)
(* A book with its counters (src/book/market_state.cpp), which live        *)
(* collection and replay share: what an event observed at an instant does  *)
(* to them.  The clock is read by the caller, and may go backwards.        *)
(***************************************************************************)
EXTENDS OrderBook

\* The events that are counted and leave the book alone.
OtherEvents == {"trade", "subscribed", "error", "unhandled"}

Counters ==
  OtherEvents \cup
  {"orderbook_snapshot", "orderbook_delta", "rejected_snapshots", "rejected_deltas",
   "sequence_gaps", "disconnections", "crossed_observations"}

NewMarketState ==
  [book          |-> AwaitingBook,
   stats         |-> [counter \in Counters |-> 0],
   invalid_time  |-> 0,
   invalid_since |-> None]

Count(stats, counters) ==
  [counter \in Counters |-> IF counter \in counters THEN stats[counter] + 1
                            ELSE stats[counter]]

\* The interval of invalidity that is open at `at`, closed.
finish(state, at) ==
  IF state.invalid_since = None THEN state
  ELSE [state EXCEPT !.invalid_time = @ + (at - state.invalid_since),
                     !.invalid_since = None]

\* Faulty: a message seen while the book is invalid restarts the interval.
note_validityRestarted(state, at) ==
  LET timed == IF is_valid(state.book) THEN finish(state, at)
               ELSE [state EXCEPT !.invalid_since = at]
  IN  IF is_crossed(state.book)
      THEN [timed EXCEPT !.stats = Count(@, {"crossed_observations"})]
      ELSE timed

note_validity(state, at) ==
  LET timed == IF is_valid(state.book) THEN finish(state, at)
               ELSE IF state.invalid_since = None THEN [state EXCEPT !.invalid_since = at]
               ELSE state
  IN  IF is_crossed(state.book)
      THEN [timed EXCEPT !.stats = Count(@, {"crossed_observations"})]
      ELSE timed

\* Which problem of a snapshot is reported depends on nothing but the snapshot.
SnapshotVerdict(snapshot) == CHOOSE v \in SnapshotVerdicts(snapshot) : TRUE

Rejection(state, event) ==
  IF event.type = "orderbook_snapshot" THEN SnapshotVerdict(event)
  ELSE IF event.type = "orderbook_delta" THEN DeltaVerdict(state.book, event)
  ELSE Accepted

Counts(event, verdict) ==
  {event.type}
    \cup {counter \in {"rejected_snapshots"} :
            event.type = "orderbook_snapshot" /\ verdict # Accepted}
    \cup {counter \in {"rejected_deltas"} :
            event.type = "orderbook_delta" /\ verdict # Accepted}
    \cup {counter \in {"sequence_gaps"} : verdict = "SequenceGap"}

AfterEvent(book, event, verdict) ==
  IF event.type = "orderbook_snapshot" THEN AfterSnapshot(book, event, verdict)
  ELSE IF event.type = "orderbook_delta" THEN AfterDelta(book, event, verdict)
  ELSE book

apply(state, event, at) ==
  LET verdict == Rejection(state, event)
  IN  note_validity([state EXCEPT !.book = AfterEvent(@, event, verdict),
                                  !.stats = Count(@, Counts(event, verdict))],
                    at)

\* Faulty: a lost connection is counted and the book is kept.
on_disconnectedKeepsBook(state, at) ==
  note_validity([state EXCEPT !.stats = Count(@, {"disconnections"})], at)

on_disconnected(state, at) ==
  note_validity([state EXCEPT !.book  = AwaitingBook,
                              !.stats = Count(@, {"disconnections"})],
                at)
=============================================================================
