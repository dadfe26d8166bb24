---------------------------- MODULE BookFeed_proofs ----------------------------
(***************************************************************************)
(* A valid book is the venue's, whatever the connection did: proofs about  *)
(* BookFeed for every value of its constants.                              *)
(***************************************************************************)
EXTENDS BookFeed, Recursion

-----------------------------------------------------------------------------
(***************************************************************************)
(* Reflection.                                                             *)
(***************************************************************************)

\* Parsing undoes what the wire did to a price: whichever convention the
\* subscription asked for, the book sees the YES-scale price.
LEMMA ParsedPrice ==
  ASSUME NEW side \in Side, NEW price \in Int
  PROVE  /\ WirePrice(price, side) \in Int
         /\ WirePrice(WirePrice(price, side), side) = price
         /\ yes_price_from_book_entry(WirePrice(price, side), side)
              = YesScale(price, side)
         /\ yes_price_from_book_entry(YesScale(price, side), side)
              = WirePrice(price, side)
         /\ YesScale(price, side) \in Int
         /\ YesScale(YesScale(price, side), side) = price
BY ConstantsAssumption DEF Side, WirePrice, YesScale, yes_price_from_book_entry,
     yes_price_from_no, ConventionAssumption

\* What the parser makes of a listed side, and what the book then stores of it.
LEMMA ParsedListing ==
  ASSUME NEW side \in Side, NEW resting \in [VenuePrices -> Nat],
         NEW listed \in SUBSET VenuePrices,
         \A q \in VenuePrices : resting[q] > 0 => q \in listed,
         NEW wire, wire = WireLevels(resting, listed, side),
         NEW parsed, parsed = ParsedLevels(wire, side)
  PROVE  /\ WithoutZeroLevels(parsed) = MirrorSide(resting, side)
         /\ \A q \in listed : /\ WirePrice(q, side) \in DOMAIN wire
                              /\ wire[WirePrice(q, side)] = resting[q]
         /\ DOMAIN parsed = {YesScale(q, side) : q \in listed}
         /\ \A q \in listed : parsed[YesScale(q, side)] = resting[q]
<1> DEFINE quoted == {q \in VenuePrices : resting[q] > 0}
<1>0. \A q \in VenuePrices : q \in Int
  BY ConstantsAssumption
<1>1. /\ DOMAIN wire = {WirePrice(p, side) : p \in listed}
      /\ \A q \in listed : wire[WirePrice(q, side)] = resting[q]
  BY <1>0, ParsedPrice DEF WireLevels
<1>2. {yes_price_from_book_entry(w, side) : w \in DOMAIN wire}
        = {YesScale(q, side) : q \in listed}
  BY <1>0, <1>1, ParsedPrice
<1>3. \A q \in listed :
         wire[yes_price_from_book_entry(YesScale(q, side), side)]
           = resting[YesScale(YesScale(q, side), side)]
  BY <1>0, <1>1, ParsedPrice
<1>4. parsed = OnYesScale(resting, listed, side)
  BY <1>2, <1>3 DEF ParsedLevels, OnYesScale
<1>5. /\ DOMAIN parsed = {YesScale(q, side) : q \in listed}
      /\ \A q \in listed : parsed[YesScale(q, side)] = resting[q]
      /\ \A p \in DOMAIN parsed : parsed[p] = resting[YesScale(p, side)]
  BY <1>0, <1>4, ParsedPrice DEF OnYesScale
<1>6. {p \in DOMAIN parsed : parsed[p] > 0} = {YesScale(q, side) : q \in quoted}
  BY <1>5
<1>7. WithoutZeroLevels(parsed) = OnYesScale(resting, quoted, side)
  <2>1. \A p \in {YesScale(q, side) : q \in quoted} : p \in DOMAIN parsed
    BY <1>5
  <2>2. \A p \in {YesScale(q, side) : q \in quoted} : parsed[p] = resting[YesScale(p, side)]
    BY <1>5, <2>1
  <2> HIDE DEF quoted
  <2> QED BY <1>6, <2>2 DEF WithoutZeroLevels, OnYesScale
<1>8. WithoutZeroLevels(parsed) = MirrorSide(resting, side)
  BY <1>7 DEF MirrorSide
<1> QED BY <1>1, <1>5, <1>8

-----------------------------------------------------------------------------
(***************************************************************************)
(* The mirror of a market follows a change of one level.                   *)
(***************************************************************************)

\* What rests in the mirrored book at a venue price is what rests at the venue.
LEMMA MirrorResting ==
  ASSUME NEW venue \in [Side -> [VenuePrices -> Nat]],
         NEW side \in Side, NEW q \in VenuePrices
  PROVE  Resting(Mirror(venue)[side], YesScale(q, side)) = venue[side][q]
<1>0. \A r \in VenuePrices : r \in Int
  BY ConstantsAssumption
<1> DEFINE quoted == {r \in VenuePrices : venue[side][r] > 0}
<1>1. /\ DOMAIN Mirror(venue)[side] = {YesScale(r, side) : r \in quoted}
      /\ \A p \in DOMAIN Mirror(venue)[side] :
            Mirror(venue)[side][p] = venue[side][YesScale(p, side)]
  BY DEF Mirror, MirrorSide, OnYesScale
<1>2. YesScale(YesScale(q, side), side) = q
  BY <1>0, ParsedPrice
<1>3. YesScale(q, side) \in {YesScale(r, side) : r \in quoted} <=> q \in quoted
  BY <1>0, ParsedPrice
<1>4. CASE q \in quoted
  BY <1>1, <1>2, <1>3, <1>4 DEF Resting
<1>5. CASE q \notin quoted
  BY <1>1, <1>3, <1>5 DEF Resting
<1> QED BY <1>4, <1>5

\* Changing one level of one side.
LEMMA MirrorSideChange ==
  ASSUME NEW side \in Side, NEW resting \in [VenuePrices -> Nat],
         NEW q \in VenuePrices, NEW n \in Nat,
         NEW changed, changed = [resting EXCEPT ![q] = n]
  PROVE  MirrorSide(changed, side)
           = WithLevel(MirrorSide(resting, side), YesScale(q, side), n)
<1> DEFINE price == YesScale(q, side)
           old == {r \in VenuePrices : resting[r] > 0}
           new == {r \in VenuePrices : changed[r] > 0}
           Old == {YesScale(r, side) : r \in old}
           New == {YesScale(r, side) : r \in new}
           before == MirrorSide(resting, side)
           value(p) == changed[YesScale(p, side)]
<1>0. \A r \in VenuePrices : r \in Int
  BY ConstantsAssumption
<1>1. /\ changed \in [VenuePrices -> Nat]
      /\ \A r \in VenuePrices : changed[r] = IF r = q THEN n ELSE resting[r]
  OBVIOUS
<1>2. new = IF n = 0 THEN old \ {q} ELSE old \cup {q}
  BY <1>1
<1>3. \A r \in VenuePrices : YesScale(r, side) = price <=> r = q
  BY <1>0, ParsedPrice
<1>4. New = IF n = 0 THEN Old \ {price} ELSE Old \cup {price}
  <2>1. CASE n = 0
    <3> HIDE DEF price, old, new
    <3>1. \A r \in old : r \in VenuePrices
      BY DEF old
    <3> QED BY <1>2, <1>3, <2>1, <3>1
  <2>2. CASE n # 0
    <3> HIDE DEF old, new
    <3> QED BY <1>2, <2>2
  <2> QED BY <2>1, <2>2
<1>5. \A p \in New : value(p) = IF p = price THEN n ELSE resting[YesScale(p, side)]
  BY <1>0, <1>1, <1>3, ParsedPrice
<1>6. /\ DOMAIN before = Old
      /\ \A p \in Old : before[p] = resting[YesScale(p, side)]
      /\ MirrorSide(changed, side) = [p \in New |-> value(p)]
  BY DEF MirrorSide, OnYesScale
<1> HIDE DEF price, Old, New, before, value
<1>7. \A p \in New : value(p) = IF p = price THEN n ELSE before[p]
  BY <1>4, <1>5, <1>6
<1>8. WithLevel(before, price, n)
        = [p \in New |-> IF p = price THEN n ELSE before[p]]
  BY <1>4, <1>6 DEF WithLevel
<1>9. MirrorSide(changed, side) = WithLevel(before, price, n)
  BY <1>6, <1>7, <1>8
<1> QED BY <1>9 DEF before, price

\* Market `now` is `venue` with `n` at price `q` of `side`.
LevelChanged(venue, now, side, q, n) ==
  \A s \in Side, r \in VenuePrices :
     now[s][r] = IF s = side /\ r = q THEN n ELSE venue[s][r]

\* Changing one level of the mirror gives the mirror of the changed market.
LEMMA MirrorChange ==
  ASSUME NEW venue \in [Side -> [VenuePrices -> Nat]],
         NEW side \in Side, NEW q \in VenuePrices, NEW n \in Nat,
         NEW now \in [Side -> [VenuePrices -> Nat]],
         LevelChanged(venue, now, side, q, n)
  PROVE  /\ Mirror(now)[side] = WithLevel(Mirror(venue)[side], YesScale(q, side), n)
         /\ \A s \in Side \ {side} : Mirror(now)[s] = Mirror(venue)[s]
<1>1. /\ now[side] = [venue[side] EXCEPT ![q] = n]
      /\ \A s \in Side \ {side} : now[s] = venue[s]
  <2>1. \A s \in Side : now[s] \in [VenuePrices -> Nat] /\ venue[s] \in [VenuePrices -> Nat]
    OBVIOUS
  <2> QED BY <2>1 DEF LevelChanged
<1>2. MirrorSide(now[side], side)
        = WithLevel(MirrorSide(venue[side], side), YesScale(q, side), n)
  <2> DEFINE resting == venue[side]
             changed == now[side]
  <2>1. resting \in [VenuePrices -> Nat] /\ changed = [resting EXCEPT ![q] = n]
    BY <1>1
  <2> HIDE DEF resting, changed
  <2>2. MirrorSide(changed, side) = WithLevel(MirrorSide(resting, side), YesScale(q, side), n)
    BY <2>1, MirrorSideChange
  <2> QED BY <2>2 DEF resting, changed
<1> QED BY <1>1, <1>2 DEF Mirror

-----------------------------------------------------------------------------
(***************************************************************************)
(* The inductive invariant.                                                *)
(***************************************************************************)

MessageTypes == {"orderbook_snapshot", "orderbook_delta"}

\* Snapshot `m` lists all that `venue` quotes, at what it quotes.
Lists(m, venue) ==
  \E listed \in [Side -> SUBSET VenuePrices] :
     \A side \in Side :
        /\ \A q \in VenuePrices : venue[side][q] > 0 => q \in listed[side]
        /\ m.levels[side] = WireLevels(venue[side], listed[side], side)

\* Delta `m` tells how `venue` became `after`.
Tells(m, venue, after) ==
  \E q \in VenuePrices :
     /\ m.side \in Side
     /\ m.price = WirePrice(q, m.side)
     /\ m.delta \in Int
     /\ venue[m.side][q] + m.delta \in Nat
     /\ after = [venue EXCEPT ![m.side][q] = venue[m.side][q] + m.delta]

\* Message `m` has its place in the history of its subscription.
Truthful(m, told) ==
  /\ m.type \in MessageTypes
  /\ m.subscription \in Sids
  /\ m.sequence \in 1 .. Len(told[m.subscription])
  /\ /\ m.type = "orderbook_snapshot"
     /\ m.market_ticker = Ticker
     => Lists(m, told[m.subscription][m.sequence])
  /\ m.type = "orderbook_delta" =>
       /\ m.market_ticker = Ticker
       /\ m.sequence > 1
       /\ Tells(m, told[m.subscription][m.sequence - 1],
                   told[m.subscription][m.sequence])

\* Histories `later` continue the histories `told`.
Continues(told, later) ==
  \A sid \in Sids : /\ Len(told[sid]) <= Len(later[sid])
                    /\ \A n \in 1 .. Len(told[sid]) : later[sid][n] = told[sid][n]

HistoryOK ==
  /\ history \in [Sids -> Seq(Market)]
  /\ \A sid \in Sids : Open(sid) => history[sid][Len(history[sid])] = market

IInv ==
  /\ market \in Market
  /\ HistoryOK
  /\ \A m \in channel : Truthful(m, history)
  /\ book \in Books(Sids, Nat \ {0})
  /\ InSync

-----------------------------------------------------------------------------
(***************************************************************************)
(* What the venue does keeps the messages in flight truthful.              *)
(***************************************************************************)

LEMMA InitIInv == Init => IInv
BY ConstantsAssumption DEF Init, IInv, HistoryOK, InSync, Books, AwaitingBook, is_valid,
     Market, Open

\* Histories that only grow keep a truthful message truthful.
LEMMA TruthfulKept ==
  ASSUME NEW told \in [Sids -> Seq(Market)], NEW later \in [Sids -> Seq(Market)],
         Continues(told, later), NEW m, Truthful(m, told)
  PROVE  Truthful(m, later)
<1>1. /\ m.subscription \in Sids
      /\ m.sequence \in 1 .. Len(told[m.subscription])
      /\ Len(told[m.subscription]) \in Nat
      /\ Len(later[m.subscription]) \in Nat
  BY DEF Truthful
<1>2. later[m.subscription][m.sequence] = told[m.subscription][m.sequence]
  BY <1>1 DEF Continues
<1>3. m.sequence > 1 =>
        later[m.subscription][m.sequence - 1] = told[m.subscription][m.sequence - 1]
  BY <1>1 DEF Continues
<1>4. m.sequence \in 1 .. Len(later[m.subscription])
  BY <1>1 DEF Continues
<1> QED BY <1>1, <1>2, <1>3, <1>4 DEF Truthful

\* The same for the book: what it claims to be is still in the history.
LEMMA InSyncKept ==
  ASSUME history \in [Sids -> Seq(Market)], history' \in [Sids -> Seq(Market)],
         Continues(history, history'), InSync, UNCHANGED book
  PROVE  InSync'
<1> SUFFICES ASSUME is_valid(book)
             PROVE  /\ book.subscription \in Sids
                    /\ book.last_sequence \in 1 .. Len(history'[book.subscription])
                    /\ book.levels = Mirror(history'[book.subscription][book.last_sequence])
  BY DEF InSync, is_valid, Mirror
<1>1. /\ book.subscription \in Sids
      /\ book.last_sequence \in 1 .. Len(history[book.subscription])
      /\ Len(history[book.subscription]) \in Nat
      /\ Len(history'[book.subscription]) \in Nat
      /\ book.levels = Mirror(history[book.subscription][book.last_sequence])
  BY DEF InSync
<1> QED BY <1>1 DEF Continues

LEMMA SnapshotSent ==
  ASSUME IInv, NEW sid \in Sids, NEW ticker, NEW listed \in [Side -> SUBSET VenuePrices],
         ticker = Ticker => \A side \in Side : Quoted(side) \subseteq listed[side],
         channel' = channel \cup {SnapshotMessage(sid, ticker, listed)},
         history' = [history EXCEPT ![sid] = Append(@, market)],
         UNCHANGED <<market, book>>
  PROVE  IInv'
<1> DEFINE sent == SnapshotMessage(sid, ticker, listed)
<1>0. /\ market \in Market
      /\ history \in [Sids -> Seq(Market)]
      /\ Len(history[sid]) \in Nat
  BY DEF IInv, HistoryOK
<1>1. /\ history' \in [Sids -> Seq(Market)]
      /\ \A s \in Sids \ {sid} : history'[s] = history[s]
      /\ Len(history'[sid]) = Len(history[sid]) + 1
      /\ history'[sid][Len(history'[sid])] = market
      /\ Continues(history, history')
  BY <1>0 DEF Continues
<1>2. HistoryOK'
  BY <1>1 DEF IInv, HistoryOK, Open
<1>3. Truthful(sent, history')
  <2>1. /\ sent.type = "orderbook_snapshot"
        /\ sent.subscription = sid
        /\ sent.sequence = Len(history[sid]) + 1
        /\ sent.market_ticker = ticker
        /\ sent.levels = [side \in Side |->
                            WireLevels(market[side], listed[side], side)]
    BY DEF SnapshotMessage
  <2>2. ticker = Ticker => Lists(sent, market)
    BY <2>1 DEF Lists, Quoted
  <2>3. history'[sid][sent.sequence] = market
    BY <1>1, <2>1
  <2> HIDE DEF sent
  <2> QED BY <1>0, <1>1, <2>1, <2>2, <2>3 DEF Truthful, MessageTypes
<1>4. \A m \in channel : Truthful(m, history')
  BY <1>0, <1>1, TruthfulKept DEF IInv
<1>5. InSync'
  BY <1>0, <1>1, InSyncKept DEF IInv
<1>6. \A m \in channel' : Truthful(m, history')
  BY <1>3, <1>4
<1>7. book' \in Books(Sids, Nat \ {0})
  BY DEF IInv
<1> QED BY <1>0, <1>2, <1>5, <1>6, <1>7 DEF IInv

LEMMA SendSnapshotIInv ==
  ASSUME IInv, NEW sid \in Sids, NEW extra \in Extras, SendSnapshot(sid, extra)
  PROVE  IInv'
<1> DEFINE listed == [side \in Side |-> Quoted(side) \cup extra]
<1>1. listed \in [Side -> SUBSET VenuePrices]
  BY ConstantsAssumption DEF Quoted
<1>2. \A side \in Side : Quoted(side) \subseteq listed[side]
  OBVIOUS
<1>3. /\ channel' = channel \cup {SnapshotMessage(sid, Ticker, listed)}
      /\ history' = [history EXCEPT ![sid] = Append(@, market)]
      /\ UNCHANGED <<market, book>>
  BY DEF SendSnapshot
<1> HIDE DEF listed
<1> QED BY <1>1, <1>2, <1>3, SnapshotSent

LEMMA SendOtherIInv ==
  ASSUME IInv, NEW sid \in Sids, SendOther(sid)
  PROVE  IInv'
<1> DEFINE listed == [side \in Side |-> {}]
<1>1. listed \in [Side -> SUBSET VenuePrices]
  OBVIOUS
<1>2. /\ channel' = channel \cup {SnapshotMessage(sid, OtherTicker, listed)}
      /\ history' = [history EXCEPT ![sid] = Append(@, market)]
      /\ UNCHANGED <<market, book>>
  BY DEF SendOther
<1>3. OtherTicker # Ticker
  BY ConstantsAssumption
<1> HIDE DEF listed
<1> QED BY <1>1, <1>2, <1>3, SnapshotSent

LEMMA ChangeLevelIInv ==
  ASSUME IInv, NEW side \in Side, NEW price \in VenuePrices, NEW change \in Changes,
         ChangeLevel(side, price, change)
  PROVE  IInv'
<1>0. /\ market \in Market
      /\ history \in [Sids -> Seq(Market)]
      /\ \A sid \in Sids : Len(history[sid]) \in Nat
      /\ change \in Int
  BY ConstantsAssumption DEF IInv, HistoryOK
<1>1. /\ market[side][price] + change \in 0..VenueMax
      /\ market' = [market EXCEPT ![side][price] = market[side][price] + change]
      /\ UNCHANGED book
  BY <1>0 DEF ChangeLevel, Market
<1>2. market' \in Market
  BY <1>0, <1>1 DEF Market
<1>3. /\ history' \in [Sids -> Seq(Market)]
      /\ \A s \in Sids : Open(s) => /\ Len(history'[s]) = Len(history[s]) + 1
                                    /\ history'[s][Len(history[s]) + 1] = market'
      /\ \A s \in Sids : ~Open(s) => history'[s] = <<>>
      /\ Continues(history, history')
  <2>1. history' = [sid \in Sids |-> IF Open(sid) THEN Append(history[sid], market')
                                     ELSE history[sid]]
    BY DEF ChangeLevel
  <2> QED BY <1>0, <1>2, <2>1 DEF Continues, Open
<1>4. HistoryOK'
  <2> SUFFICES ASSUME NEW sid \in Sids, history'[sid] # <<>>
               PROVE  history'[sid][Len(history'[sid])] = market'
    BY <1>3 DEF HistoryOK, Open
  <2>1. Open(sid)
    BY <1>3
  <2> QED BY <1>3, <2>1
<1>5. ASSUME NEW sid \in Sids, Open(sid)
      PROVE  Truthful(DeltaMessage(sid, side, price, change), history')
  <2> DEFINE sent == DeltaMessage(sid, side, price, change)
  <2>1. /\ sent.type = "orderbook_delta"
        /\ sent.subscription = sid
        /\ sent.sequence = Len(history[sid]) + 1
        /\ sent.market_ticker = Ticker
        /\ sent.side = side
        /\ sent.price = WirePrice(price, side)
        /\ sent.delta = change
    BY DEF DeltaMessage
  <2>2. Tells(sent, market, market')
    <3>1. market[side][price] + change \in Nat
      BY <1>1, ConstantsAssumption
    <3> HIDE DEF sent
    <3> QED BY <1>0, <1>1, <2>1, <3>1 DEF Tells
  <2>3. /\ Len(history[sid]) > 0
        /\ history[sid][Len(history[sid])] = market
    BY <1>0, <1>5 DEF IInv, HistoryOK, Open
  <2>4. /\ history'[sid][sent.sequence] = market'
        /\ history'[sid][sent.sequence - 1] = market
        /\ sent.sequence \in 1 .. Len(history'[sid])
        /\ sent.sequence > 1
    BY <1>0, <1>3, <1>5, <2>1, <2>3 DEF Continues
  <2> HIDE DEF sent
  <2>5. Truthful(sent, history')
    BY <2>1, <2>2, <2>4 DEF Truthful, MessageTypes
  <2> QED BY <2>5 DEF sent
<1>6. \A m \in channel : Truthful(m, history')
  BY <1>0, <1>3, TruthfulKept DEF IInv
<1>7. \A m \in channel' : Truthful(m, history')
  <2>1. channel' = channel \cup
          {DeltaMessage(sid, side, price, change) : sid \in {s \in Sids : Open(s)}}
    BY DEF ChangeLevel
  <2> QED BY <1>5, <1>6, <2>1
<1>8. InSync'
  BY <1>0, <1>1, <1>3, InSyncKept DEF IInv
<1>9. book' \in Books(Sids, Nat \ {0})
  BY <1>1 DEF IInv
<1> QED BY <1>2, <1>4, <1>7, <1>8, <1>9 DEF IInv

-----------------------------------------------------------------------------
(***************************************************************************)
(* What the recorder does keeps the book in step with the venue.           *)
(***************************************************************************)

LEMMA AwaitingIsNotValid == ~is_valid(AwaitingBook)
BY DEF is_valid, AwaitingBook

\* What an accepted snapshot has passed.
LEMMA AcceptedSnapshot ==
  ASSUME NEW snapshot, Accepted \in SnapshotVerdicts(snapshot)
  PROVE  /\ snapshot.market_ticker = Ticker
         /\ \A side \in Side : \A p \in DOMAIN snapshot.levels[side] :
               /\ LevelProblem(p, snapshot.levels[side][p]) = Accepted
               /\ validate_price(p) = Accepted
<1>1. /\ snapshot.market_ticker = Ticker
      /\ LevelProblems(snapshot) = {}
  <2>1. Accepted # "WrongMarket"
    BY DEF Accepted
  <2>2. Accepted \notin LevelProblems(snapshot)
    BY DEF LevelProblems
  <2> QED BY <2>1, <2>2 DEF SnapshotVerdicts
<1>3. \A side \in Side : \A p \in DOMAIN snapshot.levels[side] :
         LevelProblem(p, snapshot.levels[side][p]) = Accepted
  BY <1>1 DEF LevelProblems
<1> QED BY <1>1, <1>3 DEF LevelProblem

\* A snapshot side that passed validation is stored as a legal side of a book.
LEMMA StoredIsLegal ==
  ASSUME NEW listed,
         \A p \in DOMAIN listed : /\ listed[p] \in Int
                                  /\ listed[p] <= MaxQuantity
                                  /\ validate_price(p) = Accepted
  PROVE  WithoutZeroLevels(listed) \in Levels
<1> DEFINE prices == {q \in DOMAIN listed : listed[q] > 0}
<1>1. prices \in SUBSET LegalPrices
  <2> SUFFICES ASSUME NEW p \in prices PROVE p \in LegalPrices
    OBVIOUS
  <2>1. validate_price(p) = Accepted
    OBVIOUS
  <2>2. p \in 0..PriceMax
    BY <2>1 DEF validate_price, is_valid_yes_price, Accepted
  <2> QED BY <2>1, <2>2 DEF LegalPrices
<1>2. [p \in prices |-> listed[p]] \in [prices -> 1..MaxQuantity]
  BY ConstantsAssumption
<1>3. [p \in prices |-> listed[p]] \in Levels
  BY <1>1, <1>2 DEF Levels
<1> QED BY <1>3 DEF WithoutZeroLevels

\* So is a legal side with one legal level changed.
LEMMA WithLevelIsLegal ==
  ASSUME NEW levels \in Levels, NEW price \in LegalPrices, NEW n \in 0..MaxQuantity
  PROVE  WithLevel(levels, price, n) \in Levels
<1>1. PICK prices \in SUBSET LegalPrices : levels \in [prices -> 1..MaxQuantity]
  BY DEF Levels
<1> DEFINE kept == IF n = 0 THEN prices \ {price} ELSE prices \cup {price}
<1>2. kept \in SUBSET LegalPrices
  OBVIOUS
<1>3. WithLevel(levels, price, n) \in [kept -> 1..MaxQuantity]
  BY <1>1, ConstantsAssumption DEF WithLevel
<1> QED BY <1>2, <1>3 DEF Levels

\* No more rests at a price of a legal side than a Quantity holds.
LEMMA RestingBound ==
  ASSUME NEW levels \in Levels, NEW price
  PROVE  Resting(levels, price) \in 0..MaxQuantity
<1>1. PICK prices \in SUBSET LegalPrices : levels \in [prices -> 1..MaxQuantity]
  BY DEF Levels
<1> QED BY <1>1, ConstantsAssumption DEF Resting

LEMMA DeliverSnapshotIInv ==
  ASSUME IInv, NEW m \in channel, DeliverSnapshot(m)
  PROVE  IInv'
<1> DEFINE snapshot == parse_snapshot(m)
           venue == history[m.subscription][m.sequence]
<1>0. /\ UNCHANGED <<market, history, channel>>
      /\ m.type = "orderbook_snapshot"
      /\ Truthful(m, history)
      /\ Readable(m)
  BY DEF DeliverSnapshot, IInv
<1>1. PICK v \in SnapshotVerdicts(snapshot) : book' = AfterSnapshot(book, snapshot, v)
  BY DEF DeliverSnapshot
<1>2. /\ m.subscription \in Sids
      /\ m.sequence \in 1 .. Len(history[m.subscription])
      /\ m.sequence \in Nat \ {0}
      /\ venue \in Market
  BY <1>0 DEF Truthful, IInv, HistoryOK
<1>3. book' \in Books(Sids, Nat \ {0}) /\ InSync'
  <2>1. CASE v # Accepted
    <3>1. book' = book \/ book' = AwaitingBook
      BY <1>1, <2>1 DEF AfterSnapshot, Refused
    <3>2. CASE book' = book
      BY <1>0, <3>2 DEF IInv, InSync, is_valid, Mirror
    <3>3. CASE book' = AwaitingBook
      BY <3>3, AwaitingIsNotValid DEF InSync, Books, is_valid
    <3> QED BY <3>1, <3>2, <3>3
  <2>2. CASE v = Accepted
    <3>1. /\ m.market_ticker = Ticker
          /\ \A side \in Side : \A p \in DOMAIN snapshot.levels[side] :
                validate_price(p) = Accepted
      <4>1. snapshot.market_ticker = m.market_ticker
        BY DEF parse_snapshot
      <4> HIDE DEF snapshot
      <4> QED BY <1>1, <2>2, <4>1, AcceptedSnapshot
    <3>2. PICK listed \in [Side -> SUBSET VenuePrices] :
            \A side \in Side :
               /\ \A q \in VenuePrices : venue[side][q] > 0 => q \in listed[side]
               /\ m.levels[side] = WireLevels(venue[side], listed[side], side)
      BY <1>0, <3>1 DEF Truthful, Lists
    <3>3. ASSUME NEW side \in Side
          PROVE  /\ WithoutZeroLevels(snapshot.levels[side]) = Mirror(venue)[side]
                 /\ WithoutZeroLevels(snapshot.levels[side]) \in Levels
      <4>1. /\ venue[side] \in [VenuePrices -> Nat]
            /\ listed[side] \in SUBSET VenuePrices
            /\ \A q \in VenuePrices : venue[side][q] > 0 => q \in listed[side]
        <5>1. venue[side] \in [VenuePrices -> 0..VenueMax]
          BY <1>2 DEF Market
        <5>2. 0..VenueMax \subseteq Nat
          BY ConstantsAssumption
        <5> HIDE DEF venue
        <5> QED BY <3>2, <5>1, <5>2
      <4>2. snapshot.levels[side] = ParsedLevels(m.levels[side], side)
        BY DEF parse_snapshot
      <4>3. m.levels[side] = WireLevels(venue[side], listed[side], side)
        BY <3>2
      <4> HIDE DEF venue, snapshot
      <4>4. /\ WithoutZeroLevels(snapshot.levels[side]) = MirrorSide(venue[side], side)
            /\ \A q \in listed[side] :
                  /\ WirePrice(q, side) \in DOMAIN m.levels[side]
                  /\ m.levels[side][WirePrice(q, side)] = venue[side][q]
            /\ DOMAIN snapshot.levels[side] = {YesScale(q, side) : q \in listed[side]}
            /\ \A q \in listed[side] :
                  snapshot.levels[side][YesScale(q, side)] = venue[side][q]
        <5> DEFINE resting == venue[side]
                   names == listed[side]
                   wire == m.levels[side]
                   parsed == snapshot.levels[side]
        <5>1. /\ resting \in [VenuePrices -> Nat]
              /\ names \in SUBSET VenuePrices
              /\ \A q \in VenuePrices : resting[q] > 0 => q \in names
              /\ wire = WireLevels(resting, names, side)
              /\ parsed = ParsedLevels(wire, side)
          BY <4>1, <4>2, <4>3
        <5>2. /\ WithoutZeroLevels(parsed) = MirrorSide(resting, side)
              /\ \A q \in names : /\ WirePrice(q, side) \in DOMAIN wire
                                  /\ wire[WirePrice(q, side)] = resting[q]
              /\ DOMAIN parsed = {YesScale(q, side) : q \in names}
              /\ \A q \in names : parsed[YesScale(q, side)] = resting[q]
          <6> HIDE DEF resting, names, wire, parsed
          <6> QED BY <5>1, ParsedListing
        <5> QED BY <5>2
      <4>5. WithoutZeroLevels(snapshot.levels[side]) = Mirror(venue)[side]
        BY <4>4 DEF Mirror
      <4>6. \A q \in listed[side] : venue[side][q] <= MaxQuantity
        BY <1>0, <4>4 DEF Readable
      <4>7. \A p \in DOMAIN snapshot.levels[side] :
               /\ snapshot.levels[side][p] \in Int
               /\ snapshot.levels[side][p] <= MaxQuantity
        BY <4>1, <4>4, <4>6
      <4>8. \A p \in DOMAIN snapshot.levels[side] : validate_price(p) = Accepted
        BY <3>1
      <4> QED BY <4>5, <4>7, <4>8, StoredIsLegal
    <3>4. book' = [status        |-> "Valid",
                   levels        |-> [side \in Side |->
                                        WithoutZeroLevels(snapshot.levels[side])],
                   last_sequence |-> m.sequence,
                   subscription  |-> m.subscription]
      BY <1>1, <2>2 DEF AfterSnapshot, parse_snapshot
    <3>5. book'.levels = Mirror(venue)
      <4>1. book'.levels = [side \in Side |-> Mirror(venue)[side]]
        BY <3>3, <3>4
      <4> QED BY <4>1 DEF Mirror
    <3>6. book' \in ValidBooks(Sids, Nat \ {0})
      <4>1. [side \in Side |-> WithoutZeroLevels(snapshot.levels[side])] \in [Side -> Levels]
        BY <3>3
      <4> QED BY <1>2, <3>4, <4>1 DEF ValidBooks
    <3> QED BY <1>0, <1>2, <3>4, <3>5, <3>6 DEF InSync, Books
  <2> QED BY <2>1, <2>2
<1> QED BY <1>0, <1>3 DEF IInv, HistoryOK, Open

\* Delta `m` moves the level of venue price `q`, and the book's level is the
\* venue's, before and after.
Moves(m, q, before, after) ==
  /\ m.side \in Side
  /\ m.delta \in Int
  /\ before \in Market
  /\ before[m.side][q] + m.delta \in Nat
  /\ yes_price_from_book_entry(m.price, m.side) = YesScale(q, m.side)
  /\ book.levels = Mirror(before)
  /\ Resting(book.levels[m.side], YesScale(q, m.side)) = before[m.side][q]
  /\ Mirror(after) = [book.levels EXCEPT ![m.side] =
         WithLevel(book.levels[m.side], YesScale(q, m.side), before[m.side][q] + m.delta)]

\* What the book does with a delta that is next in line on its subscription.
LEMMA DeltaInLine ==
  ASSUME IInv, NEW m \in channel, m.type = "orderbook_delta", is_valid(book),
         m.subscription = book.subscription,
         m.sequence = book.last_sequence + 1
  PROVE  \E q \in VenuePrices :
           Moves(m, q, history[m.subscription][m.sequence - 1],
                       history[m.subscription][m.sequence])
<1> DEFINE before == history[m.subscription][m.sequence - 1]
           after == history[m.subscription][m.sequence]
<1>1. /\ Truthful(m, history)
      /\ m.subscription \in Sids
      /\ m.sequence \in 1 .. Len(history[m.subscription])
      /\ m.sequence > 1
      /\ m.side \in Side
      /\ Tells(m, before, after)
  BY DEF IInv, Truthful, Tells
<1>2. /\ m.sequence - 1 \in 1 .. Len(history[m.subscription])
      /\ before \in Market
      /\ book.levels = Mirror(before)
  <2>1. book.last_sequence \in Nat \ {0}
    BY DEF IInv, Books, ValidBooks, AwaitingBook, is_valid
  <2>2. history[m.subscription] \in Seq(Market)
    BY <1>1 DEF IInv, HistoryOK
  <2> QED BY <1>1, <2>1, <2>2 DEF IInv, InSync
<1>3. PICK q \in VenuePrices :
        /\ m.price = WirePrice(q, m.side)
        /\ m.delta \in Int
        /\ before[m.side][q] + m.delta \in Nat
        /\ after = [before EXCEPT ![m.side][q] = before[m.side][q] + m.delta]
  BY <1>1 DEF Tells
<1>4. before \in [Side -> [VenuePrices -> Nat]]
  <2>1. 0..VenueMax \subseteq Nat
    BY ConstantsAssumption
  <2> HIDE DEF before
  <2> QED BY <1>2, <2>1 DEF Market
<1>5. yes_price_from_book_entry(m.price, m.side) = YesScale(q, m.side)
  BY <1>1, <1>3, ParsedPrice, ConstantsAssumption
<1> HIDE DEF before, after
<1>6. Resting(Mirror(before)[m.side], YesScale(q, m.side)) = before[m.side][q]
  BY <1>1, <1>4, MirrorResting
<1>7. Mirror(after) = [Mirror(before) EXCEPT ![m.side] =
        WithLevel(Mirror(before)[m.side], YesScale(q, m.side), before[m.side][q] + m.delta)]
  <2> DEFINE n == before[m.side][q] + m.delta
             side == m.side
  <2>1. n \in Nat /\ side \in Side
    BY <1>1, <1>3 DEF before
  <2>2. /\ after \in [Side -> [VenuePrices -> Nat]]
        /\ LevelChanged(before, after, side, q, n)
    <3>1. after = [before EXCEPT ![side][q] = n]
      BY <1>3 DEF before, after
    <3> HIDE DEF n, side
    <3> QED BY <1>4, <2>1, <3>1 DEF LevelChanged
  <2>3. Mirror(after) = [Mirror(before) EXCEPT
                           ![side] = WithLevel(Mirror(before)[side], YesScale(q, side), n)]
    <3>1. /\ Mirror(after)[side] = WithLevel(Mirror(before)[side], YesScale(q, side), n)
          /\ \A s \in Side \ {side} : Mirror(after)[s] = Mirror(before)[s]
      <4> HIDE DEF n, side
      <4> QED BY <1>4, <2>1, <2>2, MirrorChange, SMTT(60)
    <3>2. /\ Mirror(after) = [s \in Side |-> Mirror(after)[s]]
          /\ Mirror(before) = [s \in Side |-> Mirror(before)[s]]
      BY DEF Mirror
    <3> HIDE DEF n, side
    <3> QED BY <2>1, <3>1, <3>2
  <2> QED BY <2>3
<1>8. /\ Resting(book.levels[m.side], YesScale(q, m.side)) = before[m.side][q]
      /\ Mirror(after) = [book.levels EXCEPT ![m.side] =
            WithLevel(book.levels[m.side], YesScale(q, m.side), before[m.side][q] + m.delta)]
  BY <1>2, <1>6, <1>7
<1> QED BY <1>1, <1>2, <1>3, <1>5, <1>8 DEF Moves, before, after

\* What an accepted delta has passed.
LEMMA AcceptedDelta ==
  ASSUME NEW b, NEW delta, DeltaVerdict(b, delta) = Accepted,
         delta.sequence \in Int, b.last_sequence \in Int
  PROVE  /\ is_valid(b)
         /\ delta.subscription = b.subscription
         /\ delta.sequence = b.last_sequence + 1
         /\ validate_price(delta.price) = Accepted
         /\ apply_delta(Resting(b.levels[delta.side], delta.price), delta.delta) = Accepted
<1>1. /\ Accepted # "WrongMarket"
      /\ Accepted # "DeltaBeforeSnapshot"
      /\ Accepted # "SubscriptionMismatch"
      /\ Accepted # "SequenceGap"
      /\ Accepted # "SequenceRegressed"
  BY DEF Accepted
<1> QED BY <1>1 DEF DeltaVerdict

LEMMA DeliverDeltaIInv ==
  ASSUME IInv, NEW m \in channel, DeliverDelta(m)
  PROVE  IInv'
<1> DEFINE delta == parse_delta(m)
           v == DeltaVerdict(book, delta)
<1>0. /\ UNCHANGED <<market, history, channel>>
      /\ m.type = "orderbook_delta"
      /\ book' = AfterDelta(book, delta, v)
      /\ Truthful(m, history)
  BY DEF DeliverDelta, IInv
<1>1. /\ delta.subscription = m.subscription
      /\ delta.sequence = m.sequence
      /\ delta.side = m.side
      /\ delta.price = yes_price_from_book_entry(m.price, m.side)
      /\ delta.delta = m.delta
  BY DEF parse_delta
<1>2. /\ m.subscription \in Sids
      /\ m.sequence \in Nat \ {0}
      /\ m.sequence \in 1 .. Len(history[m.subscription])
  BY <1>0 DEF Truthful, IInv, HistoryOK
<1> HIDE DEF delta
<1>3. book' \in Books(Sids, Nat \ {0}) /\ InSync'
  <2>1. CASE v # Accepted
    <3>1. book' = book \/ book' = AwaitingBook
      BY <1>0, <2>1 DEF AfterDelta, Refused
    <3>2. CASE book' = book
      BY <1>0, <3>2 DEF IInv, InSync, is_valid, Mirror
    <3>3. CASE book' = AwaitingBook
      BY <3>3, AwaitingIsNotValid DEF InSync, Books, is_valid
    <3> QED BY <3>1, <3>2, <3>3
  <2>2. CASE v = Accepted
    <3>0. is_valid(book)
      BY <2>2 DEF DeltaVerdict, Accepted
    <3>1. /\ book \in ValidBooks(Sids, Nat \ {0})
          /\ book.last_sequence \in Nat \ {0}
          /\ book.levels \in [Side -> Levels]
      BY <3>0, AwaitingIsNotValid DEF IInv, Books, ValidBooks
    <3>2. /\ m.subscription = book.subscription
          /\ m.sequence = book.last_sequence + 1
          /\ validate_price(delta.price) = Accepted
          /\ apply_delta(Resting(book.levels[m.side], delta.price), m.delta) = Accepted
      BY <1>1, <1>2, <2>2, <3>1, AcceptedDelta
    <3> DEFINE before == history[m.subscription][m.sequence - 1]
               after == history[m.subscription][m.sequence]
    <3>3. PICK q \in VenuePrices : Moves(m, q, before, after)
      BY <1>0, <3>0, <3>2, DeltaInLine
    <3> DEFINE n == before[m.side][q] + m.delta
    <3>4. /\ m.side \in Side
          /\ delta.price = YesScale(q, m.side)
          /\ before \in Market
          /\ m.delta \in Int
          /\ n \in Nat
          /\ Resting(book.levels[m.side], delta.price) = before[m.side][q]
          /\ Mirror(after) = [book.levels EXCEPT
                     ![m.side] = WithLevel(book.levels[m.side], delta.price, n)]
      BY <1>1, <3>3 DEF Moves
    <3>5. /\ book'.levels = Mirror(after)
          /\ book'.last_sequence = m.sequence
          /\ book'.subscription = book.subscription
          /\ book'.status = book.status
          /\ DOMAIN book' = DOMAIN book
      <4> DEFINE level == WithLevel(book.levels[m.side], delta.price, n)
      <4>1. book' = [book EXCEPT !.levels[m.side] = level, !.last_sequence = m.sequence]
        <5> HIDE DEF before
        <5> QED BY <1>0, <1>1, <2>2, <3>4 DEF AfterDelta
      <4>2. Mirror(after) = [book.levels EXCEPT ![m.side] = level]
        <5> HIDE DEF before, after
        <5> QED BY <3>4
      <4>3. DOMAIN book = {"status", "levels", "last_sequence", "subscription"}
        BY <3>1 DEF ValidBooks
      <4> HIDE DEF level, before, after, n
      <4> QED BY <4>1, <4>2, <4>3
    <3>6. Mirror(after) \in [Side -> Levels]
      <4>1. delta.price \in LegalPrices
        BY <3>2 DEF LegalPrices, validate_price, is_valid_yes_price, Accepted
      <4>2. n \in 0..MaxQuantity
        <5>1. before[m.side][q] \in Nat
          BY <3>4, ConstantsAssumption DEF Market
        <5>2. before[m.side][q] + m.delta <= MaxQuantity
          <6>1. CASE m.delta < 0
            <7>1. before[m.side][q] <= MaxQuantity
              BY <3>1, <3>4, RestingBound
            <7> QED BY <5>1, <6>1, <7>1, <3>4, ConstantsAssumption
          <6>2. CASE ~(m.delta < 0)
            <7>1. ~(before[m.side][q] > MaxQuantity - m.delta)
              BY <3>2, <3>4, <6>2 DEF apply_delta, Accepted
            <7> QED BY <5>1, <7>1, <3>4, ConstantsAssumption
          <6> QED BY <6>1, <6>2
        <5> QED BY <3>4, <5>2, ConstantsAssumption
      <4>3. WithLevel(book.levels[m.side], delta.price, n) \in Levels
        BY <3>1, <3>4, <4>1, <4>2, WithLevelIsLegal
      <4> HIDE DEF n, after, before
      <4>4. Mirror(after) = [book.levels EXCEPT
                      ![m.side] = WithLevel(book.levels[m.side], delta.price, n)]
        BY <3>4
      <4> QED BY <3>1, <4>3, <4>4
    <3>7. book' \in ValidBooks(Sids, Nat \ {0})
      <4>1. book' = [status |-> "Valid", levels |-> Mirror(after),
                     last_sequence |-> m.sequence, subscription |-> book.subscription]
        <5> DEFINE level == WithLevel(book.levels[m.side], delta.price, n)
        <5>1. book' = [book EXCEPT !.levels[m.side] = level, !.last_sequence = m.sequence]
          <6> HIDE DEF before
          <6> QED BY <1>0, <1>1, <2>2, <3>4 DEF AfterDelta
        <5> HIDE DEF level, before, after, n
        <5> QED BY <3>0, <3>1, <3>5, <5>1 DEF ValidBooks, is_valid
      <4> HIDE DEF after, before, n
      <4> QED BY <1>2, <3>2, <3>6, <4>1 DEF ValidBooks
    <3> QED BY <1>0, <1>2, <3>2, <3>5, <3>7 DEF InSync, Books
  <2> QED BY <2>1, <2>2
<1> QED BY <1>0, <1>3 DEF IInv, HistoryOK, Open

LEMMA ReconnectIInv ==
  ASSUME IInv, Reconnect
  PROVE  IInv'
<1>1. /\ history' = [sid \in Sids |-> <<>>]
      /\ channel' = {}
      /\ book' = AwaitingBook
      /\ market' = market
  BY DEF Reconnect
<1>2. InSync'
  BY <1>1, AwaitingIsNotValid DEF InSync, is_valid
<1>3. HistoryOK'
  BY <1>1 DEF HistoryOK, Open
<1> QED BY <1>1, <1>2, <1>3 DEF IInv, Books

-----------------------------------------------------------------------------
(***************************************************************************)
(* What follows.                                                           *)
(***************************************************************************)

LEMMA NextIInv ==
  ASSUME IInv, [Next]_vars
  PROVE  IInv'
<1>1. ASSUME NEW sid \in Sids, NEW extra \in Extras, SendSnapshot(sid, extra)
      PROVE  IInv'
  BY <1>1, SendSnapshotIInv
<1>2. ASSUME NEW sid \in Sids, SendOther(sid)
      PROVE  IInv'
  BY <1>2, SendOtherIInv
<1>3. ASSUME NEW side \in Side, NEW price \in VenuePrices, NEW change \in Changes,
             ChangeLevel(side, price, change)
      PROVE  IInv'
  BY <1>3, ChangeLevelIInv
<1>4. ASSUME NEW m \in channel, DeliverSnapshot(m)
      PROVE  IInv'
  BY <1>4, DeliverSnapshotIInv
<1>5. ASSUME NEW m \in channel, DeliverDelta(m)
      PROVE  IInv'
  BY <1>5, DeliverDeltaIInv
<1>6. CASE Reconnect
  BY <1>6, ReconnectIInv
<1>7. CASE UNCHANGED vars
  BY <1>7 DEF vars, IInv, HistoryOK, InSync, Open, is_valid, Mirror
<1> QED BY <1>1, <1>2, <1>3, <1>4, <1>5, <1>6, <1>7 DEF Next

\* Whatever is lost, repeated, reordered or refused: every message in flight has
\* its place in the venue's history, and the book is legal and in sync.
THEOREM Inductive == Spec => []IInv
<1>1. Init => IInv
  BY InitIInv
<1>2. IInv /\ [Next]_vars => IInv'
  BY NextIInv
<1> QED BY <1>1, <1>2, PTL DEF Spec

\* The book stores only legal levels, each with something resting at it, and
\* holds nothing at all while it awaits a snapshot.
THEOREM TypeCorrect == Spec => []TypeOK
<1>1. IInv => TypeOK
  BY DEF IInv, HistoryOK, TypeOK
<1> QED BY <1>1, Inductive, PTL

\* A book that says it is valid is the venue's book as of the last message
\* applied.
THEOREM Synchronized == Spec => []InSync
<1>1. IInv => InSync
  BY DEF IInv
<1> QED BY <1>1, Inductive, PTL

\* A delta next in line never takes more than the level holds.
LEMMA NeverNegative == IInv => LossIsNeverSeenAsNegative
<1> SUFFICES ASSUME IInv, NEW m \in channel, m.type = "orderbook_delta",
                    DeltaVerdict(book, parse_delta(m)) = "QuantityWouldGoNegative"
             PROVE  FALSE
  BY DEF LossIsNeverSeenAsNegative
<1> DEFINE delta == parse_delta(m)
<1>1. /\ delta.subscription = m.subscription
      /\ delta.sequence = m.sequence
      /\ delta.side = m.side
      /\ delta.price = yes_price_from_book_entry(m.price, m.side)
      /\ delta.delta = m.delta
      /\ DeltaVerdict(book, delta) = "QuantityWouldGoNegative"
  BY DEF parse_delta
<1>2. m.sequence \in Int
  BY DEF IInv, Truthful, HistoryOK
<1> HIDE DEF delta
<1>3. is_valid(book)
  BY <1>1 DEF DeltaVerdict
<1>4. book.last_sequence \in Int
  BY <1>3, AwaitingIsNotValid DEF IInv, Books, ValidBooks
<1>5. /\ delta.subscription = book.subscription
      /\ delta.sequence = book.last_sequence + 1
      /\ apply_delta(Resting(book.levels[delta.side], delta.price), delta.delta)
           = "QuantityWouldGoNegative"
  BY <1>1, <1>2, <1>4 DEF DeltaVerdict, validate_price, Accepted
<1> DEFINE before == history[m.subscription][m.sequence - 1]
           after == history[m.subscription][m.sequence]
<1>6. PICK q \in VenuePrices : Moves(m, q, before, after)
  BY <1>1, <1>3, <1>5, DeltaInLine
<1>7. /\ before[m.side][q] + m.delta \in Nat
      /\ Resting(book.levels[m.side], delta.price) = before[m.side][q]
  BY <1>1, <1>6 DEF Moves
<1> HIDE DEF before, after
<1> QED BY <1>1, <1>5, <1>7 DEF apply_delta, Accepted

\* Loss, repetition and reordering are always seen as a break in the sequence,
\* never as a level that goes negative.
THEOREM LossIsSeenAsAGap == Spec => []LossIsNeverSeenAsNegative
BY NeverNegative, Inductive, PTL

-----------------------------------------------------------------------------
(***************************************************************************)
(* The next delta in line.                                                 *)
(***************************************************************************)
LEMMA NextFits == IInv => NextDeltaFits
<1> SUFFICES ASSUME IInv, NEW m \in channel, is_valid(book), m.type = "orderbook_delta",
                    parse_delta(m).subscription = book.subscription,
                    parse_delta(m).sequence = book.last_sequence + 1,
                    validate_price(parse_delta(m).price) = Accepted,
                    history[parse_delta(m).subscription][parse_delta(m).sequence]
                           [parse_delta(m).side]
                           [YesScale(parse_delta(m).price, parse_delta(m).side)] <= MaxQuantity
             PROVE  DeltaVerdict(book, parse_delta(m)) = Accepted
  BY DEF NextDeltaFits
<1> DEFINE delta == parse_delta(m)
           before == history[m.subscription][m.sequence - 1]
           after == history[m.subscription][m.sequence]
<1>1. /\ delta.market_ticker = m.market_ticker
      /\ delta.subscription = m.subscription
      /\ delta.sequence = m.sequence
      /\ delta.side = m.side
      /\ delta.price = yes_price_from_book_entry(m.price, m.side)
      /\ delta.delta = m.delta
  BY DEF parse_delta
<1>2. /\ delta.subscription = book.subscription
      /\ delta.sequence = book.last_sequence + 1
      /\ validate_price(delta.price) = Accepted
      /\ after[m.side][YesScale(delta.price, m.side)] <= MaxQuantity
  BY <1>1
<1> HIDE DEF delta
<1>3. m.market_ticker = Ticker /\ Tells(m, before, after)
  BY DEF IInv, Truthful
<1>4. PICK q \in VenuePrices : Moves(m, q, before, after)
  BY <1>1, <1>2, DeltaInLine
<1> HIDE DEF before, after
<1>5. PICK r \in VenuePrices :
         /\ m.side \in Side
         /\ m.price = WirePrice(r, m.side)
         /\ m.delta \in Int
         /\ after = [before EXCEPT ![m.side][r] = before[m.side][r] + m.delta]
  BY <1>3 DEF Tells
<1>6. \A p \in VenuePrices : p \in Int
  BY ConstantsAssumption
<1>7. r = q /\ YesScale(delta.price, m.side) = q
  <2>1. YesScale(q, m.side) = YesScale(r, m.side) /\ delta.price = YesScale(q, m.side)
    BY <1>1, <1>4, <1>5, <1>6, ParsedPrice DEF Moves
  <2> QED BY <1>5, <1>6, <2>1, ParsedPrice
<1>8. /\ before \in Market
      /\ before[m.side][q] + m.delta \in Nat
      /\ Resting(book.levels[m.side], delta.price) = before[m.side][q]
  BY <1>1, <1>4 DEF Moves
<1>9. before[m.side][q] \in Nat
  BY <1>5, <1>8, ConstantsAssumption DEF Market
<1>10. before[m.side][q] + m.delta <= MaxQuantity
  <2>1. after[m.side][q] = before[m.side][q] + m.delta
    BY <1>5, <1>7, <1>8 DEF Market
  <2> QED BY <1>2, <1>7, <2>1
<1>11. apply_delta(Resting(book.levels[delta.side], delta.price), delta.delta) = Accepted
  BY <1>1, <1>5, <1>8, <1>9, <1>10, ConstantsAssumption DEF apply_delta
<1>12. book.last_sequence \in Int
  BY AwaitingIsNotValid DEF IInv, Books, ValidBooks
<1> QED BY <1>1, <1>2, <1>3, <1>11, <1>12 DEF DeltaVerdict, delta

\* The message that follows the last one applied, when it is legal and leaves a
\* quantity that can be stored, is never refused.
THEOREM RecoveryIsNotForced == Spec => []NextDeltaFits
BY NextFits, Inductive, PTL

-----------------------------------------------------------------------------
(***************************************************************************)
(* The quotes.                                                             *)
(***************************************************************************)

\* One dollar less what is highest is lowest.
LEMMA HighestIsLowest ==
  ASSUME NEW prices \in SUBSET Int, prices # {},
         NEW offers, offers = {PriceMax - q : q \in prices}, offers \subseteq 0..PriceMax
  PROVE  /\ Highest(prices) \in prices
         /\ Lowest(offers) = PriceMax - Highest(prices)
<1>0. PriceMax \in Nat
  BY ConstantsAssumption
<1>1. PICK least \in offers : \A y \in offers : least <= y
  <2>1. offers \subseteq Nat
    OBVIOUS
  <2>2. offers # {}
    <3>1. PICK q : q \in prices
      OBVIOUS
    <3>2. PriceMax - q \in offers
      BY <3>1
    <3> QED BY <3>2
  <2> QED BY <2>1, <2>2, LeastExists
<1>2. /\ PriceMax - least \in prices
      /\ \A q \in prices : q <= PriceMax - least
  <2>1. PICK q \in prices : least = PriceMax - q
    BY <1>1
  <2>2. PriceMax - least = q
    BY <1>0, <2>1
  <2>3. \A r \in prices : PriceMax - r \in offers /\ r \in Int
    OBVIOUS
  <2>4. \A r \in prices : least <= PriceMax - r
    BY <1>1, <2>3
  <2> QED BY <1>0, <2>1, <2>2, <2>3, <2>4
<1>3. Highest(prices) = PriceMax - least
  <2> DEFINE high == PriceMax - least
  <2>1. high \in prices /\ (\A q \in prices : q <= high) /\ high \in Int
    BY <1>0, <1>2
  <2>2. \A p \in prices : (\A q \in prices : q <= p) => p = high
    <3> SUFFICES ASSUME NEW p \in prices, \A q \in prices : q <= p
                 PROVE  p = high
      OBVIOUS
    <3>1. high <= p /\ p <= high /\ p \in Int
      BY <2>1
    <3> HIDE DEF high
    <3> QED BY <2>1, <3>1
  <2> HIDE DEF high
  <2> QED BY <2>1, <2>2 DEF Highest, high
<1>4. Lowest(offers) = least
  BY <1>0, <1>1 DEF Lowest
<1> QED BY <1>0, <1>1, <1>2, <1>3, <1>4

LEMMA QuotesFollow == IInv => QuotesAreTheVenues
<1> SUFFICES ASSUME IInv, is_valid(book)
             PROVE  LET venue == history[book.subscription][book.last_sequence]
                        no    == HighestBid(venue, "Ask")
                    IN  /\ best_bid(book) = HighestBid(venue, "Bid")
                        /\ best_ask(book) = (IF no = None THEN None ELSE PriceMax - no)
  BY DEF QuotesAreTheVenues
<1> DEFINE venue == history[book.subscription][book.last_sequence]
           quoted(side) == {p \in VenuePrices : venue[side][p] > 0}
<1>1. /\ book.levels = Mirror(venue)
      /\ book.levels \in [Side -> Levels]
  BY AwaitingIsNotValid DEF IInv, InSync, Books, ValidBooks
<1> HIDE DEF venue
<1>2. \A side \in Side : DOMAIN book.levels[side] = {YesScale(q, side) : q \in quoted(side)}
  BY <1>1 DEF Mirror, MirrorSide, OnYesScale
<1>3. \A side \in Side : DOMAIN book.levels[side] \subseteq 0..PriceMax
  <2> SUFFICES ASSUME NEW side \in Side
               PROVE  DOMAIN book.levels[side] \subseteq 0..PriceMax
    OBVIOUS
  <2>1. PICK prices \in SUBSET LegalPrices : book.levels[side] \in [prices -> 1..MaxQuantity]
    BY <1>1 DEF Levels
  <2> QED BY <2>1 DEF LegalPrices
<1>4. \A p \in VenuePrices : p \in Int
  BY ConstantsAssumption
<1>5. best_bid(book) = HighestBid(venue, "Bid")
  <2>1. DOMAIN book.levels["Bid"] = quoted("Bid")
    BY <1>2 DEF YesScale, Side
  <2>2. best_bid(book) = IF quoted("Bid") # {} THEN Highest(quoted("Bid")) ELSE None
    BY <2>1 DEF best_bid, HasQuote
  <2>3. HighestBid(venue, "Bid") = IF quoted("Bid") = {} THEN None ELSE Highest(quoted("Bid"))
    BY DEF HighestBid, Highest
  <2> QED BY <2>2, <2>3
<1> DEFINE bids == quoted("Ask")
           offers == DOMAIN book.levels["Ask"]
<1>6. /\ offers = {PriceMax - q : q \in bids}
      /\ offers \subseteq 0..PriceMax
      /\ bids \in SUBSET Int
  BY <1>2, <1>3, <1>4 DEF YesScale, Side
<1>7. HighestBid(venue, "Ask") = IF bids = {} THEN None ELSE Highest(bids)
  BY DEF HighestBid, Highest
<1>8. best_ask(book) = IF offers # {} THEN Lowest(offers) ELSE None
  BY DEF best_ask, HasQuote
<1> HIDE DEF bids, offers
<1>9. best_ask(book) = (IF HighestBid(venue, "Ask") = None THEN None
                        ELSE PriceMax - HighestBid(venue, "Ask"))
  <2>1. CASE bids = {}
    BY <1>6, <1>7, <1>8, <2>1
  <2>2. CASE bids # {}
    <3>1. Highest(bids) \in bids /\ Lowest(offers) = PriceMax - Highest(bids)
      BY <1>6, <2>2, HighestIsLowest
    <3>2. PriceMax - Highest(bids) \in 0..PriceMax /\ Highest(bids) \in Int
      BY <1>6, <3>1
    <3>3. Highest(bids) \in Nat /\ None \notin Nat
      BY <3>2, ConstantsAssumption
    <3> QED BY <1>6, <1>7, <1>8, <2>2, <3>1, <3>3
  <2> QED BY <2>1, <2>2
<1> QED BY <1>5, <1>9 DEF venue

\* What a valid book quotes is what the venue quoted: its highest YES bid, and
\* as offer one dollar less its highest NO bid.
THEOREM QuotesAreRight == Spec => []QuotesAreTheVenues
BY QuotesFollow, Inductive, PTL
=============================================================================
