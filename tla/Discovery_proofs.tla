--------------------------- MODULE Discovery_proofs ---------------------------
(***************************************************************************)
(* Theorems about Discovery, for every listing, page size and limit, for   *)
(* every market a venue may describe and every choice of a study.          *)
(***************************************************************************)
EXTENDS Discovery, FiniteSetTheorems, Recursion

-----------------------------------------------------------------------------
(***************************************************************************)
(* A finite set of markets has an order.                                   *)
(***************************************************************************)
Orders(listing, n, markets) ==
  /\ listing \in [1..n -> markets]
  /\ ToSet(listing) = markets
  /\ \A i, j \in 1..n : i < j => listing[i] < listing[j]

\* Behind the least of the markets come the others, in their order.
LEMMA LeastFirst ==
  ASSUME NEW markets \in SUBSET Nat, NEW n \in Nat,
         NEW least \in markets, \A m \in markets : least <= m,
         NEW rest, Orders(rest, n, markets \ {least})
  PROVE  \E listing : Orders(listing, n + 1, markets)
<1> DEFINE listing == [i \in 1 .. n + 1 |-> IF i = 1 THEN least ELSE rest[i - 1]]
<1>1. \A i \in 1 .. n + 1 : i # 1 => listing[i] = rest[i - 1] /\ i - 1 \in 1..n
  OBVIOUS
<1>2. \A i \in 1..n : rest[i] \in markets \ {least} /\ listing[i + 1] = rest[i]
  BY DEF Orders
<1>3. listing[1] = least
  OBVIOUS
<1> HIDE DEF listing
<1>4. listing \in [1 .. n + 1 -> markets]
  <2>1. listing = [i \in 1 .. n + 1 |-> IF i = 1 THEN least ELSE rest[i - 1]]
    BY DEF listing
  <2>2. \A i \in 1 .. n + 1 : (IF i = 1 THEN least ELSE rest[i - 1]) \in markets
    BY <1>1, <1>2
  <2> QED BY <2>1, <2>2
<1>5. ToSet(listing) = markets
  <2>1. \A i \in 1 .. n + 1 : listing[i] \in markets
    BY <1>4
  <2>2. \A m \in markets : \E i \in 1 .. n + 1 : listing[i] = m
    <3> SUFFICES ASSUME NEW m \in markets \ {least}
                 PROVE  \E i \in 1 .. n + 1 : listing[i] = m
      BY <1>3
    <3>1. PICK i \in 1..n : rest[i] = m
      BY DEF Orders, ToSet
    <3> QED BY <3>1, <1>2
  <2>3. DOMAIN listing = 1 .. n + 1
    BY <1>4
  <2> QED BY <2>1, <2>2, <2>3 DEF ToSet
<1>6. ASSUME NEW i \in 1 .. n + 1, NEW j \in 1 .. n + 1, i < j
      PROVE  listing[i] < listing[j]
  <2>1. j # 1 /\ j - 1 \in 1..n /\ listing[j] = rest[j - 1]
    BY <1>1, <1>6
  <2>2. listing[j] \in markets \ {least} /\ listing[j] \in Nat
    BY <2>1, <1>2
  <2>3. CASE i = 1
    <3>1. least <= listing[j] /\ least # listing[j] /\ least \in Nat
      BY <2>2
    <3> QED BY <3>1, <2>2, <2>3, <1>3
  <2>4. CASE i # 1
    BY <2>1, <2>4, <1>1, <1>6 DEF Orders
  <2> QED BY <2>3, <2>4
<1> QED BY <1>4, <1>5, <1>6 DEF Orders

LEMMA OrderExists ==
  ASSUME NEW markets \in SUBSET Nat, IsFiniteSet(markets)
  PROVE  /\ Cardinality(markets) \in Nat
         /\ \E listing : Orders(listing, Cardinality(markets), markets)
<1> DEFINE Ordered(m) == \E listing : Orders(listing, Cardinality(m), m)
           S == {n \in Nat : \A m \in SUBSET Nat :
                               IsFiniteSet(m) /\ Cardinality(m) = n => Ordered(m)}
<1>1. 0 \in S
  <2> SUFFICES ASSUME NEW m \in SUBSET Nat, IsFiniteSet(m), Cardinality(m) = 0
               PROVE  Ordered(m)
    OBVIOUS
  <2>1. m = {}
    BY FS_EmptySet
  <2>2. Orders([i \in 1..0 |-> 0], 0, m)
    BY <2>1 DEF Orders, ToSet
  <2> QED BY <2>2
<1>2. ASSUME NEW n \in Nat, n \in S
      PROVE  n + 1 \in S
  <2> SUFFICES ASSUME NEW m \in SUBSET Nat, IsFiniteSet(m), Cardinality(m) = n + 1
               PROVE  Ordered(m)
    OBVIOUS
  <2>1. m # {}
    BY FS_EmptySet
  <2>2. PICK least \in m : \A x \in m : least <= x
    BY <2>1, LeastExists
  <2>3. IsFiniteSet(m \ {least}) /\ Cardinality(m \ {least}) = n
    <3>1. IsFiniteSet(m \ {least}) /\ Cardinality(m \ {least}) = Cardinality(m) - 1
      BY FS_RemoveElement
    <3> QED BY <3>1
  <2>4. PICK rest : Orders(rest, n, m \ {least})
    BY <1>2, <2>3
  <2>5. \E listing : Orders(listing, n + 1, m)
    BY <2>2, <2>4, LeastFirst
  <2> QED BY <2>5
<1> HIDE DEF S
<1>3. Nat \subseteq S
  BY <1>1, <1>2, NatsByInduction
<1>4. Cardinality(markets) \in Nat
  BY FS_CardinalityType
<1>5. Ordered(markets)
  BY <1>3, <1>4 DEF S
<1> QED BY <1>4, <1>5

LEMMA InOrderOrders ==
  ASSUME NEW markets \in SUBSET Nat, IsFiniteSet(markets)
  PROVE  /\ Cardinality(markets) \in Nat
         /\ Orders(InOrder(markets), Cardinality(markets), markets)
<1> DEFINE Is(listing) == /\ ToSet(listing) = markets
                          /\ \A i, j \in DOMAIN listing : i < j => listing[i] < listing[j]
           All == [1 .. Cardinality(markets) -> markets]
<1>1. \E listing \in All : Is(listing)
  BY OrderExists DEF Orders
<1>2. InOrder(markets) = CHOOSE listing \in All : Is(listing)
  BY DEF InOrder
<1>3. InOrder(markets) \in All /\ Is(InOrder(markets))
  <2> HIDE DEF All, Is
  <2> QED BY <1>1, <1>2
<1> QED BY <1>3, OrderExists DEF Orders

-----------------------------------------------------------------------------
(***************************************************************************)
(* What can be read of a venue.                                            *)
(***************************************************************************)
Readings(catalog) ==
  {read_market(catalog[t]) : t \in {u \in Tickers : catalog[u] # Unreadable}}

LEMMA MarketRead ==
  ASSUME NEW catalog \in Catalogs, NEW t \in Tickers, catalog[t] # Unreadable
  PROVE  /\ read_market(catalog[t]) \in ReadMarkets
         /\ read_market(catalog[t]).ticker = t
         /\ read_market(catalog[t]) \in Readings(catalog)
<1> DEFINE object == catalog[t]
           status == market_status_from_string(object.status)
<1>1. object \in MarketObjects({t}, STRING)
  BY DiscoveryAssumption
<1>2. read_market(object) = [object EXCEPT !.status = status]
  BY DEF read_market
<1>3. status \in KnownStatuses \cup {"Unknown"}
  BY DEF market_status_from_string
<1>4. read_market(catalog[t]) \in Readings(catalog)
  BY DEF Readings
<1> HIDE DEF object, status
<1>5. /\ read_market(object) \in ReadMarkets
      /\ read_market(object).ticker = t
  BY <1>1, <1>2, <1>3 DEF MarketObjects, ReadMarkets
<1> QED BY <1>4, <1>5 DEF object

LEMMA ReadingsAreMarkets ==
  ASSUME NEW catalog \in Catalogs
  PROVE  Readings(catalog) \subseteq ReadMarkets
BY MarketRead DEF Readings

-----------------------------------------------------------------------------
(***************************************************************************)
(* The pages of an honest venue.                                           *)
(***************************************************************************)

\* A page shows all that is listed behind one cursor and up to the next, in order.
Shows(page, listed, cursor) ==
  /\ page.tickers \in Seq(listed)
  /\ \A i \in DOMAIN page.tickers : page.tickers[i] > cursor
  /\ \A i, j \in DOMAIN page.tickers : i < j => page.tickers[i] < page.tickers[j]
  /\ page.cursor \in Tickers \cup {NoCursor}
  /\ page.cursor = NoCursor =>
       \A t \in listed : t > cursor => \E i \in DOMAIN page.tickers : page.tickers[i] = t
  /\ page.cursor # NoCursor =>
       /\ page.cursor > cursor
       /\ \A i \in DOMAIN page.tickers : page.tickers[i] <= page.cursor
       /\ \A t \in listed :
            cursor < t /\ t <= page.cursor => \E i \in DOMAIN page.tickers : page.tickers[i] = t

LEMMA HonestPageShows ==
  ASSUME venue.listed \in SUBSET Tickers, NEW cursor \in Tickers \cup {NoCursor},
         NEW page \in HonestPages(cursor)
  PROVE  Shows(page, venue.listed, cursor)
<1> DEFINE behind == After(cursor)
           ahead == InOrder(behind)
           n == Cardinality(behind)
           k == IF Len(ahead) < limit THEN Len(ahead) ELSE limit
           shown == SubSeq(ahead, 1, k)
<1>1. Tickers \subseteq Nat \ {0} /\ cursor \in Nat
  BY DiscoveryAssumption DEF NoCursor
<1>2. behind \subseteq venue.listed /\ behind \in SUBSET Nat
      /\ \A t \in venue.listed : t \in behind <=> t > cursor
  BY <1>1 DEF After
<1>3. IsFiniteSet(behind)
  BY <1>2, FS_Subset, DiscoveryAssumption
<1>4. n \in Nat /\ Orders(ahead, n, behind)
  BY <1>2, <1>3, InOrderOrders
<1>5. /\ \/ page.tickers = shown /\ shown # <<>> /\ page.cursor = Last(shown)
         \/ page.tickers = shown /\ page.cursor = NoCursor /\ Len(ahead) <= limit
  <2>1. page \in (IF shown = <<>> THEN {} ELSE {[tickers |-> shown, cursor |-> Last(shown)]})
        \/ /\ page \in {[tickers |-> shown, cursor |-> NoCursor]}
           /\ ~(Len(ahead) > limit)
    BY DEF HonestPages
  <2>2. Len(ahead) \in Nat /\ limit \in Nat
    BY <1>4, DiscoveryAssumption DEF Orders
  <2> HIDE DEF shown, ahead
  <2> QED BY <2>1, <2>2
<1> HIDE DEF behind, ahead, n
<1>6. ahead \in Seq(behind) /\ Len(ahead) = n
  BY <1>4 DEF Orders
<1>7. k \in 0..n /\ (Len(ahead) <= limit => k = n)
  BY <1>4, <1>6, DiscoveryAssumption
<1> HIDE DEF k
<1>8. /\ shown \in Seq(behind)
      /\ Len(shown) = k
      /\ \A i \in 1..k : shown[i] = ahead[i]
  BY <1>6, <1>7
<1> HIDE DEF shown
<1>9. \A i \in 1..k : shown[i] \in behind /\ shown[i] \in Nat /\ shown[i] > cursor
  <2>1. \A i \in 1..k : shown[i] \in behind
    BY <1>8
  <2>2. \A t \in behind : t \in venue.listed /\ t \in Nat
    BY <1>2
  <2> QED BY <2>1, <2>2, <1>2
<1>10. \A i, j \in 1..k : i < j => shown[i] < shown[j]
  BY <1>4, <1>7, <1>8 DEF Orders
<1>11. \A t \in behind : \E i \in 1..n : ahead[i] = t
  BY <1>4 DEF Orders, ToSet
<1>12. DOMAIN shown = 1..k /\ shown \in Seq(venue.listed)
  BY <1>2, <1>8
<1>13. CASE page.tickers = shown /\ page.cursor = NoCursor /\ Len(ahead) <= limit
  <2>1. \A t \in venue.listed : t > cursor => \E i \in 1..k : shown[i] = t
    BY <1>2, <1>7, <1>8, <1>11, <1>13
  <2> QED BY <2>1, <1>9, <1>10, <1>12, <1>13 DEF Shows
<1>14. CASE page.tickers = shown /\ shown # <<>> /\ page.cursor = Last(shown)
  <2>1. k \in 1..n /\ page.cursor = shown[k]
    BY <1>7, <1>8, <1>14 DEF Last
  <2>2. page.cursor \in Tickers /\ page.cursor > cursor /\ page.cursor # NoCursor
    BY <2>1, <1>1, <1>2, <1>9 DEF NoCursor
  <2>3. \A i \in 1..k : shown[i] <= page.cursor
    BY <2>1, <1>9, <1>10
  <2>4. ASSUME NEW t \in venue.listed, cursor < t, t <= page.cursor
        PROVE  \E i \in 1..k : shown[i] = t
    <3>1. t \in behind /\ t \in Nat
      BY <2>4, <1>1, <1>2
    <3>2. PICK i \in 1..n : ahead[i] = t
      BY <3>1, <1>11
    <3>3. ~(k < i)
      <4> SUFFICES ASSUME k < i
                   PROVE  FALSE
        OBVIOUS
      <4>1. ahead[k] < ahead[i]
        BY <2>1, <3>2, <1>4 DEF Orders
      <4>2. ahead[k] = page.cursor /\ page.cursor \in Nat
        BY <2>1, <1>8, <1>9
      <4> QED BY <4>1, <4>2, <3>1, <3>2, <2>4
    <3>4. i \in 1..k
      BY <3>3, <2>1
    <3> QED BY <3>2, <3>4, <1>8
  <2> QED BY <2>2, <2>3, <2>4, <1>9, <1>10, <1>12, <1>14 DEF Shows
<1> QED BY <1>5, <1>13, <1>14

-----------------------------------------------------------------------------
(***************************************************************************)
(* The findings of the checks.                                             *)
(***************************************************************************)
LEMMA NothingFound ==
  ASSUME NEW R, NEW s \in Seq(R), NEW t \in Seq(R)
  PROVE  /\ s \o t \in Seq(R)
         /\ s \o t = <<>> <=> s = <<>> /\ t = <<>>
         /\ s # <<>> => Head(s \o t) = Head(s) /\ Head(s) \in R
<1>1. s \o t \in Seq(R) /\ Len(s \o t) = Len(s) + Len(t)
  OBVIOUS
<1>2. Len(s) \in Nat /\ Len(t) \in Nat
  OBVIOUS
<1>3. s = <<>> <=> Len(s) = 0
  OBVIOUS
<1>4. t = <<>> <=> Len(t) = 0
  OBVIOUS
<1>5. s \o t = <<>> <=> Len(s \o t) = 0
  BY <1>1
<1>6. ASSUME s # <<>>
      PROVE  Head(s \o t) = Head(s) /\ Head(s) \in R
  <2>1. 1 \in 1..Len(s) /\ (s \o t)[1] = s[1] /\ s[1] \in R
    BY <1>2, <1>3, <1>6
  <2>2. Head(s) = s[1] /\ Head(s \o t) = (s \o t)[1]
    BY <1>1, <1>2, <1>3, <1>6
  <2> QED BY <2>1, <2>2
<1> QED BY <1>1, <1>2, <1>3, <1>4, <1>5, <1>6

LEMMA WhenIs ==
  ASSUME NEW R, NEW reason \in R, NEW problem \in BOOLEAN
  PROVE  When(problem, reason) \in Seq(R) /\ (When(problem, reason) = <<>> <=> ~problem)
BY DEF When

\* Sequences of findings, one behind the other.
Flat(flat, seqs) ==
  flat = [i \in 1..Len(seqs) |-> IF i = 1 THEN seqs[i] ELSE flat[i - 1] \o seqs[i]]

LEMMA FlatExists ==
  ASSUME NEW seqs, Len(seqs) \in Nat, Len(seqs) # 0
  PROVE  \E flat : Flat(flat, seqs) /\ FlattenSeq(seqs) = flat[Len(seqs)]
<1> DEFINE Joined(before, i) == before \o seqs[i]
           Rule(f, m) == f = [i \in 1..m |-> IF i = 1 THEN seqs[i] ELSE Joined(f[i - 1], i)]
           S == {m \in Nat : \E f : Rule(f, m)}
<1>1. 0 \in S
  <2>1. Rule([i \in 1..0 |-> 0], 0)
    OBVIOUS
  <2> QED BY <2>1
<1>2. ASSUME NEW m \in Nat, m \in S
      PROVE  m + 1 \in S
  <2>1. PICK f : Rule(f, m)
    BY <1>2
  <2> DEFINE g == [i \in 1 .. m + 1 |-> IF i # m + 1 THEN f[i]
                                        ELSE IF i = 1 THEN seqs[i] ELSE Joined(f[m], i)]
  <2>2. \A i \in 1..m : g[i] = f[i]
    OBVIOUS
  <2>3. \A i \in 1 .. m + 1 : g[i] = IF i = 1 THEN seqs[i] ELSE Joined(g[i - 1], i)
    <3> HIDE DEF Joined
    <3>1. g[m + 1] = IF m + 1 = 1 THEN seqs[m + 1] ELSE Joined(g[m], m + 1)
      BY <2>2
    <3>2. \A i \in 1..m : f[i] = IF i = 1 THEN seqs[i] ELSE Joined(f[i - 1], i)
      BY <2>1
    <3> HIDE DEF g
    <3> QED BY <2>2, <3>1, <3>2
  <2>4. g = [i \in 1 .. m + 1 |-> g[i]]
    OBVIOUS
  <2>5. Rule(g, m + 1)
    <3> HIDE DEF g, Joined
    <3> QED BY <2>3, <2>4
  <2> HIDE DEF g, Joined
  <2>6. \E h : Rule(h, m + 1)
    BY <2>5
  <2> QED BY <2>6
<1>3. Nat \subseteq S
  <2> HIDE DEF S
  <2> QED BY <1>1, <1>2, NatsByInduction
<1>4. \E f : Rule(f, Len(seqs))
  BY <1>3
<1> DEFINE flat == CHOOSE f : Rule(f, Len(seqs))
<1>5. Rule(flat, Len(seqs))
  <2> HIDE DEF Rule
  <2> QED BY <1>4
<1>6. FlattenSeq(seqs) = flat[Len(seqs)]
  BY DEF FlattenSeq
<1> HIDE DEF flat
<1> QED BY <1>5, <1>6 DEF Flat

LEMMA FlatFindings ==
  ASSUME NEW R, NEW seqs \in Seq(Seq(R))
  PROVE  /\ FlattenSeq(seqs) \in Seq(R)
         /\ FlattenSeq(seqs) = <<>> <=> \A i \in DOMAIN seqs : seqs[i] = <<>>
<1>1. Len(seqs) \in Nat /\ DOMAIN seqs = 1..Len(seqs)
      /\ \A i \in 1..Len(seqs) : seqs[i] \in Seq(R)
  OBVIOUS
<1>2. CASE Len(seqs) = 0
  <2>1. FlattenSeq(seqs) = seqs
    BY <1>2 DEF FlattenSeq
  <2>2. seqs = <<>>
    BY <1>2
  <2> QED BY <2>1, <2>2
<1>3. CASE Len(seqs) # 0
  <2>1. PICK flat : Flat(flat, seqs) /\ FlattenSeq(seqs) = flat[Len(seqs)]
    BY <1>1, <1>3, FlatExists
  <2>2. \A i \in 1..Len(seqs) : flat[i] = IF i = 1 THEN seqs[i] ELSE flat[i - 1] \o seqs[i]
    BY <2>1 DEF Flat
  <2> DEFINE Good(i) == /\ flat[i] \in Seq(R)
                        /\ flat[i] = <<>> <=> \A j \in 1..i : seqs[j] = <<>>
             S == {i \in Nat : i \in 1..Len(seqs) => Good(i)}
  <2>3. 0 \in S
    OBVIOUS
  <2>4. ASSUME NEW i \in Nat, i \in S
        PROVE  i + 1 \in S
    <3> SUFFICES ASSUME i + 1 \in 1..Len(seqs)
                 PROVE  Good(i + 1)
      <4> HIDE DEF Good
      <4> QED OBVIOUS
    <3>1. seqs[i + 1] \in Seq(R)
      BY <1>1
    <3>2. CASE i = 0
      <4>1. flat[i + 1] = seqs[i + 1]
        BY <2>2, <3>2, SMTT(60)
      <4> QED BY <3>1, <3>2, <4>1
    <3>3. CASE i # 0
      <4>1. i \in 1..Len(seqs) /\ i + 1 # 1 /\ (i + 1) - 1 = i
        BY <3>3, <1>1
      <4>2. flat[i + 1] = flat[i] \o seqs[i + 1]
        BY <2>2, <4>1
      <4>3. Good(i)
        BY <2>4, <4>1
      <4>4. /\ flat[i + 1] \in Seq(R)
            /\ flat[i + 1] = <<>> <=> flat[i] = <<>> /\ seqs[i + 1] = <<>>
        BY <3>1, <4>2, <4>3, NothingFound
      <4>5. \A j \in 1 .. i + 1 : j \in 1..i \/ j = i + 1
        OBVIOUS
      <4>6. \A j \in 1..i : j \in 1 .. i + 1
        OBVIOUS
      <4> QED BY <4>3, <4>4, <4>5, <4>6
    <3> QED BY <3>2, <3>3
  <2> HIDE DEF S
  <2>5. Nat \subseteq S
    BY <2>3, <2>4, NatsByInduction
  <2>6. Good(Len(seqs))
    <3>1. Len(seqs) \in S /\ Len(seqs) \in 1..Len(seqs)
      BY <2>5, <1>1, <1>3
    <3> QED BY <3>1 DEF S
  <2> QED BY <2>1, <2>6, <1>1
<1> QED BY <1>1, <1>2, <1>3

-----------------------------------------------------------------------------
(***************************************************************************)
(* Grids.                                                                  *)
(***************************************************************************)
PriceBands == [start : Int, end : Int, step : Int]

SoundBand(band) ==
  /\ band.step > 0
  /\ band.start < band.end
  /\ band.start \in 0..PriceMax
  /\ band.end \in 0..PriceMax
  /\ (band.end - band.start) % band.step = 0

LEMMA BandFindings ==
  ASSUME NEW band \in PriceBands
  PROVE  /\ BandProblems(band) \in Seq(Structural)
         /\ BandProblems(band) = <<>> <=> SoundBand(band)
<1>1. band.start \in Int /\ band.end \in Int /\ band.step \in Int
  BY DEF PriceBands
<1> DEFINE malformed == band.step <= 0 \/ band.start >= band.end
           outside == {band.start, band.end} \ (0..PriceMax) # {}
           ambiguous == band.step > 0 /\ (band.end - band.start) % band.step # 0
           a == When(malformed, "MalformedPriceGrid")
           b == When(outside, "PriceGridOutOfBounds")
           c == When(ambiguous, "MalformedPriceGrid")
<1>2. "MalformedPriceGrid" \in Structural /\ "PriceGridOutOfBounds" \in Structural
  BY DEF Structural
<1>3. SoundBand(band) <=> ~malformed /\ ~outside /\ ~ambiguous
  BY <1>1 DEF SoundBand
<1>4. BandProblems(band) = (a \o b) \o c
  BY DEF BandProblems
<1>5. malformed \in BOOLEAN /\ outside \in BOOLEAN /\ ambiguous \in BOOLEAN
  OBVIOUS
<1> HIDE DEF malformed, outside, ambiguous
<1>6. /\ a \in Seq(Structural) /\ (a = <<>> <=> ~malformed)
      /\ b \in Seq(Structural) /\ (b = <<>> <=> ~outside)
      /\ c \in Seq(Structural) /\ (c = <<>> <=> ~ambiguous)
  BY <1>2, <1>5, WhenIs
<1> HIDE DEF a, b, c
<1>7. a \o b \in Seq(Structural) /\ (a \o b = <<>> <=> a = <<>> /\ b = <<>>)
  BY <1>6, NothingFound
<1>8. (a \o b) \o c \in Seq(Structural) /\ ((a \o b) \o c = <<>> <=> a \o b = <<>> /\ c = <<>>)
  BY <1>6, <1>7, NothingFound
<1> QED BY <1>3, <1>4, <1>6, <1>7, <1>8

\* The book with this band for a grid accepts both of its ends.
LEMMA BandIsTheBooks ==
  ASSUME NEW band \in PriceBands
  PROVE  SoundBand(band) <=>
           /\ band.start # band.end
           /\ Book(<<band>>)!validate_price(band.start) = "Accepted"
           /\ Book(<<band>>)!validate_price(band.end) = "Accepted"
<1>1. band.start \in Int /\ band.end \in Int /\ band.step \in Int
  BY DEF PriceBands
<1>2. ToSet(<<band>>) = {band}
  BY DEF ToSet
<1>3. \A price : Book(<<band>>)!validate_price(price) = "Accepted" <=>
                   /\ price \in 0..PriceMax
                   /\ band.step > 0
                   /\ price \in band.start .. band.end
                   /\ (price - band.start) % band.step = 0
  BY <1>2 DEF Book!validate_price, Book!is_valid_yes_price, Book!is_on_price_grid,
              Book!OnBand, Book!Accepted
<1>4. band.step > 0 => (band.start - band.start) % band.step = 0
  BY <1>1
<1>5. band.start \in band.start .. band.end /\ band.start # band.end => band.start < band.end
  BY <1>1
<1>6. band.start < band.end => /\ band.start # band.end
                               /\ band.start \in band.start .. band.end
                               /\ band.end \in band.start .. band.end
  BY <1>1
<1> QED BY <1>3, <1>4, <1>5, <1>6 DEF SoundBand

\* A set of which any two members are one has at most one.
LEMMA AtMostOne ==
  ASSUME NEW S, IsFiniteSet(S)
  PROVE  Cardinality(S) <= 1 <=> \A x, y \in S : x = y
<1>1. Cardinality(S) \in Nat
  BY FS_CardinalityType
<1>2. Cardinality(S) = 0 <=> S = {}
  BY FS_EmptySet
<1>3. Cardinality(S) = 1 <=> \E x : S = {x}
  BY FS_Singleton
<1>4. ASSUME Cardinality(S) <= 1
      PROVE  \A x, y \in S : x = y
  <2>1. Cardinality(S) = 0 \/ Cardinality(S) = 1
    BY <1>1, <1>4
  <2>2. S = {} \/ \E x : S = {x}
    BY <2>1, <1>2, <1>3
  <2> QED BY <2>2
<1>5. ASSUME \A x, y \in S : x = y
      PROVE  Cardinality(S) <= 1
  <2>1. S = {} \/ \E x : S = {x}
    BY <1>5
  <2>2. Cardinality(S) = 0 \/ Cardinality(S) = 1
    BY <2>1, <1>2, <1>3
  <2> QED BY <2>2
<1> QED BY <1>4, <1>5

\* Bands that lie between zero and one dollar overlap where a price is on two of them.
LEMMA OverlapIsAPrice ==
  ASSUME NEW price_ranges \in Seq(PriceBands),
         \A i \in DOMAIN price_ranges : SoundBand(price_ranges[i])
  PROVE  Overlaps(price_ranges) <=>
           \E price \in 0..PriceMax :
              ~(Cardinality({i \in DOMAIN price_ranges :
                               price \in price_ranges[i].start .. price_ranges[i].end}) <= 1)
<1> DEFINE on(price) == {i \in DOMAIN price_ranges :
                           price \in price_ranges[i].start .. price_ranges[i].end}
<1>1. \A i \in DOMAIN price_ranges :
         price_ranges[i] \in PriceBands /\ i \in 1..Len(price_ranges)
  OBVIOUS
<1>2. \A i \in DOMAIN price_ranges :
         /\ price_ranges[i].start \in 0..PriceMax
         /\ price_ranges[i].end \in 0..PriceMax
         /\ price_ranges[i].start < price_ranges[i].end
  BY DEF SoundBand
<1>3. PriceMax \in Nat
  BY CriteriaAssumption
<1>4. ASSUME NEW price \in 0..PriceMax
      PROVE  Cardinality(on(price)) <= 1 <=> \A i, j \in on(price) : i = j
  <2>1. IsFiniteSet(1..Len(price_ranges))
    <3>1. 1 \in Int /\ Len(price_ranges) \in Int
      OBVIOUS
    <3> QED BY <3>1, FS_Interval
  <2>2. on(price) \in SUBSET (1..Len(price_ranges))
    BY <1>1
  <2>3. IsFiniteSet(on(price))
    BY <2>1, <2>2, FS_Subset
  <2> HIDE DEF on
  <2> QED BY <2>3, AtMostOne
<1>5. ASSUME Overlaps(price_ranges)
      PROVE  \E price \in 0..PriceMax : ~(Cardinality(on(price)) <= 1)
  <2>1. PICK i \in DOMAIN price_ranges, j \in DOMAIN price_ranges :
               i < j /\ ~Disjoint(price_ranges[i], price_ranges[j])
    BY <1>5 DEF Overlaps
  <2> DEFINE a == price_ranges[i]
             b == price_ranges[j]
  <2>2. ~(a.end < b.start) /\ ~(b.end < a.start)
    BY <2>1 DEF Disjoint
  <2>3. /\ a.start \in 0..PriceMax /\ a.end \in 0..PriceMax /\ a.start < a.end
        /\ b.start \in 0..PriceMax /\ b.end \in 0..PriceMax /\ b.start < b.end
    BY <1>2
  <2> HIDE DEF a, b
  <2>4. \E price \in 0..PriceMax : price \in a.start .. a.end /\ price \in b.start .. b.end
    <3>1. CASE a.start <= b.start
      <4>1. b.start \in a.start .. a.end /\ b.start \in b.start .. b.end
        BY <2>2, <2>3, <3>1, <1>3
      <4> QED BY <4>1, <2>3
    <3>2. CASE ~(a.start <= b.start)
      <4>1. a.start \in a.start .. a.end /\ a.start \in b.start .. b.end
        BY <2>2, <2>3, <3>2, <1>3
      <4> QED BY <4>1, <2>3
    <3> QED BY <3>1, <3>2
  <2>5. PICK price \in 0..PriceMax : price \in a.start .. a.end /\ price \in b.start .. b.end
    BY <2>4
  <2>6. i \in on(price) /\ j \in on(price)
    BY <2>5 DEF a, b
  <2>7. i # j
    <3>1. i \in Int /\ j \in Int
      BY <1>1
    <3> QED BY <3>1, <2>1
  <2> HIDE DEF on
  <2> QED BY <2>6, <2>7, <1>4
<1>6. ASSUME NEW price \in 0..PriceMax, ~(Cardinality(on(price)) <= 1)
      PROVE  Overlaps(price_ranges)
  <2>1. PICK i \in on(price), j \in on(price) : i # j
    <3> HIDE DEF on
    <3> QED BY <1>4, <1>6
  <2>2. ASSUME NEW l \in on(price), NEW m \in on(price)
        PROVE  ~Disjoint(price_ranges[l], price_ranges[m])
    <3>1. /\ price \in price_ranges[l].start .. price_ranges[l].end
          /\ price \in price_ranges[m].start .. price_ranges[m].end
      OBVIOUS
    <3>2. /\ price_ranges[l].start \in Int /\ price_ranges[l].end \in Int
          /\ price_ranges[m].start \in Int /\ price_ranges[m].end \in Int
      BY <1>2
    <3> QED BY <3>1, <3>2, <1>3 DEF Disjoint
  <2>3. i \in DOMAIN price_ranges /\ j \in DOMAIN price_ranges /\ (i < j \/ j < i)
    BY <2>1, <1>1
  <2> QED BY <2>2, <2>3 DEF Overlaps
<1> QED BY <1>5, <1>6

LEMMA GridFindings ==
  ASSUME NEW price_ranges \in Seq(PriceBands)
  PROVE  /\ validate_price_grid(price_ranges) \in Seq(Structural)
         /\ validate_price_grid(price_ranges) = <<>> <=> SoundGrid(price_ranges)
<1> DEFINE bands == [i \in DOMAIN price_ranges |-> BandProblems(price_ranges[i])]
           a == When(price_ranges = <<>>, "NoPriceGrid")
           b == FlattenSeq(bands)
           c == When(Overlaps(price_ranges), "OverlappingPriceBands")
           sound == \A i \in DOMAIN price_ranges : SoundBand(price_ranges[i])
<1>1. "NoPriceGrid" \in Structural /\ "OverlappingPriceBands" \in Structural
  BY DEF Structural
<1>2. DOMAIN price_ranges = 1..Len(price_ranges) /\ Len(price_ranges) \in Nat
      /\ \A i \in DOMAIN price_ranges : price_ranges[i] \in PriceBands
  OBVIOUS
<1>3. \A i \in DOMAIN price_ranges : /\ BandProblems(price_ranges[i]) \in Seq(Structural)
                                     /\ BandProblems(price_ranges[i]) = <<>>
                                          <=> SoundBand(price_ranges[i])
  BY <1>2, BandFindings
<1>4. /\ bands \in Seq(Seq(Structural))
      /\ DOMAIN bands = DOMAIN price_ranges
      /\ \A i \in DOMAIN price_ranges : bands[i] = BandProblems(price_ranges[i])
  BY <1>2, <1>3
<1>5. validate_price_grid(price_ranges) = (a \o b) \o c
  BY DEF validate_price_grid
<1>6. a \in Seq(Structural) /\ (a = <<>> <=> price_ranges # <<>>)
  BY <1>1, WhenIs
<1>7. c \in Seq(Structural) /\ (c = <<>> <=> ~Overlaps(price_ranges))
  <2>1. Overlaps(price_ranges) \in BOOLEAN
    BY DEF Overlaps
  <2> QED BY <2>1, <1>1, WhenIs
<1> HIDE DEF bands
<1>8. b \in Seq(Structural) /\ (b = <<>> <=> \A i \in DOMAIN bands : bands[i] = <<>>)
  BY <1>4, FlatFindings
<1>9. b = <<>> <=> sound
  BY <1>3, <1>4, <1>8
<1> HIDE DEF a, b, c
<1>10. a \o b \in Seq(Structural) /\ (a \o b = <<>> <=> a = <<>> /\ b = <<>>)
  BY <1>6, <1>8, NothingFound
<1>11. (a \o b) \o c \in Seq(Structural) /\ ((a \o b) \o c = <<>> <=> a \o b = <<>> /\ c = <<>>)
  BY <1>7, <1>10, NothingFound
<1> DEFINE single == \A price \in 0 .. PriceMax :
                        Cardinality({i \in DOMAIN price_ranges :
                           price \in price_ranges[i].start .. price_ranges[i].end}) <= 1
<1>12. SoundGrid(price_ranges) <=> price_ranges # <<>> /\ sound /\ single
  <2>1. \A i \in DOMAIN price_ranges :
           SoundBand(price_ranges[i]) <=>
             /\ price_ranges[i].start # price_ranges[i].end
             /\ Book(<<price_ranges[i]>>)!validate_price(price_ranges[i].start) = "Accepted"
             /\ Book(<<price_ranges[i]>>)!validate_price(price_ranges[i].end) = "Accepted"
    BY <1>2, BandIsTheBooks
  <2>2. ToSet(price_ranges) = {price_ranges[i] : i \in DOMAIN price_ranges}
    BY DEF ToSet
  <2> HIDE DEF single
  <2>3. SoundGrid(price_ranges) <=>
          /\ price_ranges # <<>>
          /\ \A band \in ToSet(price_ranges) :
               /\ band.start # band.end
               /\ Book(<<band>>)!validate_price(band.start) = "Accepted"
               /\ Book(<<band>>)!validate_price(band.end) = "Accepted"
          /\ single
    BY DEF SoundGrid, single
  <2> QED BY <2>1, <2>2, <2>3
<1>13. sound => (single <=> ~Overlaps(price_ranges))
  BY OverlapIsAPrice
<1> HIDE DEF sound, single
<1> QED BY <1>5, <1>6, <1>7, <1>9, <1>10, <1>11, <1>12, <1>13

-----------------------------------------------------------------------------
(***************************************************************************)
(* One market, and the reason that is given for it.                        *)
(***************************************************************************)
Reasons == Structural \cup Selection

LEMMA ReadMarketFields ==
  ASSUME NEW market \in ReadMarkets
  PROVE  /\ market.ticker \in Tickers
         /\ market.status \in KnownStatuses \cup {"Unknown"}
         /\ market.price_ranges \in Seq(PriceBands)
         /\ market.close_time \in Int
         /\ market.open_interest \in Int
BY DEF ReadMarkets, MarketObjects, PriceBands

LEMMA StructuralFindings ==
  ASSUME NEW market \in ReadMarkets
  PROVE  /\ StructuralProblems(market) \in Seq(Structural)
         /\ StructuralProblems(market) = <<>> <=> Representable(market)
<1> DEFINE combo == is_multivariate(market)
           scalar == market.market_type # "binary"
           unknown == market.status = "Unknown"
           a == When(combo, "Multivariate")
           b == When(scalar, "NotBinaryMarket")
           c == When(unknown, "UnknownStatus")
           d == validate_price_grid(market.price_ranges)
<1>1. "Multivariate" \in Structural /\ "NotBinaryMarket" \in Structural
      /\ "UnknownStatus" \in Structural
  BY DEF Structural
<1>2. market.status # "Unknown" <=> market.status \in KnownStatuses
  <2>1. "Unknown" \notin KnownStatuses
    BY DEF KnownStatuses
  <2> QED BY <2>1, ReadMarketFields
<1>3. Representable(market) <=> ~combo /\ ~scalar /\ ~unknown /\ SoundGrid(market.price_ranges)
  BY <1>2 DEF Representable, is_multivariate
<1>4. StructuralProblems(market) = ((a \o b) \o c) \o d
  BY DEF StructuralProblems
<1>5. combo \in BOOLEAN /\ scalar \in BOOLEAN /\ unknown \in BOOLEAN
  BY DEF is_multivariate
<1> HIDE DEF combo, scalar, unknown
<1>6. /\ a \in Seq(Structural) /\ (a = <<>> <=> ~combo)
      /\ b \in Seq(Structural) /\ (b = <<>> <=> ~scalar)
      /\ c \in Seq(Structural) /\ (c = <<>> <=> ~unknown)
  BY <1>1, <1>5, WhenIs
<1>7. d \in Seq(Structural) /\ (d = <<>> <=> SoundGrid(market.price_ranges))
  BY ReadMarketFields, GridFindings
<1> HIDE DEF a, b, c, d
<1>8. a \o b \in Seq(Structural) /\ (a \o b = <<>> <=> a = <<>> /\ b = <<>>)
  BY <1>6, NothingFound
<1>9. (a \o b) \o c \in Seq(Structural) /\ ((a \o b) \o c = <<>> <=> a \o b = <<>> /\ c = <<>>)
  BY <1>6, <1>8, NothingFound
<1>10. /\ ((a \o b) \o c) \o d \in Seq(Structural)
       /\ ((a \o b) \o c) \o d = <<>> <=> (a \o b) \o c = <<>> /\ d = <<>>
  BY <1>7, <1>9, NothingFound
<1> QED BY <1>3, <1>4, <1>6, <1>7, <1>8, <1>9, <1>10

LEMMA SelectionFindings ==
  ASSUME NEW market \in ReadMarkets, NEW as_of \in Int
  PROVE  /\ SelectionProblems(market, as_of) \in Seq(Selection)
         /\ SelectionProblems(market, as_of) = <<>> <=> Wanted(market, as_of)
<1> DEFINE other == required_status # None /\ market.status # required_status
           closed == market.close_time <= as_of
           soon == market.close_time - as_of < minimum_time_to_close
           few == market.open_interest < minimum_open_interest
           a == When(other, "StatusNotRequested")
           b == When(closed, "AlreadyClosed")
           c == When(soon, "ClosesTooSoon")
           d == When(few, "InsufficientOpenInterest")
<1>1. /\ "StatusNotRequested" \in Selection /\ "AlreadyClosed" \in Selection
      /\ "ClosesTooSoon" \in Selection /\ "InsufficientOpenInterest" \in Selection
  BY DEF Selection
<1>2. /\ ~closed <=> market.close_time > as_of
      /\ ~soon <=> market.close_time >= as_of + minimum_time_to_close
      /\ ~few <=> market.open_interest >= minimum_open_interest
  BY ReadMarketFields, CriteriaAssumption
<1>3. ~other <=> required_status \in {None, market.status}
  OBVIOUS
<1>4. SelectionProblems(market, as_of) = ((a \o b) \o c) \o d
  BY DEF SelectionProblems
<1>5. other \in BOOLEAN /\ closed \in BOOLEAN /\ soon \in BOOLEAN /\ few \in BOOLEAN
  OBVIOUS
<1> HIDE DEF other, closed, soon, few
<1>6. Wanted(market, as_of) <=> ~other /\ ~closed /\ ~soon /\ ~few
  BY <1>2, <1>3 DEF Wanted
<1>7. /\ a \in Seq(Selection) /\ (a = <<>> <=> ~other)
      /\ b \in Seq(Selection) /\ (b = <<>> <=> ~closed)
      /\ c \in Seq(Selection) /\ (c = <<>> <=> ~soon)
      /\ d \in Seq(Selection) /\ (d = <<>> <=> ~few)
  BY <1>1, <1>5, WhenIs
<1> HIDE DEF a, b, c, d
<1>8. a \o b \in Seq(Selection) /\ (a \o b = <<>> <=> a = <<>> /\ b = <<>>)
  BY <1>7, NothingFound
<1>9. (a \o b) \o c \in Seq(Selection) /\ ((a \o b) \o c = <<>> <=> a \o b = <<>> /\ c = <<>>)
  BY <1>7, <1>8, NothingFound
<1>10. /\ ((a \o b) \o c) \o d \in Seq(Selection)
       /\ ((a \o b) \o c) \o d = <<>> <=> (a \o b) \o c = <<>> /\ d = <<>>
  BY <1>7, <1>9, NothingFound
<1> QED BY <1>4, <1>6, <1>7, <1>8, <1>9, <1>10

\* A market is eligible by the rule, and what is left out by choice could have been
\* recorded.
LEMMA ReasonOfAMarket ==
  ASSUME NEW market \in ReadMarkets, NEW as_of \in Int
  PROVE  LET reason == check_eligibility(market, as_of)
         IN  /\ reason \in {Eligible} \cup Reasons
             /\ reason = Eligible <=> Representable(market) /\ Wanted(market, as_of)
             /\ reason \in Selection => Representable(market)
<1> DEFINE s == StructuralProblems(market)
           t == SelectionProblems(market, as_of)
           reason == check_eligibility(market, as_of)
<1>1. s \in Seq(Structural) /\ (s = <<>> <=> Representable(market))
  BY StructuralFindings
<1>2. t \in Seq(Selection) /\ (t = <<>> <=> Wanted(market, as_of))
  BY SelectionFindings
<1>3. reason = IF s \o t = <<>> THEN Eligible ELSE Head(s \o t)
  BY DEF check_eligibility, FirstOf
<1>4. Eligible \notin Reasons /\ Structural \cap Selection = {}
  BY DEF Eligible, Reasons, Structural, Selection
<1> HIDE DEF s, t, reason
<1>5. s \in Seq(Reasons) /\ t \in Seq(Reasons)
  BY <1>1, <1>2 DEF Reasons
<1>6. s \o t = <<>> <=> s = <<>> /\ t = <<>>
  BY <1>5, NothingFound
<1>7. CASE s # <<>>
  <2>1. <<>> \in Seq(Structural)
    OBVIOUS
  <2>2. Head(s) \in Structural
    BY <1>1, <1>7, <2>1, NothingFound
  <2>3. reason = Head(s)
    BY <1>3, <1>5, <1>6, <1>7, NothingFound
  <2> QED BY <2>2, <2>3, <1>1, <1>4, <1>7 DEF Reasons, reason
<1>8. CASE s = <<>> /\ t # <<>>
  <2>1. <<>> \in Seq(Selection)
    OBVIOUS
  <2>2. Head(t) \in Selection
    BY <1>2, <1>8, <2>1, NothingFound
  <2>3. s \o t = t
    BY <1>2, <1>8
  <2>4. reason = Head(t)
    BY <1>3, <1>8, <2>3
  <2> QED BY <2>2, <2>4, <1>1, <1>2, <1>4, <1>8 DEF Reasons, reason
<1>9. CASE s = <<>> /\ t = <<>>
  <2>1. reason = Eligible
    BY <1>3, <1>6, <1>9
  <2> QED BY <2>1, <1>1, <1>2, <1>4, <1>9 DEF Reasons, reason
<1> QED BY <1>7, <1>8, <1>9

-----------------------------------------------------------------------------
(***************************************************************************)
(* All markets, one after the other.                                       *)
(***************************************************************************)
SortingOf(sorting, markets, as_of) ==
  sorting = [n \in 0..Len(markets) |->
               IF n = 0 THEN [eligible |-> <<>>, rejected |-> <<>>]
               ELSE Sorted(sorting[n - 1], markets[n], check_eligibility(markets[n], as_of))]

LEMMA SortingExists ==
  ASSUME NEW markets, NEW as_of, Len(markets) \in Nat
  PROVE  \E sorting : /\ SortingOf(sorting, markets, as_of)
                      /\ select_universe(markets, as_of) = sorting[Len(markets)]
<1> DEFINE Nothing == [eligible |-> <<>>, rejected |-> <<>>]
           Step(before, n) == Sorted(before, markets[n], check_eligibility(markets[n], as_of))
           Rule(f, m) == f = [n \in 0..m |-> IF n = 0 THEN Nothing ELSE Step(f[n - 1], n)]
           S == {m \in Nat : \E f : Rule(f, m)}
<1>1. 0 \in S
  <2>1. Rule([n \in 0..0 |-> Nothing], 0)
    OBVIOUS
  <2> QED BY <2>1
<1>2. ASSUME NEW m \in Nat, m \in S
      PROVE  m + 1 \in S
  <2>1. PICK f : Rule(f, m)
    BY <1>2
  <2> DEFINE g == [n \in 0 .. m + 1 |-> IF n = m + 1 THEN Step(f[m], m + 1) ELSE f[n]]
  <2>2. \A n \in 0..m : g[n] = f[n]
    OBVIOUS
  <2>3. \A n \in 0 .. m + 1 : g[n] = IF n = 0 THEN Nothing ELSE Step(g[n - 1], n)
    <3> HIDE DEF Step, Nothing
    <3>1. g[m + 1] = Step(g[m], m + 1)
      BY <2>2
    <3>2. \A n \in 0..m : f[n] = IF n = 0 THEN Nothing ELSE Step(f[n - 1], n)
      BY <2>1
    <3> HIDE DEF g
    <3> QED BY <2>2, <3>1, <3>2
  <2>4. g = [n \in 0 .. m + 1 |-> g[n]]
    OBVIOUS
  <2>5. Rule(g, m + 1)
    <3> HIDE DEF g, Step, Nothing
    <3> QED BY <2>3, <2>4
  <2> HIDE DEF g, Step, Nothing
  <2>6. \E h : Rule(h, m + 1)
    BY <2>5
  <2> QED BY <2>6
<1>3. Nat \subseteq S
  <2> HIDE DEF S
  <2> QED BY <1>1, <1>2, NatsByInduction
<1>4. \E f : Rule(f, Len(markets))
  BY <1>3
<1> DEFINE sorting == CHOOSE f : Rule(f, Len(markets))
<1>5. Rule(sorting, Len(markets))
  <2> HIDE DEF Rule
  <2> QED BY <1>4
<1>6. select_universe(markets, as_of) = sorting[Len(markets)]
  BY DEF select_universe
<1> HIDE DEF sorting
<1> QED BY <1>5, <1>6 DEF SortingOf

\* Of the first n markets, those are eligible that the check says are, and the others
\* are rejected with the reason it gives.
SortsFirst(selection, markets, as_of, n) ==
  /\ selection \in Selections
  /\ \A market : market \in ToSet(selection.eligible) <=>
                   \E i \in 1..n : /\ markets[i] = market
                                   /\ check_eligibility(market, as_of) = Eligible
  /\ \A rejection \in ToSet(selection.rejected) :
        /\ \E i \in 1..n : markets[i] = rejection.market
        /\ rejection.reason = check_eligibility(rejection.market, as_of)
        /\ rejection.reason \in Reasons

LEMMA AppendedTo ==
  ASSUME NEW R, NEW s \in Seq(R), NEW x \in R
  PROVE  Append(s, x) \in Seq(R) /\ ToSet(Append(s, x)) = ToSet(s) \cup {x}
<1>1. Append(s, x) \in Seq(R) /\ Len(Append(s, x)) = Len(s) + 1 /\ Len(s) \in Nat
  OBVIOUS
<1>2. DOMAIN s = 1..Len(s) /\ DOMAIN Append(s, x) = 1 .. Len(s) + 1
  BY <1>1
<1>3. \A i \in 1..Len(s) : Append(s, x)[i] = s[i]
  OBVIOUS
<1>4. Append(s, x)[Len(s) + 1] = x
  OBVIOUS
<1>5. 1 .. Len(s) + 1 = 1..Len(s) \cup {Len(s) + 1}
  BY <1>1
<1>6. \A y : y \in ToSet(Append(s, x)) <=> \E i \in 1 .. Len(s) + 1 : Append(s, x)[i] = y
  BY <1>2 DEF ToSet
<1>7. \A y : y \in ToSet(s) <=> \E i \in 1..Len(s) : s[i] = y
  BY <1>2 DEF ToSet
<1>8. \A y : y \in ToSet(Append(s, x)) <=> y \in ToSet(s) \/ y = x
  BY <1>3, <1>4, <1>5, <1>6, <1>7
<1> QED BY <1>1, <1>8

LEMMA SortedNext ==
  ASSUME NEW markets \in Seq(ReadMarkets), NEW as_of \in Int, NEW n \in Nat,
         n + 1 \in 1..Len(markets),
         NEW selection, SortsFirst(selection, markets, as_of, n)
  PROVE  SortsFirst(Sorted(selection, markets[n + 1],
                           check_eligibility(markets[n + 1], as_of)), markets, as_of, n + 1)
<1> DEFINE market == markets[n + 1]
           reason == check_eligibility(market, as_of)
           rejection == [market |-> market, reason |-> reason]
           next == Sorted(selection, market, reason)
           Rejections == [market : ReadMarkets, reason : Reasons]
<1>1. market \in ReadMarkets
  OBVIOUS
<1>2. reason \in {Eligible} \cup Reasons
  BY <1>1, ReasonOfAMarket
<1>3. selection \in Selections /\ Selections = [eligible : Seq(ReadMarkets), rejected : Seq(Rejections)]
  BY DEF SortsFirst, Selections, Reasons
<1>4. \A i \in 1 .. n + 1 : i \in 1..n \/ i = n + 1
  OBVIOUS
<1>5. \A i \in 1..n : i \in 1 .. n + 1
  OBVIOUS
<1>6. selection.eligible \in Seq(ReadMarkets) /\ selection.rejected \in Seq(Rejections)
  BY <1>3
<1>7. Eligible \notin Reasons
  BY DEF Eligible, Reasons, Structural, Selection
<1> HIDE DEF Rejections
<1>8. CASE reason = Eligible
  <2>1. next = [selection EXCEPT !.eligible = Append(@, market)]
    BY <1>8 DEF Sorted
  <2> DEFINE eligible == Append(selection.eligible, market)
  <2>2. eligible \in Seq(ReadMarkets) /\ ToSet(eligible) = ToSet(selection.eligible) \cup {market}
    BY <1>1, <1>6, AppendedTo
  <2> HIDE DEF eligible, next
  <2>3. next.eligible = eligible /\ next.rejected = selection.rejected /\ next \in Selections
    BY <1>3, <2>1, <2>2 DEF eligible
  <2>4. ASSUME NEW m
        PROVE  m \in ToSet(next.eligible) <=>
                 \E i \in 1 .. n + 1 : markets[i] = m /\ check_eligibility(m, as_of) = Eligible
    <3>1. m \in ToSet(next.eligible) <=> m \in ToSet(selection.eligible) \/ m = market
      BY <2>2, <2>3
    <3>2. m \in ToSet(selection.eligible) <=>
            \E i \in 1..n : markets[i] = m /\ check_eligibility(m, as_of) = Eligible
      BY DEF SortsFirst
    <3> QED BY <3>1, <3>2, <1>4, <1>5, <1>8
  <2>5. \A r \in ToSet(next.rejected) :
           /\ \E i \in 1 .. n + 1 : markets[i] = r.market
           /\ r.reason = check_eligibility(r.market, as_of)
           /\ r.reason \in Reasons
    BY <2>3, <1>5 DEF SortsFirst
  <2> QED BY <2>3, <2>4, <2>5 DEF SortsFirst, next
<1>9. CASE reason # Eligible
  <2>1. next = [selection EXCEPT !.rejected = Append(@, rejection)]
    BY <1>9 DEF Sorted
  <2>2. rejection \in Rejections
    BY <1>1, <1>2, <1>9 DEF Rejections
  <2> DEFINE rejected == Append(selection.rejected, rejection)
  <2>3. rejected \in Seq(Rejections) /\ ToSet(rejected) = ToSet(selection.rejected) \cup {rejection}
    BY <2>2, <1>6, AppendedTo
  <2>4. rejection.market = market /\ rejection.reason = reason /\ reason \in Reasons
    BY <1>2, <1>9
  <2> HIDE DEF rejected, next, rejection
  <2>5. next.rejected = rejected /\ next.eligible = selection.eligible /\ next \in Selections
    BY <1>3, <2>1, <2>3 DEF rejected
  <2>6. ASSUME NEW m
        PROVE  m \in ToSet(next.eligible) <=>
                 \E i \in 1 .. n + 1 : markets[i] = m /\ check_eligibility(m, as_of) = Eligible
    <3>1. m \in ToSet(next.eligible) <=>
            \E i \in 1..n : markets[i] = m /\ check_eligibility(m, as_of) = Eligible
      BY <2>5 DEF SortsFirst
    <3> QED BY <3>1, <1>4, <1>5, <1>9
  <2>7. ASSUME NEW r \in ToSet(next.rejected)
        PROVE  /\ \E i \in 1 .. n + 1 : markets[i] = r.market
               /\ r.reason = check_eligibility(r.market, as_of)
               /\ r.reason \in Reasons
    <3>1. CASE r \in ToSet(selection.rejected)
      BY <3>1, <1>5 DEF SortsFirst
    <3>2. CASE r = rejection
      <4>1. n + 1 \in 1 .. n + 1
        OBVIOUS
      <4> QED BY <3>2, <2>4, <4>1
    <3> QED BY <3>1, <3>2, <2>3, <2>5
  <2> QED BY <2>5, <2>6, <2>7 DEF SortsFirst, next
<1> QED BY <1>8, <1>9

LEMMA SelectionSorts ==
  ASSUME NEW markets \in Seq(ReadMarkets), NEW as_of \in Int
  PROVE  SortsFirst(select_universe(markets, as_of), markets, as_of, Len(markets))
<1>1. Len(markets) \in Nat
  OBVIOUS
<1>2. PICK sorting : /\ SortingOf(sorting, markets, as_of)
                     /\ select_universe(markets, as_of) = sorting[Len(markets)]
  BY <1>1, SortingExists
<1>3. sorting[0] = [eligible |-> <<>>, rejected |-> <<>>]
  BY <1>1, <1>2 DEF SortingOf
<1>4. \A n \in 0 .. Len(markets) - 1 :
         sorting[n + 1] = Sorted(sorting[n], markets[n + 1],
                                 check_eligibility(markets[n + 1], as_of))
  <2>1. \A n \in 0..Len(markets) : n # 0 =>
           sorting[n] = Sorted(sorting[n - 1], markets[n], check_eligibility(markets[n], as_of))
    BY <1>2 DEF SortingOf
  <2> SUFFICES ASSUME NEW n \in 0 .. Len(markets) - 1
               PROVE  sorting[n + 1] = Sorted(sorting[n], markets[n + 1],
                                              check_eligibility(markets[n + 1], as_of))
    OBVIOUS
  <2>2. n + 1 \in 0..Len(markets) /\ n + 1 # 0 /\ (n + 1) - 1 = n
    BY <1>1
  <2> QED BY <2>1, <2>2
<1> DEFINE S == {n \in 0..Len(markets) : SortsFirst(sorting[n], markets, as_of, n)}
<1>5. 0 \in S
  <2> DEFINE nothing == [eligible |-> <<>>, rejected |-> <<>>]
  <2>1. <<>> \in Seq(ReadMarkets) /\ <<>> \in Seq([market : ReadMarkets, reason : Structural \cup Selection])
    OBVIOUS
  <2>2. nothing \in Selections /\ nothing.eligible = <<>> /\ nothing.rejected = <<>>
    BY <2>1 DEF Selections
  <2>3. ToSet(<<>>) = {}
    BY DEF ToSet
  <2> HIDE DEF nothing
  <2>4. SortsFirst(nothing, markets, as_of, 0)
    BY <2>2, <2>3 DEF SortsFirst
  <2> QED BY <2>4, <1>1, <1>3 DEF nothing
<1>6. ASSUME NEW n \in 0 .. Len(markets) - 1, n \in S
      PROVE  n + 1 \in S
  <2>1. n \in Nat /\ n + 1 \in 1..Len(markets) /\ n + 1 \in 0..Len(markets)
    BY <1>1
  <2>2. SortsFirst(sorting[n + 1], markets, as_of, n + 1)
    BY <2>1, <1>4, <1>6, SortedNext
  <2> QED BY <2>1, <2>2
<1> HIDE DEF S
<1>7. 0..Len(markets) \subseteq S
  BY <1>1, <1>5, <1>6, IntervalByInduction
<1>8. Len(markets) \in S
  BY <1>1, <1>7
<1> QED BY <1>2, <1>8 DEF S

-----------------------------------------------------------------------------
(***************************************************************************)
(* The inductive invariant.                                                *)
(***************************************************************************)
Venues ==
  [catalog    : Catalogs,
   honest     : BOOLEAN,
   listed     : SUBSET Tickers,
   throughout : SUBSET Tickers,
   ever       : SUBSET Tickers,
   changes    : 0..MaxChanges]

Scouts(catalog) ==
  [phase       : {"fetching", "fetched", "selected", "failed"},
   markets     : Seq(Readings(catalog)),
   cursor      : Tickers \cup {NoCursor},
   page_number : Nat,
   requests    : Nat,
   error       : {None} \cup QueryErrors]

\* While pages are fetched, each request is a page that was counted.
Counted(s) ==
  /\ s.requests <= max_pages
  /\ s.phase = "fetching" => s.requests = s.page_number /\ s.page_number < max_pages

SoundScout(s, catalog) ==
  /\ s \in Scouts(catalog)
  /\ s.error = None <=> s.phase # "failed"
  /\ Counted(s)

\* What was selected was selected from the markets that were found.
Selected(selected, markets) ==
  \E as_of \in Clock :
     selected = [as_of |-> as_of, selection |-> select_universe(markets, as_of)]

TypeInv ==
  /\ venue \in Venues
  /\ SoundScout(scout, venue.catalog)
  /\ scout.phase # "selected" => universe = None
  /\ scout.phase = "selected" => Selected(universe, scout.markets)

\* A page can be missed only ahead of the cursor, and a market is found but once
\* because it is behind it from then on.
UpTo(s, v) ==
  /\ \A i \in DOMAIN s.markets : s.markets[i].ticker \in v.ever
  /\ \A i, j \in DOMAIN s.markets : i < j => s.markets[i].ticker < s.markets[j].ticker
  /\ s.phase = "fetching" => \A i \in DOMAIN s.markets : s.markets[i].ticker <= s.cursor
  /\ \A t \in v.throughout : \/ s.phase = "fetching" /\ t > s.cursor
                             \/ \E i \in DOMAIN s.markets : s.markets[i].ticker = t

InStep ==
  /\ venue.throughout \subseteq venue.listed
  /\ venue.listed \subseteq venue.ever
  /\ venue.honest /\ scout.phase # "failed" => UpTo(scout, venue)

DInv == TypeInv /\ InStep

-----------------------------------------------------------------------------
(***************************************************************************)
(* The first request, if there is one.                                     *)
(***************************************************************************)
LEMMA NoneIsNoError ==
  ASSUME NEW kind \in {"Rest", "Parse", "CursorNotAdvancing", "PageLimitReached"},
         NEW cause \in {None, "Transport", "RateLimited", "NotFound", "ClientError",
                        "ServerError", "UnexpectedStatus"}
  PROVE  [kind |-> kind, cause |-> cause] \in QueryErrors
         /\ [kind |-> kind, cause |-> cause] # None
<1>1. [kind |-> kind, cause |-> cause] \in QueryErrors
  BY DEF QueryErrors
<1> QED BY <1>1, NoneAssumption

\* A turn of the loop: another request is due, or too many pages were fetched.
LEMMA TurnTurns ==
  ASSUME NEW catalog, NEW s \in Scouts(catalog), s.phase = "fetching", s.error = None
  PROVE  /\ Turn(s) \in Scouts(catalog)
         /\ Turn(s).markets = s.markets
         /\ Turn(s).cursor = s.cursor
         /\ Turn(s).page_number = s.page_number
         /\ Turn(s).requests = s.requests
         /\ \/ Turn(s) = s /\ s.page_number < max_pages
            \/ Turn(s).phase = "failed" /\ Turn(s).error # None
<1> DEFINE error == [kind |-> "PageLimitReached", cause |-> None]
<1>1. error \in QueryErrors /\ error # None
  BY NoneIsNoError
<1>2. CASE s.page_number < max_pages
  BY <1>2 DEF Turn
<1>3. CASE ~(s.page_number < max_pages)
  <2>1. Turn(s) = [s EXCEPT !.phase = "failed", !.error = error]
    BY <1>3 DEF Turn
  <2> HIDE DEF error
  <2> QED BY <2>1, <1>1 DEF Scouts
<1> QED BY <1>2, <1>3

LEMMA DInit == Init => DInv
<1> SUFFICES ASSUME Init
             PROVE  DInv
  OBVIOUS
<1>1. PICK catalog \in Catalogs, honest \in BOOLEAN, listed \in SUBSET Tickers :
        venue = [catalog    |-> catalog,
                 honest     |-> honest,
                 listed     |-> listed,
                 throughout |-> listed,
                 ever       |-> listed,
                 changes    |-> 0]
  BY DEF Init
<1>2. venue \in Venues /\ venue.throughout = listed /\ venue.listed = listed
      /\ venue.ever = listed /\ venue.honest \in BOOLEAN
  BY <1>1, DiscoveryAssumption DEF Venues
<1> DEFINE first == [phase       |-> "fetching",
                     markets     |-> <<>>,
                     cursor      |-> NoCursor,
                     page_number |-> 0,
                     requests    |-> 0,
                     error       |-> None]
<1>3. scout = Turn(first) /\ universe = None
  BY DEF Init
<1>4. /\ first \in Scouts(venue.catalog)
      /\ first.phase = "fetching" /\ first.error = None
      /\ first.markets = <<>> /\ first.cursor = NoCursor
      /\ first.page_number = 0 /\ first.requests = 0
  BY DEF Scouts
<1> HIDE DEF first
<1>5. /\ scout \in Scouts(venue.catalog)
      /\ scout.markets = <<>>
      /\ scout.cursor = NoCursor
      /\ scout.requests = 0
      /\ scout.page_number = 0
      /\ \/ scout.phase = "fetching" /\ scout.error = None /\ scout.page_number < max_pages
         \/ scout.phase = "failed" /\ scout.error # None
  BY <1>3, <1>4, TurnTurns
<1>6. SoundScout(scout, venue.catalog)
  BY <1>5, DiscoveryAssumption DEF SoundScout, Counted
<1>7. TypeInv
  BY <1>2, <1>3, <1>5, <1>6 DEF TypeInv
<1>8. \A t \in listed : t > NoCursor
  BY DiscoveryAssumption DEF NoCursor
<1>9. scout.phase # "failed" => UpTo(scout, venue)
  <2>1. DOMAIN <<>> = {}
    OBVIOUS
  <2> QED BY <2>1, <1>2, <1>5, <1>8 DEF UpTo
<1> QED BY <1>2, <1>7, <1>9 DEF DInv, InStep

-----------------------------------------------------------------------------
(***************************************************************************)
(* Another page.                                                           *)
(***************************************************************************)
LEMMA RestErrorKinds ==
  ASSUME NEW status
  PROVE  RestErrorKind(status) \in {"Transport", "RateLimited", "NotFound", "ClientError",
                                    "ServerError", "UnexpectedStatus"}
BY DEF RestErrorKind

LEMMA FailedFails ==
  ASSUME TypeInv, NEW kind \in {"Rest", "Parse", "CursorNotAdvancing", "PageLimitReached"},
         NEW cause \in {None, "Transport", "RateLimited", "NotFound", "ClientError",
                        "ServerError", "UnexpectedStatus"}
  PROVE  /\ Failed(kind, cause) \in Scouts(venue.catalog)
         /\ Failed(kind, cause).phase = "failed"
         /\ Failed(kind, cause).error # None
         /\ Failed(kind, cause).requests = scout.requests
<1> DEFINE error == [kind |-> kind, cause |-> cause]
<1>1. error \in QueryErrors /\ error # None
  BY NoneIsNoError
<1>2. scout \in Scouts(venue.catalog)
  BY DEF TypeInv, SoundScout
<1>3. Failed(kind, cause) = [scout EXCEPT !.phase = "failed", !.error = error]
  BY DEF Failed
<1> HIDE DEF error
<1> QED BY <1>1, <1>2, <1>3 DEF Scouts

\* A page that can be read.
Readable(page) ==
  /\ page.tickers \in Seq(Tickers)
  /\ page.cursor \in Tickers \cup {NoCursor}
  /\ \A i \in DOMAIN page.tickers : venue.catalog[page.tickers[i]] # Unreadable

\* The markets found, with those of a page.
FoundWith(page) ==
  scout.markets \o [i \in DOMAIN page.tickers |-> read_market(venue.catalog[page.tickers[i]])]

LEMMA Joined ==
  ASSUME NEW R, NEW s \in Seq(R), NEW t \in Seq(R)
  PROVE  /\ s \o t \in Seq(R)
         /\ Len(s \o t) = Len(s) + Len(t)
         /\ \A i \in 1..Len(s) : (s \o t)[i] = s[i]
         /\ \A i \in 1..Len(t) : (s \o t)[Len(s) + i] = t[i]
<1>1. s \o t \in Seq(R) /\ Len(s \o t) = Len(s) + Len(t) /\ Len(s) \in Nat /\ Len(t) \in Nat
  OBVIOUS
<1>2. \A i \in 1..Len(s) : (s \o t)[i] = s[i]
  OBVIOUS
<1>3. ASSUME NEW i \in 1..Len(t)
      PROVE  (s \o t)[Len(s) + i] = t[i]
  <2> DEFINE k == Len(s) + i
  <2>1. k \in 1 .. Len(s) + Len(t) /\ ~(k <= Len(s)) /\ k - Len(s) = i
    BY <1>1
  <2> HIDE DEF k
  <2>2. (s \o t)[k] = t[k - Len(s)]
    BY <1>1, <2>1
  <2> QED BY <2>1, <2>2 DEF k
<1> QED BY <1>1, <1>2, <1>3

LEMMA FoundWithPage ==
  ASSUME TypeInv, NEW page, Readable(page)
  PROVE  /\ FoundWith(page) \in Seq(Readings(venue.catalog))
         /\ Len(FoundWith(page)) = Len(scout.markets) + Len(page.tickers)
         /\ \A i \in 1..Len(scout.markets) : FoundWith(page)[i] = scout.markets[i]
         /\ \A i \in 1..Len(page.tickers) :
               FoundWith(page)[Len(scout.markets) + i].ticker = page.tickers[i]
<1> DEFINE more == [i \in DOMAIN page.tickers |-> read_market(venue.catalog[page.tickers[i]])]
           R == Readings(venue.catalog)
<1>1. venue.catalog \in Catalogs /\ scout.markets \in Seq(R)
  BY DEF TypeInv, Venues, SoundScout, Scouts
<1>2. DOMAIN page.tickers = 1..Len(page.tickers) /\ Len(page.tickers) \in Nat
      /\ \A i \in DOMAIN page.tickers : page.tickers[i] \in Tickers
  BY DEF Readable
<1>3. \A i \in DOMAIN page.tickers :
         /\ read_market(venue.catalog[page.tickers[i]]) \in R
         /\ read_market(venue.catalog[page.tickers[i]]).ticker = page.tickers[i]
  BY <1>1, <1>2, MarketRead DEF Readable
<1>4. /\ more \in Seq(R) /\ Len(more) = Len(page.tickers)
      /\ \A i \in 1..Len(page.tickers) : more[i].ticker = page.tickers[i]
  BY <1>2, <1>3
<1>5. FoundWith(page) = scout.markets \o more
  BY DEF FoundWith
<1> DEFINE known == scout.markets
<1>6. known \in Seq(R)
  BY <1>1
<1> HIDE DEF more, R, known
<1>7. /\ known \o more \in Seq(R)
      /\ Len(known \o more) = Len(known) + Len(more)
      /\ \A i \in 1..Len(known) : (known \o more)[i] = known[i]
      /\ \A i \in 1..Len(more) : (known \o more)[Len(known) + i] = more[i]
  <2>1. more \in Seq(R)
    BY <1>4
  <2> QED BY <1>6, <2>1, Joined
<1> QED BY <1>4, <1>5, <1>7 DEF R, known

\* A page ends the list, or its cursor leads to another, or fails.
LEMMA PageTurns ==
  ASSUME TypeInv, scout.phase = "fetching", NEW page, Readable(page)
  PROVE  LET next == AfterPage(page)
         IN  /\ next \in Scouts(venue.catalog)
             /\ next.requests = scout.requests
             /\ \/ /\ next.phase = "fetched"
                   /\ next.error = None
                   /\ page.cursor = NoCursor
                   /\ next.markets = FoundWith(page)
                \/ /\ next.phase = "fetching"
                   /\ next.error = None
                   /\ page.cursor # NoCursor
                   /\ next.cursor = page.cursor
                   /\ next.page_number = scout.page_number + 1
                   /\ next.page_number < max_pages
                   /\ next.markets = FoundWith(page)
                \/ next.phase = "failed" /\ next.error # None
<1> DEFINE fetched == [scout EXCEPT !.markets = FoundWith(page)]
           done == [fetched EXCEPT !.phase = "fetched"]
           counted == [fetched EXCEPT !.cursor = page.cursor, !.page_number = @ + 1]
           next == AfterPage(page)
<1>1. scout \in Scouts(venue.catalog) /\ scout.error = None
  BY DEF TypeInv, SoundScout
<1>2. FoundWith(page) \in Seq(Readings(venue.catalog)) /\ page.cursor \in Tickers \cup {NoCursor}
  BY FoundWithPage DEF Readable
<1>3. next = IF page.cursor = NoCursor THEN done
             ELSE IF page.cursor = scout.cursor THEN Failed("CursorNotAdvancing", None)
             ELSE Turn(counted)
  BY DEF AfterPage, FoundWith, Followed
<1>4. fetched \in Scouts(venue.catalog) /\ fetched.error = None /\ fetched.phase = "fetching"
      /\ fetched.markets = FoundWith(page) /\ fetched.requests = scout.requests
      /\ fetched.page_number = scout.page_number /\ scout.page_number \in Nat
  BY <1>1, <1>2 DEF Scouts
<1> HIDE DEF fetched
<1>5. CASE page.cursor = NoCursor
  <2>1. done \in Scouts(venue.catalog) /\ done.error = None /\ done.phase = "fetched"
        /\ done.markets = FoundWith(page) /\ done.requests = scout.requests
    BY <1>4 DEF Scouts
  <2> HIDE DEF done, next
  <2> QED BY <1>3, <1>5, <2>1 DEF next
<1>6. CASE page.cursor # NoCursor /\ page.cursor = scout.cursor
  BY <1>3, <1>6, FailedFails
<1>7. CASE page.cursor # NoCursor /\ page.cursor # scout.cursor
  <2>1. /\ counted \in Scouts(venue.catalog)
        /\ counted.error = None /\ counted.phase = "fetching"
        /\ counted.markets = FoundWith(page) /\ counted.requests = scout.requests
        /\ counted.cursor = page.cursor
        /\ counted.page_number = scout.page_number + 1
    <3>1. counted = [fetched EXCEPT !.cursor = page.cursor, !.page_number = scout.page_number + 1]
      BY <1>4
    <3>2. scout.page_number + 1 \in Nat
      BY <1>4
    <3> HIDE DEF counted
    <3> QED BY <1>2, <1>4, <3>1, <3>2 DEF Scouts
  <2>2. next = Turn(counted)
    BY <1>3, <1>7
  <2> HIDE DEF counted, next
  <2>3. /\ next \in Scouts(venue.catalog)
        /\ next.markets = counted.markets
        /\ next.cursor = counted.cursor
        /\ next.page_number = counted.page_number
        /\ next.requests = counted.requests
        /\ \/ next = counted /\ counted.page_number < max_pages
           \/ next.phase = "failed" /\ next.error # None
    BY <2>1, <2>2, TurnTurns
  <2>4. CASE next = counted /\ counted.page_number < max_pages
    BY <1>7, <2>1, <2>3, <2>4 DEF next
  <2>5. CASE next.phase = "failed" /\ next.error # None
    BY <2>1, <2>3, <2>5 DEF next
  <2> QED BY <2>3, <2>4, <2>5
<1> QED BY <1>5, <1>6, <1>7

\* The page an honest venue shows brings the list up to the page's cursor.
LEMMA PageKeepsStep ==
  ASSUME TypeInv, InStep, venue.honest, scout.phase = "fetching",
         NEW page, Readable(page), Shows(page, venue.listed, scout.cursor),
         NEW s, s.markets = FoundWith(page),
         \/ s.phase = "fetched" /\ page.cursor = NoCursor
         \/ s.phase = "fetching" /\ page.cursor # NoCursor /\ s.cursor = page.cursor
  PROVE  UpTo(s, venue)
<1> DEFINE n == Len(scout.markets)
           m == Len(page.tickers)
           at(i) == s.markets[i].ticker
<1>1. scout.markets \in Seq(Readings(venue.catalog)) /\ venue.catalog \in Catalogs
      /\ scout.cursor \in Tickers \cup {NoCursor}
  BY DEF TypeInv, Venues, SoundScout, Scouts
<1>2. n \in Nat /\ DOMAIN scout.markets = 1..n
  BY <1>1
<1>3. m \in Nat /\ DOMAIN page.tickers = 1..m
      /\ \A i \in 1..m : page.tickers[i] \in venue.listed
  BY DEF Shows
<1>4. UpTo(scout, venue) /\ venue.listed \subseteq venue.ever /\ venue.throughout \subseteq venue.listed
  BY DEF InStep
<1>5. Tickers \subseteq Nat /\ scout.cursor \in Nat /\ page.cursor \in Nat
  <2>1. Tickers \subseteq Nat /\ NoCursor \in Nat
    BY DiscoveryAssumption DEF NoCursor
  <2>2. page.cursor \in Tickers \cup {NoCursor}
    BY DEF Shows
  <2> QED BY <2>1, <2>2, <1>1
<1>6. venue.listed \subseteq Tickers
  BY DEF TypeInv, Venues
<1>7. \A i \in 1..n : scout.markets[i] \in Readings(venue.catalog)
  BY <1>1, <1>2
<1>8. \A i \in 1..n : scout.markets[i].ticker \in Nat
  BY <1>1, <1>5, <1>7, ReadingsAreMarkets, ReadMarketFields
<1>9. /\ DOMAIN s.markets = 1 .. n + m
      /\ \A i \in 1..n : at(i) = scout.markets[i].ticker
      /\ \A i \in 1..m : at(n + i) = page.tickers[i]
  <2>1. s.markets \in Seq(Readings(venue.catalog)) /\ Len(s.markets) = n + m
    BY FoundWithPage
  <2>2. DOMAIN s.markets = 1 .. n + m
    BY <2>1
  <2> QED BY <2>2, FoundWithPage, ZenonT(60)
<1> HIDE DEF n, m, at
<1>10. \A i \in 1 .. n + m : i \in 1..n \/ \E k \in 1..m : i = n + k
  <2> SUFFICES ASSUME NEW i \in 1 .. n + m, i \notin 1..n
               PROVE  \E k \in 1..m : i = n + k
    OBVIOUS
  <2>1. i - n \in 1..m /\ i = n + (i - n)
    BY <1>2, <1>3
  <2> QED BY <2>1
<1>11. \A i \in 1..n : at(i) \in venue.ever /\ at(i) <= scout.cursor
  BY <1>2, <1>4, <1>9 DEF UpTo
<1>12. \A k \in 1..m : /\ at(n + k) \in venue.listed
                       /\ at(n + k) \in Nat
                       /\ at(n + k) > scout.cursor
  BY <1>3, <1>5, <1>6, <1>9 DEF Shows
<1>13. \A i \in 1 .. n + m : at(i) \in venue.ever
  BY <1>4, <1>10, <1>11, <1>12
<1>14. ASSUME NEW i \in 1 .. n + m, NEW j \in 1 .. n + m, i < j
       PROVE  at(i) < at(j)
  <2>1. CASE i \in 1..n /\ j \in 1..n
    BY <2>1, <1>2, <1>4, <1>9, <1>14 DEF UpTo
  <2>2. CASE i \in 1..n /\ j \notin 1..n
    <3>1. PICK k \in 1..m : j = n + k
      BY <2>2, <1>10
    <3>2. at(i) <= scout.cursor /\ at(j) > scout.cursor /\ at(j) \in Nat /\ at(i) \in Nat
      BY <2>2, <3>1, <1>8, <1>9, <1>11, <1>12
    <3> QED BY <3>2, <1>5
  <2>3. CASE i \notin 1..n
    <3>1. PICK k \in 1..m : i = n + k
      BY <2>3, <1>10
    <3>2. j \notin 1..n
      BY <2>3, <1>2, <1>3, <1>14
    <3>3. PICK l \in 1..m : j = n + l
      BY <3>2, <1>10
    <3>4. k < l
      BY <3>1, <3>3, <1>2, <1>3, <1>14
    <3> QED BY <3>1, <3>3, <3>4, <1>3, <1>9 DEF Shows
  <2> QED BY <2>1, <2>2, <2>3
<1>15. ASSUME s.phase = "fetching"
       PROVE  \A i \in 1 .. n + m : at(i) <= s.cursor
  <2>1. s.cursor = page.cursor /\ page.cursor # NoCursor
    BY <1>15
  <2>2. page.cursor > scout.cursor /\ \A i \in 1..m : page.tickers[i] <= page.cursor
    BY <2>1, <1>3 DEF Shows
  <2>3. \A i \in 1..n : at(i) <= page.cursor
    BY <2>2, <1>5, <1>8, <1>9, <1>11
  <2>4. \A k \in 1..m : at(n + k) <= page.cursor
    BY <2>2, <1>9
  <2> QED BY <2>1, <2>3, <2>4, <1>10
<1>16. \A i \in 1..n : i \in 1 .. n + m
  BY <1>2, <1>3
<1>17. \A k \in 1..m : n + k \in 1 .. n + m
  BY <1>2, <1>3
<1>18. ASSUME NEW t \in venue.throughout
       PROVE  \/ s.phase = "fetching" /\ t > s.cursor
              \/ \E i \in 1 .. n + m : at(i) = t
  <2>1. t \in venue.listed /\ t \in Nat
    BY <1>4, <1>5, <1>6
  <2>2. CASE \E i \in 1..n : at(i) = t
    BY <2>2, <1>16
  <2>3. CASE ~\E i \in 1..n : at(i) = t
    <3>1. t > scout.cursor
      BY <2>3, <1>2, <1>4, <1>9 DEF UpTo
    <3>2. CASE page.cursor = NoCursor \/ t <= page.cursor
      <4>1. \E k \in 1..m : page.tickers[k] = t
        BY <2>1, <3>1, <3>2, <1>3 DEF Shows
      <4> QED BY <4>1, <1>9, <1>17
    <3>3. CASE page.cursor # NoCursor /\ ~(t <= page.cursor)
      BY <2>1, <3>3, <1>5
    <3> QED BY <3>2, <3>3
  <2> QED BY <2>2, <2>3
<1> QED BY <1>9, <1>13, <1>14, <1>15, <1>18 DEF UpTo, at

-----------------------------------------------------------------------------
(***************************************************************************)
(* A request and its response.                                             *)
(***************************************************************************)
LEMMA PagesAreTyped ==
  ASSUME TypeInv, NEW page \in Pages(scout.cursor), Parses(page)
  PROVE  Readable(page)
<1>1. /\ venue.listed \in SUBSET Tickers
      /\ venue.honest \in BOOLEAN
      /\ scout.cursor \in Tickers \cup {NoCursor}
  BY DEF TypeInv, Venues, SoundScout, Scouts
<1>2. \A i \in DOMAIN page.tickers : venue.catalog[page.tickers[i]] # Unreadable
  BY DEF Parses
<1>3. CASE venue.honest
  <2>1. Shows(page, venue.listed, scout.cursor)
    BY <1>1, <1>3, HonestPageShows DEF Pages
  <2>2. page.tickers \in Seq(Tickers)
    BY <2>1, <1>1 DEF Shows
  <2> QED BY <2>1, <2>2, <1>2 DEF Shows, Readable
<1>4. CASE ~venue.honest
  <2>1. page \in [tickers : {<<>>} \cup {<<t>> : t \in venue.listed},
                  cursor  : Tickers \cup {NoCursor}]
    BY <1>4 DEF Pages
  <2>2. page.tickers \in {<<>>} \cup {<<t>> : t \in venue.listed}
        /\ page.cursor \in Tickers \cup {NoCursor}
    BY <2>1
  <2>3. page.tickers \in Seq(Tickers)
    <3>1. ASSUME NEW t \in venue.listed
          PROVE  <<t>> \in Seq(Tickers)
      <4>1. t \in Tickers
        BY <1>1
      <4> QED BY <4>1
    <3>2. <<>> \in Seq(Tickers)
      OBVIOUS
    <3> QED BY <2>2, <3>1, <3>2
  <2> QED BY <2>2, <2>3, <1>2 DEF Readable
<1> QED BY <1>1, <1>3, <1>4

\* A response fails the scouting, or its page is the next one.
LEMMA ResponseIsAPage ==
  ASSUME TypeInv, NEW response \in Responses(scout.cursor)
  PROVE  \/ /\ AfterResponse(response) \in Scouts(venue.catalog)
            /\ AfterResponse(response).phase = "failed"
            /\ AfterResponse(response).error # None
            /\ AfterResponse(response).requests = scout.requests
         \/ \E page \in Pages(scout.cursor) :
               Readable(page) /\ AfterResponse(response) = AfterPage(page)
<1>1. CASE response.status \notin 200..299
  <2>1. AfterResponse(response) = Failed("Rest", RestErrorKind(response.status))
    BY <1>1 DEF AfterResponse
  <2>2. RestErrorKind(response.status) \in {"Transport", "RateLimited", "NotFound",
                                            "ClientError", "ServerError", "UnexpectedStatus"}
    BY RestErrorKinds
  <2> QED BY <2>1, <2>2, FailedFails
<1>2. CASE response.status \in 200..299 /\ ~Parses(response.page)
  <2>1. AfterResponse(response) = Failed("Parse", None)
    BY <1>2 DEF AfterResponse
  <2> QED BY <2>1, FailedFails
<1>3. CASE response.status \in 200..299 /\ Parses(response.page)
  <2>1. AfterResponse(response) = AfterPage(response.page)
    BY <1>3 DEF AfterResponse
  <2>2. response.page # None
    BY <1>3 DEF Parses
  <2>3. response.page \in Pages(scout.cursor)
    <3>1. \/ response.page = None
          \/ response \in {[status |-> 200, page |-> page] : page \in Pages(scout.cursor)}
      BY DEF Responses
    <3> QED BY <2>2, <3>1
  <2> QED BY <2>1, <2>3, <1>3, PagesAreTyped
<1> QED BY <1>1, <1>2, <1>3

\* What a response makes of the scouting.
LEMMA FetchResult ==
  ASSUME TypeInv, InStep, scout.phase = "fetching", NEW response \in Responses(scout.cursor)
  PROVE  LET next == AfterResponse(response)
         IN  /\ next \in Scouts(venue.catalog)
             /\ next.error = None <=> next.phase # "failed"
             /\ next.phase # "selected"
             /\ next.requests = scout.requests
             /\ next.phase = "fetching" => /\ next.page_number = scout.page_number + 1
                                           /\ next.page_number < max_pages
             /\ venue.honest /\ next.phase # "failed" => UpTo(next, venue)
<1> DEFINE next == AfterResponse(response)
<1>1. CASE ~\E page \in Pages(scout.cursor) : Readable(page) /\ next = AfterPage(page)
  BY <1>1, ResponseIsAPage
<1>2. CASE \E page \in Pages(scout.cursor) : Readable(page) /\ next = AfterPage(page)
  <2>1. PICK page \in Pages(scout.cursor) : Readable(page) /\ next = AfterPage(page)
    BY <1>2
  <2> HIDE DEF next
  <2>2. /\ next \in Scouts(venue.catalog)
        /\ next.requests = scout.requests
        /\ \/ /\ next.phase = "fetched"
              /\ next.error = None
              /\ page.cursor = NoCursor
              /\ next.markets = FoundWith(page)
           \/ /\ next.phase = "fetching"
              /\ next.error = None
              /\ page.cursor # NoCursor
              /\ next.cursor = page.cursor
              /\ next.page_number = scout.page_number + 1
              /\ next.page_number < max_pages
              /\ next.markets = FoundWith(page)
           \/ next.phase = "failed" /\ next.error # None
    BY <2>1, PageTurns
  <2>3. ASSUME venue.honest, next.phase # "failed"
        PROVE  UpTo(next, venue)
    <3>1. venue.listed \in SUBSET Tickers /\ scout.cursor \in Tickers \cup {NoCursor}
      BY DEF TypeInv, Venues, SoundScout, Scouts
    <3>2. Shows(page, venue.listed, scout.cursor)
      BY <2>3, <3>1, HonestPageShows DEF Pages
    <3> QED BY <2>1, <2>2, <2>3, <3>2, PageKeepsStep
  <2> QED BY <2>2, <2>3 DEF next
<1> QED BY <1>1, <1>2

LEMMA DFetch == DInv /\ Fetch => DInv'
<1> SUFFICES ASSUME DInv, Fetch
             PROVE  DInv'
  OBVIOUS
<1>1. TypeInv /\ InStep
  BY DEF DInv
<1>2. scout.phase = "fetching" /\ venue' = venue /\ universe' = universe
  BY DEF Fetch
<1>3. PICK response \in Responses(scout.cursor) :
        scout' = [AfterResponse(response) EXCEPT !.requests = @ + 1]
  BY DEF Fetch
<1> DEFINE next == AfterResponse(response)
<1>4. /\ next \in Scouts(venue.catalog)
      /\ next.error = None <=> next.phase # "failed"
      /\ next.phase # "selected"
      /\ next.requests = scout.requests
      /\ next.phase = "fetching" => /\ next.page_number = scout.page_number + 1
                                    /\ next.page_number < max_pages
      /\ venue.honest /\ next.phase # "failed" => UpTo(next, venue)
  BY <1>1, <1>2, FetchResult
<1>5. scout' = [next EXCEPT !.requests = scout.requests + 1]
  BY <1>3, <1>4
<1>6. /\ scout.requests \in Nat /\ scout.page_number \in Nat
      /\ scout.requests = scout.page_number /\ scout.page_number < max_pages
  BY <1>1, <1>2 DEF TypeInv, SoundScout, Scouts, Counted
<1>7. scout.requests + 1 \in Nat /\ scout.requests + 1 <= max_pages
  BY <1>6, DiscoveryAssumption
<1> HIDE DEF next
<1>8. /\ scout' \in Scouts(venue.catalog)
      /\ scout'.phase = next.phase
      /\ scout'.error = next.error
      /\ scout'.markets = next.markets
      /\ scout'.cursor = next.cursor
      /\ scout'.page_number = next.page_number
      /\ scout'.requests = scout.requests + 1
  BY <1>4, <1>5, <1>7 DEF Scouts
<1>9. Counted(scout')
  BY <1>4, <1>6, <1>7, <1>8 DEF Counted
<1>10. SoundScout(scout', venue.catalog)
  BY <1>4, <1>8, <1>9 DEF SoundScout
<1>11. TypeInv'
  BY <1>1, <1>2, <1>4, <1>8, <1>10 DEF TypeInv
<1>12. venue.honest /\ scout'.phase # "failed" => UpTo(scout', venue)
  BY <1>4, <1>8 DEF UpTo
<1>13. InStep'
  BY <1>1, <1>2, <1>12 DEF InStep
<1> QED BY <1>11, <1>13 DEF DInv

\* What is newly listed was not listed all along, and what is no longer listed was once.
LEMMA DList == DInv /\ List => DInv'
<1> SUFFICES ASSUME DInv, List
             PROVE  DInv'
  OBVIOUS
<1>1. PICK t \in Tickers :
        venue' = [venue EXCEPT
                    !.listed     = IF t \in @ THEN @ \ {t} ELSE @ \cup {t},
                    !.throughout = @ \ {t},
                    !.ever       = @ \cup {t},
                    !.changes    = @ + 1]
  BY DEF List
<1>2. scout' = scout /\ universe' = universe /\ venue.changes < MaxChanges
  BY DEF List
<1>3. TypeInv /\ InStep /\ venue \in Venues
  BY DEF DInv, TypeInv
<1>4. venue.changes + 1 \in 0..MaxChanges
  BY <1>2, <1>3, DiscoveryAssumption DEF Venues
<1> DEFINE listed == IF t \in venue.listed THEN venue.listed \ {t} ELSE venue.listed \cup {t}
           throughout == venue.throughout \ {t}
           ever == venue.ever \cup {t}
<1>5. venue' = [venue EXCEPT !.listed = listed, !.throughout = throughout, !.ever = ever,
                             !.changes = venue.changes + 1]
  BY <1>1
<1>6. listed \in SUBSET Tickers /\ throughout \in SUBSET Tickers /\ ever \in SUBSET Tickers
  BY <1>3 DEF Venues
<1>7. throughout \subseteq listed /\ listed \subseteq ever
      /\ throughout \subseteq venue.throughout /\ venue.ever \subseteq ever
  BY <1>3 DEF InStep
<1> HIDE DEF listed, throughout, ever
<1>8. /\ venue' \in Venues
      /\ venue'.catalog = venue.catalog /\ venue'.honest = venue.honest
      /\ venue'.listed = listed /\ venue'.throughout = throughout /\ venue'.ever = ever
  BY <1>3, <1>4, <1>5, <1>6 DEF Venues
<1>9. TypeInv'
  BY <1>2, <1>3, <1>8 DEF TypeInv
<1>10. UpTo(scout, venue) => UpTo(scout, venue')
  <2> SUFFICES ASSUME UpTo(scout, venue)
               PROVE  UpTo(scout, venue')
    OBVIOUS
  <2>1. \A i \in DOMAIN scout.markets : scout.markets[i].ticker \in venue'.ever
    BY <1>7, <1>8 DEF UpTo
  <2>2. \A u \in venue'.throughout : \/ scout.phase = "fetching" /\ u > scout.cursor
                                     \/ \E i \in DOMAIN scout.markets : scout.markets[i].ticker = u
    BY <1>7, <1>8 DEF UpTo
  <2> QED BY <2>1, <2>2 DEF UpTo
<1>11. InStep'
  BY <1>2, <1>3, <1>7, <1>8, <1>10 DEF InStep
<1> QED BY <1>9, <1>11 DEF DInv

LEMMA DSelect == DInv /\ Select => DInv'
<1> SUFFICES ASSUME DInv, Select
             PROVE  DInv'
  OBVIOUS
<1>1. TypeInv /\ InStep /\ SoundScout(scout, venue.catalog) /\ scout \in Scouts(venue.catalog)
  BY DEF DInv, TypeInv, SoundScout
<1>2. scout.phase = "fetched" /\ venue' = venue
  BY DEF Select
<1>3. scout' = [scout EXCEPT !.phase = "selected"]
  BY DEF Select
<1>4. /\ scout' \in Scouts(venue.catalog)
      /\ scout'.phase = "selected" /\ scout'.error = scout.error
      /\ scout'.markets = scout.markets /\ scout'.requests = scout.requests
  BY <1>1, <1>3 DEF Scouts
<1>5. Selected(universe', scout.markets)
  BY DEF Select, Selected
<1>6. SoundScout(scout', venue.catalog)
  BY <1>1, <1>2, <1>4 DEF SoundScout, Counted
<1>7. TypeInv'
  BY <1>1, <1>2, <1>4, <1>5, <1>6 DEF TypeInv
<1>8. venue.honest => UpTo(scout', venue)
  BY <1>1, <1>2, <1>4 DEF InStep, UpTo
<1>9. InStep'
  BY <1>1, <1>2, <1>8 DEF InStep
<1> QED BY <1>7, <1>9 DEF DInv

LEMMA DNext == DInv /\ [Next]_vars => DInv'
<1> SUFFICES ASSUME DInv, [Next]_vars
             PROVE  DInv'
  OBVIOUS
<1>1. CASE List
  BY <1>1, DList
<1>2. CASE Fetch
  BY <1>2, DFetch
<1>3. CASE Select
  BY <1>3, DSelect
<1>4. CASE UNCHANGED vars
  BY <1>4 DEF vars, DInv, TypeInv, InStep
<1> QED BY <1>1, <1>2, <1>3, <1>4 DEF Next

LEMMA Invariance == Spec => []DInv
BY DInit, DNext, PTL DEF Spec

-----------------------------------------------------------------------------
(***************************************************************************)
(* The theorems.                                                           *)
(***************************************************************************)

\* What was selected, and from what.
LEMMA SelectedAre ==
  ASSUME TypeInv
  PROVE  /\ scout.markets \in Seq(ReadMarkets)
         /\ scout.phase = "selected" =>
              /\ universe # None
              /\ universe.as_of \in Int
              /\ SortsFirst(universe.selection, scout.markets, universe.as_of, Len(scout.markets))
<1>1. scout.markets \in Seq(Readings(venue.catalog)) /\ venue.catalog \in Catalogs
  BY DEF TypeInv, Venues, SoundScout, Scouts
<1>2. scout.markets \in Seq(ReadMarkets)
  <2>1. Readings(venue.catalog) \subseteq ReadMarkets
    BY <1>1, ReadingsAreMarkets
  <2> QED BY <1>1, <2>1
<1>3. ASSUME scout.phase = "selected"
      PROVE  /\ universe # None
             /\ universe.as_of \in Int
             /\ SortsFirst(universe.selection, scout.markets, universe.as_of, Len(scout.markets))
  <2>1. PICK as_of \in Clock :
          universe = [as_of |-> as_of, selection |-> select_universe(scout.markets, as_of)]
    BY <1>3 DEF TypeInv, Selected
  <2>2. as_of \in Int
    BY DiscoveryAssumption
  <2>3. SortsFirst(select_universe(scout.markets, as_of), scout.markets, as_of, Len(scout.markets))
    BY <1>2, <2>2, SelectionSorts
  <2>4. select_universe(scout.markets, as_of) \in Selections
    BY <2>3 DEF SortsFirst
  <2>5. universe \in [as_of : Clock, selection : Selections]
    BY <2>1, <2>4
  <2>6. universe # None
    BY <2>5, NoneAssumption
  <2> QED BY <2>1, <2>2, <2>3, <2>6
<1> QED BY <1>2, <1>3

\* The variables of a scouting have the types and phases that fetch_all_markets gives
\* them: an error exactly when it fails, a universe exactly when one was selected.
THEOREM TypeCorrect == Spec => []TypeOK
<1>1. DInv => TypeOK
  <2> SUFFICES ASSUME TypeInv
               PROVE  TypeOK
    BY DEF DInv
  <2>1. Markets = Readings(venue.catalog)
    BY DEF Markets, Readings
  <2>2. venue \in Venues /\ SoundScout(scout, venue.catalog)
    BY DEF TypeInv
  <2>3. venue.catalog \in Catalogs
        /\ venue.listed \cup venue.throughout \cup venue.ever \subseteq Tickers
        /\ venue.changes \in 0..MaxChanges
    BY <2>2 DEF Venues
  <2>4. /\ scout.phase \in {"fetching", "fetched", "selected", "failed"}
        /\ scout.markets \in Seq(Markets)
        /\ scout.cursor \in Tickers \cup {NoCursor}
        /\ scout.page_number \in Nat
    BY <2>1, <2>2 DEF SoundScout, Scouts
  <2>5. scout.phase = "fetching" => scout.page_number \in 0 .. max_pages - 1
    BY <2>2, <2>4, DiscoveryAssumption DEF SoundScout, Counted
  <2>6. (scout.error = None) <=> (scout.phase # "failed")
    BY <2>2 DEF SoundScout
  <2>7. (universe = None) <=> (scout.phase # "selected")
    BY SelectedAre DEF TypeInv
  <2> QED BY <2>3, <2>4, <2>5, <2>6, <2>7 DEF TypeOK
<1> QED BY <1>1, Invariance, PTL

\* However the venue answers, whatever its cursors, it is asked at most max_pages times.
THEOREM LoopIsBounded == Spec => []RequestsAreBounded
<1>1. DInv => RequestsAreBounded
  BY DEF DInv, TypeInv, SoundScout, Counted, RequestsAreBounded
<1> QED BY <1>1, Invariance, PTL

\* A list of markets in which names ascend has as many names as markets.
LEMMA AscendingAreDistinct ==
  ASSUME NEW n \in Nat, NEW names, DOMAIN names = 1..n, names = [i \in 1..n |-> names[i]],
         \A i \in 1..n : names[i] \in Nat,
         \A i, j \in 1..n : i < j => names[i] < names[j]
  PROVE  Cardinality({names[i] : i \in 1..n}) = n
<1> DEFINE S == {names[i] : i \in 1..n}
<1>1. names \in [1..n -> S]
  OBVIOUS
<1>2. ASSUME NEW i \in 1..n, NEW j \in 1..n, names[i] = names[j]
      PROVE  i = j
  <2>1. ~(i < j) /\ ~(j < i)
    BY <1>2
  <2> QED BY <2>1
<1>3. names \in Injection(1..n, S)
  BY <1>1, <1>2 DEF Injection, IsInjective
<1>4. names \in Surjection(1..n, S)
  BY <1>1 DEF Surjection
<1>5. ExistsBijection(1..n, S)
  BY <1>3, <1>4 DEF ExistsBijection, Bijection
<1> QED BY <1>5, FS_CountingElements

\* An honest venue's list is returned whole, each market once, however it changes while
\* it is read: fetch_all_markets misses nothing that was listed all along.
THEOREM ListIsWhole == Spec => []NothingMissed
<1>1. DInv => NothingMissed
  <2> DEFINE found == {scout.markets[i].ticker : i \in DOMAIN scout.markets}
             n == Len(scout.markets)
             names == [i \in 1..n |-> scout.markets[i].ticker]
  <2> SUFFICES ASSUME DInv, venue.honest, scout.phase \in {"fetched", "selected"}
               PROVE  /\ venue.throughout \subseteq found
                      /\ found \subseteq venue.ever
                      /\ Cardinality(found) = n
    BY DEF NothingMissed
  <2>1. UpTo(scout, venue) /\ TypeInv
    BY DEF DInv, InStep
  <2>2. scout.markets \in Seq(ReadMarkets)
    BY <2>1, SelectedAre
  <2>3. n \in Nat /\ DOMAIN scout.markets = 1..n /\ \A i \in 1..n : scout.markets[i] \in ReadMarkets
    BY <2>2
  <2>4. \A i \in 1..n : scout.markets[i].ticker \in Nat
    BY <2>3, ReadMarketFields, DiscoveryAssumption
  <2>5. venue.throughout \subseteq found /\ found \subseteq venue.ever
    BY <2>1 DEF UpTo
  <2>6. \A i \in 1..n : names[i] = scout.markets[i].ticker
    OBVIOUS
  <2>7. found = {names[i] : i \in 1..n} /\ DOMAIN names = 1..n
        /\ names = [i \in 1..n |-> names[i]]
    BY <2>3
  <2>8. \A i, j \in 1..n : i < j => names[i] < names[j]
    BY <2>1, <2>3, <2>6 DEF UpTo
  <2>9. \A i \in 1..n : names[i] \in Nat
    BY <2>4, <2>6
  <2> HIDE DEF names, n, found
  <2>10. Cardinality({names[i] : i \in 1..n}) = n
    BY <2>3, <2>7, <2>8, <2>9, AscendingAreDistinct
  <2> QED BY <2>5, <2>7, <2>10
<1> QED BY <1>1, Invariance, PTL

\* The universe is the rule: select_universe keeps exactly the markets that a book can
\* represent and the study wants, for every grid that a venue may publish.
THEOREM RuleIsKept == Spec => []UniverseIsTheRule
<1>1. DInv => UniverseIsTheRule
  <2> SUFFICES ASSUME TypeInv, universe # None, NEW market \in ToSet(scout.markets)
               PROVE  market \in ToSet(universe.selection.eligible)
                        <=> Representable(market) /\ Wanted(market, universe.as_of)
    BY DEF DInv, UniverseIsTheRule
  <2>1. scout.phase = "selected"
    BY DEF TypeInv
  <2>2. /\ scout.markets \in Seq(ReadMarkets)
        /\ universe.as_of \in Int
        /\ SortsFirst(universe.selection, scout.markets, universe.as_of, Len(scout.markets))
    BY <2>1, SelectedAre
  <2>3. PICK i \in 1..Len(scout.markets) : scout.markets[i] = market
    BY <2>2 DEF ToSet
  <2>4. market \in ReadMarkets
    BY <2>2, <2>3
  <2>5. market \in ToSet(universe.selection.eligible)
          <=> check_eligibility(market, universe.as_of) = Eligible
    BY <2>2, <2>3 DEF SortsFirst
  <2> QED BY <2>2, <2>4, <2>5, ReasonOfAMarket
<1> QED BY <1>1, Invariance, PTL

\* The reason reported is the most fundamental one: what was left out by choice could
\* have been recorded.
THEOREM ChoiceComesLast == Spec => []ChosenIsRepresentable
<1>1. DInv => ChosenIsRepresentable
  <2> SUFFICES ASSUME TypeInv, universe # None,
                      NEW rejection \in ToSet(universe.selection.rejected),
                      rejection.reason \in Selection
               PROVE  Representable(rejection.market)
    BY DEF DInv, ChosenIsRepresentable
  <2>1. scout.phase = "selected"
    BY DEF TypeInv
  <2>2. /\ scout.markets \in Seq(ReadMarkets)
        /\ universe.as_of \in Int
        /\ SortsFirst(universe.selection, scout.markets, universe.as_of, Len(scout.markets))
    BY <2>1, SelectedAre
  <2>3. /\ \E i \in 1..Len(scout.markets) : scout.markets[i] = rejection.market
        /\ rejection.reason = check_eligibility(rejection.market, universe.as_of)
    BY <2>2 DEF SortsFirst
  <2>4. rejection.market \in ReadMarkets
    BY <2>2, <2>3
  <2> QED BY <2>2, <2>3, <2>4, ReasonOfAMarket
<1> QED BY <1>1, Invariance, PTL
=============================================================================
