--------------------------- MODULE Conversions_proofs ---------------------------
(***************************************************************************)
(* Proofs about the conversions: what is read of a decimal number is what  *)
(* its text says, for every text, every field and every width of integer.  *)
(***************************************************************************)
EXTENDS Conversions, Recursion, SequenceTheorems

Characters == (0..9) \cup {Minus, Point, Junk}

Errors == Problems \cup {NoError}

Readers ==
  [phase    : {"sign", "integer", "shift", "measure", "fraction", "sum", "rest", "done"},
   index    : Nat,
   begin    : Nat,
   end      : Nat,
   negative : BOOLEAN,
   value    : -kMax .. kMax,
   shifts   : Nat,
   fraction : 0..kMax,
   error    : Errors]

\* The digits read so far are fewer than the places of the field, and the
\* fraction has no more digits than were read.
FractionInPlaces ==
  reader.phase = "fraction" =>
    /\ reader.begin <= reader.index
    /\ reader.index <= reader.end
    /\ reader.end - reader.begin <= form.fractional_digits
    /\ \A i \in reader.begin .. reader.end - 1 : DigitAt(i)
    /\ reader.fraction < power_of_ten[reader.index - reader.begin]

\* A point was found in the text before the digits that follow it are counted.
DecimalInv ==
  /\ text \in Seq(Characters)
  /\ form \in Forms
  /\ reader \in Readers
  /\ reader.phase # "done" => reader.value >= 0
  /\ reader.phase \in {"sign", "integer", "shift", "measure"} => reader.fraction = 0
  /\ reader.phase = "measure" => reader.index <= Len(text)
  /\ FractionInPlaces

-----------------------------------------------------------------------------
(***************************************************************************)
(* Powers of ten.                                                          *)
(***************************************************************************)
LEMMA PowersAreDefined ==
  /\ power_of_ten \in [Nat -> Nat]
  /\ power_of_ten[0] = 1
  /\ \A n \in Nat : power_of_ten[n + 1] = power_of_ten[n] * 10
<1> DEFINE step == [n \in Nat |-> [x \in Nat |-> x * 10]]
           Def(f) == f = [n \in Nat |-> IF n = 0 THEN 1 ELSE f[n - 1] * 10]
<1>1. step \in [Nat -> [Nat -> Nat]]
  OBVIOUS
<1>2. PICK f \in [Nat -> Nat] : f[0] = 1 /\ \A n \in Nat : f[n + 1] = step[n][f[n]]
  <2> HIDE DEF step
  <2> DEFINE T == Nat
             base == 1
  <2>1. base \in T /\ step \in [Nat -> [T -> T]]
    BY <1>1
  <2> HIDE DEF T, base
  <2>2. \E f \in [Nat -> T] : Recurs(f, base, step)
    BY <2>1, RecursionExists
  <2> QED BY <2>2 DEF T, base, Recurs
<1>3. \A n \in Nat : f[n] = IF n = 0 THEN 1 ELSE f[n - 1] * 10
  <2> TAKE n \in Nat
  <2>1. CASE n = 0
    BY <1>2, <2>1
  <2>2. CASE n # 0
    <3>1. n - 1 \in Nat /\ (n - 1) + 1 = n
      BY <2>2
    <3>2. f[(n - 1) + 1] = f[n - 1] * 10
      BY <1>2, <3>1
    <3> QED BY <2>2, <3>1, <3>2
  <2> QED BY <2>1, <2>2
<1>4. Def(f)
  BY <1>3
<1>5. Def(power_of_ten)
  <2>1. power_of_ten = CHOOSE g : Def(g)
    BY DEF power_of_ten
  <2> HIDE DEF Def
  <2> QED BY <1>4, <2>1
<1>6. power_of_ten[0] = 1
  BY <1>5
<1>7. ASSUME NEW n \in Nat
      PROVE  power_of_ten[n + 1] = power_of_ten[n] * 10
  <2>1. n + 1 \in Nat /\ n + 1 # 0 /\ (n + 1) - 1 = n
    OBVIOUS
  <2> QED BY <1>5, <2>1
<1> DEFINE S == {n \in Nat : power_of_ten[n] \in Nat}
<1>8. 0 \in S /\ \A n \in Nat : n \in S => n + 1 \in S
  BY <1>6, <1>7
<1>9. Nat \subseteq S
  <2> HIDE DEF S
  <2> QED BY <1>8, NatsByInduction
<1>10. power_of_ten \in [Nat -> Nat]
  BY <1>5, <1>9
<1> QED BY <1>6, <1>7, <1>10

LEMMA PowersGrow ==
  /\ Places = 0..9
  /\ \A n \in 0..9 : power_of_ten[n] \in Nat
  /\ power_of_ten[0] = 1
  /\ \A n \in 0..8 : power_of_ten[n + 1] = 10 * power_of_ten[n]
<1>1. Places = 0..9
  BY DEF Places, kMaxFractionalDigits
<1> QED BY <1>1, PowersAreDefined

LEMMA PowersArePositive == \A n \in Places : power_of_ten[n] \in Nat \ {0}
<1> DEFINE S == {n \in 0..9 : power_of_ten[n] \in Nat \ {0}}
<1>1. 0 \in S
  BY PowersGrow
<1>2. \A n \in 0 .. 9 - 1 : n \in S => n + 1 \in S
  BY PowersGrow
<1>3. 0..9 \subseteq S
  <2> HIDE DEF S
  <2> QED BY <1>1, <1>2, IntervalByInduction
<1> QED BY <1>3, PowersGrow

LEMMA PowersMultiply ==
  ASSUME NEW a \in Places, NEW b \in Places, a + b \in Places
  PROVE  power_of_ten[a + b] = power_of_ten[a] * power_of_ten[b]
<1> DEFINE m == 9 - a
           S == {n \in 0..m : power_of_ten[a + n] = power_of_ten[a] * power_of_ten[n]}
<1>0. a \in 0..9 /\ b \in 0..m /\ m \in Nat
  BY PowersGrow
<1>1. 0 \in S
  BY <1>0, PowersGrow
<1>2. ASSUME NEW n \in 0 .. m - 1, n \in S
      PROVE  n + 1 \in S
  <2>1. /\ n \in 0..8
        /\ a + n \in 0..8
        /\ n + 1 \in 0..m
        /\ a + (n + 1) = (a + n) + 1
    BY <1>0
  <2>2. /\ power_of_ten[(a + n) + 1] = 10 * power_of_ten[a + n]
        /\ power_of_ten[n + 1] = 10 * power_of_ten[n]
    BY <2>1, PowersGrow
  <2>3. power_of_ten[a + n] = power_of_ten[a] * power_of_ten[n]
    BY <1>2
  <2>4. power_of_ten[a] \in Nat /\ power_of_ten[n] \in Nat
    BY <1>0, <2>1, PowersGrow
  <2>5. \A x, y \in Nat : 10 * (x * y) = x * (10 * y)
    OBVIOUS
  <2>6. power_of_ten[(a + n) + 1] = power_of_ten[a] * power_of_ten[n + 1]
    BY <2>2, <2>3, <2>4, <2>5
  <2> QED BY <2>1, <2>6
<1>3. 0..m \subseteq S
  <2> HIDE DEF S, m
  <2> QED BY <1>0, <1>1, <1>2, IntervalByInduction
<1> QED BY <1>0, <1>3

\* A number of so many digits still fits when it is padded to the places of its
\* field.
LEMMA PaddingFits ==
  ASSUME NEW a \in Places, NEW b \in Places, a + b \in Places,
         NEW f \in Nat, f < power_of_ten[a]
  PROVE  f * power_of_ten[b] < power_of_ten[a + b] /\ power_of_ten[a] <= power_of_ten[a + b]
<1>1. power_of_ten[a] \in Nat \ {0} /\ power_of_ten[b] \in Nat \ {0}
  BY PowersArePositive
<1>2. power_of_ten[a + b] = power_of_ten[a] * power_of_ten[b]
  BY PowersMultiply
<1>3. \A x, y \in Nat \ {0} : \A z \in Nat : z < x => z * y < x * y /\ x <= x * y
  OBVIOUS
<1> QED BY <1>1, <1>2, <1>3

-----------------------------------------------------------------------------
(***************************************************************************)
(* What digits say.                                                        *)
(***************************************************************************)
LEMMA SumOfIs ==
  ASSUME NEW terms \in Seq(Nat)
  PROVE  \E sum \in [0..Len(terms) -> Nat] :
            /\ SumOf(terms) = sum[Len(terms)]
            /\ sum[0] = 0
            /\ \A i \in 1..Len(terms) : sum[i] = sum[i - 1] + terms[i]
<1> DEFINE n == Len(terms)
           step == [i \in Nat |-> [x \in Nat |-> IF i + 1 \in 1..n THEN x + terms[i + 1] ELSE x]]
           Def(f) == f = [i \in 0..n |-> IF i = 0 THEN 0 ELSE f[i - 1] + terms[i]]
<1>1. n \in Nat /\ \A i \in 1..n : terms[i] \in Nat
  OBVIOUS
<1>2. step \in [Nat -> [Nat -> Nat]]
  BY <1>1
<1>3. PICK f \in [Nat -> Nat] : f[0] = 0 /\ \A i \in Nat : f[i + 1] = step[i][f[i]]
  <2> DEFINE T == Nat
             base == 0
  <2>1. base \in T /\ step \in [Nat -> [T -> T]]
    BY <1>2
  <2> HIDE DEF T, base, step
  <2>2. \E f \in [Nat -> T] : Recurs(f, base, step)
    BY <2>1, RecursionExists
  <2> QED BY <2>2 DEF T, base, Recurs
<1> DEFINE g == [i \in 0..n |-> f[i]]
<1>4. \A i \in 0..n : g[i] = IF i = 0 THEN 0 ELSE g[i - 1] + terms[i]
  <2> TAKE i \in 0..n
  <2>1. CASE i = 0
    BY <1>3, <2>1
  <2>2. CASE i # 0
    <3>1. i - 1 \in Nat /\ i - 1 \in 0..n /\ (i - 1) + 1 = i /\ i \in 1..n
      BY <1>1, <2>2
    <3>2. f[(i - 1) + 1] = step[i - 1][f[i - 1]]
      BY <1>3, <3>1
    <3>3. f[i] = f[i - 1] + terms[i]
      BY <3>1, <3>2
    <3> QED BY <2>2, <3>1, <3>3
  <2> QED BY <2>1, <2>2
<1>5. Def(g)
  BY <1>4
<1> DEFINE sum == CHOOSE h : Def(h)
<1>6. SumOf(terms) = sum[n]
  BY DEF SumOf
<1>7. Def(sum)
  <2> HIDE DEF Def, g
  <2> QED BY <1>5
<1> HIDE DEF sum
<1>8. sum[0] = 0
  BY <1>1, <1>7
<1>9. \A i \in 1..n : sum[i] = sum[i - 1] + terms[i]
  <2>1. \A i \in 0..n : sum[i] = IF i = 0 THEN 0 ELSE sum[i - 1] + terms[i]
    BY <1>7
  <2>2. \A i \in 1..n : i \in 0..n /\ i # 0
    BY <1>1
  <2> HIDE DEF Def
  <2> QED BY <2>1, <2>2, ZenonT(60)
<1> HIDE DEF Def
<1> DEFINE S == {i \in 0..n : sum[i] \in Nat}
<1>10. 0 \in S /\ \A i \in 0 .. n - 1 : i \in S => i + 1 \in S
  <2>1. 0 \in S
    BY <1>1, <1>8
  <2>2. ASSUME NEW i \in 0 .. n - 1, i \in S
        PROVE  i + 1 \in S
    <3>1. i + 1 \in 1..n /\ (i + 1) - 1 = i /\ i + 1 \in 0..n
      BY <1>1
    <3>2. \A k \in 1..n : k - 1 = i => sum[k] = sum[i] + terms[k]
      BY <1>9
    <3>3. sum[i + 1] = sum[i] + terms[i + 1]
      BY <3>1, <3>2
    <3>4. sum[i] \in Nat /\ terms[i + 1] \in Nat
      BY <1>1, <2>2, <3>1
    <3>5. sum[i + 1] \in Nat
      <4>1. \A x, y \in Nat : x + y \in Nat
        OBVIOUS
      <4>2. sum[i] + terms[i + 1] \in Nat
        BY <3>4, <4>1, ZenonT(60)
      <4> QED BY <3>3, <4>2, ZenonT(60)
    <3> QED BY <3>1, <3>5
  <2> QED BY <2>1, <2>2
<1>11. 0..n \subseteq S
  <2> HIDE DEF S, n
  <2> QED BY <1>1, <1>10, IntervalByInduction
<1>12. sum \in [0..n -> Nat]
  BY <1>7, <1>11 DEF Def
<1> HIDE DEF Def
<1> QED BY <1>6, <1>8, <1>9, <1>12

LEMMA NumberOfIs ==
  ASSUME NEW digits \in Seq(0..9)
  PROVE  \E sum \in [0..Len(digits) -> Nat] :
            /\ NumberOf(digits) = sum[Len(digits)]
            /\ sum[0] = 0
            /\ \A i \in 1..Len(digits) :
                 sum[i] = sum[i - 1] + digits[i] * power_of_ten[Len(digits) - i]
<1> DEFINE n == Len(digits)
           terms == [i \in 1..n |-> digits[i] * power_of_ten[n - i]]
<1>1. n \in Nat
  OBVIOUS
<1>2. \A i \in 1..n : terms[i] \in Nat
  <2> TAKE i \in 1..n
  <2>1. digits[i] \in Nat /\ n - i \in Nat
    BY <1>1
  <2>2. power_of_ten[n - i] \in Nat
    BY <2>1, PowersAreDefined
  <2>3. \A x, y \in Nat : x * y \in Nat
    OBVIOUS
  <2>4. digits[i] * power_of_ten[n - i] \in Nat
    BY <2>1, <2>2, <2>3
  <2> QED BY <2>4
<1>3. terms \in Seq(Nat) /\ Len(terms) = n
  <2> DEFINE term(i) == digits[i] * power_of_ten[n - i]
  <2>1. \A i \in 1..n : term(i) \in Nat
    BY <1>2
  <2>2. terms = [i \in 1..n |-> term(i)]
    OBVIOUS
  <2> HIDE DEF term, terms, n
  <2> QED BY <1>1, <2>1, <2>2
<1>4. \A i \in 1..n : terms[i] = digits[i] * power_of_ten[n - i]
  OBVIOUS
<1>5. NumberOf(digits) = SumOf(terms)
  BY DEF NumberOf
<1> HIDE DEF terms
<1>6. PICK sum \in [0..Len(terms) -> Nat] :
        /\ SumOf(terms) = sum[Len(terms)]
        /\ sum[0] = 0
        /\ \A i \in 1..Len(terms) : sum[i] = sum[i - 1] + terms[i]
  BY <1>3, SumOfIs
<1>7. sum \in [0..n -> Nat] /\ SumOf(terms) = sum[n]
  BY <1>3, <1>6
<1>8. \A i \in 1..n : sum[i] = sum[i - 1] + digits[i] * power_of_ten[n - i]
  BY <1>3, <1>4, <1>6
<1> QED BY <1>5, <1>6, <1>7, <1>8

LEMMA NumberOfNone ==
  ASSUME NEW digits \in Seq(0..9), Len(digits) = 0
  PROVE  NumberOf(digits) = 0
BY NumberOfIs

LEMMA NumberIsNat ==
  ASSUME NEW digits \in Seq(0..9)
  PROVE  NumberOf(digits) \in Nat
<1>1. Len(digits) \in 0..Len(digits)
  OBVIOUS
<1>2. PICK sum \in [0..Len(digits) -> Nat] : NumberOf(digits) = sum[Len(digits)]
  BY NumberOfIs
<1> QED BY <1>1, <1>2

\* One more digit moves the others up by one place.
LEMMA NumberOfMore ==
  ASSUME NEW digits \in Seq(0..9), NEW more \in Seq(0..9), Len(more) = Len(digits) + 1,
         \A i \in 1..Len(digits) : more[i] = digits[i]
  PROVE  NumberOf(more) = NumberOf(digits) * 10 + more[Len(more)]
<1> DEFINE n == Len(digits)
<1>1. n \in Nat /\ Len(more) = n + 1 /\ \A i \in 1 .. n + 1 : more[i] \in Nat
  OBVIOUS
<1>2. PICK f \in [0..n -> Nat] :
        /\ NumberOf(digits) = f[n]
        /\ f[0] = 0
        /\ \A i \in 1..n : f[i] = f[i - 1] + digits[i] * power_of_ten[n - i]
  BY NumberOfIs
<1>3. PICK g \in [0 .. n + 1 -> Nat] :
        /\ NumberOf(more) = g[n + 1]
        /\ g[0] = 0
        /\ \A i \in 1 .. n + 1 : g[i] = g[i - 1] + more[i] * power_of_ten[(n + 1) - i]
  <2>1. PICK g \in [0..Len(more) -> Nat] :
          /\ NumberOf(more) = g[Len(more)]
          /\ g[0] = 0
          /\ \A i \in 1..Len(more) : g[i] = g[i - 1] + more[i] * power_of_ten[Len(more) - i]
    BY NumberOfIs
  <2> QED BY <1>1, <2>1
<1> HIDE DEF n
<1> DEFINE S == {i \in 0..n : g[i] = f[i] * 10}
<1>4. 0 \in S
  BY <1>1, <1>2, <1>3
<1>5. ASSUME NEW i \in 0 .. n - 1, i \in S
      PROVE  i + 1 \in S
  <2> DEFINE k == i + 1
  <2>1. k \in 1..n /\ k \in 1 .. n + 1 /\ k \in 0..n /\ k - 1 = i /\ n - k \in Nat
        /\ (n + 1) - k = (n - k) + 1
    BY <1>1
  <2>2. f[k] = f[i] + digits[k] * power_of_ten[n - k]
    BY <1>2, <2>1
  <2>3. g[k] = g[i] + more[k] * power_of_ten[(n + 1) - k]
    BY <1>3, <2>1
  <2>4. more[k] = digits[k]
    BY <2>1 DEF n
  <2>5. power_of_ten[(n + 1) - k] = power_of_ten[n - k] * 10
    BY <2>1, PowersAreDefined
  <2>6. g[i] = f[i] * 10 /\ f[i] \in Nat
    BY <1>1, <1>2, <1>5
  <2>7. digits[k] \in Nat /\ power_of_ten[n - k] \in Nat
    BY <1>1, <2>1, <2>4, PowersAreDefined
  <2>8. \A x, y, z \in Nat : x * 10 + y * (z * 10) = (x + y * z) * 10
    OBVIOUS
  <2> HIDE DEF k
  <2>9. g[k] = f[i] * 10 + digits[k] * (power_of_ten[n - k] * 10)
    BY <2>3, <2>4, <2>5, <2>6, ZenonT(60)
  <2>10. g[k] = f[k] * 10
    BY <2>2, <2>6, <2>7, <2>8, <2>9, ZenonT(60)
  <2> QED BY <2>1, <2>10 DEF k
<1>6. 0..n \subseteq S
  <2> HIDE DEF S
  <2> QED BY <1>1, <1>4, <1>5, IntervalByInduction
<1>7. g[n] = f[n] * 10
  BY <1>1, <1>6
<1>8. g[n + 1] = g[n] + more[n + 1] * power_of_ten[0]
  <2>1. n + 1 \in 1 .. n + 1 /\ (n + 1) - 1 = n /\ (n + 1) - (n + 1) = 0
    BY <1>1
  <2> QED BY <1>3, <2>1
<1>9. more[n + 1] \in Nat /\ power_of_ten[0] = 1 /\ f[n] \in Nat
  BY <1>1, <1>2, PowersAreDefined
<1> QED BY <1>1, <1>2, <1>3, <1>7, <1>8, <1>9, SMTT(60)

-----------------------------------------------------------------------------
(***************************************************************************)
(* Quotients and remainders.                                               *)
(***************************************************************************)
LEMMA DivisionIs ==
  ASSUME NEW n \in Int, NEW d \in Nat \ {0}
  PROVE  /\ n \div d \in Int
         /\ n % d \in 0 .. d - 1
         /\ n = (n \div d) * d + (n % d)
         /\ n \in Nat => n \div d \in Nat /\ n % d \in Nat
OBVIOUS

LEMMA DivisionIsUnique ==
  ASSUME NEW n \in Int, NEW d \in Nat \ {0}, NEW q \in Int, NEW r \in 0 .. d - 1,
         n = q * d + r
  PROVE  n \div d = q /\ n % d = r
<1> DEFINE p == n \div d
           s == n % d
<1>1. p \in Int /\ s \in 0 .. d - 1 /\ n = p * d + s
  BY DivisionIs
<1> HIDE DEF p, s
<1>2. p = q
  <2>1. \A x, y \in Int : x < y => x * d + d <= y * d
    <3> SUFFICES ASSUME NEW x \in Int, NEW y \in Int, x < y
                 PROVE  x * d + d <= y * d
      OBVIOUS
    <3>1. \A u, v \in Nat : u * v \in Nat
      OBVIOUS
    <3>2. y - x - 1 \in Nat
      OBVIOUS
    <3>3. (y - x - 1) * d \in Nat
      BY <3>1, <3>2
    <3>4. (y - x - 1) * d = y * d - x * d - d
      OBVIOUS
    <3> QED BY <3>3, <3>4
  <2>2. p * d \in Int /\ q * d \in Int
    BY <1>1
  <2>3. ~(p < q)
    <3> SUFFICES ASSUME p < q
                 PROVE  FALSE
      OBVIOUS
    <3>1. p * d + d <= q * d
      BY <1>1, <2>1
    <3> QED BY <1>1, <2>2, <3>1
  <2>4. ~(q < p)
    <3> SUFFICES ASSUME q < p
                 PROVE  FALSE
      OBVIOUS
    <3>1. q * d + d <= p * d
      BY <1>1, <2>1
    <3> QED BY <1>1, <2>2, <3>1
  <2> QED BY <1>1, <2>3, <2>4
<1>3. s = r
  <2>1. q * d \in Int
    OBVIOUS
  <2> QED BY <1>1, <1>2, <2>1
<1> QED BY <1>2, <1>3 DEF p, s

\* Dividing by a product is dividing by one factor after the other.
LEMMA DivisionTwice ==
  ASSUME NEW n \in Int, NEW a \in Nat \ {0}, NEW b \in Nat \ {0}
  PROVE  /\ (n \div a) \div b = n \div (a * b)
         /\ n % (a * b) = ((n \div a) % b) * a + (n % a)
<1> DEFINE q == n \div a
           r == n % a
           p == q \div b
           s == q % b
<1>1. q \in Int /\ r \in 0 .. a - 1 /\ n = q * a + r
  BY DivisionIs
<1>2. p \in Int /\ s \in 0 .. b - 1 /\ q = p * b + s
  <2> HIDE DEF q
  <2> QED BY <1>1, DivisionIs
<1> HIDE DEF q, r, p, s
<1>3. a * b \in Nat \ {0} /\ s * a + r \in 0 .. a * b - 1
  <2>1. \A x, y \in Nat \ {0} : x * y \in Nat \ {0}
    OBVIOUS
  <2>2. \A x, y, z \in Nat : z <= y - 1 => z * x \in Nat /\ z * x <= y * x - x
    <3> SUFFICES ASSUME NEW x \in Nat, NEW y \in Nat, NEW z \in Nat, z <= y - 1
                 PROVE  z * x \in Nat /\ z * x <= y * x - x
      OBVIOUS
    <3>1. \A u, v \in Nat : u * v \in Nat
      OBVIOUS
    <3>2. y - 1 - z \in Nat
      OBVIOUS
    <3>3. (y - 1 - z) * x \in Nat
      BY <3>1, <3>2
    <3>4. (y - 1 - z) * x = y * x - x - z * x
      OBVIOUS
    <3> QED BY <3>1, <3>3, <3>4
  <2>3. s * a \in Nat /\ s * a <= b * a - a
    BY <1>2, <2>2
  <2>4. a * b \in Nat \ {0} /\ b * a = a * b
    BY <2>1
  <2> QED BY <1>1, <2>3, <2>4
<1>4. n = p * (a * b) + (s * a + r)
  <2>1. \A x, y, z, u \in Int : (x * y + z) * u = x * (u * y) + z * u
    OBVIOUS
  <2>2. q * a = p * (a * b) + s * a
    BY <1>2, <2>1
  <2>3. p * (a * b) \in Int /\ s * a \in Int
    BY <1>2
  <2> QED BY <1>1, <2>2, <2>3
<1>5. n \div (a * b) = p /\ n % (a * b) = s * a + r
  <2> DEFINE d == a * b
             t == s * a + r
  <2>1. d \in Nat \ {0} /\ t \in 0 .. d - 1 /\ n = p * d + t
    BY <1>3, <1>4
  <2> HIDE DEF d, t
  <2>2. n \div d = p /\ n % d = t
    BY <1>2, <2>1, DivisionIsUnique
  <2> QED BY <2>2 DEF d, t
<1> QED BY <1>5 DEF p, q, r, s

-----------------------------------------------------------------------------
(***************************************************************************)
(* Numerals.                                                               *)
(***************************************************************************)
LEMMA PowersRise ==
  /\ \A n \in Nat : power_of_ten[n] \in Nat \ {0} /\ power_of_ten[n] > n
  /\ \A m, n \in Nat : m <= n => power_of_ten[m] <= power_of_ten[n]
<1> DEFINE S == {n \in Nat : power_of_ten[n] \in Nat \ {0} /\ power_of_ten[n] > n}
<1>1. 0 \in S /\ \A n \in Nat : n \in S => n + 1 \in S
  BY PowersAreDefined
<1>2. Nat \subseteq S
  <2> HIDE DEF S
  <2> QED BY <1>1, NatsByInduction
<1>3. \A n \in Nat : power_of_ten[n] \in Nat \ {0} /\ power_of_ten[n] > n
  BY <1>2
<1>4. ASSUME NEW m \in Nat, NEW n \in Nat, m <= n
      PROVE  power_of_ten[m] <= power_of_ten[n]
  <2> DEFINE k == n - m
             T == {i \in 0..k : power_of_ten[m] <= power_of_ten[m + i]}
  <2>1. k \in Nat /\ m + k = n
    BY <1>4
  <2>2. 0 \in T
    BY <1>3, <2>1
  <2>3. ASSUME NEW i \in 0 .. k - 1, i \in T
        PROVE  i + 1 \in T
    <3>1. m + i \in Nat /\ m + (i + 1) = (m + i) + 1 /\ i + 1 \in 0..k
      BY <2>1
    <3>2. power_of_ten[(m + i) + 1] = power_of_ten[m + i] * 10 /\ power_of_ten[m + i] \in Nat
      BY <3>1, PowersAreDefined
    <3>3. power_of_ten[m] <= power_of_ten[m + i] /\ power_of_ten[m] \in Nat
      BY <1>3, <2>3
    <3> QED BY <3>1, <3>2, <3>3
  <2>4. 0..k \subseteq T
    <3> HIDE DEF T, k
    <3> QED BY <2>1, <2>2, <2>3, IntervalByInduction
  <2>5. power_of_ten[m] <= power_of_ten[m + k]
    <3>1. k \in 0..k
      BY <2>1
    <3>2. k \in T
      <4> HIDE DEF k, T
      <4> QED BY <2>4, <3>1
    <3> HIDE DEF k
    <3> QED BY <3>2
  <2> QED BY <2>1, <2>5
<1> QED BY <1>3, <1>4

LEMMA NumeralIs ==
  ASSUME NEW n \in Nat, NEW w \in Nat
  PROVE  /\ Numeral(n, w) \in Seq(0..9)
         /\ Len(Numeral(n, w)) = w
         /\ \A i \in 1..w : Numeral(n, w)[i] = (n \div power_of_ten[w - i]) % 10
<1> DEFINE digit(i) == (n \div power_of_ten[w - i]) % 10
<1>1. \A i \in 1..w : digit(i) \in 0..9
  <2> TAKE i \in 1..w
  <2>1. power_of_ten[w - i] \in Nat \ {0}
    BY PowersRise
  <2>2. n \div power_of_ten[w - i] \in Int
    BY <2>1
  <2> QED BY <2>2
<1>2. Numeral(n, w) = [i \in 1..w |-> digit(i)]
  BY DEF Numeral
<1> HIDE DEF digit
<1>3. /\ Numeral(n, w) \in Seq(0..9)
      /\ Len(Numeral(n, w)) = w
      /\ \A i \in 1..w : Numeral(n, w)[i] = digit(i)
  BY <1>1, <1>2
<1> QED BY <1>3 DEF digit

\* A numeral one digit longer has one more place behind the others.
LEMMA NumeralOfMore ==
  ASSUME NEW n \in Nat, NEW w \in Nat
  PROVE  /\ n \div 10 \in Nat
         /\ \A i \in 1..w : Numeral(n, w + 1)[i] = Numeral(n \div 10, w)[i]
         /\ Numeral(n, w + 1)[w + 1] = n % 10
<1>1. n \div 10 \in Nat /\ w + 1 \in Nat
  OBVIOUS
<1>2. \A i \in 1 .. w + 1 : Numeral(n, w + 1)[i] = (n \div power_of_ten[(w + 1) - i]) % 10
  BY <1>1, NumeralIs
<1>3. ASSUME NEW i \in 1..w
      PROVE  Numeral(n, w + 1)[i] = Numeral(n \div 10, w)[i]
  <2>1. w - i \in Nat /\ (w + 1) - i = (w - i) + 1 /\ i \in 1 .. w + 1
    OBVIOUS
  <2>2. power_of_ten[(w + 1) - i] = 10 * power_of_ten[w - i] /\ power_of_ten[w - i] \in Nat \ {0}
    <3>1. power_of_ten[w - i] \in Nat \ {0}
      BY <2>1, PowersRise
    <3>2. power_of_ten[(w - i) + 1] = power_of_ten[w - i] * 10
      BY <2>1, PowersAreDefined
    <3>3. \A x \in Nat : x * 10 = 10 * x
      OBVIOUS
    <3> QED BY <2>1, <3>1, <3>2, <3>3
  <2>3. n \div (10 * power_of_ten[w - i]) = (n \div 10) \div power_of_ten[w - i]
    <3> DEFINE b == power_of_ten[w - i]
    <3>1. b \in Nat \ {0} /\ 10 \in Nat \ {0} /\ n \in Int
      BY <2>2
    <3> HIDE DEF b
    <3>2. n \div (10 * b) = (n \div 10) \div b
      BY <3>1, DivisionTwice
    <3> QED BY <3>2 DEF b
  <2>4. Numeral(n, w + 1)[i] = (n \div power_of_ten[(w + 1) - i]) % 10
    BY <1>2, <2>1
  <2>5. Numeral(n \div 10, w)[i] = ((n \div 10) \div power_of_ten[w - i]) % 10
    BY <1>1, NumeralIs
  <2> QED BY <2>2, <2>3, <2>4, <2>5
<1>4. Numeral(n, w + 1)[w + 1] = n % 10
  <2>1. w + 1 \in 1 .. w + 1 /\ (w + 1) - (w + 1) = 0
    OBVIOUS
  <2>2. Numeral(n, w + 1)[w + 1] = (n \div power_of_ten[0]) % 10
    BY <1>2, <2>1
  <2>3. n \div 1 = n
    OBVIOUS
  <2> QED BY <2>2, <2>3, PowersAreDefined
<1> QED BY <1>1, <1>3, <1>4

LEMMA NumberOfNumeral ==
  ASSUME NEW n \in Nat, NEW w \in Nat
  PROVE  NumberOf(Numeral(n, w)) = n % power_of_ten[w]
<1> DEFINE S == {v \in Nat : \A m \in Nat : NumberOf(Numeral(m, v)) = m % power_of_ten[v]}
<1>1. 0 \in S
  <2> SUFFICES ASSUME NEW m \in Nat
               PROVE  NumberOf(Numeral(m, 0)) = m % power_of_ten[0]
    OBVIOUS
  <2>1. NumberOf(Numeral(m, 0)) = 0
    BY NumeralIs, NumberOfNone
  <2>2. m % 1 = 0
    OBVIOUS
  <2> QED BY <2>1, <2>2, PowersAreDefined
<1>2. ASSUME NEW v \in Nat, v \in S
      PROVE  v + 1 \in S
  <2> SUFFICES ASSUME NEW m \in Nat
               PROVE  NumberOf(Numeral(m, v + 1)) = m % power_of_ten[v + 1]
    OBVIOUS
  <2> DEFINE short == Numeral(m \div 10, v)
             long == Numeral(m, v + 1)
  <2>1. m \div 10 \in Nat /\ v + 1 \in Nat
    OBVIOUS
  <2>2. short \in Seq(0..9) /\ Len(short) = v
    BY <2>1, NumeralIs
  <2>3. long \in Seq(0..9) /\ Len(long) = v + 1
    BY <2>1, NumeralIs
  <2>4. (\A i \in 1..v : long[i] = short[i]) /\ long[v + 1] = m % 10
    BY NumeralOfMore
  <2>5. NumberOf(short) = (m \div 10) % power_of_ten[v]
    BY <1>2, <2>1
  <2> HIDE DEF short, long
  <2>6. NumberOf(long) = NumberOf(short) * 10 + long[Len(long)]
    BY <2>2, <2>3, <2>4, NumberOfMore
  <2>7. m % (10 * power_of_ten[v]) = ((m \div 10) % power_of_ten[v]) * 10 + (m % 10)
    <3> DEFINE b == power_of_ten[v]
    <3>1. b \in Nat \ {0} /\ 10 \in Nat \ {0} /\ m \in Int
      BY PowersRise
    <3> HIDE DEF b
    <3>2. m % (10 * b) = ((m \div 10) % b) * 10 + (m % 10)
      BY <3>1, DivisionTwice
    <3> QED BY <3>2 DEF b
  <2>8. power_of_ten[v + 1] = 10 * power_of_ten[v]
    BY PowersAreDefined
  <2>9. NumberOf(long) = m % power_of_ten[v + 1]
    BY <2>3, <2>4, <2>5, <2>6, <2>7, <2>8
  <2> QED BY <2>9 DEF long
<1>3. Nat \subseteq S
  <2> HIDE DEF S
  <2> QED BY <1>1, <1>2, NatsByInduction
<1> QED BY <1>3

LEMMA DigitsAreTheirNumeral ==
  ASSUME NEW digits \in Seq(0..9)
  PROVE  Numeral(NumberOf(digits), Len(digits)) = digits
<1> DEFINE S == {w \in Nat : \A d \in Seq(0..9) : Len(d) = w =>
                              \A i \in 1..w : Numeral(NumberOf(d), w)[i] = d[i]}
<1>1. 0 \in S
  OBVIOUS
<1>2. ASSUME NEW w \in Nat, w \in S
      PROVE  w + 1 \in S
  <2> SUFFICES ASSUME NEW d \in Seq(0..9), Len(d) = w + 1, NEW i \in 1 .. w + 1
               PROVE  Numeral(NumberOf(d), w + 1)[i] = d[i]
    OBVIOUS
  <2> DEFINE front == SubSeq(d, 1, w)
             n == NumberOf(d)
  <2>1. front \in Seq(0..9) /\ Len(front) = w /\ \A j \in 1..w : d[j] = front[j]
    <3>1. 1 \in Int /\ w \in Int /\ \A j \in 1..w : d[j] \in 0..9
      OBVIOUS
    <3>2. /\ SubSeq(d, 1, w) \in Seq(0..9)
          /\ Len(SubSeq(d, 1, w)) = IF 1 <= w THEN w - 1 + 1 ELSE 0
          /\ \A j \in 1 .. w - 1 + 1 : SubSeq(d, 1, w)[j] = d[1 + j - 1]
      BY <3>1, SubSeqProperties
    <3>3. (IF 1 <= w THEN w - 1 + 1 ELSE 0) = w /\ w - 1 + 1 = w
      OBVIOUS
    <3>4. \A j \in 1..w : 1 + j - 1 = j
      OBVIOUS
    <3> QED BY <3>2, <3>3, <3>4
  <2>2. d[w + 1] \in 0..9
    OBVIOUS
  <2> HIDE DEF front
  <2>3. n = NumberOf(front) * 10 + d[w + 1]
    BY <2>1, NumberOfMore
  <2>4. NumberOf(front) \in Nat /\ n \in Nat
    BY <2>1, NumberIsNat
  <2> HIDE DEF n
  <2>5. n \div 10 = NumberOf(front) /\ n % 10 = d[w + 1]
    BY <2>2, <2>3, <2>4, SMTT(60)
  <2>6. /\ \A j \in 1..w : Numeral(n, w + 1)[j] = Numeral(NumberOf(front), w)[j]
        /\ Numeral(n, w + 1)[w + 1] = d[w + 1]
    <3>1. /\ \A j \in 1..w : Numeral(n, w + 1)[j] = Numeral(n \div 10, w)[j]
          /\ Numeral(n, w + 1)[w + 1] = n % 10
      BY <2>4, NumeralOfMore
    <3> QED BY <2>5, <3>1
  <2>7. CASE i = w + 1
    BY <2>6, <2>7 DEF n
  <2>8. CASE i \in 1..w
    <3>1. Numeral(NumberOf(front), w)[i] = front[i]
      BY <1>2, <2>1, <2>8
    <3> QED BY <2>1, <2>6, <2>8, <3>1 DEF n
  <2> QED BY <2>7, <2>8
<1>3. Nat \subseteq S
  <2> HIDE DEF S
  <2> QED BY <1>1, <1>2, NatsByInduction
<1>4. \A i \in 1..Len(digits) : Numeral(NumberOf(digits), Len(digits))[i] = digits[i]
  BY <1>3
<1>5. /\ Numeral(NumberOf(digits), Len(digits)) \in Seq(0..9)
      /\ Len(Numeral(NumberOf(digits), Len(digits))) = Len(digits)
  BY NumberIsNat, NumeralIs
<1> QED BY <1>4, <1>5, SeqEqual

LEMMA NumberIsBelow ==
  ASSUME NEW digits \in Seq(0..9)
  PROVE  /\ NumberOf(digits) \in Nat
         /\ NumberOf(digits) < power_of_ten[Len(digits)]
         /\ NumberOf(digits) % power_of_ten[Len(digits)] = NumberOf(digits)
<1> DEFINE n == NumberOf(digits)
           p == power_of_ten[Len(digits)]
<1>1. n \in Nat /\ p \in Nat \ {0} /\ Len(digits) \in Nat
  BY NumberIsNat, PowersRise
<1>2. n % p = n
  BY <1>1, DigitsAreTheirNumeral, NumberOfNumeral
<1> HIDE DEF n, p
<1>3. n % p \in 0 .. p - 1
  BY <1>1, DivisionIs
<1>4. n < p
  BY <1>1, <1>2, <1>3
<1> QED BY <1>1, <1>2, <1>4 DEF n, p

LEMMA FirstDigitCounts ==
  ASSUME NEW digits \in Seq(0..9), digits # <<>>, digits[1] # 0
  PROVE  NumberOf(digits) >= power_of_ten[Len(digits) - 1]
<1> DEFINE n == NumberOf(digits)
           w == Len(digits)
           p == power_of_ten[w - 1]
<1>1. n \in Nat /\ w \in Nat \ {0} /\ w - 1 \in Nat /\ 1 \in 1..w
  BY NumberIsNat
<1>2. p \in Nat \ {0}
  BY <1>1, PowersRise
<1>3. digits[1] = (n \div p) % 10
  <2>1. Numeral(n, w)[1] = (n \div power_of_ten[w - 1]) % 10
    BY <1>1, NumeralIs
  <2> QED BY <2>1, DigitsAreTheirNumeral
<1> HIDE DEF n, w, p
<1>4. n \div p # 0
  BY <1>3
<1>5. n >= p
  <2> SUFFICES ASSUME n < p
               PROVE  FALSE
    BY <1>1, <1>2
  <2>1. n = 0 * p + n /\ n \in 0 .. p - 1
    BY <1>1, <1>2
  <2> QED BY <1>1, <1>2, <1>4, <2>1, DivisionIsUnique
<1> QED BY <1>5 DEF n, w, p

\* The one width that has neither too few digits nor a digit that could be left
\* out.
Fitting(n, w) ==
  /\ w \in Nat \ {0}
  /\ n < power_of_ten[w]
  /\ w > 1 => n >= power_of_ten[w - 1]

LEMMA WidthIs ==
  ASSUME NEW n \in Nat, NEW w, Fitting(n, w)
  PROVE  Width(n) = w
<1> DEFINE Is(v) == n < power_of_ten[v] /\ \A u \in 1 .. v - 1 : n >= power_of_ten[u]
<1>1. w \in 1 .. n + 1
  <2>1. w > 1 => w - 1 \in Nat /\ power_of_ten[w - 1] > w - 1 /\ power_of_ten[w - 1] \in Nat
    BY PowersRise DEF Fitting
  <2> QED BY <2>1 DEF Fitting
<1>2. \A u \in 1 .. w - 1 : n >= power_of_ten[u]
  <2> TAKE u \in 1 .. w - 1
  <2>1. u \in Nat /\ w - 1 \in Nat /\ u <= w - 1 /\ w > 1
    BY DEF Fitting
  <2>2. /\ power_of_ten[u] <= power_of_ten[w - 1]
        /\ power_of_ten[u] \in Nat /\ power_of_ten[w - 1] \in Nat
    BY <2>1, PowersRise
  <2>3. n >= power_of_ten[w - 1]
    BY <2>1 DEF Fitting
  <2> QED BY <2>2, <2>3
<1>3. Is(w)
  BY <1>2 DEF Fitting
<1>4. ASSUME NEW v \in 1 .. n + 1, Is(v)
      PROVE  v = w
  <2>1. v \in Nat \ {0} /\ w \in Nat \ {0}
    BY DEF Fitting
  <2>2. power_of_ten[v] \in Nat /\ power_of_ten[w] \in Nat
    BY <2>1, PowersRise
  <2>3. ~(v < w)
    <3> SUFFICES ASSUME v < w
                 PROVE  FALSE
      OBVIOUS
    <3>1. v \in 1 .. w - 1
      BY <2>1
    <3> QED BY <1>2, <1>4, <2>2, <3>1
  <2>4. ~(w < v)
    <3> SUFFICES ASSUME w < v
                 PROVE  FALSE
      OBVIOUS
    <3>1. w \in 1 .. v - 1
      BY <2>1
    <3> QED BY <1>3, <1>4, <2>2, <3>1
  <2> QED BY <2>1, <2>3, <2>4
<1>5. Width(n) = CHOOSE v \in 1 .. n + 1 : Is(v)
  BY DEF Width
<1> HIDE DEF Is
<1> QED BY <1>1, <1>3, <1>4, <1>5

LEMMA WidthFits ==
  ASSUME NEW n \in Nat
  PROVE  Fitting(n, Width(n))
<1> DEFINE S == {w \in Nat : w # 0 /\ n < power_of_ten[w]}
<1>1. n + 1 \in S
  <2>1. power_of_ten[n + 1] > n + 1 /\ power_of_ten[n + 1] \in Nat
    BY PowersRise
  <2> QED BY <2>1
<1>2. PICK w \in S : \A v \in S : w <= v
  <2>1. S \subseteq Nat /\ S # {}
    BY <1>1
  <2> HIDE DEF S
  <2> QED BY <2>1, LeastExists
<1>3. Fitting(n, w)
  <2>1. w \in Nat \ {0} /\ n < power_of_ten[w]
    BY <1>2
  <2>2. ASSUME w > 1
        PROVE  n >= power_of_ten[w - 1]
    <3>1. w - 1 \in Nat /\ w - 1 # 0 /\ ~(w <= w - 1)
      BY <2>1, <2>2
    <3>2. w - 1 \notin S
      BY <1>2, <3>1
    <3>3. power_of_ten[w - 1] \in Nat
      BY <3>1, PowersRise
    <3> QED BY <3>1, <3>2, <3>3
  <2> QED BY <2>1, <2>2 DEF Fitting
<1> QED BY <1>3, WidthIs

-----------------------------------------------------------------------------
(***************************************************************************)
(* Runs of digits in the text, and how a text is split into two of them.   *)
(***************************************************************************)
Digits(b, e) == \A i \in b .. e - 1 : DigitAt(i)

Reading(b, e) == NumberOf(SubSeq(text, b, e - 1))

LEMMA RunIsDigits ==
  ASSUME text \in Seq(Characters), NEW b \in Nat \ {0}, NEW e \in Nat, b <= e, Digits(b, e)
  PROVE  /\ SubSeq(text, b, e - 1) \in Seq(0..9)
         /\ Len(SubSeq(text, b, e - 1)) = e - b
         /\ \A i \in 1 .. e - b : SubSeq(text, b, e - 1)[i] = text[b + i - 1]
<1>1. \A i \in b .. e - 1 : text[i] \in 0..9
  BY DEF Digits, DigitAt, is_digit
<1>2. b \in Int /\ e - 1 \in Int
  OBVIOUS
<1>3. /\ SubSeq(text, b, e - 1) \in Seq(0..9)
      /\ Len(SubSeq(text, b, e - 1)) = IF b <= e - 1 THEN (e - 1) - b + 1 ELSE 0
      /\ \A i \in 1 .. (e - 1) - b + 1 : SubSeq(text, b, e - 1)[i] = text[b + i - 1]
  <2> DEFINE m == e - 1
  <2>1. /\ m \in Int
        /\ \A i \in b..m : text[i] \in 0..9
    BY <1>1, <1>2
  <2> HIDE DEF m
  <2>2. /\ SubSeq(text, b, m) \in Seq(0..9)
        /\ Len(SubSeq(text, b, m)) = IF b <= m THEN m - b + 1 ELSE 0
        /\ \A i \in 1 .. m - b + 1 : SubSeq(text, b, m)[i] = text[b + i - 1]
    BY <1>2, <2>1, SubSeqProperties
  <2> QED BY <2>2 DEF m
<1>4. (e - 1) - b + 1 = e - b
  OBVIOUS
<1>5. (IF b <= e - 1 THEN (e - 1) - b + 1 ELSE 0) = e - b
  OBVIOUS
<1> QED BY <1>3, <1>4, <1>5

LEMMA ReadingIsNat ==
  ASSUME text \in Seq(Characters), NEW b \in Nat \ {0}, NEW e \in Nat, b <= e, Digits(b, e)
  PROVE  Reading(b, e) \in Nat
BY RunIsDigits, NumberIsNat DEF Reading

LEMMA ReadingStarts ==
  ASSUME text \in Seq(Characters), NEW b \in Nat \ {0}
  PROVE  Digits(b, b) /\ Reading(b, b) = 0
<1>1. Digits(b, b)
  BY DEF Digits
<1>2. SubSeq(text, b, b - 1) \in Seq(0..9) /\ Len(SubSeq(text, b, b - 1)) = 0
  BY <1>1, RunIsDigits
<1> QED BY <1>1, <1>2, NumberOfNone DEF Reading

LEMMA ReadingGoesOn ==
  ASSUME text \in Seq(Characters), NEW b \in Nat \ {0}, NEW e \in Nat, b <= e,
         Digits(b, e), DigitAt(e)
  PROVE  /\ Digits(b, e + 1)
         /\ Reading(b, e + 1) = Reading(b, e) * 10 + text[e]
         /\ Reading(b, e) \in Nat /\ text[e] \in 0..9
<1>1. Digits(b, e + 1)
  <2> SUFFICES ASSUME NEW i \in b .. (e + 1) - 1
               PROVE  DigitAt(i)
    BY DEF Digits
  <2>1. i = e \/ i \in b .. e - 1
    OBVIOUS
  <2> QED BY <2>1 DEF Digits
<1> DEFINE digits == SubSeq(text, b, e - 1)
           more == SubSeq(text, b, (e + 1) - 1)
           n == e - b
<1>2. digits \in Seq(0..9) /\ Len(digits) = n
      /\ \A i \in 1 .. n : digits[i] = text[b + i - 1]
  BY RunIsDigits
<1>3. more \in Seq(0..9) /\ Len(more) = n + 1
      /\ \A i \in 1 .. n + 1 : more[i] = text[b + i - 1]
  <2>1. e + 1 \in Nat /\ b <= e + 1 /\ (e + 1) - b = n + 1
    OBVIOUS
  <2> QED BY <1>1, <2>1, RunIsDigits
<1>4. n \in Nat /\ n + 1 \in 1 .. n + 1 /\ b + (n + 1) - 1 = e
  OBVIOUS
<1> HIDE DEF digits, more, n
<1>5. Len(more) = Len(digits) + 1 /\ \A i \in 1..Len(digits) : more[i] = digits[i]
  <2>1. \A i \in 1..n : i \in 1 .. n + 1
    BY <1>4
  <2>2. \A i \in 1..n : more[i] = digits[i]
    BY <1>2, <1>3, <2>1, ZenonT(60)
  <2>3. Len(more) = Len(digits) + 1
    BY <1>2, <1>3, ZenonT(60)
  <2> QED BY <1>2, <2>2, <2>3, ZenonT(60)
<1>6. more[Len(more)] = text[e]
  BY <1>2, <1>3, <1>4
<1>7. NumberOf(more) = NumberOf(digits) * 10 + text[e]
  BY <1>2, <1>3, <1>5, <1>6, NumberOfMore
<1>8. Reading(b, e) \in Nat /\ text[e] \in 0..9
  BY ReadingIsNat DEF DigitAt, is_digit
<1> QED BY <1>1, <1>7, <1>8 DEF Reading, digits, more

\* A longer run is not a smaller number.
LEMMA ReadingGrows ==
  ASSUME text \in Seq(Characters), NEW b \in Nat \ {0}, NEW e \in Nat, NEW c \in b..e,
         Digits(b, e)
  PROVE  Digits(b, c) /\ Reading(b, c) <= Reading(b, e)
<1> DEFINE m == e - c
           S == {n \in 0..m : Reading(b, c) <= Reading(b, c + n)}
<1>1. \A n \in 0..m : c + n \in Nat /\ b <= c + n /\ Digits(b, c + n)
  BY DEF Digits
<1>2. \A n \in 0..m : Reading(b, c + n) \in Nat
  BY <1>1, ReadingIsNat
<1>3. m \in Nat /\ 0 \in 0..m /\ c + 0 = c /\ c + m = e
  OBVIOUS
<1>4. 0 \in S
  BY <1>2, <1>3
<1>5. ASSUME NEW n \in 0 .. m - 1, n \in S
      PROVE  n + 1 \in S
  <2>1. n \in 0..m /\ n + 1 \in 0..m /\ c + (n + 1) = (c + n) + 1 /\ c + n \in b .. e - 1
    BY <1>3
  <2>2. DigitAt(c + n)
    BY <2>1 DEF Digits
  <2>3. /\ Reading(b, (c + n) + 1) = Reading(b, c + n) * 10 + text[c + n]
        /\ Reading(b, c + n) \in Nat /\ text[c + n] \in 0..9
    BY <1>1, <2>1, <2>2, ReadingGoesOn
  <2>4. Reading(b, c) <= Reading(b, c + n) /\ Reading(b, c) \in Nat
    BY <1>2, <1>3, <1>5
  <2>5. Reading(b, c) <= Reading(b, (c + n) + 1)
    BY <2>3, <2>4, SMTT(60)
  <2> QED BY <2>1, <2>5
<1>6. 0..m \subseteq S
  <2> HIDE DEF S, m
  <2> QED BY <1>3, <1>4, <1>5, IntervalByInduction
<1>7. Digits(b, c)
  BY DEF Digits
<1>8. Reading(b, c) <= Reading(b, c + m)
  <2>1. m \in 0..m
    BY <1>3
  <2>2. m \in S
    <3> HIDE DEF S, m
    <3> QED BY <1>6, <2>1
  <2> QED BY <2>2
<1>9. c + m = e
  BY <1>3
<1> HIDE DEF m
<1> QED BY <1>7, <1>8, <1>9

\* There is one end to a run of digits.
LEMMA RunsEndOnce ==
  ASSUME NEW b \in Nat, NEW e \in Nat, NEW f \in Nat, b <= e, b <= f,
         Digits(b, e), Digits(b, f), ~DigitAt(e)
  PROVE  /\ f <= e
         /\ ~DigitAt(f) => f = e
<1>1. ~(e < f)
  <2> SUFFICES ASSUME e < f
               PROVE  FALSE
    OBVIOUS
  <2>1. e \in b .. f - 1
    OBVIOUS
  <2> QED BY <2>1 DEF Digits
<1>2. ~DigitAt(f) => ~(f < e)
  <2> SUFFICES ASSUME f < e, ~DigitAt(f)
               PROVE  FALSE
    OBVIOUS
  <2>1. f \in b .. e - 1
    OBVIOUS
  <2> QED BY <2>1 DEF Digits
<1> QED BY <1>1, <1>2

First == IF Signed(text) THEN 2 ELSE 1

Unsigned == IF Signed(text) THEN Tail(text) ELSE text

LEMMA UnsignedIs ==
  ASSUME text \in Seq(Characters)
  PROVE  /\ Unsigned \in Seq(Characters)
         /\ First \in {1, 2}
         /\ Len(Unsigned) \in Nat
         /\ Len(text) \in Nat
         /\ Len(text) = Len(Unsigned) + First - 1
         /\ \A i \in 1..Len(Unsigned) : Unsigned[i] = text[i + First - 1]
<1>1. CASE Signed(text)
  <2>1. text # <<>>
    BY <1>1 DEF Signed
  <2>2. /\ Tail(text) \in Seq(Characters)
        /\ Len(Tail(text)) = Len(text) - 1
        /\ \A i \in 1..Len(Tail(text)) : Tail(text)[i] = text[i + 1]
    BY <2>1, HeadTailProperties
  <2>3. Unsigned = Tail(text) /\ First = 2
    BY <1>1 DEF Unsigned, First
  <2>4. Len(text) \in Nat /\ Len(Tail(text)) \in Nat
    BY <2>2
  <2>5. \A i \in 1..Len(Tail(text)) : i + 2 - 1 = i + 1
    BY <2>4
  <2> QED BY <2>2, <2>3, <2>4, <2>5
<1>2. CASE ~Signed(text)
  <2>1. Unsigned = text /\ First = 1
    BY <1>2 DEF Unsigned, First
  <2>2. \A i \in 1..Len(text) : i + 1 - 1 = i
    OBVIOUS
  <2> QED BY <2>1, <2>2
<1> QED BY <1>1, <1>2

LEMMA PartOfUnsigned ==
  ASSUME text \in Seq(Characters), NEW a \in Nat \ {0}, NEW b \in Nat,
         a <= b + 1, b <= Len(Unsigned)
  PROVE  /\ SubSeq(Unsigned, a, b) = SubSeq(text, a + First - 1, b + First - 1)
         /\ Len(SubSeq(Unsigned, a, b)) = b + 1 - a
<1> DEFINE c == a + First - 1
           d == b + First - 1
<1>0. /\ Unsigned \in Seq(Characters)
      /\ First \in {1, 2}
      /\ Len(Unsigned) \in Nat
      /\ Len(text) = Len(Unsigned) + First - 1
      /\ \A i \in 1..Len(Unsigned) : Unsigned[i] = text[i + First - 1]
  BY UnsignedIs
<1>1. \A i \in a..b : Unsigned[i] \in Characters
  BY <1>0
<1>2. c \in Int /\ d \in Int /\ d - c = b - a /\ \A i \in c..d : text[i] \in Characters
  BY <1>0
<1>3. /\ SubSeq(Unsigned, a, b) \in Seq(Characters)
      /\ Len(SubSeq(Unsigned, a, b)) = IF a <= b THEN b - a + 1 ELSE 0
      /\ \A i \in 1 .. b - a + 1 : SubSeq(Unsigned, a, b)[i] = Unsigned[a + i - 1]
  <2>1. a \in Int /\ b \in Int
    OBVIOUS
  <2> QED BY <1>1, <2>1, SubSeqProperties
<1>4. /\ SubSeq(text, c, d) \in Seq(Characters)
      /\ Len(SubSeq(text, c, d)) = IF c <= d THEN d - c + 1 ELSE 0
      /\ \A i \in 1 .. d - c + 1 : SubSeq(text, c, d)[i] = text[c + i - 1]
  <2> HIDE DEF c, d
  <2> QED BY <1>2, SubSeqProperties
<1>5. Len(SubSeq(Unsigned, a, b)) = b + 1 - a /\ Len(SubSeq(text, c, d)) = b + 1 - a
  <2>1. (c <= d <=> a <= b) /\ d - c + 1 = b - a + 1
    BY <1>0
  <2>2. (IF a <= b THEN b - a + 1 ELSE 0) = b + 1 - a
    OBVIOUS
  <2>3. (IF c <= d THEN d - c + 1 ELSE 0) = b + 1 - a
    <3> HIDE DEF c, d
    <3> QED BY <2>1, <2>2
  <2> HIDE DEF c, d
  <2> DEFINE p == IF a <= b THEN b - a + 1 ELSE 0
             q == IF c <= d THEN d - c + 1 ELSE 0
  <2>4. Len(SubSeq(Unsigned, a, b)) = p /\ Len(SubSeq(text, c, d)) = q
    BY <1>3, <1>4
  <2>5. p = b + 1 - a /\ q = b + 1 - a
    BY <2>2, <2>3
  <2> HIDE DEF p, q
  <2> QED BY <2>4, <2>5
<1>6. \A i \in 1 .. b - a + 1 : SubSeq(Unsigned, a, b)[i] = SubSeq(text, c, d)[i]
  <2> TAKE i \in 1 .. b - a + 1
  <2>1. a + i - 1 \in 1..Len(Unsigned) /\ (a + i - 1) + First - 1 = c + i - 1
    BY <1>0
  <2>2. SubSeq(Unsigned, a, b)[i] = Unsigned[a + i - 1]
    BY <1>3
  <2>3. Unsigned[a + i - 1] = text[(a + i - 1) + First - 1]
    BY <1>0, <2>1
  <2>4. SubSeq(text, c, d)[i] = text[c + i - 1]
    BY <1>2, <1>4
  <2> HIDE DEF c, d
  <2> QED BY <2>1, <2>2, <2>3, <2>4
<1>7. SubSeq(Unsigned, a, b) = SubSeq(text, c, d)
  <2> DEFINE s == SubSeq(Unsigned, a, b)
             t == SubSeq(text, c, d)
  <2>1. /\ s \in Seq(Characters) /\ t \in Seq(Characters) /\ Len(s) = Len(t)
        /\ \A i \in 1..Len(s) : s[i] = t[i]
    <3>1. b + 1 - a = b - a + 1
      OBVIOUS
    <3> QED BY <1>3, <1>4, <1>5, <1>6, <3>1
  <2> HIDE DEF s, t
  <2>2. s = t
    BY <2>1, SeqEqual
  <2> QED BY <2>2 DEF s, t
<1> QED BY <1>5, <1>7

\* The two parts of a text lie on both sides of a position, at which it ends or
\* has its point.
PartAt(e, split) ==
  /\ e \in First + 1 .. Len(text) + 1
  /\ Digits(First, e)
  /\ split.integer = SubSeq(text, First, e - 1)
  /\ \/ e = Len(text) + 1 /\ split.fraction = <<>>
     \/ /\ e <= Len(text)
        /\ text[e] = Point
        /\ split.fraction = SubSeq(text, e + 1, Len(text))
        /\ Digits(e + 1, Len(text) + 1)
        /\ Len(text) - e \in 1..form.fractional_digits

LEMMA SplitsLieSomewhere ==
  ASSUME text \in Seq(Characters), form.fractional_digits \in Nat,
         NEW split \in SplitsOf(text)
  PROVE  \E e \in Nat : PartAt(e, split)
<1> DEFINE n == Len(Unsigned)
<1>0. /\ Unsigned \in Seq(Characters)
      /\ First \in {1, 2}
      /\ n \in Nat
      /\ Len(text) \in Nat
      /\ Len(text) = n + First - 1
      /\ \A i \in 1..n : Unsigned[i] = text[i + First - 1]
      /\ \A i \in 1..n : Unsigned[i] \in Characters
  <2>1. Unsigned \in Seq(Characters)
    BY UnsignedIs
  <2>2. \A i \in 1..n : Unsigned[i] \in Characters
    BY <2>1
  <2> QED BY <2>2, UnsignedIs
<1>1. PICK point \in 1 .. n + 1 : split = Split(Unsigned, point)
  BY DEF SplitsOf, Splits, Unsigned
<1>2. /\ split.integer # <<>>
      /\ \A i \in DOMAIN split.integer : is_digit(split.integer[i])
      /\ \A i \in DOMAIN split.fraction : is_digit(split.fraction[i])
      /\ IF split.integer = Unsigned THEN split.fraction = <<>>
         ELSE /\ Unsigned[Len(split.integer) + 1] = Point
              /\ Len(split.fraction) \in 1..form.fractional_digits
  BY DEF SplitsOf, Splits, Unsigned
<1>3. /\ split.integer = SubSeq(Unsigned, 1, point - 1)
      /\ split.fraction = SubSeq(Unsigned, point + 1, n)
  BY <1>1 DEF Split
<1> HIDE DEF n
<1> DEFINE e == point + First - 1
<1>4. point - 1 \in Nat /\ 1 \in Nat \ {0} /\ 1 <= (point - 1) + 1 /\ point - 1 <= n
  BY <1>0
<1>5. /\ split.integer = SubSeq(text, 1 + First - 1, (point - 1) + First - 1)
      /\ Len(split.integer) = (point - 1) + 1 - 1
  <2> DEFINE a == 1
             b == point - 1
  <2>1. b \in Nat /\ a \in Nat \ {0} /\ a <= b + 1 /\ b <= Len(Unsigned)
    BY <1>4 DEF n
  <2> HIDE DEF a, b
  <2>2. /\ SubSeq(Unsigned, a, b) = SubSeq(text, a + First - 1, b + First - 1)
        /\ Len(SubSeq(Unsigned, a, b)) = b + 1 - a
    BY <2>1, PartOfUnsigned
  <2> QED BY <1>3, <2>2 DEF a, b
<1>6. 1 + First - 1 = First /\ (point - 1) + First - 1 = e - 1 /\ (point - 1) + 1 - 1 = point - 1
  BY <1>0
<1>7. split.integer = SubSeq(text, First, e - 1) /\ Len(split.integer) = point - 1
  BY <1>5, <1>6
<1>8. point # 1
  <2> SUFFICES ASSUME point = 1
               PROVE  FALSE
    OBVIOUS
  <2>1. SubSeq(Unsigned, 1, 0) = <<>>
    BY SubSeqEmpty
  <2> QED BY <1>2, <1>3, <2>1
<1>9. e \in First + 1 .. Len(text) + 1 /\ e \in Nat
  BY <1>0, <1>8
<1>10. \A i \in 1 .. point - 1 : split.integer[i] = Unsigned[i]
  BY <1>0, <1>3
<1>11. Digits(First, e)
  <2> SUFFICES ASSUME NEW i \in First .. e - 1
               PROVE  DigitAt(i)
    BY DEF Digits
  <2> DEFINE k == i - First + 1
  <2>1. k \in 1 .. point - 1 /\ k \in 1..n /\ k + First - 1 = i /\ i <= Len(text)
    BY <1>0
  <2> HIDE DEF k, e
  <2>2. split.integer[k] = text[i]
    BY <1>0, <1>10, <2>1
  <2>3. k \in DOMAIN split.integer
    <3> DEFINE b == point - 1
    <3>1. 1 \in Int /\ b \in Int /\ \A j \in 1..b : Unsigned[j] \in Characters
      BY <1>0, <1>4
    <3> HIDE DEF b
    <3>2. SubSeq(Unsigned, 1, b) \in Seq(Characters)
      BY <3>1, SubSeqProperties
    <3>3. split.integer \in Seq(Characters)
      BY <1>3, <3>2 DEF b
    <3> QED BY <1>7, <2>1, <3>3
  <2> QED BY <1>2, <2>1, <2>2, <2>3 DEF DigitAt
<1>12. CASE point = n + 1
  <2>1. split.fraction = <<>>
    <3>1. n \in Int /\ (n + 1) + 1 \in Int /\ n < (n + 1) + 1
      BY <1>0
    <3> QED BY <1>3, <1>12, <3>1, SubSeqEmpty
  <2>2. e = Len(text) + 1
    BY <1>0, <1>12
  <2> HIDE DEF e
  <2> QED BY <1>7, <1>9, <1>11, <2>1, <2>2 DEF PartAt
<1>13. CASE point # n + 1
  <2>1. split.integer # Unsigned
    <3>1. point - 1 # n
      BY <1>0, <1>13
    <3> QED BY <1>7, <3>1 DEF n
  <2>2. Unsigned[point] = Point /\ Len(split.fraction) \in 1..form.fractional_digits
    <3>1. Len(split.integer) + 1 = point
      <4>1. (point - 1) + 1 = point
        BY <1>0
      <4> QED BY <1>7, <4>1
    <3> QED BY <1>2, <2>1, <3>1
  <2>3. point \in 1..n /\ e <= Len(text) /\ Len(text) - e = n - point
    BY <1>0, <1>13
  <2>4. text[e] = Point
    BY <1>0, <2>2, <2>3
  <2>5. /\ split.fraction = SubSeq(text, (point + 1) + First - 1, n + First - 1)
        /\ Len(split.fraction) = n + 1 - (point + 1)
    <3> DEFINE a == point + 1
    <3>1. n \in Nat /\ a \in Nat \ {0} /\ a <= n + 1 /\ n <= Len(Unsigned)
      BY <1>0, <2>3 DEF n
    <3> HIDE DEF a
    <3>2. /\ SubSeq(Unsigned, a, n) = SubSeq(text, a + First - 1, n + First - 1)
          /\ Len(SubSeq(Unsigned, a, n)) = n + 1 - a
      BY <3>1, PartOfUnsigned
    <3> QED BY <1>3, <3>2 DEF a
  <2>6. (point + 1) + First - 1 = e + 1 /\ n + First - 1 = Len(text)
        /\ n + 1 - (point + 1) = Len(text) - e
    BY <1>0, <2>3
  <2>7. split.fraction = SubSeq(text, e + 1, Len(text)) /\ Len(split.fraction) = Len(text) - e
    BY <2>5, <2>6
  <2>8. Digits(e + 1, Len(text) + 1)
    <3> SUFFICES ASSUME NEW i \in e + 1 .. (Len(text) + 1) - 1
                 PROVE  DigitAt(i)
      BY DEF Digits
    <3>0. e + 1 \in Int /\ Len(text) \in Int /\ \A j \in e + 1 .. Len(text) : text[j] \in Characters
      BY <1>0, <1>9
    <3> DEFINE k == i - (e + 1) + 1
               b == e + 1
    <3>1. k \in 1 .. Len(text) - e /\ k \in 1 .. Len(text) - b + 1 /\ b + k - 1 = i /\ i <= Len(text)
      BY <1>0, <1>9
    <3> HIDE DEF k
    <3>2. /\ split.fraction \in Seq(Characters)
          /\ \A j \in 1 .. Len(text) - b + 1 : split.fraction[j] = text[b + j - 1]
      <4> HIDE DEF b
      <4>1. b \in Int /\ Len(text) \in Int /\ \A j \in b .. Len(text) : text[j] \in Characters
        BY <3>0 DEF b
      <4>2. /\ SubSeq(text, b, Len(text)) \in Seq(Characters)
            /\ \A j \in 1 .. Len(text) - b + 1 : SubSeq(text, b, Len(text))[j] = text[b + j - 1]
        BY <4>1, SubSeqProperties
      <4> QED BY <2>7, <4>2 DEF b
    <3> HIDE DEF b
    <3>3. split.fraction[k] = text[i]
      BY <3>1, <3>2
    <3>4. k \in DOMAIN split.fraction
      BY <2>7, <3>1, <3>2
    <3> QED BY <1>2, <3>1, <3>3, <3>4 DEF DigitAt
  <2>9. Len(text) - e \in 1..form.fractional_digits
    BY <2>2, <2>7
  <2> HIDE DEF e
  <2> QED BY <1>7, <1>9, <1>11, <2>3, <2>4, <2>7, <2>8, <2>9 DEF PartAt
<1> QED BY <1>12, <1>13

LEMMA PartsAreSplits ==
  ASSUME text \in Seq(Characters), form.fractional_digits \in Nat,
         NEW e \in Nat, NEW integer, NEW fraction,
         PartAt(e, [integer |-> integer, fraction |-> fraction])
  PROVE  [integer |-> integer, fraction |-> fraction] \in SplitsOf(text)
<1> DEFINE n == Len(Unsigned)
           split == [integer |-> integer, fraction |-> fraction]
           point == e - First + 1
<1>0. /\ Unsigned \in Seq(Characters)
      /\ First \in {1, 2}
      /\ n \in Nat
      /\ Len(text) \in Nat
      /\ Len(text) = n + First - 1
      /\ \A i \in 1..n : Unsigned[i] = text[i + First - 1]
  BY UnsignedIs
<1>1. /\ e \in First + 1 .. Len(text) + 1
      /\ Digits(First, e)
      /\ integer = SubSeq(text, First, e - 1)
      /\ \/ e = Len(text) + 1 /\ fraction = <<>>
         \/ /\ e <= Len(text)
            /\ text[e] = Point
            /\ fraction = SubSeq(text, e + 1, Len(text))
            /\ Digits(e + 1, Len(text) + 1)
            /\ Len(text) - e \in 1..form.fractional_digits
  BY DEF PartAt
<1> HIDE DEF n
<1>2. /\ point \in 2 .. n + 1
      /\ 1 + First - 1 = First
      /\ (point - 1) + First - 1 = e - 1
      /\ point - 1 = e - First
  BY <1>0, <1>1
<1>3. SubSeq(Unsigned, 1, point - 1) = integer
  <2> DEFINE a == 1
             b == point - 1
  <2>1. b \in Nat /\ a \in Nat \ {0} /\ a <= b + 1 /\ b <= Len(Unsigned)
    BY <1>0, <1>2 DEF n
  <2> HIDE DEF a, b
  <2>2. SubSeq(Unsigned, a, b) = SubSeq(text, a + First - 1, b + First - 1)
    BY <2>1, PartOfUnsigned
  <2> HIDE DEF point
  <2> QED BY <1>1, <1>2, <2>2 DEF a, b
<1>4. /\ integer \in Seq(0..9)
      /\ Len(integer) = point - 1
  BY <1>0, <1>1, <1>2, RunIsDigits
<1>5. integer # <<>> /\ \A i \in DOMAIN integer : is_digit(integer[i])
  BY <1>2, <1>4 DEF is_digit
<1>6. Split(Unsigned, point) = [integer  |-> integer,
                                fraction |-> SubSeq(Unsigned, point + 1, n)]
  BY <1>3 DEF Split, n
<1>7. ASSUME fraction = SubSeq(Unsigned, point + 1, n),
             \A i \in DOMAIN fraction : is_digit(fraction[i]),
             IF integer = Unsigned THEN fraction = <<>>
             ELSE /\ Unsigned[Len(integer) + 1] = Point
                  /\ Len(fraction) \in 1..form.fractional_digits
      PROVE  split \in SplitsOf(text)
  <2>1. split = Split(Unsigned, point) /\ point \in 1 .. Len(Unsigned) + 1
    BY <1>0, <1>2, <1>6, <1>7 DEF n
  <2> HIDE DEF point
  <2>2. split \in {Split(Unsigned, q) : q \in 1 .. Len(Unsigned) + 1}
    BY <2>1
  <2>3. /\ split.integer # <<>>
        /\ \A i \in DOMAIN split.integer : is_digit(split.integer[i])
        /\ \A i \in DOMAIN split.fraction : is_digit(split.fraction[i])
        /\ IF split.integer = Unsigned THEN split.fraction = <<>>
           ELSE /\ Unsigned[Len(split.integer) + 1] = Point
                /\ Len(split.fraction) \in 1..form.fractional_digits
    BY <1>5, <1>7
  <2> HIDE DEF split
  <2>4. split \in Splits(Unsigned, form.fractional_digits)
    BY <2>2, <2>3 DEF Splits
  <2> QED BY <2>4 DEF SplitsOf, Unsigned
<1>8. CASE e = Len(text) + 1 /\ fraction = <<>>
  <2>1. point = n + 1
    BY <1>0, <1>8
  <2>2. integer = Unsigned
    <3>1. point - 1 = n
      BY <1>0, <2>1
    <3> QED BY <1>0, <1>3, <3>1, SubSeqFull DEF n
  <2>3. SubSeq(Unsigned, point + 1, n) = <<>>
    <3>1. n \in Int /\ point + 1 \in Int /\ n < point + 1
      BY <1>0, <2>1
    <3> QED BY <3>1, SubSeqEmpty
  <2>4. \A i \in DOMAIN fraction : is_digit(fraction[i])
    BY <1>8
  <2> HIDE DEF point, split
  <2> QED BY <1>7, <1>8, <2>2, <2>3, <2>4 DEF split
<1>9. CASE /\ e <= Len(text)
           /\ text[e] = Point
           /\ fraction = SubSeq(text, e + 1, Len(text))
           /\ Digits(e + 1, Len(text) + 1)
           /\ Len(text) - e \in 1..form.fractional_digits
  <2>1. point \in 1..n /\ point + First - 1 = e
    BY <1>0, <1>2, <1>9
  <2>2. integer # Unsigned
    <3>1. point - 1 # n
      BY <1>0, <2>1
    <3> QED BY <1>4, <3>1 DEF n
  <2>3. Unsigned[Len(integer) + 1] = Point
    <3>1. (point - 1) + 1 = point
      BY <1>0, <2>1
    <3>2. Unsigned[point] = Point
      BY <1>0, <1>9, <2>1
    <3> QED BY <1>4, <3>1, <3>2
  <2>4. fraction = SubSeq(Unsigned, point + 1, n)
    <3> DEFINE a == point + 1
    <3>1. n \in Nat /\ a \in Nat \ {0} /\ a <= n + 1 /\ n <= Len(Unsigned)
      BY <1>0, <2>1 DEF n
    <3>2. a + First - 1 = e + 1 /\ n + First - 1 = Len(text)
      BY <1>0, <2>1
    <3> HIDE DEF a
    <3>3. SubSeq(Unsigned, a, n) = SubSeq(text, a + First - 1, n + First - 1)
      BY <3>1, PartOfUnsigned
    <3> QED BY <1>9, <3>2, <3>3 DEF a
  <2>5. /\ fraction \in Seq(0..9)
        /\ Len(fraction) = Len(text) - e
    <3>1. /\ e + 1 \in Nat \ {0} /\ Len(text) + 1 \in Nat /\ e + 1 <= Len(text) + 1
          /\ (Len(text) + 1) - 1 = Len(text)
          /\ (Len(text) + 1) - (e + 1) = Len(text) - e
      BY <1>0, <1>9
    <3>2. /\ SubSeq(text, e + 1, (Len(text) + 1) - 1) \in Seq(0..9)
          /\ Len(SubSeq(text, e + 1, (Len(text) + 1) - 1)) = (Len(text) + 1) - (e + 1)
      BY <1>9, <3>1, RunIsDigits
    <3> QED BY <1>9, <3>1, <3>2
  <2>6. \A i \in DOMAIN fraction : is_digit(fraction[i])
    BY <2>5 DEF is_digit
  <2>7. Len(fraction) \in 1..form.fractional_digits
    BY <1>9, <2>5
  <2> HIDE DEF point, split
  <2> QED BY <1>7, <2>2, <2>3, <2>4, <2>6, <2>7 DEF split
<1> QED BY <1>1, <1>8, <1>9

\* What the two parts say.
Whole(e) == Reading(First, e) * power_of_ten[form.fractional_digits]

Part(b, e) == Reading(b, e) * power_of_ten[form.fractional_digits - (e - b)]

LEMMA WhatPartsSay ==
  ASSUME text \in Seq(Characters), form.fractional_digits \in Nat,
         NEW e \in Nat, NEW split, PartAt(e, split)
  PROVE  /\ Whole(e) \in Nat
         /\ e = Len(text) + 1 => Says(split) = Whole(e)
         /\ e <= Len(text) => /\ Part(e + 1, Len(text) + 1) \in Nat
                              /\ Says(split) = Whole(e) + Part(e + 1, Len(text) + 1)
<1> DEFINE P == form.fractional_digits
           n == Len(text)
<1>0. First \in {1, 2} /\ n \in Nat /\ P \in Nat
  BY UnsignedIs
<1>1. /\ e \in First + 1 .. n + 1
      /\ Digits(First, e)
      /\ split.integer = SubSeq(text, First, e - 1)
      /\ \/ e = n + 1 /\ split.fraction = <<>>
         \/ /\ e <= n
            /\ split.fraction = SubSeq(text, e + 1, n)
            /\ Digits(e + 1, n + 1)
            /\ n - e \in 1..P
  BY DEF PartAt
<1>2. NumberOf(split.integer) = Reading(First, e)
  BY <1>1 DEF Reading
<1>3. \A x, y \in Nat : x * y \in Nat
  OBVIOUS
<1>4. Whole(e) \in Nat
  <2>1. Reading(First, e) \in Nat
    <3>1. First \in Nat \ {0} /\ First <= e
      BY <1>0, <1>1
    <3> QED BY <1>1, <3>1, ReadingIsNat
  <2> QED BY <1>0, <1>3, <2>1, PowersAreDefined DEF Whole
<1>5. ASSUME e = n + 1
      PROVE  Says(split) = Whole(e)
  <2>1. split.fraction = <<>>
    BY <1>0, <1>1, <1>5
  <2>2. <<>> \in Seq(0..9) /\ Len(<<>>) = 0 /\ P - 0 = P
    BY <1>0
  <2>3. NumberOf(<<>>) = 0
    BY <2>2, NumberOfNone
  <2>4. Says(split) = Whole(e) + 0 * power_of_ten[P]
    BY <1>2, <2>1, <2>2, <2>3 DEF Says, Whole
  <2>5. 0 * power_of_ten[P] = 0
    <3>1. \A x \in Nat : 0 * x = 0
      OBVIOUS
    <3> QED BY <1>0, <3>1, PowersAreDefined
  <2> QED BY <1>4, <2>4, <2>5
<1>6. ASSUME e <= n
      PROVE  /\ Part(e + 1, n + 1) \in Nat
             /\ Says(split) = Whole(e) + Part(e + 1, n + 1)
  <2>1. split.fraction = SubSeq(text, e + 1, n) /\ Digits(e + 1, n + 1) /\ n - e \in 1..P
    BY <1>0, <1>1, <1>6
  <2>2. /\ e + 1 \in Nat \ {0} /\ n + 1 \in Nat /\ e + 1 <= n + 1
        /\ (n + 1) - 1 = n
        /\ (n + 1) - (e + 1) = n - e
        /\ P - (n - e) \in Nat
    BY <1>0, <1>6, <2>1
  <2> HIDE DEF n
  <2>3. Len(SubSeq(text, e + 1, (n + 1) - 1)) = (n + 1) - (e + 1)
    BY <2>1, <2>2, RunIsDigits
  <2>4. Len(split.fraction) = n - e
    BY <2>1, <2>2, <2>3
  <2>5. NumberOf(split.fraction) = Reading(e + 1, n + 1)
    BY <2>1, <2>2 DEF Reading
  <2>6. Reading(e + 1, n + 1) \in Nat
    BY <2>1, <2>2, ReadingIsNat
  <2>7. Part(e + 1, n + 1) = Reading(e + 1, n + 1) * power_of_ten[P - (n - e)]
    BY <2>2 DEF Part
  <2>8. Part(e + 1, n + 1) \in Nat
    BY <1>3, <2>2, <2>6, <2>7, PowersAreDefined
  <2> QED BY <1>2, <2>4, <2>5, <2>7, <2>8 DEF Says, Whole
<1> QED BY <1>4, <1>5, <1>6

-----------------------------------------------------------------------------
(***************************************************************************)
(* The run of digits after a point ends.                                   *)
(***************************************************************************)
LEMMA RunEnds ==
  ASSUME text \in Seq(Characters), NEW position \in Nat, position <= Len(text) + 1
  PROVE  /\ RunEnd(position) \in position .. Len(text) + 1
         /\ ~DigitAt(RunEnd(position))
         /\ \A i \in position .. RunEnd(position) - 1 : DigitAt(i)
<1>0. Len(text) \in Nat
  OBVIOUS
<1> DEFINE S == {e \in position .. Len(text) + 1 : ~DigitAt(e)}
<1>1. Len(text) + 1 \in S
  BY <1>0 DEF DigitAt
<1>2. S \subseteq Nat /\ S # {}
  BY <1>0, <1>1
<1>3. PICK e \in S : \A y \in S : e <= y
  <2> HIDE DEF S
  <2> QED BY <1>2, LeastExists
<1>4. /\ e \in position .. Len(text) + 1
      /\ ~DigitAt(e)
      /\ \A i \in position .. e - 1 : DigitAt(i)
  BY <1>0, <1>3
<1> HIDE DEF DigitAt
<1> QED BY <1>4 DEF RunEnd

-----------------------------------------------------------------------------
(***************************************************************************)
(* The invariant is kept.                                                  *)
(***************************************************************************)
LEMMA FieldsAreKnown ==
  /\ kMax \in Nat
  /\ \A f \in Forms : /\ f.fractional_digits \in Places
                      /\ f.fractional_digits \in Nat
                      /\ power_of_ten[f.fractional_digits] <= kMax
<1>1. /\ kMax \in Nat
      /\ \A f \in Forms : f.fractional_digits \in Places /\ power_of_ten[f.fractional_digits] <= kMax
  BY DecimalsAssumption
<1>2. Places \subseteq Nat
  BY PowersGrow
<1> QED BY <1>1, <1>2

LEMMA DigitsAreDigits ==
  ASSUME text \in Seq(Characters), NEW i \in Nat, DigitAt(i)
  PROVE  text[i] \in 0..9
BY DEF DigitAt, is_digit

LEMMA DecimalInvInit == DecimalInit(Texts, Forms) => DecimalInv
<1> SUFFICES ASSUME DecimalInit(Texts, Forms)
             PROVE  DecimalInv
  OBVIOUS
<1>1. text \in Seq(Characters) /\ form \in Forms
  BY DecimalsAssumption DEF DecimalInit, Characters
<1>2. reader \in Readers /\ reader.phase = "sign" /\ reader.value = 0 /\ reader.fraction = 0
  BY FieldsAreKnown DEF DecimalInit, Readers, Errors, Problems
<1> QED BY <1>1, <1>2 DEF DecimalInv, FractionInPlaces

\* A reader that gives up keeps what it had.
LEMMA FailKeeps ==
  ASSUME DecimalInv, NEW problem \in Errors, Fail(problem)
  PROVE  DecimalInv'
<1> DEFINE r == [reader EXCEPT !.error = problem, !.phase = "done"]
<1>1. r \in Readers /\ r.phase = "done"
  BY DEF DecimalInv, Readers
<1>2. reader' = r /\ text' = text /\ form' = form
  BY DEF Fail, Goes
<1> HIDE DEF r
<1> QED BY <1>1, <1>2 DEF DecimalInv, FractionInPlaces

LEMMA DecimalInvStep ==
  ASSUME DecimalInv, [DecimalNext]_decimal
  PROVE  DecimalInv'
<1>0. /\ text \in Seq(Characters)
      /\ form \in Forms
      /\ reader \in Readers
      /\ Len(text) \in Nat
      /\ kMax \in Nat
      /\ form.fractional_digits \in Nat
  BY FieldsAreKnown DEF DecimalInv
<1>1. ASSUME NEW problem \in Errors, Fail(problem)
      PROVE  DecimalInv'
  BY <1>1, FailKeeps
<1>2. ASSUME NEW next \in Readers, Goes(next),
             next.phase # "done" => next.value >= 0,
             next.phase \in {"sign", "integer", "shift", "measure"} => next.fraction = 0,
             next.phase = "measure" => next.index <= Len(text),
             next.phase # "fraction"
      PROVE  DecimalInv'
  BY <1>0, <1>2 DEF Goes, DecimalInv, FractionInPlaces
<1>3. CASE ReadSign
  <2>1. ASSUME NEW negative \in BOOLEAN, NEW first \in {1, 2}, reader.phase = "sign",
               Goes([reader EXCEPT !.negative = negative, !.index = first,
                                   !.begin = first, !.phase = "integer"])
        PROVE  DecimalInv'
    <3> DEFINE next == [reader EXCEPT !.negative = negative, !.index = first,
                                      !.begin = first, !.phase = "integer"]
    <3>1. first \in Nat
      OBVIOUS
    <3>2. /\ next \in Readers
          /\ next.value = reader.value
          /\ next.fraction = reader.fraction
          /\ next.phase = "integer"
      BY <1>0, <3>1 DEF Readers
    <3>3. Goes(next)
      BY <2>1
    <3> HIDE DEF next
    <3> QED BY <1>2, <2>1, <3>2, <3>3 DEF DecimalInv
  <2>2. At(1, Minus) \in BOOLEAN
    BY DEF At
  <2>3. \A problem \in {"Empty", "NegativeNotAllowed"} : Fail(problem) => DecimalInv'
    BY <1>1 DEF Errors, Problems
  <2> HIDE DEF DecimalInv
  <2> QED BY <1>3, <2>1, <2>2, <2>3 DEF ReadSign
<1>4. CASE ReadInteger
  <2>1. \A problem \in {"Overflow", "MissingDigits"} : Fail(problem) => DecimalInv'
    BY <1>1 DEF Errors, Problems
  <2>2. ASSUME DigitAt(reader.index), Fits(reader.value, text[reader.index]),
               Goes([reader EXCEPT !.value = reader.value * 10 + text[reader.index],
                                   !.index = reader.index + 1])
        PROVE  DecimalInv'
    <3> DEFINE digit == text[reader.index]
               next == [reader EXCEPT !.value = reader.value * 10 + digit,
                                      !.index = reader.index + 1]
    <3>1. digit \in 0..9 /\ reader.index \in Nat
      BY <1>0, <2>2, DigitsAreDigits DEF Readers
    <3>2. reader.value \in Nat /\ reader.fraction = 0 /\ reader.phase = "integer"
      BY <1>0, <1>4 DEF DecimalInv, Readers, ReadInteger
    <3>3. reader.value <= (kMax - digit) \div 10
      BY <2>2 DEF Fits
    <3> HIDE DEF digit
    <3>4. reader.value * 10 + digit \in 0..kMax
      BY <1>0, <3>1, <3>2, <3>3
    <3>5. /\ next \in Readers
          /\ next.value = reader.value * 10 + digit
          /\ next.fraction = 0
          /\ next.phase = "integer"
      <4> DEFINE sum == reader.value * 10 + digit
      <4>1. sum \in -kMax .. kMax /\ reader.index + 1 \in Nat
        BY <1>0, <3>1, <3>4
      <4> HIDE DEF sum
      <4>2. /\ [reader EXCEPT !.value = sum, !.index = reader.index + 1] \in Readers
            /\ [reader EXCEPT !.value = sum, !.index = reader.index + 1].value = sum
            /\ [reader EXCEPT !.value = sum, !.index = reader.index + 1].fraction = 0
            /\ [reader EXCEPT !.value = sum, !.index = reader.index + 1].phase = "integer"
        BY <1>0, <3>2, <4>1 DEF Readers
      <4> QED BY <4>2 DEF sum
    <3> HIDE DEF next
    <3>6. Goes(next)
      BY <2>2 DEF next, digit
    <3> QED BY <1>2, <3>4, <3>5, <3>6
  <2>3. ASSUME Goes([reader EXCEPT !.phase = "shift", !.shifts = form.fractional_digits])
        PROVE  DecimalInv'
    <3> DEFINE next == [reader EXCEPT !.phase = "shift", !.shifts = form.fractional_digits]
    <3>1. reader.value >= 0 /\ reader.fraction = 0
      BY <1>4 DEF DecimalInv, ReadInteger
    <3>2. /\ next \in Readers
          /\ next.value = reader.value
          /\ next.fraction = reader.fraction
          /\ next.phase = "shift"
      BY <1>0 DEF Readers
    <3> HIDE DEF next
    <3> QED BY <1>2, <2>3, <3>1, <3>2 DEF next
  <2> HIDE DEF DecimalInv
  <2> QED BY <1>4, <2>1, <2>2, <2>3 DEF ReadInteger
<1>5. CASE Shift
  <2>0. reader.value >= 0 /\ reader.fraction = 0
    BY <1>5 DEF DecimalInv, Shift
  <2>1. Fail("Overflow") => DecimalInv'
    BY <1>1 DEF Errors, Problems
  <2>2. ASSUME reader.shifts > 0, Fits(reader.value, 0),
               Goes([reader EXCEPT !.value = reader.value * 10, !.shifts = reader.shifts - 1])
        PROVE  DecimalInv'
    <3> DEFINE moved == reader.value * 10
               next == [reader EXCEPT !.value = moved, !.shifts = reader.shifts - 1]
    <3>1. /\ moved \in -kMax .. kMax
          /\ moved >= 0
          /\ reader.shifts - 1 \in Nat
      BY <1>0, <2>0, <2>2 DEF Fits, Readers
    <3>2. Goes(next)
      BY <2>2
    <3> HIDE DEF moved
    <3>3. reader.phase = "shift"
      BY <1>5 DEF Shift
    <3>4. /\ next \in Readers
          /\ next.value = moved
          /\ next.fraction = reader.fraction
          /\ next.phase = "shift"
      BY <1>0, <3>1, <3>3 DEF Readers
    <3> HIDE DEF next
    <3> QED BY <1>2, <2>0, <3>1, <3>2, <3>4
  <2>3. ASSUME NEW phase \in {"measure", "rest"}, Goes([reader EXCEPT !.phase = phase]),
               phase = "measure" => At(reader.index, Point)
        PROVE  DecimalInv'
    <3> DEFINE next == [reader EXCEPT !.phase = phase]
    <3>1. /\ next \in Readers
          /\ next.value = reader.value
          /\ next.fraction = reader.fraction
          /\ next.index = reader.index
          /\ next.phase = phase
      BY <1>0 DEF Readers
    <3>2. Goes(next)
      BY <2>3
    <3> HIDE DEF next
    <3>3. next.phase = "measure" => next.index <= Len(text)
      BY <2>3, <3>1 DEF At
    <3> QED BY <1>2, <2>0, <3>1, <3>2, <3>3
  <2> HIDE DEF DecimalInv
  <2> QED BY <1>5, <2>1, <2>2, <2>3 DEF Shift
<1>6. CASE Measure
  <2> DEFINE first == reader.index + 1
             count == RunEnd(first) - first
             next == [reader EXCEPT !.begin = first, !.index = first,
                                    !.end = first + count, !.phase = "fraction"]
  <2>1. \A problem \in {"MissingDigits", "TooManyFractionalDigits"} : Fail(problem) => DecimalInv'
    BY <1>1 DEF Errors, Problems
  <2>2. ASSUME count \in 1 .. form.fractional_digits, Goes(next)
        PROVE  DecimalInv'
    <3>1. /\ reader.index \in Nat
          /\ reader.value \in Nat
          /\ reader.fraction = 0
      BY <1>0, <1>6 DEF DecimalInv, Measure, Readers
    <3>2. /\ first \in Nat
          /\ first + count \in Nat
          /\ (first + count) - first <= form.fractional_digits
      BY <1>0, <2>2, <3>1
    <3>3. \A i \in first .. (first + count) - 1 : DigitAt(i)
      <4>1. first <= Len(text) + 1
        BY <1>0, <1>6, <3>1 DEF DecimalInv, Measure
      <4>2. /\ RunEnd(first) \in Int
            /\ \A i \in first .. RunEnd(first) - 1 : DigitAt(i)
        BY <1>0, <3>2, <4>1, RunEnds
      <4>3. first + count = RunEnd(first)
        BY <3>2, <4>2
      <4> QED BY <4>2, <4>3
    <3>4. /\ next \in Readers
          /\ next.begin = first
          /\ next.index = first
          /\ next.end = first + count
          /\ next.phase = "fraction"
          /\ next.value = reader.value
          /\ next.fraction = 0
      BY <1>0, <3>1, <3>2 DEF Readers
    <3>5. reader' = next /\ text' = text /\ form' = form
      BY <2>2 DEF Goes
    <3> HIDE DEF next
    <3>6. next.index - next.begin = 0 /\ next.index <= next.end
      BY <2>2, <3>2, <3>4
    <3>7. \A i \in next.begin .. next.end - 1 : DigitAt(i)'
      BY <3>3, <3>4, <3>5 DEF DigitAt
    <3>8. next.fraction < power_of_ten[next.index - next.begin]
      BY <3>4, <3>6, PowersGrow
    <3> HIDE DEF first, count
    <3> QED BY <1>0, <3>1, <3>2, <3>4, <3>5, <3>6, <3>7, <3>8 DEF DecimalInv, FractionInPlaces
  <2> HIDE DEF DecimalInv
  <2> QED BY <1>6, <2>1, <2>2 DEF Measure
<1>7. CASE ReadFraction
  <2> DEFINE read == reader.index - reader.begin
             missing == form.fractional_digits - (reader.end - reader.begin)
  <2>0. /\ reader.index \in Nat
        /\ reader.begin \in Nat
        /\ reader.end \in Nat
        /\ reader.fraction \in Nat
        /\ reader.value >= 0
        /\ reader.phase = "fraction"
        /\ reader.begin <= reader.index
        /\ reader.index <= reader.end
        /\ reader.end - reader.begin <= form.fractional_digits
        /\ \A i \in reader.begin .. reader.end - 1 : DigitAt(i)
        /\ reader.fraction < power_of_ten[read]
    BY <1>0, <1>7 DEF DecimalInv, ReadFraction, FractionInPlaces, Readers
  <2>1. form.fractional_digits \in 0..9 /\ power_of_ten[form.fractional_digits] <= kMax
    BY <1>0, FieldsAreKnown, PowersGrow
  <2>2. ASSUME reader.index < reader.end,
               Goes([reader EXCEPT !.fraction = reader.fraction * 10 + text[reader.index],
                                   !.index = reader.index + 1])
        PROVE  DecimalInv'
    <3> DEFINE digit == text[reader.index]
               next == [reader EXCEPT !.fraction = reader.fraction * 10 + digit,
                                      !.index = reader.index + 1]
    <3>1. digit \in 0..9
      <4>1. DigitAt(reader.index)
        BY <2>0, <2>2
      <4> QED BY <1>0, <2>0, <4>1, DigitsAreDigits
    <3> HIDE DEF digit
    <3>2. /\ read \in 0..8
          /\ (reader.index + 1) - reader.begin = read + 1
          /\ read + 1 <= form.fractional_digits
      BY <2>0, <2>1, <2>2
    <3>3. /\ power_of_ten[read] \in Nat
          /\ power_of_ten[read + 1] = 10 * power_of_ten[read]
      BY <3>2, PowersGrow
    <3> DEFINE rest == form.fractional_digits - (read + 1)
    <3>4. power_of_ten[read + 1] <= power_of_ten[form.fractional_digits]
      <4>1. /\ read + 1 \in Places
            /\ rest \in Places
            /\ (read + 1) + rest \in Places
            /\ (read + 1) + rest = form.fractional_digits
        BY <2>1, <3>2, PowersGrow
      <4>2. 0 < power_of_ten[read + 1] /\ 0 \in Nat
        BY <4>1, PowersArePositive
      <4> HIDE DEF rest, read
      <4> QED BY <4>1, <4>2, PaddingFits
    <3> HIDE DEF rest, read
    <3>5. power_of_ten[read + 1] \in Nat /\ power_of_ten[form.fractional_digits] \in Nat
      BY <2>1, <3>2, PowersGrow
    <3>6. /\ reader.fraction * 10 + digit < power_of_ten[read + 1]
          /\ reader.fraction * 10 + digit \in 0..kMax
      <4> DEFINE low == power_of_ten[read]
                 high == power_of_ten[read + 1]
      <4>1. /\ low \in Nat
            /\ high = 10 * low
            /\ high <= kMax
            /\ reader.fraction \in Nat
            /\ reader.fraction < low
        BY <1>0, <2>0, <2>1, <3>3, <3>4, <3>5
      <4> HIDE DEF low, high
      <4>2. reader.fraction * 10 + digit < high /\ reader.fraction * 10 + digit \in 0..kMax
        BY <1>0, <3>1, <4>1
      <4> QED BY <4>2 DEF high
    <3>7. /\ next \in Readers
          /\ next.fraction = reader.fraction * 10 + digit
          /\ next.index = reader.index + 1
          /\ next.begin = reader.begin
          /\ next.end = reader.end
          /\ next.value = reader.value
          /\ next.phase = "fraction"
      <4> DEFINE sum == reader.fraction * 10 + digit
      <4>1. sum \in 0..kMax /\ reader.index + 1 \in Nat
        BY <2>0, <3>6
      <4> HIDE DEF sum
      <4> DEFINE r == [reader EXCEPT !.fraction = sum, !.index = reader.index + 1]
      <4>2. /\ r \in Readers
            /\ r.fraction = sum
            /\ r.index = reader.index + 1
            /\ r.begin = reader.begin
            /\ r.end = reader.end
            /\ r.value = reader.value
            /\ r.phase = "fraction"
        BY <1>0, <2>0, <4>1 DEF Readers
      <4> QED BY <4>2 DEF sum
    <3>8. reader' = next /\ text' = text /\ form' = form
      BY <2>2 DEF Goes, digit
    <3> HIDE DEF next
    <3>9. \A i \in reader.begin .. reader.end - 1 : DigitAt(i)'
      BY <2>0, <3>8 DEF DigitAt
    <3>10. next.index - next.begin = read + 1
      BY <3>2, <3>7
    <3>11. next.fraction < power_of_ten[next.index - next.begin]
      BY <3>6, <3>7, <3>10
    <3>12. next.begin <= next.index /\ next.index <= next.end
      BY <2>0, <2>2, <3>7
    <3> QED BY <1>0, <2>0, <3>7, <3>8, <3>9, <3>11, <3>12 DEF DecimalInv, FractionInPlaces
  <2>3. ASSUME reader.index = reader.end,
               Goes([reader EXCEPT !.fraction = reader.fraction * power_of_ten[missing],
                                   !.phase = "sum"])
        PROVE  DecimalInv'
    <3> DEFINE padded == reader.fraction * power_of_ten[missing]
               next == [reader EXCEPT !.fraction = padded, !.phase = "sum"]
    <3>1. /\ read \in Places
          /\ missing \in Places
          /\ read + missing \in Places
          /\ read + missing = form.fractional_digits
      <4>1. read \in 0..9 /\ missing \in 0..9 /\ read + missing = form.fractional_digits
        BY <2>0, <2>1, <2>3
      <4> HIDE DEF read, missing
      <4> QED BY <2>1, <4>1, PowersGrow
    <3>2. padded < power_of_ten[form.fractional_digits]
      <4> HIDE DEF read, missing
      <4> QED BY <2>0, <3>1, PaddingFits
    <3>3. power_of_ten[missing] \in Nat /\ power_of_ten[form.fractional_digits] \in Nat
      BY <2>1, <3>1, PowersGrow
    <3>4. padded \in Nat
      <4>1. \A x, y \in Nat : x * y \in Nat
        OBVIOUS
      <4> QED BY <2>0, <3>3, <4>1
    <3> HIDE DEF padded
    <3>5. padded \in 0..kMax
      BY <1>0, <2>1, <3>2, <3>3, <3>4
    <3>6. /\ next \in Readers
          /\ next.value = reader.value
          /\ next.phase = "sum"
      BY <1>0, <3>5 DEF Readers
    <3> HIDE DEF next
    <3> QED BY <1>2, <2>0, <2>3, <3>6 DEF next, padded
  <2> HIDE DEF DecimalInv
  <2> QED BY <1>7, <2>2, <2>3 DEF ReadFraction
<1>8. CASE AddFraction
  <2>1. Fail("Overflow") => DecimalInv'
    BY <1>1 DEF Errors, Problems
  <2>2. ASSUME reader.value <= kMax - reader.fraction,
               Goes([reader EXCEPT !.value = reader.value + reader.fraction, !.phase = "rest"])
        PROVE  DecimalInv'
    <3> DEFINE sum == reader.value + reader.fraction
               next == [reader EXCEPT !.value = sum, !.phase = "rest"]
    <3>1. sum \in -kMax .. kMax /\ sum >= 0
      BY <1>0, <1>8, <2>2 DEF DecimalInv, Readers, AddFraction
    <3>2. Goes(next)
      BY <2>2
    <3> HIDE DEF sum
    <3>3. /\ next \in Readers
          /\ next.value = sum
          /\ next.phase = "rest"
      BY <1>0, <3>1 DEF Readers
    <3> HIDE DEF next
    <3> QED BY <1>2, <3>1, <3>2, <3>3
  <2> HIDE DEF DecimalInv
  <2> QED BY <1>8, <2>1, <2>2 DEF AddFraction
<1>9. CASE ReadRest
  <2>1. \A problem \in {"Overflow", "InvalidCharacter"} : Fail(problem) => DecimalInv'
    BY <1>1 DEF Errors, Problems
  <2>2. ASSUME Goes([reader EXCEPT !.value = IF reader.negative THEN -reader.value
                                             ELSE reader.value,
                                   !.phase = "done"])
        PROVE  DecimalInv'
    <3> DEFINE signed == IF reader.negative THEN -reader.value ELSE reader.value
               next == [reader EXCEPT !.value = signed, !.phase = "done"]
    <3>1. signed \in -kMax .. kMax
      BY <1>0 DEF Readers
    <3> HIDE DEF signed
    <3>2. next \in Readers /\ next.phase = "done"
      BY <1>0, <3>1 DEF Readers
    <3> HIDE DEF next
    <3> QED BY <1>2, <2>2, <3>2 DEF next, signed
  <2> HIDE DEF DecimalInv
  <2> QED BY <1>9, <2>1, <2>2 DEF ReadRest
<1>10. CASE UNCHANGED decimal
  BY <1>10 DEF decimal, DecimalInv, FractionInPlaces, DigitAt
<1> QED BY <1>3, <1>4, <1>5, <1>6, <1>7, <1>8, <1>9, <1>10 DEF DecimalNext

\* No number that a step of the reader computes is beyond an int64, whatever the
\* text, the places of the field and the width: the loop over the fraction and
\* its padding, which the code does not check, need no check.
THEOREM NothingEverWraps == DecimalSpec => []NothingWraps
<1>1. DecimalInv => NothingWraps
  BY DEF DecimalInv, NothingWraps, Readers
<1> QED BY <1>1, DecimalInvInit, DecimalInvStep, PTL DEF DecimalSpec
-----------------------------------------------------------------------------
(***************************************************************************)
(* What has been read so far.  The number of the digits read is known in   *)
(* every phase, whatever is still to come; and a text that splits at all   *)
(* splits where the reader stopped.                                        *)
(***************************************************************************)
Judged(error, value) ==
  LET splits == IF Signed(text) /\ ~form.allow_negative THEN {} ELSE SplitsOf(text)
  IN  IF splits = {} THEN error # NoError
      ELSE \E split \in splits :
             IF Says(split) > form.limit THEN error = "Overflow"
             ELSE /\ error = NoError
                  /\ value = IF Signed(text) THEN -Says(split) ELSE Says(split)

Ended(e) == e \in First + 1 .. Len(text) + 1 /\ Digits(First, e) /\ ~DigitAt(e)

Pointed(e) == Ended(e) /\ At(e, Point)

\* A run of digits after a point that ends within the places of the field.
Fraction(e, end) ==
  /\ end \in e + 2 .. Len(text) + 1
  /\ Digits(e + 1, end)
  /\ ~DigitAt(end)
  /\ end - (e + 1) <= form.fractional_digits

RightSoFar(r) ==
  /\ r.phase # "done" => r.error = NoError
  /\ r.phase = "sign" => r.value = 0
  /\ r.phase \notin {"sign", "done"} => /\ r.negative <=> Signed(text)
                                        /\ Signed(text) => form.allow_negative
  /\ r.phase = "integer" => /\ r.begin = First
                            /\ r.index \in First .. Len(text) + 1
                            /\ Digits(First, r.index)
                            /\ r.value = Reading(First, r.index)
  /\ r.phase = "shift" =>
       /\ Ended(r.index)
       /\ r.shifts \in 0..form.fractional_digits
       /\ r.value = Reading(First, r.index) * power_of_ten[form.fractional_digits - r.shifts]
  /\ r.phase = "measure" => Pointed(r.index) /\ r.value = Whole(r.index)
  /\ r.phase = "fraction" =>
       \E e \in Nat : /\ Pointed(e)
                      /\ r.value = Whole(e)
                      /\ Fraction(e, r.end)
                      /\ r.begin = e + 1
                      /\ r.index \in e + 1 .. r.end
                      /\ r.fraction = Reading(e + 1, r.index)
  /\ r.phase = "sum" =>
       \E e \in Nat : /\ Pointed(e)
                      /\ r.value = Whole(e)
                      /\ Fraction(e, r.index)
                      /\ r.fraction = Part(e + 1, r.index)
  /\ r.phase = "rest" =>
       \/ Ended(r.index) /\ ~At(r.index, Point) /\ r.value = Whole(r.index)
       \/ \E e \in Nat : /\ Pointed(e)
                         /\ Fraction(e, r.index)
                         /\ r.value = Whole(e) + Part(e + 1, r.index)
  /\ r.phase = "done" => Judged(r.error, r.value)

LEMMA RightAfter ==
  ASSUME NEW next, Goes(next), RightSoFar(next)
  PROVE  RightSoFar(reader)'
BY DEF Goes, RightSoFar, Judged, Ended, Pointed, Fraction, Whole, Part, Reading, Digits, DigitAt,
       At, First, Signed, SplitsOf, Says

LEMMA WhatIsKnown ==
  ASSUME DecimalInv
  PROVE  /\ text \in Seq(Characters)
         /\ Len(text) \in Nat
         /\ reader \in Readers
         /\ First \in {1, 2}
         /\ form.fractional_digits \in Nat
         /\ form.fractional_digits \in 0..9
         /\ kMax \in Nat
         /\ form.limit \in 0..kMax
         /\ Point \notin 0..9
         /\ \A problem \in Problems : problem # NoError
<1>1. text \in Seq(Characters) /\ form \in Forms /\ reader \in Readers
  BY DEF DecimalInv
<1>2. form.fractional_digits \in Nat /\ form.fractional_digits \in 0..9
  BY <1>1, FieldsAreKnown, PowersGrow
<1>3. form.limit \in 0..kMax /\ kMax \in Nat /\ Point \notin 0..9 /\ NoError \notin Problems
  BY <1>1, DecimalsAssumption
<1> QED BY <1>1, <1>2, <1>3 DEF First

\* A split lies where its first run of digits ends.
LEMMA SplitsLieAtTheEnd ==
  ASSUME DecimalInv, NEW e \in Nat, NEW split, PartAt(e, split)
  PROVE  /\ Ended(e)
         /\ \A f \in Nat : Ended(f) => f = e
         /\ \A f \in Nat : First <= f /\ Digits(First, f) => f <= e
<1>1. First \in {1, 2} /\ Point \notin 0..9
  BY WhatIsKnown
<1>2. /\ e \in First + 1 .. Len(text) + 1
      /\ Digits(First, e)
      /\ e = Len(text) + 1 \/ text[e] = Point
  BY DEF PartAt
<1>3. ~DigitAt(e)
  <2>1. Len(text) \in Nat
    BY WhatIsKnown
  <2> QED BY <1>1, <1>2, <2>1 DEF DigitAt, is_digit
<1>4. First <= e /\ First \in Nat
  BY <1>1, <1>2
<1>5. \A f \in Nat : First <= f /\ Digits(First, f) => f <= e /\ (~DigitAt(f) => f = e)
  BY <1>2, <1>3, <1>4, RunsEndOnce
<1>6. \A f \in Nat : Ended(f) => First <= f
  BY <1>1 DEF Ended
<1>7. Ended(e)
  BY <1>2, <1>3 DEF Ended
<1>8. \A f \in Nat : Ended(f) => f = e
  BY <1>5, <1>6 DEF Ended
<1> QED BY <1>5, <1>7, <1>8

\* Three ways to judge.
LEMMA NothingToRead ==
  ASSUME DecimalInv, NEW problem \in Problems, NEW value,
         (Signed(text) /\ ~form.allow_negative) \/ \A e \in Nat : \A split : ~PartAt(e, split)
  PROVE  Judged(problem, value)
<1>1. problem # NoError
  BY WhatIsKnown
<1>2. CASE Signed(text) /\ ~form.allow_negative
  BY <1>1, <1>2 DEF Judged
<1>3. CASE \A e \in Nat : \A split : ~PartAt(e, split)
  <2>1. SplitsOf(text) = {}
    BY <1>3, SplitsLieSomewhere, WhatIsKnown
  <2> QED BY <1>1, <2>1 DEF Judged
<1> QED BY <1>2, <1>3

LEMMA TooLargeToRead ==
  ASSUME DecimalInv, NEW value,
         \A e \in Nat : \A split : PartAt(e, split) => Says(split) > form.limit
  PROVE  Judged("Overflow", value)
<1>1. "Overflow" # NoError
  BY WhatIsKnown DEF Problems
<1>2. \A split \in SplitsOf(text) : Says(split) > form.limit
  BY SplitsLieSomewhere, WhatIsKnown
<1> QED BY <1>1, <1>2 DEF Judged

LEMMA ReadWell ==
  ASSUME DecimalInv, NEW e \in Nat, NEW integer, NEW fraction, NEW number \in Nat, NEW value,
         PartAt(e, [integer |-> integer, fraction |-> fraction]),
         Says([integer |-> integer, fraction |-> fraction]) = number,
         number <= form.limit,
         Signed(text) => form.allow_negative,
         value = IF Signed(text) THEN -number ELSE number
  PROVE  Judged(NoError, value)
<1> DEFINE split == [integer |-> integer, fraction |-> fraction]
<1>1. split \in SplitsOf(text)
  BY PartsAreSplits, WhatIsKnown
<1>2. Says(split) = number
  OBVIOUS
<1>3. ~(number > form.limit)
  BY WhatIsKnown
<1> HIDE DEF split
<1> QED BY <1>1, <1>2, <1>3 DEF Judged
LEMMA GivesUp ==
  ASSUME NEW problem \in Problems, Fail(problem), Judged(problem, reader.value), reader \in Readers
  PROVE  RightSoFar(reader)'
<1> DEFINE r == [reader EXCEPT !.error = problem, !.phase = "done"]
<1>1. r.phase = "done" /\ r.error = problem /\ r.value = reader.value
  BY DEF Readers
<1>2. Goes(r)
  BY DEF Fail
<1> HIDE DEF r
<1>3. RightSoFar(r)
  BY <1>1 DEF RightSoFar
<1> QED BY <1>2, <1>3, RightAfter

LEMMA SignIsMinus ==
  ASSUME text \in Seq(Characters)
  PROVE  At(1, Minus) <=> Signed(text)
<1>1. text # <<>> <=> 1 <= Len(text)
  OBVIOUS
<1>2. text # <<>> => Head(text) = text[1]
  OBVIOUS
<1> QED BY <1>1, <1>2 DEF At, Signed

LEMMA SignIsRight ==
  ASSUME DecimalInv, RightSoFar(reader), ReadSign
  PROVE  RightSoFar(reader)'
<1>0. /\ text \in Seq(Characters)
      /\ Len(text) \in Nat
      /\ reader \in Readers
      /\ First \in {1, 2}
  BY WhatIsKnown
<1>1. At(1, Minus) <=> Signed(text)
  BY <1>0, SignIsMinus
<1>2. "Empty" \in Problems /\ "NegativeNotAllowed" \in Problems
  BY DEF Problems
<1>3. CASE text = <<>> /\ Fail("Empty")
  <2>1. \A e \in Nat : \A split : ~PartAt(e, split)
    <3>1. First = 1 /\ Len(text) = 0
      BY <1>3 DEF First, Signed
    <3> QED BY <3>1 DEF PartAt
  <2>2. Judged("Empty", reader.value)
    BY <1>2, <2>1, NothingToRead
  <2> QED BY <1>0, <1>2, <1>3, <2>2, GivesUp
<1>4. CASE At(1, Minus) /\ ~form.allow_negative /\ Fail("NegativeNotAllowed")
  <2>1. Judged("NegativeNotAllowed", reader.value)
    BY <1>1, <1>2, <1>4, NothingToRead
  <2> QED BY <1>0, <1>2, <1>4, <2>1, GivesUp
<1>5. ASSUME text # <<>>,
             At(1, Minus) => form.allow_negative,
             Goes([reader EXCEPT !.negative = At(1, Minus), !.index = First,
                                 !.begin = First, !.phase = "integer"])
      PROVE  RightSoFar(reader)'
  <2> DEFINE sign == At(1, Minus)
             next == [reader EXCEPT !.negative = sign, !.index = First,
                                    !.begin = First, !.phase = "integer"]
  <2>1. /\ next.phase = "integer"
        /\ next.negative = sign
        /\ next.index = First
        /\ next.begin = First
        /\ next.value = reader.value
        /\ next.error = reader.error
    <3> HIDE DEF sign
    <3> QED BY <1>0 DEF Readers
  <2>2. Goes(next)
    BY <1>5
  <2>3. reader.value = 0 /\ reader.error = NoError
    BY DEF RightSoFar, ReadSign
  <2>4. First \in First .. Len(text) + 1
    <3>1. Len(text) >= 1
      BY <1>0, <1>5
    <3> QED BY <1>0, <3>1
  <2>5. Digits(First, First) /\ Reading(First, First) = 0
    <3>1. First \in Nat \ {0}
      BY <1>0
    <3> QED BY <1>0, <3>1, ReadingStarts
  <2>6. next.negative <=> Signed(text)
    BY <1>1, <2>1
  <2>7. Signed(text) => form.allow_negative
    BY <1>1, <1>5
  <2> HIDE DEF next, sign
  <2>8. RightSoFar(next)
    BY <2>1, <2>3, <2>4, <2>5, <2>6, <2>7 DEF RightSoFar
  <2> QED BY <2>2, <2>8, RightAfter
<1>6. (IF At(1, Minus) THEN 2 ELSE 1) = First
  BY <1>1 DEF First
<1>7. \/ text = <<>> /\ Fail("Empty")
      \/ At(1, Minus) /\ ~form.allow_negative /\ Fail("NegativeNotAllowed")
      \/ /\ text # <<>>
         /\ At(1, Minus) => form.allow_negative
         /\ Goes([reader EXCEPT !.negative = At(1, Minus),
                                !.index = IF At(1, Minus) THEN 2 ELSE 1,
                                !.begin = IF At(1, Minus) THEN 2 ELSE 1, !.phase = "integer"])
  BY DEF ReadSign
<1> QED BY <1>3, <1>4, <1>5, <1>6, <1>7, Zenon

\* The number of the digits before the point is not larger than what the text
\* says.
LEMMA WholeIsSaid ==
  ASSUME DecimalInv, NEW e \in Nat, NEW split, PartAt(e, split)
  PROVE  /\ Whole(e) \in Nat
         /\ Says(split) \in Nat
         /\ Whole(e) <= Says(split)
         /\ Reading(First, e) \in Nat
         /\ Reading(First, e) <= Whole(e)
<1>1. /\ Whole(e) \in Nat
      /\ e = Len(text) + 1 => Says(split) = Whole(e)
      /\ e <= Len(text) => /\ Part(e + 1, Len(text) + 1) \in Nat
                           /\ Says(split) = Whole(e) + Part(e + 1, Len(text) + 1)
  BY WhatPartsSay, WhatIsKnown
<1>2. e \in First + 1 .. Len(text) + 1 /\ First \in {1, 2} /\ Len(text) \in Nat
      /\ Digits(First, e) /\ text \in Seq(Characters)
  BY WhatIsKnown DEF PartAt
<1>3. Reading(First, e) \in Nat
  <2>1. First \in Nat \ {0} /\ First <= e
    BY <1>2
  <2> QED BY <1>2, <2>1, ReadingIsNat
<1>4. power_of_ten[form.fractional_digits] \in Nat \ {0}
  BY PowersArePositive, PowersGrow, WhatIsKnown
<1>5. Reading(First, e) <= Whole(e)
  <2>1. \A x \in Nat : \A y \in Nat \ {0} : x <= x * y
    OBVIOUS
  <2> QED BY <1>3, <1>4, <2>1 DEF Whole
<1>6. e = Len(text) + 1 \/ e <= Len(text)
  BY <1>2
<1>7. Says(split) \in Nat /\ Whole(e) <= Says(split)
  <2>1. CASE e = Len(text) + 1
    BY <1>1, <2>1
  <2>2. CASE e <= Len(text)
    BY <1>1, <2>2
  <2> QED BY <1>6, <2>1, <2>2
<1> QED BY <1>1, <1>3, <1>5, <1>7

LEMMA IntegerIsRight ==
  ASSUME DecimalInv, RightSoFar(reader), ReadInteger
  PROVE  RightSoFar(reader)'
<1> DEFINE i == reader.index
<1>0. /\ text \in Seq(Characters)
      /\ Len(text) \in Nat
      /\ reader \in Readers
      /\ First \in {1, 2}
      /\ First \in Nat \ {0}
      /\ form.fractional_digits \in Nat
      /\ kMax \in Nat
      /\ form.limit \in 0..kMax
  BY WhatIsKnown
<1>1. /\ reader.phase = "integer"
      /\ reader.error = NoError
      /\ reader.negative <=> Signed(text)
      /\ Signed(text) => form.allow_negative
      /\ reader.begin = First
      /\ i \in First .. Len(text) + 1
      /\ Digits(First, i)
      /\ reader.value = Reading(First, i)
  BY DEF RightSoFar, ReadInteger
<1>2. i \in Nat /\ First <= i /\ i <= Len(text) + 1
  BY <1>0, <1>1
<1>3. "Overflow" \in Problems /\ "MissingDigits" \in Problems
  BY DEF Problems
<1> HIDE DEF i
<1>4. ASSUME DigitAt(i), ~Fits(reader.value, text[i]), Fail("Overflow")
      PROVE  RightSoFar(reader)'
  <2>1. /\ Digits(First, i + 1)
        /\ Reading(First, i + 1) = Reading(First, i) * 10 + text[i]
        /\ Reading(First, i) \in Nat
        /\ text[i] \in 0..9
    BY <1>0, <1>1, <1>2, <1>4, ReadingGoesOn
  <2>2. Reading(First, i + 1) > kMax
    <3>1. ~(reader.value <= (kMax - text[i]) \div 10)
      BY <1>4 DEF Fits
    <3>2. \A v, m \in Nat : \A d \in 0..9 : ~(v <= (m - d) \div 10) => v * 10 + d > m
      OBVIOUS
    <3>3. reader.value * 10 + text[i] > kMax
      BY <1>0, <1>1, <2>1, <3>1, <3>2
    <3> QED BY <1>1, <2>1, <3>3
  <2>3. ASSUME NEW e \in Nat, NEW split, PartAt(e, split)
        PROVE  Says(split) > form.limit
    <3>1. i + 1 <= e /\ Digits(First, e)
      <4>1. i + 1 \in Nat /\ First <= i + 1
        BY <1>0, <1>2
      <4> QED BY <2>1, <2>3, <4>1, SplitsLieAtTheEnd DEF PartAt
    <3>2. Reading(First, i + 1) <= Reading(First, e)
      <4>1. i + 1 \in First..e
        BY <1>0, <1>2, <3>1
      <4> QED BY <1>0, <3>1, <4>1, ReadingGrows
    <3>3. /\ Reading(First, e) <= Whole(e)
          /\ Whole(e) <= Says(split)
          /\ Whole(e) \in Nat /\ Says(split) \in Nat /\ Reading(First, e) \in Nat
      BY <2>3, WholeIsSaid
    <3>4. Reading(First, i + 1) \in Nat
      BY <2>1
    <3> QED BY <1>0, <2>2, <3>2, <3>3, <3>4
  <2>4. Judged("Overflow", reader.value)
    BY <2>3, TooLargeToRead
  <2> QED BY <1>0, <1>3, <1>4, <2>4, GivesUp
<1>5. ASSUME DigitAt(i),
             Goes([reader EXCEPT !.value = reader.value * 10 + text[i], !.index = i + 1])
      PROVE  RightSoFar(reader)'
  <2>1. /\ Digits(First, i + 1)
        /\ Reading(First, i + 1) = Reading(First, i) * 10 + text[i]
    BY <1>0, <1>1, <1>2, <1>5, ReadingGoesOn
  <2>2. i + 1 \in First .. Len(text) + 1
    BY <1>0, <1>2, <1>5 DEF DigitAt
  <2> DEFINE number == reader.value * 10 + text[i]
             next == [reader EXCEPT !.value = number, !.index = i + 1]
  <2>3. Goes(next)
    BY <1>5
  <2>4. number = Reading(First, i + 1)
    BY <1>1, <2>1
  <2> HIDE DEF number
  <2>5. /\ next.phase = "integer"
        /\ next.error = NoError
        /\ next.negative = reader.negative
        /\ next.begin = First
        /\ next.index = i + 1
        /\ next.value = number
    BY <1>0, <1>1 DEF Readers
  <2> HIDE DEF next
  <2>6. RightSoFar(next)
    BY <1>1, <2>1, <2>2, <2>4, <2>5 DEF RightSoFar
  <2> QED BY <2>3, <2>6, RightAfter
<1>6. ASSUME ~DigitAt(i), i = reader.begin, Fail("MissingDigits")
      PROVE  RightSoFar(reader)'
  <2>1. ASSUME NEW e \in Nat, NEW split
        PROVE  ~PartAt(e, split)
    <3> SUFFICES ASSUME PartAt(e, split)
                 PROVE  FALSE
      OBVIOUS
    <3>1. First \in First .. e - 1 /\ Digits(First, e)
      BY <1>0 DEF PartAt
    <3>2. DigitAt(First)
      BY <3>1 DEF Digits
    <3> QED BY <1>1, <1>6, <3>2
  <2>2. Judged("MissingDigits", reader.value)
    BY <1>3, <2>1, NothingToRead
  <2> QED BY <1>0, <1>3, <1>6, <2>2, GivesUp
<1>7. ASSUME ~DigitAt(i), i # reader.begin,
             Goes([reader EXCEPT !.phase = "shift", !.shifts = form.fractional_digits])
      PROVE  RightSoFar(reader)'
  <2> DEFINE next == [reader EXCEPT !.phase = "shift", !.shifts = form.fractional_digits]
  <2>1. /\ next.phase = "shift"
        /\ next.error = NoError
        /\ next.negative = reader.negative
        /\ next.index = i
        /\ next.value = reader.value
        /\ next.shifts = form.fractional_digits
    BY <1>0, <1>1 DEF Readers, i
  <2>2. Ended(i)
    <3>1. i \in First + 1 .. Len(text) + 1
      BY <1>0, <1>1, <1>2, <1>7
    <3> QED BY <1>1, <1>7, <3>1 DEF Ended
  <2>3. form.fractional_digits \in 0..form.fractional_digits
    BY <1>0
  <2>4. Reading(First, i) = Reading(First, i) * power_of_ten[0]
    <3>1. Reading(First, i) \in Nat
      BY <1>0, <1>1, <1>2, ReadingIsNat
    <3>2. \A x \in Nat : x = x * 1
      OBVIOUS
    <3> QED BY <3>1, <3>2, PowersAreDefined
  <2>5. form.fractional_digits - form.fractional_digits = 0
    BY <1>0
  <2>6. Goes(next)
    BY <1>7
  <2> HIDE DEF next
  <2>7. next.value = Reading(First, next.index)
                       * power_of_ten[form.fractional_digits - next.shifts]
    BY <1>1, <2>1, <2>4, <2>5
  <2>8. RightSoFar(next)
    BY <1>1, <2>1, <2>2, <2>3, <2>7 DEF RightSoFar
  <2> QED BY <2>6, <2>8, RightAfter
<1> QED BY <1>4, <1>5, <1>6, <1>7 DEF ReadInteger, i
LEMMA ShiftIsRight ==
  ASSUME DecimalInv, RightSoFar(reader), Shift
  PROVE  RightSoFar(reader)'
<1> DEFINE i == reader.index
           P == form.fractional_digits
           m == reader.shifts
<1>0. /\ text \in Seq(Characters)
      /\ Len(text) \in Nat
      /\ reader \in Readers
      /\ First \in Nat \ {0}
      /\ P \in 0..9
      /\ Places = 0..9
      /\ kMax \in Nat
      /\ form.limit \in 0..kMax
  <2>1. Places = 0..9
    BY PowersGrow
  <2> QED BY <2>1, WhatIsKnown
<1>1. /\ reader.phase = "shift"
      /\ reader.error = NoError
      /\ reader.negative <=> Signed(text)
      /\ Signed(text) => form.allow_negative
      /\ Ended(i)
      /\ m \in 0..P
      /\ reader.value = Reading(First, i) * power_of_ten[P - m]
  BY DEF RightSoFar, Shift
<1>2. i \in Nat /\ First <= i /\ Digits(First, i)
  BY <1>0, <1>1 DEF Ended
<1>3. Reading(First, i) \in Nat
  BY <1>0, <1>2, ReadingIsNat
<1>4. "Overflow" \in Problems
  BY DEF Problems
<1>5. \A x, y \in Nat : x * y \in Nat /\ (x * y) * 10 = x * (y * 10)
  OBVIOUS
<1> HIDE DEF i, P, m
<1>6. ASSUME m > 0
      PROVE  /\ P - m \in Nat
             /\ P - (m - 1) = (P - m) + 1
             /\ reader.value \in Nat
             /\ reader.value * 10 = Reading(First, i) * power_of_ten[P - (m - 1)]
             /\ Reading(First, i) * power_of_ten[P - (m - 1)] <= Whole(i)
  <2>1. /\ P - m \in Nat /\ P - (m - 1) = (P - m) + 1
        /\ P - (m - 1) \in 0..9 /\ m - 1 \in 0..9 /\ (P - (m - 1)) + (m - 1) = P
    BY <1>0, <1>1, <1>6
  <2>2. power_of_ten[P - m] \in Nat /\ power_of_ten[P - (m - 1)] = power_of_ten[P - m] * 10
    BY <2>1, PowersAreDefined
  <2>3. reader.value * 10 = Reading(First, i) * power_of_ten[P - (m - 1)]
    BY <1>1, <1>3, <1>5, <2>2
  <2>4. power_of_ten[P - (m - 1)] <= power_of_ten[P]
    <3> DEFINE a == P - (m - 1)
               b == m - 1
    <3>1. a \in Places /\ b \in Places /\ a + b \in Places /\ a + b = P
      BY <1>0, <2>1
    <3> HIDE DEF a, b
    <3>2. 0 \in Nat /\ 0 < power_of_ten[a]
      BY <3>1, PowersArePositive
    <3>3. power_of_ten[a] <= power_of_ten[a + b]
      BY <3>1, <3>2, PaddingFits
    <3> QED BY <3>1, <3>3 DEF a
  <2>5. Reading(First, i) * power_of_ten[P - (m - 1)] <= Whole(i)
    <3>1. \A x, y, z \in Nat : y <= z => x * y <= x * z
      OBVIOUS
    <3>2. power_of_ten[P - (m - 1)] \in Nat /\ power_of_ten[P] \in Nat
      BY <1>0, <2>1, PowersGrow
    <3> QED BY <1>3, <2>4, <3>1, <3>2 DEF Whole, P
  <2>6. reader.value \in Nat
    BY <1>1, <1>3, <1>5, <2>2
  <2> QED BY <2>1, <2>3, <2>5, <2>6
<1>7. ASSUME m > 0, ~Fits(reader.value, 0), Fail("Overflow")
      PROVE  RightSoFar(reader)'
  <2>1. reader.value * 10 > kMax
    <3>1. ~(reader.value <= (kMax - 0) \div 10)
      BY <1>7 DEF Fits
    <3>2. \A v, x \in Nat : ~(v <= (x - 0) \div 10) => v * 10 > x
      OBVIOUS
    <3> QED BY <1>0, <1>6, <1>7, <3>1, <3>2
  <2>2. ASSUME NEW e \in Nat, NEW split, PartAt(e, split)
        PROVE  Says(split) > form.limit
    <3>1. e = i
      BY <1>1, <1>2, <2>2, SplitsLieAtTheEnd
    <3>2. Whole(e) <= Says(split) /\ Whole(e) \in Nat /\ Says(split) \in Nat
      BY <2>2, WholeIsSaid
    <3>3. reader.value * 10 <= Whole(e)
      BY <1>6, <1>7, <3>1
    <3>4. reader.value \in Nat
      BY <1>6, <1>7
    <3> QED BY <1>0, <2>1, <3>2, <3>3, <3>4
  <2>3. Judged("Overflow", reader.value)
    BY <2>2, TooLargeToRead
  <2> QED BY <1>0, <1>4, <1>7, <2>3, GivesUp
<1>8. ASSUME m > 0,
             Goes([reader EXCEPT !.value = reader.value * 10, !.shifts = m - 1])
      PROVE  RightSoFar(reader)'
  <2> DEFINE moved == reader.value * 10
             next == [reader EXCEPT !.value = moved, !.shifts = m - 1]
  <2>1. Goes(next)
    BY <1>8
  <2>2. moved = Reading(First, i) * power_of_ten[P - (m - 1)]
    BY <1>6, <1>8
  <2> HIDE DEF moved
  <2>3. /\ next.phase = "shift"
        /\ next.error = NoError
        /\ next.negative = reader.negative
        /\ next.index = i
        /\ next.value = moved
        /\ next.shifts = m - 1
    BY <1>0, <1>1 DEF Readers, i
  <2>4. m - 1 \in 0..P
    BY <1>0, <1>1, <1>8
  <2> HIDE DEF next
  <2>5. next.value = Reading(First, next.index) * power_of_ten[P - next.shifts]
    BY <2>2, <2>3
  <2>6. RightSoFar(next)
    BY <1>1, <2>3, <2>4, <2>5 DEF RightSoFar, P
  <2> QED BY <2>1, <2>6, RightAfter
<1>9. ASSUME m = 0,
             Goes([reader EXCEPT !.phase = IF At(i, Point) THEN "measure" ELSE "rest"])
      PROVE  RightSoFar(reader)'
  <2> DEFINE phase == IF At(i, Point) THEN "measure" ELSE "rest"
             next == [reader EXCEPT !.phase = phase]
  <2>1. Goes(next)
    BY <1>9
  <2>2. reader.value = Whole(i)
    <3>1. P - m = P
      BY <1>0, <1>9
    <3> QED BY <1>1, <3>1 DEF Whole, P
  <2>3. /\ next.phase = phase
        /\ next.error = NoError
        /\ next.negative = reader.negative
        /\ next.index = i
        /\ next.value = reader.value
    <3> HIDE DEF phase
    <3> QED BY <1>0, <1>1 DEF Readers, i
  <2>4. /\ phase \in {"measure", "rest"}
        /\ phase = "measure" => At(i, Point)
        /\ phase = "rest" => ~At(i, Point)
    OBVIOUS
  <2> HIDE DEF phase, next
  <2>5. RightSoFar(next)
    BY <1>1, <2>2, <2>3, <2>4 DEF RightSoFar, Pointed
  <2> QED BY <2>1, <2>5, RightAfter
<1> QED BY <1>7, <1>8, <1>9 DEF Shift, i, m

LEMMA MeasureIsRight ==
  ASSUME DecimalInv, RightSoFar(reader), Measure
  PROVE  RightSoFar(reader)'
<1> DEFINE i == reader.index
           first == i + 1
           end == RunEnd(first)
           P == form.fractional_digits
<1>0. /\ text \in Seq(Characters)
      /\ Len(text) \in Nat
      /\ reader \in Readers
      /\ First \in Nat \ {0}
      /\ P \in Nat
      /\ Point \notin 0..9
  BY WhatIsKnown
<1>1. /\ reader.phase = "measure"
      /\ reader.error = NoError
      /\ reader.negative <=> Signed(text)
      /\ Signed(text) => form.allow_negative
      /\ Pointed(i)
      /\ reader.value = Whole(i)
  BY DEF RightSoFar, Measure
<1>2. /\ i \in Nat
      /\ i <= Len(text)
      /\ Ended(i)
      /\ first \in Nat /\ first <= Len(text) + 1
  BY <1>0, <1>1 DEF Pointed, Ended, At
<1> HIDE DEF i
<1>3. /\ end \in first .. Len(text) + 1
      /\ ~DigitAt(end)
      /\ Digits(first, end)
  <2> HIDE DEF first
  <2> QED BY <1>0, <1>2, RunEnds DEF Digits
<1>4. "MissingDigits" \in Problems /\ "TooManyFractionalDigits" \in Problems
  BY DEF Problems
<1> HIDE DEF end
<1>5. ASSUME NEW e \in Nat, NEW split, PartAt(e, split)
      PROVE  /\ first <= Len(text)
             /\ DigitAt(first)
             /\ Len(text) - i <= P
  <2>1. e = i
    BY <1>2, <1>5, SplitsLieAtTheEnd
  <2>2. e # Len(text) + 1
    BY <1>0, <1>2, <2>1
  <2>3. Digits(e + 1, Len(text) + 1) /\ Len(text) - e \in 1..P
    BY <1>5, <2>2 DEF PartAt
  <2>4. first \in e + 1 .. (Len(text) + 1) - 1 /\ first <= Len(text) /\ Len(text) - i <= P
    BY <1>0, <1>2, <2>1, <2>3
  <2>5. DigitAt(first)
    BY <2>3, <2>4 DEF Digits
  <2> QED BY <2>4, <2>5
<1>6. ASSUME end - first = 0, Fail("MissingDigits")
      PROVE  RightSoFar(reader)'
  <2>1. end = first
    BY <1>2, <1>3, <1>6
  <2>2. \A e \in Nat : \A split : ~PartAt(e, split)
    BY <1>3, <1>5, <2>1
  <2>3. Judged("MissingDigits", reader.value)
    BY <1>4, <2>2, NothingToRead
  <2> QED BY <1>0, <1>4, <1>6, <2>3, GivesUp
<1>7. ASSUME end - first > P, Fail("TooManyFractionalDigits")
      PROVE  RightSoFar(reader)'
  <2>1. ~(Len(text) - i <= P)
    BY <1>0, <1>2, <1>3, <1>7
  <2>2. \A e \in Nat : \A split : ~PartAt(e, split)
    BY <1>5, <2>1
  <2>3. Judged("TooManyFractionalDigits", reader.value)
    BY <1>4, <2>2, NothingToRead
  <2> QED BY <1>0, <1>4, <1>7, <2>3, GivesUp
<1>8. ASSUME end - first \in 1..P,
             Goes([reader EXCEPT !.begin = first, !.index = first,
                                 !.end = first + (end - first), !.phase = "fraction"])
      PROVE  RightSoFar(reader)'
  <2> DEFINE last == first + (end - first)
             next == [reader EXCEPT !.begin = first, !.index = first,
                                    !.end = last, !.phase = "fraction"]
  <2>1. Goes(next)
    BY <1>8
  <2>2. last = end
    BY <1>2, <1>3
  <2>3. reader.fraction = 0
    BY <1>1 DEF DecimalInv
  <2> HIDE DEF last
  <2>4. /\ next.phase = "fraction"
        /\ next.error = NoError
        /\ next.negative = reader.negative
        /\ next.begin = first
        /\ next.index = first
        /\ next.end = end
        /\ next.value = reader.value
        /\ next.fraction = 0
    BY <1>0, <1>1, <2>2, <2>3 DEF Readers
  <2>5. Fraction(i, end)
    <3>1. end \in i + 2 .. Len(text) + 1 /\ end - (i + 1) <= P
      BY <1>0, <1>2, <1>3, <1>8, SMTT(60)
    <3> QED BY <1>3, <3>1 DEF Fraction, P
  <2>6. first \in i + 1 .. end
    BY <1>2, <1>3
  <2>7. Reading(i + 1, first) = 0
    <3>1. i + 1 \in Nat \ {0}
      BY <1>2
    <3> QED BY <1>0, <3>1, ReadingStarts
  <2> HIDE DEF next
  <2>8. /\ Pointed(i)
        /\ next.value = Whole(i)
        /\ Fraction(i, next.end)
        /\ next.begin = i + 1
        /\ next.index \in i + 1 .. next.end
        /\ next.fraction = Reading(i + 1, next.index)
    BY <1>1, <2>4, <2>5, <2>6, <2>7
  <2>9. RightSoFar(next)
    BY <1>1, <1>2, <2>4, <2>8 DEF RightSoFar
  <2> QED BY <2>1, <2>9, RightAfter
<1> QED BY <1>6, <1>7, <1>8 DEF Measure, i, end
LEMMA FractionIsRight ==
  ASSUME DecimalInv, RightSoFar(reader), ReadFraction
  PROVE  RightSoFar(reader)'
<1> DEFINE i == reader.index
           P == form.fractional_digits
<1>0. /\ text \in Seq(Characters)
      /\ Len(text) \in Nat
      /\ reader \in Readers
  BY WhatIsKnown
<1>1. /\ reader.phase = "fraction"
      /\ reader.error = NoError
      /\ reader.negative <=> Signed(text)
      /\ Signed(text) => form.allow_negative
  BY DEF RightSoFar, ReadFraction
<1>2. PICK e \in Nat : /\ Pointed(e)
                       /\ reader.value = Whole(e)
                       /\ Fraction(e, reader.end)
                       /\ reader.begin = e + 1
                       /\ i \in e + 1 .. reader.end
                       /\ reader.fraction = Reading(e + 1, i)
  BY <1>1 DEF RightSoFar
<1>3. /\ reader.end \in e + 2 .. Len(text) + 1
      /\ Digits(e + 1, reader.end)
      /\ i \in Nat /\ e + 1 <= i /\ e + 1 \in Nat \ {0}
  BY <1>0, <1>2 DEF Fraction
<1> HIDE DEF i
<1>4. ASSUME i < reader.end,
             Goes([reader EXCEPT !.fraction = reader.fraction * 10 + text[i], !.index = i + 1])
      PROVE  RightSoFar(reader)'
  <2> DEFINE number == reader.fraction * 10 + text[i]
             next == [reader EXCEPT !.fraction = number, !.index = i + 1]
  <2>1. Goes(next)
    BY <1>4
  <2>2. Digits(e + 1, i) /\ DigitAt(i)
    <3>1. \A k \in e + 1 .. i - 1 : k \in e + 1 .. reader.end - 1
      BY <1>0, <1>2, <1>3
    <3>2. i \in e + 1 .. reader.end - 1
      BY <1>0, <1>3, <1>4
    <3> QED BY <1>3, <3>1, <3>2 DEF Digits
  <2>3. Reading(e + 1, i + 1) = Reading(e + 1, i) * 10 + text[i]
    <3> DEFINE b == e + 1
    <3>1. b \in Nat \ {0} /\ b <= i /\ Digits(b, i)
      BY <1>3, <2>2
    <3> HIDE DEF b
    <3>2. Reading(b, i + 1) = Reading(b, i) * 10 + text[i]
      BY <1>0, <1>3, <2>2, <3>1, ReadingGoesOn
    <3> QED BY <3>2 DEF b
  <2>4. number = Reading(e + 1, i + 1)
    BY <1>2, <2>3
  <2> HIDE DEF number
  <2>5. /\ next.phase = "fraction"
        /\ next.error = NoError
        /\ next.negative = reader.negative
        /\ next.begin = reader.begin
        /\ next.index = i + 1
        /\ next.end = reader.end
        /\ next.value = reader.value
        /\ next.fraction = number
    BY <1>0, <1>1 DEF Readers
  <2>6. i + 1 \in e + 1 .. reader.end
    BY <1>0, <1>3, <1>4
  <2> HIDE DEF next
  <2>7. /\ Pointed(e)
        /\ next.value = Whole(e)
        /\ Fraction(e, next.end)
        /\ next.begin = e + 1
        /\ next.index \in e + 1 .. next.end
        /\ next.fraction = Reading(e + 1, next.index)
    BY <1>2, <2>4, <2>5, <2>6
  <2>8. RightSoFar(next)
    BY <1>1, <2>5, <2>7 DEF RightSoFar
  <2> QED BY <2>1, <2>8, RightAfter
<1>5. ASSUME i = reader.end,
             Goes([reader EXCEPT
                     !.fraction = reader.fraction
                                    * power_of_ten[P - (reader.end - reader.begin)],
                     !.phase = "sum"])
      PROVE  RightSoFar(reader)'
  <2> DEFINE padded == reader.fraction * power_of_ten[P - (reader.end - reader.begin)]
             next == [reader EXCEPT !.fraction = padded, !.phase = "sum"]
  <2>1. Goes(next)
    BY <1>5
  <2>2. padded = Part(e + 1, i)
    BY <1>2, <1>5 DEF Part, P
  <2> HIDE DEF padded
  <2>3. /\ next.phase = "sum"
        /\ next.error = NoError
        /\ next.negative = reader.negative
        /\ next.index = i
        /\ next.value = reader.value
        /\ next.fraction = padded
    BY <1>0, <1>1 DEF Readers, i
  <2> HIDE DEF next
  <2>4. /\ Pointed(e)
        /\ next.value = Whole(e)
        /\ Fraction(e, next.index)
        /\ next.fraction = Part(e + 1, next.index)
    BY <1>2, <1>5, <2>2, <2>3
  <2>5. RightSoFar(next)
    BY <1>1, <2>3, <2>4 DEF RightSoFar
  <2> QED BY <2>1, <2>5, RightAfter
<1> QED BY <1>4, <1>5 DEF ReadFraction, i, P

\* A text that splits where the reader found its point ends where the reader
\* found the end of its fraction, and says what was read.
LEMMA FractionIsSaid ==
  ASSUME DecimalInv, NEW f \in Nat, NEW end \in Nat, Pointed(f), Fraction(f, end),
         NEW e \in Nat, NEW split, PartAt(e, split)
  PROVE  /\ end = Len(text) + 1
         /\ Says(split) = Whole(f) + Part(f + 1, end)
<1>0. text \in Seq(Characters) /\ Len(text) \in Nat /\ form.fractional_digits \in Nat
  BY WhatIsKnown
<1>1. e = f /\ e <= Len(text)
  BY SplitsLieAtTheEnd DEF Pointed, At
<1>2. Digits(f + 1, Len(text) + 1)
  BY <1>0, <1>1 DEF PartAt
<1>3. /\ end \in f + 2 .. Len(text) + 1
      /\ Digits(f + 1, end)
      /\ ~DigitAt(end)
  BY DEF Fraction
<1>4. end = Len(text) + 1
  <2> DEFINE b == f + 1
             n == Len(text) + 1
  <2>1. b \in Nat /\ n \in Nat /\ b <= end /\ b <= n /\ end <= n
    BY <1>0, <1>1, <1>3
  <2>2. Digits(b, end) /\ Digits(b, n)
    BY <1>2, <1>3
  <2> HIDE DEF b, n
  <2>3. n <= end
    BY <1>3, <2>1, <2>2, RunsEndOnce
  <2>4. end = n
    BY <2>1, <2>3
  <2> QED BY <2>4 DEF n
<1>5. Says(split) = Whole(e) + Part(e + 1, Len(text) + 1)
  BY <1>0, <1>1, WhatPartsSay
<1> QED BY <1>1, <1>4, <1>5

LEMMA SumIsRight ==
  ASSUME DecimalInv, RightSoFar(reader), AddFraction
  PROVE  RightSoFar(reader)'
<1>0. /\ reader \in Readers
      /\ reader.value \in Nat
      /\ reader.fraction \in Nat
      /\ reader.index \in Nat
      /\ kMax \in Nat
      /\ form.limit \in 0..kMax
  <2>1. reader \in Readers /\ kMax \in Nat /\ form.limit \in 0..kMax
    BY WhatIsKnown
  <2>2. reader.value >= 0
    BY DEF DecimalInv, AddFraction
  <2> QED BY <2>1, <2>2 DEF Readers
<1>1. /\ reader.phase = "sum"
      /\ reader.error = NoError
      /\ reader.negative <=> Signed(text)
      /\ Signed(text) => form.allow_negative
  BY DEF RightSoFar, AddFraction
<1>2. PICK f \in Nat : /\ Pointed(f)
                       /\ reader.value = Whole(f)
                       /\ Fraction(f, reader.index)
                       /\ reader.fraction = Part(f + 1, reader.index)
  BY <1>1 DEF RightSoFar
<1>3. ASSUME reader.value > kMax - reader.fraction, Fail("Overflow")
      PROVE  RightSoFar(reader)'
  <2>1. ASSUME NEW e \in Nat, NEW split, PartAt(e, split)
        PROVE  Says(split) > form.limit
    <3>1. Says(split) = Whole(f) + Part(f + 1, reader.index)
      BY <1>0, <1>2, <2>1, FractionIsSaid
    <3>2. Says(split) = reader.value + reader.fraction
      BY <1>2, <3>1
    <3> QED BY <1>0, <1>3, <3>2
  <2>2. Judged("Overflow", reader.value)
    BY <2>1, TooLargeToRead
  <2>3. "Overflow" \in Problems
    BY DEF Problems
  <2> QED BY <1>0, <1>3, <2>2, <2>3, GivesUp
<1>4. ASSUME Goes([reader EXCEPT !.value = reader.value + reader.fraction, !.phase = "rest"])
      PROVE  RightSoFar(reader)'
  <2> DEFINE sum == reader.value + reader.fraction
             next == [reader EXCEPT !.value = sum, !.phase = "rest"]
  <2>1. Goes(next)
    BY <1>4
  <2>2. sum = Whole(f) + Part(f + 1, reader.index)
    BY <1>2
  <2> HIDE DEF sum
  <2>3. /\ next.phase = "rest"
        /\ next.error = NoError
        /\ next.negative = reader.negative
        /\ next.index = reader.index
        /\ next.value = sum
    BY <1>0, <1>1 DEF Readers
  <2> HIDE DEF next
  <2>4. /\ Pointed(f)
        /\ Fraction(f, next.index)
        /\ next.value = Whole(f) + Part(f + 1, next.index)
    BY <1>2, <2>2, <2>3
  <2>5. RightSoFar(next)
    BY <1>1, <2>3, <2>4 DEF RightSoFar
  <2> QED BY <2>1, <2>5, RightAfter
<1> QED BY <1>3, <1>4 DEF AddFraction

LEMMA RestIsRight ==
  ASSUME DecimalInv, RightSoFar(reader), ReadRest
  PROVE  RightSoFar(reader)'
<1> DEFINE i == reader.index
           P == form.fractional_digits
<1>0. /\ text \in Seq(Characters)
      /\ Len(text) \in Nat
      /\ reader \in Readers
      /\ i \in Nat
      /\ reader.value \in Nat
      /\ First \in Nat \ {0}
      /\ P \in Nat
      /\ kMax \in Nat
      /\ form.limit \in 0..kMax
  <2>1. reader \in Readers /\ kMax \in Nat /\ form.limit \in 0..kMax
    BY WhatIsKnown
  <2>2. reader.value >= 0
    BY DEF DecimalInv, ReadRest
  <2>3. i \in Nat /\ reader.value \in Nat
    BY <2>1, <2>2 DEF Readers
  <2> QED BY <2>1, <2>3, WhatIsKnown
<1>1. /\ reader.phase = "rest"
      /\ reader.error = NoError
      /\ reader.negative <=> Signed(text)
      /\ Signed(text) => form.allow_negative
      /\ \/ Ended(i) /\ ~At(i, Point) /\ reader.value = Whole(i)
         \/ \E f \in Nat : /\ Pointed(f)
                           /\ Fraction(f, i)
                           /\ reader.value = Whole(f) + Part(f + 1, i)
  BY DEF RightSoFar, ReadRest
<1> HIDE DEF i
<1>2. ASSUME NEW e \in Nat, NEW split, PartAt(e, split)
      PROVE  i = Len(text) + 1 /\ Says(split) = reader.value
  <2>1. CASE Ended(i) /\ ~At(i, Point) /\ reader.value = Whole(i)
    <3>1. e = i
      BY <1>0, <1>2, <2>1, SplitsLieAtTheEnd
    <3>2. e = Len(text) + 1
      BY <1>2, <2>1, <3>1 DEF PartAt, At
    <3>3. Says(split) = Whole(e)
      BY <1>0, <1>2, <3>2, WhatPartsSay
    <3> QED BY <2>1, <3>1, <3>2, <3>3
  <2>2. CASE \E f \in Nat : /\ Pointed(f)
                            /\ Fraction(f, i)
                            /\ reader.value = Whole(f) + Part(f + 1, i)
    BY <1>0, <1>2, <2>2, FractionIsSaid
  <2> QED BY <1>1, <2>1, <2>2
<1>3. "InvalidCharacter" \in Problems /\ "Overflow" \in Problems
  BY DEF Problems
<1>4. ASSUME i # Len(text) + 1, Fail("InvalidCharacter")
      PROVE  RightSoFar(reader)'
  <2>1. \A e \in Nat : \A split : ~PartAt(e, split)
    BY <1>2, <1>4
  <2>2. Judged("InvalidCharacter", reader.value)
    BY <1>3, <2>1, NothingToRead
  <2> QED BY <1>0, <1>3, <1>4, <2>2, GivesUp
<1>5. ASSUME ~Storable(reader.value), Fail("Overflow")
      PROVE  RightSoFar(reader)'
  <2>1. reader.value > form.limit
    BY <1>0, <1>5 DEF Storable
  <2>2. \A e \in Nat : \A split : PartAt(e, split) => Says(split) > form.limit
    BY <1>2, <2>1
  <2>3. Judged("Overflow", reader.value)
    BY <2>2, TooLargeToRead
  <2> QED BY <1>0, <1>3, <1>5, <2>3, GivesUp
<1>6. ASSUME i = Len(text) + 1
      PROVE  \E e \in Nat : \E integer, fraction :
               PartAt(e, [integer |-> integer, fraction |-> fraction])
  <2>1. CASE Ended(i) /\ ~At(i, Point)
    <3>1. PartAt(i, [integer |-> SubSeq(text, First, i - 1), fraction |-> <<>>])
      BY <1>6, <2>1 DEF PartAt, Ended
    <3> QED BY <1>0, <3>1
  <2>2. ASSUME NEW f \in Nat, Pointed(f), Fraction(f, i)
        PROVE  PartAt(f, [integer  |-> SubSeq(text, First, f - 1),
                          fraction |-> SubSeq(text, f + 1, Len(text))])
    <3>1. /\ f \in First + 1 .. Len(text) + 1 /\ Digits(First, f)
          /\ f <= Len(text) /\ text[f] = Point
      BY <2>2 DEF Pointed, Ended, At
    <3>2. /\ i \in f + 2 .. Len(text) + 1 /\ Digits(f + 1, i) /\ i - (f + 1) <= P
      BY <2>2 DEF Fraction, P
    <3>3. Len(text) - f \in 1..P
      BY <1>0, <1>6, <3>2
    <3> QED BY <1>6, <3>1, <3>2, <3>3 DEF PartAt, P
  <2> QED BY <1>1, <2>1, <2>2
<1>7. ASSUME i = Len(text) + 1, Storable(reader.value),
             Goes([reader EXCEPT !.value = IF reader.negative THEN -reader.value ELSE reader.value,
                                 !.phase = "done"])
      PROVE  RightSoFar(reader)'
  <2> DEFINE value == IF reader.negative THEN -reader.value ELSE reader.value
             next == [reader EXCEPT !.value = value, !.phase = "done"]
  <2>1. Goes(next)
    BY <1>7
  <2>2. value = IF Signed(text) THEN -reader.value ELSE reader.value
    BY <1>1
  <2> HIDE DEF value
  <2>3. PICK e \in Nat : \E integer, fraction :
          PartAt(e, [integer |-> integer, fraction |-> fraction])
    BY <1>6, <1>7
  <2>4. PICK integer, fraction : PartAt(e, [integer |-> integer, fraction |-> fraction])
    BY <2>3
  <2>5. Says([integer |-> integer, fraction |-> fraction]) = reader.value
    BY <1>2, <2>4
  <2>6. reader.value <= form.limit
    BY <1>7 DEF Storable
  <2>7. Judged(NoError, value)
    BY <1>0, <1>1, <2>2, <2>4, <2>5, <2>6, ReadWell
  <2>8. /\ next.phase = "done"
        /\ next.error = NoError
        /\ next.value = value
    BY <1>0, <1>1 DEF Readers
  <2> HIDE DEF next
  <2>9. RightSoFar(next)
    BY <2>7, <2>8 DEF RightSoFar
  <2> QED BY <2>1, <2>9, RightAfter
<1> QED BY <1>4, <1>5, <1>7 DEF ReadRest, i

LEMMA RightInit == DecimalInit(Texts, Forms) => RightSoFar(reader)
BY DEF DecimalInit, RightSoFar

LEMMA RightStep ==
  ASSUME DecimalInv, RightSoFar(reader), [DecimalNext]_decimal
  PROVE  RightSoFar(reader)'
<1>1. CASE UNCHANGED decimal
  <2>1. Goes(reader)
    BY <1>1 DEF decimal, Goes
  <2> QED BY <2>1, RightAfter
<1> QED BY <1>1, SignIsRight, IntegerIsRight, ShiftIsRight, MeasureIsRight, FractionIsRight,
           SumIsRight, RestIsRight DEF DecimalNext

\* Whatever text is given to a field, the number read is the one that it says,
\* never rounded and never wrapped around; it is refused as an overflow exactly
\* when it does not fit, and a text that is no number of the field is refused.
THEOREM DecimalsAreReadRight == DecimalSpec => []ReadsWhatItSays
<1> DEFINE Inv == DecimalInv /\ RightSoFar(reader)
<1>1. DecimalInit(Texts, Forms) => Inv
  BY DecimalInvInit, RightInit
<1>2. Inv /\ [DecimalNext]_decimal => Inv'
  BY DecimalInvStep, RightStep
<1>3. Inv => ReadsWhatItSays
  BY DEF RightSoFar, Judged, ReadsWhatItSays
<1> QED BY <1>1, <1>2, <1>3, PTL DEF DecimalSpec

-----------------------------------------------------------------------------
(***************************************************************************)
(* What is formatted is read back, and what is canonical is formatted as   *)
(* it was.                                                                 *)
(***************************************************************************)
Joined(integer, fraction) ==
  integer \o (IF fraction = <<>> THEN <<>> ELSE <<Point>> \o fraction)

LEMMA CharactersAre ==
  /\ 0..9 \subseteq Characters
  /\ Point \in Characters /\ Minus \in Characters
  /\ Point \notin 0..9 /\ Minus \notin 0..9
BY DecimalsAssumption DEF Characters

LEMMA JoinedIs ==
  ASSUME NEW integer \in Seq(0..9), NEW fraction \in Seq(0..9)
  PROVE  /\ Joined(integer, fraction) \in Seq(Characters)
         /\ Len(Joined(integer, fraction)) =
              Len(integer) + (IF fraction = <<>> THEN 0 ELSE Len(fraction) + 1)
         /\ \A i \in 1..Len(integer) : Joined(integer, fraction)[i] = integer[i]
         /\ fraction # <<>> =>
              /\ Joined(integer, fraction)[Len(integer) + 1] = Point
              /\ \A i \in 1..Len(fraction) :
                   Joined(integer, fraction)[Len(integer) + 1 + i] = fraction[i]
<1> DEFINE point == <<Point>>
           behind == point \o fraction
           joined == integer \o behind
           n == Len(integer)
           m == Len(fraction)
<1>1. integer \in Seq(Characters) /\ fraction \in Seq(Characters) /\ n \in Nat /\ m \in Nat
  BY CharactersAre
<1>2. CASE fraction = <<>>
  <2>1. Joined(integer, fraction) = integer
    BY <1>2 DEF Joined
  <2> QED BY <1>1, <1>2, <2>1
<1>3. CASE fraction # <<>>
  <2>1. point \in Seq(Characters) /\ Len(point) = 1 /\ point[1] = Point
    BY CharactersAre
  <2> HIDE DEF point
  <2>2. /\ behind \in Seq(Characters)
        /\ Len(behind) = 1 + m
        /\ \A i \in 1 .. 1 + m : behind[i] = IF i <= 1 THEN point[i] ELSE fraction[i - 1]
    <3>1. /\ point \o fraction \in Seq(Characters)
          /\ Len(point \o fraction) = Len(point) + Len(fraction)
          /\ \A i \in 1 .. Len(point) + Len(fraction) :
               (point \o fraction)[i] = IF i <= Len(point) THEN point[i]
                                        ELSE fraction[i - Len(point)]
      BY <1>1, <2>1, ConcatProperties
    <3> QED BY <2>1, <3>1
  <2>3. behind[1] = Point /\ \A i \in 1..m : behind[1 + i] = fraction[i]
    <3>1. 1 \in 1 .. 1 + m /\ \A i \in 1..m : 1 + i \in 1 .. 1 + m /\ ~(1 + i <= 1) /\ (1 + i) - 1 = i
      BY <1>1
    <3> QED BY <2>1, <2>2, <3>1
  <2> HIDE DEF behind
  <2>4. /\ joined \in Seq(Characters)
        /\ Len(joined) = n + (1 + m)
        /\ \A i \in 1 .. n + (1 + m) : joined[i] = IF i <= n THEN integer[i] ELSE behind[i - n]
    <3>1. /\ integer \o behind \in Seq(Characters)
          /\ Len(integer \o behind) = Len(integer) + Len(behind)
          /\ \A i \in 1 .. Len(integer) + Len(behind) :
               (integer \o behind)[i] = IF i <= Len(integer) THEN integer[i]
                                        ELSE behind[i - Len(integer)]
      BY <1>1, <2>2, ConcatProperties
    <3> QED BY <2>2, <3>1
  <2>5. Joined(integer, fraction) = joined
    BY <1>3 DEF Joined, behind, point
  <2> HIDE DEF joined
  <2>6. \A i \in 1..n : joined[i] = integer[i]
    <3>1. \A i \in 1..n : i \in 1 .. n + (1 + m) /\ i <= n
      BY <1>1
    <3> QED BY <2>4, <3>1
  <2>7. joined[n + 1] = Point
    <3>1. n + 1 \in 1 .. n + (1 + m) /\ ~(n + 1 <= n) /\ (n + 1) - n = 1
      BY <1>1
    <3> QED BY <2>3, <2>4, <3>1
  <2>8. ASSUME NEW i \in 1..m
        PROVE  joined[n + 1 + i] = fraction[i]
    <3>1. n + 1 + i \in 1 .. n + (1 + m) /\ ~(n + 1 + i <= n) /\ (n + 1 + i) - n = 1 + i
      BY <1>1
    <3> QED BY <2>3, <2>4, <3>1
  <2>9. n + (1 + m) = n + (IF fraction = <<>> THEN 0 ELSE m + 1)
    BY <1>1, <1>3
  <2> QED BY <2>4, <2>5, <2>6, <2>7, <2>8, <2>9
<1> QED BY <1>2, <1>3

LEMMA JoinedSplits ==
  ASSUME NEW integer \in Seq(0..9), integer # <<>>, NEW fraction \in Seq(0..9),
         NEW places \in Nat, Len(fraction) <= places
  PROVE  [integer |-> integer, fraction |-> fraction] \in Splits(Joined(integer, fraction), places)
<1> DEFINE u == Joined(integer, fraction)
           split == [integer |-> integer, fraction |-> fraction]
           n == Len(integer)
           m == Len(fraction)
<1>1. /\ u \in Seq(Characters)
      /\ Len(u) = n + (IF fraction = <<>> THEN 0 ELSE m + 1)
      /\ \A i \in 1..n : u[i] = integer[i]
      /\ fraction # <<>> => /\ u[n + 1] = Point
                            /\ \A i \in 1..m : u[n + 1 + i] = fraction[i]
  BY JoinedIs
<1>2. n \in Nat \ {0} /\ m \in Nat /\ (fraction = <<>> <=> m = 0)
  OBVIOUS
<1> HIDE DEF u
<1>3. SubSeq(u, 1, n) = integer
  <2>1. \A i \in 1..n : u[i] \in 0..9
    BY <1>1
  <2>2. 1 \in Int /\ n \in Int /\ (IF 1 <= n THEN n - 1 + 1 ELSE 0) = n /\ n - 1 + 1 = n
    BY <1>2
  <2> HIDE DEF n
  <2>3. /\ SubSeq(u, 1, n) \in Seq(0..9)
        /\ Len(SubSeq(u, 1, n)) = n
        /\ \A i \in 1..n : SubSeq(u, 1, n)[i] = u[1 + i - 1]
    <3>1. /\ SubSeq(u, 1, n) \in Seq(0..9)
          /\ Len(SubSeq(u, 1, n)) = IF 1 <= n THEN n - 1 + 1 ELSE 0
          /\ \A i \in 1 .. n - 1 + 1 : SubSeq(u, 1, n)[i] = u[1 + i - 1]
      BY <2>1, <2>2, SubSeqProperties
    <3> QED BY <2>2, <3>1
  <2>4. \A i \in 1..n : 1 + i - 1 = i
    BY <1>2
  <2>5. \A i \in 1..n : SubSeq(u, 1, n)[i] = integer[i]
    BY <1>1, <2>3, <2>4
  <2> DEFINE part == SubSeq(u, 1, n)
  <2>6. part \in Seq(0..9) /\ Len(part) = Len(integer) /\ \A i \in 1..Len(part) : part[i] = integer[i]
    BY <2>3, <2>5 DEF n
  <2> HIDE DEF part
  <2>7. part = integer
    BY <2>6, SeqEqual
  <2> QED BY <2>7 DEF part
<1>4. SubSeq(u, n + 2, Len(u)) = fraction
  <2>1. CASE fraction = <<>>
    <3>1. n + 2 \in Int /\ Len(u) \in Int /\ Len(u) < n + 2
      BY <1>1, <1>2, <2>1
    <3> QED BY <2>1, <3>1, SubSeqEmpty
  <2>2. CASE fraction # <<>>
    <3> DEFINE a == n + 2
               b == Len(u)
               part == SubSeq(u, a, b)
    <3>1. /\ a \in Int /\ b \in Int /\ b = n + (m + 1)
          /\ (IF a <= b THEN b - a + 1 ELSE 0) = m /\ b - a + 1 = m
      BY <1>1, <1>2, <2>2
    <3>2. \A i \in a..b : u[i] \in 0..9
      <4> TAKE i \in a..b
      <4>1. i - (n + 1) \in 1..m /\ n + 1 + (i - (n + 1)) = i
        BY <1>2, <3>1
      <4>2. u[i] = fraction[i - (n + 1)]
        BY <1>1, <2>2, <4>1
      <4> HIDE DEF a, b, n
      <4> QED BY <4>1, <4>2
    <3>3. \A i \in 1..m : a + i - 1 = n + 1 + i
      BY <1>2
    <3> HIDE DEF a, b
    <3>4. /\ part \in Seq(0..9)
          /\ Len(part) = IF a <= b THEN b - a + 1 ELSE 0
          /\ \A i \in 1 .. b - a + 1 : part[i] = u[a + i - 1]
      BY <3>1, <3>2, SubSeqProperties
    <3> HIDE DEF part
    <3>5. Len(part) = Len(fraction) /\ \A i \in 1..Len(part) : part[i] = fraction[i]
      BY <1>1, <2>2, <3>1, <3>3, <3>4, ZenonT(60)
    <3>6. part = fraction
      BY <3>4, <3>5, SeqEqual
    <3> QED BY <3>6 DEF part, a, b
  <2> QED BY <2>1, <2>2
<1>5. split = Split(u, n + 1)
  <2>1. (n + 1) - 1 = n /\ (n + 1) + 1 = n + 2
    BY <1>2
  <2> QED BY <1>3, <1>4, <2>1 DEF Split
<1>6. n + 1 \in 1 .. Len(u) + 1
  BY <1>1, <1>2
<1>7. IF integer = u THEN fraction = <<>> ELSE u[n + 1] = Point /\ m \in 1..places
  <2>1. CASE fraction = <<>>
    <3>1. u = integer
      BY <2>1 DEF u, Joined
    <3> QED BY <2>1, <3>1
  <2>2. CASE fraction # <<>>
    <3>1. Len(u) # n
      BY <1>1, <1>2, <2>2
    <3> QED BY <1>1, <1>2, <2>2, <3>1
  <2> QED BY <2>1, <2>2
<1>8. /\ \A i \in DOMAIN integer : is_digit(integer[i])
      /\ \A i \in DOMAIN fraction : is_digit(fraction[i])
  BY DEF is_digit
<1>9. split \in {Split(u, point) : point \in 1 .. Len(u) + 1}
  BY <1>5, <1>6
<1> HIDE DEF split
<1>10. split.integer = integer /\ split.fraction = fraction
  BY DEF split
<1>11. split \in Splits(u, places)
  BY <1>7, <1>8, <1>9, <1>10 DEF Splits
<1> QED BY <1>11 DEF split, u

LEMMA SplitsAreJoined ==
  ASSUME NEW u \in Seq(Characters), NEW places \in Nat, NEW split \in Splits(u, places)
  PROVE  /\ split.integer \in Seq(0..9)
         /\ split.integer # <<>>
         /\ split.fraction \in Seq(0..9)
         /\ split = [integer |-> split.integer, fraction |-> split.fraction]
         /\ u = Joined(split.integer, split.fraction)
<1> DEFINE n == Len(u)
<1>1. PICK point \in 1 .. n + 1 : split = Split(u, point)
  BY DEF Splits
<1>2. /\ split.integer # <<>>
      /\ \A i \in DOMAIN split.integer : is_digit(split.integer[i])
      /\ \A i \in DOMAIN split.fraction : is_digit(split.fraction[i])
      /\ IF split.integer = u THEN split.fraction = <<>>
         ELSE /\ u[Len(split.integer) + 1] = Point
              /\ Len(split.fraction) \in 1..places
  BY DEF Splits
<1>3. /\ split = [integer |-> SubSeq(u, 1, point - 1), fraction |-> SubSeq(u, point + 1, n)]
      /\ split.integer = SubSeq(u, 1, point - 1)
      /\ split.fraction = SubSeq(u, point + 1, n)
  BY <1>1 DEF Split
<1>4. n \in Nat /\ point - 1 \in 0..n /\ \A i \in 1..n : u[i] \in Characters
  OBVIOUS
<1> HIDE DEF n
<1>5. split.integer \in Seq(Characters) /\ Len(split.integer) = point - 1
  <2> DEFINE b == point - 1
  <2>1. 1 \in Int /\ b \in Int /\ (\A i \in 1..b : u[i] \in Characters)
        /\ (IF 1 <= b THEN b - 1 + 1 ELSE 0) = b
    BY <1>4
  <2> HIDE DEF b
  <2>2. SubSeq(u, 1, b) \in Seq(Characters) /\ Len(SubSeq(u, 1, b)) = IF 1 <= b THEN b - 1 + 1 ELSE 0
    BY <2>1, SubSeqProperties
  <2>3. split.integer = SubSeq(u, 1, b)
    BY <1>3 DEF b
  <2> QED BY <2>1, <2>2, <2>3 DEF b
<1>6. split.fraction \in Seq(Characters)
  <2> DEFINE a == point + 1
  <2>1. a \in Int /\ n \in Int /\ \A i \in a..n : u[i] \in Characters
    BY <1>4
  <2> HIDE DEF a
  <2>2. SubSeq(u, a, n) \in Seq(Characters)
    BY <2>1, SubSeqProperties
  <2> QED BY <1>3, <2>2 DEF a
<1>7. ASSUME NEW s \in Seq(Characters), \A i \in DOMAIN s : is_digit(s[i])
      PROVE  s \in Seq(0..9)
  <2>1. Len(s) \in Nat /\ s \in [1..Len(s) -> Characters] /\ DOMAIN s = 1..Len(s)
    BY LenProperties
  <2>2. s \in [1..Len(s) -> 0..9]
    BY <1>7, <2>1 DEF is_digit
  <2> QED BY <2>1, <2>2, SeqDef
<1>8. split.integer \in Seq(0..9) /\ split.fraction \in Seq(0..9)
  BY <1>2, <1>5, <1>6, <1>7
<1>9. CASE split.integer = u
  <2>1. split.fraction = <<>>
    BY <1>2, <1>9
  <2>2. Joined(split.integer, split.fraction) = split.integer \o <<>>
    BY <2>1 DEF Joined
  <2>3. u \o <<>> = u
    BY ConcatEmptySeq
  <2> QED BY <1>2, <1>3, <1>8, <1>9, <2>2, <2>3
<1>10. CASE split.integer # u
  <2>1. point \in 1..n
    <3>1. point # n + 1
      <4> SUFFICES ASSUME point = n + 1
                   PROVE  FALSE
        OBVIOUS
      <4>1. point - 1 = n
        BY <1>4
      <4>2. split.integer = u
        BY <1>3, <4>1, SubSeqFull DEF n
      <4> QED BY <1>10, <4>2
    <3> QED BY <1>4, <3>1
  <2>2. u[point] = Point /\ split.fraction # <<>>
    <3>1. (point - 1) + 1 = point
      BY <2>1
    <3>2. Len(split.fraction) # 0
      BY <1>2, <1>10
    <3> QED BY <1>2, <1>5, <1>10, <3>1, <3>2
  <2>3. SubSeq(u, point, n) = <<Point>> \o split.fraction
    <3>1. point \in 1..Len(u) /\ n \in point..Len(u)
      BY <1>4, <2>1 DEF n
    <3>2. SubSeq(u, point, n) = <<u[point]>> \o SubSeq(u, point + 1, n)
      BY <3>1, SubSeqRecursiveFirst
    <3> QED BY <1>3, <2>2, <3>2
  <2>4. SubSeq(u, 1, point - 1) \o SubSeq(u, (point - 1) + 1, n) = SubSeq(u, 1, n)
    <3> DEFINE k == point - 1
    <3>1. 1 \in 1 .. Len(u) + 1 /\ k \in 1 - 1 .. Len(u) /\ n \in k..Len(u)
      BY <1>4, <2>1 DEF n
    <3> HIDE DEF k
    <3>2. SubSeq(u, 1, k) \o SubSeq(u, k + 1, n) = SubSeq(u, 1, n)
      BY <3>1, ConcatAdjacentSubSeq
    <3> QED BY <3>2 DEF k
  <2>5. (point - 1) + 1 = point
    BY <2>1
  <2>6. SubSeq(u, 1, n) = u
    BY SubSeqFull DEF n
  <2>7. u = split.integer \o (<<Point>> \o split.fraction)
    BY <1>3, <2>3, <2>4, <2>5, <2>6
  <2> QED BY <1>2, <1>3, <1>8, <2>2, <2>7 DEF Joined
<1> QED BY <1>9, <1>10

Sign(negative, u) == IF negative THEN <<Minus>> \o u ELSE u

LEMMA SignInFront ==
  ASSUME NEW u \in Seq(Characters), u # <<>>, u[1] \in 0..9, NEW negative \in BOOLEAN
  PROVE  /\ Signed(Sign(negative, u)) <=> negative
         /\ SplitsOf(Sign(negative, u)) = Splits(u, form.fractional_digits)
<1> DEFINE sign == <<Minus>>
           t == sign \o u
<1>1. CASE negative
  <2>1. sign \in Seq(Characters) /\ Len(sign) = 1 /\ sign[1] = Minus
    BY CharactersAre
  <2>2. Sign(negative, u) = t
    BY <1>1 DEF Sign
  <2> HIDE DEF sign
  <2>3. /\ t \in Seq(Characters)
        /\ Len(t) = Len(sign) + Len(u)
        /\ \A i \in 1 .. Len(sign) + Len(u) :
             t[i] = IF i <= Len(sign) THEN sign[i] ELSE u[i - Len(sign)]
    BY <2>1, ConcatProperties
  <2> HIDE DEF t
  <2>4. Len(u) \in Nat \ {0}
    OBVIOUS
  <2>5. Len(t) = 1 + Len(u) /\ t # <<>> /\ t[1] = Minus
    <3>1. 1 \in 1 .. 1 + Len(u)
      BY <2>4
    <3> QED BY <2>1, <2>3, <2>4, <3>1
  <2>6. /\ Tail(t) \in Seq(Characters)
        /\ Len(Tail(t)) = Len(t) - 1
        /\ \A i \in 1..Len(Tail(t)) : Tail(t)[i] = t[i + 1]
    BY <2>3, <2>5, HeadTailProperties
  <2>7. Len(Tail(t)) = Len(u)
    BY <2>4, <2>5, <2>6
  <2>8. \A i \in 1..Len(u) : Tail(t)[i] = u[i]
    <3>1. \A i \in 1..Len(u) : i + 1 \in 1 .. 1 + Len(u) /\ ~(i + 1 <= 1) /\ (i + 1) - 1 = i
      BY <2>4
    <3> QED BY <2>1, <2>3, <2>6, <2>7, <3>1
  <2>9. Tail(t) = u
    BY <2>6, <2>7, <2>8, SeqEqual
  <2>10. Head(t) = Minus
    BY <2>3, <2>5
  <2>11. Signed(t)
    BY <2>5, <2>10 DEF Signed
  <2> QED BY <1>1, <2>2, <2>9, <2>11 DEF SplitsOf
<1>2. CASE ~negative
  <2>1. Sign(negative, u) = u
    BY <1>2 DEF Sign
  <2>2. Head(u) = u[1] /\ Minus \notin 0..9
    BY CharactersAre
  <2>3. ~Signed(u)
    BY <2>2 DEF Signed
  <2> QED BY <1>2, <2>1, <2>3 DEF SplitsOf
<1> QED BY <1>1, <1>2

LEMMA WhatSplitsIsSigned ==
  ASSUME NEW t \in Seq(Characters), form.fractional_digits \in Nat, NEW split \in SplitsOf(t)
  PROVE  /\ split.integer \in Seq(0..9)
         /\ split.integer # <<>>
         /\ split.fraction \in Seq(0..9)
         /\ split = [integer |-> split.integer, fraction |-> split.fraction]
         /\ t = Sign(Signed(t), Joined(split.integer, split.fraction))
<1>1. CASE Signed(t)
  <2>1. t # <<>> /\ Head(t) = Minus
    BY <1>1 DEF Signed
  <2>2. Tail(t) \in Seq(Characters)
    BY <2>1, HeadTailProperties
  <2>3. split \in Splits(Tail(t), form.fractional_digits)
    BY <1>1 DEF SplitsOf
  <2>4. /\ split.integer \in Seq(0..9)
        /\ split.integer # <<>>
        /\ split.fraction \in Seq(0..9)
        /\ split = [integer |-> split.integer, fraction |-> split.fraction]
        /\ Tail(t) = Joined(split.integer, split.fraction)
    BY <2>2, <2>3, SplitsAreJoined
  <2>5. t = <<Minus>> \o Tail(t)
    <3> DEFINE n == Len(t)
    <3>1. n \in Nat \ {0} /\ t[1] = Minus
      BY <2>1
    <3>2. SubSeq(t, 1, n) = <<t[1]>> \o SubSeq(t, 1 + 1, n)
      <4>1. 1 \in 1..Len(t) /\ n \in 1..Len(t)
        BY <3>1
      <4> QED BY <4>1, SubSeqRecursiveFirst
    <3>3. SubSeq(t, 1, n) = t /\ Tail(t) = SubSeq(t, 2, n)
      BY <2>1, SubSeqFull, TailIsSubSeq
    <3>4. 1 + 1 = 2
      OBVIOUS
    <3> QED BY <3>1, <3>2, <3>3, <3>4
  <2> QED BY <1>1, <2>4, <2>5 DEF Sign
<1>2. CASE ~Signed(t)
  <2>1. split \in Splits(t, form.fractional_digits)
    BY <1>2 DEF SplitsOf
  <2>2. /\ split.integer \in Seq(0..9)
        /\ split.integer # <<>>
        /\ split.fraction \in Seq(0..9)
        /\ split = [integer |-> split.integer, fraction |-> split.fraction]
        /\ t = Joined(split.integer, split.fraction)
    BY <2>1, SplitsAreJoined
  <2> QED BY <1>2, <2>2 DEF Sign
<1> QED BY <1>1, <1>2

LEMMA FormatIs ==
  ASSUME NEW units \in Int, NEW places \in Nat, NEW magnitude \in Nat, NEW whole \in Nat,
         magnitude = Magnitude(units), whole = magnitude \div power_of_ten[places]
  PROVE  /\ Numeral(whole, Width(whole)) \in Seq(0..9)
         /\ Numeral(whole, Width(whole)) # <<>>
         /\ Len(Numeral(whole, Width(whole))) = Width(whole)
         /\ Numeral(magnitude, places) \in Seq(0..9)
         /\ Len(Numeral(magnitude, places)) = places
         /\ format_scaled_decimal(units, places) =
              Sign(units < 0, Joined(Numeral(whole, Width(whole)), Numeral(magnitude, places)))
<1> DEFINE integer == Numeral(whole, Width(whole))
           fraction == Numeral(magnitude, places)
           sign == IF units < 0 THEN <<Minus>> ELSE <<>>
           behind == IF places = 0 THEN <<>> ELSE <<Point>> \o fraction
<1>1. Width(whole) \in Nat \ {0}
  BY WidthFits DEF Fitting
<1>2. integer \in Seq(0..9) /\ Len(integer) = Width(whole) /\ integer # <<>>
  BY <1>1, NumeralIs
<1>3. fraction \in Seq(0..9) /\ Len(fraction) = places
  BY NumeralIs
<1>4. format_scaled_decimal(units, places) = sign \o integer \o behind
  BY DEF format_scaled_decimal
<1> HIDE DEF integer, fraction
<1>5. fraction = <<>> <=> places = 0
  BY <1>3
<1>6. integer \o behind = Joined(integer, fraction)
  BY <1>5 DEF Joined
<1>7. /\ integer \in Seq(Characters)
      /\ behind \in Seq(Characters)
      /\ sign \in Seq(Characters)
  <2>1. integer \in Seq(Characters) /\ fraction \in Seq(Characters)
    BY <1>2, <1>3, CharactersAre, SeqMonotonic
  <2>2. <<Point>> \in Seq(Characters) /\ <<Minus>> \in Seq(Characters) /\ <<>> \in Seq(Characters)
    BY CharactersAre
  <2>3. <<Point>> \o fraction \in Seq(Characters)
    BY <2>1, <2>2, ConcatProperties
  <2> QED BY <2>1, <2>2, <2>3
<1> HIDE DEF behind
<1>8. sign \o integer \o behind = sign \o (integer \o behind)
  <2> HIDE DEF sign
  <2>1. \A s, t, u \in Seq(Characters) : (s \o t) \o u = s \o (t \o u)
    BY ConcatAssociative, SMTT(60)
  <2> QED BY <1>7, <2>1
<1>9. Joined(integer, fraction) \in Seq(Characters)
  BY <1>2, <1>3, JoinedIs
<1>10. sign \o Joined(integer, fraction) = Sign(units < 0, Joined(integer, fraction))
  <2>1. <<>> \o Joined(integer, fraction) = Joined(integer, fraction)
    BY <1>9, ConcatEmptySeq
  <2> QED BY <2>1 DEF Sign
<1> HIDE DEF sign
<1>11. format_scaled_decimal(units, places) = Sign(units < 0, Joined(integer, fraction))
  BY <1>4, <1>6, <1>8, <1>10
<1> QED BY <1>2, <1>3, <1>11 DEF integer, fraction

\* What is written for a number says it, in the only canonical way.
LEMMA FormatIsCanonical ==
  ASSUME NEW units \in Int, form.fractional_digits \in Nat
  PROVE  LET written == format_scaled_decimal(units, form.fractional_digits)
         IN  /\ Canonical(written)
             /\ Signed(written) <=> units < 0
             /\ \E split \in SplitsOf(written) : Says(split) = Magnitude(units)
<1> DEFINE P == form.fractional_digits
           p == power_of_ten[P]
           magnitude == Magnitude(units)
           whole == magnitude \div p
           integer == Numeral(whole, Width(whole))
           fraction == Numeral(magnitude, P)
           written == format_scaled_decimal(units, P)
           split == [integer |-> integer, fraction |-> fraction]
<1>1. magnitude \in Nat /\ (units < 0 => magnitude # 0) /\ P \in Nat /\ p \in Nat \ {0}
  BY PowersRise DEF Magnitude
<1> HIDE DEF magnitude
<1>2. whole \in Nat /\ magnitude % p \in Nat /\ magnitude = whole * p + (magnitude % p)
  <2> HIDE DEF p
  <2>1. magnitude \in Int /\ magnitude \in Nat /\ p \in Nat \ {0}
    BY <1>1
  <2> QED BY <2>1, DivisionIs, ZenonT(60)
<1> HIDE DEF whole
<1>3. /\ integer \in Seq(0..9)
      /\ integer # <<>>
      /\ Len(integer) = Width(whole)
      /\ fraction \in Seq(0..9)
      /\ Len(fraction) = P
      /\ written = Sign(units < 0, Joined(integer, fraction))
  BY <1>1, <1>2, FormatIs DEF magnitude, whole
<1>4. Fitting(whole, Width(whole))
  BY <1>2, WidthFits
<1>5. NumberOf(integer) = whole
  <2>1. NumberOf(integer) = whole % power_of_ten[Width(whole)]
    BY <1>2, <1>4, NumberOfNumeral DEF Fitting
  <2>2. whole % power_of_ten[Width(whole)] = whole
    <3> DEFINE q == power_of_ten[Width(whole)]
    <3>1. q \in Nat \ {0} /\ whole < q
      BY <1>4, PowersRise DEF Fitting
    <3> HIDE DEF q
    <3>2. whole = 0 * q + whole /\ whole \in 0 .. q - 1
      BY <1>2, <3>1
    <3>3. whole % q = whole
      BY <1>2, <3>1, <3>2, DivisionIsUnique
    <3> QED BY <3>3 DEF q
  <2> QED BY <2>1, <2>2
<1>6. NumberOf(fraction) = magnitude % p
  BY <1>1, NumberOfNumeral
<1>7. Len(integer) > 1 => integer[1] # 0
  <2> SUFFICES ASSUME Len(integer) > 1
               PROVE  integer[1] # 0
    OBVIOUS
  <2> DEFINE w == Width(whole)
             q == power_of_ten[w - 1]
  <2>1. w \in Nat \ {0} /\ w > 1 /\ whole < power_of_ten[w] /\ whole >= q
    BY <1>3, <1>4 DEF Fitting
  <2>2. w - 1 \in Nat /\ (w - 1) + 1 = w /\ 1 \in 1..w
    BY <2>1
  <2>3. q \in Nat \ {0} /\ power_of_ten[w] = q * 10
    <3>1. power_of_ten[(w - 1) + 1] = power_of_ten[w - 1] * 10
      BY <2>2, PowersAreDefined
    <3> QED BY <2>2, <3>1, PowersRise
  <2>4. integer[1] = (whole \div q) % 10
    BY <1>2, <2>1, <2>2, NumeralIs
  <2> HIDE DEF w, q, integer
  <2>5. whole \div q \in 1..9
    <3> DEFINE a == whole \div q
               r == whole % q
    <3>1. a \in Int /\ r \in 0 .. q - 1 /\ whole = a * q + r
      <4>1. whole \in Int /\ q \in Nat \ {0}
        BY <1>2, <2>3
      <4> QED BY <4>1, DivisionIs, ZenonT(60)
    <3> HIDE DEF a, r
    <3>2. whole < q * 10 /\ whole >= q
      BY <2>1, <2>3
    <3>3. ~(a <= 0)
      <4> SUFFICES ASSUME a <= 0
                   PROVE  FALSE
        OBVIOUS
      <4>1. \A x, y \in Nat : x * y \in Nat
        OBVIOUS
      <4>2. -a \in Nat
        BY <3>1
      <4>3. (-a) * q \in Nat
        BY <2>3, <4>1, <4>2
      <4>4. a * q <= 0
        BY <2>3, <3>1, <4>3
      <4> QED BY <1>2, <2>3, <3>1, <3>2, <4>4
    <3>4. ~(a >= 10)
      <4> SUFFICES ASSUME a >= 10
                   PROVE  FALSE
        OBVIOUS
      <4>1. \A x, y \in Nat : x * y \in Nat
        OBVIOUS
      <4>2. a - 10 \in Nat
        BY <3>1
      <4>3. (a - 10) * q \in Nat
        BY <2>3, <4>1, <4>2
      <4>4. a * q >= 10 * q /\ a * q \in Int
        BY <2>3, <3>1, <4>3
      <4> QED BY <1>2, <2>3, <3>1, <3>2, <4>4
    <3> QED BY <3>1, <3>3, <3>4 DEF a
  <2> QED BY <2>4, <2>5
<1> HIDE DEF integer, fraction, written
<1>8. Says(split) = magnitude
  <2>1. P - P = 0
    BY <1>1
  <2>2. split.integer = integer /\ split.fraction = fraction
    OBVIOUS
  <2> HIDE DEF split
  <2>3. Says(split) = whole * p + (magnitude % p) * power_of_ten[0]
    BY <1>3, <1>5, <1>6, <2>1, <2>2 DEF Says
  <2>4. (magnitude % p) * 1 = magnitude % p
    BY <1>2
  <2> QED BY <1>2, <2>3, <2>4, PowersAreDefined
<1>9. /\ Signed(written) <=> units < 0
      /\ SplitsOf(written) = Splits(Joined(integer, fraction), P)
  <2> DEFINE u == Joined(integer, fraction)
             negative == units < 0
  <2>1. u \in Seq(Characters) /\ u # <<>> /\ u[1] \in 0..9
    <3>1. Len(integer) \in Nat \ {0} /\ 1 \in 1..Len(integer) /\ integer[1] \in 0..9
      BY <1>3
    <3>2. /\ u \in Seq(Characters)
          /\ Len(u) = Len(integer) + (IF fraction = <<>> THEN 0 ELSE Len(fraction) + 1)
          /\ \A i \in 1..Len(integer) : u[i] = integer[i]
      BY <1>3, JoinedIs
    <3>3. (IF fraction = <<>> THEN 0 ELSE Len(fraction) + 1) \in Nat
      BY <1>1, <1>3
    <3> HIDE DEF u
    <3>4. Len(u) # 0
      BY <3>1, <3>2, <3>3
    <3> QED BY <3>1, <3>2, <3>4
  <2>2. negative \in BOOLEAN
    OBVIOUS
  <2>3. written = Sign(negative, u)
    BY <1>3
  <2> HIDE DEF u, negative
  <2>4. (Signed(written) <=> negative) /\ SplitsOf(written) = Splits(u, P)
    BY <2>1, <2>2, <2>3, SignInFront
  <2> QED BY <2>4 DEF u, negative
<1>10. split \in SplitsOf(written)
  <2>1. Len(fraction) <= P
    BY <1>1, <1>3
  <2> QED BY <1>1, <1>3, <1>9, <2>1, JoinedSplits
<1>11. split.integer = integer /\ split.fraction = fraction
  OBVIOUS
<1> HIDE DEF split
<1>12. Canonical(written)
  BY <1>1, <1>3, <1>7, <1>8, <1>9, <1>10, <1>11 DEF Canonical
<1> QED BY <1>8, <1>9, <1>10, <1>12 DEF written, magnitude

\* All splits of a text say the same: there is but one.
LEMMA SplitsSayTheSame ==
  ASSUME DecimalInv, NEW one \in SplitsOf(text), NEW other \in SplitsOf(text)
  PROVE  Says(one) = Says(other) /\ Says(one) \in Nat
<1>0. text \in Seq(Characters) /\ form.fractional_digits \in Nat /\ Len(text) \in Nat
  BY WhatIsKnown
<1>1. PICK e \in Nat : PartAt(e, one)
  BY <1>0, SplitsLieSomewhere
<1>2. PICK f \in Nat : PartAt(f, other)
  BY <1>0, SplitsLieSomewhere
<1>3. e = f
  BY <1>1, <1>2, SplitsLieAtTheEnd
<1>4. e <= Len(text) \/ e = Len(text) + 1
  BY <1>0, <1>1 DEF PartAt
<1>5. Says(one) = Says(other)
  BY <1>0, <1>1, <1>2, <1>3, <1>4, WhatPartsSay
<1> QED BY <1>1, <1>5, WholeIsSaid

LEMMA CanonicalIsFormatted ==
  ASSUME NEW integer \in Seq(0..9), integer # <<>>, NEW fraction \in Seq(0..9),
         NEW places \in Nat, Len(fraction) = places,
         Len(integer) > 1 => integer[1] # 0,
         NEW units \in Int,
         Magnitude(units) = NumberOf(integer) * power_of_ten[places] + NumberOf(fraction)
  PROVE  format_scaled_decimal(units, places) = Sign(units < 0, Joined(integer, fraction))
<1> DEFINE magnitude == Magnitude(units)
           p == power_of_ten[places]
           whole == NumberOf(integer)
           part == NumberOf(fraction)
           w == Len(integer)
<1>1. /\ whole \in Nat /\ part \in Nat /\ part < p
      /\ whole < power_of_ten[w]
      /\ p \in Nat \ {0} /\ w \in Nat \ {0}
  BY NumberIsBelow, PowersRise
<1>2. magnitude \in Nat
  BY DEF Magnitude
<1>3. w > 1 => whole >= power_of_ten[w - 1]
  BY FirstDigitCounts
<1>4. magnitude = whole * p + part
  OBVIOUS
<1> HIDE DEF magnitude, p, whole, part, w
<1>5. magnitude \div p = whole /\ magnitude % p = part
  <2>1. magnitude \in Int /\ whole \in Int /\ part \in 0 .. p - 1
    BY <1>1, <1>2
  <2> QED BY <1>1, <1>4, <2>1, DivisionIsUnique, ZenonT(60)
<1>6. Width(whole) = w
  <2>1. Fitting(whole, w)
    BY <1>1, <1>3 DEF Fitting
  <2> QED BY <1>1, <2>1, WidthIs
<1>7. Numeral(whole, Width(whole)) = integer
  BY <1>6, DigitsAreTheirNumeral DEF whole, w
<1>8. Numeral(magnitude, places) = fraction
  <2> DEFINE n == Numeral(magnitude, places)
  <2>1. n \in Seq(0..9) /\ Len(n) = places
    BY <1>2, NumeralIs
  <2>2. NumberOf(n) = NumberOf(fraction)
    BY <1>2, <1>5, NumberOfNumeral DEF p, part
  <2> HIDE DEF n
  <2>3. Numeral(NumberOf(n), Len(n)) = n
    BY <2>1, DigitsAreTheirNumeral
  <2>4. Numeral(NumberOf(fraction), Len(fraction)) = fraction
    BY DigitsAreTheirNumeral
  <2>5. n = fraction
    BY <2>1, <2>2, <2>3, <2>4
  <2> QED BY <2>5 DEF n
<1>9. format_scaled_decimal(units, places) =
        Sign(units < 0, Joined(Numeral(whole, Width(whole)), Numeral(magnitude, places)))
  <2>1. magnitude = Magnitude(units) /\ whole = magnitude \div power_of_ten[places]
    BY <1>5 DEF magnitude, p
  <2> QED BY <1>1, <1>2, <2>1, FormatIs
<1> QED BY <1>7, <1>8, <1>9

LEMMA FormatOfWhatWasRead ==
  ASSUME DecimalInv, ReadsWhatItSays, reader.phase = "done", reader.error = NoError,
         Canonical(text)
  PROVE  format_scaled_decimal(reader.value, form.fractional_digits) = text
<1> DEFINE P == form.fractional_digits
<1>0. text \in Seq(Characters) /\ P \in Nat /\ reader.value \in Int
  <2>1. reader \in Readers /\ kMax \in Nat
    BY WhatIsKnown
  <2>2. reader.value \in Int
    BY <2>1 DEF Readers
  <2> QED BY <2>2, WhatIsKnown
<1>1. PICK split \in SplitsOf(text) :
        /\ Len(split.fraction) = P
        /\ Len(split.integer) > 1 => split.integer[1] # 0
        /\ Signed(text) => Says(split) # 0
  BY DEF Canonical
<1>2. /\ split.integer \in Seq(0..9)
      /\ split.integer # <<>>
      /\ split.fraction \in Seq(0..9)
      /\ text = Sign(Signed(text), Joined(split.integer, split.fraction))
  BY <1>0, <1>1, WhatSplitsIsSigned
<1>3. PICK read \in SplitsOf(text) :
        reader.value = IF Signed(text) THEN -Says(read) ELSE Says(read)
  <2>1. "Overflow" # NoError
    BY WhatIsKnown DEF Problems
  <2> QED BY <2>1 DEF ReadsWhatItSays
<1>4. Says(read) = Says(split) /\ Says(split) \in Nat
  BY <1>1, <1>3, SplitsSayTheSame
<1>5. /\ Magnitude(reader.value) = Says(split)
      /\ reader.value < 0 <=> Signed(text)
  <2> DEFINE n == Says(split)
             negative == Signed(text)
  <2>1. /\ n \in Nat /\ (negative => n # 0) /\ negative \in BOOLEAN
        /\ reader.value = IF negative THEN -n ELSE n
    <3>1. Signed(text) \in BOOLEAN
      BY DEF Signed
    <3> QED BY <1>1, <1>3, <1>4, <3>1
  <2> HIDE DEF n, negative
  <2>2. Magnitude(reader.value) = n /\ (reader.value < 0 <=> negative)
    <3>1. CASE negative
      BY <2>1, <3>1 DEF Magnitude
    <3>2. CASE ~negative
      BY <2>1, <3>2 DEF Magnitude
    <3> QED BY <2>1, <3>1, <3>2
  <2> QED BY <2>2 DEF n, negative
<1>6. Says(split) = NumberOf(split.integer) * power_of_ten[P] + NumberOf(split.fraction)
  <2>1. NumberOf(split.fraction) * 1 = NumberOf(split.fraction)
    <3>1. \A x \in Nat : x * 1 = x
      OBVIOUS
    <3> QED BY <1>2, <3>1, NumberIsNat
  <2>2. P - P = 0
    BY <1>0
  <2> QED BY <1>1, <2>1, <2>2, PowersAreDefined DEF Says
<1>7. format_scaled_decimal(reader.value, P) =
        Sign(reader.value < 0, Joined(split.integer, split.fraction))
  <2>1. Magnitude(reader.value) =
          NumberOf(split.integer) * power_of_ten[P] + NumberOf(split.fraction)
    BY <1>5, <1>6
  <2> HIDE DEF P
  <2> QED BY <1>0, <1>1, <1>2, <2>1, CanonicalIsFormatted
<1>8. Sign(reader.value < 0, Joined(split.integer, split.fraction)) = text
  BY <1>2, <1>5 DEF Sign
<1> QED BY <1>7, <1>8

\* A text in canonical form that was read is written as it was; and whatever
\* number was read, what is written for it is canonical, has its sign and says its
\* size, so that it is read as the same number.
THEOREM FormattingIsTheInverse == DecimalSpec => []FormatIsInverse
<1> DEFINE Inv == DecimalInv /\ RightSoFar(reader)
<1>1. DecimalInit(Texts, Forms) => Inv
  BY DecimalInvInit, RightInit
<1>2. Inv /\ [DecimalNext]_decimal => Inv'
  BY DecimalInvStep, RightStep
<1>3. Inv => FormatIsInverse
  <2> SUFFICES ASSUME DecimalInv, RightSoFar(reader), reader.phase = "done",
                      reader.error = NoError
               PROVE  FormatIsInverse
    BY DEF FormatIsInverse
  <2>1. ReadsWhatItSays
    BY DEF RightSoFar, Judged, ReadsWhatItSays
  <2>2. Canonical(text) =>
          format_scaled_decimal(reader.value, form.fractional_digits) = text
    BY <2>1, FormatOfWhatWasRead
  <2>3. reader.value \in Int /\ form.fractional_digits \in Nat
    <3>1. reader \in Readers /\ kMax \in Nat /\ form.fractional_digits \in Nat
      BY WhatIsKnown
    <3> QED BY <3>1 DEF Readers
  <2> DEFINE written == format_scaled_decimal(reader.value, form.fractional_digits)
  <2>4. /\ Canonical(written)
        /\ Signed(written) <=> reader.value < 0
        /\ \E split \in SplitsOf(written) : Says(split) = Magnitude(reader.value)
    BY <2>3, FormatIsCanonical
  <2> HIDE DEF written
  <2>5. Canonical(text) => written = text
    BY <2>2 DEF written
  <2> QED BY <2>4, <2>5 DEF FormatIsInverse, written
<1> QED BY <1>1, <1>2, <1>3, PTL DEF DecimalSpec

-----------------------------------------------------------------------------
(***************************************************************************)
(* The calendar.                                                           *)
(***************************************************************************)
LEMMA YearsBegin ==
  ASSUME NEW year \in Int
  PROVE  /\ DaysBeforeYear(year) \in Int
         /\ DaysBeforeYear(year + 1) =
              DaysBeforeYear(year) + (IF IsLeap(year) THEN 366 ELSE 365)
<1>1. DaysBeforeYear(year) \in Int
  BY DEF DaysBeforeYear
<1>2. DaysBeforeYear(year + 1) =
        365 * (year + 1 - 1970) + (year \div 4 - year \div 100 + year \div 400) - 477
  BY DEF DaysBeforeYear
<1>3. /\ year \div 4 = (year - 1) \div 4 + (IF year % 4 = 0 THEN 1 ELSE 0)
      /\ year \div 100 = (year - 1) \div 100 + (IF year % 100 = 0 THEN 1 ELSE 0)
      /\ year \div 400 = (year - 1) \div 400 + (IF year % 400 = 0 THEN 1 ELSE 0)
  OBVIOUS
<1>4. (year % 400 = 0 => year % 100 = 0) /\ (year % 100 = 0 => year % 4 = 0)
  OBVIOUS
<1> QED BY <1>1, <1>2, <1>3, <1>4 DEF DaysBeforeYear, IsLeap

\* Years begin in order, whatever leap days lie between.
LEMMA YearsAreOrdered ==
  ASSUME NEW one \in Int, NEW other \in Int, one < other
  PROVE  DaysBeforeYear(one + 1) <= DaysBeforeYear(other)
<1> DEFINE a == one
           b == other - 1
<1>1. a \in Int /\ b \in Int /\ a <= b
  OBVIOUS
<1>2. DaysBeforeYear(one + 1) = 365 * (a + 1 - 1970) + (a \div 4 - a \div 100 + a \div 400) - 477
  BY DEF DaysBeforeYear
<1>3. DaysBeforeYear(other) = 365 * (b + 1 - 1970) + (b \div 4 - b \div 100 + b \div 400) - 477
  BY DEF DaysBeforeYear
<1> HIDE DEF a, b
<1>4. /\ a \div 4 <= b \div 4
      /\ a \div 400 <= b \div 400
      /\ 100 * (b \div 100) - 100 * (a \div 100) <= b - a + 99
  BY <1>1
<1>5. a \div 4 \in Int /\ a \div 100 \in Int /\ a \div 400 \in Int
      /\ b \div 4 \in Int /\ b \div 100 \in Int /\ b \div 400 \in Int
  BY <1>1
<1> QED BY <1>1, <1>2, <1>3, <1>4, <1>5

\* The year in which a day is.
InYear(days, year) ==
  /\ year \in Int
  /\ DaysBeforeYear(year) <= days
  /\ days < DaysBeforeYear(year + 1)

LEMMA YearIsGuessed ==
  ASSUME NEW days \in Int, NEW year, InYear(days, year)
  PROVE  LET guess == 1970 + (days * 400) \div 146097
         IN  year \in guess - 1 .. guess + 1
<1> DEFINE a == year - 1
           g == (days * 400) \div 146097
<1>1. year \in Int /\ a \in Int /\ year = a + 1
  BY DEF InYear
<1>2. DaysBeforeYear(year) = 365 * (year - 1970) + (a \div 4 - a \div 100 + a \div 400) - 477
  BY <1>1 DEF DaysBeforeYear
<1>3. DaysBeforeYear(year + 1) <= DaysBeforeYear(year) + 366 /\ DaysBeforeYear(year) \in Int
      /\ DaysBeforeYear(year + 1) \in Int
  BY <1>1, YearsBegin
<1>4. DaysBeforeYear(year) <= days /\ days < DaysBeforeYear(year) + 366
  BY <1>1, <1>3 DEF InYear
<1>5. g \in Int /\ 146097 * g <= days * 400 /\ days * 400 < 146097 * g + 146097
  OBVIOUS
<1> HIDE DEF a, g
<1>6. /\ a \div 4 \in Int /\ 4 * (a \div 4) <= a /\ a <= 4 * (a \div 4) + 3
      /\ a \div 100 \in Int /\ 100 * (a \div 100) <= a /\ a <= 100 * (a \div 100) + 99
      /\ a \div 400 \in Int /\ 400 * (a \div 400) <= a /\ a <= 400 * (a \div 400) + 399
  BY <1>1
<1>7. year \in 1970 + g - 1 .. 1970 + g + 1
  BY <1>1, <1>2, <1>3, <1>4, <1>5, <1>6
<1> QED BY <1>7 DEF g

LEMMA OneYearOnly ==
  ASSUME NEW days \in Int, NEW one, NEW other, InYear(days, one), InYear(days, other)
  PROVE  one = other
<1>1. /\ one \in Int /\ other \in Int
      /\ DaysBeforeYear(one) <= days /\ days < DaysBeforeYear(one + 1)
      /\ DaysBeforeYear(other) <= days /\ days < DaysBeforeYear(other + 1)
  BY DEF InYear
<1>2. /\ DaysBeforeYear(one) \in Int /\ DaysBeforeYear(one + 1) \in Int
      /\ DaysBeforeYear(other) \in Int /\ DaysBeforeYear(other + 1) \in Int
  BY <1>1, YearsBegin
<1>3. ~(one < other)
  BY <1>1, <1>2, YearsAreOrdered
<1>4. ~(other < one)
  BY <1>1, <1>2, YearsAreOrdered
<1> QED BY <1>1, <1>3, <1>4

LEMMA EveryDayHasAYear ==
  ASSUME NEW days \in Int
  PROVE  \E year \in Int : InYear(days, year)
<1> DEFINE guess == 1970 + (days * 400) \div 146097
<1>1. guess \in Int
  OBVIOUS
<1>2. DaysBeforeYear(guess - 1) <= days /\ days < DaysBeforeYear(guess + 2)
  <2> DEFINE g == (days * 400) \div 146097
             a == g + 1968
             b == g + 1971
  <2>1. /\ DaysBeforeYear(guess - 1) =
             365 * (g - 1) + (a \div 4 - a \div 100 + a \div 400) - 477
        /\ DaysBeforeYear(guess + 2) =
             365 * (g + 2) + (b \div 4 - b \div 100 + b \div 400) - 477
    <3>1. g \in Int
      OBVIOUS
    <3> HIDE DEF g
    <3>2. /\ (1970 + g - 1) - 1 = a /\ (1970 + g - 1) - 1970 = g - 1
          /\ (1970 + g + 2) - 1 = b /\ (1970 + g + 2) - 1970 = g + 2
      BY <3>1
    <3>3. guess - 1 = 1970 + g - 1 /\ guess + 2 = 1970 + g + 2
      BY <3>1 DEF g
    <3> HIDE DEF guess, a, b
    <3> QED BY <3>2, <3>3 DEF DaysBeforeYear
  <2>2. g \in Int /\ 146097 * g <= days * 400 /\ days * 400 < 146097 * g + 146097
    OBVIOUS
  <2> HIDE DEF g
  <2>3. a \in Int /\ b \in Int /\ a = g + 1968 /\ b = g + 1971
    BY <2>2
  <2> HIDE DEF a, b, guess
  <2>4. /\ a \div 4 \in Int /\ 4 * (a \div 4) <= a /\ a <= 4 * (a \div 4) + 3
        /\ a \div 100 \in Int /\ 100 * (a \div 100) <= a /\ a <= 100 * (a \div 100) + 99
        /\ a \div 400 \in Int /\ 400 * (a \div 400) <= a /\ a <= 400 * (a \div 400) + 399
    BY <2>3
  <2>5. /\ b \div 4 \in Int /\ 4 * (b \div 4) <= b /\ b <= 4 * (b \div 4) + 3
        /\ b \div 100 \in Int /\ 100 * (b \div 100) <= b /\ b <= 100 * (b \div 100) + 99
        /\ b \div 400 \in Int /\ 400 * (b \div 400) <= b /\ b <= 400 * (b \div 400) + 399
    BY <2>3
  <2>6. 365 * (g - 1) + (a \div 4 - a \div 100 + a \div 400) - 477 <= days
    BY <2>2, <2>3, <2>4
  <2>7. days < 365 * (g + 2) + (b \div 4 - b \div 100 + b \div 400) - 477
    BY <2>2, <2>3, <2>5
  <2> QED BY <2>1, <2>6, <2>7
<1> HIDE DEF guess
<1>3. /\ (guess - 1) + 1 = guess /\ guess - 1 \in Int
      /\ guess + 1 \in Int /\ (guess + 1) + 1 = guess + 2
  BY <1>1
<1>4. /\ DaysBeforeYear(guess - 1) \in Int /\ DaysBeforeYear(guess) \in Int
      /\ DaysBeforeYear(guess + 1) \in Int /\ DaysBeforeYear(guess + 2) \in Int
  BY <1>1, <1>3, YearsBegin
<1>5. CASE days < DaysBeforeYear(guess)
  BY <1>2, <1>3, <1>5 DEF InYear
<1>6. CASE DaysBeforeYear(guess) <= days /\ days < DaysBeforeYear(guess + 1)
  BY <1>1, <1>6 DEF InYear
<1>7. CASE DaysBeforeYear(guess + 1) <= days
  BY <1>2, <1>3, <1>7 DEF InYear
<1> QED BY <1>4, <1>5, <1>6, <1>7

LEMMA MonthsBegin ==
  ASSUME NEW year \in Int
  PROVE  /\ \A m \in 1..12 : DaysBeforeMonth(year, m) \in Nat /\ DaysIn(year, m) \in 28..31
         /\ DaysBeforeMonth(year, 1) = 0
         /\ \A m \in 1..11 : DaysBeforeMonth(year, m + 1) = DaysBeforeMonth(year, m) + DaysIn(year, m)
         /\ DaysBeforeMonth(year, 12) + DaysIn(year, 12) = IF IsLeap(year) THEN 366 ELSE 365
<1> DEFINE leap == IsLeap(year)
<1>1. leap \in BOOLEAN
  BY DEF IsLeap
<1>2. \A m \in 1..12 : m = 1 \/ m = 2 \/ m = 3 \/ m = 4 \/ m = 5 \/ m = 6 \/ m = 7 \/ m = 8
                       \/ m = 9 \/ m = 10 \/ m = 11 \/ m = 12
  OBVIOUS
<1> HIDE DEF leap
<1>3. /\ DaysBeforeMonth(year, 1) = 0
      /\ DaysBeforeMonth(year, 2) = 31
      /\ DaysBeforeMonth(year, 3) = 59 + (IF leap THEN 1 ELSE 0)
      /\ DaysBeforeMonth(year, 4) = 90 + (IF leap THEN 1 ELSE 0)
      /\ DaysBeforeMonth(year, 5) = 120 + (IF leap THEN 1 ELSE 0)
      /\ DaysBeforeMonth(year, 6) = 151 + (IF leap THEN 1 ELSE 0)
      /\ DaysBeforeMonth(year, 7) = 181 + (IF leap THEN 1 ELSE 0)
      /\ DaysBeforeMonth(year, 8) = 212 + (IF leap THEN 1 ELSE 0)
      /\ DaysBeforeMonth(year, 9) = 243 + (IF leap THEN 1 ELSE 0)
      /\ DaysBeforeMonth(year, 10) = 273 + (IF leap THEN 1 ELSE 0)
      /\ DaysBeforeMonth(year, 11) = 304 + (IF leap THEN 1 ELSE 0)
      /\ DaysBeforeMonth(year, 12) = 334 + (IF leap THEN 1 ELSE 0)
  BY DEF DaysBeforeMonth, leap
<1>4. /\ DaysIn(year, 1) = 31
      /\ DaysIn(year, 2) = (IF leap THEN 29 ELSE 28)
      /\ DaysIn(year, 3) = 31
      /\ DaysIn(year, 4) = 30
      /\ DaysIn(year, 5) = 31
      /\ DaysIn(year, 6) = 30
      /\ DaysIn(year, 7) = 31
      /\ DaysIn(year, 8) = 31
      /\ DaysIn(year, 9) = 30
      /\ DaysIn(year, 10) = 31
      /\ DaysIn(year, 11) = 30
      /\ DaysIn(year, 12) = 31
  BY DEF DaysIn, leap
<1>5. CASE leap
  <2>1. \A m \in 1..12 : DaysBeforeMonth(year, m) \in Nat /\ DaysIn(year, m) \in 28..31
    BY <1>2, <1>3, <1>4, <1>5
  <2>2. \A m \in 1..11 : DaysBeforeMonth(year, m + 1) = DaysBeforeMonth(year, m) + DaysIn(year, m)
    <3> TAKE m \in 1..11
    <3>1. m = 1 \/ m = 2 \/ m = 3 \/ m = 4 \/ m = 5 \/ m = 6 \/ m = 7 \/ m = 8
          \/ m = 9 \/ m = 10 \/ m = 11
      OBVIOUS
    <3> QED BY <1>3, <1>4, <1>5, <3>1
  <2> QED BY <1>3, <1>4, <1>5, <2>1, <2>2 DEF leap
<1>6. CASE ~leap
  <2>1. \A m \in 1..12 : DaysBeforeMonth(year, m) \in Nat /\ DaysIn(year, m) \in 28..31
    BY <1>2, <1>3, <1>4, <1>6
  <2>2. \A m \in 1..11 : DaysBeforeMonth(year, m + 1) = DaysBeforeMonth(year, m) + DaysIn(year, m)
    <3> TAKE m \in 1..11
    <3>1. m = 1 \/ m = 2 \/ m = 3 \/ m = 4 \/ m = 5 \/ m = 6 \/ m = 7 \/ m = 8
          \/ m = 9 \/ m = 10 \/ m = 11
      OBVIOUS
    <3> QED BY <1>3, <1>4, <1>6, <3>1
  <2> QED BY <1>3, <1>4, <1>6, <2>1, <2>2 DEF leap
<1> QED BY <1>1, <1>5, <1>6

LEMMA MonthsAreOrdered ==
  ASSUME NEW year \in Int, NEW one \in 1..12, NEW other \in 1..12, one < other
  PROVE  DaysBeforeMonth(year, one) + DaysIn(year, one) <= DaysBeforeMonth(year, other)
<1> DEFINE k == other - one - 1
           S == {i \in 0..k : DaysBeforeMonth(year, one) + DaysIn(year, one)
                                <= DaysBeforeMonth(year, one + 1 + i)}
<1>0. k \in Nat /\ one + 1 + k = other /\ one \in 1..11
  OBVIOUS
<1>1. 0 \in S
  <2>1. one + 1 + 0 = one + 1 /\ one + 1 \in 1..12
    BY <1>0
  <2>2. DaysBeforeMonth(year, one + 1) = DaysBeforeMonth(year, one) + DaysIn(year, one)
    BY <1>0, MonthsBegin
  <2>3. DaysBeforeMonth(year, one + 1) \in Nat
    BY <2>1, MonthsBegin
  <2> QED BY <1>0, <2>1, <2>2, <2>3
<1>2. ASSUME NEW i \in 0 .. k - 1, i \in S
      PROVE  i + 1 \in S
  <2> DEFINE m == one + 1 + i
  <2>1. m \in 1..11 /\ one + 1 + (i + 1) = m + 1 /\ i + 1 \in 0..k /\ m \in 1..12 /\ m + 1 \in 1..12
    BY <1>0
  <2>2. DaysBeforeMonth(year, one) + DaysIn(year, one) <= DaysBeforeMonth(year, m)
    BY <1>2
  <2> HIDE DEF m
  <2>3. DaysBeforeMonth(year, m + 1) = DaysBeforeMonth(year, m) + DaysIn(year, m)
    BY <2>1, MonthsBegin
  <2>4. \A x \in 1..12 : DaysBeforeMonth(year, x) \in Nat /\ DaysIn(year, x) \in 28..31
    BY MonthsBegin
  <2>5. /\ DaysBeforeMonth(year, m) \in Nat /\ DaysIn(year, m) \in 28..31
        /\ DaysBeforeMonth(year, one) \in Nat /\ DaysIn(year, one) \in 28..31
    BY <2>1, <2>4
  <2>6. DaysBeforeMonth(year, one) + DaysIn(year, one) <= DaysBeforeMonth(year, m + 1)
    BY <2>2, <2>3, <2>5
  <2> QED BY <2>1, <2>6
<1>3. 0..k \subseteq S
  <2> HIDE DEF S, k
  <2> QED BY <1>0, <1>1, <1>2, IntervalByInduction
<1>4. DaysBeforeMonth(year, one) + DaysIn(year, one) <= DaysBeforeMonth(year, one + 1 + k)
  <2>1. k \in 0..k
    BY <1>0
  <2>2. k \in S
    <3> HIDE DEF k, S
    <3> QED BY <1>3, <2>1
  <2> QED BY <2>2
<1> QED BY <1>0, <1>4

\* The month in which a day of a year is.
InMonth(year, day, month) ==
  /\ month \in 1..12
  /\ DaysBeforeMonth(year, month) <= day
  /\ day < DaysBeforeMonth(year, month) + DaysIn(year, month)

\* What DateOf chooses a month by.
Begun(year, day, m) ==
  /\ DaysBeforeMonth(year, m) <= day
  /\ m < 12 => day < DaysBeforeMonth(year, m + 1)

LEMMA OneMonthOnly ==
  ASSUME NEW year \in Int, NEW day \in Int, day < (IF IsLeap(year) THEN 366 ELSE 365),
         NEW month, InMonth(year, day, month)
  PROVE  /\ Begun(year, day, month)
         /\ \A m \in 1..12 : Begun(year, day, m) => m = month
<1>1. /\ month \in 1..12
      /\ DaysBeforeMonth(year, month) <= day
      /\ day < DaysBeforeMonth(year, month) + DaysIn(year, month)
  BY DEF InMonth
<1>2. \A m \in 1..12 : DaysBeforeMonth(year, m) \in Nat /\ DaysIn(year, m) \in 28..31
  BY MonthsBegin
<1>3. Begun(year, day, month)
  <2>1. month < 12 => month \in 1..11
    BY <1>1
  <2>2. month < 12 => DaysBeforeMonth(year, month + 1) =
                        DaysBeforeMonth(year, month) + DaysIn(year, month)
    BY <2>1, MonthsBegin, ZenonT(60)
  <2> QED BY <1>1, <2>2 DEF Begun
<1>4. ASSUME NEW m \in 1..12, Begun(year, day, m)
      PROVE  m = month
  <2>1. ~(m < month)
    <3> SUFFICES ASSUME m < month
                 PROVE  FALSE
      OBVIOUS
    <3>1. m \in 1..11 /\ m < 12
      BY <1>1
    <3>2. DaysBeforeMonth(year, m + 1) = DaysBeforeMonth(year, m) + DaysIn(year, m)
      BY <3>1, MonthsBegin, ZenonT(60)
    <3>3. DaysBeforeMonth(year, m) + DaysIn(year, m) <= DaysBeforeMonth(year, month)
      BY <1>1, MonthsAreOrdered
    <3>4. day < DaysBeforeMonth(year, m) + DaysIn(year, m)
      BY <1>4, <3>1, <3>2 DEF Begun
    <3>5. DaysBeforeMonth(year, m) + DaysIn(year, m) \in Nat /\ DaysBeforeMonth(year, month) \in Nat
      BY <1>1, <1>2
    <3> QED BY <1>1, <3>3, <3>4, <3>5
  <2>2. ~(month < m)
    <3> SUFFICES ASSUME month < m
                 PROVE  FALSE
      OBVIOUS
    <3>1. DaysBeforeMonth(year, month) + DaysIn(year, month) <= DaysBeforeMonth(year, m)
      BY <1>1, MonthsAreOrdered
    <3>2. DaysBeforeMonth(year, m) <= day
      BY <1>4 DEF Begun
    <3>3. DaysBeforeMonth(year, month) + DaysIn(year, month) \in Nat /\ DaysBeforeMonth(year, m) \in Nat
      BY <1>1, <1>2
    <3> QED BY <1>1, <3>1, <3>2, <3>3
  <2> QED BY <1>1, <2>1, <2>2
<1> QED BY <1>3, <1>4

LEMMA EveryDayHasAMonth ==
  ASSUME NEW year \in Int, NEW day \in Nat, day < (IF IsLeap(year) THEN 366 ELSE 365)
  PROVE  \E month \in 1..12 : InMonth(year, day, month)
<1> DEFINE S == {m \in 1..12 : day < DaysBeforeMonth(year, m) + DaysIn(year, m)}
<1>1. \A m \in 1..12 : DaysBeforeMonth(year, m) \in Nat /\ DaysIn(year, m) \in 28..31
  BY MonthsBegin
<1>2. 12 \in S
  <2>1. DaysBeforeMonth(year, 12) + DaysIn(year, 12) = IF IsLeap(year) THEN 366 ELSE 365
    BY MonthsBegin
  <2>2. day < DaysBeforeMonth(year, 12) + DaysIn(year, 12)
    BY <2>1
  <2>3. 12 \in 1..12
    OBVIOUS
  <2> QED BY <2>2, <2>3
<1>3. PICK month \in S : \A m \in S : month <= m
  <2>1. S \subseteq Nat /\ S # {}
    BY <1>2
  <2> HIDE DEF S
  <2> QED BY <2>1, LeastExists
<1>4. month \in 1..12 /\ day < DaysBeforeMonth(year, month) + DaysIn(year, month)
  BY <1>3
<1>5. DaysBeforeMonth(year, month) <= day
  <2>1. CASE month = 1
    BY <2>1, MonthsBegin
  <2>2. CASE month # 1
    <3> DEFINE m == month - 1
    <3>1. m \in 1..11 /\ m \in 1..12 /\ m + 1 = month /\ ~(month <= m)
      BY <1>4, <2>2
    <3>2. m \notin S
      BY <1>3, <3>1
    <3>3. ~(day < DaysBeforeMonth(year, m) + DaysIn(year, m))
      BY <3>1, <3>2
    <3> HIDE DEF m, S
    <3>4. DaysBeforeMonth(year, m + 1) = DaysBeforeMonth(year, m) + DaysIn(year, m)
      BY <3>1, MonthsBegin
    <3>5. DaysBeforeMonth(year, month) = DaysBeforeMonth(year, m) + DaysIn(year, m)
      BY <3>1, <3>4
    <3>6. DaysBeforeMonth(year, month) \in Nat
      BY <1>1, <1>4
    <3> QED BY <3>3, <3>5, <3>6
  <2> QED BY <2>1, <2>2
<1> QED BY <1>4, <1>5 DEF InMonth

LEMMA DateIs ==
  ASSUME NEW days \in Int, NEW year, NEW month,
         InYear(days, year), InMonth(year, days - DaysBeforeYear(year), month)
  PROVE  DateOf(days) =
           [year  |-> year,
            month |-> month,
            day   |-> days - DaysBeforeYear(year) - DaysBeforeMonth(year, month) + 1]
<1> DEFINE guess == 1970 + (days * 400) \div 146097
           Years == {y \in guess - 1 .. guess + 1 :
                       DaysBeforeYear(y) <= days /\ days < DaysBeforeYear(y + 1)}
           year0 == CHOOSE y \in guess - 1 .. guess + 1 :
                      DaysBeforeYear(y) <= days /\ days < DaysBeforeYear(y + 1)
           day == days - DaysBeforeYear(year)
           month0 == CHOOSE m \in 1..12 :
                       /\ DaysBeforeMonth(year, m) <= day
                       /\ m < 12 => day < DaysBeforeMonth(year, m + 1)
<1>1. year \in Int /\ guess \in Int
  BY DEF InYear
<1>2. /\ year \in guess - 1 .. guess + 1
      /\ DaysBeforeYear(year) <= days /\ days < DaysBeforeYear(year + 1)
  BY YearIsGuessed DEF InYear
<1>3. \A y \in guess - 1 .. guess + 1 :
        DaysBeforeYear(y) <= days /\ days < DaysBeforeYear(y + 1) => y = year
  <2> TAKE y \in guess - 1 .. guess + 1
  <2> HAVE DaysBeforeYear(y) <= days /\ days < DaysBeforeYear(y + 1)
  <2>1. y \in Int
    BY <1>1
  <2>2. InYear(days, y)
    BY <2>1 DEF InYear
  <2> QED BY <2>2, OneYearOnly
<1>4. year0 = year
  <2> HIDE DEF guess
  <2> QED BY <1>2, <1>3
<1>5. day \in Int /\ day < (IF IsLeap(year) THEN 366 ELSE 365)
  <2>1. /\ DaysBeforeYear(year) \in Int
        /\ DaysBeforeYear(year + 1) =
             DaysBeforeYear(year) + (IF IsLeap(year) THEN 366 ELSE 365)
    BY <1>1, YearsBegin
  <2> QED BY <1>2, <2>1
<1>6. InMonth(year, day, month)
  OBVIOUS
<1>7. month \in 1..12
  BY <1>6 DEF InMonth
<1>8. /\ Begun(year, day, month)
      /\ \A m \in 1..12 : Begun(year, day, m) => m = month
  <2> HIDE DEF day
  <2> QED BY <1>1, <1>5, <1>6, OneMonthOnly
<1>9. month0 = month
  <2> HIDE DEF day
  <2> QED BY <1>7, <1>8 DEF Begun
<1> DEFINE Within(y) == days - DaysBeforeYear(y)
           Month(y) == CHOOSE m \in 1..12 :
                         /\ DaysBeforeMonth(y, m) <= Within(y)
                         /\ m < 12 => Within(y) < DaysBeforeMonth(y, m + 1)
           Date(y) == [year |-> y, month |-> Month(y),
                       day |-> Within(y) - DaysBeforeMonth(y, Month(y)) + 1]
<1>10. DateOf(days) = Date(year0)
  BY DEF DateOf
<1>11. Date(year0) = Date(year)
  <2> HIDE DEF Date, year0
  <2> QED BY <1>4
<1>12. Month(year) = month
  <2>1. Month(year) = month0
    OBVIOUS
  <2> HIDE DEF Month, month0
  <2> QED BY <2>1, <1>9
<1>13. Date(year) = [year |-> year, month |-> month,
                     day |-> days - DaysBeforeYear(year) - DaysBeforeMonth(year, month) + 1]
  <2> HIDE DEF Month
  <2> QED BY <1>12
<1> HIDE DEF Date, year0
<1> QED BY <1>10, <1>11, <1>13

LEMMA DayOfDate ==
  ASSUME NEW date, date.year \in Int, Exists(date)
  PROVE  /\ DaysOf(date) \in Int
         /\ InYear(DaysOf(date), date.year)
         /\ InMonth(date.year, DaysOf(date) - DaysBeforeYear(date.year), date.month)
         /\ DateOf(DaysOf(date)) =
              [year |-> date.year, month |-> date.month, day |-> date.day]
<1> DEFINE year == date.year
           month == date.month
           day == date.day
           before == DaysBeforeYear(year)
           first == DaysBeforeMonth(year, month)
           days == DaysOf(date)
<1>1. year \in Int /\ month \in 1..12 /\ day \in 1 .. DaysIn(year, month)
  BY DEF Exists
<1>2. days = before + first + day - 1
  BY DEF DaysOf
<1> HIDE DEF year, month, day, days
<1>3. first \in Nat /\ DaysIn(year, month) \in 28..31
  <2>1. \A m \in 1..12 : DaysBeforeMonth(year, m) \in Nat /\ DaysIn(year, m) \in 28..31
    BY <1>1, MonthsBegin
  <2> QED BY <1>1, <2>1
<1>4. /\ before \in Int
      /\ DaysBeforeYear(year + 1) = before + (IF IsLeap(year) THEN 366 ELSE 365)
  BY <1>1, YearsBegin
<1>5. first + DaysIn(year, month) <= (IF IsLeap(year) THEN 366 ELSE 365)
  <2>1. DaysBeforeMonth(year, 12) + DaysIn(year, 12) = IF IsLeap(year) THEN 366 ELSE 365
    BY <1>1, MonthsBegin
  <2>2. CASE month = 12
    BY <2>1, <2>2
  <2>3. CASE month # 12
    <3>1. month < 12 /\ 12 \in 1..12
      BY <1>1, <2>3
    <3>2. first + DaysIn(year, month) <= DaysBeforeMonth(year, 12)
      BY <1>1, <3>1, MonthsAreOrdered
    <3>3. \A m \in 1..12 : DaysBeforeMonth(year, m) \in Nat /\ DaysIn(year, m) \in 28..31
      BY <1>1, MonthsBegin
    <3>4. DaysBeforeMonth(year, 12) \in Nat /\ DaysIn(year, 12) \in 28..31
      BY <3>1, <3>3
    <3> QED BY <1>3, <2>1, <3>2, <3>4
  <2> QED BY <2>2, <2>3
<1>6. day \in Int /\ 1 <= day /\ day <= DaysIn(year, month)
  BY <1>1, <1>3
<1> HIDE DEF before, first
<1>7. days \in Int /\ days - before = first + day - 1
  BY <1>2, <1>3, <1>4, <1>6
<1>8. InYear(days, year)
  <2>1. before <= days /\ days < DaysBeforeYear(year + 1)
    BY <1>2, <1>3, <1>4, <1>5, <1>6
  <2> QED BY <1>1, <2>1 DEF InYear, before
<1>9. InMonth(year, days - before, month)
  <2>1. first <= days - before /\ days - before < first + DaysIn(year, month)
    BY <1>3, <1>6, <1>7
  <2> QED BY <1>1, <2>1 DEF InMonth, first
<1>10. DateOf(days) = [year |-> year, month |-> month, day |-> days - before - first + 1]
  BY <1>7, <1>8, <1>9, DateIs DEF before, first
<1>11. days - before - first + 1 = day
  BY <1>3, <1>4, <1>6, <1>7
<1> QED BY <1>7, <1>8, <1>9, <1>10, <1>11 DEF year, month, day, days, before

LEMMA DateOfDay ==
  ASSUME NEW days \in Int
  PROVE  /\ DateOf(days) \in Dates
         /\ Exists(DateOf(days))
         /\ DaysOf(DateOf(days)) = days
<1>1. PICK year \in Int : InYear(days, year)
  BY EveryDayHasAYear
<1> DEFINE before == DaysBeforeYear(year)
           day == days - before
<1>2. /\ before \in Int
      /\ DaysBeforeYear(year + 1) = before + (IF IsLeap(year) THEN 366 ELSE 365)
  BY YearsBegin
<1>3. day \in Nat /\ day < (IF IsLeap(year) THEN 366 ELSE 365)
  BY <1>1, <1>2 DEF InYear
<1>4. PICK month \in 1..12 : InMonth(year, day, month)
  <2> HIDE DEF day
  <2> QED BY <1>3, EveryDayHasAMonth
<1> DEFINE first == DaysBeforeMonth(year, month)
           date == [year |-> year, month |-> month, day |-> days - before - first + 1]
<1>5. DateOf(days) = date
  BY <1>1, <1>4, DateIs
<1>6. first \in Nat /\ DaysIn(year, month) \in 28..31
  <2>1. \A m \in 1..12 : DaysBeforeMonth(year, m) \in Nat /\ DaysIn(year, m) \in 28..31
    BY MonthsBegin
  <2> QED BY <2>1
<1>7. first <= day /\ day < first + DaysIn(year, month)
  BY <1>4 DEF InMonth
<1>8. date.day \in 1 .. DaysIn(year, month)
  <2> HIDE DEF first, before
  <2> QED BY <1>2, <1>6, <1>7
<1>9. date \in Dates
  <2>1. date.day \in 1..31
    BY <1>6, <1>8
  <2> HIDE DEF first, before
  <2> QED BY <2>1 DEF Dates
<1>10. Exists(date)
  BY <1>8 DEF Exists
<1>11. DaysOf(date) = days
  <2>1. DaysOf(date) = before + first + (days - before - first + 1) - 1
    BY DEF DaysOf
  <2> HIDE DEF first, before
  <2> QED BY <1>2, <1>6, <2>1
<1> QED BY <1>5, <1>9, <1>10, <1>11

\* Texts and clocks have a date and more.
LEMMA DatesShared ==
  ASSUME NEW one, NEW other,
         one.year = other.year, one.month = other.month, one.day = other.day
  PROVE  DaysOf(one) = DaysOf(other) /\ (Exists(one) <=> Exists(other))
BY DEF DaysOf, Exists

-----------------------------------------------------------------------------
(***************************************************************************)
(* What a clock shows, and the instant that it shows.                      *)
(***************************************************************************)
Walls ==
  [year : Int, month : 1..12, day : 1..31,
   hour : 0 .. HoursPerDay - 1, minute : 0 .. MinutesPerHour - 1,
   second : 0 .. SecondsPerMinute - 1, unit : 0 .. UnitsPerSecond - 1]

InstantShown(shown) ==
  DaysOf(shown) * UnitsPerDay + shown.hour * UnitsPerHour + shown.minute * UnitsPerMinute
    + shown.second * UnitsPerSecond + shown.unit

TextShown(shown, zone, finer) ==
  [year |-> shown.year, month |-> shown.month, day |-> shown.day, hour |-> shown.hour,
   minute |-> shown.minute, second |-> shown.second,
   fraction |-> Numeral(shown.unit, kKeptFractionalDigits) \o finer, zone |-> zone]

LEMMA UnitsAre ==
  /\ HoursPerDay \in Nat \ {0} /\ MinutesPerHour \in Nat \ {0} /\ SecondsPerMinute \in Nat \ {0}
  /\ UnitsPerSecond \in Nat \ {0} /\ UnitsPerMinute \in Nat \ {0}
  /\ UnitsPerHour \in Nat \ {0} /\ UnitsPerDay \in Nat \ {0}
  /\ UnitsPerMinute = SecondsPerMinute * UnitsPerSecond
  /\ UnitsPerHour = MinutesPerHour * UnitsPerMinute
  /\ UnitsPerDay = HoursPerDay * UnitsPerHour
<1>1. /\ HoursPerDay \in Nat \ {0} /\ MinutesPerHour \in Nat \ {0} /\ SecondsPerMinute \in Nat \ {0}
      /\ kKeptFractionalDigits \in Nat
  BY TimesAssumption
<1>2. UnitsPerSecond \in Nat \ {0}
  BY <1>1, PowersRise DEF UnitsPerSecond
<1>3. \A a, b \in Nat \ {0} : a * b \in Nat \ {0}
  OBVIOUS
<1>4. UnitsPerMinute \in Nat \ {0}
  BY <1>1, <1>2, <1>3 DEF UnitsPerMinute
<1>5. UnitsPerHour \in Nat \ {0}
  BY <1>1, <1>3, <1>4 DEF UnitsPerHour
<1>6. UnitsPerDay \in Nat \ {0}
  BY <1>1, <1>3, <1>5 DEF UnitsPerDay
<1> QED BY <1>1, <1>2, <1>4, <1>5, <1>6 DEF UnitsPerMinute, UnitsPerHour, UnitsPerDay

\* A digit of a place and what is below it stay below the next place.
LEMMA PlaceAbove ==
  ASSUME NEW size \in Nat \ {0}, NEW limit \in Nat \ {0},
         NEW digit \in 0 .. limit - 1, NEW rest \in 0 .. size - 1
  PROVE  digit * size + rest \in 0 .. limit * size - 1
<1>1. \A a, b \in Nat : a * b \in Nat
  OBVIOUS
<1>2. \A a, b, c \in Nat : a <= b => a * c <= b * c
  OBVIOUS
<1>3. /\ digit \in Nat /\ rest \in Nat /\ size \in Nat /\ limit \in Nat
      /\ digit + 1 \in Nat /\ digit + 1 <= limit /\ rest < size
  OBVIOUS
<1>4. (digit + 1) * size <= limit * size
  BY <1>2, <1>3
<1>5. (digit + 1) * size = digit * size + size
  BY <1>3
<1>6. digit * size \in Nat /\ limit * size \in Nat
  BY <1>1, <1>3
<1> DEFINE a == digit * size
           b == limit * size
<1>7. a \in Nat /\ b \in Nat /\ a + size <= b
  BY <1>4, <1>5, <1>6
<1> HIDE DEF a, b
<1>8. a + rest \in 0 .. b - 1
  BY <1>3, <1>7
<1> QED BY <1>8 DEF a, b

\* The fields of an instant, as format_rfc3339 works them out.
LEMMA FieldsOfInstant ==
  ASSUME NEW days \in Int, NEW hour \in 0 .. HoursPerDay - 1,
         NEW minute \in 0 .. MinutesPerHour - 1, NEW second \in 0 .. SecondsPerMinute - 1,
         NEW unit \in 0 .. UnitsPerSecond - 1, NEW instant,
         instant = days * UnitsPerDay + hour * UnitsPerHour + minute * UnitsPerMinute
                     + second * UnitsPerSecond + unit
  PROVE  /\ instant \in Int
         /\ Floored(instant) = days
         /\ LET time == instant - Floored(instant) * UnitsPerDay
            IN  /\ time \div UnitsPerHour = hour
                /\ (time % UnitsPerHour) \div UnitsPerMinute = minute
                /\ (time % UnitsPerMinute) \div UnitsPerSecond = second
                /\ time % UnitsPerSecond = unit
<1> DEFINE S == SecondsPerMinute
           M == MinutesPerHour
           H == HoursPerDay
           U == UnitsPerSecond
           UM == UnitsPerMinute
           UH == UnitsPerHour
           UD == UnitsPerDay
           ofMinute == second * U + unit
           ofHour == minute * UM + ofMinute
           time == hour * UH + ofHour
<1>1. /\ S \in Nat \ {0} /\ M \in Nat \ {0} /\ H \in Nat \ {0} /\ U \in Nat \ {0}
      /\ UM \in Nat \ {0} /\ UH \in Nat \ {0} /\ UD \in Nat \ {0}
      /\ UM = S * U /\ UH = M * UM /\ UD = H * UH
  BY UnitsAre
<1>2. hour \in 0 .. H - 1 /\ minute \in 0 .. M - 1 /\ second \in 0 .. S - 1 /\ unit \in 0 .. U - 1
  OBVIOUS
<1>3. instant = days * UD + hour * UH + minute * UM + second * U + unit
  OBVIOUS
<1> HIDE DEF S, M, H, U, UM, UH, UD
<1>4. ofMinute \in 0 .. UM - 1
  BY <1>1, <1>2, PlaceAbove
<1>5. ofHour \in 0 .. UH - 1
  <2> HIDE DEF ofMinute
  <2> QED BY <1>1, <1>2, <1>4, PlaceAbove
<1>6. time \in 0 .. UD - 1
  <2> HIDE DEF ofHour
  <2> QED BY <1>1, <1>2, <1>5, PlaceAbove
<1>7. \A a, b \in Int : a * b \in Int
  OBVIOUS
<1>8. instant = days * UD + time /\ instant \in Int
  <2>1. /\ days * UD \in Int /\ hour * UH \in Int /\ minute * UM \in Int /\ second * U \in Int
        /\ unit \in Int
    <3>1. hour \in Int /\ minute \in Int /\ second \in Int /\ unit \in Int
      BY <1>1, <1>2
    <3> QED BY <1>1, <1>7, <3>1
  <2> QED BY <1>3, <2>1
<1>9. Floored(instant) = days
  <2> HIDE DEF time
  <2>1. instant \div UD = days
    BY <1>1, <1>6, <1>8, DivisionIsUnique
  <2> QED BY <2>1 DEF Floored, UD
<1>10. instant - Floored(instant) * UD = time
  <2> HIDE DEF time
  <2>1. days * UD \in Int /\ time \in Int
    BY <1>1, <1>6, <1>7
  <2> QED BY <1>8, <1>9, <2>1
<1>11. time \div UH = hour /\ time % UH = ofHour
  <2>1. time = hour * UH + ofHour
    OBVIOUS
  <2>2. time \in Int /\ hour \in Int
    BY <1>1, <1>2, <1>6
  <2>3. UH \in Nat \ {0}
    BY <1>1
  <2> HIDE DEF time, ofHour
  <2>4. time \div UH = hour
    BY <1>5, <2>1, <2>2, <2>3, DivisionIsUnique
  <2>5. time % UH = ofHour
    BY <1>5, <2>1, <2>2, <2>3, DivisionIsUnique
  <2> QED BY <2>4, <2>5
<1>12. ofHour \div UM = minute
  <2>1. ofHour = minute * UM + ofMinute
    OBVIOUS
  <2>2. ofHour \in Int /\ minute \in Int
    BY <1>1, <1>2, <1>5
  <2> HIDE DEF ofHour, ofMinute
  <2> QED BY <1>1, <1>4, <2>1, <2>2, DivisionIsUnique
<1>13. \A a, b, c \in Int : (a * b) * c = a * (b * c) /\ (a + b) * c = a * c + b * c
  OBVIOUS
<1>14. hour \in Int /\ minute \in Int /\ second \in Int /\ unit \in Int /\ M \in Int /\ S \in Int
       /\ UM \in Int /\ U \in Int /\ hour * M \in Int
  BY <1>1, <1>2, <1>7
<1>15. time % UM = ofMinute
  <2> DEFINE q == hour * M + minute
  <2>1. q * UM = hour * UH + minute * UM
    <3>1. q * UM = (hour * M) * UM + minute * UM
      BY <1>13, <1>14
    <3>2. (hour * M) * UM = hour * UH
      BY <1>1, <1>13, <1>14
    <3> QED BY <3>1, <3>2
  <2>2. q \in Int /\ hour * UH \in Int /\ minute * UM \in Int /\ ofMinute \in Int
    BY <1>1, <1>4, <1>7, <1>14
  <2>3. time = q * UM + ofMinute
    <3> HIDE DEF q, ofMinute
    <3> QED BY <2>1, <2>2
  <2>4. time \in Int
    BY <1>1, <1>6
  <2> HIDE DEF q, time, ofMinute
  <2> QED BY <1>1, <1>4, <2>2, <2>3, <2>4, DivisionIsUnique
<1>16. ofMinute \div U = second
  <2>1. ofMinute = second * U + unit
    OBVIOUS
  <2>2. ofMinute \in Int
    BY <1>1, <1>4
  <2> HIDE DEF ofMinute
  <2> QED BY <1>1, <1>2, <1>14, <2>1, <2>2, DivisionIsUnique
<1>17. time % U = unit
  <2> DEFINE p == hour * M + minute
             q == p * S + second
  <2>1. p \in Int /\ p * UM = hour * UH + minute * UM
    <3>1. p * UM = (hour * M) * UM + minute * UM
      BY <1>13, <1>14
    <3>2. (hour * M) * UM = hour * UH
      BY <1>1, <1>13, <1>14
    <3> QED BY <1>14, <3>1, <3>2
  <2>2. q \in Int /\ q * U = p * UM + second * U
    <3> HIDE DEF p
    <3>1. p * S \in Int
      BY <1>7, <1>14, <2>1
    <3>2. q * U = (p * S) * U + second * U
      BY <1>13, <1>14, <3>1
    <3>3. (p * S) * U = p * UM
      BY <1>1, <1>13, <1>14, <2>1
    <3> QED BY <1>14, <3>1, <3>2, <3>3
  <2>3. hour * UH \in Int /\ minute * UM \in Int /\ second * U \in Int
    BY <1>1, <1>7, <1>14
  <2>4. time = q * U + unit
    <3> HIDE DEF p, q
    <3> QED BY <1>14, <2>1, <2>2, <2>3
  <2>5. time \in Int
    BY <1>1, <1>6
  <2> HIDE DEF q, time, p
  <2> QED BY <1>1, <1>2, <2>2, <2>4, <2>5, DivisionIsUnique
<1> HIDE DEF time, ofHour, ofMinute
<1>18. /\ time \div UH = hour
       /\ (time % UH) \div UM = minute
       /\ (time % UM) \div U = second
       /\ time % U = unit
  BY <1>11, <1>12, <1>15, <1>16, <1>17
<1> QED BY <1>8, <1>9, <1>10, <1>18 DEF U, UM, UH, UD

\* What a clock shows is written down as it shows it.
LEMMA ShownIsWritten ==
  ASSUME NEW shown \in Walls, Exists(shown)
  PROVE  /\ InstantShown(shown) \in Int
         /\ format_rfc3339(InstantShown(shown)) = TextShown(shown, Z, <<>>)
<1> DEFINE days == DaysOf(shown)
           instant == InstantShown(shown)
           time == instant - Floored(instant) * UnitsPerDay
<1>1. /\ shown.year \in Int /\ shown.hour \in 0 .. HoursPerDay - 1
      /\ shown.minute \in 0 .. MinutesPerHour - 1 /\ shown.second \in 0 .. SecondsPerMinute - 1
      /\ shown.unit \in 0 .. UnitsPerSecond - 1
  BY DEF Walls
<1>2. /\ days \in Int
      /\ DateOf(days) = [year |-> shown.year, month |-> shown.month, day |-> shown.day]
  BY <1>1, DayOfDate
<1>3. instant = days * UnitsPerDay + shown.hour * UnitsPerHour + shown.minute * UnitsPerMinute
                  + shown.second * UnitsPerSecond + shown.unit
  BY DEF InstantShown
<1>4. /\ instant \in Int
      /\ Floored(instant) = days
      /\ time \div UnitsPerHour = shown.hour
      /\ (time % UnitsPerHour) \div UnitsPerMinute = shown.minute
      /\ (time % UnitsPerMinute) \div UnitsPerSecond = shown.second
      /\ time % UnitsPerSecond = shown.unit
  <2> HIDE DEF days, instant
  <2> QED BY <1>1, <1>2, <1>3, FieldsOfInstant
<1>5. format_rfc3339(instant) =
        [year     |-> DateOf(Floored(instant)).year,
         month    |-> DateOf(Floored(instant)).month,
         day      |-> DateOf(Floored(instant)).day,
         hour     |-> time \div UnitsPerHour,
         minute   |-> (time % UnitsPerHour) \div UnitsPerMinute,
         second   |-> (time % UnitsPerMinute) \div UnitsPerSecond,
         fraction |-> Numeral(time % UnitsPerSecond, kKeptFractionalDigits),
         zone     |-> Z]
  BY DEF format_rfc3339
<1>6. /\ DateOf(Floored(instant)).year = shown.year
      /\ DateOf(Floored(instant)).month = shown.month
      /\ DateOf(Floored(instant)).day = shown.day
  BY <1>2, <1>4
<1>7. Numeral(shown.unit, kKeptFractionalDigits) \o <<>> =
        Numeral(shown.unit, kKeptFractionalDigits)
  <2>1. shown.unit \in Nat /\ kKeptFractionalDigits \in Nat
    BY <1>1, UnitsAre, TimesAssumption
  <2>2. Numeral(shown.unit, kKeptFractionalDigits) \in Seq(0..9)
    BY <2>1, NumeralIs
  <2> QED BY <2>2
<1> HIDE DEF days, instant, time
<1>8. format_rfc3339(instant) = TextShown(shown, Z, <<>>)
  BY <1>4, <1>5, <1>6, <1>7 DEF TextShown
<1> QED BY <1>4, <1>8 DEF instant

\* Every instant is shown by some clock.
LEMMA EveryInstantIsShown ==
  ASSUME NEW instant \in Int
  PROVE  \E shown \in Walls : Exists(shown) /\ InstantShown(shown) = instant
<1> DEFINE days == instant \div UnitsPerDay
           inDay == instant % UnitsPerDay
           hour == inDay \div UnitsPerHour
           inHour == inDay % UnitsPerHour
           minute == inHour \div UnitsPerMinute
           inMinute == inHour % UnitsPerMinute
           second == inMinute \div UnitsPerSecond
           unit == inMinute % UnitsPerSecond
           date == DateOf(days)
           shown == [year |-> date.year, month |-> date.month, day |-> date.day,
                     hour |-> hour, minute |-> minute, second |-> second, unit |-> unit]
<1>1. /\ HoursPerDay \in Nat \ {0} /\ MinutesPerHour \in Nat \ {0} /\ SecondsPerMinute \in Nat \ {0}
      /\ UnitsPerSecond \in Nat \ {0} /\ UnitsPerMinute \in Nat \ {0}
      /\ UnitsPerHour \in Nat \ {0} /\ UnitsPerDay \in Nat \ {0}
      /\ UnitsPerMinute = SecondsPerMinute * UnitsPerSecond
      /\ UnitsPerHour = MinutesPerHour * UnitsPerMinute
      /\ UnitsPerDay = HoursPerDay * UnitsPerHour
  BY UnitsAre
<1>2. \A size, limit \in Nat \ {0} : \A n \in 0 .. limit * size - 1 :
        /\ n \div size \in 0 .. limit - 1
        /\ n % size \in 0 .. size - 1
        /\ n = (n \div size) * size + (n % size)
  <2> TAKE size, limit \in Nat \ {0}
  <2> TAKE n \in 0 .. limit * size - 1
  <2> DEFINE q == n \div size
             r == n % size
  <2>1. n \in Int /\ n \in Nat /\ n < limit * size
    <3>1. \A a, b \in Nat : a * b \in Nat
      OBVIOUS
    <3>2. limit * size \in Nat
      BY <3>1
    <3> QED BY <3>2
  <2>2. q \in Nat /\ r \in 0 .. size - 1 /\ n = q * size + r
    BY <2>1, DivisionIs
  <2>3. ~(limit <= q)
    <3>1. \A a, b, c \in Nat : a <= b => a * c <= b * c
      OBVIOUS
    <3>2. limit <= q => limit * size <= q * size
      <4> HIDE DEF q
      <4> QED BY <2>2, <3>1
    <3>3. q * size \in Nat /\ limit * size \in Nat /\ r \in Nat
      <4>1. \A a, b \in Nat : a * b \in Nat
        OBVIOUS
      <4> HIDE DEF q, r
      <4> QED BY <2>2, <4>1
    <3> HIDE DEF q, r
    <3> QED BY <2>1, <2>2, <3>2, <3>3
  <2> HIDE DEF q, r
  <2>4. q \in 0 .. limit - 1
    BY <2>2, <2>3
  <2> QED BY <2>2, <2>4 DEF q, r
<1>3. days \in Int /\ inDay \in 0 .. UnitsPerDay - 1 /\ instant = days * UnitsPerDay + inDay
  BY <1>1, DivisionIs, ZenonT(60)
<1>4. /\ hour \in 0 .. HoursPerDay - 1 /\ inHour \in 0 .. UnitsPerHour - 1
      /\ inDay = hour * UnitsPerHour + inHour
  <2>1. inDay \in 0 .. HoursPerDay * UnitsPerHour - 1
    BY <1>1, <1>3
  <2> HIDE DEF inDay
  <2> QED BY <1>1, <1>2, <2>1
<1>5. /\ minute \in 0 .. MinutesPerHour - 1 /\ inMinute \in 0 .. UnitsPerMinute - 1
      /\ inHour = minute * UnitsPerMinute + inMinute
  <2>1. inHour \in 0 .. MinutesPerHour * UnitsPerMinute - 1
    BY <1>1, <1>4
  <2> HIDE DEF inHour
  <2> QED BY <1>1, <1>2, <2>1
<1>6. /\ second \in 0 .. SecondsPerMinute - 1 /\ unit \in 0 .. UnitsPerSecond - 1
      /\ inMinute = second * UnitsPerSecond + unit
  <2>1. inMinute \in 0 .. SecondsPerMinute * UnitsPerSecond - 1
    BY <1>1, <1>5
  <2> HIDE DEF inMinute
  <2> QED BY <1>1, <1>2, <2>1
<1> HIDE DEF hour, minute, second, unit, inDay, inHour, inMinute, days
<1>7. date \in Dates /\ Exists(date) /\ DaysOf(date) = days
  BY <1>3, DateOfDay
<1> HIDE DEF date
<1>8. shown \in Walls
  <2>1. date.year \in Int /\ date.month \in 1..12 /\ date.day \in 1..31
    BY <1>7 DEF Dates
  <2> QED BY <1>4, <1>5, <1>6, <2>1 DEF Walls
<1>9. Exists(shown) /\ DaysOf(shown) = days
  <2>1. shown.year = date.year /\ shown.month = date.month /\ shown.day = date.day
    OBVIOUS
  <2> HIDE DEF shown
  <2> QED BY <1>7, <2>1, DatesShared
<1>10. InstantShown(shown) = instant
  <2>1. InstantShown(shown) = days * UnitsPerDay + hour * UnitsPerHour + minute * UnitsPerMinute
                                + second * UnitsPerSecond + unit
    <3>1. shown.hour = hour /\ shown.minute = minute /\ shown.second = second /\ shown.unit = unit
      OBVIOUS
    <3> HIDE DEF shown
    <3> QED BY <1>9, <3>1 DEF InstantShown
  <2>2. \A a, b \in Int : a * b \in Int
    OBVIOUS
  <2>3. /\ days * UnitsPerDay \in Int /\ hour * UnitsPerHour \in Int
        /\ minute * UnitsPerMinute \in Int /\ second * UnitsPerSecond \in Int /\ unit \in Int
    <3>1. hour \in Int /\ minute \in Int /\ second \in Int /\ unit \in Int
      BY <1>1, <1>4, <1>5, <1>6
    <3> QED BY <1>1, <1>3, <2>2, <3>1
  <2> QED BY <1>3, <1>4, <1>5, <1>6, <2>1, <2>3
<1> HIDE DEF shown
<1> QED BY <1>8, <1>9, <1>10

LEMMA KeptFractionIs ==
  ASSUME NEW fraction \in Seq(0..9)
  PROVE  \E kept \in [0..kKeptFractionalDigits -> Nat] :
            /\ KeptFraction(fraction) = kept[kKeptFractionalDigits]
            /\ kept[0] = 0
            /\ \A i \in 1..kKeptFractionalDigits :
                 kept[i] = kept[i - 1] * 10 + (IF i <= Len(fraction) THEN fraction[i] ELSE 0)
<1> DEFINE n == kKeptFractionalDigits
           digit(i) == IF i <= Len(fraction) THEN fraction[i] ELSE 0
           step == [i \in Nat |-> [x \in Nat |-> IF i + 1 \in 1..n THEN x * 10 + digit(i + 1) ELSE x]]
           Def(f) == f = [i \in 0..n |-> IF i = 0 THEN 0 ELSE f[i - 1] * 10 + digit(i)]
<1>1. n \in Nat /\ \A i \in 1..n : digit(i) \in Nat
  BY TimesAssumption
<1> DEFINE kept == CHOOSE h : Def(h)
<1>2. KeptFraction(fraction) = kept[n]
  BY DEF KeptFraction
<1> HIDE DEF digit, kept, n
<1>3. step \in [Nat -> [Nat -> Nat]]
  BY <1>1
<1>4. PICK f \in [Nat -> Nat] : f[0] = 0 /\ \A i \in Nat : f[i + 1] = step[i][f[i]]
  <2> DEFINE T == Nat
             base == 0
  <2>1. base \in T /\ step \in [Nat -> [T -> T]]
    BY <1>3
  <2> HIDE DEF T, base, step
  <2>2. \E f \in [Nat -> T] : Recurs(f, base, step)
    BY <2>1, RecursionExists
  <2> QED BY <2>2 DEF T, base, Recurs
<1> DEFINE g == [i \in 0..n |-> f[i]]
<1>5. \A i \in 0..n : g[i] = IF i = 0 THEN 0 ELSE g[i - 1] * 10 + digit(i)
  <2> TAKE i \in 0..n
  <2>1. CASE i = 0
    BY <1>4, <2>1
  <2>2. CASE i # 0
    <3>1. i - 1 \in Nat /\ i - 1 \in 0..n /\ (i - 1) + 1 = i /\ i \in 1..n
      BY <1>1, <2>2
    <3>2. f[(i - 1) + 1] = step[i - 1][f[i - 1]]
      BY <1>4, <3>1
    <3>3. f[i] = f[i - 1] * 10 + digit(i)
      BY <3>1, <3>2
    <3> QED BY <2>2, <3>1, <3>3
  <2> QED BY <2>1, <2>2
<1>6. Def(g)
  BY <1>5
<1>7. Def(kept)
  <2> HIDE DEF Def, g
  <2> QED BY <1>6 DEF kept
<1>8. kept[0] = 0
  BY <1>1, <1>7
<1>9. \A i \in 1..n : kept[i] = kept[i - 1] * 10 + digit(i)
  <2>1. \A i \in 0..n : kept[i] = IF i = 0 THEN 0 ELSE kept[i - 1] * 10 + digit(i)
    BY <1>7
  <2>2. \A i \in 1..n : i \in 0..n /\ i # 0
    BY <1>1
  <2> HIDE DEF Def
  <2> QED BY <2>1, <2>2, ZenonT(60)
<1> DEFINE S == {i \in 0..n : kept[i] \in Nat}
<1>10. 0 \in S /\ \A i \in 0 .. n - 1 : i \in S => i + 1 \in S
  <2> HIDE DEF Def
  <2>1. 0 \in S
    BY <1>1, <1>8
  <2>2. ASSUME NEW i \in 0 .. n - 1, i \in S
        PROVE  i + 1 \in S
    <3>1. i + 1 \in 1..n /\ (i + 1) - 1 = i /\ i + 1 \in 0..n
      BY <1>1
    <3>2. kept[i + 1] = kept[i] * 10 + digit(i + 1)
      <4>1. kept[i + 1] = kept[(i + 1) - 1] * 10 + digit(i + 1)
        BY <1>9, <3>1
      <4> QED BY <3>1, <4>1
    <3>3. kept[i] \in Nat /\ digit(i + 1) \in Nat
      BY <1>1, <2>2, <3>1
    <3>4. \A x, y \in Nat : x * 10 + y \in Nat
      OBVIOUS
    <3>5. kept[i + 1] \in Nat
      BY <3>2, <3>3, <3>4
    <3> QED BY <3>1, <3>5
  <2> QED BY <2>1, <2>2
<1>11. 0..n \subseteq S
  <2> HIDE DEF S
  <2> QED BY <1>1, <1>10, IntervalByInduction
<1>12. kept \in [0..n -> Nat]
  BY <1>7, <1>11
<1> HIDE DEF Def
<1>13. \A i \in 1..n :
         kept[i] = kept[i - 1] * 10 + (IF i <= Len(fraction) THEN fraction[i] ELSE 0)
  BY <1>9 DEF digit
<1> QED BY <1>2, <1>8, <1>12, <1>13 DEF n

\* Units written down, and finer digits behind them, are read as those units.
LEMMA UnitsAreKept ==
  ASSUME NEW unit \in 0 .. UnitsPerSecond - 1, NEW finer \in Seq(0..9)
  PROVE  /\ Numeral(unit, kKeptFractionalDigits) \o finer \in Seq(0..9)
         /\ KeptFraction(Numeral(unit, kKeptFractionalDigits) \o finer) = unit
<1> DEFINE k == kKeptFractionalDigits
           numeral == Numeral(unit, k)
           fraction == numeral \o finer
<1>1. k \in Nat /\ unit \in Nat /\ unit < power_of_ten[k] /\ power_of_ten[k] \in Nat \ {0}
  <2>1. UnitsPerSecond \in Nat \ {0} /\ UnitsPerSecond \in Int
    BY UnitsAre
  <2>2. unit \in Nat /\ unit < UnitsPerSecond
    BY <2>1
  <2>3. UnitsPerSecond = power_of_ten[k]
    BY DEF UnitsPerSecond
  <2>4. k \in Nat
    BY TimesAssumption
  <2> QED BY <2>1, <2>2, <2>3, <2>4
<1>2. /\ numeral \in Seq(0..9) /\ Len(numeral) = k
      /\ \A i \in 1..k : numeral[i] = (unit \div power_of_ten[k - i]) % 10
  <2> HIDE DEF k
  <2> QED BY <1>1, NumeralIs
<1> HIDE DEF numeral
<1>3. fraction \in Seq(0..9)
  BY <1>2
<1>4. \A i \in 1..k : i <= Len(fraction) /\ fraction[i] = numeral[i]
  <2> HIDE DEF k
  <2> QED BY <1>1, <1>2
<1> HIDE DEF fraction
<1>5. PICK kept \in [0..k -> Nat] :
        /\ KeptFraction(fraction) = kept[k]
        /\ kept[0] = 0
        /\ \A i \in 1..k : kept[i] = kept[i - 1] * 10 + (IF i <= Len(fraction) THEN fraction[i] ELSE 0)
  BY <1>3, KeptFractionIs
<1> HIDE DEF k
<1>6. \A i \in 1..k : kept[i] = kept[i - 1] * 10 + ((unit \div power_of_ten[k - i]) % 10)
  BY <1>2, <1>4, <1>5
<1> DEFINE S == {i \in 0..k : kept[i] = unit \div power_of_ten[k - i]}
<1>7. 0 \in S
  <2>1. unit = 0 * power_of_ten[k] + unit /\ unit \in 0 .. power_of_ten[k] - 1 /\ unit \in Int
    BY <1>1
  <2>2. unit \div power_of_ten[k] = 0
    <3> DEFINE d == power_of_ten[k]
               q == 0
    <3>1. d \in Nat \ {0} /\ q \in Int /\ unit = q * d + unit /\ unit \in 0 .. d - 1
      BY <1>1, <2>1
    <3> HIDE DEF d, q
    <3>2. unit \div d = q
      BY <2>1, <3>1, DivisionIsUnique
    <3> QED BY <3>2 DEF d, q
  <2>3. k - 0 = k /\ 0 \in 0..k
    BY <1>1
  <2> QED BY <1>5, <2>2, <2>3
<1>8. ASSUME NEW i \in 0 .. k - 1, i \in S
      PROVE  i + 1 \in S
  <2> DEFINE j == k - (i + 1)
             d == power_of_ten[j]
             q == unit \div d
  <2>1. i + 1 \in 1..k /\ (i + 1) - 1 = i /\ i + 1 \in 0..k /\ j \in Nat /\ k - i = j + 1
    BY <1>1
  <2>2. d \in Nat \ {0} /\ power_of_ten[k - i] = d * 10
    <3> HIDE DEF j
    <3> QED BY <2>1, PowersRise, PowersAreDefined
  <2>3. kept[i + 1] = kept[i] * 10 + (q % 10)
    <3>1. kept[i + 1] = kept[(i + 1) - 1] * 10 + ((unit \div power_of_ten[k - (i + 1)]) % 10)
      BY <1>6, <2>1
    <3> QED BY <2>1, <3>1
  <2> HIDE DEF d
  <2>4. kept[i] = q \div 10
    <3>1. kept[i] = unit \div (d * 10)
      BY <1>8, <2>2
    <3>2. unit \in Int /\ 10 \in Nat \ {0}
      BY <1>1
    <3>3. (unit \div d) \div 10 = unit \div (d * 10)
      BY <2>2, <3>2, DivisionTwice
    <3> QED BY <3>1, <3>3
  <2>5. q \in Int
    BY <1>1, <2>2, DivisionIs
  <2> HIDE DEF q
  <2>6. q = (q \div 10) * 10 + (q % 10)
    BY <2>5
  <2>7. kept[i + 1] = q
    BY <2>3, <2>4, <2>6
  <2> QED BY <2>1, <2>7 DEF q, d
<1>9. k \in S
  <2>1. 0..k \subseteq S
    <3> HIDE DEF S
    <3> QED BY <1>1, <1>7, <1>8, IntervalByInduction
  <2> HIDE DEF S
  <2> QED BY <1>1, <2>1
<1>10. kept[k] = unit
  <2>1. kept[k] = unit \div power_of_ten[k - k]
    BY <1>9
  <2>2. k - k = 0 /\ power_of_ten[0] = 1
    BY <1>1, PowersAreDefined
  <2>3. unit \div 1 = unit
    BY <1>1
  <2> QED BY <2>1, <2>2, <2>3
<1> QED BY <1>3, <1>5, <1>10 DEF fraction, numeral, k

LEMMA OffsetsAre ==
  /\ Offset(Z) = 0
  /\ \A zone \in Zones : Offset(zone) \in Int
<1>1. UnitsPerHour \in Nat /\ UnitsPerMinute \in Nat
  BY UnitsAre
<1>2. \A a, b \in Int : a * b \in Int /\ a + b \in Int /\ 0 * a = 0
  OBVIOUS
<1>3. Offset(Z) = 0
  <2>1. Offset(Z) = 0 * (0 * UnitsPerHour + 0 * UnitsPerMinute)
    BY DEF Offset, Z
  <2> QED BY <1>1, <2>1
<1>4. ASSUME NEW zone \in Zones
      PROVE  Offset(zone) \in Int
  <2>1. zone.sign \in Int /\ zone.hours \in Int /\ zone.minutes \in Int
    <3>1. /\ zone.sign \in {-1, 1} /\ zone.hours \in 0 .. HoursPerDay - 1
          /\ zone.minutes \in 0 .. MinutesPerHour - 1
      BY ClockAssumption
    <3>2. HoursPerDay \in Int /\ MinutesPerHour \in Int
      BY UnitsAre
    <3> QED BY <3>1, <3>2
  <2>2. zone.hours * UnitsPerHour \in Int /\ zone.minutes * UnitsPerMinute \in Int
    BY <1>1, <1>2, <2>1
  <2>3. zone.hours * UnitsPerHour + zone.minutes * UnitsPerMinute \in Int
    BY <1>2, <2>2
  <2>4. zone.sign * (zone.hours * UnitsPerHour + zone.minutes * UnitsPerMinute) \in Int
    BY <1>2, <2>1, <2>3
  <2> QED BY <2>4 DEF Offset
<1> QED BY <1>3, <1>4

\* The text of what a clock shows in a zone is taken, for that instant less the
\* zone's offset.
LEMMA ShownIsRead ==
  ASSUME NEW shown \in Walls, Exists(shown), NEW zone \in Zones \cup {Z}, NEW finer \in Seq(0..9)
  PROVE  /\ Refusal(TextShown(shown, zone, finer)) = "none"
         /\ InstantOf(TextShown(shown, zone, finer)) = InstantShown(shown) - Offset(zone)
<1> DEFINE written == TextShown(shown, zone, finer)
           fraction == Numeral(shown.unit, kKeptFractionalDigits) \o finer
<1>1. /\ shown.year \in Int /\ shown.month \in 1..12 /\ shown.day \in 1..31
      /\ shown.hour \in 0 .. HoursPerDay - 1
      /\ shown.minute \in 0 .. MinutesPerHour - 1 /\ shown.second \in 0 .. SecondsPerMinute - 1
      /\ shown.unit \in 0 .. UnitsPerSecond - 1
  BY DEF Walls
<1>2. fraction \in Seq(0..9) /\ KeptFraction(fraction) = shown.unit
  BY <1>1, UnitsAreKept
<1> HIDE DEF fraction
<1>3. written = [year |-> shown.year, month |-> shown.month, day |-> shown.day,
                 hour |-> shown.hour, minute |-> shown.minute, second |-> shown.second,
                 fraction |-> fraction, zone |-> zone]
  BY DEF TextShown, fraction
<1> HIDE DEF written
<1>4. /\ written.year = shown.year /\ written.month = shown.month /\ written.day = shown.day
      /\ written.hour = shown.hour /\ written.minute = shown.minute
      /\ written.second = shown.second /\ written.fraction = fraction /\ written.zone = zone
      /\ DOMAIN written = {"year", "month", "day", "hour", "minute", "second", "fraction", "zone"}
  BY <1>3
<1>5. HoursPerDay \in Nat \ {0} /\ MinutesPerHour \in Nat \ {0} /\ SecondsPerMinute \in Nat \ {0}
  BY UnitsAre
<1>6. zone.hours \in 0 .. HoursPerDay - 1 /\ zone.minutes \in 0 .. MinutesPerHour - 1
  <2>1. CASE zone \in Zones
    BY <2>1, ClockAssumption
  <2>2. CASE zone = Z
    BY <1>5, <2>2 DEF Z
  <2> QED BY <2>1, <2>2
<1>7. ~Malformed(written)
  <2>1. Odd \notin Int /\ Odd \notin Seq(0..9) /\ Odd \notin Zones \cup {Z}
    BY ClockAssumption
  <2>2. /\ shown.hour \in Int /\ shown.minute \in Int /\ shown.second \in Int
        /\ shown.month \in Int /\ shown.day \in Int
    <3>1. \A n \in Nat : \A i \in 0 .. n - 1 : i \in Int
      OBVIOUS
    <3>2. shown.hour \in Int /\ shown.minute \in Int /\ shown.second \in Int
      BY <1>1, <1>5, <3>1
    <3>3. shown.month \in 1..12 /\ shown.day \in 1..31
      BY <1>1
    <3>4. /\ \A i \in 1..12 : i \in Int
          /\ \A i \in 1..31 : i \in Int
      OBVIOUS
    <3>5. shown.month \in Int /\ shown.day \in Int
      BY <3>3, <3>4, ZenonT(60)
    <3> QED BY <3>2, <3>5
  <2>3. /\ written.year # Odd /\ written.month # Odd /\ written.day # Odd /\ written.hour # Odd
        /\ written.minute # Odd /\ written.second # Odd /\ written.fraction # Odd
        /\ written.zone # Odd
    BY <1>1, <1>2, <1>4, <2>1, <2>2
  <2> QED BY <1>4, <2>3 DEF Malformed
<1>8. Exists(written) /\ DaysOf(written) = DaysOf(shown)
  BY <1>4, DatesShared
<1>9. Refusal(written) = "none"
  <2>1. ~(written.zone.hours >= HoursPerDay) /\ ~(written.zone.minutes >= MinutesPerHour)
    BY <1>4, <1>5, <1>6
  <2>2. /\ ~(written.hour >= HoursPerDay) /\ ~(written.minute >= MinutesPerHour)
        /\ ~(written.second >= SecondsPerMinute)
    BY <1>1, <1>4, <1>5
  <2> QED BY <1>7, <1>8, <2>1, <2>2 DEF Refusal
<1>10. InstantOf(written) = InstantShown(shown) - Offset(zone)
  <2>1. InstantOf(written) =
          DaysOf(written) * UnitsPerDay + written.hour * UnitsPerHour
            + written.minute * UnitsPerMinute + written.second * UnitsPerSecond
            + KeptFraction(written.fraction) - Offset(written.zone)
    BY DEF InstantOf
  <2>2. KeptFraction(written.fraction) = shown.unit
    BY <1>2, <1>4
  <2>3. InstantOf(written) =
          DaysOf(shown) * UnitsPerDay + shown.hour * UnitsPerHour
            + shown.minute * UnitsPerMinute + shown.second * UnitsPerSecond
            + shown.unit - Offset(zone)
    BY <1>4, <1>8, <2>1, <2>2, ZenonT(60)
  <2>4. DaysOf(shown) \in Int /\ Offset(zone) \in Int
    <3>1. DaysOf(shown) \in Int
      BY <1>1, DayOfDate
    <3>2. CASE zone \in Zones
      BY <3>1, <3>2, OffsetsAre
    <3>3. CASE zone = Z
      BY <3>1, <3>3, OffsetsAre
    <3> QED BY <3>2, <3>3
  <2>5. /\ shown.hour \in Int /\ shown.minute \in Int /\ shown.second \in Int /\ shown.unit \in Int
        /\ UnitsPerSecond \in Int /\ UnitsPerMinute \in Int /\ UnitsPerHour \in Int
        /\ UnitsPerDay \in Int
    <3>1. \A n \in Nat : \A i \in 0 .. n - 1 : i \in Int
      OBVIOUS
    <3>2. /\ UnitsPerSecond \in Nat /\ UnitsPerMinute \in Nat /\ UnitsPerHour \in Nat
          /\ UnitsPerDay \in Nat
      BY UnitsAre
    <3> QED BY <1>1, <1>5, <3>1, <3>2
  <2>6. \A a, b \in Int : a * b \in Int
    OBVIOUS
  <2> DEFINE a == DaysOf(shown) * UnitsPerDay
             b == shown.hour * UnitsPerHour
             c == shown.minute * UnitsPerMinute
             d == shown.second * UnitsPerSecond
  <2>7. a \in Int /\ b \in Int /\ c \in Int /\ d \in Int
    BY <2>4, <2>5, <2>6
  <2>8. /\ InstantOf(written) = a + b + c + d + shown.unit - Offset(zone)
        /\ InstantShown(shown) = a + b + c + d + shown.unit
    BY <2>3 DEF InstantShown
  <2> HIDE DEF a, b, c, d
  <2> QED BY <2>4, <2>5, <2>7, <2>8
<1> QED BY <1>9, <1>10 DEF written

-----------------------------------------------------------------------------
(***************************************************************************)
(* The clock.                                                              *)
(***************************************************************************)
LEMMA TomorrowIsNext ==
  ASSUME NEW shown \in Walls, Exists(shown)
  PROVE  LET next == Tomorrow(shown)
         IN  /\ next \in Walls
             /\ Exists(next)
             /\ DaysOf(next) = DaysOf(shown) + 1
             /\ \/ next.year > shown.year
                \/ next.year = shown.year /\ next.month > shown.month
                \/ next.year = shown.year /\ next.month = shown.month /\ next.day > shown.day
<1> DEFINE next == Tomorrow(shown)
<1>1. /\ shown.year \in Int /\ shown.month \in 1..12 /\ shown.day \in 1..31
      /\ shown.day \in 1 .. DaysIn(shown.year, shown.month)
  BY DEF Walls, Exists
<1>2. /\ \A m \in 1..12 : DaysBeforeMonth(shown.year, m) \in Nat /\ DaysIn(shown.year, m) \in 28..31
      /\ \A m \in 1..12 : DaysBeforeMonth(shown.year + 1, m) \in Nat
                          /\ DaysIn(shown.year + 1, m) \in 28..31
  <2>1. \A year \in Int : \A m \in 1..12 :
          DaysBeforeMonth(year, m) \in Nat /\ DaysIn(year, m) \in 28..31
    BY MonthsBegin
  <2>2. shown.year \in Int /\ shown.year + 1 \in Int
    BY <1>1
  <2> QED BY <2>1, <2>2
<1>3. DaysBeforeYear(shown.year) \in Int
  BY <1>1, YearsBegin
<1>4. DaysOf(shown) = DaysBeforeYear(shown.year) + DaysBeforeMonth(shown.year, shown.month)
                        + shown.day - 1
  BY DEF DaysOf
<1>5. DaysOf(next) = DaysBeforeYear(next.year) + DaysBeforeMonth(next.year, next.month)
                       + next.day - 1
  BY DEF DaysOf
<1>6. DaysIn(shown.year, shown.month) \in 28..31 /\ DaysBeforeMonth(shown.year, shown.month) \in Nat
  BY <1>1, <1>2
<1>7. CASE shown.day < DaysIn(shown.year, shown.month)
  <2>1. next = [shown EXCEPT !.day = shown.day + 1]
    BY <1>7 DEF Tomorrow
  <2> HIDE DEF next
  <2>2. shown.day + 1 \in 1 .. DaysIn(shown.year, shown.month) /\ shown.day + 1 \in 1..31
    BY <1>1, <1>6, <1>7
  <2>3. next \in Walls /\ next.year = shown.year /\ next.month = shown.month
        /\ next.day = shown.day + 1
    BY <2>1, <2>2 DEF Walls
  <2>4. Exists(next)
    BY <1>1, <2>2, <2>3 DEF Exists
  <2>5. DaysOf(next) = DaysOf(shown) + 1
    BY <1>1, <1>3, <1>4, <1>5, <1>6, <2>3
  <2> QED BY <1>1, <2>3, <2>4, <2>5 DEF next
<1>8. CASE shown.day = DaysIn(shown.year, shown.month) /\ shown.month < 12
  <2>1. next = [shown EXCEPT !.month = shown.month + 1, !.day = 1]
    BY <1>6, <1>8 DEF Tomorrow
  <2> HIDE DEF next
  <2>2. shown.month \in 1..11 /\ shown.month + 1 \in 1..12
    BY <1>1, <1>8
  <2>3. next \in Walls /\ next.year = shown.year /\ next.month = shown.month + 1 /\ next.day = 1
    <3> DEFINE first == [shown EXCEPT !.month = shown.month + 1]
    <3>1. first \in Walls /\ first.year = shown.year /\ first.month = shown.month + 1
      BY <2>2 DEF Walls
    <3>2. next = [first EXCEPT !.day = 1]
      BY <2>1
    <3> HIDE DEF first
    <3> QED BY <3>1, <3>2 DEF Walls
  <2>4. DaysIn(shown.year, shown.month + 1) \in 28..31
    BY <1>2, <2>2
  <2>5. Exists(next)
    BY <2>2, <2>3, <2>4 DEF Exists
  <2>6. DaysBeforeMonth(shown.year, shown.month + 1) =
          DaysBeforeMonth(shown.year, shown.month) + DaysIn(shown.year, shown.month)
    <3>1. \A year \in Int : \A m \in 1..11 :
            DaysBeforeMonth(year, m + 1) = DaysBeforeMonth(year, m) + DaysIn(year, m)
      BY MonthsBegin
    <3> QED BY <1>1, <2>2, <3>1
  <2>7. DaysOf(next) = DaysOf(shown) + 1
    BY <1>3, <1>4, <1>5, <1>6, <1>8, <2>3, <2>6
  <2> QED BY <1>1, <2>3, <2>5, <2>7 DEF next
<1>9. CASE shown.day = DaysIn(shown.year, shown.month) /\ shown.month = 12
  <2>1. next = [shown EXCEPT !.year = shown.year + 1, !.month = 1, !.day = 1]
    BY <1>6, <1>9 DEF Tomorrow
  <2> HIDE DEF next
  <2>2. next \in Walls /\ next.year = shown.year + 1 /\ next.month = 1 /\ next.day = 1
    <3> DEFINE later == [shown EXCEPT !.year = shown.year + 1]
               first == [later EXCEPT !.month = 1]
    <3>1. later \in Walls /\ later.year = shown.year + 1
      BY <1>1 DEF Walls
    <3>2. next = [first EXCEPT !.day = 1]
      BY <2>1
    <3> HIDE DEF later
    <3>3. first \in Walls /\ first.year = shown.year + 1 /\ first.month = 1
      BY <3>1 DEF Walls
    <3> HIDE DEF first
    <3> QED BY <3>2, <3>3 DEF Walls
  <2>3. 1 \in 1..12 /\ DaysIn(shown.year + 1, 1) \in 28..31
    BY <1>2
  <2>4. Exists(next)
    BY <2>2, <2>3 DEF Exists
  <2>5. DaysBeforeMonth(shown.year, 12) + DaysIn(shown.year, 12) =
          IF IsLeap(shown.year) THEN 366 ELSE 365
    BY <1>1, MonthsBegin
  <2>6. DaysBeforeYear(shown.year + 1) =
          DaysBeforeYear(shown.year) + (IF IsLeap(shown.year) THEN 366 ELSE 365)
    BY <1>1, YearsBegin
  <2>7. shown.year + 1 \in Int /\ DaysBeforeMonth(shown.year + 1, 1) = 0
    <3>1. shown.year + 1 \in Int
      BY <1>1
    <3> QED BY <3>1, MonthsBegin
  <2>8. DaysOf(next) = DaysOf(shown) + 1
    <3> DEFINE before == DaysBeforeYear(shown.year)
               first == DaysBeforeMonth(shown.year, 12)
               last == DaysIn(shown.year, 12)
               length == IF IsLeap(shown.year) THEN 366 ELSE 365
    <3>1. /\ before \in Int /\ first \in Nat /\ last \in Nat /\ length \in Nat
          /\ first + last = length
      BY <1>3, <1>6, <1>9, <2>5
    <3>2. DaysOf(shown) = before + first + last - 1
      BY <1>4, <1>9
    <3>3. DaysOf(next) = before + length + 0 + 1 - 1
      BY <1>5, <2>2, <2>6, <2>7
    <3> HIDE DEF before, first, last, length
    <3> QED BY <3>1, <3>2, <3>3
  <2> QED BY <1>1, <2>2, <2>4, <2>8 DEF next
<1>10. \/ shown.day < DaysIn(shown.year, shown.month)
       \/ shown.day = DaysIn(shown.year, shown.month) /\ shown.month < 12
       \/ shown.day = DaysIn(shown.year, shown.month) /\ shown.month = 12
  BY <1>1, <1>6
<1> QED BY <1>7, <1>8, <1>9, <1>10

SameDay(one, other) ==
  one.year = other.year /\ one.month = other.month /\ one.day = other.day

LaterDay(one, other) ==
  \/ other.year > one.year
  \/ other.year = one.year /\ other.month > one.month
  \/ other.year = one.year /\ other.month = one.month /\ other.day > one.day

LaterHour(one, other) ==
  LaterDay(one, other) \/ (SameDay(one, other) /\ other.hour > one.hour)

LaterMinute(one, other) ==
  \/ LaterHour(one, other)
  \/ SameDay(one, other) /\ other.hour = one.hour /\ other.minute > one.minute

LaterSecond(one, other) ==
  \/ LaterMinute(one, other)
  \/ /\ SameDay(one, other) /\ other.hour = one.hour /\ other.minute = one.minute
     /\ other.second > one.second

HourCount(shown) == DaysOf(shown) * HoursPerDay + shown.hour
MinuteCount(shown) == HourCount(shown) * MinutesPerHour + shown.minute
SecondCount(shown) == MinuteCount(shown) * SecondsPerMinute + shown.second
UnitCount(shown) == SecondCount(shown) * UnitsPerSecond + shown.unit

LEMMA WallsAre ==
  ASSUME NEW shown \in Walls, Exists(shown)
  PROVE  /\ shown.year \in Int /\ shown.month \in Int /\ shown.day \in Int
         /\ shown.hour \in Nat /\ shown.minute \in Nat /\ shown.second \in Nat /\ shown.unit \in Nat
         /\ shown.hour < HoursPerDay /\ shown.minute < MinutesPerHour
         /\ shown.second < SecondsPerMinute /\ shown.unit < UnitsPerSecond
         /\ DaysOf(shown) \in Int /\ HourCount(shown) \in Int /\ MinuteCount(shown) \in Int
         /\ SecondCount(shown) \in Int
<1>1. /\ shown.year \in Int /\ shown.month \in 1..12 /\ shown.day \in 1..31
      /\ shown.hour \in 0 .. HoursPerDay - 1
      /\ shown.minute \in 0 .. MinutesPerHour - 1 /\ shown.second \in 0 .. SecondsPerMinute - 1
      /\ shown.unit \in 0 .. UnitsPerSecond - 1
  BY DEF Walls
<1>2. /\ HoursPerDay \in Nat /\ MinutesPerHour \in Nat /\ SecondsPerMinute \in Nat
      /\ UnitsPerSecond \in Nat
  BY UnitsAre
<1>3. /\ \A n \in Nat : \A i \in 0 .. n - 1 : i \in Nat /\ i < n /\ i \in Int
      /\ \A i \in 1..12 : i \in Int
      /\ \A i \in 1..31 : i \in Int
      /\ \A n \in Nat : n \in Int
  OBVIOUS
<1>4. /\ shown.hour \in Nat /\ shown.minute \in Nat /\ shown.second \in Nat /\ shown.unit \in Nat
      /\ shown.hour < HoursPerDay /\ shown.minute < MinutesPerHour
      /\ shown.second < SecondsPerMinute /\ shown.unit < UnitsPerSecond
  BY <1>1, <1>2, <1>3, ZenonT(60)
<1>5. shown.month \in Int /\ shown.day \in Int
  BY <1>1, <1>3, ZenonT(60)
<1>6. DaysOf(shown) \in Int
  BY <1>1, DayOfDate
<1>7. \A a, b, c \in Int : a * b + c \in Int
  OBVIOUS
<1>8. /\ shown.hour \in Int /\ shown.minute \in Int /\ shown.second \in Int
      /\ HoursPerDay \in Int /\ MinutesPerHour \in Int /\ SecondsPerMinute \in Int
  BY <1>2, <1>3, <1>4, ZenonT(60)
<1>9. HourCount(shown) \in Int
  BY <1>6, <1>7, <1>8 DEF HourCount
<1>10. MinuteCount(shown) \in Int
  BY <1>7, <1>8, <1>9 DEF MinuteCount
<1>11. SecondCount(shown) \in Int
  BY <1>7, <1>8, <1>10 DEF SecondCount
<1> QED BY <1>1, <1>4, <1>5, <1>6, <1>9, <1>10, <1>11

\* The units of an instant, counted place by place.
LEMMA UnitsAreCounted ==
  ASSUME NEW shown \in Walls, Exists(shown)
  PROVE  UnitCount(shown) = InstantShown(shown)
<1> DEFINE days == DaysOf(shown)
           h == shown.hour
           m == shown.minute
           s == shown.second
           u == shown.unit
           H == HoursPerDay
           M == MinutesPerHour
           S == SecondsPerMinute
           U == UnitsPerSecond
           UM == UnitsPerMinute
           UH == UnitsPerHour
           UD == UnitsPerDay
<1>1. /\ days \in Int /\ h \in Int /\ m \in Int /\ s \in Int /\ u \in Int
      /\ H \in Int /\ M \in Int /\ S \in Int /\ U \in Int
      /\ UM \in Int /\ UH \in Int /\ UD \in Int
      /\ UM = S * U /\ UH = M * UM /\ UD = H * UH
  <2>1. /\ days \in Int /\ h \in Nat /\ m \in Nat /\ s \in Nat /\ u \in Nat
    BY WallsAre
  <2>2. /\ H \in Nat /\ M \in Nat /\ S \in Nat /\ U \in Nat
        /\ UM \in Nat /\ UH \in Nat /\ UD \in Nat
        /\ UM = S * U /\ UH = M * UM /\ UD = H * UH
    BY UnitsAre
  <2> HIDE DEF days, h, m, s, u, H, M, S, U, UM, UH, UD
  <2> QED BY <2>1, <2>2
<1>2. UnitCount(shown) = (((days * H + h) * M + m) * S + s) * U + u
  BY DEF UnitCount, SecondCount, MinuteCount, HourCount
<1>3. InstantShown(shown) = days * UD + h * UH + m * UM + s * U + u
  BY DEF InstantShown
<1> HIDE DEF days, h, m, s, u, H, M, S, U, UM, UH, UD
<1>4. \A a, b, c \in Int : /\ (a * b) * c = a * (b * c)
                           /\ (a + b) * c = a * c + b * c
                           /\ a * b \in Int /\ a + b \in Int
  OBVIOUS
<1>5. /\ days * H \in Int /\ days * H + h \in Int
      /\ (days * H + h) * M \in Int /\ (days * H + h) * M + m \in Int
      /\ ((days * H + h) * M + m) * S \in Int /\ ((days * H + h) * M + m) * S + s \in Int
  BY <1>1, <1>4
<1> DEFINE a == days * H + h
           b == a * M + m
           c == b * S + s
<1>6. /\ a \in Int /\ b \in Int /\ c \in Int
      /\ a = days * H + h /\ b = a * M + m /\ c = b * S + s
      /\ UnitCount(shown) = c * U + u
  BY <1>2, <1>5
<1> HIDE DEF a, b, c
<1>7. c * U = b * UM + s * U
  <2>1. b * S \in Int
    BY <1>1, <1>4, <1>6
  <2>2. c * U = (b * S) * U + s * U
    BY <1>1, <1>4, <1>6, <2>1
  <2>3. (b * S) * U = b * UM
    BY <1>1, <1>4, <1>6
  <2> QED BY <2>2, <2>3
<1>8. b * UM = a * UH + m * UM
  <2>1. a * M \in Int
    BY <1>1, <1>4, <1>6
  <2>2. b * UM = (a * M) * UM + m * UM
    BY <1>1, <1>4, <1>6, <2>1
  <2>3. (a * M) * UM = a * UH
    BY <1>1, <1>4, <1>6
  <2> QED BY <2>2, <2>3
<1>9. a * UH = days * UD + h * UH
  <2>1. a * UH = (days * H) * UH + h * UH
    BY <1>1, <1>4, <1>5, <1>6
  <2>2. (days * H) * UH = days * UD
    BY <1>1, <1>4
  <2> QED BY <2>1, <2>2
<1>10. /\ days * UD \in Int /\ h * UH \in Int /\ m * UM \in Int /\ s * U \in Int
       /\ a * UH \in Int /\ b * UM \in Int /\ c * U \in Int
  BY <1>1, <1>4, <1>6
<1> QED BY <1>1, <1>3, <1>6, <1>7, <1>8, <1>9, <1>10

\* A place that is full goes back to zero and the next goes up by one.
LEMMA CarriesOne ==
  ASSUME NEW above \in Int, NEW next \in Int, next = above + 1,
         NEW limit \in Nat \ {0}, NEW digit \in Nat, digit < limit, ~(digit + 1 < limit)
  PROVE  next * limit + 0 = (above * limit + digit) + 1
<1>1. digit + 1 = limit
  OBVIOUS
<1>2. \A a, b \in Int : (a + 1) * b = a * b + b /\ a * b \in Int
  OBVIOUS
<1>3. next * limit = above * limit + limit /\ above * limit \in Int
  BY <1>2
<1> QED BY <1>1, <1>3

LEMMA HoursTick ==
  ASSUME NEW shown \in Walls, Exists(shown), NEW next,
         next = Carry(shown, "hour", HoursPerDay, Tomorrow(shown))
  PROVE  /\ next \in Walls
         /\ Exists(next)
         /\ HourCount(next) = HourCount(shown) + 1
         /\ LaterHour(shown, next)
<1>0. HoursPerDay \in Nat \ {0}
  BY UnitsAre
<1>1. /\ shown.hour \in Nat /\ shown.hour < HoursPerDay /\ DaysOf(shown) \in Int
      /\ DaysOf(shown) * HoursPerDay \in Int
  <2>1. \A a \in Int, b \in Nat : a * b \in Int
    OBVIOUS
  <2> QED BY <1>0, <2>1, WallsAre
<1>2. CASE shown.hour + 1 < HoursPerDay
  <2>1. next = [shown EXCEPT !.hour = shown.hour + 1]
    BY <1>2 DEF Carry
  <2>2. shown.hour + 1 \in 0 .. HoursPerDay - 1
    BY <1>0, <1>1, <1>2
  <2>3. next \in Walls /\ SameDay(shown, next) /\ next.hour = shown.hour + 1
    BY <2>1, <2>2 DEF Walls, SameDay
  <2>4. Exists(next) /\ DaysOf(next) = DaysOf(shown)
    BY <2>3, DatesShared DEF SameDay
  <2>5. LaterHour(shown, next)
    BY <1>1, <2>3 DEF LaterHour
  <2>6. HourCount(next) = HourCount(shown) + 1
    BY <1>1, <2>3, <2>4 DEF HourCount
  <2> QED BY <2>3, <2>4, <2>5, <2>6
<1>3. CASE ~(shown.hour + 1 < HoursPerDay)
  <2> DEFINE day == Tomorrow(shown)
  <2>1. next = [day EXCEPT !.hour = 0]
    BY <1>3 DEF Carry
  <2>2. day \in Walls /\ Exists(day) /\ DaysOf(day) = DaysOf(shown) + 1 /\ LaterDay(shown, day)
    BY TomorrowIsNext DEF LaterDay
  <2> HIDE DEF day
  <2>3. 0 \in 0 .. HoursPerDay - 1
    BY <1>0
  <2>4. next \in Walls /\ SameDay(day, next) /\ next.hour = 0
    BY <2>1, <2>2, <2>3 DEF Walls, SameDay
  <2>5. Exists(next) /\ DaysOf(next) = DaysOf(shown) + 1
    BY <2>2, <2>4, DatesShared DEF SameDay
  <2>6. LaterHour(shown, next)
    BY <2>2, <2>4 DEF LaterHour, LaterDay, SameDay
  <2>7. HourCount(next) = HourCount(shown) + 1
    <3> DEFINE above == DaysOf(shown)
               after == DaysOf(next)
               digit == shown.hour
    <3>1. above \in Int /\ after \in Int /\ after = above + 1 /\ digit \in Nat
          /\ digit < HoursPerDay /\ ~(digit + 1 < HoursPerDay)
      BY <1>1, <1>3, <2>5
    <3> HIDE DEF above, after, digit
    <3>2. after * HoursPerDay + 0 = (above * HoursPerDay + digit) + 1
      BY <1>0, <3>1, CarriesOne
    <3> QED BY <2>4, <3>2 DEF HourCount, above, after, digit
  <2> QED BY <2>4, <2>5, <2>6, <2>7
<1> QED BY <1>2, <1>3

LEMMA MinutesTick ==
  ASSUME NEW shown \in Walls, Exists(shown), NEW next,
         next = Carry(shown, "minute", MinutesPerHour,
                      Carry(shown, "hour", HoursPerDay, Tomorrow(shown)))
  PROVE  /\ next \in Walls
         /\ Exists(next)
         /\ MinuteCount(next) = MinuteCount(shown) + 1
         /\ LaterMinute(shown, next)
<1>0. MinutesPerHour \in Nat \ {0}
  BY UnitsAre
<1>1. /\ shown.minute \in Nat /\ shown.minute < MinutesPerHour /\ HourCount(shown) \in Int
      /\ HourCount(shown) * MinutesPerHour \in Int
  <2>1. \A a \in Int, b \in Nat : a * b \in Int
    OBVIOUS
  <2> QED BY <1>0, <2>1, WallsAre
<1>2. CASE shown.minute + 1 < MinutesPerHour
  <2>1. next = [shown EXCEPT !.minute = shown.minute + 1]
    BY <1>2 DEF Carry
  <2>2. shown.minute + 1 \in 0 .. MinutesPerHour - 1
    BY <1>0, <1>1, <1>2
  <2>3. /\ next \in Walls /\ SameDay(shown, next) /\ next.hour = shown.hour
        /\ next.minute = shown.minute + 1
    BY <2>1, <2>2 DEF Walls, SameDay
  <2>4. Exists(next) /\ DaysOf(next) = DaysOf(shown)
    BY <2>3, DatesShared DEF SameDay
  <2>5. LaterMinute(shown, next)
    BY <1>1, <2>3 DEF LaterMinute
  <2>6. HourCount(next) = HourCount(shown)
    BY <2>3, <2>4 DEF HourCount
  <2>7. MinuteCount(next) = MinuteCount(shown) + 1
    BY <1>1, <2>3, <2>6 DEF MinuteCount
  <2> QED BY <2>3, <2>4, <2>5, <2>7
<1>3. CASE ~(shown.minute + 1 < MinutesPerHour)
  <2> DEFINE hours == Carry(shown, "hour", HoursPerDay, Tomorrow(shown))
  <2>1. next = [hours EXCEPT !.minute = 0]
    BY <1>3 DEF Carry
  <2>2. /\ hours \in Walls /\ Exists(hours) /\ HourCount(hours) = HourCount(shown) + 1
        /\ LaterHour(shown, hours)
    BY HoursTick
  <2> HIDE DEF hours
  <2>3. 0 \in 0 .. MinutesPerHour - 1
    BY <1>0
  <2>4. next \in Walls /\ SameDay(hours, next) /\ next.hour = hours.hour /\ next.minute = 0
    BY <2>1, <2>2, <2>3 DEF Walls, SameDay
  <2>5. Exists(next) /\ DaysOf(next) = DaysOf(hours)
    BY <2>2, <2>4, DatesShared DEF SameDay
  <2>6. LaterMinute(shown, next)
    BY <2>2, <2>4 DEF LaterMinute, LaterHour, LaterDay, SameDay
  <2>7. HourCount(next) = HourCount(shown) + 1
    BY <2>2, <2>4, <2>5 DEF HourCount
  <2>8. MinuteCount(next) = MinuteCount(shown) + 1
    <3> DEFINE above == HourCount(shown)
               after == HourCount(next)
               digit == shown.minute
    <3>1. above \in Int /\ after \in Int /\ after = above + 1 /\ digit \in Nat
          /\ digit < MinutesPerHour /\ ~(digit + 1 < MinutesPerHour)
      BY <1>1, <1>3, <2>7
    <3> HIDE DEF above, after, digit
    <3>2. after * MinutesPerHour + 0 = (above * MinutesPerHour + digit) + 1
      BY <1>0, <3>1, CarriesOne
    <3> QED BY <2>4, <3>2 DEF MinuteCount, above, after, digit
  <2> QED BY <2>4, <2>5, <2>6, <2>8
<1> QED BY <1>2, <1>3

LEMMA SecondsTick ==
  ASSUME NEW shown \in Walls, Exists(shown), NEW next,
         next = Carry(shown, "second", SecondsPerMinute,
                      Carry(shown, "minute", MinutesPerHour,
                            Carry(shown, "hour", HoursPerDay, Tomorrow(shown))))
  PROVE  /\ next \in Walls
         /\ Exists(next)
         /\ SecondCount(next) = SecondCount(shown) + 1
         /\ LaterSecond(shown, next)
<1>0. SecondsPerMinute \in Nat \ {0}
  BY UnitsAre
<1>1. /\ shown.second \in Nat /\ shown.second < SecondsPerMinute /\ MinuteCount(shown) \in Int
      /\ MinuteCount(shown) * SecondsPerMinute \in Int
  <2>1. \A a \in Int, b \in Nat : a * b \in Int
    OBVIOUS
  <2> QED BY <1>0, <2>1, WallsAre
<1>2. CASE shown.second + 1 < SecondsPerMinute
  <2>1. next = [shown EXCEPT !.second = shown.second + 1]
    BY <1>2 DEF Carry
  <2>2. shown.second + 1 \in 0 .. SecondsPerMinute - 1
    BY <1>0, <1>1, <1>2
  <2>3. /\ next \in Walls /\ SameDay(shown, next) /\ next.hour = shown.hour
        /\ next.minute = shown.minute /\ next.second = shown.second + 1
    BY <2>1, <2>2 DEF Walls, SameDay
  <2>4. Exists(next) /\ DaysOf(next) = DaysOf(shown)
    BY <2>3, DatesShared DEF SameDay
  <2>5. LaterSecond(shown, next)
    BY <1>1, <2>3 DEF LaterSecond
  <2>6. MinuteCount(next) = MinuteCount(shown)
    BY <2>3, <2>4 DEF HourCount, MinuteCount
  <2>7. SecondCount(next) = SecondCount(shown) + 1
    BY <1>1, <2>3, <2>6 DEF SecondCount
  <2> QED BY <2>3, <2>4, <2>5, <2>7
<1>3. CASE ~(shown.second + 1 < SecondsPerMinute)
  <2> DEFINE minutes == Carry(shown, "minute", MinutesPerHour,
                              Carry(shown, "hour", HoursPerDay, Tomorrow(shown)))
  <2>1. next = [minutes EXCEPT !.second = 0]
    BY <1>3 DEF Carry
  <2>2. /\ minutes \in Walls /\ Exists(minutes) /\ MinuteCount(minutes) = MinuteCount(shown) + 1
        /\ LaterMinute(shown, minutes)
    BY MinutesTick
  <2> HIDE DEF minutes
  <2>3. 0 \in 0 .. SecondsPerMinute - 1
    BY <1>0
  <2>4. /\ next \in Walls /\ SameDay(minutes, next) /\ next.hour = minutes.hour
        /\ next.minute = minutes.minute /\ next.second = 0
    BY <2>1, <2>2, <2>3 DEF Walls, SameDay
  <2>5. Exists(next) /\ DaysOf(next) = DaysOf(minutes)
    BY <2>2, <2>4, DatesShared DEF SameDay
  <2>6. LaterSecond(shown, next)
    BY <2>2, <2>4 DEF LaterSecond, LaterMinute, LaterHour, LaterDay, SameDay
  <2>7. MinuteCount(next) = MinuteCount(shown) + 1
    BY <2>2, <2>4, <2>5 DEF HourCount, MinuteCount
  <2>8. SecondCount(next) = SecondCount(shown) + 1
    <3> DEFINE above == MinuteCount(shown)
               after == MinuteCount(next)
               digit == shown.second
    <3>1. above \in Int /\ after \in Int /\ after = above + 1 /\ digit \in Nat
          /\ digit < SecondsPerMinute /\ ~(digit + 1 < SecondsPerMinute)
      BY <1>1, <1>3, <2>7
    <3> HIDE DEF above, after, digit
    <3>2. after * SecondsPerMinute + 0 = (above * SecondsPerMinute + digit) + 1
      BY <1>0, <3>1, CarriesOne
    <3> QED BY <2>4, <3>2 DEF SecondCount, above, after, digit
  <2> QED BY <2>4, <2>5, <2>6, <2>8
<1> QED BY <1>2, <1>3

SameSecond(one, other) ==
  /\ SameDay(one, other) /\ one.hour = other.hour /\ one.minute = other.minute
  /\ one.second = other.second

LEMMA TicksByOne ==
  ASSUME NEW shown \in Walls, Exists(shown), NEW next, next = Ticked(shown)
  PROVE  /\ next \in Walls
         /\ Exists(next)
         /\ InstantShown(next) = InstantShown(shown) + 1
         /\ \/ next.unit # 0 /\ SameSecond(shown, next)
            \/ next.unit = 0 /\ LaterSecond(shown, next)
<1>0. UnitsPerSecond \in Nat \ {0}
  BY UnitsAre
<1>1. /\ shown.unit \in Nat /\ shown.unit < UnitsPerSecond /\ SecondCount(shown) \in Int
      /\ SecondCount(shown) * UnitsPerSecond \in Int
  <2>1. \A a \in Int, b \in Nat : a * b \in Int
    OBVIOUS
  <2> QED BY <1>0, <2>1, WallsAre
<1> DEFINE seconds == Carry(shown, "second", SecondsPerMinute,
                            Carry(shown, "minute", MinutesPerHour,
                                  Carry(shown, "hour", HoursPerDay, Tomorrow(shown))))
<1>2. next = Carry(shown, "unit", UnitsPerSecond, seconds)
  BY DEF Ticked
<1>3. /\ seconds \in Walls /\ Exists(seconds) /\ SecondCount(seconds) = SecondCount(shown) + 1
      /\ LaterSecond(shown, seconds)
  BY SecondsTick
<1> HIDE DEF seconds
<1>4. UnitCount(shown) = InstantShown(shown)
  BY UnitsAreCounted
<1>5. CASE shown.unit + 1 < UnitsPerSecond
  <2>1. next = [shown EXCEPT !.unit = shown.unit + 1]
    BY <1>2, <1>5 DEF Carry
  <2>2. shown.unit + 1 \in 0 .. UnitsPerSecond - 1
    BY <1>0, <1>1, <1>5
  <2>3. next \in Walls /\ SameSecond(shown, next) /\ next.unit = shown.unit + 1
    BY <2>1, <2>2 DEF Walls, SameDay, SameSecond
  <2>4. Exists(next) /\ DaysOf(next) = DaysOf(shown)
    BY <2>3, DatesShared DEF SameDay, SameSecond
  <2>5. SecondCount(next) = SecondCount(shown)
    BY <2>3, <2>4 DEF HourCount, MinuteCount, SecondCount, SameSecond
  <2>6. UnitCount(next) = UnitCount(shown) + 1
    BY <1>1, <2>3, <2>5 DEF UnitCount
  <2>7. UnitCount(next) = InstantShown(next)
    BY <2>3, <2>4, UnitsAreCounted
  <2> QED BY <1>1, <1>4, <2>3, <2>4, <2>6, <2>7
<1>6. CASE ~(shown.unit + 1 < UnitsPerSecond)
  <2>1. next = [seconds EXCEPT !.unit = 0]
    BY <1>2, <1>6 DEF Carry
  <2>2. 0 \in 0 .. UnitsPerSecond - 1
    BY <1>0
  <2>3. next \in Walls /\ SameSecond(seconds, next) /\ next.unit = 0
    BY <1>3, <2>1, <2>2 DEF Walls, SameDay, SameSecond
  <2>4. Exists(next) /\ DaysOf(next) = DaysOf(seconds)
    BY <1>3, <2>3, DatesShared DEF SameDay, SameSecond
  <2>5. SecondCount(next) = SecondCount(shown) + 1
    BY <1>3, <2>3, <2>4 DEF HourCount, MinuteCount, SecondCount, SameSecond
  <2>6. LaterSecond(shown, next)
    BY <1>3, <2>3 DEF LaterSecond, LaterMinute, LaterHour, LaterDay, SameDay, SameSecond
  <2>7. UnitCount(next) = UnitCount(shown) + 1
    <3> DEFINE above == SecondCount(shown)
               after == SecondCount(next)
               digit == shown.unit
    <3>1. above \in Int /\ after \in Int /\ after = above + 1 /\ digit \in Nat
          /\ digit < UnitsPerSecond /\ ~(digit + 1 < UnitsPerSecond)
      BY <1>1, <1>6, <2>5
    <3> HIDE DEF above, after, digit
    <3>2. after * UnitsPerSecond + 0 = (above * UnitsPerSecond + digit) + 1
      BY <1>0, <3>1, CarriesOne
    <3> QED BY <2>3, <3>2 DEF UnitCount, above, after, digit
  <2>8. UnitCount(next) = InstantShown(next)
    BY <2>3, <2>4, UnitsAreCounted
  <2> QED BY <1>4, <2>3, <2>4, <2>6, <2>7, <2>8
<1> QED BY <1>5, <1>6

\* The wall shows the instant that has been reached.
TimeInv ==
  /\ wall \in Walls
  /\ Exists(wall)
  /\ started \in Int
  /\ elapsed \in Nat
  /\ InstantShown(wall) = now

LEMMA TimeInvInit == TimeInit(Midnights) => TimeInv
<1> SUFFICES ASSUME TimeInit(Midnights)
             PROVE  TimeInv
  OBVIOUS
<1>1. PICK date \in Midnights :
        wall = At0(date) /\ elapsed = 0 /\ started = DaysOf(date) * UnitsPerDay
  BY DEF TimeInit
<1>2. date \in Dates /\ Exists(date)
  BY ClockAssumption
<1>3. date.year \in Int /\ date.month \in 1..12 /\ date.day \in 1..31
  BY <1>2 DEF Dates
<1>4. /\ 0 \in 0 .. HoursPerDay - 1 /\ 0 \in 0 .. MinutesPerHour - 1
      /\ 0 \in 0 .. SecondsPerMinute - 1 /\ 0 \in 0 .. UnitsPerSecond - 1
      /\ UnitsPerDay \in Int /\ UnitsPerHour \in Int /\ UnitsPerMinute \in Int
      /\ UnitsPerSecond \in Int
  <2>1. /\ HoursPerDay \in Nat \ {0} /\ MinutesPerHour \in Nat \ {0}
        /\ SecondsPerMinute \in Nat \ {0} /\ UnitsPerSecond \in Nat \ {0}
        /\ UnitsPerDay \in Nat /\ UnitsPerHour \in Nat /\ UnitsPerMinute \in Nat
    BY UnitsAre
  <2> QED BY <2>1
<1>5. /\ wall.year = date.year /\ wall.month = date.month /\ wall.day = date.day
      /\ wall.hour = 0 /\ wall.minute = 0 /\ wall.second = 0 /\ wall.unit = 0
  BY <1>1 DEF At0
<1>6. wall \in Walls
  BY <1>1, <1>3, <1>4 DEF Walls, At0
<1>7. Exists(wall) /\ DaysOf(wall) = DaysOf(date)
  BY <1>2, <1>5, DatesShared
<1>8. DaysOf(date) \in Int
  BY <1>2, <1>3, DayOfDate
<1>9. started \in Int
  <2>1. \A a, b \in Int : a * b \in Int
    OBVIOUS
  <2> QED BY <1>1, <1>4, <1>8, <2>1
<1>10. InstantShown(wall) = started + 0
  <2>1. InstantShown(wall) = DaysOf(date) * UnitsPerDay + 0 * UnitsPerHour + 0 * UnitsPerMinute
                               + 0 * UnitsPerSecond + 0
    BY <1>5, <1>7 DEF InstantShown
  <2>2. InstantShown(wall) = started + 0 * UnitsPerHour + 0 * UnitsPerMinute
                               + 0 * UnitsPerSecond + 0
    BY <1>1, <2>1
  <2> QED BY <1>4, <1>9, <2>2
<1> QED BY <1>1, <1>6, <1>7, <1>9, <1>10 DEF TimeInv, now

LEMMA TimeInvStep ==
  ASSUME TimeInv, [Tick]_clock
  PROVE  TimeInv'
<1>1. CASE UNCHANGED clock
  <2>1. wall' = wall /\ elapsed' = elapsed /\ started' = started
    BY <1>1 DEF clock
  <2> QED BY <2>1 DEF TimeInv, now
<1>2. CASE Tick
  <2>1. wall' = Ticked(wall) /\ elapsed' = elapsed + 1 /\ started' = started
    BY <1>2 DEF Tick
  <2>2. /\ wall \in Walls /\ Exists(wall) /\ started \in Int /\ elapsed \in Nat
        /\ InstantShown(wall) = started + elapsed
    BY DEF TimeInv, now
  <2> DEFINE next == wall'
  <2>3. next \in Walls /\ Exists(next) /\ InstantShown(next) = InstantShown(wall) + 1
    <3>1. next = Ticked(wall)
      BY <2>1
    <3> HIDE DEF next
    <3> QED BY <2>2, <3>1, TicksByOne
  <2>4. InstantShown(next) = started' + elapsed'
    BY <2>1, <2>2, <2>3
  <2>5. started' \in Int /\ elapsed' \in Nat
    BY <2>1, <2>2
  <2> QED BY <2>3, <2>4, <2>5 DEF TimeInv, now
<1> QED BY <1>1, <1>2

\* Whatever instant the clock has reached is written as the wall shows it, and
\* the text, with finer digits or without, is read back as that instant
\* (time.cpp:104-121, 176-192).
THEOREM TimesAreWrittenAsShown == TimeSpec => []WrittenAsShown
<1>1. TimeInv => WrittenAsShown
  <2> SUFFICES ASSUME TimeInv
               PROVE  /\ format_rfc3339(now) = WallText(Z, <<>>)
                      /\ \A finer \in {<<>>, << 0 >>, <<9, 9>>} :
                           /\ Refusal(WallText(Z, finer)) = "none"
                           /\ InstantOf(WallText(Z, finer)) = now
    BY DEF WrittenAsShown
  <2>1. wall \in Walls /\ Exists(wall) /\ InstantShown(wall) = now
    BY DEF TimeInv
  <2>2. \A zone, finer : WallText(zone, finer) = TextShown(wall, zone, finer)
    BY DEF WallText, TextShown
  <2>3. format_rfc3339(now) = WallText(Z, <<>>)
    <3>1. format_rfc3339(InstantShown(wall)) = TextShown(wall, Z, <<>>)
      BY <2>1, ShownIsWritten
    <3> QED BY <2>1, <2>2, <3>1
  <2>4. ASSUME NEW finer \in {<<>>, << 0 >>, <<9, 9>>}
        PROVE  Refusal(WallText(Z, finer)) = "none" /\ InstantOf(WallText(Z, finer)) = now
    <3>1. finer \in Seq(0..9) /\ Z \in Zones \cup {Z}
      <4>1. <<>> \in Seq(0..9)
        OBVIOUS
      <4>2. << 0 >> \in Seq(0..9)
        OBVIOUS
      <4>3. <<9, 9>> \in Seq(0..9)
        OBVIOUS
      <4> QED BY <2>4, <4>1, <4>2, <4>3
    <3>2. /\ Refusal(TextShown(wall, Z, finer)) = "none"
          /\ InstantOf(TextShown(wall, Z, finer)) = InstantShown(wall) - Offset(Z)
      BY <2>1, <3>1, ShownIsRead
    <3>3. InstantShown(wall) \in Int /\ Offset(Z) = 0
      BY <2>1, ShownIsWritten, OffsetsAre
    <3>4. InstantShown(wall) - Offset(Z) = InstantShown(wall)
      BY <3>3
    <3> QED BY <2>1, <2>2, <3>2, <3>4
  <2> QED BY <2>3, <2>4
<1> QED BY <1>1, TimeInvInit, TimeInvStep, PTL DEF TimeSpec

\* What the clock of a zone shows at an instant is read as that instant,
\* whatever the zone's offset (time.cpp:164-172).
THEOREM ZonesTellTheSameTime == TimeSpec => []ZonesAgree
<1>1. TimeInv => ZonesAgree
  <2> SUFFICES ASSUME TimeInv, NEW zone \in Zones
               PROVE  LET shown == [format_rfc3339(now + Offset(zone)) EXCEPT !.zone = zone]
                      IN  Refusal(shown) = "none" /\ InstantOf(shown) = now
    BY DEF ZonesAgree
  <2>1. now \in Int /\ Offset(zone) \in Int
    BY OffsetsAre DEF TimeInv, now
  <2>2. now + Offset(zone) \in Int
    BY <2>1
  <2>3. PICK there \in Walls : Exists(there) /\ InstantShown(there) = now + Offset(zone)
    BY <2>2, EveryInstantIsShown
  <2>4. format_rfc3339(now + Offset(zone)) = TextShown(there, Z, <<>>)
    <3>1. format_rfc3339(InstantShown(there)) = TextShown(there, Z, <<>>)
      BY <2>3, ShownIsWritten
    <3> QED BY <2>3, <3>1
  <2>5. [format_rfc3339(now + Offset(zone)) EXCEPT !.zone = zone] = TextShown(there, zone, <<>>)
    <3>1. [TextShown(there, Z, <<>>) EXCEPT !.zone = zone] = TextShown(there, zone, <<>>)
      BY DEF TextShown
    <3> QED BY <2>4, <3>1
  <2>6. <<>> \in Seq(0..9) /\ zone \in Zones \cup {Z}
    OBVIOUS
  <2>7. /\ Refusal(TextShown(there, zone, <<>>)) = "none"
        /\ InstantOf(TextShown(there, zone, <<>>)) = InstantShown(there) - Offset(zone)
    BY <2>3, <2>6, ShownIsRead
  <2>8. InstantShown(there) - Offset(zone) = now
    BY <2>1, <2>3
  <2> QED BY <2>5, <2>7, <2>8
<1> QED BY <1>1, TimeInvInit, TimeInvStep, PTL DEF TimeSpec

\* A text that is taken is the one that its instant is written as: nothing of it
\* is carried over into another field (time.cpp:150-160).
THEOREM NoMomentIsFolded == TimeSpec => []NothingIsFolded
<1>1. TimeInv => NothingIsFolded
  <2> SUFFICES ASSUME TimeInv, NEW month \in 0..13, NEW day \in 0..32, NEW more \in {0, 1}
               PROVE  LET text0 == [WallText(Z, <<>>) EXCEPT !.month = month, !.day = day,
                                                     !.hour = @ + more, !.second = @ + more]
                      IN  Refusal(text0) = "none" => format_rfc3339(InstantOf(text0)) = text0
    BY DEF NothingIsFolded
  <2> DEFINE written == [WallText(Z, <<>>) EXCEPT !.month = month, !.day = day,
                                           !.hour = @ + more, !.second = @ + more]
             other == [year |-> wall.year, month |-> month, day |-> day,
                       hour |-> wall.hour + more, minute |-> wall.minute,
                       second |-> wall.second + more, unit |-> wall.unit]
  <2>1. written = TextShown(other, Z, <<>>)
    <3> DEFINE fraction == Numeral(wall.unit, kKeptFractionalDigits) \o <<>>
               Text(m, d, h, s) ==
                 [year |-> wall.year, month |-> m, day |-> d, hour |-> h,
                  minute |-> wall.minute, second |-> s, fraction |-> fraction, zone |-> Z]
    <3>1. WallText(Z, <<>>) = Text(wall.month, wall.day, wall.hour, wall.second)
      BY DEF WallText
    <3>2. TextShown(other, Z, <<>>) = Text(month, day, wall.hour + more, wall.second + more)
      BY DEF TextShown
    <3> HIDE DEF fraction
    <3>3. \A m, d, h, s, x : /\ [Text(m, d, h, s) EXCEPT !.month = x] = Text(x, d, h, s)
                             /\ [Text(m, d, h, s) EXCEPT !.day = x] = Text(m, x, h, s)
                             /\ [Text(m, d, h, s) EXCEPT !.hour = x] = Text(m, d, x, s)
                             /\ [Text(m, d, h, s) EXCEPT !.second = x] = Text(m, d, h, x)
                             /\ Text(m, d, h, s).hour = h
                             /\ Text(m, d, h, s).second = s
      OBVIOUS
    <3> HIDE DEF Text
    <3> DEFINE hour == WallText(Z, <<>>).hour + more
               second == WallText(Z, <<>>).second + more
               ofMonth == [WallText(Z, <<>>) EXCEPT !.month = month]
               ofDay == [ofMonth EXCEPT !.day = day]
               ofHour == [ofDay EXCEPT !.hour = hour]
    <3>4. written = [ofHour EXCEPT !.second = second]
      OBVIOUS
    <3>5. hour = wall.hour + more /\ second = wall.second + more
      BY <3>1, <3>3
    <3> HIDE DEF written, other, hour, second
    <3>6. ofMonth = Text(month, wall.day, wall.hour, wall.second)
      <4>1. ofMonth = [Text(wall.month, wall.day, wall.hour, wall.second) EXCEPT !.month = month]
        BY <3>1
      <4> HIDE DEF ofMonth
      <4> QED BY <3>3, <4>1
    <3> HIDE DEF ofMonth
    <3>7. ofDay = Text(month, day, wall.hour, wall.second)
      <4>1. ofDay = [Text(month, wall.day, wall.hour, wall.second) EXCEPT !.day = day]
        BY <3>6
      <4> HIDE DEF ofDay
      <4> QED BY <3>3, <4>1
    <3> HIDE DEF ofDay
    <3>8. ofHour = Text(month, day, hour, wall.second)
      <4>1. ofHour = [Text(month, day, wall.hour, wall.second) EXCEPT !.hour = hour]
        BY <3>7
      <4> HIDE DEF ofHour
      <4> QED BY <3>3, <4>1
    <3> HIDE DEF ofHour
    <3>9. written = Text(month, day, hour, second)
      <4>1. written = [Text(month, day, hour, wall.second) EXCEPT !.second = second]
        BY <3>4, <3>8
      <4> QED BY <3>3, <4>1
    <3> QED BY <3>2, <3>5, <3>9
  <2>2. SUFFICES ASSUME Refusal(written) = "none"
                 PROVE  format_rfc3339(InstantOf(written)) = written
    OBVIOUS
  <2>3. /\ written.year = other.year /\ written.month = other.month /\ written.day = other.day
        /\ written.hour = other.hour /\ written.second = other.second
    BY <2>1 DEF TextShown
  <2> HIDE DEF written
  <2>4. Exists(written) /\ ~(written.hour >= HoursPerDay) /\ ~(written.second >= SecondsPerMinute)
    BY <2>2 DEF Refusal
  <2>5. wall \in Walls /\ Exists(wall)
    BY DEF TimeInv
  <2>6. /\ wall.year \in Int /\ wall.hour \in Nat /\ wall.minute \in Nat /\ wall.second \in Nat
        /\ wall.minute \in 0 .. MinutesPerHour - 1 /\ wall.unit \in 0 .. UnitsPerSecond - 1
    <3>1. wall.minute \in 0 .. MinutesPerHour - 1 /\ wall.unit \in 0 .. UnitsPerSecond - 1
      BY <2>5 DEF Walls
    <3> QED BY <2>5, <3>1, WallsAre
  <2>7. HoursPerDay \in Nat /\ SecondsPerMinute \in Nat
    BY UnitsAre
  <2>8. /\ wall.hour + more \in 0 .. HoursPerDay - 1
        /\ wall.second + more \in 0 .. SecondsPerMinute - 1
    <3>1. wall.hour + more \in Nat /\ wall.second + more \in Nat
      BY <2>6
    <3>2. ~(wall.hour + more >= HoursPerDay) /\ ~(wall.second + more >= SecondsPerMinute)
      BY <2>3, <2>4
    <3> QED BY <2>7, <3>1, <3>2
  <2>9. Exists(other)
    BY <2>3, <2>4, DatesShared
  <2>10. month \in 1..12 /\ day \in 1..31
    <3>1. month \in 1..12 /\ day \in 1 .. DaysIn(wall.year, month)
      BY <2>9 DEF Exists
    <3>2. DaysIn(wall.year, month) \in 28..31
      <4>1. \A year \in Int : \A m \in 1..12 : DaysIn(year, m) \in 28..31
        BY MonthsBegin
      <4> QED BY <2>6, <3>1, <4>1
    <3> QED BY <3>1, <3>2
  <2>11. other \in Walls
    BY <2>6, <2>8, <2>10 DEF Walls
  <2> HIDE DEF other
  <2>12. /\ InstantShown(other) \in Int
         /\ format_rfc3339(InstantShown(other)) = written
    BY <2>1, <2>9, <2>11, ShownIsWritten
  <2>13. InstantOf(written) = InstantShown(other) - Offset(Z)
    <3>1. <<>> \in Seq(0..9) /\ Z \in Zones \cup {Z}
      OBVIOUS
    <3> QED BY <2>1, <2>9, <2>11, <3>1, ShownIsRead
  <2>14. InstantShown(other) - Offset(Z) = InstantShown(other)
    BY <2>12, OffsetsAre
  <2> QED BY <2>12, <2>13, <2>14
<1> QED BY <1>1, TimeInvInit, TimeInvStep, PTL DEF TimeSpec

LEMMA StampIs ==
  ASSUME NEW shown \in Walls, Exists(shown)
  PROVE  segment_stamp(InstantShown(shown)) =
           <<shown.year, shown.month, shown.day, shown.hour, shown.minute, shown.second>>
<1>1. format_rfc3339(InstantShown(shown)) = TextShown(shown, Z, <<>>)
  BY ShownIsWritten
<1> QED BY <1>1 DEF segment_stamp, TextShown

\* As the clock ticks the stamp stays the same within a second, and the next
\* second's is behind it in the order of names (journal.cpp:41-43,
\* journal.hpp:143-145).
THEOREM StampsAreSorted == TimeSpec => StampsSort
<1> DEFINE before == segment_stamp(now)
           after == segment_stamp(now')
           Sorted == IF wall'.unit = 0 THEN Precedes(before, after) ELSE before = after
<1>1. TimeInv /\ TimeInv' /\ [Tick]_clock => [Sorted]_clock
  <2> SUFFICES ASSUME TimeInv, TimeInv', Tick
               PROVE  Sorted
    OBVIOUS
  <2> DEFINE next == wall'
  <2>1. wall \in Walls /\ Exists(wall) /\ InstantShown(wall) = now
    BY DEF TimeInv
  <2>2. next \in Walls /\ Exists(next) /\ InstantShown(next) = now'
    BY DEF TimeInv
  <2>3. \/ next.unit # 0 /\ SameSecond(wall, next)
        \/ next.unit = 0 /\ LaterSecond(wall, next)
    <3>1. next = Ticked(wall)
      BY DEF Tick
    <3> HIDE DEF next
    <3> QED BY <2>1, <3>1, TicksByOne
  <2>4. before = <<wall.year, wall.month, wall.day, wall.hour, wall.minute, wall.second>>
    <3>1. segment_stamp(InstantShown(wall)) =
            <<wall.year, wall.month, wall.day, wall.hour, wall.minute, wall.second>>
      BY <2>1, StampIs
    <3> QED BY <2>1, <3>1
  <2>5. after = <<next.year, next.month, next.day, next.hour, next.minute, next.second>>
    <3> DEFINE instant == now'
    <3>1. InstantShown(next) = instant
      BY <2>2
    <3>2. after = segment_stamp(instant)
      OBVIOUS
    <3> HIDE DEF next, instant, after
    <3>3. segment_stamp(InstantShown(next)) =
            <<next.year, next.month, next.day, next.hour, next.minute, next.second>>
      BY <2>2, StampIs
    <3> QED BY <3>1, <3>2, <3>3
  <2> HIDE DEF next, before, after
  <2>6. CASE next.unit # 0 /\ SameSecond(wall, next)
    <3>1. before = after
      BY <2>4, <2>5, <2>6 DEF SameSecond, SameDay
    <3> QED BY <2>6, <3>1 DEF next
  <2>7. CASE next.unit = 0 /\ LaterSecond(wall, next)
    <3>1. DOMAIN before = 1..6
      BY <2>4
    <3>2. /\ before[1] = wall.year /\ before[2] = wall.month /\ before[3] = wall.day
          /\ before[4] = wall.hour /\ before[5] = wall.minute /\ before[6] = wall.second
          /\ after[1] = next.year /\ after[2] = next.month /\ after[3] = next.day
          /\ after[4] = next.hour /\ after[5] = next.minute /\ after[6] = next.second
      BY <2>4, <2>5
    <3>3. /\ wall.year \in Int /\ wall.month \in Int /\ wall.day \in Int
          /\ wall.hour \in Int /\ wall.minute \in Int /\ wall.second \in Int
          /\ next.year \in Int /\ next.month \in Int /\ next.day \in Int
          /\ next.hour \in Int /\ next.minute \in Int /\ next.second \in Int
      <4>1. \A n \in Nat : n \in Int
        OBVIOUS
      <4> QED BY <2>1, <2>2, <4>1, WallsAre
    <3>4. \E i \in 1..6 : before[i] < after[i] /\ \A j \in 1 .. i - 1 : before[j] = after[j]
      BY <2>7, <3>2, <3>3 DEF LaterSecond, LaterMinute, LaterHour, LaterDay, SameDay
    <3>5. Precedes(before, after)
      BY <3>1, <3>4 DEF Precedes
    <3> QED BY <2>7, <3>5 DEF next
  <2> QED BY <2>3, <2>6, <2>7
<1> QED BY <1>1, TimeInvInit, TimeInvStep, PTL DEF TimeSpec, StampsSort

-----------------------------------------------------------------------------
(***************************************************************************)
(* Damaged documents.                                                      *)
(***************************************************************************)
\* What is left of an object that has lost some of its fields, those aside that
\* are looked at on their own.
Damaged(object, was, lost, aside) ==
  /\ object = [f \in DOMAIN object |-> object[f]]
  /\ DOMAIN object \subseteq DOMAIN was
  /\ \A f \in DOMAIN was \ lost : f \in DOMAIN object
  /\ \A f \in DOMAIN was \ aside : f \notin lost => object[f] = was[f]
  /\ \A f \in DOMAIN object \ aside : object[f] \in {was[f], WrongType, Unparsable}

\* The body of a message is an object of its own.
BodyDamaged(object, was, lost) ==
  /\ "msg" \in DOMAIN was /\ "msg" \notin lost => Sound(object, "msg")
  /\ Sound(object, "msg") => Damaged(object.msg, was.msg, lost, {})

\* So is a band of a grid.
BandLeft(band, old) ==
  /\ band = [b \in DOMAIN band |-> band[b]]
  /\ DOMAIN band \subseteq Bounds
  /\ \A b \in DOMAIN band : band[b] \in {old[b], WrongType, Unparsable, NoInteger}

GridLeft(list, old) ==
  /\ list = [i \in DOMAIN old |-> list[i]]
  /\ \A i \in DOMAIN old : list[i] = WrongType \/ BandLeft(list[i], old[i])

GridDamaged(object, was, lost) ==
  /\ "price_ranges" \in DOMAIN was /\ "price_ranges" \notin lost =>
       Has(object, "price_ranges") /\ object.price_ranges = was.price_ranges
  /\ Sound(object, "price_ranges") => GridLeft(object.price_ranges, was.price_ranges)

DocumentInv ==
  /\ source \in Sources
  /\ \/ ~Object /\ NoField \in damaged
     \/ /\ Object
        /\ source.reader = "message"
        /\ Damaged(document, Written(source), damaged, {"msg"})
        /\ BodyDamaged(document, Written(source), damaged)
     \/ /\ Object
        /\ source.reader = "record"
        /\ Damaged(document, Written(source), damaged, {})
     \/ /\ Object
        /\ source.reader \in {"metadata", "market"}
        /\ Damaged(document, Written(source), damaged, {"price_ranges"})
        /\ GridDamaged(document, Written(source), damaged)

LEMMA SpoiltIs ==
  ASSUME NEW object, object = [f \in DOMAIN object |-> object[f]],
         NEW field \in DOMAIN object, NEW new \in Spoilt(object, field)
  PROVE  /\ new \notin {WrongType, Unparsable}
         /\ new = [f \in DOMAIN new |-> new[f]]
         /\ DOMAIN new \subseteq DOMAIN object
         /\ \A f \in DOMAIN object : f # field => f \in DOMAIN new /\ new[f] = object[f]
         /\ field \in DOMAIN new => new[field] \in {WrongType, Unparsable}
<1>1. /\ new \notin {WrongType, Unparsable}
      /\ \/ new = Without(object, field)
         \/ new = [object EXCEPT ![field] = WrongType]
         \/ new = [object EXCEPT ![field] = Unparsable]
  BY DEF Spoilt
<1>2. CASE new = Without(object, field)
  BY <1>1, <1>2 DEF Without
<1>3. ASSUME NEW value \in {WrongType, Unparsable}, new = [object EXCEPT ![field] = value]
      PROVE  /\ new = [f \in DOMAIN new |-> new[f]]
             /\ DOMAIN new \subseteq DOMAIN object
             /\ \A f \in DOMAIN object : f # field => f \in DOMAIN new /\ new[f] = object[f]
             /\ new[field] = value
  BY <1>3
<1> QED BY <1>1, <1>2, <1>3

LEMMA DamagedMore ==
  ASSUME NEW object, NEW was, NEW lost, NEW aside, Damaged(object, was, lost, aside),
         NEW field \in DOMAIN object, NEW new \in Spoilt(object, field)
  PROVE  Damaged(new, was, lost \cup {field}, aside)
<1>1. /\ object = [f \in DOMAIN object |-> object[f]]
      /\ DOMAIN object \subseteq DOMAIN was
      /\ \A f \in DOMAIN was \ lost : f \in DOMAIN object
      /\ \A f \in DOMAIN was \ aside : f \notin lost => object[f] = was[f]
      /\ \A f \in DOMAIN object \ aside : object[f] \in {was[f], WrongType, Unparsable}
  BY DEF Damaged
<1>2. /\ new = [f \in DOMAIN new |-> new[f]]
      /\ DOMAIN new \subseteq DOMAIN object
      /\ \A f \in DOMAIN object : f # field => f \in DOMAIN new /\ new[f] = object[f]
      /\ field \in DOMAIN new => new[field] \in {WrongType, Unparsable}
  BY <1>1, SpoiltIs
<1>3. \A f \in DOMAIN was \ (lost \cup {field}) : f \in DOMAIN new
  BY <1>1, <1>2
<1>4. \A f \in DOMAIN was \ aside : f \notin lost \cup {field} => new[f] = was[f]
  BY <1>1, <1>2
<1>5. \A f \in DOMAIN new \ aside : new[f] \in {was[f], WrongType, Unparsable}
  BY <1>1, <1>2
<1> QED BY <1>1, <1>2, <1>3, <1>4, <1>5 DEF Damaged

LEMMA DamagedMoreAside ==
  ASSUME NEW object, NEW was, NEW lost, NEW field, NEW aside, Damaged(object, was, lost, {aside}),
         aside \in DOMAIN object, NEW part, NEW new, new = [object EXCEPT ![aside] = part]
  PROVE  /\ Damaged(new, was, lost \cup {field}, {aside})
         /\ new[aside] = part /\ aside \in DOMAIN new
BY DEF Damaged

LEMMA GridIsLeft ==
  ASSUME NEW grid \in Grids
  PROVE  GridLeft(grid, grid)
<1> DEFINE S == [Bounds -> Int]
<1>1. grid \in Seq(S)
  BY DEF Grids
<1>2. grid = [i \in DOMAIN grid |-> grid[i]] /\ \A i \in DOMAIN grid : grid[i] \in S
  <2> HIDE DEF S
  <2> QED BY <1>1
<1>3. \A band \in S : BandLeft(band, band)
  BY DEF BandLeft
<1> HIDE DEF S
<1> QED BY <1>2, <1>3 DEF GridLeft

\* A field that is spoilt leaves the grid as it is, or is the grid.
LEMMA GridStays ==
  ASSUME NEW object, NEW was, NEW lost, NEW aside, Damaged(object, was, lost, aside),
         GridDamaged(object, was, lost),
         NEW field \in DOMAIN object, NEW new \in Spoilt(object, field)
  PROVE  GridDamaged(new, was, lost \cup {field})
<1>1. object = [f \in DOMAIN object |-> object[f]]
  BY DEF Damaged
<1>2. /\ DOMAIN new \subseteq DOMAIN object
      /\ \A f \in DOMAIN object : f # field => f \in DOMAIN new /\ new[f] = object[f]
      /\ field \in DOMAIN new => new[field] \in {WrongType, Unparsable}
  BY <1>1, SpoiltIs
<1>3. CASE field = "price_ranges"
  BY <1>2, <1>3 DEF GridDamaged, Sound, Has
<1>4. CASE field # "price_ranges"
  <2>1. /\ Has(object, "price_ranges") =>
             Has(new, "price_ranges") /\ new["price_ranges"] = object["price_ranges"]
        /\ Sound(new, "price_ranges") =>
             Sound(object, "price_ranges") /\ new["price_ranges"] = object["price_ranges"]
    BY <1>2, <1>4 DEF Sound, Has
  <2> QED BY <2>1 DEF GridDamaged
<1> QED BY <1>3, <1>4

LEMMA BandLosesMore ==
  ASSUME NEW band, NEW old, BandLeft(band, old), NEW worse \in SpoiltBand(band)
  PROVE  worse = WrongType \/ BandLeft(worse, old)
<1>1. CASE worse = WrongType
  BY <1>1
<1>2. ASSUME NEW bound \in Bounds, Sound(band, bound), worse = Without(band, bound)
      PROVE  BandLeft(worse, old)
  BY <1>2 DEF Without, BandLeft
<1>3. ASSUME NEW bound \in Bounds, Sound(band, bound), NEW value \in {WrongType, Unparsable, NoInteger},
             worse = [band EXCEPT ![bound] = value]
      PROVE  BandLeft(worse, old)
  BY <1>3 DEF BandLeft
<1> QED BY <1>1, <1>2, <1>3 DEF SpoiltBand

\* A band that is spoilt is one of the list still.
LEMMA GridLosesMore ==
  ASSUME NEW object, NEW was, NEW lost, Damaged(object, was, lost, {"price_ranges"}),
         GridDamaged(object, was, lost), Sound(object, "price_ranges"),
         NEW i \in DOMAIN object.price_ranges, object.price_ranges[i] # WrongType,
         NEW band \in SpoiltBand(object.price_ranges[i]),
         NEW new, new = [object EXCEPT !.price_ranges = [@ EXCEPT ![i] = band]]
  PROVE  /\ Damaged(new, was, lost \cup {"price_ranges"}, {"price_ranges"})
         /\ GridDamaged(new, was, lost \cup {"price_ranges"})
<1> DEFINE list == object.price_ranges
           old == was.price_ranges
           less == [list EXCEPT ![i] = band]
<1>1. "price_ranges" \in DOMAIN object /\ new = [object EXCEPT !["price_ranges"] = less]
  BY DEF Sound, Has
<1>2. /\ Damaged(new, was, lost \cup {"price_ranges"}, {"price_ranges"})
      /\ new["price_ranges"] = less
  <2> HIDE DEF less
  <2> QED BY <1>1 DEF Damaged
<1>3. GridLeft(list, old)
  BY DEF GridDamaged
<1> HIDE DEF list, old
<1>4. /\ list = [j \in DOMAIN old |-> list[j]]
      /\ \A j \in DOMAIN old : list[j] = WrongType \/ BandLeft(list[j], old[j])
      /\ i \in DOMAIN old /\ list[i] # WrongType
  BY <1>3 DEF GridLeft, list
<1>5. band = WrongType \/ BandLeft(band, old[i])
  BY <1>4, BandLosesMore DEF list
<1>6. /\ less = [j \in DOMAIN old |-> less[j]]
      /\ \A j \in DOMAIN old : less[j] = IF j = i THEN band ELSE list[j]
  BY <1>4
<1> HIDE DEF less
<1>7. GridLeft(less, old)
  BY <1>4, <1>5, <1>6 DEF GridLeft
<1> QED BY <1>2, <1>7 DEF GridDamaged, old

LEMMA DocumentInvInit == DocumentInit(Sources) => DocumentInv
<1> SUFFICES ASSUME DocumentInit(Sources)
             PROVE  DocumentInv
  OBVIOUS
<1>1. source \in Sources /\ document = Written(source) /\ damaged = {}
  BY DEF DocumentInit
<1>2. Unspoilt(document)
  BY <1>1, DocumentsAssumption
<1>3. Object
  BY <1>2 DEF Unspoilt, Object
<1>4. \A aside : Damaged(document, Written(source), damaged, aside)
  BY <1>1, <1>2 DEF Damaged, Unspoilt
<1>5. CASE source.reader = "message"
  <2>1. document = source.of
    BY <1>1, <1>5 DEF Written
  <2>2. "msg" \in DOMAIN document => Unspoilt(document.msg)
    BY <1>1, <1>5, <2>1, DocumentsAssumption DEF SentMessage, Has
  <2>3. BodyDamaged(document, Written(source), damaged)
    <3>1. "msg" \in DOMAIN document => Sound(document, "msg")
      BY <2>2 DEF Unspoilt, Sound, Has
    <3>2. "msg" \in DOMAIN document => Damaged(document.msg, document.msg, {}, {})
      BY <2>2 DEF Damaged, Unspoilt
    <3> QED BY <1>1, <3>1, <3>2 DEF BodyDamaged, Sound, Has
  <2> QED BY <1>1, <1>3, <1>4, <1>5, <2>3 DEF DocumentInv
<1>6. CASE source.reader = "record"
  BY <1>1, <1>3, <1>4, <1>6 DEF DocumentInv
<1>7. CASE source.reader \in {"metadata", "market"}
  <2>1. document.price_ranges \in Grids
    <3>1. CASE source.reader = "metadata"
      <4>1. WrittenMetadata(source.of) /\ document = encode_session_metadata(source.of)
        BY <1>1, <3>1, DocumentsAssumption DEF Written
      <4>2. encode_session_metadata(source.of)["price_ranges"] = source.of.price_ranges
        BY <4>1 DEF encode_session_metadata, WrittenMetadata
      <4> QED BY <4>1, <4>2 DEF WrittenMetadata
    <3>2. CASE source.reader = "market"
      <4>1. ListedMarket(source.of) /\ document = source.of
        BY <1>1, <3>2, DocumentsAssumption DEF Written
      <4> QED BY <4>1 DEF ListedMarket
    <3> QED BY <1>7, <3>1, <3>2
  <2>2. GridLeft(document.price_ranges, document.price_ranges)
    BY <2>1, GridIsLeft
  <2>3. GridDamaged(document, Written(source), damaged)
    BY <1>1, <2>2 DEF GridDamaged, Has
  <2> QED BY <1>1, <1>3, <1>4, <1>7, <2>3 DEF DocumentInv
<1> QED BY <1>1, <1>5, <1>6, <1>7, DocumentsAssumption

LEMMA DocumentInvStep ==
  ASSUME DocumentInv, [Spoil]_documents
  PROVE  DocumentInv'
<1>1. CASE UNCHANGED documents
  <2>1. source' = source /\ document' = document /\ damaged' = damaged
    BY <1>1 DEF documents
  <2>2. Written(source)' = Written(source)
    BY <2>1 DEF Written
  <2> QED BY <2>1, <2>2 DEF DocumentInv, Object
<1>2. CASE Spoil
  <2>1. source' = source /\ Object /\ source \in Sources
    BY <1>2 DEF Spoil, DocumentInv
  <2> DEFINE was == Written(source)
             doc == document'
             more == damaged'
  <2>2. Written(source)' = was
    BY <2>1 DEF Written
  <2>3. CASE doc \in {WrongType, Unparsable} /\ more = damaged \cup {NoField}
    BY <2>1, <2>3 DEF DocumentInv, Object
  <2>4. ASSUME NEW field \in DOMAIN document \ damaged, doc \in Spoilt(document, field),
               more = damaged \cup {field}
        PROVE  DocumentInv'
    <3>1. CASE source.reader = "message"
      <4>1. /\ Damaged(document, was, damaged, {"msg"})
            /\ BodyDamaged(document, was, damaged)
        BY <2>1, <3>1 DEF DocumentInv
      <4> HIDE DEF was, doc, more
      <4>2. Damaged(doc, was, more, {"msg"})
        BY <2>4, <4>1, DamagedMore
      <4>3. /\ doc \notin {WrongType, Unparsable}
            /\ DOMAIN doc \subseteq DOMAIN document
            /\ \A f \in DOMAIN document : f # field => f \in DOMAIN doc /\ doc[f] = document[f]
            /\ field \in DOMAIN doc => doc[field] \in {WrongType, Unparsable}
        BY <2>4, <4>1, SpoiltIs DEF Damaged
      <4>4. BodyDamaged(doc, was, more)
        <5>1. CASE field = "msg"
          <6>1. ~Sound(doc, "msg")
            BY <4>3, <5>1 DEF Sound, Has
          <6> QED BY <2>4, <5>1, <6>1 DEF BodyDamaged
        <5>2. CASE field # "msg"
          <6>1. Sound(doc, "msg") <=> Sound(document, "msg")
            BY <4>3, <5>2 DEF Sound, Has
          <6>2. Sound(doc, "msg") => doc.msg = document.msg
            BY <4>3, <5>2 DEF Sound, Has
          <6>3. ASSUME Sound(doc, "msg")
                PROVE  Damaged(doc.msg, was.msg, more, {})
            <7>1. Damaged(document.msg, was.msg, damaged, {})
              BY <4>1, <6>1, <6>3 DEF BodyDamaged
            <7>2. Damaged(document.msg, was.msg, more, {})
              BY <2>4, <7>1 DEF Damaged
            <7> QED BY <6>2, <6>3, <7>2
          <6>4. "msg" \in DOMAIN was /\ "msg" \notin more => Sound(doc, "msg")
            BY <2>4, <4>1, <6>1 DEF BodyDamaged
          <6> QED BY <6>3, <6>4 DEF BodyDamaged
        <5> QED BY <5>1, <5>2
      <4> QED BY <2>1, <2>2, <3>1, <4>2, <4>3, <4>4 DEF DocumentInv, Object, doc, more, was
    <3>2. CASE source.reader = "record"
      <4>1. Damaged(document, was, damaged, {})
        BY <2>1, <3>2 DEF DocumentInv
      <4> HIDE DEF was, doc, more
      <4>2. Damaged(doc, was, more, {})
        BY <2>4, <4>1, DamagedMore
      <4>3. doc \notin {WrongType, Unparsable}
        BY <2>4, <4>1, SpoiltIs DEF Damaged
      <4> QED BY <2>1, <2>2, <3>2, <4>2, <4>3 DEF DocumentInv, Object, doc, more, was
    <3>3. CASE source.reader \in {"metadata", "market"}
      <4>1. /\ Damaged(document, was, damaged, {"price_ranges"})
            /\ GridDamaged(document, was, damaged)
        BY <2>1, <3>3 DEF DocumentInv
      <4> HIDE DEF was, doc, more
      <4>2. Damaged(doc, was, more, {"price_ranges"})
        BY <2>4, <4>1, DamagedMore
      <4>3. GridDamaged(doc, was, more)
        BY <2>4, <4>1, GridStays
      <4>4. doc \notin {WrongType, Unparsable}
        BY <2>4, <4>1, SpoiltIs DEF Damaged
      <4> QED BY <2>1, <2>2, <3>3, <4>2, <4>3, <4>4 DEF DocumentInv, Object, doc, more, was
    <3> QED BY <2>1, <3>1, <3>2, <3>3 DEF DocumentInv
  <2>5. ASSUME source.reader = "message", Sound(document, "msg"),
               NEW field \in DOMAIN document.msg \ damaged,
               NEW body \in Spoilt(document.msg, field),
               doc = [document EXCEPT !.msg = body],
               more = damaged \cup {field},
               doc \notin {WrongType, Unparsable}
        PROVE  DocumentInv'
    <3>1. /\ Damaged(document, was, damaged, {"msg"})
          /\ BodyDamaged(document, was, damaged)
          /\ "msg" \in DOMAIN document
      BY <2>1, <2>5 DEF DocumentInv, Sound, Has
    <3> HIDE DEF was, doc, more
    <3>2. Damaged(doc, was, more, {"msg"}) /\ doc["msg"] = body /\ "msg" \in DOMAIN doc
      BY <2>5, <3>1, DamagedMoreAside
    <3>3. Damaged(document.msg, was.msg, damaged, {})
      BY <2>5, <3>1 DEF BodyDamaged
    <3>4. Damaged(body, was.msg, more, {})
      <4> DEFINE object == document.msg
                 before == was.msg
      <4>1. Damaged(object, before, damaged, {}) /\ field \in DOMAIN object
            /\ body \in Spoilt(object, field)
        BY <2>5, <3>3
      <4> HIDE DEF object, before
      <4>2. Damaged(body, before, damaged \cup {field}, {})
        BY <4>1, DamagedMore
      <4> QED BY <2>5, <4>2 DEF before
    <3>5. body \notin {WrongType, Unparsable}
      BY <2>5 DEF Spoilt
    <3>6. BodyDamaged(doc, was, more)
      BY <3>2, <3>4, <3>5 DEF BodyDamaged, Sound, Has
    <3> QED BY <2>1, <2>2, <2>5, <3>2, <3>6 DEF DocumentInv, Object, doc, more, was
  <2>6. ASSUME source.reader \in {"metadata", "market"}, Sound(document, "price_ranges"),
               NEW i \in DOMAIN document.price_ranges,
               document.price_ranges[i] # WrongType,
               NEW band \in SpoiltBand(document.price_ranges[i]),
               doc = [document EXCEPT !.price_ranges = [@ EXCEPT ![i] = band]],
               doc \notin {WrongType, Unparsable},
               more = damaged \cup {"price_ranges"}
        PROVE  DocumentInv'
    <3>1. /\ Damaged(document, was, damaged, {"price_ranges"})
          /\ GridDamaged(document, was, damaged)
      BY <2>1, <2>6 DEF DocumentInv
    <3> HIDE DEF was, doc, more
    <3>2. /\ Damaged(doc, was, more, {"price_ranges"})
          /\ GridDamaged(doc, was, more)
      BY <2>6, <3>1, GridLosesMore
    <3> QED BY <2>1, <2>2, <2>6, <3>2 DEF DocumentInv, Object, doc, more, was
  <2> QED BY <1>2, <2>3, <2>4, <2>5, <2>6 DEF Spoil
<1> QED BY <1>1, <1>2

Kinds ==
  {"none", "MissingField", "WrongFieldType", "MalformedLevel", "InvalidSide", "InvalidPrice",
   "InvalidQuantity", "InvalidPriceRange", "InvalidTimestamp", "MalformedRecord",
   "UnsupportedVersion", "MalformedMetadata"}

\* Problems of exactly these fields, which are none just when there is none.
Tells(problems, names) ==
  /\ problems \in Seq([kind : Kinds, field : names])
  /\ problems = <<>> <=> names = {}

Missed(object, field) == {f \in {field} : ~Sound(object, f)}

Wrong(object, field) == {f \in {field} : Has(object, f) /\ ~Sound(object, f)}

LEMMA JoinedProblems ==
  ASSUME NEW names, NEW one, Tells(one, names), NEW more, NEW other, Tells(other, more)
  PROVE  Tells(one \o other, names \cup more)
<1> DEFINE R(set) == [kind : Kinds, field : set]
<1>1. one \in Seq(R(names)) /\ other \in Seq(R(more))
  BY DEF Tells
<1>2. R(names) \subseteq R(names \cup more) /\ R(more) \subseteq R(names \cup more)
  OBVIOUS
<1> DEFINE S == R(names \cup more)
<1>3. one \in Seq(S) /\ other \in Seq(S)
  <2> HIDE DEF R
  <2> QED BY <1>1, <1>2, SeqMonotonic
<1> HIDE DEF S
<1>4. one \o other \in Seq(S) /\ (one \o other = <<>> <=> one = <<>> /\ other = <<>>)
  BY <1>3
<1> QED BY <1>4 DEF Tells, S

LEMMA OneProblem ==
  ASSUME NEW field, NEW kind \in Kinds
  PROVE  Tells(<<[kind |-> kind, field |-> field]>>, {field}) /\ Tells(<<>>, {})
BY DEF Tells

LEMMA RequiredIs ==
  ASSUME NEW object, NEW field, NEW kind \in Kinds
  PROVE  Tells(Required(object, field, kind), Missed(object, field))
<1>1. Tells(<<>>, {}) /\ \A k \in Kinds : Tells(<<[kind |-> k, field |-> field]>>, {field})
  BY OneProblem
<1>2. CASE ~Has(object, field)
  <2>1. Required(object, field, kind) = <<[kind |-> "MissingField", field |-> field]>>
    BY <1>2 DEF Required
  <2>2. Missed(object, field) = {field} /\ "MissingField" \in Kinds
    BY <1>2 DEF Sound, Missed, Kinds
  <2> QED BY <1>1, <2>1, <2>2, ZenonT(60)
<1>3. CASE Has(object, field) /\ object[field] = WrongType
  <2>1. Required(object, field, kind) = <<[kind |-> "WrongFieldType", field |-> field]>>
    BY <1>3 DEF Required
  <2>2. Missed(object, field) = {field} /\ "WrongFieldType" \in Kinds
    BY <1>3 DEF Sound, Missed, Kinds
  <2> QED BY <1>1, <2>1, <2>2, ZenonT(60)
<1>4. CASE Has(object, field) /\ object[field] # WrongType /\ object[field] = Unparsable
  <2>1. Required(object, field, kind) = <<[kind |-> kind, field |-> field]>>
    BY <1>4 DEF Required
  <2>2. Missed(object, field) = {field}
    BY <1>4 DEF Sound, Missed
  <2> QED BY <1>1, <2>1, <2>2, ZenonT(60)
<1>5. CASE Has(object, field) /\ object[field] \notin {WrongType, Unparsable}
  <2>1. Required(object, field, kind) = <<>>
    BY <1>5 DEF Required
  <2>2. Missed(object, field) = {}
    BY <1>5 DEF Sound, Missed
  <2> QED BY <1>1, <2>1, <2>2
<1> QED BY <1>2, <1>3, <1>4, <1>5

LEMMA PermittedIs ==
  ASSUME NEW object, NEW field, NEW kind \in Kinds
  PROVE  Tells(Permitted(object, field, kind), Wrong(object, field))
<1>1. CASE ~Has(object, field)
  <2>1. Permitted(object, field, kind) = <<>> /\ Wrong(object, field) = {}
    BY <1>1 DEF Permitted, Wrong
  <2> QED BY <2>1, OneProblem
<1>2. CASE Has(object, field)
  <2>1. /\ Permitted(object, field, kind) = Required(object, field, kind)
        /\ Wrong(object, field) = Missed(object, field)
    BY <1>2 DEF Permitted, Wrong, Missed
  <2> QED BY <2>1, RequiredIs
<1> QED BY <1>1, <1>2

\* What is read, unless a problem is named.
LEMMA UnlessIs ==
  ASSUME NEW names, NEW problems, Tells(problems, names), NEW read, ~Fails(read)
  PROVE  /\ Fails(Unless(problems, read)) <=> names # {}
         /\ names = {} => Unless(problems, read) = read
         /\ Fails(Unless(problems, read)) => Unless(problems, read).field \in names
<1>0. problems = <<>> <=> names = {}
  BY DEF Tells
<1>1. CASE problems = <<>>
  BY <1>0, <1>1 DEF Unless
<1>2. CASE problems # <<>>
  <2>1. Head(problems) \in [kind : Kinds, field : names]
    <3> DEFINE S == [kind : Kinds, field : names]
    <3>1. problems \in Seq(S)
      BY DEF Tells
    <3> HIDE DEF S
    <3>2. Head(problems) \in S
      BY <1>2, <3>1
    <3> QED BY <3>2 DEF S
  <2>2. Unless(problems, read) = Failure(Head(problems))
    BY <1>2 DEF Unless
  <2>3. /\ Failure(Head(problems)).type = "failure"
        /\ Failure(Head(problems)).field = Head(problems).field
    BY DEF Failure
  <2> QED BY <1>0, <1>2, <2>1, <2>2, <2>3 DEF Fails
<1> QED BY <1>1, <1>2

\* A sound field is lost only by its name.
LEMMA SoundStays ==
  ASSUME NEW object, NEW was, NEW lost, NEW aside, Damaged(object, was, lost, aside),
         NEW field, field \notin aside
  PROVE  /\ Missed(object, field) \subseteq lost \cup Missed(was, field)
         /\ Wrong(object, field) \subseteq lost \cup Wrong(was, field)
         /\ Sound(object, field) => Sound(was, field) /\ object[field] = was[field]
         /\ ~Has(was, field) => ~Has(object, field)
         /\ field \notin lost => /\ Has(object, field) <=> Has(was, field)
                                 /\ Sound(object, field) <=> Sound(was, field)
                                 /\ Has(was, field) => object[field] = was[field]
BY DEF Damaged, Sound, Has, Missed, Wrong

LEMMA KindsAre ==
  /\ \A kind \in {"none", "InvalidSide", "InvalidPrice", "InvalidQuantity", "InvalidPriceRange",
                  "InvalidTimestamp"} : kind \in Kinds
  /\ \A kind \in {"MissingField", "WrongFieldType", "MalformedLevel", "MalformedRecord",
                  "UnsupportedVersion", "MalformedMetadata"} : kind \in Kinds
BY DEF Kinds

HeaderNames(root) == Missed(root, "sid") \cup Missed(root, "seq")

LEMMA HeaderIs == \A root : Tells(Header(root), HeaderNames(root))
<1> TAKE root
<1>1. Tells(Required(root, "sid", "none"), Missed(root, "sid"))
  BY RequiredIs, KindsAre
<1>2. Tells(Required(root, "seq", "none"), Missed(root, "seq"))
  BY RequiredIs, KindsAre
<1> QED BY <1>1, <1>2, JoinedProblems DEF Header, HeaderNames

LEMMA SideIs ==
  ASSUME NEW body, NEW side
  PROVE  Tells(SideProblem(body, side), Wrong(body, Listed[side]))
<1>1. Tells(Permitted(body, Listed[side], "MalformedLevel"), Wrong(body, Listed[side]))
  BY PermittedIs, KindsAre
<1>2. CASE Permitted(body, Listed[side], "MalformedLevel") = <<>>
  <2>1. Wrong(body, Listed[side]) = {} /\ SideProblem(body, side) = <<>>
    BY <1>1, <1>2 DEF Tells, SideProblem
  <2> QED BY <1>1, <1>2, <2>1
<1>3. CASE Permitted(body, Listed[side], "MalformedLevel") # <<>>
  <2>1. Wrong(body, Listed[side]) # {}
    BY <1>1, <1>3 DEF Tells
  <2>2. Wrong(body, Listed[side]) = {Listed[side]}
    BY <2>1 DEF Wrong
  <2>3. SideProblem(body, side) = <<[kind |-> "MalformedLevel", field |-> Listed[side]]>>
    BY <1>3 DEF SideProblem
  <2>4. Tells(<<[kind |-> "MalformedLevel", field |-> Listed[side]]>>, {Listed[side]})
    BY OneProblem, KindsAre
  <2> QED BY <2>2, <2>3, <2>4
<1> QED BY <1>2, <1>3

SnapshotNames(root) ==
  HeaderNames(root) \cup Missed(root.msg, "market_ticker")
    \cup Wrong(root.msg, Listed["Bid"]) \cup Wrong(root.msg, Listed["Ask"])

LEMMA SnapshotIs == \A root : Tells(SnapshotProblems(root), SnapshotNames(root))
<1> TAKE root
<1>1. Tells(Header(root), HeaderNames(root))
  BY HeaderIs
<1>2. Tells(Required(root.msg, "market_ticker", "none"), Missed(root.msg, "market_ticker"))
  BY RequiredIs, KindsAre
<1>3. Tells(SideProblem(root.msg, "Bid"), Wrong(root.msg, Listed["Bid"]))
  BY SideIs
<1>4. Tells(SideProblem(root.msg, "Ask"), Wrong(root.msg, Listed["Ask"]))
  BY SideIs
<1> DEFINE p2 == Header(root) \o Required(root.msg, "market_ticker", "none")
           n2 == HeaderNames(root) \cup Missed(root.msg, "market_ticker")
           p3 == p2 \o SideProblem(root.msg, "Bid")
           n3 == n2 \cup Wrong(root.msg, Listed["Bid"])
<1>5. Tells(p2, n2)
  BY <1>1, <1>2, JoinedProblems
<1>6. Tells(p3, n3)
  <2> HIDE DEF p2, n2
  <2> QED BY <1>3, <1>5, JoinedProblems
<1>7. Tells(p3 \o SideProblem(root.msg, "Ask"), n3 \cup Wrong(root.msg, Listed["Ask"]))
  <2> HIDE DEF p3, n3
  <2> QED BY <1>4, <1>6, JoinedProblems
<1> QED BY <1>7 DEF SnapshotProblems, SnapshotNames

DeltaNames(root) ==
  HeaderNames(root) \cup Missed(root.msg, "market_ticker") \cup Missed(root.msg, "side")
    \cup Missed(root.msg, "price_dollars") \cup Missed(root.msg, "delta_fp")

LEMMA DeltaIs == \A root : Tells(DeltaProblems(root), DeltaNames(root))
<1> TAKE root
<1>1. Tells(Header(root), HeaderNames(root))
  BY HeaderIs
<1>2. Tells(Required(root.msg, "market_ticker", "none"), Missed(root.msg, "market_ticker"))
  BY RequiredIs, KindsAre
<1>3. Tells(Required(root.msg, "side", "InvalidSide"), Missed(root.msg, "side"))
  BY RequiredIs, KindsAre
<1>4. Tells(Required(root.msg, "price_dollars", "InvalidPrice"), Missed(root.msg, "price_dollars"))
  BY RequiredIs, KindsAre
<1>5. Tells(Required(root.msg, "delta_fp", "InvalidQuantity"), Missed(root.msg, "delta_fp"))
  BY RequiredIs, KindsAre
<1> DEFINE p2 == Header(root) \o Required(root.msg, "market_ticker", "none")
           n2 == HeaderNames(root) \cup Missed(root.msg, "market_ticker")
           p3 == p2 \o Required(root.msg, "side", "InvalidSide")
           n3 == n2 \cup Missed(root.msg, "side")
           p4 == p3 \o Required(root.msg, "price_dollars", "InvalidPrice")
           n4 == n3 \cup Missed(root.msg, "price_dollars")
<1>6. Tells(p2, n2)
  BY <1>1, <1>2, JoinedProblems
<1>7. Tells(p3, n3)
  <2> HIDE DEF p2, n2
  <2> QED BY <1>3, <1>6, JoinedProblems
<1>8. Tells(p4, n4)
  <2> HIDE DEF p3, n3
  <2> QED BY <1>4, <1>7, JoinedProblems
<1>9. Tells(p4 \o Required(root.msg, "delta_fp", "InvalidQuantity"),
            n4 \cup Missed(root.msg, "delta_fp"))
  <2> HIDE DEF p4, n4
  <2> QED BY <1>5, <1>8, JoinedProblems
<1> QED BY <1>9 DEF DeltaProblems, DeltaNames

Undirected(body) == {f \in {"taker_side"} : Taker(body) = None}

TradeNames(root) ==
  Missed(root, "sid") \cup Missed(root.msg, "market_ticker") \cup Missed(root.msg, "trade_id")
    \cup Missed(root.msg, "yes_price_dollars") \cup Missed(root.msg, "count_fp")
    \cup Wrong(root.msg, "is_block_trade") \cup Undirected(root.msg)

LEMMA TradeIs == \A root : Tells(TradeProblems(root), TradeNames(root))
<1> TAKE root
<1>1. Tells(Required(root, "sid", "none"), Missed(root, "sid"))
  BY RequiredIs, KindsAre
<1>2. Tells(Required(root.msg, "market_ticker", "none"), Missed(root.msg, "market_ticker"))
  BY RequiredIs, KindsAre
<1>3. Tells(Required(root.msg, "trade_id", "none"), Missed(root.msg, "trade_id"))
  BY RequiredIs, KindsAre
<1>4. Tells(Required(root.msg, "yes_price_dollars", "InvalidPrice"),
            Missed(root.msg, "yes_price_dollars"))
  BY RequiredIs, KindsAre
<1>5. Tells(Required(root.msg, "count_fp", "InvalidQuantity"), Missed(root.msg, "count_fp"))
  BY RequiredIs, KindsAre
<1>6. Tells(Permitted(root.msg, "is_block_trade", "none"), Wrong(root.msg, "is_block_trade"))
  BY PermittedIs, KindsAre
<1> DEFINE direction ==
             IF Taker(root.msg) # None THEN <<>>
             ELSE <<[kind |-> "InvalidSide", field |-> "taker_side"]>>
<1>7. Tells(direction, Undirected(root.msg))
  <2>1. Tells(<<>>, {}) /\ Tells(<<[kind |-> "InvalidSide", field |-> "taker_side"]>>, {"taker_side"})
    BY OneProblem, KindsAre
  <2>2. CASE Taker(root.msg) = None
    <3>1. Undirected(root.msg) = {"taker_side"}
      BY <2>2 DEF Undirected
    <3> QED BY <2>1, <2>2, <3>1
  <2>3. CASE Taker(root.msg) # None
    <3>1. Undirected(root.msg) = {}
      BY <2>3 DEF Undirected
    <3> QED BY <2>1, <2>3, <3>1
  <2> QED BY <2>2, <2>3
<1> DEFINE p2 == Required(root, "sid", "none") \o Required(root.msg, "market_ticker", "none")
           n2 == Missed(root, "sid") \cup Missed(root.msg, "market_ticker")
           p3 == p2 \o Required(root.msg, "trade_id", "none")
           n3 == n2 \cup Missed(root.msg, "trade_id")
           p4 == p3 \o Required(root.msg, "yes_price_dollars", "InvalidPrice")
           n4 == n3 \cup Missed(root.msg, "yes_price_dollars")
           p5 == p4 \o Required(root.msg, "count_fp", "InvalidQuantity")
           n5 == n4 \cup Missed(root.msg, "count_fp")
           p6 == p5 \o Permitted(root.msg, "is_block_trade", "none")
           n6 == n5 \cup Wrong(root.msg, "is_block_trade")
<1>8. Tells(p2, n2)
  BY <1>1, <1>2, JoinedProblems
<1>9. Tells(p3, n3)
  <2> HIDE DEF p2, n2
  <2> QED BY <1>3, <1>8, JoinedProblems
<1>10. Tells(p4, n4)
  <2> HIDE DEF p3, n3
  <2> QED BY <1>4, <1>9, JoinedProblems
<1>11. Tells(p5, n5)
  <2> HIDE DEF p4, n4
  <2> QED BY <1>5, <1>10, JoinedProblems
<1>12. Tells(p6, n6)
  <2> HIDE DEF p5, n5
  <2> QED BY <1>6, <1>11, JoinedProblems
<1>13. Tells(p6 \o direction, n6 \cup Undirected(root.msg))
  <2> HIDE DEF p6, n6, direction
  <2> QED BY <1>7, <1>12, JoinedProblems
<1> QED BY <1>13 DEF TradeProblems, TradeNames

SubscribedNames(root) ==
  Missed(root, "id") \cup Missed(root.msg, "channel") \cup Missed(root.msg, "sid")

LEMMA SubscribedIs ==
  \A root : Tells(Required(root, "id", "none") \o Required(root.msg, "channel", "none")
                    \o Required(root.msg, "sid", "none"),
                  SubscribedNames(root))
<1> TAKE root
<1>1. Tells(Required(root, "id", "none"), Missed(root, "id"))
  BY RequiredIs, KindsAre
<1>2. Tells(Required(root.msg, "channel", "none"), Missed(root.msg, "channel"))
  BY RequiredIs, KindsAre
<1>3. Tells(Required(root.msg, "sid", "none"), Missed(root.msg, "sid"))
  BY RequiredIs, KindsAre
<1> DEFINE p2 == Required(root, "id", "none") \o Required(root.msg, "channel", "none")
           n2 == Missed(root, "id") \cup Missed(root.msg, "channel")
<1>4. Tells(p2, n2)
  BY <1>1, <1>2, JoinedProblems
<1>5. Tells(p2 \o Required(root.msg, "sid", "none"), n2 \cup Missed(root.msg, "sid"))
  <2> HIDE DEF p2, n2
  <2> QED BY <1>3, <1>4, JoinedProblems
<1> QED BY <1>5 DEF SubscribedNames

ErrorNames(root) == Missed(root.msg, "code") \cup Missed(root.msg, "msg")

LEMMA ErrorIs ==
  \A root : Tells(Required(root.msg, "code", "none") \o Required(root.msg, "msg", "none"),
                  ErrorNames(root))
<1> TAKE root
<1>1. Tells(Required(root.msg, "code", "none"), Missed(root.msg, "code"))
  BY RequiredIs, KindsAre
<1>2. Tells(Required(root.msg, "msg", "none"), Missed(root.msg, "msg"))
  BY RequiredIs, KindsAre
<1> QED BY <1>1, <1>2, JoinedProblems DEF ErrorNames

LEMMA NeededIs ==
  ASSUME NEW object, NEW field, NEW kind \in Kinds
  PROVE  Tells(Needed(object, field, kind), Missed(object, field))
<1>1. Tells(<<>>, {}) /\ Tells(<<[kind |-> kind, field |-> field]>>, {field})
  BY OneProblem
<1>2. CASE Sound(object, field)
  <2>1. Needed(object, field, kind) = <<>> /\ Missed(object, field) = {}
    BY <1>2 DEF Needed, Missed
  <2> QED BY <1>1, <2>1
<1>3. CASE ~Sound(object, field)
  <2>1. Needed(object, field, kind) = <<[kind |-> kind, field |-> field]>>
        /\ Missed(object, field) = {field}
    BY <1>3 DEF Needed, Missed
  <2> QED BY <1>1, <2>1
<1> QED BY <1>2, <1>3

\* What is reported of a version, and of a kind: the value, where there is one.
VersionNames(line) ==
  IF ~Has(line, "v") \/ line.v = WrongType THEN {"v"}
  ELSE IF line.v # kJournalVersion THEN {line.v} ELSE {}

KindNames(line) ==
  IF Has(line, "kind") /\ line.kind = Unparsable THEN {line.kind} ELSE Missed(line, "kind")

RecordNames(line) ==
  VersionNames(line) \cup KindNames(line) \cup Missed(line, "t_local_us")
    \cup Missed(line, "conn") \cup Missed(line, "type") \cup Missed(line, "payload")

LEMMA VersionIs == \A line : Tells(VersionProblem(line), VersionNames(line))
<1> TAKE line
<1>1. /\ Tells(<<>>, {})
      /\ Tells(<<[kind |-> "MissingField", field |-> "v"]>>, {"v"})
      /\ Tells(<<[kind |-> "UnsupportedVersion", field |-> line.v]>>, {line.v})
  BY OneProblem, KindsAre
<1>2. CASE ~Has(line, "v") \/ line.v = WrongType
  BY <1>1, <1>2 DEF VersionProblem, VersionNames
<1>3. CASE ~(~Has(line, "v") \/ line.v = WrongType) /\ line.v # kJournalVersion
  BY <1>1, <1>3 DEF VersionProblem, VersionNames
<1>4. CASE ~(~Has(line, "v") \/ line.v = WrongType) /\ line.v = kJournalVersion
  BY <1>1, <1>4 DEF VersionProblem, VersionNames
<1> QED BY <1>2, <1>3, <1>4

LEMMA KindIs == \A line : Tells(KindProblem(line), KindNames(line))
<1> TAKE line
<1>1. CASE Has(line, "kind") /\ line.kind = Unparsable
  <2>1. Tells(<<[kind |-> "MalformedRecord", field |-> line.kind]>>, {line.kind})
    BY OneProblem, KindsAre
  <2> QED BY <1>1, <2>1 DEF KindProblem, KindNames
<1>2. CASE ~(Has(line, "kind") /\ line.kind = Unparsable)
  <2>1. Tells(Needed(line, "kind", "MissingField"), Missed(line, "kind"))
    BY NeededIs, KindsAre
  <2> QED BY <1>2, <2>1 DEF KindProblem, KindNames
<1> QED BY <1>1, <1>2

LEMMA RecordIs == \A line : Tells(RecordProblems(line), RecordNames(line))
<1> TAKE line
<1>1. Tells(VersionProblem(line), VersionNames(line)) /\ Tells(KindProblem(line), KindNames(line))
  BY VersionIs, KindIs
<1>2. "MissingField" \in Kinds
  BY KindsAre
<1>3. Tells(Needed(line, "t_local_us", "MissingField"), Missed(line, "t_local_us"))
  BY <1>2, NeededIs
<1>4. Tells(Needed(line, "conn", "MissingField"), Missed(line, "conn"))
  BY <1>2, NeededIs
<1>5. Tells(Needed(line, "type", "MissingField"), Missed(line, "type"))
  BY <1>2, NeededIs
<1>6. Tells(Needed(line, "payload", "MissingField"), Missed(line, "payload"))
  BY <1>2, NeededIs
<1> DEFINE p2 == VersionProblem(line) \o KindProblem(line)
           n2 == VersionNames(line) \cup KindNames(line)
           p3 == p2 \o Needed(line, "t_local_us", "MissingField")
           n3 == n2 \cup Missed(line, "t_local_us")
           p4 == p3 \o Needed(line, "conn", "MissingField")
           n4 == n3 \cup Missed(line, "conn")
           p5 == p4 \o Needed(line, "type", "MissingField")
           n5 == n4 \cup Missed(line, "type")
<1>7. Tells(p2, n2)
  BY <1>1, JoinedProblems
<1>8. Tells(p3, n3)
  <2> HIDE DEF p2, n2
  <2> QED BY <1>3, <1>7, JoinedProblems
<1>9. Tells(p4, n4)
  <2> HIDE DEF p3, n3
  <2> QED BY <1>4, <1>8, JoinedProblems
<1>10. Tells(p5, n5)
  <2> HIDE DEF p4, n4
  <2> QED BY <1>5, <1>9, JoinedProblems
<1>11. Tells(p5 \o Needed(line, "payload", "MissingField"), n5 \cup Missed(line, "payload"))
  <2> HIDE DEF p5, n5
  <2> QED BY <1>6, <1>10, JoinedProblems
<1> QED BY <1>11 DEF RecordProblems, RecordNames

Unpriced(object) ==
  {f \in {"price_convention"} : ~Has(object, f) \/ object[f] = WrongType}

Unbanded(object) ==
  {f \in {"price_ranges"} : RefusedBands(ListedBands(object)) # {}}

MetadataNames(object) ==
  Missed(object, "market_ticker") \cup Unpriced(object) \cup Unbanded(object)

LEMMA MetadataIs == \A object : Tells(MetadataProblems(object), MetadataNames(object))
<1> TAKE object
<1> DEFINE convention ==
             IF Has(object, "price_convention") /\ object.price_convention # WrongType
             THEN <<>>
             ELSE <<[kind |-> "MalformedMetadata", field |-> "price_convention"]>>
           bands ==
             IF RefusedBands(ListedBands(object)) = {} THEN <<>>
             ELSE <<[kind |-> "MalformedMetadata", field |-> "price_ranges"]>>
<1>1. /\ Tells(<<>>, {})
      /\ \A f : Tells(<<[kind |-> "MalformedMetadata", field |-> f]>>, {f})
  BY OneProblem, KindsAre
<1>2. Tells(Needed(object, "market_ticker", "MalformedMetadata"), Missed(object, "market_ticker"))
  BY NeededIs, KindsAre
<1>3. Tells(convention, Unpriced(object))
  <2>1. CASE Has(object, "price_convention") /\ object.price_convention # WrongType
    <3>1. Unpriced(object) = {}
      BY <2>1 DEF Unpriced
    <3> QED BY <1>1, <2>1, <3>1
  <2>2. CASE ~(Has(object, "price_convention") /\ object.price_convention # WrongType)
    <3>1. Unpriced(object) = {"price_convention"}
      BY <2>2 DEF Unpriced
    <3> QED BY <1>1, <2>2, <3>1
  <2> QED BY <2>1, <2>2
<1>4. Tells(bands, Unbanded(object))
  <2>1. CASE RefusedBands(ListedBands(object)) # {}
    <3>1. Unbanded(object) = {"price_ranges"}
      BY <2>1 DEF Unbanded
    <3> QED BY <1>1, <2>1, <3>1
  <2>2. CASE RefusedBands(ListedBands(object)) = {}
    <3>1. Unbanded(object) = {}
      BY <2>2 DEF Unbanded
    <3> QED BY <1>1, <2>2, <3>1
  <2> QED BY <2>1, <2>2
<1> DEFINE p2 == Needed(object, "market_ticker", "MalformedMetadata") \o convention
           n2 == Missed(object, "market_ticker") \cup Unpriced(object)
<1>5. Tells(p2, n2)
  <2> HIDE DEF convention
  <2> QED BY <1>2, <1>3, JoinedProblems
<1>6. Tells(p2 \o bands, n2 \cup Unbanded(object))
  <2> HIDE DEF p2, n2, bands
  <2> QED BY <1>4, <1>5, JoinedProblems
<1> QED BY <1>6 DEF MetadataProblems, MetadataNames

AllNames(object, fields) == UNION {Missed(object, fields[i][1]) : i \in 1..Len(fields)}

LEMMA AllRequiredIs ==
  ASSUME NEW object, NEW fields, Len(fields) \in Nat,
         \A i \in 1..Len(fields) : fields[i][2] \in Kinds
  PROVE  Tells(AllRequired(object, fields), AllNames(object, fields))
<1> DEFINE n == Len(fields)
           of(i) == Required(object, fields[i][1], fields[i][2])
           names(i) == Missed(object, fields[i][1])
           All == UNION {names(i) : i \in 1..n}
           T == Seq([kind : Kinds, field : All])
           step == [i \in Nat |-> [x \in T |-> IF i + 1 \in 1..n THEN x \o of(i + 1) ELSE x]]
           Def(f) == f = [i \in 0..n |-> IF i = 0 THEN <<>> ELSE f[i - 1] \o of(i)]
           problems == CHOOSE h : Def(h)
<1>1. AllRequired(object, fields) = problems[n]
  BY DEF AllRequired
<1>2. \A i \in 1..n : Tells(of(i), names(i))
  BY RequiredIs
<1>3. n \in Nat
  OBVIOUS
<1> HIDE DEF problems, of, names, n
<1>4. \A i \in 1..n : of(i) \in T
  <2> TAKE i \in 1..n
  <2> DEFINE R(set) == [kind : Kinds, field : set]
  <2>1. of(i) \in Seq(R(names(i)))
    BY <1>2 DEF Tells
  <2>2. R(names(i)) \subseteq R(All)
    OBVIOUS
  <2> HIDE DEF R, All
  <2>3. of(i) \in Seq(R(All))
    BY <2>1, <2>2, SeqMonotonic
  <2> QED BY <2>3 DEF R
<1>5. <<>> \in T /\ \A x, y \in T : x \o y \in T
  <2> DEFINE R == [kind : Kinds, field : All]
  <2> HIDE DEF R
  <2>1. <<>> \in Seq(R) /\ \A x, y \in Seq(R) : x \o y \in Seq(R)
    OBVIOUS
  <2> QED BY <2>1 DEF R
<1> HIDE DEF T, All
<1>6. step \in [Nat -> [T -> T]]
  <2>1. \A i \in Nat : \A x \in T : (IF i + 1 \in 1..n THEN x \o of(i + 1) ELSE x) \in T
    BY <1>3, <1>4, <1>5
  <2> QED BY <2>1
<1>7. PICK f \in [Nat -> T] : f[0] = <<>> /\ \A i \in Nat : f[i + 1] = step[i][f[i]]
  <2> DEFINE base == <<>>
  <2>1. base \in T /\ step \in [Nat -> [T -> T]]
    BY <1>5, <1>6
  <2> HIDE DEF base, step
  <2>2. \E f \in [Nat -> T] : Recurs(f, base, step)
    BY <2>1, RecursionExists
  <2> QED BY <2>2 DEF base, Recurs
<1> DEFINE g == [i \in 0..n |-> f[i]]
<1>8. \A i \in 0..n : g[i] = IF i = 0 THEN <<>> ELSE g[i - 1] \o of(i)
  <2> TAKE i \in 0..n
  <2>1. CASE i = 0
    BY <1>7, <2>1
  <2>2. CASE i # 0
    <3>1. i - 1 \in Nat /\ i - 1 \in 0..n /\ (i - 1) + 1 = i /\ i \in 1..n
      BY <1>3, <2>2
    <3>2. f[(i - 1) + 1] = step[i - 1][f[i - 1]]
      BY <1>7, <3>1
    <3>3. f[i - 1] \in T
      BY <1>7, <3>1
    <3>4. f[i] = f[i - 1] \o of(i)
      BY <3>1, <3>2, <3>3
    <3> QED BY <2>2, <3>1, <3>4
  <2> QED BY <2>1, <2>2
<1>9. Def(g)
  BY <1>8
<1>10. Def(problems)
  <2> HIDE DEF Def, g
  <2> QED BY <1>9 DEF problems
<1>11. \A i \in 0..n : problems[i] = IF i = 0 THEN <<>> ELSE problems[i - 1] \o of(i)
  BY <1>10
<1> HIDE DEF Def
<1> DEFINE upto(k) == UNION {names(i) : i \in 1..k}
           S == {k \in 0..n : Tells(problems[k], upto(k))}
<1>12. 0 \in S
  <2>1. 0 \in 0..n
    BY <1>3
  <2>2. problems[0] = <<>>
    BY <1>11, <2>1
  <2>3. upto(0) = {}
    OBVIOUS
  <2>4. Tells(<<>>, {})
    BY DEF Tells
  <2> QED BY <2>1, <2>2, <2>3, <2>4
<1>13. ASSUME NEW k \in 0 .. n - 1, k \in S
       PROVE  k + 1 \in S
  <2>1. k + 1 \in 0..n /\ k + 1 \in 1..n /\ k + 1 # 0 /\ (k + 1) - 1 = k
    BY <1>3
  <2>2. problems[k + 1] = problems[k] \o of(k + 1)
    BY <1>11, <2>1
  <2>3. upto(k + 1) = upto(k) \cup names(k + 1)
    <3>1. \A i \in Nat : i \in 1 .. k + 1 <=> i \in 1..k \/ i = k + 1
      BY <1>3
    <3>2. 1 .. k + 1 = 1..k \cup {k + 1}
      BY <3>1
    <3> QED BY <3>2
  <2>4. Tells(problems[k], upto(k)) /\ Tells(of(k + 1), names(k + 1))
    BY <1>2, <1>13, <2>1
  <2>5. Tells(problems[k] \o of(k + 1), upto(k) \cup names(k + 1))
    <3> HIDE DEF upto
    <3> QED BY <2>4, JoinedProblems
  <2>6. Tells(problems[k + 1], upto(k + 1))
    BY <2>2, <2>3, <2>5
  <2> HIDE DEF upto
  <2> QED BY <2>1, <2>6
<1>14. n \in S
  <2>1. 0..n \subseteq S
    <3> HIDE DEF S
    <3> QED BY <1>3, <1>12, <1>13, IntervalByInduction
  <2> HIDE DEF S
  <2> QED BY <1>3, <2>1
<1> QED BY <1>1, <1>14 DEF AllNames, n, names

\* The bands are looked at when they are there.
Gridless(object) ==
  Missed(object, "price_ranges") \cup
    {f \in {"price_ranges"} :
       ~ \A i \in DOMAIN object[f] :
           /\ object[f][i] # WrongType
           /\ \A b \in Bounds : Sound(object[f][i], b) /\ object[f][i][b] # NoInteger}

LEMMA GridIs == \A object : Tells(GridProblems(object), Gridless(object))
<1> TAKE object
<1> DEFINE problems == Required(object, "price_ranges", "InvalidPriceRange")
           bands == \A i \in DOMAIN object.price_ranges :
                      LET band == object.price_ranges[i]
                      IN  /\ band # WrongType
                          /\ \A b \in Bounds : Sound(band, b) /\ band[b] # NoInteger
<1>1. Tells(problems, Missed(object, "price_ranges"))
  BY RequiredIs, KindsAre
<1>2. Tells(<<[kind |-> "InvalidPriceRange", field |-> "price_ranges"]>>, {"price_ranges"})
  BY OneProblem, KindsAre
<1>3. GridProblems(object) = IF problems # <<>> THEN problems
                             ELSE IF bands THEN <<>>
                             ELSE <<[kind |-> "InvalidPriceRange", field |-> "price_ranges"]>>
  BY DEF GridProblems
<1>4. Gridless(object) = Missed(object, "price_ranges") \cup {f \in {"price_ranges"} : ~bands}
  BY DEF Gridless
<1> HIDE DEF problems, bands
<1>5. CASE problems # <<>>
  <2>1. Missed(object, "price_ranges") # {}
    BY <1>1, <1>5 DEF Tells
  <2>2. Missed(object, "price_ranges") = {"price_ranges"}
    BY <2>1 DEF Missed
  <2>3. Gridless(object) = Missed(object, "price_ranges")
    BY <1>4, <2>2
  <2> QED BY <1>1, <1>3, <1>5, <2>3
<1>6. CASE problems = <<>> /\ bands
  <2>1. Gridless(object) = Missed(object, "price_ranges")
    BY <1>4, <1>6
  <2> QED BY <1>1, <1>3, <1>6, <2>1
<1>7. CASE problems = <<>> /\ ~bands
  <2>1. Missed(object, "price_ranges") = {}
    BY <1>1, <1>7 DEF Tells
  <2>2. Gridless(object) = {"price_ranges"}
    BY <1>4, <1>7, <2>1
  <2> QED BY <1>2, <1>3, <1>7, <2>2
<1> QED BY <1>5, <1>6, <1>7

Unlisted(object) ==
  AllNames(object, MarketFields) \cup Gridless(object) \cup Missed(object, "open_time")
    \cup Missed(object, "close_time") \cup Wrong(object, "expected_expiration_time")
    \cup Wrong(object, "mve_collection_ticker") \cup AllNames(object, MarketNumbers)

LEMMA MarketListsAre ==
  /\ Len(MarketFields) \in Nat /\ \A i \in 1..Len(MarketFields) : MarketFields[i][2] \in Kinds
  /\ Len(MarketNumbers) \in Nat /\ \A i \in 1..Len(MarketNumbers) : MarketNumbers[i][2] \in Kinds
<1>1. /\ "none" \in Kinds
      /\ "InvalidPrice" \in Kinds
      /\ "InvalidQuantity" \in Kinds
  BY KindsAre
<1>2. Len(MarketFields) = 5 /\ \A i \in 1..5 : MarketFields[i][2] = "none"
  BY DEF MarketFields
<1>3. Len(MarketNumbers) = 9
  BY DEF MarketNumbers
<1>4. /\ MarketNumbers[1][2] = "InvalidPrice" /\ MarketNumbers[2][2] = "InvalidPrice"
      /\ MarketNumbers[3][2] = "InvalidQuantity" /\ MarketNumbers[4][2] = "InvalidQuantity"
      /\ MarketNumbers[5][2] = "InvalidPrice" /\ MarketNumbers[6][2] = "InvalidQuantity"
      /\ MarketNumbers[7][2] = "InvalidQuantity" /\ MarketNumbers[8][2] = "InvalidQuantity"
      /\ MarketNumbers[9][2] = "none"
  BY DEF MarketNumbers
<1>5. \A i \in 1..9 : i \in {1, 2, 3, 4, 5, 6, 7, 8, 9}
  OBVIOUS
<1>6. \A i \in 1..9 : MarketNumbers[i][2] \in Kinds
  BY <1>1, <1>4, <1>5
<1> QED BY <1>1, <1>2, <1>3, <1>6

LEMMA MarketIs == \A object : Tells(MarketProblems(object), Unlisted(object))
<1> TAKE object
<1>1. Tells(AllRequired(object, MarketFields), AllNames(object, MarketFields))
  BY AllRequiredIs, MarketListsAre
<1>2. Tells(GridProblems(object), Gridless(object))
  BY GridIs
<1>3. Tells(Required(object, "open_time", "InvalidTimestamp"), Missed(object, "open_time"))
  BY RequiredIs, KindsAre
<1>4. Tells(Required(object, "close_time", "InvalidTimestamp"), Missed(object, "close_time"))
  BY RequiredIs, KindsAre
<1>5. Tells(Permitted(object, "expected_expiration_time", "InvalidTimestamp"),
            Wrong(object, "expected_expiration_time"))
  BY PermittedIs, KindsAre
<1>6. Tells(Permitted(object, "mve_collection_ticker", "none"),
            Wrong(object, "mve_collection_ticker"))
  BY PermittedIs, KindsAre
<1>7. Tells(AllRequired(object, MarketNumbers), AllNames(object, MarketNumbers))
  BY AllRequiredIs, MarketListsAre
<1> DEFINE p2 == AllRequired(object, MarketFields) \o GridProblems(object)
           n2 == AllNames(object, MarketFields) \cup Gridless(object)
           p3 == p2 \o Required(object, "open_time", "InvalidTimestamp")
           n3 == n2 \cup Missed(object, "open_time")
           p4 == p3 \o Required(object, "close_time", "InvalidTimestamp")
           n4 == n3 \cup Missed(object, "close_time")
           p5 == p4 \o Permitted(object, "expected_expiration_time", "InvalidTimestamp")
           n5 == n4 \cup Wrong(object, "expected_expiration_time")
           p6 == p5 \o Permitted(object, "mve_collection_ticker", "none")
           n6 == n5 \cup Wrong(object, "mve_collection_ticker")
<1>8. Tells(p2, n2)
  BY <1>1, <1>2, JoinedProblems
<1>9. Tells(p3, n3)
  <2> HIDE DEF p2, n2
  <2> QED BY <1>3, <1>8, JoinedProblems
<1>10. Tells(p4, n4)
  <2> HIDE DEF p3, n3
  <2> QED BY <1>4, <1>9, JoinedProblems
<1>11. Tells(p5, n5)
  <2> HIDE DEF p4, n4
  <2> QED BY <1>5, <1>10, JoinedProblems
<1>12. Tells(p6, n6)
  <2> HIDE DEF p5, n5
  <2> QED BY <1>6, <1>11, JoinedProblems
<1>13. Tells(p6 \o AllRequired(object, MarketNumbers), n6 \cup AllNames(object, MarketNumbers))
  <2> HIDE DEF p6, n6
  <2> QED BY <1>7, <1>12, JoinedProblems
<1> QED BY <1>13 DEF MarketProblems, Unlisted

\* What is read of a message that no problem is named of.
SnapshotOf(root) ==
  [market_ticker |-> root.msg.market_ticker,
   subscription  |-> root.sid,
   sequence      |-> root.seq,
   levels        |-> [side \in Side |->
                        ParsedLevels(Otherwise(root.msg, Listed[side], NoLevels), side)],
   type          |-> "orderbook_snapshot"]

LEMMA SnapshotRead ==
  ASSUME NEW root
  PROVE  /\ Fails(read_snapshot(root)) <=> SnapshotNames(root) # {}
         /\ Fails(read_snapshot(root)) => read_snapshot(root).field \in SnapshotNames(root)
         /\ ~Fails(read_snapshot(root)) => read_snapshot(root) = SnapshotOf(root)
<1> DEFINE levels == [side \in Side |-> Otherwise(root.msg, Listed[side], NoLevels)]
           wire == [market_ticker |-> root.msg.market_ticker, subscription |-> root.sid,
                    sequence |-> root.seq, levels |-> levels]
           F == parse_snapshot(wire)
           G == [type |-> "orderbook_snapshot"]
<1>1. F = [market_ticker |-> root.msg.market_ticker, subscription |-> root.sid,
           sequence |-> root.seq, levels |-> [side \in Side |-> ParsedLevels(levels[side], side)]]
  BY DEF parse_snapshot
<1>2. \A side \in Side : levels[side] = Otherwise(root.msg, Listed[side], NoLevels)
  OBVIOUS
<1>3. F = [market_ticker |-> root.msg.market_ticker, subscription |-> root.sid,
           sequence |-> root.seq,
           levels |-> [side \in Side |->
                         ParsedLevels(Otherwise(root.msg, Listed[side], NoLevels), side)]]
  <2> HIDE DEF F, levels
  <2> QED BY <1>1, <1>2
<1>4. Beside(G, F) = SnapshotOf(root)
  <2> HIDE DEF F
  <2>1. Beside(G, F) = [x \in DOMAIN G \cup DOMAIN F |-> IF x \in DOMAIN G THEN G[x] ELSE F[x]]
    BY DEF Beside
  <2> QED BY <1>3, <2>1 DEF SnapshotOf
<1>5. ~Fails(Beside(G, F))
  BY <1>4 DEF Fails, SnapshotOf
<1>6. read_snapshot(root) = Unless(SnapshotProblems(root), Beside(G, F))
  BY DEF read_snapshot
<1>7. Tells(SnapshotProblems(root), SnapshotNames(root))
  BY SnapshotIs
<1> HIDE DEF F, G
<1> QED BY <1>4, <1>5, <1>6, <1>7, UnlessIs

DeltaOf(root) ==
  [market_ticker |-> root.msg.market_ticker,
   subscription  |-> root.sid,
   sequence      |-> root.seq,
   side          |-> book_side_from_string[root.msg.side],
   price         |-> yes_price_from_book_entry(root.msg.price_dollars,
                                               book_side_from_string[root.msg.side]),
   delta         |-> Otherwise(root.msg, "delta_fp", 0),
   type          |-> "orderbook_delta",
   exchange_time |-> exchange_time(root.msg)]

LEMMA DeltaRead ==
  ASSUME NEW root
  PROVE  /\ Fails(read_delta(root)) <=> DeltaNames(root) # {}
         /\ Fails(read_delta(root)) => read_delta(root).field \in DeltaNames(root)
         /\ ~Fails(read_delta(root)) => read_delta(root) = DeltaOf(root)
<1> DEFINE wire == [market_ticker |-> root.msg.market_ticker, subscription |-> root.sid,
                    sequence |-> root.seq, side |-> book_side_from_string[root.msg.side],
                    price |-> root.msg.price_dollars,
                    delta |-> Otherwise(root.msg, "delta_fp", 0)]
           F == parse_delta(wire)
           G == [type |-> "orderbook_delta", exchange_time |-> exchange_time(root.msg)]
<1>1. F = [market_ticker |-> root.msg.market_ticker, subscription |-> root.sid,
           sequence |-> root.seq, side |-> book_side_from_string[root.msg.side],
           price |-> yes_price_from_book_entry(root.msg.price_dollars,
                                               book_side_from_string[root.msg.side]),
           delta |-> Otherwise(root.msg, "delta_fp", 0)]
  BY DEF parse_delta
<1>2. Beside(G, F) = DeltaOf(root)
  <2> HIDE DEF F
  <2>1. Beside(G, F) = [x \in DOMAIN G \cup DOMAIN F |-> IF x \in DOMAIN G THEN G[x] ELSE F[x]]
    BY DEF Beside
  <2> QED BY <1>1, <2>1 DEF DeltaOf
<1>3. ~Fails(Beside(G, F))
  BY <1>2 DEF Fails, DeltaOf
<1>4. read_delta(root) = Unless(DeltaProblems(root), Beside(G, F))
  BY DEF read_delta
<1>5. Tells(DeltaProblems(root), DeltaNames(root))
  BY DeltaIs
<1> HIDE DEF F, G
<1> QED BY <1>2, <1>3, <1>4, <1>5, UnlessIs

TradeOf(root) ==
  [type           |-> "trade",
   subscription   |-> root.sid,
   market_ticker  |-> root.msg.market_ticker,
   trade_id       |-> root.msg.trade_id,
   yes_price      |-> root.msg.yes_price_dollars,
   quantity       |-> root.msg.count_fp,
   is_block_trade |-> Otherwise(root.msg, "is_block_trade", FALSE),
   taker_side     |-> IF book_side_from_string[Taker(root.msg)] = "Bid"
                      THEN "BuyYes" ELSE "SellYes",
   exchange_time  |-> exchange_time(root.msg)]

LEMMA TradeRead ==
  ASSUME NEW root
  PROVE  /\ Fails(read_trade(root)) <=> TradeNames(root) # {}
         /\ Fails(read_trade(root)) => read_trade(root).field \in TradeNames(root)
         /\ ~Fails(read_trade(root)) => read_trade(root) = TradeOf(root)
<1>1. read_trade(root) = Unless(TradeProblems(root), TradeOf(root))
  BY DEF read_trade, TradeOf
<1>2. Tells(TradeProblems(root), TradeNames(root)) /\ ~Fails(TradeOf(root))
  BY TradeIs DEF Fails, TradeOf
<1> QED BY <1>1, <1>2, UnlessIs

SubscribedOf(root) ==
  [type |-> "subscribed", command_id |-> root.id, channel |-> root.msg.channel,
   subscription |-> root.msg.sid]

LEMMA SubscribedRead ==
  ASSUME NEW root
  PROVE  /\ Fails(read_subscribed(root)) <=> SubscribedNames(root) # {}
         /\ Fails(read_subscribed(root)) => read_subscribed(root).field \in SubscribedNames(root)
         /\ ~Fails(read_subscribed(root)) => read_subscribed(root) = SubscribedOf(root)
<1> DEFINE problems == Required(root, "id", "none") \o Required(root.msg, "channel", "none")
                         \o Required(root.msg, "sid", "none")
<1>1. read_subscribed(root) = Unless(problems, SubscribedOf(root))
  BY DEF read_subscribed, SubscribedOf
<1>2. Tells(problems, SubscribedNames(root)) /\ ~Fails(SubscribedOf(root))
  BY SubscribedIs DEF Fails, SubscribedOf
<1> HIDE DEF problems
<1> QED BY <1>1, <1>2, UnlessIs

ErrorOf(root) ==
  [type |-> "error", command_id |-> Otherwise(root, "id", 0), code |-> root.msg.code,
   message |-> root.msg.msg,
   market_ticker |-> Otherwise(root.msg, "market_ticker", None)]

LEMMA ErrorRead ==
  ASSUME NEW root
  PROVE  /\ Fails(read_error(root)) <=> ErrorNames(root) # {}
         /\ Fails(read_error(root)) => read_error(root).field \in ErrorNames(root)
         /\ ~Fails(read_error(root)) => read_error(root) = ErrorOf(root)
<1> DEFINE problems == Required(root.msg, "code", "none") \o Required(root.msg, "msg", "none")
<1>1. read_error(root) = Unless(problems, ErrorOf(root))
  BY DEF read_error, ErrorOf
<1>2. Tells(problems, ErrorNames(root)) /\ ~Fails(ErrorOf(root))
  BY ErrorIs DEF Fails, ErrorOf
<1> HIDE DEF problems
<1> QED BY <1>1, <1>2, UnlessIs

LEMMA ParseIs ==
  ASSUME NEW root, root \notin {WrongType, Unparsable}
  PROVE  /\ ~Sound(root, "type") => /\ Fails(parse_ws_message(root))
                                    /\ parse_ws_message(root).field = "type"
         /\ Sound(root, "type") /\ root.type \in Handled /\ ~Sound(root, "msg") =>
              parse_ws_message(root) = Refuse("MissingField", "msg")
         /\ Sound(root, "type") /\ Sound(root, "msg") =>
              /\ root.type = "orderbook_snapshot" => parse_ws_message(root) = read_snapshot(root)
              /\ root.type = "orderbook_delta" => parse_ws_message(root) = read_delta(root)
              /\ root.type = "trade" => parse_ws_message(root) = read_trade(root)
              /\ root.type = "subscribed" => parse_ws_message(root) = read_subscribed(root)
              /\ root.type = "error" => parse_ws_message(root) = read_error(root)
         /\ Sound(root, "type") /\ root.type \notin Handled =>
              parse_ws_message(root) = [type |-> "unhandled", of |-> root.type]
<1> DEFINE problems == Required(root, "type", "none")
<1>1. Tells(problems, Missed(root, "type"))
  BY RequiredIs, KindsAre
<1>2. problems = <<>> <=> Sound(root, "type")
  BY <1>1 DEF Tells, Missed
<1>3. CASE ~Sound(root, "type")
  <2>1. problems # <<>>
    BY <1>2, <1>3
  <2>2. parse_ws_message(root) = Failure(Head(problems))
    BY <2>1 DEF parse_ws_message
  <2>3. Head(problems).field = "type"
    <3> DEFINE S == [kind : Kinds, field : Missed(root, "type")]
    <3>1. problems \in Seq(S)
      BY <1>1 DEF Tells
    <3> HIDE DEF S, problems
    <3>2. Head(problems) \in S
      BY <2>1, <3>1
    <3>3. Head(problems).field \in Missed(root, "type")
      BY <3>2 DEF S
    <3> QED BY <3>3 DEF Missed
  <2> HIDE DEF problems
  <2> QED BY <1>3, <2>2, <2>3 DEF Failure, Fails
<1>4. CASE Sound(root, "type")
  <2>1. problems = <<>>
    BY <1>2, <1>4
  <2>2. parse_ws_message(root) =
          IF root.type \in Handled /\ ~Sound(root, "msg") THEN Refuse("MissingField", "msg")
          ELSE CASE root.type = "orderbook_snapshot" -> read_snapshot(root)
                 [] root.type = "orderbook_delta"    -> read_delta(root)
                 [] root.type = "trade"              -> read_trade(root)
                 [] root.type = "subscribed"         -> read_subscribed(root)
                 [] root.type = "error"              -> read_error(root)
                 [] OTHER                            -> [type |-> "unhandled", of |-> root.type]
    BY <2>1 DEF parse_ws_message
  <2> HIDE DEF problems
  <2> QED BY <1>4, <2>2 DEF Handled
<1> QED BY <1>3, <1>4

LEMMA RefusedIs ==
  \A kind, field : Fails(Refuse(kind, field)) /\ Refuse(kind, field).field = field
BY DEF Refuse, Failure, Fails

\* A message that was read had all that is asked of its kind.
Complete(root) ==
  /\ Sound(root, "type")
  /\ root.type \in Handled => Sound(root, "msg")
  /\ root.type = "orderbook_snapshot" => SnapshotNames(root) = {}
  /\ root.type = "orderbook_delta" => DeltaNames(root) = {}
  /\ root.type = "trade" => TradeNames(root) = {}
  /\ root.type = "subscribed" => SubscribedNames(root) = {}
  /\ root.type = "error" => ErrorNames(root) = {}

LEMMA ReadIsComplete ==
  ASSUME NEW root, root \notin {WrongType, Unparsable}
  PROVE  ~Fails(parse_ws_message(root)) <=> Complete(root)
<1>1. CASE ~Sound(root, "type")
  BY <1>1, ParseIs DEF Complete
<1>2. CASE Sound(root, "type") /\ root.type \in Handled /\ ~Sound(root, "msg")
  BY <1>2, ParseIs, RefusedIs DEF Complete
<1>3. CASE Sound(root, "type") /\ root.type \notin Handled
  <2>1. parse_ws_message(root) = [type |-> "unhandled", of |-> root.type]
    BY <1>3, ParseIs
  <2> QED BY <1>3, <2>1 DEF Fails, Complete, Handled
<1>4. CASE Sound(root, "type") /\ root.type \in Handled /\ Sound(root, "msg")
  <2>1. CASE root.type = "orderbook_snapshot"
    BY <1>4, <2>1, ParseIs, SnapshotRead DEF Complete
  <2>2. CASE root.type = "orderbook_delta"
    BY <1>4, <2>2, ParseIs, DeltaRead DEF Complete
  <2>3. CASE root.type = "trade"
    BY <1>4, <2>3, ParseIs, TradeRead DEF Complete
  <2>4. CASE root.type = "subscribed"
    BY <1>4, <2>4, ParseIs, SubscribedRead DEF Complete
  <2>5. CASE root.type = "error"
    BY <1>4, <2>5, ParseIs, ErrorRead DEF Complete
  <2> QED BY <1>4, <2>1, <2>2, <2>3, <2>4, <2>5 DEF Handled
<1> QED BY <1>1, <1>2, <1>3, <1>4

\* What is missed of a message is damaged, or was missed before.
LEMMA NamesAreLost ==
  ASSUME NEW root, NEW was, NEW lost, Damaged(root, was, lost, {"msg"}),
         Damaged(root.msg, was.msg, lost, {})
  PROVE  /\ SnapshotNames(root) \subseteq lost \cup SnapshotNames(was)
         /\ DeltaNames(root) \subseteq lost \cup DeltaNames(was)
         /\ TradeNames(root) \ {"taker_side"} \subseteq lost \cup TradeNames(was)
         /\ SubscribedNames(root) \subseteq lost \cup SubscribedNames(was)
         /\ ErrorNames(root) \subseteq lost \cup ErrorNames(was)
<1>1. \A field : field \notin {"msg"} => Missed(root, field) \subseteq lost \cup Missed(was, field)
  BY SoundStays
<1>2. /\ Missed(root, "sid") \subseteq lost \cup Missed(was, "sid")
      /\ Missed(root, "seq") \subseteq lost \cup Missed(was, "seq")
      /\ Missed(root, "id") \subseteq lost \cup Missed(was, "id")
  BY <1>1
<1> DEFINE body == root.msg
           before == was.msg
<1> HIDE DEF body, before
<1>3. Damaged(body, before, lost, {})
  BY DEF body, before
<1>4. \A field : Missed(body, field) \subseteq lost \cup Missed(before, field)
  BY <1>3, SoundStays
<1>5. \A field : Wrong(body, field) \subseteq lost \cup Wrong(before, field)
  BY <1>3, SoundStays
<1>6. SnapshotNames(root) \subseteq lost \cup SnapshotNames(was)
  BY <1>2, <1>4, <1>5 DEF SnapshotNames, HeaderNames, body, before
<1>7. DeltaNames(root) \subseteq lost \cup DeltaNames(was)
  BY <1>2, <1>4 DEF DeltaNames, HeaderNames, body, before
<1>8. TradeNames(root) \ {"taker_side"} \subseteq lost \cup TradeNames(was)
  BY <1>2, <1>4, <1>5 DEF TradeNames, Undirected, body, before
<1>9. SubscribedNames(root) \subseteq lost \cup SubscribedNames(was)
  BY <1>2, <1>4 DEF SubscribedNames, body, before
<1>10. ErrorNames(root) \subseteq lost \cup ErrorNames(was)
  BY <1>4 DEF ErrorNames, body, before
<1> QED BY <1>6, <1>7, <1>8, <1>9, <1>10

\* The direction is told by any of its fields, and by each the same.
LEMMA TakerIs ==
  ASSUME NEW body, NEW was, NEW lost, Damaged(body, was, lost, {}), OneDirection(was)
  PROVE  /\ Taker(body) = None <=> \A field \in TakerFields : ~Sound(body, field)
         /\ Taker(body) # None => \E field \in TakerFields : /\ Sound(body, field)
                                                             /\ Taker(body) = was[field]
<1>1. \A field \in TakerFields : Sound(body, field) =>
         /\ Sound(was, field) /\ body[field] = was[field]
         /\ field \in TakerFields \cap DOMAIN was
  <2>1. \A field : Sound(body, field) => Sound(was, field) /\ body[field] = was[field]
    BY SoundStays
  <2> QED BY <2>1 DEF Sound, Has
<1>2. \A field \in TakerFields \cap DOMAIN was : was[field] # None
  BY DEF OneDirection
<1>3. TakerFields = {"taker_side", "taker_outcome_side", "taker_book_side"}
  BY DEF TakerFields
<1>4. Taker(body) = IF Sound(body, "taker_side") THEN body["taker_side"]
                    ELSE IF Sound(body, "taker_outcome_side") THEN body["taker_outcome_side"]
                    ELSE IF Sound(body, "taker_book_side") THEN body["taker_book_side"]
                    ELSE None
  BY DEF Taker, Otherwise
<1> QED BY <1>1, <1>2, <1>3, <1>4

LEMMA MessageIsNamed ==
  ASSUME NEW root, NEW was, NEW lost,
         Damaged(root, was, lost, {"msg"}), BodyDamaged(root, was, lost),
         root \notin {WrongType, Unparsable}, was \notin {WrongType, Unparsable},
         SentMessage(was), Fails(parse_ws_message(root))
  PROVE  \/ parse_ws_message(root).field \in lost
         \/ parse_ws_message(root).field = "taker_side" /\ lost \cap TakerFields # {}
<1>1. Complete(was)
  BY ReadIsComplete DEF SentMessage
<1>2. /\ Sound(root, "type") => root.type = was.type
      /\ ~Sound(root, "type") => "type" \in lost
  <2>1. "type" \notin {"msg"} /\ Sound(was, "type")
    BY <1>1 DEF Complete
  <2> QED BY <2>1, SoundStays
<1>3. CASE ~Sound(root, "type")
  BY <1>2, <1>3, ParseIs
<1>4. CASE Sound(root, "type") /\ root.type \in Handled /\ ~Sound(root, "msg")
  <2>1. Sound(was, "msg")
    BY <1>1, <1>2, <1>4 DEF Complete
  <2>2. "msg" \in lost
    BY <1>4, <2>1 DEF BodyDamaged, Sound, Has
  <2> QED BY <1>4, <2>2, ParseIs, RefusedIs
<1>5. CASE Sound(root, "type") /\ root.type \notin Handled
  <2>1. parse_ws_message(root) = [type |-> "unhandled", of |-> root.type]
    BY <1>5, ParseIs
  <2> QED BY <2>1 DEF Fails
<1>6. CASE Sound(root, "type") /\ root.type \in Handled /\ Sound(root, "msg")
  <2>1. Damaged(root.msg, was.msg, lost, {})
    BY <1>6 DEF BodyDamaged
  <2>2. root.type = was.type
    BY <1>2, <1>6
  <2>3. CASE root.type = "orderbook_snapshot"
    <3>1. parse_ws_message(root).field \in SnapshotNames(root)
      BY <1>6, <2>3, ParseIs, SnapshotRead
    <3>2. SnapshotNames(was) = {}
      BY <1>1, <2>2, <2>3 DEF Complete
    <3> QED BY <2>1, <3>1, <3>2, NamesAreLost
  <2>4. CASE root.type = "orderbook_delta"
    <3>1. parse_ws_message(root).field \in DeltaNames(root)
      BY <1>6, <2>4, ParseIs, DeltaRead
    <3>2. DeltaNames(was) = {}
      BY <1>1, <2>2, <2>4 DEF Complete
    <3> QED BY <2>1, <3>1, <3>2, NamesAreLost
  <2>5. CASE root.type = "trade"
    <3>1. parse_ws_message(root).field \in TradeNames(root)
      BY <1>6, <2>5, ParseIs, TradeRead
    <3>2. TradeNames(was) = {}
      BY <1>1, <2>2, <2>5 DEF Complete
    <3>3. CASE parse_ws_message(root).field # "taker_side"
      BY <2>1, <3>1, <3>2, <3>3, NamesAreLost
    <3>4. CASE parse_ws_message(root).field = "taker_side"
      <4>1. OneDirection(was.msg)
        BY <2>2, <2>5 DEF SentMessage
      <4>2. Taker(root.msg) = None
        <5> DEFINE others == Missed(root, "sid") \cup Missed(root.msg, "market_ticker")
                               \cup Missed(root.msg, "trade_id")
                               \cup Missed(root.msg, "yes_price_dollars")
                               \cup Missed(root.msg, "count_fp")
                               \cup Wrong(root.msg, "is_block_trade")
        <5>1. "taker_side" \notin others
          BY DEF Missed, Wrong
        <5>2. "taker_side" \in others \cup Undirected(root.msg)
          BY <3>1, <3>4 DEF TradeNames
        <5> HIDE DEF others
        <5> QED BY <5>1, <5>2 DEF Undirected
      <4>3. Taker(was.msg) # None
        BY <3>2 DEF TradeNames, Undirected
      <4>4. \A field \in TakerFields : ~Sound(root.msg, field)
        BY <2>1, <4>1, <4>2, TakerIs
      <4>5. PICK field \in TakerFields : Sound(was.msg, field)
        BY <4>3 DEF Taker, Otherwise, TakerFields
      <4>6. field \in lost
        <5>1. field \notin {} /\ ~Sound(root.msg, field)
          BY <4>4
        <5> QED BY <2>1, <4>5, <5>1, SoundStays
      <4> QED BY <3>4, <4>6
    <3> QED BY <3>3, <3>4
  <2>6. CASE root.type = "subscribed"
    <3>1. parse_ws_message(root).field \in SubscribedNames(root)
      BY <1>6, <2>6, ParseIs, SubscribedRead
    <3>2. SubscribedNames(was) = {}
      BY <1>1, <2>2, <2>6 DEF Complete
    <3> QED BY <2>1, <3>1, <3>2, NamesAreLost
  <2>7. CASE root.type = "error"
    <3>1. parse_ws_message(root).field \in ErrorNames(root)
      BY <1>6, <2>7, ParseIs, ErrorRead
    <3>2. ErrorNames(was) = {}
      BY <1>1, <2>2, <2>7 DEF Complete
    <3> QED BY <2>1, <3>1, <3>2, NamesAreLost
  <2> QED BY <1>6, <2>3, <2>4, <2>5, <2>6, <2>7 DEF Handled
<1> QED BY <1>3, <1>4, <1>5, <1>6

RecordOf(line) ==
  [type |-> "record",
   of   |-> [field \in RequiredFields \cup OptionalFields |->
               IF field \in RequiredFields THEN line[field]
               ELSE Otherwise(line, field, Nothing)]]

LEMMA RecordRead ==
  ASSUME NEW line, line \notin {WrongType, Unparsable}
  PROVE  /\ Fails(decode_journal_record(line)) <=> RecordNames(line) # {}
         /\ Fails(decode_journal_record(line)) =>
              decode_journal_record(line).field \in RecordNames(line)
         /\ ~Fails(decode_journal_record(line)) => decode_journal_record(line) = RecordOf(line)
<1>1. decode_journal_record(line) = Unless(RecordProblems(line), RecordOf(line))
  BY DEF decode_journal_record, RecordOf
<1>2. Tells(RecordProblems(line), RecordNames(line)) /\ ~Fails(RecordOf(line))
  BY RecordIs DEF Fails, RecordOf
<1> QED BY <1>1, <1>2, UnlessIs

SomeThrows(object) ==
  \E i \in DOMAIN ListedBands(object) : Throws(ListedBands(object)[i])

MetadataOf(object) ==
  [type |-> "metadata",
   of   |-> [market_ticker    |-> object.market_ticker,
             price_convention |-> IF object.price_convention = "no_leg"
                                  THEN "NoLegPricing" ELSE "YesLegPricing",
             build            |-> Otherwise(object, "build", ""),
             price_ranges     |-> BandsOf(object)]]

LEMMA MetadataRead ==
  ASSUME NEW object, object \notin {WrongType, Unparsable}
  PROVE  /\ Fails(decode_session_metadata(object)) <=> MetadataNames(object) # {}
         /\ Fails(decode_session_metadata(object)) =>
              decode_session_metadata(object).field \in MetadataNames(object)
         /\ ~Fails(decode_session_metadata(object)) =>
              decode_session_metadata(object) =
                IF SomeThrows(object) THEN [type |-> "thrown"] ELSE MetadataOf(object)
<1> DEFINE read == IF SomeThrows(object) THEN [type |-> "thrown"] ELSE MetadataOf(object)
<1>1. decode_session_metadata(object) = Unless(MetadataProblems(object), read)
  BY DEF decode_session_metadata, MetadataOf, SomeThrows
<1>2. Tells(MetadataProblems(object), MetadataNames(object)) /\ ~Fails(read)
  BY MetadataIs DEF Fails, MetadataOf
<1> HIDE DEF read
<1>3. /\ Fails(Unless(MetadataProblems(object), read)) <=> MetadataNames(object) # {}
      /\ MetadataNames(object) = {} => Unless(MetadataProblems(object), read) = read
      /\ Fails(Unless(MetadataProblems(object), read)) =>
           Unless(MetadataProblems(object), read).field \in MetadataNames(object)
  BY <1>2, UnlessIs
<1> QED BY <1>1, <1>3 DEF read

MarketOf(object) ==
  [type |-> "market",
   of   |-> [field \in DOMAIN object \cup MarketOptional |->
               IF field \in MarketOptional THEN Otherwise(object, field, Nothing)
               ELSE object[field]]]

LEMMA MarketRead ==
  ASSUME NEW object, object \notin {WrongType, Unparsable}
  PROVE  /\ Fails(read_market(object)) <=> Unlisted(object) # {}
         /\ Fails(read_market(object)) => read_market(object).field \in Unlisted(object)
         /\ ~Fails(read_market(object)) => read_market(object) = MarketOf(object)
<1>1. read_market(object) = Unless(MarketProblems(object), MarketOf(object))
  BY DEF read_market, MarketOf
<1>2. Tells(MarketProblems(object), Unlisted(object)) /\ ~Fails(MarketOf(object))
  BY MarketIs DEF Fails, MarketOf
<1> QED BY <1>1, <1>2, UnlessIs

\* The line of a record has all that a line must have.
LEMMA LineIs ==
  ASSUME NEW record, WrittenRecord(record), Unspoilt(encode_journal_record(record))
  PROVE  LET line == encode_journal_record(record)
         IN  /\ RecordNames(line) = {}
             /\ DOMAIN line = {"v"} \cup RequiredFields
                                \cup {f \in OptionalFields : record[f] # Nothing}
             /\ line["v"] = kJournalVersion
             /\ \A f \in DOMAIN line : f # "v" => line[f] = record[f]
             /\ \A f \in DOMAIN line : Sound(line, f)
<1> DEFINE line == encode_journal_record(record)
<1>1. /\ DOMAIN line = {"v"} \cup RequiredFields \cup {f \in OptionalFields : record[f] # Nothing}
      /\ line["v"] = kJournalVersion
      /\ \A f \in DOMAIN line : f # "v" => line[f] = record[f]
  BY DEF encode_journal_record
<1> HIDE DEF line
<1>2. \A f \in DOMAIN line : line[f] \notin {WrongType, Unparsable}
  BY DEF Unspoilt, line
<1>3. \A f \in DOMAIN line : Sound(line, f)
  BY <1>2 DEF Sound, Has
<1>4. \A f \in {"v"} \cup RequiredFields : Sound(line, f)
  BY <1>1, <1>3
<1>5. VersionNames(line) = {} /\ KindNames(line) = {}
  BY <1>1, <1>4 DEF VersionNames, KindNames, Missed, Sound, RequiredFields
<1>6. \A f \in RequiredFields : Missed(line, f) = {}
  BY <1>4 DEF Missed
<1>7. RecordNames(line) = {}
  BY <1>5, <1>6 DEF RecordNames, RequiredFields
<1> QED BY <1>1, <1>3, <1>7 DEF line

LEMMA RecordIsNamed ==
  ASSUME NEW record, WrittenRecord(record), Unspoilt(encode_journal_record(record)),
         NEW line, NEW lost, Damaged(line, encode_journal_record(record), lost, {}),
         line \notin {WrongType, Unparsable}, Fails(decode_journal_record(line))
  PROVE  \/ decode_journal_record(line).field \in lost \ {"v", "kind"}
         \/ \E f \in lost \cap {"v", "kind"} :
              decode_journal_record(line).field =
                IF Has(line, f) /\ line[f] # WrongType THEN line[f] ELSE f
<1> DEFINE was == encode_journal_record(record)
           field == decode_journal_record(line).field
<1>1. /\ RecordNames(was) = {}
      /\ was["v"] = kJournalVersion
      /\ "v" \in DOMAIN was
      /\ Sound(was, "v")
  BY LineIs
<1> HIDE DEF was
<1>2. Damaged(line, was, lost, {})
  BY DEF was
<1>3. \A f : Missed(line, f) \subseteq lost \cup Missed(was, f)
  BY <1>2, SoundStays
<1>4. field \in RecordNames(line)
  BY RecordRead
<1> HIDE DEF field
<1>5. CASE field \in VersionNames(line)
  <2>1. "v" \notin lost => Has(line, "v") /\ line["v"] = was["v"]
    <3>1. "v" \notin {} /\ Has(was, "v")
      BY <1>1 DEF Has
    <3> QED BY <1>2, <3>1, SoundStays
  <2>2. "v" \in lost
    BY <1>1, <1>5, <2>1 DEF VersionNames, Sound
  <2>3. field = IF Has(line, "v") /\ line["v"] # WrongType THEN line["v"] ELSE "v"
    BY <1>5 DEF VersionNames
  <2> QED BY <2>2, <2>3 DEF field
<1>6. CASE field \in KindNames(line)
  <2>1. ~Sound(line, "kind") /\ field = IF Has(line, "kind") /\ line["kind"] # WrongType
                                        THEN line["kind"] ELSE "kind"
    BY <1>6, DocumentsAssumption DEF KindNames, Missed, Sound
  <2>2. Missed(was, "kind") = {}
    BY <1>1 DEF RecordNames, KindNames, Sound, Missed
  <2>3. "kind" \in lost
    BY <1>3, <2>1, <2>2 DEF Missed
  <2> QED BY <2>1, <2>3 DEF field
<1>7. ASSUME NEW f \in {"t_local_us", "conn", "type", "payload"}, field \in Missed(line, f)
      PROVE  field \in lost \ {"v", "kind"}
  <2>1. Missed(was, f) = {}
    BY <1>1 DEF RecordNames
  <2> QED BY <1>3, <1>7, <2>1 DEF Missed
<1> QED BY <1>4, <1>5, <1>6, <1>7 DEF RecordNames, field

\* The bands of a grid can all be read, and are read as they are.
LEMMA GridsAreSound ==
  ASSUME NEW grid \in Grids
  PROVE  /\ grid = [i \in DOMAIN grid |-> grid[i]]
         /\ \A i \in DOMAIN grid :
              /\ grid[i] \in [Bounds -> Int]
              /\ grid[i] # WrongType /\ ~Throws(grid[i])
              /\ \A bound \in Bounds : /\ Sound(grid[i], bound)
                                       /\ BandValue(grid[i], bound) = grid[i][bound]
<1> DEFINE S == [Bounds -> Int]
<1>1. grid \in Seq(S)
  BY DEF Grids
<1>2. grid = [i \in DOMAIN grid |-> grid[i]] /\ \A i \in DOMAIN grid : grid[i] \in S
  <2> HIDE DEF S
  <2> QED BY <1>1
<1>3. ASSUME NEW band \in S
      PROVE  /\ band # WrongType /\ ~Throws(band)
             /\ \A bound \in Bounds : /\ Sound(band, bound)
                                      /\ BandValue(band, bound) = band[bound]
  <2>1. \A bound \in Bounds : /\ Has(band, bound) /\ band[bound] \in Int
                              /\ band[bound] \notin {WrongType, Unparsable, NoInteger}
    BY DocumentsAssumption DEF Has
  <2>2. \A bound \in Bounds : Sound(band, bound) /\ BandValue(band, bound) = band[bound]
    BY <2>1 DEF Sound, BandValue
  <2> QED BY <2>2, DocumentsAssumption DEF Throws
<1> QED BY <1>2, <1>3

LEMMA HeadingIs ==
  ASSUME NEW metadata, WrittenMetadata(metadata), Unspoilt(encode_session_metadata(metadata))
  PROVE  LET object == encode_session_metadata(metadata)
         IN  /\ MetadataNames(object) = {}
             /\ ~SomeThrows(object)
             /\ ListedBands(object) = metadata.price_ranges
             /\ DOMAIN object = {"market_ticker", "price_convention", "build", "price_ranges"}
             /\ object.market_ticker = metadata.market_ticker
             /\ object.build = metadata.build
             /\ object.price_ranges = metadata.price_ranges
             /\ object.price_convention = IF metadata.price_convention = "YesLegPricing"
                                          THEN "yes_leg" ELSE "no_leg"
             /\ \A f \in DOMAIN object : Sound(object, f)
<1> DEFINE object == encode_session_metadata(metadata)
<1>1. metadata = [field \in {"market_ticker", "price_convention", "build", "price_ranges"} |->
                    metadata[field]]
  BY DEF WrittenMetadata
<1>2. /\ DOMAIN object = {"market_ticker", "price_convention", "build", "price_ranges"}
      /\ object.market_ticker = metadata.market_ticker
      /\ object.build = metadata.build
      /\ object.price_ranges = metadata.price_ranges
      /\ object.price_convention = IF metadata.price_convention = "YesLegPricing"
                                   THEN "yes_leg" ELSE "no_leg"
  BY <1>1 DEF encode_session_metadata
<1> HIDE DEF object
<1>3. \A f \in DOMAIN object : object[f] \notin {WrongType, Unparsable}
  BY DEF Unspoilt, object
<1>4. \A f \in DOMAIN object : Sound(object, f)
  BY <1>3 DEF Sound, Has
<1>5. Missed(object, "market_ticker") = {}
  BY <1>2, <1>4 DEF Missed
<1>6. Unpriced(object) = {}
  BY <1>2, <1>4 DEF Unpriced, Sound, Has
<1>7. ListedBands(object) = metadata.price_ranges /\ object.price_ranges \in Grids
  BY <1>2, <1>4 DEF ListedBands, Otherwise, WrittenMetadata
<1>8. Unbanded(object) = {} /\ ~SomeThrows(object)
  BY <1>2, <1>7, GridsAreSound DEF Unbanded, SomeThrows, RefusedBands
<1>9. MetadataNames(object) = {}
  BY <1>5, <1>6, <1>8 DEF MetadataNames
<1> QED BY <1>2, <1>4, <1>7, <1>8, <1>9 DEF object

LEMMA MetadataIsNamed ==
  ASSUME NEW metadata, WrittenMetadata(metadata), Unspoilt(encode_session_metadata(metadata)),
         NEW object, NEW lost,
         Damaged(object, encode_session_metadata(metadata), lost, {"price_ranges"}),
         GridDamaged(object, encode_session_metadata(metadata), lost),
         object \notin {WrongType, Unparsable}, Fails(decode_session_metadata(object))
  PROVE  decode_session_metadata(object).field
           \in lost \cap {"market_ticker", "price_convention", "price_ranges"}
<1> DEFINE was == encode_session_metadata(metadata)
<1>1. /\ MetadataNames(was) = {}
      /\ Sound(was, "market_ticker") /\ Sound(was, "price_convention")
      /\ Sound(was, "price_ranges")
  BY HeadingIs
<1> HIDE DEF was
<1>2. Damaged(object, was, lost, {"price_ranges"}) /\ GridDamaged(object, was, lost)
  BY DEF was
<1>3. \A f : f \notin {"price_ranges"} => Missed(object, f) \subseteq lost \cup Missed(was, f)
  BY <1>2, SoundStays
<1>4. \A f : f \notin lost \cup {"price_ranges"} =>
                              /\ Has(object, f) <=> Has(was, f)
                              /\ Sound(object, f) <=> Sound(was, f)
                              /\ Has(was, f) => object[f] = was[f]
  BY <1>2, SoundStays
<1>5. Unpriced(object) \subseteq lost
  BY <1>1, <1>4 DEF Unpriced, Sound
<1>6. Unbanded(object) \subseteq lost
  <2>1. ASSUME "price_ranges" \notin lost
        PROVE  Unbanded(object) = {}
    <3>1. Unbanded(was) = {}
      BY <1>1 DEF MetadataNames
    <3>2. /\ object["price_ranges"] = was["price_ranges"]
          /\ Sound(object, "price_ranges") <=> Sound(was, "price_ranges")
      BY <1>1, <1>2, <2>1 DEF Sound, Has, GridDamaged
    <3>3. ListedBands(object) = ListedBands(was)
      BY <3>2 DEF ListedBands, Otherwise
    <3> QED BY <3>1, <3>3 DEF Unbanded
  <2> QED BY <2>1 DEF Unbanded
<1>7. MetadataNames(object) \subseteq lost
  BY <1>1, <1>3, <1>5, <1>6 DEF MetadataNames
<1>8. MetadataNames(object) \subseteq {"market_ticker", "price_convention", "price_ranges"}
  BY DEF MetadataNames, Missed, Unpriced, Unbanded
<1> QED BY <1>7, <1>8, MetadataRead

LEMMA MarketIsNamed ==
  ASSUME NEW was, ~Fails(read_market(was)), was \notin {WrongType, Unparsable},
         NEW object, NEW lost, Damaged(object, was, lost, {"price_ranges"}),
         GridDamaged(object, was, lost),
         object \notin {WrongType, Unparsable}, Fails(read_market(object))
  PROVE  read_market(object).field \in lost
<1>1. Unlisted(was) = {}
  BY MarketRead
<1>2. \A f : f \notin {"price_ranges"} => /\ Missed(object, f) \subseteq lost \cup Missed(was, f)
                                         /\ Wrong(object, f) \subseteq lost \cup Wrong(was, f)
  BY SoundStays
<1>3. Missed(object, "price_ranges") \subseteq lost \cup Missed(was, "price_ranges")
  BY DEF GridDamaged, Missed, Sound, Has
<1>5. Gridless(object) \subseteq lost
  <2>1. ASSUME "price_ranges" \notin lost
        PROVE  Gridless(object) = {}
    <3>1. Gridless(was) = {}
      BY <1>1 DEF Unlisted
    <3>2. Missed(was, "price_ranges") = {}
      BY <3>1 DEF Gridless
    <3>3. Has(was, "price_ranges")
      BY <3>2 DEF Missed, Sound
    <3>4. object["price_ranges"] = was["price_ranges"]
      BY <2>1, <3>3 DEF GridDamaged, Has
    <3>5. Missed(object, "price_ranges") = {}
      BY <1>3, <2>1, <3>2 DEF Missed
    <3> QED BY <3>1, <3>4, <3>5 DEF Gridless
  <2> QED BY <2>1 DEF Gridless, Missed
<1>6. ASSUME NEW fields, AllNames(was, fields) = {}
      PROVE  AllNames(object, fields) \subseteq lost
  <2>1. \A i \in 1..Len(fields) : Missed(was, fields[i][1]) = {}
    BY <1>6 DEF AllNames
  <2>2. \A f : Missed(object, f) \subseteq lost \cup Missed(was, f)
    BY <1>2, <1>3
  <2>3. \A i \in 1..Len(fields) : Missed(object, fields[i][1]) \subseteq lost
    BY <2>1, <2>2
  <2> QED BY <2>3 DEF AllNames
<1>7. AllNames(was, MarketFields) = {} /\ AllNames(was, MarketNumbers) = {}
  BY <1>1 DEF Unlisted
<1>8. /\ Missed(object, "open_time") \subseteq lost \cup Missed(was, "open_time")
      /\ Missed(object, "close_time") \subseteq lost \cup Missed(was, "close_time")
      /\ Wrong(object, "expected_expiration_time")
           \subseteq lost \cup Wrong(was, "expected_expiration_time")
      /\ Wrong(object, "mve_collection_ticker")
           \subseteq lost \cup Wrong(was, "mve_collection_ticker")
  BY <1>2
<1>9. Unlisted(object) \subseteq lost
  BY <1>1, <1>5, <1>6, <1>7, <1>8 DEF Unlisted
<1> QED BY <1>9, MarketRead

\* Which source it is, and what its reader makes of what is left of it.
LEMMA SourceIs ==
  ASSUME source \in Sources
  PROVE  /\ Unspoilt(Written(source)) /\ Written(source) \notin {WrongType, Unparsable}
         /\ \/ /\ source.reader = "message"
               /\ SentMessage(source.of)
               /\ Written(source) = source.of
               /\ \A object : Read(source.reader, object) = parse_ws_message(object)
            \/ /\ source.reader = "record"
               /\ WrittenRecord(source.of)
               /\ Written(source) = encode_journal_record(source.of)
               /\ \A object : Read(source.reader, object) = decode_journal_record(object)
            \/ /\ source.reader = "metadata"
               /\ WrittenMetadata(source.of)
               /\ Written(source) = encode_session_metadata(source.of)
               /\ \A object : Read(source.reader, object) = decode_session_metadata(object)
            \/ /\ source.reader = "market"
               /\ ListedMarket(source.of)
               /\ Written(source) = source.of
               /\ \A object : Read(source.reader, object) = read_market(object)
<1>1. /\ Unspoilt(Written(source))
      /\ \/ source.reader = "message" /\ SentMessage(source.of)
         \/ source.reader = "record" /\ WrittenRecord(source.of)
         \/ source.reader = "metadata" /\ WrittenMetadata(source.of)
         \/ source.reader = "market" /\ ListedMarket(source.of)
  BY DocumentsAssumption
<1>2. Written(source) \notin {WrongType, Unparsable}
  BY <1>1 DEF Unspoilt
<1>3. CASE source.reader = "message"
  BY <1>1, <1>2, <1>3 DEF Written, Read
<1>4. CASE source.reader = "record"
  BY <1>1, <1>2, <1>4 DEF Written, Read
<1>5. CASE source.reader = "metadata"
  BY <1>1, <1>2, <1>5 DEF Written, Read
<1>6. CASE source.reader = "market"
  BY <1>1, <1>2, <1>6 DEF Written, Read
<1> QED BY <1>1, <1>3, <1>4, <1>5, <1>6

\* What is no object is refused without a field.
LEMMA NoObjectIsRefused ==
  ASSUME source \in Sources, ~Object
  PROVE  Fails(outcome) /\ outcome.field = Reported(NoField)
<1>1. document \in {WrongType, Unparsable}
  BY DEF Object
<1>2. \A kind, field : Fails(Refuse(kind, field)) /\ Refuse(kind, field).field = field
  BY RefusedIs
<1>3. /\ parse_ws_message(document) \in
           {Refuse("MalformedJson", NoField), Refuse("NotAnObject", NoField)}
      /\ decode_journal_record(document) = Refuse("MalformedRecord", NoField)
      /\ decode_session_metadata(document) = Refuse("MalformedMetadata", "not an object")
      /\ read_market(document) = Refuse("NotAnObject", NoField)
  BY <1>1 DEF parse_ws_message, decode_journal_record, decode_session_metadata, read_market
<1>4. CASE source.reader = "metadata"
  <2>1. outcome = decode_session_metadata(document)
    BY <1>4, SourceIs DEF outcome
  <2>2. Reported(NoField) = "not an object"
    BY <1>4 DEF Reported, NoField
  <2> QED BY <1>2, <1>3, <2>1, <2>2
<1>5. CASE source.reader # "metadata"
  <2>1. outcome \in {parse_ws_message(document), decode_journal_record(document),
                     read_market(document)}
    BY <1>5, SourceIs DEF outcome
  <2>2. Reported(NoField) = NoField
    BY <1>5 DEF Reported, NoField
  <2> QED BY <1>2, <1>3, <2>1, <2>2
<1> QED BY <1>4, <1>5

LEMMA DamageIs ==
  ASSUME DocumentInv, Object
  PROVE  /\ document \notin {WrongType, Unparsable}
         /\ source.reader = "message" => /\ Damaged(document, Written(source), damaged, {"msg"})
                                         /\ BodyDamaged(document, Written(source), damaged)
         /\ source.reader = "record" => Damaged(document, Written(source), damaged, {})
         /\ source.reader \in {"metadata", "market"} =>
              /\ Damaged(document, Written(source), damaged, {"price_ranges"})
              /\ GridDamaged(document, Written(source), damaged)
BY DEF DocumentInv, Object

LEMMA DocumentsAreKept == DocumentSpec => []DocumentInv
BY DocumentInvInit, DocumentInvStep, PTL DEF DocumentSpec

\* A problem is reported of a field that has one, by its name where the readers of
\* messages and markets report names, and by its value where those of records and
\* metadata report values: whatever was sent or written, and however many of its
\* fields, and of its bands', are lost or spoilt on the way (ws_protocol.cpp:106-344,
\* market.cpp:12-180, journal.cpp:172-243, replay.cpp:51-90).
THEOREM TheRightFieldIsNamed == DocumentSpec => []TheDamagedFieldIsNamed
<1>1. DocumentInv => TheDamagedFieldIsNamed
  <2> SUFFICES ASSUME DocumentInv, Fails(outcome)
               PROVE  \/ \E field \in damaged : outcome.field = Reported(field)
                      \/ outcome.field = "taker_side" /\ damaged \cap TakerFields # {}
    BY DEF TheDamagedFieldIsNamed
  <2>0. source \in Sources
    BY DEF DocumentInv
  <2>1. CASE ~Object
    <3>1. NoField \in damaged
      BY <2>1 DEF DocumentInv
    <3> QED BY <2>0, <2>1, <3>1, NoObjectIsRefused
  <2>2. CASE Object
    <3>1. CASE source.reader = "message"
      <4>1. /\ outcome = parse_ws_message(document) /\ SentMessage(source.of)
            /\ Written(source) = source.of /\ source.of \notin {WrongType, Unparsable}
        BY <2>0, <3>1, SourceIs DEF outcome
      <4>2. /\ document \notin {WrongType, Unparsable}
            /\ Damaged(document, source.of, damaged, {"msg"})
            /\ BodyDamaged(document, source.of, damaged)
        BY <2>2, <3>1, <4>1, DamageIs
      <4>3. \A field : Reported(field) = field
        BY <3>1 DEF Reported
      <4> QED BY <4>1, <4>2, <4>3, MessageIsNamed
    <3>2. CASE source.reader = "record"
      <4>1. /\ outcome = decode_journal_record(document) /\ WrittenRecord(source.of)
            /\ Written(source) = encode_journal_record(source.of) /\ Unspoilt(Written(source))
        BY <2>0, <3>2, SourceIs DEF outcome
      <4>2. /\ document \notin {WrongType, Unparsable}
            /\ Damaged(document, encode_journal_record(source.of), damaged, {})
        BY <2>2, <3>2, <4>1, DamageIs
      <4> DEFINE said == decode_journal_record(document).field
      <4>3. \/ said \in damaged \ {"v", "kind"}
            \/ \E f \in damaged \cap {"v", "kind"} :
                 said = IF Has(document, f) /\ document[f] # WrongType THEN document[f] ELSE f
        BY <4>1, <4>2, RecordIsNamed
      <4> HIDE DEF said
      <4>4. \A f : f \notin {"v", "kind"} => Reported(f) = f
        BY <3>2 DEF Reported
      <4>5. \A f \in {"v", "kind"} :
               Reported(f) = IF Has(document, f) /\ document[f] # WrongType THEN document[f] ELSE f
        BY <2>2, <3>2 DEF Reported
      <4>6. \E f \in damaged : said = Reported(f)
        BY <4>3, <4>4, <4>5
      <4> QED BY <4>1, <4>6 DEF said
    <3>3. CASE source.reader = "metadata"
      <4>1. /\ outcome = decode_session_metadata(document) /\ WrittenMetadata(source.of)
            /\ Written(source) = encode_session_metadata(source.of) /\ Unspoilt(Written(source))
        BY <2>0, <3>3, SourceIs DEF outcome
      <4>2. /\ document \notin {WrongType, Unparsable}
            /\ Damaged(document, encode_session_metadata(source.of), damaged, {"price_ranges"})
            /\ GridDamaged(document, encode_session_metadata(source.of), damaged)
        BY <2>2, <3>3, <4>1, DamageIs
      <4>3. outcome.field \in damaged \cap {"market_ticker", "price_convention", "price_ranges"}
        BY <4>1, <4>2, MetadataIsNamed
      <4>4. Reported(outcome.field) = outcome.field
        BY <3>3, <4>3 DEF Reported, NoField
      <4> QED BY <4>3, <4>4
    <3>4. CASE source.reader = "market"
      <4>1. /\ outcome = read_market(document) /\ ListedMarket(source.of)
            /\ Written(source) = source.of /\ source.of \notin {WrongType, Unparsable}
        BY <2>0, <3>4, SourceIs DEF outcome
      <4>2. /\ document \notin {WrongType, Unparsable}
            /\ Damaged(document, source.of, damaged, {"price_ranges"})
            /\ GridDamaged(document, source.of, damaged)
        BY <2>2, <3>4, <4>1, DamageIs
      <4>3. ~Fails(read_market(source.of))
        BY <4>1 DEF ListedMarket
      <4>4. Reported(outcome.field) = outcome.field
        BY <3>4 DEF Reported
      <4> QED BY <4>1, <4>2, <4>3, <4>4, MarketIsNamed
    <3> QED BY <2>0, <3>1, <3>2, <3>3, <3>4, SourceIs
  <2> QED BY <2>1, <2>2
<1> QED BY <1>1, DocumentsAreKept, PTL

\* What is written into a journal is what is read from it, with or without each of
\* its optional fields, and so are the metadata of a session, with any grid
\* (journal.cpp:142-243, replay.cpp:31-90).
THEOREM TheJournalIsReadBack == DocumentSpec => []WhatIsWrittenIsRead
<1>1. DocumentInv => WhatIsWrittenIsRead
  <2> SUFFICES ASSUME DocumentInv, source.reader \in {"record", "metadata"}
               PROVE  ~Fails(intact) /\ intact.of = source.of
    BY DEF WhatIsWrittenIsRead
  <2>0. source \in Sources
    BY DEF DocumentInv
  <2>1. CASE source.reader = "record"
    <3> DEFINE record == source.of
               line == encode_journal_record(record)
               Fields == RequiredFields \cup OptionalFields
    <3>1. /\ intact = decode_journal_record(line) /\ WrittenRecord(record)
          /\ Unspoilt(line) /\ line \notin {WrongType, Unparsable}
      BY <2>0, <2>1, SourceIs DEF intact
    <3>2. /\ RecordNames(line) = {}
          /\ DOMAIN line = {"v"} \cup RequiredFields \cup {f \in OptionalFields : record[f] # Nothing}
          /\ \A f \in DOMAIN line : f # "v" => line[f] = record[f]
          /\ \A f \in DOMAIN line : Sound(line, f)
      BY <3>1, LineIs
    <3> HIDE DEF line, record
    <3>3. ~Fails(intact) /\ intact = RecordOf(line)
      BY <3>1, <3>2, RecordRead
    <3>4. \A f \in Fields : f # "v"
      BY DEF RequiredFields, OptionalFields
    <3>5. \A f \in Fields : (IF f \in RequiredFields THEN line[f] ELSE Otherwise(line, f, Nothing))
                              = record[f]
      BY <3>2, <3>4 DEF Otherwise, Sound, Has
    <3>6. record = [f \in Fields |-> record[f]]
      BY <3>1 DEF WrittenRecord
    <3>7. RecordOf(line).of = [f \in Fields |-> IF f \in RequiredFields THEN line[f]
                                                ELSE Otherwise(line, f, Nothing)]
      BY DEF RecordOf
    <3>8. RecordOf(line).of = record
      <4> HIDE DEF Fields
      <4> QED BY <3>5, <3>6, <3>7
    <3> QED BY <3>3, <3>8 DEF record
  <2>2. CASE source.reader = "metadata"
    <3> DEFINE metadata == source.of
               object == encode_session_metadata(metadata)
    <3>1. /\ intact = decode_session_metadata(object) /\ WrittenMetadata(metadata)
          /\ Unspoilt(object) /\ object \notin {WrongType, Unparsable}
      BY <2>0, <2>2, SourceIs DEF intact
    <3>2. /\ MetadataNames(object) = {} /\ ~SomeThrows(object)
          /\ ListedBands(object) = metadata.price_ranges
          /\ DOMAIN object = {"market_ticker", "price_convention", "build", "price_ranges"}
          /\ object.market_ticker = metadata.market_ticker
          /\ object.build = metadata.build
          /\ object.price_ranges = metadata.price_ranges
          /\ object.price_convention = IF metadata.price_convention = "YesLegPricing"
                                       THEN "yes_leg" ELSE "no_leg"
          /\ \A f \in DOMAIN object : Sound(object, f)
      BY <3>1, HeadingIs
    <3> HIDE DEF object, metadata
    <3>3. ~Fails(intact) /\ intact = MetadataOf(object)
      BY <3>1, <3>2, MetadataRead
    <3>4. Otherwise(object, "build", "") = metadata.build
      BY <3>2 DEF Otherwise
    <3>5. (IF object.price_convention = "no_leg" THEN "NoLegPricing" ELSE "YesLegPricing")
            = metadata.price_convention
      BY <3>1, <3>2 DEF WrittenMetadata
    <3>6. BandsOf(object) = metadata.price_ranges
      <4> DEFINE grid == metadata.price_ranges
                 again == [i \in DOMAIN grid |-> [bound \in Bounds |-> BandValue(grid[i], bound)]]
      <4>1. grid \in Grids /\ BandsOf(object) = again
        BY <3>1, <3>2 DEF WrittenMetadata, BandsOf
      <4> HIDE DEF grid
      <4>2. /\ grid = [i \in DOMAIN grid |-> grid[i]]
            /\ \A i \in DOMAIN grid :
                 /\ grid[i] \in [Bounds -> Int]
                 /\ \A bound \in Bounds : BandValue(grid[i], bound) = grid[i][bound]
        BY <4>1, GridsAreSound
      <4>3. \A i \in DOMAIN grid : again[i] = grid[i]
        BY <4>2
      <4>4. again = grid
        BY <4>2, <4>3
      <4> QED BY <4>1, <4>4 DEF grid
    <3>7. metadata = [market_ticker    |-> metadata.market_ticker,
                      price_convention |-> metadata.price_convention,
                      build            |-> metadata.build,
                      price_ranges     |-> metadata.price_ranges]
      BY <3>1 DEF WrittenMetadata
    <3>8. MetadataOf(object).of = metadata
      BY <3>2, <3>4, <3>5, <3>6, <3>7 DEF MetadataOf
    <3> QED BY <3>3, <3>8 DEF metadata
  <2> QED BY <2>1, <2>2
<1> QED BY <1>1, DocumentsAreKept, PTL

\* A field of a message that was damaged is not sound, where it was one.
DamageShows ==
  source.reader = "message" /\ Object =>
    \A f \in damaged :
      \/ f \in DOMAIN Written(source) /\ ~Sound(document, f)
      \/ /\ f \in DOMAIN Written(source).msg
         /\ Sound(document, "msg") => ~Sound(document.msg, f)

LEMMA DamageShowsStep ==
  ASSUME DocumentInv, DamageShows, [Spoil]_documents
  PROVE  DamageShows'
<1>1. CASE UNCHANGED documents
  <2>1. source' = source /\ document' = document /\ damaged' = damaged
    BY <1>1 DEF documents
  <2>2. Written(source)' = Written(source)
    BY <2>1 DEF Written
  <2> QED BY <2>1, <2>2 DEF DamageShows, Object
<1>2. CASE Spoil
  <2>1. source' = source /\ Object
    BY <1>2 DEF Spoil
  <2>2. Written(source)' = Written(source)
    BY <2>1 DEF Written
  <2> DEFINE was == Written(source)
             doc == document'
             more == damaged'
  <2> SUFFICES ASSUME source.reader = "message", doc \notin {WrongType, Unparsable},
                      NEW f \in more
               PROVE  \/ f \in DOMAIN was /\ ~Sound(doc, f)
                      \/ /\ f \in DOMAIN was.msg
                         /\ Sound(doc, "msg") => ~Sound(doc.msg, f)
    BY <2>1, <2>2 DEF DamageShows, Object
  <2>3. /\ Damaged(document, was, damaged, {"msg"})
        /\ BodyDamaged(document, was, damaged)
    BY <2>1, DamageIs
  <2>4. f \in damaged => \/ f \in DOMAIN was /\ ~Sound(document, f)
                         \/ /\ f \in DOMAIN was.msg
                            /\ Sound(document, "msg") => ~Sound(document.msg, f)
    BY <2>1 DEF DamageShows
  <2> HIDE DEF was, doc, more
  <2>5. ASSUME NEW field \in DOMAIN document \ damaged, doc \in Spoilt(document, field),
               more = damaged \cup {field}
        PROVE  \/ f \in DOMAIN was /\ ~Sound(doc, f)
               \/ /\ f \in DOMAIN was.msg
                  /\ Sound(doc, "msg") => ~Sound(doc.msg, f)
    <3>1. /\ \A g \in DOMAIN document : g # field => g \in DOMAIN doc /\ doc[g] = document[g]
          /\ DOMAIN doc \subseteq DOMAIN document
          /\ field \in DOMAIN doc => doc[field] \in {WrongType, Unparsable}
      BY <2>3, <2>5, SpoiltIs DEF Damaged
    <3>2. \A g : Sound(doc, g) => g # field /\ Sound(document, g) /\ doc[g] = document[g]
      BY <3>1 DEF Sound, Has
    <3>3. CASE f = field
      <4>1. f \in DOMAIN was
        BY <2>3, <2>5, <3>3 DEF Damaged
      <4> QED BY <3>2, <3>3, <4>1
    <3>4. CASE f # field
      <4>1. f \in damaged
        BY <2>5, <3>4
      <4>2. Sound(doc, "msg") => Sound(document, "msg") /\ doc.msg = document.msg
        BY <3>2
      <4> QED BY <2>4, <3>2, <4>1, <4>2
    <3> QED BY <3>3, <3>4
  <2>6. ASSUME Sound(document, "msg"),
               NEW field \in DOMAIN document.msg \ damaged,
               NEW body \in Spoilt(document.msg, field),
               doc = [document EXCEPT !.msg = body],
               more = damaged \cup {field}
        PROVE  \/ f \in DOMAIN was /\ ~Sound(doc, f)
               \/ /\ f \in DOMAIN was.msg
                  /\ Sound(doc, "msg") => ~Sound(doc.msg, f)
    <3>1. Damaged(document.msg, was.msg, damaged, {})
      BY <2>3, <2>6 DEF BodyDamaged
    <3> DEFINE object == document.msg
               before == was.msg
    <3>2. /\ object = [g \in DOMAIN object |-> object[g]]
          /\ DOMAIN object \subseteq DOMAIN before
      BY <3>1 DEF Damaged
    <3>3. field \in DOMAIN object /\ body \in Spoilt(object, field)
      BY <2>6
    <3> HIDE DEF object, before
    <3>4. /\ \A g \in DOMAIN object : g # field => g \in DOMAIN body /\ body[g] = object[g]
          /\ DOMAIN body \subseteq DOMAIN object
          /\ field \in DOMAIN body => body[field] \in {WrongType, Unparsable}
      BY <3>2, <3>3, SpoiltIs
    <3>5. \A g : Sound(body, g) => g # field /\ Sound(object, g)
      BY <3>4 DEF Sound, Has
    <3>6. "msg" \in DOMAIN document /\ document = [g \in DOMAIN document |-> document[g]]
      BY <2>3, <2>6 DEF Sound, Has, Damaged
    <3>7. /\ DOMAIN doc = DOMAIN document
          /\ doc.msg = body
          /\ \A g \in DOMAIN document : g # "msg" => doc[g] = document[g]
      BY <2>6, <3>6
    <3>8. CASE f = field
      BY <3>2, <3>3, <3>5, <3>7, <3>8 DEF before
    <3>9. CASE f # field
      <4>1. f \in damaged
        BY <2>6, <3>9
      <4>2. CASE f \in DOMAIN was /\ ~Sound(document, f)
        <5>1. f # "msg"
          BY <2>6, <4>2
        <5> QED BY <3>7, <4>2, <5>1 DEF Sound, Has
      <4>3. CASE f \in DOMAIN was.msg /\ ~Sound(document.msg, f)
        BY <3>5, <3>7, <4>3 DEF object
      <4> QED BY <2>4, <2>6, <4>1, <4>2, <4>3
    <3> QED BY <3>8, <3>9
  <2>7. CASE \E field \in DOMAIN document \ damaged :
                doc \in Spoilt(document, field) /\ more = damaged \cup {field}
    BY <2>5, <2>7
  <2>8. CASE /\ Sound(document, "msg")
             /\ \E field \in DOMAIN document.msg \ damaged :
                  /\ \E body \in Spoilt(document.msg, field) : doc = [document EXCEPT !.msg = body]
                  /\ more = damaged \cup {field}
    BY <2>6, <2>8
  <2>9. \/ \E field \in DOMAIN document \ damaged :
             doc \in Spoilt(document, field) /\ more = damaged \cup {field}
        \/ /\ Sound(document, "msg")
           /\ \E field \in DOMAIN document.msg \ damaged :
                /\ \E body \in Spoilt(document.msg, field) : doc = [document EXCEPT !.msg = body]
                /\ more = damaged \cup {field}
    BY <1>2 DEF Spoil, doc, more
  <2> QED BY <2>7, <2>8, <2>9
<1> QED BY <1>1, <1>2

LEMMA DamageIsShown == DocumentSpec => [](DocumentInv /\ DamageShows)
<1>1. DocumentInit(Sources) => DamageShows
  BY DEF DocumentInit, DamageShows
<1> QED BY <1>1, DocumentInvInit, DocumentInvStep, DamageShowsStep, PTL DEF DocumentSpec

\* What a complete message is read as.
ParsedAs(result, root) ==
  \/ root.type = "orderbook_snapshot" /\ result = SnapshotOf(root)
  \/ root.type = "orderbook_delta" /\ result = DeltaOf(root)
  \/ root.type = "trade" /\ result = TradeOf(root)
  \/ root.type = "subscribed" /\ result = SubscribedOf(root)
  \/ root.type = "error" /\ result = ErrorOf(root)
  \/ root.type \notin Handled /\ result = [type |-> "unhandled", of |-> root.type]

LEMMA CompleteIsParsed ==
  ASSUME NEW root, root \notin {WrongType, Unparsable}, Complete(root)
  PROVE  ParsedAs(parse_ws_message(root), root)
<1>1. CASE root.type \notin Handled
  <2>1. Sound(root, "type")
    BY DEF Complete
  <2> QED BY <1>1, <2>1, ParseIs DEF ParsedAs
<1>2. CASE root.type \in Handled
  <2>1. Sound(root, "type") /\ Sound(root, "msg")
    BY <1>2 DEF Complete
  <2>2. CASE root.type = "orderbook_snapshot"
    BY <2>1, <2>2, ParseIs, SnapshotRead DEF Complete, ParsedAs
  <2>3. CASE root.type = "orderbook_delta"
    BY <2>1, <2>3, ParseIs, DeltaRead DEF Complete, ParsedAs
  <2>4. CASE root.type = "trade"
    BY <2>1, <2>4, ParseIs, TradeRead DEF Complete, ParsedAs
  <2>5. CASE root.type = "subscribed"
    BY <2>1, <2>5, ParseIs, SubscribedRead DEF Complete, ParsedAs
  <2>6. CASE root.type = "error"
    BY <2>1, <2>6, ParseIs, ErrorRead DEF Complete, ParsedAs
  <2> QED BY <1>2, <2>2, <2>3, <2>4, <2>5, <2>6 DEF Handled
<1> QED BY <1>1, <1>2

LEMMA SentIs ==
  ASSUME DocumentInv, source.reader = "message"
  PROVE  /\ SentMessage(source.of) /\ Written(source) = source.of
         /\ intact = parse_ws_message(source.of) /\ outcome = parse_ws_message(document)
         /\ Complete(source.of) /\ ParsedAs(intact, source.of)
         /\ Object => /\ document \notin {WrongType, Unparsable}
                      /\ Damaged(document, source.of, damaged, {"msg"})
                      /\ BodyDamaged(document, source.of, damaged)
<1>1. source \in Sources
  BY DEF DocumentInv
<1>2. /\ SentMessage(source.of) /\ Written(source) = source.of
      /\ source.of \notin {WrongType, Unparsable}
      /\ intact = parse_ws_message(source.of) /\ outcome = parse_ws_message(document)
  BY <1>1, SourceIs DEF intact, outcome
<1>3. Complete(source.of)
  BY <1>2, ReadIsComplete DEF SentMessage
<1>4. ParsedAs(intact, source.of)
  BY <1>2, <1>3, CompleteIsParsed
<1>5. Object => /\ document \notin {WrongType, Unparsable}
                /\ Damaged(document, source.of, damaged, {"msg"})
                /\ BodyDamaged(document, source.of, damaged)
  BY <1>2, DamageIs
<1> QED BY <1>2, <1>3, <1>4, <1>5

LEMMA MessageIsRead ==
  ASSUME DocumentInv, source.reader = "message", ~Fails(outcome)
  PROVE  /\ Object /\ Complete(document) /\ ParsedAs(outcome, document)
         /\ document.type = source.of.type
         /\ document.type \in Handled =>
              Sound(document, "msg") /\ Damaged(document.msg, source.of.msg, damaged, {})
<1>1. source \in Sources
  BY DEF DocumentInv
<1>2. Object
  BY <1>1, NoObjectIsRefused
<1>3. Complete(document) /\ ParsedAs(outcome, document)
  BY <1>2, SentIs, ReadIsComplete, CompleteIsParsed
<1>4. document.type = source.of.type
  <2>1. "type" \notin {"msg"} /\ Sound(document, "type")
    BY <1>3 DEF Complete
  <2> QED BY <1>2, <2>1, SentIs, SoundStays
<1>5. document.type \in Handled =>
        Sound(document, "msg") /\ Damaged(document.msg, source.of.msg, damaged, {})
  BY <1>2, <1>3, SentIs DEF Complete, BodyDamaged
<1> QED BY <1>2, <1>3, <1>4, <1>5

\* A message is timed by its milliseconds whatever becomes of the seconds, and by
\* the seconds or not at all without them (ws_protocol.cpp:81-97).
THEOREM TheFinestTimeIsTaken == DocumentSpec => []TimeIsTheFinest
<1>1. DocumentInv /\ DamageShows => TimeIsTheFinest
  <2> SUFFICES ASSUME DocumentInv, DamageShows, source.reader = "message", ~Fails(outcome),
                      Has(outcome, "exchange_time")
               PROVE  outcome.exchange_time =
                        (IF Has(source.of.msg, "ts_ms") /\ "ts_ms" \notin damaged
                         THEN intact.exchange_time
                         ELSE IF Sound(document.msg, "ts") THEN document.msg.ts ELSE None)
    BY DEF TimeIsTheFinest
  <2> DEFINE was == source.of
             body == document.msg
             before == was.msg
  <2>1. document.type \in {"orderbook_delta", "trade"}
    <3>1. ParsedAs(outcome, document)
      BY MessageIsRead
    <3>2. /\ ~Has(SnapshotOf(document), "exchange_time")
          /\ ~Has(SubscribedOf(document), "exchange_time")
          /\ ~Has(ErrorOf(document), "exchange_time")
          /\ ~Has([type |-> "unhandled", of |-> document.type], "exchange_time")
      BY DEF Has, SnapshotOf, SubscribedOf, ErrorOf
    <3> QED BY <3>1, <3>2 DEF ParsedAs
  <2>2. /\ outcome.exchange_time = exchange_time(body)
        /\ intact.exchange_time = exchange_time(before)
    <3>1. ParsedAs(outcome, document) /\ ParsedAs(intact, was) /\ document.type = was.type
      BY MessageIsRead, SentIs
    <3>2. CASE document.type = "trade"
      <4>1. outcome = TradeOf(document) /\ intact = TradeOf(was)
        BY <3>1, <3>2 DEF ParsedAs, Handled
      <4> QED BY <4>1 DEF TradeOf
    <3>3. CASE document.type = "orderbook_delta"
      <4>1. outcome = DeltaOf(document) /\ intact = DeltaOf(was)
        BY <3>1, <3>3 DEF ParsedAs, Handled
      <4> QED BY <4>1 DEF DeltaOf
    <3> QED BY <2>1, <3>2, <3>3
  <2>3. Sound(document, "msg") /\ Damaged(body, before, damaged, {})
    BY <2>1, MessageIsRead DEF Handled
  <2>4. Has(was, "msg") /\ Unspoilt(before) /\ DOMAIN was \cap DOMAIN before = {}
    <3>1. Complete(was) /\ SentMessage(was) /\ was.type = document.type
      BY SentIs, MessageIsRead
    <3>2. Sound(was, "msg")
      BY <2>1, <3>1 DEF Complete, Handled
    <3> QED BY <2>1, <3>1, <3>2 DEF SentMessage, Sound
  <2>5. CASE Has(before, "ts_ms") /\ "ts_ms" \notin damaged
    <3>1. Sound(before, "ts_ms")
      BY <2>4, <2>5 DEF Unspoilt, Sound, Has
    <3>2. Sound(body, "ts_ms") /\ body["ts_ms"] = before["ts_ms"]
      <4>1. "ts_ms" \notin {}
        OBVIOUS
      <4> HIDE DEF body, before
      <4> QED BY <2>3, <2>5, <3>1, <4>1, SoundStays
    <3> QED BY <2>2, <2>5, <3>1, <3>2 DEF exchange_time, Otherwise
  <2>6. CASE ~(Has(before, "ts_ms") /\ "ts_ms" \notin damaged)
    <3>1. ~Sound(body, "ts_ms")
      <4>1. CASE ~Has(before, "ts_ms")
        BY <2>3, <4>1 DEF Damaged, Sound, Has
      <4>2. CASE Has(before, "ts_ms") /\ "ts_ms" \in damaged
        <5>1. "ts_ms" \notin DOMAIN was
          BY <2>4, <4>2 DEF Has
        <5>2. Written(source) = was /\ Object
          BY SentIs, MessageIsRead
        <5>3. \/ "ts_ms" \in DOMAIN was /\ ~Sound(document, "ts_ms")
              \/ Sound(document, "msg") => ~Sound(document.msg, "ts_ms")
          BY <4>2, <5>2 DEF DamageShows
        <5> QED BY <2>3, <5>1, <5>3
      <4> QED BY <2>6, <4>1, <4>2
    <3> QED BY <2>2, <2>6, <3>1 DEF exchange_time, Otherwise
  <2> QED BY <2>5, <2>6
<1> QED BY <1>1, DamageIsShown, PTL

LEMMA UnspoiltIsUndamaged ==
  ASSUME NEW object, Unspoilt(object)
  PROVE  /\ \A lost : Damaged(object, object, lost, {})
         /\ \A f \in DOMAIN object : Sound(object, f)
BY DEF Unspoilt, Damaged, Sound, Has

\* Whichever of its fields are left, they tell the direction that all of them did.
LEMMA DirectionIsKept ==
  ASSUME NEW body, NEW was, NEW lost, Damaged(body, was, lost, {}), OneDirection(was),
         Unspoilt(was), Taker(body) # None
  PROVE  book_side_from_string[Taker(body)] = book_side_from_string[Taker(was)]
<1>1. PICK one \in TakerFields : Sound(body, one) /\ Taker(body) = was[one]
  BY TakerIs
<1>2. Sound(was, one)
  <2>1. one \notin {}
    OBVIOUS
  <2> QED BY <1>1, <2>1, SoundStays
<1>3. Damaged(was, was, lost, {})
  BY UnspoiltIsUndamaged
<1>4. Taker(was) # None
  BY <1>2, <1>3, TakerIs
<1>5. PICK other \in TakerFields : Sound(was, other) /\ Taker(was) = was[other]
  BY <1>3, <1>4, TakerIs
<1>6. one \in TakerFields \cap DOMAIN was /\ other \in TakerFields \cap DOMAIN was
  BY <1>2, <1>5 DEF Sound, Has
<1>7. book_side_from_string[was[one]] = book_side_from_string[was[other]]
  BY <1>6 DEF OneDirection
<1> QED BY <1>1, <1>5, <1>7

\* A trade keeps its direction, and is kept, while one of the fields that tell it is
\* left (ws_protocol.cpp:275-290).
THEOREM TheDirectionIsKept == DocumentSpec => []DirectionSurvives
<1>1. DocumentInv => DirectionSurvives
  <2> SUFFICES ASSUME DocumentInv, source.reader = "message", source.of.type = "trade",
                      damaged \subseteq TakerFields, Object,
                      \E field \in TakerFields : Sound(document.msg, field)
               PROVE  ~Fails(outcome) /\ outcome.taker_side = intact.taker_side
    BY DEF DirectionSurvives
  <2> DEFINE was == source.of
  <2>1. /\ SentMessage(was) /\ Complete(was) /\ ParsedAs(intact, was)
        /\ outcome = parse_ws_message(document)
        /\ document \notin {WrongType, Unparsable}
        /\ Damaged(document, was, damaged, {"msg"})
        /\ BodyDamaged(document, was, damaged)
    BY SentIs
  <2>2. /\ "type" \notin damaged /\ "msg" \notin damaged
        /\ \A f \in damaged : f \in TakerFields
    BY DEF TakerFields
  <2>3. was.type = "trade"
    OBVIOUS
  <2> HIDE DEF was
  <2>4. Sound(was, "type") /\ Sound(was, "msg") /\ TradeNames(was) = {}
    BY <2>1, <2>3 DEF Complete, Handled
  <2>5. Sound(document, "type") /\ document.type = "trade"
    <3>1. "type" \notin {"msg"} /\ Has(was, "type")
      BY <2>4 DEF Sound
    <3> QED BY <2>1, <2>2, <2>3, <2>4, <3>1, SoundStays
  <2>6. Sound(document, "msg")
    BY <2>1, <2>2, <2>4 DEF BodyDamaged, Sound, Has
  <2>7. Damaged(document.msg, was.msg, damaged, {}) /\ OneDirection(was.msg) /\ Unspoilt(was.msg)
    BY <2>1, <2>3, <2>4, <2>6 DEF BodyDamaged, SentMessage, Sound
  <2>8. Taker(document.msg) # None
    BY <2>7, TakerIs
  <2>9. TradeNames(document) = {}
    <3>1. TradeNames(document) \ {"taker_side"} \subseteq damaged
      BY <2>1, <2>4, <2>7, NamesAreLost
    <3>2. TradeNames(document) \cap TakerFields = {}
      <4>1. Undirected(document.msg) = {}
        BY <2>8 DEF Undirected
      <4> QED BY <4>1 DEF TradeNames, Missed, Wrong, TakerFields
    <3>3. "taker_side" \in TakerFields
      BY DEF TakerFields
    <3> QED BY <2>2, <3>1, <3>2, <3>3
  <2>10. Complete(document)
    BY <2>5, <2>6, <2>9 DEF Complete
  <2>11. ~Fails(outcome) /\ ParsedAs(outcome, document)
    BY <2>1, <2>10, ReadIsComplete, CompleteIsParsed
  <2>12. outcome = TradeOf(document) /\ intact = TradeOf(was)
    BY <2>1, <2>3, <2>5, <2>11 DEF ParsedAs, Handled
  <2>13. book_side_from_string[Taker(document.msg)] = book_side_from_string[Taker(was.msg)]
    BY <2>7, <2>8, DirectionIsKept
  <2> QED BY <2>11, <2>12, <2>13 DEF TradeOf
<1> QED BY <1>1, DocumentsAreKept, PTL

\* What a sound field is read into is what it was read into before.
LEMMA ValuesStay ==
  ASSUME NEW object, NEW was, NEW lost, NEW aside, Damaged(object, was, lost, aside)
  PROVE  /\ \A f : f \notin aside /\ Sound(object, f) => object[f] = was[f]
         /\ \A f : f \notin aside /\ Missed(object, f) = {} => object[f] = was[f]
         /\ \A f, fallback : f \notin aside =>
              Otherwise(object, f, fallback) \in {Otherwise(was, f, fallback), fallback}
<1>1. \A f : f \notin aside /\ Sound(object, f) => Sound(was, f) /\ object[f] = was[f]
  BY SoundStays
<1>2. \A f : Missed(object, f) = {} => Sound(object, f)
  BY DEF Missed
<1>3. ASSUME NEW f, NEW fallback, f \notin aside
      PROVE  Otherwise(object, f, fallback) \in {Otherwise(was, f, fallback), fallback}
  <2>1. CASE Sound(object, f)
    BY <1>1, <1>3, <2>1 DEF Otherwise
  <2>2. CASE ~Sound(object, f)
    BY <2>2 DEF Otherwise
  <2> QED BY <2>1, <2>2
<1> QED BY <1>1, <1>2, <1>3

\* A side that is not listed is empty, and one that is was always so.
LEMMA SidesStay ==
  ASSUME NEW body, NEW was, NEW lost, Damaged(body, was, lost, {}), NEW side,
         Wrong(body, Listed[side]) = {}
  PROVE  ParsedLevels(Otherwise(body, Listed[side], NoLevels), side)
           = IF Has(body, Listed[side])
             THEN ParsedLevels(Otherwise(was, Listed[side], NoLevels), side) ELSE NoLevels
<1> DEFINE f == Listed[side]
<1> HIDE DEF f
<1>0. Wrong(body, f) = {}
  BY DEF f
<1>1. CASE Has(body, f)
  <2>1. Sound(body, f)
    BY <1>0, <1>1 DEF Wrong
  <2>2. Sound(was, f) /\ body[f] = was[f]
    <3>1. f \notin {}
      OBVIOUS
    <3> QED BY <2>1, <3>1, SoundStays
  <2>3. Otherwise(body, f, NoLevels) = Otherwise(was, f, NoLevels)
    BY <2>1, <2>2 DEF Otherwise
  <2> QED BY <1>1, <2>3 DEF f
<1>2. CASE ~Has(body, f)
  <2>1. Otherwise(body, f, NoLevels) = NoLevels
    BY <1>2 DEF Otherwise, Sound
  <2>2. ParsedLevels(NoLevels, side) = NoLevels
    BY DEF ParsedLevels, NoLevels
  <2> QED BY <1>2, <2>1, <2>2 DEF f
<1> QED BY <1>1, <1>2

LEMMA SnapshotIsNotMisread ==
  ASSUME NEW root, NEW was, NEW lost, Damaged(root, was, lost, {"msg"}),
         Damaged(root.msg, was.msg, lost, {}), SnapshotNames(root) = {}
  PROVE  LET read == SnapshotOf(root)  before == SnapshotOf(was)
         IN  /\ \A side \in Side :
                  read.levels[side] = IF Has(root.msg, Listed[side])
                                      THEN before.levels[side] ELSE NoLevels
             /\ SameOrMissing(Without(read, "levels"), Without(before, "levels"), Fallback)
<1> DEFINE read == SnapshotOf(root)
           before == SnapshotOf(was)
<1>1. /\ Missed(root, "sid") = {} /\ Missed(root, "seq") = {}
      /\ Missed(root.msg, "market_ticker") = {}
      /\ Wrong(root.msg, Listed["Bid"]) = {} /\ Wrong(root.msg, Listed["Ask"]) = {}
  BY DEF SnapshotNames, HeaderNames
<1>2. root["sid"] = was["sid"] /\ root["seq"] = was["seq"]
  <2>1. "sid" \notin {"msg"} /\ "seq" \notin {"msg"}
    OBVIOUS
  <2> QED BY <1>1, <2>1, ValuesStay
<1>3. root.msg["market_ticker"] = was.msg["market_ticker"]
  <2> DEFINE body == root.msg
             old == was.msg
  <2>1. "market_ticker" \notin {} /\ Missed(body, "market_ticker") = {}
    BY <1>1
  <2> HIDE DEF body, old
  <2>2. Damaged(body, old, lost, {})
    BY DEF body, old
  <2>3. body["market_ticker"] = old["market_ticker"]
    BY <2>1, <2>2, ValuesStay
  <2> QED BY <2>3 DEF body, old
<1>4. \A side \in Side : read.levels[side] = IF Has(root.msg, Listed[side])
                                             THEN before.levels[side] ELSE NoLevels
  <2> TAKE side \in Side
  <2>1. Wrong(root.msg, Listed[side]) = {}
    BY <1>1 DEF Side
  <2>2. ParsedLevels(Otherwise(root.msg, Listed[side], NoLevels), side)
          = IF Has(root.msg, Listed[side])
            THEN ParsedLevels(Otherwise(was.msg, Listed[side], NoLevels), side) ELSE NoLevels
    BY <2>1, SidesStay
  <2>3. /\ read.levels[side] = ParsedLevels(Otherwise(root.msg, Listed[side], NoLevels), side)
        /\ before.levels[side] = ParsedLevels(Otherwise(was.msg, Listed[side], NoLevels), side)
    BY DEF SnapshotOf
  <2> QED BY <2>2, <2>3
<1>5. SameOrMissing(Without(read, "levels"), Without(before, "levels"), Fallback)
  <2>1. /\ DOMAIN Without(read, "levels") = {"market_ticker", "subscription", "sequence", "type"}
        /\ DOMAIN Without(before, "levels") = {"market_ticker", "subscription", "sequence", "type"}
    BY DEF Without, SnapshotOf
  <2>2. \A c \in {"market_ticker", "subscription", "sequence", "type"} :
           Without(read, "levels")[c] = read[c] /\ Without(before, "levels")[c] = before[c]
    BY DEF Without, SnapshotOf
  <2>3. \A c \in {"market_ticker", "subscription", "sequence", "type"} : read[c] = before[c]
    BY <1>2, <1>3 DEF SnapshotOf
  <2> QED BY <2>1, <2>2, <2>3 DEF SameOrMissing
<1> QED BY <1>4, <1>5

Untimed(result) ==
  IF Has(result, "exchange_time") THEN Without(result, "exchange_time") ELSE result

LEMMA DeltaIsNotMisread ==
  ASSUME NEW root, NEW was, NEW lost, Damaged(root, was, lost, {"msg"}),
         Damaged(root.msg, was.msg, lost, {}), DeltaNames(root) = {}, DeltaNames(was) = {}
  PROVE  SameOrMissing(Untimed(DeltaOf(root)), Untimed(DeltaOf(was)), Fallback)
<1> DEFINE read == DeltaOf(root)
           before == DeltaOf(was)
           body == root.msg
           old == was.msg
           Parts == {"market_ticker", "subscription", "sequence", "side", "price", "delta", "type"}
<1>1. /\ Missed(root, "sid") = {} /\ Missed(root, "seq") = {}
      /\ Missed(body, "market_ticker") = {} /\ Missed(body, "side") = {}
      /\ Missed(body, "price_dollars") = {} /\ Missed(body, "delta_fp") = {}
      /\ Missed(old, "delta_fp") = {}
  BY DEF DeltaNames, HeaderNames
<1>2. root["sid"] = was["sid"] /\ root["seq"] = was["seq"]
  <2>1. "sid" \notin {"msg"} /\ "seq" \notin {"msg"}
    OBVIOUS
  <2> QED BY <1>1, <2>1, ValuesStay
<1>3. \A f : Missed(body, f) = {} => body[f] = old[f]
  <2> HIDE DEF body, old
  <2>1. Damaged(body, old, lost, {}) /\ \A f : f \notin {}
    BY DEF body, old
  <2> QED BY <2>1, ValuesStay
<1>4. /\ Otherwise(body, "delta_fp", 0) = body["delta_fp"]
      /\ Otherwise(old, "delta_fp", 0) = old["delta_fp"]
  BY <1>1 DEF Otherwise, Missed
<1>5. /\ body["market_ticker"] = old["market_ticker"] /\ body["side"] = old["side"]
      /\ body["price_dollars"] = old["price_dollars"] /\ body["delta_fp"] = old["delta_fp"]
  BY <1>1, <1>3
<1>6. /\ read["market_ticker"] = before["market_ticker"]
      /\ read["subscription"] = before["subscription"]
      /\ read["sequence"] = before["sequence"]
      /\ read["side"] = before["side"]
      /\ read["price"] = before["price"]
      /\ read["delta"] = before["delta"]
      /\ read["type"] = before["type"]
  BY <1>2, <1>4, <1>5 DEF DeltaOf
<1>7. /\ Untimed(read) = [c \in Parts |-> read[c]]
      /\ Untimed(before) = [c \in Parts |-> before[c]]
  BY DEF Untimed, Has, Without, DeltaOf
<1> HIDE DEF read, before
<1>8. \A c \in Parts : read[c] = before[c]
  BY <1>6
<1>9. SameOrMissing(Untimed(read), Untimed(before), Fallback)
  <2> HIDE DEF Parts
  <2> QED BY <1>7, <1>8 DEF SameOrMissing
<1> QED BY <1>9 DEF read, before

LEMMA TradeIsNotMisread ==
  ASSUME NEW root, NEW was, NEW lost, Damaged(root, was, lost, {"msg"}),
         Damaged(root.msg, was.msg, lost, {}), TradeNames(root) = {},
         OneDirection(was.msg), Unspoilt(was.msg)
  PROVE  SameOrMissing(Untimed(TradeOf(root)), Untimed(TradeOf(was)), Fallback)
<1> DEFINE read == TradeOf(root)
           before == TradeOf(was)
           body == root.msg
           old == was.msg
           Parts == {"type", "subscription", "market_ticker", "trade_id", "yes_price", "quantity",
                     "is_block_trade", "taker_side"}
<1>1. /\ Missed(root, "sid") = {}
      /\ Missed(body, "market_ticker") = {} /\ Missed(body, "trade_id") = {}
      /\ Missed(body, "yes_price_dollars") = {} /\ Missed(body, "count_fp") = {}
      /\ Undirected(body) = {}
  BY DEF TradeNames
<1>2. root["sid"] = was["sid"]
  <2>1. "sid" \notin {"msg"}
    OBVIOUS
  <2> QED BY <1>1, <2>1, ValuesStay
<1>3. /\ \A f : Missed(body, f) = {} => body[f] = old[f]
      /\ Otherwise(body, "is_block_trade", FALSE) \in {Otherwise(old, "is_block_trade", FALSE), FALSE}
  <2> HIDE DEF body, old
  <2>1. Damaged(body, old, lost, {}) /\ \A f : f \notin {}
    BY DEF body, old
  <2>2. \A f : Missed(body, f) = {} => body[f] = old[f]
    BY <2>1, ValuesStay
  <2>3. \A f, fallback : Otherwise(body, f, fallback) \in {Otherwise(old, f, fallback), fallback}
    BY <2>1, ValuesStay
  <2> QED BY <2>2, <2>3
<1>4. book_side_from_string[Taker(body)] = book_side_from_string[Taker(old)]
  <2>1. Taker(body) # None
    BY <1>1 DEF Undirected
  <2> QED BY <2>1, DirectionIsKept
<1>5. /\ body["market_ticker"] = old["market_ticker"] /\ body["trade_id"] = old["trade_id"]
      /\ body["yes_price_dollars"] = old["yes_price_dollars"] /\ body["count_fp"] = old["count_fp"]
  BY <1>1, <1>3
<1>6. /\ read["type"] = before["type"]
      /\ read["subscription"] = before["subscription"]
      /\ read["market_ticker"] = before["market_ticker"]
      /\ read["trade_id"] = before["trade_id"]
      /\ read["yes_price"] = before["yes_price"]
      /\ read["quantity"] = before["quantity"]
      /\ read["taker_side"] = before["taker_side"]
  BY <1>2, <1>4, <1>5 DEF TradeOf
<1>7. /\ read["is_block_trade"] = before["is_block_trade"] \/ read["is_block_trade"] = FALSE
      /\ "is_block_trade" \in DOMAIN Fallback /\ Fallback["is_block_trade"] = FALSE
  <2>1. /\ read["is_block_trade"] = Otherwise(body, "is_block_trade", FALSE)
        /\ before["is_block_trade"] = Otherwise(old, "is_block_trade", FALSE)
    BY DEF TradeOf
  <2>2. "is_block_trade" \in DOMAIN Fallback /\ Fallback["is_block_trade"] = FALSE
    BY DEF Fallback
  <2> HIDE DEF read, before, body, old
  <2>3. read["is_block_trade"] = before["is_block_trade"] \/ read["is_block_trade"] = FALSE
    BY <1>3, <2>1
  <2> QED BY <2>2, <2>3
<1>8. /\ Untimed(read) = [c \in Parts |-> read[c]]
      /\ Untimed(before) = [c \in Parts |-> before[c]]
  BY DEF Untimed, Has, Without, TradeOf
<1> HIDE DEF read, before
<1>9. \A c \in Parts : \/ read[c] = before[c]
                       \/ c \in DOMAIN Fallback /\ read[c] = Fallback[c]
  BY <1>6, <1>7
<1>10. SameOrMissing(Untimed(read), Untimed(before), Fallback)
  <2> HIDE DEF Parts
  <2> QED BY <1>8, <1>9 DEF SameOrMissing
<1> QED BY <1>10 DEF read, before

LEMMA SubscribedIsNotMisread ==
  ASSUME NEW root, NEW was, NEW lost, Damaged(root, was, lost, {"msg"}),
         Damaged(root.msg, was.msg, lost, {}), SubscribedNames(root) = {}
  PROVE  SubscribedOf(root) = SubscribedOf(was)
<1> DEFINE body == root.msg
           old == was.msg
<1>1. Missed(root, "id") = {} /\ Missed(body, "channel") = {} /\ Missed(body, "sid") = {}
  BY DEF SubscribedNames
<1>2. root["id"] = was["id"]
  <2>1. "id" \notin {"msg"}
    OBVIOUS
  <2> QED BY <1>1, <2>1, ValuesStay
<1>3. \A f : Missed(body, f) = {} => body[f] = old[f]
  <2> HIDE DEF body, old
  <2>1. Damaged(body, old, lost, {}) /\ \A f : f \notin {}
    BY DEF body, old
  <2> QED BY <2>1, ValuesStay
<1>4. body["channel"] = old["channel"] /\ body["sid"] = old["sid"]
  BY <1>1, <1>3
<1> QED BY <1>2, <1>4 DEF SubscribedOf

LEMMA ErrorIsNotMisread ==
  ASSUME NEW root, NEW was, NEW lost, Damaged(root, was, lost, {"msg"}),
         Damaged(root.msg, was.msg, lost, {}), ErrorNames(root) = {}
  PROVE  SameOrMissing(ErrorOf(root), ErrorOf(was), Fallback)
<1> DEFINE read == ErrorOf(root)
           before == ErrorOf(was)
           body == root.msg
           old == was.msg
           Parts == {"type", "command_id", "code", "message", "market_ticker"}
<1>1. Missed(body, "code") = {} /\ Missed(body, "msg") = {}
  BY DEF ErrorNames
<1>2. Otherwise(root, "id", 0) \in {Otherwise(was, "id", 0), 0}
  <2>1. "id" \notin {"msg"}
    OBVIOUS
  <2> QED BY <2>1, ValuesStay
<1>3. /\ \A f : Missed(body, f) = {} => body[f] = old[f]
      /\ Otherwise(body, "market_ticker", None) \in {Otherwise(old, "market_ticker", None), None}
  <2> HIDE DEF body, old
  <2>1. Damaged(body, old, lost, {}) /\ \A f : f \notin {}
    BY DEF body, old
  <2>2. \A f : Missed(body, f) = {} => body[f] = old[f]
    BY <2>1, ValuesStay
  <2>3. \A f, fallback : Otherwise(body, f, fallback) \in {Otherwise(old, f, fallback), fallback}
    BY <2>1, ValuesStay
  <2> QED BY <2>2, <2>3
<1>4. body["code"] = old["code"] /\ body["msg"] = old["msg"]
  BY <1>1, <1>3
<1>5. /\ read["type"] = before["type"]
      /\ read["code"] = before["code"]
      /\ read["message"] = before["message"]
  BY <1>4 DEF ErrorOf
<1>6. /\ read["command_id"] = Otherwise(root, "id", 0)
      /\ before["command_id"] = Otherwise(was, "id", 0)
      /\ read["market_ticker"] = Otherwise(body, "market_ticker", None)
      /\ before["market_ticker"] = Otherwise(old, "market_ticker", None)
  BY DEF ErrorOf
<1>7. /\ DOMAIN read = Parts /\ DOMAIN before = Parts
  BY DEF ErrorOf
<1>8. /\ "command_id" \in DOMAIN Fallback /\ Fallback["command_id"] = 0
      /\ "market_ticker" \in DOMAIN Fallback /\ Fallback["market_ticker"] = None
  BY DEF Fallback
<1> HIDE DEF read, before, body, old
<1>9. \A c \in Parts : \/ read[c] = before[c]
                       \/ c \in DOMAIN Fallback /\ read[c] = Fallback[c]
  <2>1. read["command_id"] = before["command_id"] \/ read["command_id"] = 0
    BY <1>2, <1>6
  <2>2. read["market_ticker"] = before["market_ticker"] \/ read["market_ticker"] = None
    BY <1>3, <1>6
  <2> QED BY <1>5, <1>8, <2>1, <2>2
<1>10. SameOrMissing(read, before, Fallback)
  <2> HIDE DEF Parts
  <2> QED BY <1>7, <1>9 DEF SameOrMissing
<1> QED BY <1>10 DEF read, before

LEMMA RecordIsNotMisread ==
  ASSUME NEW line, NEW was, NEW lost, Damaged(line, was, lost, {}), RecordNames(line) = {}
  PROVE  SameOrMissing(RecordOf(line).of, RecordOf(was).of, RecordFallback)
<1> DEFINE Fields == RequiredFields \cup OptionalFields
           value(object, f) == IF f \in RequiredFields THEN object[f]
                               ELSE Otherwise(object, f, Nothing)
<1>1. /\ RecordOf(line).of = [f \in Fields |-> value(line, f)]
      /\ RecordOf(was).of = [f \in Fields |-> value(was, f)]
  BY DEF RecordOf
<1>2. \A f \in RequiredFields : Missed(line, f) = {}
  <2>1. /\ KindNames(line) = {}
        /\ Missed(line, "t_local_us") = {} /\ Missed(line, "conn") = {}
        /\ Missed(line, "type") = {} /\ Missed(line, "payload") = {}
    BY DEF RecordNames
  <2>2. KindNames(line) \in {{line.kind}, Missed(line, "kind")}
    BY DEF KindNames
  <2>3. Missed(line, "kind") = {}
    BY <2>1, <2>2
  <2> QED BY <2>1, <2>3 DEF RequiredFields
<1>3. \A f \in Fields : \/ value(line, f) = value(was, f)
                        \/ f \in OptionalFields /\ value(line, f) = Nothing
  <2>1. \A f : f \notin {}
    OBVIOUS
  <2>2. \A f : Missed(line, f) = {} => line[f] = was[f]
    BY <2>1, ValuesStay
  <2>3. \A f, fallback : Otherwise(line, f, fallback) \in {Otherwise(was, f, fallback), fallback}
    BY <2>1, ValuesStay
  <2> QED BY <1>2, <2>2, <2>3
<1>4. /\ DOMAIN RecordFallback = OptionalFields
      /\ \A f \in OptionalFields : RecordFallback[f] = Nothing
  BY DEF RecordFallback
<1> HIDE DEF value, Fields
<1> QED BY <1>1, <1>3, <1>4 DEF SameOrMissing

\* What is read of the bands that are left.
LEMMA BandsAreNotMisread ==
  ASSUME NEW object, NEW was, NEW lost, GridDamaged(object, was, lost),
         Sound(was, "price_ranges"), was.price_ranges \in Grids,
         RefusedBands(ListedBands(object)) = {}, ~SomeThrows(object)
  PROVE  IF Sound(object, "price_ranges")
         THEN /\ DOMAIN BandsOf(object) = DOMAIN BandsOf(was)
              /\ \A i \in DOMAIN BandsOf(object), bound \in Bounds :
                   BandsOf(object)[i][bound] =
                     (IF ~Has(object.price_ranges[i], bound) THEN 0
                      ELSE IF object.price_ranges[i][bound] = NoInteger THEN Cut
                      ELSE BandsOf(was)[i][bound])
         ELSE BandsOf(object) = <<>>
<1> DEFINE list == object.price_ranges
           old == was.price_ranges
           bands(l) == [i \in DOMAIN l |-> [bound \in Bounds |-> BandValue(l[i], bound)]]
<1>1. BandsOf(was) = bands(old)
  BY DEF BandsOf, ListedBands, Otherwise
<1>2. CASE ~Sound(object, "price_ranges")
  <2>1. ListedBands(object) = <<>>
    BY <1>2 DEF ListedBands, Otherwise
  <2> QED BY <1>2, <2>1 DEF BandsOf
<1>3. CASE Sound(object, "price_ranges")
  <2>1. ListedBands(object) = list
    BY <1>3 DEF ListedBands, Otherwise
  <2>2. BandsOf(object) = bands(list)
    BY <2>1 DEF BandsOf
  <2>3. GridLeft(list, old)
    BY <1>3 DEF GridDamaged
  <2>4. \A i \in DOMAIN list : list[i] # WrongType /\ ~Throws(list[i])
    BY <2>1 DEF RefusedBands, SomeThrows
  <2>5. \A i \in DOMAIN old, bound \in Bounds : BandValue(old[i], bound) = old[i][bound]
    BY GridsAreSound
  <2> HIDE DEF list, old
  <2>6. DOMAIN list = DOMAIN old
    BY <2>3 DEF GridLeft
  <2>7. ASSUME NEW i \in DOMAIN list, NEW bound \in Bounds
        PROVE  BandValue(list[i], bound) = IF ~Has(list[i], bound) THEN 0
                                           ELSE IF list[i][bound] = NoInteger THEN Cut
                                           ELSE old[i][bound]
    <3>1. BandLeft(list[i], old[i])
      BY <2>3, <2>4, <2>6 DEF GridLeft
    <3>2. Has(list[i], bound) => list[i][bound] \in {old[i][bound], NoInteger}
      BY <2>4, <3>1 DEF BandLeft, Throws, Sound, Has
    <3> QED BY <3>2 DEF BandValue
  <2>8. /\ DOMAIN bands(list) = DOMAIN list /\ DOMAIN bands(old) = DOMAIN old
        /\ \A i \in DOMAIN list, bound \in Bounds : bands(list)[i][bound] = BandValue(list[i], bound)
        /\ \A i \in DOMAIN old, bound \in Bounds : bands(old)[i][bound] = BandValue(old[i], bound)
    OBVIOUS
  <2> HIDE DEF bands
  <2>9. /\ DOMAIN bands(list) = DOMAIN bands(old)
        /\ \A i \in DOMAIN bands(list), bound \in Bounds :
             bands(list)[i][bound] = IF ~Has(list[i], bound) THEN 0
                                     ELSE IF list[i][bound] = NoInteger THEN Cut
                                     ELSE bands(old)[i][bound]
    BY <2>5, <2>6, <2>7, <2>8
  <2> QED BY <1>1, <1>3, <2>2, <2>9 DEF list, old
<1> QED BY <1>2, <1>3

LEMMA MetadataIsNotMisread ==
  ASSUME NEW object, NEW was, NEW lost, Damaged(object, was, lost, {"price_ranges"}),
         MetadataNames(object) = {}
  PROVE  SameOrMissing(Without(MetadataOf(object).of, "price_ranges"),
                       Without(MetadataOf(was).of, "price_ranges"), MetadataFallback)
<1> DEFINE read == Without(MetadataOf(object).of, "price_ranges")
           before == Without(MetadataOf(was).of, "price_ranges")
           Parts == {"market_ticker", "price_convention", "build"}
<1>1. /\ Missed(object, "market_ticker") = {}
      /\ Unpriced(object) = {}
  BY DEF MetadataNames
<1>2. /\ Missed(object, "market_ticker") = {} => object["market_ticker"] = was["market_ticker"]
      /\ Otherwise(object, "build", "") \in {Otherwise(was, "build", ""), ""}
  <2>1. "market_ticker" \notin {"price_ranges"} /\ "build" \notin {"price_ranges"}
    OBVIOUS
  <2>2. \A f : f \notin {"price_ranges"} /\ Missed(object, f) = {} => object[f] = was[f]
    BY ValuesStay
  <2>3. \A f, fallback : f \notin {"price_ranges"} =>
          Otherwise(object, f, fallback) \in {Otherwise(was, f, fallback), fallback}
    BY ValuesStay
  <2> QED BY <2>1, <2>2, <2>3
<1>3. /\ read["market_ticker"] = object.market_ticker
      /\ read["price_convention"] = IF object.price_convention = "no_leg"
                                    THEN "NoLegPricing" ELSE "YesLegPricing"
      /\ read["build"] = Otherwise(object, "build", "")
      /\ DOMAIN read = Parts
  BY DEF MetadataOf, Without
<1>4. /\ before["market_ticker"] = was.market_ticker
      /\ before["price_convention"] = IF was.price_convention = "no_leg"
                                      THEN "NoLegPricing" ELSE "YesLegPricing"
      /\ before["build"] = Otherwise(was, "build", "")
      /\ DOMAIN before = Parts
  BY DEF MetadataOf, Without
<1>5. /\ DOMAIN MetadataFallback = {"build", "price_convention"}
      /\ MetadataFallback["build"] = ""
      /\ MetadataFallback["price_convention"] = "YesLegPricing"
  BY DEF MetadataFallback
<1> HIDE DEF read, before
<1>6. read["market_ticker"] = before["market_ticker"]
  BY <1>1, <1>2, <1>3, <1>4
<1>7. read["build"] = before["build"] \/ read["build"] = ""
  BY <1>2, <1>3, <1>4, ZenonT(60)
<1>8. read["price_convention"] = before["price_convention"]
      \/ read["price_convention"] = "YesLegPricing"
  <2>1. "price_convention" \in DOMAIN object /\ object.price_convention # WrongType
    BY <1>1 DEF Unpriced, Has
  <2>2. object.price_convention \in {was.price_convention, Unparsable}
    BY <2>1 DEF Damaged
  <2>3. CASE object.price_convention = was.price_convention
    BY <1>3, <1>4, <2>3
  <2>4. CASE object.price_convention = Unparsable
    <3>1. object.price_convention # "no_leg"
      BY <2>4, DocumentsAssumption
    <3> QED BY <1>3, <3>1
  <2> QED BY <2>2, <2>3, <2>4
<1>9. \A c \in Parts : \/ read[c] = before[c]
                       \/ c \in DOMAIN MetadataFallback /\ read[c] = MetadataFallback[c]
  BY <1>5, <1>6, <1>7, <1>8
<1>10. SameOrMissing(read, before, MetadataFallback)
  <2> HIDE DEF Parts
  <2> QED BY <1>3, <1>4, <1>9 DEF SameOrMissing
<1> QED BY <1>10 DEF read, before

\* The fields of a market that must be there.
LEMMA MarketNamesAre ==
  ASSUME NEW object, Unlisted(object) = {}, NEW f \in MarketNames, f \notin MarketOptional
  PROVE  Missed(object, f) = {}
<1>1. /\ AllNames(object, MarketFields) = {} /\ AllNames(object, MarketNumbers) = {}
      /\ Missed(object, "price_ranges") = {} /\ Missed(object, "open_time") = {}
      /\ Missed(object, "close_time") = {}
  BY DEF Unlisted, Gridless
<1>2. /\ \A i \in 1..Len(MarketFields) : Missed(object, MarketFields[i][1]) = {}
      /\ \A i \in 1..Len(MarketNumbers) : Missed(object, MarketNumbers[i][1]) = {}
  BY <1>1 DEF AllNames
<1>3. /\ DOMAIN MarketFields = 1..Len(MarketFields)
      /\ DOMAIN MarketNumbers = 1..Len(MarketNumbers)
  BY DEF MarketFields, MarketNumbers
<1>4. \/ f \in {MarketFields[i][1] : i \in DOMAIN MarketFields}
      \/ f \in {"price_ranges", "open_time", "close_time"}
      \/ f \in {MarketNumbers[i][1] : i \in DOMAIN MarketNumbers}
  BY DEF MarketNames
<1>5. CASE f \in {MarketFields[i][1] : i \in DOMAIN MarketFields}
  BY <1>2, <1>3, <1>5
<1>6. CASE f \in {"price_ranges", "open_time", "close_time"}
  BY <1>1, <1>6
<1>7. CASE f \in {MarketNumbers[i][1] : i \in DOMAIN MarketNumbers}
  BY <1>2, <1>3, <1>7
<1> QED BY <1>4, <1>5, <1>6, <1>7

\* A grid whose bands are all sound is the one that was.
LEMMA SoundGridIsWhole ==
  ASSUME NEW object, NEW was, NEW lost, GridDamaged(object, was, lost),
         was.price_ranges \in Grids, Gridless(object) = {}
  PROVE  object.price_ranges = was.price_ranges
<1> DEFINE list == object.price_ranges
           old == was.price_ranges
<1>1. Sound(object, "price_ranges")
  BY DEF Gridless, Missed
<1>2. GridLeft(list, old)
  BY <1>1 DEF GridDamaged
<1>3. \A i \in DOMAIN list :
         list[i] # WrongType /\ \A b \in Bounds : Sound(list[i], b) /\ list[i][b] # NoInteger
  BY DEF Gridless
<1>4. old = [i \in DOMAIN old |-> old[i]] /\ \A i \in DOMAIN old : old[i] \in [Bounds -> Int]
  BY GridsAreSound
<1> HIDE DEF list, old
<1>5. list = [i \in DOMAIN old |-> list[i]]
      /\ \A i \in DOMAIN old : list[i] = WrongType \/ BandLeft(list[i], old[i])
  BY <1>2 DEF GridLeft
<1>6. ASSUME NEW i \in DOMAIN old
      PROVE  list[i] = old[i]
  <2>1. BandLeft(list[i], old[i]) /\ \A b \in Bounds : Sound(list[i], b) /\ list[i][b] # NoInteger
    BY <1>3, <1>5
  <2> DEFINE band == list[i]
             was1 == old[i]
  <2>2. was1 \in [Bounds -> Int]
    BY <1>4
  <2>3. /\ band = [b \in DOMAIN band |-> band[b]]
        /\ DOMAIN band \subseteq Bounds
        /\ \A b \in DOMAIN band : band[b] \in {was1[b], WrongType, Unparsable, NoInteger}
    BY <2>1 DEF BandLeft
  <2>4. \A b \in Bounds : b \in DOMAIN band /\ band[b] \notin {WrongType, Unparsable, NoInteger}
    BY <2>1 DEF Sound, Has
  <2> HIDE DEF band, was1
  <2>5. band = was1
    BY <2>2, <2>3, <2>4
  <2> QED BY <2>5 DEF band, was1
<1>7. list = old
  BY <1>4, <1>5, <1>6
<1> QED BY <1>7 DEF list, old

LEMMA MarketIsNotMisread ==
  ASSUME NEW object, NEW was, NEW lost, Damaged(object, was, lost, {"price_ranges"}),
         GridDamaged(object, was, lost), was.price_ranges \in Grids,
         Unlisted(object) = {}, DOMAIN was \subseteq MarketNames
  PROVE  SameOrMissing(MarketOf(object).of, MarketOf(was).of, MarketFallback)
<1> DEFINE value(o, f) == IF f \in MarketOptional THEN Otherwise(o, f, Nothing) ELSE o[f]
<1>1. /\ MarketOf(object).of = [f \in DOMAIN object \cup MarketOptional |-> value(object, f)]
      /\ MarketOf(was).of = [f \in DOMAIN was \cup MarketOptional |-> value(was, f)]
  BY DEF MarketOf
<1>2. \A f \in MarketNames : f \notin MarketOptional => Missed(object, f) = {}
  BY MarketNamesAre
<1>3. DOMAIN object \subseteq DOMAIN was
  BY DEF Damaged
<1>4. \A f \in DOMAIN was : f \notin MarketOptional => f \in DOMAIN object
  BY <1>2 DEF Missed, Sound, Has
<1>5. DOMAIN object \cup MarketOptional = DOMAIN was \cup MarketOptional
  BY <1>3, <1>4
<1>6. \A f \in DOMAIN object \cup MarketOptional :
         \/ value(object, f) = value(was, f)
         \/ f \in MarketOptional /\ value(object, f) = Nothing
  <2>1. "price_ranges" \notin MarketOptional
    BY DEF MarketOptional
  <2>2. \A f : Missed(object, f) = {} => object[f] = was[f]
    <3>1. \A f : f \notin {"price_ranges"} /\ Missed(object, f) = {} => object[f] = was[f]
      BY ValuesStay
    <3>2. Gridless(object) = {}
      BY DEF Unlisted
    <3>3. object["price_ranges"] = was["price_ranges"]
      BY <3>2, SoundGridIsWhole
    <3> QED BY <3>1, <3>3
  <2>3. \A f \in MarketOptional : Otherwise(object, f, Nothing) \in {Otherwise(was, f, Nothing), Nothing}
    BY <2>1, ValuesStay
  <2> QED BY <1>2, <1>3, <2>2, <2>3
<1>7. /\ DOMAIN MarketFallback = MarketOptional
      /\ \A f \in MarketOptional : MarketFallback[f] = Nothing
  BY DEF MarketFallback
<1> DEFINE Fields == DOMAIN object \cup MarketOptional
           read == MarketOf(object).of
           before == MarketOf(was).of
<1>8. /\ read = [f \in Fields |-> value(object, f)]
      /\ before = [f \in Fields |-> value(was, f)]
  BY <1>1, <1>5
<1> HIDE DEF value, Fields, read, before
<1>9. \A f \in Fields : \/ read[f] = before[f]
                        \/ f \in DOMAIN MarketFallback /\ read[f] = MarketFallback[f]
  BY <1>6, <1>7, <1>8 DEF Fields
<1>10. SameOrMissing(read, before, MarketFallback)
  BY <1>8, <1>9 DEF SameOrMissing
<1> QED BY <1>10 DEF read, before

\* The types of what is read.
LEMMA TypesAre ==
  /\ \A object : SnapshotOf(object).type = "orderbook_snapshot"
  /\ \A object : DeltaOf(object).type = "orderbook_delta"
  /\ \A object : TradeOf(object).type = "trade"
  /\ \A object : SubscribedOf(object).type = "subscribed"
  /\ \A object : ErrorOf(object).type = "error"
  /\ \A object : RecordOf(object).type = "record"
  /\ \A object : MetadataOf(object).type = "metadata"
  /\ \A object : MarketOf(object).type = "market"
BY DEF SnapshotOf, DeltaOf, TradeOf, SubscribedOf, ErrorOf, RecordOf, MetadataOf, MarketOf

\* What may be said of a message read, by its type.
MessageSame ==
  CASE outcome.type = "orderbook_snapshot" ->
         /\ SidesSame(outcome, intact)
         /\ SameOrMissing(Without(outcome, "levels"), Without(intact, "levels"), Fallback)
    [] outcome.type = "record" -> SameOrMissing(outcome.of, intact.of, RecordFallback)
    [] outcome.type = "metadata" ->
         /\ BandsSame(outcome.of.price_ranges, intact.of.price_ranges)
         /\ SameOrMissing(Without(outcome.of, "price_ranges"),
                          Without(intact.of, "price_ranges"), MetadataFallback)
    [] outcome.type = "market" -> SameOrMissing(outcome.of, intact.of, MarketFallback)
    [] OTHER -> SameOrMissing(Untimed(outcome), Untimed(intact), Fallback)

LEMMA MessageIsNotMisread ==
  ASSUME DocumentInv, source.reader = "message", ~Fails(outcome)
  PROVE  MessageSame
<1> DEFINE was == source.of
<1>1. /\ ParsedAs(outcome, document) /\ ParsedAs(intact, was)
      /\ document.type = was.type /\ Complete(document) /\ Complete(was) /\ SentMessage(was)
      /\ Damaged(document, was, damaged, {"msg"})
      /\ document.type \in Handled => Damaged(document.msg, was.msg, damaged, {})
  BY MessageIsRead, SentIs
<1> HIDE DEF was
<1>2. CASE document.type = "orderbook_snapshot"
  <2>1. outcome = SnapshotOf(document) /\ intact = SnapshotOf(was)
    BY <1>1, <1>2 DEF ParsedAs, Handled
  <2>2. SnapshotNames(document) = {} /\ Damaged(document.msg, was.msg, damaged, {})
    BY <1>1, <1>2 DEF Complete, Handled
  <2>3. /\ \A side \in Side : outcome.levels[side] = IF Has(document.msg, Listed[side])
                                                     THEN intact.levels[side] ELSE NoLevels
        /\ SameOrMissing(Without(outcome, "levels"), Without(intact, "levels"), Fallback)
    BY <1>1, <2>1, <2>2, SnapshotIsNotMisread
  <2>4. SidesSame(outcome, intact)
    BY <2>3 DEF SidesSame
  <2>5. outcome.type = "orderbook_snapshot"
    BY <2>1, TypesAre
  <2> QED BY <2>3, <2>4, <2>5 DEF MessageSame
<1>3. CASE document.type = "orderbook_delta"
  <2>1. outcome = DeltaOf(document) /\ intact = DeltaOf(was)
    BY <1>1, <1>3 DEF ParsedAs, Handled
  <2>2. /\ DeltaNames(document) = {} /\ DeltaNames(was) = {}
        /\ Damaged(document.msg, was.msg, damaged, {})
    BY <1>1, <1>3 DEF Complete, Handled
  <2>3. SameOrMissing(Untimed(outcome), Untimed(intact), Fallback)
    BY <1>1, <2>1, <2>2, DeltaIsNotMisread
  <2>4. outcome.type = "orderbook_delta"
    BY <2>1, TypesAre
  <2> QED BY <2>3, <2>4 DEF MessageSame
<1>4. CASE document.type = "trade"
  <2>1. outcome = TradeOf(document) /\ intact = TradeOf(was)
    BY <1>1, <1>4 DEF ParsedAs, Handled
  <2>2. /\ TradeNames(document) = {} /\ Damaged(document.msg, was.msg, damaged, {})
        /\ OneDirection(was.msg) /\ Unspoilt(was.msg)
    BY <1>1, <1>4 DEF Complete, Handled, SentMessage, Sound
  <2>3. SameOrMissing(Untimed(outcome), Untimed(intact), Fallback)
    BY <1>1, <2>1, <2>2, TradeIsNotMisread
  <2>4. outcome.type = "trade"
    BY <2>1, TypesAre
  <2> QED BY <2>3, <2>4 DEF MessageSame
<1>5. CASE document.type = "subscribed"
  <2>1. outcome = SubscribedOf(document) /\ intact = SubscribedOf(was)
    BY <1>1, <1>5 DEF ParsedAs, Handled
  <2>2. SubscribedNames(document) = {} /\ Damaged(document.msg, was.msg, damaged, {})
    BY <1>1, <1>5 DEF Complete, Handled
  <2>3. outcome = intact
    BY <1>1, <2>1, <2>2, SubscribedIsNotMisread
  <2>4. SameOrMissing(Untimed(outcome), Untimed(intact), Fallback)
    BY <2>3 DEF SameOrMissing
  <2>5. outcome.type = "subscribed"
    BY <2>1, TypesAre
  <2> QED BY <2>4, <2>5 DEF MessageSame
<1>6. CASE document.type = "error"
  <2>1. outcome = ErrorOf(document) /\ intact = ErrorOf(was)
    BY <1>1, <1>6 DEF ParsedAs, Handled
  <2>2. ErrorNames(document) = {} /\ Damaged(document.msg, was.msg, damaged, {})
    BY <1>1, <1>6 DEF Complete, Handled
  <2>3. SameOrMissing(outcome, intact, Fallback)
    BY <1>1, <2>1, <2>2, ErrorIsNotMisread
  <2>4. Untimed(outcome) = outcome /\ Untimed(intact) = intact
    BY <2>1 DEF Untimed, Has, ErrorOf
  <2>5. outcome.type = "error"
    BY <2>1, TypesAre
  <2> QED BY <2>3, <2>4, <2>5 DEF MessageSame
<1>7. CASE document.type \notin Handled
  <2>1. /\ outcome = [type |-> "unhandled", of |-> document.type]
        /\ intact = [type |-> "unhandled", of |-> was.type]
    BY <1>1, <1>7 DEF ParsedAs, Handled
  <2>2. outcome = intact
    BY <1>1, <2>1
  <2>3. SameOrMissing(Untimed(outcome), Untimed(intact), Fallback)
    BY <2>2 DEF SameOrMissing
  <2>4. outcome.type = "unhandled"
    BY <2>1
  <2> QED BY <2>3, <2>4 DEF MessageSame
<1> QED BY <1>1, <1>2, <1>3, <1>4, <1>5, <1>6, <1>7 DEF Handled

\* A document is refused or read as what it was before the damage, however many of
\* its fields and of its bands' numbers are lost or spoilt: nothing is ever read into
\* a price, a size, a number or a direction that was not there
\* (ws_protocol.cpp:193-340, journal.cpp:172-243, market.cpp:86-180), but for an
\* empty side, YES-leg pricing, and a 0 or a cut number in the metadata's grid
\* (replay.cpp:63-88).
THEOREM NothingIsInvented == DocumentSpec => []NothingIsMisread
<1>1. DocumentInv => NothingIsMisread
  <2> SUFFICES ASSUME DocumentInv, ~Fails(outcome), outcome.type = intact.type
               PROVE  MessageSame
    BY DEF NothingIsMisread, MessageSame, Untimed
  <2>0. source \in Sources
    BY DEF DocumentInv
  <2>1. Object
    BY <2>0, NoObjectIsRefused
  <2>2. CASE source.reader = "message"
    BY <2>2, MessageIsNotMisread
  <2>3. CASE source.reader = "record"
    <3> DEFINE was == encode_journal_record(source.of)
    <3>1. /\ outcome = decode_journal_record(document) /\ intact = decode_journal_record(was)
          /\ WrittenRecord(source.of) /\ Unspoilt(was) /\ was \notin {WrongType, Unparsable}
          /\ document \notin {WrongType, Unparsable} /\ Damaged(document, was, damaged, {})
      BY <2>0, <2>1, <2>3, SourceIs, DamageIs DEF outcome, intact
    <3>2. RecordNames(was) = {}
      BY <3>1, LineIs
    <3> HIDE DEF was
    <3>3. outcome = RecordOf(document) /\ RecordNames(document) = {}
      BY <3>1, RecordRead
    <3>4. intact = RecordOf(was)
      BY <3>1, <3>2, RecordRead
    <3>5. SameOrMissing(outcome.of, intact.of, RecordFallback)
      BY <3>1, <3>3, <3>4, RecordIsNotMisread
    <3>6. outcome.type = "record"
      BY <3>3, TypesAre
    <3> QED BY <3>5, <3>6 DEF MessageSame
  <2>4. CASE source.reader = "metadata"
    <3> DEFINE was == encode_session_metadata(source.of)
    <3>1. /\ outcome = decode_session_metadata(document) /\ intact = decode_session_metadata(was)
          /\ WrittenMetadata(source.of) /\ Unspoilt(was) /\ was \notin {WrongType, Unparsable}
          /\ document \notin {WrongType, Unparsable}
          /\ Damaged(document, was, damaged, {"price_ranges"})
          /\ GridDamaged(document, was, damaged)
      BY <2>0, <2>1, <2>4, SourceIs, DamageIs DEF outcome, intact
    <3>2. /\ MetadataNames(was) = {} /\ ~SomeThrows(was)
          /\ Sound(was, "price_ranges") /\ was.price_ranges \in Grids
      BY <3>1, HeadingIs DEF WrittenMetadata
    <3> HIDE DEF was
    <3>3. intact = MetadataOf(was)
      BY <3>1, <3>2, MetadataRead
    <3>4. MetadataNames(document) = {} /\ outcome = MetadataOf(document) /\ ~SomeThrows(document)
      <4>1. outcome = IF SomeThrows(document) THEN [type |-> "thrown"] ELSE MetadataOf(document)
        BY <3>1, MetadataRead
      <4>2. outcome.type = "metadata"
        BY <3>3, TypesAre
      <4>3. ~SomeThrows(document)
        BY <4>1, <4>2
      <4> QED BY <3>1, <4>1, <4>3, MetadataRead
    <3>5. SameOrMissing(Without(outcome.of, "price_ranges"), Without(intact.of, "price_ranges"),
                        MetadataFallback)
      BY <3>1, <3>3, <3>4, MetadataIsNotMisread
    <3>6. BandsSame(outcome.of.price_ranges, intact.of.price_ranges)
      <4>1. RefusedBands(ListedBands(document)) = {}
        BY <3>4 DEF MetadataNames, Unbanded
      <4>2. /\ outcome.of.price_ranges = BandsOf(document)
            /\ intact.of.price_ranges = BandsOf(was)
        BY <3>3, <3>4 DEF MetadataOf
      <4> QED BY <3>1, <3>2, <3>4, <4>1, <4>2, BandsAreNotMisread DEF BandsSame
    <3>7. outcome.type = "metadata"
      BY <3>4, TypesAre
    <3> QED BY <3>5, <3>6, <3>7 DEF MessageSame
  <2>5. CASE source.reader = "market"
    <3> DEFINE was == source.of
    <3>1. /\ outcome = read_market(document) /\ intact = read_market(was)
          /\ ListedMarket(was) /\ was \notin {WrongType, Unparsable}
          /\ document \notin {WrongType, Unparsable}
          /\ Damaged(document, was, damaged, {"price_ranges"})
          /\ GridDamaged(document, was, damaged)
      BY <2>0, <2>1, <2>5, SourceIs, DamageIs DEF outcome, intact
    <3>2. /\ ~Fails(intact) /\ DOMAIN was \subseteq MarketNames
          /\ was.price_ranges \in Grids
      BY <3>1 DEF ListedMarket
    <3> HIDE DEF was
    <3>3. outcome = MarketOf(document) /\ Unlisted(document) = {}
      BY <3>1, MarketRead
    <3>4. intact = MarketOf(was)
      BY <3>1, <3>2, MarketRead
    <3>5. SameOrMissing(outcome.of, intact.of, MarketFallback)
      BY <3>1, <3>2, <3>3, <3>4, MarketIsNotMisread
    <3>6. outcome.type = "market"
      BY <3>3, TypesAre
    <3> QED BY <3>5, <3>6 DEF MessageSame
  <2> QED BY <2>0, <2>2, <2>3, <2>4, <2>5, SourceIs
<1> QED BY <1>1, DocumentsAreKept, PTL

-----------------------------------------------------------------------------
(***************************************************************************)
(* All conversions together.                                               *)
(***************************************************************************)
\* A conversion does with its own variables what it does on its own, and with those
\* of the others nothing.
THEOREM ConversionsDoNotMeet == Spec => DecimalSpec /\ TimeSpec /\ DocumentSpec
<1>1. Init => /\ DecimalInit(Texts, Forms)
              /\ TimeInit(Midnights)
              /\ DocumentInit(Sources)
  <2>1. /\ IdleText \subseteq Texts /\ IdleForm \subseteq Forms
        /\ IdleMidnight \subseteq Midnights /\ IdleSource \subseteq Sources
    BY ConversionsAssumption DEF IdleText, IdleForm, IdleMidnight, IdleSource
  <2>2. \A texts \in SUBSET Texts, forms \in SUBSET Forms :
           DecimalInit(texts, forms) => DecimalInit(Texts, Forms)
    BY DEF DecimalInit
  <2>3. \A midnights \in SUBSET Midnights : TimeInit(midnights) => TimeInit(Midnights)
    BY DEF TimeInit
  <2>4. \A sources \in SUBSET Sources : DocumentInit(sources) => DocumentInit(Sources)
    BY DEF DocumentInit
  <2> QED BY <2>1, <2>2, <2>3, <2>4 DEF Init
<1>2. [Next]_conversions => /\ [DecimalNext]_decimal
                            /\ [Tick]_clock
                            /\ [Spoil]_documents
  BY DEF Next, conversions
<1> QED BY <1>1, <1>2, PTL DEF Spec, DecimalSpec, TimeSpec, DocumentSpec

\* Every reading and every writing keeps what is said of it.
THEOREM ConversionsAreRight ==
  Spec => /\ [](NothingWraps /\ ReadsWhatItSays /\ FormatIsInverse)
          /\ [](WrittenAsShown /\ ZonesAgree /\ NothingIsFolded)
          /\ StampsSort
          /\ [](NothingIsMisread /\ TheDamagedFieldIsNamed /\ DirectionSurvives
                 /\ TimeIsTheFinest /\ WhatIsWrittenIsRead)
BY ConversionsDoNotMeet, NothingEverWraps, DecimalsAreReadRight, FormattingIsTheInverse,
   TimesAreWrittenAsShown, ZonesTellTheSameTime, NoMomentIsFolded, StampsAreSorted,
   NothingIsInvented, TheRightFieldIsNamed, TheDirectionIsKept, TheFinestTimeIsTaken,
   TheJournalIsReadBack, PTL
=============================================================================
