----------------------- MODULE ConsistencyMath_proofs -----------------------
(***************************************************************************)
(* Proofs about ConsistencyMath, for every market of two or three outcomes *)
(* with odds up to 64.  A sum of doubles has four digits, and what becomes *)
(* of its first digit, the only one the verdict looks at, when it is       *)
(* multiplied by a million and rounded gives the sign of the margin.       *)
(*                                                                         *)
(* What a double is worth is a natural number of units of 2^-60, and each  *)
(* of the six roundings of a market moves it by at most 512 of them.  With *)
(* P the product of the odds in halves, the exact sum differs from 1 by a  *)
(* multiple of 1/P, and P is at most 2^21: the roundings never decide on   *)
(* which side of 1 the sum of a market is that is not exactly 1.           *)
(***************************************************************************)
EXTENDS ConsistencyMath, DataTheorems

(* A range up to a literal is spelt out for the provers element by         *)
(* element: 0 .. B - 1 is said with an inequality.                         *)
Digit(d) == d \in Nat /\ d < B

Digits(x) == x[1] \in Nat /\ Digit(x[2]) /\ Digit(x[3]) /\ Digit(x[4])

(* Carrying leaves digits, whatever it starts from.                        *)
LEMMA NormalDigits ==
  ASSUME NEW x, x[1] \in Nat, x[2] \in Nat, x[3] \in Nat, x[4] \in Nat
  PROVE  Digits(Normal(x))
<1> DEFINE b == x[3] + x[4] \div B
           a == x[2] + b \div B
<1>1. b \in Nat /\ a \in Nat
  BY SMT DEF Digit, B
<1>2. Normal(x) = <<x[1] + a \div B, a % B, b % B, x[4] % B>>
  BY DEF Normal
<1> HIDE DEF a, b
<1>3. /\ x[1] + a \div B \in Nat
      /\ Digit(a % B) /\ Digit(b % B) /\ Digit(x[4] % B)
  BY <1>1, SMT DEF Digit, B
<1> QED BY <1>2, <1>3, SMT DEF Digits

(* The unit of the last place is a small power of two.                     *)
Units == {4, 8, 16, 32, 64, 128, 256, 512}

LEMMA UlpIsUnit ==
  ASSUME NEW x, x[1] \in Nat, Digit(x[2])
  PROVE  Ulp(x) \in Units
<1>1. \E u \in {4, 8, 16, 32, 64, 128} : x[2] < 8192 * u /\ (u = 4 \/ x[2] >= 4096 * u)
  <2>1. CASE x[2] < 8192 * 4
    BY <2>1
  <2>2. CASE x[2] >= 4096 * 8 /\ x[2] < 8192 * 8
    BY <2>2
  <2>3. CASE x[2] >= 4096 * 16 /\ x[2] < 8192 * 16
    BY <2>3
  <2>4. CASE x[2] >= 4096 * 32 /\ x[2] < 8192 * 32
    BY <2>4
  <2>5. CASE x[2] >= 4096 * 64 /\ x[2] < 8192 * 64
    BY <2>5
  <2>6. CASE x[2] >= 4096 * 128 /\ x[2] < 8192 * 128
    BY <2>6
  <2>7. x[2] \in Nat /\ x[2] < 1048576
    BY SMT DEF Digit, B
  <2> QED BY <2>1, <2>2, <2>3, <2>4, <2>5, <2>6, <2>7
<1> DEFINE last == CHOOSE u \in {4, 8, 16, 32, 64, 128} :
                     x[2] < 8192 * u /\ (u = 4 \/ x[2] >= 4096 * u)
<1>2. last \in {4, 8, 16, 32, 64, 128}
  BY <1>1
<1>3. Ulp(x) = IF x[1] >= 2 THEN 512 ELSE IF x[1] = 1 THEN 256 ELSE last
  BY DEF Ulp
<1> HIDE DEF last
<1> QED BY <1>2, <1>3 DEF Units

(* So is a rounded double one of digits.                                   *)
LEMMA RoundDigits ==
  ASSUME NEW x, Digits(x), NEW sticky \in BOOLEAN
  PROVE  Digits(RoundDouble(x, sticky))
<1> DEFINE u    == Ulp(x)
           rest == x[4] % u
           even == (x[4] \div u) % 2 = 0
           up   == 2 * rest > u \/ (2 * rest = u /\ (sticky \/ ~even))
           y    == <<x[1], x[2], x[3], x[4] - rest + (IF up THEN u ELSE 0)>>
<1>1. RoundDouble(x, sticky) = Normal(y)
  BY DEF RoundDouble
<1>2. u \in Units
  BY UlpIsUnit, SMT DEF Digits
<1>3. x[1] \in Nat /\ x[2] \in Nat /\ x[3] \in Nat /\ x[4] \in Nat
  BY SMT DEF Digits, Digit, B
<1>4. x[4] - rest \in Nat
  <2> HIDE DEF u
  <2>1. \A v \in Units : x[4] - (x[4] % v) \in Nat
    BY <1>3 DEF Units
  <2> QED BY <1>2, <2>1
<1>5. u \in Nat
  BY <1>2 DEF Units
<1> HIDE DEF u, rest, up
<1>6. x[4] - rest + (IF up THEN u ELSE 0) \in Nat
  BY <1>4, <1>5
<1>7. y[1] \in Nat /\ y[2] \in Nat /\ y[3] \in Nat /\ y[4] \in Nat
  BY <1>3, <1>6
<1> HIDE DEF y
<1> QED BY <1>1, <1>7, NormalDigits

LEMMA AddDigits ==
  ASSUME NEW x, NEW y, Digits(x), Digits(y)
  PROVE  Digits(Add(x, y))
<1> DEFINE z == [i \in 1 .. 4 |-> x[i] + y[i]]
<1>1. z[1] \in Nat /\ z[2] \in Nat /\ z[3] \in Nat /\ z[4] \in Nat
  BY SMT DEF Digits, Digit, B
<1>2. Add(x, y) = RoundDouble(Normal(z), FALSE)
  BY DEF Add
<1> HIDE DEF z
<1> QED BY <1>1, <1>2, NormalDigits, RoundDigits

LEMMA ProbabilityDigits ==
  ASSUME NEW n \in 1 .. 128
  PROVE  Digits(ImpliedProbability(n))
<1>1. CASE n <= 2
  BY <1>1, SMT DEF ImpliedProbability, One, Digits, Digit, B
<1>2. CASE n > 2
  <2> DEFINE r1 == (2 * B) % n
             r2 == (r1 * B) % n
             x  == <<0, (2 * B) \div n, (r1 * B) \div n, (r2 * B) \div n>>
  <2>1. ImpliedProbability(n) = RoundDouble(x, (r2 * B) % n # 0)
    BY <1>2 DEF ImpliedProbability, Reciprocal
  <2>2. \A m \in 3 .. 128 : Digit((2 * B) \div m)
    BY SMT DEF Digit, B
  <2>3. \A m \in 3 .. 128, r \in 0 .. 127 : r < m => Digit((r * B) \div m)
    BY SMT DEF Digit, B
  <2>4. r1 \in 0 .. 127 /\ r1 < n /\ r2 \in 0 .. 127 /\ r2 < n
    BY <1>2, SMT DEF Digit, B
  <2> HIDE DEF r1, r2
  <2>5. Digits(x)
    BY <1>2, <2>2, <2>3, <2>4, SMT DEF Digits, Digit, B
  <2> HIDE DEF x
  <2> QED BY <2>1, <2>5, RoundDigits
<1> QED BY <1>1, <1>2

-----------------------------------------------------------------------------
(* A market is a sequence of two or three odds.                            *)
LEMMA VectorIsSequence ==
  ASSUME NEW v \in OddsVectors
  PROVE  Len(v) \in Nat /\ \A i \in 1 .. Len(v) : v[i] \in 1 .. 128
<1>1. PICK n \in {2, 3} : v \in [1 .. n -> 1 .. 128]
  BY OddsAssumption
<1>2. v \in Seq(1 .. 128) /\ Len(v) = n
  BY <1>1
<1> QED BY <1>1, <1>2

(* The sums of the first outcomes are a function that satisfies the        *)
(* equation of the loop, for as many outcomes as there are.                *)
SumsOf(v, g, n) ==
  [i \in 0 .. n |-> IF i = 0 THEN Zero ELSE Add(g[i - 1], ImpliedProbability(v[i]))]

LEMMA SumsExist ==
  ASSUME NEW v, NEW n \in Nat
  PROVE  \E g : g = SumsOf(v, g, n)
<1> DEFINE P == {k \in Nat : \E g : g = SumsOf(v, g, k)}
<1>1. 0 \in P
  <2> DEFINE g == [i \in 0 .. 0 |-> Zero]
  <2>1. g = SumsOf(v, g, 0)
    BY DEF SumsOf
  <2> QED BY <2>1
<1>2. ASSUME NEW k \in P PROVE k + 1 \in P
  <2>1. PICK g : g = SumsOf(v, g, k)
    BY <1>2
  <2> DEFINE h == [i \in 0 .. k + 1 |->
                     IF i = k + 1 THEN Add(g[k], ImpliedProbability(v[k + 1])) ELSE g[i]]
  <2>2. k \in Nat /\ k + 1 \in Nat
    OBVIOUS
  <2>3. \A i \in 0 .. k : g[i] = IF i = 0 THEN Zero ELSE Add(g[i - 1], ImpliedProbability(v[i]))
    BY <2>1, Zenon DEF SumsOf
  <2>4. ASSUME NEW i \in 0 .. k + 1
        PROVE  h[i] = IF i = 0 THEN Zero ELSE Add(h[i - 1], ImpliedProbability(v[i]))
    <3>1. CASE i = k + 1
      <4>1. h[i] = Add(g[k], ImpliedProbability(v[k + 1])) /\ h[i - 1] = g[k] /\ i - 1 = k /\ i # 0
        BY <3>1, <2>2
      <4> QED BY <4>1, <3>1
    <3>2. CASE i \in 0 .. k
      <4>1. h[i] = g[i] /\ (i # 0 => h[i - 1] = g[i - 1])
        BY <3>2, <2>2
      <4> QED BY <4>1, <3>2, <2>3
    <3> QED BY <3>1, <3>2, <2>2
  <2>5. h = SumsOf(v, h, k + 1)
    BY <2>4, Zenon DEF SumsOf
  <2> QED BY <2>2, <2>5
<1>3. P = Nat
  <2> HIDE DEF P
  <2>1. P \in SUBSET Nat
    BY DEF P
  <2> QED BY <1>1, <1>2, <2>1, NatSetInduction
<1> QED BY <1>3

(* Whatever the market, what the loop sums up has digits.                  *)
LEMMA SummedDigits ==
  ASSUME NEW v \in OddsVectors
  PROVE  Digits(Summed(v))
<1> DEFINE n   == Len(v)
           sum == CHOOSE g : g = SumsOf(v, g, n)
<1>1. n \in Nat /\ \A i \in 1 .. n : v[i] \in 1 .. 128
  BY VectorIsSequence
<1>2. Summed(v) = sum[n]
  BY DEF Summed, SumsOf
<1> HIDE DEF n
<1>3. sum = SumsOf(v, sum, n)
  BY <1>1, SumsExist
<1> HIDE DEF sum
<1>4. \A i \in 0 .. n : sum[i] = IF i = 0 THEN Zero ELSE Add(sum[i - 1], ImpliedProbability(v[i]))
  BY <1>3, Zenon DEF SumsOf
<1> DEFINE P == {k \in Nat : k <= n => Digits(sum[k])}
<1>5. 0 \in P
  BY <1>1, <1>4, SMT DEF Zero, Digits, Digit, B
<1>6. ASSUME NEW k \in P PROVE k + 1 \in P
  <2> SUFFICES ASSUME k + 1 <= n PROVE Digits(sum[k + 1])
    OBVIOUS
  <2>1. k + 1 \in 0 .. n /\ k + 1 \in 1 .. n /\ k + 1 # 0 /\ k + 1 - 1 = k
    BY <1>1
  <2>2. Digits(sum[k])
    BY <1>1
  <2>3. sum[k + 1] = Add(sum[k], ImpliedProbability(v[k + 1]))
    BY <1>4, <2>1
  <2>4. Digits(ImpliedProbability(v[k + 1]))
    BY <1>1, <2>1, ProbabilityDigits
  <2> QED BY <2>2, <2>3, <2>4, AddDigits
<1>7. P = Nat
  <2> HIDE DEF P
  <2>1. P \in SUBSET Nat
    BY DEF P
  <2> QED BY <1>5, <1>6, <2>1, NatSetInduction
<1> QED BY <1>1, <1>2, <1>7

-----------------------------------------------------------------------------
(* A thousand times a double below one is below a thousand.                *)
LEMMA ThousandTimes ==
  ASSUME NEW x, Digits(x)
  PROVE  /\ Digits(Times1000(x))
         /\ Times1000(x)[1] >= 1000 * x[1] /\ Times1000(x)[1] <= 1000 * x[1] + 999
<1> DEFINE y == [i \in 1 .. 4 |-> x[i] * 1000]
           b == y[3] + y[4] \div B
           a == y[2] + b \div B
<1>1. Times1000(x) = Normal(y) /\ Normal(y)[1] = y[1] + a \div B
  BY DEF Times1000, Normal
<1>2. y[1] = x[1] * 1000 /\ y[2] = x[2] * 1000 /\ y[3] = x[3] * 1000 /\ y[4] = x[4] * 1000
  OBVIOUS
<1> HIDE DEF y
<1>3. x[1] \in Nat /\ Digit(x[2]) /\ Digit(x[3]) /\ Digit(x[4])
  BY SMT DEF Digits
<1>4. y[2] \in Nat /\ y[2] <= 1000 * B - 1000 /\ y[3] \in Nat /\ y[3] <= 1000 * B - 1000
  BY <1>2, <1>3, SMT DEF Digit, B
<1>5. \A d \in Nat : d < 1000 * B => d \div B \in 0 .. 999
  BY SMT DEF B
<1>6. b \in Nat /\ b < 1000 * B
  <2>1. y[4] \in Nat /\ y[4] < 1000 * B
    BY <1>2, <1>3, SMT DEF Digit, B
  <2>2. y[4] \div B \in 0 .. 999
    BY <1>5, <2>1, SMTT(60)
  <2> QED BY <1>4, <2>2, SMTT(60) DEF B
<1> HIDE DEF b
<1>7. a \div B \in 0 .. 999
  <2>1. b \div B \in 0 .. 999
    BY <1>5, <1>6, SMTT(60)
  <2>2. a \in Nat /\ a < 1000 * B
    BY <1>4, <2>1, SMTT(60) DEF B
  <2> QED BY <1>5, <2>2, SMTT(60)
<1> HIDE DEF a
<1>8. y[1] \in Nat /\ y[2] \in Nat /\ y[3] \in Nat /\ y[4] \in Nat
  BY <1>2, <1>3, SMT DEF Digit, B
<1>9. Digits(Normal(y))
  BY <1>8, NormalDigits
<1>10. y[1] + a \div B >= 1000 * x[1] /\ y[1] + a \div B <= 1000 * x[1] + 999
  BY <1>2, <1>3, <1>7, SMTT(60)
<1> QED BY <1>1, <1>9, <1>10

(* The margin has the sign of the verdict.                                 *)
LEMMA MarginFollowsVerdict ==
  ASSUME NEW sum, Digits(sum)
  PROVE  /\ RoundedMargin(sum) \in Int
         /\ IsConsistent(sum) => RoundedMargin(sum) >= 0
         /\ ~IsConsistent(sum) => RoundedMargin(sum) <= 0
<1> DEFINE y == Times1000(sum)
           x == Times1000(y)
<1>1. Digits(y) /\ y[1] >= 1000 * sum[1] /\ y[1] <= 1000 * sum[1] + 999
  BY ThousandTimes
<1> HIDE DEF y
<1>2. Digits(x) /\ x[1] >= 1000 * y[1] /\ x[1] <= 1000 * y[1] + 999
  BY <1>1, ThousandTimes
<1>3. RoundedMargin(sum) = x[1] + (IF x[2] >= B \div 2 THEN 1 ELSE 0) - 1000000
  BY DEF RoundedMargin, y
<1> HIDE DEF x
<1>4. x[1] \in Nat /\ y[1] \in Nat /\ sum[1] \in Nat
  BY <1>1, <1>2, SMT DEF Digits
<1> QED BY <1>1, <1>2, <1>3, <1>4 DEF IsConsistent

LEMMA ClampKeepsSign ==
  ASSUME NEW m \in Int, NEW down \in BOOLEAN
  PROVE  (m >= 0 => MarginToBps(m, down) >= 0) /\ (m <= 0 => MarginToBps(m, down) <= 0)
<1>1. PICK h \in {49, 50} : MarginToBps(m, down) = Clamp((m + h) \div 100, -10000, 10000)
  BY DEF MarginToBps
<1>2. (m >= 0 => (m + h) \div 100 >= 0) /\ (m <= 0 => (m + h) \div 100 <= 0) /\ (m + h) \div 100 \in Int
  OBVIOUS
<1> QED BY <1>1, <1>2 DEF Clamp

-----------------------------------------------------------------------------
(* A result is that of a check of these odds, whichever way a tie went.    *)
Checked ==
  /\ odds \in OddsVectors
  /\ result # None => \E down \in BOOLEAN : result = CheckConsistency(odds, down)

LEMMA ResultIsChecked == Spec => []Checked
<1>1. Init => Checked
  BY DEF Init, Checked
<1>2. Checked /\ [Next]_vars => Checked'
  BY DEF Next, Check, vars, Checked
<1> QED BY <1>1, <1>2, PTL DEF Spec

(* The check reports a margin, and sends a clamped one on chain, that do   *)
(* not contradict its verdict, whatever the odds of the market.            *)
THEOREM MarginsAgree == Spec => []ReportedMarginAgrees
<1>1. Checked => ReportedMarginAgrees
  <2> SUFFICES ASSUME Checked, result # None
               PROVE  /\ result.isConsistent  => result.margin >= 0 /\ result.marginBps >= 0
                      /\ ~result.isConsistent => result.margin <= 0 /\ result.marginBps <= 0
    BY DEF ReportedMarginAgrees
  <2> DEFINE sum == Summed(odds)
             m   == RoundedMargin(sum)
  <2>1. PICK down \in BOOLEAN :
          result = [isConsistent |-> IsConsistent(sum), margin |-> m, marginBps |-> MarginToBps(m, down)]
    BY DEF Checked, CheckConsistency
  <2>2. Digits(sum)
    BY SummedDigits DEF Checked
  <2> HIDE DEF sum
  <2>3. m \in Int /\ (IsConsistent(sum) => m >= 0) /\ (~IsConsistent(sum) => m <= 0)
    BY <2>2, MarginFollowsVerdict
  <2> HIDE DEF m
  <2>4. (m >= 0 => MarginToBps(m, down) >= 0) /\ (m <= 0 => MarginToBps(m, down) <= 0)
    BY <2>3, ClampKeepsSign
  <2>5. result.isConsistent = IsConsistent(sum) /\ result.margin = m /\ result.marginBps = MarginToBps(m, down)
    BY <2>1, Zenon
  <2> QED BY <2>3, <2>4, <2>5
<1> QED BY <1>1, ResultIsChecked, PTL
-----------------------------------------------------------------------------
(* What a double is worth, in units of 2^-60.                              *)
Value(x) == x[4] + B * (x[3] + B * (x[2] + B * x[1]))

Unit == B * B * B

LEMMA UnitIs == Unit = 1152921504606846976
BY SMT DEF Unit, B

(* The verdict compares this value with 1.                                 *)
LEMMA ConsistentValue ==
  ASSUME NEW x, Digits(x)
  PROVE  Value(x) \in Nat /\ (IsConsistent(x) <=> Value(x) >= Unit)
<1>1. x[1] \in Nat /\ Digit(x[2]) /\ Digit(x[3]) /\ Digit(x[4])
  BY SMT DEF Digits
<1>2. Value(x) \in Nat
  BY <1>1, SMT DEF Digit, Value, B
<1>3. x[1] >= 1 => Value(x) >= Unit
  BY <1>1, SMT DEF Digit, Value, Unit, B
<1>4. x[1] = 0 => Value(x) < Unit
  BY <1>1, SMT DEF Digit, Value, Unit, B
<1> QED BY <1>1, <1>2, <1>3, <1>4, UnitIs, SMT DEF IsConsistent

(* Carrying does not change it.                                            *)
LEMMA NormalValue ==
  ASSUME NEW x, x[1] \in Nat, x[2] \in Nat, x[3] \in Nat, x[4] \in Nat
  PROVE  Value(Normal(x)) = Value(x) /\ Normal(x)[1] >= x[1]
<1> DEFINE b == x[3] + x[4] \div B
           a == x[2] + b \div B
<1>1. b \in Nat /\ a \in Nat
  BY SMT DEF B
<1>2. Normal(x) = <<x[1] + a \div B, a % B, b % B, x[4] % B>>
  BY DEF Normal
<1>3. x[4] = B * (x[4] \div B) + (x[4] % B)
  BY SMT DEF B
<1> HIDE DEF b
<1>4. b = B * (b \div B) + (b % B)
  BY <1>1, SMT DEF B
<1> HIDE DEF a
<1>5. a = B * (a \div B) + (a % B) /\ a \div B \in Nat
  BY <1>1, SMT DEF B
<1>6. PICK n : n = Normal(x)
  OBVIOUS
<1>7. n[1] = x[1] + a \div B /\ n[2] = a % B /\ n[3] = b % B /\ n[4] = x[4] % B
  BY <1>2, <1>6
<1>8. n[4] + B * (n[3] + B * (n[2] + B * n[1])) = x[4] + B * (x[3] + B * (x[2] + B * x[1]))
  <2>1. x[4] \div B \in Nat /\ x[4] % B \in Nat /\ b \div B \in Nat /\ b % B \in Nat /\ a % B \in Nat
    BY <1>1, SMT DEF B
  <2>2. b = x[3] + x[4] \div B /\ a = x[2] + b \div B
    BY DEF a, b
  <2> QED BY <1>3, <1>4, <1>5, <1>7, <2>1, <2>2, SMTT(60) DEF B
<1>9. n[1] >= x[1]
  BY <1>5, <1>7
<1> QED BY <1>6, <1>8, <1>9 DEF Value

(* Rounding moves it by a unit of the last place at most, and not below an *)
(* integer.                                                                *)
LEMMA RoundValue ==
  ASSUME NEW x, Digits(x), NEW sticky \in BOOLEAN
  PROVE  /\ RoundDouble(x, sticky)[1] >= x[1]
         /\ Value(RoundDouble(x, sticky)) <= Value(x) + 512
         /\ Value(x) <= Value(RoundDouble(x, sticky)) + 512
<1> DEFINE u    == Ulp(x)
           rest == x[4] % u
           even == (x[4] \div u) % 2 = 0
           up   == 2 * rest > u \/ (2 * rest = u /\ (sticky \/ ~even))
           y    == <<x[1], x[2], x[3], x[4] - rest + (IF up THEN u ELSE 0)>>
<1>1. RoundDouble(x, sticky) = Normal(y)
  BY DEF RoundDouble
<1>2. u \in Units
  BY UlpIsUnit, SMT DEF Digits
<1>3. x[1] \in Nat /\ x[2] \in Nat /\ x[3] \in Nat /\ x[4] \in Nat
  BY SMT DEF Digits, Digit, B
<1>4. x[4] - rest \in Nat /\ rest \in Nat /\ rest <= 512
  <2> HIDE DEF u
  <2>1. \A v \in Units : x[4] - (x[4] % v) \in Nat /\ x[4] % v \in Nat /\ x[4] % v <= 512
    BY <1>3 DEF Units
  <2> QED BY <1>2, <2>1
<1>5. u \in Nat /\ u <= 512
  BY <1>2 DEF Units
<1> HIDE DEF u, rest, up
<1>6. PICK d \in Int : d = x[4] - rest + (IF up THEN u ELSE 0)
  BY <1>4, <1>5
<1>7. d \in Nat /\ d <= x[4] + 512 /\ x[4] <= d + 512
  BY <1>3, <1>4, <1>5, <1>6
<1>8. y[1] = x[1] /\ y[2] = x[2] /\ y[3] = x[3] /\ y[4] = d
  BY <1>6
<1> HIDE DEF y
<1>9. Value(Normal(y)) = Value(y) /\ Normal(y)[1] >= y[1]
  BY <1>3, <1>7, <1>8, NormalValue
<1>10. Value(y) <= Value(x) + 512 /\ Value(x) <= Value(y) + 512
  BY <1>3, <1>7, <1>8, SMT DEF Value, B
<1> QED BY <1>1, <1>8, <1>9, <1>10

LEMMA AddValue ==
  ASSUME NEW x, NEW y, Digits(x), Digits(y)
  PROVE  /\ Add(x, y)[1] >= x[1] + y[1]
         /\ Value(Add(x, y)) <= Value(x) + Value(y) + 512
         /\ Value(x) + Value(y) <= Value(Add(x, y)) + 512
<1>1. PICK z : z = [i \in 1 .. 4 |-> x[i] + y[i]]
  OBVIOUS
<1>2. z[1] = x[1] + y[1] /\ z[2] = x[2] + y[2] /\ z[3] = x[3] + y[3] /\ z[4] = x[4] + y[4]
  BY <1>1
<1>3. /\ x[1] \in Nat /\ x[2] \in Nat /\ x[3] \in Nat /\ x[4] \in Nat
      /\ y[1] \in Nat /\ y[2] \in Nat /\ y[3] \in Nat /\ y[4] \in Nat
  BY SMT DEF Digits, Digit, B
<1>4. PICK n : n = Normal(z)
  OBVIOUS
<1>5. Digits(n) /\ Value(n) = Value(z) /\ n[1] >= z[1]
  BY <1>2, <1>3, <1>4, NormalDigits, NormalValue
<1>6. Value(z) = Value(x) + Value(y)
  BY <1>2, <1>3, SMT DEF Value, B
<1>7. Add(x, y) = RoundDouble(n, FALSE)
  BY <1>1, <1>4 DEF Add
<1>8. PICK r : r = RoundDouble(n, FALSE)
  OBVIOUS
<1>9. r[1] >= n[1] /\ Value(r) <= Value(n) + 512 /\ Value(n) <= Value(r) + 512
  BY <1>5, <1>8, RoundValue, ZenonT(60)
<1>10. Digits(r) /\ Value(r) \in Nat /\ Value(x) \in Nat /\ Value(y) \in Nat
  BY <1>5, <1>8, RoundDigits, ConsistentValue
<1>11. r[1] \in Nat /\ n[1] \in Nat
  BY <1>5, <1>10, SMT DEF Digits
<1>12. /\ r[1] >= x[1] + y[1]
       /\ Value(r) <= Value(x) + Value(y) + 512 /\ Value(x) + Value(y) <= Value(r) + 512
  BY <1>2, <1>3, <1>5, <1>6, <1>9, <1>10, <1>11
<1> QED BY <1>7, <1>8, <1>12, ZenonT(60)

-----------------------------------------------------------------------------
LEMMA TimesKeepsOrder ==
  ASSUME NEW m \in Nat, NEW x \in Int, NEW y \in Int, x <= y
  PROVE  m * x <= m * y
<1>1. m * (y - x) >= 0
  BY SMT
<1> QED BY <1>1, SMT

LEMMA Division ==
  ASSUME NEW m \in Nat, NEW n \in 1 .. 128
  PROVE  /\ m = n * (m \div n) + (m % n) /\ m \div n \in Nat /\ m % n \in 0 .. n - 1
BY SMT

(* The double for an implied probability is a unit or two off, n times it  *)
(* as much more.                                                           *)
LEMMA ProbabilityValue ==
  ASSUME NEW n \in 3 .. 128
  PROVE  /\ n * Value(ImpliedProbability(n)) <= 2 * Unit + 513 * n
         /\ 2 * Unit <= n * Value(ImpliedProbability(n)) + 513 * n
<1> DEFINE r1 == (2 * B) % n
           r2 == (r1 * B) % n
           q1 == (2 * B) \div n
           q2 == (r1 * B) \div n
           q3 == (r2 * B) \div n
           r3 == (r2 * B) % n
           x  == <<0, q1, q2, q3>>
<1>1. ImpliedProbability(n) = RoundDouble(x, r3 # 0)
  BY SMT DEF ImpliedProbability, Reciprocal
<1>2. B \in Nat /\ n \in 1 .. 128
  BY SMT DEF B
<1>3. 2 * B = n * q1 + r1 /\ q1 \in Nat /\ r1 \in 0 .. n - 1
  <2>1. 2 * B \in Nat
    BY <1>2
  <2> QED BY <1>2, <2>1, Division
<1> HIDE DEF r1, q1
<1>4. r1 * B = n * q2 + r2 /\ q2 \in Nat /\ r2 \in 0 .. n - 1
  <2>1. r1 * B \in Nat
    BY <1>3, SMT DEF B
  <2> QED BY <1>2, <2>1, Division
<1> HIDE DEF r2, q2
<1>5. r2 * B = n * q3 + r3 /\ q3 \in Nat /\ r3 \in 0 .. n - 1
  <2>1. r2 * B \in Nat
    BY <1>4, SMT DEF B
  <2> QED BY <1>2, <2>1, Division
<1> HIDE DEF r3, q3
(* The quotient is a number below one.                                     *)
<1>6. Digits(x)
  <2>1. ASSUME NEW q \in Nat, NEW r \in 0 .. n - 1, NEW s \in Nat, r * B = n * q + s PROVE q < B
    <3>1. SUFFICES ASSUME B <= q PROVE FALSE
      BY <2>1, SMT DEF B
    <3>2. n * B <= n * q
      BY <1>2, <3>1, TimesKeepsOrder
    <3>3. n * q <= r * B
      <4>1. n * q \in Int
        OBVIOUS
      <4> QED BY <2>1, <4>1, SMT DEF B
    <3>4. r * B <= n * B - B
      BY SMT DEF B
    <3> QED BY <3>2, <3>3, <3>4, SMT DEF B
  <2>2. q1 < B
    <3>1. SUFFICES ASSUME B <= q1 PROVE FALSE
      BY <1>3, SMT DEF B
    <3>2. n * B <= n * q1
      BY <1>2, <1>3, <3>1, TimesKeepsOrder
    <3>3. n * q1 \in Int /\ n * q1 <= 2 * B
      BY <1>3, SMT DEF B
    <3> QED BY <3>2, <3>3, SMT DEF B
  <2>3. q2 < B
    BY <1>3, <1>4, <2>1
  <2>4. q3 < B
    BY <1>4, <1>5, <2>1
  <2> QED BY <1>3, <1>4, <1>5, <2>2, <2>3, <2>4 DEF Digits, Digit
<1>7. n * Value(x) = 2 * Unit - r3
  <2>1. Value(x) = q3 + B * (q2 + B * q1)
    BY <1>3, <1>4, <1>5, SMT DEF Value, B
  <2>2. n * Value(x) = n * q3 + B * (n * q2 + B * (n * q1))
    BY <1>3, <1>4, <1>5, <2>1, SMT DEF B
  <2>3. n * q1 = 2 * B - r1 /\ n * q2 = r1 * B - r2 /\ n * q3 = r2 * B - r3
    <3>1. n * q1 \in Int /\ n * q2 \in Int /\ n * q3 \in Int
      BY <1>3, <1>4, <1>5
    <3> QED BY <1>3, <1>4, <1>5, <3>1, SMT DEF B
  <2> QED BY <1>3, <1>4, <1>5, <2>2, <2>3, SMT DEF Unit, B
<1>8. PICK p : p = ImpliedProbability(n)
  OBVIOUS
<1>9. Value(p) <= Value(x) + 512 /\ Value(x) <= Value(p) + 512
  <2>1. PICK sticky \in BOOLEAN : p = RoundDouble(x, sticky)
    BY <1>1, <1>8
  <2> HIDE DEF x
  <2> QED BY <1>6, <2>1, RoundValue
<1>10. Value(p) \in Nat /\ Value(x) \in Nat
  <2>1. Digits(p)
    BY <1>1, <1>6, <1>8, RoundDigits
  <2> QED BY <1>6, <2>1, ConsistentValue
<1> HIDE DEF x
<1>11. n * Value(p) <= n * (Value(x) + 512) /\ n * Value(x) <= n * (Value(p) + 512)
  BY <1>9, <1>10, TimesKeepsOrder
<1>12. /\ n * (Value(x) + 512) = n * Value(x) + 512 * n
       /\ n * (Value(p) + 512) = n * Value(p) + 512 * n
  BY <1>10, SMT
<1>13. n * Value(p) \in Int /\ Unit \in Int
  BY <1>10, UnitIs, SMT
<1>14. n * Value(p) <= 2 * Unit + 513 * n /\ 2 * Unit <= n * Value(p) + 513 * n
  BY <1>5, <1>7, <1>11, <1>12, <1>13
<1> QED BY <1>8, <1>14

(* Odds of at most 1 make the sum at least 1, other odds make it what it   *)
(* should be but for a few units.                                          *)
OneOf(n, p) ==
  /\ Digits(p) /\ Value(p) \in Nat
  /\ n <= 2 => p[1] >= 1
  /\ n > 2 => n * Value(p) <= 2 * Unit + 513 * n /\ 2 * Unit <= n * Value(p) + 513 * n

LEMMA ProbabilityIs ==
  ASSUME NEW n \in 1 .. 128
  PROVE  OneOf(n, ImpliedProbability(n))
<1>1. PICK p : p = ImpliedProbability(n)
  OBVIOUS
<1>2. Digits(p) /\ Value(p) \in Nat
  BY <1>1, ProbabilityDigits, ConsistentValue
<1>3. n <= 2 => p[1] >= 1
  BY <1>1, SMT DEF ImpliedProbability, One
<1>4. n > 2 => n * Value(p) <= 2 * Unit + 513 * n /\ 2 * Unit <= n * Value(p) + 513 * n
  <2>1. SUFFICES ASSUME n > 2
                 PROVE  n * Value(p) <= 2 * Unit + 513 * n /\ 2 * Unit <= n * Value(p) + 513 * n
    OBVIOUS
  <2>2. n \in 3 .. 128
    BY <2>1
  <2> QED BY <1>1, <2>2, ProbabilityValue
<1> QED BY <1>1, <1>2, <1>3, <1>4 DEF OneOf

(* What is summed up of a market whose doubles are p, q and perhaps r.     *)
LEMMA ZeroIs == Digits(Zero) /\ Zero[1] = 0 /\ Value(Zero) = 0
BY SMT DEF Zero, Digits, Digit, Value, B

LEMMA AddOn ==
  ASSUME NEW s, Digits(s), NEW p, Digits(p), NEW w \in Nat, NEW d \in Nat, 
         Value(s) <= w + d, w <= Value(s) + d
  PROVE  /\ Digits(Add(s, p)) /\ Add(s, p)[1] >= s[1] /\ Add(s, p)[1] >= p[1]
         /\ Value(Add(s, p)) <= w + Value(p) + (d + 512)
         /\ w + Value(p) <= Value(Add(s, p)) + (d + 512)
<1>1. PICK t : t = Add(s, p)
  OBVIOUS
<1>2. Digits(t)
  BY <1>1, AddDigits
<1>3. t[1] >= s[1] + p[1] /\ Value(t) <= Value(s) + Value(p) + 512
      /\ Value(s) + Value(p) <= Value(t) + 512
  BY <1>1, AddValue
<1>4. Value(s) \in Nat /\ Value(p) \in Nat /\ Value(t) \in Nat
  BY <1>2, ConsistentValue
<1>5. s[1] \in Nat /\ p[1] \in Nat /\ t[1] \in Nat
  BY <1>2, SMT DEF Digits
<1>6. t[1] >= s[1] /\ t[1] >= p[1]
  BY <1>3, <1>5
<1>7. Value(t) <= w + Value(p) + (d + 512) /\ w + Value(p) <= Value(t) + (d + 512)
  BY <1>3, <1>4
<1> QED BY <1>1, <1>2, <1>6, <1>7

LEMMA SumOfTwo ==
  ASSUME NEW p, Digits(p), NEW q, Digits(q), NEW sum, sum = Add(Add(Zero, p), q)
  PROVE  /\ Digits(sum) /\ sum[1] >= p[1] /\ sum[1] >= q[1]
         /\ Value(sum) <= Value(p) + Value(q) + 1536
         /\ Value(p) + Value(q) <= Value(sum) + 1536
<1>1. PICK s : s = Add(Zero, p)
  OBVIOUS
<1>2. Value(p) \in Nat /\ Value(q) \in Nat
  BY ConsistentValue
<1>3. Digits(s) /\ s[1] >= p[1] /\ Value(s) <= Value(p) + 512 /\ Value(p) <= Value(s) + 512
  <2>1. Digits(Zero) /\ Value(Zero) <= 0 + 0 /\ 0 <= Value(Zero) + 0
    BY ZeroIs
  <2>2. /\ Digits(Add(Zero, p)) /\ Add(Zero, p)[1] >= p[1]
        /\ Value(Add(Zero, p)) <= 0 + Value(p) + (0 + 512)
        /\ 0 + Value(p) <= Value(Add(Zero, p)) + (0 + 512)
    BY <2>1, AddOn
  <2> QED BY <1>1, <1>2, <2>2
<1>4. /\ Digits(sum) /\ sum[1] >= s[1] /\ sum[1] >= q[1]
      /\ Value(sum) <= Value(p) + Value(q) + (512 + 512)
      /\ Value(p) + Value(q) <= Value(sum) + (512 + 512)
  BY <1>1, <1>2, <1>3, AddOn
<1>5. s[1] \in Nat /\ p[1] \in Nat /\ sum[1] \in Nat /\ Value(sum) \in Nat
  BY <1>3, <1>4, ConsistentValue, SMT DEF Digits
<1> QED BY <1>2, <1>3, <1>4, <1>5

LEMMA SumOfThree ==
  ASSUME NEW p, Digits(p), NEW q, Digits(q), NEW r, Digits(r),
         NEW sum, sum = Add(Add(Add(Zero, p), q), r)
  PROVE  /\ Digits(sum) /\ sum[1] >= p[1] /\ sum[1] >= q[1] /\ sum[1] >= r[1]
         /\ Value(sum) <= Value(p) + Value(q) + Value(r) + 2048
         /\ Value(p) + Value(q) + Value(r) <= Value(sum) + 2048
<1>1. PICK s : s = Add(Add(Zero, p), q)
  OBVIOUS
<1>2. /\ Digits(s) /\ s[1] >= p[1] /\ s[1] >= q[1]
      /\ Value(s) <= Value(p) + Value(q) + 1536 /\ Value(p) + Value(q) <= Value(s) + 1536
  BY <1>1, SumOfTwo
<1>3. Value(p) \in Nat /\ Value(q) \in Nat /\ Value(r) \in Nat /\ Value(p) + Value(q) \in Nat
  BY ConsistentValue
<1>4. PICK w \in Nat : w = Value(p) + Value(q)
  BY <1>3
<1>5. /\ Digits(sum) /\ sum[1] >= s[1] /\ sum[1] >= r[1]
      /\ Value(sum) <= w + Value(r) + (1536 + 512) /\ w + Value(r) <= Value(sum) + (1536 + 512)
  BY <1>1, <1>2, <1>4, AddOn
<1>6. s[1] \in Nat /\ p[1] \in Nat /\ q[1] \in Nat /\ sum[1] \in Nat /\ Value(sum) \in Nat
  BY <1>2, <1>5, ConsistentValue, SMT DEF Digits
<1> QED BY <1>2, <1>3, <1>4, <1>5, <1>6

-----------------------------------------------------------------------------
(* With weights in proportion to the implied probabilities, a fraction     *)
(* becomes a natural number: w * n is the product of all the odds.         *)
LEMMA WeighedValue ==
  ASSUME NEW n \in 3 .. 128, NEW w \in Nat, NEW p, OneOf(n, p)
  PROVE  /\ (w * n) * Value(p) <= 2 * (Unit * w) + 513 * (w * n)
         /\ 2 * (Unit * w) <= (w * n) * Value(p) + 513 * (w * n)
<1>1. PICK v \in Nat : v = Value(p)
  BY DEF OneOf
<1>2. PICK U \in Nat : U = Unit
  BY UnitIs, SMT
<1>3. n * v <= 2 * U + 513 * n /\ 2 * U <= n * v + 513 * n
  BY <1>1, <1>2 DEF OneOf
<1>4. w * (n * v) <= w * (2 * U + 513 * n) /\ w * (2 * U) <= w * (n * v + 513 * n)
  BY <1>3, TimesKeepsOrder
<1>5. /\ w * (n * v) = (w * n) * v
      /\ w * (2 * U + 513 * n) = 2 * (U * w) + 513 * (w * n)
      /\ w * (2 * U) = 2 * (U * w)
      /\ w * (n * v + 513 * n) = (w * n) * v + 513 * (w * n)
  BY SMT
<1> QED BY <1>1, <1>2, <1>4, <1>5

Slack == 4000

(* The product of the odds is too small for a few units to blur on which   *)
(* side of 1 the exact sum is.                                             *)
LEMMA UnitsDoNotBlur ==
  ASSUME NEW P \in Nat, P > 0, P <= 128 * 128 * 128, NEW W \in Nat, NEW v \in Nat,
         P * v <= 2 * (Unit * W) + Slack * P, 2 * (Unit * W) <= P * v + Slack * P
  PROVE  (P > 2 * W => v < Unit) /\ (P < 2 * W => v >= Unit)
<1>1. PICK U \in Nat : U = Unit /\ U > Slack * (128 * 128 * 128)
  BY UnitIs, SMT DEF Slack
<1>2. U * W \in Nat /\ P * v \in Nat /\ U * P \in Nat
  BY SMT
<1>3. ASSUME P > 2 * W, U <= v PROVE FALSE
  <2>1. P * U <= P * v
    BY <1>1, <1>3, TimesKeepsOrder, SMT
  <2>2. U * (2 * W + 1) <= U * P
    BY <1>1, <1>3, TimesKeepsOrder, SMT
  <2>3. U * (2 * W + 1) = 2 * (U * W) + U /\ P * U = U * P
    BY SMT
  <2> QED BY <1>1, <1>2, <2>1, <2>2, <2>3, SMT DEF Slack
<1>4. ASSUME P < 2 * W, v < U PROVE FALSE
  <2>1. P * v <= P * U
    BY <1>1, <1>4, TimesKeepsOrder, SMT
  <2>2. U * (P + 1) <= U * (2 * W)
    BY <1>1, <1>4, TimesKeepsOrder, SMT
  <2>3. U * (P + 1) = U * P + U /\ U * (2 * W) = 2 * (U * W) /\ P * U = U * P
    BY SMT
  <2> QED BY <1>1, <1>2, <2>1, <2>2, <2>3, SMT DEF Slack
<1> QED BY <1>1, <1>3, <1>4, SMT

(* What a stake that wins says of its share of the cost.                   *)
LEMMA WinningStake ==
  ASSUME NEW n \in 1 .. 128, NEW w \in Nat \ {0}, NEW s \in Nat, NEW c \in Nat, n * s > 2 * c
  PROVE  (w * n) * s > 2 * (c * w) /\ s > 0
<1>1. w * (2 * c + 1) <= w * (n * s)
  BY TimesKeepsOrder
<1>2. w * (2 * c + 1) = 2 * (c * w) + w /\ w * (n * s) = (w * n) * s
  BY SMT
<1>3. s # 0
  BY SMT
<1>4. c * w \in Nat /\ (w * n) * s \in Nat
  BY SMT
<1> QED BY <1>1, <1>2, <1>3, <1>4

LEMMA CostsTooMuch ==
  ASSUME NEW P \in Nat, NEW W \in Nat, NEW c \in Nat, P * c > 2 * (c * W)
  PROVE  P > 2 * W
<1> SUFFICES ASSUME P <= 2 * W PROVE FALSE
  OBVIOUS
<1>1. c * P <= c * (2 * W)
  BY TimesKeepsOrder
<1>2. c * P = P * c /\ c * (2 * W) = 2 * (c * W)
  BY SMT
<1> QED BY <1>1, <1>2, SMT

LEMMA QuotientOfProduct ==
  ASSUME NEW n \in 1 .. 128, NEW w \in Nat
  PROVE  (w * n) \div n = w
<1>1. PICK m \in Nat : m = w * n
  BY SMT
<1>2. m = n * (m \div n) + (m % n) /\ m \div n \in Nat /\ m % n \in 0 .. n - 1
  BY <1>1, Division
<1>3. PICK q \in Nat : q = m \div n
  BY <1>2
<1>4. n * q <= w * n /\ w * n < n * q + n
  BY <1>1, <1>2, <1>3, SMT
<1>5. ~ (q < w)
  <2>1. SUFFICES ASSUME q + 1 <= w PROVE FALSE
    BY SMT
  <2>2. n * (q + 1) <= n * w
    BY <2>1, TimesKeepsOrder
  <2> QED BY <1>4, <2>2, SMT
<1>6. ~ (w < q)
  <2>1. SUFFICES ASSUME w + 1 <= q PROVE FALSE
    BY SMT
  <2>2. n * (w + 1) <= n * q
    BY <2>1, TimesKeepsOrder
  <2> QED BY <1>4, <2>2, SMT
<1> QED BY <1>1, <1>3, <1>5, <1>6

-----------------------------------------------------------------------------
(* A market has two outcomes or three.                                     *)
LEMMA TwoOrThree ==
  ASSUME odds \in OddsVectors
  PROVE  /\ \A i \in Indices : odds[i] \in 1 .. 128
         /\ Len(odds) \in {2, 3} /\ Indices = 1 .. Len(odds)
<1>1. PICK n \in {2, 3} : odds \in [1 .. n -> 1 .. 128]
  BY OddsAssumption
<1>2. odds \in Seq(1 .. 128) /\ Len(odds) = n
  BY <1>1
<1> QED BY <1>1, <1>2 DEF Indices

(* The two loops, of the check and of the reference, step by step.         *)
LEMMA SummedIs ==
  ASSUME odds \in OddsVectors
  PROVE  \E g : /\ Summed(odds) = g[Len(odds)] /\ g[0] = Zero
                /\ \A i \in 1 .. Len(odds) : g[i] = Add(g[i - 1], ImpliedProbability(odds[i]))
<1> DEFINE n   == Len(odds)
           sum == CHOOSE g : g = SumsOf(odds, g, n)
<1>1. n \in Nat
  BY TwoOrThree
<1>2. Summed(odds) = sum[n]
  BY DEF Summed, SumsOf
<1> HIDE DEF n
<1>3. sum = SumsOf(odds, sum, n)
  BY <1>1, SumsExist
<1> HIDE DEF sum
<1>4. \A i \in 0 .. n : sum[i] = IF i = 0 THEN Zero ELSE Add(sum[i - 1], ImpliedProbability(odds[i]))
  BY <1>3, Zenon DEF SumsOf
<1>5. sum[0] = Zero
  BY <1>1, <1>4
<1>6. \A i \in 1 .. n : sum[i] = Add(sum[i - 1], ImpliedProbability(odds[i]))
  BY <1>1, <1>4
<1> QED BY <1>2, <1>5, <1>6 DEF n

ProductsOf(g, n) == [i \in 0 .. n |-> IF i = 0 THEN 1 ELSE g[i - 1] * odds[i]]

LEMMA ProductIs ==
  ASSUME odds \in OddsVectors
  PROVE  \E g : /\ Product = g[Len(odds)] /\ g[0] = 1
                /\ \A i \in 1 .. Len(odds) : g[i] = g[i - 1] * odds[i]
<1> DEFINE n       == Len(odds)
           product == CHOOSE g : g = ProductsOf(g, n)
<1>1. n \in {2, 3}
  BY TwoOrThree
<1>2. Product = product[n]
  BY DEF Product, ProductsOf
<1> HIDE DEF n
<1>3. \E g : g = ProductsOf(g, n)
  <2> DEFINE h == [i \in 0 .. n |-> IF i = 0 THEN 1
                                    ELSE IF i = 1 THEN 1 * odds[1]
                                    ELSE IF i = 2 THEN (1 * odds[1]) * odds[2]
                                    ELSE ((1 * odds[1]) * odds[2]) * odds[3]]
  <2>1. ASSUME NEW i \in 0 .. n PROVE h[i] = IF i = 0 THEN 1 ELSE h[i - 1] * odds[i]
    <3>1. i \in {0, 1, 2, 3}
      BY <1>1
    <3>2. CASE i = 0
      BY <3>2, <1>1
    <3>3. CASE i = 1
      BY <3>3, <1>1
    <3>4. CASE i = 2
      BY <3>4, <1>1
    <3>5. CASE i = 3
      BY <3>5, <1>1
    <3> QED BY <3>1, <3>2, <3>3, <3>4, <3>5
  <2>2. h = ProductsOf(h, n)
    BY <2>1, Zenon DEF ProductsOf
  <2> QED BY <2>2
<1>4. product = ProductsOf(product, n)
  BY <1>3
<1> HIDE DEF product
<1>5. \A i \in 0 .. n : product[i] = IF i = 0 THEN 1 ELSE product[i - 1] * odds[i]
  BY <1>4, Zenon DEF ProductsOf
<1>6. product[0] = 1
  BY <1>1, <1>5
<1>7. \A i \in 1 .. n : product[i] = product[i - 1] * odds[i]
  BY <1>1, <1>5
<1> QED BY <1>2, <1>6, <1>7 DEF n

LEMMA FiniteIndices ==
  IsFiniteSet({}) /\ IsFiniteSet({2}) /\ IsFiniteSet({1, 2}) /\ IsFiniteSet({1, 2, 3})
<1>1. IsFiniteSet({})
  BY FS_EmptySet
<1>2. IsFiniteSet({} \cup {2}) /\ {} \cup {2} = {2}
  BY <1>1, FS_AddElement
<1>3. IsFiniteSet({2} \cup {1}) /\ {2} \cup {1} = {1, 2}
  <2>1. IsFiniteSet({2})
    BY <1>2, Zenon
  <2> QED BY <2>1, FS_AddElement
<1>4. IsFiniteSet({1, 2} \cup {3}) /\ {1, 2} \cup {3} = {1, 2, 3}
  <2>1. IsFiniteSet({1, 2})
    BY <1>3, Zenon
  <2> QED BY <2>1, FS_AddElement
<1> QED BY <1>1, <1>2, <1>3, <1>4, Zenon

LEMMA StakesOfTwo ==
  ASSUME NEW f, f[1] \in Nat, f[2] \in Nat
  PROVE  SumFunctionOnSet(f, {1, 2}) = f[1] + f[2]
<1>1. IsFiniteSet({1, 2}) /\ IsFiniteSet({2}) /\ IsFiniteSet({})
  BY FiniteIndices
<1>2. {1, 2} \ {1} = {2} /\ {2} \ {2} = {}
  OBVIOUS
<1>3. SumFunctionOnSet(f, {1, 2}) = f[1] + SumFunctionOnSet(f, {2})
  <2>1. SumFunctionOnSet(f, {1, 2}) = f[1] + SumFunctionOnSet(f, {1, 2} \ {1})
    BY <1>1, SumRemove
  <2> QED BY <1>2, <2>1, Zenon
<1>4. SumFunctionOnSet(f, {2}) = f[2] + SumFunctionOnSet(f, {})
  <2>1. SumFunctionOnSet(f, {2}) = f[2] + SumFunctionOnSet(f, {2} \ {2})
    BY <1>1, SumRemove
  <2> QED BY <1>2, <2>1, Zenon
<1>5. PICK z : z = SumFunctionOnSet(f, {}) /\ z = 0
  BY <1>1, SumEquations
<1>6. SumFunctionOnSet(f, {2}) = f[2]
  <2>1. SumFunctionOnSet(f, {2}) = f[2] + z
    BY <1>4, <1>5, Zenon
  <2>2. f[2] + z = f[2]
    BY <1>5
  <2> QED BY <2>1, <2>2, Zenon
<1> QED BY <1>3, <1>6, Zenon

LEMMA StakesOfThree ==
  ASSUME NEW f, f[1] \in Nat, f[2] \in Nat, f[3] \in Nat
  PROVE  SumFunctionOnSet(f, {1, 2, 3}) = f[1] + f[2] + f[3]
<1>1. IsFiniteSet({1, 2, 3})
  BY FiniteIndices
<1>2. {1, 2, 3} \ {3} = {1, 2}
  OBVIOUS
<1>3. SumFunctionOnSet(f, {1, 2, 3}) = f[3] + SumFunctionOnSet(f, {1, 2})
  <2>1. SumFunctionOnSet(f, {1, 2, 3}) = f[3] + SumFunctionOnSet(f, {1, 2, 3} \ {3})
    BY <1>1, SumRemove
  <2> QED BY <1>2, <2>1, Zenon
<1>4. SumFunctionOnSet(f, {1, 2, 3}) = f[3] + (f[1] + f[2])
  <2>1. SumFunctionOnSet(f, {1, 2}) = f[1] + f[2]
    BY StakesOfTwo
  <2> QED BY <1>3, <2>1, Zenon
<1>5. f[3] + (f[1] + f[2]) = f[1] + f[2] + f[3]
  OBVIOUS
<1> QED BY <1>4, <1>5, Zenon

-----------------------------------------------------------------------------
(* How far the sum of a market can be from what it should be.              *)
LEMMA TwoWaySum ==
  ASSUME NEW a \in 3 .. 128, NEW b \in 3 .. 128, NEW p, OneOf(a, p), NEW q, OneOf(b, q),
         NEW sum, sum = Add(Add(Zero, p), q)
  PROVE  /\ (a * b) * Value(sum) <= 2 * (Unit * (b + a)) + Slack * (a * b)
         /\ 2 * (Unit * (b + a)) <= (a * b) * Value(sum) + Slack * (a * b)
<1>1. PICK P \in Nat : P = a * b
  BY SMT
<1>2. P = b * a
  BY <1>1, SMT
<1>3. PICK U \in Nat : U = Unit
  BY UnitIs, SMT
<1>4. Digits(p) /\ Digits(q)
  BY DEF OneOf
<1>5. PICK v \in Nat, w \in Nat, x \in Nat : v = Value(p) /\ w = Value(q) /\ x = Value(sum)
  BY <1>4, SumOfTwo, ConsistentValue
<1>6. x <= v + w + 1536 /\ v + w <= x + 1536
  BY <1>4, <1>5, SumOfTwo
<1>7. P * v <= 2 * (U * b) + 513 * P /\ 2 * (U * b) <= P * v + 513 * P
  <2>1. b \in Nat
    OBVIOUS
  <2>2. (b * a) * Value(p) <= 2 * (Unit * b) + 513 * (b * a)
        /\ 2 * (Unit * b) <= (b * a) * Value(p) + 513 * (b * a)
    BY <2>1, WeighedValue, ZenonT(60)
  <2> QED BY <1>2, <1>3, <1>5, <2>2, ZenonT(60)
<1>8. P * w <= 2 * (U * a) + 513 * P /\ 2 * (U * a) <= P * w + 513 * P
  <2>1. a \in Nat
    OBVIOUS
  <2>2. (a * b) * Value(q) <= 2 * (Unit * a) + 513 * (a * b)
        /\ 2 * (Unit * a) <= (a * b) * Value(q) + 513 * (a * b)
    BY <2>1, WeighedValue, ZenonT(60)
  <2> QED BY <1>1, <1>3, <1>5, <2>2, ZenonT(60)
<1>9. P * x <= P * (v + w + 1536) /\ P * (v + w) <= P * (x + 1536)
  BY <1>6, TimesKeepsOrder
<1>10. /\ P * (v + w + 1536) = P * v + P * w + 1536 * P
       /\ P * (v + w) = P * v + P * w /\ P * (x + 1536) = P * x + 1536 * P
       /\ U * (b + a) = U * b + U * a
  BY SMT
<1>11. P * x \in Nat /\ P * v \in Nat /\ P * w \in Nat /\ U * a \in Nat /\ U * b \in Nat
  BY SMT
<1>12. P * x <= 2 * (U * (b + a)) + Slack * P /\ 2 * (U * (b + a)) <= P * x + Slack * P
  BY <1>7, <1>8, <1>9, <1>10, <1>11 DEF Slack
<1> QED BY <1>1, <1>3, <1>5, <1>12, Zenon

LEMMA ThreeWaySum ==
  ASSUME NEW a \in 3 .. 128, NEW b \in 3 .. 128, NEW c \in 3 .. 128,
         NEW p, OneOf(a, p), NEW q, OneOf(b, q), NEW r, OneOf(c, r),
         NEW sum, sum = Add(Add(Add(Zero, p), q), r),
         NEW W, W = b * c + a * c + a * b
  PROVE  /\ ((a * b) * c) * Value(sum) <= 2 * (Unit * W) + Slack * ((a * b) * c)
         /\ 2 * (Unit * W) <= ((a * b) * c) * Value(sum) + Slack * ((a * b) * c)
<1>1. PICK P \in Nat : P = (a * b) * c
  BY SMT
<1>2. PICK f \in Nat, g \in Nat, h \in Nat : f = b * c /\ g = a * c /\ h = a * b
  BY SMT
<1>3. P = f * a /\ P = g * b /\ P = h * c
  BY <1>1, <1>2, SMT
<1>4. PICK U \in Nat : U = Unit
  BY UnitIs, SMT
<1>5. Digits(p) /\ Digits(q) /\ Digits(r)
  BY DEF OneOf
<1>6. PICK u \in Nat, v \in Nat, w \in Nat, x \in Nat :
        u = Value(p) /\ v = Value(q) /\ w = Value(r) /\ x = Value(sum)
  BY <1>5, SumOfThree, ConsistentValue
<1>7. x <= u + v + w + 2048 /\ u + v + w <= x + 2048
  BY <1>5, <1>6, SumOfThree
<1>8. P * u <= 2 * (U * f) + 513 * P /\ 2 * (U * f) <= P * u + 513 * P
  <2>1. (f * a) * Value(p) <= 2 * (Unit * f) + 513 * (f * a)
        /\ 2 * (Unit * f) <= (f * a) * Value(p) + 513 * (f * a)
    BY WeighedValue, ZenonT(60)
  <2> QED BY <1>3, <1>4, <1>6, <2>1, ZenonT(60)
<1>9. P * v <= 2 * (U * g) + 513 * P /\ 2 * (U * g) <= P * v + 513 * P
  <2>1. (g * b) * Value(q) <= 2 * (Unit * g) + 513 * (g * b)
        /\ 2 * (Unit * g) <= (g * b) * Value(q) + 513 * (g * b)
    BY WeighedValue, ZenonT(60)
  <2> QED BY <1>3, <1>4, <1>6, <2>1, ZenonT(60)
<1>10. P * w <= 2 * (U * h) + 513 * P /\ 2 * (U * h) <= P * w + 513 * P
  <2>1. (h * c) * Value(r) <= 2 * (Unit * h) + 513 * (h * c)
        /\ 2 * (Unit * h) <= (h * c) * Value(r) + 513 * (h * c)
    BY WeighedValue, ZenonT(60)
  <2> QED BY <1>3, <1>4, <1>6, <2>1, ZenonT(60)
<1>11. P * x <= P * (u + v + w + 2048) /\ P * (u + v + w) <= P * (x + 2048)
  BY <1>7, TimesKeepsOrder
<1>12. /\ P * (u + v + w + 2048) = P * u + P * v + P * w + 2048 * P
       /\ P * (u + v + w) = P * u + P * v + P * w /\ P * (x + 2048) = P * x + 2048 * P
       /\ U * (f + g + h) = U * f + U * g + U * h
  BY SMT
<1>13. /\ P * x \in Nat /\ P * u \in Nat /\ P * v \in Nat /\ P * w \in Nat
       /\ U * f \in Nat /\ U * g \in Nat /\ U * h \in Nat
  BY SMT
<1>14. P * x <= 2 * (U * (f + g + h)) + Slack * P /\ 2 * (U * (f + g + h)) <= P * x + Slack * P
  BY <1>8, <1>9, <1>10, <1>11, <1>12, <1>13 DEF Slack
<1>15. W = f + g + h
  BY <1>2, Zenon
<1> QED BY <1>1, <1>4, <1>6, <1>14, <1>15, Zenon


-----------------------------------------------------------------------------
(* All that the verdict and the reference have in common: P is the product *)
(* of the odds and W the cost of the proportional stakes, in halves.       *)
IsMarket(P, W, sum) ==
  /\ P \in Nat /\ P > 0 /\ P <= 128 * 128 * 128 /\ W \in Nat /\ Digits(sum)
  /\ P = Product /\ W = SumFunctionOnSet(ProportionalStakes, Indices) /\ sum = Summed(odds)
  /\ \A i \in Indices : odds[i] \in Nat /\ odds[i] * ProportionalStakes[i] = P
  /\ (\A i \in Indices : odds[i] > 2) =>
       P * Value(sum) <= 2 * (Unit * W) + Slack * P /\ 2 * (Unit * W) <= P * Value(sum) + Slack * P
  /\ (\E i \in Indices : odds[i] <= 2) => sum[1] >= 1 /\ P <= 2 * W
  /\ \A s \in Stakes : Profits(s) => P > 2 * W

LEMMA ShortOdds ==
  ASSUME NEW n \in 1 .. 128, n <= 2, NEW w \in Nat
  PROVE  w * n <= 2 * w
<1>1. w * n <= w * 2
  BY TimesKeepsOrder
<1> QED BY <1>1, SMT

LEMMA TwoWayMarket ==
  ASSUME odds \in OddsVectors, Len(odds) = 2
  PROVE  \E P, W, sum : IsMarket(P, W, sum)
<1>1. PICK a \in 1 .. 128, b \in 1 .. 128 : a = odds[1] /\ b = odds[2]
  <2>1. 1 \in Indices /\ 2 \in Indices
    BY TwoOrThree
  <2>2. odds[1] \in 1 .. 128 /\ odds[2] \in 1 .. 128
    BY <2>1, TwoOrThree, Zenon
  <2> QED BY <2>2
<1>2. Indices = 1 .. 2 /\ Indices = {1, 2}
  BY TwoOrThree
<1>3. PICK P \in Nat : P = a * b /\ P > 0 /\ P <= 128 * 128 * 128
  <2>1. a * b \in Nat /\ a * b > 0
    BY SMT
  <2>2. a * b <= a * 128 /\ 128 * a <= 128 * 128
    BY TimesKeepsOrder, SMT
  <2> QED BY <2>1, <2>2, SMT
<1>4. P = b * a
  BY <1>3, SMT
<1>5. Product = P
  <2>1. PICK g : /\ Product = g[2] /\ g[0] = 1
                 /\ \A i \in 1 .. 2 : g[i] = g[i - 1] * odds[i]
    BY ProductIs
  <2>2. g[1] = g[0] * a /\ g[2] = g[1] * b
    BY <1>1, <2>1
  <2>3. g[1] = a
    BY <2>1, <2>2
  <2> QED BY <1>3, <2>1, <2>2, <2>3, Zenon
<1>6. ProportionalStakes[1] = b /\ ProportionalStakes[2] = a
  <2>1. ProportionalStakes[1] = P \div a /\ ProportionalStakes[2] = P \div b
    BY <1>1, <1>2, <1>5 DEF ProportionalStakes
  <2>2. (b * a) \div a = b /\ (a * b) \div b = a
    BY QuotientOfProduct
  <2> QED BY <1>3, <1>4, <2>1, <2>2, Zenon
<1>7. PICK W \in Nat : W = b + a
  OBVIOUS
<1>8. W = SumFunctionOnSet(ProportionalStakes, Indices)
  <2>1. SumFunctionOnSet(ProportionalStakes, {1, 2}) = b + a
    BY <1>6, StakesOfTwo
  <2> QED BY <1>2, <1>7, <2>1, Zenon
<1>9. PICK p, q : p = ImpliedProbability(a) /\ q = ImpliedProbability(b)
  OBVIOUS
<1>10. OneOf(a, p) /\ OneOf(b, q)
  BY <1>9, ProbabilityIs
<1>11. PICK sum : sum = Add(Add(Zero, p), q) /\ sum = Summed(odds)
  <2>1. PICK g : /\ Summed(odds) = g[2] /\ g[0] = Zero
                 /\ \A i \in 1 .. 2 : g[i] = Add(g[i - 1], ImpliedProbability(odds[i]))
    BY SummedIs
  <2>2. g[1] = Add(g[0], p) /\ g[2] = Add(g[1], q)
    BY <1>1, <1>9, <2>1
  <2> QED BY <2>1, <2>2, Zenon
<1>12. Digits(sum) /\ sum[1] >= p[1] /\ sum[1] >= q[1]
  <2>1. Digits(p) /\ Digits(q)
    BY <1>10 DEF OneOf
  <2>2. sum = Add(Add(Zero, p), q)
    BY <1>11
  <2> QED BY <2>1, <2>2, SumOfTwo
<1>13. \A i \in Indices : odds[i] \in Nat /\ odds[i] * ProportionalStakes[i] = P
  <2>1. odds[1] * ProportionalStakes[1] = P /\ odds[2] * ProportionalStakes[2] = P
    BY <1>1, <1>3, <1>4, <1>6, Zenon
  <2>2. odds[1] \in Nat /\ odds[2] \in Nat
    BY <1>1
  <2> QED BY <1>2, <2>1, <2>2, Zenon
<1>14. ASSUME \A i \in Indices : odds[i] > 2
       PROVE  P * Value(sum) <= 2 * (Unit * W) + Slack * P
              /\ 2 * (Unit * W) <= P * Value(sum) + Slack * P
  <2>1. a > 2 /\ b > 2
    BY <1>1, <1>2, <1>14, Zenon
  <2>2. a \in 3 .. 128 /\ b \in 3 .. 128
    BY <2>1, SMTT(60)
  <2>3. /\ (a * b) * Value(sum) <= 2 * (Unit * (b + a)) + Slack * (a * b)
        /\ 2 * (Unit * (b + a)) <= (a * b) * Value(sum) + Slack * (a * b)
    BY <1>10, <1>11, <2>2, TwoWaySum
  <2> QED BY <1>3, <1>7, <2>3, Zenon
<1>15. ASSUME \E i \in Indices : odds[i] <= 2
       PROVE  sum[1] >= 1 /\ P <= 2 * W
  <2>1. a <= 2 \/ b <= 2
    BY <1>1, <1>2, <1>15, Zenon
  <2>2. p[1] >= 1 \/ q[1] >= 1
    BY <1>10, <2>1, Zenon DEF OneOf
  <2>3. p[1] \in Nat /\ q[1] \in Nat /\ sum[1] \in Nat
    BY <1>10, <1>12, Zenon DEF OneOf, Digits
  <2>4. sum[1] >= 1
    BY <1>12, <2>2, <2>3
  <2>5. P <= 2 * b \/ P <= 2 * a
    BY <1>3, <1>4, <2>1, ShortOdds
  <2> QED BY <1>3, <1>7, <2>4, <2>5
<1>16. ASSUME NEW s \in Stakes, Profits(s) PROVE P > 2 * W
  <2>1. s[1] \in Nat /\ s[2] \in Nat
    BY <1>2, OddsAssumption DEF Stakes
  <2>2. PICK c \in Nat : c = s[1] + s[2]
    BY <2>1
  <2>3. SumFunctionOnSet(s, Indices) = c
    <3>1. SumFunctionOnSet(s, {1, 2}) = s[1] + s[2]
      BY <2>1, StakesOfTwo
    <3> QED BY <1>2, <2>2, <3>1, Zenon
  <2>4. a * s[1] > 2 * c /\ b * s[2] > 2 * c
    BY <1>1, <1>2, <1>16, <2>3, Zenon DEF Profits
  <2>5. (b * a) * s[1] > 2 * (c * b) /\ (a * b) * s[2] > 2 * (c * a)
    <3>1. PICK x \in Nat, y \in Nat : x = s[1] /\ y = s[2]
      BY <2>1
    <3>2. a * x > 2 * c /\ b * y > 2 * c
      BY <2>4, <3>1
    <3>3. a \in Nat \ {0} /\ b \in Nat \ {0}
      OBVIOUS
    <3>4. (b * a) * x > 2 * (c * b)
      BY <3>2, <3>3, WinningStake
    <3>5. (a * b) * y > 2 * (c * a)
      BY <3>2, <3>3, WinningStake
    <3> QED BY <3>1, <3>4, <3>5, Zenon
  <2>6. P * s[1] > 2 * (c * b) /\ P * s[2] > 2 * (c * a)
    BY <1>3, <1>4, <2>5, Zenon
  <2>7. P * c = P * s[1] + P * s[2] /\ c * W = c * b + c * a
    BY <1>7, <2>1, <2>2, SMT
  <2>8. P * s[1] \in Nat /\ P * s[2] \in Nat /\ c * b \in Nat /\ c * a \in Nat
    BY <2>1, SMT
  <2>9. P * c > 2 * (c * W)
    BY <2>6, <2>7, <2>8
  <2> QED BY <2>9, CostsTooMuch
<1>17. IsMarket(P, W, sum)
  BY <1>3, <1>5, <1>8, <1>11, <1>12, <1>13, <1>14, <1>15, <1>16, SMT DEF IsMarket
<1> QED BY <1>17

LEMMA ThreeWayMarket ==
  ASSUME odds \in OddsVectors, Len(odds) = 3
  PROVE  \E P, W, sum : IsMarket(P, W, sum)
<1>1. PICK a \in 1 .. 128, b \in 1 .. 128, c \in 1 .. 128 :
        a = odds[1] /\ b = odds[2] /\ c = odds[3]
  <2>1. 1 \in Indices /\ 2 \in Indices /\ 3 \in Indices
    BY TwoOrThree
  <2>2. odds[1] \in 1 .. 128 /\ odds[2] \in 1 .. 128 /\ odds[3] \in 1 .. 128
    BY <2>1, TwoOrThree, Zenon
  <2> QED BY <2>2
<1>2. Indices = 1 .. 3 /\ Indices = {1, 2, 3}
  BY TwoOrThree
<1>3. PICK f \in Nat, g \in Nat, h \in Nat :
        f = b * c /\ g = a * c /\ h = a * b /\ f > 0 /\ g > 0 /\ h > 0 /\ h <= 128 * 128
  <2>1. b * c \in Nat /\ b * c > 0 /\ a * c \in Nat /\ a * c > 0 /\ a * b \in Nat /\ a * b > 0
    BY SMT
  <2>2. a * b <= a * 128 /\ 128 * a <= 128 * 128
    BY TimesKeepsOrder, SMT
  <2> QED BY <2>1, <2>2, SMT
<1>4. PICK P \in Nat : P = (a * b) * c /\ P > 0 /\ P <= 128 * 128 * 128
  <2>1. h * c \in Nat /\ h * c > 0
    BY <1>3, SMT
  <2>2. h * c <= h * 128 /\ 128 * h <= 128 * (128 * 128)
    BY <1>3, TimesKeepsOrder, SMT
  <2> QED BY <1>3, <2>1, <2>2, SMTT(60)
<1>5. P = f * a /\ P = g * b /\ P = h * c
  BY <1>3, <1>4, SMT
<1>6. Product = P
  <2>1. PICK k : /\ Product = k[3] /\ k[0] = 1
                 /\ \A i \in 1 .. 3 : k[i] = k[i - 1] * odds[i]
    BY ProductIs
  <2>2. k[1] = k[0] * a /\ k[2] = k[1] * b /\ k[3] = k[2] * c
    BY <1>1, <2>1
  <2>3. k[1] = a
    BY <2>1, <2>2
  <2> QED BY <1>4, <2>1, <2>2, <2>3, Zenon
<1>7. ProportionalStakes[1] = f /\ ProportionalStakes[2] = g /\ ProportionalStakes[3] = h
  <2>1. /\ ProportionalStakes[1] = P \div a /\ ProportionalStakes[2] = P \div b
        /\ ProportionalStakes[3] = P \div c
    BY <1>1, <1>2, <1>6 DEF ProportionalStakes
  <2>2. (f * a) \div a = f /\ (g * b) \div b = g /\ (h * c) \div c = h
    BY QuotientOfProduct
  <2> QED BY <1>5, <2>1, <2>2, Zenon
<1>8. PICK W \in Nat : W = f + g + h
  OBVIOUS
<1>9. W = SumFunctionOnSet(ProportionalStakes, Indices)
  <2>1. SumFunctionOnSet(ProportionalStakes, {1, 2, 3}) = f + g + h
    BY <1>7, StakesOfThree
  <2> QED BY <1>2, <1>8, <2>1, Zenon
<1>10. PICK p, q, r :
         p = ImpliedProbability(a) /\ q = ImpliedProbability(b) /\ r = ImpliedProbability(c)
  OBVIOUS
<1>11. OneOf(a, p) /\ OneOf(b, q) /\ OneOf(c, r)
  BY <1>10, ProbabilityIs
<1>12. PICK sum : sum = Add(Add(Add(Zero, p), q), r) /\ sum = Summed(odds)
  <2>1. PICK k : /\ Summed(odds) = k[3] /\ k[0] = Zero
                 /\ \A i \in 1 .. 3 : k[i] = Add(k[i - 1], ImpliedProbability(odds[i]))
    BY SummedIs
  <2>2. k[1] = Add(k[0], p) /\ k[2] = Add(k[1], q) /\ k[3] = Add(k[2], r)
    BY <1>1, <1>10, <2>1
  <2> QED BY <2>1, <2>2, Zenon
<1>13. Digits(sum) /\ sum[1] >= p[1] /\ sum[1] >= q[1] /\ sum[1] >= r[1]
  <2>1. Digits(p) /\ Digits(q) /\ Digits(r)
    BY <1>11 DEF OneOf
  <2>2. sum = Add(Add(Add(Zero, p), q), r)
    BY <1>12
  <2> QED BY <2>1, <2>2, SumOfThree
<1>14. \A i \in Indices : odds[i] \in Nat /\ odds[i] * ProportionalStakes[i] = P
  <2>1. a * f = f * a /\ b * g = g * b /\ c * h = h * c
    BY SMT
  <2>2. /\ odds[1] * ProportionalStakes[1] = P /\ odds[2] * ProportionalStakes[2] = P
        /\ odds[3] * ProportionalStakes[3] = P
    BY <1>1, <1>5, <1>7, <2>1, Zenon
  <2>3. odds[1] \in Nat /\ odds[2] \in Nat /\ odds[3] \in Nat
    BY <1>1
  <2> QED BY <1>2, <2>2, <2>3, Zenon
<1>15. ASSUME \A i \in Indices : odds[i] > 2
       PROVE  P * Value(sum) <= 2 * (Unit * W) + Slack * P
              /\ 2 * (Unit * W) <= P * Value(sum) + Slack * P
  <2>1. a > 2 /\ b > 2 /\ c > 2
    BY <1>1, <1>2, <1>15, Zenon
  <2>2. a \in 3 .. 128 /\ b \in 3 .. 128 /\ c \in 3 .. 128
    BY <2>1
  <2>3. W = b * c + a * c + a * b
    BY <1>3, <1>8, ZenonT(60)
  <2>4. sum = Add(Add(Add(Zero, p), q), r)
    BY <1>12
  <2>5. /\ ((a * b) * c) * Value(sum) <= 2 * (Unit * W) + Slack * ((a * b) * c)
        /\ 2 * (Unit * W) <= ((a * b) * c) * Value(sum) + Slack * ((a * b) * c)
    BY <1>11, <2>2, <2>3, <2>4, ThreeWaySum
  <2> QED BY <1>4, <2>5, Zenon
<1>16. ASSUME \E i \in Indices : odds[i] <= 2
       PROVE  sum[1] >= 1 /\ P <= 2 * W
  <2>1. a <= 2 \/ b <= 2 \/ c <= 2
    BY <1>1, <1>2, <1>16, Zenon
  <2>2. p[1] >= 1 \/ q[1] >= 1 \/ r[1] >= 1
    BY <1>11, <2>1, Zenon DEF OneOf
  <2>3. p[1] \in Nat /\ q[1] \in Nat /\ r[1] \in Nat /\ sum[1] \in Nat
    BY <1>11, <1>13, Zenon DEF OneOf, Digits
  <2>4. sum[1] >= 1
    BY <1>13, <2>2, <2>3
  <2>5. P <= 2 * f \/ P <= 2 * g \/ P <= 2 * h
    BY <1>5, <2>1, ShortOdds
  <2> QED BY <1>8, <2>4, <2>5
<1>17. ASSUME NEW s \in Stakes, Profits(s) PROVE P > 2 * W
  <2>1. s[1] \in Nat /\ s[2] \in Nat /\ s[3] \in Nat
    BY <1>2, OddsAssumption DEF Stakes
  <2>2. PICK x \in Nat, y \in Nat, z \in Nat : x = s[1] /\ y = s[2] /\ z = s[3]
    BY <2>1
  <2>3. PICK cost \in Nat : cost = x + y + z
    OBVIOUS
  <2>4. SumFunctionOnSet(s, Indices) = cost
    <3>1. SumFunctionOnSet(s, {1, 2, 3}) = s[1] + s[2] + s[3]
      BY <2>1, StakesOfThree
    <3> QED BY <1>2, <2>2, <2>3, <3>1, Zenon
  <2>5. a * s[1] > 2 * cost /\ b * s[2] > 2 * cost /\ c * s[3] > 2 * cost
    BY <1>1, <1>2, <1>17, <2>4, Zenon DEF Profits
  <2>6. a * x > 2 * cost /\ b * y > 2 * cost /\ c * z > 2 * cost
    BY <2>2, <2>5, Zenon
  <2>7. f \in Nat \ {0} /\ g \in Nat \ {0} /\ h \in Nat \ {0}
    BY <1>3
  <2>8. (f * a) * x > 2 * (cost * f)
    BY <2>6, <2>7, WinningStake
  <2>9. (g * b) * y > 2 * (cost * g)
    BY <2>6, <2>7, WinningStake
  <2>10. (h * c) * z > 2 * (cost * h)
    BY <2>6, <2>7, WinningStake
  <2>11. P * x > 2 * (cost * f) /\ P * y > 2 * (cost * g) /\ P * z > 2 * (cost * h)
    BY <1>5, <2>8, <2>9, <2>10, Zenon
  <2>12. P * cost = P * x + P * y + P * z /\ cost * W = cost * f + cost * g + cost * h
    BY <1>8, <2>3, SMT
  <2>13. /\ P * x \in Nat /\ P * y \in Nat /\ P * z \in Nat
         /\ cost * f \in Nat /\ cost * g \in Nat /\ cost * h \in Nat
    BY SMT
  <2>14. P * cost > 2 * (cost * W)
    BY <2>11, <2>12, <2>13
  <2> QED BY <2>14, CostsTooMuch
<1>18. IsMarket(P, W, sum)
  BY <1>4, <1>6, <1>9, <1>12, <1>13, <1>14, <1>15, <1>16, <1>17, SMT DEF IsMarket
<1> QED BY <1>18

-----------------------------------------------------------------------------
(* The check flags a market exactly when it is an arbitrage, whatever its  *)
(* odds and however large the stakes that are tried: the errors of the     *)
(* roundings never reach the distance from 1 of a sum that is not 1.       *)
THEOREM FlagsAreArbitrage == Spec => []FlagMeansArbitrage
<1>1. Checked => FlagMeansArbitrage
  <2> SUFFICES ASSUME Checked, result # None
               PROVE  /\ (\E s \in Stakes : Profits(s)) => ~result.isConsistent
                      /\ ~result.isConsistent => FairBook \/ Profits(ProportionalStakes)
    BY DEF FlagMeansArbitrage
  <2>1. PICK P, W, sum : IsMarket(P, W, sum)
    BY TwoOrThree, TwoWayMarket, ThreeWayMarket DEF Checked
  <2>2. result.isConsistent = IsConsistent(sum)
    <3>1. sum = Summed(odds)
      BY <2>1, Zenon DEF IsMarket
    <3> QED BY <3>1 DEF Checked, CheckConsistency
  <2>3. P \in Nat /\ P > 0 /\ P <= 128 * 128 * 128 /\ W \in Nat /\ Digits(sum)
    BY <2>1, SMT DEF IsMarket
  <2>4. Value(sum) \in Nat /\ (IsConsistent(sum) <=> Value(sum) >= Unit)
    BY <2>3, ConsistentValue
  <2>5. (\E i \in Indices : odds[i] <= 2) => IsConsistent(sum) /\ ~(P > 2 * W)
    <3>1. (\E i \in Indices : odds[i] <= 2) => sum[1] >= 1 /\ P <= 2 * W
      BY <2>1, SMT DEF IsMarket
    <3> QED BY <2>3, <3>1, SMT DEF IsConsistent
  <2>6. (\A i \in Indices : odds[i] > 2) =>
          (P > 2 * W => ~IsConsistent(sum)) /\ (P < 2 * W => IsConsistent(sum))
    <3> SUFFICES ASSUME \A i \in Indices : odds[i] > 2
                 PROVE  (P > 2 * W => ~IsConsistent(sum)) /\ (P < 2 * W => IsConsistent(sum))
      OBVIOUS
    <3>1. PICK v \in Nat : v = Value(sum)
      BY <2>4
    <3>2. P * v <= 2 * (Unit * W) + Slack * P /\ 2 * (Unit * W) <= P * v + Slack * P
      BY <2>1, <3>1, Zenon DEF IsMarket
    <3>3. (P > 2 * W => v < Unit) /\ (P < 2 * W => v >= Unit)
      BY <2>3, <3>2, UnitsDoNotBlur
    <3>4. ~(v < Unit /\ v >= Unit)
      BY UnitIs, SMT
    <3> QED BY <2>4, <3>1, <3>3, <3>4, Zenon
  <2>7. (\A i \in Indices : odds[i] > 2) \/ (\E i \in Indices : odds[i] <= 2)
    <3>1. \A i \in Indices : odds[i] \in Nat
      BY <2>1, Zenon DEF IsMarket
    <3> QED BY <3>1
  <2>8. (\E s \in Stakes : Profits(s)) => P > 2 * W
    BY <2>1, Zenon DEF IsMarket
  <2>9. P > 2 * W => Profits(ProportionalStakes)
    <3>1. W = SumFunctionOnSet(ProportionalStakes, Indices)
          /\ \A i \in Indices : odds[i] * ProportionalStakes[i] = P
      BY <2>1, Zenon DEF IsMarket
    <3> QED BY <3>1, Zenon DEF Profits
  <2>10. P = 2 * W /\ (\A i \in Indices : odds[i] > 2) => FairBook
    <3>1. W = SumFunctionOnSet(ProportionalStakes, Indices) /\ P = Product
      BY <2>1, Zenon DEF IsMarket
    <3> QED BY <3>1, Zenon DEF FairBook
  <2>11. P > 2 * W \/ P = 2 * W \/ P < 2 * W
    BY <2>3, SMT
  <2> QED BY <2>2, <2>5, <2>6, <2>7, <2>8, <2>9, <2>10, <2>11, Zenon
<1> QED BY <1>1, ResultIsChecked, PTL
=============================================================================
