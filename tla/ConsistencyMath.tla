-------------------------- MODULE ConsistencyMath --------------------------
(***************************************************************************)
(* checkConsistency and oddsToProbability of                               *)
(* apps/backend/src/detection, and the margin the OracleClient puts on     *)
(* chain.  The sum of the implied probabilities is compared with 1 in      *)
(* IEEE double arithmetic, so the arithmetic is modelled to the last bit,  *)
(* for decimal odds that are multiples of one half: those are exact        *)
(* doubles, and 1/odds is a quotient of small integers.  Only the margin   *)
(* in basis points is not: where its rounding is a tie, it may go either   *)
(* way.                                                                    *)
(*                                                                         *)
(* A double in [2^-6, 4) is <<w, a, b, c>>: its integer part and three     *)
(* 20-bit digits of its fraction, w + a/2^20 + b/2^40 + c/2^60.            *)
(***************************************************************************)
EXTENDS Integers, Sequences, Functions

CONSTANTS
  OddsVectors,  \* odds of the outcomes of a market, in halves
  MaxStake,     \* bound of the stakes the reference definition tries
  None

(* A covering set is one market of two or three outcomes.  At odds up to   *)
(* 64 the doubles stay in the range above.                                 *)
ASSUME OddsAssumption ==
  /\ OddsVectors \subseteq [1 .. 2 -> 1 .. 128] \cup [1 .. 3 -> 1 .. 128]
  /\ MaxStake \in Nat

VARIABLES odds, result

vars == <<odds, result>>

B == 1048576  \* 2^20

Zero == <<0, 0, 0, 0>>
One  == <<1, 0, 0, 0>>

(* Carry into the next digit. *)
Normal(x) ==
  LET b == x[3] + x[4] \div B
      a == x[2] + b \div B
  IN  <<x[1] + a \div B, a % B, b % B, x[4] % B>>

(* The unit in the last of 53 places of x, as a multiple of 2^-60.         *)
Ulp(x) ==
  IF x[1] >= 2 THEN 512 ELSE IF x[1] = 1 THEN 256
  ELSE CHOOSE u \in {4, 8, 16, 32, 64, 128} :
         x[2] < 8192 * u /\ (u = 4 \/ x[2] >= 4096 * u)

(* Round x, plus a nonzero rest below its last digit if sticky, to nearest *)
(* and to even on a tie.                                                   *)
RoundDouble(x, sticky) ==
  LET u    == Ulp(x)
      rest == x[4] % u
      even == (x[4] \div u) % 2 = 0
      up   == 2 * rest > u \/ (2 * rest = u /\ (sticky \/ ~even))
  IN  Normal(<<x[1], x[2], x[3], x[4] - rest + (IF up THEN u ELSE 0)>>)

Add(x, y) == RoundDouble(Normal([i \in 1 .. 4 |-> x[i] + y[i]]), FALSE)

(* The double nearest to 2 / n, for n > 2: three digits of long division.  *)
Reciprocal(n) ==
  LET r1 == (2 * B) % n
      r2 == (r1 * B) % n
  IN  RoundDouble(<<0, (2 * B) \div n, (r1 * B) \div n, (r2 * B) \div n>>,
                  (r2 * B) % n # 0)

ImpliedProbability(n) == IF n <= 2 THEN One ELSE Reciprocal(n)

(* The loop adds the outcomes of the market in their order. *)
Summed(v) ==
  LET sum[i \in 0 .. Len(v)] ==
        IF i = 0 THEN Zero ELSE Add(sum[i - 1], ImpliedProbability(v[i]))
  IN  sum[Len(v)]

IsConsistentMutant(sum) == sum[1] >= 1 /\ (sum[1] > 1 \/ sum[2] > B \div 20)

IsConsistent(sum) == sum[1] >= 1

(* roundTo(sum - 1, 6), in millionths *)
Times1000(x) == Normal([i \in 1 .. 4 |-> x[i] * 1000])

RoundedMargin(sum) ==
  LET x == Times1000(Times1000(sum))
  IN  x[1] + (IF x[2] >= B \div 2 THEN 1 ELSE 0) - 1000000

(* Math.round(margin * 10000), clamped.  The product is a double: of a     *)
(* margin that ends in half a basis point it may lie just below the half   *)
(* (0.00015 * 10000 is 1.4999999999999998) and is rounded down.            *)
Clamp(x, low, high) == IF x < low THEN low ELSE IF x > high THEN high ELSE x
MarginToBpsMutant(micros, down) ==
  Clamp(((IF micros < 0 THEN -micros ELSE micros) + (IF down THEN 49 ELSE 50)) \div 100, -10000, 10000)
MarginToBps(micros, down) == Clamp((micros + (IF down THEN 49 ELSE 50)) \div 100, -10000, 10000)

CheckConsistency(v, down) ==
  LET sum == Summed(v)
  IN  [isConsistent |-> IsConsistent(sum),
       margin       |-> RoundedMargin(sum),
       marginBps    |-> MarginToBps(RoundedMargin(sum), down)]

Init == odds \in OddsVectors /\ result = None

Check ==
  /\ result = None
  /\ \E down \in BOOLEAN : result' = CheckConsistency(odds, down)
  /\ UNCHANGED odds

Next == Check

Spec == Init /\ [][Next]_vars

-----------------------------------------------------------------------------
(* The reference: exact arithmetic, with no notion of a probability.       *)
Indices == DOMAIN odds
Stakes  == [Indices -> 0 .. MaxStake]

(* Staking s returns more than it costs whichever outcome comes in. *)
Profits(s) ==
  LET cost == SumFunctionOnSet(s, Indices)
  IN  \A i \in Indices : odds[i] * s[i] > 2 * cost

Product ==
  LET product[i \in 0 .. Len(odds)] == IF i = 0 THEN 1 ELSE product[i - 1] * odds[i]
  IN  product[Len(odds)]

(* Stakes in proportion to the implied probabilities, the optimal ones. *)
ProportionalStakes == [i \in Indices |-> Product \div odds[i]]

(* Is the exact sum of the implied probabilities 1? *)
FairBook ==
  /\ \A i \in Indices : odds[i] > 2
  /\ 2 * SumFunctionOnSet(ProportionalStakes, Indices) = Product

(* A market is flagged when and only when it is an arbitrage: if some      *)
(* stakes win on every outcome the check flags it, and what it flags can   *)
(* be won by staking in proportion.  A book that sums to exactly 1 is left *)
(* out: there the last bit decides.                                        *)
FlagMeansArbitrage ==
  result # None =>
    /\ (\E s \in Stakes : Profits(s)) => ~result.isConsistent
    /\ ~result.isConsistent => FairBook \/ Profits(ProportionalStakes)

(* The margin stored with the check and the clamped one sent on chain      *)
(* never contradict the verdict they go with, although the verdict is      *)
(* taken before either is rounded.                                         *)
ReportedMarginAgrees ==
  result # None =>
    /\ result.isConsistent  => result.margin >= 0 /\ result.marginBps >= 0
    /\ ~result.isConsistent => result.margin <= 0 /\ result.marginBps <= 0

(* TESTING_REPORT.md: at the exact threshold a market is consistent.       *)
ExactThresholdIsConsistent ==
  result # None /\ FairBook => result.isConsistent
=============================================================================
